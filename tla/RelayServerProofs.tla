--------------------------- MODULE RelayServerProofs ---------------------------
(***************************************************************************)
(* Proofs about RelayServer for every set of requests, keys and blobs and  *)
(* every capacity of the store and of the gate.                            *)
(***************************************************************************)
EXTENDS RelayServer, RelayStoreProofs

-------------------------------------------------------------------------------
(* Sums of reads handed out (n, then l), reads left (r, then s) and reads  *)
(* granted (g, or h).                                                      *)

\* A new grant covers a ciphertext of which nothing went out.
LEMMA SumNew == ASSUME NEW n \in Nat, NEW h \in Nat, n <= 0 PROVE n <= h /\ n + h <= h
OBVIOUS

\* Copies that are no more than before stay within the grant.
LEMMA SumFewer == ASSUME NEW n \in Nat, NEW l \in Nat, NEW g \in Nat, l <= n, n <= g PROVE l <= g
OBVIOUS

\* So do they with fewer reads left.
LEMMA SumLeft ==
  ASSUME NEW n \in Nat, NEW r \in Nat, NEW s \in Nat, NEW g \in Nat, s <= r, n + r <= g
  PROVE  n + s <= g
OBVIOUS

\* Fewer copies leave the sum within the grant.
LEMMA SumOut ==
  ASSUME NEW n \in Nat, NEW l \in Nat, NEW r \in Nat, NEW g \in Nat, l <= n, n + r <= g
  PROVE  l + r <= g
OBVIOUS

\* A read moves from those left to those handed out.
LEMMA SumTaken ==
  ASSUME NEW n \in Nat, NEW l \in Nat, NEW r \in Nat \ {0}, NEW g \in Nat, l <= n + 1, n + r <= g
  PROVE  l <= g /\ l + (r - 1) <= g
OBVIOUS

\* The fields of an entry that the requests see.
LEMMA EntryFields == \A e \in slotEntry : e.blob \in Blobs /\ e.readsLeft \in Nat /\ e.readsLeft \in Nat \ {0}
BY DEF slotEntry

ServerInv == IInv /\ ServerTypeOK /\ Phases /\ GateExact /\ OnlyAccepted /\ CleanExitWipes

\* A POST handler calls Put with a key from its path, its own body and values
\* the query parser can return.
LEMMA PostPutIsPut ==
  ASSUME ServerInv, NEW r \in Posts, PostPut(r)
  PROVE  [Next]_vars
<1>1. at[r] \in Keys
  BY Zenon DEF ServerInv, Phases, RequestPhases, PostPut, Reply, Goto, Reqs
<1>2. Body[r] \in Blobs
  BY ServerConstants
<1>3. CASE PutExists(at[r])
  BY <1>3 DEF PutExists
<1>4. CASE PutFull(at[r], Body[r])
  BY <1>1, <1>2, <1>4 DEF Next, Put
<1>5. ASSUME NEW rawTTL \in QueryTTLs, NEW rawReads \in QueryReads,
             NEW hash \in Hashes \cup {NoHash},
             PutOk(at[r], Body[r], ParseClamped(rawTTL, DefaultTTL, DefaultMaxTTLSeconds),
                   ParseClamped(rawReads, DefaultReads, DefaultMaxReads), hash)
      PROVE  Next
  <2>1. /\ ParseClamped(rawTTL, DefaultTTL, DefaultMaxTTLSeconds) \in TTLs
        /\ ParseClamped(rawReads, DefaultReads, DefaultMaxReads) \in Reads
    BY Zenon, ServerConstants
  <2> QED
    BY Zenon, <1>1, <1>2, <1>5, <2>1 DEF Next, Put
<1> QED
  BY Zenon, <1>3, <1>4, <1>5 DEF PostPut

\* Every step of the relay is a step of its store or leaves the store alone.
LEMMA StoreStep ==
  ASSUME ServerInv, [ServerNext]_allVars
  PROVE  [Next]_vars
<1>1. ASSUME NEW r \in Reqs, Connect(r) \/ Hangup(r) \/ Flush(r) \/ BadRequest(r)
      PROVE  UNCHANGED vars
  BY Zenon, <1>1 DEF Connect, Hangup, Flush, BadRequest
<1>2. ASSUME NEW r \in Posts, NEW k \in Keys, PostCheck(r, k)
      PROVE  UNCHANGED vars
  BY <1>2 DEF PostCheck
<1>3. ASSUME NEW r \in Posts, PostBody(r)
      PROVE  UNCHANGED vars
  BY <1>3 DEF PostBody
<1>4. ASSUME NEW r \in Gets, NEW k \in Keys, GetGate(r, k)
      PROVE  UNCHANGED vars
  BY <1>4 DEF GetGate
<1>5. ASSUME NEW r \in Gets, GetTake(r)
      PROVE  Next
  <2>1. at[r] \in Keys
    BY Zenon, <1>5 DEF ServerInv, Phases, RequestPhases, GetTake, Goto, Reqs
  <2>2. TakeMiss(at[r]) \/ TakeHit(at[r])
    BY Zenon, <1>5 DEF GetTake
  <2> QED
    BY <2>1, <2>2 DEF Next, Take
<1>6. ASSUME NEW r \in Gets, GetReturn(r)
      PROVE  UNCHANGED vars
  BY <1>6 DEF GetReturn
<1>7. ASSUME NEW r \in Dels, NEW k \in Keys, DeleteHandler(r, k)
      PROVE  [Next]_vars
  <2>1. \/ UNCHANGED vars
        \/ \E h \in Hashes : DeleteMiss(k, h) \/ DeleteHit(k, h)
    BY <1>7 DEF DeleteHandler
  <2> QED
    BY <2>1 DEF Next, Delete
<1>8. CASE GCSteps
  <2>1. SweepBegin \/ (\E k \in Keys : SweepVisit(k)) \/ Unlock
    BY <1>8 DEF GCSteps, GCTick, GCSweep
  <2> QED
    BY <2>1 DEF Next, Sweep
<1>9. CASE GCExit \/ Signal \/ ListenError \/ ShutdownDone \/ Return
  BY Zenon, <1>9 DEF GCExit, Signal, ListenError, ShutdownDone, Return
<1>10. CASE WipeBegin \/ Wipe
  <2>1. ZeroizeAllBegin \/ (\E k \in Keys : ZeroizeAllVisit(k)) \/ Unlock
    BY <1>10 DEF WipeBegin, Wipe
  <2> QED
    BY <2>1 DEF Next, ZeroizeAll
<1>11. CASE Time
  BY <1>11 DEF Time, Next
<1>12. CASE UNCHANGED allVars
  BY <1>12 DEF allVars
<1> QED
  BY SMTT(30), <1>1, <1>2, <1>3, <1>4, <1>5, <1>6, <1>7, <1>8, <1>9, <1>10, <1>11, <1>12, PostPutIsPut
     DEF ServerNext, Handlers, MainSteps

\* The initial state of the relay satisfies its inductive invariant.
LEMMA InitServerInv == ServerInit => ServerInv
<1> SUFFICES ASSUME ServerInit PROVE ServerInv
  OBVIOUS
<1>1. IInv
  BY InitIInv DEF ServerInit
<1>2. \A k \in Keys : ~Present(k)
  BY DEF ServerInit, Init, Present
<1>3. ServerTypeOK
  BY <1>1 DEF IInv, ServerInit, ServerTypeOK, PCs, Codes
<1>4. Phases
  BY <1>2 DEF ServerInit, Init, Phases, RequestPhases, Provenance, MainPhases, Reqs
<1>5. GateExact
  <2>1. Holding = {}
    BY DEF ServerInit, Reqs, Holding
  <2> QED
    BY <2>1, FS_EmptySet, ServerConstants DEF GateExact, ServerInit
<1>6. OnlyAccepted
  <2>1. \A p \in Posts : Body[p] \in Blobs
    BY ServerConstants
  <2>2. NoEntry \notin Blobs
    BY ServerConstants
  <2> QED
    BY <2>1, <2>2 DEF OnlyAccepted, ServerInit
<1>7. CleanExitWipes
  BY <1>2 DEF CleanExitWipes
<1> QED
  BY Zenon, <1>1, <1>3, <1>4, <1>5, <1>6, <1>7 DEF ServerInv

\* The gate: a permit is taken and returned exactly when a GET enters and leaves
\* the guarded section.
LEMMA GateStep ==
  ASSUME ServerInv, ServerNext
  PROVE  GateExact'
<1> SUFFICES ASSUME MaxConcurrentGets > 0
             PROVE  sem' = Cardinality(Holding') /\ sem' <= MaxConcurrentGets
  BY DEF GateExact
<1>1. /\ pc \in [Reqs -> PCs] /\ sem = Cardinality(Holding) /\ sem <= MaxConcurrentGets
      /\ MaxConcurrentGets \in Nat
      /\ \A g \in Gets : g \in Reqs /\ g \notin Posts /\ g \notin Dels
  BY Zenon, ServerConstants DEF ServerInv, ServerTypeOK, GateExact, Reqs
<1>2. IsFiniteSet(Holding)
  BY Zenon, ServerConstants, FS_Subset DEF Holding
<1>3. Cardinality(Holding) \in Nat
  BY <1>2, FS_CardinalityType
<1>4. ASSUME Holding' = Holding, sem' = sem
      PROVE  sem' = Cardinality(Holding') /\ sem' <= MaxConcurrentGets
  BY <1>1, <1>4
<1> USE DEF Goto, Reply, Holding
<1>5. ASSUME NEW r \in Gets, NEW k \in Keys, GetGate(r, k)
      PROVE  sem' = Cardinality(Holding') /\ sem' <= MaxConcurrentGets
  <2>1. CASE pc' = [pc EXCEPT ![r] = "flush"] /\ pc[r] = "conn" /\ sem' = sem
    <3>1. Holding' = Holding
      BY <1>1, <2>1
    <3> QED
      BY <1>4, <2>1, <3>1
  <2>2. CASE /\ pc' = [pc EXCEPT ![r] = "take"] /\ pc[r] = "conn"
             /\ sem' = sem + 1 /\ sem < MaxConcurrentGets
    <3>1. Holding' = Holding \cup {r} /\ r \notin Holding
      BY Zenon, <1>1, <2>2
    <3>2. Cardinality(Holding') = Cardinality(Holding) + 1
      BY ZenonT(40), <1>2, <3>1, FS_AddElement
    <3> QED
      BY <1>1, <1>3, <2>2, <3>2
  <2> QED
    BY Zenon, <1>5, <2>1, <2>2 DEF GetGate
<1>6. ASSUME NEW r \in Gets, GetReturn(r)
      PROVE  sem' = Cardinality(Holding') /\ sem' <= MaxConcurrentGets
  <2>1. pc' = [pc EXCEPT ![r] = "flush"] /\ pc[r] = "return" /\ sem' = sem - 1
    BY <1>6 DEF GetReturn
  <2>2. Holding' = Holding \ {r} /\ r \in Holding
    BY <1>1, <2>1
  <2>3. Cardinality(Holding') = Cardinality(Holding) - 1
    BY SMTT(30), <1>2, <2>2, FS_RemoveElement
  <2> QED
    BY <1>1, <1>3, <2>1, <2>3
<1>7. ASSUME NEW r \in Gets, GetTake(r)
      PROVE  Holding' = Holding /\ sem' = sem
  BY <1>1, <1>7 DEF GetTake
<1>8. ASSUME NEW r \in Reqs, Connect(r) \/ Hangup(r) \/ Flush(r) \/ BadRequest(r)
      PROVE  Holding' = Holding /\ sem' = sem
  BY Zenon, <1>1, <1>8 DEF Connect, Hangup, Flush, BadRequest
<1>9. ASSUME NEW r \in Posts, (\E k \in Keys : PostCheck(r, k)) \/ PostBody(r) \/ PostPut(r)
      PROVE  Holding' = Holding /\ sem' = sem
  <2>1. \E x \in PCs : pc' = [pc EXCEPT ![r] = x]
    BY SMTT(30), <1>9 DEF PostCheck, PostBody, PostPut, PCs
  <2>2. sem' = sem
    BY Zenon, <1>9 DEF PostCheck, PostBody, PostPut
  <2> QED
    BY SMTT(30), <1>1, <2>1, <2>2
<1>10. ASSUME NEW r \in Dels, NEW k \in Keys, DeleteHandler(r, k)
       PROVE  Holding' = Holding /\ sem' = sem
  <2>1. pc' = [pc EXCEPT ![r] = "flush"] /\ sem' = sem
    BY Zenon, <1>10 DEF DeleteHandler
  <2> QED
    BY <1>1, <2>1
<1>11. CASE GCSteps \/ GCExit \/ Signal \/ ListenError \/ MainSteps \/ Time
  <2>1. pc' = pc /\ sem' = sem
    BY Zenon, <1>11 DEF GCSteps, GCTick, GCSweep, GCExit, Signal, ListenError, MainSteps, ShutdownDone,
       WipeBegin, Wipe, Return, Time, srvVars, reqVars
  <2> QED
    BY <1>4, <2>1
<1> HIDE DEF Holding
<1> QED
  BY Zenon, <1>4, <1>5, <1>6, <1>7, <1>8, <1>9, <1>10, <1>11 DEF ServerNext, Handlers

\* Every step keeps the relay's state well typed; the semaphore stays a natural
\* number because it counts the GETs that hold it.
LEMMA TypeStep ==
  ASSUME ServerInv, ServerNext, IInv', GateExact'
  PROVE  ServerTypeOK'
<1>1. TypeOK /\ TypeOK' /\ ServerTypeOK
  BY DEF IInv, ServerInv
<1>2. \A r \in Posts \cup Gets \cup Dels : r \in Reqs
  BY DEF Reqs
<1>3. sem' \in Nat
  <2>1. CASE MaxConcurrentGets > 0
    <3>1. IsFiniteSet(Holding')
      BY Zenon, ServerConstants, FS_Subset DEF Holding
    <3>2. Cardinality(Holding') \in Nat
      BY <3>1, FS_CardinalityType
    <3> QED
      BY <2>1, <3>2 DEF GateExact
  <2>2. CASE ~(MaxConcurrentGets > 0)
    <3>1. sem' = sem
      BY ZenonT(40), <2>2 DEF ServerNext, Handlers, Connect, Hangup, Flush, BadRequest, PostCheck,
         PostBody, PostPut, GetGate, GetTake, GetReturn, DeleteHandler, GCSteps, GCTick, GCSweep,
         GCExit, Signal, ListenError, MainSteps, ShutdownDone, WipeBegin, Wipe, Return, Time, srvVars
    <3> QED
      BY SMTT(30), <1>1, <3>1 DEF ServerTypeOK
  <2> QED
    BY <2>1, <2>2
<1> USE <1>1, <1>2, <1>3 DEF ServerTypeOK, Goto, Reply, PCs, Codes, procVars, reqVars
<1>4. ASSUME NEW r \in Reqs, Connect(r) \/ Hangup(r) \/ Flush(r) \/ BadRequest(r)
      PROVE  ServerTypeOK'
  BY <1>4 DEF Connect, Hangup, Flush, BadRequest
<1>5. ASSUME NEW r \in Posts, NEW k \in Keys, PostCheck(r, k)
      PROVE  ServerTypeOK'
  BY <1>5 DEF PostCheck
<1>6. ASSUME NEW r \in Posts, PostBody(r) \/ PostPut(r)
      PROVE  ServerTypeOK'
  BY <1>6 DEF PostBody, PostPut
<1>7. ASSUME NEW r \in Gets, NEW k \in Keys, GetGate(r, k)
      PROVE  ServerTypeOK'
  BY <1>7 DEF GetGate
<1>8. ASSUME NEW r \in Gets, GetTake(r)
      PROVE  ServerTypeOK'
  <2>1. got' \in [Gets -> Blobs \cup {NoEntry}]
    <3>1. at[r] \in Keys
      BY <1>8 DEF ServerInv, Phases, RequestPhases, GetTake
    <3>2. TakeHit(at[r]) => m[at[r]].blob \in Blobs
      <4>1. TakeHit(at[r]) => m[at[r]] \in slotEntry
        BY <3>1 DEF ServerInv, IInv, TakeHit, TypeOK, Present
      <4> QED
        BY Zenon, <4>1, EntryFields
    <3> QED
      BY SMTT(30), <1>8, <3>2 DEF GetTake
  <2> QED
    BY <1>8, <2>1 DEF GetTake
<1>9. ASSUME NEW r \in Gets, GetReturn(r)
      PROVE  ServerTypeOK'
  BY <1>9 DEF GetReturn
<1>10. ASSUME NEW r \in Dels, NEW k \in Keys, DeleteHandler(r, k)
       PROVE  ServerTypeOK'
  BY <1>10 DEF DeleteHandler
<1>11. CASE GCSteps \/ GCExit \/ Signal \/ ListenError
  BY <1>11 DEF GCSteps, GCTick, GCSweep, GCExit, Signal, ListenError
<1>12. CASE MainSteps
  BY <1>12 DEF MainSteps, ShutdownDone, WipeBegin, Wipe, Return
<1>13. CASE Time
  BY <1>13 DEF Time, srvVars
<1> HIDE <1>1, <1>2, <1>3 DEF ServerTypeOK, Goto, Reply, PCs, Codes, procVars, reqVars
<1> QED
  BY SMTT(30), <1>4, <1>5, <1>6, <1>7, <1>8, <1>9, <1>10, <1>11, <1>12, <1>13 DEF ServerNext, Handlers

\* A request moves along the path of its method.
LEMMA RequestPhasesStep ==
  ASSUME ServerInv, ServerNext
  PROVE  RequestPhases'
<1>1. /\ pc \in [Reqs -> PCs] /\ at \in [Reqs -> Keys \cup {NoEntry}] /\ status \in [Reqs -> Codes]
      /\ RequestPhases
      /\ \A p \in Posts : p \in Reqs /\ p \notin Gets /\ p \notin Dels
      /\ \A g \in Gets : g \in Reqs /\ g \notin Posts /\ g \notin Dels
      /\ \A d \in Dels : d \in Reqs /\ d \notin Posts /\ d \notin Gets
  BY Zenon, ServerConstants DEF ServerInv, ServerTypeOK, Phases, Reqs
<1> USE <1>1 DEF RequestPhases, Goto, Reply
<1>2. ASSUME NEW r \in Reqs, Connect(r) \/ Hangup(r) \/ Flush(r) \/ BadRequest(r)
      PROVE  RequestPhases'
  BY <1>2 DEF Connect, Hangup, Flush, BadRequest
<1>3. ASSUME NEW r \in Posts, NEW k \in Keys, PostCheck(r, k)
      PROVE  RequestPhases'
  BY SMTT(30), <1>3 DEF PostCheck
<1>4. ASSUME NEW r \in Posts, PostBody(r) \/ PostPut(r)
      PROVE  RequestPhases'
  BY <1>4 DEF PostBody, PostPut
<1>5. ASSUME NEW r \in Gets, NEW k \in Keys, GetGate(r, k)
      PROVE  RequestPhases'
  BY SMTT(30), <1>5 DEF GetGate
<1>6. ASSUME NEW r \in Gets, GetTake(r) \/ GetReturn(r)
      PROVE  RequestPhases'
  BY <1>6 DEF GetTake, GetReturn
<1>7. ASSUME NEW r \in Dels, NEW k \in Keys, DeleteHandler(r, k)
      PROVE  RequestPhases'
  BY <1>7 DEF DeleteHandler
<1>8. CASE GCSteps \/ GCExit \/ Signal \/ ListenError \/ MainSteps \/ Time
  <2>1. UNCHANGED <<pc, at, status>>
    BY Zenon, <1>8 DEF GCSteps, GCTick, GCSweep, GCExit, Signal, ListenError, MainSteps, ShutdownDone,
       WipeBegin, Wipe, Return, Time, srvVars, reqVars
  <2> QED
    BY SMTT(30), <2>1
<1> HIDE <1>1 DEF RequestPhases, Goto, Reply
<1> QED
  BY SMTT(30), <1>2, <1>3, <1>4, <1>5, <1>6, <1>7, <1>8 DEF ServerNext, Handlers

\* run, the GC and the mutex keep in step, and after a drained Shutdown no
\* request comes back to life.
LEMMA MainPhasesStep ==
  ASSUME ServerInv, ServerNext
  PROVE  MainPhases'
<1>1. /\ pc \in [Reqs -> PCs] /\ MainPhases
      /\ \A r \in Posts \cup Gets \cup Dels : r \in Reqs
  BY Zenon DEF ServerInv, ServerTypeOK, Phases, Reqs
<1>2. ASSUME NEW r \in Reqs, NEW x \in PCs, pc' = [pc EXCEPT ![r] = x],
             mu' = mu, gc' = gc, main' = main, why' = why,
             pc[r] \notin {"new", "over"} \/ main = "listen"
      PROVE  MainPhases'
  <2>1. why # "drained"
    BY SMTT(30), <1>1, <1>2 DEF MainPhases, Quiet
  <2> QED
    BY Zenon, <1>1, <1>2, <2>1 DEF MainPhases
<1> USE DEF Goto, Reply, procVars, reqVars, vars
<1>3. ASSUME NEW r \in Reqs, Connect(r) \/ Hangup(r) \/ Flush(r) \/ BadRequest(r)
      PROVE  MainPhases'
  <2>1. \E x \in PCs : pc' = [pc EXCEPT ![r] = x]
    BY Zenon, <1>3 DEF Connect, Hangup, Flush, BadRequest, PCs
  <2> QED
    BY ZenonT(40), <1>2, <1>3, <2>1 DEF Connect, Hangup, Flush, BadRequest
<1>4. ASSUME NEW r \in Posts, NEW k \in Keys, PostCheck(r, k)
      PROVE  MainPhases'
  <2>1. \E x \in PCs : pc' = [pc EXCEPT ![r] = x]
    BY Zenon, <1>4 DEF PostCheck, PCs
  <2> QED
    BY ZenonT(40), <1>1, <1>2, <1>4, <2>1 DEF PostCheck
<1>5. ASSUME NEW r \in Posts, PostBody(r) \/ PostPut(r)
      PROVE  MainPhases'
  <2>1. \E x \in PCs : pc' = [pc EXCEPT ![r] = x]
    BY ZenonT(40), <1>5 DEF PostBody, PostPut, PCs
  <2>2. mu' = mu /\ gc' = gc /\ main' = main /\ why' = why /\ pc[r] \in {"body", "put"}
    BY ZenonT(40), <1>5 DEF PostBody, PostPut, PutExists, PutFull, PutOk
  <2> QED
    BY ZenonT(40), <1>1, <1>2, <2>1, <2>2
<1>6. ASSUME NEW r \in Gets, NEW k \in Keys, GetGate(r, k)
      PROVE  MainPhases'
  <2>1. \E x \in PCs : pc' = [pc EXCEPT ![r] = x]
    BY Zenon, <1>6 DEF GetGate, PCs
  <2> QED
    BY ZenonT(40), <1>1, <1>2, <1>6, <2>1 DEF GetGate
<1>7. ASSUME NEW r \in Gets, GetTake(r) \/ GetReturn(r)
      PROVE  MainPhases'
  <2>1. \E x \in PCs : pc' = [pc EXCEPT ![r] = x]
    BY Zenon, <1>7 DEF GetTake, GetReturn, PCs
  <2>2. mu' = mu /\ gc' = gc /\ main' = main /\ why' = why /\ pc[r] \in {"take", "return"}
    BY Zenon, <1>7 DEF GetTake, GetReturn, TakeMiss, TakeHit
  <2> QED
    BY ZenonT(40), <1>1, <1>2, <2>1, <2>2
<1>8. ASSUME NEW r \in Dels, NEW k \in Keys, DeleteHandler(r, k)
      PROVE  MainPhases'
  <2>1. mu' = mu /\ gc' = gc /\ main' = main /\ why' = why /\ pc[r] = "conn"
    BY Zenon, <1>8 DEF DeleteHandler, DeleteMiss, DeleteHit
  <2>2. pc' = [pc EXCEPT ![r] = "flush"] /\ "flush" \in PCs
    BY SMTT(30), <1>8 DEF DeleteHandler, PCs
  <2> QED
    BY ZenonT(40), <1>1, <1>2, <2>1, <2>2
<1>9. CASE GCSteps \/ GCExit
  BY ZenonT(40), <1>1, <1>9 DEF MainPhases, Quiet, GCSteps, GCTick, GCSweep, GCExit, SweepBegin,
     SweepVisit, Unlock, Running
<1>10. CASE Signal \/ ListenError \/ ShutdownDone \/ Return
  BY SMTT(30), <1>1, <1>10 DEF MainPhases, Quiet, Signal, ListenError, ShutdownDone, Return
<1>11. CASE WipeBegin \/ Wipe
  BY SMTT(30), <1>1, <1>11 DEF MainPhases, Quiet, WipeBegin, Wipe, ZeroizeAllBegin, ZeroizeAllVisit,
     Unlock
<1>12. CASE Time
  BY Zenon, <1>1, <1>12 DEF MainPhases, Quiet, Time, Tick, srvVars
<1> QED
  BY SMTT(30), <1>3, <1>4, <1>5, <1>6, <1>7, <1>8, <1>9, <1>10, <1>11, <1>12 DEF ServerNext, Handlers,
     MainSteps

\* Apart from a successful Put, no operation of the store brings a ciphertext in
\* or moves one.
NoNewBlobs == \A k \in Keys : Present(k)' => Present(k) /\ m'[k].blob = m[k].blob

\* Eviction brings nothing in.
LEMMA EvictNoNewBlobs ==
  ASSUME TypeOK, NEW k \in Keys, Evict(k)
  PROVE  NoNewBlobs
BY DEF NoNewBlobs, TypeOK, Evict, Present

\* A read leaves the same ciphertext or none.
LEMMA TakeHitNoNewBlobs ==
  ASSUME TypeOK, NEW k \in Keys, TakeHit(k)
  PROVE  NoNewBlobs
<1>1. Evict(k) \/ m' = [m EXCEPT ![k] = [m[k] EXCEPT !.readsLeft = m[k].readsLeft - 1]]
  BY Zenon DEF TakeHit
<1>2. Present(k) /\ m[k] \in slotEntry
  BY Zenon DEF TakeHit, TypeOK, Present
<1>3. [m[k] EXCEPT !.readsLeft = m[k].readsLeft - 1].blob = m[k].blob
  BY <1>2 DEF slotEntry
<1> QED
  BY ZenonT(40), <1>1, <1>2, <1>3, EvictNoNewBlobs DEF NoNewBlobs, TypeOK, Present

\* A Put refused for capacity leaves its predecessor's entry under its key.
LEMMA PutFullNoNewBlobs ==
  ASSUME TypeOK, NEW k \in Keys, NEW c \in Blobs, PutFull(k, c)
  PROVE  NoNewBlobs
<1>1. CASE Present(k)
  <2>1. m[k] \in slotEntry
    BY <1>1 DEF TypeOK, Present
  <2>2. [m[k] EXCEPT !.wiped = TRUE, !.hash = NoHash].blob = m[k].blob
    BY <2>1 DEF slotEntry
  <2>3. m' = [m EXCEPT ![k] = [m[k] EXCEPT !.wiped = TRUE, !.hash = NoHash]]
    BY <1>1 DEF PutFull
  <2> QED
    BY Zenon, <1>1, <2>2, <2>3 DEF NoNewBlobs, TypeOK, Present
<1>2. CASE ~Present(k)
  BY SMTT(30), <1>2 DEF PutFull, NoNewBlobs, Present
<1> QED
  BY <1>1, <1>2

\* An accepted POST stays accepted, because its handler has returned.
LEMMA AcceptedStays ==
  ASSUME ServerInv, ServerNext, NEW p \in Posts, status[p] = 201
  PROVE  status'[p] = 201
<1>1. /\ status \in [Reqs -> Codes] /\ pc[p] \in {"flush", "over"} /\ p \in Reqs
      /\ \A r \in Gets \cup Dels : r # p
  BY ServerConstants DEF ServerInv, ServerTypeOK, Phases, RequestPhases, Reqs
<1> USE DEF Goto, Reply, Codes, Reqs
<1>2. ASSUME NEW r \in Reqs, Connect(r) \/ Hangup(r) \/ Flush(r) \/ BadRequest(r)
      PROVE  status'[p] = 201
  BY SMTT(30), <1>1, <1>2 DEF Connect, Hangup, Flush, BadRequest
<1>3. ASSUME NEW r \in Posts, (\E k \in Keys : PostCheck(r, k)) \/ PostBody(r) \/ PostPut(r)
      PROVE  status'[p] = 201
  BY SMTT(30), <1>1, <1>3 DEF PostCheck, PostBody, PostPut
<1>4. ASSUME NEW r \in Gets, (\E k \in Keys : GetGate(r, k)) \/ GetTake(r) \/ GetReturn(r)
      PROVE  status'[p] = 201
  BY SMTT(30), <1>1, <1>4 DEF GetGate, GetTake, GetReturn
<1>5. ASSUME NEW r \in Dels, NEW k \in Keys, DeleteHandler(r, k)
      PROVE  status'[p] = 201
  BY SMTT(30), <1>1, <1>5 DEF DeleteHandler
<1>6. CASE GCSteps \/ GCExit \/ Signal \/ ListenError \/ MainSteps \/ Time
  BY SMTT(30), <1>6 DEF GCSteps, GCTick, GCSweep, GCExit, Signal, ListenError, MainSteps, ShutdownDone,
     WipeBegin, Wipe, Return, Time, srvVars, reqVars
<1> QED
  BY ZenonT(40), <1>2, <1>3, <1>4, <1>5, <1>6 DEF ServerNext, Handlers

\* A step that is not a successful Put brings nothing into the store.
LEMMA OnlyPutsAdd ==
  ASSUME ServerInv, ServerNext
  PROVE  \/ NoNewBlobs
         \/ \E r \in Posts, k \in Keys :
              /\ PostPut(r)
              /\ m'[k].blob = Body[r] /\ status'[r] = 201
              /\ \A j \in Keys \ {k} : m'[j] = m[j]
<1>1. TypeOK /\ Bookkeeping
  BY DEF ServerInv, IInv
<1>2. ASSUME UNCHANGED m
      PROVE  NoNewBlobs
  BY SMTT(30), <1>2 DEF NoNewBlobs, Present
<1>3. ASSUME NEW r \in Posts, PostPut(r)
      PROVE  \/ NoNewBlobs
             \/ \E k \in Keys : /\ m'[k].blob = Body[r] /\ status'[r] = 201
                               /\ \A j \in Keys \ {k} : m'[j] = m[j]
  <2>1. at[r] \in Keys /\ Body[r] \in Blobs /\ r \in Reqs
    BY ZenonT(40), <1>3, ServerConstants DEF ServerInv, Phases, RequestPhases, PostPut, Reply, Goto,
       Reqs
  <2>2. CASE PutExists(at[r])
    BY <1>2, <2>2 DEF PutExists, vars
  <2>3. CASE PutFull(at[r], Body[r])
    BY SMTT(30), <1>1, <2>1, <2>3, PutFullNoNewBlobs
  <2>4. ASSUME Reply(r, "put", 201), NEW ttl, NEW reads, NEW hash,
               PutOk(at[r], Body[r], ttl, reads, hash)
        PROVE  \E k \in Keys : /\ m'[k].blob = Body[r] /\ status'[r] = 201
                              /\ \A j \in Keys \ {k} : m'[j] = m[j]
    <3>1. m'[at[r]].blob = Body[r] /\ \A j \in Keys \ {at[r]} : m'[j] = m[j]
      BY ZenonT(40), <1>1, <2>1, <2>4 DEF PutOk, TypeOK
    <3>2. status'[r] = 201
      BY Zenon, <2>1, <2>4 DEF Reply, ServerInv, ServerTypeOK
    <3> QED
      BY SMTT(30), <2>1, <3>1, <3>2
  <2> QED
    BY ZenonT(40), <1>3, <2>2, <2>3, <2>4 DEF PostPut
<1>4. ASSUME NEW r \in Gets, GetTake(r)
      PROVE  NoNewBlobs
  <2>1. at[r] \in Keys
    BY SMTT(30), <1>4 DEF ServerInv, Phases, RequestPhases, GetTake, Goto, Reqs
  <2>2. UNCHANGED m \/ Evict(at[r]) \/ TakeHit(at[r])
    BY Zenon, <1>4 DEF GetTake, TakeMiss
  <2> QED
    BY SMTT(30), <1>1, <1>2, <2>1, <2>2, EvictNoNewBlobs, TakeHitNoNewBlobs
<1>5. ASSUME NEW r \in Dels, NEW k \in Keys, DeleteHandler(r, k)
      PROVE  NoNewBlobs
  <2>1. UNCHANGED m \/ Evict(k)
    BY SMTT(30), <1>5 DEF DeleteHandler, DeleteMiss, DeleteHit, vars
  <2> QED
    BY SMTT(30), <1>1, <1>2, <2>1, EvictNoNewBlobs
<1>6. CASE GCSteps
  <2>1. UNCHANGED m \/ \E k \in Keys : Evict(k)
    BY ZenonT(40), <1>6 DEF GCSteps, GCTick, GCSweep, SweepBegin, SweepVisit, Unlock
  <2> QED
    BY SMTT(30), <1>1, <1>2, <2>1, EvictNoNewBlobs
<1>7. CASE MainSteps
  <2>1. UNCHANGED m \/ \E k \in Keys : Evict(k)
    BY SMTT(30), <1>7 DEF MainSteps, ShutdownDone, WipeBegin, Wipe, Return, ZeroizeAllBegin,
       ZeroizeAllVisit, Unlock, vars
  <2> QED
    BY Zenon, <1>1, <1>2, <2>1, EvictNoNewBlobs
<1>8. CASE GCExit \/ Signal \/ ListenError \/ Time
  BY ZenonT(40), <1>2, <1>8 DEF GCExit, Signal, ListenError, Time, Tick, vars
<1>9. ASSUME NEW r \in Reqs, Connect(r) \/ Hangup(r) \/ Flush(r) \/ BadRequest(r)
      PROVE  NoNewBlobs
  BY SMTT(30), <1>2, <1>9 DEF Connect, Hangup, Flush, BadRequest, vars
<1>10. ASSUME NEW r \in Posts, (\E k \in Keys : PostCheck(r, k)) \/ PostBody(r)
       PROVE  NoNewBlobs
  BY Zenon, <1>2, <1>10 DEF PostCheck, PostBody, vars
<1>11. ASSUME NEW r \in Gets, (\E k \in Keys : GetGate(r, k)) \/ GetReturn(r)
       PROVE  NoNewBlobs
  BY SMTT(30), <1>2, <1>11 DEF GetGate, GetReturn, vars
<1>12. CASE \E r \in Posts : PostPut(r)
  BY SMTT(30), <1>3, <1>12
<1>13. CASE ~ \E r \in Posts : PostPut(r)
  <2>1. NoNewBlobs
    BY ZenonT(40), <1>4, <1>5, <1>6, <1>7, <1>8, <1>9, <1>10, <1>11, <1>13 DEF ServerNext, Handlers
  <2> QED
    BY SMTT(30), <2>1
<1> QED
  BY Zenon, <1>12, <1>13

\* What the store holds came with a POST that was answered 201.
LEMMA ProvenanceStep ==
  ASSUME ServerInv, ServerNext
  PROVE  Provenance'
<1> SUFFICES ASSUME NEW k \in Keys, NEW p \in Posts, Present(k)', m'[k].blob = Body[p]
             PROVE  status'[p] = 201
  BY DEF Provenance
<1>1. ASSUME Present(k), m'[k].blob = m[k].blob
      PROVE  status'[p] = 201
  <2>1. m[k].blob = Body[p]
    BY <1>1
  <2>2. Provenance
    BY DEF ServerInv, Phases
  <2>3. status[p] = 201
    <3>1. Present(k) /\ m[k].blob = Body[p] => status[p] = 201
      BY SMTT(30), <2>2 DEF Provenance
    <3>2. Present(k)
      BY <1>1
    <3> QED
      BY <2>1, <3>1, <3>2
  <2> QED
    BY <2>3, AcceptedStays
<1>2. CASE NoNewBlobs
  BY <1>1, <1>2 DEF NoNewBlobs
<1>3. ASSUME NEW r \in Posts, NEW j \in Keys, m'[j].blob = Body[r], status'[r] = 201,
             \A i \in Keys \ {j} : m'[i] = m[i]
      PROVE  status'[p] = 201
  <2>1. CASE j = k
    BY SMTT(30), <1>3, <2>1, ServerConstants
  <2>2. CASE j # k
    BY SMTT(30), <1>1, <1>3, <2>2 DEF Present
  <2> QED
    BY SMTT(30), <2>1, <2>2
<1>4. CASE ~ NoNewBlobs
  <2>1. PICK r \in Posts, j \in Keys : /\ m'[j].blob = Body[r] /\ status'[r] = 201
                                      /\ \A i \in Keys \ {j} : m'[i] = m[i]
    BY <1>4, OnlyPutsAdd
  <2> QED
    BY <1>3, <2>1
<1> QED
  BY <1>2, <1>4

\* A GET only ever receives what an accepted POST stored.
LEMMA OnlyAcceptedStep ==
  ASSUME ServerInv, ServerNext
  PROVE  OnlyAccepted'
<1> SUFFICES ASSUME NEW g \in Gets, NEW p \in Posts, got'[g] = Body[p]
             PROVE  status'[p] = 201
  BY DEF OnlyAccepted
<1>1. CASE got' = got
  BY SMTT(30), <1>1, AcceptedStays DEF ServerInv, OnlyAccepted
<1>2. ASSUME NEW r \in Gets, GetTake(r), got' # got
      PROVE  status'[p] = 201
  <2>1. at[r] \in Keys
    BY Zenon, <1>2 DEF ServerInv, Phases, RequestPhases, GetTake, Goto, Reqs
  <2>2. got' = [got EXCEPT ![r] = m[at[r]].blob] /\ Present(at[r])
    BY SMTT(30), <1>2 DEF GetTake, TakeHit
  <2>3. CASE g = r
    <3>1. m[at[r]].blob = Body[p]
      BY SMTT(30), <2>2, <2>3 DEF ServerInv, ServerTypeOK
    <3> QED
      BY SMTT(30), <2>1, <2>2, <3>1, AcceptedStays DEF ServerInv, Phases, Provenance
  <2>4. CASE g # r
    <3>1. got[g] = Body[p]
      BY SMTT(30), <2>2, <2>4 DEF ServerInv, ServerTypeOK
    <3> QED
      BY SMTT(30), <3>1, AcceptedStays DEF ServerInv, OnlyAccepted
  <2> QED
    BY SMTT(30), <2>3, <2>4
<1>3. got' = got \/ \E r \in Gets : GetTake(r)
  BY ZenonT(40) DEF ServerNext, Handlers, Connect, Hangup, Flush, BadRequest, PostCheck, PostBody,
     PostPut, GetGate, GetReturn, DeleteHandler, GCSteps, GCTick, GCSweep, GCExit, Signal, ListenError,
     MainSteps, ShutdownDone, WipeBegin, Wipe, Return, Time, srvVars, reqVars
<1> QED
  BY <1>1, <1>2, <1>3

\* After a drained Shutdown nothing enters the wiped store.
LEMMA CleanExitStep ==
  ASSUME ServerInv, ServerNext, MainPhases'
  PROVE  CleanExitWipes'
<1> SUFFICES ASSUME why' = "drained", main' \in {"wiped", "returned"}, NEW k \in Keys, Present(k)'
             PROVE  FALSE
  BY DEF CleanExitWipes
<1>1. /\ \A r \in Reqs : Quiet(r)' /\ Quiet(r)' => pc'[r] \in {"new", "over"}
      /\ pc \in [Reqs -> PCs] /\ TypeOK
  BY Zenon DEF MainPhases, Quiet, ServerInv, ServerTypeOK, IInv
<1>2. CASE Wipe
  <2>1. Unlock /\ mu = "ZeroizeAll" /\ todo = {} /\ m' = m
    BY Zenon, <1>2 DEF Wipe, Unlock, ServerInv, Phases, MainPhases
  <2> QED
    BY <2>1 DEF ServerInv, IInv, PassComplete, Present
<1>3. CASE ~Wipe
  <2>1. why = "drained" /\ main \in {"wiped", "returned"}
    BY ZenonT(40), <1>3 DEF ServerNext, Handlers, Connect, Hangup, Flush, BadRequest, PostCheck,
       PostBody, PostPut, GetGate, GetTake, GetReturn, DeleteHandler, GCSteps, GCTick, GCSweep, GCExit,
       Signal, ListenError, MainSteps, ShutdownDone, WipeBegin, Return, Time, srvVars, procVars
  <2>2. ~Present(k)
    BY <2>1 DEF ServerInv, CleanExitWipes
  <2>3. \A r \in Posts : ~PostPut(r)
    BY ZenonT(40), <2>1 DEF ServerInv, Phases, MainPhases, Quiet, PostPut, Reply, Goto, Reqs
  <2>4. NoNewBlobs
    BY <2>3, OnlyPutsAdd
  <2> QED
    BY SMTT(30), <2>2, <2>4 DEF NoNewBlobs
<1> QED
  BY <1>2, <1>3

\* Every step of the relay preserves its inductive invariant.
LEMMA NextServerInv == ServerInv /\ [ServerNext]_allVars => ServerInv'
<1> SUFFICES ASSUME ServerInv, [ServerNext]_allVars PROVE ServerInv'
  OBVIOUS
<1>1. IInv'
  BY SMTT(30), StoreStep, NextIInv DEF ServerInv
<1>2. CASE ServerNext
  BY SMTT(30), <1>1, <1>2, GateStep, TypeStep, RequestPhasesStep, ProvenanceStep, MainPhasesStep,
     OnlyAcceptedStep, CleanExitStep DEF ServerInv, Phases
<1>3. CASE UNCHANGED allVars
  <2>1. UNCHANGED <<m, bytes, now, mu, snap, todo, closing, granted, taken, blanks>>
    BY <1>3 DEF allVars, vars
  <2>2. UNCHANGED <<pc, at, status, got, sem, gc, main, why>>
    BY <1>3 DEF allVars, srvVars, reqVars, procVars
  <2>3. ServerTypeOK'
    BY SMTT(30), <1>1, <2>2 DEF IInv, ServerInv, ServerTypeOK
  <2>4. Phases'
    BY SMTT(30), <2>1, <2>2 DEF ServerInv, Phases, RequestPhases, Provenance, MainPhases, Present,
       Quiet
  <2>5. GateExact' /\ OnlyAccepted' /\ CleanExitWipes'
    BY <2>1, <2>2 DEF ServerInv, GateExact, Holding, OnlyAccepted, CleanExitWipes, Present
  <2> QED
    BY Zenon, <1>1, <2>3, <2>4, <2>5 DEF ServerInv
<1> QED
  BY <1>2, <1>3

\* Every reachable state of the relay satisfies the inductive invariant.
THEOREM ServerInvariant == ServerSafetySpec => []ServerInv
BY InitServerInv, NextServerInv, PTL DEF ServerSafetySpec

\* The type invariant of the relay.
THEOREM ServerTypes == ServerSafetySpec => []ServerTypeOK
BY ServerInvariant, PTL DEF ServerInv

\* The gate never leaks a permit and never admits one GET too many, for every
\* number of concurrent GETs and every capacity.
THEOREM ServerGate == ServerSafetySpec => []GateExact
BY ServerInvariant, PTL DEF ServerInv

\* No GET is ever answered with the body of a POST that was refused.
THEOREM ServerOnlyAccepted == ServerSafetySpec => []OnlyAccepted
BY ServerInvariant, PTL DEF ServerInv

\* A Shutdown that drained the handlers leaves a wiped store to the end.
THEOREM ServerCleanExit == ServerSafetySpec => []CleanExitWipes
BY ServerInvariant, PTL DEF ServerInv

\* The relay uses the store only through its operations, so all that is proved
\* about the store holds in the relay.
THEOREM ServerUsesStore == ServerSafetySpec => UsesStore
<1>1. ServerInv /\ [ServerNext]_allVars => [Next]_vars
  BY StoreStep
<1>2. ServerInit => Init
  BY DEF ServerInit
<1> QED
  BY <1>1, <1>2, ServerInvariant, PTL DEF ServerSafetySpec, UsesStore, Spec

\* In particular the relay is a one-shot mailbox.
THEOREM ServerImplementsMailbox == ServerSafetySpec => ImplementsMailbox
BY ServerUsesStore, StoreImplementsMailbox, PTL DEF UsesStore

-------------------------------------------------------------------------------
(* Reads are not shared                                                    *)

\* The GETs that hold a ciphertext, genuine or zeroized, when f is what each one got.
Copies(f, c) == {g \in Gets : f[g] = c}

\* ReadsShared and what makes it inductive: the copies out and the reads left add up to no
\* more than the grant. ReadBudget does not say so, because it leaves zeroized copies out.
Offered ==
  /\ ReadsShared
  /\ \A k \in Keys : Present(k) =>
       Cardinality(Copies(got, m[k].blob)) + m[k].readsLeft <= granted[m[k].blob]

\* How a step of the store treats grants and reads left: a grant is made once, an entry is new
\* with all of it, or is an old one with no more reads than before.
Offers ==
  /\ \A c \in Blobs : granted'[c] = granted[c] \/ granted[c] = 0
  /\ \A k \in Keys : Present(k)' =>
       \/ Present(k) /\ m'[k].blob = m[k].blob /\ m'[k].readsLeft <= m[k].readsLeft
       \/ granted[m'[k].blob] = 0 /\ m'[k].readsLeft = granted'[m'[k].blob]

\* An entry that is present is an entry, and its ciphertext was granted.
LEMMA EntryIs ==
  ASSUME IInv, NEW k \in Keys, Present(k)
  PROVE  /\ m[k] \in slotEntry /\ m[k].blob \in Blobs /\ m[k].readsLeft \in Nat \ {0}
         /\ granted[m[k].blob] \in Nat \ {0}
<1>1. m[k] \in slotEntry
  BY DEF IInv, TypeOK, Present
<1>2. m[k].blob \in Blobs /\ m[k].readsLeft \in Nat \ {0}
  BY Zenon, <1>1, EntryFields
<1>3. granted \in [Blobs -> Nat] /\ granted[m[k].blob] > 0
  BY Zenon DEF IInv, TypeOK, Bookkeeping
<1> QED
  BY <1>1, <1>2, <1>3

\* A read leaves one read fewer under its key, or nothing, and the other keys alone.
LEMMA TakeHitEffect ==
  ASSUME IInv, NEW k \in Keys, TakeHit(k)
  PROVE  /\ granted' = granted /\ Present(k)
         /\ Present(k)' => m'[k].blob = m[k].blob /\ m'[k].readsLeft = m[k].readsLeft - 1
         /\ \A j \in Keys \ {k} : m'[j] = m[j]
<1>1. Evict(k) \/ m' = [m EXCEPT ![k] = [m[k] EXCEPT !.readsLeft = m[k].readsLeft - 1]]
  BY Zenon DEF TakeHit
<1>2. Present(k) /\ granted' = granted
  BY Zenon DEF TakeHit
<1>3. m[k] \in slotEntry /\ m \in [Keys -> slotEntry \cup {NoEntry}]
  BY Zenon, <1>2, EntryIs DEF IInv, TypeOK
<1>4. /\ [m[k] EXCEPT !.readsLeft = m[k].readsLeft - 1].blob = m[k].blob
      /\ [m[k] EXCEPT !.readsLeft = m[k].readsLeft - 1].readsLeft = m[k].readsLeft - 1
  BY <1>3 DEF slotEntry
<1>5. CASE Evict(k)
  BY Zenon, <1>2, <1>3, <1>5 DEF Evict, Present
<1>6. CASE m' = [m EXCEPT ![k] = [m[k] EXCEPT !.readsLeft = m[k].readsLeft - 1]]
  BY Zenon, <1>2, <1>3, <1>4, <1>6
<1> QED
  BY Zenon, <1>1, <1>5, <1>6

\* Every step of the store treats grants and reads left so.
LEMMA StepOffers ==
  ASSUME IInv, [Next]_vars
  PROVE  Offers
<1>0. m \in [Keys -> slotEntry \cup {NoEntry}] /\ granted \in [Blobs -> Nat]
  BY Zenon DEF IInv, TypeOK
<1>1. ASSUME granted' = granted,
             \A k \in Keys : Present(k)' => Present(k) /\ m'[k].blob = m[k].blob
                                              /\ m'[k].readsLeft <= m[k].readsLeft
      PROVE  Offers
  BY Zenon, <1>1 DEF Offers
<1>2. ASSUME granted' = granted, UNCHANGED m
      PROVE  Offers
  <2>1. \A k \in Keys : Present(k) => m[k].readsLeft <= m[k].readsLeft
    BY EntryIs
  <2> QED
    BY Zenon, <1>1, <1>2, <2>1 DEF Present
<1>3. ASSUME granted' = granted, NEW k \in Keys, Evict(k)
      PROVE  Offers
  <2>1. \A j \in Keys : m'[j] = NoEntry \/ m'[j] = m[j]
    BY Zenon, <1>0, <1>3 DEF Evict
  <2>2. \A j \in Keys : Present(j) => m[j].readsLeft <= m[j].readsLeft
    BY EntryIs
  <2> QED
    BY Zenon, <1>1, <1>3, <2>1, <2>2 DEF Present
<1>4. ASSUME NEW k \in Keys, TakeHit(k)
      PROVE  Offers
  <2>1. \A j \in Keys : Present(j) => m[j].readsLeft <= m[j].readsLeft /\ m[j].readsLeft - 1 <= m[j].readsLeft
    BY EntryIs
  <2> QED
    BY Zenon, <1>1, <1>4, <2>1, TakeHitEffect DEF Present
<1>5. ASSUME NEW k \in Keys, NEW c \in Blobs, PutFull(k, c)
      PROVE  Offers
  <2>1. granted' = granted
    BY Zenon, <1>5 DEF PutFull, ghosts
  <2>2. CASE ~Present(k)
    BY Zenon, <1>2, <1>5, <2>1, <2>2 DEF PutFull
  <2>3. CASE Present(k)
    <3>1. m' = [m EXCEPT ![k] = [m[k] EXCEPT !.wiped = TRUE, !.hash = NoHash]]
      BY Zenon, <1>5, <2>3 DEF PutFull
    <3>2. m[k] \in slotEntry
      BY Zenon, <2>3, EntryIs
    <3>3. /\ [m[k] EXCEPT !.wiped = TRUE, !.hash = NoHash].blob = m[k].blob
          /\ [m[k] EXCEPT !.wiped = TRUE, !.hash = NoHash].readsLeft = m[k].readsLeft
      BY <3>2 DEF slotEntry
    <3>4. \A j \in Keys : Present(j) => m[j].readsLeft <= m[j].readsLeft
      BY EntryIs
    <3>5. \A j \in Keys : j # k => m'[j] = m[j]
      BY Zenon, <1>0, <3>1
    <3>6. m'[k].blob = m[k].blob /\ m'[k].readsLeft = m[k].readsLeft
      BY Zenon, <1>0, <3>1, <3>3
    <3> QED
      BY Zenon, <1>1, <2>1, <2>3, <3>4, <3>5, <3>6 DEF Present
  <2> QED
    BY Zenon, <2>2, <2>3
<1>6. ASSUME NEW k \in Keys, NEW c \in Blobs, NEW ttl, NEW reads \in Reads, NEW hash,
             PutOk(k, c, ttl, reads, hash)
      PROVE  Offers
  <2>1. /\ m' = [m EXCEPT ![k] = [blob |-> c, wiped |-> FALSE, expiresAt |-> now + ttl,
                                  readsLeft |-> reads, hash |-> hash]]
        /\ granted[c] = 0 /\ granted' = [granted EXCEPT ![c] = reads]
    BY Zenon, <1>6 DEF PutOk
  <2>2. m'[k].blob = c /\ m'[k].readsLeft = reads /\ granted'[c] = reads
    BY Zenon, <1>0, <2>1
  <2>3. /\ \A j \in Keys : j # k => m'[j] = m[j]
        /\ \A d \in Blobs : d # c => granted'[d] = granted[d]
    BY Zenon, <1>0, <2>1
  <2>4. \A j \in Keys : Present(j) => m[j].readsLeft <= m[j].readsLeft
    BY EntryIs
  <2> QED
    BY Zenon, <2>1, <2>2, <2>3, <2>4 DEF Offers, Present
<1>7. CASE UNCHANGED vars
  BY Zenon, <1>2, <1>7 DEF vars
<1>8. ASSUME NEW k \in Keys, Put(k)
      PROVE  Offers
  BY Zenon, <1>5, <1>6, <1>7, <1>8 DEF Put, PutExists
<1>9. ASSUME NEW k \in Keys, Take(k)
      PROVE  Offers
  BY Zenon, <1>2, <1>3, <1>4, <1>9 DEF Take, TakeMiss, ghosts
<1>10. ASSUME NEW k \in Keys, NEW h \in Hashes, Delete(k, h)
       PROVE  Offers
  BY Zenon, <1>2, <1>3, <1>10 DEF Delete, DeleteMiss, DeleteHit, ghosts
<1>11. CASE Sweep \/ ZeroizeAll
  <2>1. granted' = granted
    BY Zenon, <1>11 DEF Sweep, SweepBegin, SweepVisit, ZeroizeAll, ZeroizeAllBegin, ZeroizeAllVisit,
       ghosts
  <2>2. UNCHANGED m \/ \E k \in Keys : Evict(k)
    BY Zenon, <1>11 DEF Sweep, SweepBegin, SweepVisit, ZeroizeAll, ZeroizeAllBegin, ZeroizeAllVisit
  <2> QED
    BY Zenon, <1>2, <1>3, <2>1, <2>2
<1>12. CASE Unlock \/ Tick
  BY Zenon, <1>2, <1>12 DEF Unlock, Tick, ghosts
<1> QED
  BY Zenon, <1>7, <1>8, <1>9, <1>10, <1>11, <1>12 DEF Next

\* The copies of a ciphertext are finitely many GETs.
LEMMA CopiesFinite ==
  ASSUME NEW f, NEW c
  PROVE  IsFiniteSet(Copies(f, c)) /\ Cardinality(Copies(f, c)) \in Nat
<1>1. IsFiniteSet(Copies(f, c))
  BY Zenon, ServerConstants, FS_Subset DEF Copies
<1> QED
  BY <1>1, FS_CardinalityType

\* A GET that takes c adds at most itself to the copies of c, and nothing to others'.
LEMMA OneMoreCopy ==
  ASSUME got \in [Gets -> Blobs \cup {NoEntry}], NEW r \in Gets, NEW c,
         got' = [got EXCEPT ![r] = c]
  PROVE  /\ Cardinality(Copies(got', c)) <= Cardinality(Copies(got, c)) + 1
         /\ \A d : d # c => Cardinality(Copies(got', d)) <= Cardinality(Copies(got, d))
<1>1. Copies(got', c) = Copies(got, c) \cup {r}
  BY DEF Copies
<1>2. Cardinality(Copies(got, c) \cup {r}) =
        IF r \in Copies(got, c) THEN Cardinality(Copies(got, c)) ELSE Cardinality(Copies(got, c)) + 1
  BY Zenon, CopiesFinite, FS_AddElement
<1>3. ASSUME NEW d, d # c
      PROVE  Cardinality(Copies(got', d)) <= Cardinality(Copies(got, d))
  <2>1. Copies(got', d) \in SUBSET Copies(got, d)
    BY <1>3 DEF Copies
  <2> QED
    BY Zenon, <2>1, CopiesFinite, FS_Subset
<1>4. Cardinality(Copies(got, c)) \in Nat
  BY Zenon, CopiesFinite
<1>5. Cardinality(Copies(got', c)) <= Cardinality(Copies(got, c)) + 1
  <2>1. \/ Cardinality(Copies(got', c)) = Cardinality(Copies(got, c))
        \/ Cardinality(Copies(got', c)) = Cardinality(Copies(got, c)) + 1
    BY Zenon, <1>1, <1>2
  <2> QED
    BY <1>4, <2>1
<1> QED
  BY Zenon, <1>3, <1>5

\* The reads of a ciphertext that went out and those left stay within the grant, whichever
\* of the concurrent GETs the store serves next.
LEMMA OfferedStep ==
  ASSUME ServerInv, ServerInv', Offered, [ServerNext]_allVars
  PROVE  Offered'
<1>0. /\ IInv /\ IInv' /\ Offers /\ got \in [Gets -> Blobs \cup {NoEntry}]
      /\ granted \in [Blobs -> Nat] /\ granted' \in [Blobs -> Nat]
  BY Zenon, StoreStep, StepOffers DEF ServerInv, ServerTypeOK, TypeOK, IInv
<1>1. /\ \A c : Cardinality(Copies(got, c)) \in Nat /\ Cardinality(Copies(got', c)) \in Nat
      /\ \A c \in Blobs : Cardinality(Copies(got, c)) <= granted[c]
  BY Zenon, CopiesFinite DEF Offered, ReadsShared, Copies
<1>2. SUFFICES /\ \A c \in Blobs : Cardinality(Copies(got', c)) <= granted'[c]
               /\ \A k \in Keys : Present(k)' =>
                    Cardinality(Copies(got', m'[k].blob)) + m'[k].readsLeft <= granted'[m'[k].blob]
  BY Zenon DEF Offered, ReadsShared, Copies
<1>3. CASE got' = got
  <2>1. \A c : Copies(got', c) = Copies(got, c)
    BY Zenon, <1>3 DEF Copies
  <2>2. ASSUME NEW c \in Blobs
        PROVE  Cardinality(Copies(got, c)) <= granted'[c]
    <3>1. granted'[c] = granted[c] \/ granted[c] = 0
      BY Zenon, <1>0 DEF Offers
    <3>2. granted[c] \in Nat /\ granted'[c] \in Nat
      BY Zenon, <1>0
    <3> QED
      BY Zenon, <1>1, <3>1, <3>2, SumNew
  <2>3. ASSUME NEW k \in Keys, Present(k)'
        PROVE  Cardinality(Copies(got, m'[k].blob)) + m'[k].readsLeft <= granted'[m'[k].blob]
    <3>1. m'[k].blob \in Blobs /\ m'[k].readsLeft \in Nat /\ granted'[m'[k].blob] \in Nat
      <4>1. m'[k] \in slotEntry
        BY Zenon, <1>0, <2>3 DEF IInv, TypeOK, Present
      <4>2. m'[k].blob \in Blobs /\ m'[k].readsLeft \in Nat
        BY Zenon, <4>1, EntryFields
      <4> QED
        BY Zenon, <1>0, <4>2
    <3>2. CASE granted[m'[k].blob] = 0 /\ m'[k].readsLeft = granted'[m'[k].blob]
      <4>1. /\ Cardinality(Copies(got, m'[k].blob)) <= granted[m'[k].blob]
            /\ Cardinality(Copies(got, m'[k].blob)) \in Nat
        BY Zenon, <1>1, <3>1
      <4> QED
        BY Zenon, <3>1, <3>2, <4>1, SumNew
    <3>3. CASE Present(k) /\ m'[k].blob = m[k].blob /\ m'[k].readsLeft <= m[k].readsLeft
      <4>1. /\ m[k].readsLeft \in Nat /\ granted[m[k].blob] \in Nat \ {0} /\ m[k].blob \in Blobs
            /\ Cardinality(Copies(got, m[k].blob)) \in Nat
            /\ Cardinality(Copies(got, m[k].blob)) + m[k].readsLeft <= granted[m[k].blob]
        BY Zenon, <1>0, <1>1, <3>3, EntryIs DEF Offered
      <4>2. granted'[m[k].blob] = granted[m[k].blob]
        BY Zenon, <1>0, <4>1 DEF Offers
      <4> QED
        BY Zenon, <3>1, <3>3, <4>1, <4>2, SumLeft
    <3> QED
      BY Zenon, <1>0, <2>3, <3>2, <3>3 DEF Offers
  <2> QED
    BY Zenon, <2>1, <2>2, <2>3
<1>4. ASSUME NEW r \in Gets, GetTake(r), got' # got
      PROVE  /\ \A c \in Blobs : Cardinality(Copies(got', c)) <= granted'[c]
             /\ \A k \in Keys : Present(k)' =>
                  Cardinality(Copies(got', m'[k].blob)) + m'[k].readsLeft <= granted'[m'[k].blob]
  <2>1. at[r] \in Keys /\ TakeHit(at[r]) /\ got' = [got EXCEPT ![r] = m[at[r]].blob]
    BY Zenon, <1>4 DEF ServerInv, Phases, RequestPhases, GetTake, Goto, Reqs
  <2>2. PICK k \in Keys : TakeHit(k) /\ got' = [got EXCEPT ![r] = m[k].blob]
    BY Zenon, <2>1
  <2>3. /\ granted' = granted /\ Present(k)
        /\ Present(k)' => m'[k].blob = m[k].blob /\ m'[k].readsLeft = m[k].readsLeft - 1
        /\ \A j \in Keys \ {k} : m'[j] = m[j]
    BY Zenon, <1>0, <2>2, TakeHitEffect
  <2>4. PICK b \in Blobs : /\ b = m[k].blob /\ m[k].readsLeft \in Nat \ {0} /\ granted[b] \in Nat
                          /\ Cardinality(Copies(got, b)) + m[k].readsLeft <= granted[b]
    <3>1. m[k].blob \in Blobs /\ m[k].readsLeft \in Nat \ {0}
      BY Zenon, <1>0, <2>3, EntryIs
    <3> QED
      BY Zenon, <1>0, <2>3, <3>1 DEF Offered
  <2>5. /\ Cardinality(Copies(got', b)) <= Cardinality(Copies(got, b)) + 1
        /\ \A d : d # b => Cardinality(Copies(got', d)) <= Cardinality(Copies(got, d))
    BY Zenon, <1>0, <2>2, <2>4, OneMoreCopy
  <2>6. ASSUME NEW c \in Blobs
        PROVE  Cardinality(Copies(got', c)) <= granted'[c]
    <3>1. CASE c = b
      BY Zenon, <1>1, <2>3, <2>4, <2>5, <3>1, SumTaken
    <3>2. CASE c # b
      <4>1. /\ Cardinality(Copies(got', c)) <= Cardinality(Copies(got, c)) /\ granted[c] \in Nat
            /\ Cardinality(Copies(got, c)) <= granted[c]
            /\ Cardinality(Copies(got, c)) \in Nat /\ Cardinality(Copies(got', c)) \in Nat
        BY Zenon, <1>0, <1>1, <2>5, <3>2
      <4> QED
        BY Zenon, <2>3, <4>1, SumFewer
    <3> QED
      BY Zenon, <3>1, <3>2
  <2>7. ASSUME NEW j \in Keys, Present(j)'
        PROVE  Cardinality(Copies(got', m'[j].blob)) + m'[j].readsLeft <= granted'[m'[j].blob]
    <3>1. CASE j = k
      <4>1. m'[j].blob = b /\ m'[j].readsLeft = m[k].readsLeft - 1 /\ granted' = granted
        BY Zenon, <2>3, <2>4, <2>7, <3>1
      <4>2. Cardinality(Copies(got, b)) \in Nat /\ Cardinality(Copies(got', b)) \in Nat
        BY Zenon, <1>1
      <4> QED
        BY Zenon, <2>4, <2>5, <4>1, <4>2, SumTaken
    <3>2. CASE j # k
      <4>1. m'[j] = m[j] /\ Present(j)
        BY Zenon, <2>3, <2>7, <3>2 DEF Present
      <4>2. m[j].blob # b
        BY Zenon, <1>0, <2>3, <2>4, <3>2, <4>1 DEF IInv, Bookkeeping
      <4>3. /\ Cardinality(Copies(got', m[j].blob)) <= Cardinality(Copies(got, m[j].blob))
            /\ Cardinality(Copies(got, m[j].blob)) \in Nat /\ Cardinality(Copies(got', m[j].blob)) \in Nat
            /\ Cardinality(Copies(got, m[j].blob)) + m[j].readsLeft <= granted[m[j].blob]
        BY Zenon, <1>1, <2>5, <4>1, <4>2 DEF Offered
      <4>4. m[j].readsLeft \in Nat /\ granted[m[j].blob] \in Nat
        BY Zenon, <1>0, <4>1, EntryIs
      <4> QED
        BY Zenon, <2>3, <4>1, <4>3, <4>4, SumOut
    <3> QED
      BY Zenon, <3>1, <3>2
  <2> QED
    BY Zenon, <2>6, <2>7
<1>5. got' = got \/ \E r \in Gets : GetTake(r)
  BY ZenonT(40) DEF ServerNext, Handlers, Connect, Hangup, Flush, BadRequest, PostCheck, PostBody,
     PostPut, GetGate, GetReturn, DeleteHandler, GCSteps, GCTick, GCSweep, GCExit, Signal, ListenError,
     MainSteps, ShutdownDone, WipeBegin, Wipe, Return, Time, allVars, srvVars, reqVars
<1> QED
  BY Zenon, <1>3, <1>4, <1>5

\* Concurrent GETs never share a read, for any number of them and any grants: the responses
\* that carry a ciphertext, zeroized ones included, are no more than its POST allowed.
THEOREM ServerReadsShared == ServerSafetySpec => []ReadsShared
<1>1. ServerInit => Offered
  <2> SUFFICES ASSUME ServerInit PROVE Offered
    OBVIOUS
  <2>1. \A k \in Keys : ~Present(k)
    BY Zenon DEF ServerInit, Init, Present
  <2>2. ASSUME NEW c \in Blobs
        PROVE  Cardinality({g \in Gets : got[g] = c}) <= granted[c]
    <3>1. {g \in Gets : got[g] = c} = {} /\ granted[c] = 0
      BY Zenon, ServerConstants DEF ServerInit, Init
    <3>2. Cardinality({g \in Gets : got[g] = c}) = 0
      BY Zenon, <3>1, FS_EmptySet
    <3> QED
      BY <3>1, <3>2
  <2> QED
    BY Zenon, <2>1, <2>2 DEF Offered, ReadsShared
<1>2. Offered => ReadsShared
  BY Zenon DEF Offered
<1> QED
  BY <1>1, <1>2, OfferedStep, ServerInvariant, PTL DEF ServerSafetySpec
===============================================================================
