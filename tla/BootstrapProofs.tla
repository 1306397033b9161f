--------------------------- MODULE BootstrapProofs ---------------------------
(***************************************************************************)
(* Agreement and NoFalseAlarm of Bootstrap, for any number of runs, any    *)
(* passphrases, clocks, timeouts and faults.                               *)
(***************************************************************************)
EXTENDS Bootstrap, TLAPS

\* The part of BootTypeOK the argument uses.
Typed ==
  /\ pc \in [Runs -> PCs]
  /\ peer \in [Runs -> Runs \cup {NoRun}]
  /\ psk \in [Runs -> Responders \cup {NoRun}]
  /\ capsule \in [Runs -> BOOLEAN]
  /\ entry \in [Runs -> {NoEntry} \cup [own : Runs, peer : Runs \cup {NoRun}]]
  /\ out \in [Runs -> ExitCodes]

Quiet(x) == out[x] \notin {"BootstrapAuth", "BootstrapMITM"}
RunOK(x) == Knows(x) /\ Persisted(x) /\ Quiet(x)
IInv == Typed /\ LegsBound /\ \A x \in Runs : RunOK(x)

\* Every behaviour starts with an empty relay and runs that know nothing.
LEMMA InitIInv == Init => IInv
<1> SUFFICES ASSUME Init PROVE IInv
  OBVIOUS
<1>1. Typed
  BY DEF Init, Typed, PCs, ExitCodes
<1>2. LegsBound
  BY DEF Init, LegsBound
<1>3. ASSUME NEW x \in Runs PROVE RunOK(x)
  BY Zenon DEF Init, RunOK, Knows, Persisted, Quiet
<1> QED
  BY <1>1, <1>2, <1>3 DEF IInv

-------------------------------------------------------------------------------
(* A step belongs to one run.  A responder's peer, once known, stays.      *)

PeersKept == \A j \in Responders : peer[j] \in Initiators => peer'[j] = peer[j]

Others(x) ==
  /\ setup' = setup
  /\ \A y \in Runs \ {x} :
       /\ pc'[y] = pc[y] /\ peer'[y] = peer[y] /\ psk'[y] = psk[y]
       /\ capsule'[y] = capsule[y] /\ entry'[y] = entry[y] /\ out'[y] = out[y]

\* What the relay holds stays bound to its senders when legs are taken away,
LEMMA LegsKept ==
  ASSUME LegsBound, PeersKept, slots' \subseteq slots
  PROVE  LegsBound'
<1> SUFFICES ASSUME NEW s \in slots, LegBound(s.key, s.body, peer)
             PROVE  LegBound(s.key, s.body, peer')
  BY DEF LegsBound
<1> QED
  BY Zenon DEF LegBound, PeersKept

\* and when one is added that is.
LEMMA LegAdded ==
  ASSUME LegsBound, PeersKept, NEW k, NEW body, Stored(k, body), LegBound(k, body, peer')
  PROVE  LegsBound'
<1> SUFFICES ASSUME NEW s \in slots' PROVE LegBound(s.key, s.body, peer')
  BY DEF LegsBound
<1>1. CASE s \in slots
  <2>1. LegBound(s.key, s.body, peer)
    BY <1>1 DEF LegsBound
  <2> QED
    BY Zenon, <2>1 DEF LegBound, PeersKept
<1>2. CASE s = [key |-> k, body |-> body, until |-> t + SlotTTL]
  BY <1>2
<1> QED
  BY <1>1, <1>2 DEF Stored

\* Only the run that moves has to be looked at.
LEMMA OneRun ==
  ASSUME IInv, NEW x \in Runs, Others(x), PeersKept, Typed', LegsBound', RunOK(x)'
  PROVE  IInv'
<1> SUFFICES ASSUME NEW y \in Runs \ {x} PROVE RunOK(y)'
  BY DEF IInv
<1>1. RunOK(y)
  BY DEF IInv
<1>2. Knows(y)'
  BY <1>1 DEF Others, PeersKept, RunOK, Knows, Runs
<1>3. Persisted(y)'
  BY Zenon, <1>1 DEF Others, RunOK, Persisted
<1>4. Quiet(y)'
  BY Zenon, <1>1 DEF Others, RunOK, Quiet
<1> QED
  BY <1>2, <1>3, <1>4 DEF RunOK

\* A run moves on to its next leg, or to the confirmation, knowing what it knew.
LEMMA GotoIInv ==
  ASSUME IInv, NEW x \in Runs, NEW to \in Handshake \cup {"confirm"}, Goto(x, to), pc[x] # "done",
         UNCHANGED <<setup, peer, psk, diskVars>>, LegsBound', Knows(x)'
  PROVE  IInv'
<1>0. to \in PCs
  BY DEF PCs, Agreed
<1>1. Typed' /\ pc'[x] = to /\ out' = out
  BY Zenon, <1>0 DEF IInv, Typed, Goto, diskVars
<1>2. Others(x) /\ PeersKept
  BY Zenon DEF IInv, Typed, Goto, diskVars, Others, PeersKept
<1>3. Persisted(x) /\ Quiet(x)
  BY DEF IInv, RunOK
<1>4. to \notin {"done", "identity"} /\ out[x] = "running"
  BY Zenon, <1>3 DEF Persisted, Handshake, Polling
<1>5. Persisted(x)' /\ Quiet(x)'
  BY Zenon, <1>1, <1>4 DEF Persisted, Quiet
<1> QED
  BY <1>1, <1>2, <1>5, OneRun DEF RunOK

-------------------------------------------------------------------------------
(* Steps that leave the relay and what a run knows alone.                  *)

Silent == UNCHANGED <<slots, peer, psk>>

\* A step that leaves the relay and what the runs know alone.
LEMMA SilentStep ==
  ASSUME IInv, NEW x \in Runs, Silent, Others(x), Typed', RunOK(x)'
  PROVE  IInv'
<1>1. PeersKept
  BY DEF PeersKept, Silent
<1>2. LegsBound'
  BY <1>1, LegsKept DEF IInv, Silent
<1> QED
  BY <1>1, <1>2, OneRun

\* runBootstrap starts.
LEMMA StartIInv == ASSUME IInv, NEW x \in Runs, Start(x) PROVE IInv'
<1> USE DEF Start, Goto, clockVars, loopVars, pairVars, diskVars, IInv
<1>1. Silent /\ Others(x)
  BY Zenon DEF Silent, Others, Typed
<1>2. Typed'
  BY Zenon DEF Typed, PCs, Handshake, Polling
<1>3. RunOK(x)'
  BY Zenon DEF RunOK, Knows, Persisted, Quiet, Typed, Runs
<1> QED
  BY Zenon, <1>1, <1>2, <1>3, SilentStep

\* A poll loop goes round.
LEMMA RoundIInv == ASSUME IInv, NEW x \in Runs, Round(x) PROVE IInv'
<1> USE DEF Round, clockVars, loopVars, pairVars, diskVars, IInv
<1>1. Silent /\ Others(x)
  BY Zenon DEF Silent, Others
<1>2. Typed'
  BY Zenon DEF Typed
<1>3. RunOK(x)'
  BY Zenon DEF RunOK, Knows, Persisted, Quiet
<1> QED
  BY Zenon, <1>1, <1>2, <1>3, SilentStep

\* The context expires.
LEMMA ExpireIInv == ASSUME IInv, NEW x \in Runs, Expire(x) PROVE IInv'
<1> USE DEF Expire, Exit, clockVars, loopVars, pairVars, diskVars, IInv
<1>1. Silent /\ Others(x)
  BY Zenon DEF Silent, Others, Typed
<1>2. Typed'
  BY Zenon DEF Typed, PCs, ExitCodes
<1>3. RunOK(x)'
  BY DEF RunOK, Knows, Persisted, Quiet, Typed, Polling
<1> QED
  BY Zenon, <1>1, <1>2, <1>3, SilentStep

\* The operator compares the fingerprints.
LEMMA ConfirmIInv == ASSUME IInv, NEW x \in Runs, Confirm(x) PROVE IInv'
<1> USE DEF Confirm, Goto, Exit, clockVars, loopVars, pairVars, diskVars, IInv
<1>1. Silent /\ Others(x)
  BY DEF Silent, Others, Typed
<1>2. Typed'
  BY Zenon DEF Typed, PCs, ExitCodes, Agreed
<1>3. RunOK(x)'
  BY DEF RunOK, Knows, Persisted, Quiet, Typed
<1> QED
  BY Zenon, <1>1, <1>2, <1>3, SilentStep

\* FinishBootstrap has its P_B.
LEMMA ReadPBIInv == ASSUME IInv, NEW x \in Runs, ReadPB(x) PROVE IInv'
<1> USE DEF ReadPB, Goto, Exit, clockVars, loopVars, pairVars, diskVars, IInv
<1>1. Silent /\ Others(x)
  BY Zenon DEF Silent, Others, Typed
<1>2. Typed'
  BY Zenon DEF Typed, PCs, ExitCodes, Agreed
<1>3. RunOK(x)'
  BY DEF RunOK, Knows, Persisted, Quiet, Typed
<1> QED
  BY Zenon, <1>1, <1>2, <1>3, SilentStep

\* The capsule is written, or the write fails.
LEMMA WriteCapsuleIInv == ASSUME IInv, NEW x \in Runs, WriteCapsule(x) PROVE IInv'
<1> USE DEF WriteCapsule, Goto, Exit, clockVars, loopVars, pairVars, diskVars, IInv
<1>1. Silent /\ Others(x)
  BY DEF Silent, Others, Typed
<1>2. Typed'
  BY Zenon DEF Typed, PCs, ExitCodes, Agreed
<1>3. RunOK(x)'
  BY DEF RunOK, Knows, Persisted, Quiet, Typed
<1> QED
  BY Zenon, <1>1, <1>2, <1>3, SilentStep

\* The identity entry names the peer the run has pinned.
LEMMA PutIdentityIInv == ASSUME IInv, NEW x \in Runs, PutIdentity(x) PROVE IInv'
<1> USE DEF PutIdentity, Goto, Exit, clockVars, loopVars, pairVars, diskVars, IInv
<1>1. Silent /\ Others(x)
  BY DEF Silent, Others, Typed
<1>2. Typed'
  BY DEF Typed, PCs, ExitCodes
<1>3. RunOK(x)'
  BY DEF RunOK, Knows, Persisted, Quiet, Typed
<1> QED
  BY Zenon, <1>1, <1>2, <1>3, SilentStep

-------------------------------------------------------------------------------
(* Polling.  A miss changes nothing that matters; a failed exchange ends   *)
(* the run and may cost a leg.                                             *)

\* A GET that finds nothing.
LEMMA MissedIInv ==
  ASSUME IInv, NEW x \in Runs, NEW k, Missed(x, k), UNCHANGED <<setup, pc, pairVars, diskVars, out>>
  PROVE  IInv'
<1> USE DEF Missed, pairVars, diskVars, IInv
<1>1. Silent /\ Others(x)
  BY Zenon DEF Silent, Others
<1>2. Typed'
  BY Zenon DEF Typed
<1>3. RunOK(x)'
  BY Zenon DEF RunOK, Knows, Persisted, Quiet
<1> QED
  BY Zenon, <1>1, <1>2, <1>3, SilentStep

\* A run that ends without success, with no attack to report.
LEMMA ExitIInv ==
  ASSUME IInv, NEW x \in Runs, NEW code \in ExitCodes \ {"OK", "BootstrapAuth", "BootstrapMITM"},
         Exit(x, code), UNCHANGED <<setup, peer, psk, diskVars>>, LegsBound'
  PROVE  IInv'
<1> USE DEF Exit, diskVars, IInv
<1>1. Others(x) /\ PeersKept
  BY Zenon DEF Others, PeersKept, Typed
<1>2. Typed'
  BY Zenon DEF Typed, PCs
<1>3. RunOK(x)'
  BY DEF RunOK, Knows, Persisted, Quiet, Typed
<1> QED
  BY <1>1, <1>2, <1>3, OneRun

\* A GET that fails before or after the relay gave the leg away.
LEMMA FetchFailedIInv ==
  ASSUME IInv, NEW x \in Runs, NEW k, FetchFailed(x, k), UNCHANGED <<setup, pairVars, diskVars>>
  PROVE  IInv'
<1>1. PeersKept /\ slots' \subseteq slots
  BY DEF FetchFailed, PeersKept, pairVars
<1>2. LegsBound'
  BY <1>1, LegsKept DEF IInv
<1>3. Failure(x) \in ExitCodes \ {"OK", "BootstrapAuth", "BootstrapMITM"} /\ Exit(x, Failure(x))
  BY DEF FetchFailed, Failure, ExitCodes
<1> QED
  BY <1>2, <1>3, ExitIInv DEF pairVars

\* A leg found at an address was sealed for that address by a run of the right role.
LEMMA FoundLeg ==
  ASSUME IInv, NEW k, NEW s \in Readable(k)
  PROVE  /\ s \in slots /\ s.key = k
         /\ k.root[1] = 1 => s.body.ad = k /\ s.body.pk \in Initiators
         /\ k.root[1] = 2 => s.body.ad = k /\ s.body.pk \in Responders
         /\ \A i \in Initiators, j \in Responders :
              k.root = <<3, i, j>> => OpensLeg3(s.body, i, j, k) /\ s.body.psk = j /\ peer[j] = i
<1>1. s \in slots /\ s.key = k /\ LegBound(k, s.body, peer)
  BY DEF Readable, Resident, IInv, LegsBound
<1>2. CASE \E i \in Initiators : k.root = <<1, PA[i]>> /\ s.body = SealLeg12(i, k)
  BY <1>1, <1>2 DEF SealLeg12
<1>3. CASE \E j \in Responders : k.root = <<2, PA[j]>> /\ s.body = SealLeg12(j, k)
  BY <1>1, <1>3 DEF SealLeg12
<1>4. ASSUME NEW i \in Initiators, NEW j \in Responders,
             k.root = Leg3Root(i, j), s.body = SealLeg3(j, i, j, k), peer[j] = i
      PROVE  /\ k.root[1] = 3
             /\ \A ii \in Initiators, jj \in Responders :
                  k.root = <<3, ii, jj>> =>
                    OpensLeg3(s.body, ii, jj, k) /\ s.body.psk = jj /\ peer[jj] = ii
  BY <1>4 DEF SealLeg3, OpensLeg3, Leg3Root
<1> QED
  BY <1>1, <1>2, <1>3, <1>4 DEF LegBound

\* What an initiator opens as leg 2 is the key of a responder.
LEMMA GetLeg2IInv == ASSUME IInv, NEW i \in Initiators, GetLeg2(i) PROVE IInv'
<1> DEFINE k == Leg12Key(2, i, HourOf(Candidate(i)), Candidate(i))
<1>0. i \in Runs /\ UNCHANGED <<setup, diskVars>> /\ pc[i] = "leg2"
  BY Zenon DEF GetLeg2, clockVars, Runs, Asking
<1>1. CASE Missed(i, k) /\ UNCHANGED <<pc, pairVars, out>>
  BY <1>0, <1>1, MissedIInv
<1>2. CASE FetchFailed(i, k) /\ UNCHANGED <<loopVars, pairVars>>
  BY <1>0, <1>2, FetchFailedIInv
<1>3. ASSUME NEW s \in Readable(k), Fetched(i, k, s), Leg2Opened(i, s, k), UNCHANGED <<bPost, psk>>
      PROVE  IInv'
  <2>1. s.body.ad = k /\ s.body.pk \in Responders
    BY FoundLeg DEF Leg12Key
  <2>2. /\ pc' = [pc EXCEPT ![i] = "leg3"] /\ peer' = [peer EXCEPT ![i] = s.body.pk]
        /\ out' = out /\ slots' \subseteq slots
    BY Zenon, <1>3, <2>1 DEF Leg2Opened, OpensLeg12, Goto, Fetched
  <2> HIDE DEF k
  <2>3. Others(i) /\ PeersKept
    BY Zenon, <1>0, <1>3, <2>2, BootstrapConstants DEF Others, PeersKept, diskVars, Runs, IInv, Typed
  <2>4. LegsBound'
    BY <2>2, <2>3, LegsKept DEF IInv
  <2>5. Typed'
    BY Zenon, <1>0, <1>3, <2>1, <2>2 DEF IInv, Typed, diskVars, Runs, PCs, Handshake, Polling
  <2>6. RunOK(i)'
    <3>1. RunOK(i) /\ psk[i] = NoRun
      BY Zenon, <1>0 DEF IInv, RunOK, Knows
    <3> QED
      BY <1>0, <1>3, <2>1, <2>2, <3>1 DEF IInv, Typed, diskVars, RunOK, Knows, Persisted, Quiet
  <2> QED
    BY <1>0, <2>3, <2>4, <2>5, <2>6, OneRun
<1> QED
  BY Zenon, <1>1, <1>2, <1>3 DEF GetLeg2

\* What an initiator opens as leg 3 is the secret its peer drew for it.
LEMMA GetLeg3IInv == ASSUME IInv, NEW i \in Initiators, GetLeg3(i) PROVE IInv'
<1> DEFINE k == Leg3Key(i, peer[i], hour[i], Candidate(i))
<1>0. i \in Runs /\ UNCHANGED <<setup, diskVars>> /\ pc[i] = "leg3"
  BY Zenon DEF GetLeg3, clockVars, Runs, Asking
<1>1. CASE Missed(i, k) /\ UNCHANGED <<pc, pairVars, out>>
  BY <1>0, <1>1, MissedIInv
<1>2. CASE FetchFailed(i, k) /\ UNCHANGED <<loopVars, pairVars>>
  BY <1>0, <1>2, FetchFailedIInv
<1>3. ASSUME NEW s \in Readable(k), Fetched(i, k, s), UNCHANGED peer,
             IF OpensLeg3(s.body, i, peer[i], k)
               THEN Goto(i, "confirm") /\ psk' = [psk EXCEPT ![i] = s.body.psk]
               ELSE Exit(i, "BootstrapMITM") /\ UNCHANGED psk
      PROVE  IInv'
  <2>0. peer[i] \in Responders
    BY Zenon, <1>0 DEF IInv, RunOK, Knows
  <2>1. OpensLeg3(s.body, i, peer[i], k) /\ s.body.psk = peer[i] /\ peer[peer[i]] = i
    BY <2>0, FoundLeg DEF Leg3Key, Leg3Root
  <2>2. /\ pc' = [pc EXCEPT ![i] = "confirm"] /\ psk' = [psk EXCEPT ![i] = peer[i]]
        /\ out' = out /\ slots' \subseteq slots
    BY Zenon, <1>3, <2>1 DEF Goto, Fetched
  <2> HIDE DEF k
  <2>3. Others(i) /\ PeersKept
    BY Zenon, <1>0, <1>3, <2>2 DEF Others, PeersKept, diskVars, IInv, Typed
  <2>4. LegsBound'
    BY <2>2, <2>3, LegsKept DEF IInv
  <2>5. Typed'
    BY Zenon, <1>0, <1>3, <2>0, <2>2 DEF IInv, Typed, diskVars, PCs, Agreed
  <2>6. RunOK(i)'
    <3>1. pc'[i] = "confirm" /\ psk'[i] = peer[i] /\ peer' = peer /\ RunOK(i) /\ i \in Initiators
      BY Zenon, <1>0, <1>3, <2>2 DEF IInv, Typed
    <3> QED
      BY Zenon, <1>0, <2>0, <2>1, <2>2, <3>1 DEF diskVars, RunOK, Knows, Persisted, Quiet
  <2> QED
    BY <1>0, <2>3, <2>4, <2>5, <2>6, OneRun
<1> QED
  BY Zenon, <1>1, <1>2, <1>3 DEF GetLeg3

\* What a responder opens as leg 1 is the key of an initiator; it had no peer before.
LEMMA GetLeg1IInv == ASSUME IInv, NEW j \in Responders, GetLeg1(j) PROVE IInv'
<1> DEFINE b == Candidate(j)
           k == Leg12Key(1, j, HourOf(b), b)
<1>0. j \in Runs /\ UNCHANGED <<setup, diskVars>> /\ pc[j] = "leg1"
  BY Zenon DEF GetLeg1, clockVars, Runs, Asking
<1>1. CASE Missed(j, k) /\ UNCHANGED <<pc, pairVars, out>>
  BY <1>0, <1>1, MissedIInv
<1>2. CASE FetchFailed(j, k) /\ UNCHANGED <<loopVars, pairVars>>
  BY <1>0, <1>2, FetchFailedIInv
<1>3. ASSUME NEW s \in Readable(k), Fetched(j, k, s),
             IF OpensLeg12(s.body, [k EXCEPT !.hour = OpenHour(j, b)])
               THEN /\ Goto(j, "post2")
                    /\ peer' = [peer EXCEPT ![j] = s.body.pk]
                    /\ psk' = [psk EXCEPT ![j] = j]
               ELSE Exit(j, "BootstrapAuth") /\ UNCHANGED <<peer, psk>>
      PROVE  IInv'
  <2>0. peer[j] = NoRun
    BY Zenon, <1>0, BootstrapConstants DEF IInv, RunOK, Knows
  <2>1. s.body.ad = k /\ s.body.pk \in Initiators
    BY FoundLeg DEF Leg12Key
  <2>2. [k EXCEPT !.hour = OpenHour(j, b)] = k
    BY DEF Leg12Key, OpenHour
  <2>3. /\ pc' = [pc EXCEPT ![j] = "post2"] /\ peer' = [peer EXCEPT ![j] = s.body.pk]
        /\ psk' = [psk EXCEPT ![j] = j] /\ out' = out /\ slots' \subseteq slots
    BY Zenon, <1>3, <2>1, <2>2 DEF Goto, Fetched, OpensLeg12
  <2> HIDE DEF k
  <2>4. Others(j) /\ PeersKept
    BY Zenon, <1>0, <2>0, <2>3, BootstrapConstants DEF Others, PeersKept, diskVars, IInv, Typed, Runs
  <2>5. LegsBound'
    BY <2>3, <2>4, LegsKept DEF IInv
  <2>6. Typed'
    BY Zenon, <1>0, <2>1, <2>3 DEF IInv, Typed, diskVars, PCs, Handshake, Runs
  <2>7. RunOK(j)'
    BY <1>0, <2>1, <2>3, BootstrapConstants DEF IInv, Typed, diskVars, RunOK, Knows, Persisted, Quiet
  <2> QED
    BY <1>0, <2>4, <2>5, <2>6, <2>7, OneRun
<1> QED
  BY Zenon, <1>1, <1>2, <1>3 DEF GetLeg1

-------------------------------------------------------------------------------
(* Posting.                                                                *)

\* A POST that fails before or after the relay stored the leg.
LEMMA PostFailedIInv ==
  ASSUME IInv, NEW x \in Runs, NEW k, NEW body, PostFailed(x, k, body),
         UNCHANGED <<setup, pairVars, diskVars>>, LegBound(k, body, peer')
  PROVE  IInv'
<1>1. PeersKept
  BY DEF PeersKept, pairVars
<1>2. LegsBound'
  <2>1. CASE UNCHANGED slots
    BY <1>1, <2>1, LegsKept DEF IInv
  <2>2. CASE Stored(k, body)
    BY <1>1, <2>2, LegAdded DEF IInv
  <2> QED
    BY <2>1, <2>2 DEF PostFailed
<1>3. \E code \in ExitCodes \ {"OK", "BootstrapAuth", "BootstrapMITM"} : Exit(x, code)
  BY DEF PostFailed, Failure, ExitCodes
<1> QED
  BY <1>2, <1>3, ExitIInv DEF pairVars

\* Leg 1, the first time or again.
LEMMA PostLeg1IInv == ASSUME IInv, NEW i \in Initiators, PostLeg1(i) PROVE IInv'
<1> DEFINE k == Leg12Key(1, i, HourNow(i), Bucket(i))
<1>0. i \in Runs /\ UNCHANGED <<setup, pairVars, diskVars>> /\ pc[i] \in {"post1", "leg2"}
  BY Zenon DEF PostLeg1, clockVars, Runs, RepostDue
<1>1. LegBound(k, SealLeg12(i, k), peer')
  BY Zenon DEF LegBound, Leg12Key
<1>2. PeersKept
  BY <1>0 DEF PeersKept, pairVars
<1>3. CASE PostFailed(i, k, SealLeg12(i, k))
  BY Zenon, <1>0, <1>1, <1>3, PostFailedIInv
<1>4. CASE Conflict(i, k) /\ Exit(i, "Collision")
  <2>1. LegsBound'
    BY <1>2, <1>4, LegsKept DEF Conflict, IInv
  <2> QED
    BY <1>0, <1>4, <2>1, ExitIInv DEF ExitCodes, pairVars
<1>5. CASE (Posted(i, k, SealLeg12(i, k)) \/ Conflict(i, k)) /\ Goto(i, "leg2")
  <2>1. LegsBound'
    BY Zenon, <1>1, <1>2, <1>5, LegsKept, LegAdded DEF Conflict, Posted, IInv
  <2>2. Knows(i)'
    <3>1. pc'[i] = "leg2" /\ Knows(i)
      BY Zenon, <1>0, <1>5 DEF Goto, IInv, Typed, RunOK
    <3> QED
      BY Zenon, <1>0, <3>1 DEF Knows, pairVars
  <2> QED
    BY Zenon, <1>0, <1>5, <2>1, <2>2, GotoIInv DEF pairVars, Handshake, Polling
<1> QED
  BY Zenon, <1>3, <1>4, <1>5 DEF PostLeg1

\* Leg 2 is sealed for the address it goes to.
LEMMA PostLeg2IInv == ASSUME IInv, NEW j \in Responders, PostLeg2(j) PROVE IInv'
<1> DEFINE k == Leg12Key(2, j, HourNow(j), Bucket(j))
<1>0. j \in Runs /\ UNCHANGED <<setup, peer, psk, diskVars>> /\ pc[j] = "post2"
  BY Zenon DEF PostLeg2, clockVars, Runs
<1>1. LegBound(k, SealLeg12(j, k), peer')
  BY Zenon DEF LegBound, Leg12Key
<1>2. PeersKept
  BY <1>0 DEF PeersKept
<1>3. CASE PostFailed(j, k, SealLeg12(j, k)) /\ UNCHANGED <<hour, bPost>>
  BY Zenon, <1>0, <1>1, <1>3, PostFailedIInv DEF pairVars
<1>4. CASE Conflict(j, k) /\ Exit(j, "BootstrapTimeout")
  <2>1. LegsBound'
    BY <1>2, <1>4, LegsKept DEF Conflict, IInv
  <2> QED
    BY <1>0, <1>4, <2>1, ExitIInv DEF ExitCodes
<1>5. CASE Posted(j, k, SealLeg12(j, k)) /\ Goto(j, "post3")
  <2>1. LegsBound'
    BY Zenon, <1>1, <1>2, <1>5, LegAdded DEF Posted, IInv
  <2>2. Knows(j)'
    <3>1. pc'[j] = "post3" /\ Knows(j) /\ j \notin Initiators
      BY Zenon, <1>0, <1>5, BootstrapConstants DEF Goto, IInv, Typed, RunOK
    <3> QED
      BY Zenon, <1>0, <3>1 DEF Knows
  <2> QED
    BY <1>0, <1>5, <2>1, <2>2, GotoIInv DEF Handshake
<1> QED
  BY Zenon, <1>3, <1>4, <1>5 DEF PostLeg2

\* Leg 3 goes to the address of the two keys, sealed for both.
LEMMA PostLeg3IInv == ASSUME IInv, NEW j \in Responders, PostLeg3(j) PROVE IInv'
<1> DEFINE k == Leg3Key(peer[j], j, hour[j], bPost[j])
           body == SealLeg3(psk[j], peer[j], j, k)
<1>0. j \in Runs /\ UNCHANGED <<setup, pairVars, diskVars>> /\ pc[j] = "post3"
  BY Zenon DEF PostLeg3, clockVars, Runs
<1>a. psk[j] = j /\ peer[j] \in Initiators /\ j \notin Initiators
  BY Zenon, <1>0, BootstrapConstants DEF IInv, RunOK, Knows
<1>1. LegBound(k, body, peer')
  BY Zenon, <1>0, <1>a DEF LegBound, Leg3Key, pairVars
<1>2. PeersKept
  BY <1>0 DEF PeersKept, pairVars
<1>3. CASE PostFailed(j, k, body)
  BY Zenon, <1>0, <1>1, <1>3, PostFailedIInv
<1>4. CASE Conflict(j, k) /\ Exit(j, "BootstrapTimeout")
  <2>1. LegsBound'
    BY Zenon, <1>2, <1>4, LegsKept DEF Conflict, IInv
  <2> QED
    BY <1>0, <1>4, <2>1, ExitIInv DEF ExitCodes, pairVars
<1>5. CASE Posted(j, k, body) /\ Goto(j, "confirm")
  <2>1. LegsBound'
    BY Zenon, <1>1, <1>2, <1>5, LegAdded DEF Posted, IInv
  <2>2. Knows(j)'
    <3>1. pc'[j] = "confirm"
      BY Zenon, <1>0, <1>5 DEF Goto, IInv, Typed
    <3> QED
      BY <1>a, <3>1 DEF Knows
  <2> QED
    BY Zenon, <1>0, <1>5, <2>1, <2>2, GotoIInv DEF pairVars
<1> QED
  BY Zenon, <1>3, <1>4, <1>5 DEF PostLeg3

-------------------------------------------------------------------------------
\* Time passes.
LEMMA TickIInv == ASSUME IInv, Tick PROVE IInv'
<1> USE DEF Tick, loopVars, pairVars, diskVars, IInv
<1>1. Typed'
  BY Zenon DEF Typed
<1>2. LegsBound'
  BY DEF LegsBound
<1>3. ASSUME NEW x \in Runs PROVE RunOK(x)'
  BY Zenon, <1>3 DEF RunOK, Knows, Persisted, Quiet
<1> QED
  BY <1>1, <1>2, <1>3

\* Every step keeps the invariant.
LEMMA NextIInv == IInv /\ [Next]_bvars => IInv'
<1> SUFFICES ASSUME IInv, [Next]_bvars PROVE IInv'
  OBVIOUS
<1>1. CASE Tick
  BY <1>1, TickIInv
<1>2. ASSUME NEW x \in Runs, Start(x) \/ Confirm(x) \/ Finish(x) PROVE IInv'
  BY <1>2, StartIInv, ConfirmIInv, ReadPBIInv, WriteCapsuleIInv, PutIdentityIInv DEF Finish
<1>3. ASSUME NEW x \in Runs, Handshakes(x) PROVE IInv'
  BY Zenon, <1>3, RoundIInv, ExpireIInv, PostLeg1IInv, GetLeg2IInv, GetLeg3IInv, GetLeg1IInv,
     PostLeg2IInv, PostLeg3IInv DEF Handshakes
<1>4. CASE UNCHANGED bvars
  <2> USE <1>4 DEF bvars, clockVars, loopVars, pairVars, diskVars, IInv
  <2>1. Typed'
    BY Zenon DEF Typed
  <2>2. LegsBound'
    BY DEF LegsBound
  <2>3. ASSUME NEW x \in Runs PROVE RunOK(x)'
    BY Zenon, <2>3 DEF RunOK, Knows, Persisted, Quiet
  <2> QED
    BY <2>1, <2>2, <2>3
<1> QED
  BY <1>1, <1>2, <1>3, <1>4 DEF Next

\* The invariant holds in every state of every behaviour of the bootstrap.
THEOREM SpecIInv == SafetySpec => []IInv
BY InitIInv, NextIInv, PTL DEF SafetySpec

\* The invariant contains Agreement: what both sides pinned, seen from both.
LEMMA IInvAgreement == IInv => Agreement
<1> SUFFICES ASSUME IInv, NEW i \in Initiators, psk[i] # NoRun
             PROVE  /\ psk[i] = peer[i] /\ peer[peer[i]] = i
                    /\ out[i] = "OK" /\ out[peer[i]] = "OK" =>
                         /\ capsule[i] /\ capsule[peer[i]]
                         /\ {i, peer[i]} \subseteq setup.keyring =>
                              /\ entry[i].peer = entry[peer[i]].own
                              /\ entry[peer[i]].peer = entry[i].own
  BY Zenon DEF Agreement
<1>1. psk[i] = peer[i] /\ peer[i] \in Responders /\ peer[peer[i]] = i
  BY Zenon DEF IInv, RunOK, Knows, Runs
<1>2. Persisted(i) /\ Persisted(peer[i])
  BY <1>1 DEF IInv, RunOK, Runs
<1>3. ASSUME out[i] = "OK", out[peer[i]] = "OK"
      PROVE  /\ capsule[i] /\ capsule[peer[i]]
             /\ i \in setup.keyring => entry[i] = [own |-> i, peer |-> peer[i]]
             /\ peer[i] \in setup.keyring =>
                  entry[peer[i]] = [own |-> peer[i], peer |-> peer[peer[i]]]
  BY <1>2, <1>3, Zenon DEF Persisted
<1> QED
  BY <1>1, <1>3

\* Whatever earlier or concurrent runs with the same P_A left in the relay, whatever was
\* lost and however the clocks differ: an initiator that opened leg 3 holds the secret of
\* its own peer, whose peer it is, and two runs that exit OK stored mirrored identities.
THEOREM BootstrapAgreement == SafetySpec => []Agreement
BY SpecIInv, IInvAgreement, PTL

\* A leg found at an address opens: with nobody interfering, initiatorBootstrap and
\* responderBootstrap never exit with BootstrapAuth or BootstrapMITM.
THEOREM BootstrapNoFalseAlarm == SafetySpec => []NoFalseAlarm
<1>1. IInv => NoFalseAlarm
  BY DEF IInv, RunOK, Quiet, NoFalseAlarm
<1> QED
  BY <1>1, SpecIInv, PTL
===============================================================================
