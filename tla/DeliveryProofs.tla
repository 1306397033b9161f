--------------------------- MODULE DeliveryProofs -----------------------------
(*****************************************************************************)
(* AtMostOnce, SendReportHonest, LossReported, StrictMode, MissIsHonest,     *)
(* HourSeam and WatchFindsNew of Delivery, for any number of messages and    *)
(* receivers, any clocks, intervals and timeouts, and any length of the hour *)
(* and of the bucket.                                                        *)
(*****************************************************************************)
EXTENDS Delivery, TLAPS

\* The domains of the variables, and the types the argument uses.
Typed ==
  /\ t \in Nat /\ setup \in Setups
  /\ DOMAIN pc = Clients /\ DOMAIN since = Clients
  /\ DOMAIN ask = Clients /\ DOMAIN ans = Clients /\ DOMAIN out = Clients
  /\ DOMAIN bNow = Recvs /\ DOMAIN off = Recvs /\ began \in [Recvs -> Int]
  /\ DOMAIN wrote = Recvs /\ resent \in [Recvs -> BOOLEAN]
  /\ DOMAIN box = Keys /\ DOMAIN accepted = Msgs /\ taken \in [Msgs -> SUBSET Recvs]

RelayOK == (\A k \in Keys : Held(k)) /\ \A m \in Msgs : Handed(m)
IInv ==
  /\ Typed /\ RelayOK
  /\ \A m \in Msgs : Posting(m)
  /\ \A r \in Recvs : Receiving(r)

\* No message is taken for an answer without one, or for the answer of the other side.
LEMMA Messages ==
  /\ NoMsg \notin Msgs /\ "none" \notin Msgs /\ "404" \notin Msgs /\ "503" \notin Msgs
  /\ Msgs \cap Recvs = {}
BY DeliveryConstants

\* Nothing has been sent, stored or received.
LEMMA InitIInv == Init => IInv
<1> SUFFICES ASSUME Init PROVE IInv
  OBVIOUS
<1>1. Typed
  BY DeliveryConstants DEF Init, Typed, NoTime
<1>2. RelayOK
  BY Zenon DEF Init, RelayOK, Held, Handed
<1>3. ASSUME NEW m \in Msgs PROVE Posting(m)
  BY Zenon, <1>3 DEF Init, Posting, Clients
<1>4. ASSUME NEW r \in Recvs PROVE Receiving(r)
  BY Zenon, <1>4, DeliveryConstants DEF Init, Receiving, Clients
<1> QED
  BY Zenon, <1>1, <1>2, <1>3, <1>4 DEF IInv

\* A step that leaves the clock, the relay and all clients but one alone.
Alone(p) ==
  /\ UNCHANGED <<t, setup, box, accepted, taken>>
  /\ \A q \in Clients \ {p} :
       /\ pc'[q] = pc[q] /\ since'[q] = since[q] /\ out'[q] = out[q]
       /\ ask'[q] = ask[q] /\ ans'[q] = ans[q]
  /\ \A r \in Recvs \ {p} :
       /\ wrote'[r] = wrote[r] /\ resent'[r] = resent[r]
       /\ bNow'[r] = bNow[r] /\ off'[r] = off[r] /\ began'[r] = began[r]

\* Only that client has to be looked at.
LEMMA OneClient ==
  ASSUME IInv, NEW p \in Clients, Alone(p), Typed',
         p \in Msgs => Posting(p)', p \in Recvs => Receiving(p)'
  PROVE  IInv'
<1>1. RelayOK'
  BY DEF IInv, Alone, RelayOK, Held, Handed
<1>2. ASSUME NEW m \in Msgs PROVE Posting(m)'
  BY <1>2 DEF IInv, Alone, Posting, Clients
<1>3. ASSUME NEW r \in Recvs PROVE Receiving(r)'
  <2>1. CASE r = p
    BY Zenon, <1>3, <2>1
  <2>2. CASE r # p
    BY <1>3, <2>2 DEF IInv, Alone, Receiving, Bad, Clients
  <2> QED
    BY Zenon, <2>1, <2>2
<1> QED
  BY Zenon, <1>1, <1>2, <1>3 DEF IInv

\* The relay answers one client and leaves what the others wait for alone.
LEMMA RelayAnswers ==
  ASSUME Typed, NEW p \in Clients, RelayPost(p) \/ RelayGet(p)
  PROVE  /\ UNCHANGED <<t, setup, pc, since, out, bNow, off, began>>
         /\ \A q \in Clients \ {p} : ask'[q] = ask[q] /\ ans'[q] = ans[q]
<1>1. ASSUME NEW a, Reply(p, a)
      PROVE  \A q \in Clients \ {p} : ask'[q] = ask[q] /\ ans'[q] = ans[q]
  BY Zenon, <1>1 DEF Reply, Typed
<1>2. CASE RelayPost(p)
  BY Zenon, <1>1, <1>2 DEF RelayPost, cliVars, probeVars
<1>3. CASE RelayGet(p)
  BY Zenon, <1>1, <1>3 DEF RelayGet, cliVars, probeVars
<1> QED
  BY Zenon, <1>2, <1>3

(* The relay                                                               *)

\* A POST is refused, or stored as a message nobody has and no other slot holds.
LEMMA RelayPostIInv == ASSUME IInv, NEW m \in Msgs, RelayPost(m) PROVE IInv'
<1> DEFINE k == ask[m]
           p == [blob |-> m, left |-> 1, until |-> Clock("relay") + SlotTTL, token |-> "token"]
<1>0. /\ m \in Clients /\ m \notin Recvs /\ ask[m] # NoKey
      /\ UNCHANGED <<t, setup, cliVars, probeVars, resent, taken>>
  BY Zenon, DeliveryConstants DEF RelayPost, Clients
<1>1. ASSUME UNCHANGED <<box, closing, delivered, accepted>>,
             NEW a \in {"401", "404", "409", "413", "503"}, Reply(m, a)
      PROVE  IInv'
  <2>1. Alone(m) /\ Typed'
    BY Zenon, <1>0, <1>1 DEF IInv, Typed, Alone, Reply, cliVars, probeVars
  <2>2. Posting(m)'
    BY Zenon, <1>0, <1>1 DEF IInv, Typed, Posting, Reply, cliVars
  <2> QED
    BY Zenon, <1>0, <2>1, <2>2, OneClient
<1>2. ASSUME Mailbox!Deposit(k, p), accepted' = [accepted EXCEPT ![m] = t], Reply(m, "201")
      PROVE  IInv'
  <2>0. accepted[m] = NoTime /\ taken[m] = {} /\ t # NoTime
    BY <1>0 DEF IInv, Posting, RelayOK, Handed, Typed, NoTime
  <2>1. box' = [box EXCEPT ![k] = p] /\ \A j \in Keys : box[j] # NoMsg => box[j].blob # m
    BY Zenon, <1>2 DEF Mailbox!Deposit, Mailbox!Holds
  <2>2. Typed'
    BY Zenon, <1>0, <1>2, <2>1 DEF IInv, Typed, Reply, cliVars, probeVars
  <2>3. ASSUME NEW l \in Keys PROVE Held(l)'
    <3> HIDE DEF k
    <3>1. Held(l)
      BY Zenon DEF IInv, RelayOK
    <3>2. CASE l = k
      <4>1. p.until \in Int
        BY DeliveryConstants DEF IInv, Typed, Clock
      <4> QED
        BY Zenon, <1>0, <1>2, <2>0, <2>1, <3>2, <4>1 DEF IInv, Typed, Held
    <3>3. CASE l # k
      BY Zenon, <1>0, <1>2, <2>0, <2>1, <3>1, <3>3 DEF IInv, Typed, Held
    <3> QED
      BY Zenon, <3>2, <3>3
  <2>4. ASSUME NEW n \in Msgs PROVE Handed(n)'
    BY Zenon, <1>0, <1>2, <2>0, <2>4 DEF IInv, Typed, RelayOK, Handed
  <2>5. ASSUME NEW n \in Msgs PROVE Posting(n)'
    BY Zenon, <1>0, <1>2, <2>0, <2>5 DEF IInv, Typed, Posting, Reply, cliVars, Clients
  <2>6. ASSUME NEW r \in Recvs PROVE Receiving(r)'
    BY <1>0, <1>2, <2>6 DEF IInv, Typed, Receiving, Bad, Reply, cliVars, probeVars, Clients
  <2> QED
    BY Zenon, <2>2, <2>3, <2>4, <2>5, <2>6 DEF IInv, RelayOK
<1> QED
  BY Zenon, <1>1, <1>2, DeliveryConstants DEF RelayPost

\* A GET finds nothing, or empties the slot it reads.
LEMMA RelayGetIInv == ASSUME IInv, NEW r \in Recvs, RelayGet(r) PROVE IInv'
<1> DEFINE k == ask[r]
<1>0. /\ r \in Clients /\ r \notin Msgs /\ ask[r] # NoKey
      /\ UNCHANGED <<t, setup, cliVars, probeVars, resent, accepted>>
  BY Zenon, DeliveryConstants DEF RelayGet, Clients
<1>1. ASSUME UNCHANGED <<box, closing, delivered, taken>>, NEW a \in {"404", "503"}, Reply(r, a)
      PROVE  IInv'
  <2>1. Alone(r) /\ Typed'
    BY Zenon, <1>0, <1>1 DEF IInv, Typed, Alone, Reply, cliVars, probeVars
  <2>2. Receiving(r)'
    BY <1>0, <1>1, Messages DEF IInv, Typed, Receiving, Bad, Reply, cliVars, probeVars
  <2> QED
    BY Zenon, <1>0, <2>1, <2>2, OneClient
<1>2. ASSUME Live(k), Mailbox!Deliver(k), Reply(r, box[k].blob),
             taken' = [taken EXCEPT ![box[k].blob] = @ \cup {r}]
      PROVE  IInv'
  <2> DEFINE m == box[k].blob
  <2>0. /\ k \in Keys /\ box[k] # NoMsg /\ m \in Msgs /\ box[k].left = 1
        /\ accepted[m] # NoTime /\ taken[m] = {}
        /\ \A l \in Keys : box[l] # NoMsg /\ box[l].blob = m => l = k
    BY Zenon, <1>2 DEF Live, Mailbox!Holds, IInv, RelayOK, Held
  <2>1. box' = [box EXCEPT ![k] = NoMsg]
    BY Zenon, <1>2, <2>0 DEF Mailbox!Deliver
  <2>a. taken' = [taken EXCEPT ![m] = {r}] /\ Reply(r, m)
    BY Zenon, <1>2, <2>0 DEF IInv, Typed
  <2> HIDE DEF k, m
  <2>2. Typed'
    BY Zenon, <1>0, <2>0, <2>1, <2>a DEF IInv, Typed, Reply, cliVars, probeVars
  <2>3. ASSUME NEW l \in Keys PROVE Held(l)'
    BY <1>0, <2>0, <2>1, <2>a, <2>3 DEF IInv, Typed, RelayOK, Held
  <2>4. ASSUME NEW n \in Msgs PROVE Handed(n)'
    BY <1>0, <2>0, <2>a, <2>4 DEF IInv, Typed, RelayOK, Handed
  <2>5. ASSUME NEW n \in Msgs PROVE Posting(n)'
    BY Zenon, <1>0, <2>a, <2>5 DEF IInv, Typed, Posting, Reply, cliVars, Clients
  <2>6. ASSUME NEW s \in Recvs, s # r PROVE Receiving(s)'
    BY <1>0, <2>0, <2>a, <2>6 DEF IInv, Typed, Receiving, Bad, Reply, cliVars, probeVars, Clients
  <2>7. Receiving(r)'
    BY <1>0, <2>0, <2>a, Messages DEF IInv, Typed, Receiving, Bad, Reply, cliVars, probeVars
  <2> QED
    BY Zenon, <2>2, <2>3, <2>4, <2>5, <2>6, <2>7 DEF IInv, RelayOK
<1> QED
  BY Zenon, <1>1, <1>2 DEF RelayGet

\* The collector and a relay that stops only take away.
LEMMA RelayDropIInv == ASSUME IInv, RelayDrop PROVE IInv'
<1>0. UNCHANGED <<t, setup, netVars, cliVars, probeVars, resent, accepted, taken>>
  BY Zenon DEF RelayDrop
<1>1. box' = box \/ \E k \in Keys : box' = [box EXCEPT ![k] = NoMsg]
  BY Zenon DEF RelayDrop, Mailbox!Close, Mailbox!Discard
<1>2. Typed'
  BY Zenon, <1>0, <1>1 DEF IInv, Typed, netVars, cliVars, probeVars
<1>3. ASSUME NEW l \in Keys PROVE Held(l)'
  BY <1>0, <1>1, <1>3 DEF IInv, Typed, RelayOK, Held
<1>4. ASSUME NEW m \in Msgs PROVE Handed(m)' /\ Posting(m)'
  BY Zenon, <1>0, <1>4 DEF IInv, RelayOK, Handed, Posting, netVars, cliVars
<1>5. ASSUME NEW r \in Recvs PROVE Receiving(r)'
  BY Zenon, <1>0, <1>5 DEF IInv, Receiving, Bad, netVars, cliVars, probeVars
<1> QED
  BY Zenon, <1>2, <1>3, <1>4, <1>5 DEF IInv, RelayOK

-------------------------------------------------------------------------------
\* Nothing but the clock moves, or nothing at all.
LEMMA IdleIInv ==
  ASSUME IInv, t' \in Nat,
         UNCHANGED <<setup, box, closing, delivered, netVars, cliVars, probeVars, resent, accepted, taken>>
  PROVE  IInv'
<1> USE DEF netVars, cliVars, probeVars
<1>1. Typed' /\ RelayOK'
  BY DEF IInv, Typed, RelayOK, Held, Handed
<1>2. ASSUME NEW m \in Msgs PROVE Posting(m)'
  BY Zenon, <1>2 DEF IInv, Posting
<1>3. ASSUME NEW r \in Recvs PROVE Receiving(r)'
  BY Zenon, <1>3 DEF IInv, Receiving, Bad
<1> QED
  BY Zenon, <1>1, <1>2, <1>3 DEF IInv

-------------------------------------------------------------------------------
(* send and recv                                                           *)

ClientStep(p) ==
  \/ p \in Msgs /\ SendStep(p)
  \/ p \in Recvs /\ (RecvBegin(p) \/ RecvStep(p) \/ Resend(p) \/ Interrupt(p))
  \/ TransportError(p)

\* The function g is f, but for what it says of p.
Only(p, f, g) == DOMAIN g = DOMAIN f /\ \A q \in DOMAIN f \ {p} : g[q] = f[q]

\* A client's own step concerns no one else: the relay acts on its request later.
LEMMA ClientAlone ==
  ASSUME Typed, NEW p \in Clients, ClientStep(p)
  PROVE  Typed' /\ Alone(p)
<1> DEFINE Still == UNCHANGED <<t, setup, box, accepted, taken>>
<1>1. ASSUME NEW code, Exit(p, code), Still, UNCHANGED <<bNow, off, began, resent>>,
             wrote' = wrote \/ (p \in Recvs /\ wrote' = [wrote EXCEPT ![p] = ans[p]])
      PROVE  Typed' /\ Alone(p)
  BY Zenon, <1>1 DEF Exit, Typed, Alone
<1>2. ASSUME NEW k, Request(p, k), Still, UNCHANGED <<out, wrote, resent>>,
             Only(p, bNow, bNow'), Only(p, off, off'),
             began' = began \/ began' = [began EXCEPT ![p] = t]
      PROVE  Typed' /\ Alone(p)
  BY <1>2 DEF Request, Typed, Alone, Only
<1>3. CASE (p \in Msgs /\ SendStep(p)) \/ TransportError(p)
  BY Zenon, <1>1, <1>2, <1>3 DEF SendStep, SendBegin, SendAnswer, TransportError, probeVars, Only
<1>4. CASE p \in Recvs /\ (RecvMessage(p) \/ RecvOverloaded(p) \/ Interrupt(p))
  BY Zenon, <1>1, <1>4 DEF RecvMessage, RecvOverloaded, Interrupt, probeVars
<1>5. CASE p \in Recvs /\ (RecvBegin(p) \/ WatchWake(p))
  BY Zenon, <1>1, <1>2, <1>5 DEF RecvBegin, WatchWake, ProbeBegin, Probe, Only
<1>6. CASE p \in Recvs /\ RecvNext(p)
  BY Zenon, <1>2, <1>6 DEF RecvNext, Probe, Only
<1>7. CASE p \in Recvs /\ RecvMiss(p)
  <2>1. CASE Exit(p, "NotFound")
    BY Zenon, <1>1, <1>7, <2>1 DEF RecvMiss, probeVars
  <2>2. CASE ~Exit(p, "NotFound")
    BY Zenon, <1>7, <2>2 DEF RecvMiss, probeVars, Typed, Alone
  <2> QED
    BY Zenon, <2>1, <2>2
<1>8. CASE p \in Recvs /\ Resend(p)
  BY Zenon, <1>8 DEF Resend, cliVars, probeVars, Typed, Alone
<1> QED
  BY Zenon, <1>3, <1>4, <1>5, <1>6, <1>7, <1>8 DEF ClientStep, RecvStep

\* What a client knows of itself when it ends, or sends a request.
LEMMA Own ==
  ASSUME Typed, NEW p \in Clients
  PROVE  /\ \A code : Exit(p, code) =>
              pc'[p] = "done" /\ out'[p] = code /\ ans'[p] = "none" /\ UNCHANGED ask
         /\ \A k : Request(p, k) =>
              pc'[p] = "wait" /\ ask'[p] = k /\ ans'[p] = "none" /\ since'[p] = t
BY DEF Typed, Exit, Request

\* client.Send reads the clock and posts, and maps the answer to its exit code.
LEMMA SendPosting == ASSUME IInv, NEW m \in Msgs, SendStep(m) \/ TransportError(m) PROVE Posting(m)'
<1>0. Typed /\ Posting(m) /\ m \in Clients
  BY Zenon DEF IInv, Clients
<1>1. CASE SendBegin(m)
  BY Zenon, <1>0, <1>1, Own DEF SendBegin, Posting
<1>2. CASE SendAnswer(m)
  BY <1>0, <1>2, Own DEF SendAnswer, SendExit, Posting
<1>3. CASE TransportError(m)
  BY <1>0, <1>3, Own DEF TransportError, Posting
<1> QED
  BY Zenon, <1>1, <1>2, <1>3 DEF SendStep

\* client.RecvCtx and runRecvWatch: a GET is sent only while none is on the way, and what
\* it brings is written or the recv ends badly.
LEMMA RecvReceiving ==
  ASSUME IInv, NEW r \in Recvs, ClientStep(r)
  PROVE  Receiving(r)'
<1>0. Typed /\ Receiving(r) /\ r \in Clients /\ r \notin Msgs
  BY Zenon, DeliveryConstants DEF IInv, Clients
<1>1. ASSUME NEW code, code \notin {"OK", "NotFound"}, Exit(r, code), pc[r] # "done",
             UNCHANGED <<setup, wrote, resent, taken>>
      PROVE  Receiving(r)'
  BY <1>0, <1>1, Own, Messages DEF Receiving, Bad
<1>2. ASSUME NEW k, Request(r, k), pc[r] # "done", UNCHANGED <<setup, wrote, resent, taken>>,
             pc[r] = "wait" => ans[r] = "404", pc[r] = "idle" => r \notin setup.strict \ Layer
      PROVE  Receiving(r)'
  BY <1>0, <1>2, Own, Messages DEF Receiving, Bad
<1>3. CASE RecvBegin(r)
  BY Zenon, <1>1, <1>2, <1>3 DEF RecvBegin, ProbeBegin, Probe
<1>4. CASE RecvNext(r) \/ WatchWake(r)
  BY Zenon, <1>2, <1>4 DEF RecvNext, WatchWake, ProbeBegin, Probe
<1>5. CASE RecvOverloaded(r) \/ Interrupt(r) \/ TransportError(r)
  BY Zenon, <1>1, <1>5 DEF RecvOverloaded, Interrupt, TransportError, probeVars
<1>6. CASE RecvMessage(r)
  <2>0. pc[r] = "wait" /\ ans[r] \in Msgs /\ UNCHANGED <<setup, resent, taken>>
    BY Zenon, <1>6 DEF RecvMessage
  <2>1. CASE \E code \in {"CryptoLocal", "IdentityMiss", "E2EUnwrap", "Internal"} :
               Exit(r, code) /\ wrote' = wrote
    BY Zenon, <1>1, <2>0, <2>1
  <2>2. CASE /\ Exit(r, "OK") /\ wrote' = [wrote EXCEPT ![r] = ans[r]]
             /\ ans[r] \in E2E \/ r \notin Layer \cap setup.strict
    <3>1. /\ pc'[r] = "done" /\ out'[r] = "OK" /\ ans'[r] = "none" /\ ask'[r] = ask[r]
          /\ wrote'[r] = ans[r]
      BY Zenon, <1>0, <2>2, Own DEF Typed
    <3> QED
      BY Zenon, <1>0, <2>0, <2>2, <3>1, Messages DEF Receiving, Bad
  <2>3. ASSUME NEW body \in Bodies
        PROVE  /\ Open(r, ans[r], body) \in {"OK", "CryptoLocal", "IdentityMiss", "E2EUnwrap"}
               /\ Open(r, ans[r], body) = "OK" => ans[r] \in E2E \/ r \notin Layer \cap setup.strict
    BY Zenon DEF Open
  <2> QED
    BY Zenon, <1>6, <2>1, <2>2, <2>3 DEF RecvMessage
<1>7. CASE RecvMiss(r)
  BY <1>0, <1>7, Messages DEF RecvMiss, Exit, probeVars, Typed, Receiving, Bad
<1>8. CASE Resend(r)
  BY Zenon, <1>0, <1>8, DeliveryConstants DEF Resend, cliVars, probeVars, Typed, Receiving, Bad
<1> QED
  BY Zenon, <1>0, <1>3, <1>4, <1>5, <1>6, <1>7, <1>8 DEF ClientStep, RecvStep

-------------------------------------------------------------------------------
\* Every step is a client's, the relay's, or the clock's.
LEMMA StepCases ==
  ASSUME [Next]_dvars
  PROVE  \/ \E p \in Clients : ClientStep(p)
         \/ \E m \in Msgs : RelayPost(m)
         \/ \E r \in Recvs : RelayGet(r)
         \/ RelayDrop \/ Tick \/ UNCHANGED dvars
BY Zenon DEF Next, ClientStep, Clients

\* Every step keeps the invariant.
LEMMA NextIInv == IInv /\ [Next]_dvars => IInv'
<1> SUFFICES ASSUME IInv, [Next]_dvars PROVE IInv'
  OBVIOUS
<1>1. ASSUME NEW p \in Clients, ClientStep(p) PROVE IInv'
  <2>1. Typed' /\ Alone(p)
    BY Zenon, <1>1, ClientAlone DEF IInv
  <2>2. p \in Msgs => Posting(p)'
    BY Zenon, <1>1, SendPosting, DeliveryConstants DEF ClientStep
  <2>3. p \in Recvs => Receiving(p)'
    BY Zenon, <1>1, RecvReceiving
  <2> QED
    BY Zenon, <2>1, <2>2, <2>3, OneClient
<1>2. ASSUME NEW m \in Msgs, RelayPost(m) PROVE IInv'
  BY Zenon, <1>2, RelayPostIInv
<1>3. ASSUME NEW r \in Recvs, RelayGet(r) PROVE IInv'
  BY Zenon, <1>3, RelayGetIInv
<1>4. CASE RelayDrop
  BY Zenon, <1>4, RelayDropIInv
<1>5. CASE Tick \/ UNCHANGED dvars
  <2>1. /\ t' \in Nat
        /\ UNCHANGED <<setup, box, closing, delivered, netVars, cliVars, probeVars, resent, accepted, taken>>
    BY <1>5 DEF Tick, dvars, netVars, cliVars, probeVars, IInv, Typed
  <2> QED
    BY Zenon, <2>1, IdleIInv
<1> QED
  BY Zenon, <1>1, <1>2, <1>3, <1>4, <1>5, StepCases

\* The invariant holds in every state of every behaviour of sender, receivers and relay.
THEOREM SpecIInv == SafetySpec => []IInv
BY InitIInv, NextIInv, PTL DEF SafetySpec

\* However requests are lost, late or resent, no two receivers are given the same message
\* by Take, and recv writes only what its own GET was given.
THEOREM DeliveryAtMostOnce == SafetySpec => []AtMostOnce
<1>1. ASSUME IInv PROVE AtMostOnce
  <2>1. ASSUME NEW m \in Msgs, NEW r \in Recvs, wrote[r] = m
        PROVE  accepted[m] # NoTime /\ taken[m] = {r}
    <3>1. Handed(m) /\ r \in taken[m]
      BY Zenon, <1>1, <2>1 DEF IInv, RelayOK, Receiving
    <3> QED
      BY Zenon, <3>1 DEF Handed
  <2> QED
    BY Zenon, <1>1, <2>1 DEF AtMostOnce, IInv, RelayOK, Handed
<1> QED
  BY <1>1, SpecIInv, PTL

\* Send's exit code never lies about what the relay did with the message, or will do.
THEOREM DeliverySendReportHonest == SafetySpec => []SendReportHonest
<1>1. IInv => SendReportHonest
  BY Zenon DEF IInv, Posting, SendReportHonest
<1> QED
  BY <1>1, SpecIInv, PTL

\* A recv whose GET destroyed a message exits neither OK nor NotFound, unless net/http
\* resent a GET of its own.
THEOREM DeliveryLossReported == SafetySpec => []LossReported
<1>1. IInv => LossReported
  BY Zenon DEF IInv, Receiving, Bad, LossReported, Destroyed
<1> QED
  BY <1>1, SpecIInv, PTL

\* --require-e2e: a receiver writes E2E messages only, and without an identity entry it
\* costs no message.
THEOREM DeliveryStrictMode == SafetySpec => []StrictMode
<1>1. IInv => StrictMode
  BY Zenon, DeliveryConstants DEF IInv, Typed, Receiving, StrictMode
<1> QED
  BY <1>1, SpecIInv, PTL

\* What \div does, stated with products.
LEMMA DivBounds ==
  ASSUME NEW L \in Nat \ {0}, NEW x \in Int
  PROVE  x \div L \in Int /\ (x \div L) * L <= x /\ x < (x \div L) * L + L
OBVIOUS

-----------------------------------------------------------------------------
\* What a probe of three buckets has left behind.
PInv == IInv /\ \A r \in Recvs : Probed(r)

\* What waits in the relay after a step and was accepted before r's probe waited before it.
Shrinks(r) ==
  \A m \in Msgs, k \in Keys :
    Waiting(m, k)' /\ accepted'[m] # NoTime /\ accepted'[m] < began[r] =>
      Waiting(m, k) /\ accepted'[m] = accepted[m]

\* So what r has found gone stays gone, while r's probe is the same one.
LEMMA GoneStays ==
  ASSUME NEW r \in Recvs, Shrinks(r), began'[r] = began[r], NEW b, Gone(r, b)
  PROVE  \A m \in Msgs, k \in Keys :
           k[2] = b /\ accepted'[m] # NoTime /\ accepted'[m] < began'[r] => ~Waiting(m, k)'
BY Zenon DEF Gone, Shrinks

\* And a receiver that has no part in the step keeps what it knows.
LEMMA BystanderProbed ==
  ASSUME NEW r \in Recvs, Probed(r), Shrinks(r), t <= t', t \in Nat, t' \in Nat, began[r] \in Int,
         pc'[r] = pc[r], ask'[r] = ask[r], ans'[r] = ans[r], out'[r] = out[r],
         bNow'[r] = bNow[r], off'[r] = off[r], began'[r] = began[r]
  PROVE  Probed(r)'
<1>1. began'[r] <= t'
  BY DEF Probed
<1>2. ASSUME NEW o \in Int, Gone(r, bNow[r] - o) PROVE Gone(r, bNow[r] - o)'
  BY Zenon, <1>2, GoneStays DEF Gone
<1>3. ASSUME Gone(r, bNow[r] - off[r]) PROVE Gone(r, bNow[r] - off[r])'
  BY Zenon, <1>3, GoneStays DEF Gone
<1> QED
  BY <1>1, <1>2, <1>3 DEF Probed

-------------------------------------------------------------------------------
(* The receivers' own steps                                                *)

\* A probe begins at the newest bucket.
LEMMA BeginProbed ==
  ASSUME Typed, NEW r \in Recvs, Probed(r), ProbeBegin(r), t' = t, pc[r] # "done"
  PROVE  Probed(r)'
<1> DEFINE b == Clock("receiver") \div BucketLen
<1>0. r \in Clients /\ t \in Nat /\ setup.receiver \in Int /\ BucketLen \in Nat \ {0}
  BY Zenon, DeliveryConstants DEF Clients, Typed
<1>1. b \in Int
  BY <1>0, DivBounds DEF Clock
<1>2. /\ bNow'[r] = b /\ off'[r] = 0 /\ began'[r] = t /\ Request(r, Address(HourOf(b), b))
      /\ out' = out /\ out[r] # "NotFound"
  BY Zenon DEF ProbeBegin, Probe, Typed, Probed
<1> HIDE DEF b
<1>3. pc'[r] = "wait" /\ ans'[r] = "none" /\ ask'[r] = Address(HourOf(b), b)
  BY Zenon, <1>0, <1>2, Own
<1>4. bNow'[r] - off'[r] = b /\ 0 .. off'[r] - 1 = {} /\ off'[r] \in 0 .. probeCount - 1
  BY <1>1, <1>2 DEF probeCount
<1> QED
  BY <1>0, <1>1, <1>2, <1>3, <1>4 DEF Probed

\* A 404 is what makes a bucket count as empty; the third one makes a miss.
LEMMA NextProbed ==
  ASSUME Typed, NEW r \in Recvs, Probed(r), RecvNext(r) \/ RecvMiss(r), t' = t,
         \A b : Gone(r, b) => Gone(r, b)'
  PROVE  Probed(r)'
<1>0. r \in Clients /\ began' = began /\ bNow' = bNow
  BY Zenon DEF Clients, RecvNext, RecvMiss, probeVars
<1>1. /\ off[r] \in 0 .. probeCount - 1 /\ bNow[r] \in Int /\ began[r] <= t
      /\ \A o \in 0 .. off[r] - 1 : Gone(r, bNow[r] - o)
      /\ Gone(r, bNow[r] - off[r]) /\ out[r] # "NotFound"
  BY Zenon DEF Probed, RecvNext, RecvMiss
<1>2. \A o \in 0 .. off[r] : Gone(r, bNow[r] - o)
  BY <1>1 DEF probeCount
<1>3. \A o \in 0 .. off[r] : Gone(r, bNow[r] - o)'
  BY Zenon, <1>0, <1>2 DEF Gone
<1>4. CASE RecvNext(r)
  <2> DEFINE o == off[r] + 1
  <2>1. /\ off'[r] = o /\ out' = out /\ off[r] < probeCount - 1
        /\ Request(r, Address(HourOf(bNow[r] - o), bNow[r] - o))
    BY Zenon, <1>4 DEF RecvNext, Probe, Typed
  <2>2. o \in 0 .. probeCount - 1 /\ 0 .. o - 1 = 0 .. off[r]
    BY <1>1, <2>1 DEF probeCount
  <2> HIDE DEF o
  <2>3. pc'[r] = "wait" /\ ans'[r] = "none" /\ ask'[r] = Address(HourOf(bNow[r] - o), bNow[r] - o)
    BY Zenon, <1>0, <2>1, Own
  <2> QED
    BY Zenon, <1>0, <1>1, <1>3, <2>1, <2>2, <2>3 DEF Probed
<1>5. CASE RecvMiss(r)
  <2>1. /\ off[r] = probeCount - 1 /\ pc'[r] \in {"done", "sleep"}
        /\ (out'[r] = "NotFound" => pc'[r] = "done")
    BY <1>0, <1>1, <1>5 DEF RecvMiss, Exit, probeVars, Typed
  <2> QED
    BY Zenon, <1>0, <1>1, <1>3, <2>1 DEF Probed
<1> QED
  BY Zenon, <1>4, <1>5

\* Every step of a receiver: it ends without claiming a miss, or sends its GET again, or it
\* is one of those above.
LEMMA RecvProbed ==
  ASSUME PInv, NEW r \in Recvs, ClientStep(r), Alone(r)
  PROVE  Probed(r)'
<1>0. r \in Clients /\ r \notin Msgs /\ Typed /\ Probed(r) /\ t' = t
  BY Zenon, DeliveryConstants DEF Clients, PInv, IInv, Alone
<1>1. ASSUME NEW code, Exit(r, code), code # "NotFound", began' = began PROVE Probed(r)'
  BY Zenon, <1>0, <1>1, Own DEF Probed
<1>2. ASSUME began' = began, NEW b, Gone(r, b) PROVE Gone(r, b)'
  BY Zenon, <1>2 DEF Gone, Waiting, Live, Mailbox!Holds, Clock, Alone
<1>3. CASE RecvBegin(r) \/ WatchWake(r)
  BY Zenon, <1>0, <1>1, <1>3, BeginProbed DEF RecvBegin, WatchWake
<1>4. CASE RecvNext(r) \/ RecvMiss(r)
  <2>1. began' = began
    BY Zenon, <1>4 DEF RecvNext, RecvMiss, probeVars
  <2> QED
    BY Zenon, <1>0, <1>2, <1>4, <2>1, NextProbed
<1>5. CASE Interrupt(r) \/ TransportError(r) \/ RecvOverloaded(r)
  BY Zenon, <1>1, <1>5 DEF Interrupt, TransportError, RecvOverloaded, probeVars
<1>6. CASE RecvMessage(r)
  <2>1. \A body \in Bodies : Open(r, ans[r], body) # "NotFound"
    BY Zenon DEF Open
  <2> QED
    BY Zenon, <1>1, <1>6, <2>1 DEF RecvMessage
<1>7. CASE Resend(r)
  <2>1. /\ UNCHANGED <<pc, out, bNow, off, began>> /\ ans'[r] = "none" /\ pc[r] = "wait"
        /\ ask'[r] = Address(HourOf(bNow[r] - off[r]), bNow[r] - off[r])
    BY Zenon, <1>0, <1>7 DEF Resend, cliVars, probeVars, Typed
  <2> QED
    BY Zenon, <1>0, <1>2, <2>1 DEF Probed
<1> QED
  BY Zenon, <1>0, <1>3, <1>4, <1>5, <1>6, <1>7 DEF ClientStep, RecvStep

-------------------------------------------------------------------------------
(* The relay and the clock                                                 *)

\* A slot that is emptied, or left alone, holds nothing new.
LEMMA EmptyingShrinks ==
  ASSUME Typed, UNCHANGED <<t, setup, accepted>>, NEW k, NEW r \in Recvs,
         box' = box \/ box' = [box EXCEPT ![k] = NoMsg]
  PROVE  Shrinks(r)
BY Zenon DEF Typed, Shrinks, Waiting, Live, Mailbox!Holds, Clock

\* A message stored now is younger than every probe under way.
LEMMA PostShrinks == ASSUME PInv, NEW m \in Msgs, RelayPost(m), NEW r \in Recvs PROVE Shrinks(r)
<1> DEFINE k == ask[m]
<1>0. UNCHANGED <<t, setup>> /\ Typed /\ began[r] <= t /\ t \in Nat /\ began[r] \in Int
  BY Zenon DEF RelayPost, PInv, IInv, Typed, Probed
<1>1. CASE UNCHANGED <<box, accepted>>
  BY Zenon, <1>0, <1>1, EmptyingShrinks
<1>2. CASE /\ accepted' = [accepted EXCEPT ![m] = t]
           /\ \E p : p.blob = m /\ box' = [box EXCEPT ![k] = p]
  <2>1. ASSUME NEW n \in Msgs, accepted'[n] < began[r] PROVE n # m /\ accepted'[n] = accepted[n]
    BY <1>0, <1>2, <2>1 DEF Typed
  <2>2. ASSUME NEW n \in Msgs, NEW l \in Keys, n # m, Waiting(n, l)' PROVE Waiting(n, l)
    <3> HIDE DEF k
    <3>1. l # k
      BY Zenon, <1>0, <1>2, <2>2 DEF Typed, Waiting
    <3> QED
      BY Zenon, <1>0, <1>2, <2>2, <3>1 DEF Typed, Waiting, Live, Mailbox!Holds, Clock
  <2> QED
    BY Zenon, <2>1, <2>2 DEF Shrinks
<1> QED
  BY Zenon, <1>1, <1>2 DEF RelayPost, Mailbox!Deposit

\* A 404 is given for the one address that stands for the bucket asked for.
LEMMA GetProbed ==
  ASSUME PInv, NEW r \in Recvs, RelayGet(r)
  PROVE  Probed(r)' /\ \A s \in Recvs : Shrinks(s)
<1>0. /\ r \in Clients /\ ask[r] # NoKey /\ Typed /\ Probed(r)
      /\ UNCHANGED <<t, setup, accepted, pc, out, bNow, off, began>>
  BY Zenon DEF RelayGet, Clients, cliVars, probeVars, PInv, IInv
<1>1. Live(ask[r]) => box[ask[r]].left = 1 /\ box[ask[r]].blob \in Msgs
  BY Zenon DEF Live, Mailbox!Holds, PInv, IInv, RelayOK, Held
<1>2. box' = box \/ box' = [box EXCEPT ![ask[r]] = NoMsg]
  BY Zenon, <1>1 DEF RelayGet, Mailbox!Deliver
<1>3. \A s \in Recvs : Shrinks(s)
  BY Zenon, <1>0, <1>2, EmptyingShrinks
<1>4. ask'[r] = NoKey /\ (ans'[r] = "404" => pc[r] = "wait" /\ ~Live(ask[r]))
  BY <1>0, <1>1, Messages DEF RelayGet, Reply, Typed
<1>5. ASSUME NEW b, Gone(r, b) PROVE Gone(r, b)'
  BY Zenon, <1>0, <1>3, <1>5 DEF Gone, Shrinks
<1>6. ASSUME ans'[r] = "404" PROVE Gone(r, bNow[r] - off[r])
  <2> DEFINE b == bNow[r] - off[r]
  <2>1. ask[r] = Address(HourOf(b), b) /\ ~Live(ask[r])
    BY Zenon, <1>0, <1>4, <1>6 DEF Probed
  <2> HIDE DEF b
  <2>2. ASSUME NEW k \in Keys, k[2] = b PROVE k = ask[r]
    BY <2>1, <2>2 DEF Keys, Address
  <2>3. Gone(r, b)
    BY <2>1, <2>2, Zenon DEF Gone, Waiting
  <2> QED
    BY Zenon, <2>3 DEF b
<1>7. Probed(r)'
  BY Zenon, <1>0, <1>4, <1>5, <1>6 DEF Probed
<1> QED
  BY Zenon, <1>3, <1>7

\* As time passes nothing comes back to life.
LEMMA TickShrinks ==
  ASSUME IInv, UNCHANGED <<setup, box, accepted>>, t' \in Nat, t <= t', NEW r \in Recvs
  PROVE  Shrinks(r)
<1>1. ASSUME NEW k \in Keys, Live(k)' PROVE Live(k)
  <2>1. /\ box[k] # NoMsg => box[k].until \in Int
        /\ t \in Nat /\ setup.relay \in Int
    BY Zenon, DeliveryConstants DEF IInv, RelayOK, Held, Typed
  <2> QED
    BY <1>1, <2>1 DEF Live, Mailbox!Holds, Clock
<1> QED
  BY Zenon, <1>1 DEF Shrinks, Waiting

\* What waits in the relay was there before, or is younger than every probe.
LEMMA NextShrinks ==
  ASSUME PInv, [Next]_dvars, NEW s \in Recvs
  PROVE  Shrinks(s)
<1>0. IInv /\ Typed /\ t \in Nat
  BY Zenon DEF PInv, IInv, Typed
<1>1. ASSUME NEW p \in Clients, ClientStep(p) PROVE Shrinks(s)
  <2>1. Alone(p)
    BY Zenon, <1>0, <1>1, ClientAlone
  <2> QED
    BY Zenon, <1>0, <2>1, EmptyingShrinks DEF Alone
<1>2. ASSUME RelayDrop PROVE Shrinks(s)
  <2>1. UNCHANGED <<t, setup, accepted>> /\ \E k : box' = box \/ box' = [box EXCEPT ![k] = NoMsg]
    BY Zenon, <1>2 DEF RelayDrop, Mailbox!Close, Mailbox!Discard
  <2> QED
    BY Zenon, <1>0, <2>1, EmptyingShrinks
<1>3. ASSUME Tick \/ UNCHANGED dvars PROVE Shrinks(s)
  <2>1. UNCHANGED <<setup, box, accepted>> /\ t' \in Nat /\ t <= t'
    BY <1>0, <1>3 DEF Tick, dvars
  <2> QED
    BY Zenon, <1>0, <2>1, TickShrinks
<1> QED
  BY Zenon, <1>1, <1>2, <1>3, StepCases, PostShrinks, GetProbed

\* Every step keeps what each probe knows.
LEMMA NextPInv == PInv /\ [Next]_dvars => PInv'
<1> SUFFICES ASSUME PInv, [Next]_dvars, NEW s \in Recvs PROVE Probed(s)'
  BY Zenon, NextIInv DEF PInv
<1>0. IInv /\ Typed /\ Probed(s) /\ Shrinks(s) /\ t \in Nat /\ began[s] \in Int /\ s \in Clients
  BY Zenon, NextShrinks DEF PInv, IInv, Typed, Clients
<1>1. ASSUME t <= t', t' \in Nat, UNCHANGED <<pc, out, bNow, off, began>>,
             ask'[s] = ask[s], ans'[s] = ans[s]
      PROVE  Probed(s)'
  BY Zenon, <1>0, <1>1, BystanderProbed
<1>2. ASSUME NEW p \in Clients, ClientStep(p) PROVE Probed(s)'
  <2>1. Alone(p)
    BY Zenon, <1>0, <1>2, ClientAlone
  <2>2. CASE p = s
    BY Zenon, <1>2, <2>1, <2>2, RecvProbed
  <2>3. CASE p # s
    <3>1. t' = t /\ t <= t'
      BY <1>0, <2>1 DEF Alone
    <3> QED
      BY Zenon, <1>0, <2>1, <2>3, <3>1, BystanderProbed DEF Alone
  <2> QED
    BY Zenon, <2>2, <2>3
<1>r. ASSUME NEW p \in Clients, RelayPost(p) \/ RelayGet(p), p # s PROVE Probed(s)'
  <2>1. /\ UNCHANGED <<t, pc, out, bNow, off, began>> /\ ask'[s] = ask[s] /\ ans'[s] = ans[s]
    BY Zenon, <1>0, <1>r, RelayAnswers
  <2> QED
    BY <1>0, <1>1, <1>r, <2>1
<1>3. ASSUME NEW m \in Msgs, RelayPost(m) PROVE Probed(s)'
  BY Zenon, <1>r, <1>3, DeliveryConstants DEF Clients
<1>4. ASSUME NEW r \in Recvs, RelayGet(r) PROVE Probed(s)'
  <2>1. CASE r = s
    BY Zenon, <1>4, <2>1, GetProbed
  <2>2. CASE r # s
    BY Zenon, <1>r, <1>4, <2>2 DEF Clients
  <2> QED
    BY Zenon, <2>1, <2>2
<1>5. CASE RelayDrop
  <2>1. UNCHANGED <<t, ask, ans, pc, out, bNow, off, began>> /\ t <= t'
    BY <1>0, <1>5 DEF RelayDrop, netVars, cliVars, probeVars
  <2> QED
    BY Zenon, <1>0, <1>1, <2>1
<1>6. CASE Tick \/ UNCHANGED dvars
  <2>1. UNCHANGED <<ask, ans, pc, out, bNow, off, began>> /\ t' \in Nat /\ t <= t'
    BY <1>0, <1>6 DEF Tick, dvars, netVars, cliVars, probeVars
  <2> QED
    BY Zenon, <1>1, <2>1
<1> QED
  BY Zenon, <1>2, <1>3, <1>4, <1>5, <1>6, StepCases

\* No probe has begun.
LEMMA InitPInv == Init => PInv
<1> SUFFICES ASSUME Init PROVE PInv
  OBVIOUS
<1>1. IInv
  BY Zenon, InitIInv
<1>2. ASSUME NEW r \in Recvs PROVE Probed(r)
  BY <1>1 DEF Init, Probed, Clients, NoTime, IInv, Typed
<1> QED
  BY Zenon, <1>1, <1>2 DEF PInv

\* RecvCtx's three GETs, each under the hour of its own bucket: a recv that reports NotFound
\* has left nothing in them that was there when it read its clock, for every length of the
\* hour, any clocks, and any interleaving with other receivers, senders and the collector.
THEOREM DeliveryMissIsHonest == SafetySpec => []MissIsHonest
<1>1. PInv => MissIsHonest
  <2> SUFFICES ASSUME PInv, NEW r \in Recvs, NEW m \in Msgs, NEW k \in Keys,
                      out[r] = "NotFound", accepted[m] # NoTime, accepted[m] < began[r],
                      Waiting(m, k), k[2] \in bNow[r] - 2 .. bNow[r]
               PROVE  FALSE
    BY Zenon DEF MissIsHonest
  <2>1. bNow[r] \in Int /\ \A o \in 0 .. probeCount - 1 : Gone(r, bNow[r] - o)
    BY Zenon DEF PInv, Probed
  <2>2. k[2] \in Int /\ bNow[r] - k[2] \in 0 .. probeCount - 1 /\ bNow[r] - (bNow[r] - k[2]) = k[2]
    BY <2>1 DEF probeCount
  <2>3. Gone(r, k[2])
    BY Zenon, <2>1, <2>2
  <2> QED
    BY <2>3, Zenon DEF Gone
<1> QED
  BY <1>1, InitPInv, NextPInv, PTL DEF SafetySpec
-------------------------------------------------------------------------------
(* The service hour                                                        *)

\* Two instants at most one period apart lie in the same period or in adjacent ones.
LEMMA Adjacent ==
  ASSUME NEW L \in Nat \ {0}, NEW x \in Int, NEW y \in Int, x <= y, y <= x + L
  PROVE  x \div L \in {y \div L, y \div L - 1}
<1> DEFINE p == x \div L
           q == y \div L
<1>1. p \in Int /\ p * L <= x /\ x < p * L + L
  BY Zenon, DivBounds
<1>2. q \in Int /\ q * L <= y /\ y < q * L + L
  BY Zenon, DivBounds
<1> HIDE DEF p, q
<1>3. q * L < p * L + L + L /\ p * L < q * L + L
  BY <1>1, <1>2
<1>4. (q - p - 2) * L < 0 /\ (p - q - 1) * L < 0
  BY <1>1, <1>2, <1>3
<1>5. ~(q - p - 2 >= 0) /\ ~(p - q - 1 >= 0)
  BY <1>1, <1>2, <1>4
<1>6. p \in {q, q - 1}
  BY <1>1, <1>2, <1>5
<1> QED
  BY Zenon, <1>6 DEF p, q

Hour == BucketLen * BucketsPerHour
Behind == setup.relay - setup.sender
Seam(m) ==
  Behind >= 0 /\ Behind + PostTimeout <= Hour => (pc[m] = "wait" => ans[m] # "404")
SInv == IInv /\ \A m \in Msgs : OnTime(m) /\ Seam(m)

\* A POST that its sender still waits for reaches the relay in the hour it names or in the
\* one after.
LEMMA InTime ==
  ASSUME SInv, NEW m \in Msgs, pc[m] = "wait", ask[m] # NoKey,
         Behind >= 0, Behind + PostTimeout <= Hour
  PROVE  HourAccepted(ask[m][1])
<1>1. /\ Hour \in Nat \ {0} /\ PostTimeout \in Nat /\ t \in Nat
      /\ setup.sender \in Int /\ setup.relay \in Int
  BY DeliveryConstants DEF SInv, IInv, Typed, Hour
<1>2. /\ since[m] \in Nat /\ since[m] <= t /\ t - since[m] <= PostTimeout
      /\ ask[m][1] = (since[m] + setup.sender) \div Hour
  BY Zenon DEF SInv, OnTime, Hour
<1> DEFINE x == since[m] + setup.sender
           y == t + setup.relay
<1>3. x \in Int /\ y \in Int /\ x <= y /\ y <= x + Hour
  BY <1>1, <1>2 DEF Behind
<1>4. x \div Hour \in {y \div Hour, y \div Hour - 1}
  <2> HIDE DEF x, y
  <2> QED
    BY Zenon, <1>1, <1>3, Adjacent
<1> QED
  BY Zenon, <1>2, <1>4 DEF HourAccepted, Clock, Hour

\* A step in which the message's client has no part.
LEMMA SparedSeam ==
  ASSUME NEW m \in Msgs, OnTime(m), Seam(m), UNCHANGED <<t, setup>>,
         pc'[m] = pc[m], since'[m] = since[m], ask'[m] = ask[m], ans'[m] = ans[m]
  PROVE  OnTime(m)' /\ Seam(m)'
BY Zenon DEF OnTime, Seam, Behind

\* client.Send reads the clock once, for hour and minute.
LEMMA SendSeam ==
  ASSUME SInv, NEW m \in Msgs, ClientStep(m)
  PROVE  OnTime(m)' /\ Seam(m)'
<1>0. /\ m \in Clients /\ m \notin Recvs /\ Typed
      /\ t \in Nat /\ PostTimeout \in Nat /\ t - t <= PostTimeout
  BY DeliveryConstants DEF SInv, IInv, Typed, Clients
<1> DEFINE now == t + setup.sender
           k == Address(now \div (BucketLen * BucketsPerHour), now \div BucketLen)
<1>1. CASE SendBegin(m)
  <2>1. /\ UNCHANGED <<t, setup>> /\ pc'[m] = "wait" /\ since'[m] = t /\ ans'[m] = "none"
        /\ ask'[m][1] = (t + setup.sender) \div (BucketLen * BucketsPerHour)
    <3>1. UNCHANGED <<t, setup>> /\ Request(m, k)
      BY Zenon, <1>1 DEF SendBegin, Clock
    <3> QED
      BY <1>0, <3>1, Own DEF Address
  <2> QED
    BY <1>0, <2>1 DEF OnTime, Seam
<1>2. CASE SendAnswer(m) \/ TransportError(m)
  <2>1. \E code : Exit(m, code)
    BY Zenon, <1>2 DEF SendAnswer, TransportError
  <2>2. pc'[m] = "done"
    BY Zenon, <1>0, <2>1, Own
  <2> QED
    BY Zenon, <2>2 DEF OnTime, Seam
<1> QED
  BY Zenon, <1>0, <1>1, <1>2 DEF ClientStep, SendStep

\* The relay turns a POST away for its hour only when nobody waits for the answer, or the
\* clocks are further apart than HourSeam allows.
LEMMA PostSeam == ASSUME SInv, NEW m \in Msgs, RelayPost(m) PROVE OnTime(m)' /\ Seam(m)'
<1>1. UNCHANGED <<t, setup, pc, since>> /\ ask[m] # NoKey
  BY Zenon DEF RelayPost, cliVars
<1>2. \E a \in Refusals \cup {"201", "404", "409"} :
        Reply(m, a) /\ (a = "404" => ~HourAccepted(ask[m][1]))
  BY DeliveryConstants DEF RelayPost
<1>3. PICK a \in Refusals \cup {"201", "404", "409"} :
        Reply(m, a) /\ (a = "404" => ~HourAccepted(ask[m][1]))
  BY Zenon, <1>2
<1>4. ask'[m] = NoKey /\ ans'[m] = IF pc[m] = "wait" THEN a ELSE "none"
  BY Zenon, <1>3 DEF Reply, SInv, IInv, Typed, Clients
<1>5. OnTime(m)'
  BY Zenon, <1>1, <1>4 DEF SInv, OnTime
<1>6. ASSUME Behind >= 0, Behind + PostTimeout <= Hour, pc[m] = "wait" PROVE ans'[m] # "404"
  <2>1. HourAccepted(ask[m][1])
    BY Zenon, <1>1, <1>6, InTime
  <2> QED
    BY Zenon, <1>3, <1>4, <1>6, <2>1
<1>7. Seam(m)'
  BY Zenon, <1>1, <1>6 DEF Seam, Behind
<1> QED
  BY Zenon, <1>5, <1>7

\* Every step keeps the seam.
LEMMA NextSInv == SInv /\ [Next]_dvars => SInv'
<1> SUFFICES ASSUME SInv, [Next]_dvars, NEW n \in Msgs PROVE OnTime(n)' /\ Seam(n)'
  BY Zenon, NextIInv DEF SInv
<1>0. OnTime(n) /\ Seam(n) /\ Typed /\ n \in Clients
  BY Zenon DEF SInv, IInv, Clients
<1>1. ASSUME NEW p \in Clients, ClientStep(p) PROVE OnTime(n)' /\ Seam(n)'
  <2>1. CASE p = n
    BY Zenon, <1>1, <2>1, SendSeam
  <2>2. CASE p # n
    <3>1. Alone(p)
      BY Zenon, <1>0, <1>1, ClientAlone
    <3> QED
      BY Zenon, <1>0, <2>2, <3>1, SparedSeam DEF Alone
  <2> QED
    BY Zenon, <2>1, <2>2
<1>2. ASSUME NEW p \in Clients, RelayPost(p) \/ RelayGet(p), p # n PROVE OnTime(n)' /\ Seam(n)'
  <2>1. UNCHANGED <<t, setup, pc, since>> /\ ask'[n] = ask[n] /\ ans'[n] = ans[n]
    BY Zenon, <1>0, <1>2, RelayAnswers
  <2> QED
    BY Zenon, <1>0, <2>1, SparedSeam
<1>3. ASSUME NEW m \in Msgs, RelayPost(m) PROVE OnTime(n)' /\ Seam(n)'
  BY Zenon, <1>2, <1>3, PostSeam DEF Clients
<1>4. ASSUME NEW r \in Recvs, RelayGet(r) PROVE OnTime(n)' /\ Seam(n)'
  BY Zenon, <1>2, <1>4, DeliveryConstants DEF Clients
<1>5. CASE RelayDrop \/ UNCHANGED dvars
  BY Zenon, <1>0, <1>5, SparedSeam DEF RelayDrop, netVars, cliVars, dvars
<1>6. CASE Tick
  <2>1. /\ UNCHANGED <<setup, pc, since, ask, ans>> /\ t' = t + 1
        /\ pc[n] = "wait" => t - since[n] < Timeout(n)
    BY Zenon, <1>0, <1>6 DEF Tick, netVars, cliVars
  <2>2. t \in Nat /\ Timeout(n) = PostTimeout /\ PostTimeout \in Nat
    BY Zenon, <1>0, DeliveryConstants DEF Timeout, Typed
  <2> QED
    BY <1>0, <2>1, <2>2 DEF OnTime, Seam, Behind
<1> QED
  BY Zenon, <1>1, <1>3, <1>4, <1>5, <1>6, StepCases

\* No POST is on the way.
LEMMA InitSInv == Init => SInv
<1> SUFFICES ASSUME Init PROVE SInv
  OBVIOUS
<1>1. IInv
  BY Zenon, InitIInv
<1>2. \A m \in Msgs : pc[m] = "idle"
  BY Zenon DEF Init, Clients
<1> QED
  BY Zenon, <1>1, <1>2 DEF SInv, OnTime, Seam

\* handlePost's window of two hours: for every length of the hour, a sender not ahead of
\* the relay and less than an hour behind it, the POST's own timeout included, is never
\* answered 404.
THEOREM DeliveryHourSeam == SafetySpec => []HourSeam
<1>1. SInv => HourSeam
  BY Zenon DEF SInv, Seam, Behind, Hour, HourSeam
<1> QED
  BY <1>1, InitSInv, NextSInv, PTL DEF SafetySpec

-------------------------------------------------------------------------------
(* A watch                                                                 *)

\* The bucket a message is addressed to.
BucketOf(m) == (since[m] + setup.sender) \div BucketLen

\* A message is stored after it was sent,
Dated(m) ==
  /\ ask[m] # NoKey => since[m] \in Int /\ since[m] <= t /\ ask[m][2] = BucketOf(m)
  /\ accepted[m] # NoTime => since[m] \in Int /\ accepted[m] \in Int /\ since[m] <= accepted[m]

\* in the slot of its bucket.
Placed(k) == box[k] # NoMsg => k[2] = BucketOf(box[k].blob)

\* A probe's first bucket is that of its beginning, and a watch that sleeps has three empty
\* buckets behind it.
Looking(r) == pc[r] \in {"wait", "sleep"} \/ out[r] = "NotFound"
Scheduled(r) ==
  /\ Looking(r) => bNow[r] = (began[r] + setup.receiver) \div BucketLen
  /\ pc[r] = "sleep" => bNow[r] \in Int /\ \A o \in 0 .. probeCount - 1 : Gone(r, bNow[r] - o)

\* A watch has not gone past the buckets it still asks for while a message that was sent
\* under it, and stored before its last probe, is waiting.
Chased(r, m) ==
  /\ Looking(r) /\ accepted[m] # NoTime /\ accepted[m] < began[r] /\ opened[r] <= since[m]
  /\ Delay(r, m) <= 2 * BucketLen
  /\ \E k \in Keys : Waiting(m, k)
  => bNow[r] <= BucketOf(m) + 2

WInv ==
  /\ PInv /\ opened \in [Recvs -> Int] /\ gap \in [Recvs -> Int]
  /\ \A m \in Msgs : Dated(m)
  /\ \A k \in Keys : Placed(k)
  /\ \A r \in Recvs : Scheduled(r)
  /\ \A r \in Recvs, m \in Msgs : Chased(r, m)

\* How far the bucket of y can be from that of x.
LEMMA TwoBuckets ==
  ASSUME NEW L \in Nat \ {0}, NEW x \in Int, NEW y \in Int, y <= x + 2 * L
  PROVE  y \div L <= x \div L + 2
<1> DEFINE p == x \div L
           q == y \div L
<1>1. p \in Int /\ x < p * L + L
  BY DivBounds
<1>2. q \in Int /\ q * L <= y
  BY DivBounds
<1> HIDE DEF p, q
<1>3. q * L < (p + 3) * L
  BY <1>1, <1>2
<1>4. (p + 3) * L <= q * L \/ q < p + 3
  <2>1. CASE p + 3 <= q
    <3>1. (q - (p + 3)) * L >= 0
      <4>1. q - (p + 3) \in Nat
        BY <1>1, <1>2, <2>1
      <4> QED
        BY <4>1
    <3>2. (q - (p + 3)) * L = q * L - (p + 3) * L
      BY <1>1, <1>2
    <3> QED
      BY <1>1, <1>2, <3>1, <3>2
  <2> QED
    BY <1>1, <1>2, <2>1
<1>5. q <= p + 2
  BY <1>1, <1>2, <1>3, <1>4
<1> QED
  BY Zenon, <1>5 DEF p, q

\* An instant read off a clock.
LEMMA Instants == (\A n \in Nat : n \in Int) /\ \A a, b \in Int : a + b \in Int
OBVIOUS

\* The numbers a watch computes with.
LEMMA WatchNumbers ==
  ASSUME WInv, NEW r \in Recvs
  PROVE  /\ t \in Nat /\ began[r] \in Int /\ opened[r] \in Int /\ gap[r] \in Int
         /\ r \in Clients /\ r \notin Msgs
         /\ setup.sender \in Int /\ setup.receiver \in Int /\ BucketLen \in Nat \ {0}
<1>1. t \in Nat /\ began[r] \in Int /\ opened[r] \in Int /\ gap[r] \in Int /\ setup \in Setups
  BY Zenon DEF WInv, PInv, IInv, Typed
<1> QED
  BY Zenon, <1>1, DeliveryConstants DEF Clients

\* When a watch begins a probe at u, its last at b, within the gap g: its clock, against what
\* it was at that last probe,
LEMMA AfterLast ==
  ASSUME NEW x \in Int, NEW c \in Int, NEW b \in Int, NEW u \in Int, NEW snd \in Int,
         NEW rcv \in Int, NEW g \in Int, NEW L \in Int,
         (IF rcv - snd > 0 THEN rcv - snd ELSE 0) + (c - x) + g <= 2 * L, x <= c, u - b <= g
  PROVE  u + rcv <= (b + rcv) + 2 * L
OBVIOUS

\* and against the sender's at x, when it sent a message that was stored at c, since then.
LEMMA AfterSend ==
  ASSUME NEW x \in Int, NEW c \in Int, NEW b \in Int, NEW u \in Int, NEW snd \in Int,
         NEW rcv \in Int, NEW g \in Int, NEW L \in Int,
         (IF rcv - snd > 0 THEN rcv - snd ELSE 0) + (c - x) + g <= 2 * L, u - b <= g, b <= c
  PROVE  u + rcv <= (x + snd) + 2 * L
OBVIOUS

\* The delay was no longer when the gap was shorter.
LEMMA Shorter ==
  ASSUME NEW x \in Int, NEW c \in Int, NEW snd \in Int, NEW rcv \in Int, NEW g \in Int, NEW h \in Int,
         NEW L \in Int, (IF rcv - snd > 0 THEN rcv - snd ELSE 0) + (c - x) + h <= 2 * L, g <= h
  PROVE  (IF rcv - snd > 0 THEN rcv - snd ELSE 0) + (c - x) + g <= 2 * L
OBVIOUS

\* Nothing but a recv's invocation changes when it was invoked, and nothing but a watch's
\* waking how long it slept.
LEMMA ClientOpened ==
  ASSUME Typed, opened \in [Recvs -> Int], gap \in [Recvs -> Int], NEW p \in Clients, ClientStep(p)
  PROVE  /\ \A r \in Recvs \ {p} : opened'[r] = opened[r] /\ gap'[r] = gap[r]
         /\ opened' \in [Recvs -> Int] /\ gap' \in [Recvs -> Int]
<1>1. opened' = opened \/ (p \in Recvs /\ RecvBegin(p) /\ opened' = [opened EXCEPT ![p] = t])
  BY Zenon DEF ClientStep, SendStep, RecvStep, SendBegin, SendAnswer, RecvBegin, RecvMessage, RecvNext,
     RecvMiss, RecvOverloaded, WatchWake, Interrupt, TransportError, Resend, probeVars
<1>2. gap' = gap \/ (p \in Recvs /\ WatchWake(p))
  BY Zenon DEF ClientStep, SendStep, RecvStep, SendBegin, SendAnswer, RecvBegin, RecvMessage, RecvNext,
     RecvMiss, RecvOverloaded, WatchWake, Interrupt, TransportError, Resend, probeVars
<1>3. (\A r \in Recvs \ {p} : opened'[r] = opened[r]) /\ opened' \in [Recvs -> Int]
  BY <1>1 DEF Typed
<1>4. (\A r \in Recvs \ {p} : gap'[r] = gap[r]) /\ gap' \in [Recvs -> Int]
  BY <1>2 DEF Typed, WatchWake
<1> QED
  BY Zenon, <1>3, <1>4

\* What a client's own step leaves of its request.
LEMMA SendKept ==
  ASSUME IInv, NEW m \in Msgs, ClientStep(m)
  PROVE  \/ SendBegin(m) /\ accepted[m] = NoTime
         \/ since' = since /\ ask' = ask
<1>0. m \in Clients /\ m \notin Recvs /\ Posting(m)
  BY Zenon, DeliveryConstants DEF IInv, Clients
<1>1. SendStep(m) \/ TransportError(m)
  BY Zenon, <1>0 DEF ClientStep
<1>2. CASE SendBegin(m)
  BY Zenon, <1>0, <1>2 DEF SendBegin, Posting
<1>3. CASE SendAnswer(m) \/ TransportError(m)
  BY Zenon, <1>3 DEF SendAnswer, TransportError, Exit
<1> QED
  BY Zenon, <1>1, <1>2, <1>3 DEF SendStep

\* In every step a message that was sent keeps its date.
LEMMA NextMessage ==
  ASSUME IInv, [Next]_dvars, NEW m \in Msgs
  PROVE  /\ setup' = setup
         /\ since'[m] = since[m] \/ (accepted[m] = NoTime /\ accepted'[m] = NoTime)
<1>0. Typed /\ m \in Clients
  BY Zenon DEF IInv, Clients
<1>1. ASSUME NEW p \in Clients, ClientStep(p)
      PROVE  /\ setup' = setup
             /\ since'[m] = since[m] \/ (accepted[m] = NoTime /\ accepted'[m] = NoTime)
  <2>1. Alone(p)
    BY Zenon, <1>0, <1>1, ClientAlone
  <2>2. CASE p = m
    BY Zenon, <1>1, <2>1, <2>2, SendKept DEF Alone
  <2>3. CASE p # m
    BY Zenon, <1>0, <2>1, <2>3 DEF Alone
  <2> QED
    BY Zenon, <2>1, <2>2, <2>3 DEF Alone
<1>2. ASSUME NEW p \in Clients, RelayPost(p) \/ RelayGet(p) PROVE UNCHANGED <<setup, since>>
  BY Zenon, <1>0, <1>2, RelayAnswers
<1>3. ASSUME RelayDrop \/ Tick \/ UNCHANGED dvars PROVE UNCHANGED <<setup, since>>
  BY Zenon, <1>3 DEF RelayDrop, Tick, dvars, cliVars
<1> QED
  BY Zenon, <1>1, <1>2, <1>3, StepCases DEF Clients

(* The messages                                                            *)

\* A message keeps its date while its request and its fate are left alone.
LEMMA SparedDated ==
  ASSUME NEW m \in Msgs, Dated(m), setup' = setup, t \in Nat, t' \in Nat, t <= t',
         since'[m] = since[m], ask'[m] = ask[m] \/ ask'[m] = NoKey, accepted'[m] = accepted[m]
  PROVE  Dated(m)'
<1>1. since[m] \in Int /\ since[m] <= t => since[m] <= t'
  OBVIOUS
<1> QED
  BY Zenon, <1>1 DEF Dated, BucketOf

\* client.Send reads the clock once, for the address and the timeout.
LEMMA SendDated == ASSUME WInv, NEW m \in Msgs, ClientStep(m), Alone(m) PROVE Dated(m)'
<1>0. /\ IInv /\ Typed /\ Dated(m) /\ m \in Clients /\ t \in Nat /\ t' = t
      /\ setup' = setup /\ accepted' = accepted
  BY Zenon DEF WInv, PInv, IInv, Typed, Clients, Alone
<1>1. CASE SendBegin(m) /\ accepted[m] = NoTime
  <2> DEFINE now == Clock("sender")
             k == Address(now \div (BucketLen * BucketsPerHour), now \div BucketLen)
  <2>1. Request(m, k)
    BY Zenon, <1>1 DEF SendBegin
  <2>2. k[2] = (t + setup.sender) \div BucketLen
    BY DEF Address, Clock
  <2> HIDE DEF k
  <2>3. ask'[m] = k /\ since'[m] = t
    BY Zenon, <1>0, <2>1, Own
  <2>4. since'[m] \in Int /\ since'[m] <= t'
    BY <1>0, <2>3
  <2> QED
    BY Zenon, <1>0, <1>1, <2>2, <2>3, <2>4 DEF Dated, BucketOf
<1>2. CASE since' = since /\ ask' = ask
  <2>1. t <= t'
    BY <1>0
  <2> QED
    BY Zenon, <1>0, <1>2, <2>1, SparedDated
<1> QED
  BY Zenon, <1>0, <1>1, <1>2, SendKept

\* The relay stores it after that.
LEMMA PostDated == ASSUME WInv, NEW m \in Msgs, RelayPost(m) PROVE Dated(m)'
<1>0. /\ Typed /\ Dated(m) /\ m \in Clients /\ t \in Nat
      /\ ask[m] # NoKey /\ UNCHANGED <<t, setup, since>>
  BY Zenon DEF WInv, PInv, IInv, Typed, Clients, RelayPost, cliVars
<1>1. ask'[m] = NoKey /\ (accepted' = accepted \/ accepted' = [accepted EXCEPT ![m] = t])
  BY Zenon, <1>0 DEF RelayPost, Reply, Typed
<1>2. since[m] \in Int /\ since[m] <= t
  BY Zenon, <1>0 DEF Dated
<1>3. CASE accepted' = accepted
  <2>1. t <= t'
    BY <1>0
  <2> QED
    BY Zenon, <1>0, <1>1, <1>3, <2>1, SparedDated
<1>4. CASE accepted' = [accepted EXCEPT ![m] = t]
  <2>1. accepted'[m] = t /\ t \in Int
    BY <1>0, <1>4 DEF Typed
  <2> QED
    BY Zenon, <1>0, <1>1, <1>2, <2>1 DEF Dated
<1> QED
  BY Zenon, <1>1, <1>3, <1>4

\* Every step keeps the dates of every message.
LEMMA NextDated == ASSUME WInv, [Next]_dvars, NEW m \in Msgs PROVE Dated(m)'
<1>0. IInv /\ Typed /\ Dated(m) /\ m \in Clients /\ t \in Nat
  BY Zenon DEF WInv, PInv, IInv, Typed, Clients
<1>1. ASSUME setup' = setup, t' \in Nat, t <= t', since'[m] = since[m],
             ask'[m] = ask[m], accepted'[m] = accepted[m]
      PROVE  Dated(m)'
  BY Zenon, <1>0, <1>1, SparedDated
<1>t. t <= t
  BY <1>0
<1>2. ASSUME NEW p \in Clients, ClientStep(p) PROVE Dated(m)'
  <2>1. Alone(p)
    BY Zenon, <1>0, <1>2, ClientAlone
  <2>2. CASE p = m
    BY Zenon, <1>2, <2>1, <2>2, SendDated
  <2>3. CASE p # m
    BY Zenon, <1>0, <1>1, <1>t, <2>1, <2>3 DEF Alone
  <2> QED
    BY Zenon, <2>2, <2>3
<1>3. ASSUME NEW p \in Clients, RelayPost(p) \/ RelayGet(p), p # m, accepted'[m] = accepted[m]
      PROVE  Dated(m)'
  BY Zenon, <1>0, <1>1, <1>t, <1>3, RelayAnswers
<1>4. ASSUME NEW n \in Msgs, RelayPost(n) PROVE Dated(m)'
  <2>1. CASE n = m
    BY Zenon, <1>4, <2>1, PostDated
  <2>2. CASE n # m
    <3>1. accepted'[m] = accepted[m]
      BY Zenon, <1>0, <1>4, <2>2 DEF RelayPost, Typed
    <3> QED
      BY Zenon, <1>3, <1>4, <2>2, <3>1 DEF Clients
  <2> QED
    BY Zenon, <2>1, <2>2
<1>5. ASSUME NEW r \in Recvs, RelayGet(r) PROVE Dated(m)'
  <2>1. accepted' = accepted /\ r # m /\ r \in Clients
    BY Zenon, <1>5, Messages DEF RelayGet, Clients
  <2> QED
    BY Zenon, <1>3, <1>5, <2>1
<1>6. CASE RelayDrop
  BY Zenon, <1>0, <1>1, <1>t, <1>6 DEF RelayDrop, netVars, cliVars
<1>7. CASE Tick \/ UNCHANGED dvars
  <2>1. t' \in Nat /\ t <= t' /\ UNCHANGED <<setup, since, ask, accepted>>
    BY <1>0, <1>7 DEF Tick, dvars, netVars, cliVars
  <2> QED
    BY Zenon, <1>1, <2>1
<1> QED
  BY Zenon, <1>2, <1>4, <1>5, <1>6, <1>7, StepCases

\* What a step does to a slot: a POST fills the one it is addressed to.
LEMMA NextSlot ==
  ASSUME IInv, [Next]_dvars, NEW k \in Keys
  PROVE  \/ box'[k] = box[k] \/ box'[k] = NoMsg
         \/ \E m \in Msgs :
              ask[m] = k /\ ask[m] # NoKey /\ box'[k].blob = m /\ UNCHANGED <<since, setup>>
<1>0. Typed
  BY Zenon DEF IInv
<1>1. ASSUME NEW p \in Clients, ClientStep(p) PROVE box' = box
  BY Zenon, <1>0, <1>1, ClientAlone DEF Alone
<1>2. ASSUME NEW m \in Msgs, RelayPost(m)
      PROVE  \/ box'[k] = box[k]
             \/ ask[m] = k /\ ask[m] # NoKey /\ box'[k].blob = m /\ UNCHANGED <<since, setup>>
  <2>1. /\ ask[m] # NoKey /\ since' = since /\ setup' = setup
        /\ box' = box \/ \E p : p.blob = m /\ box' = [box EXCEPT ![ask[m]] = p]
    BY Zenon, <1>2 DEF RelayPost, Mailbox!Deposit, cliVars
  <2> QED
    BY Zenon, <1>0, <2>1 DEF Typed
<1>3. ASSUME NEW r \in Recvs, RelayGet(r) PROVE box'[k] = box[k] \/ box'[k] = NoMsg
  <2>1. Live(ask[r]) => box[ask[r]].left = 1
    BY Zenon DEF Live, Mailbox!Holds, IInv, RelayOK, Held
  <2>2. box' = box \/ box' = [box EXCEPT ![ask[r]] = NoMsg]
    BY Zenon, <1>3, <2>1 DEF RelayGet, Mailbox!Deliver
  <2> QED
    BY Zenon, <1>0, <2>2 DEF Typed
<1>4. ASSUME RelayDrop PROVE box'[k] = box[k] \/ box'[k] = NoMsg
  BY Zenon, <1>0, <1>4 DEF RelayDrop, Mailbox!Discard, Mailbox!Close, Typed
<1>5. ASSUME Tick \/ UNCHANGED dvars PROVE box' = box
  BY Zenon, <1>5 DEF Tick, dvars
<1> QED
  BY Zenon, <1>1, <1>2, <1>3, <1>4, <1>5, StepCases

\* Every slot holds what was addressed to its bucket.
LEMMA NextPlaced == ASSUME WInv, [Next]_dvars, NEW k \in Keys PROVE Placed(k)'
<1>0. IInv /\ Placed(k) /\ Held(k)
  BY Zenon DEF WInv, PInv, IInv, RelayOK
<1>1. ASSUME box'[k] = box[k], box[k] # NoMsg PROVE Placed(k)'
  <2> DEFINE m == box[k].blob
  <2>1. m \in Msgs /\ accepted[m] # NoTime
    BY Zenon, <1>0, <1>1 DEF Held
  <2>2. setup' = setup /\ since'[m] = since[m]
    BY Zenon, <1>0, <2>1, NextMessage
  <2> QED
    BY Zenon, <1>0, <1>1, <2>2 DEF Placed, BucketOf
<1>2. ASSUME NEW m \in Msgs, ask[m] = k, ask[m] # NoKey, box'[k].blob = m, UNCHANGED <<since, setup>>
      PROVE  Placed(k)'
  BY Zenon, <1>2 DEF WInv, Dated, Placed, BucketOf
<1> QED
  BY Zenon, <1>0, <1>1, <1>2, NextSlot DEF Placed

(* The receivers                                                           *)

\* A receiver that has no part in the step keeps its schedule.
LEMMA SparedScheduled ==
  ASSUME NEW r \in Recvs, Scheduled(r), Shrinks(r), setup' = setup,
         pc'[r] = pc[r], out'[r] = out[r], bNow'[r] = bNow[r], began'[r] = began[r]
  PROVE  Scheduled(r)'
<1>1. ASSUME NEW o \in Int, Gone(r, bNow[r] - o) PROVE Gone(r, bNow[r] - o)'
  BY Zenon, <1>1, GoneStays DEF Gone
<1>2. \A o \in 0 .. probeCount - 1 : o \in Int
  BY DEF probeCount
<1> QED
  BY Zenon, <1>1, <1>2 DEF Scheduled, Looking

\* A probe starts in the bucket of its start.
LEMMA BeginScheduled ==
  ASSUME WInv, NEW r \in Recvs, ProbeBegin(r), t' = t, setup' = setup
  PROVE  /\ Scheduled(r)' /\ pc'[r] = "wait" /\ began'[r] = t
         /\ bNow'[r] = (t + setup.receiver) \div BucketLen
<1> DEFINE b == Clock("receiver") \div BucketLen
<1>0. r \in Clients
  BY Zenon, WatchNumbers
<1>1. /\ bNow'[r] = b /\ began'[r] = t /\ Request(r, Address(HourOf(b), b)) /\ Typed
  BY Zenon DEF ProbeBegin, Probe, WInv, PInv, IInv, Typed
<1>2. pc'[r] = "wait"
  BY Zenon, <1>0, <1>1, Own
<1>3. bNow'[r] = (t + setup.receiver) \div BucketLen
  BY Zenon, <1>1 DEF Clock
<1>4. pc'[r] # "sleep"
  BY <1>2
<1> QED
  BY Zenon, <1>1, <1>2, <1>3, <1>4 DEF Scheduled

\* A 404: the next older bucket, or the end of the probe.
LEMMA MissScheduled ==
  ASSUME WInv, NEW r \in Recvs, RecvNext(r) \/ RecvMiss(r), t' = t, setup' = setup, Shrinks(r)
  PROVE  Scheduled(r)' /\ Looking(r)
<1>0. r \in Clients /\ pc[r] = "wait" /\ ans[r] = "404" /\ began' = began /\ bNow' = bNow
      /\ Typed /\ Probed(r)
  BY Zenon, WatchNumbers DEF RecvNext, RecvMiss, probeVars, WInv, PInv, IInv
<1>1. bNow[r] = (began[r] + setup.receiver) \div BucketLen /\ Looking(r)
  BY Zenon, <1>0 DEF WInv, Scheduled, Looking
<1>2. CASE pc'[r] # "sleep"
  BY Zenon, <1>0, <1>1, <1>2 DEF Scheduled
<1>3. CASE RecvNext(r) \/ Exit(r, "NotFound")
  <2>1. pc'[r] \in {"wait", "done"}
    BY Zenon, <1>0, <1>3, Own DEF RecvNext, Probe
  <2> QED
    BY <1>2, <2>1
<1>4. CASE RecvMiss(r)
  <2>1. /\ off[r] = probeCount - 1 /\ bNow[r] \in Int
        /\ \A o \in 0 .. off[r] - 1 : Gone(r, bNow[r] - o)
        /\ Gone(r, bNow[r] - off[r])
    BY Zenon, <1>0, <1>4 DEF RecvMiss, Probed
  <2>2. \A o \in 0 .. probeCount - 1 : o \in Int /\ Gone(r, bNow[r] - o)
    BY <2>1 DEF probeCount
  <2>3. \A o \in 0 .. probeCount - 1 : Gone(r, bNow[r] - o)'
    BY Zenon, <1>0, <2>2, GoneStays DEF Gone
  <2> QED
    BY Zenon, <1>0, <1>1, <2>1, <2>3 DEF Scheduled
<1> QED
  BY Zenon, <1>1, <1>3, <1>4

\* Every step of a receiver keeps its schedule, and unless it begins a probe the receiver
\* was looking before it if it is after it.
LEMMA RecvScheduled ==
  ASSUME WInv, NEW r \in Recvs, ClientStep(r), Alone(r), Shrinks(r)
  PROVE  /\ Scheduled(r)'
         /\ \/ RecvBegin(r) \/ WatchWake(r)
            \/ (Looking(r)' => Looking(r)) /\ UNCHANGED <<bNow, began, opened, gap>>
<1>0. r \in Clients /\ r \notin Msgs /\ Typed /\ Scheduled(r) /\ t' = t /\ setup' = setup
  BY Zenon, WatchNumbers DEF WInv, PInv, IInv, Alone
<1>1. ASSUME NEW code, Exit(r, code), code # "NotFound" PROVE Scheduled(r)' /\ ~Looking(r)'
  <2>1. pc'[r] = "done" /\ out'[r] # "NotFound"
    BY Zenon, <1>0, <1>1, Own
  <2>2. pc'[r] # "wait" /\ pc'[r] # "sleep"
    BY <2>1
  <2> QED
    BY Zenon, <2>1, <2>2 DEF Scheduled, Looking
<1>3. CASE RecvBegin(r) \/ WatchWake(r)
  BY Zenon, <1>0, <1>1, <1>3, BeginScheduled DEF RecvBegin, WatchWake
<1>4. CASE RecvNext(r) \/ RecvMiss(r)
  BY Zenon, <1>0, <1>4, MissScheduled DEF RecvNext, RecvMiss, probeVars
<1>5. CASE Interrupt(r) \/ TransportError(r) \/ RecvOverloaded(r)
  BY Zenon, <1>1, <1>5 DEF Interrupt, TransportError, RecvOverloaded, probeVars
<1>6. CASE RecvMessage(r)
  <2>1. \A body \in Bodies : Open(r, ans[r], body) # "NotFound"
    BY Zenon DEF Open
  <2> QED
    BY Zenon, <1>1, <1>6, <2>1 DEF RecvMessage
<1>7. CASE Resend(r)
  <2>1. UNCHANGED <<t, pc, out, bNow, began, opened, gap>>
    BY Zenon, <1>7 DEF Resend, cliVars, probeVars
  <2>2. Scheduled(r)'
    BY Zenon, <1>0, <2>1, SparedScheduled DEF Scheduled
  <2> QED
    BY Zenon, <2>1, <2>2 DEF Looking
<1> QED
  BY Zenon, <1>0, <1>3, <1>4, <1>5, <1>6, <1>7 DEF ClientStep, RecvStep

\* Every step keeps every receiver's schedule.
LEMMA NextScheduled == ASSUME WInv, [Next]_dvars, NEW r \in Recvs PROVE Scheduled(r)'
<1>0. Typed /\ Scheduled(r) /\ r \in Clients /\ r \notin Msgs /\ Shrinks(r)
  BY Zenon, WatchNumbers, NextShrinks DEF WInv, PInv, IInv
<1>1. ASSUME setup' = setup, pc'[r] = pc[r], out'[r] = out[r], bNow'[r] = bNow[r], began'[r] = began[r]
      PROVE  Scheduled(r)'
  BY Zenon, <1>0, <1>1, SparedScheduled
<1>2. ASSUME NEW p \in Clients, ClientStep(p) PROVE Scheduled(r)'
  <2>1. Alone(p)
    BY Zenon, <1>0, <1>2, ClientAlone
  <2>2. CASE p = r
    BY Zenon, <1>0, <1>2, <2>1, <2>2, RecvScheduled
  <2>3. CASE p # r
    BY Zenon, <1>0, <1>1, <2>1, <2>3 DEF Alone
  <2> QED
    BY Zenon, <2>2, <2>3
<1>3. ASSUME NEW p \in Clients, RelayPost(p) \/ RelayGet(p) PROVE Scheduled(r)'
  BY Zenon, <1>0, <1>1, <1>3, RelayAnswers
<1>4. ASSUME RelayDrop \/ Tick \/ UNCHANGED dvars PROVE Scheduled(r)'
  BY Zenon, <1>1, <1>4 DEF RelayDrop, Tick, dvars, cliVars, probeVars
<1> QED
  BY Zenon, <1>2, <1>3, <1>4, StepCases DEF Clients

(* A message and a watch                                                   *)

\* While the probe is the same one, a message is chased as before.
LEMMA SparedChased ==
  ASSUME NEW r \in Recvs, NEW m \in Msgs, Chased(r, m), Shrinks(r), setup' = setup,
         Looking(r)' => Looking(r), bNow'[r] = bNow[r], began'[r] = began[r],
         opened'[r] = opened[r], gap'[r] = gap[r],
         since'[m] = since[m] \/ (accepted[m] = NoTime /\ accepted'[m] = NoTime)
  PROVE  Chased(r, m)'
<1> SUFFICES ASSUME Looking(r)', accepted'[m] # NoTime, accepted'[m] < began'[r],
                    opened'[r] <= since'[m], Delay(r, m)' <= 2 * BucketLen,
                    NEW k \in Keys, Waiting(m, k)'
             PROVE  bNow'[r] <= BucketOf(m)' + 2
  BY Zenon DEF Chased
<1>1. since'[m] = since[m] /\ Waiting(m, k) /\ accepted'[m] = accepted[m]
  BY Zenon DEF Shrinks
<1>2. Delay(r, m)' = Delay(r, m) /\ BucketOf(m)' = BucketOf(m)
  BY Zenon, <1>1 DEF Delay, BucketOf
<1> QED
  BY Zenon, <1>1, <1>2 DEF Chased

\* A recv that is invoked looks for nothing that was sent before.
LEMMA BeginChased ==
  ASSUME WInv, NEW r \in Recvs, RecvBegin(r), Alone(r), NEW m \in Msgs, Dated(m)'
  PROVE  Chased(r, m)'
<1>0. t \in Nat /\ Typed /\ r \in Clients /\ opened \in [Recvs -> Int] /\ t' = t /\ setup' = setup
  BY Zenon, WatchNumbers DEF WInv, PInv, IInv, Alone
<1>1. opened'[r] = t
  BY Zenon, <1>0 DEF RecvBegin
<1>2. CASE Exit(r, "IdentityMiss")
  <2>1. ~Looking(r)'
    BY <1>0, <1>2, Own DEF Looking
  <2> QED
    BY Zenon, <2>1 DEF Chased
<1>3. CASE ProbeBegin(r)
  <2>1. began'[r] = t
    BY Zenon, <1>0, <1>3, BeginScheduled
  <2>2. ASSUME accepted'[m] # NoTime, accepted'[m] < t, t <= since'[m] PROVE FALSE
    <3>1. since'[m] \in Int /\ accepted'[m] \in Int /\ since'[m] <= accepted'[m]
      BY Zenon, <2>2 DEF Dated
    <3> QED
      BY <1>0, <2>2, <3>1
  <2> QED
    BY Zenon, <1>1, <2>1, <2>2 DEF Chased
<1> QED
  BY Zenon, <1>2, <1>3 DEF RecvBegin

\* A watch wakes within its gap, with three empty buckets behind it.
LEMMA Wakes ==
  ASSUME WInv, NEW r \in Recvs, WatchWake(r)
  PROVE  /\ Looking(r) /\ bNow[r] = (began[r] + setup.receiver) \div BucketLen /\ bNow[r] \in Int
         /\ \A o \in 0 .. probeCount - 1 : Gone(r, bNow[r] - o)
         /\ gap'[r] \in Int /\ gap[r] <= gap'[r] /\ t - began[r] <= gap'[r]
<1>1. Scheduled(r) /\ pc[r] = "sleep" /\ Looking(r) /\ gap \in [Recvs -> Int]
  BY Zenon DEF WInv, WatchWake, Looking
<1>2. gap'[r] = IF gap[r] < t - began[r] THEN t - began[r] ELSE gap[r]
  BY Zenon, <1>1 DEF WatchWake
<1>3. t \in Nat /\ began[r] \in Int /\ gap[r] \in Int
  BY Zenon, WatchNumbers
<1>4. gap'[r] \in Int /\ gap[r] <= gap'[r] /\ t - began[r] <= gap'[r]
  BY <1>2, <1>3
<1> QED
  BY Zenon, <1>1, <1>4 DEF Scheduled

\* A watch that wakes finds the message in its last probe, or in time for the next.
LEMMA WakeChased ==
  ASSUME WInv, NEW r \in Recvs, WatchWake(r), Alone(r), NEW m \in Msgs, m # r
  PROVE  Chased(r, m)'
<1> SUFFICES ASSUME accepted'[m] # NoTime, opened'[r] <= since'[m], Delay(r, m)' <= 2 * BucketLen,
                    NEW k \in Keys, Waiting(m, k)'
             PROVE  bNow'[r] <= BucketOf(m)' + 2
  BY Zenon DEF Chased
<1> DEFINE x == since[m] + setup.sender
           y == t + setup.receiver
           z == began[r] + setup.receiver
<1>0. /\ t \in Int /\ began[r] \in Int /\ gap[r] \in Int /\ BucketLen \in Nat \ {0}
      /\ setup.sender \in Int /\ setup.receiver \in Int /\ BucketLen \in Int
  BY WatchNumbers
<1>1. UNCHANGED <<t, setup, box, accepted, opened>> /\ since'[m] = since[m]
  BY Zenon DEF WatchWake, Alone, Clients
<1>2. /\ accepted[m] # NoTime /\ opened[r] <= since[m]
      /\ Waiting(m, k) /\ BucketOf(m)' = x \div BucketLen /\ BucketOf(m) = x \div BucketLen
      /\ (IF setup.receiver - setup.sender > 0 THEN setup.receiver - setup.sender ELSE 0)
           + (accepted[m] - since[m]) + gap'[r] <= 2 * BucketLen
  BY Zenon, <1>1 DEF Delay, Waiting, Live, Mailbox!Holds, Clock, BucketOf
<1>3. bNow'[r] = y \div BucketLen
  BY Zenon, <1>1, BeginScheduled DEF WatchWake
<1>4. since[m] \in Int /\ accepted[m] \in Int /\ since[m] <= accepted[m]
  BY Zenon, <1>2 DEF WInv, Dated
<1>5. /\ Looking(r) /\ bNow[r] = z \div BucketLen /\ bNow[r] \in Int
      /\ \A o \in 0 .. probeCount - 1 : Gone(r, bNow[r] - o)
      /\ gap'[r] \in Int /\ gap[r] <= gap'[r] /\ t - began[r] <= gap'[r]
  BY Zenon, Wakes
<1>6. y <= z + 2 * BucketLen
  BY Zenon, <1>0, <1>2, <1>4, <1>5, AfterLast
<1>7. began[r] <= accepted[m] => y <= x + 2 * BucketLen
  BY Zenon, <1>0, <1>2, <1>4, <1>5, AfterSend
<1>8. x \in Int /\ y \in Int /\ z \in Int
  BY Zenon, <1>0, <1>4, Instants
<1>9. k[2] = x \div BucketLen
  BY Zenon, <1>2 DEF WInv, Placed, Waiting, Live, Mailbox!Holds
<1>10. CASE began[r] <= accepted[m]
  BY Zenon, <1>0, <1>2, <1>3, <1>7, <1>8, <1>10, TwoBuckets
<1>11. CASE accepted[m] < began[r]
  <2>0. Delay(r, m) <= 2 * BucketLen
    BY Zenon, <1>0, <1>2, <1>4, <1>5, Shorter DEF Delay
  <2>1. bNow[r] <= k[2] + 2
    BY Zenon, <1>2, <1>5, <1>9, <1>11, <2>0 DEF WInv, Chased
  <2>2. \A o \in 0 .. probeCount - 1 : k[2] # bNow[r] - o
    BY Zenon, <1>2, <1>5, <1>11 DEF Gone
  <2>3. k[2] \in Int /\ y \div BucketLen \in Int
    BY Zenon, <1>0, <1>8, <1>9, DivBounds
  <2>4. y \div BucketLen <= bNow[r] + 2
    BY Zenon, <1>0, <1>5, <1>6, <1>8, TwoBuckets
  <2> HIDE DEF x, y, z
  <2>5. bNow[r] < k[2]
    BY <1>5, <2>1, <2>2, <2>3 DEF probeCount
  <2>6. y \div BucketLen <= k[2] + 2
    BY <1>5, <2>3, <2>4, <2>5
  <2> QED
    BY Zenon, <1>2, <1>3, <1>9, <2>6
<1> QED
  BY <1>0, <1>4, <1>10, <1>11

\* Every step keeps every message chased by every receiver.
LEMMA NextChased ==
  ASSUME WInv, [Next]_dvars, NEW r \in Recvs, NEW m \in Msgs
  PROVE  Chased(r, m)'
<1>0. /\ IInv /\ Typed /\ r \in Clients /\ m # r /\ Shrinks(r) /\ Chased(r, m) /\ Dated(m)'
      /\ opened \in [Recvs -> Int] /\ gap \in [Recvs -> Int] /\ setup' = setup
      /\ since'[m] = since[m] \/ (accepted[m] = NoTime /\ accepted'[m] = NoTime)
  BY Zenon, WatchNumbers, NextShrinks, NextDated, NextMessage DEF WInv, PInv, IInv
<1>1. ASSUME Looking(r)' => Looking(r), bNow'[r] = bNow[r], began'[r] = began[r],
             opened'[r] = opened[r], gap'[r] = gap[r]
      PROVE  Chased(r, m)'
  BY Zenon, <1>0, <1>1, SparedChased
<1>2. ASSUME NEW p \in Clients, ClientStep(p) PROVE Chased(r, m)'
  <2>1. Alone(p)
    BY Zenon, <1>0, <1>2, ClientAlone
  <2>2. CASE p = r
    <3>1. \/ RecvBegin(r) \/ WatchWake(r)
          \/ (Looking(r)' => Looking(r)) /\ UNCHANGED <<bNow, began, opened, gap>>
      BY Zenon, <1>0, <1>2, <2>1, <2>2, RecvScheduled
    <3> QED
      BY Zenon, <1>0, <1>1, <2>1, <2>2, <3>1, BeginChased, WakeChased
  <2>3. CASE p # r
    <3>1. opened'[r] = opened[r] /\ gap'[r] = gap[r]
      BY Zenon, <1>0, <1>2, <2>3, ClientOpened
    <3> QED
      BY Zenon, <1>0, <1>1, <2>1, <2>3, <3>1 DEF Alone, Looking
  <2> QED
    BY Zenon, <2>2, <2>3
<1>3. ASSUME UNCHANGED <<pc, out, bNow, began, opened, gap>> PROVE Chased(r, m)'
  BY Zenon, <1>1, <1>3 DEF Looking
<1>4. ASSUME NEW p \in Clients, RelayPost(p) \/ RelayGet(p) PROVE Chased(r, m)'
  BY Zenon, <1>3, <1>4 DEF RelayPost, RelayGet, cliVars, probeVars
<1>5. ASSUME RelayDrop \/ Tick \/ UNCHANGED dvars PROVE Chased(r, m)'
  BY Zenon, <1>3, <1>5 DEF RelayDrop, Tick, dvars, cliVars, probeVars
<1> QED
  BY Zenon, <1>2, <1>4, <1>5, StepCases DEF Clients

\* Every step keeps what a watch relies on.
LEMMA NextWInv == WInv /\ [Next]_dvars => WInv'
<1> SUFFICES ASSUME WInv, [Next]_dvars PROVE WInv'
  OBVIOUS
<1>1. PInv'
  BY Zenon, NextPInv DEF WInv
<1>2. opened' \in [Recvs -> Int] /\ gap' \in [Recvs -> Int]
  <2>1. Typed /\ opened \in [Recvs -> Int] /\ gap \in [Recvs -> Int]
    BY Zenon DEF WInv, PInv, IInv
  <2>2. ASSUME NEW p \in Clients, ClientStep(p)
        PROVE  opened' \in [Recvs -> Int] /\ gap' \in [Recvs -> Int]
    BY Zenon, <2>1, <2>2, ClientOpened
  <2>3. ASSUME ~\E p \in Clients : ClientStep(p) PROVE opened' = opened /\ gap' = gap
    BY Zenon, <2>3, StepCases DEF RelayPost, RelayGet, RelayDrop, Tick, dvars, probeVars
  <2> QED
    BY Zenon, <2>1, <2>2, <2>3
<1> QED
  BY Zenon, <1>1, <1>2, NextDated, NextPlaced, NextScheduled, NextChased DEF WInv

\* runRecvWatch's probes overlap: for any clocks, interval and timeouts and any length of the
\* watch, it does not end with NotFound while a message sent under it and stored before its
\* last probe waits in a bucket it has reached, if the message's POST and the watch's rounds
\* took no longer together than two buckets less what the receiver's clock is ahead.
THEOREM DeliveryWatchFindsNew == SafetySpec => []WatchFindsNew
<1>1. Init => WInv
  <2> SUFFICES ASSUME Init PROVE WInv
    OBVIOUS
  <2>1. PInv
    BY Zenon, InitPInv
  <2>2. opened \in [Recvs -> Int] /\ gap \in [Recvs -> Int]
    BY DEF Init, NoTime
  <2>3. \A p \in Clients : pc[p] = "idle" /\ out[p] = "running" /\ ask[p] = NoKey
    BY Zenon DEF Init
  <2>4. ASSUME NEW r \in Recvs PROVE ~Looking(r) /\ pc[r] # "sleep"
    BY <2>3, <2>4 DEF Looking, Clients
  <2> QED
    BY Zenon, <2>1, <2>2, <2>3, <2>4 DEF Init, WInv, Dated, Placed, Scheduled, Chased, Clients
<1>2. ASSUME WInv PROVE WatchFindsNew
  <2> SUFFICES ASSUME NEW r \in Watch, NEW m \in Msgs, NEW k \in Keys,
                      out[r] = "NotFound", accepted[m] # NoTime, accepted[m] < began[r],
                      opened[r] <= since[m], k[2] <= bNow[r],
                      Delay(r, m) <= 2 * BucketLen, Waiting(m, k)
               PROVE  FALSE
    BY Zenon DEF WatchFindsNew
  <2>1. r \in Recvs /\ Looking(r)
    BY Zenon, DeliveryConstants DEF Looking
  <2>2. bNow[r] \in Int /\ \A o \in 0 .. probeCount - 1 : Gone(r, bNow[r] - o)
    BY Zenon, <1>2, <2>1 DEF WInv, PInv, Probed
  <2>3. k[2] = BucketOf(m)
    BY Zenon, <1>2 DEF WInv, Placed, Waiting, Live, Mailbox!Holds
  <2>4. bNow[r] <= k[2] + 2
    BY Zenon, <1>2, <2>1, <2>3 DEF WInv, Chased
  <2>5. k[2] \in Int
    <3>1. k[2] \in 0 .. LastBucket
      BY DEF Keys, Address
    <3> QED
      BY <3>1
  <2>6. \A o \in 0 .. probeCount - 1 : k[2] # bNow[r] - o
    BY Zenon, <2>1, <2>2 DEF Gone
  <2> QED
    BY <2>2, <2>4, <2>5, <2>6 DEF probeCount
<1> QED
  BY <1>1, <1>2, NextWInv, PTL DEF SafetySpec
===============================================================================
