------------------------------- MODULE Delivery -------------------------------
(***************************************************************************)
(* One pair exchanging messages over the relay: `deaddrop send`            *)
(* (client.Send), `deaddrop recv` (client.RecvCtx) and `recv --watch`      *)
(* (runRecvWatch).  The relay is the OneShotMailbox that RelayServer is    *)
(* shown to implement, behind the service-hour check of handlePost.        *)
(*                                                                         *)
(* Sender, receiver and relay read clocks of their own; a message's        *)
(* address is computed from the sender's clock, the receiver guesses it    *)
(* from its own.  Requests and answers travel separately: either can be    *)
(* lost, a client can give up while its request is still on the way, and   *)
(* net/http sends a GET again when a kept-alive connection breaks.         *)
(*                                                                         *)
(* Time is counted in ticks of 30 seconds, the shortest watch interval.    *)
(***************************************************************************)
EXTENDS Integers

CONSTANTS
  Msgs,            \* messages, one `deaddrop send` each
  Recvs,           \* `deaddrop recv` invocations
  NoMsg, NoKey,    \* nothing received, no request on the way
  E2E,             \* messages sent with a content layer: wire version 0x04
  Layer,           \* receivers that resolved an identity entry
  Matched,         \* those of Layer whose entry matches the sender's
  Watch,           \* receivers with --watch
  BucketLen,       \* ticks in a minute bucket
  BucketsPerHour,  \* minute buckets in an hour
  SlotTTL,         \* ticks the relay keeps a slot
  Duration,        \* --duration, in ticks; 0 is unbounded
  PostTimeout,     \* a POST is answered within so many ticks, or given up
  GetTimeout,      \* the same for a GET
  Refusals,        \* how the relay may refuse a POST: a subset of 401, 413, 503
  Setups,          \* the circumstances of a behaviour: its clocks, flags and faults
  Begin, MaxTime   \* first instant, and the last of any setup (bound)

ASSUME DeliveryConstants ==
  /\ NoMsg \notin Msgs
  /\ Matched \subseteq Layer /\ Watch \subseteq Recvs
  /\ Msgs \cap Recvs = {}
  /\ Msgs \cap {"none", "201", "401", "404", "409", "413", "503"} = {}
  /\ BucketLen \in Nat \ {0} /\ BucketsPerHour \in Nat \ {0}
  /\ SlotTTL \in Nat \ {0} /\ Duration \in Nat
  /\ PostTimeout \in Nat /\ GetTimeout \in Nat
  /\ Begin \in Nat /\ MaxTime \in Nat
  /\ Refusals \subseteq {"401", "413", "503"}
  /\ \A s \in Setups :
       /\ s.sent \subseteq Msgs /\ s.strict \subseteq Recvs /\ s.stops \in BOOLEAN
       /\ s.interval \in Nat \ {0} /\ s.until \in Begin .. MaxTime
       \* every clock is far enough from the epoch for bNow - 2 to exist
       /\ \A c \in {"sender", "receiver", "relay"} : s[c] \in Int /\ Begin + s[c] >= 2 * BucketLen

VARIABLES
  t,         \* true time
  setup,     \* sender, receiver, relay: how far their clocks are from true time
             \* sent: the messages that are sent; strict: receivers with --require-e2e
             \* interval: --watch-interval in ticks
             \* stops: the relay may be stopped (bound); until: the last instant (bound)
  box,       \* the relay's slots
  closing,   \* the relay is stopping or has been restarted
  delivered, \* how often the relay handed each message out
  ask,       \* the request each client has on the way: its address
  ans,       \* the answer on its way back
  pc,        \* where each client is
  since,     \* when it sent its request, or when it wakes up
  bNow, off, \* recv's bucket at the start of the probe, and the probe's offset
  out,       \* exit code
  wrote,     \* the message recv wrote to its output
  \* history, read by the properties only
  resent,    \* net/http has resent a GET of this recv
  accepted,  \* when the relay stored the message
  taken,     \* the recvs whose GETs were handed the message
  opened,    \* when the recv was invoked
  began,     \* when its last probe started
  gap        \* the longest a watch took from the start of a probe to that of the next

Clients == Msgs \cup Recvs
netVars == <<ask, ans>>
cliVars == <<pc, since, out>>
probeVars == <<bNow, off, wrote, opened, began, gap>>
dvars == <<t, setup, box, closing, delivered, ask, ans, pc, since, bNow, off, out, wrote,
           resent, accepted, taken, opened, began, gap>>

NoTime == -1
\* Mutant: the oldest bucket is not probed.
MutProbeCount == 2

\* recv looks at the current minute and the two before it.
probeCount == 3

\* The address of a bucket: service_id of its hour, slot_id of its minute.
Clock(c) == t + setup[c]
HourOf(b) == b \div BucketsPerHour
Address(h, b) == <<h, b>>
LastBucket == (MaxTime + 3 * BucketLen * BucketsPerHour) \div BucketLen
Keys == {Address(HourOf(b), b) : b \in 0 .. LastBucket}

Mailbox == INSTANCE OneShotMailbox
             WITH Blobs <- Msgs, Hashes <- {"token"}, NoHash <- "none", Empty <- NoMsg,
                  clock <- Clock("relay")

\* GET looks the address up exactly; one nobody posted to holds nothing.
Live(k) == k \in Keys /\ Mailbox!Holds(k) /\ Clock("relay") <= box[k].until

Answers == {"none", "201", "404", "409", "503"} \cup Refusals \cup Msgs
ExitCodes == {"running", "OK", "NotFound", "RelayUnreachable", "Auth", "Collision", "SizeCap",
              "RelayOverloaded", "CryptoLocal", "IdentityMiss", "E2EUnwrap", "Internal", "Interrupted"}

DeliveryTypeOK ==
  /\ t \in Begin .. MaxTime
  /\ setup \in Setups
  /\ box \in [Keys -> Mailbox!Parcel \cup {NoMsg}]
  /\ closing \in BOOLEAN
  /\ delivered \in [Msgs -> 0 .. 1]
  /\ ask \in [Clients -> Keys \cup {NoKey}]
  /\ ans \in [Clients -> Answers]
  /\ pc \in [Clients -> {"idle", "wait", "sleep", "done"}]
  /\ out \in [Clients -> ExitCodes]
  /\ off \in [Recvs -> 0 .. probeCount - 1]
  /\ wrote \in [Recvs -> Msgs \cup {NoMsg}]
  /\ taken \in [Msgs -> SUBSET Recvs]
  /\ accepted \in [Msgs -> Begin .. MaxTime \cup {NoTime}]

Init ==
  /\ t = Begin
  /\ closing = FALSE
  /\ setup \in Setups
  /\ box = [k \in Keys |-> NoMsg]
  /\ delivered = [m \in Msgs |-> 0]
  /\ ask = [p \in Clients |-> NoKey]
  /\ ans = [p \in Clients |-> "none"]
  /\ pc = [p \in Clients |-> "idle"]
  /\ since = [p \in Clients |-> NoTime]
  /\ bNow = [r \in Recvs |-> 0]
  /\ off = [r \in Recvs |-> 0]
  /\ out = [p \in Clients |-> "running"]
  /\ wrote = [r \in Recvs |-> NoMsg]
  /\ resent = [r \in Recvs |-> FALSE]
  /\ accepted = [m \in Msgs |-> NoTime]
  /\ taken = [m \in Msgs |-> {}]
  /\ opened = [r \in Recvs |-> NoTime]
  /\ began = [r \in Recvs |-> NoTime]
  /\ gap = [r \in Recvs |-> 0]

-------------------------------------------------------------------------------
(* client.Send                                                             *)

Request(p, k) ==
  /\ pc' = [pc EXCEPT ![p] = "wait"]
  /\ since' = [since EXCEPT ![p] = t]
  /\ ask' = [ask EXCEPT ![p] = k]
  /\ ans' = [ans EXCEPT ![p] = "none"]

Exit(p, code) ==
  /\ pc' = [pc EXCEPT ![p] = "done"]
  /\ out' = [out EXCEPT ![p] = code]
  /\ ans' = [ans EXCEPT ![p] = "none"]
  /\ UNCHANGED <<since, ask>>

\* Hour and minute bucket are both read off the clock once, before encryption.
SendBegin(m) ==
  /\ pc[m] = "idle" /\ m \in setup.sent
  /\ LET now == Clock("sender")
     IN  Request(m, Address(now \div (BucketLen * BucketsPerHour), now \div BucketLen))
  /\ UNCHANGED <<t, setup, box, closing, delivered, out, probeVars, resent, accepted, taken>>

\* Mutant: 409 taken for a previous attempt of the same send.
MutSendExit(code) ==
  CASE code \in {"201", "409"} -> "OK"
    [] code = "401" -> "Auth"
    [] code = "413" -> "SizeCap"
    [] code = "503" -> "RelayOverloaded"
    [] OTHER -> "RelayUnreachable"

SendExit(code) ==
  CASE code = "201" -> "OK"
    [] code = "401" -> "Auth"
    [] code = "409" -> "Collision"
    [] code = "413" -> "SizeCap"
    [] code = "503" -> "RelayOverloaded"
    [] OTHER -> "RelayUnreachable"

SendAnswer(m) ==
  /\ pc[m] = "wait" /\ ans[m] # "none"
  /\ Exit(m, SendExit(ans[m]))
  /\ UNCHANGED <<t, setup, box, closing, delivered, probeVars, resent, accepted, taken>>

-------------------------------------------------------------------------------
(* The relay, through its mailbox.  A request whose client has gone is     *)
(* handled all the same; only its answer has no reader.                    *)

Reply(p, a) ==
  /\ ask' = [ask EXCEPT ![p] = NoKey]
  /\ ans' = [ans EXCEPT ![p] = IF pc[p] = "wait" THEN a ELSE "none"]

\* Mutant: only the current hour.
MutHourAccepted(h) == h = Clock("relay") \div (BucketLen * BucketsPerHour)

\* handlePost accepts the service_id of the relay's hour and of the one before.
HourAccepted(h) ==
  LET cur == Clock("relay") \div (BucketLen * BucketsPerHour) IN h \in {cur, cur - 1}

RelayPost(m) ==
  /\ ask[m] # NoKey
  /\ UNCHANGED <<t, setup, cliVars, probeVars, resent, taken>>
  /\ LET k == ask[m] IN
     \/ \E a \in Refusals : Reply(m, a) /\ UNCHANGED <<box, closing, delivered, accepted>>
     \/ /\ ~HourAccepted(k[1])
        /\ Reply(m, "404")
        /\ UNCHANGED <<box, closing, delivered, accepted>>
     \/ /\ HourAccepted(k[1])
        /\ Mailbox!Holds(k) /\ Clock("relay") < box[k].until
        /\ Reply(m, "409")
        /\ UNCHANGED <<box, closing, delivered, accepted>>
     \/ /\ HourAccepted(k[1])
        /\ Mailbox!Deposit(k, [blob |-> m, left |-> 1, until |-> Clock("relay") + SlotTTL,
                               token |-> "token"])
        /\ accepted' = [accepted EXCEPT ![m] = t]
        /\ Reply(m, "201")

\* Mutant: the slot is read but not consumed.
MutRelayGet(r) ==
  /\ ask[r] # NoKey
  /\ UNCHANGED <<t, setup, box, closing, delivered, cliVars, probeVars, resent, accepted>>
  /\ LET k == ask[r] IN
     \/ ~Live(k) /\ Reply(r, "404") /\ UNCHANGED taken
     \/ /\ Live(k)
        /\ taken' = [taken EXCEPT ![box[k].blob] = @ \cup {r}]
        /\ Reply(r, box[k].blob)

RelayGet(r) ==
  /\ ask[r] # NoKey
  /\ UNCHANGED <<t, setup, cliVars, probeVars, resent, accepted>>
  /\ LET k == ask[r] IN
     \/ Reply(r, "503") /\ UNCHANGED <<box, closing, delivered, taken>>
     \/ ~Live(k) /\ Reply(r, "404") /\ UNCHANGED <<box, closing, delivered, taken>>
     \/ /\ Live(k)
        /\ Mailbox!Deliver(k)
        /\ taken' = [taken EXCEPT ![box[k].blob] = @ \cup {r}]
        /\ Reply(r, box[k].blob)

\* The collector removes a slot past its deadline; a relay that stops drops them all.
RelayDrop ==
  /\ UNCHANGED <<t, setup, netVars, cliVars, probeVars, resent, accepted, taken>>
  /\ (setup.stops /\ ~closing /\ Mailbox!Close) \/ \E k \in Keys : Mailbox!Discard(k)

-------------------------------------------------------------------------------
(* client.RecvCtx and runRecvWatch                                         *)

\* GET the address of bucket b, under the service_id of that bucket's own hour.
Probe(r, b) == Request(r, Address(HourOf(b), b))

\* A probe starts by reading the clock; the three buckets follow from that.
ProbeBegin(r) ==
  LET b == Clock("receiver") \div BucketLen IN
  /\ bNow' = [bNow EXCEPT ![r] = b]
  /\ off' = [off EXCEPT ![r] = 0]
  /\ began' = [began EXCEPT ![r] = t]
  /\ Probe(r, b)
  /\ UNCHANGED <<out, wrote>>

\* runRecv refuses --require-e2e without an identity entry before it asks for anything.
RecvBegin(r) ==
  /\ pc[r] = "idle"
  /\ opened' = [opened EXCEPT ![r] = t]
  /\ IF r \in setup.strict \ Layer
       THEN Exit(r, "IdentityMiss") /\ UNCHANGED <<bNow, off, wrote, began>>
       ELSE ProbeBegin(r)
  /\ UNCHANGED <<t, setup, box, closing, delivered, gap, resent, accepted, taken>>

\* The content layer opens what the identity entry on the other side sealed.
ContentOpens(r) == r \in Matched

\* What came off the network: the body that was posted, bytes that are no envelope, or an
\* envelope the pair's key does not open.
Bodies == {"intact", "malformed", "tampered"}

\* Mutant: a legacy body is let through in strict mode.
MutOpen(r, m, body) ==
  CASE body = "malformed" -> "CryptoLocal"
    [] m \in E2E /\ r \notin Layer -> "IdentityMiss"
    [] body = "tampered" -> "CryptoLocal"
    [] m \in E2E /\ ~ContentOpens(r) -> "E2EUnwrap"
    [] OTHER -> "OK"

\* The version byte decides before the outer AEAD, the content layer after it.
Open(r, m, body) ==
  CASE body = "malformed" -> "CryptoLocal"
    [] m \in E2E /\ r \notin Layer -> "IdentityMiss"
    [] m \notin E2E /\ r \in Layer \cap setup.strict -> "IdentityMiss"
    [] body = "tampered" -> "CryptoLocal"
    [] m \in E2E /\ ~ContentOpens(r) -> "E2EUnwrap"
    [] OTHER -> "OK"

\* A 200: the message has left the relay whatever happens to it now.
RecvMessage(r) ==
  /\ pc[r] = "wait" /\ ans[r] \in Msgs
  /\ \E body \in Bodies :
       LET code == Open(r, ans[r], body) IN
       \/ code = "OK" /\ Exit(r, "OK") /\ wrote' = [wrote EXCEPT ![r] = ans[r]]
       \/ code = "OK" /\ Exit(r, "Internal") /\ UNCHANGED wrote
       \/ code # "OK" /\ Exit(r, code) /\ UNCHANGED wrote
  /\ UNCHANGED <<t, setup, box, closing, delivered, bNow, off, opened, began, gap, resent,
                 accepted, taken>>

\* Mutant: every bucket is asked for under the hour of the first.
MutRecvNextHour(r) ==
  /\ pc[r] = "wait" /\ ans[r] = "404"
  /\ off[r] < probeCount - 1
  /\ off' = [off EXCEPT ![r] = @ + 1]
  /\ Request(r, Address(HourOf(bNow[r]), bNow[r] - (off[r] + 1)))
  /\ UNCHANGED <<t, setup, box, closing, delivered, out, bNow, wrote, opened, began, gap, resent,
                 accepted, taken>>

\* A 404: the next older bucket.
RecvNext(r) ==
  /\ pc[r] = "wait" /\ ans[r] = "404"
  /\ off[r] < probeCount - 1
  /\ off' = [off EXCEPT ![r] = @ + 1]
  /\ Probe(r, bNow[r] - (off[r] + 1))
  /\ UNCHANGED <<t, setup, box, closing, delivered, out, bNow, wrote, opened, began, gap, resent,
                 accepted, taken>>

Deadline(r) == opened[r] + Duration

\* Mutant: the deadline only shortens the sleep.
MutRecvMiss(r) ==
  /\ pc[r] = "wait" /\ ans[r] = "404"
  /\ off[r] = probeCount - 1
  /\ pc' = [pc EXCEPT ![r] = "sleep"]
  /\ since' = [since EXCEPT ![r] = IF Deadline(r) - t < setup.interval THEN Deadline(r) ELSE t + setup.interval]
  /\ ans' = [ans EXCEPT ![r] = "none"]
  /\ UNCHANGED <<t, setup, box, closing, delivered, out, ask, probeVars, resent, accepted, taken>>

\* All three buckets missed: a single recv ends, a watch sleeps or meets its deadline.
RecvMiss(r) ==
  /\ pc[r] = "wait" /\ ans[r] = "404"
  /\ off[r] = probeCount - 1
  /\ IF r \notin Watch \/ (Duration # 0 /\ t >= Deadline(r))
       THEN Exit(r, "NotFound")
       ELSE /\ pc' = [pc EXCEPT ![r] = "sleep"]
            /\ since' = [since EXCEPT ![r] =
                           IF Duration # 0 /\ Deadline(r) - t < setup.interval
                             THEN Deadline(r) ELSE t + setup.interval]
            /\ ans' = [ans EXCEPT ![r] = "none"]
            /\ UNCHANGED <<out, ask>>
  /\ UNCHANGED <<t, setup, box, closing, delivered, probeVars, resent, accepted, taken>>

\* Any other answer ends the recv, watching or not; of those the relay gives GETs only 503.
RecvOverloaded(r) ==
  /\ pc[r] = "wait" /\ ans[r] = "503"
  /\ Exit(r, "RelayOverloaded")
  /\ UNCHANGED <<t, setup, box, closing, delivered, probeVars, resent, accepted, taken>>

WatchWake(r) ==
  /\ pc[r] = "sleep" /\ t >= since[r]
  /\ ProbeBegin(r)
  /\ gap' = [gap EXCEPT ![r] = IF @ < t - began[r] THEN t - began[r] ELSE @]
  /\ UNCHANGED <<t, setup, box, closing, delivered, opened, resent, accepted, taken>>

\* SIGINT or SIGTERM: the GET on the way is abandoned, not recalled.
Interrupt(r) ==
  /\ pc[r] \in {"wait", "sleep"}
  /\ Exit(r, "Interrupted")
  /\ UNCHANGED <<t, setup, box, closing, delivered, probeVars, resent, accepted, taken>>

-------------------------------------------------------------------------------
(* The network and time                                                    *)

Timeout(p) == IF p \in Msgs THEN PostTimeout ELSE GetTimeout

\* Mutant: a failed exchange counts as a miss.
MutTransportError(p) ==
  /\ pc[p] = "wait"
  /\ Exit(p, "NotFound")
  /\ UNCHANGED <<t, setup, box, closing, delivered, probeVars, resent, accepted, taken>>

\* A transport error or http.Client.Timeout.  The request stays where it was: lost,
\* which is the relay never acting on it, or late.
TransportError(p) ==
  /\ pc[p] = "wait"
  /\ Exit(p, "RelayUnreachable")
  /\ UNCHANGED <<t, setup, box, closing, delivered, probeVars, resent, accepted, taken>>

TimedOut(p) == t - since[p] >= Timeout(p) /\ TransportError(p)

\* net/http: a GET on a reused connection that broke before an answer is sent once more.
Resend(r) ==
  /\ pc[r] = "wait" /\ ~resent[r]
  /\ off[r] > 0 \/ began[r] > opened[r]
  /\ resent' = [resent EXCEPT ![r] = TRUE]
  /\ LET b == bNow[r] - off[r] IN ask' = [ask EXCEPT ![r] = Address(HourOf(b), b)]
  /\ ans' = [ans EXCEPT ![r] = "none"]
  /\ UNCHANGED <<t, setup, box, closing, delivered, cliVars, probeVars, accepted, taken>>

\* Time passes; no client oversleeps its own timer by a whole tick.
Tick ==
  /\ t < setup.until
  /\ \A p \in Clients :
       /\ pc[p] = "wait" => t - since[p] < Timeout(p)
       /\ pc[p] = "sleep" => t < since[p]
  /\ t' = t + 1
  /\ UNCHANGED <<setup, box, closing, delivered, netVars, cliVars, probeVars, resent, accepted, taken>>

SendStep(m) == SendBegin(m) \/ SendAnswer(m)
RecvStep(r) == RecvMessage(r) \/ RecvNext(r) \/ RecvMiss(r) \/ RecvOverloaded(r) \/ WatchWake(r)

Next ==
  \/ \E m \in Msgs : SendStep(m) \/ RelayPost(m)
  \/ \E r \in Recvs : RecvBegin(r) \/ RecvStep(r) \/ RelayGet(r) \/ Resend(r) \/ Interrupt(r)
  \/ \E p \in Clients : TransportError(p)
  \/ RelayDrop
  \/ Tick

SafetySpec == Init /\ [][Next]_dvars

\* A running client takes its next step, its timers fire, and time goes on.  Neither
\* the network nor the relay owes anybody an answer.
Fairness ==
  /\ \A m \in Msgs : WF_dvars(SendAnswer(m)) /\ WF_dvars(TimedOut(m))
  /\ \A r \in Recvs : WF_dvars(RecvStep(r)) /\ WF_dvars(TimedOut(r))
  /\ WF_dvars(Tick)

Spec == SafetySpec /\ Fairness

-------------------------------------------------------------------------------
(* Properties                                                              *)

\* No message is written by two receivers, or written without the relay having accepted
\* it, however often requests time out, are resent or reach the relay late: the slot is
\* consumed by the GET that reads it (Take), and recv writes only what its own GET got.
AtMostOnce ==
  \A m \in Msgs :
    /\ \A r, s \in taken[m] : r = s
    /\ \A r \in Recvs : wrote[r] = m => accepted[m] # NoTime /\ taken[m] = {r}

\* Send's exit code never lies about the relay: OK only for a message the relay stored;
\* Collision, Auth, SizeCap and RelayOverloaded only for one it did not, and never will.
SendReportHonest ==
  \A m \in Msgs :
    /\ out[m] = "OK" => accepted[m] # NoTime
    /\ out[m] \in {"Auth", "Collision", "SizeCap", "RelayOverloaded"} =>
         accepted[m] = NoTime /\ ask[m] = NoKey

Destroyed(r) == \E m \in Msgs : r \in taken[m] /\ wrote[r] # m

\* A recv whose GET emptied a slot without the message reaching the output says so: it
\* exits with an error other than NotFound (a lost answer, an interrupt, a refused
\* version, a failed write).  A GET that net/http resent is the exception.
LossReported ==
  \A r \in Recvs : pc[r] = "done" /\ Destroyed(r) /\ ~resent[r] => out[r] \notin {"OK", "NotFound"}

\* HOWTO, of recv's exit code 1: it "means no message found".
NotFoundMeansNone == \A r \in Recvs : out[r] = "NotFound" => ~Destroyed(r)

\* Strict mode: a receiver with --require-e2e writes E2E messages only, and one without
\* an identity entry does not touch the relay at all, so refusing costs no message.
StrictMode ==
  \A r \in setup.strict :
    /\ wrote[r] \in E2E \cup {NoMsg}
    /\ r \notin Layer => ask[r] = NoKey /\ \A m \in Msgs : r \notin taken[m]

\* What makes these inductive: what is known of a message while and after it is posted,
Posting(m) ==
  /\ pc[m] = "idle" => ask[m] = NoKey /\ accepted[m] = NoTime
  /\ ask[m] # NoKey => ans[m] = "none" /\ accepted[m] = NoTime
  /\ ans[m] = "201" => accepted[m] # NoTime
  /\ ans[m] \in {"401", "409", "413", "503"} => accepted[m] = NoTime
  /\ pc[m] # "done" => out[m] = "running"
  /\ out[m] = "OK" => accepted[m] # NoTime
  /\ out[m] \in {"Auth", "Collision", "SizeCap", "RelayOverloaded"} =>
       accepted[m] = NoTime /\ ask[m] = NoKey

\* of a slot: what it holds was accepted once, and nobody has it yet,
Held(k) ==
  box[k] # NoMsg =>
    /\ box[k].blob \in Msgs /\ box[k].left = 1 /\ box[k].until \in Int
    /\ accepted[box[k].blob] # NoTime /\ taken[box[k].blob] = {}
    /\ \A l \in Keys : box[l] # NoMsg /\ box[l].blob = box[k].blob => l = k

\* of a message that left the relay,
Handed(m) ==
  /\ taken[m] # {} => accepted[m] # NoTime
  /\ \A r, s \in taken[m] : r = s

\* and of a receiver, whose exit code cannot be a good one while a GET of its own is on the
\* way or has taken what it did not write.
Bad(r) == pc[r] = "done" /\ out[r] \notin {"OK", "NotFound"}
Receiving(r) ==
  /\ \A m \in Msgs : ans[r] = m \/ wrote[r] = m => r \in taken[m]
  /\ pc[r] # "done" => wrote[r] = NoMsg
  /\ ~resent[r] =>
       /\ ask[r] # NoKey => (pc[r] = "wait" /\ ans[r] = "none") \/ Bad(r)
       /\ \A m \in Msgs :
            r \in taken[m] /\ wrote[r] # m => (pc[r] = "wait" /\ ans[r] = m) \/ Bad(r)
  /\ r \in setup.strict =>
       /\ wrote[r] \in E2E \cup {NoMsg}
       /\ r \notin Layer =>
            pc[r] \in {"idle", "done"} /\ ask[r] = NoKey /\ \A m \in Msgs : r \notin taken[m]

\* A message waiting in the relay, and the bucket its slot_id stands for.
Waiting(m, k) == Live(k) /\ box[k].blob = m

\* A single recv that reports NotFound has left nothing behind that was in the relay
\* before its probe and in one of the three buckets of its clock, also where those
\* buckets lie in two service hours: each is asked for under its own hour.
MissIsHonest ==
  \A r \in Recvs, m \in Msgs, k \in Keys :
    /\ out[r] = "NotFound" /\ accepted[m] # NoTime /\ accepted[m] < began[r]
    /\ Waiting(m, k)
    => k[2] \notin bNow[r] - 2 .. bNow[r]

\* It is inductive with: the buckets asked for so far are empty of what was there before,
\* and stay so; the request on the way is for the bucket that comes next.
Gone(r, b) ==
  \A m \in Msgs, k \in Keys :
    k[2] = b /\ accepted[m] # NoTime /\ accepted[m] < began[r] => ~Waiting(m, k)
Probed(r) ==
  /\ began[r] <= t
  /\ pc[r] = "wait" =>
       /\ off[r] \in 0 .. probeCount - 1 /\ bNow[r] \in Int
       /\ ask[r] # NoKey => ask[r] = Address(HourOf(bNow[r] - off[r]), bNow[r] - off[r])
       /\ \A o \in 0 .. off[r] - 1 : Gone(r, bNow[r] - o)
       /\ ans[r] = "404" => Gone(r, bNow[r] - off[r])
  /\ out[r] = "NotFound" =>
       pc[r] = "done" /\ bNow[r] \in Int /\ \A o \in 0 .. probeCount - 1 : Gone(r, bNow[r] - o)

\* How late the first probe after a message's arrival can be by the receiver's clock, counted
\* from the sender's at the send: the receiver may be ahead, the POST took its time, and the
\* watch goes round once in at most its gap, which is an interval and three GETs.
Delay(r, m) ==
  LET ahead == setup.receiver - setup.sender
  IN  (IF ahead > 0 THEN ahead ELSE 0) + (accepted[m] - since[m]) + gap[r]

\* A watch that was running when a message was sent does not end with NotFound while the
\* message, stored before its last probe, is still waiting in a bucket its clock has reached:
\* while that delay is within two buckets, successive probes overlap enough that no bucket
\* slips between them.  Nothing in the code keeps it there: --watch-interval has no upper
\* bound, and one slow POST and three slow GETs (30 s each) on the shortest interval exceed it.
\* HOWTO claims it of any clocks: "--watch mode is immune to moderate skew".
WatchFindsNew ==
  \A r \in Watch, m \in Msgs, k \in Keys :
    /\ out[r] = "NotFound" /\ accepted[m] # NoTime /\ accepted[m] < began[r]
    /\ opened[r] <= since[m] /\ k[2] <= bNow[r]
    /\ Delay(r, m) <= 2 * BucketLen
    => ~Waiting(m, k)

\* HOWTO, of a recv more than three minutes after the send: "use --watch instead".  The
\* same for every message in the relay, whenever it was sent.
WatchFindsOld ==
  \A r \in Watch, m \in Msgs, k \in Keys :
    /\ out[r] = "NotFound" /\ out[m] = "OK" /\ accepted[m] < began[r]
    => ~Waiting(m, k)

\* A sender whose clock is not ahead of the relay's, and less than an hour behind it, is
\* never turned away by the service-hour check, on either side of the hour: while its
\* POST is on the way the relay's clock moves by at most PostTimeout.
HourSeam ==
  LET behind == setup.relay - setup.sender IN
  behind >= 0 /\ behind + PostTimeout <= BucketLen * BucketsPerHour =>
    \A m \in Msgs : pc[m] = "wait" => ans[m] # "404"

\* It is inductive with: a POST on the way names the hour it was sent in.
OnTime(m) ==
  pc[m] = "wait" =>
    /\ since[m] \in Nat /\ since[m] <= t /\ t - since[m] <= PostTimeout
    /\ ask[m] # NoKey => ask[m][1] = (since[m] + setup.sender) \div (BucketLen * BucketsPerHour)

\* ARCHITECTURAL_PRINCIPLE_GENERIC_PIPELINE, of the relay: "service_id validation (hour +- 1
\* skew window)".  The same for a sender up to an hour off in either direction.
HourEitherWay ==
  LET behind == setup.relay - setup.sender
      hour == BucketLen * BucketsPerHour IN
  behind + PostTimeout <= hour /\ behind >= -hour =>
    \A m \in Msgs : pc[m] = "wait" => ans[m] # "404"

\* A watch with a --duration ends: a relay that never answers cannot keep it, because
\* every GET times out, every sleep is cut at the deadline and the deadline is checked.
\* (The antecedent is the model's: the deadline lies before the end of modelled time.)
WatchTerminates ==
  \A r \in Watch :
    pc[r] = "wait" /\ Deadline(r) + probeCount * GetTimeout <= setup.until ~> pc[r] = "done"
===============================================================================
