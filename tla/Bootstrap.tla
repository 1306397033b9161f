------------------------------ MODULE Bootstrap ------------------------------
(***************************************************************************)
(* `deaddrop bootstrap`: two operators who share a spoken passphrase P_A   *)
(* make a pair over the relay in three legs and persist it.                *)
(*                                                                         *)
(*   leg 1  initiator -> responder   the initiator's public key            *)
(*   leg 2  responder -> initiator   the responder's public key            *)
(*   leg 3  responder -> initiator   psk and pair_id, sealed to both keys  *)
(*                                                                         *)
(* Legs 1 and 2 live at addresses derived from P_A, leg 3 at one derived   *)
(* from the two public keys; all three move with the minute bucket.  A     *)
(* side may be run more than once with the same P_A, so a run can meet     *)
(* what an earlier run left in the relay.                                  *)
(*                                                                         *)
(* A run's name stands for its fresh identity key; a responder's name also *)
(* for the psk and pair_id it draws.  A request and its answer are one     *)
(* step, with the outcomes "answered", "answer lost" and "refused".  Time  *)
(* is counted in ticks of a minute bucket or less (BucketLen).             *)
(***************************************************************************)
EXTENDS Integers, FiniteSets

CONSTANTS
  Initiators, Responders,  \* runs of each role
  NoRun,
  PA,              \* the passphrase of each run
  BucketLen, BucketsPerHour,
  SlotTTL,         \* ticks the relay keeps a leg
  RepostAfter,     \* leg 1 is posted again after more than this many ticks
  Slack,           \* ticks that are enough for the handshake of two prompt sides
  Setups           \* the circumstances of a behaviour: clocks, flags, faults and bounds

Runs == Initiators \cup Responders

ASSUME BootstrapConstants ==
  /\ Initiators \cap Responders = {} /\ NoRun \notin Runs
  /\ BucketLen \in Nat \ {0} /\ BucketsPerHour \in Nat \ {0}
  /\ SlotTTL \in Nat \ {0} /\ RepostAfter \in Nat /\ Slack \in Nat
  /\ \A s \in Setups :
       /\ s.keyring \subseteq Runs
       /\ s.timeout \in Nat \ {0} /\ s.poll \in Nat
       /\ s.lossy \in BOOLEAN /\ s.prompt \in BOOLEAN /\ s.initiators \in Nat
       /\ s.begin \in Nat /\ s.startBy \in Nat /\ s.until \in Nat
       /\ s.begin + s.initiator >= 2 * BucketLen /\ s.begin + s.responder >= 2 * BucketLen

VARIABLES
  t,         \* the relay's clock
  setup,     \* initiator, responder: how far the two sides' clocks are from it
             \* keyring: runs on a platform with an identity store; elsewhere Put does nothing
             \* timeout: --timeout in ticks; poll: ticks between two rounds of a poll loop
             \* (2 seconds are 0 ticks, 1 is slower); lossy: requests may be refused and
             \* answers lost; prompt: no side takes a whole tick between two of its steps
             \* initiators, begin, startBy, until: how many initiators run, the first instant,
             \* the last one to start at and the last one of all (bounds)
  slots,     \* what the relay holds: [key, body, until]
  pc,        \* where each run is
  deadline,  \* when its context expires
  wake,      \* when its poll loop goes round again
  bNow, off, \* the current round's bucket, and how many addresses it has asked for
  last,      \* initiator: when leg 1 was last posted
  hour,      \* the service hour of leg 2, reused for leg 3
  bPost,     \* responder: the bucket of leg 2, reused for leg 3
  peer,      \* the other side's public key, once opened
  psk,       \* psk and pair_id, named by the responder that drew them
  capsule,   \* the run has written its capsule
  entry,     \* the identity entry the run has stored: own and peer key
  out        \* exit code

clockVars == <<t, setup>>
loopVars == <<deadline, wake, bNow, off, last>>
pairVars == <<hour, bPost, peer, psk>>
diskVars == <<capsule, entry>>
bvars == <<clockVars, slots, pc, loopVars, pairVars, diskVars, out>>

Polling == {"leg1", "leg2", "leg3"}
Handshake == Polling \cup {"post1", "post2", "post3"}
\* The run has psk, pair_id and both keys, and prints its fingerprint.
Agreed == {"confirm", "pb", "capsule", "identity"}
PCs == {"idle", "done"} \cup Handshake \cup Agreed
ExitCodes == {"running", "OK", "Usage", "BootstrapTimeout", "BootstrapAuth", "BootstrapMITM",
              "Collision", "RelayUnreachable", "Internal"}
NoEntry == <<>>

Clock(x) == t + (IF x \in Initiators THEN setup.initiator ELSE setup.responder)
Bucket(x) == Clock(x) \div BucketLen
HourOf(b) == b \div BucketsPerHour
HourNow(x) == Clock(x) \div (BucketLen * BucketsPerHour)

\* Addresses.  LegSlotID: P_A and direction; Leg3SlotID: both public keys.
Leg12Key(leg, x, h, b) == [root |-> <<leg, PA[x]>>, hour |-> h, bucket |-> b]

\* Mutant: leg 3 addressed by the responder's key only.
MutLeg3Root(i, j) == <<3, j>>

Leg3Root(i, j) == <<3, i, j>>
Leg3Key(i, j, h, b) == [root |-> Leg3Root(i, j), hour |-> h, bucket |-> b]

\* Sealed legs.  Legs 1 and 2 carry a public key, bound to their address; leg 3 carries psk
\* and pair_id under a key both sides derive from the two identities, bound likewise.
SealLeg12(pk, k) == [pk |-> pk, ad |-> k]
OpensLeg12(body, k) == body.ad = k
SealLeg3(secret, i, j, k) == [psk |-> secret, sealed |-> <<i, j>>, ad |-> k]
OpensLeg3(body, i, j, k) == body.ad = k /\ body.sealed = <<i, j>>

BootTypeOK ==
  /\ t \in setup.begin .. setup.until
  /\ setup \in Setups
  /\ IsFiniteSet(slots)
  /\ \A s, u \in slots : s.key = u.key => s = u
  /\ pc \in [Runs -> PCs]
  /\ off \in [Runs -> 0 .. 3]
  /\ peer \in [Runs -> Runs \cup {NoRun}]
  /\ psk \in [Runs -> Responders \cup {NoRun}]
  /\ capsule \in [Runs -> BOOLEAN]
  /\ entry \in [Runs -> {NoEntry} \cup [own : Runs, peer : Runs \cup {NoRun}]]
  /\ out \in [Runs -> ExitCodes]

Init ==
  /\ setup \in Setups
  /\ t = setup.begin
  /\ slots = {}
  /\ pc = [x \in Runs |-> "idle"]
  /\ deadline = [x \in Runs |-> 0]
  /\ wake = [x \in Runs |-> 0]
  /\ bNow = [x \in Runs |-> 0]
  /\ off = [x \in Runs |-> 3]
  /\ last = [x \in Runs |-> 0]
  /\ hour = [x \in Runs |-> 0]
  /\ bPost = [x \in Runs |-> 0]
  /\ peer = [x \in Runs |-> NoRun]
  /\ psk = [x \in Runs |-> NoRun]
  /\ capsule = [x \in Runs |-> FALSE]
  /\ entry = [x \in Runs |-> NoEntry]
  /\ out = [x \in Runs |-> "running"]

Goto(x, l) == pc' = [pc EXCEPT ![x] = l] /\ UNCHANGED out
Exit(x, code) ==
  /\ pc' = [pc EXCEPT ![x] = "done"]
  /\ out' = [out EXCEPT ![x] = code]

\* The context is alive: every request and every wait of the handshake needs it.
Active(x) == t < deadline[x]

\* How a request fails when its answer does not arrive, or is a refusal.  No property tells
\* Auth (401) and RelayOverloaded (503) from RelayUnreachable, which stands for all three.
Failure(x) == IF Active(x) THEN "RelayUnreachable" ELSE "BootstrapTimeout"

-------------------------------------------------------------------------------
(* The relay: one leg per address, read once.                              *)

Resident(k) == {s \in slots : s.key = k}
HourAccepted(h) ==
  LET cur == t \div (BucketLen * BucketsPerHour) IN h \in {cur, cur - 1}
Occupied(k) == \E s \in Resident(k) : t < s.until
Stored(k, body) ==
  slots' = (slots \ Resident(k)) \cup {[key |-> k, body |-> body, until |-> t + SlotTTL]}
Readable(k) == {s \in Resident(k) : t <= s.until}

\* postLeg: the relay stores the leg, answers 409, or the exchange fails, before or after
\* the leg was stored.
Posted(x, k, body) == Active(x) /\ HourAccepted(k.hour) /\ ~Occupied(k) /\ Stored(k, body)
Conflict(x, k) == Active(x) /\ HourAccepted(k.hour) /\ Occupied(k) /\ UNCHANGED slots
PostFailed(x, k, body) ==
  \/ ~HourAccepted(k.hour) /\ Active(x) /\ Exit(x, "RelayUnreachable") /\ UNCHANGED slots
  \/ /\ setup.lossy \/ ~Active(x)
     /\ Exit(x, Failure(x))
     /\ \/ UNCHANGED slots
        \/ HourAccepted(k.hour) /\ ~Occupied(k) /\ Stored(k, body)

\* A GET of the poll loops: the leg arrives, there is none, or the exchange fails, before
\* or after the relay gave the leg away.  The wait after the last of the three addresses needs
\* an alarm only when it can outlast a tick.
Fetched(x, k, s) == Active(x) /\ s \in Readable(k) /\ slots' = slots \ {s}
Missed(x, k) ==
  /\ Active(x) /\ Readable(k) = {}
  /\ off' = [off EXCEPT ![x] = @ + 1]
  /\ wake' = [wake EXCEPT ![x] = IF off[x] < 2 \/ setup.poll = 0 THEN @ ELSE t + setup.poll]
  /\ UNCHANGED <<slots, deadline, bNow, last>>
FetchFailed(x, k) ==
  /\ setup.lossy \/ ~Active(x)
  /\ Exit(x, Failure(x))
  /\ slots' \in {slots, slots \ Readable(k)}

-------------------------------------------------------------------------------
(* runBootstrap up to the roles: a fresh identity and a deadline.          *)

Start(x) ==
  /\ pc[x] = "idle" /\ t <= setup.startBy
  /\ x \in Initiators => Cardinality({i \in Initiators : pc[i] # "idle"}) < setup.initiators
  /\ deadline' = [deadline EXCEPT ![x] = t + setup.timeout]
  /\ Goto(x, IF x \in Initiators THEN "post1" ELSE "leg1")
  /\ UNCHANGED <<clockVars, slots, wake, bNow, off, last, pairVars, diskVars>>

\* Mutant: leg 1 is posted once.
MutRepostDue(x) == FALSE

\* Every round of a poll loop reads the clock once; an initiator waiting for leg 2 posts
\* leg 1 again first when the last time is too long ago.
RepostDue(x) == pc[x] = "leg2" /\ t - last[x] > RepostAfter

Round(x) ==
  /\ pc[x] \in Polling /\ off[x] = 3 /\ t >= wake[x]
  /\ Active(x) /\ ~RepostDue(x)
  /\ bNow' = [bNow EXCEPT ![x] = Bucket(x)]
  /\ off' = [off EXCEPT ![x] = 0]
  /\ UNCHANGED <<clockVars, slots, pc, deadline, wake, last, pairVars, diskVars, out>>

\* The context expires in a wait or at the head of a loop.
Expire(x) ==
  /\ pc[x] \in Polling /\ off[x] = 3 /\ ~Active(x)
  /\ Exit(x, "BootstrapTimeout")
  /\ UNCHANGED <<clockVars, slots, loopVars, pairVars, diskVars>>

\* The bucket a round asks for next, current minute first.
Candidate(x) == bNow[x] - off[x]

Asking(x, l) == pc[x] = l /\ off[x] < 3

-------------------------------------------------------------------------------
(* initiatorBootstrap                                                      *)

PostLeg1(i) ==
  LET k == Leg12Key(1, i, HourNow(i), Bucket(i)) IN
  /\ pc[i] = "post1" \/ (RepostDue(i) /\ off[i] = 3 /\ t >= wake[i])
  /\ \/ /\ Posted(i, k, SealLeg12(i, k))
        /\ Goto(i, "leg2") /\ last' = [last EXCEPT ![i] = t]
     \/ /\ Conflict(i, k)
        \* the first leg 1 gives up on a collision, a repeated one ignores it
        /\ IF pc[i] = "post1"
             THEN Exit(i, "Collision") /\ UNCHANGED last
             ELSE Goto(i, "leg2") /\ last' = [last EXCEPT ![i] = t]
     \/ PostFailed(i, k, SealLeg12(i, k)) /\ UNCHANGED last
  /\ UNCHANGED <<clockVars, deadline, wake, bNow, off, pairVars, diskVars>>

\* OpenLeg12 authenticates the address it was found at; the key it carries is pinned.
Leg2Opened(i, s, k) ==
  IF OpensLeg12(s.body, k)
    THEN /\ Goto(i, "leg3")
         /\ peer' = [peer EXCEPT ![i] = s.body.pk]
         /\ hour' = [hour EXCEPT ![i] = k.hour]
         /\ off' = [off EXCEPT ![i] = 3]
         /\ wake' = [wake EXCEPT ![i] = t]
    ELSE Exit(i, "BootstrapAuth") /\ UNCHANGED <<peer, hour, off, wake>>

GetLeg2(i) ==
  LET k == Leg12Key(2, i, HourOf(Candidate(i)), Candidate(i)) IN
  /\ Asking(i, "leg2")
  /\ \/ /\ \E s \in Readable(k) : Fetched(i, k, s) /\ Leg2Opened(i, s, k)
        /\ UNCHANGED <<deadline, bNow, last, bPost, psk>>
     \/ Missed(i, k) /\ UNCHANGED <<pc, pairVars, out>>
     \/ FetchFailed(i, k) /\ UNCHANGED <<loopVars, pairVars>>
  /\ UNCHANGED <<clockVars, diskVars>>

\* pollLeg asks for leg 3 under leg 2's service hour, whatever bucket it has come to.
GetLeg3(i) ==
  LET k == Leg3Key(i, peer[i], hour[i], Candidate(i)) IN
  /\ Asking(i, "leg3")
  /\ \/ /\ \E s \in Readable(k) :
             /\ Fetched(i, k, s)
             /\ IF OpensLeg3(s.body, i, peer[i], k)
                  THEN Goto(i, "confirm") /\ psk' = [psk EXCEPT ![i] = s.body.psk]
                  ELSE Exit(i, "BootstrapMITM") /\ UNCHANGED psk
        /\ UNCHANGED <<loopVars, hour, bPost, peer>>
     \/ Missed(i, k) /\ UNCHANGED <<pc, pairVars, out>>
     \/ FetchFailed(i, k) /\ UNCHANGED <<loopVars, pairVars>>
  /\ UNCHANGED <<clockVars, diskVars>>

-------------------------------------------------------------------------------
(* responderBootstrap                                                      *)

\* hFound: the hour of the bucket leg 1 was found in.
OpenHour(j, b) == HourOf(b)

GetLeg1(j) ==
  LET b == Candidate(j)
      k == Leg12Key(1, j, HourOf(b), b) IN
  /\ Asking(j, "leg1")
  /\ \/ /\ \E s \in Readable(k) :
             /\ Fetched(j, k, s)
             /\ IF OpensLeg12(s.body, [k EXCEPT !.hour = OpenHour(j, b)])
                  THEN /\ Goto(j, "post2")
                       /\ peer' = [peer EXCEPT ![j] = s.body.pk]
                       /\ psk' = [psk EXCEPT ![j] = j]
                  ELSE Exit(j, "BootstrapAuth") /\ UNCHANGED <<peer, psk>>
        /\ UNCHANGED <<loopVars, hour, bPost>>
     \/ Missed(j, k) /\ UNCHANGED <<pc, pairVars, out>>
     \/ FetchFailed(j, k) /\ UNCHANGED <<loopVars, pairVars>>
  /\ UNCHANGED <<clockVars, diskVars>>

\* A collision on leg 2 or 3 is reported as a timeout.
PostLeg2(j) ==
  LET k == Leg12Key(2, j, HourNow(j), Bucket(j))
      body == SealLeg12(j, k) IN
  /\ pc[j] = "post2"
  /\ \/ /\ Posted(j, k, body)
        /\ Goto(j, "post3")
        /\ hour' = [hour EXCEPT ![j] = k.hour]
        /\ bPost' = [bPost EXCEPT ![j] = k.bucket]
     \/ Conflict(j, k) /\ Exit(j, "BootstrapTimeout") /\ UNCHANGED <<hour, bPost>>
     \/ PostFailed(j, k, body) /\ UNCHANGED <<hour, bPost>>
  /\ UNCHANGED <<clockVars, loopVars, peer, psk, diskVars>>

\* Leg 3 goes to the hour and bucket of leg 2, which were read once for both.
PostLeg3(j) ==
  LET k == Leg3Key(peer[j], j, hour[j], bPost[j])
      body == SealLeg3(psk[j], peer[j], j, k) IN
  /\ pc[j] = "post3"
  /\ \/ Posted(j, k, body) /\ Goto(j, "confirm")
     \/ Conflict(j, k) /\ Exit(j, "BootstrapTimeout")
     \/ PostFailed(j, k, body)
  /\ UNCHANGED <<clockVars, loopVars, pairVars, diskVars>>

-------------------------------------------------------------------------------
(* FinishBootstrap: no deadline any more.                                  *)

\* The operator compares fingerprints and presses ENTER, or gives up.
Confirm(x) ==
  /\ pc[x] = "confirm"
  /\ Goto(x, "pb") \/ Exit(x, "Usage")
  /\ UNCHANGED <<clockVars, slots, loopVars, pairVars, diskVars>>

\* A P_B equal to P_A is asked for again, which changes nothing here (Inputs has the
\* readers and that loop).  A reader that fails ends the run.
ReadPB(x) ==
  /\ pc[x] = "pb"
  /\ Goto(x, "capsule") \/ Exit(x, "Internal")
  /\ UNCHANGED <<clockVars, slots, loopVars, pairVars, diskVars>>

WriteCapsule(x) ==
  /\ pc[x] = "capsule"
  /\ \/ Goto(x, "identity") /\ capsule' = [capsule EXCEPT ![x] = TRUE]
     \/ Exit(x, "Internal") /\ UNCHANGED capsule
  /\ UNCHANGED <<clockVars, slots, loopVars, pairVars, entry>>

\* Mutant: the state's PeerPK was never set.
MutPutIdentity(x) ==
  /\ pc[x] = "identity"
  /\ entry' = [entry EXCEPT ![x] = [own |-> x, peer |-> NoRun]]
  /\ Exit(x, "OK")
  /\ UNCHANGED <<clockVars, slots, loopVars, pairVars, capsule>>

\* The identity entry follows the capsule; if it fails the capsule stays.
PutIdentity(x) ==
  /\ pc[x] = "identity"
  /\ \/ /\ x \in setup.keyring
        /\ Exit(x, "OK") /\ entry' = [entry EXCEPT ![x] = [own |-> x, peer |-> peer[x]]]
     \/ x \in setup.keyring /\ Exit(x, "Internal") /\ UNCHANGED entry
     \/ x \notin setup.keyring /\ Exit(x, "OK") /\ UNCHANGED entry
  /\ UNCHANGED <<clockVars, slots, loopVars, pairVars, capsule>>

-------------------------------------------------------------------------------
\* A side that has something to do in the handshake and is not waiting for its next round.
Busy(x) ==
  \/ pc[x] \in {"post1", "post2", "post3"}
  \/ pc[x] \in Polling /\ (off[x] < 3 \/ wake[x] <= t)

Tick ==
  /\ t < setup.until
  /\ setup.prompt => \A x \in Runs : ~Busy(x)
  /\ t' = t + 1
  /\ UNCHANGED <<setup, slots, pc, loopVars, pairVars, diskVars, out>>

Handshakes(x) ==
  \/ Round(x) \/ Expire(x)
  \/ x \in Initiators /\ (PostLeg1(x) \/ GetLeg2(x) \/ GetLeg3(x))
  \/ x \in Responders /\ (GetLeg1(x) \/ PostLeg2(x) \/ PostLeg3(x))
Finish(x) == ReadPB(x) \/ WriteCapsule(x) \/ PutIdentity(x)

Next == Tick \/ \E x \in Runs : Start(x) \/ Handshakes(x) \/ Confirm(x) \/ Finish(x)

SafetySpec == Init /\ [][Next]_bvars

-------------------------------------------------------------------------------
(* Properties                                                              *)

\* What an initiator opens as leg 3 is a secret its own peer drew for it: whatever earlier
\* or concurrent runs with the same P_A left in the relay, psk, pair_id and both keys, and
\* so the printed fingerprint, are the same on the two sides; two runs that both exit OK
\* have written their capsules, and stored mirrored identity entries if they can store any.
Agreement ==
  \A i \in Initiators :
    psk[i] # NoRun =>
      /\ psk[i] = peer[i] /\ peer[peer[i]] = i
      /\ out[i] = "OK" /\ out[peer[i]] = "OK" =>
           /\ capsule[i] /\ capsule[peer[i]]
           /\ {i, peer[i]} \subseteq setup.keyring =>
                entry[i].peer = entry[peer[i]].own /\ entry[peer[i]].peer = entry[i].own

\* While nobody interferes, no run reports an attack: a leg found at an address always
\* opens, across the hour seam and with stale legs of other runs about, so BootstrapAuth
\* and BootstrapMITM keep their meaning.
NoFalseAlarm == \A x \in Runs : out[x] \notin {"BootstrapAuth", "BootstrapMITM"}

\* What makes the two inductive: what a leg in the relay says of the run that posted it,
LegBound(k, body, knownPeer) ==
  \/ \E i \in Initiators : k.root = <<1, PA[i]>> /\ body = SealLeg12(i, k)
  \/ \E j \in Responders : k.root = <<2, PA[j]>> /\ body = SealLeg12(j, k)
  \/ \E i \in Initiators, j \in Responders :
       k.root = Leg3Root(i, j) /\ body = SealLeg3(j, i, j, k) /\ knownPeer[j] = i
LegsBound == \A s \in slots : LegBound(s.key, s.body, peer)

\* what a run of each role knows at each point,
Knows(x) ==
  IF x \in Initiators
    THEN /\ pc[x] \notin {"leg1", "post2", "post3"}
         /\ pc[x] \in {"idle", "post1", "leg2", "leg3"} => psk[x] = NoRun
         /\ pc[x] = "leg3" => peer[x] \in Responders
         /\ psk[x] # NoRun => psk[x] = peer[x] /\ peer[x] \in Responders /\ peer[peer[x]] = x
    ELSE /\ pc[x] \notin {"post1", "leg2", "leg3"}
         /\ pc[x] \in {"idle", "leg1"} => peer[x] = NoRun
         /\ pc[x] \in {"post2", "post3"} => psk[x] = x /\ peer[x] \in Initiators

\* and what it has on disk.
Persisted(x) ==
  /\ pc[x] # "done" => out[x] = "running"
  /\ pc[x] = "identity" \/ out[x] = "OK" => capsule[x]
  /\ out[x] = "OK" /\ x \in setup.keyring => entry[x] = [own |-> x, peer |-> peer[x]]

Started(x) == deadline[x] - setup.timeout

\* An initiator and a responder with the same P_A whose --timeout windows overlap by Slack,
\* both prompt and with a working relay, hold the same secret when Slack ticks of that
\* overlap have passed, however long after the other each started: leg 1 is posted again
\* before it leaves the responder's window, and leg 3 is found under leg 2's hour.
\* (Time waits for a busy side, which therefore must always have a step to take.)
PairsInTime ==
  setup.prompt /\ ~setup.lossy =>
    /\ \A x \in Runs : Busy(x) => ENABLED Handshakes(x)
    /\ \A i \in Initiators, j \in Responders :
         /\ pc[i] # "idle" /\ pc[j] # "idle" /\ PA[i] = PA[j]
         /\ \A x, y \in {i, j} : Started(x) + Slack <= deadline[y] /\ t > Started(x) + Slack
         => psk[i] = j

\* SPEC_BOOTSTRAP 6.1: "On timeout, both sides exit with EDDBootstrapTimeout (exit 19); no
\* capsule is written."
TimeoutWritesNothing ==
  \A i \in Initiators, j \in Responders :
    out[i] = "BootstrapTimeout" /\ peer[j] = i => ~capsule[j]
===============================================================================
