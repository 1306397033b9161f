------------------------------ MODULE RelayServer ------------------------------
(***************************************************************************)
(* The relay process around RelayStore: the HTTP handlers                  *)
(* (src/internal/relay/handler.go), the GC goroutine (gc.go) and the       *)
(* graceful shutdown of src/cmd/deaddrop-relay/main.go.                    *)
(*                                                                         *)
(* Each request is a goroutine of net/http with a program counter; what it *)
(* does between two of its own steps belongs to the others. Store calls    *)
(* are the actions of RelayStore, one critical section each.               *)
(*                                                                         *)
(* net/http is external: a connection is accepted only while the listener  *)
(* is open, Shutdown waits for accepted connections, and main's return     *)
(* kills every goroutine.                                                  *)
(***************************************************************************)
EXTENDS RelayStore

CONSTANTS
  Posts, Gets, Dels,  \* requests by method
  Body,               \* the ciphertext each POST uploads
  WriteToken,         \* whether a write token is configured
  MaxConcurrentGets,  \* capacity of getSem; 0 disables the gate
  SvcHour,            \* the hour whose service_id a key carries; -1: none
  HourLen,            \* clock ticks per hour
  QueryTTLs,          \* raw ?ttl= values; 0 stands for absent or malformed
  QueryReads,         \* raw ?reads= values, likewise
  DefaultTTL, DefaultMaxTTLSeconds, DefaultReads, DefaultMaxReads

Reqs == Posts \cup Gets \cup Dels

\* parseClampedDuration and parseClampedReads
ParseClamped(raw, default, max) ==
  IF raw <= 0 THEN default ELSE IF raw > max THEN max ELSE raw

ASSUME ServerConstants ==
  /\ NoEntry \notin Blobs \cup Keys
  /\ IsFiniteSet(Gets)
  /\ Body \in [Posts -> Blobs]
  /\ \A p, q \in Posts : Body[p] = Body[q] => p = q
  /\ Posts \cap Gets = {} /\ Posts \cap Dels = {} /\ Gets \cap Dels = {}
  /\ WriteToken \in BOOLEAN
  /\ MaxConcurrentGets \in Nat
  /\ SvcHour \in [Keys -> Int]
  /\ HourLen \in Nat \ {0}
  /\ \A q \in QueryTTLs : ParseClamped(q, DefaultTTL, DefaultMaxTTLSeconds) \in TTLs
  /\ \A q \in QueryReads : ParseClamped(q, DefaultReads, DefaultMaxReads) \in Reads

VARIABLES
  pc,      \* where each request's goroutine is
  at,      \* the key in each request's path, NoEntry until it is parsed
  status,  \* the status code its handler set, 0 before
  got,     \* the ciphertext a GET handler holds, NoEntry before and on a miss
  sem,     \* len(getSem)
  gc,      \* the GC goroutine: in its select, in Sweep, or returned
  main,    \* how far run() is
  why      \* what ended listen: still serving, a drained or timed-out Shutdown, an error

reqVars == <<pc, at, status, got>>
procVars == <<gc, main, why>>
srvVars == <<reqVars, sem, procVars>>
allVars == <<vars, srvVars>>

Codes == {0, 200, 201, 204, 401, 404, 409, 413, 503}
PCs == {"new", "conn", "body", "put", "take", "return", "flush", "over"}

ServerTypeOK ==
  /\ TypeOK
  /\ pc \in [Reqs -> PCs]
  /\ at \in [Reqs -> Keys \cup {NoEntry}]
  /\ status \in [Reqs -> Codes]
  /\ got \in [Gets -> Blobs \cup {NoEntry}]
  /\ sem \in Nat
  /\ gc \in {"select", "sweep", "done"}
  /\ main \in {"listen", "shutdown", "stopGC", "wipe", "wiped", "returned"}
  /\ why \in {"serving", "drained", "timeout", "error"}

ServerInit ==
  /\ Init
  /\ pc = [r \in Reqs |-> "new"]
  /\ at = [r \in Reqs |-> NoEntry]
  /\ status = [r \in Reqs |-> 0]
  /\ got = [g \in Gets |-> NoEntry]
  /\ sem = 0
  /\ gc = "select" /\ main = "listen" /\ why = "serving"

Running == main # "returned"

-------------------------------------------------------------------------------
(* Connections and responses, by net/http *)

Goto(r, from, to) == pc[r] = from /\ pc' = [pc EXCEPT ![r] = to]

\* The handler sets the status and returns.
Reply(r, from, code) ==
  /\ Goto(r, from, "flush")
  /\ status' = [status EXCEPT ![r] = code]

Connect(r) ==
  /\ main = "listen"
  /\ Goto(r, "new", "conn")
  /\ UNCHANGED <<vars, at, status, got, sem, procVars>>

\* The client goes away before it sends a request.
Hangup(r) ==
  /\ Running
  /\ Goto(r, "conn", "over")
  /\ UNCHANGED <<vars, at, status, got, sem, procVars>>

\* The response is sent, whether or not anybody is left to receive it.
Flush(r) ==
  /\ Running
  /\ Goto(r, "flush", "over")
  /\ UNCHANGED <<vars, at, status, got, sem, procVars>>

\* ServeHTTP on a malformed path or another method.
BadRequest(r) ==
  /\ Running
  /\ Reply(r, "conn", 404)
  /\ UNCHANGED <<vars, at, got, sem, procVars>>

-------------------------------------------------------------------------------
(* handlePost *)

Hour == now \div HourLen

\* The service_id of the current hour or, after the first hour, the previous one.
HourAccepted(k) == SvcHour[k] = Hour \/ (Hour > 0 /\ SvcHour[k] = Hour - 1)

\* Write token and hour tolerance.
PostCheck(r, k) ==
  /\ Running
  /\ at' = [at EXCEPT ![r] = k]
  /\ \/ WriteToken /\ Reply(r, "conn", 401)
     \/ ~HourAccepted(k) /\ Reply(r, "conn", 404)
     \/ HourAccepted(k) /\ Goto(r, "conn", "body") /\ UNCHANGED status
  /\ UNCHANGED <<vars, got, sem, procVars>>

\* The upload is refused, because the body is too large or empty (413), breaks
\* off (500) or comes with a malformed delete hash (400); or it is complete.
\* The three codes are told apart by no property; 413 stands for them.
PostBody(r) ==
  /\ Running
  /\ \/ Reply(r, "body", 413)
     \/ Goto(r, "body", "put") /\ UNCHANGED status
  /\ UNCHANGED <<vars, at, got, sem, procVars>>

MutPostPut(r) ==
  /\ Running
  /\ Reply(r, "put", 503)
  /\ PutFull(at[r], Body[r]) \/ PutOk(at[r], Body[r], DefaultTTL, DefaultReads, NoHash)
  /\ UNCHANGED <<at, got, sem, procVars>>
PostPut(r) ==
  /\ Running
  /\ \/ Reply(r, "put", 409) /\ PutExists(at[r])
     \/ Reply(r, "put", 503) /\ PutFull(at[r], Body[r])
     \/ /\ Reply(r, "put", 201)
        /\ \E rawTTL \in QueryTTLs, rawReads \in QueryReads, hash \in Hashes \cup {NoHash} :
             PutOk(at[r], Body[r], ParseClamped(rawTTL, DefaultTTL, DefaultMaxTTLSeconds),
                   ParseClamped(rawReads, DefaultReads, DefaultMaxReads), hash)
  /\ UNCHANGED <<at, got, sem, procVars>>

-------------------------------------------------------------------------------
(* handleGet *)

\* The non-blocking acquire of the gate.
MutGetGate(r, k) ==
  /\ Running
  /\ at' = [at EXCEPT ![r] = k]
  /\ \/ sem = MaxConcurrentGets /\ Reply(r, "conn", 503) /\ sem' = sem - 1
     \/ sem < MaxConcurrentGets /\ Goto(r, "conn", "take") /\ sem' = sem + 1 /\ UNCHANGED status
  /\ UNCHANGED <<vars, got, procVars>>
GetGate(r, k) ==
  /\ Running
  /\ at' = [at EXCEPT ![r] = k]
  /\ \/ /\ MaxConcurrentGets > 0 /\ sem = MaxConcurrentGets
        /\ Reply(r, "conn", 503)
        /\ UNCHANGED sem
     \/ /\ MaxConcurrentGets > 0 => sem < MaxConcurrentGets
        /\ Goto(r, "conn", "take")
        /\ sem' = IF MaxConcurrentGets > 0 THEN sem + 1 ELSE sem
        /\ UNCHANGED status
  /\ UNCHANGED <<vars, got, procVars>>

\* Take, and the write of the response.
MutGetTake(r) ==
  /\ Running
  /\ Goto(r, "take", "return")
  /\ Present(at[r])
  /\ taken' = [taken EXCEPT ![m[at[r]].blob] = @ + 1]
  /\ UNCHANGED <<m, bytes, now, mu, snap, todo, closing, granted, blanks, at, status, got, sem, procVars>>
\* Mutant: the entry is looked up under a lock of its own, and consumed under the next.
MutGetTakeLater(r) ==
  /\ Running
  /\ pc[r] = "take"
  /\ \/ /\ got[r] = NoEntry /\ mu = "free" /\ Present(at[r]) /\ ~Expired(at[r])
        /\ got' = [got EXCEPT ![r] = m[at[r]].blob]
        /\ UNCHANGED <<vars, pc, status>>
     \/ /\ got[r] # NoEntry
        /\ TakeHit(at[r]) \/ TakeMiss(at[r])
        /\ Goto(r, "take", "return")
        /\ status' = [status EXCEPT ![r] = 200]
        /\ UNCHANGED got
     \/ /\ got[r] = NoEntry
        /\ TakeMiss(at[r])
        /\ Goto(r, "take", "return")
        /\ status' = [status EXCEPT ![r] = 404]
        /\ UNCHANGED got
  /\ UNCHANGED <<at, sem, procVars>>
GetTake(r) ==
  /\ Running
  /\ Goto(r, "take", "return")
  /\ \/ /\ TakeMiss(at[r])
        /\ status' = [status EXCEPT ![r] = 404]
        /\ UNCHANGED got
     \/ /\ TakeHit(at[r])
        /\ status' = [status EXCEPT ![r] = 200]
        /\ got' = [got EXCEPT ![r] = m[at[r]].blob]
  /\ UNCHANGED <<at, sem, procVars>>

\* The deferred release of the gate.
GetReturn(r) ==
  /\ Running
  /\ Goto(r, "return", "flush")
  /\ sem' = IF MaxConcurrentGets > 0 THEN sem - 1 ELSE sem
  /\ UNCHANGED <<vars, at, status, got, procVars>>

-------------------------------------------------------------------------------
\* handleDelete: no or malformed token, a token that misses, or one that hits.
DeleteHandler(r, k) ==
  /\ Running
  /\ at' = [at EXCEPT ![r] = k]
  /\ \/ Reply(r, "conn", 404) /\ UNCHANGED vars
     \/ \E h \in Hashes : DeleteMiss(k, h) /\ Reply(r, "conn", 404)
     \/ \E h \in Hashes : DeleteHit(k, h) /\ Reply(r, "conn", 204)
  /\ UNCHANGED <<got, sem, procVars>>

-------------------------------------------------------------------------------
(* The GC goroutine *)

\* The ticker case of the select. A tick that is ready together with the closed
\* stop channel may still win.
GCTick ==
  /\ Running /\ gc = "select"
  /\ SweepBegin
  /\ gc' = "sweep"
  /\ UNCHANGED <<reqVars, sem, main, why>>

MutGCSweep ==
  /\ Running /\ gc = "sweep"
  /\ \/ \E k \in Keys : SweepVisit(k) /\ UNCHANGED gc
     \/ Unlock /\ gc' = "done"
  /\ UNCHANGED <<reqVars, sem, main, why>>
GCSweep ==
  /\ Running /\ gc = "sweep"
  /\ \/ \E k \in Keys : SweepVisit(k) /\ UNCHANGED gc
     \/ Unlock /\ gc' = "select"
  /\ UNCHANGED <<reqVars, sem, main, why>>

\* The stop case: the ticker stops and done is closed.
MutGCExit ==
  /\ gc = "select" /\ main = "shutdown"
  /\ gc' = "done"
  /\ UNCHANGED <<vars, reqVars, sem, main, why>>
GCExit ==
  /\ gc = "select" /\ main = "stopGC"
  /\ gc' = "done"
  /\ UNCHANGED <<vars, reqVars, sem, main, why>>

-------------------------------------------------------------------------------
(* run, from listen to return *)

MutQuiet(r) == pc[r] \in {"new", "conn", "body", "over"}
Quiet(r) == pc[r] \in {"new", "over"}

\* A signal: Shutdown closes the listener, listen returns ErrServerClosed and
\* run waits on shutdownDone.
Signal ==
  /\ main = "listen"
  /\ main' = "shutdown"
  /\ UNCHANGED <<vars, reqVars, sem, gc, why>>

\* listen fails with another error: nobody waits for the handlers.
ListenError ==
  /\ main = "listen"
  /\ main' = "stopGC" /\ why' = "error"
  /\ UNCHANGED <<vars, reqVars, sem, gc>>

\* Shutdown returns: every accepted connection is finished, or two seconds passed.
ShutdownDone ==
  /\ main = "shutdown"
  /\ \/ (\A r \in Reqs : Quiet(r)) /\ why' = "drained"
     \/ why' = "timeout"
  /\ main' = "stopGC"
  /\ UNCHANGED <<vars, reqVars, sem, gc>>

\* gc.Stop has returned; ZeroizeAll takes the mutex.
WipeBegin ==
  /\ main = "stopGC" /\ gc = "done"
  /\ ZeroizeAllBegin
  /\ main' = "wipe"
  /\ UNCHANGED <<reqVars, sem, gc, why>>

Wipe ==
  /\ main = "wipe"
  /\ \/ \E k \in Keys : ZeroizeAllVisit(k) /\ UNCHANGED main
     \/ Unlock /\ main' = "wiped"
  /\ UNCHANGED <<reqVars, sem, gc, why>>

\* run returns, and the process ends with it.
Return ==
  /\ main = "wiped"
  /\ main' = "returned"
  /\ UNCHANGED <<vars, reqVars, sem, gc, why>>

-------------------------------------------------------------------------------
Time == Running /\ Tick /\ UNCHANGED srvVars

Handlers ==
  \/ \E r \in Reqs : Connect(r) \/ Hangup(r) \/ Flush(r) \/ BadRequest(r)
  \/ \E r \in Posts : (\E k \in Keys : PostCheck(r, k)) \/ PostBody(r) \/ PostPut(r)
  \/ \E r \in Gets : (\E k \in Keys : GetGate(r, k)) \/ GetTake(r) \/ GetReturn(r)
  \/ \E r \in Dels, k \in Keys : DeleteHandler(r, k)

GCSteps == GCTick \/ GCSweep
MainSteps == ShutdownDone \/ WipeBegin \/ Wipe \/ Return

ServerNext ==
  \/ Handlers
  \/ GCSteps \/ GCExit
  \/ Signal \/ ListenError \/ MainSteps
  \/ Time

\* No fairness for requests, for signals or for the clock: clients may stall.
\* GCSteps: the ticker goes on firing. GCExit: strong, because a select with two
\* ready cases picks at random, and sweeps are shorter than the interval.
\* MainSteps: run is a straight line, and Shutdown returns after its timeout.
Fairness == WF_allVars(GCSteps) /\ SF_allVars(GCExit) /\ WF_allVars(MainSteps)

ServerSafetySpec == ServerInit /\ [][ServerNext]_allVars
ServerSpec == ServerSafetySpec /\ Fairness

-------------------------------------------------------------------------------
(* Properties *)

Holding == {g \in Gets : pc[g] \in {"take", "return"}}

\* getSem holds exactly the GETs between acquire and return, and no more than
\* its capacity: no interleaving leaks a permit or admits one too many.
GateExact ==
  MaxConcurrentGets > 0 => sem = Cardinality(Holding) /\ sem <= MaxConcurrentGets

\* Concurrent GETs for one slot never share a read: however their handlers interleave between
\* the gate and the response, no ciphertext leaves the relay in more responses than its POST
\* allowed (handleGet's one call of Take both reads and consumes).
ReadsShared == \A c \in Blobs : Cardinality({g \in Gets : got[g] = c}) <= granted[c]

\* A POST that was refused (401, 404, 409, 413, 500, 503, 400) or is still being
\* read is never delivered to anybody.
OnlyAccepted == \A g \in Gets, p \in Posts : got[g] = Body[p] => status[p] = 201

\* When Shutdown drained the handlers, the wipe is final: from the end of
\* ZeroizeAll to the end of the process the store holds nothing.
CleanExitWipes ==
  why = "drained" /\ main \in {"wiped", "returned"} => \A k \in Keys : ~Present(k)

\* SECURITY.md says that the relay zeroizes all live ciphertext on SIGTERM,
\* SIGINT and SIGHUP before it exits.
SignalWipes ==
  main = "returned" /\ why # "error" => \A k \in Keys : ~Present(k)

\* What makes the above inductive: where a request of each kind can be, and
\* where an accepted POST is;
RequestPhases ==
  /\ \A r \in Reqs : pc[r] \in {"body", "put", "take"} => at[r] \in Keys
  /\ \A g \in Gets : pc[g] \notin {"body", "put"}
  /\ \A r \in Reqs \ Gets : pc[r] \notin {"take", "return"}
  /\ \A p \in Posts : status[p] = 201 => pc[p] \in {"flush", "over"}

\* that the store holds only what a POST answered 201 brought;
Provenance ==
  \A k \in Keys, p \in Posts : Present(k) /\ m[k].blob = Body[p] => status[p] = 201

\* and who holds the mutex and which goroutines are left in each phase of run.
MainPhases ==
  /\ gc = "sweep" <=> mu = "Sweep"
  /\ main = "wipe" <=> mu = "ZeroizeAll"
  /\ main \in {"wipe", "wiped", "returned"} => gc = "done"
  /\ main \in {"listen", "shutdown"} => why = "serving"
  /\ why = "drained" => \A r \in Reqs : Quiet(r)

Phases == RequestPhases /\ Provenance /\ MainPhases

\* The handlers, the GC and main use the store only through its operations.
UsesStore == Spec

\* However long clients stall, a relay that stops listening ends: no wait of
\* run on the handlers, on gc.Stop or on the mutex blocks for ever.
ShutdownTerminates == main # "listen" ~> main = "returned"

InMap(c) == \E k \in Keys : Present(k) /\ m[k].blob = c
Overdue(c) == \E k \in Keys : Present(k) /\ m[k].blob = c /\ Expired(k)

\* A ciphertext past its deadline leaves the memory of a relay that runs on,
\* although no client ever asks for it.
OverdueSwept == \A c \in Blobs : Overdue(c) ~> ~InMap(c) \/ ~Running
===============================================================================
