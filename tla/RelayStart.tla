------------------------------ MODULE RelayStart ------------------------------
(***************************************************************************)
(* Starting and restarting the relay: run in cmd/deaddrop-relay/main.go    *)
(* from its first line to the listener, its signal goroutine, and the unix *)
(* socket that the incarnations of one supervised relay leave to each      *)
(* other.  What happens between listening and the end is RelayServer's     *)
(* subject and is one stage here.                                          *)
(***************************************************************************)
EXTENDS Integers, FiniteSets

CONSTANTS
  Procs,        \* the incarnations, numbered in the order they are started
  Confs,        \* the configurations the supervisor may start them with
  MinLen,       \* slot.MinDeploySecretLen = minWriteTokenLen
  NoValue       \* a source that is not given; an empty variable counts as such

\* The text of a secret, by what the parser tells apart.
Value == [edge : BOOLEAN,                      \* whitespace at either end
          prefix : {"hex", "b64", "none"},
          spaced : BOOLEAN,                    \* whitespace within
          digits : BOOLEAN,                    \* all other bytes are of the encoding
          len : Nat, id : Nat]                 \* length and identity of what it encodes

\* A descriptor or an argument may also give no text at all.
EmptyText ==
  [edge |-> FALSE, prefix |-> "none", spaced |-> FALSE, digits |-> TRUE, len |-> 0, id |-> 0]

\* Where a secret is given.  The deploy secret has no argv source.
Sources == {"fd", "canonical", "legacy", "argv"}

ASSUME StartConstants ==
  /\ Procs \subseteq Nat \ {0} /\ IsFiniteSet(Procs)
  /\ \A c \in Confs :
       /\ c.secret \in [Sources -> Value \cup {NoValue}] /\ c.secret["argv"] = NoValue
       /\ c.token \in [Sources -> Value \cup {NoValue}]
       /\ c.localOnly \in BOOLEAN /\ c.unix \in BOOLEAN /\ c.linux \in BOOLEAN
  /\ MinLen \in Nat \ {0}
  /\ NoValue \notin Value

VARIABLES
  conf,        \* the configuration
  pc,          \* the stage of each incarnation
  secret,      \* what each one runs with; NoValue until it is resolved
  token,
  locked,      \* pages locked and core dumps off
  sig,         \* a signal is in sigCh, or was taken from it
  path,        \* the socket file: NoSocket or whose it is and its mode
  overlapped   \* some incarnation was started while another was alive

svars == <<conf, pc, secret, token, locked, sig, path, overlapped>>

NoSocket == [owner |-> 0, mode |-> "none"]
Ended == {"exited", "failed", "notRemoved", "inUse", "killed"}
Live(p) == pc[p] \notin {"off"} \cup Ended

-------------------------------------------------------------------------------
(* Secrets                                                                 *)

Error == [len |-> -1, id |-> -1]

\* secretparse.Parse: empty text and the base64 decoder's own tolerance of line breaks
\* are refused like any other malformed text.
Parse(v) ==
  IF v = NoValue THEN Error
  ELSE IF v.edge \/ v.prefix = "none" \/ v.spaced \/ ~v.digits THEN Error
  ELSE [len |-> v.len, id |-> v.id]

\* Mutant: the deprecated name wins.
MutResolveRelaySecret(s) ==
  CASE s["fd"] # NoValue -> s["fd"]
    [] s["fd"] = NoValue /\ s["legacy"] # NoValue -> s["legacy"]
    [] s["fd"] = NoValue /\ s["legacy"] = NoValue /\ s["canonical"] # NoValue -> s["canonical"]
    [] OTHER -> s["argv"]

\* fd > canonical variable > legacy variable > argv
resolveRelaySecret(s) ==
  CASE s["fd"] # NoValue -> s["fd"]
    [] s["fd"] = NoValue /\ s["canonical"] # NoValue -> s["canonical"]
    [] s["fd"] = NoValue /\ s["canonical"] = NoValue /\ s["legacy"] # NoValue -> s["legacy"]
    [] OTHER -> s["argv"]

\* What a client started in the same environment resolves: descriptor, then the
\* canonical variable, and nothing else.
resolveDeploySecret(s) == IF s["fd"] # NoValue THEN s["fd"] ELSE s["canonical"]

-------------------------------------------------------------------------------
Init ==
  /\ conf \in Confs
  /\ pc = [p \in Procs |-> "off"]
  /\ secret = [p \in Procs |-> Error] /\ token = [p \in Procs |-> Error]
  /\ locked = [p \in Procs |-> FALSE]
  /\ sig = [p \in Procs |-> FALSE]
  /\ path = NoSocket
  /\ overlapped = FALSE

Goto(p, stage) == pc' = [pc EXCEPT ![p] = stage]

\* The supervisor, or an operator beside it, starts the next incarnation.
Exec(p) ==
  /\ pc[p] = "off" /\ \A q \in Procs : q < p => pc[q] # "off"
  /\ Goto(p, "secret")
  /\ overlapped' = (overlapped \/ \E q \in Procs : Live(q))
  /\ UNCHANGED <<conf, secret, token, locked, sig, path>>

\* fdread.ReadString has no deadline: until whoever holds the other end writes a line or
\* closes it, the relay waits here, and no signal interrupts it.
Reading(p) ==
  \/ pc[p] = "secret" /\ conf.secret["fd"] # NoValue
  \/ pc[p] = "token" /\ conf.token["fd"] # NoValue

\* The descriptor is not open, fails, or holds more than the cap.
ReadFailed(p) ==
  /\ Reading(p)
  /\ Goto(p, "failed")
  /\ UNCHANGED <<conf, secret, token, locked, sig, path, overlapped>>

ResolveSecret(p) ==
  /\ pc[p] = "secret"
  /\ LET s == Parse(resolveRelaySecret(conf.secret))
     IN  IF s.len >= MinLen
           THEN secret' = [secret EXCEPT ![p] = s] /\ Goto(p, "token")
           ELSE Goto(p, "failed") /\ UNCHANGED secret
  /\ UNCHANGED <<conf, token, locked, sig, path, overlapped>>

\* An absent token is accepted for --local-only; a malformed or short one never.
ResolveToken(p) ==
  /\ pc[p] = "token"
  /\ LET v == resolveRelaySecret(conf.token)
     IN  CASE v \in {NoValue, EmptyText} /\ conf.localOnly -> Goto(p, "harden") /\ UNCHANGED token
           [] v \notin {NoValue, EmptyText} /\ Parse(v).len >= MinLen ->
                token' = [token EXCEPT ![p] = Parse(v)] /\ Goto(p, "harden")
           [] OTHER -> Goto(p, "failed") /\ UNCHANGED token
  /\ UNCHANGED <<conf, secret, locked, sig, path, overlapped>>

\* Whether the two calls may succeed: on Linux the limits of the process decide, elsewhere
\* both are errors.
errNotLinux == {FALSE}
Mlockall == IF conf.linux THEN BOOLEAN ELSE errNotLinux
DisableCoreDump == IF conf.linux THEN BOOLEAN ELSE errNotLinux

\* A failure of either matters unless --local-only.  A relay on a TCP address has no socket
\* file to prepare.
Harden(p) ==
  /\ pc[p] = "harden"
  /\ \E m \in Mlockall, d \in DisableCoreDump :
       /\ locked' = [locked EXCEPT ![p] = (m /\ d)]
       /\ \/ ((m /\ d) \/ conf.localOnly) /\ Goto(p, IF conf.unix THEN "remove" ELSE "start")
          \/ ~(m /\ d) /\ ~conf.localOnly /\ Goto(p, "failed")
  /\ UNCHANGED <<conf, secret, token, sig, path, overlapped>>

\* Mutant: a stale socket is left where it is.
MutRemoveStale(p) ==
  /\ pc[p] = "remove"
  /\ Goto(p, "listen")
  /\ UNCHANGED <<conf, secret, token, locked, sig, path, overlapped>>

\* os.Remove, whoever's socket it is; only a missing file is not an error.  Any other one (a
\* file of another user in a sticky directory, a read-only one) ends the relay.
RemoveStale(p) ==
  /\ pc[p] = "remove"
  /\ \/ path' = NoSocket /\ Goto(p, "listen")
     \/ path # NoSocket /\ Goto(p, "notRemoved") /\ UNCHANGED path
  /\ UNCHANGED <<conf, secret, token, locked, sig, overlapped>>

\* bind fails on any existing file, and for a missing or read-only directory; the new
\* file has the mode the umask leaves.
Listen(p) ==
  /\ pc[p] = "listen"
  /\ \/ path = NoSocket /\ path' = [owner |-> p, mode |-> "umask"] /\ Goto(p, "chmod")
     \/ path = NoSocket /\ Goto(p, "failed") /\ UNCHANGED path
     \/ path # NoSocket /\ Goto(p, "inUse") /\ UNCHANGED path
  /\ UNCHANGED <<conf, secret, token, locked, sig, overlapped>>

\* Mutant: the mode is left to the umask.
MutChmod(p) ==
  /\ pc[p] = "chmod"
  /\ Goto(p, "start")
  /\ UNCHANGED <<conf, secret, token, locked, sig, path, overlapped>>

\* Chmod goes by name.  When it fails the deferred Close unlinks the name.
Chmod(p) ==
  /\ pc[p] = "chmod"
  /\ \/ path # NoSocket /\ path' = [path EXCEPT !.mode = "0666"] /\ Goto(p, "start")
     \/ path' = NoSocket /\ Goto(p, "failed")
  /\ UNCHANGED <<conf, secret, token, locked, sig, overlapped>>

\* Mutant: a signal that came before the goroutine is not kept.
MutStart(p) ==
  /\ pc[p] = "start"
  /\ Goto(p, "serving")
  /\ sig' = [sig EXCEPT ![p] = FALSE]
  /\ UNCHANGED <<conf, secret, token, locked, path, overlapped>>

\* The server, the collector, the goroutine on sigCh, and Serve or, on a TCP address,
\* ListenAndServe, which may fail to bind.
Start(p) ==
  /\ pc[p] = "start"
  /\ \/ Goto(p, "serving")
     \/ ~conf.unix /\ Goto(p, "failed")
  /\ UNCHANGED <<conf, secret, token, locked, sig, path, overlapped>>

\* SIGTERM, SIGINT or SIGHUP: main's channel holds one until the goroutine is there.
Signal(p) ==
  /\ Live(p) /\ ~sig[p]
  /\ sig' = [sig EXCEPT ![p] = TRUE]
  /\ UNCHANGED <<conf, pc, secret, token, locked, path, overlapped>>

\* srv.Shutdown closes the listener, which unlinks the path by name, and drains.
Shutdown(p) ==
  /\ pc[p] = "serving" /\ sig[p]
  /\ path' = NoSocket
  /\ Goto(p, "draining")
  /\ UNCHANGED <<conf, secret, token, locked, sig, overlapped>>

\* GC.Stop, ZeroizeAll; the deferred second Close unlinks nothing any more.
Exit(p) ==
  /\ pc[p] = "draining"
  /\ Goto(p, "exited")
  /\ UNCHANGED <<conf, secret, token, locked, sig, path, overlapped>>

\* SIGKILL, the OOM killer, a panic: the socket file stays.
Kill(p) ==
  /\ Live(p)
  /\ Goto(p, "killed")
  /\ UNCHANGED <<conf, secret, token, locked, sig, path, overlapped>>

Run(p) ==
  \/ ReadFailed(p) \/ ResolveSecret(p) \/ ResolveToken(p) \/ Harden(p) \/ RemoveStale(p)
  \/ Listen(p) \/ Chmod(p) \/ Start(p) \/ Shutdown(p) \/ Exit(p)

Next == \E p \in Procs : Exec(p) \/ Run(p) \/ Signal(p) \/ Kill(p)

\* A process that can run does; being started, signalled or killed is up to others, and so
\* is the end of a read from a descriptor.
Spec == Init /\ [][Next]_svars /\ \A p \in Procs : WF_svars(~Reading(p) /\ Run(p))

-------------------------------------------------------------------------------
(* Properties                                                              *)

Bytes == [len : Nat, id : Nat] \cup {Error}
StartTypeOK ==
  /\ conf \in Confs
  /\ pc \in [Procs -> {"off", "secret", "token", "harden", "remove", "listen", "chmod",
                       "start", "serving", "draining"} \cup Ended]
  /\ secret \in [Procs -> Bytes] /\ token \in [Procs -> Bytes]
  /\ locked \in [Procs -> BOOLEAN] /\ sig \in [Procs -> BOOLEAN]
  /\ path \in {NoSocket} \cup [owner : Procs, mode : {"umask", "0666"}]
  /\ overlapped \in BOOLEAN

\* As long as no two incarnations were alive together, whatever the earlier ones did and
\* however they ended, the one that serves does so at the path, with the mode that lets
\* the reverse proxy connect.
Reachable ==
  \A p \in Procs :
    pc[p] = "serving" /\ conf.unix /\ ~overlapped => path = [owner |-> p, mode |-> "0666"]

\* As long as no two incarnations were alive together: bind never finds a file at the path;
\* the file that is there is that of the relay running or of one that was killed, so a
\* shutdown, a drain that ran out of time and a failed start leave none behind; and the
\* start that gives up because it could not remove a socket file has an earlier relay
\* that was killed to blame for it.
OnlyKillsBlock ==
  ~overlapped =>
    \A p \in Procs :
      /\ pc[p] # "inUse"
      /\ path.owner = p => pc[p] \in {"chmod", "start", "serving", "killed"}
      /\ pc[p] = "notRemoved" => \E q \in Procs : q < p /\ pc[q] = "killed"

\* A client in the relay's environment that gets a deploy secret gets the relay's.
SameEnvironmentAgrees ==
  LET c == Parse(resolveDeploySecret(conf.secret))
  IN  \A p \in Procs : secret[p] # Error /\ c.len >= MinLen => secret[p] = c

\* A signal ends the relay whenever it arrives, before the goroutine that takes it exists
\* included, unless the relay waits for ever on a descriptor nobody writes to or closes:
\* there the signal stays in the channel.
SignalEnds ==
  \A p \in Procs : []<>~Reading(p) => (sig[p] ~> pc[p] \in Ended)

===============================================================================
