-------------------------- MODULE RelayStartProofs --------------------------
(***************************************************************************)
(* Reachable, OnlyKillsBlock and SameEnvironmentAgrees of RelayStart,      *)
(* for any number of incarnations and any configuration.                   *)
(***************************************************************************)
EXTENDS RelayStart, TLAPS

\* What an incarnation runs with is what the configuration gives.
Resolved(p) == secret[p] # Error => secret[p] = Parse(resolveRelaySecret(conf.secret))

\* A relay on a TCP address has no socket file and no stages for one.
Sockets ==
  /\ ~conf.unix => path = NoSocket
  /\ \A p \in Procs : pc[p] \in {"remove", "listen", "chmod"} => conf.unix

\* Only one incarnation is alive.
Single == \A p, q \in Procs : Live(p) /\ Live(q) => p = q

\* Incarnations are started in order, and the one alive is the latest.
Ordered == \A p, q \in Procs : q < p /\ pc[p] # "off" => pc[q] # "off"
Latest == \A p, q \in Procs : Live(p) /\ p < q => pc[q] = "off"

\* The socket file is that of the one past its Listen, or of one that was killed there; it
\* is gone between RemoveStale and Listen.
Mine(p) ==
  /\ pc[p] # "inUse"
  /\ path.owner = p => pc[p] \in {"chmod", "start", "serving", "killed"}
  /\ pc[p] = "notRemoved" => \E q \in Procs : q < p /\ pc[q] = "killed"
  /\ pc[p] = "listen" => path = NoSocket
  /\ pc[p] = "chmod" => path.owner = p
  /\ pc[p] \in {"start", "serving"} /\ conf.unix => path = [owner |-> p, mode |-> "0666"]

RInv ==
  /\ StartTypeOK /\ Sockets /\ Ordered
  /\ \A p \in Procs : Resolved(p)
  /\ ~overlapped => Single /\ Latest /\ \A p \in Procs : Mine(p)

-----------------------------------------------------------------------------
(* Secrets                                                                 *)

\* What a configuration gives parses to bytes or is refused.
LEMMA Resolves ==
  ASSUME NEW c \in Confs
  PROVE  /\ resolveRelaySecret(c.secret) \in Value \cup {NoValue}
         /\ resolveRelaySecret(c.token) \in Value \cup {NoValue}
<1>1. ASSUME NEW s \in [Sources -> Value \cup {NoValue}]
      PROVE  resolveRelaySecret(s) \in Value \cup {NoValue}
  BY <1>1 DEF resolveRelaySecret, Sources
<1> QED
  BY <1>1, StartConstants

\* Parse gives bytes or the error, which is too short.
LEMMA Parses ==
  /\ \A v \in Value \cup {NoValue} : Parse(v) \in Bytes
  /\ Error \in Bytes /\ ~(Error.len >= MinLen)
  /\ \A b \in Bytes : b.len >= MinLen => b # Error
BY StartConstants DEF Parse, Bytes, Value, Error

\* The relay and a client in its environment resolve the same source, unless the client finds none.
LEMMA SameSource ==
  ASSUME NEW c \in Confs, Parse(resolveDeploySecret(c.secret)).len >= MinLen
  PROVE  resolveRelaySecret(c.secret) = resolveDeploySecret(c.secret)
<1>1. resolveDeploySecret(c.secret) # NoValue
  BY Parses DEF Parse
<1> QED
  BY <1>1 DEF resolveRelaySecret, resolveDeploySecret

-----------------------------------------------------------------------------
(* The invariant                                                           *)

\* Nothing is running and there is no socket file.
LEMMA InitRInv == Init => RInv
<1> SUFFICES ASSUME Init PROVE RInv
  OBVIOUS
<1>1. StartTypeOK /\ Sockets
  BY Parses DEF Init, StartTypeOK, Sockets, Ended
<1>2. \A p \in Procs : Resolved(p) /\ ~Live(p) /\ Mine(p)
  BY StartConstants DEF Init, Resolved, Live, Mine, NoSocket
<1>3. Ordered
  BY DEF Init, Ordered
<1> QED
  BY <1>1, <1>2, <1>3 DEF RInv, Single, Latest

\* What a step of a live incarnation has to be like: it touches its own stage only, and the
\* socket file as it finds it, as its own or to unlink it.
Frame(p) ==
  /\ conf' = conf /\ overlapped' = overlapped /\ Live(p) /\ pc'[p] # "off"
  /\ \A q \in Procs : q # p => pc'[q] = pc[q] /\ secret'[q] = secret[q]
  /\ ~overlapped => path' = path \/ path' = NoSocket \/ path'.owner = p

\* Then, with one incarnation alive, only its own part of the invariant is at stake.
LEMMA OneAlive ==
  ASSUME RInv, StartTypeOK', NEW p \in Procs, Frame(p), Sockets', Resolved(p)', ~overlapped => Mine(p)'
  PROVE  RInv'
<1>1. \A q \in Procs : Resolved(q)'
  BY DEF RInv, Frame, Resolved
<1>2. ASSUME ~overlapped PROVE Single' /\ Latest' /\ \A q \in Procs : Mine(q)'
  <2>1. Single /\ Latest /\ \A q \in Procs : Mine(q)
    BY <1>2 DEF RInv
  <2>2. \A q \in Procs : q # p => pc'[q] = pc[q] /\ ~Live(q)
    BY <2>1 DEF Frame, Single
  <2>3. Single'
    BY <2>2 DEF Single, Live
  <2>4. ASSUME NEW q \in Procs, q # p PROVE Mine(q)'
    <3>1. NoSocket.owner # q
      BY <2>4, StartConstants DEF NoSocket
    <3>2. path'.owner = q => path' = path
      BY <1>2, <2>4, <3>1 DEF Frame
    <3>3. pc'[q] = "notRemoved" => \E r \in Procs : r < q /\ pc'[r] = "killed"
      BY <2>1, <2>2, <2>4 DEF Mine, Frame, Live, Ended
    <3>4. pc'[q] = pc[q] /\ ~Live(q) /\ Mine(q)
      BY <2>1, <2>2, <2>4
    <3> QED
      BY <3>2, <3>3, <3>4 DEF Mine, Live, Ended
  <2>5. Latest'
    BY <2>1, <2>2, StartConstants DEF Latest, Live, Frame
  <2> QED
    BY <1>2, <2>3, <2>4, <2>5
<1>3. Ordered'
  BY DEF RInv, Frame, Ordered, Live
<1> QED
  BY <1>1, <1>2, <1>3 DEF RInv, Frame

\* The secret is resolved from the configuration, or the relay ends.
LEMMA ResolveSecretStep ==
  ASSUME RInv, NEW p \in Procs, ResolveSecret(p)
  PROVE  RInv'
<1>0. Parse(resolveRelaySecret(conf.secret)) \in Bytes
  BY Resolves, Parses DEF RInv, StartTypeOK
<1>1. StartTypeOK'
  BY <1>0 DEF RInv, StartTypeOK, ResolveSecret, Goto, Ended
<1>2. Frame(p) /\ Sockets'
  BY StartConstants DEF RInv, StartTypeOK, ResolveSecret, Goto, Ended, NoSocket, Frame, Sockets, Live
<1>3. Resolved(p)' /\ (~overlapped => Mine(p)')
  BY StartConstants DEF RInv, StartTypeOK, ResolveSecret, Goto, Ended, NoSocket, Resolved, Mine,
     Sockets, Live
<1> QED
  BY <1>1, <1>2, <1>3, OneAlive

\* So is the token.
LEMMA ResolveTokenStep ==
  ASSUME RInv, NEW p \in Procs, ResolveToken(p)
  PROVE  RInv'
<1>0. Parse(resolveRelaySecret(conf.token)) \in Bytes
  BY Resolves, Parses DEF RInv, StartTypeOK
<1>1. StartTypeOK'
  BY <1>0 DEF RInv, StartTypeOK, ResolveToken, Goto, Ended
<1>2. Frame(p) /\ Sockets'
  BY StartConstants DEF RInv, StartTypeOK, ResolveToken, Goto, Ended, NoSocket, Frame, Sockets, Live
<1>3. Resolved(p)' /\ (~overlapped => Mine(p)')
  BY StartConstants DEF RInv, StartTypeOK, ResolveToken, Goto, Ended, NoSocket, Resolved, Mine,
     Sockets, Live
<1> QED
  BY <1>1, <1>2, <1>3, OneAlive

\* A descriptor that cannot be read ends it.
LEMMA ReadFailedStep ==
  ASSUME RInv, NEW p \in Procs, ReadFailed(p)
  PROVE  RInv'
<1>1. StartTypeOK'
  BY DEF RInv, StartTypeOK, ReadFailed, Goto, Ended
<1>2. Frame(p) /\ Sockets'
  BY StartConstants DEF RInv, StartTypeOK, ReadFailed, Reading, Goto, Ended, NoSocket, Frame, Sockets,
     Live
<1>3. Resolved(p)' /\ (~overlapped => Mine(p)')
  BY StartConstants DEF RInv, StartTypeOK, ReadFailed, Reading, Goto, Ended, NoSocket, Resolved, Mine,
     Sockets, Live
<1> QED
  BY <1>1, <1>2, <1>3, OneAlive

\* A relay on a TCP address goes straight to Start.
LEMMA HardenStep ==
  ASSUME RInv, NEW p \in Procs, Harden(p)
  PROVE  RInv'
<1>1. StartTypeOK'
  <2>1. locked' \in [Procs -> BOOLEAN]
    BY Zenon DEF RInv, StartTypeOK, Harden
  <2> QED
    BY <2>1 DEF RInv, StartTypeOK, Harden, Goto, Ended, NoSocket
<1>2. Frame(p) /\ Sockets'
  BY StartConstants DEF RInv, StartTypeOK, Harden, Goto, Ended, NoSocket, Frame, Sockets, Live
<1>3. Resolved(p)' /\ (~overlapped => Mine(p)')
  BY StartConstants DEF RInv, StartTypeOK, Harden, Goto, Ended, NoSocket, Resolved, Mine, Sockets, Live
<1> QED
  BY <1>1, <1>2, <1>3, OneAlive

\* Whatever is there is removed before Listen.
LEMMA RemoveStaleStep ==
  ASSUME RInv, NEW p \in Procs, RemoveStale(p)
  PROVE  RInv'
<1>1. StartTypeOK'
  BY DEF RInv, StartTypeOK, RemoveStale, Goto, Ended, NoSocket
<1>2. Frame(p) /\ Sockets'
  BY StartConstants DEF RInv, StartTypeOK, RemoveStale, Goto, Ended, NoSocket, Frame, Sockets, Live
<1>3. Resolved(p)'
  BY DEF RInv, StartTypeOK, RemoveStale, Resolved
<1>4. ASSUME ~overlapped, path # NoSocket
      PROVE  \E q \in Procs : q < p /\ pc[q] = "killed"
  <2>1. PICK q \in Procs : path.owner = q
    BY <1>4 DEF RInv, StartTypeOK, NoSocket
  <2>2. q # p /\ pc[q] # "off" /\ (pc[q] = "killed" \/ Live(q))
    BY <1>4, <2>1 DEF RInv, Mine, RemoveStale, Live, Ended
  <2>3. Live(p)
    BY DEF RemoveStale, Live, Ended
  <2>4. pc[q] = "killed" /\ ~(p < q)
    BY <1>4, <2>2, <2>3 DEF RInv, Single, Latest
  <2> QED
    BY <2>2, <2>4, StartConstants
<1>5. CASE path' = NoSocket /\ Goto(p, "listen")
  <2>1. ~overlapped => Mine(p)'
    BY <1>5, StartConstants DEF RInv, StartTypeOK, Goto, NoSocket, Mine
  <2> QED
    BY <1>1, <1>2, <1>3, <2>1, OneAlive
<1>6. CASE path # NoSocket /\ Goto(p, "notRemoved") /\ UNCHANGED path
  <2>1. ASSUME ~overlapped PROVE Mine(p)'
    <3>1. PICK q \in Procs : q < p /\ pc[q] = "killed"
      BY <1>4, <1>6, <2>1
    <3>2. q # p /\ pc'[q] = "killed" /\ pc'[p] = "notRemoved"
      BY <1>6, <3>1, StartConstants DEF RInv, StartTypeOK, Goto, RemoveStale
    <3>3. path'.owner # p
      BY <1>6, <2>1 DEF RInv, Mine, RemoveStale
    <3> QED
      BY <3>1, <3>2, <3>3 DEF Mine
  <2> QED
    BY <1>1, <1>2, <1>3, <2>1, OneAlive
<1> QED
  BY <1>5, <1>6 DEF RemoveStale

\* The path being free, the socket is this incarnation's.
LEMMA ListenStep ==
  ASSUME RInv, NEW p \in Procs, Listen(p)
  PROVE  RInv'
<1>1. StartTypeOK'
  BY DEF RInv, StartTypeOK, Listen, Goto, Ended, NoSocket
<1>2. Frame(p) /\ Sockets'
  BY StartConstants DEF RInv, StartTypeOK, Listen, Goto, Ended, NoSocket, Frame, Sockets, Live
<1>3. Resolved(p)' /\ (~overlapped => Mine(p)')
  BY StartConstants DEF RInv, StartTypeOK, Listen, Goto, Ended, NoSocket, Resolved, Mine, Sockets, Live
<1> QED
  BY <1>1, <1>2, <1>3, OneAlive

\* It gets the mode the proxy needs, or is unlinked.
LEMMA ChmodStep ==
  ASSUME RInv, NEW p \in Procs, Chmod(p)
  PROVE  RInv'
<1>1. StartTypeOK'
  BY DEF RInv, StartTypeOK, Chmod, Goto, Ended, NoSocket
<1>2. Frame(p) /\ Sockets'
  BY StartConstants DEF RInv, StartTypeOK, Chmod, Goto, Ended, NoSocket, Frame, Sockets, Live, Mine
<1>3. Resolved(p)' /\ (~overlapped => Mine(p)')
  BY StartConstants DEF RInv, StartTypeOK, Chmod, Goto, Ended, NoSocket, Resolved, Mine, Sockets, Live
<1> QED
  BY <1>1, <1>2, <1>3, OneAlive

\* Serving starts only with the socket there.
LEMMA StartStep ==
  ASSUME RInv, NEW p \in Procs, Start(p)
  PROVE  RInv'
<1>1. StartTypeOK'
  BY DEF RInv, StartTypeOK, Start, Goto, Ended, NoSocket
<1>2. Frame(p) /\ Sockets'
  BY StartConstants DEF RInv, StartTypeOK, Start, Goto, Ended, NoSocket, Frame, Sockets, Live
<1>3. Resolved(p)' /\ (~overlapped => Mine(p)')
  BY StartConstants DEF RInv, StartTypeOK, Start, Goto, Ended, NoSocket, Resolved, Mine, Sockets, Live
<1> QED
  BY <1>1, <1>2, <1>3, OneAlive

\* Closing unlinks it.
LEMMA ShutdownStep ==
  ASSUME RInv, NEW p \in Procs, Shutdown(p)
  PROVE  RInv'
<1>1. StartTypeOK'
  BY DEF RInv, StartTypeOK, Shutdown, Goto, Ended, NoSocket
<1>2. Frame(p) /\ Sockets'
  BY StartConstants DEF RInv, StartTypeOK, Shutdown, Goto, Ended, NoSocket, Frame, Sockets, Live
<1>3. Resolved(p)' /\ (~overlapped => Mine(p)')
  BY StartConstants DEF RInv, StartTypeOK, Shutdown, Goto, Ended, NoSocket, Resolved, Mine, Sockets,
     Live
<1> QED
  BY <1>1, <1>2, <1>3, OneAlive

\* Then nothing is left behind.
LEMMA ExitStep ==
  ASSUME RInv, NEW p \in Procs, Exit(p)
  PROVE  RInv'
<1>1. StartTypeOK'
  BY DEF RInv, StartTypeOK, Exit, Goto, Ended, NoSocket
<1>2. Frame(p) /\ Sockets'
  BY StartConstants DEF RInv, StartTypeOK, Exit, Goto, Ended, NoSocket, Frame, Sockets, Live
<1>3. Resolved(p)' /\ (~overlapped => Mine(p)')
  BY StartConstants DEF RInv, StartTypeOK, Exit, Goto, Ended, NoSocket, Resolved, Mine, Sockets, Live
<1> QED
  BY <1>1, <1>2, <1>3, OneAlive

\* A signal waits.
LEMMA SignalStep ==
  ASSUME RInv, NEW p \in Procs, Signal(p)
  PROVE  RInv'
<1>1. StartTypeOK'
  BY DEF RInv, StartTypeOK, Signal, Ended, NoSocket
<1>2. Frame(p) /\ Sockets'
  BY StartConstants DEF RInv, StartTypeOK, Signal, Ended, NoSocket, Frame, Sockets, Live
<1>3. Resolved(p)' /\ (~overlapped => Mine(p)')
  BY StartConstants DEF RInv, StartTypeOK, Signal, Ended, NoSocket, Resolved, Mine, Sockets, Live
<1> QED
  BY <1>1, <1>2, <1>3, OneAlive

\* A relay that is killed leaves its socket file.
LEMMA KillStep ==
  ASSUME RInv, NEW p \in Procs, Kill(p)
  PROVE  RInv'
<1>1. StartTypeOK'
  BY DEF RInv, StartTypeOK, Kill, Goto, Ended, NoSocket
<1>2. Frame(p) /\ Sockets'
  BY StartConstants DEF RInv, StartTypeOK, Kill, Goto, Ended, NoSocket, Frame, Sockets, Live
<1>3. Resolved(p)' /\ (~overlapped => Mine(p)')
  BY StartConstants DEF RInv, StartTypeOK, Kill, Goto, Ended, NoSocket, Resolved, Mine, Sockets, Live
<1> QED
  BY <1>1, <1>2, <1>3, OneAlive

\* An incarnation started beside another is an overlap, for good.
LEMMA ExecStep ==
  ASSUME RInv, NEW p \in Procs, Exec(p)
  PROVE  RInv'
<1>1. StartTypeOK' /\ Sockets' /\ \A q \in Procs : Resolved(q)'
  BY DEF RInv, StartTypeOK, Exec, Goto, Sockets, Resolved
<1>2. ASSUME ~overlapped' PROVE Single' /\ Latest' /\ \A q \in Procs : Mine(q)'
  <2>1. ~overlapped /\ \A q \in Procs : ~Live(q)
    BY <1>2 DEF Exec
  <2>2. \A q \in Procs : q # p => pc'[q] = pc[q]
    BY DEF RInv, StartTypeOK, Exec, Goto
  <2>3. Single'
    BY <2>1, <2>2 DEF Single, Live
  <2>4. ASSUME NEW q \in Procs PROVE Mine(q)'
    <3>1. pc'[p] = "secret" /\ pc[p] = "off" /\ path' = path /\ conf' = conf
      BY DEF RInv, StartTypeOK, Exec, Goto
    <3>2. Mine(q) /\ Mine(p)
      BY <2>1 DEF RInv
    <3>3. CASE q = p
      BY <3>1, <3>2, <3>3 DEF Mine
    <3>4. CASE q # p
      <4>1. pc'[q] = pc[q]
        BY <2>2, <3>4
      <4>2. pc[q] = "notRemoved" => \E r \in Procs : r < q /\ pc'[r] = "killed"
        BY <2>2, <3>1, <3>2 DEF Mine
      <4> QED
        BY <3>1, <3>2, <4>1, <4>2 DEF Mine
    <3> QED
      BY <3>3, <3>4
  <2>5. Latest'
    <3>1. \A q \in Procs : p < q => pc[q] = "off"
      BY DEF RInv, Ordered, Exec
    <3>2. \A q \in Procs : p < q => q # p
      BY StartConstants
    <3> QED
      BY <2>1, <2>2, <3>1, <3>2 DEF Latest, Live
  <2> QED
    BY <2>3, <2>4, <2>5
<1>3. Ordered'
  BY StartConstants DEF RInv, StartTypeOK, Exec, Goto, Ordered
<1> QED
  BY <1>1, <1>2, <1>3 DEF RInv

\* Every step keeps the invariant.
LEMMA NextRInv == RInv /\ [Next]_svars => RInv'
<1> SUFFICES ASSUME RInv, [Next]_svars PROVE RInv'
  OBVIOUS
<1>1. ASSUME NEW p \in Procs, Run(p) PROVE RInv'
  BY <1>1, ReadFailedStep, ResolveSecretStep, ResolveTokenStep, HardenStep, RemoveStaleStep,
     ListenStep, ChmodStep, StartStep, ShutdownStep, ExitStep DEF Run
<1>2. CASE UNCHANGED svars
  BY <1>2 DEF svars, RInv, StartTypeOK, Sockets, Ordered, Resolved, Single, Latest, Live, Mine
<1> QED
  BY <1>1, <1>2, ExecStep, SignalStep, KillStep DEF Next

\* The inductive invariant holds throughout.
THEOREM StartInvariant == Spec => []RInv
BY InitRInv, NextRInv, PTL DEF Spec

\* Without two incarnations alive together, the one that serves does so at the path, with the mode
\* the reverse proxy needs, however the earlier ones ended (run in cmd/deaddrop-relay/main.go).
THEOREM StartReachable == Spec => []Reachable
<1>1. RInv => Reachable
  BY DEF RInv, Mine, Reachable
<1> QED
  BY <1>1, StartInvariant, PTL

\* Without two incarnations alive together, bind never finds a socket file, only a killed relay
\* leaves one, and a start that cannot remove one comes after a kill (os.Remove, net.Listen and the
\* closing of the listener in run).
THEOREM StartOnlyKillsBlock == Spec => []OnlyKillsBlock
<1>1. RInv => OnlyKillsBlock
  BY DEF RInv, Mine, OnlyKillsBlock
<1> QED
  BY <1>1, StartInvariant, PTL

\* A client that gets a deploy secret from the relay's environment gets the relay's
\* (resolveRelaySecret and resolveDeploySecret).
THEOREM StartSameEnvironmentAgrees == Spec => []SameEnvironmentAgrees
<1>1. RInv => SameEnvironmentAgrees
  BY SameSource DEF RInv, StartTypeOK, Resolved, SameEnvironmentAgrees
<1> QED
  BY <1>1, StartInvariant, PTL

=============================================================================
