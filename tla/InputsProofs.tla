----------------------------- MODULE InputsProofs -----------------------------
(***************************************************************************)
(* PBShielded and SharedFDRefused of Inputs, for any input, any words      *)
(* typed and any interleaving with the finalizers.                         *)
(***************************************************************************)
EXTENDS Inputs, TLAPS

Kinds == {"none", "input", "stdin", "secret", "conn", "capsule"}

\* Where a bootstrap, and any command, can be.
Bootstrapping == {"secret", "secretRead", "first", "firstRead", "enter", "pb", "pbRead", "write", "writing"}
Labels == Bootstrapping \cup {"stat", "second", "secondRead", "done"}

\* The types the argument uses.
Typed ==
  /\ conf \in Conf /\ pc \in Labels /\ tries \in 0 .. MaxTries
  /\ open \in [FDs -> Kinds] /\ garbage \in [FDs -> 0 .. MaxDropped]
  /\ pbFD \in FDs \cup {NoFD}
  /\ pc # "done" => out = "running"
  /\ pc = "secret" => conf.secret # "none"

\* The secret's descriptor is closed once the secret is read, and nothing reopens it.
Shared ==
  conf.secret = "same" =>
    /\ pass = NoPass /\ pc \in {"secret", "secretRead", "first", "done"}
    /\ pc \in {"secretRead", "first"} => open[conf.fd] = "none"

\* The highest descriptor in use, by how far a bootstrap has come.
Top(l) ==
  CASE l \in {"secret", "secretRead"} -> 2
    [] l \in {"first", "firstRead"} -> 3
    [] l \in {"enter", "pb", "pbRead", "write"} -> 4
    [] OTHER -> 5
Room == \A n \in FDs : n > Top(pc) => open[n] = "none"

\* Up to the first P_B a file dropped is that of a descriptor still open for the input, and
\* the only one of it.
Tidy == \A n \in FDs : garbage[n] > 0 => garbage[n] = 1 /\ open[n] = "input"

\* P_A's descriptor until P_A is read, the duplicate until P_B is, the capsule's while it is written.
Shield ==
  /\ pc \in {"secret", "secretRead", "first"} => \A n \in FDs : garbage[n] = 0
  /\ pc \in {"secret", "secretRead"} => pbFD = NoFD
  /\ pc = "secret" /\ conf.fd # NoFD => open[conf.fd] = "input"
  /\ pc = "secretRead" /\ conf.fd # NoFD => open[conf.fd] \in {"none", "input"}
  /\ pc = "first" /\ conf.fd # NoFD => open[conf.fd] = "input" /\ pbFD # conf.fd
  /\ pc \in {"first", "firstRead", "enter", "pb"} /\ tries = 0 /\ pbFD # NoFD =>
       open[pbFD] = "input" /\ garbage[pbFD] = 0
  /\ pc = "pbRead" => tries = 1
  /\ pc = "writing" => wfd \in FDs /\ open[wfd] = "capsule" /\ garbage[wfd] = 0

Guarded ==
  conf.cmd = "bootstrap" =>
    /\ pc \in Bootstrapping \cup {"done"}
    /\ pc \in {"secret", "secretRead", "first", "firstRead", "enter"} => tries = 0
    /\ pc # "done" /\ tries <= 1 => Room /\ Tidy /\ Shield
    /\ tries <= 1 => out \notin {"PBFailed", "WriteFailed"}

FInv == Typed /\ Shared /\ Guarded
-------------------------------------------------------------------------------
(* Descriptors                                                             *)

\* The six descriptors, one by one.
LEMMA SixFDs == FDs = {0, 1, 2, 3, 4, 5} /\ NoFD \notin FDs /\ FDs \subseteq Nat
BY DEF FDs, NoFD

\* What an invocation can be.
LEMMA ConfIs ==
  ASSUME NEW c \in Conf
  PROVE  /\ c.fd \in {NoFD, 0, 1} /\ c.fd \in FDs \cup {NoFD} /\ (c.secret = "same" => c.fd # NoFD)
         /\ c.cmd \in {"keygen", "open", "bootstrap"} /\ c.secret \in {"none", "env", "own", "same"}
         /\ c.cmd = "bootstrap" => c.secret # "none"
         /\ c.cmd = "keygen" => c.secret = "none"
BY SixFDs DEF Conf

\* While there is room, the descriptor the kernel hands out is one that was closed.
LEMMA LowestFree ==
  ASSUME open \in [FDs -> Kinds], NEW k \in 0 .. 4, \A n \in FDs : n > k => open[n] = "none"
  PROVE  Lowest \in FDs /\ open[Lowest] = "none" /\ Lowest <= k + 1
<1> DEFINE P(n) == open[n] = "none" /\ \A m \in FDs : m < n => open[m] # "none"
<1>1. open[5] = "none"
  BY SixFDs
<1>2. \E n \in FDs : P(n)
  BY <1>1, SixFDs
<1>3. Lowest \in FDs /\ P(Lowest)
  BY <1>2 DEF Lowest
<1> HIDE DEF Lowest
<1>4. k + 1 \in FDs /\ open[k + 1] = "none"
  BY DEF FDs
<1> QED
  BY <1>3, <1>4, SixFDs

\* Closing a descriptor empties its slot and touches no other.
LEMMA Closing ==
  ASSUME Typed, NEW n \in FDs
  PROVE  /\ Closed(n) \in [FDs -> Kinds] /\ Closed(n)[n] = "none"
         /\ \A m \in FDs : m # n => Closed(n)[m] = open[m]
BY DEF Typed, Closed, Kinds

\* Dropping an os.File over a descriptor leaves the finalizers of the others alone.
LEMMA Dropping ==
  ASSUME Typed, NEW n \in FDs
  PROVE  /\ Dropped(n) \in [FDs -> 0 .. MaxDropped] /\ (garbage[n] = 0 => Dropped(n)[n] = 1)
         /\ \A m \in FDs : m # n => Dropped(n)[m] = garbage[m]
BY DEF Typed, Dropped, MaxDropped

\* Opening a file takes the lowest free descriptor and touches no other.
LEMMA Opening ==
  ASSUME Typed, NEW o \in Kinds
  PROVE  /\ Opened(o) \in [FDs -> Kinds] /\ (Lowest \in FDs => Opened(o)[Lowest] = o)
         /\ \A m \in FDs : m # Lowest => Opened(o)[m] = open[m]
BY Zenon DEF Typed, Opened

-------------------------------------------------------------------------------
(* The steps                                                               *)

\* No command starts with a file dropped, and the first three descriptors are all it has.
LEMMA InitFInv == Init => FInv
<1> SUFFICES ASSUME Init PROVE FInv
  OBVIOUS
<1>1. /\ conf \in Conf /\ conf.fd \in {NoFD, 0, 1} /\ conf.cmd \in {"keygen", "open", "bootstrap"}
      /\ conf.secret \in {"none", "env", "own", "same"} /\ (conf.cmd = "bootstrap" => conf.secret # "none")
      /\ conf.cmd = "keygen" => conf.secret = "none"
  BY Zenon, InputsConstants, ConfIs DEF Init
<1>2. /\ open \in [FDs -> Kinds]
      /\ \A n \in FDs : (n > 2 => open[n] = "none") /\ (n = conf.fd => open[n] = "input")
  <2>1. open = InitOpen(conf)
    BY DEF Init
  <2>2. ASSUME NEW n \in FDs
        PROVE  /\ open[n] \in Kinds /\ (n = conf.fd => open[n] = "input")
               /\ n > 2 => open[n] = "none"
    <3>2. n = conf.fd => n \in {0, 1}
      BY <1>1, SixFDs
    <3>1. open[n] = IF n = conf.fd THEN "input" ELSE IF n = 0 THEN "stdin"
                    ELSE IF n = 2 /\ conf.secret = "own" THEN "secret" ELSE "none"
      BY <2>1, <3>2 DEF InitOpen, secretFD
    <3> QED
      <4>1. open[n] \in Kinds /\ (n = conf.fd => open[n] = "input")
        BY Zenon, <3>1 DEF Kinds
      <4>2. n > 2 => n # conf.fd /\ n # 0 /\ n # 2
        BY <3>2, SixFDs
      <4> QED
        BY Zenon, <3>1, <4>1, <4>2
  <2>3. open \in [FDs -> Kinds]
    BY <2>1, <2>2 DEF InitOpen
  <2> QED
    BY <2>2, <2>3
<1>3. pc \in {"stat", "secret", "secretRead"} /\ (pc = "secret" => conf.secret # "none")
      /\ (conf.cmd = "bootstrap" \/ conf.secret = "same" => pc = "secret")
  BY <1>1 DEF Init
<1>4. Typed
  BY <1>1, <1>2, <1>3 DEF Init, Typed, Labels, Bootstrapping, MaxDropped, MaxTries
<1>5. Shared
  BY <1>3 DEF Init, Shared
<1>6. ASSUME conf.cmd = "bootstrap" PROVE Room /\ Tidy /\ Shield
  BY <1>1, <1>2, <1>3, <1>6, SixFDs DEF Init, Room, Top, Tidy, Shield
<1> QED
  BY <1>3, <1>4, <1>5, <1>6 DEF FInv, Guarded, Bootstrapping, Init

\* The runtime closes a dropped file, which is P_A's, or the duplicate's once P_B is read.
LEMMA FinalizeFInv == ASSUME FInv, NEW n \in FDs, Finalize(n) PROVE FInv'
<1>0. /\ UNCHANGED <<conf, pbFD, wfd, pc, pass, tries, out>> /\ garbage[n] > 0 /\ open' = Closed(n)
      /\ garbage' = [garbage EXCEPT ![n] = @ - 1] /\ Typed
  BY Zenon DEF Finalize, FInv
<1>1. /\ open' \in [FDs -> Kinds] /\ open'[n] = "none" /\ \A m \in FDs \ {n} : open'[m] = open[m]
  BY Zenon, <1>0, Closing
<1>2. /\ garbage' \in [FDs -> 0 .. MaxDropped] /\ garbage'[n] = garbage[n] - 1
      /\ \A m \in FDs \ {n} : garbage'[m] = garbage[m]
  BY <1>0 DEF Typed, MaxDropped
<1>3. Typed'
  BY Zenon, <1>0, <1>1, <1>2 DEF Typed
<1>4. Shared'
  BY Zenon, <1>0, <1>1, ConfIs DEF Shared, FInv, Typed
<1>5. ASSUME conf.cmd = "bootstrap", pc # "done", tries <= 1 PROVE Room' /\ Tidy' /\ Shield'
  <2>1. Room /\ Tidy /\ Shield
    BY Zenon, <1>5 DEF FInv, Guarded
  <2>2. garbage[n] = 1 /\ garbage'[n] = 0 /\ garbage[n] # 0
    BY <1>0, <1>2, <2>1 DEF Tidy
  <2>3. Room'
    BY Zenon, <1>0, <1>1, <2>1 DEF Room
  <2>4. Tidy'
    BY <1>1, <1>2, <2>1, <2>2 DEF Tidy
  <2>5. Shield'
    BY Zenon, <1>0, <1>1, <1>2, <2>1, <2>2 DEF Shield, Typed
  <2> QED
    BY <2>3, <2>4, <2>5
<1>6. Guarded'
  BY Zenon, <1>0, <1>5 DEF FInv, Guarded
<1> QED
  BY Zenon, <1>3, <1>4, <1>6 DEF FInv

\* What a reader does: it ends the command, failing at a descriptor only if that is not the
\* input, or goes on; it drops a file of the descriptor or none.
LEMMA Reading ==
  ASSUME NEW n \in FDs \cup {NoFD}, NEW next, NEW failed, ReadPassphrase(n, next, failed)
  PROVE  /\ \/ /\ pc' = "done" /\ pass' = pass
               /\ out' \in {"Usage", "ReadError"} \/ (out' = failed /\ n # NoFD /\ open[n] # "input")
            \/ pc' = next /\ out' = out /\ (n # NoFD => open[n] = "input")
         /\ garbage' = garbage \/ (n # NoFD /\ garbage' = Dropped(n))
BY Zenon DEF ReadPassphrase, FromFD, FromEnv, TypeIn, End

\* The frame of a step of the command itself: it goes on or ends.
LEMMA Moves ==
  ASSUME FInv, conf' = conf, pc # "done", pc' \in Labels \ {"secret"}, pc' = "done" \/ out' = out,
         tries' \in 0 .. MaxTries, open' \in [FDs -> Kinds], garbage' \in [FDs -> 0 .. MaxDropped],
         pbFD' \in FDs \cup {NoFD}, Shared',
         conf.cmd = "bootstrap" =>
           /\ pc' \in Bootstrapping \cup {"done"}
           /\ pc' \in {"secretRead", "first", "firstRead", "enter"} => tries' = 0
           /\ tries' <= 1 => out' \notin {"PBFailed", "WriteFailed"}
           /\ tries' <= 1 /\ pc' # "done" => Room' /\ Tidy' /\ Shield'
  PROVE  FInv'
<1>1. Typed'
  BY Zenon DEF FInv, Typed
<1> QED
  BY Zenon, <1>1 DEF FInv, Guarded

\* What a bootstrap that has not asked for P_B yet can rely on.
LEMMA Early ==
  ASSUME FInv, conf.cmd = "bootstrap", pc \in {"secret", "secretRead", "first", "firstRead", "enter"}
  PROVE  Room /\ Tidy /\ Shield /\ tries = 0 /\ 0 <= 1
<1>1. tries = 0 /\ 0 <= 1
  BY DEF FInv, Guarded
<1> QED
  BY Zenon, <1>1 DEF FInv, Guarded

\* Reading the secret closes its descriptor, which in a bootstrap that goes on is not P_A's.
LEMMA ReadSecretFInv == ASSUME FInv, ReadSecret PROVE FInv'
<1>0. /\ pc = "secret" /\ UNCHANGED <<conf, garbage, pbFD, wfd, pass, tries>> /\ Typed /\ Shared
      /\ (pc' = "done" /\ out' = "Usage") \/ (pc' = "secretRead" /\ out' = out)
  BY Zenon, ConfIs DEF ReadSecret, End, FInv, Typed
<1>1. \/ conf.secret = "same" /\ open' = Closed(conf.fd)
      \/ conf.secret = "own" /\ open' = Closed(secretFD)
      \/ conf.secret = "env" /\ open' = open
  BY Zenon, ConfIs DEF ReadSecret, FInv, Typed
<1>2. /\ conf.fd \in FDs \cup {NoFD} /\ secretFD \in FDs /\ conf.fd # secretFD
      /\ conf.secret = "same" => conf.fd # NoFD
  BY <1>0, ConfIs, SixFDs DEF Typed, secretFD, NoFD
<1>3. /\ open' \in [FDs -> Kinds] /\ (conf.secret = "same" => open'[conf.fd] = "none")
      /\ \A n \in FDs : open'[n] \in {"none", open[n]}
  <2>1. ASSUME NEW n \in FDs, open' = Closed(n)
        PROVE  open' \in [FDs -> Kinds] /\ open'[n] = "none" /\ \A m \in FDs : open'[m] \in {"none", open[m]}
    BY Zenon, <1>0, <2>1, Closing
  <2> QED
    BY Zenon, <1>0, <1>1, <1>2, <2>1 DEF Typed
<1>4. Shared'
  BY Zenon, <1>0, <1>3 DEF Shared
<1>5. ASSUME conf.cmd = "bootstrap", pc' # "done" PROVE Room' /\ Tidy' /\ Shield'
  <2>1. Room /\ Tidy /\ Shield /\ tries = 0
    BY Zenon, <1>0, <1>5, Early
  <2>2. Top(pc') = Top(pc) /\ pc' = "secretRead"
    BY Zenon, <1>0, <1>5 DEF Top
  <2>3. Room'
    BY Zenon, <1>3, <2>1, <2>2 DEF Room
  <2>4. Shield'
    BY Zenon, <1>0, <1>2, <1>3, <2>1, <2>2 DEF Shield
  <2> QED
    BY <2>2, <2>3, <2>4 DEF Shield, Tidy
<1>6. conf.cmd = "bootstrap" => tries = 0
  BY Zenon, <1>0, Early
<1>7. /\ pc' \in Labels \ {"secret"} /\ pc' \in Bootstrapping \cup {"done"}
      /\ out' = "Usage" \/ out' = "running"
  BY Zenon, <1>0 DEF Labels, Bootstrapping, Typed
<1> QED
  BY Zenon, <1>0, <1>3, <1>4, <1>5, <1>6, <1>7, Moves DEF Typed

\* What is only done without a P_B, or without a descriptor in common.
LEMMA PlainFInv ==
  ASSUME FInv, StatOut \/ ReadCapsule \/ ReadSecond \/ Compare PROVE FInv'
<1>0. /\ UNCHANGED <<conf, open, pbFD, wfd, tries>> /\ Typed /\ conf.cmd # "bootstrap"
      /\ (pc' = "done" \/ (pc' \in {"first", "secondRead", "write"} /\ out' = out)) /\ pc # "done"
  <2>1. CASE StatOut \/ ReadCapsule \/ Compare
    BY Zenon, <2>1 DEF StatOut, ReadCapsule, Compare, End, FInv, Guarded, Bootstrapping
  <2>2. CASE ReadSecond
    BY Zenon, <2>2, Reading, ConfIs DEF ReadSecond, FInv, Typed, Guarded, Bootstrapping
  <2> QED
    BY Zenon, <2>1, <2>2
<1>1. garbage' \in [FDs -> 0 .. MaxDropped]
  <2>1. CASE StatOut \/ ReadCapsule \/ Compare
    BY Zenon, <1>0, <2>1 DEF StatOut, ReadCapsule, Compare, Typed
  <2>2. CASE ReadSecond
    <3>1. conf.fd \in FDs \cup {NoFD} /\ garbage \in [FDs -> 0 .. MaxDropped]
      BY Zenon, <1>0, ConfIs DEF Typed
    <3>2. garbage' = garbage \/ (conf.fd # NoFD /\ garbage' = Dropped(conf.fd))
      BY Zenon, <2>2, <3>1, Reading DEF ReadSecond
    <3> QED
      BY Zenon, <1>0, <3>1, <3>2, Dropping
  <2> QED
    BY Zenon, <2>1, <2>2
<1>2. Shared'
  BY Zenon, <1>0 DEF StatOut, ReadCapsule, ReadSecond, Compare, End, Shared, FInv
<1> QED
  BY Zenon, <1>0, <1>1, <1>2, Moves DEF Typed, Labels, Bootstrapping

\* The duplicate has a number that was free, so not P_A's.
LEMMA DupFInv == ASSUME FInv, Dup PROVE FInv'
<1>0. /\ pc = "secretRead" /\ conf.cmd = "bootstrap" /\ UNCHANGED <<conf, garbage, wfd, pass, tries>>
      /\ Typed /\ Shared /\ Room /\ Tidy /\ Shield /\ tries = 0
  BY Zenon, Early DEF Dup, FInv
<1>1. CASE pc' = "done"
  <2>1. UNCHANGED <<open, pbFD>> /\ out' = "Internal"
    BY Zenon, <1>0, <1>1 DEF Dup, End
  <2>2. Shared'
    BY Zenon, <1>0, <1>1 DEF Shared
  <2> QED
    BY Zenon, <1>0, <1>1, <2>1, <2>2, Moves DEF Typed, Labels, Bootstrapping
<1>2. CASE pc' # "done"
  <2>1. /\ pc' = "first" /\ out' = out /\ out = "running"
        /\ \/ conf.fd = NoFD /\ UNCHANGED <<open, pbFD>>
           \/ conf.fd # NoFD /\ open[conf.fd] # "none" /\ open' = Opened(open[conf.fd]) /\ pbFD' = Lowest
    BY Zenon, <1>0, <1>2 DEF Dup, End, Typed
  <2>2. Lowest \in FDs /\ open[Lowest] = "none" /\ Lowest <= 3
    BY <1>0, LowestFree DEF Typed, Room, Top
  <2>3. /\ open' \in [FDs -> Kinds] /\ pbFD' \in FDs \cup {NoFD}
        /\ \A n \in FDs : n # Lowest => open'[n] = open[n]
        /\ conf.fd # NoFD => pbFD' = Lowest /\ conf.fd \in FDs /\ open[conf.fd] = "input"
                              /\ open'[Lowest] = "input"
        /\ conf.fd = NoFD => pbFD' = NoFD /\ open' = open
    <3>1. CASE conf.fd = NoFD
      BY Zenon, <1>0, <2>1, <3>1 DEF Typed, Shield
    <3>2. CASE conf.fd # NoFD
      <4>1. open[conf.fd] = "input" /\ "input" \in Kinds /\ conf.fd \in FDs
        BY Zenon, <1>0, <2>1, <3>2, ConfIs DEF Typed, Shield, Kinds
      <4>2. open' = Opened("input") /\ pbFD' = Lowest
        BY Zenon, <2>1, <3>2, <4>1
      <4> QED
        BY Zenon, <1>0, <2>2, <3>2, <4>1, <4>2, Opening
    <3> QED
      BY Zenon, <3>1, <3>2
  <2>4. Shared'
    BY Zenon, <1>0, <2>1, ConfIs DEF Shared, Typed
  <2>5. Room'
    BY <1>0, <2>1, <2>2, <2>3, SixFDs DEF Room, Top
  <2>6. Shield'
    BY Zenon, <1>0, <2>1, <2>2, <2>3 DEF Shield
  <2>7. Tidy'
    BY <2>1, <2>6 DEF Tidy, Shield
  <2>8. pc' \in Labels \ {"secret"} /\ pc' \in Bootstrapping
    BY Zenon, <2>1 DEF Labels, Bootstrapping
  <2> QED
    BY Zenon, <1>0, <2>1, <2>3, <2>4, <2>5, <2>6, <2>7, <2>8, Moves DEF Typed
<1> QED
  BY <1>1, <1>2

\* P_A is read from a descriptor that is still the input, and drops the one file of it.
LEMMA ReadFirstFInv == ASSUME FInv, ReadFirst PROVE FInv'
<1>0. /\ pc = "first" /\ UNCHANGED <<conf, open, pbFD, wfd, tries>> /\ Typed /\ Shared
      /\ conf.fd \in FDs \cup {NoFD} /\ ReadPassphrase(conf.fd, "firstRead", "FirstFailed")
  BY Zenon, ConfIs DEF ReadFirst, FInv, Typed
<1>1. /\ \/ /\ pc' = "done" /\ pass' = pass /\ out' \in {"Usage", "ReadError", "FirstFailed"}
         \/ pc' = "firstRead" /\ out' = out /\ (conf.fd # NoFD => open[conf.fd] = "input")
      /\ garbage' = garbage \/ (conf.fd # NoFD /\ garbage' = Dropped(conf.fd))
  BY Zenon, <1>0, Reading
<1>2. garbage' \in [FDs -> 0 .. MaxDropped]
  BY Zenon, <1>0, <1>1, Dropping DEF Typed
<1>3. Shared'
  BY Zenon, <1>0, <1>1, ConfIs DEF Shared, Typed
<1>4. ASSUME conf.cmd = "bootstrap" PROVE tries = 0 /\ (pc' # "done" => Room' /\ Tidy' /\ Shield')
  <2>1. Room /\ Shield /\ tries = 0
    BY Zenon, <1>0, <1>4, Early
  <2>2. ASSUME pc' # "done" PROVE Room' /\ Tidy' /\ Shield'
    <3>0. pc' = "firstRead" /\ Top(pc') = Top(pc)
      BY Zenon, <1>0, <1>1, <2>2 DEF Top
    <3>1. Room'
      BY Zenon, <1>0, <2>1, <3>0 DEF Room
    <3>2. \A n \in FDs : garbage'[n] = 0 \/ (garbage'[n] = 1 /\ n = conf.fd)
      <4>1. \A n \in FDs : garbage[n] = 0
        BY Zenon, <1>0, <2>1 DEF Shield
      <4>2. CASE conf.fd # NoFD /\ garbage' = Dropped(conf.fd)
        BY Zenon, <1>0, <4>1, <4>2, Dropping
      <4> QED
        BY Zenon, <1>1, <4>1, <4>2
    <3>3. Tidy'
      BY <1>0, <2>1, <3>2, SixFDs DEF Tidy, Shield
    <3>4. Shield'
      BY Zenon, <1>0, <2>1, <3>0, <3>2, SixFDs DEF Shield, Typed
    <3> QED
      BY <3>1, <3>3, <3>4
  <2> QED
    BY Zenon, <2>1, <2>2
<1>5. pc' \in Labels \ {"secret"} /\ pc' \in Bootstrapping \cup {"done"}
  BY Zenon, <1>1 DEF Labels, Bootstrapping
<1> QED
  BY Zenon, <1>0, <1>1, <1>2, <1>3, <1>4, <1>5, Moves DEF Typed

\* The connections of the legs take a number that was free.
LEMMA UseFirstFInv == ASSUME FInv, UseFirst PROVE FInv'
<1>0. /\ pc = "firstRead" /\ UNCHANGED <<conf, garbage, pbFD, wfd, pass, tries>> /\ Typed /\ Shared
      /\ pc' \in {"second", "enter", "done"} /\ (pc' = "done" \/ out' = out)
      /\ pc' = "done" => out' \in {"Opened", "LegsFailed"}
      /\ open' = open \/ (open' = Opened("conn") /\ pc' = "enter")
      /\ conf.cmd = "bootstrap" => pc' # "second"
  BY Zenon DEF UseFirst, End, FInv
<1>1. open' \in [FDs -> Kinds] /\ "conn" \in Kinds
  BY Zenon, <1>0, Opening DEF Typed, Kinds
<1>2. Shared'
  BY Zenon, <1>0 DEF Shared
<1>3. ASSUME conf.cmd = "bootstrap" PROVE tries = 0 /\ (pc' # "done" => Room' /\ Tidy' /\ Shield')
  <2>1. Room /\ Tidy /\ Shield /\ tries = 0
    BY Zenon, <1>0, <1>3, Early
  <2>2. Lowest \in FDs /\ open[Lowest] = "none" /\ Lowest <= 4
    BY <1>0, <2>1, LowestFree DEF Typed, Room, Top
  <2>3. \A n \in FDs : open'[n] = open[n] \/ (n = Lowest /\ open[n] = "none")
    BY Zenon, <1>0, <1>1, <2>2, Opening
  <2>4. ASSUME pc' = "enter" PROVE Room' /\ Tidy' /\ Shield'
    <3>1. Room'
      BY <1>0, <2>1, <2>2, <2>3, <2>4, SixFDs DEF Room, Top
    <3>2. Tidy'
      BY Zenon, <1>0, <2>1, <2>3 DEF Tidy
    <3>3. Shield'
      BY Zenon, <1>0, <2>1, <2>3, <2>4 DEF Shield, Typed
    <3> QED
      BY <3>1, <3>2, <3>3
  <2> QED
    BY Zenon, <1>0, <1>3, <2>1, <2>4
<1>4. pc' \in Labels \ {"secret"} /\ (conf.cmd = "bootstrap" => pc' \in Bootstrapping \cup {"done"})
  BY Zenon, <1>0 DEF Labels, Bootstrapping
<1> QED
  BY Zenon, <1>0, <1>1, <1>2, <1>3, <1>4, Moves DEF Typed

\* ENTER is read; the descriptors stay as they are.
LEMMA EnterFInv == ASSUME FInv, Enter \/ CheckPB PROVE FInv'
<1>0. /\ UNCHANGED <<conf, open, garbage, pbFD, wfd, pass, tries>> /\ Typed /\ Shared
      /\ \/ pc = "enter" /\ pc' = "pb" /\ out' = out
         \/ pc = "enter" /\ pc' = "done" /\ out' = "Abandoned"
         \/ pc = "pbRead" /\ pc' \in {"pb", "write"} /\ out' = out
  BY Zenon DEF Enter, CheckPB, End, FInv
<1>1. Shared'
  BY Zenon, <1>0 DEF Shared
<1>2. ASSUME conf.cmd = "bootstrap", tries <= 1, pc' # "done" PROVE Room' /\ Tidy' /\ Shield'
  <2>1. Room /\ Tidy /\ Shield
    BY Zenon, <1>0, <1>2 DEF FInv, Guarded
  <2>2. Top(pc') = Top(pc) /\ 1 # 0
    BY <1>0, <1>2 DEF Top
  <2>3. Room' /\ Tidy'
    BY Zenon, <1>0, <2>1, <2>2 DEF Room, Tidy
  <2>4. Shield'
    BY Zenon, <1>0, <1>2, <2>1, <2>2 DEF Shield
  <2> QED
    BY <2>3, <2>4
<1>3. /\ pc' \in Labels \ {"secret"} /\ pc' \in Bootstrapping \cup {"done"} /\ pc # "done"
      /\ pc' \notin {"secretRead", "first", "firstRead", "enter"}
      /\ out' = "Abandoned" \/ out' = "running"
  BY Zenon, <1>0 DEF Labels, Bootstrapping, Typed
<1> QED
  BY Zenon, <1>0, <1>1, <1>2, <1>3, Moves DEF Typed

\* The first P_B is read from the duplicate, which nothing has closed.
LEMMA ReadPBFInv == ASSUME FInv, ReadPB PROVE FInv'
<1>0. /\ pc = "pb" /\ UNCHANGED <<conf, open, pbFD, wfd>> /\ Typed /\ Shared
      /\ ReadPassphrase(pbFD, "pbRead", "PBFailed") /\ tries' = (IF tries < MaxTries THEN tries + 1 ELSE tries)
  BY Zenon DEF ReadPB, FInv
<1>1. /\ \/ pc' = "done" /\ (out' \in {"Usage", "ReadError"} \/ (out' = "PBFailed" /\ pbFD # NoFD /\ open[pbFD] # "input"))
         \/ pc' = "pbRead" /\ out' = out
      /\ garbage' = garbage \/ (pbFD # NoFD /\ garbage' = Dropped(pbFD))
  BY Zenon, <1>0, Reading DEF Typed
<1>2. garbage' \in [FDs -> 0 .. MaxDropped] /\ pbFD' \in FDs \cup {NoFD}
  BY Zenon, <1>0, <1>1, Dropping DEF Typed
<1>3. tries' \in 0 .. MaxTries /\ (tries' <= 1 => tries = 0 /\ tries' = 1)
  BY <1>0 DEF Typed, MaxTries
<1>4. Shared'
  BY Zenon, <1>0, <1>1 DEF Shared
<1>5. ASSUME conf.cmd = "bootstrap", tries' <= 1
      PROVE  out' \notin {"PBFailed", "WriteFailed"} /\ (pc' # "done" => Room' /\ Tidy' /\ Shield')
  <2>1. Room /\ Tidy /\ Shield /\ tries = 0 /\ tries' = 1
    <3>1. tries <= 1
      BY <1>3, <1>5
    <3> QED
      BY Zenon, <1>0, <1>3, <1>5, <3>1 DEF FInv, Guarded
  <2>2. out' \notin {"PBFailed", "WriteFailed"}
    BY Zenon, <1>0, <1>1, <2>1 DEF Shield, Typed
  <2>3. ASSUME pc' # "done" PROVE Room' /\ Tidy' /\ Shield'
    <3>0. pc' = "pbRead" /\ Top(pc') = Top(pc)
      BY Zenon, <1>0, <1>1, <2>3 DEF Top
    <3>1. Room'
      BY Zenon, <1>0, <2>1, <3>0 DEF Room
    <3>2. \A n \in FDs : garbage'[n] = garbage[n] \/ (garbage'[n] = 1 /\ open[n] = "input")
      <4>1. CASE pbFD # NoFD /\ garbage' = Dropped(pbFD)
        <5>1. pbFD \in FDs /\ garbage[pbFD] = 0 /\ open[pbFD] = "input"
          BY Zenon, <1>0, <2>1, <4>1 DEF Shield, Typed
        <5> QED
          BY Zenon, <1>0, <4>1, <5>1, Dropping
      <4> QED
        BY Zenon, <1>1, <4>1
    <3>3. Tidy'
      BY Zenon, <1>0, <2>1, <3>2 DEF Tidy
    <3>4. Shield'
      BY Zenon, <2>1, <3>0 DEF Shield
    <3> QED
      BY <3>1, <3>3, <3>4
  <2> QED
    BY Zenon, <2>2, <2>3
<1>6. pc' \in Labels \ {"secret"} /\ pc' \in Bootstrapping \cup {"done"}
  BY Zenon, <1>1 DEF Labels, Bootstrapping
<1> QED
  BY Zenon, <1>0, <1>1, <1>2, <1>3, <1>4, <1>5, <1>6, Moves DEF Typed

\* The capsule has a number that was free, so that no finalizer closes it.
LEMMA OpenCapsuleFInv == ASSUME FInv, OpenCapsule PROVE FInv'
<1>0. /\ pc = "write" /\ UNCHANGED <<conf, garbage, pbFD, pass, tries>> /\ Typed /\ Shared
      /\ \/ pc' = "done" /\ out' = "OpenFailed" /\ open' = open
         \/ pc' = "writing" /\ out' = out /\ wfd' = Lowest /\ open' = Opened("capsule")
  BY Zenon DEF OpenCapsule, End, FInv
<1>1. open' \in [FDs -> Kinds] /\ "capsule" \in Kinds
  BY Zenon, <1>0, Opening DEF Typed, Kinds
<1>2. Shared'
  BY Zenon, <1>0 DEF Shared
<1>3. ASSUME conf.cmd = "bootstrap", tries <= 1, pc' # "done" PROVE Room' /\ Tidy' /\ Shield'
  <2>1. Room /\ Tidy
    BY Zenon, <1>0, <1>3 DEF FInv, Guarded
  <2>2. Lowest \in FDs /\ open[Lowest] = "none"
    BY <1>0, <2>1, LowestFree DEF Typed, Room, Top
  <2>3. open'[Lowest] = "capsule" /\ \A n \in FDs : n # Lowest => open'[n] = open[n]
    BY Zenon, <1>0, <1>1, <1>3, <2>2, Opening
  <2>4. Room'
    BY <1>0, <1>3, SixFDs DEF Room, Top
  <2>5. Tidy'
    BY Zenon, <1>0, <2>1, <2>2, <2>3 DEF Tidy
  <2>6. garbage[Lowest] = 0
    BY <1>0, <2>1, <2>2 DEF Tidy, Typed
  <2>7. Shield'
    BY Zenon, <1>0, <1>3, <2>2, <2>3, <2>6 DEF Shield
  <2> QED
    BY <2>4, <2>5, <2>7
<1>4. /\ pc' \in Labels \ {"secret"} /\ pc' \in Bootstrapping \cup {"done"} /\ pc # "done"
      /\ pc' \notin {"secretRead", "first", "firstRead", "enter"}
      /\ out' = "OpenFailed" \/ out' = "running"
  BY Zenon, <1>0 DEF Labels, Bootstrapping, Typed
<1> QED
  BY Zenon, <1>0, <1>1, <1>2, <1>3, <1>4, Moves DEF Typed

\* So the capsule is still there when it is written.
LEMMA WriteCapsuleFInv == ASSUME FInv, WriteCapsule PROVE FInv'
<1>0. /\ pc = "writing" /\ UNCHANGED <<conf, garbage, pbFD, pass, tries>> /\ Typed /\ Shared /\ pc' = "done"
      /\ \/ out' \in {"OK", "WriteError"} /\ open' = Closed(wfd)
         \/ out' = "WriteFailed" /\ open[wfd] # "capsule" /\ open' = open
  BY Zenon DEF WriteCapsule, End, FInv
<1>1. open' \in [FDs -> Kinds]
  BY <1>0 DEF Typed, Closed, Kinds
<1>2. Shared'
  BY Zenon, <1>0 DEF Shared
<1>3. conf.cmd = "bootstrap" /\ tries <= 1 => open[wfd] = "capsule"
  BY Zenon, <1>0 DEF FInv, Guarded, Shield
<1> QED
  BY Zenon, <1>0, <1>1, <1>2, <1>3, Moves DEF Typed, Labels

-------------------------------------------------------------------------------
(* The theorems                                                            *)

\* FInv is inductive.
LEMMA NextFInv == FInv /\ [Next]_ivars => FInv'
<1> SUFFICES ASSUME FInv, [Next]_ivars PROVE FInv'
  OBVIOUS
<1>1. CASE UNCHANGED ivars
  BY Zenon, <1>1 DEF ivars, FInv, Typed, Shared, Guarded, Room, Tidy, Shield
<1>2. CASE Step
  BY Zenon, <1>2, ReadSecretFInv, PlainFInv, DupFInv, ReadFirstFInv, UseFirstFInv, EnterFInv,
     ReadPBFInv, OpenCapsuleFInv, WriteCapsuleFInv DEF Step
<1>3. CASE \E n \in FDs : Finalize(n)
  BY Zenon, <1>3, FinalizeFInv
<1> QED
  BY Zenon, <1>1, <1>2, <1>3 DEF Next

\* FInv holds of every run of a command, whatever it is fed and whenever the collector runs.
THEOREM InputsInvariant == Spec => []FInv
BY InitFInv, NextFInv, PTL DEF Spec

\* FDReader leaves closing to a finalizer: the duplicate keeps that from the first P_B prompt
\* of a bootstrap and from the capsule it writes, for every input.
THEOREM InputsPBShielded == Spec => []PBShielded
<1>1. FInv => PBShielded
  BY Zenon DEF FInv, Guarded, PBShielded
<1> QED
  BY <1>1, InputsInvariant, PTL

\* fdread.ReadString closes the descriptor it has read the secret from: no byte behind the
\* secret is ever taken for a passphrase.
THEOREM InputsSharedFDRefused == Spec => []SharedFDRefused
<1>1. FInv => SharedFDRefused
  BY Zenon DEF FInv, Shared, SharedFDRefused
<1> QED
  BY <1>1, InputsInvariant, PTL
=============================================================================
