-------------------------------- MODULE Inputs --------------------------------
(***************************************************************************)
(* How a command gets its passphrases and its deploy secret: FDReader,     *)
(* EnvReader, TTYReader, ReadPassphraseConfirm and fdread.ReadString, in   *)
(* the order keygen, bootstrap and the commands that open a capsule (send, *)
(* recv, fingerprint) call them.                                           *)
(*                                                                         *)
(* Descriptors are numbers that the kernel hands out again once they are   *)
(* closed.  Every os.File that os.NewFile makes closes its number when the *)
(* garbage collector finds it unreachable, so FDReader, which makes one    *)
(* per call and never closes it, leaves that to a finalizer running at any *)
(* later time.                                                             *)
(***************************************************************************)
EXTENDS Integers, Sequences, FiniteSets

CONSTANTS
  Confs,      \* the invocations: records of Conf
  Scripts,    \* what may be written to the passphrase descriptor: sequences of bytes
  Words,      \* what an operator may type at the terminal
  EnvValue,   \* the value of the variable --passphrase-env names; <<>> if unset
  SecretCap   \* fdread.MaxBytes

LF == "LF"
CR == "CR"
FDs == 0 .. 5
\* The number --deploy-secret-fd names, where it has one of its own.
secretFD == 2
NoFD == -1

\* --passphrase-fd (-1 if absent), whether --passphrase-env is given, and where the
\* deploy secret comes from: the environment, a descriptor of its own or the same one
\* (keygen and fingerprint take none, bootstrap always does).
Conf == {c \in [cmd : {"keygen", "open", "bootstrap"}, fd : {NoFD, 0, 1}, env : BOOLEAN,
                secret : {"none", "env", "own", "same"}] :
           /\ c.secret = "same" => c.fd # NoFD
           /\ c.cmd = "keygen" => c.secret = "none"
           /\ c.cmd = "bootstrap" => c.secret # "none"}

ASSUME InputsConstants ==
  /\ Confs \subseteq Conf
  /\ \A s \in Scripts : s \in Seq(STRING)
  /\ SecretCap \in Nat

VARIABLES
  conf, script,  \* the invocation and what it is fed
  exists,        \* there is a file at the capsule path
  pipe,          \* the bytes of the script not yet read
  open,          \* what each descriptor refers to
  garbage,       \* how many unreachable os.Files each descriptor has
  pbFD, wfd,     \* bootstrap's duplicate; the descriptor of the capsule being written
  pc,
  pass,          \* the passphrase read last; the one the capsule is wrapped under
  pa,            \* P_A, or keygen's first reading
  tries,         \* P_B prompts so far
  wrote,         \* the passphrase of the capsule on disk; NoPass if none was written
  out            \* how the command ended

NoPass == <<"none">>
ivars == <<conf, script, exists, pipe, open, garbage, pbFD, wfd, pc, pass, pa, tries, wrote, out>>

-------------------------------------------------------------------------------
(* The two line readers, byte by byte                                      *)

StripCR(s) == IF s # <<>> /\ s[Len(s)] = CR THEN SubSeq(s, 1, Len(s) - 1) ELSE s

\* One round of the loop: a line feed ends the line, any other byte is kept.
TakeByte(acc, b) ==
  IF acc.end THEN acc
  ELSE [line |-> IF b = LF THEN acc.line ELSE Append(acc.line, b),
        used |-> acc.used + 1, end |-> b = LF]
Scan(s) ==
  LET acc[n \in 0 .. Len(s)] ==
        IF n = 0 THEN [line |-> <<>>, used |-> 0, end |-> FALSE] ELSE TakeByte(acc[n - 1], s[n])
  IN  acc[Len(s)]

\* Mutant: a buffered reader, which reads ahead.
MutReadLine(s) == [line |-> StripCR(Scan(s).line), rest |-> <<>>]

\* FDReader: up to LF or the end of the input, one trailing CR dropped either way.
ReadLine(s) ==
  [line |-> StripCR(Scan(s).line), rest |-> SubSeq(s, Scan(s).used + 1, Len(s))]

\* fdread.ReadString: a CR is dropped before LF only, and a line longer than the cap refused.
ReadString(s) ==
  IF Len(Scan(s).line) > SecretCap THEN NoPass
  ELSE IF Scan(s).end THEN StripCR(Scan(s).line) ELSE Scan(s).line

-------------------------------------------------------------------------------
(* Descriptors and their files                                             *)

Lowest == CHOOSE n \in FDs : open[n] = "none" /\ \A m \in FDs : m < n => open[m] # "none"
Opened(obj) == [open EXCEPT ![Lowest] = obj]
Closed(n) == [open EXCEPT ![n] = "none"]

\* Bounds: P_B prompts told apart, and unreachable files per descriptor.  Only a P_B
\* loop that never ends (P_A is empty and the input over) reaches them.
MaxTries == 3
MaxDropped == 3

\* os.NewFile at n, now unreachable.
Dropped(n) == [garbage EXCEPT ![n] = IF @ < MaxDropped THEN @ + 1 ELSE @]

InitOpen(c) ==
  [n \in FDs |-> CASE n = c.fd -> "input"
                   [] n = 0 /\ c.fd # 0 -> "stdin"
                   [] n = secretFD /\ c.secret = "own" -> "secret"
                   [] OTHER -> "none"]

Init ==
  /\ conf \in Confs
  /\ script \in IF conf.fd = NoFD THEN {<<>>} ELSE Scripts
  /\ exists \in BOOLEAN
  /\ pipe = script
  /\ open = InitOpen(conf)
  /\ garbage = [n \in FDs |-> 0]
  /\ pbFD = NoFD /\ wfd = NoFD
  /\ pc = CASE conf.cmd = "keygen" -> "stat"
            [] conf.cmd = "open" /\ conf.secret = "none" -> "secretRead"
            [] OTHER -> "secret"
  /\ pass = NoPass /\ pa = NoPass /\ wrote = NoPass
  /\ tries = 0
  /\ out = "running"

\* The runtime closes a dropped file: its number, whatever that refers to by now.
Finalize(n) ==
  /\ garbage[n] > 0
  /\ garbage' = [garbage EXCEPT ![n] = @ - 1]
  /\ open' = Closed(n)
  /\ UNCHANGED <<conf, script, exists, pipe, pbFD, wfd, pc, pass, pa, tries, wrote, out>>

End(code) == pc' = "done" /\ out' = code

-------------------------------------------------------------------------------
(* ReadPassphrase, at descriptor n where the invocation names one.  On      *)
(* success the command goes on at `next`, otherwise it ends with `failed`.  *)

TypeIn(next, failed) ==
  /\ UNCHANGED <<pipe, garbage>>
  /\ \/ \E w \in Words : pass' = w /\ pc' = next /\ UNCHANGED out
     \/ End(failed) /\ UNCHANGED pass

FromEnv(next, failed) ==
  /\ UNCHANGED <<pipe, garbage>>
  /\ IF EnvValue = <<>> THEN End(failed) /\ UNCHANGED pass
                        ELSE pass' = EnvValue /\ pc' = next /\ UNCHANGED out

\* `failed` is the end at a descriptor that is no longer the input; a read of one that is may
\* fail as well, whatever it took until then.
FromFD(n, next, failed) ==
  /\ garbage' = Dropped(n)
  /\ \/ /\ open[n] = "input"
        /\ pass' = ReadLine(pipe).line /\ pipe' = ReadLine(pipe).rest
        /\ pc' = next /\ UNCHANGED out
     \/ open[n] = "input" /\ End("ReadError") /\ UNCHANGED <<pass, pipe>>
     \/ open[n] # "input" /\ End(failed) /\ UNCHANGED <<pass, pipe>>

\* resolvePassphraseReader and the reader it picks.
ReadPassphrase(n, next, failed) ==
  \/ n # NoFD /\ conf.env /\ End("Usage") /\ UNCHANGED <<pipe, garbage, pass>>
  \/ n # NoFD /\ ~conf.env /\ FromFD(n, next, failed)
  \/ n = NoFD /\ conf.env /\ FromEnv(next, "Usage")
  \/ n = NoFD /\ ~conf.env /\ TypeIn(next, "Usage")

-------------------------------------------------------------------------------
(* The commands                                                            *)

\* Mutant: the secret's descriptor stays open.
MutReadSecret ==
  /\ pc = "secret"
  /\ CASE conf.secret = "same" ->
            /\ pipe' = SubSeq(pipe, Scan(pipe).used + 1, Len(pipe))
            /\ open' = open
            /\ \/ ReadString(pipe) \notin {NoPass, <<>>} /\ pc' = "secretRead" /\ UNCHANGED out
               \/ End("Usage")
       [] OTHER -> /\ \/ pc' = "secretRead" /\ UNCHANGED out
                      \/ End("Usage")
                   /\ UNCHANGED <<open, pipe>>
  /\ UNCHANGED <<conf, script, exists, garbage, pbFD, wfd, pass, pa, tries, wrote>>

\* resolveDeploySecret: from a descriptor it is one line, and the descriptor is closed.
\* A secret that cannot be read, is missing, too long, malformed or too short ends the command.
ReadSecret ==
  /\ pc = "secret"
  /\ CASE conf.secret = "same" ->
            /\ pipe' = SubSeq(pipe, Scan(pipe).used + 1, Len(pipe))
            /\ open' = Closed(conf.fd)
            /\ \/ ReadString(pipe) \notin {NoPass, <<>>} /\ pc' = "secretRead" /\ UNCHANGED out
               \/ End("Usage")
       [] conf.secret = "own" ->
            /\ open' = Closed(secretFD)
            /\ \/ pc' = "secretRead" /\ UNCHANGED out
               \/ End("Usage")
            /\ UNCHANGED pipe
       [] conf.secret = "env" ->
            /\ \/ pc' = "secretRead" /\ UNCHANGED out
               \/ End("Usage")
            /\ UNCHANGED <<open, pipe>>
  /\ UNCHANGED <<conf, script, exists, garbage, pbFD, wfd, pass, pa, tries, wrote>>

\* keygen refuses a path that exists.
StatOut ==
  /\ pc = "stat"
  /\ IF exists THEN End("Usage") ELSE pc' = "first" /\ UNCHANGED out
  /\ UNCHANGED <<conf, script, exists, pipe, open, garbage, pbFD, wfd, pass, pa, tries, wrote>>

\* A command that opens a capsule stats and reads it, then asks for its passphrase.
ReadCapsule ==
  /\ pc = "secretRead" /\ conf.cmd = "open"
  /\ IF exists THEN pc' = "first" /\ UNCHANGED out ELSE End("Usage")
  /\ UNCHANGED <<conf, script, exists, pipe, open, garbage, pbFD, wfd, pass, pa, tries, wrote>>

\* Mutant: both prompts share the descriptor.
MutDup ==
  /\ pc = "secretRead" /\ conf.cmd = "bootstrap"
  /\ pc' = "first"
  /\ pbFD' = conf.fd
  /\ UNCHANGED <<conf, script, exists, pipe, open, garbage, wfd, pass, pa, tries, wrote, out>>

\* bootstrap duplicates the passphrase descriptor for P_B before it reads P_A.
Dup ==
  /\ pc = "secretRead" /\ conf.cmd = "bootstrap"
  /\ CASE conf.fd = NoFD -> pc' = "first" /\ UNCHANGED <<open, pbFD, out>>
       [] conf.fd # NoFD /\ open[conf.fd] = "none" -> End("Internal") /\ UNCHANGED <<open, pbFD>>
       [] OTHER -> /\ open' = Opened(open[conf.fd]) /\ pbFD' = Lowest
                   /\ pc' = "first" /\ UNCHANGED out
  /\ UNCHANGED <<conf, script, exists, pipe, garbage, wfd, pass, pa, tries, wrote>>

\* The first passphrase: keygen's, the capsule's or P_A.
ReadFirst ==
  /\ pc = "first"
  /\ ReadPassphrase(conf.fd, "firstRead", "FirstFailed")
  /\ UNCHANGED <<conf, script, exists, open, pbFD, wfd, pa, tries, wrote>>

\* What is done with it; a bootstrap now runs its three legs over connections of its own.
UseFirst ==
  /\ pc = "firstRead"
  /\ pa' = pass
  /\ \/ conf.cmd = "keygen" /\ pc' = "second" /\ UNCHANGED <<open, out>>
     \/ conf.cmd = "open" /\ End("Opened") /\ UNCHANGED open
     \/ conf.cmd = "bootstrap" /\ pc' = "enter" /\ open' = Opened("conn") /\ UNCHANGED out
     \/ conf.cmd = "bootstrap" /\ End("LegsFailed") /\ UNCHANGED open
  /\ UNCHANGED <<conf, script, exists, pipe, garbage, pbFD, wfd, pass, tries, wrote>>

\* ReadPassphraseConfirm: the same reader once more.
ReadSecond ==
  /\ pc = "second"
  /\ ReadPassphrase(conf.fd, "secondRead", "SecondFailed")
  /\ UNCHANGED <<conf, script, exists, open, pbFD, wfd, pa, tries, wrote>>

Compare ==
  /\ pc = "secondRead"
  /\ IF pass = pa THEN pc' = "write" /\ UNCHANGED out ELSE End("Mismatch")
  /\ UNCHANGED <<conf, script, exists, pipe, open, garbage, pbFD, wfd, pass, pa, tries, wrote>>

\* ENTER is read from os.Stdin through a bufio.Reader, which takes whatever is there:
\* where the passphrase descriptor is 0, any further part of the input too.  A read that
\* fails, or ends before a line feed, abandons the bootstrap.
Enter ==
  /\ pc = "enter"
  /\ \/ /\ open[0] = "input" /\ Scan(pipe).end
        /\ \E n \in Scan(pipe).used .. Len(pipe) : pipe' = SubSeq(pipe, n + 1, Len(pipe))
        /\ pc' = "pb" /\ UNCHANGED out
     \/ open[0] \in {"stdin", "conn"} /\ pc' = "pb" /\ UNCHANGED <<pipe, out>>
     \/ End("Abandoned") /\ UNCHANGED pipe
  /\ UNCHANGED <<conf, script, exists, open, garbage, pbFD, wfd, pass, pa, tries, wrote>>

\* The P_B prompt, at the duplicate.
ReadPB ==
  /\ pc = "pb"
  /\ ReadPassphrase(pbFD, "pbRead", "PBFailed")
  /\ tries' = IF tries < MaxTries THEN tries + 1 ELSE tries
  /\ UNCHANGED <<conf, script, exists, open, pbFD, wfd, pa, wrote>>

\* Mutant: the comparison comes out the wrong way round.
MutReused == pass # pa

\* CheckPBNotPA
Reused == pass = pa

CheckPB ==
  /\ pc = "pbRead"
  /\ pc' = IF Reused THEN "pb" ELSE "write"
  /\ UNCHANGED <<conf, script, exists, pipe, open, garbage, pbFD, wfd, pass, pa, tries, wrote, out>>

\* os.WriteFile: open with O_TRUNC, write, close; a write to a descriptor that is no
\* longer the file fails ("WriteFailed"), and so may one to the file itself, or the chmod
\* that follows it ("WriteError").
OpenCapsule ==
  /\ pc = "write"
  /\ \/ /\ open' = Opened("capsule") /\ wfd' = Lowest
        /\ exists' = TRUE
        /\ pc' = "writing" /\ UNCHANGED out
     \/ End("OpenFailed") /\ UNCHANGED <<open, wfd, exists>>
  /\ UNCHANGED <<conf, script, pipe, garbage, pbFD, pass, pa, tries, wrote>>

WriteCapsule ==
  /\ pc = "writing"
  /\ \/ open[wfd] = "capsule" /\ wrote' = pass /\ open' = Closed(wfd) /\ End("OK")
     \/ open[wfd] = "capsule" /\ wrote' \in {wrote, pass} /\ open' = Closed(wfd) /\ End("WriteError")
     \/ open[wfd] # "capsule" /\ End("WriteFailed") /\ UNCHANGED <<wrote, open>>
  /\ UNCHANGED <<conf, script, exists, pipe, garbage, pbFD, wfd, pass, pa, tries>>

Step ==
  \/ ReadSecret \/ StatOut \/ ReadCapsule \/ Dup \/ ReadFirst \/ UseFirst \/ ReadSecond
  \/ Compare \/ Enter \/ ReadPB \/ CheckPB \/ OpenCapsule \/ WriteCapsule

Next == Step \/ \E n \in FDs : Finalize(n)

\* The command runs; the collector need not.
Spec == Init /\ [][Next]_ivars /\ WF_ivars(Step)

-------------------------------------------------------------------------------
(* Properties                                                              *)

TypeOK ==
  /\ conf \in Confs /\ script \in Scripts \cup {<<>>} /\ exists \in BOOLEAN
  /\ pipe \in Seq(STRING) /\ pass \in Seq(STRING) /\ pa \in Seq(STRING)
  /\ wrote \in Seq(STRING)
  /\ open \in [FDs -> {"none", "input", "stdin", "secret", "conn", "capsule"}]
  /\ garbage \in [FDs -> 0 .. MaxDropped]
  /\ pbFD \in FDs \cup {NoFD} /\ wfd \in FDs \cup {NoFD} /\ tries \in 0 .. MaxTries

\* The n-th line of a script: what lies between two consecutive line feeds, less the
\* CR that ends it; nothing past the end.
FeedAt(s, n) ==
  CHOOSE i \in 1 .. Len(s) : s[i] = LF /\ Cardinality({j \in 1 .. i : s[j] = LF}) = n
Feeds(s) == Cardinality({i \in 1 .. Len(s) : s[i] = LF})
NthLine(s, n) ==
  IF n > Feeds(s) + 1 THEN <<>>
  ELSE LET from == IF n = 1 THEN 1 ELSE FeedAt(s, n - 1) + 1
           to == IF n > Feeds(s) THEN Len(s) ELSE FeedAt(s, n) - 1
       IN  StripCR(SubSeq(s, from, to))

\* A capsule is wrapped under the lines that were fed in for it: keygen's under lines 1
\* and 2, which agree (and it reports a mismatch only where they differ), bootstrap's
\* under the first line after P_A's that is not P_A.  This is what the byte-wise loop of
\* FDReader is for; where descriptor 0 is both the passphrase's and ENTER's it is not so.
CapsuleFromInput ==
  conf.fd # NoFD =>
    /\ conf.cmd = "keygen" /\ wrote # NoPass =>
         wrote = NthLine(script, 1) /\ wrote = NthLine(script, 2)
    /\ out = "Mismatch" => NthLine(script, 1) # NthLine(script, 2)
    /\ conf.cmd = "bootstrap" /\ conf.fd # 0 /\ wrote # NoPass /\ tries < MaxTries =>
         wrote = NthLine(script, 1 + tries) /\ wrote # NthLine(script, 1)

\* The descriptor P_A was read from may be closed by a finalizer at any time, also
\* once its number is something else; the duplicate keeps that from the first P_B
\* prompt and from the capsule.
PBShielded ==
  conf.cmd = "bootstrap" /\ tries <= 1 => out \notin {"PBFailed", "WriteFailed"}

\* One descriptor named for both the secret and the passphrase: ReadString closes it,
\* so no byte behind the secret is ever taken for a passphrase.
SharedFDRefused ==
  conf.secret = "same" => pass = NoPass

\* Fed from a descriptor that ends, and with a P_A that is not empty, a command comes to
\* an end: the "P_B must differ" loop stops at the end of the input at the latest.
FedCommandEnds ==
  (conf.fd # NoFD /\ NthLine(script, 1) # <<>>) ~> (pc = "done")

\* "closing here would also invalidate it for subsequent ReadPassphrase calls": the
\* second reading of keygen, and a repeated P_B prompt, still find their descriptor.
LaterReadsOpen ==
  out \notin {"SecondFailed", "PBFailed"}

\* SPEC_BOOTSTRAP 2: --passphrase-env is an allowed surface for scripted use, so a run that
\* takes both passphrases from it gets past the P_B prompt.
FinishEnds == (conf.env /\ pc = "pb") ~> (pc = "done")
===============================================================================
