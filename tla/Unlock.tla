------------------------------- MODULE Unlock -------------------------------
(***************************************************************************)
(* How deaddrop send and deaddrop recv get from a capsule file to the pair *)
(* secret: several processes of one user share the capsule path, which a   *)
(* new bootstrap may rewrite, and one passphrase cache: the session        *)
(* keyring on Linux ("keyutils") or the login keychain on macOS            *)
(* ("keychain").  Every system call on the file or on the cache is a step  *)
(* of its own; the code takes no lock between them.                        *)
(*                                                                         *)
(* A capsule is its wrap number: Wrap draws a fresh salt each time, and    *)
(* IDForCapsule hashes the salt, so distinct wraps have distinct IDs.      *)
(***************************************************************************)
EXTENDS Integers

CONSTANTS
  Procs,        \* send and recv commands, each run once
  Forgetters,   \* those given --forget-passcache
  Uncached,     \* those given --passcache=none, or without a cache backend
  Passphrases,
  Secret,       \* the passphrase each capsule is wrapped under
  Backends,     \* platforms considered: "keyutils", "keychain"
  Ttl,          \* --passcache-ttl, in ticks
  MaxWraps,     \* bound: capsules ever written
  MaxTime       \* bound: ticks

Wraps == 1..MaxWraps
None == "none"
Empty == [wrap |-> 0, whole |-> FALSE]
NoKey == [pass |-> None, key |-> None, expiry |-> -1]
Never == -1
Earlier == "earlier"

ASSUME UnlockAssumption ==
  /\ MaxWraps \in Nat \ {0} /\ MaxTime \in Nat /\ Ttl \in Int
  /\ Secret \in [Wraps -> Passphrases]
  /\ Forgetters \subseteq Procs /\ Uncached \subseteq Procs
  /\ None \notin Procs \cup Passphrases /\ Earlier \notin Procs
  /\ Backends \subseteq {"keyutils", "keychain"}

VARIABLES
  backend,  \* the cache of this platform
  file,     \* the capsule file: Empty between truncation and write
  wraps,    \* capsules written so far
  ring,     \* the cache, by capsule ID
  now,
  pc,
  bytes,    \* capsuleData of each command
  keyid,    \* the key serial a search returned, until it is used
  typed,    \* the passphrase read at the prompt
  via,      \* what unlocked the capsule
  attempt,  \* the loop counter of the keychain's Put
  putErr,   \* the error the keychain's Put returned
  since,    \* history: IDs cached by anyone since this command's Forget began
  spared,   \* history: a failing call made its --forget-passcache leave the entry
  dels      \* history: entries deleted since this command's Put began

disk == <<backend, file, wraps>>
put == <<attempt, putErr>>
history == <<since, spared, dels>>
vars == <<backend, file, wraps, ring, now, pc, bytes, keyid, typed, via, attempt, putErr, since, spared,
          dels>>

Capsule == [wrap : Wraps, whole : BOOLEAN]
Key == [pass : Passphrases, key : Procs \cup {Earlier}, expiry : Nat \cup {Never}]

\* Put rounds what is below a second up.
TtlSec == IF Ttl <= 0 THEN 1 ELSE Ttl

\* An earlier command may have cached the passphrase.
Init ==
  /\ file = [wrap |-> 1, whole |-> TRUE] /\ wraps = 1
  /\ backend \in Backends /\ now = 0
  /\ \E old \in {NoKey, [pass |-> Secret[1], key |-> Earlier,
                       expiry |-> IF backend = "keyutils" THEN TtlSec ELSE Never]} :
       ring = [w \in Wraps |-> IF w = 1 THEN old ELSE NoKey]
  /\ pc = [p \in Procs |-> "start"] /\ bytes = [p \in Procs |-> Empty]
  /\ keyid = [p \in Procs |-> None] /\ typed = [p \in Procs |-> None]
  /\ via = [p \in Procs |-> None]
  /\ attempt = [p \in Procs |-> 0] /\ putErr = [p \in Procs |-> None]
  /\ since = [p \in Procs |-> {}] /\ spared = [p \in Procs |-> FALSE] /\ dels = [p \in Procs |-> 0]

\* Unwrap: authenticated decryption under the key the passphrase derives.
Unwrap(pw, b) == b # Empty /\ b.whole /\ pw = Secret[b.wrap]

\* IDForCapsule; too short a file has no ID, and the cache is then not used.
MutCacheID(b) == 1
CacheID(b) == b.wrap
Cacheable(p, b) == p \notin Uncached /\ b # Empty
Entry(p) == ring[CacheID(bytes[p])]

\* The key Put stores, which has no timeout yet, and a key given one.
NewKey(p, k) == [pass |-> typed[p], key |-> k, expiry |-> Never]
Timing(e, t) == [e EXCEPT !.expiry = t]

Goto(p, l) == pc' = [pc EXCEPT ![p] = l]

-----------------------------------------------------------------------------
\* The capsule path.

\* WriteCapsule: os.WriteFile truncates, then writes the new capsule.
WriteBegin ==
  /\ file # Empty /\ wraps < MaxWraps
  /\ file' = Empty /\ wraps' = wraps + 1
  /\ UNCHANGED <<backend, ring, now, pc, bytes, keyid, typed, via, put, history>>

WriteEnd ==
  /\ file = Empty
  /\ file' = [wrap |-> wraps, whole |-> TRUE]
  /\ UNCHANGED <<backend, wraps, ring, now, pc, bytes, keyid, typed, via, put, history>>

\* The ciphertext part of the stored file is damaged; size and salt survive.
Damage ==
  /\ file # Empty /\ file.whole
  /\ file' = [file EXCEPT !.whole = FALSE]
  /\ UNCHANGED <<backend, wraps, ring, now, pc, bytes, keyid, typed, via, put, history>>

\* os.Stat and the size check.
Stat(p) ==
  /\ pc[p] = "start"
  /\ Goto(p, IF file = Empty THEN "badcapsule" ELSE "read")
  /\ UNCHANGED <<disk, ring, now, bytes, keyid, typed, via, put, history>>

\* os.ReadFile, IDForCapsule; send then checks its input file, which may fail.
MutRead(p) ==
  /\ pc[p] = "read"
  /\ bytes' = [bytes EXCEPT ![p] = file]
  /\ Goto(p, IF ~Cacheable(p, file) THEN "prompt" ELSE "get")
  /\ UNCHANGED <<disk, ring, now, keyid, typed, via, put, history>>
Read(p) ==
  /\ pc[p] = "read"
  /\ bytes' = [bytes EXCEPT ![p] = file]
  /\ \/ Goto(p, IF ~Cacheable(p, file) THEN "prompt"
                ELSE IF p \in Forgetters THEN "forget" ELSE "get")
     \/ Goto(p, "usage")
  /\ UNCHANGED <<disk, ring, now, keyid, typed, via, put, history>>

-----------------------------------------------------------------------------
\* The cache.  "forget" is --forget-passcache, "drop" the Forget after a cached
\* passphrase failed; both ignore Forget's error.

After == [forget |-> "get", drop |-> "prompt", get |-> "prompt"]

\* The cached passphrase opens the bytes read, or it is dropped.
MutTryCached(p, pw) ==
  IF Unwrap(pw, bytes[p])
  THEN Goto(p, "unlocked") /\ via' = [via EXCEPT ![p] = "cache"]
  ELSE Goto(p, "badcapsule") /\ UNCHANGED via
TryCached(p, pw) ==
  IF Unwrap(pw, bytes[p])
  THEN Goto(p, "unlocked") /\ via' = [via EXCEPT ![p] = "cache"]
  ELSE Goto(p, "drop") /\ UNCHANGED via

\* An entry leaves the cache: history only, for the Puts in progress.
Deleted(p) ==
  dels' = [q \in Procs |->
    IF pc[q] \in {"add", "update"} /\ bytes[q] # Empty /\ CacheID(bytes[q]) = CacheID(bytes[p])
    THEN dels[q] + 1 ELSE dels[q]]

\* An entry is written: history only, for the commands that are forgetting.
Cached(p) ==
  since' = [q \in Procs |->
    IF q \in Forgetters /\ pc[q] \in {"forget", "get"}
    THEN since[q] \cup {CacheID(bytes[p])} ELSE since[q]]

\* An entry is left where --forget-passcache was to remove it: history only.
Spare(p) == spared' = [spared EXCEPT ![p] = @ \/ (pc[p] = "forget" /\ Entry(p) # NoKey)]

\* KeyctlSearch, in Forget and in Get: any failure is taken for an absent key.
KeySearch(p) ==
  /\ backend = "keyutils" /\ pc[p] \in DOMAIN After /\ keyid[p] = None
  /\ \/ Entry(p) # NoKey /\ keyid' = [keyid EXCEPT ![p] = Entry(p).key] /\ UNCHANGED <<pc, spared>>
     \/ Goto(p, After[pc[p]]) /\ Spare(p) /\ UNCHANGED keyid
  /\ UNCHANGED <<disk, ring, now, bytes, typed, via, put, since, dels>>

Holds(p) == Entry(p) # NoKey /\ Entry(p).key = keyid[p]

\* KEYCTL_UNLINK of the serial found; an error when it is no longer linked, or when the
\* call fails and the key stays.
KeyUnlink(p) ==
  /\ pc[p] \in {"forget", "drop"} /\ keyid[p] # None
  /\ \/ Holds(p) /\ ring' = [ring EXCEPT ![CacheID(bytes[p])] = NoKey] /\ Deleted(p) /\ UNCHANGED spared
     \/ Holds(p) /\ Spare(p) /\ UNCHANGED <<ring, dels>>
     \/ ~Holds(p) /\ UNCHANGED <<ring, dels, spared>>
  /\ keyid' = [keyid EXCEPT ![p] = None] /\ Goto(p, After[pc[p]])
  /\ UNCHANGED <<disk, now, bytes, typed, via, put, since>>

\* KEYCTL_READ of the serial found; ErrMiss when it is gone or the call fails.
KeyRead(p) ==
  /\ backend = "keyutils" /\ pc[p] = "get" /\ keyid[p] # None
  /\ \/ Holds(p) /\ TryCached(p, Entry(p).pass)
     \/ Goto(p, "prompt") /\ UNCHANGED via
  /\ keyid' = [keyid EXCEPT ![p] = None]
  /\ UNCHANGED <<disk, ring, now, bytes, typed, put, history>>

\* SecItemDelete; absent is success, any other status an error that leaves the item.
ItemDelete(p) ==
  /\ backend = "keychain" /\ pc[p] \in {"forget", "drop"}
  /\ \/ /\ Entry(p) # NoKey /\ ring' = [ring EXCEPT ![CacheID(bytes[p])] = NoKey]
        /\ Deleted(p) /\ UNCHANGED spared
     \/ Spare(p) /\ UNCHANGED <<ring, dels>>
  /\ Goto(p, After[pc[p]])
  /\ UNCHANGED <<disk, now, bytes, keyid, typed, via, put, since>>

\* SecItemCopyMatching; any failure (a locked keychain) is ErrMiss.
ItemGet(p) ==
  /\ backend = "keychain" /\ pc[p] = "get"
  /\ \/ Entry(p) # NoKey /\ TryCached(p, Entry(p).pass)
     \/ Goto(p, "prompt") /\ UNCHANGED via
  /\ UNCHANGED <<disk, ring, now, bytes, keyid, typed, put, history>>

-----------------------------------------------------------------------------
\* The prompt, when the cache gave nothing.

PutStart == IF backend = "keyutils" THEN "addkey" ELSE "add"

\* ReadPassphrase may fail; Unwrap of what it returned; then Put.
Prompt(p) ==
  /\ pc[p] = "prompt"
  /\ \/ Goto(p, "usage") /\ UNCHANGED <<typed, via>>
     \/ \E pw \in Passphrases :
          /\ typed' = [typed EXCEPT ![p] = pw]
          /\ IF Unwrap(pw, bytes[p])
             THEN /\ via' = [via EXCEPT ![p] = "typed"]
                  /\ Goto(p, IF Cacheable(p, bytes[p]) THEN PutStart ELSE "unlocked")
             ELSE Goto(p, "badcapsule") /\ UNCHANGED via
  /\ UNCHANGED <<disk, ring, now, bytes, keyid, put, history>>

\* AddKey: a new key, or the payload of the linked one replaced, which clears
\* its timeout.  A zero TTL or a failing call ends Put without an entry.
MutKeyAdd(p) ==
  /\ pc[p] = "addkey" /\ Ttl # 0
  /\ LET k == IF Entry(p) = NoKey THEN p ELSE Entry(p).key IN
       /\ ring' = [ring EXCEPT ![CacheID(bytes[p])] = NewKey(p, k)]
       /\ keyid' = [keyid EXCEPT ![p] = IF Entry(p) = NoKey THEN k ELSE None]
  /\ Cached(p) /\ Goto(p, IF Entry(p) = NoKey THEN "settimeout" ELSE "unlocked")
  /\ UNCHANGED <<disk, now, bytes, typed, via, put, spared, dels>>
KeyAdd(p) ==
  /\ pc[p] = "addkey"
  /\ \/ Goto(p, "unlocked") /\ UNCHANGED <<ring, keyid, since>>
     \/ /\ Ttl # 0
        /\ LET k == IF Entry(p) = NoKey THEN p ELSE Entry(p).key IN
             /\ ring' = [ring EXCEPT ![CacheID(bytes[p])] = NewKey(p, k)]
             /\ keyid' = [keyid EXCEPT ![p] = k]
        /\ Cached(p) /\ Goto(p, "settimeout")
  /\ UNCHANGED <<disk, now, bytes, typed, via, put, spared, dels>>

\* KEYCTL_SET_TIMEOUT on the serial AddKey returned; its error is Put's.
KeySetTimeout(p) ==
  /\ pc[p] = "settimeout" /\ Goto(p, "unlocked")
  /\ \/ /\ Holds(p)
        /\ ring' = [ring EXCEPT ![CacheID(bytes[p])] = Timing(Entry(p), now + TtlSec)]
        /\ keyid' = [keyid EXCEPT ![p] = None] /\ UNCHANGED putErr
     \/ /\ putErr' = [putErr EXCEPT ![p] = "noTimeout"]
        /\ UNCHANGED <<ring, keyid>>
  /\ UNCHANGED <<disk, now, bytes, typed, via, attempt, history>>

StoreItem(p) ==
  /\ ring' = [ring EXCEPT ![CacheID(bytes[p])] = NewKey(p, p)]
  /\ Cached(p) /\ Goto(p, "unlocked")

\* SecItemAdd: stored, a duplicate, or another error.
ItemAdd(p) ==
  /\ pc[p] = "add"
  /\ \/ Entry(p) = NoKey /\ StoreItem(p) /\ UNCHANGED putErr
     \/ Entry(p) # NoKey /\ Goto(p, "update") /\ UNCHANGED <<ring, since, putErr>>
     \/ Goto(p, "unlocked") /\ putErr' = [putErr EXCEPT ![p] = "addFailed"] /\ UNCHANGED <<ring, since>>
  /\ UNCHANGED <<disk, now, bytes, keyid, typed, via, attempt, spared, dels>>

\* SecItemUpdate: not found goes round the loop once, then is the error, like any other status.
MutItemUpdateOnce(p) ==
  /\ pc[p] = "update"
  /\ IF Entry(p) # NoKey THEN StoreItem(p) /\ UNCHANGED putErr
     ELSE /\ Goto(p, "unlocked") /\ UNCHANGED <<ring, since>>
          /\ putErr' = [putErr EXCEPT ![p] = "updateNotFound"]
  /\ UNCHANGED <<disk, now, bytes, keyid, typed, via, attempt, spared, dels>>
ItemUpdate(p) ==
  /\ pc[p] = "update"
  /\ \/ Entry(p) # NoKey /\ StoreItem(p) /\ UNCHANGED put
     \/ /\ Entry(p) = NoKey /\ attempt[p] = 0
        /\ attempt' = [attempt EXCEPT ![p] = 1] /\ Goto(p, "add")
        /\ UNCHANGED <<ring, since, putErr>>
     \/ /\ Entry(p) = NoKey /\ attempt[p] = 1
        /\ putErr' = [putErr EXCEPT ![p] = "updateNotFound"] /\ Goto(p, "unlocked")
        /\ UNCHANGED <<ring, since, attempt>>
     \/ /\ putErr' = [putErr EXCEPT ![p] = "updateFailed"] /\ Goto(p, "unlocked")
        /\ UNCHANGED <<ring, since, attempt>>
  /\ UNCHANGED <<disk, now, bytes, keyid, typed, via, spared, dels>>

\* The process is killed; the serial of a key it was to time out is kept as history.
Kill(p) ==
  /\ pc[p] \notin {"unlocked", "usage", "badcapsule", "killed"}
  /\ Goto(p, "killed")
  /\ keyid' = [keyid EXCEPT ![p] = IF pc[p] = "settimeout" THEN @ ELSE None]
  /\ UNCHANGED <<disk, ring, now, bytes, typed, via, put, history>>

\* Time passes and the kernel drops the keys whose timeout is reached.
Tick ==
  /\ now < MaxTime /\ now' = now + 1
  /\ ring' = [w \in Wraps |->
       IF ring[w] # NoKey /\ ring[w].expiry # Never /\ ring[w].expiry <= now'
       THEN NoKey ELSE ring[w]]
  /\ UNCHANGED <<disk, pc, bytes, keyid, typed, via, put, history>>

Step(p) ==
  \/ Stat(p) \/ Read(p) \/ KeySearch(p) \/ KeyUnlink(p) \/ KeyRead(p)
  \/ ItemDelete(p) \/ ItemGet(p) \/ Prompt(p) \/ KeyAdd(p) \/ KeySetTimeout(p)
  \/ ItemAdd(p) \/ ItemUpdate(p) \/ Kill(p)

Next == WriteBegin \/ WriteEnd \/ Damage \/ Tick \/ (\E p \in Procs : Step(p))
Spec == Init /\ [][Next]_vars

-----------------------------------------------------------------------------
\* The types; in particular the keychain's Put goes round its loop at most twice.
UnlockTypeOK ==
  /\ backend \in Backends /\ file \in Capsule \cup {Empty} /\ wraps \in Wraps
  /\ ring \in [Wraps -> Key \cup {NoKey}] /\ now \in 0..MaxTime
  /\ pc \in [Procs -> {"start", "read", "forget", "get", "drop", "prompt", "addkey", "settimeout",
                       "add", "update", "unlocked", "usage", "badcapsule", "killed"}]
  /\ bytes \in [Procs -> Capsule \cup {Empty}] /\ keyid \in [Procs -> Procs \cup {Earlier, None}]
  /\ typed \in [Procs -> Passphrases \cup {None}] /\ via \in [Procs -> {None, "cache", "typed"}]
  /\ attempt \in [Procs -> 0..1]
  /\ putErr \in [Procs -> {None, "addFailed", "updateFailed", "updateNotFound", "noTimeout"}]
  /\ since \in [Procs -> SUBSET Wraps] /\ spared \in [Procs -> BOOLEAN] /\ dels \in [Procs -> Nat]

\* Whatever commands, rewrites of the capsule and killed processes interleave,
\* a cached passphrase is the one its capsule is wrapped under: Put only
\* follows a successful Unwrap of the same bytes, and a rewrite has a new ID.
CacheSound == \A w \in Wraps : ring[w] # NoKey => ring[w].pass = Secret[w]

\* The cache alone never fails a command: one that read a capsule and exits
\* with EDDCapsuleUnwrap asked for a passphrase, and that one did not open it.
CacheHarmless ==
  \A p \in Procs : (pc[p] = "badcapsule" /\ bytes[p] # Empty) =>
    typed[p] # None /\ ~Unwrap(typed[p], bytes[p])

\* HOWTO, --forget-passcache: "forget cached passphrase and re-prompt".  A command given
\* it unlocks from the cache only with an entry that some command wrote after its Forget
\* began, or when a call of its Forget failed with the entry there: that error is ignored,
\* and the old entry then unlocks the capsule without a prompt.
ForgetEffective ==
  \A p \in Forgetters : via[p] = "cache" => CacheID(bytes[p]) \in since[p] \/ spared[p]

\* HOWTO: the passphrase cache "auto-expires".  On Linux an entry lacks a timeout
\* only while a Put that has its serial is about to set one, or after such a Put
\* was killed there or KEYCTL_SET_TIMEOUT failed: no interleaving of commands
\* that run to their end leaves one behind.
ExpiryArmed ==
  backend = "keyutils" => \A w \in Wraps : (ring[w] # NoKey /\ ring[w].expiry = Never) =>
    \E p \in Procs :
      /\ keyid[p] = ring[w].key
      /\ pc[p] \in {"settimeout", "killed"} \/ putErr[p] = "noTimeout"

\* The keychain's Put gives up on a missing item only when the entry was
\* deleted under it twice: one concurrent Forget never loses a passphrase.
OneForgetSurvived == \A p \in Procs : putErr[p] = "updateNotFound" => dels[p] >= 2

=============================================================================
