---------------------------- MODULE UnlockProofs ----------------------------
(***************************************************************************)
(* CacheSound, CacheHarmless, ForgetEffective, ExpiryArmed and             *)
(* OneForgetSurvived of Unlock, for any number of commands, of capsules    *)
(* and of passphrases and any TTL.                                         *)
(***************************************************************************)
EXTENDS Unlock, TLAPS

\* Where a command uses the cache, and where it is in Put, after an Unwrap that succeeded.
Putting == {"addkey", "settimeout", "add", "update"}
Caching == {"forget", "get", "drop"} \cup Putting

\* What a command knows of itself.
Local(p) ==
  /\ pc[p] \in {"start", "read"} => bytes[p] = Empty /\ keyid[p] = None /\ via[p] = None
  /\ pc[p] \in Caching \/ keyid[p] # None => bytes[p] # Empty
  /\ pc[p] \in Putting => typed[p] = Secret[CacheID(bytes[p])]
  /\ pc[p] \in {"addkey", "settimeout"} => backend = "keyutils"
  /\ pc[p] \in {"add", "update"} => backend = "keychain"
  /\ putErr[p] = "noTimeout" => pc[p] = "unlocked"
  /\ attempt[p] # 0 => pc[p] \in {"add", "update", "unlocked", "killed"}
  /\ pc[p] = "badcapsule" /\ bytes[p] # Empty => typed[p] # None /\ ~Unwrap(typed[p], bytes[p])

\* A serial names the key of one capsule for good: that of the command that added it.
Names(k, w) == IF k = Earlier THEN w = 1 ELSE bytes[k] # Empty /\ CacheID(bytes[k]) = w

Serial(p) == keyid[p] # None => Names(keyid[p], CacheID(bytes[p]))
Stored(w) ==
  ring[w] # NoKey =>
    /\ ring[w].pass = Secret[w] /\ Names(ring[w].key, w)
    /\ backend = "keychain" => ring[w].expiry = Never

\* Past its Forget, or about to unlink a key that is no longer the one there, a forgetting
\* command meets only entries written since, or one a failing call spared.
Renewed(p) == CacheID(bytes[p]) \in since[p] \/ spared[p]
Forgot(p) ==
  p \in Forgetters =>
    /\ via[p] = "cache" => Renewed(p)
    /\ pc[p] = "get" /\ Entry(p) # NoKey => Renewed(p)
    /\ pc[p] = "forget" /\ keyid[p] # None /\ Entry(p) # NoKey /\ Entry(p).key # keyid[p] => Renewed(p)

\* Each round of the keychain's Put was cost by a deletion.
Counted(p) ==
  /\ pc[p] = "add" => dels[p] >= attempt[p]
  /\ pc[p] = "update" => dels[p] >= attempt[p] + (IF Entry(p) = NoKey THEN 1 ELSE 0)
  /\ putErr[p] = "updateNotFound" => dels[p] >= 2

UInv ==
  /\ UnlockTypeOK /\ ExpiryArmed
  /\ \A p \in Procs : Local(p) /\ Serial(p) /\ Forgot(p) /\ Counted(p)
  /\ \A w \in Wraps : Stored(w)

-----------------------------------------------------------------------------
(* The records and constants                                               *)

\* A capsule is not the empty file, a key is not the missing one.
LEMMA Shapes ==
  /\ \A b \in Capsule \cup {Empty} : b # Empty => b.wrap \in Wraps
  /\ \A w \in Wraps : [wrap |-> w, whole |-> TRUE] # Empty
  /\ \A k \in Key : k # NoKey /\ k.key \in Procs \cup {Earlier}
  /\ TtlSec \in Nat \ {0} /\ Never \notin Nat
BY UnlockAssumption DEF Capsule, Empty, Wraps, Key, NoKey, Never, None, TtlSec

\* What Put stores, and what its timeout changes of it.
LEMMA Keys ==
  /\ \A p \in Procs, k \in Procs \cup {Earlier} :
       /\ NewKey(p, k).pass = typed[p] /\ NewKey(p, k).key = k /\ NewKey(p, k).expiry = Never
       /\ NewKey(p, k) # NoKey
  /\ \A e \in Key, t \in Nat :
       /\ Timing(e, t) \in Key /\ Timing(e, t).pass = e.pass /\ Timing(e, t).key = e.key
       /\ Timing(e, t).expiry = t /\ Timing(e, t) # NoKey
<1>1. ASSUME NEW p \in Procs, NEW k \in Procs \cup {Earlier}
      PROVE  /\ NewKey(p, k).pass = typed[p] /\ NewKey(p, k).key = k /\ NewKey(p, k).expiry = Never
             /\ NewKey(p, k) # NoKey
  <2>1. NewKey(p, k).key = k /\ NoKey.key = None /\ k # None
    BY Zenon, <1>1, UnlockAssumption DEF NewKey, NoKey, None, Earlier
  <2> QED
    BY Zenon, <2>1 DEF NewKey
<1>2. ASSUME NEW e \in Key, NEW t \in Nat
      PROVE  /\ Timing(e, t) \in Key /\ Timing(e, t).pass = e.pass /\ Timing(e, t).key = e.key
             /\ Timing(e, t).expiry = t
  BY Zenon, <1>2 DEF Timing, Key
<1> QED
  BY <1>1, <1>2, Shapes

\* Where Forget and Get lead.
LEMMA AfterIs ==
  /\ DOMAIN After = {"forget", "drop", "get"}
  /\ After["forget"] = "get" /\ After["drop"] = "prompt" /\ After["get"] = "prompt"
BY Zenon DEF After

\* The first commands find at most the entry an earlier one left.
LEMMA InitUInv == Init => UInv
<1> SUFFICES ASSUME Init PROVE UInv
  OBVIOUS
<1> DEFINE old == [pass |-> Secret[1], key |-> Earlier,
                   expiry |-> IF backend = "keyutils" THEN TtlSec ELSE Never]
<1>0. 1 \in Wraps /\ Secret[1] \in Passphrases /\ old \in Key
  BY UnlockAssumption, Shapes DEF Wraps, Key
<1>1. /\ ring \in [Wraps -> Key \cup {NoKey}]
      /\ \A w \in Wraps : ring[w] # NoKey => w = 1 /\ ring[w] = old
  BY <1>0 DEF Init
<1>2. UnlockTypeOK
  BY <1>0, UnlockAssumption DEF Init, UnlockTypeOK, Capsule
<1>3. ExpiryArmed
  BY <1>0, <1>1, Shapes DEF ExpiryArmed, Never
<1>4. \A w \in Wraps : Stored(w)
  BY <1>0, <1>1 DEF Stored, Names
<1>5. ASSUME NEW p \in Procs PROVE Local(p) /\ Serial(p) /\ Forgot(p) /\ Counted(p)
  BY Zenon DEF Init, Local, Serial, Forgot, Renewed, Counted, Putting, Caching, None
<1> QED
  BY <1>2, <1>3, <1>4, <1>5 DEF UInv

-----------------------------------------------------------------------------
(* A step of one command, as the others and the cache see it.              *)

\* It leaves the others' state alone, and a capsule once read is not read again.
Mine(p) ==
  /\ backend' = backend /\ pc[p] \notin {"unlocked", "usage", "badcapsule", "killed"}
  /\ \A q \in Procs \ {p} :
       /\ pc'[q] = pc[q] /\ bytes'[q] = bytes[q] /\ keyid'[q] = keyid[q] /\ typed'[q] = typed[q]
       /\ via'[q] = via[q] /\ attempt'[q] = attempt[q] /\ putErr'[q] = putErr[q]
       /\ spared'[q] = spared[q]
  /\ \A q \in Procs : bytes[q] # Empty => bytes'[q] = bytes[q]

\* The cache is left alone; a Put that gives up before its timeout is set says so,
Kept(p) ==
  /\ UNCHANGED <<ring, since, dels>>
  /\ pc[p] = "settimeout" => keyid'[p] = keyid[p] /\ (pc'[p] = "killed" \/ putErr'[p] = "noTimeout")

\* or its entry removed,
Erased(p) ==
  /\ pc[p] \in {"forget", "drop"} /\ bytes[p] # Empty
  /\ ring' = [ring EXCEPT ![CacheID(bytes[p])] = NoKey] /\ Deleted(p) /\ UNCHANGED since

\* or written: under the serial that is there or under a new one, yet without a timeout,
Written(p) ==
  /\ pc[p] \in {"addkey", "add", "update"} /\ bytes[p] # Empty
  /\ \E k \in Procs \cup {Earlier} :
       /\ ring' = [ring EXCEPT ![CacheID(bytes[p])] = NewKey(p, k)]
       /\ Names(k, CacheID(bytes[p]))
       /\ backend = "keyutils" => keyid'[p] = k /\ pc'[p] = "settimeout"
  /\ Cached(p) /\ UNCHANGED dels

\* or given one.
Timed(p) ==
  /\ pc[p] = "settimeout" /\ Holds(p)
  /\ \E n \in Nat : ring' = [ring EXCEPT ![CacheID(bytes[p])] = Timing(Entry(p), n)]
  /\ UNCHANGED <<since, dels>>

Own(p) == Local(p) /\ Serial(p) /\ Forgot(p) /\ Counted(p)
Fair(p) == Mine(p) /\ (Kept(p) \/ Erased(p) \/ Written(p) \/ Timed(p))

\* What a command's step does to an entry, its own or another's.
LEMMA EntryMoves ==
  ASSUME UInv, UnlockTypeOK', NEW p \in Procs, Fair(p), NEW w \in Wraps
  PROVE  /\ \/ ring'[w] = ring[w]
            \/ Erased(p) /\ w = CacheID(bytes[p]) /\ ring'[w] = NoKey
            \/ Written(p) /\ w = CacheID(bytes[p]) /\ ring'[w] # NoKey
            \/ /\ Timed(p) /\ w = CacheID(bytes[p]) /\ ring[w] # NoKey /\ ring'[w] # NoKey
               /\ ring'[w].pass = ring[w].pass /\ ring'[w].key = ring[w].key
               /\ ring'[w].expiry \in Nat /\ ring[w].key = keyid[p]
<1>0. ring \in [Wraps -> Key \cup {NoKey}]
  BY Zenon DEF UInv, UnlockTypeOK
<1>1. CASE Kept(p)
  BY Zenon, <1>1 DEF Kept
<1>2. CASE Erased(p)
  BY Zenon, <1>0, <1>2 DEF Erased
<1>3. CASE Written(p)
  <2>1. PICK k \in Procs \cup {Earlier} : ring' = [ring EXCEPT ![CacheID(bytes[p])] = NewKey(p, k)]
    BY Zenon, <1>3 DEF Written
  <2> QED
    BY <1>3, <2>1, Keys
<1>4. CASE Timed(p)
  <2>1. PICK n \in Nat : ring' = [ring EXCEPT ![CacheID(bytes[p])] = Timing(Entry(p), n)]
    BY Zenon, <1>4 DEF Timed
  <2>2. Entry(p) # NoKey /\ Entry(p).key = keyid[p] /\ Entry(p) = ring[CacheID(bytes[p])]
    BY Zenon, <1>4 DEF Timed, Holds, Entry
  <2>3. CASE w = CacheID(bytes[p])
    <3>1. ring[w] \in Key /\ ring'[w] = Timing(ring[w], n)
      BY Zenon, <1>0, <2>1, <2>2, <2>3
    <3> QED
      BY <1>4, <2>2, <2>3, <3>1, Keys
  <2> QED
    BY <2>1, <2>3
<1> QED
  BY Zenon, <1>1, <1>2, <1>3, <1>4 DEF Fair

\* A serial goes on naming the same capsule.
LEMMA NamesKept ==
  ASSUME NEW p \in Procs, Mine(p), NEW k \in Procs \cup {Earlier}, NEW w, Names(k, w)
  PROVE  Names(k, w)'
BY Zenon, UnlockAssumption DEF Names, Mine

\* A command that has no part in the step knows as much as before.
LEMMA OthersOwn ==
  ASSUME UInv, UnlockTypeOK', NEW p \in Procs, Fair(p), NEW q \in Procs \ {p}
  PROVE  Own(q)'
<1> DEFINE w == CacheID(bytes[q])
<1>0. /\ Mine(p) /\ UnlockTypeOK /\ Local(q) /\ Serial(q) /\ Forgot(q) /\ Counted(q)
      /\ CacheID(bytes[q])' = w
  BY Zenon DEF Fair, UInv, Mine, CacheID
<1>1. Local(q)'
  BY Zenon, <1>0 DEF Local, Mine
<1>2. Serial(q)'
  <2>1. keyid'[q] = keyid[q] /\ (keyid[q] # None => keyid[q] \in Procs \cup {Earlier})
    BY <1>0 DEF Mine, UnlockTypeOK
  <2> QED
    BY Zenon, <1>0, <2>1, NamesKept DEF Serial
<1>3. pc[q] \in Caching => w \in Wraps
  BY Zenon, <1>0, Shapes DEF Local, UnlockTypeOK, CacheID
<1>w. Written(p) =>
        /\ dels'[q] = dels[q] /\ since[q] \subseteq since'[q]
        /\ CacheID(bytes[p]) = w /\ q \in Forgetters /\ pc[q] \in {"forget", "get"} => w \in since'[q]
  BY DEF Written, Cached
<1>e. Erased(p) =>
        /\ since'[q] = since[q] /\ dels'[q] \in {dels[q], dels[q] + 1}
        /\ CacheID(bytes[p]) = w /\ pc[q] = "update" => dels'[q] = dels[q] + 1
  BY Zenon, <1>0 DEF Erased, Deleted, Local, Caching, Putting
<1>4. since[q] \subseteq since'[q] /\ dels[q] <= dels'[q] /\ dels[q] \in Nat /\ dels'[q] \in Nat
  <2>1. Kept(p) \/ Timed(p) => since' = since /\ dels' = dels
    BY Zenon DEF Kept, Timed, history
  <2>2. dels[q] \in Nat
    BY Zenon, <1>0 DEF UnlockTypeOK
  <2> QED
    BY <1>w, <1>e, <2>1, <2>2 DEF Fair
<1>5. Forgot(q)'
  <2> HIDE DEF w
  <2> QED
    BY <1>0, <1>w, <1>3, <1>4, EntryMoves DEF Forgot, Renewed, Mine, Entry, Caching
<1>6. Counted(q)'
  <2>1. attempt[q] \in 0..1
    BY Zenon, <1>0 DEF UnlockTypeOK
  <2> HIDE DEF w
  <2> QED
    BY <1>0, <1>e, <1>3, <1>4, <2>1, EntryMoves DEF Counted, Mine, Entry, Caching, Putting
<1> QED
  BY <1>1, <1>2, <1>5, <1>6 DEF Own

\* The cache stays sound, and no entry is left without a timeout for good.
LEMMA CacheKept ==
  ASSUME UInv, UnlockTypeOK', NEW p \in Procs, Fair(p)
  PROVE  ExpiryArmed' /\ \A w \in Wraps : Stored(w)'
<1>0. Mine(p) /\ UnlockTypeOK /\ Own(p) /\ backend' = backend
  BY Zenon DEF Fair, Mine, UInv, Own
<1>5. ring \in [Wraps -> Key \cup {NoKey}]
  BY Zenon DEF UInv, UnlockTypeOK
<1>1. ASSUME NEW w \in Wraps PROVE Stored(w)'
  <2>0. Stored(w) /\ (ring[w] # NoKey => ring[w].key \in Procs \cup {Earlier})
    BY Zenon, <1>5, Shapes DEF UInv
  <2>1. CASE ring'[w] = ring[w]
    BY Zenon, <1>0, <2>0, <2>1, NamesKept DEF Stored
  <2>2. CASE Written(p) /\ w = CacheID(bytes[p])
    <3>1. PICK k \in Procs \cup {Earlier} :
            ring' = [ring EXCEPT ![w] = NewKey(p, k)] /\ Names(k, w)
      BY Zenon, <2>2 DEF Written
    <3>2. typed[p] = Secret[w] /\ Names(k, w)'
      BY Zenon, <1>0, <2>2, <3>1, NamesKept DEF Written, Own, Local, Putting
    <3> QED
      BY <1>5, <3>1, <3>2, Keys DEF Stored
  <2>3. CASE /\ Timed(p) /\ ring[w] # NoKey
             /\ ring'[w].pass = ring[w].pass /\ ring'[w].key = ring[w].key
    BY Zenon, <1>0, <2>0, <2>3, NamesKept DEF Stored, Timed, Own, Local
  <2> QED
    BY Zenon, <2>1, <2>2, <2>3, EntryMoves DEF Stored
<1>2. ASSUME backend = "keyutils", NEW w \in Wraps, ring'[w] # NoKey, ring'[w].expiry = Never
      PROVE  \E q \in Procs : /\ keyid'[q] = ring'[w].key
                              /\ pc'[q] \in {"settimeout", "killed"} \/ putErr'[q] = "noTimeout"
  <2>1. CASE Written(p) /\ w = CacheID(bytes[p])
    <3>1. PICK k \in Procs \cup {Earlier} :
            /\ ring' = [ring EXCEPT ![w] = NewKey(p, k)]
            /\ keyid'[p] = k /\ pc'[p] = "settimeout"
      BY Zenon, <1>2, <2>1 DEF Written
    <3> QED
      BY <1>5, <3>1, Keys
  <2>2. CASE ring'[w] = ring[w]
    <3>1. PICK q \in Procs : /\ keyid[q] = ring[w].key
                             /\ pc[q] \in {"settimeout", "killed"} \/ putErr[q] = "noTimeout"
      BY Zenon, <1>2, <2>2 DEF UInv, ExpiryArmed
    <3>2. CASE q # p
      BY Zenon, <1>0, <2>2, <3>1, <3>2 DEF Mine
    <3>3. CASE q = p
      <4>1. pc[p] = "settimeout"
        BY Zenon, <1>0, <3>1, <3>3 DEF Mine, Own, Local
      <4>2. CASE Kept(p)
        BY Zenon, <2>2, <3>1, <3>3, <4>1, <4>2 DEF Kept
      <4>3. CASE Timed(p)
        <5>1. Names(ring[w].key, w) /\ keyid[p] = ring[w].key
          BY Zenon, <1>2, <2>2, <3>1, <3>3 DEF UInv, Stored
        <5>2. keyid[p] # None
          BY <1>2, <1>5, <2>2, <5>1, Shapes, UnlockAssumption DEF None, Earlier
        <5>3. w = CacheID(bytes[p])
          BY Zenon, <1>0, <5>1, <5>2 DEF Names, Own, Serial
        <5>4. PICK n \in Nat : ring' = [ring EXCEPT ![w] = Timing(Entry(p), n)]
          BY Zenon, <4>3, <5>3 DEF Timed
        <5> QED
          BY <1>2, <1>5, <2>2, <5>3, <5>4, Keys, Shapes DEF Entry
      <4> QED
        BY Zenon, <4>1, <4>2, <4>3 DEF Fair, Erased, Written
    <3> QED
      BY Zenon, <3>2, <3>3
  <2>3. CASE ring'[w].expiry \in Nat
    BY Zenon, <1>2, <2>3, Shapes
  <2> QED
    BY Zenon, <1>2, <2>1, <2>2, <2>3, EntryMoves
<1> QED
  BY Zenon, <1>0, <1>1, <1>2 DEF ExpiryArmed

\* So of a command's step only the command itself has to be looked at.
LEMMA OneCommand ==
  ASSUME UInv, UnlockTypeOK', NEW p \in Procs, Fair(p), Own(p)'
  PROVE  UInv'
<1>1. ASSUME NEW q \in Procs PROVE Own(q)'
  BY <1>1, OthersOwn
<1> QED
  BY Zenon, <1>1, CacheKept DEF UInv, Own

-----------------------------------------------------------------------------
(* The steps of a command, one by one.                                     *)

\* What a command about to use the cache holds: its own capsule's ID, and what Put is to store.
LEMMA InCache ==
  ASSUME UInv, NEW p \in Procs, pc[p] \in Caching
  PROVE  /\ bytes[p] # Empty /\ CacheID(bytes[p]) \in Wraps /\ Entry(p) \in Key \cup {NoKey}
         /\ Entry(p) # NoKey =>
              Entry(p).key \in Procs \cup {Earlier} /\ Names(Entry(p).key, CacheID(bytes[p]))
         /\ pc[p] \in Putting => typed[p] \in Passphrases
         /\ Names(p, CacheID(bytes[p]))
<1>1. bytes[p] # Empty /\ bytes[p] \in Capsule \cup {Empty} /\ ring \in [Wraps -> Key \cup {NoKey}]
  BY Zenon DEF UInv, UnlockTypeOK, Local
<1>2. CacheID(bytes[p]) \in Wraps
  BY Zenon, <1>1, Shapes DEF CacheID
<1>3. Entry(p) \in Key \cup {NoKey}
  BY Zenon, <1>1, <1>2 DEF Entry
<1>4. Entry(p) # NoKey => Entry(p).key \in Procs \cup {Earlier} /\ Names(Entry(p).key, CacheID(bytes[p]))
  BY Zenon, <1>2, <1>3, Shapes DEF UInv, Stored, Entry
<1>5. pc[p] \in Putting => typed[p] \in Passphrases
  BY Zenon, <1>2, UnlockAssumption DEF UInv, Local
<1>6. Names(p, CacheID(bytes[p]))
  BY Zenon, <1>1, UnlockAssumption DEF Names
<1> QED
  BY Zenon, <1>1, <1>2, <1>3, <1>4, <1>5, <1>6

\* Only the command itself is noted to have spared an entry, and that for good.
LEMMA Spares ==
  ASSUME UnlockTypeOK, NEW p \in Procs, Spare(p) \/ UNCHANGED spared
  PROVE  /\ spared' \in [Procs -> BOOLEAN] /\ (spared[p] => spared'[p])
         /\ \A q \in Procs \ {p} : spared'[q] = spared[q]
         /\ Spare(p) /\ pc[p] = "forget" /\ Entry(p) # NoKey => spared'[p]
<1>1. spared \in [Procs -> BOOLEAN]
  BY Zenon DEF UnlockTypeOK
<1>2. CASE UNCHANGED spared
  BY Zenon, <1>1, <1>2 DEF Spare
<1>3. CASE Spare(p)
  BY Zenon, <1>1, <1>3 DEF Spare
<1> QED
  BY <1>2, <1>3

\* os.Stat decides whether there is anything to read.
LEMMA StatStep ==
  ASSUME UInv, NEW p \in Procs, UnlockTypeOK, Local(p), Serial(p), Forgot(p), Counted(p), Stat(p)
  PROVE  UnlockTypeOK' /\ Fair(p) /\ Own(p)'
<1>1. UnlockTypeOK'
  BY Zenon DEF UnlockTypeOK, Stat, Goto, disk, put, history
<1>2. Mine(p)
  BY DEF Stat, Goto, disk, put, history, Mine
<1>3. Kept(p)
  BY Zenon DEF Stat, Kept, history
<1>4. Own(p)'
  BY Zenon DEF UnlockTypeOK, Stat, Goto, put, history, Own, Local, Serial, Forgot, Renewed, Counted,
     Caching, Putting, None
<1> QED
  BY <1>1, <1>2, <1>3, <1>4 DEF Fair

\* What is read decides whether the cache is used, and a forgetting command forgets first.
LEMMA ReadStep ==
  ASSUME UInv, NEW p \in Procs, UnlockTypeOK, Local(p), Serial(p), Forgot(p), Counted(p), Read(p)
  PROVE  UnlockTypeOK' /\ Fair(p) /\ Own(p)'
<1>1. UnlockTypeOK'
  BY Zenon DEF UnlockTypeOK, Read, Goto, disk, put, history
<1>2. Mine(p)
  BY Zenon DEF UnlockTypeOK, Read, Goto, disk, put, history, Mine, Local
<1>3. Kept(p)
  BY Zenon DEF Read, Cacheable, Kept, history
<1>4. /\ pc[p] = "read" /\ bytes'[p] = file
      /\ pc'[p] \in {"usage", "prompt", IF p \in Forgetters THEN "forget" ELSE "get"}
      /\ pc'[p] \in {"forget", "get"} => file # Empty
      /\ UNCHANGED <<backend, ring, keyid, typed, via, attempt, putErr, since, spared, dels>>
  BY Zenon DEF UnlockTypeOK, Read, Goto, Cacheable, disk, put, history
<1>5. Own(p)'
  BY Zenon, <1>4 DEF Own, Local, Serial, Forgot, Renewed, Counted, Caching, Putting, None
<1> QED
  BY <1>1, <1>2, <1>3, <1>5 DEF Fair

\* The serial found is that of the capsule's own key.
LEMMA KeySearchStep ==
  ASSUME UInv, NEW p \in Procs, UnlockTypeOK, Local(p), Serial(p), Forgot(p), Counted(p), KeySearch(p)
  PROVE  UnlockTypeOK' /\ Fair(p) /\ Own(p)'
<1>0. /\ pc[p] \in Caching /\ bytes[p] # Empty
      /\ Entry(p) # NoKey => Entry(p).key \in Procs \cup {Earlier} /\ Names(Entry(p).key, CacheID(bytes[p]))
  BY Zenon, AfterIs, InCache DEF KeySearch, Caching
<1>s. Spare(p) \/ UNCHANGED spared
  BY Zenon DEF KeySearch
<1>t. spared' \in [Procs -> BOOLEAN] /\ \A q \in Procs \ {p} : spared'[q] = spared[q]
  BY Zenon, <1>s, Spares
<1>1. UnlockTypeOK'
  BY AfterIs, <1>0, <1>t DEF UnlockTypeOK, KeySearch, Goto, disk, put
<1>2. Mine(p)
  BY AfterIs, <1>t DEF UnlockTypeOK, KeySearch, Goto, disk, put, Mine
<1>3. Kept(p)
  BY Zenon, AfterIs DEF KeySearch, Kept
<1>4. /\ pc[p] \in DOMAIN After /\ keyid[p] = None
      /\ \/ pc'[p] = After[pc[p]] /\ keyid'[p] = None /\ Spare(p)
         \/ pc'[p] = pc[p] /\ Entry(p) # NoKey /\ keyid'[p] = Entry(p).key
      /\ UNCHANGED <<backend, ring, bytes, typed, via, attempt, putErr, since, dels>>
  BY Zenon DEF UnlockTypeOK, KeySearch, Goto, disk, put
<1>5. spared[p] => spared'[p]
  BY Zenon, <1>s, Spares
<1>6. Spare(p) /\ pc[p] = "forget" /\ Entry(p) # NoKey => spared'[p]
  BY Zenon, Spares
<1>7. Own(p)'
  BY Zenon, AfterIs, <1>0, <1>4, <1>5, <1>6 DEF Own, Local, Serial, Names, Forgot, Renewed, Counted,
     Entry, Caching, Putting, CacheID, None
<1> QED
  BY <1>1, <1>2, <1>3, <1>7 DEF Fair

\* Forget removes the key whose serial it has, or finds a newer one.
LEMMA KeyUnlinkStep ==
  ASSUME UInv, NEW p \in Procs, UnlockTypeOK, Local(p), Serial(p), Forgot(p), Counted(p), KeyUnlink(p)
  PROVE  UnlockTypeOK' /\ Fair(p) /\ Own(p)'
<1>s. Spare(p) \/ UNCHANGED spared
  BY Zenon DEF KeyUnlink
<1>t. spared' \in [Procs -> BOOLEAN] /\ \A q \in Procs \ {p} : spared'[q] = spared[q]
  BY Zenon, <1>s, Spares
<1>r. ring' \in [Wraps -> Key \cup {NoKey}] /\ dels' \in [Procs -> Nat]
  <2>1. ring \in [Wraps -> Key \cup {NoKey}] /\ dels \in [Procs -> Nat]
    BY Zenon DEF UnlockTypeOK
  <2>2. ring' = ring \/ ring' = [ring EXCEPT ![CacheID(bytes[p])] = NoKey]
    BY Zenon DEF KeyUnlink
  <2>3. dels' = dels \/ Deleted(p)
    BY Zenon DEF KeyUnlink
  <2> QED
    BY <2>1, <2>2, <2>3 DEF Deleted
<1>1. UnlockTypeOK'
  BY Zenon, AfterIs, <1>r, <1>t DEF UnlockTypeOK, KeyUnlink, Goto, disk, put
<1>2. Mine(p)
  BY <1>t DEF KeyUnlink, Goto, disk, put, Mine
<1>3. Kept(p) \/ Erased(p)
  BY Zenon DEF KeyUnlink, Goto, history, Kept, Erased, Local
<1>4. /\ pc[p] \in {"forget", "drop"} /\ pc'[p] = After[pc[p]] /\ keyid'[p] = None /\ keyid[p] # None
      /\ UNCHANGED <<backend, bytes, typed, via, attempt, putErr, since>> /\ dels'[p] = dels[p]
  BY Zenon DEF UnlockTypeOK, KeyUnlink, Goto, Deleted, disk, put
<1>5. \/ Entry(p)' = NoKey
      \/ Entry(p)' = Entry(p) /\ (Entry(p).key # keyid[p] \/ (Spare(p) /\ Entry(p) # NoKey))
  BY Zenon, InCache DEF UnlockTypeOK, KeyUnlink, Entry, CacheID, Caching, Holds
<1>6. spared[p] => spared'[p]
  BY Zenon, <1>s, Spares
<1>7. Spare(p) /\ pc[p] = "forget" /\ Entry(p) # NoKey => spared'[p]
  BY Zenon, Spares
<1>8. Own(p)'
  BY Zenon, AfterIs, <1>4, <1>5, <1>6, <1>7 DEF Own, Local, Serial, Forgot, Renewed, Counted, Caching,
     Putting, CacheID, None
<1> QED
  BY <1>1, <1>2, <1>3, <1>8 DEF Fair

\* A key read opens the capsule or is dropped.
LEMMA KeyReadStep ==
  ASSUME UInv, NEW p \in Procs, UnlockTypeOK, Local(p), Serial(p), Forgot(p), Counted(p), KeyRead(p)
  PROVE  UnlockTypeOK' /\ Fair(p) /\ Own(p)'
<1>1. UnlockTypeOK'
  BY Zenon DEF UnlockTypeOK, KeyRead, Goto, TryCached, disk, put, history
<1>2. Mine(p)
  BY Zenon DEF UnlockTypeOK, KeyRead, Goto, TryCached, disk, put, history, Mine
<1>3. Kept(p)
  BY Zenon DEF KeyRead, Goto, Kept, history
<1>4. /\ pc[p] = "get" /\ pc'[p] \in {"unlocked", "drop", "prompt"} /\ keyid'[p] = None
      /\ via'[p] = via[p] \/ (via'[p] = "cache" /\ Entry(p) # NoKey)
      /\ UNCHANGED <<backend, ring, bytes, typed, attempt, putErr, since, spared, dels>>
  BY Zenon DEF UnlockTypeOK, KeyRead, TryCached, Goto, disk, put, history, Holds
<1>5. Own(p)'
  BY Zenon, <1>4 DEF Own, Local, Serial, Names, Forgot, Renewed, Counted, Caching, Putting, CacheID,
     None
<1> QED
  BY <1>1, <1>2, <1>3, <1>5 DEF Fair

\* The keychain's Forget removes whatever is there.
LEMMA ItemDeleteStep ==
  ASSUME UInv, NEW p \in Procs, UnlockTypeOK, Local(p), Serial(p), Forgot(p), Counted(p), ItemDelete(p)
  PROVE  UnlockTypeOK' /\ Fair(p) /\ Own(p)'
<1>s. Spare(p) \/ UNCHANGED spared
  BY Zenon DEF ItemDelete
<1>t. spared' \in [Procs -> BOOLEAN] /\ \A q \in Procs \ {p} : spared'[q] = spared[q]
  BY Zenon, <1>s, Spares
<1>r. ring' \in [Wraps -> Key \cup {NoKey}] /\ dels' \in [Procs -> Nat]
  <2>1. ring \in [Wraps -> Key \cup {NoKey}] /\ dels \in [Procs -> Nat]
    BY Zenon DEF UnlockTypeOK
  <2>2. ring' = ring \/ ring' = [ring EXCEPT ![CacheID(bytes[p])] = NoKey]
    BY Zenon DEF ItemDelete
  <2>3. dels' = dels \/ Deleted(p)
    BY Zenon DEF ItemDelete
  <2> QED
    BY <2>1, <2>2, <2>3 DEF Deleted
<1>1. UnlockTypeOK'
  BY Zenon, AfterIs, <1>r, <1>t DEF UnlockTypeOK, ItemDelete, Goto, disk, put
<1>2. Mine(p)
  BY <1>t DEF ItemDelete, Goto, disk, put, Mine
<1>3. Kept(p) \/ Erased(p)
  BY Zenon DEF ItemDelete, Goto, history, Kept, Erased, Local, Caching
<1>4. /\ pc[p] \in {"forget", "drop"} /\ pc'[p] = After[pc[p]] /\ keyid'[p] = keyid[p]
      /\ UNCHANGED <<backend, bytes, typed, via, attempt, putErr, since>> /\ dels'[p] = dels[p]
  BY Zenon DEF UnlockTypeOK, ItemDelete, Goto, Deleted, disk, put
<1>5. Entry(p)' = NoKey \/ (Entry(p)' = Entry(p) /\ Spare(p))
  BY Zenon, InCache DEF UnlockTypeOK, ItemDelete, Entry, CacheID, Caching
<1>6. spared[p] => spared'[p]
  BY Zenon, <1>s, Spares
<1>7. Spare(p) /\ pc[p] = "forget" /\ Entry(p) # NoKey => spared'[p]
  BY Zenon, Spares
<1>8. Own(p)'
  BY Zenon, AfterIs, <1>4, <1>5, <1>6, <1>7 DEF Own, Local, Serial, Forgot, Renewed, Counted, Caching,
     Putting, CacheID, None, Names
<1> QED
  BY <1>1, <1>2, <1>3, <1>8 DEF Fair

\* An item read opens the capsule or is dropped.
LEMMA ItemGetStep ==
  ASSUME UInv, NEW p \in Procs, UnlockTypeOK, Local(p), Serial(p), Forgot(p), Counted(p), ItemGet(p)
  PROVE  UnlockTypeOK' /\ Fair(p) /\ Own(p)'
<1>1. UnlockTypeOK'
  BY Zenon DEF UnlockTypeOK, ItemGet, Goto, TryCached, disk, put, history
<1>2. Mine(p)
  BY Zenon DEF UnlockTypeOK, ItemGet, Goto, TryCached, disk, put, history, Mine
<1>3. Kept(p)
  BY Zenon DEF ItemGet, Goto, Kept, history
<1>4. /\ pc[p] = "get" /\ pc'[p] \in {"unlocked", "drop", "prompt"} /\ keyid'[p] = keyid[p]
      /\ via'[p] = via[p] \/ (via'[p] = "cache" /\ Entry(p) # NoKey)
      /\ UNCHANGED <<backend, ring, bytes, typed, attempt, putErr, since, spared, dels>>
  BY Zenon DEF UnlockTypeOK, ItemGet, TryCached, Goto, disk, put, history
<1>5. Own(p)'
  BY Zenon, <1>4 DEF Own, Local, Serial, Names, Forgot, Renewed, Counted, Caching, Putting, CacheID,
     None
<1> QED
  BY <1>1, <1>2, <1>3, <1>5 DEF Fair

\* Put follows only an Unwrap of the same bytes with what was typed.
LEMMA PromptStep ==
  ASSUME UInv, NEW p \in Procs, UnlockTypeOK, Local(p), Serial(p), Forgot(p), Counted(p), Prompt(p)
  PROVE  UnlockTypeOK' /\ Fair(p) /\ Own(p)'
<1>1. UnlockTypeOK'
  BY DEF UnlockTypeOK, Prompt, Goto, PutStart, disk, put, history
<1>2. Mine(p)
  BY Zenon DEF UnlockTypeOK, Prompt, Goto, disk, put, history, Mine
<1>3. Kept(p)
  BY Zenon DEF Prompt, Cacheable, Kept, history
<1>4. /\ pc[p] = "prompt" /\ UNCHANGED <<backend, ring, bytes, keyid, attempt, putErr, since, spared, dels>>
      /\ \/ pc'[p] = "usage" /\ typed'[p] = typed[p] /\ via'[p] = via[p]
         \/ /\ pc'[p] = "badcapsule" /\ via'[p] = via[p]
            /\ typed'[p] \in Passphrases /\ ~Unwrap(typed'[p], bytes[p])
         \/ /\ pc'[p] \in {"unlocked", IF backend = "keyutils" THEN "addkey" ELSE "add"}
            /\ via'[p] = "typed" /\ Unwrap(typed'[p], bytes[p])
  BY Zenon DEF UnlockTypeOK, Prompt, Goto, PutStart, disk, put, history
<1>5. /\ attempt[p] = 0 /\ dels[p] >= 0 /\ None \notin Passphrases
      /\ backend = "keyutils" \/ backend = "keychain"
  <2>1. attempt[p] = 0 /\ dels[p] \in Nat /\ backend \in Backends
    BY Zenon, <1>4 DEF Local, UnlockTypeOK
  <2> QED
    BY <2>1, UnlockAssumption
<1>6. Own(p)'
  BY Zenon, <1>4, <1>5 DEF Own, Local, Serial, Names, Forgot, Renewed, Counted, Unwrap, CacheID,
     Caching, Putting, None
<1> QED
  BY <1>1, <1>2, <1>3, <1>6 DEF Fair

\* A command killed says nothing more.
LEMMA KillStep ==
  ASSUME UInv, NEW p \in Procs, UnlockTypeOK, Local(p), Serial(p), Forgot(p), Counted(p), Kill(p)
  PROVE  UnlockTypeOK' /\ Fair(p) /\ Own(p)'
<1>1. UnlockTypeOK'
  BY Zenon DEF UnlockTypeOK, Kill, Goto, disk, put, history
<1>2. Mine(p)
  BY DEF Kill, Goto, disk, put, history, Mine
<1>3. Kept(p)
  BY Zenon DEF UnlockTypeOK, Kill, Goto, Kept, Caching, history
<1>4. /\ pc[p] # "unlocked" /\ pc'[p] = "killed" /\ keyid'[p] \in {keyid[p], None}
      /\ UNCHANGED <<backend, ring, bytes, typed, via, attempt, putErr, since, spared, dels>>
  BY Zenon DEF UnlockTypeOK, Kill, Goto, disk, put, history
<1>5. Own(p)'
  BY Zenon, <1>4 DEF Own, Local, Serial, Names, Forgot, Renewed, Counted, Caching, Putting, CacheID,
     None
<1> QED
  BY <1>1, <1>2, <1>3, <1>5 DEF Fair

\* What Put stores is a key, under the ID of its own capsule.
LEMMA Writes ==
  ASSUME UInv, NEW p \in Procs, pc[p] \in Putting, NEW k \in Procs \cup {Earlier},
         ring' = [ring EXCEPT ![CacheID(bytes[p])] = NewKey(p, k)],
         Cached(p)
  PROVE  ring' \in [Wraps -> Key \cup {NoKey}] /\ since' \in [Procs -> SUBSET Wraps]
<1>1. bytes[p] # Empty /\ CacheID(bytes[p]) \in Wraps /\ typed[p] \in Passphrases
  BY Zenon, InCache DEF Caching
<1>2. NewKey(p, k) \in Key
  BY Zenon, <1>1 DEF Key, NewKey
<1>3. ring \in [Wraps -> Key \cup {NoKey}] /\ since \in [Procs -> SUBSET Wraps]
  BY Zenon DEF UInv, UnlockTypeOK
<1> QED
  BY Zenon, <1>1, <1>2, <1>3 DEF Cached

\* AddKey stores under a serial of this capsule, and Put goes on to the timeout.
LEMMA KeyAddStep ==
  ASSUME UInv, NEW p \in Procs, UnlockTypeOK, Local(p), Serial(p), Forgot(p), Counted(p), KeyAdd(p)
  PROVE  UnlockTypeOK' /\ Fair(p) /\ Own(p)'
<1>0. pc[p] = "addkey" /\ pc[p] \in Putting /\ pc[p] \in Caching
  BY Zenon DEF KeyAdd, Putting, Caching
<1>1. Mine(p)
  BY Zenon DEF UnlockTypeOK, KeyAdd, Goto, Mine, disk, put
<1>2. CASE pc' = [pc EXCEPT ![p] = "unlocked"] /\ UNCHANGED <<ring, keyid, since>>
  <2>1. UnlockTypeOK' /\ Kept(p)
    BY Zenon, <1>2 DEF UnlockTypeOK, KeyAdd, disk, put, history, Kept
  <2>2. /\ pc'[p] = "unlocked"
        /\ UNCHANGED <<backend, ring, bytes, keyid, typed, via, attempt, putErr, since, spared, dels>>
    BY Zenon, <1>2 DEF UnlockTypeOK, KeyAdd, disk, put
  <2>3. Own(p)'
    BY Zenon, <1>0, <2>2 DEF Own, Local, Serial, Names, Forgot, Renewed, Counted, Caching, Putting,
       CacheID
  <2> QED
    BY <1>1, <2>1, <2>3 DEF Fair
<1>3. CASE pc' # [pc EXCEPT ![p] = "unlocked"] \/ ~UNCHANGED <<ring, keyid, since>>
  <2> DEFINE k == IF Entry(p) = NoKey THEN p ELSE Entry(p).key
  <2>1. /\ ring' = [ring EXCEPT ![CacheID(bytes[p])] = NewKey(p, k)]
        /\ keyid' = [keyid EXCEPT ![p] = k] /\ Cached(p) /\ pc' = [pc EXCEPT ![p] = "settimeout"]
        /\ UNCHANGED <<backend, file, wraps, now, bytes, typed, via, attempt, putErr, spared, dels>>
    BY Zenon, <1>3 DEF KeyAdd, Goto, disk, put
  <2>2. k \in Procs \cup {Earlier} /\ Names(k, CacheID(bytes[p])) /\ bytes[p] # Empty
    BY Zenon, <1>0, InCache
  <2> HIDE DEF k
  <2>3. ring' \in [Wraps -> Key \cup {NoKey}] /\ since' \in [Procs -> SUBSET Wraps]
    BY Zenon, <1>0, <2>1, <2>2, Writes
  <2>4. UnlockTypeOK'
    BY Zenon, <1>0, <2>1, <2>2, <2>3 DEF UnlockTypeOK
  <2>5. keyid'[p] = k /\ pc'[p] = "settimeout"
    BY Zenon, <2>1 DEF UnlockTypeOK
  <2>6. Written(p)
    BY Zenon, <1>0, <2>1, <2>2, <2>5 DEF Written
  <2>7. since[p] \subseteq since'[p]
    BY Zenon, <2>1 DEF Cached
  <2>8. Own(p)'
    BY Zenon, <1>0, <2>1, <2>2, <2>5, <2>7 DEF Own, Local, Serial, Names, Forgot, Renewed, Counted,
       Caching, Putting, CacheID
  <2> QED
    BY <1>1, <2>4, <2>6, <2>8 DEF Fair
<1> QED
  BY Zenon, <1>2, <1>3

\* The timeout is set on the key that has the serial, or Put says that it is not.
LEMMA KeySetTimeoutStep ==
  ASSUME UInv, NEW p \in Procs, UnlockTypeOK, Local(p), Serial(p), Forgot(p), Counted(p), KeySetTimeout(p)
  PROVE  UnlockTypeOK' /\ Fair(p) /\ Own(p)'
<1>0. pc[p] = "settimeout" /\ pc[p] \in Caching
  BY Zenon DEF KeySetTimeout, Putting, Caching
<1>1. Mine(p)
  BY Zenon DEF UnlockTypeOK, KeySetTimeout, Goto, Mine, disk, history
<1>2. Own(p)'
  <2>1. /\ pc'[p] = "unlocked" /\ keyid'[p] \in {keyid[p], None} /\ putErr'[p] \in {putErr[p], "noTimeout"}
        /\ UNCHANGED <<backend, bytes, typed, via, attempt, since, spared, dels>>
    BY Zenon DEF UnlockTypeOK, KeySetTimeout, Goto, disk, history
  <2> QED
    BY Zenon, <1>0, <2>1 DEF Own, Local, Serial, Names, Forgot, Renewed, Counted, CacheID, Caching,
       Putting, None
<1> DEFINE timed == /\ Holds(p)
                    /\ ring' = [ring EXCEPT ![CacheID(bytes[p])] = Timing(Entry(p), now + TtlSec)]
<1>3. CASE ~timed
  <2>1. putErr'[p] = "noTimeout" /\ keyid' = keyid /\ ring' = ring
    BY Zenon, <1>3 DEF UnlockTypeOK, KeySetTimeout
  <2>2. UnlockTypeOK'
    BY Zenon, <2>1 DEF UnlockTypeOK, KeySetTimeout, Goto, disk, history
  <2> QED
    BY Zenon, <1>1, <1>2, <2>1, <2>2 DEF Kept, KeySetTimeout, Fair, history
<1>4. CASE timed
  <2>1. now + TtlSec \in Nat
    BY Shapes DEF UnlockTypeOK
  <2>2. Timed(p)
    BY Zenon, <1>0, <1>4, <2>1 DEF Timed, KeySetTimeout, history
  <2>3. CacheID(bytes[p]) \in Wraps /\ Entry(p) \in Key
    BY Zenon, <1>0, <1>4, InCache DEF Holds
  <2>4. Timing(Entry(p), now + TtlSec) \in Key
    BY Zenon, <2>1, <2>3, Keys
  <2>5. ring' \in [Wraps -> Key \cup {NoKey}]
    BY Zenon, <1>4, <2>3, <2>4 DEF UnlockTypeOK
  <2>6. UnlockTypeOK'
    BY Zenon, <2>5 DEF UnlockTypeOK, KeySetTimeout, Goto, disk, history
  <2> QED
    BY <1>1, <1>2, <2>2, <2>6 DEF Fair
<1> QED
  BY Zenon, <1>3, <1>4

\* The keychain's Put stores under a serial of its own and is done.
LEMMA Stores ==
  ASSUME UInv, NEW p \in Procs, UnlockTypeOK, Local(p), Serial(p), Forgot(p), Counted(p),
         pc[p] \in {"add", "update"}, StoreItem(p), Mine(p),
         UNCHANGED <<file, wraps, now, bytes, keyid, typed, via, attempt, putErr, spared, dels>>
  PROVE  UnlockTypeOK' /\ Fair(p) /\ Own(p)'
<1>0. pc[p] \in Putting /\ pc[p] \in Caching /\ backend' = backend
  BY Zenon DEF Putting, Caching, Mine
<1>1. ring' \in [Wraps -> Key \cup {NoKey}] /\ since' \in [Procs -> SUBSET Wraps]
  BY Zenon, <1>0, Writes DEF StoreItem
<1>2. UnlockTypeOK' /\ pc'[p] = "unlocked"
  BY Zenon, <1>0, <1>1 DEF UnlockTypeOK, StoreItem, Goto
<1>3. Written(p)
  BY Zenon, <1>0, InCache DEF Written, StoreItem, Own, Local
<1>4. Own(p)'
  BY Zenon, <1>2 DEF StoreItem, Cached, Own, Local, Serial, Names, Forgot, Renewed, Counted, Caching,
     Putting
<1> QED
  BY Zenon, <1>2, <1>3, <1>4 DEF Fair

\* SecItemAdd stores, or has met an item that is there, or fails.
LEMMA ItemAddStep ==
  ASSUME UInv, NEW p \in Procs, UnlockTypeOK, Local(p), Serial(p), Forgot(p), Counted(p), ItemAdd(p)
  PROVE  UnlockTypeOK' /\ Fair(p) /\ Own(p)'
<1>0. pc[p] = "add" /\ pc[p] \in Putting /\ pc[p] \in Caching
  BY Zenon DEF ItemAdd, Putting, Caching
<1>1. Mine(p)
  BY Zenon DEF UnlockTypeOK, ItemAdd, StoreItem, Goto, Mine, disk
<1>2. CASE StoreItem(p) /\ UNCHANGED putErr
  BY Zenon, <1>1, <1>2, Stores DEF ItemAdd, disk
<1>3. CASE UNCHANGED <<ring, since>>
  <2>1. UnlockTypeOK' /\ Kept(p)
    BY Zenon, <1>3 DEF UnlockTypeOK, ItemAdd, StoreItem, Goto, disk, history, Kept
  <2>2. /\ pc'[p] = "unlocked" \/ (pc'[p] = "update" /\ Entry(p) # NoKey)
        /\ putErr'[p] \in {putErr[p], "addFailed"}
        /\ UNCHANGED <<backend, ring, bytes, keyid, typed, via, attempt, since, spared, dels>>
    BY Zenon, <1>3 DEF UnlockTypeOK, ItemAdd, StoreItem, Goto, disk
  <2>3. attempt[p] + 0 = attempt[p]
    BY DEF UnlockTypeOK
  <2>4. Own(p)'
    BY Zenon, <1>0, <2>2, <2>3 DEF Own, Local, Serial, Names, Forgot, Renewed, Counted, Entry, CacheID,
       Caching, Putting, None
  <2> QED
    BY <1>1, <2>1, <2>4 DEF Fair
<1> QED
  BY Zenon, <1>2, <1>3 DEF ItemAdd

\* SecItemUpdate stores, or misses an item that was there when Put last looked.
LEMMA ItemUpdateStep ==
  ASSUME UInv, NEW p \in Procs, UnlockTypeOK, Local(p), Serial(p), Forgot(p), Counted(p), ItemUpdate(p)
  PROVE  UnlockTypeOK' /\ Fair(p) /\ Own(p)'
<1>0. pc[p] = "update" /\ pc[p] \in Putting /\ pc[p] \in Caching
  BY Zenon DEF ItemUpdate, Putting, Caching
<1>1. Mine(p)
  BY Zenon DEF UnlockTypeOK, ItemUpdate, StoreItem, Goto, Mine, disk, put
<1>2. CASE StoreItem(p) /\ UNCHANGED put
  BY Zenon, <1>1, <1>2, Stores DEF ItemUpdate, put, disk
<1>3. CASE /\ Entry(p) = NoKey /\ Goto(p, "add") /\ attempt[p] = 0
           /\ attempt' = [attempt EXCEPT ![p] = 1] /\ UNCHANGED <<ring, since, putErr>>
  <2>1. UnlockTypeOK' /\ Kept(p)
    BY <1>0, <1>3 DEF UnlockTypeOK, ItemUpdate, Goto, disk, Kept
  <2>2. /\ pc'[p] = "add" /\ attempt'[p] = 1
        /\ UNCHANGED <<backend, ring, bytes, keyid, typed, via, putErr, since, spared, dels>>
    BY Zenon, <1>3 DEF UnlockTypeOK, ItemUpdate, Goto, disk
  <2>3. dels[p] >= 1
    BY <1>0, <1>3 DEF Counted
  <2>4. Own(p)'
    BY Zenon, <1>0, <2>2, <2>3 DEF Own, Local, Serial, Names, Forgot, Renewed, Counted, CacheID,
       Caching, Putting, None
  <2> QED
    BY <1>1, <2>1, <2>4 DEF Fair
<1>4. CASE /\ Entry(p) = NoKey /\ attempt[p] = 1 /\ Goto(p, "unlocked")
           /\ putErr' = [putErr EXCEPT ![p] = "updateNotFound"] /\ UNCHANGED <<ring, since, attempt>>
  <2>1. UnlockTypeOK' /\ Kept(p)
    BY <1>0, <1>4 DEF UnlockTypeOK, ItemUpdate, Goto, disk, Kept
  <2>2. /\ pc'[p] = "unlocked" /\ putErr'[p] = "updateNotFound"
        /\ UNCHANGED <<backend, ring, bytes, keyid, typed, via, attempt, since, spared, dels>>
    BY Zenon, <1>4 DEF UnlockTypeOK, ItemUpdate, Goto, disk
  <2>3. dels[p] >= 2
    BY <1>0, <1>4 DEF Counted
  <2>4. Own(p)'
    BY Zenon, <1>0, <2>2, <2>3 DEF Own, Local, Serial, Names, Forgot, Renewed, Counted, CacheID,
       Caching, Putting, None
  <2> QED
    BY <1>1, <2>1, <2>4 DEF Fair
<1>5. CASE /\ putErr' = [putErr EXCEPT ![p] = "updateFailed"] /\ Goto(p, "unlocked")
           /\ UNCHANGED <<ring, since, attempt>>
  <2>1. UnlockTypeOK' /\ Kept(p)
    BY <1>0, <1>5 DEF UnlockTypeOK, ItemUpdate, Goto, disk, Kept
  <2>2. /\ pc'[p] = "unlocked" /\ putErr'[p] = "updateFailed"
        /\ UNCHANGED <<backend, ring, bytes, keyid, typed, via, attempt, since, spared, dels>>
    BY Zenon, <1>5 DEF UnlockTypeOK, ItemUpdate, Goto, disk
  <2>3. Own(p)'
    BY Zenon, <1>0, <2>2 DEF Own, Local, Serial, Names, Forgot, Renewed, Counted, CacheID, Caching,
       Putting, None
  <2> QED
    BY <1>1, <2>1, <2>3 DEF Fair
<1> QED
  BY Zenon, <1>2, <1>3, <1>4, <1>5 DEF ItemUpdate

\* A rewrite or damage of the file is not seen by the cache or by a command past its read.
LEMMA FileStep ==
  ASSUME UInv, WriteBegin \/ WriteEnd \/ Damage \/ UNCHANGED vars
  PROVE  UInv'
<1>0. UnlockTypeOK
  BY DEF UInv
<1>1. UNCHANGED <<backend, ring, now, pc, bytes, keyid, typed, via, attempt, putErr, since, spared, dels>>
  BY Zenon DEF WriteBegin, WriteEnd, Damage, vars, put, history
<1>2. file' \in Capsule \cup {Empty} /\ wraps' \in Wraps
  <2>1. CASE WriteBegin
    BY <1>0, <2>1, UnlockAssumption DEF UnlockTypeOK, WriteBegin, Wraps
  <2>2. CASE WriteEnd
    BY Zenon, <1>0, <2>2 DEF UnlockTypeOK, WriteEnd, Capsule
  <2>3. CASE Damage
    BY Zenon, <1>0, <2>3 DEF UnlockTypeOK, Damage, Capsule
  <2>4. CASE UNCHANGED vars
    BY Zenon, <1>0, <2>4 DEF UnlockTypeOK, vars
  <2> QED
    BY <2>1, <2>2, <2>3, <2>4
<1>3. UnlockTypeOK' /\ ExpiryArmed'
  BY Zenon, <1>1, <1>2 DEF UInv, UnlockTypeOK, ExpiryArmed
<1>4. ASSUME NEW p \in Procs PROVE Local(p)' /\ Serial(p)' /\ Forgot(p)' /\ Counted(p)'
  BY Zenon, <1>1 DEF UInv, Local, Serial, Names, Forgot, Renewed, Counted, Entry
<1>5. ASSUME NEW w \in Wraps PROVE Stored(w)'
  BY Zenon, <1>1 DEF UInv, Stored, Names
<1> QED
  BY Zenon, <1>3, <1>4, <1>5 DEF UInv

\* The kernel removes only keys that have a timeout; the keychain's have none.
LEMMA TickStep ==
  ASSUME UInv, Tick
  PROVE  UInv'
<1>0. UnlockTypeOK /\ ring \in [Wraps -> Key \cup {NoKey}]
  BY Zenon DEF UInv, UnlockTypeOK
<1>1. UNCHANGED <<backend, file, wraps, pc, bytes, keyid, typed, via, attempt, putErr, since, spared, dels>>
  BY Zenon DEF Tick, disk, put, history
<1>2. \A w \in Wraps : /\ ring'[w] = ring[w] \/ ring'[w] = NoKey
                       /\ backend = "keychain" => ring'[w] = ring[w]
  BY Zenon DEF Tick, UInv, Stored
<1>3. UnlockTypeOK'
  BY <1>0, UnlockAssumption DEF UnlockTypeOK, Tick, disk, put, history
<1>4. ExpiryArmed'
  BY <1>1, <1>2 DEF UInv, ExpiryArmed
<1>5. ASSUME NEW p \in Procs PROVE Local(p)' /\ Serial(p)' /\ Forgot(p)' /\ Counted(p)'
  <2>1. CASE pc[p] \in Caching
    <3>1. /\ Entry(p)' = Entry(p) \/ Entry(p)' = NoKey
          /\ backend = "keychain" => Entry(p)' = Entry(p)
      BY Zenon, <1>1, <1>2, <2>1, InCache DEF Entry
    <3> QED
      BY Zenon, <1>1, <3>1 DEF UInv, Local, Serial, Names, Forgot, Renewed, Counted
  <2>2. CASE pc[p] \notin Caching
    BY Zenon, <1>1, <2>2 DEF UInv, Local, Serial, Names, Forgot, Renewed, Counted, Caching, Putting
  <2> QED
    BY <2>1, <2>2
<1>6. ASSUME NEW w \in Wraps PROVE Stored(w)'
  BY Zenon, <1>1, <1>2 DEF UInv, Stored, Names
<1> QED
  BY <1>3, <1>4, <1>5, <1>6 DEF UInv

\* Every step keeps the invariant.
LEMMA NextUInv == UInv /\ [Next]_vars => UInv'
<1> SUFFICES ASSUME UInv, [Next]_vars PROVE UInv'
  OBVIOUS
<1>1. ASSUME NEW p \in Procs, Step(p) PROVE UInv'
  <2>0. UnlockTypeOK /\ Local(p) /\ Serial(p) /\ Forgot(p) /\ Counted(p)
    BY DEF UInv
  <2>1. UnlockTypeOK' /\ Fair(p) /\ Own(p)'
    BY Zenon, <1>1, <2>0, StatStep, ReadStep, KeySearchStep, KeyUnlinkStep, KeyReadStep,
       ItemDeleteStep, ItemGetStep, PromptStep, KeyAddStep, KeySetTimeoutStep, ItemAddStep,
       ItemUpdateStep, KillStep DEF Step
  <2> QED
    BY <2>1, OneCommand
<1> QED
  BY <1>1, FileStep, TickStep DEF Next

\* The inductive invariant holds throughout.
THEOREM UnlockInvariant == Spec => []UInv
BY InitUInv, NextUInv, PTL DEF Spec

-----------------------------------------------------------------------------
(* What it gives.                                                          *)

\* The types, and with them the two rounds of the keychain's Put.
THEOREM UnlockTypes == Spec => []UnlockTypeOK
<1>1. UInv => UnlockTypeOK
  BY DEF UInv
<1> QED
  BY <1>1, UnlockInvariant, PTL

\* A cached passphrase is the one its capsule is wrapped under, with any number of send and recv
\* commands, capsule rewrites, expiries and killed processes (IDForCapsule, Put after Unwrap).
THEOREM UnlockCacheSound == Spec => []CacheSound
<1>1. UInv => CacheSound
  BY Zenon DEF UInv, Stored, CacheSound
<1> QED
  BY <1>1, UnlockInvariant, PTL

\* Only a passphrase the user typed makes a command that read a capsule fail to unwrap it.
THEOREM UnlockCacheHarmless == Spec => []CacheHarmless
<1>1. UInv => CacheHarmless
  BY Zenon DEF UInv, Local, CacheHarmless
<1> QED
  BY <1>1, UnlockInvariant, PTL

\* After --forget-passcache a command unlocks from the cache only what was cached since.
THEOREM UnlockForgetEffective == Spec => []ForgetEffective
<1>1. UInv => ForgetEffective
  BY Zenon, UnlockAssumption DEF UInv, Forgot, Renewed, ForgetEffective
<1> QED
  BY <1>1, UnlockInvariant, PTL

\* On Linux a cached passphrase lacks a timeout only while a Put is about to set it, was killed
\* there, or reported that it could not.
THEOREM UnlockExpiryArmed == Spec => []ExpiryArmed
<1>1. UInv => ExpiryArmed
  BY DEF UInv
<1> QED
  BY <1>1, UnlockInvariant, PTL

\* The keychain's Put loses a passphrase only to two deletions of the entry under it.
THEOREM UnlockOneForgetSurvived == Spec => []OneForgetSurvived
<1>1. UInv => OneForgetSurvived
  BY Zenon DEF UInv, Counted, OneForgetSurvived
<1> QED
  BY <1>1, UnlockInvariant, PTL

====
