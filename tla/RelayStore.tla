------------------------------ MODULE RelayStore ------------------------------
(***************************************************************************)
(* The relay's in-memory slot store, src/internal/relay/store.go.          *)
(*                                                                         *)
(* Put, Take and Delete hold the mutex for one straight-line critical      *)
(* section, so each of their outcomes is one action. Sweep and ZeroizeAll  *)
(* hold it while they walk the map: they are modelled entry by entry, with *)
(* the mutex as a variable, because the clock goes on running under them.  *)
(*                                                                         *)
(* A ciphertext is a member of Blobs with a length; the 32-byte delete     *)
(* hash is a member of Hashes or the zero value NoHash.                    *)
(***************************************************************************)
EXTENDS Integers, FiniteSets

CONSTANTS
  Keys,          \* storeKey values
  Blobs,         \* ciphertexts; a fresh nonce makes each one unique
  Size,          \* length of each ciphertext
  Hashes,        \* SHA-256 images of delete tokens
  NoHash,        \* the zero [32]byte
  NoEntry,       \* no map entry under a key
  TTLs,          \* time-to-live values callers pass to Put
  Reads,         \* read counts callers pass to Put
  MaxStoreBytes, \* capacity; not positive disables the cap
  MaxTime        \* bound: the clock stops here

ASSUME StoreConstants ==
  /\ Size \in [Blobs -> Nat \ {0}]
  /\ NoHash \notin Hashes
  /\ TTLs \subseteq Nat \ {0}
  /\ Reads \subseteq Nat \ {0}
  /\ MaxStoreBytes \in Int
  /\ MaxTime \in Nat

VARIABLES
  m,        \* the map
  bytes,    \* Store.bytes
  now,      \* what clock.Now() returns
  mu,       \* who walks the map holding the mutex: "free", "Sweep" or "ZeroizeAll"
  snap,     \* the time Sweep read before its loop
  todo,     \* keys the loop has yet to visit
  closing,  \* ZeroizeAll has been entered
  granted,  \* history: reads each stored ciphertext was accepted with, 0 if never stored
  taken,    \* history: how often each ciphertext was returned by Take
  blanks    \* history: ciphertexts that Take returned after they were zeroized

vars == <<m, bytes, now, mu, snap, todo, closing, granted, taken, blanks>>
ghosts == <<granted, taken, blanks>>

\* ct and deleteHash as zeroize leaves them are wiped = TRUE and hash = NoHash.
slotEntry ==
  [blob : Blobs, wiped : BOOLEAN, expiresAt : Nat, readsLeft : Nat \ {0},
   hash : Hashes \cup {NoHash}]

TypeOK ==
  /\ m \in [Keys -> slotEntry \cup {NoEntry}]
  /\ bytes \in Int
  /\ now \in Nat
  /\ mu \in {"free", "Sweep", "ZeroizeAll"}
  /\ snap \in Nat
  /\ todo \subseteq Keys
  /\ closing \in BOOLEAN
  /\ granted \in [Blobs -> Nat]
  /\ taken \in [Blobs -> Nat]
  /\ blanks \subseteq Blobs

-------------------------------------------------------------------------------
Present(k) == m[k] # NoEntry
Len(k) == Size[m[k].blob]

\* The two readings of "expired": Put treats the deadline itself as expired
\* (!Now.Before), Take, Delete and Sweep treat it as live (Now.After).
MutReclaimable(k) == now + 1 >= m[k].expiresAt
Reclaimable(k) == now >= m[k].expiresAt
Expired(k) == now > m[k].expiresAt

\* zeroize(ct), zeroizeHash, bytes -= len(ct), delete(m, k)
MutEvict(k) == m' = [m EXCEPT ![k] = NoEntry] /\ UNCHANGED bytes
Evict(k) ==
  /\ m' = [m EXCEPT ![k] = NoEntry]
  /\ bytes' = bytes - Len(k)

Init ==
  /\ m = [k \in Keys |-> NoEntry]
  /\ bytes = 0
  /\ now = 0
  /\ mu = "free" /\ snap = 0 /\ todo = {} /\ closing = FALSE
  /\ granted = [c \in Blobs |-> 0]
  /\ taken = [c \in Blobs |-> 0]
  /\ blanks = {}

-------------------------------------------------------------------------------
(* Put *)

\* s.bytes as Put sees it at the capacity check: a reclaimable predecessor has
\* already been subtracted.
BytesAtCheck(k) == IF Present(k) THEN bytes - Len(k) ELSE bytes
MutOverCap(k, c) == MaxStoreBytes > 0 /\ BytesAtCheck(k) >= MaxStoreBytes
OverCap(k, c) == MaxStoreBytes > 0 /\ BytesAtCheck(k) + Size[c] > MaxStoreBytes

\* Returns ErrSlotExists.
PutExists(k) ==
  /\ mu = "free"
  /\ Present(k) /\ ~Reclaimable(k)
  /\ UNCHANGED vars

\* Returns ErrStoreFull. A reclaimable predecessor has been zeroized and
\* subtracted, and stays in the map.
PutFull(k, c) ==
  /\ mu = "free"
  /\ Present(k) => Reclaimable(k)
  /\ OverCap(k, c)
  /\ m' = IF Present(k)
            THEN [m EXCEPT ![k] = [@ EXCEPT !.wiped = TRUE, !.hash = NoHash]]
            ELSE m
  /\ bytes' = BytesAtCheck(k)
  /\ UNCHANGED <<now, mu, snap, todo, closing, ghosts>>

\* Mutant: the entry is written without the mutex.
MutPutOk(k, c, ttl, reads, hash) ==
  /\ Present(k) => Reclaimable(k)
  /\ ~OverCap(k, c)
  /\ granted[c] = 0
  /\ m' = [m EXCEPT ![k] = [blob |-> c, wiped |-> FALSE, expiresAt |-> now + ttl,
                            readsLeft |-> reads, hash |-> hash]]
  /\ bytes' = BytesAtCheck(k) + Size[c]
  /\ granted' = [granted EXCEPT ![c] = reads]
  /\ UNCHANGED <<now, mu, snap, todo, closing, taken, blanks>>

\* Returns nil: the ciphertext is stored, over a reclaimable predecessor if any.
\* Put reads the clock twice; the action stands at the second reading, at which
\* a predecessor that was reclaimable at the first one still is.
PutOk(k, c, ttl, reads, hash) ==
  /\ mu = "free"
  /\ Present(k) => Reclaimable(k)
  /\ ~OverCap(k, c)
  /\ granted[c] = 0
  /\ m' = [m EXCEPT ![k] = [blob |-> c, wiped |-> FALSE, expiresAt |-> now + ttl,
                            readsLeft |-> reads, hash |-> hash]]
  /\ bytes' = BytesAtCheck(k) + Size[c]
  /\ granted' = [granted EXCEPT ![c] = reads]
  /\ UNCHANGED <<now, mu, snap, todo, closing, taken, blanks>>

-------------------------------------------------------------------------------
(* Take *)

\* Returns (nil, 0, false): no entry, or an expired one, which is evicted.
TakeMiss(k) ==
  /\ mu = "free"
  /\ \/ ~Present(k) /\ UNCHANGED <<m, bytes>>
     \/ Present(k) /\ Expired(k) /\ Evict(k)
  /\ UNCHANGED <<now, mu, snap, todo, closing, ghosts>>

\* Returns (ct, left, true) and evicts the entry when left reaches 0.
MutTakeHitKeeps(k) ==
  /\ mu = "free" /\ Present(k) /\ ~Expired(k)
  /\ taken' = [taken EXCEPT ![m[k].blob] = @ + 1]
  /\ UNCHANGED <<m, bytes, now, mu, snap, todo, closing, granted, blanks>>
TakeHit(k) ==
  /\ mu = "free"
  /\ Present(k) /\ ~Expired(k)
  /\ IF m[k].readsLeft = 1
       THEN Evict(k)
       ELSE m' = [m EXCEPT ![k].readsLeft = @ - 1] /\ UNCHANGED bytes
  /\ IF m[k].wiped
       THEN blanks' = blanks \cup {m[k].blob} /\ UNCHANGED taken
       ELSE taken' = [taken EXCEPT ![m[k].blob] = @ + 1] /\ UNCHANGED blanks
  /\ UNCHANGED <<now, mu, snap, todo, closing, granted>>

-------------------------------------------------------------------------------
(* Delete *)

\* Returns false: no entry, an expired one (evicted), no hash registered, or
\* another hash.
DeleteMiss(k, h) ==
  /\ mu = "free"
  /\ \/ /\ Present(k) => ~Expired(k) /\ (m[k].hash = NoHash \/ m[k].hash # h)
        /\ UNCHANGED <<m, bytes>>
     \/ Present(k) /\ Expired(k) /\ Evict(k)
  /\ UNCHANGED <<now, mu, snap, todo, closing, ghosts>>

\* Returns true.
DeleteHit(k, h) ==
  /\ mu = "free"
  /\ Present(k) /\ ~Expired(k)
  /\ m[k].hash # NoHash /\ m[k].hash = h
  /\ Evict(k)
  /\ UNCHANGED <<now, mu, snap, todo, closing, ghosts>>

-------------------------------------------------------------------------------
(* Sweep and ZeroizeAll *)

SweepBegin ==
  /\ mu = "free"
  /\ mu' = "Sweep"
  /\ snap' = now
  /\ todo' = {k \in Keys : Present(k)}
  /\ UNCHANGED <<m, bytes, now, closing, ghosts>>

SweepVisit(k) ==
  /\ mu = "Sweep" /\ k \in todo
  /\ IF snap > m[k].expiresAt THEN Evict(k) ELSE UNCHANGED <<m, bytes>>
  /\ todo' = todo \ {k}
  /\ UNCHANGED <<now, mu, snap, closing, ghosts>>

ZeroizeAllBegin ==
  /\ mu = "free"
  /\ mu' = "ZeroizeAll"
  /\ todo' = {k \in Keys : Present(k)}
  /\ closing' = TRUE
  /\ UNCHANGED <<m, bytes, now, snap, ghosts>>

ZeroizeAllVisit(k) ==
  /\ mu = "ZeroizeAll" /\ k \in todo
  /\ Evict(k)
  /\ todo' = todo \ {k}
  /\ UNCHANGED <<now, mu, snap, closing, ghosts>>

\* The loop is over and the mutex is released.
Unlock ==
  /\ mu # "free" /\ todo = {}
  /\ mu' = "free" /\ snap' = 0
  /\ UNCHANGED <<m, bytes, now, todo, closing, ghosts>>

-------------------------------------------------------------------------------
\* Time passes whoever holds the mutex.
Tick ==
  /\ now < MaxTime
  /\ now' = now + 1
  /\ UNCHANGED <<m, bytes, mu, snap, todo, closing, ghosts>>

Put(k) ==
  \/ PutExists(k)
  \/ \E c \in Blobs :
       \/ PutFull(k, c)
       \/ \E ttl \in TTLs, reads \in Reads, hash \in Hashes \cup {NoHash} :
            PutOk(k, c, ttl, reads, hash)
Take(k) == TakeMiss(k) \/ TakeHit(k)
Delete(k, h) == DeleteMiss(k, h) \/ DeleteHit(k, h)
Sweep == SweepBegin \/ \E k \in Keys : SweepVisit(k)
ZeroizeAll == ZeroizeAllBegin \/ \E k \in Keys : ZeroizeAllVisit(k)

Next ==
  \/ \E k \in Keys :
       \/ Put(k)
       \/ Take(k)
       \/ \E h \in Hashes : Delete(k, h)
  \/ Sweep
  \/ ZeroizeAll
  \/ Unlock
  \/ Tick

Spec == Init /\ [][Next]_vars

-------------------------------------------------------------------------------
(* Properties *)

\* The bytes of the ciphertexts in the map, each named by its key and its position.
Resident(k) == IF Present(k) THEN {k} \X (1 .. Len(k)) ELSE {}
Octets == UNION {Resident(k) : k \in Keys}
StoredBytes == Cardinality(Octets)

\* Take never returns a ciphertext more often than Put was told to allow: the
\* genuine copies handed out and the reads still on offer add up to the grant.
ReadBudget ==
  /\ \A c \in Blobs : taken[c] <= granted[c]
  /\ \A k \in Keys : Present(k) /\ ~m[k].wiped =>
       taken[m[k].blob] + m[k].readsLeft = granted[m[k].blob]

\* The byte counter that Put compares with the capacity never exceeds it, across
\* evictions by any of the five paths that subtract (BACKEND_VM.md: store.bytes
\* MUST NOT exceed MAX_STORE_BYTES).
BytesWithinCap == MaxStoreBytes > 0 => bytes <= MaxStoreBytes

\* The counter never charges for bytes that are no longer in the map, so no
\* eviction path leaks capacity until the relay answers 503 for ever.
NeverOvercounts == bytes <= StoredBytes

\* The ciphertext held in the map stays within the capacity, which the comment
\* on Store calls the total-capacity ceiling in bytes.
ResidentWithinCap == MaxStoreBytes > 0 => StoredBytes <= MaxStoreBytes

\* Take returns a ciphertext as it was stored, never the zeros zeroize left.
NoBlankReads == blanks = {}

\* A pass of Sweep or ZeroizeAll that visited a key has left nothing there that
\* it should have evicted, and nobody puts anything back before it unlocks.
PassComplete ==
  \A k \in Keys \ todo :
    /\ mu = "Sweep" /\ Present(k) => m[k].expiresAt >= snap
    /\ mu = "ZeroizeAll" => ~Present(k)

Parcel(e) == [blob |-> e.blob, left |-> e.readsLeft, until |-> e.expiresAt, token |-> e.hash]

\* What a caller could still collect: a zeroized entry is an empty address.
Collectable(k) == Present(k) /\ ~m[k].wiped
Box == [k \in Keys |-> IF Collectable(k) THEN Parcel(m[k]) ELSE NoEntry]

Mailbox == INSTANCE OneShotMailbox WITH
  Empty <- NoEntry,
  box <- Box,
  clock <- now,
  delivered <- taken

\* A missing entry is told from every entry and every parcel.
ASSUME NoEntryIsNoEntry == NoEntry \notin slotEntry \cup Mailbox!Parcel

\* What makes the above inductive: every ciphertext in the map was stored once,
\* under one key; the key walk covers present entries and holds the mutex; its
\* time is not in the future; ZeroizeAll only runs once the relay is closing.
Bookkeeping ==
  /\ \A k \in Keys : Present(k) => granted[m[k].blob] > 0
  /\ \A j, k \in Keys : Present(j) /\ Present(k) /\ m[j].blob = m[k].blob => j = k
  /\ \A k \in todo : Present(k)
  /\ mu = "free" => todo = {}
  /\ snap <= now
  /\ mu = "ZeroizeAll" => closing

IInv == TypeOK /\ Bookkeeping /\ ReadBudget /\ BytesWithinCap /\ PassComplete

\* The store is a one-shot mailbox: it never overwrites a live slot, never
\* delivers after the deadline or after the last read, forgets a message early
\* only for the holder of its delete token, and drops messages otherwise only
\* when they are due or the relay is closing.
ImplementsMailbox == Mailbox!Spec
===============================================================================
