--------------------------- MODULE RelayStoreProofs ---------------------------
(***************************************************************************)
(* Proofs about RelayStore for every set of keys, blobs and hashes, every  *)
(* capacity and every time bound.                                          *)
(***************************************************************************)
EXTENDS RelayStore, FiniteSetTheorems, TLAPS

\* The empty store satisfies the inductive invariant.
LEMMA InitIInv == Init => IInv
<1> SUFFICES ASSUME Init PROVE IInv
  OBVIOUS
<1>a. closing \in BOOLEAN
  BY Zenon DEF Init
<1>1. TypeOK
  BY <1>a DEF Init, TypeOK
<1>2. \A k \in Keys : ~Present(k)
  BY DEF Init, Present
<1>3. Bookkeeping
  BY <1>2 DEF Init, Bookkeeping
<1>4. ReadBudget
  BY <1>2 DEF Init, ReadBudget
<1>5. BytesWithinCap
  BY StoreConstants DEF Init, BytesWithinCap
<1>6. PassComplete
  BY <1>2 DEF Init, PassComplete
<1> QED
  BY <1>1, <1>3, <1>4, <1>5, <1>6 DEF IInv

\* Evicting a present entry leaves a well-typed map that lost one entry, and a
\* smaller byte counter: the effect shared by every path that frees a slot.
LEMMA EvictEffect ==
  ASSUME TypeOK, NEW k \in Keys, Present(k), Evict(k)
  PROVE  /\ m' \in [Keys -> slotEntry \cup {NoEntry}]
         /\ m'[k] = NoEntry
         /\ \A j \in Keys \ {k} : m'[j] = m[j]
         /\ bytes' \in Int
         /\ bytes' <= bytes
<1>1. m[k] \in slotEntry
  BY DEF TypeOK, Present
<1>2. Size[m[k].blob] \in Nat
  BY Zenon, <1>1, StoreConstants DEF slotEntry
<1> QED
  BY <1>1, <1>2 DEF TypeOK, Evict, Len

\* Eviction alone preserves every conjunct of the invariant that is about the
\* map, given that the histories, the clock and the walk stand still.
LEMMA EvictPreserves ==
  ASSUME IInv, NEW k \in Keys, Present(k), Evict(k),
         UNCHANGED <<now, mu, snap, closing, granted, taken, blanks>>,
         todo' = todo \ {k}
  PROVE  IInv'
<1> USE DEF IInv
<1>1. /\ m' \in [Keys -> slotEntry \cup {NoEntry}]
      /\ m'[k] = NoEntry
      /\ \A j \in Keys \ {k} : m'[j] = m[j]
      /\ bytes' \in Int
      /\ bytes' <= bytes
  BY Zenon, EvictEffect
<1>2. TypeOK'
  BY Zenon, <1>1 DEF TypeOK
<1>3. Bookkeeping'
  BY <1>1 DEF TypeOK, Bookkeeping, Present
<1>4. ReadBudget'
  BY Zenon, <1>1 DEF ReadBudget, Present
<1>5. BytesWithinCap'
  BY <1>1, StoreConstants DEF TypeOK, BytesWithinCap
<1>6. PassComplete'
  BY Zenon, <1>1 DEF TypeOK, PassComplete, Present
<1> QED
  BY <1>2, <1>3, <1>4, <1>5, <1>6

\* Every step of the store preserves the inductive invariant.
LEMMA NextIInv == IInv /\ [Next]_vars => IInv'
<1> SUFFICES ASSUME IInv, [Next]_vars PROVE IInv'
  OBVIOUS
<1> USE DEF IInv, ghosts
<1>1. ASSUME NEW k \in Keys, NEW c \in Blobs, PutFull(k, c)
      PROVE  IInv'
  <2>1. CASE ~Present(k)
    BY Zenon, <1>1, <2>1 DEF PutFull, BytesAtCheck, TypeOK, Bookkeeping, ReadBudget, BytesWithinCap,
       PassComplete, Present
  <2>2. CASE Present(k)
    <3> DEFINE e == [m[k] EXCEPT !.wiped = TRUE, !.hash = NoHash]
    <3>1. m[k] \in slotEntry
      BY <2>2 DEF TypeOK, Present
    <3>2. Size[m[k].blob] \in Nat
      BY Zenon, <3>1, StoreConstants DEF slotEntry
    <3>3. /\ e \in slotEntry /\ e.blob = m[k].blob /\ e.wiped /\ e.expiresAt = m[k].expiresAt
      BY ZenonT(40), <3>1 DEF slotEntry
    <3>4. e # NoEntry
      BY <3>3, NoEntryIsNoEntry
    <3>5. m' = [m EXCEPT ![k] = e] /\ bytes' = bytes - Size[m[k].blob]
      BY Zenon, <1>1, <2>2 DEF PutFull, BytesAtCheck, Len
    <3>6. UNCHANGED <<now, mu, snap, todo, closing, granted, taken, blanks>>
      BY <1>1 DEF PutFull
    <3> HIDE DEF e
    <3>7. m'[k] = e /\ \A j \in Keys \ {k} : m'[j] = m[j]
      BY <3>5 DEF TypeOK
    <3>8. TypeOK'
      BY <3>2, <3>3, <3>5, <3>6 DEF TypeOK
    <3>9. Bookkeeping'
      BY <2>2, <3>3, <3>4, <3>6, <3>7 DEF TypeOK, Bookkeeping, Present
    <3>10. ReadBudget'
      BY Zenon, <3>3, <3>6, <3>7 DEF ReadBudget, Present
    <3>11. BytesWithinCap'
      BY <3>2, <3>5, StoreConstants DEF BytesWithinCap, TypeOK
    <3>12. PassComplete'
      BY Zenon, <2>2, <3>3, <3>6, <3>7 DEF PassComplete, Present
    <3> QED
      BY <3>8, <3>9, <3>10, <3>11, <3>12
  <2> QED
    BY <2>1, <2>2
<1>2. ASSUME NEW k \in Keys, NEW c \in Blobs, NEW ttl \in TTLs, NEW reads \in Reads,
             NEW hash \in Hashes \cup {NoHash}, PutOk(k, c, ttl, reads, hash)
      PROVE  IInv'
  <2> DEFINE e == [blob |-> c, wiped |-> FALSE, expiresAt |-> now + ttl,
                   readsLeft |-> reads, hash |-> hash]
  <2>1. e \in slotEntry /\ e.blob = c /\ e.readsLeft = reads /\ e.wiped = FALSE
    BY StoreConstants DEF TypeOK, slotEntry
  <2>2. e # NoEntry
    BY ZenonT(40), <2>1, NoEntryIsNoEntry
  <2>3. /\ m' = [m EXCEPT ![k] = e]
        /\ granted[c] = 0
        /\ granted' = [granted EXCEPT ![c] = reads]
        /\ bytes' = BytesAtCheck(k) + Size[c]
        /\ MaxStoreBytes > 0 => ~(BytesAtCheck(k) + Size[c] > MaxStoreBytes)
        /\ mu = "free"
        /\ UNCHANGED <<now, mu, snap, todo, closing, taken, blanks>>
    BY Zenon, <1>2 DEF PutOk, OverCap
  <2> HIDE DEF e
  <2>4. m'[k] = e /\ \A j \in Keys \ {k} : m'[j] = m[j]
    BY Zenon, <2>3 DEF TypeOK
  <2>5. BytesAtCheck(k) \in Int /\ Size[c] \in Nat
    BY StoreConstants DEF TypeOK, BytesAtCheck, Len, slotEntry, Present
  <2>6. reads \in Nat \ {0}
    BY StoreConstants
  <2>7. granted'[c] = reads /\ \A d \in Blobs \ {c} : granted'[d] = granted[d]
    BY Zenon, <2>3 DEF TypeOK
  <2>8. \A j \in Keys : Present(j) => m[j] \in slotEntry /\ m[j].blob \in Blobs \ {c}
    BY <2>3 DEF TypeOK, Bookkeeping, Present, slotEntry
  <2>9. taken[c] = 0
    BY <2>3 DEF ReadBudget, TypeOK
  <2>10. TypeOK'
    BY <2>1, <2>3, <2>5, <2>6 DEF TypeOK
  <2>11. Bookkeeping'
    BY <2>1, <2>2, <2>3, <2>4, <2>6, <2>7, <2>8 DEF Bookkeeping, Present
  <2>12. ReadBudget'
    BY <2>1, <2>3, <2>4, <2>6, <2>7, <2>8, <2>9 DEF ReadBudget, Present, TypeOK
  <2>13. BytesWithinCap'
    BY <2>3, <2>5, StoreConstants DEF BytesWithinCap
  <2>14. PassComplete'
    BY Zenon, <2>3 DEF PassComplete
  <2> QED
    BY <2>10, <2>11, <2>12, <2>13, <2>14
<1>3. ASSUME NEW k \in Keys, Present(k), Evict(k), mu = "free",
             UNCHANGED <<now, mu, snap, todo, closing, ghosts>>
      PROVE  IInv'
  <2>1. todo' = todo \ {k}
    BY Zenon, <1>3 DEF Bookkeeping
  <2> QED
    BY Zenon, <1>3, <2>1, EvictPreserves
<1>4. ASSUME UNCHANGED <<m, bytes, now, mu, snap, todo, closing, ghosts>>
      PROVE  IInv'
  BY Zenon, <1>4 DEF TypeOK, Bookkeeping, ReadBudget, BytesWithinCap, PassComplete, Present
<1>5. ASSUME NEW k \in Keys, TakeMiss(k)
      PROVE  IInv'
  BY Zenon, <1>3, <1>4, <1>5 DEF TakeMiss
<1>6. ASSUME NEW k \in Keys, TakeHit(k)
      PROVE  IInv'
  <2> DEFINE b == m[k].blob
             e == [m[k] EXCEPT !.readsLeft = @ - 1]
  <2>1. /\ mu = "free" /\ Present(k)
        /\ UNCHANGED <<now, mu, snap, todo, closing, granted>>
    BY Zenon, <1>6 DEF TakeHit
  <2>2. m[k] \in slotEntry /\ b \in Blobs /\ m[k].readsLeft \in Nat \ {0}
    BY Zenon, <2>1 DEF TypeOK, Present, slotEntry
  <2>3. /\ m' \in [Keys -> slotEntry \cup {NoEntry}]
        /\ \A j \in Keys \ {k} : m'[j] = m[j]
        /\ bytes' \in Int /\ bytes' <= bytes
        /\ \/ m[k].readsLeft = 1 /\ m'[k] = NoEntry
           \/ m[k].readsLeft # 1 /\ m'[k] = e
    <3>1. CASE m[k].readsLeft = 1
      BY Zenon, <1>6, <2>1, <3>1, EvictEffect DEF TakeHit
    <3>2. CASE m[k].readsLeft # 1
      <4>1. m' = [m EXCEPT ![k] = e] /\ bytes' = bytes
        BY Zenon, <1>6, <3>2 DEF TakeHit
      <4>2. e \in slotEntry
        BY <2>2, <3>2 DEF slotEntry
      <4> QED
        BY <3>2, <4>1, <4>2 DEF TypeOK
    <3> QED
      BY Zenon, <3>1, <3>2
  <2>4. /\ e.blob = b /\ e.readsLeft = m[k].readsLeft - 1 /\ e.wiped = m[k].wiped
        /\ e.expiresAt = m[k].expiresAt /\ (e # NoEntry \/ m[k].readsLeft = 1)
    <3>1. CASE m[k].readsLeft # 1
      <4>1. e \in slotEntry
        BY <2>2, <3>1 DEF slotEntry
      <4> QED
        BY Zenon, <2>2, <4>1, NoEntryIsNoEntry DEF slotEntry
    <3> QED
      BY Zenon, <2>2, <3>1 DEF slotEntry
  <2>5. \A j \in Keys \ {k} : Present(j) => m[j] \in slotEntry /\ m[j].blob \in Blobs \ {b}
    BY Zenon, <2>1, <2>2 DEF TypeOK, Bookkeeping, Present, slotEntry
  <2>6. \/ m[k].wiped /\ taken' = taken /\ blanks' \subseteq Blobs
        \/ ~m[k].wiped /\ taken' = [taken EXCEPT ![b] = @ + 1] /\ blanks' = blanks
    BY Zenon, <1>6, <2>2 DEF TakeHit, TypeOK
  <2> HIDE DEF b, e
  <2>7. TypeOK'
    <3>1. taken' \in [Blobs -> Nat] /\ blanks' \subseteq Blobs
      BY <2>6 DEF TypeOK
    <3> QED
      BY Zenon, <2>1, <2>3, <3>1 DEF TypeOK
  <2>8. Bookkeeping'
    BY <2>1, <2>2, <2>3, <2>4, <2>5 DEF Bookkeeping, Present, TypeOK, b
  <2>9. ReadBudget'
    <3>1. CASE m[k].wiped
      BY ZenonT(40), <2>1, <2>3, <2>4, <2>6, <3>1 DEF ReadBudget, Present
    <3>2. CASE ~m[k].wiped
      <4>1. taken'[b] = taken[b] + 1 /\ \A c \in Blobs \ {b} : taken'[c] = taken[c]
        BY Zenon, <2>2, <2>6, <3>2 DEF TypeOK
      <4>2. taken[b] + m[k].readsLeft = granted[b]
        BY Zenon, <2>1, <3>2 DEF ReadBudget, b
      <4>3. taken[b] \in Nat /\ granted[b] \in Nat
        BY <2>2 DEF TypeOK
      <4>4. \A c \in Blobs : taken'[c] <= granted'[c]
        BY <2>1, <2>2, <4>1, <4>2, <4>3 DEF ReadBudget
      <4>5. \A j \in Keys : Present(j)' /\ ~m'[j].wiped =>
              taken'[m'[j].blob] + m'[j].readsLeft = granted'[m'[j].blob]
        <5>1. ASSUME NEW j \in Keys \ {k}, Present(j)', ~m'[j].wiped
              PROVE  taken'[m'[j].blob] + m'[j].readsLeft = granted'[m'[j].blob]
          BY <2>1, <2>3, <2>5, <4>1, <5>1 DEF ReadBudget, Present
        <5>2. ASSUME Present(k)'
              PROVE  taken'[m'[k].blob] + m'[k].readsLeft = granted'[m'[k].blob]
          BY <2>1, <2>2, <2>3, <2>4, <4>1, <4>2, <4>3, <5>2 DEF Present
        <5> QED
          BY Zenon, <5>1, <5>2
      <4> QED
        BY Zenon, <4>4, <4>5 DEF ReadBudget
    <3> QED
      BY <3>1, <3>2
  <2>10. BytesWithinCap'
    BY <2>3, StoreConstants DEF BytesWithinCap, TypeOK
  <2>11. PassComplete'
    BY <2>1 DEF PassComplete
  <2> QED
    BY <2>7, <2>8, <2>9, <2>10, <2>11
<1>7. ASSUME NEW k \in Keys, NEW h \in Hashes, Delete(k, h)
      PROVE  IInv'
  BY Zenon, <1>3, <1>4, <1>7 DEF Delete, DeleteMiss, DeleteHit
<1>8. CASE SweepBegin
  BY <1>8 DEF SweepBegin, TypeOK, Bookkeeping, ReadBudget, BytesWithinCap, PassComplete, Present
<1>9. CASE ZeroizeAllBegin
  <2>1. closing' \in BOOLEAN /\ closing'
    BY <1>9, Zenon DEF ZeroizeAllBegin
  <2> QED
    BY Zenon, <1>9, <2>1 DEF ZeroizeAllBegin, TypeOK, Bookkeeping, ReadBudget, BytesWithinCap,
       PassComplete, Present
<1>10. ASSUME NEW k \in Keys, SweepVisit(k)
       PROVE  IInv'
  <2>1. CASE snap > m[k].expiresAt
    BY Zenon, <1>10, <2>1, EvictPreserves DEF SweepVisit, Bookkeeping
  <2>2. CASE ~(snap > m[k].expiresAt)
    <3>1. m[k] \in slotEntry
      BY Zenon, <1>10 DEF SweepVisit, Bookkeeping, Present, TypeOK
    <3>2. m[k].expiresAt >= snap
      BY <2>2, <3>1 DEF slotEntry, TypeOK
    <3> QED
      BY <1>10, <2>2, <3>2 DEF SweepVisit, TypeOK, Bookkeeping, ReadBudget, BytesWithinCap,
         PassComplete, Present
  <2> QED
    BY <2>1, <2>2
<1>11. ASSUME NEW k \in Keys, ZeroizeAllVisit(k)
       PROVE  IInv'
  BY Zenon, <1>11, EvictPreserves DEF ZeroizeAllVisit, Bookkeeping
<1>12. CASE Unlock
  BY <1>12 DEF Unlock, TypeOK, Bookkeeping, ReadBudget, BytesWithinCap, PassComplete, Present
<1>13. CASE Tick
  BY <1>13 DEF Tick, TypeOK, Bookkeeping, ReadBudget, BytesWithinCap, PassComplete, Present
<1>14. CASE UNCHANGED vars
  BY Zenon, <1>4, <1>14 DEF vars
<1> QED
  BY Zenon, <1>1, <1>2, <1>5, <1>6, <1>7, <1>8, <1>9, <1>10, <1>11, <1>12, <1>13, <1>14 DEF Next, Put,
     PutExists, Take, Sweep, ZeroizeAll

\* Every reachable state of the store satisfies the inductive invariant.
THEOREM StoreInvariant == Spec => []IInv
BY InitIInv, NextIInv, PTL DEF Spec

\* The type invariant of the store.
THEOREM StoreTypeOK == Spec => []TypeOK
BY StoreInvariant, PTL DEF IInv

\* No interleaving of Put, Take, Delete, Sweep and ZeroizeAll makes Take hand
\* out a ciphertext more often than its Put allowed.
THEOREM StoreReadBudget == Spec => []ReadBudget
BY StoreInvariant, PTL DEF IInv

\* The byte counter stays within the configured capacity.
THEOREM StoreBytesWithinCap == Spec => []BytesWithinCap
BY StoreInvariant, PTL DEF IInv

\* Sweep and ZeroizeAll leave nothing behind that they should have evicted.
THEOREM StorePassComplete == Spec => []PassComplete
BY StoreInvariant, PTL DEF IInv

-------------------------------------------------------------------------------
(* The store implements the one-shot mailbox. *)

\* The mailbox seen through the refinement mapping: collectable entries are
\* parcels, everything else is an empty address.
LEMMA BoxFacts ==
  ASSUME TypeOK
  PROVE  /\ \A k \in Keys : Collectable(k) => /\ Box[k] = Parcel(m[k])
                                              /\ Parcel(m[k]) \in Mailbox!Parcel
                                              /\ Mailbox!Holds(k)
         /\ \A k \in Keys : ~Collectable(k) => Box[k] = NoEntry /\ ~Mailbox!Holds(k)
<1>1. ASSUME NEW k \in Keys, Collectable(k)
      PROVE  Box[k] = Parcel(m[k]) /\ Parcel(m[k]) \in Mailbox!Parcel /\ Mailbox!Holds(k)
  <2>1. m[k] \in slotEntry
    BY <1>1 DEF TypeOK, Collectable, Present
  <2>2. Parcel(m[k]) \in Mailbox!Parcel
    BY Zenon, <2>1 DEF slotEntry, Parcel, Mailbox!Parcel
  <2> QED
    BY <1>1, <2>2, NoEntryIsNoEntry DEF Box, Mailbox!Holds
<1> QED
  BY Zenon, <1>1 DEF Box, Mailbox!Holds

\* Changing one entry of the map changes at most that address of the mailbox.
LEMMA BoxExcept ==
  ASSUME TypeOK, TypeOK', NEW k \in Keys, \A j \in Keys \ {k} : m'[j] = m[j]
  PROVE  Box' = [Box EXCEPT ![k] = Box'[k]]
BY ZenonT(40) DEF Box, Collectable, Present, Parcel

\* Eviction empties an address, or shows nothing when it was zeroized already;
\* it is a discard when the entry is due or the relay is closing.
LEMMA EvictIsDiscard ==
  ASSUME TypeOK, TypeOK', NEW k \in Keys, Present(k), Evict(k),
         now >= m[k].expiresAt \/ closing, UNCHANGED <<now, closing, taken>>
  PROVE  [Mailbox!Next]_(Mailbox!mvars)
<1>1. m'[k] = NoEntry /\ \A j \in Keys \ {k} : m'[j] = m[j]
  BY EvictEffect
<1>2. Box'[k] = NoEntry
  BY <1>1 DEF Box, Collectable, Present
<1>3. Box' = [Box EXCEPT ![k] = NoEntry]
  BY <1>1, <1>2, BoxExcept
<1>4. CASE Collectable(k)
  <2>0. Mailbox!Holds(k) /\ Box[k] = Parcel(m[k])
    BY <1>4, BoxFacts, Zenon
  <2>1. Box[k].until = m[k].expiresAt
    BY <2>0 DEF Parcel
  <2>2. Mailbox!Discard(k)
    BY Zenon, <1>3, <2>0, <2>1 DEF Mailbox!Discard
  <2> QED
    BY <2>2 DEF Mailbox!Next
<1>5. CASE ~Collectable(k)
  <2>1. Box[k] = NoEntry
    BY <1>5, BoxFacts
  <2>2. Box' = Box
    BY ZenonT(40), <1>3, <2>1 DEF Box
  <2> QED
    BY <2>2 DEF Mailbox!mvars
<1> QED
  BY <1>4, <1>5

\* Storing a ciphertext is a deposit: the address is empty or overdue, and the
\* ciphertext is nowhere in the mailbox.
LEMMA PutOkIsDeposit ==
  ASSUME IInv, IInv', NEW k \in Keys, NEW c \in Blobs, NEW ttl \in TTLs, NEW reads \in Reads,
         NEW hash \in Hashes \cup {NoHash}, PutOk(k, c, ttl, reads, hash)
  PROVE  Mailbox!Next
<1> DEFINE e == [blob |-> c, wiped |-> FALSE, expiresAt |-> now + ttl,
                 readsLeft |-> reads, hash |-> hash]
<1>1. TypeOK /\ TypeOK' /\ Bookkeeping /\ ReadBudget
  BY DEF IInv
<1>2. /\ Present(k) => now >= m[k].expiresAt
      /\ granted[c] = 0
      /\ m' = [m EXCEPT ![k] = e]
      /\ UNCHANGED <<now, closing, taken>>
  BY Zenon DEF PutOk, Reclaimable
<1>3. m'[k] = e /\ \A j \in Keys \ {k} : m'[j] = m[j]
  BY Zenon, <1>1, <1>2 DEF TypeOK
<1>4. e.blob = c /\ e.wiped = FALSE /\ e.expiresAt = now + ttl /\ e \in slotEntry
  BY <1>1, StoreConstants DEF slotEntry, TypeOK
<1> HIDE DEF e
<1>5. e # NoEntry
  BY <1>4, NoEntryIsNoEntry
<1>6. Collectable(k)'
  BY <1>3, <1>4, <1>5 DEF Collectable, Present
<1>7. Box'[k] = Parcel(e)
  BY <1>3, <1>6 DEF Box
<1>8. Parcel(e) \in Mailbox!Parcel /\ Parcel(e).blob = c /\ Parcel(e).until > now
  BY <1>1, <1>4, StoreConstants DEF slotEntry, Parcel, Mailbox!Parcel, TypeOK
<1>9. Box' = [Box EXCEPT ![k] = Box'[k]]
  BY <1>1, <1>3, BoxExcept
<1>10. taken[c] = 0
  BY <1>1, <1>2 DEF ReadBudget, TypeOK
<1>11. ASSUME NEW j \in Keys, Mailbox!Holds(j)
       PROVE  Present(j) /\ Box[j].blob = m[j].blob /\ Box[j].until = m[j].expiresAt
  BY SMTT(30), <1>11 DEF Mailbox!Holds, Box, Collectable, Present, Parcel
<1>12. \A j \in Keys : Mailbox!Holds(j) => Box[j].blob # c
  BY SMTT(30), <1>1, <1>2, <1>11 DEF Bookkeeping
<1>13. Mailbox!Holds(k) => now >= Box[k].until
  BY Zenon, <1>2, <1>11
<1>14. Mailbox!Deposit(k, Box'[k])
  BY Zenon, <1>2, <1>7, <1>8, <1>9, <1>10, <1>12, <1>13 DEF Mailbox!Deposit
<1> QED
  BY <1>7, <1>8, <1>14 DEF Mailbox!Next

\* Reading a genuine ciphertext is a delivery; reading a zeroized one shows nothing.
LEMMA TakeHitIsDeliver ==
  ASSUME IInv, IInv', NEW k \in Keys, TakeHit(k)
  PROVE  [Mailbox!Next]_(Mailbox!mvars)
<1> DEFINE e == [m[k] EXCEPT !.readsLeft = @ - 1]
<1>1. TypeOK /\ TypeOK'
  BY DEF IInv
<1>2. Present(k) /\ now <= m[k].expiresAt /\ m[k] \in slotEntry /\ UNCHANGED <<now, closing>>
  BY <1>1 DEF TakeHit, Expired, Present, TypeOK, slotEntry
<1>3. /\ \A j \in Keys \ {k} : m'[j] = m[j]
      /\ m'[k] = IF m[k].readsLeft = 1 THEN NoEntry ELSE e
  BY Zenon, <1>1, <1>2 DEF TakeHit, Evict, TypeOK
<1>4. Box' = [Box EXCEPT ![k] = Box'[k]]
  BY <1>1, <1>3, BoxExcept
<1>5. /\ e.blob = m[k].blob /\ e.wiped = m[k].wiped /\ e.expiresAt = m[k].expiresAt
      /\ e.hash = m[k].hash /\ e.readsLeft = m[k].readsLeft - 1
      /\ m[k].readsLeft # 1 => e \in slotEntry
  BY <1>2 DEF slotEntry
<1>6. m[k].readsLeft # 1 => e # NoEntry
  BY <1>5, NoEntryIsNoEntry
<1> HIDE DEF e
<1>7. CASE m[k].wiped
  <2>1. ~Collectable(k) /\ ~Collectable(k)'
    BY ZenonT(40), <1>3, <1>5, <1>7 DEF Collectable, Present
  <2>2. Box[k] = NoEntry /\ Box'[k] = NoEntry
    BY <2>1 DEF Box
  <2>3. Box' = Box
    BY ZenonT(40), <1>4, <2>2 DEF Box
  <2>4. taken' = taken
    BY <1>7 DEF TakeHit
  <2> QED
    BY <1>2, <2>3, <2>4 DEF Mailbox!mvars
<1>8. CASE ~m[k].wiped
  <2>1. Collectable(k)
    BY <1>2, <1>8 DEF Collectable
  <2>2. Mailbox!Holds(k) /\ Box[k] = Parcel(m[k])
    BY <1>1, <2>1, BoxFacts, Zenon
  <2>3. taken' = [taken EXCEPT ![m[k].blob] = @ + 1]
    BY Zenon, <1>8 DEF TakeHit
  <2>4. Box'[k] = IF m[k].readsLeft = 1 THEN NoEntry ELSE Parcel(e)
    BY Zenon, <1>3, <1>5, <1>6, <1>8 DEF Box, Collectable, Present
  <2>5. Parcel(e) = [Parcel(m[k]) EXCEPT !.left = Parcel(m[k]).left - 1]
    BY <1>5 DEF Parcel
  <2>6. Parcel(m[k]).left = m[k].readsLeft /\ Parcel(m[k]).until = m[k].expiresAt
        /\ Parcel(m[k]).blob = m[k].blob
    BY DEF Parcel
  <2>7. Box' = [Box EXCEPT ![k] = IF Box[k].left = 1
                                    THEN NoEntry
                                    ELSE [Box[k] EXCEPT !.left = Box[k].left - 1]]
    BY Zenon, <1>4, <2>2, <2>4, <2>5, <2>6
  <2>8. Mailbox!Deliver(k)
    BY ZenonT(40), <1>2, <2>2, <2>3, <2>6, <2>7 DEF Mailbox!Deliver
  <2> QED
    BY <2>8 DEF Mailbox!Next
<1> QED
  BY <1>7, <1>8

\* Deleting with the registered token is a withdrawal.
LEMMA DeleteHitIsWithdraw ==
  ASSUME IInv, IInv', NEW k \in Keys, NEW h \in Hashes, DeleteHit(k, h)
  PROVE  [Mailbox!Next]_(Mailbox!mvars)
<1>1. TypeOK /\ TypeOK'
  BY DEF IInv
<1>2. /\ Present(k) /\ now <= m[k].expiresAt /\ m[k].hash = h /\ h # NoHash /\ Evict(k)
      /\ UNCHANGED <<now, closing, taken>>
  BY <1>1 DEF DeleteHit, Expired, Present, TypeOK, slotEntry, ghosts
<1>3. m'[k] = NoEntry /\ \A j \in Keys \ {k} : m'[j] = m[j]
  BY Zenon, <1>1, <1>2, EvictEffect
<1>4. Box'[k] = NoEntry
  BY <1>3 DEF Box, Collectable, Present
<1>5. Box' = [Box EXCEPT ![k] = NoEntry]
  BY <1>1, <1>3, <1>4, BoxExcept
<1>6. CASE Collectable(k)
  <2>1. Mailbox!Holds(k) /\ Box[k] = Parcel(m[k])
    BY <1>1, <1>6, BoxFacts, Zenon
  <2>2. Box[k].until = m[k].expiresAt /\ Box[k].token = m[k].hash
    BY <2>1 DEF Parcel
  <2>3. Mailbox!Withdraw(k, h)
    BY Zenon, <1>2, <1>5, <2>1, <2>2 DEF Mailbox!Withdraw
  <2> QED
    BY <2>3 DEF Mailbox!Next
<1>7. CASE ~Collectable(k)
  <2>1. Box[k] = NoEntry
    BY <1>1, <1>7, BoxFacts, Zenon
  <2>2. Box' = Box
    BY ZenonT(40), <1>5, <2>1 DEF Box
  <2> QED
    BY <1>2, <2>2 DEF Mailbox!mvars
<1> QED
  BY <1>6, <1>7

\* Every step of the store is a step of the mailbox or is invisible to it.
LEMMA StepSimulation ==
  ASSUME IInv, IInv', [Next]_vars
  PROVE  [Mailbox!Next]_(Mailbox!mvars)
<1>1. TypeOK /\ TypeOK' /\ Bookkeeping
  BY DEF IInv
<1> USE DEF ghosts
<1>2. ASSUME UNCHANGED <<m, now, closing, taken>>
      PROVE  UNCHANGED Mailbox!mvars
  BY <1>2 DEF Mailbox!mvars, Box, Collectable, Present
<1>3. ASSUME NEW k \in Keys, Present(k), Expired(k), Evict(k), UNCHANGED <<now, closing, taken>>
      PROVE  [Mailbox!Next]_(Mailbox!mvars)
  <2>1. now >= m[k].expiresAt
    BY <1>1, <1>3 DEF Expired, Present, TypeOK, slotEntry
  <2> QED
    BY <1>1, <1>3, <2>1, EvictIsDiscard
<1>4. ASSUME NEW k \in Keys, NEW c \in Blobs, PutFull(k, c)
      PROVE  [Mailbox!Next]_(Mailbox!mvars)
  <2>1. CASE ~Present(k)
    BY <1>2, <1>4, <2>1 DEF PutFull
  <2>2. CASE Present(k)
    <3> DEFINE e == [m[k] EXCEPT !.wiped = TRUE, !.hash = NoHash]
    <3>1. /\ now >= m[k].expiresAt
          /\ m' = [m EXCEPT ![k] = e]
          /\ UNCHANGED <<now, closing, taken>>
      BY <1>4, <2>2 DEF PutFull, Reclaimable
    <3>2. m'[k] = e /\ \A j \in Keys \ {k} : m'[j] = m[j]
      BY Zenon, <1>1, <3>1 DEF TypeOK
    <3>3. e.wiped
      BY <1>1, <2>2 DEF TypeOK, Present, slotEntry
    <3>4. Box'[k] = NoEntry
      BY ZenonT(40), <3>2, <3>3 DEF Box, Collectable, Present
    <3>5. Box' = [Box EXCEPT ![k] = NoEntry]
      BY <1>1, <3>2, <3>4, BoxExcept
    <3>6. CASE Collectable(k)
      <4>1. Mailbox!Holds(k) /\ Box[k] = Parcel(m[k])
        BY <1>1, <3>6, BoxFacts, Zenon
      <4>2. Box[k].until = m[k].expiresAt
        BY <4>1 DEF Parcel
      <4>3. Mailbox!Discard(k)
        BY <3>1, <3>5, <4>1, <4>2 DEF Mailbox!Discard
      <4> QED
        BY <4>3 DEF Mailbox!Next
    <3>7. CASE ~Collectable(k)
      <4>1. Box[k] = NoEntry
        BY <1>1, <3>7, BoxFacts, Zenon
      <4>2. Box' = Box
        BY ZenonT(40), <3>5, <4>1 DEF Box
      <4> QED
        BY <3>1, <4>2 DEF Mailbox!mvars
    <3> QED
      BY <3>6, <3>7
  <2> QED
    BY <2>1, <2>2
<1>5. ASSUME NEW k \in Keys, TakeMiss(k)
      PROVE  [Mailbox!Next]_(Mailbox!mvars)
  BY <1>2, <1>3, <1>5 DEF TakeMiss
<1>6. ASSUME NEW k \in Keys, NEW h \in Hashes, DeleteMiss(k, h)
      PROVE  [Mailbox!Next]_(Mailbox!mvars)
  BY Zenon, <1>2, <1>3, <1>6 DEF DeleteMiss
<1>7. CASE SweepBegin \/ Unlock \/ UNCHANGED vars
  BY Zenon, <1>2, <1>7 DEF SweepBegin, Unlock, vars
<1>8. CASE ZeroizeAllBegin
  <2>1. UNCHANGED <<m, now, taken>> /\ closing' = TRUE
    BY <1>8 DEF ZeroizeAllBegin
  <2>2. UNCHANGED Box
    BY <2>1 DEF Box, Collectable, Present
  <2> QED
    BY <2>1, <2>2 DEF Mailbox!Next, Mailbox!Close
<1>9. ASSUME NEW k \in Keys, SweepVisit(k)
      PROVE  [Mailbox!Next]_(Mailbox!mvars)
  <2>1. CASE snap > m[k].expiresAt
    <3>1. Present(k) /\ Expired(k)
      BY <1>1, <1>9, <2>1 DEF SweepVisit, Bookkeeping, Present, Expired, TypeOK, slotEntry
    <3> QED
      BY Zenon, <1>3, <1>9, <2>1, <3>1 DEF SweepVisit
  <2>2. CASE ~(snap > m[k].expiresAt)
    BY <1>2, <1>9, <2>2 DEF SweepVisit
  <2> QED
    BY <2>1, <2>2
<1>10. ASSUME NEW k \in Keys, ZeroizeAllVisit(k)
       PROVE  [Mailbox!Next]_(Mailbox!mvars)
  <2>1. Present(k) /\ closing /\ Evict(k) /\ UNCHANGED <<now, closing, taken>>
    BY Zenon, <1>1, <1>10 DEF ZeroizeAllVisit, Bookkeeping
  <2> QED
    BY <1>1, <2>1, EvictIsDiscard
<1>11. CASE Tick
  <2>1. UNCHANGED Box
    BY <1>11 DEF Tick, Box, Collectable, Present
  <2> QED
    BY <1>11, <2>1 DEF Tick, Mailbox!Next, Mailbox!Pass
<1> QED
  BY Zenon, <1>2, <1>4, <1>5, <1>6, <1>7, <1>8, <1>9, <1>10, <1>11, PutOkIsDeposit, TakeHitIsDeliver,
     DeleteHitIsWithdraw DEF Next, Put, PutExists, Take, Delete, Sweep, ZeroizeAll, vars

\* The empty store is the empty mailbox.
LEMMA InitSimulation == Init => Mailbox!Init
BY DEF Init, Mailbox!Init, Box, Collectable, Present

\* The store implements the one-shot mailbox, whatever its capacity: every slot
\* a caller can collect from was deposited once, is handed out within its grant
\* and deadline, and disappears only by right.
THEOREM StoreImplementsMailbox == Spec => ImplementsMailbox
<1>1. IInv /\ IInv' /\ [Next]_vars => [Mailbox!Next]_(Mailbox!mvars)
  BY StepSimulation
<1> QED
  BY <1>1, StoreInvariant, InitSimulation, PTL DEF Spec, ImplementsMailbox, Mailbox!Spec

-------------------------------------------------------------------------------
(* The byte counter                                                        *)

\* The bytes of an entry e under key k, and how many they are.
Row(k, e) == IF e # NoEntry THEN {k} \X (1 .. Size[e.blob]) ELSE {}
Weight(e) == IF e # NoEntry THEN Size[e.blob] ELSE 0

\* The inductive form of NeverOvercounts.
Accounted == IsFiniteSet(Octets) /\ bytes <= Cardinality(Octets)

\* Replacing a part of a finite set by a set disjoint from the rest.
LEMMA ReplacePart ==
  ASSUME NEW S, IsFiniteSet(S), NEW A \in SUBSET S, NEW B, IsFiniteSet(B), B \cap (S \ A) = {}
  PROVE  /\ IsFiniteSet((S \ A) \cup B)
         /\ Cardinality((S \ A) \cup B) = Cardinality(S) - Cardinality(A) + Cardinality(B)
<1>1. IsFiniteSet(A) /\ S \cap A = A
  BY Zenon, FS_Subset
<1>2. IsFiniteSet(S \ A) /\ Cardinality(S \ A) = Cardinality(S) - Cardinality(A)
  BY Zenon, <1>1, FS_Difference
<1>3. (S \ A) \cap B = {}
  OBVIOUS
<1>4. /\ IsFiniteSet((S \ A) \cup B)
      /\ Cardinality((S \ A) \cup B) = Cardinality(S \ A) + Cardinality(B) - Cardinality({})
  <2>1. /\ IsFiniteSet((S \ A) \cup B)
        /\ Cardinality((S \ A) \cup B) =
             Cardinality(S \ A) + Cardinality(B) - Cardinality((S \ A) \cap B)
    BY Zenon, <1>2, FS_Union
  <2> QED
    BY Zenon, <1>3, <2>1
<1>5. Cardinality({}) = 0 /\ Cardinality(S) \in Nat /\ Cardinality(A) \in Nat /\ Cardinality(B) \in Nat
  BY Zenon, <1>1, FS_EmptySet, FS_CardinalityType
<1> QED
  BY <1>2, <1>4, <1>5

\* The bytes of one ciphertext are as many as it is long.
LEMMA RowSize ==
  ASSUME NEW k, NEW n \in Nat
  PROVE  IsFiniteSet({k} \X (1 .. n)) /\ Cardinality({k} \X (1 .. n)) = n
<1>1. IsFiniteSet({k}) /\ Cardinality({k}) = 1
  BY Zenon, FS_Singleton
<1>2. IsFiniteSet(1 .. n) /\ Cardinality(1 .. n) = n
  BY FS_Interval
<1>3. IsFiniteSet({k} \X (1 .. n)) /\ Cardinality({k} \X (1 .. n)) = Cardinality({k}) * Cardinality(1 .. n)
  BY Zenon, <1>1, <1>2, FS_Product
<1> QED
  BY <1>1, <1>2, <1>3

\* What is under a key is as large as it weighs.
LEMMA EntrySize ==
  ASSUME NEW k, NEW e \in slotEntry \cup {NoEntry}
  PROVE  /\ IsFiniteSet(Row(k, e)) /\ Cardinality(Row(k, e)) = Weight(e) /\ Weight(e) \in Nat
         /\ \A x \in Row(k, e) : x[1] = k
<1>1. CASE e = NoEntry
  BY <1>1, FS_EmptySet DEF Row, Weight
<1>2. CASE e # NoEntry
  <2>1. e.blob \in Blobs
    BY Zenon, <1>2 DEF slotEntry
  <2>2. Size[e.blob] \in Nat
    BY Zenon, <2>1, StoreConstants
  <2>3. Row(k, e) = {k} \X (1 .. Size[e.blob]) /\ Weight(e) = Size[e.blob]
    BY Zenon, <1>2 DEF Row, Weight
  <2>4. \A x \in {k} \X (1 .. Size[e.blob]) : x[1] = k
    OBVIOUS
  <2>5. /\ IsFiniteSet({k} \X (1 .. Size[e.blob]))
        /\ Cardinality({k} \X (1 .. Size[e.blob])) = Size[e.blob]
    BY Zenon, <2>2, RowSize
  <2> QED
    BY Zenon, <2>2, <2>3, <2>4, <2>5
<1> QED
  BY Zenon, <1>1, <1>2

\* A step that touches one key changes the bytes in the map by what that key's entry weighs.
LEMMA KeyChange ==
  ASSUME TypeOK, TypeOK', IsFiniteSet(Octets), NEW k \in Keys, \A j \in Keys \ {k} : m'[j] = m[j]
  PROVE  /\ IsFiniteSet(Octets')
         /\ Cardinality(Octets') = Cardinality(Octets) - Weight(m[k]) + Weight(m'[k])
         /\ Weight(m[k]) \in Nat /\ Weight(m'[k]) \in Nat /\ Cardinality(Octets) \in Nat
<1>1. /\ Octets = UNION {Row(j, m[j]) : j \in Keys}
      /\ Octets' = UNION {Row(j, m'[j]) : j \in Keys}
  BY Zenon DEF Octets, Resident, Present, Len, Row
<1>2. \A j \in Keys : m[j] \in slotEntry \cup {NoEntry} /\ m'[j] \in slotEntry \cup {NoEntry}
  BY Zenon DEF TypeOK
<1> DEFINE A == Row(k, m[k])
           B == Row(k, m'[k])
<1>3. /\ IsFiniteSet(A) /\ Cardinality(A) = Weight(m[k]) /\ Weight(m[k]) \in Nat
      /\ IsFiniteSet(B) /\ Cardinality(B) = Weight(m'[k]) /\ Weight(m'[k]) \in Nat
  BY Zenon, <1>2, EntrySize
<1>4. \A j \in Keys : \A x \in Row(j, m[j]) \cup Row(j, m'[j]) : x[1] = j
  BY Zenon, <1>2, EntrySize
<1>5. A \in SUBSET Octets
  BY Zenon, <1>1
<1>6. B \cap (Octets \ A) = {}
  <2> SUFFICES ASSUME NEW x \in B, x \in Octets PROVE x \in A
    BY Zenon
  <2>1. PICK j \in Keys : x \in Row(j, m[j])
    BY Zenon, <1>1
  <2>2. j = k
    BY Zenon, <1>4, <2>1
  <2> QED
    BY Zenon, <2>1, <2>2
<1>7. Octets' = (Octets \ A) \cup B
  <2>1. ASSUME NEW x \in Octets' PROVE x \in (Octets \ A) \cup B
    <3>1. PICK j \in Keys : x \in Row(j, m'[j])
      BY Zenon, <1>1
    <3>2. CASE j # k
      <4>1. x \in Octets
        BY Zenon, <1>1, <3>1, <3>2
      <4>2. x \notin A
        BY Zenon, <1>4, <3>1, <3>2
      <4> QED
        BY Zenon, <4>1, <4>2
    <3> QED
      BY Zenon, <3>1, <3>2
  <2>2. ASSUME NEW x \in Octets \ A PROVE x \in Octets'
    <3>1. PICK j \in Keys : x \in Row(j, m[j])
      BY Zenon, <1>1
    <3>2. j # k
      BY Zenon, <2>2, <3>1
    <3> QED
      BY Zenon, <1>1, <3>1, <3>2
  <2>3. B \in SUBSET Octets'
    BY Zenon, <1>1
  <2> QED
    BY Zenon, <2>1, <2>2, <2>3
<1>8. Cardinality(Octets) \in Nat
  BY Zenon, FS_CardinalityType
<1> HIDE DEF A, B
<1>9. /\ IsFiniteSet((Octets \ A) \cup B)
      /\ Cardinality((Octets \ A) \cup B) = Cardinality(Octets) - Cardinality(A) + Cardinality(B)
  BY <1>3, <1>5, <1>6, ReplacePart
<1> QED
  BY Zenon, <1>3, <1>7, <1>8, <1>9

\* The counter that follows the weight of the key a step touches, or falls short of it, stays
\* below the bytes in the map.
LEMMA Charged ==
  ASSUME TypeOK, TypeOK', Accounted, NEW k \in Keys, \A j \in Keys \ {k} : m'[j] = m[j],
         bytes' <= bytes - Weight(m[k]) + Weight(m'[k])
  PROVE  Accounted'
<1>1. /\ IsFiniteSet(Octets')
      /\ Cardinality(Octets') = Cardinality(Octets) - Weight(m[k]) + Weight(m'[k])
      /\ Weight(m[k]) \in Nat /\ Weight(m'[k]) \in Nat /\ Cardinality(Octets) \in Nat
  BY Zenon, KeyChange DEF Accounted
<1>2. bytes \in Int /\ bytes' \in Int /\ bytes <= Cardinality(Octets)
  BY Zenon DEF TypeOK, Accounted
<1>3. bytes' <= Cardinality(Octets')
  BY <1>1, <1>2
<1> QED
  BY Zenon, <1>1, <1>3 DEF Accounted

\* Eviction subtracts what it removes, in all five paths.
LEMMA EvictCharged ==
  ASSUME TypeOK, TypeOK', Accounted, NEW k \in Keys, Present(k), Evict(k)
  PROVE  Accounted'
<1>1. m'[k] = NoEntry /\ \A j \in Keys \ {k} : m'[j] = m[j]
  BY Zenon, EvictEffect
<1>2. Weight(m'[k]) = 0 /\ Weight(m[k]) = Len(k) /\ bytes' = bytes - Len(k)
  BY Zenon, <1>1 DEF Weight, Present, Len, Evict
<1>3. Weight(m[k]) \in Nat /\ bytes \in Int
  BY Zenon, EntrySize DEF TypeOK
<1>4. bytes' <= bytes - Weight(m[k]) + Weight(m'[k])
  BY <1>2, <1>3
<1> QED
  BY Zenon, <1>1, <1>4, Charged

\* An entry that is put in place of what was under the key is charged for; one that is only
\* zeroized is not, though it stays in the map.
LEMMA PutCharged ==
  ASSUME TypeOK, TypeOK', Accounted, NEW k \in Keys, NEW c \in Blobs,
         \/ PutFull(k, c)
         \/ \E ttl \in TTLs, reads \in Reads, hash \in Hashes \cup {NoHash} :
              PutOk(k, c, ttl, reads, hash)
  PROVE  Accounted'
<1>1. /\ BytesAtCheck(k) = bytes - Weight(m[k]) /\ Weight(m[k]) \in Nat /\ bytes \in Int
      /\ Size[c] \in Nat
  <2>1. Weight(m[k]) \in Nat /\ bytes \in Int
    BY Zenon, EntrySize DEF TypeOK
  <2>2. BytesAtCheck(k) = IF Present(k) THEN bytes - Weight(m[k]) ELSE bytes
    BY Zenon DEF BytesAtCheck, Present, Len, Weight
  <2>3. ~Present(k) => Weight(m[k]) = 0
    BY Zenon DEF Present, Weight
  <2>4. Size[c] \in Nat
    BY Zenon, StoreConstants
  <2> QED
    BY <2>1, <2>2, <2>3, <2>4
<1>2. CASE PutFull(k, c)
  <2>1. CASE ~Present(k)
    BY Zenon, <1>2, <2>1 DEF PutFull, BytesAtCheck, Accounted, Octets, Resident, Present, Len
  <2>2. CASE Present(k)
    <3>1. m[k] \in slotEntry
      BY Zenon, <2>2 DEF TypeOK, Present
    <3>2. /\ m' = [m EXCEPT ![k] = [m[k] EXCEPT !.wiped = TRUE, !.hash = NoHash]]
          /\ bytes' = BytesAtCheck(k)
      BY Zenon, <1>2, <2>2 DEF PutFull
    <3>3. m'[k] = [m[k] EXCEPT !.wiped = TRUE, !.hash = NoHash] /\ \A j \in Keys \ {k} : m'[j] = m[j]
      BY Zenon, <3>2 DEF TypeOK
    <3>4. m'[k].blob = m[k].blob
      BY <3>1, <3>3 DEF slotEntry
    <3>5. Weight(m'[k]) \in Nat
      BY Zenon, EntrySize DEF TypeOK
    <3>6. bytes' <= bytes - Weight(m[k]) + Weight(m'[k])
      BY <1>1, <3>2, <3>5
    <3> QED
      BY Zenon, <3>3, <3>6, Charged
  <2> QED
    BY Zenon, <2>1, <2>2
<1>3. ASSUME NEW ttl \in TTLs, NEW reads \in Reads, NEW hash \in Hashes \cup {NoHash},
             PutOk(k, c, ttl, reads, hash)
      PROVE  Accounted'
  <2> DEFINE e == [blob |-> c, wiped |-> FALSE, expiresAt |-> now + ttl,
                   readsLeft |-> reads, hash |-> hash]
  <2>1. m' = [m EXCEPT ![k] = e] /\ bytes' = BytesAtCheck(k) + Size[c]
    BY Zenon, <1>3 DEF PutOk
  <2>2. e.blob = c
    OBVIOUS
  <2>3. e \in slotEntry
    BY StoreConstants DEF TypeOK, slotEntry
  <2> HIDE DEF e
  <2>4. m'[k] = e /\ \A j \in Keys \ {k} : m'[j] = m[j]
    BY Zenon, <2>1 DEF TypeOK
  <2>5. Weight(m'[k]) = Size[c]
    BY Zenon, <2>2, <2>3, <2>4, NoEntryIsNoEntry DEF Weight
  <2>6. bytes' <= bytes - Weight(m[k]) + Weight(m'[k])
    BY <1>1, <2>1, <2>5
  <2> QED
    BY Zenon, <2>4, <2>6, Charged
<1> QED
  BY Zenon, <1>2, <1>3

\* A read that is not the last one leaves the ciphertext in the map, and charged for.
LEMMA TakeCharged ==
  ASSUME TypeOK, TypeOK', Accounted, NEW k \in Keys, TakeHit(k)
  PROVE  Accounted'
<1>1. CASE m[k].readsLeft = 1
  BY Zenon, <1>1, EvictCharged DEF TakeHit
<1>2. CASE m[k].readsLeft # 1
  <2>1. Present(k) /\ m' = [m EXCEPT ![k] = [m[k] EXCEPT !.readsLeft = m[k].readsLeft - 1]] /\ bytes' = bytes
    BY Zenon, <1>2 DEF TakeHit
  <2>2. m[k] \in slotEntry
    BY Zenon, <2>1 DEF TypeOK, Present
  <2>3. /\ m'[k] = [m[k] EXCEPT !.readsLeft = m[k].readsLeft - 1]
        /\ \A j \in Keys \ {k} : m'[j] = m[j]
    BY Zenon, <2>1 DEF TypeOK
  <2>4. m'[k].blob = m[k].blob /\ m[k].readsLeft - 1 \in Nat \ {0}
    BY <1>2, <2>2, <2>3 DEF slotEntry
  <2>5. m'[k] \in slotEntry
    BY <2>2, <2>3, <2>4 DEF slotEntry
  <2>6. Weight(m'[k]) = Weight(m[k])
    <3>1. m'[k] # NoEntry /\ m[k] # NoEntry
      BY Zenon, <2>1, <2>5, NoEntryIsNoEntry DEF Present
    <3> QED
      BY Zenon, <2>4, <3>1 DEF Weight
  <2>7. Weight(m[k]) \in Nat /\ bytes \in Int
    BY Zenon, EntrySize DEF TypeOK
  <2>8. bytes' <= bytes - Weight(m[k]) + Weight(m'[k])
    BY <2>1, <2>6, <2>7
  <2> QED
    BY Zenon, <2>3, <2>8, Charged
<1> QED
  BY Zenon, <1>1, <1>2

\* Every step keeps the counter at or below the bytes in the map.
LEMMA NextAccounted == IInv /\ IInv' /\ Accounted /\ [Next]_vars => Accounted'
<1> SUFFICES ASSUME IInv, IInv', Accounted, [Next]_vars PROVE Accounted'
  OBVIOUS
<1>0. TypeOK /\ TypeOK' /\ \A k \in todo : k \in Keys /\ Present(k)
  BY Zenon DEF IInv, TypeOK, Bookkeeping
<1>1. ASSUME UNCHANGED <<m, bytes>> PROVE Accounted'
  BY Zenon, <1>1 DEF Accounted, Octets, Resident, Present, Len
<1>2. ASSUME NEW k \in Keys, Present(k), Evict(k) PROVE Accounted'
  BY Zenon, <1>0, <1>2, EvictCharged
<1>3. ASSUME NEW k \in Keys, Put(k) PROVE Accounted'
  BY Zenon, <1>0, <1>1, <1>3, PutCharged DEF Put, PutExists, vars
<1>4. ASSUME NEW k \in Keys, Take(k) PROVE Accounted'
  BY Zenon, <1>0, <1>1, <1>2, <1>4, TakeCharged DEF Take, TakeMiss
<1>5. ASSUME NEW k \in Keys, NEW h \in Hashes, Delete(k, h) PROVE Accounted'
  BY Zenon, <1>1, <1>2, <1>5 DEF Delete, DeleteMiss, DeleteHit
<1>6. ASSUME Sweep PROVE Accounted'
  BY Zenon, <1>0, <1>1, <1>2, <1>6 DEF Sweep, SweepBegin, SweepVisit
<1>7. ASSUME ZeroizeAll PROVE Accounted'
  BY Zenon, <1>0, <1>1, <1>2, <1>7 DEF ZeroizeAll, ZeroizeAllBegin, ZeroizeAllVisit
<1>8. ASSUME Unlock \/ Tick \/ UNCHANGED vars PROVE Accounted'
  BY Zenon, <1>1, <1>8 DEF Unlock, Tick, vars
<1> QED
  BY Zenon, <1>3, <1>4, <1>5, <1>6, <1>7, <1>8 DEF Next

\* No eviction path of store.go (a reclaimed, expired, taken, deleted, swept or zeroized entry)
\* leaves bytes charged that are no longer in the map.
THEOREM StoreNeverOvercounts == Spec => []NeverOvercounts
<1>1. Init => Accounted
  <2> SUFFICES ASSUME Init PROVE Accounted
    OBVIOUS
  <2>1. Octets = {}
    BY Zenon DEF Init, Octets, Resident, Present
  <2>2. IsFiniteSet({}) /\ Cardinality({}) = 0
    BY Zenon, FS_EmptySet
  <2>3. bytes <= 0
    BY DEF Init
  <2> QED
    BY Zenon, <2>1, <2>2, <2>3 DEF Accounted
<1>2. Accounted => NeverOvercounts
  BY Zenon DEF Accounted, NeverOvercounts, StoredBytes
<1> QED
  BY <1>1, <1>2, NextAccounted, StoreInvariant, PTL DEF Spec
===============================================================================
