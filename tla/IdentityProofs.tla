--------------------------- MODULE IdentityProofs ---------------------------
(***************************************************************************)
(* FingerprintStable, KeysMatch, MissExplained and DeleteSurvived of       *)
(* Identity, for any machines and platforms, and any number of sessions,   *)
(* of bootstraps and of deletions.                                         *)
(***************************************************************************)
EXTENDS Identity, TLAPS

\* What FinishBootstrap is doing.
FinRec == [round : 0 .. MaxRounds, store : Rings \cup {Noop}, attempt : 0 .. 1,
           at : {"enter", "put", "add", "update"} \cup Over]

\* FinishBootstrap under way on side s: it is the latest bootstrap's.
Active(s) == fin[s].at \notin Over

\* The blob that Put stores for side t of bootstrap n.
BlobOf(t, n) == MarshalEntry(EntryOf(t, n))

\* Whatever a ring holds for a bootstrap, a side on that machine put there, and has finished.
Genuine(h, r, n) ==
  rings[h][r][n] # NoBlob =>
    /\ n <= Len(initiator)
    /\ \E t \in Sides : /\ H(t) = h /\ rings[h][r][n] = BlobOf(t, n)
                        /\ Active(t) => fin[t].round # n

\* An entry that was stored and not removed since is there.
Present(s, n) ==
  kept[s][n] # Noop /\ n \notin lost[s] => rings[H(s)][kept[s][n]][n] # NoBlob

\* The stages of FinishBootstrap.  The keychain's Put meets an item, or comes back for a second
\* round, only when the other end is done.
Finishing(s) ==
  /\ Active(s) => fin[s].round = Len(initiator) /\ fin[s].round \in Rounds
  /\ fin[s].at \in {"enter", "put", "update"} => fin[s].attempt = 0
  /\ fin[s].at \in {"add", "update"} => fin[s].store = "keychain"
  /\ fin[s].at = "update" => ~Active(Peer(s))
  /\ fin[s].at = "add" /\ fin[s].attempt # 0 => Item(s) = NoBlob /\ ~Active(Peer(s))
  /\ fin[s].at # "notFound"

\* What a command found is the entry of a side on its machine, of the bootstrap its capsule is of.
Looked(s) ==
  /\ Found(s) => /\ got[s].round \in 1 .. Len(initiator)
                 /\ \E t \in Sides : H(t) = H(s) /\ got[s].entry = EntryOf(t, got[s].round)
  /\ Found(s) \/ got[s].excused

NInv ==
  /\ IdentityTypeOK /\ DOMAIN got = Sides
  /\ \A s \in Sides : /\ Finishing(s) /\ Looked(s) /\ capsule[s] <= Len(initiator)
                      /\ \A n \in Rounds : Present(s, n)
  /\ \A h \in Hosts, r \in Rings, n \in Rounds : Genuine(h, r, n)

-----------------------------------------------------------------------------
(* The pair, the rings and the entries                                     *)

\* Each of the two ends is the other's peer.
LEMMA Pairs ==
  ASSUME NEW s \in Sides
  PROVE  /\ Peer(s) \in Sides /\ Peer(s) # s /\ Peer(Peer(s)) = s
         /\ \A t \in Sides : t = s \/ t = Peer(s)
<1>1. PICK x, y \in Sides : x # y /\ Sides = {x, y}
  BY Zenon, IdentityConstants
<1>2. Peer(x) = y /\ Peer(y) = x
  BY <1>1 DEF Peer
<1> QED
  BY <1>1, <1>2

\* No ring is the stand-in store, and New returns a ring or fails.
LEMMA RingNames ==
  /\ Noop \notin Rings /\ "keychain" \in Rings /\ "persistent" \in Rings /\ Sessions \subseteq Rings
  /\ IdentityTypeOK => \A s \in Sides : H(s) \in Hosts /\ New(s) \subseteq Rings \cup {Noop}
<1>1. Noop \notin Rings /\ "keychain" \in Rings /\ "persistent" \in Rings /\ Sessions \subseteq Rings
  BY Zenon, IdentityConstants DEF Rings, Noop
<1>2. ASSUME IdentityTypeOK, NEW s \in Sides PROVE H(s) \in Hosts /\ New(s) \subseteq Rings \cup {Noop}
  <2>1. H(s) \in Hosts /\ platform[H(s)] \in {"linux", "darwin", "other"}
    BY <1>2, IdentityConstants DEF IdentityTypeOK, H
  <2> QED
    BY Zenon, <1>1, <2>1 DEF New
<1> QED
  BY <1>1, <1>2

\* What the invariant says of the constants and of each side, in the form the steps use.
LEMMA Facts ==
  ASSUME NInv
  PROVE  /\ IdentityTypeOK /\ Len(initiator) \in Nat /\ DOMAIN got = Sides
         /\ \A h \in Hosts, r \in Rings, n \in Rounds : Genuine(h, r, n)
         /\ fin \in [Sides -> FinRec] /\ Idle \in FinRec /\ Idle.at = "idle" /\ dels \in 0 .. MaxDeletes
         /\ \A s \in Sides :
              /\ Finishing(s) /\ Looked(s) /\ H(s) \in Hosts
              /\ capsule[s] \in 0 .. MaxRounds /\ capsule[s] <= Len(initiator)
              /\ \A n \in Rounds : Present(s, n) /\ (kept[s][n] \in Rings \/ kept[s][n] = Noop)
<1>1. IdentityTypeOK
  BY Zenon DEF NInv
<1>2. Len(initiator) \in Nat
  BY <1>1 DEF IdentityTypeOK
<1>3. \A s \in Sides, n \in Rounds : kept[s][n] \in Rings \/ kept[s][n] = Noop
  BY <1>1 DEF IdentityTypeOK
<1>4. fin \in [Sides -> FinRec] /\ dels \in 0 .. MaxDeletes /\ \A s \in Sides : capsule[s] \in 0 .. MaxRounds
  BY Zenon, <1>1 DEF IdentityTypeOK, FinRec
<1>5. Idle \in FinRec /\ Idle.at = "idle"
  BY IdentityConstants DEF FinRec, Idle, Over
<1> QED
  BY Zenon, <1>1, <1>2, <1>3, <1>4, <1>5, RingNames DEF NInv

\* An entry survives MarshalEntry and UnmarshalEntry, an empty blob is a miss, and the stored role
\* puts the keys in the order both operators saw.
LEMMA Entries ==
  ASSUME IdentityTypeOK, NEW t \in Sides, NEW n \in 1 .. Len(initiator)
  PROVE  /\ n \in Rounds /\ BlobOf(t, n) \in Blob /\ BlobOf(t, n) # NoBlob
         /\ UnmarshalEntry(BlobOf(t, n)) = EntryOf(t, n) /\ EntryOf(t, n) # NoEntry
         /\ Fingerprint(n, EntryOf(t, n)) = Shown(n)
         /\ EntryOf(t, n).sk = KeyOf(t, n) /\ EntryOf(t, n).peer = KeyOf(Peer(t), n)
<1>0. n \in Rounds /\ initiator[n] \in Sides /\ Peer(t) \in Sides
  BY Pairs, IdentityConstants DEF IdentityTypeOK, Rounds
<1> DEFINE role == IF initiator[n] = t THEN RoleInitiator ELSE RoleResponder
<1>1. role \in {RoleInitiator, RoleResponder} /\ role # -1
  BY DEF RoleInitiator, RoleResponder
<1>2. BlobOf(t, n) = <<role, KeyOf(t, n), KeyOf(t, n), KeyOf(Peer(t), n)>>
  BY Zenon DEF BlobOf, MarshalEntry, EntryOf
<1>3. KeyOf(t, n) \in Keys /\ KeyOf(Peer(t), n) \in Keys
  BY <1>0 DEF Keys, KeyOf
<1>4. EntryOf(t, n) = [role |-> role, sk |-> KeyOf(t, n), pk |-> KeyOf(t, n), peer |-> KeyOf(Peer(t), n)]
  BY Zenon DEF EntryOf
<1> HIDE DEF role
<1>5. BlobOf(t, n) \in Blob /\ Len(BlobOf(t, n)) = 4
  BY <1>1, <1>2, <1>3 DEF Blob
<1>6. BlobOf(t, n) # NoBlob
  BY <1>5 DEF NoBlob
<1>7. UnmarshalEntry(BlobOf(t, n)) = EntryOf(t, n)
  BY <1>1, <1>2, <1>4, <1>5 DEF UnmarshalEntry
<1>8. EntryOf(t, n) # NoEntry
  BY <1>1, <1>4 DEF NoEntry
<1>9. Fingerprint(n, EntryOf(t, n)) = Shown(n)
  BY <1>0, <1>4, Pairs DEF role, Fingerprint, Shown, PairingFingerprint, RoleInitiator, RoleResponder
<1> QED
  BY <1>0, <1>4, <1>5, <1>6, <1>7, <1>8, <1>9

\* A ring without the blob is a miss.
LEMMA EmptyMisses == UnmarshalEntry(NoBlob) = NoEntry
BY DEF UnmarshalEntry, NoBlob

\* Before the first bootstrap there is nothing.
LEMMA InitNInv == Init => NInv
<1> SUFFICES ASSUME Init PROVE NInv
  OBVIOUS
<1>1. IdentityTypeOK /\ DOMAIN got = Sides
  BY IdentityConstants DEF Init, IdentityTypeOK, Idle, Over, NoBlob, Blob
<1>2. \A s \in Sides : ~Active(s) /\ fin[s] = Idle /\ capsule[s] = 0 /\ got[s] = NoneGot
  BY Zenon DEF Init, Active, Idle, Over
<1>3. ASSUME NEW s \in Sides PROVE Finishing(s) /\ Looked(s)
  <2>1. fin[s].at = "idle" /\ ~Active(s) /\ got[s].entry = NoEntry /\ got[s].excused = TRUE
    BY <1>2, <1>3 DEF Idle, NoneGot
  <2> QED
    BY Zenon, <2>1 DEF Finishing, Looked, Found
<1>4. \A s \in Sides, n \in Rounds : Present(s, n)
  BY Zenon DEF Init, Present
<1>5. \A h \in Hosts, r \in Rings, n \in Rounds : Genuine(h, r, n)
  BY Zenon DEF Init, Genuine
<1> QED
  BY <1>1, <1>2, <1>3, <1>4, <1>5 DEF NInv, Init

-----------------------------------------------------------------------------
(* What a step leaves as it was.                                           *)

\* Bootstraps are only added.
Grows ==
  /\ home' = home /\ Len(initiator) <= Len(initiator')
  /\ \A n \in 1 .. Len(initiator) : initiator'[n] = initiator[n]

\* Who is finishing a bootstrap was already, or it is a new one.
Quiet ==
  \A t \in Sides : Active(t)' =>
    (Active(t) /\ fin'[t].round = fin[t].round) \/ fin'[t].round > Len(initiator)

\* The entries of the bootstraps so far stay what they are.
LEMMA EntriesStay ==
  ASSUME Grows, NEW t \in Sides, NEW n \in 1 .. Len(initiator)
  PROVE  BlobOf(t, n)' = BlobOf(t, n) /\ EntryOf(t, n)' = EntryOf(t, n) /\ H(t)' = H(t)
BY Zenon DEF Grows, BlobOf, MarshalEntry, EntryOf, H

\* So does where a blob comes from, unless it is written.
LEMMA GenuineStays ==
  ASSUME NInv, IdentityTypeOK', Grows, Quiet, NEW h \in Hosts, NEW r \in Rings, NEW n \in Rounds,
         rings'[h][r][n] \in {rings[h][r][n], NoBlob}
  PROVE  Genuine(h, r, n)'
<1> SUFFICES ASSUME rings'[h][r][n] # NoBlob
             PROVE  /\ n <= Len(initiator')
                    /\ \E t \in Sides : /\ H(t)' = h /\ rings'[h][r][n] = BlobOf(t, n)'
                                        /\ Active(t)' => fin'[t].round # n
  BY Zenon DEF Genuine
<1>1. rings'[h][r][n] = rings[h][r][n] /\ Genuine(h, r, n)
  BY Zenon DEF NInv
<1>2. PICK t \in Sides : /\ H(t) = h /\ rings[h][r][n] = BlobOf(t, n) /\ n <= Len(initiator)
                         /\ Active(t) => fin[t].round # n
  BY Zenon, <1>1 DEF Genuine
<1>0. Len(initiator) \in Nat /\ Len(initiator') \in Nat
  BY Facts DEF IdentityTypeOK
<1>3. n \in 1 .. Len(initiator) /\ Len(initiator) \in Nat /\ Len(initiator') \in Nat
  BY <1>0, <1>2 DEF Rounds
<1>4. Active(t)' => fin'[t].round # n
  BY <1>2, <1>3 DEF Quiet
<1> QED
  BY <1>1, <1>2, <1>3, <1>4, EntriesStay DEF Grows

\* What a command found stays the entry it is.
LEMMA LookedStays ==
  ASSUME NInv, IdentityTypeOK', Grows, NEW s \in Sides, got'[s] = got[s]
  PROVE  Looked(s)'
<1>1. Looked(s) /\ Len(initiator) \in Nat /\ Len(initiator') \in Nat
  <2>1. Len(initiator') \in Nat
    BY DEF IdentityTypeOK
  <2> QED
    BY Zenon, <2>1, Facts
<1>2. Found(s)' = Found(s)
  BY DEF Found
<1>3. CASE Found(s)
  <2>1. PICK t \in Sides : H(t) = H(s) /\ got[s].entry = EntryOf(t, got[s].round)
    BY Zenon, <1>1, <1>3 DEF Looked
  <2>2. PICK m \in 1 .. Len(initiator) : m = got[s].round
    BY Zenon, <1>1, <1>3 DEF Looked
  <2>3. EntryOf(t, m)' = EntryOf(t, m) /\ H(t)' = H(s)'
    BY Zenon, <2>1, EntriesStay
  <2>4. EntryOf(t, got[s].round)' = EntryOf(t, m)'
    BY Zenon, <2>2 DEF EntryOf
  <2> QED
    BY <1>1, <1>2, <2>1, <2>2, <2>3, <2>4 DEF Looked, Grows
<1> QED
  BY Zenon, <1>1, <1>2, <1>3 DEF Looked

-----------------------------------------------------------------------------
(* Steps of FinishBootstrap                                                *)

\* A side that goes on with its own bootstrap, or is done with it, and writes no ring.
LEMMA Advance ==
  ASSUME NInv, IdentityTypeOK', NEW s \in Sides, UNCHANGED <<home, initiator, rings, kept, lost, got>>,
         \A t \in Sides : t # s => fin'[t] = fin[t] /\ capsule'[t] = capsule[t],
         Active(s)' => Active(s) /\ fin'[s].round = fin[s].round,
         Finishing(s)', capsule'[s] <= Len(initiator)
  PROVE  NInv'
<1>0. Len(initiator) \in Nat /\ \A t \in Sides : t # s => Active(t)' = Active(t)
  BY Zenon, Facts DEF Active
<1>1. Grows /\ Quiet
  BY <1>0 DEF Grows, Quiet
<1>2. \A h \in Hosts, r \in Rings, n \in Rounds : Genuine(h, r, n)'
  BY Zenon, <1>1, GenuineStays
<1>3. ASSUME NEW t \in Sides, t # s PROVE Finishing(t)'
  <2>1. Finishing(t) /\ Peer(t) = s /\ fin'[t] = fin[t]
    BY Zenon, <1>3, Pairs DEF NInv
  <2>2. Active(t)' = Active(t) /\ Item(t)' = Item(t) /\ (~Active(Peer(t)) => ~Active(Peer(t))')
    BY Zenon, <2>1 DEF Active, Item, H
  <2> QED
    BY Zenon, <2>1, <2>2 DEF Finishing
<1>4. \A t \in Sides : Looked(t)'
  BY Zenon, <1>1, LookedStays
<1>5. \A t \in Sides, n \in Rounds : Present(t, n)'
  BY Zenon DEF NInv, Present, H
<1>6. \A t \in Sides : capsule'[t] <= Len(initiator')
  BY Zenon DEF NInv
<1> QED
  BY Zenon, <1>2, <1>3, <1>4, <1>5, <1>6 DEF NInv

\* A stopped side is not active any more.
LEMMA StopStep ==
  ASSUME NInv, NEW s \in Sides, Stop(s)
  PROVE  NInv'
<1>1. IdentityTypeOK /\ Idle \in FinRec /\ capsule[s] <= Len(initiator)
  BY IdentityConstants DEF NInv, FinRec, Idle, Over
<1>2. /\ UNCHANGED <<home, platform, initiator, capsule, rings, linked, dels, kept, lost, got>>
      /\ fin' = [fin EXCEPT ![s] = Idle] /\ fin \in [Sides -> FinRec]
  BY Zenon, <1>1 DEF Stop, ident, IdentityTypeOK, FinRec
<1>3. IdentityTypeOK' /\ fin'[s] = Idle
  BY Zenon, <1>1, <1>2 DEF IdentityTypeOK, FinRec
<1>4. ~Active(s)' /\ Finishing(s)'
  BY <1>3 DEF Active, Finishing, Idle, Over
<1> QED
  BY Zenon, <1>1, <1>2, <1>3, <1>4, Advance

\* The capsule is of the latest bootstrap, and Put starts its first round.
LEMMA WriteCapsuleStep ==
  ASSUME NInv, NEW s \in Sides, WriteCapsule(s)
  PROVE  NInv'
<1> DEFINE l == IF fin[s].store = "keychain" THEN "add" ELSE "put"
           f == [fin[s] EXCEPT !.at = l]
<1>1. /\ IdentityTypeOK /\ Finishing(s) /\ fin[s].at = "enter" /\ Active(s)
      /\ UNCHANGED <<home, platform, initiator, rings, linked, dels, kept, lost, got>>
      /\ fin \in [Sides -> FinRec] /\ capsule' = [capsule EXCEPT ![s] = fin[s].round]
      /\ fin' = [fin EXCEPT ![s] = f]
  BY Zenon DEF NInv, WriteCapsule, ident, IdentityTypeOK, FinRec, Active, Over
<1>2. /\ f \in FinRec /\ f.round = fin[s].round /\ f.store = fin[s].store /\ f.attempt = fin[s].attempt
      /\ f.at = l
  BY Zenon, <1>1 DEF FinRec, Over
<1> HIDE DEF f
<1>3. IdentityTypeOK' /\ fin'[s] = f /\ capsule'[s] = fin[s].round
  BY Zenon, <1>1, <1>2 DEF IdentityTypeOK, FinRec
<1>4. Finishing(s)' /\ Active(s)' /\ fin[s].round <= Len(initiator)
  BY <1>1, <1>2, <1>3 DEF Finishing, Active, Over, Rounds, IdentityTypeOK
<1> QED
  BY <1>1, <1>2, <1>3, <1>4, Advance

\* An item that Put meets is the other end's, which is done.
LEMMA MetByPeer ==
  ASSUME NInv, NEW s \in Sides, Active(s), fin[s].at \in {"add", "update"}, Item(s) # NoBlob
  PROVE  ~Active(Peer(s))
<1>1. /\ fin[s].round \in Rounds /\ fin[s].round = Len(initiator) /\ H(s) \in Hosts /\ "keychain" \in Rings
      /\ \A t \in Sides : Active(t) => fin[t].round = Len(initiator)
  BY Zenon, RingNames DEF NInv, Finishing
<1>2. Genuine(H(s), "keychain", fin[s].round)
  BY Zenon, <1>1 DEF NInv
<1>3. PICK t \in Sides : Active(t) => fin[t].round # fin[s].round
  BY Zenon, <1>2 DEF Genuine, Item
<1> QED
  BY <1>1, <1>3, Pairs

\* Put that stores nothing: it is over, or has met an item, or comes back to one that is gone.
LEMMA NotStored ==
  ASSUME NInv, NEW s \in Sides, NEW f \in FinRec, Active(s),
         UNCHANGED <<home, platform, initiator, capsule, rings, linked, dels, kept, lost, got>>,
         fin' = [fin EXCEPT ![s] = f],
         \/ f.at \in {"idle", "failed"}
         \/ /\ f.at = "update" /\ f.attempt = fin[s].attempt /\ fin[s].at = "add" /\ Item(s) # NoBlob
            /\ f.round = fin[s].round /\ f.store = fin[s].store
         \/ /\ f.at = "add" /\ fin[s].at = "update" /\ Item(s) = NoBlob
            /\ f.round = fin[s].round /\ f.store = fin[s].store
  PROVE  NInv'
<1>1. IdentityTypeOK /\ Finishing(s) /\ capsule[s] <= Len(initiator) /\ fin \in [Sides -> FinRec]
  BY Zenon DEF NInv, IdentityTypeOK, FinRec
<1>2. IdentityTypeOK' /\ fin'[s] = f /\ \A t \in Sides : t # s => fin'[t] = fin[t]
  BY Zenon, <1>1 DEF IdentityTypeOK, FinRec
<1>3. CASE f.at \in {"idle", "failed"}
  <2>1. ~Active(s)' /\ Finishing(s)'
    BY Zenon, <1>2, <1>3 DEF Active, Finishing, Over
  <2> QED
    BY Zenon, <1>1, <1>2, <2>1, Advance
<1>4. CASE f.at \notin {"idle", "failed"}
  <2>1. /\ f.round = fin[s].round /\ Active(s)' /\ f.store = "keychain" /\ f.at \in {"add", "update"}
        /\ f.at = "add" => Item(s) = NoBlob /\ fin[s].at = "update"
        /\ f.at = "update" => Item(s) # NoBlob /\ fin[s].at = "add" /\ f.attempt = fin[s].attempt
    BY Zenon, <1>1, <1>2, <1>4 DEF Finishing, Active, Over
  <2>2. ~Active(Peer(s)) /\ Peer(s) \in Sides /\ Peer(s) # s /\ Item(s)' = Item(s)
    BY Zenon, <1>1, <1>2, <2>1, MetByPeer, Pairs DEF Finishing, Item, H
  <2>3. ~Active(Peer(s))' /\ (f.at = "update" => f.attempt = 0)
    BY Zenon, <1>1, <1>2, <2>1, <2>2 DEF Active, Finishing
  <2>4. Finishing(s)'
    BY Zenon, <1>1, <1>2, <2>1, <2>2, <2>3 DEF Finishing
  <2> QED
    BY Zenon, <1>1, <1>2, <2>1, <2>4, Advance
<1> QED
  BY Zenon, <1>3, <1>4

\* Put that stores: the entry is there, whoever's it replaces, and the side is done.
LEMMA Storing ==
  ASSUME NInv, NEW s \in Sides, fin[s].at \in {"put", "add", "update"}, fin[s].store # Noop, Stored(s),
         UNCHANGED <<home, platform, initiator, capsule, linked, dels, got>>
  PROVE  NInv'
<1> DEFINE n == fin[s].round
           r == fin[s].store
<1>1. /\ IdentityTypeOK /\ Finishing(s) /\ Active(s) /\ n \in Rounds /\ n \in 1 .. Len(initiator)
      /\ r \in Rings /\ H(s) \in Hosts /\ Idle \in FinRec /\ Len(initiator) \in Nat
  <2>1. /\ IdentityTypeOK /\ Finishing(s) /\ H(s) \in Hosts /\ Idle \in FinRec /\ Len(initiator) \in Nat
        /\ fin[s] \in FinRec
    BY Zenon, Facts
  <2>2. Active(s) /\ n = Len(initiator) /\ n \in Rounds
    BY <2>1 DEF Finishing, Active, Over
  <2>3. r \in Rings
    BY <2>1 DEF FinRec
  <2> QED
    BY <2>1, <2>2, <2>3 DEF Rounds
<1>2. /\ rings' = [rings EXCEPT ![H(s)][r][n] = BlobOf(s, n)] /\ fin' = [fin EXCEPT ![s] = Idle]
      /\ kept' = [kept EXCEPT ![s][n] = r] /\ lost' = [lost EXCEPT ![s] = @ \ {n}]
  BY Zenon DEF Stored, BlobOf
<1> HIDE DEF n, r
<1>3. /\ BlobOf(s, n) \in Blob /\ BlobOf(s, n) # NoBlob
      /\ rings \in [Hosts -> [Rings -> [Rounds -> Blob]]] /\ fin \in [Sides -> FinRec]
      /\ kept \in [Sides -> [Rounds -> Rings \cup {Noop}]] /\ lost \in [Sides -> SUBSET Rounds]
  BY Zenon, <1>1, Entries DEF IdentityTypeOK, FinRec
<1>4. /\ rings' \in [Hosts -> [Rings -> [Rounds -> Blob]]]
      /\ \A h \in Hosts, q \in Rings, m \in Rounds :
           rings'[h][q][m] = IF h = H(s) /\ q = r /\ m = n THEN BlobOf(s, n) ELSE rings[h][q][m]
  BY <1>1, <1>2, <1>3
<1>5. /\ kept' \in [Sides -> [Rounds -> Rings \cup {Noop}]] /\ lost' \in [Sides -> SUBSET Rounds]
      /\ \A t \in Sides, m \in Rounds :
           /\ kept'[t][m] = IF t = s /\ m = n THEN r ELSE kept[t][m]
           /\ m \in lost[t] /\ m \notin lost'[t] => t = s /\ m = n
  BY Zenon, <1>1, <1>2, <1>3
<1>6. /\ IdentityTypeOK' /\ fin'[s].at = "idle" /\ ~Active(s)'
      /\ \A t \in Sides : t # s => fin'[t] = fin[t] /\ Active(t)' = Active(t)
  <2>1. /\ fin' \in [Sides -> FinRec] /\ fin'[s] = Idle
        /\ \A t \in Sides : t # s => fin'[t] = fin[t]
    BY Zenon, <1>1, <1>2, <1>3
  <2>2. IdentityTypeOK'
    BY Zenon, <1>1, <1>4, <1>5, <2>1 DEF IdentityTypeOK, FinRec
  <2> QED
    BY Zenon, <2>1, <2>2, Facts DEF Active, Over
<1>7. Grows /\ Quiet
  BY <1>1, <1>6 DEF Grows, Quiet
<1>8. ASSUME NEW h \in Hosts, NEW q \in Rings, NEW m \in Rounds PROVE Genuine(h, q, m)'
  <2>1. CASE h = H(s) /\ q = r /\ m = n
    BY <1>1, <1>4, <1>6, <1>7, <1>8, <2>1, EntriesStay DEF Genuine
  <2>2. CASE ~(h = H(s) /\ q = r /\ m = n)
    BY Zenon, <1>4, <1>6, <1>7, <1>8, <2>2, GenuineStays
  <2> QED
    BY Zenon, <2>1, <2>2
<1>9. ASSUME NEW t \in Sides, NEW m \in Rounds PROVE Present(t, m)'
  <2>1. Present(t, m) /\ H(t) \in Hosts /\ H(t)' = H(t) /\ (kept[t][m] \in Rings \/ kept[t][m] = Noop)
    BY Zenon, <1>1, <1>3, <1>9, Facts DEF H
  <2> QED
    BY <1>1, <1>3, <1>4, <1>5, <1>9, <2>1 DEF Present
<1>10. ASSUME NEW t \in Sides PROVE Finishing(t)'
  <2>1. CASE t = s
    BY Zenon, <1>6, <2>1 DEF Finishing
  <2>2. CASE t # s
    BY <1>1, <1>6, <1>10, <2>2, Pairs DEF Finishing, NInv
  <2> QED
    BY Zenon, <2>1, <2>2
<1>11. \A t \in Sides : Looked(t)'
  BY Zenon, <1>6, <1>7, LookedStays
<1> QED
  BY Zenon, <1>6, <1>8, <1>9, <1>10, <1>11 DEF NInv

\* Put on a keyring, or on none.
LEMMA PutStep ==
  ASSUME NInv, NEW s \in Sides, Put(s)
  PROVE  NInv'
<1>1. /\ Active(s) /\ fin[s].at = "put" /\ fin[s] \in FinRec /\ Idle \in FinRec /\ Idle.at = "idle"
      /\ UNCHANGED <<home, platform, initiator, capsule, linked, dels, got>>
  <2>1. fin[s].at = "put" /\ UNCHANGED <<home, platform, initiator, capsule, linked, dels, got>>
    BY Zenon DEF Put, ident
  <2>2. Active(s)
    BY <2>1 DEF Active, Over
  <2> QED
    BY Zenon, <2>1, <2>2, Facts
<1>2. CASE fin[s].store # Noop /\ Stored(s)
  BY Zenon, <1>1, <1>2, Storing
<1>3. CASE Fail(s, "failed")
  <2> DEFINE f == [fin[s] EXCEPT !.at = "failed"]
  <2>1. f \in FinRec /\ f.at = "failed" /\ fin' = [fin EXCEPT ![s] = f] /\ UNCHANGED <<rings, kept, lost>>
    BY Zenon, <1>1, <1>3 DEF FinRec, Over, Fail
  <2> QED
    BY Zenon, <1>1, <2>1, NotStored
<1>4. CASE fin' = [fin EXCEPT ![s] = Idle] /\ UNCHANGED <<rings, kept, lost>>
  BY Zenon, <1>1, <1>4, NotStored
<1> QED
  BY Zenon, <1>2, <1>3, <1>4 DEF Put

\* SecItemAdd.
LEMMA KeychainAddStep ==
  ASSUME NInv, NEW s \in Sides, KeychainAdd(s)
  PROVE  NInv'
<1>1. /\ Active(s) /\ fin[s].at = "add" /\ fin[s] \in FinRec /\ fin[s].store # Noop
      /\ UNCHANGED <<home, platform, initiator, capsule, linked, dels, got>>
  BY Zenon DEF KeychainAdd, ident, Active, Over, NInv, Finishing, IdentityTypeOK, FinRec, Noop
<1>2. CASE Stored(s)
  BY Zenon, <1>1, <1>2, Storing
<1>3. ASSUME NEW l \in {"failed", "update"}, l = "update" => Item(s) # NoBlob,
             fin' = [fin EXCEPT ![s].at = l], UNCHANGED <<rings, kept, lost>>
      PROVE  NInv'
  <2> DEFINE f == [fin[s] EXCEPT !.at = l]
  <2>1. /\ f \in FinRec /\ f.at = l /\ fin' = [fin EXCEPT ![s] = f]
        /\ f.round = fin[s].round /\ f.store = fin[s].store /\ f.attempt = fin[s].attempt
    BY Zenon, <1>1, <1>3 DEF FinRec, Over
  <2> HIDE DEF f
  <2> QED
    BY Zenon, <1>1, <1>3, <2>1, NotStored
<1> QED
  BY Zenon, <1>2, <1>3 DEF KeychainAdd, Fail

\* SecItemUpdate, which never misses a second time.
LEMMA KeychainUpdateStep ==
  ASSUME NInv, NEW s \in Sides, KeychainUpdate(s)
  PROVE  NInv'
<1>1. /\ Active(s) /\ fin[s].at = "update" /\ fin[s] \in FinRec /\ fin[s].store # Noop /\ fin[s].attempt = 0
      /\ UNCHANGED <<home, platform, initiator, capsule, linked, dels, got>>
  BY Zenon DEF KeychainUpdate, ident, Active, Over, NInv, Finishing, IdentityTypeOK, FinRec, Noop
<1>2. CASE Stored(s)
  BY Zenon, <1>1, <1>2, Storing
<1>3. CASE /\ Item(s) = NoBlob /\ UNCHANGED <<rings, kept, lost>>
           /\ fin' = [fin EXCEPT ![s] = [@ EXCEPT !.at = "add", !.attempt = 1]]
  <2> DEFINE f == [fin[s] EXCEPT !.at = "add", !.attempt = 1]
  <2>0. fin' = [fin EXCEPT ![s] = f]
    BY <1>3
  <2>1. /\ f \in FinRec /\ f.at = "add"
        /\ f.round = fin[s].round /\ f.store = fin[s].store
    <3> DEFINE g == [fin[s] EXCEPT !.at = "add"]
    <3>1. f = [g EXCEPT !.attempt = 1]
      OBVIOUS
    <3>2. g \in FinRec /\ g.at = "add" /\ g.round = fin[s].round /\ g.store = fin[s].store
      BY Zenon, <1>1 DEF FinRec, Over
    <3> HIDE DEF f, g
    <3> QED
      BY <3>1, <3>2 DEF FinRec
  <2> HIDE DEF f
  <2> QED
    BY Zenon, <1>1, <1>3, <2>0, <2>1, NotStored
<1>4. CASE Fail(s, "failed")
  <2> DEFINE f == [fin[s] EXCEPT !.at = "failed"]
  <2>1. f \in FinRec /\ f.at = "failed" /\ fin' = [fin EXCEPT ![s] = f] /\ UNCHANGED <<rings, kept, lost>>
    BY Zenon, <1>1, <1>4 DEF FinRec, Over, Fail
  <2> QED
    BY Zenon, <1>1, <2>1, NotStored
<1> QED
  BY Zenon, <1>1, <1>2, <1>3, <1>4 DEF KeychainUpdate

-----------------------------------------------------------------------------
(* Lookups, and what happens to the rings.                                 *)

\* A command finds the entry of a side on its machine; an entry that should be there is.
LEMMA LookupStep ==
  ASSUME NInv, NEW s \in Sides, Lookup(s)
  PROVE  NInv'
<1>1. PICK ring \in New(s), ses \in Sessions, locked \in BOOLEAN :
        /\ linked' = IF ring = "persistent" THEN [linked EXCEPT ![H(s)] = @ \cup {ses}] ELSE linked
        /\ got' = [got EXCEPT ![s] = [round |-> capsule[s], entry |-> Get(s, ring, locked),
                                      excused |-> locked \/ MayMiss(s, ring)]]
  BY Zenon DEF Lookup
<1>2. /\ IdentityTypeOK /\ DOMAIN got = Sides /\ ring \in Rings \cup {Noop}
      /\ H(s) \in Hosts /\ ses \in Sessions
      /\ capsule[s] \in Rounds /\ capsule[s] \in 1 .. Len(initiator) /\ Len(initiator) \in Nat
      /\ UNCHANGED <<home, platform, initiator, capsule, rings, fin, dels, kept, lost>>
  <2>1. /\ IdentityTypeOK /\ DOMAIN got = Sides /\ ring \in Rings \cup {Noop} /\ H(s) \in Hosts
        /\ Len(initiator) \in Nat /\ capsule[s] \in 0 .. MaxRounds /\ capsule[s] <= Len(initiator)
    BY Zenon, <1>1, Facts, RingNames
  <2>2. capsule[s] # 0 /\ UNCHANGED <<home, platform, initiator, capsule, rings, fin, dels, kept, lost>>
    BY Zenon DEF Lookup, ident
  <2>3. capsule[s] \in Rounds /\ capsule[s] \in 1 .. Len(initiator)
    BY <2>1, <2>2, IdentityConstants DEF Rounds
  <2> QED
    BY Zenon, <1>1, <2>1, <2>2, <2>3
<1>n. PICK n \in Rounds : n = capsule[s]
  BY Zenon, <1>2
<1>3. IdentityTypeOK' /\ DOMAIN got' = Sides
  BY Zenon, <1>1, <1>2 DEF IdentityTypeOK
<1>4. Grows /\ Quiet
  BY <1>2 DEF Grows, Quiet, Active
<1>5. /\ got'[s].round = n /\ got'[s].entry = Get(s, ring, locked)
      /\ got'[s].excused = (locked \/ MayMiss(s, ring))
      /\ \A t \in Sides : t # s => got'[t] = got[t]
  BY Zenon, <1>1, <1>2, <1>n
<1>6. ASSUME ring = Noop PROVE Looked(s)'
  <2>1. Get(s, ring, locked) = NoEntry /\ MayMiss(s, ring)
    BY Zenon, <1>6 DEF Get, MayMiss
  <2>2. got'[s].excused /\ ~Found(s)'
    BY <1>5, <2>1, Zenon DEF Found
  <2> QED
    BY Zenon, <2>2 DEF Looked
<1>7. ASSUME ring # Noop PROVE Looked(s)'
  <2>1. PICK q \in Rings : Search(s, ring, n) = rings[H(s)][q][n] /\ (rings[H(s)][ring][n] # NoBlob => q = ring)
    BY Zenon, <1>2, <1>n, <1>7, RingNames DEF Search
  <2>2. Genuine(H(s), q, n) /\ Present(s, n)
    BY Zenon, <1>2, <2>1 DEF NInv
  <2>3. ASSUME Get(s, ring, locked) = NoEntry PROVE Looked(s)'
    <3>1. ASSUME ~locked PROVE MayMiss(s, ring)
      <4>1. rings[H(s)][q][n] = NoBlob
        <5> SUFFICES ASSUME rings[H(s)][q][n] # NoBlob PROVE FALSE
          OBVIOUS
        <5>1. PICK t \in Sides : rings[H(s)][q][n] = BlobOf(t, n)
          BY Zenon, <2>2 DEF Genuine
        <5> QED
          BY <1>2, <1>n, <1>7, <2>1, <2>3, <3>1, <5>1, Entries DEF Get
      <4> QED
        BY Zenon, <1>2, <1>n, <1>7, <2>1, <2>2, <4>1 DEF Present, MayMiss
    <3>2. got'[s].excused /\ ~Found(s)'
      BY <1>5, <2>3, <3>1, Zenon DEF Found
    <3> QED
      BY Zenon, <3>2 DEF Looked
  <2>4. ASSUME Get(s, ring, locked) # NoEntry PROVE Looked(s)'
    <3>1. PICK t \in Sides : H(t) = H(s) /\ rings[H(s)][q][n] = BlobOf(t, n)
      BY Zenon, <1>n, <2>1, <2>2, <2>4, EmptyMisses DEF Genuine, Get
    <3>2. Get(s, ring, locked) = EntryOf(t, n)
      BY <1>2, <1>n, <2>1, <2>4, <3>1, Entries DEF Get
    <3> QED
      <4>1. EntryOf(t, got[s].round)' = EntryOf(t, n) /\ H(t)' = H(s)'
        BY Zenon, <1>2, <1>5, <3>1 DEF EntryOf, H
      <4>2. Found(s)' /\ got'[s].round \in 1 .. Len(initiator')
        BY Zenon, <1>2, <1>n, <1>5, <2>4 DEF Found
      <4> QED
        BY Zenon, <1>5, <3>2, <4>1, <4>2 DEF Looked
  <2> QED
    BY Zenon, <2>3, <2>4
<1>8. \A t \in Sides : Looked(t)'
  <2>1. Looked(s)'
    BY Zenon, <1>6, <1>7
  <2> QED
    BY Zenon, <1>3, <1>4, <1>5, <2>1, LookedStays
<1>9. \A t \in Sides : Finishing(t)' /\ \A m \in Rounds : Present(t, m)'
  BY Zenon, <1>2 DEF NInv, Finishing, Active, Item, H, Present
<1>10. \A h \in Hosts, r \in Rings, m \in Rounds : Genuine(h, r, m)'
  BY Zenon, <1>2, <1>3, <1>4, GenuineStays
<1> QED
  BY Zenon, <1>2, <1>3, <1>8, <1>9, <1>10 DEF NInv

\* Entries that are removed, and recorded as lost.
LEMMA Loses ==
  ASSUME NInv, IdentityTypeOK', UNCHANGED <<home, initiator, capsule, fin, kept, got>>,
         \A h \in Hosts, r \in Rings, n \in Rounds : rings'[h][r][n] \in {rings[h][r][n], NoBlob},
         \A s \in Sides, n \in Rounds : Present(s, n)'
  PROVE  NInv'
<1>0. Len(initiator) \in Nat /\ IdentityTypeOK /\ "keychain" \in Rings
  BY Zenon, Facts, RingNames
<1>1. Grows /\ Quiet
  BY <1>0 DEF Grows, Quiet, Active
<1>2. \A h \in Hosts, r \in Rings, n \in Rounds : Genuine(h, r, n)'
  BY Zenon, <1>1, GenuineStays
<1>3. ASSUME NEW s \in Sides PROVE Finishing(s)'
  <2>1. Finishing(s) /\ Active(s)' = Active(s) /\ Active(Peer(s))' = Active(Peer(s)) /\ H(s) \in Hosts
    BY Zenon, <1>0, <1>3, RingNames DEF NInv, Active
  <2>2. fin[s].at = "add" /\ Item(s) = NoBlob => Item(s)' = NoBlob
    BY Zenon, <1>0, <2>1 DEF Item, H, Finishing, Active, Over
  <2> QED
    BY Zenon, <2>1, <2>2 DEF Finishing
<1>4. \A s \in Sides : Looked(s)'
  BY Zenon, <1>1, LookedStays
<1> QED
  BY Zenon, <1>2, <1>3, <1>4 DEF NInv

\* A keyring that goes takes what it held with it.
LEMMA WipeStep ==
  ASSUME NInv, NEW h \in Hosts, NEW gone \in SUBSET Rings, Wipe(h, gone),
         linked' \in [Hosts -> SUBSET Sessions]
  PROVE  NInv'
<1>0. /\ IdentityTypeOK /\ NoBlob \in Blob
      /\ UNCHANGED <<home, platform, initiator, capsule, fin, dels, kept, got>>
      /\ rings \in [Hosts -> [Rings -> [Rounds -> Blob]]]
      /\ lost \in [Sides -> SUBSET Rounds]
  BY Zenon DEF NInv, Wipe, ident, IdentityTypeOK, Blob
<1>1. /\ rings' \in [Hosts -> [Rings -> [Rounds -> Blob]]]
      /\ \A k \in Hosts, r \in Rings, n \in Rounds :
           rings'[k][r][n] = IF k = h /\ r \in gone THEN NoBlob ELSE rings[k][r][n]
  BY Zenon, <1>0 DEF Wipe
<1>2. /\ lost' \in [Sides -> SUBSET Rounds]
      /\ \A s \in Sides, n \in Rounds :
           n \in lost'[s] <=> n \in lost[s] \/ (H(s) = h /\ kept[s][n] \in gone)
  BY Zenon, <1>0 DEF Wipe
<1>3. IdentityTypeOK'
  BY Zenon, <1>0, <1>1, <1>2 DEF IdentityTypeOK
<1>4. ASSUME NEW s \in Sides, NEW n \in Rounds PROVE Present(s, n)'
  <2>1. Present(s, n) /\ H(s) \in Hosts /\ H(s)' = H(s) /\ (kept[s][n] \in Rings \/ kept[s][n] = Noop)
    BY Zenon, <1>0, <1>4, Facts DEF H
  <2>2. ASSUME kept[s][n] \in Rings, n \notin lost'[s] PROVE rings'[H(s)][kept[s][n]][n] # NoBlob
    <3>1. n \notin lost[s] /\ ~(H(s) = h /\ kept[s][n] \in gone) /\ kept[s][n] # Noop
      BY Zenon, <1>2, <1>4, <2>2, RingNames
    <3> QED
      BY <1>1, <1>4, <2>1, <2>2, <3>1 DEF Present
  <2> QED
    BY Zenon, <1>0, <2>1, <2>2 DEF Present
<1>5. \A k \in Hosts, r \in Rings, n \in Rounds : rings'[k][r][n] \in {rings[k][r][n], NoBlob}
  BY <1>1
<1> QED
  BY Zenon, <1>0, <1>3, <1>4, <1>5, Loses

\* An item deleted by hand.
LEMMA DeleteStep ==
  ASSUME NInv, NEW h \in Hosts, NEW m \in Rounds, Delete(h, m)
  PROVE  NInv'
<1>0. /\ IdentityTypeOK /\ NoBlob \in Blob /\ "keychain" \in Rings
      /\ UNCHANGED <<home, platform, initiator, capsule, linked, fin, kept, got>>
      /\ rings \in [Hosts -> [Rings -> [Rounds -> Blob]]]
      /\ lost \in [Sides -> SUBSET Rounds] /\ dels' \in 0 .. MaxDeletes
  <2>1. dels' \in 0 .. MaxDeletes
    BY Facts, IdentityConstants DEF Delete
  <2> QED
    BY Zenon, <2>1, RingNames, Facts DEF Delete, ident, IdentityTypeOK, Blob
<1>1. /\ rings' \in [Hosts -> [Rings -> [Rounds -> Blob]]]
      /\ \A k \in Hosts, r \in Rings, n \in Rounds :
           rings'[k][r][n] = IF k = h /\ r = "keychain" /\ n = m THEN NoBlob ELSE rings[k][r][n]
  BY <1>0 DEF Delete
<1>2. /\ lost' \in [Sides -> SUBSET Rounds]
      /\ \A s \in Sides, n \in Rounds : n \in lost'[s] <=> n \in lost[s] \/ (H(s) = h /\ n = m)
  BY Zenon, <1>0 DEF Delete
<1>3. IdentityTypeOK'
  BY Zenon, <1>0, <1>1, <1>2 DEF IdentityTypeOK
<1>4. ASSUME NEW s \in Sides, NEW n \in Rounds PROVE Present(s, n)'
  <2>1. Present(s, n) /\ H(s) \in Hosts /\ H(s)' = H(s) /\ (kept[s][n] \in Rings \/ kept[s][n] = Noop)
    BY Zenon, <1>0, <1>4, Facts DEF H
  <2> QED
    BY <1>0, <1>1, <1>2, <1>4, <2>1 DEF Present
<1>5. \A k \in Hosts, r \in Rings, n \in Rounds : rings'[k][r][n] \in {rings[k][r][n], NoBlob}
  BY <1>1
<1> QED
  BY Zenon, <1>0, <1>3, <1>4, <1>5, Loses

\* A bootstrap starts: both sides are active in a round no ring has anything of.
LEMMA PairStep ==
  ASSUME NInv, Pair
  PROVE  NInv'
<1>0. /\ IdentityTypeOK /\ initiator \in Seq(Sides) /\ Len(initiator) \in Nat /\ Len(initiator) < MaxRounds
      /\ UNCHANGED <<home, platform, capsule, rings, dels, kept, lost>>
      /\ got' = [s \in Sides |-> NoneGot]
  BY Zenon, Facts DEF IdentityTypeOK, Pair
<1>1. PICK i \in Sides : initiator' = Append(initiator, i)
  BY Zenon DEF Pair
<1>2. /\ initiator' \in Seq(Sides) /\ Len(initiator') = Len(initiator) + 1
      /\ Len(initiator') \in Rounds /\ Len(initiator') \in 0 .. MaxRounds /\ Len(initiator') <= MaxRounds
      /\ \A n \in 1 .. Len(initiator) : initiator'[n] = initiator[n]
  BY <1>0, <1>1, IdentityConstants DEF Rounds
<1>3. PICK st \in [Sides -> Rings \cup {Noop}], ses \in Sessions :
        /\ fin' = [s \in Sides |->
                     [round |-> Len(initiator'), store |-> st[s], at |-> "enter", attempt |-> 0]]
        /\ linked' = [h \in Hosts |->
             IF \E s \in Sides : H(s) = h /\ st[s] = "persistent" THEN linked[h] \cup {ses} ELSE linked[h]]
  BY Zenon DEF Pair
<1>4. /\ fin' \in [Sides -> FinRec]
      /\ \A s \in Sides : fin'[s].round = Len(initiator') /\ fin'[s].at = "enter" /\ fin'[s].attempt = 0
  BY <1>2, <1>3 DEF FinRec
<1>5. linked' \in [Hosts -> SUBSET Sessions]
  BY Zenon, <1>0, <1>3 DEF IdentityTypeOK
<1>6. IdentityTypeOK' /\ DOMAIN got' = Sides
  BY Zenon, <1>0, <1>2, <1>4, <1>5 DEF IdentityTypeOK, FinRec
<1>7. Grows /\ Quiet
  BY <1>0, <1>2, <1>4 DEF Grows, Quiet
<1>8. \A h \in Hosts, r \in Rings, n \in Rounds : Genuine(h, r, n)'
  BY Zenon, <1>0, <1>6, <1>7, GenuineStays
<1>9. ASSUME NEW s \in Sides PROVE Finishing(s)' /\ Looked(s)' /\ capsule'[s] <= Len(initiator')
  <2>1. Finishing(s)'
    BY Zenon, <1>2, <1>4, <1>9 DEF Finishing
  <2>2. Looked(s)'
    BY Zenon, <1>0, <1>9 DEF Looked, Found, NoneGot
  <2>3. capsule[s] <= Len(initiator) /\ capsule[s] \in Nat
    BY <1>0, <1>9 DEF NInv, IdentityTypeOK
  <2> QED
    BY <1>0, <1>2, <2>1, <2>2, <2>3
<1>10. \A s \in Sides, n \in Rounds : Present(s, n)'
  BY Zenon, <1>0 DEF NInv, Present, H
<1> QED
  BY Zenon, <1>6, <1>8, <1>9, <1>10 DEF NInv

\* Every step keeps the invariant.
LEMMA NextNInv == NInv /\ [Next]_vars => NInv'
<1> SUFFICES ASSUME NInv, [Next]_vars PROVE NInv'
  OBVIOUS
<1>0. IdentityTypeOK /\ {"persistent"} \in SUBSET Rings /\ {"persistent"} \cup Sessions \in SUBSET Rings
  BY Zenon, RingNames DEF NInv
<1>1. ASSUME NEW s \in Sides, Command(s) PROVE NInv'
  BY Zenon, <1>1, StopStep, WriteCapsuleStep, PutStep, KeychainAddStep, KeychainUpdateStep, LookupStep
     DEF
     Command
<1>2. ASSUME NEW h \in Hosts, Expire(h) \/ Reboot(h) PROVE NInv'
  <2>1. linked' \in [Hosts -> SUBSET Sessions]
    BY Zenon, <1>0, <1>2 DEF Expire, Reboot, IdentityTypeOK
  <2> QED
    BY Zenon, <1>0, <1>2, <2>1, WipeStep DEF Expire, Reboot
<1>3. ASSUME NEW h \in Hosts, NEW ses \in Sessions, Logout(h, ses) PROVE NInv'
  <2>1. linked' \in [Hosts -> SUBSET Sessions] /\ {ses} \in SUBSET Rings
    BY Zenon, <1>0, <1>3, RingNames DEF Logout, IdentityTypeOK
  <2> QED
    BY Zenon, <1>3, <2>1, WipeStep DEF Logout
<1>4. CASE UNCHANGED vars
  <2>1. /\ UNCHANGED <<home, platform, initiator, capsule, rings, linked, fin, dels, kept, lost, got>>
        /\ IdentityTypeOK'
    BY Zenon, <1>0, <1>4 DEF vars, IdentityTypeOK
  <2>2. \A s \in Sides, n \in Rounds : Present(s, n)'
    BY Zenon, <2>1 DEF NInv, Present, H
  <2> QED
    BY Zenon, <2>1, <2>2, Loses
<1> QED
  BY Zenon, <1>1, <1>2, <1>3, <1>4, PairStep, DeleteStep DEF Next

\* The inductive invariant holds throughout.
THEOREM IdentityInvariant == Spec => []NInv
BY InitNInv, NextNInv, PTL DEF Spec

-----------------------------------------------------------------------------
(* What it gives.                                                          *)

\* fingerprint --identity prints, on either side and after whatever happened to the stores, the
\* fingerprint both operators compared (EntryOf, MarshalEntry, PairingFingerprint).
THEOREM IdentityFingerprintStable == Spec => []FingerprintStable
<1>1. NInv => FingerprintStable
  BY Entries DEF NInv, Looked, FingerprintStable
<1> QED
  BY <1>1, IdentityInvariant, PTL

\* Two machines that both find an entry of one bootstrap hold each other's keys.
THEOREM IdentityKeysMatch == Spec => []KeysMatch
<1>1. ASSUME NInv, NEW s \in Sides, Found(s), Found(Peer(s)), got[s].round = got[Peer(s)].round,
             H(s) # H(Peer(s))
      PROVE  got[s].entry.sk = got[Peer(s)].entry.peer
  <2>1. Looked(s) /\ Looked(Peer(s)) /\ IdentityTypeOK
    BY Zenon, <1>1, Pairs DEF NInv
  <2>2. /\ got[s].round \in 1 .. Len(initiator)
        /\ got[s].entry = EntryOf(s, got[s].round)
        /\ got[Peer(s)].entry = EntryOf(Peer(s), got[s].round)
    BY Zenon, <1>1, <2>1, Pairs DEF Looked
  <2> QED
    BY <1>1, <2>1, <2>2, Pairs, Entries
<1>2. NInv => KeysMatch
  BY Zenon, <1>1 DEF KeysMatch
<1> QED
  BY <1>2, IdentityInvariant, PTL

\* A command misses an entry that Put stored only if it was removed since, the keychain was locked,
\* or the command opened another keyring than the bootstrap did.
THEOREM IdentityMissExplained == Spec => []MissExplained
<1>1. NInv => MissExplained
  BY Zenon DEF NInv, Looked, MissExplained
<1> QED
  BY <1>1, IdentityInvariant, PTL

\* However many items are deleted by hand, the keychain's Put never misses twice.
THEOREM IdentityDeleteSurvived == Spec => []DeleteSurvived
<1>1. NInv => DeleteSurvived
  BY Zenon DEF NInv, Finishing, DeleteSurvived
<1> QED
  BY <1>1, IdentityInvariant, PTL

====
