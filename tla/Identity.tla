------------------------------- MODULE Identity -------------------------------
(***************************************************************************)
(* The per-pair identity entries: written at the end of a bootstrap, after *)
(* the capsule, and looked up by send, recv and fingerprint --identity,    *)
(* each a process of its own that opens the store anew.                    *)
(*                                                                         *)
(* On Linux the store is the user's persistent keyring or, where the       *)
(* kernel or the namespace refuses it, the keyring of the session the      *)
(* command runs in; on macOS it is the login keychain.  What the operating *)
(* system does to these between two commands is part of the model.         *)
(***************************************************************************)
EXTENDS Integers, Sequences

CONSTANTS
  Sides,       \* the two ends of the pair
  Hosts,       \* the machines
  Homes,       \* which end may be on which machine: functions from Sides to Hosts
  Platforms,   \* the operating systems: functions from Hosts
  Sessions,    \* login sessions of the user on a Linux machine
  MaxRounds,   \* bound: bootstraps
  MaxDeletes   \* bound: items an operator deletes from a keychain by hand

Rounds == 1 .. MaxRounds
Rings == {"persistent", "keychain"} \cup Sessions
NoBlob == <<>>
NoEntry == [role |-> -1]
Noop == "noop"       \* identitystore.Noop

ASSUME IdentityConstants ==
  /\ \E x, y \in Sides : x # y /\ Sides = {x, y}
  /\ Homes \subseteq [Sides -> Hosts]
  /\ \A p \in Platforms : p \in [Hosts -> {"linux", "darwin", "other"}]
  /\ MaxRounds \in Nat /\ MaxDeletes \in Nat
  /\ {"persistent", "keychain", Noop} \cap Sessions = {}

VARIABLES
  home, platform,
  initiator,   \* who was the initiator of each bootstrap so far
  capsule,     \* the bootstrap whose pair the capsule file of each side holds; 0: none
  rings,       \* the blob each keyring of each machine holds for each pair
  linked,      \* sessions that the persistent keyring is linked into
  fin,         \* FinishBootstrap in progress on each side
  dels,        \* deletions by hand
  kept,        \* history: where Put stored the entry of each pair
  lost,        \* history: pairs whose entry the system or an operator removed
  got          \* what the latest command of each side found since the last bootstrap

ident == <<home, platform, initiator>>
vars == <<home, platform, initiator, capsule, rings, linked, fin, dels, kept, lost, got>>

H(s) == home[s]
Over == {"idle", "failed", "notFound"}
Peer(s) == CHOOSE t \in Sides : t # s
Idle == [round |-> 0, store |-> Noop, at |-> "idle", attempt |-> 0]
NoneGot == [round |-> 0, entry |-> NoEntry, excused |-> TRUE]

-------------------------------------------------------------------------------
(* Entries.  A key pair is the bootstrap and the side that drew it.         *)

KeyOf(s, n) == <<n, s>>
RoleInitiator == 0
RoleResponder == 1

\* The State that FinishBootstrap turns into an entry.
EntryOf(s, n) ==
  [role |-> IF initiator[n] = s THEN RoleInitiator ELSE RoleResponder,
   sk |-> KeyOf(s, n), pk |-> KeyOf(s, n), peer |-> KeyOf(Peer(s), n)]

MarshalEntry(e) == <<e.role, e.sk, e.pk, e.peer>>

\* Mutant: the last two fields are taken in the wrong order.
MutUnmarshalEntry(b) ==
  IF Len(b) # 4 THEN NoEntry
  ELSE [role |-> b[1], sk |-> b[2], pk |-> b[4], peer |-> b[3]]

\* Anything that is not an entry reads as a miss.
UnmarshalEntry(b) ==
  IF Len(b) # 4 THEN NoEntry
  ELSE IF b[1] \notin {RoleInitiator, RoleResponder} THEN NoEntry
  ELSE [role |-> b[1], sk |-> b[2], pk |-> b[3], peer |-> b[4]]

\* PairingFingerprint, as a function of what it hashes.
PairingFingerprint(n, initPK, respPK) == <<n, initPK, respPK>>

\* Mutant: the stored role is not looked at.
MutFingerprint(n, e) == PairingFingerprint(n, e.pk, e.peer)

\* fingerprint --identity
Fingerprint(n, e) ==
  IF e.role = RoleInitiator THEN PairingFingerprint(n, e.pk, e.peer)
                            ELSE PairingFingerprint(n, e.peer, e.pk)

\* What both operators were shown before ENTER.
Shown(n) ==
  LET i == initiator[n] IN PairingFingerprint(n, KeyOf(i, n), KeyOf(Peer(i), n))

-------------------------------------------------------------------------------
(* The store                                                               *)

\* The rings New may return to a command on side s, or none: ErrUnsupported.  On Linux that
\* depends on where it runs: a persistent keyring that is refused with ENOSYS or EPERM is
\* replaced by the session's, and there may be neither.
New(s) ==
  CASE platform[H(s)] = "linux" -> {"persistent", Noop} \cup Sessions
    [] platform[H(s)] = "darwin" -> {"keychain"}
    [] platform[H(s)] = "other" -> {Noop}

\* KeyctlSearch descends into linked keyrings.
Search(s, ring, n) ==
  LET at == rings[H(s)]
  IN  IF at[ring][n] # NoBlob \/ ring \notin linked[H(s)] THEN at[ring][n] ELSE at["persistent"][n]

Init ==
  /\ home \in Homes
  /\ platform \in Platforms
  /\ initiator = <<>>
  /\ capsule = [s \in Sides |-> 0]
  /\ rings = [h \in Hosts |-> [r \in Rings |-> [n \in Rounds |-> NoBlob]]]
  /\ linked = [h \in Hosts |-> {}]
  /\ fin = [s \in Sides |-> Idle]
  /\ dels = 0
  /\ kept = [s \in Sides |-> [n \in Rounds |-> Noop]]
  /\ lost = [s \in Sides |-> {}]
  /\ got = [s \in Sides |-> NoneGot]

\* Both sides opened their stores (none at all is accepted with --no-require-e2e), and the
\* three legs were exchanged.  KEYCTL_GET_PERSISTENT links the persistent keyring into the
\* session the command runs in.
Pair ==
  /\ Len(initiator) < MaxRounds /\ \A s \in Sides : fin[s].at \in Over
  /\ \E i \in Sides : initiator' = Append(initiator, i)
  /\ \E st \in [Sides -> Rings \cup {Noop}], ses \in Sessions :
       /\ \A s \in Sides : st[s] \in New(s)
       /\ fin' = [s \in Sides |->
                    [round |-> Len(initiator'), store |-> st[s], at |-> "enter", attempt |-> 0]]
       /\ linked' = [h \in Hosts |->
            IF \E s \in Sides : H(s) = h /\ st[s] = "persistent" THEN linked[h] \cup {ses} ELSE linked[h]]
  /\ got' = [s \in Sides |-> NoneGot]
  /\ UNCHANGED <<home, platform, capsule, rings, dels, kept, lost>>

\* ENTER is refused, P_B fails, or the process dies before the capsule or after it.
Stop(s) ==
  /\ fin[s].at \notin Over
  /\ fin' = [fin EXCEPT ![s] = Idle]
  /\ UNCHANGED <<ident, capsule, rings, linked, dels, kept, lost, got>>

\* WriteCapsule over the previous one, then Put.
WriteCapsule(s) ==
  /\ fin[s].at = "enter"
  /\ capsule' = [capsule EXCEPT ![s] = fin[s].round]
  /\ fin' = [fin EXCEPT ![s].at = IF fin[s].store = "keychain" THEN "add" ELSE "put"]
  /\ UNCHANGED <<ident, rings, linked, dels, kept, lost, got>>

\* Put ends well: the entry is where the store was opened, in place of any other.
Stored(s) ==
  LET n == fin[s].round
      r == fin[s].store
  IN  /\ rings' = [rings EXCEPT ![H(s)][r][n] = MarshalEntry(EntryOf(s, n))]
      /\ kept' = [kept EXCEPT ![s][n] = r]
      /\ lost' = [lost EXCEPT ![s] = @ \ {n}]
      /\ fin' = [fin EXCEPT ![s] = Idle]

\* Put fails: "capsule was written; rebootstrap to recover".
Fail(s, why) ==
  /\ fin' = [fin EXCEPT ![s].at = why]
  /\ UNCHANGED <<rings, kept, lost>>

\* Mutant: the passphrase cache's guard on a zero time to live.
MutPut(s) ==
  /\ fin[s].at = "put"
  /\ kept' = [kept EXCEPT ![s][fin[s].round] = fin[s].store]
  /\ fin' = [fin EXCEPT ![s] = Idle]
  /\ UNCHANGED <<ident, capsule, rings, linked, dels, lost, got>>

\* AddKey, without a timeout; it fails when the user's key quota is used up.  The
\* stand-in store accepts anything and keeps nothing.
Put(s) ==
  /\ fin[s].at = "put"
  /\ \/ fin[s].store # Noop /\ Stored(s)
     \/ fin[s].store # Noop /\ Fail(s, "failed")
     \/ fin[s].store = Noop /\ fin' = [fin EXCEPT ![s] = Idle] /\ UNCHANGED <<rings, kept, lost>>
  /\ UNCHANGED <<ident, capsule, linked, dels, got>>

Item(s) == rings[H(s)]["keychain"][fin[s].round]

\* keychainAdd: an item that is there (both ends on one machine) is updated instead; any
\* other status, a locked keychain's included, fails.
KeychainAdd(s) ==
  /\ fin[s].at = "add"
  /\ \/ Item(s) = NoBlob /\ Stored(s)
     \/ Item(s) # NoBlob /\ fin' = [fin EXCEPT ![s].at = "update"] /\ UNCHANGED <<rings, kept, lost>>
     \/ Fail(s, "failed")
  /\ UNCHANGED <<ident, capsule, linked, dels, got>>

\* Mutant: no second round.
MutKeychainUpdate(s) ==
  /\ fin[s].at = "update"
  /\ \/ Item(s) # NoBlob /\ Stored(s)
     \/ Item(s) = NoBlob /\ Fail(s, "notFound")
     \/ Fail(s, "failed")
  /\ UNCHANGED <<ident, capsule, linked, dels, got>>

\* keychainUpdate: deleted in between, the item is added again, once; any other status fails.
KeychainUpdate(s) ==
  /\ fin[s].at = "update"
  /\ \/ Item(s) # NoBlob /\ Stored(s)
     \/ /\ Item(s) = NoBlob /\ fin[s].attempt = 0
        /\ fin' = [fin EXCEPT ![s] = [@ EXCEPT !.at = "add", !.attempt = 1]]
        /\ UNCHANGED <<rings, kept, lost>>
     \/ Item(s) = NoBlob /\ fin[s].attempt # 0 /\ Fail(s, "notFound")
     \/ Fail(s, "failed")
  /\ UNCHANGED <<ident, capsule, linked, dels, got>>

-------------------------------------------------------------------------------
(* Commands and what happens between them                                  *)

\* Get: no store, nothing found, a locked keychain and a malformed blob are all a miss.
Get(s, ring, locked) ==
  IF locked \/ ring = Noop THEN NoEntry ELSE UnmarshalEntry(Search(s, ring, capsule[s]))

\* History: there is no store, Put did not store the entry there, or it was removed since.
MayMiss(s, ring) == ring = Noop \/ kept[s][capsule[s]] # ring \/ capsule[s] \in lost[s]

\* send, recv or fingerprint --identity, in some session, with a store of its own.
Lookup(s) ==
  /\ capsule[s] # 0
  /\ \E ring \in New(s), ses \in Sessions, locked \in BOOLEAN :
       /\ locked => ring = "keychain"
       /\ linked' = IF ring = "persistent" THEN [linked EXCEPT ![H(s)] = @ \cup {ses}] ELSE linked
       /\ got' = [got EXCEPT ![s] = [round |-> capsule[s], entry |-> Get(s, ring, locked),
                                     excused |-> locked \/ MayMiss(s, ring)]]
  /\ UNCHANGED <<ident, capsule, rings, fin, dels, kept, lost>>

\* The keyrings of a machine that are gone, and with them what they held.
Wipe(h, gone) ==
  /\ rings' = [rings EXCEPT ![h] = [r \in Rings |-> IF r \in gone THEN [n \in Rounds |-> NoBlob] ELSE @[r]]]
  /\ lost' = [s \in Sides |->
       IF H(s) = h THEN lost[s] \cup {n \in Rounds : kept[s][n] \in gone} ELSE lost[s]]
  /\ UNCHANGED <<ident, capsule, fin, dels, kept, got>>

\* A session ends; its keyring goes, the persistent one stays.
Logout(h, ses) ==
  /\ platform[h] = "linux" /\ Wipe(h, {ses})
  /\ linked' = [linked EXCEPT ![h] = @ \ {ses}]

\* The persistent keyring expires after days without access.
Expire(h) ==
  /\ platform[h] = "linux" /\ Wipe(h, {"persistent"})
  /\ linked' = [linked EXCEPT ![h] = {}]

\* Keyrings are kernel memory, the keychain is a file.  A bootstrap under way is over.
Reboot(h) ==
  /\ \A s \in Sides : H(s) = h => fin[s].at \in Over
  /\ Wipe(h, {"persistent"} \cup Sessions)
  /\ linked' = [linked EXCEPT ![h] = {}]

\* An operator removes an entry from the keychain by hand.
Delete(h, n) ==
  /\ dels < MaxDeletes /\ rings[h]["keychain"][n] # NoBlob
  /\ rings' = [rings EXCEPT ![h]["keychain"][n] = NoBlob]
  /\ dels' = dels + 1
  /\ lost' = [s \in Sides |-> IF H(s) = h THEN lost[s] \cup {n} ELSE lost[s]]
  /\ UNCHANGED <<ident, capsule, linked, fin, kept, got>>

Command(s) ==
  Stop(s) \/ WriteCapsule(s) \/ Put(s) \/ KeychainAdd(s) \/ KeychainUpdate(s) \/ Lookup(s)

Next ==
  \/ Pair \/ \E s \in Sides : Command(s)
  \/ \E h \in Hosts : \/ Expire(h) \/ Reboot(h)
                       \/ \E ses \in Sessions : Logout(h, ses)
                       \/ \E n \in Rounds : Delete(h, n)

Spec == Init /\ [][Next]_vars

-------------------------------------------------------------------------------
(* Properties                                                              *)

Keys == Rounds \X Sides
Blob == {NoBlob} \cup {RoleInitiator, RoleResponder} \X Keys \X Keys \X Keys

IdentityTypeOK ==
  /\ home \in Homes /\ platform \in Platforms
  /\ initiator \in Seq(Sides) /\ Len(initiator) <= MaxRounds
  /\ capsule \in [Sides -> 0 .. MaxRounds]
  /\ rings \in [Hosts -> [Rings -> [Rounds -> Blob]]]
  /\ linked \in [Hosts -> SUBSET Sessions]
  /\ fin \in [Sides -> [round : 0 .. MaxRounds, store : Rings \cup {Noop}, attempt : 0 .. 1,
                        at : {"enter", "put", "add", "update"} \cup Over]]
  /\ dels \in 0 .. MaxDeletes
  /\ kept \in [Sides -> [Rounds -> Rings \cup {Noop}]] /\ lost \in [Sides -> SUBSET Rounds]

Found(s) == got[s].entry # NoEntry

\* However often the pair was bootstrapped, whichever side was the initiator, and whatever
\* happened to the stores: fingerprint --identity prints, on either side, the fingerprint
\* both operators compared when the capsule was made.
FingerprintStable ==
  \A s \in Sides : Found(s) => Fingerprint(got[s].round, got[s].entry) = Shown(got[s].round)

\* Two machines whose capsules are of one bootstrap and that both find an entry hold each
\* other's keys: what one seals the other opens.  (With both ends on one machine the
\* second entry takes the place of the first.)
KeysMatch ==
  \A s \in Sides :
    (Found(s) /\ Found(Peer(s)) /\ got[s].round = got[Peer(s)].round /\ H(s) # H(Peer(s))) =>
      got[s].entry.sk = got[Peer(s)].entry.peer

\* "identitystore ... (persistent, per-pair, never expires)": a command misses an entry that
\* Put stored only if the system or an operator removed it since, the keychain was
\* locked, or the command could open no keyring, or another than the bootstrap did.
MissExplained ==
  \A s \in Sides : Found(s) \/ got[s].excused

\* Deletions between SecItemAdd and SecItemUpdate never fail a bootstrap that has already
\* overwritten the capsule: nobody but the other end of the same pair writes the item,
\* and that once, so the second round of Put finds its place free.
DeleteSurvived == \A s \in Sides : fin[s].at # "notFound"

===============================================================================
