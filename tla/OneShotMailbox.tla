---------------------------- MODULE OneShotMailbox ----------------------------
(***************************************************************************)
(* What the relay's slot store promises its callers, with no map, no byte  *)
(* accounting, no mutex and no zeroization: every address holds at most    *)
(* one blob; a deposited blob is handed out at most as often as its        *)
(* depositor allowed, never after its deadline; until the deadline nobody  *)
(* can put another blob in its place and only the holder of the delete     *)
(* token can take it away; only the closing of the relay overrides that.   *)
(*                                                                         *)
(* RelayStore is shown to implement this module.                           *)
(***************************************************************************)
EXTENDS Integers

CONSTANTS
  Keys,      \* addresses: (service_id, slot_id) pairs
  Blobs,     \* bodies; each one is deposited at most once
  Hashes,    \* SHA-256 images of delete tokens
  NoHash,    \* the all-zero hash: the depositor registered no token
  Empty      \* content of an address that holds nothing

VARIABLES
  box,       \* what each address holds
  clock,     \* the relay's clock
  closing,   \* the relay has begun to wipe itself
  delivered  \* how many times each blob was handed out

mvars == <<box, clock, closing, delivered>>

Parcel == [blob : Blobs, left : Nat \ {0}, until : Nat, token : Hashes \cup {NoHash}]

Holds(k) == box[k] # Empty

Init ==
  /\ box = [k \in Keys |-> Empty]
  /\ clock = 0
  /\ closing = FALSE
  /\ delivered = [c \in Blobs |-> 0]

\* A blob enters an address that is empty or whose parcel is past its deadline.
Deposit(k, p) ==
  /\ Holds(k) => clock >= box[k].until
  /\ p.until > clock
  /\ delivered[p.blob] = 0
  /\ \A j \in Keys : Holds(j) => box[j].blob # p.blob
  /\ box' = [box EXCEPT ![k] = p]
  /\ UNCHANGED <<clock, closing, delivered>>

\* The parcel is handed out once more; the last allowed reading empties the address.
Deliver(k) ==
  /\ Holds(k)
  /\ clock <= box[k].until
  /\ delivered' = [delivered EXCEPT ![box[k].blob] = @ + 1]
  /\ box' = [box EXCEPT ![k] =
               IF box[k].left = 1 THEN Empty ELSE [box[k] EXCEPT !.left = box[k].left - 1]]
  /\ UNCHANGED <<clock, closing>>

\* The depositor takes the parcel back with its delete token.
Withdraw(k, h) ==
  /\ Holds(k)
  /\ clock <= box[k].until
  /\ box[k].token = h /\ h # NoHash
  /\ box' = [box EXCEPT ![k] = Empty]
  /\ UNCHANGED <<clock, closing, delivered>>

\* A parcel disappears: past its deadline, or because the relay is closing.
Discard(k) ==
  /\ Holds(k)
  /\ clock >= box[k].until \/ closing
  /\ box' = [box EXCEPT ![k] = Empty]
  /\ UNCHANGED <<clock, closing, delivered>>

Close ==
  /\ closing' = TRUE
  /\ UNCHANGED <<box, clock, delivered>>

Pass ==
  /\ clock' = clock + 1
  /\ UNCHANGED <<box, closing, delivered>>

Next ==
  \/ \E k \in Keys :
       \/ box'[k] \in Parcel /\ Deposit(k, box'[k])
       \/ Deliver(k)
       \/ \E h \in Hashes : Withdraw(k, h)
       \/ Discard(k)
  \/ Close
  \/ Pass

Spec == Init /\ [][Next]_mvars
===============================================================================
