------------------------------ MODULE MCUnlock ------------------------------
(* Unlock for TLC.  The two capsules are wrapped under different passphrases *)
(* "x" and "y", as when a new pairing replaces the file.  The two commands   *)
(* that forget are interchangeable.                                          *)
EXTENDS Unlock, TLC

CONSTANTS p1, p2, p3

MCProcs == {p1, p2, p3}
MCForgetters == {p1, p2}
Alike == Permutations(MCForgetters)
MCSecret == [w \in Wraps |-> IF w = 1 THEN "x" ELSE "y"]
=============================================================================
