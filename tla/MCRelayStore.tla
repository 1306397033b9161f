----------------------------- MODULE MCRelayStore -----------------------------
(* Small instances of RelayStore. *)
EXTENDS RelayStore, TLC

CONSTANTS k1, k2, c1, c2, c3, h1

MCSize == [c \in Blobs |-> IF c = c1 THEN 1 ELSE 2]
Symm == Permutations({k1, k2})
===============================================================================
