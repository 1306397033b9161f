---------------------------- MODULE MCRelayServer ----------------------------
(* Small instances of RelayServer. *)
EXTENDS RelayServer, TLC

CONSTANTS k1, c1, c2, h1, p1, p2, g1, g2, d1

MCSize == [c \in Blobs |-> 1]
MCBody == [p \in Posts |-> IF p = p1 THEN c1 ELSE c2]
MCSvcHour == [k \in Keys |-> 0]
\* nothing tells two GETs apart, or two POSTs with their bodies
Same == [p \in Posts |-> p]
Swapped == (p1 :> p2) @@ (p2 :> p1) @@ (c1 :> c2) @@ (c2 :> c1)
Alike == {g @@ p : g \in Permutations(Gets), p \in {Same, Swapped}}
===============================================================================
