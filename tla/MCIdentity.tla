------------------------------ MODULE MCIdentity ------------------------------
(* Two machines, or one with both ends of the pair, and two bootstraps.     *)
EXTENDS Identity

CONSTANTS a, b, m1, m2

MCSides == {a, b}
MCHosts == {m1, m2}
MCHomes == {[s \in MCSides |-> IF s = a THEN m1 ELSE m2], [s \in MCSides |-> m2]}
MCPlatforms ==
  {[h \in MCHosts |-> IF h = m1 THEN p[1] ELSE p[2]] : p \in {<<"linux", "darwin">>, <<"other", "linux">>}}
===============================================================================
