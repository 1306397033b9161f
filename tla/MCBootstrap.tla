------------------------------ MODULE MCBootstrap ------------------------------
(* Small instances of Bootstrap. *)
EXTENDS Bootstrap, TLC

CONSTANTS i1, i2, j1, spoken

\* everybody uses the same P_A
SamePA == [x \in Runs |-> spoken]

\* Two initiators one of which may have left its legs behind, a short --timeout, a network
\* that loses requests and answers, and sides that stall.
Stale == [initiator |-> 0, responder |-> 0, keyring |-> Runs, timeout |-> 2, poll |-> 0,
          lossy |-> TRUE, prompt |-> FALSE,
          initiators |-> 2, begin |-> 3, startBy |-> 4, until |-> 5]

\* One initiator and one responder, prompt sides and a working relay; either side up to a
\* minute behind the other, the relay never behind.
Calm(i, j) == [initiator |-> i, responder |-> j, keyring |-> Initiators, timeout |-> 5, poll |-> 1,
               lossy |-> FALSE, prompt |-> TRUE,
               initiators |-> 1, begin |-> 4, startBy |-> 9, until |-> 15]

MCSetups == {Stale, Calm(0, 0), Calm(-1, 0), Calm(0, -1)}

InitSymm == Permutations(Initiators)
===============================================================================
