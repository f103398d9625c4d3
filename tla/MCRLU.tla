-------------------------------- MODULE MCRLU --------------------------------
(* Values of RLU's constants for TLC. *)
EXTENDS RLU, TLC

CONSTANTS o1, o2

MCObjects == {o1, o2}
TwoWriters == {0, 1}

\* Sections run by each thread.
Sections21  == [t \in 0 .. 1 |-> IF t = 0 THEN 2 ELSE 1]
Sections22  == [t \in 0 .. 1 |-> 2]
Sections31  == [t \in 0 .. 1 |-> IF t = 0 THEN 3 ELSE 1]
Sections111 == [t \in 0 .. 2 |-> 1]

ObjectSymmetry == Permutations(MCObjects)
==============================================================================
