------------------------------ MODULE MCRLUStore ------------------------------
(* Values of the constants of RLUStore for TLC. *)
EXTENDS RLUStore

CONSTANTS o1, o2

MCObjects == {o1, o2}
TwoWriters == {0, 1}
Sections31 == [t \in 0 .. 1 |-> IF t = 0 THEN 3 ELSE 1]
==============================================================================
