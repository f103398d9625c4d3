----------------------------- MODULE MCInnerTree -----------------------------
(* Values of InnerTree's constants for TLC. *)
EXTENDS InnerTree, TLC

CONSTANTS t1, t2

Two == {t1, t2}
TwoPartitions == {{0, 2}}

\* A tree that only grows, and one that shrinks, too.
Plan(s1, m1, s2, m2) == (t1 :> [splits |-> s1, merges |-> m1] @@ t2 :> [splits |-> s2, merges |-> m2])
Plans3 == {Plan(2, 0, 2, 0), Plan(2, 2, 0, 1), Plan(1, 1, 1, 1)}
OneGrows == {Plan(2, 0, 1, 0)}
==============================================================================
