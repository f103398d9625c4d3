------------------------------- MODULE MCLBTree -------------------------------
(* Values of LBTree's constants for TLC. *)
EXTENDS LBTree, TLC

CONSTANTS t1, t2, t3

One   == {t1}
Two   == {t1, t2}
Three == {t1, t2, t3}

ThreadSymmetry == Permutations(Threads)
==============================================================================
