------------------------------- MODULE MCMVRLU -------------------------------
(* Values of MVRLU's constants for TLC. *)
EXTENDS MVRLU, TLC

CONSTANTS t1, t2, r, x

TwoThreads == {t1, t2}
TwoObjects == {r, x}

Reads(S, n)  == [objects |-> S, locks |-> FALSE, frees |-> FALSE, sections |-> n, flushes |-> FALSE]
Writes(S, n) == [Reads(S, n) EXCEPT !.locks = TRUE]
Frees(S, n)  == [Writes(S, n) EXCEPT !.frees = TRUE]
Flushes(p)   == [p EXCEPT !.flushes = TRUE]

\* A section that frees beside one that reads; two that write one object, and a
\* flush; two that write one object, where the first may have to abort with the
\* lock of another object held; a thread that writes twice and flushes beside one
\* that reads; one that reaches the high mark beside one that leaves at once.
MCPlans == {t1 :> Frees({r, x}, 1) @@ t2 :> Reads({r, x}, 1),
            t1 :> Flushes(Writes({r}, 1)) @@ t2 :> Writes({r}, 1),
            t1 :> Writes({r, x}, 1) @@ t2 :> Writes({r}, 1),
            t1 :> Flushes(Writes({r}, 2)) @@ t2 :> Reads({r}, 1),
            t1 :> Writes({r}, 3) @@ t2 :> Reads({r}, 0)}
==============================================================================
