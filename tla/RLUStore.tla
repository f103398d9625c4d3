------------------------------- MODULE RLUStore -------------------------------
(***************************************************************************)
(* RLU implements SnapshotStore.  The published version of an object is    *)
(* its owner's copy from the instant the owner advanced the global writer  *)
(* version; the write-back that follows changes nothing a section can see. *)
(***************************************************************************)
EXTENDS RLU

Published(t) == pc[t] \in {"q_init", "q_wait", "reset_logs", "writeback"}

OwnedBy(t) == {o \in Objects : lock[o] # NULL /\ lock[o].thread = t}

WrittenBy(t) == {o \in OwnedBy(t) : InCurrentLog(t, lock[o])}

AbstractStore ==
  [o \in Objects |->
     IF lock[o] # NULL /\ Published(lock[o].thread) THEN LogEntry(lock[o]).val ELSE actual[o]]

AbstractPending ==
  [t \in Threads |-> IF Published(t) THEN {} ELSE OwnedBy(t) \ WrittenBy(t)]

AbstractOpen == {t \in Threads : InSection(t) \/ pc[t] = "read_commit"}

\* What the pointers a section got show now; its own locked copies are left out.
AbstractSeen ==
  [t \in Threads |->
     {<<h.obj, ValueAt(h)>> :
        h \in {k \in held[t] : k.ptr = ACTUAL \/ ~InCurrentLog(t, k.ptr)}}]

Abstract == INSTANCE SnapshotStore WITH
  store   <- AbstractStore,
  pending <- AbstractPending,
  open    <- AbstractOpen,
  snap    <- view,
  seen    <- AbstractSeen,
  writing <- [t \in Threads |-> WrittenBy(t)]

\* Every execution in which no two syncs draw their versions at the same time
\* is one of the snapshot store: sections read snapshots, a change extends the
\* snapshot it was decided on, and a thread's committed changes appear to the
\* others at one instant, though their write-back takes many steps.
ImplementsSnapshotStore == Abstract!Spec

NoVersionRace == ~version_race
==============================================================================
