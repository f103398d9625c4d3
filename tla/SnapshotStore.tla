----------------------------- MODULE SnapshotStore -----------------------------
(***************************************************************************)
(* What RLU promises its callers: a store of objects read under snapshot   *)
(* isolation.  A section reads a snapshot of what was published when it    *)
(* began, together with its own thread's committed changes; it may change  *)
(* an object only if nobody else is changing it and the snapshot still     *)
(* shows the object's newest version; committed changes are published all  *)
(* at once, now or later.                                                  *)
(***************************************************************************)
EXTENDS Naturals

CONSTANTS Threads, Objects

VARIABLES
  store,    \* published version of each object
  pending,  \* objects each thread has changed, committed and not published
  open,     \* threads in a section
  snap,     \* the snapshot of a section
  seen,     \* what a section has read: object and version
  writing   \* objects the section changes

vars == <<store, pending, open, snap, seen, writing>>

Versions == [Objects -> Nat]
Blank == [o \in Objects |-> 0]

Init ==
  /\ store = Blank
  /\ pending = [t \in Threads |-> {}]
  /\ open = {}
  /\ snap = [t \in Threads |-> Blank]
  /\ seen = [t \in Threads |-> {}]
  /\ writing = [t \in Threads |-> {}]

Begin(t) ==
  /\ t \notin open
  /\ open' = open \union {t}
  /\ snap' = [snap EXCEPT ![t] =
       [o \in Objects |-> IF o \in pending[t] THEN store[o] + 1 ELSE store[o]]]
  /\ UNCHANGED <<store, pending, seen, writing>>

Read(t, o) ==
  /\ t \in open
  /\ seen' = [seen EXCEPT ![t] = @ \union {<<o, snap[t][o]>>}]
  /\ UNCHANGED <<store, pending, open, snap, writing>>

Taken(o) == \E t \in Threads : o \in pending[t] \union writing[t]

Write(t, o) ==
  /\ t \in open
  /\ ~Taken(o)
  /\ snap[t][o] = store[o]
  /\ writing' = [writing EXCEPT ![t] = @ \union {o}]
  /\ UNCHANGED <<store, pending, open, snap, seen>>

End(t) ==
  /\ t \in open
  /\ open' = open \ {t}
  /\ snap' = [snap EXCEPT ![t] = Blank]
  /\ seen' = [seen EXCEPT ![t] = {}]
  /\ writing' = [writing EXCEPT ![t] = {}]
  /\ UNCHANGED store

Commit(t) == End(t) /\ pending' = [pending EXCEPT ![t] = @ \union writing[t]]

Abort(t) == End(t) /\ UNCHANGED pending

Publish(t) ==
  /\ store' = [o \in Objects |-> IF o \in pending[t] THEN store[o] + 1 ELSE store[o]]
  /\ pending' = [pending EXCEPT ![t] = {}]
  /\ UNCHANGED <<open, snap, seen, writing>>

Next ==
  \E t \in Threads :
    \/ Begin(t) \/ Commit(t) \/ Abort(t) \/ Publish(t)
    \/ \E o \in Objects : Read(t, o) \/ Write(t, o)

Spec == Init /\ [][Next]_vars
==============================================================================
