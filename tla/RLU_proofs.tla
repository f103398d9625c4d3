------------------------------ MODULE RLU_proofs ------------------------------
(***************************************************************************)
(* Theorems about RLU, for every number of threads, objects, write sets,   *)
(* ring size and number of sections.                                       *)
(***************************************************************************)
EXTENDS RLU, TLAPS

(***************************************************************************)
(* Type correctness, in the four parts of TypeOK.                          *)
(***************************************************************************)

\* A counter is mapped into the ring.
LEMMA IndexInRing ==
  ASSUME NEW n \in Nat
  PROVE  WS_INDEX(n) \in Slots
BY RingAssumption DEF WS_INDEX, Slots

\* The loop over the other threads keeps its index a number.
LEMMA IndexStaysNumber ==
  ASSUME NEW t \in Threads, NEW loc, NEW done,
         iter \in [Threads -> Nat], NextOther(t, loc, done)
  PROVE  iter' \in [Threads -> Nat]
<1>1. t \in Nat /\ iter[t] \in Nat /\ FirstOther(t) \in Nat
  BY ThreadsAssumption DEF Threads, FirstOther
<1>2. \E n \in Nat : iter' = [iter EXCEPT ![t] = n]
  BY <1>1 DEF NextOther
<1>3. QED
  BY <1>2

\* The initial state, all threads idle and all logs empty, has the types.
LEMMA InitTypeOK == Init => TypeOK
<1> SUFFICES ASSUME Init PROVE TypeOK
  OBVIOUS
<1> USE ThreadsAssumption, RingAssumption, BoundAssumption
<1>1. MemoryTypes
  BY DEF Init, MemoryTypes
<1>2. LogTypes
  <2>1. <<>> \in Seq(Entry)
    OBVIOUS
  <2>2. QED
    BY <2>1 DEF Init, LogTypes
<1>3. ThreadTypes
  BY DEF Init, ThreadTypes
<1>4. ControlTypes
  BY DEF Init, ControlTypes, Locs, ReturnLocs
<1>5. QED
  BY <1>1, <1>2, <1>3, <1>4 DEF TypeOK

\* Every step keeps the types; an action's proof treats the parts it changes.
LEMMA StepTypeOK == TypeOK /\ [Next]_vars => TypeOK'
<1> SUFFICES ASSUME TypeOK, [Next]_vars PROVE TypeOK'
  OBVIOUS
<1>0. MemoryTypes /\ ThreadTypes /\ LogTypes /\ ControlTypes
  BY DEF TypeOK
<1> USE <1>0, ThreadsAssumption, RingAssumption, BoundAssumption
<1> USE DEF globals, memory, versions, flags, logs, loops, section, history
<1>1. ASSUME NEW t \in Threads, rlu_reader_lock(t)
      PROVE  TypeOK'
  <2>1. ControlTypes'
    BY <1>1 DEF rlu_reader_lock, ControlTypes, Goto, Locs, ReturnLocs, SectionLocs, SyncLocs, rlu_sync_checkpoint, StartSync
  <2>2. MemoryTypes' /\ ThreadTypes' /\ LogTypes'
    BY <1>1 DEF rlu_reader_lock, MemoryTypes, ThreadTypes, LogTypes, StartSync, rlu_sync_checkpoint
  <2>3. QED
    BY <2>1, <2>2 DEF TypeOK
<1>2. ASSUME NEW t \in Threads, RegisterThread(t)
      PROVE  TypeOK'
  <2>1. ThreadTypes'
    BY <1>2 DEF RegisterThread, ThreadTypes
  <2>2. ControlTypes'
    BY <1>2 DEF RegisterThread, ControlTypes, Goto, Locs, ReturnLocs, SectionLocs, SyncLocs
  <2>3. MemoryTypes' /\ LogTypes'
    BY <1>2 DEF RegisterThread, MemoryTypes, LogTypes
  <2>4. QED
    BY <2>1, <2>2, <2>3 DEF TypeOK
<1>3. ASSUME NEW t \in Threads, ReadWriterVersion(t)
      PROVE  TypeOK'
  <2>1. ThreadTypes'
    BY <1>3 DEF ReadWriterVersion, ThreadTypes, MemoryTypes
  <2>2. ControlTypes'
    BY <1>3 DEF ReadWriterVersion, ControlTypes, Goto, Locs, ReturnLocs, SectionLocs, SyncLocs
  <2>3. MemoryTypes' /\ LogTypes'
    BY <1>3 DEF ReadWriterVersion, MemoryTypes, LogTypes
  <2>4. QED
    BY <2>1, <2>2, <2>3 DEF TypeOK
<1>4. ASSUME NEW t \in Threads, ReadCommitVersion(t)
      PROVE  TypeOK'
  <2>1. ThreadTypes'
    BY <1>4 DEF ReadCommitVersion, ThreadTypes, Quiet, NoLocksMatter
  <2>2. ControlTypes'
    BY <1>4 DEF ReadCommitVersion, ControlTypes, Goto, Locs, ReturnLocs, SectionLocs, SyncLocs
  <2>3. MemoryTypes' /\ LogTypes'
    BY <1>4 DEF ReadCommitVersion, MemoryTypes, LogTypes
  <2>4. QED
    BY <2>1, <2>2, <2>3 DEF TypeOK
<1>5. ASSUME NEW t \in Threads, NEW o \in Objects, DerefActual(t, o)
      PROVE  TypeOK'
  <2>1. ThreadTypes'
    BY <1>5 DEF DerefActual, ThreadTypes, Hold, Pointers
  <2>2. MemoryTypes' /\ LogTypes' /\ ControlTypes'
    BY <1>5 DEF DerefActual, MemoryTypes, LogTypes, ControlTypes, Hold
  <2>3. QED
    BY <2>1, <2>2 DEF TypeOK
<1>6. ASSUME NEW t \in Threads, NEW o \in Objects, DerefOwnCopy(t, o)
      PROVE  TypeOK'
  <2>1. ThreadTypes'
    BY <1>6 DEF DerefOwnCopy, ThreadTypes, MemoryTypes, Hold, Pointers
  <2>2. MemoryTypes' /\ LogTypes' /\ ControlTypes'
    BY <1>6 DEF DerefOwnCopy, MemoryTypes, LogTypes, ControlTypes, Hold
  <2>3. QED
    BY <2>1, <2>2 DEF TypeOK
<1>7. ASSUME NEW t \in Threads, NEW o \in Objects, DerefLocked(t, o)
      PROVE  TypeOK'
  <2>1. ControlTypes'
    BY <1>7 DEF DerefLocked, ControlTypes, Goto, Locs, ReturnLocs, SectionLocs, SyncLocs, Pointers, MemoryTypes
  <2>2. MemoryTypes' /\ ThreadTypes' /\ LogTypes'
    BY <1>7 DEF DerefLocked, MemoryTypes, ThreadTypes, LogTypes
  <2>3. QED
    BY <2>1, <2>2 DEF TypeOK
<1>8. ASSUME NEW t \in Threads, DerefSteal(t)
      PROVE  TypeOK'
  <2>1. ThreadTypes'
    BY <1>8 DEF DerefSteal, ThreadTypes, Hold, Pointers, ControlTypes
  <2>2. ControlTypes'
    BY <1>8 DEF DerefSteal, ControlTypes, Goto, Locs, ReturnLocs, SectionLocs, SyncLocs
  <2>3. MemoryTypes' /\ LogTypes'
    BY <1>8 DEF DerefSteal, MemoryTypes, LogTypes, Hold
  <2>4. QED
    BY <2>1, <2>2, <2>3 DEF TypeOK
<1>9. ASSUME NEW t \in Threads, NEW o \in Objects, TryLockOwn(t, o)
      PROVE  TypeOK'
  <2>1. ThreadTypes'
    BY <1>9 DEF TryLockOwn, ThreadTypes
  <2>2. ControlTypes'
    BY <1>9 DEF TryLockOwn, ControlTypes, Goto, Locs, ReturnLocs, SectionLocs, SyncLocs
  <2>3. MemoryTypes' /\ LogTypes'
    BY <1>9 DEF TryLockOwn, MemoryTypes, LogTypes
  <2>4. QED
    BY <2>1, <2>2, <2>3 DEF TypeOK
<1>10. ASSUME NEW t \in Threads, NEW o \in Objects, TryLockBusy(t, o)
      PROVE  TypeOK'
  <2>1. ThreadTypes'
    BY <1>10 DEF TryLockBusy, ThreadTypes
  <2>2. ControlTypes'
    BY <1>10 DEF TryLockBusy, ControlTypes, Goto, Locs, ReturnLocs, SectionLocs, SyncLocs
  <2>3. MemoryTypes' /\ LogTypes'
    BY <1>10 DEF TryLockBusy, MemoryTypes, LogTypes
  <2>4. QED
    BY <2>1, <2>2, <2>3 DEF TypeOK
<1>11. ASSUME NEW t \in Threads, NEW o \in Objects, TryLockFree(t, o)
      PROVE  TypeOK'
  <2>1. ThreadTypes'
    BY <1>11 DEF TryLockFree, ThreadTypes
  <2>2. ControlTypes'
    BY <1>11 DEF TryLockFree, ControlTypes, Goto, Locs, ReturnLocs, SectionLocs, SyncLocs, Pointers
  <2>3. MemoryTypes' /\ LogTypes'
    BY <1>11 DEF TryLockFree, MemoryTypes, LogTypes
  <2>4. QED
    BY <2>1, <2>2, <2>3 DEF TypeOK
<1>12. ASSUME NEW t \in Threads, CasSucceeds(t)
      PROVE  TypeOK'
  <2>0. CurrentSlot(t) \in Slots /\ p_obj[t].obj \in Objects
    BY <1>12, IndexInRing DEF CasSucceeds, CurrentSlot, LogTypes, ControlTypes, Pointers
  <2>1. MemoryTypes'
    <3>1. NewCopyPtr(t) \in LogPtrs
      BY <2>0 DEF NewCopyPtr, LogPtrs, LogTypes
    <3>2. QED
      BY <1>12, <2>0, <3>1 DEF CasSucceeds, MemoryTypes
  <2>2. LogTypes'
    <3>1. [obj |-> p_obj[t].obj, run_counter |-> run_counter[t],
           val |-> actual[p_obj[t].obj] + 1] \in Entry
      BY <2>0 DEF Entry, MemoryTypes, ThreadTypes
    <3>2. QED
      BY <1>12, <2>0, <3>1 DEF CasSucceeds, LogTypes
  <2>3. ControlTypes'
    BY <1>12 DEF CasSucceeds, ControlTypes, Goto, Locs, ReturnLocs, SectionLocs, SyncLocs
  <2>4. ThreadTypes'
    BY <1>12 DEF CasSucceeds, ThreadTypes
  <2>5. QED
    BY <2>1, <2>2, <2>3, <2>4 DEF TypeOK
<1>13. ASSUME NEW t \in Threads, CasFails(t)
      PROVE  TypeOK'
  <2>1. ControlTypes'
    BY <1>13 DEF CasFails, ControlTypes, Goto, Locs, ReturnLocs, SectionLocs, SyncLocs
  <2>2. MemoryTypes' /\ ThreadTypes' /\ LogTypes'
    BY <1>13 DEF CasFails, MemoryTypes, ThreadTypes, LogTypes
  <2>3. QED
    BY <2>1, <2>2 DEF TypeOK
<1>14. ASSUME NEW t \in Threads, UnlockReader(t)
      PROVE  TypeOK'
  <2>1. ThreadTypes'
    BY <1>14 DEF UnlockReader, ThreadTypes, Unregister, UnregisteredCounter
  <2>2. ControlTypes'
    BY <1>14 DEF UnlockReader, ControlTypes, Goto, Locs, ReturnLocs, SectionLocs, SyncLocs
  <2>3. MemoryTypes' /\ LogTypes'
    BY <1>14 DEF UnlockReader, MemoryTypes, LogTypes, Unregister
  <2>4. QED
    BY <2>1, <2>2, <2>3 DEF TypeOK
<1>15. ASSUME NEW t \in Threads, UnlockWriter(t)
      PROVE  TypeOK'
  <2>1. MemoryTypes'
    BY <1>15 DEF UnlockWriter, MemoryTypes
  <2>2. ThreadTypes'
    BY <1>15 DEF UnlockWriter, ThreadTypes, Unregister, UnregisteredCounter
  <2>3. LogTypes'
    BY <1>15 DEF UnlockWriter, LogTypes
  <2>4. ControlTypes'
    BY <1>15 DEF UnlockWriter, ControlTypes, Goto, Locs, ReturnLocs, SectionLocs, SyncLocs
  <2>5. QED
    BY <2>1, <2>2, <2>3, <2>4 DEF TypeOK
<1>16. ASSUME NEW t \in Threads, rlu_abort(t)
      PROVE  TypeOK'
  <2>1. MemoryTypes'
    BY <1>16 DEF rlu_abort, MemoryTypes, DiscardLog
  <2>2. ThreadTypes'
    BY <1>16 DEF rlu_abort, ThreadTypes, Unregister, UnregisteredCounter
  <2>3. LogTypes'
    <3>1. CASE is_write_detected[t]
      <4>1. CurrentSlot(t) \in Slots /\ <<>> \in Seq(Entry)
        BY IndexInRing DEF CurrentSlot, LogTypes
      <4>2. write_set' = [write_set EXCEPT ![t] =
                           [write_set[t] EXCEPT ![CurrentSlot(t)] = <<>>]]
        BY <1>16, <3>1 DEF rlu_abort, DiscardLog
      <4>3. [write_set[t] EXCEPT ![CurrentSlot(t)] = <<>>] \in [Slots -> Seq(Entry)]
        BY <4>1 DEF LogTypes
      <4>4. write_set' \in [Threads -> [Slots -> Seq(Entry)]]
        BY <4>2, <4>3 DEF LogTypes
      <4>5. QED
        BY <1>16, <4>4 DEF rlu_abort, LogTypes
    <3>2. CASE ~is_write_detected[t]
      BY <1>16, <3>2 DEF rlu_abort, LogTypes
    <3>3. QED
      BY <3>1, <3>2
  <2>4. ControlTypes'
    BY <1>16 DEF rlu_abort, ControlTypes, Goto, Locs, ReturnLocs, SectionLocs, SyncLocs
  <2>5. QED
    BY <2>1, <2>2, <2>3, <2>4 DEF TypeOK
<1>17. ASSUME NEW t \in Threads, Checkpoint(t)
      PROVE  TypeOK'
  <2>1. ControlTypes'
    BY <1>17 DEF Checkpoint, ControlTypes, Goto, Locs, ReturnLocs, SectionLocs, SyncLocs, rlu_sync_checkpoint, StartSync
  <2>2. MemoryTypes' /\ ThreadTypes' /\ LogTypes'
    BY <1>17 DEF Checkpoint, MemoryTypes, ThreadTypes, LogTypes, StartSync, rlu_sync_checkpoint
  <2>3. QED
    BY <2>1, <2>2 DEF TypeOK
<1>18. ASSUME NEW t \in Threads, SyncLoadVersion(t)
      PROVE  TypeOK'
  <2>1. ThreadTypes'
    BY <1>18 DEF SyncLoadVersion, ThreadTypes, MemoryTypes
  <2>2. ControlTypes'
    BY <1>18 DEF SyncLoadVersion, ControlTypes, Goto, Locs, ReturnLocs, SectionLocs, SyncLocs
  <2>3. MemoryTypes' /\ LogTypes'
    BY <1>18 DEF SyncLoadVersion, MemoryTypes, LogTypes
  <2>4. QED
    BY <2>1, <2>2, <2>3 DEF TypeOK
<1>19. ASSUME NEW t \in Threads, SyncStoreVersion(t)
      PROVE  TypeOK'
  <2>1. ThreadTypes'
    BY <1>19 DEF SyncStoreVersion, ThreadTypes
  <2>2. ControlTypes'
    BY <1>19 DEF SyncStoreVersion, ControlTypes, Goto, Locs, ReturnLocs, SectionLocs, SyncLocs
  <2>3. MemoryTypes' /\ LogTypes'
    BY <1>19 DEF SyncStoreVersion, MemoryTypes, LogTypes
  <2>4. QED
    BY <2>1, <2>2, <2>3 DEF TypeOK
<1>20. ASSUME NEW t \in Threads, SyncAdvanceGlobal(t)
      PROVE  TypeOK'
  <2>1. MemoryTypes'
    BY <1>20 DEF SyncAdvanceGlobal, MemoryTypes
  <2>2. ThreadTypes'
    BY <1>20 DEF SyncAdvanceGlobal, ThreadTypes, FirstOther
  <2>3. ControlTypes'
    BY <1>20 DEF SyncAdvanceGlobal, ControlTypes, Goto, Locs, ReturnLocs, SectionLocs, SyncLocs
  <2>4. LogTypes'
    BY <1>20 DEF SyncAdvanceGlobal, LogTypes
  <2>5. QED
    BY <2>1, <2>2, <2>3, <2>4 DEF TypeOK
<1>21. ASSUME NEW t \in Threads, rlu_init_quiescence(t)
      PROVE  TypeOK'
  <2>1. ThreadTypes'
    <3>1. iter' \in [Threads -> Nat]
      BY <1>21, IndexStaysNumber DEF rlu_init_quiescence, ThreadTypes
    <3>2. q_threads' \in [Threads -> [Threads -> Nat]]
      <4>1. CASE iter[t] \in Threads
        BY <1>21, <4>1 DEF rlu_init_quiescence, ThreadTypes
      <4>2. CASE iter[t] \notin Threads
        <5>1. q_threads' = q_threads
          BY <1>21, <4>2 DEF rlu_init_quiescence, ThreadTypes
        <5>2. QED
          BY <5>1 DEF ThreadTypes
      <4>3. QED
        BY <4>1, <4>2
    <3>3. QED
      BY <1>21, <3>1, <3>2 DEF rlu_init_quiescence, ThreadTypes
  <2>2. ControlTypes'
    BY <1>21 DEF rlu_init_quiescence, ControlTypes, Goto, Locs, ReturnLocs, SectionLocs, SyncLocs, NextOther
  <2>3. MemoryTypes' /\ LogTypes'
    BY <1>21 DEF rlu_init_quiescence, MemoryTypes, LogTypes, NextOther
  <2>4. QED
    BY <2>1, <2>2, <2>3 DEF TypeOK
<1>22. ASSUME NEW t \in Threads, rlu_wait_for_quiescence(t)
      PROVE  TypeOK'
  <2>1. ThreadTypes'
    <3>1. iter' \in [Threads -> Nat]
      BY <1>22, IndexStaysNumber DEF rlu_wait_for_quiescence, ThreadTypes
    <3>2. q_threads' \in [Threads -> [Threads -> Nat]]
      <4>1. CASE iter[t] \in Threads
        BY <1>22, <4>1 DEF rlu_wait_for_quiescence, ThreadTypes
      <4>2. CASE iter[t] \notin Threads
        BY <1>22, <4>2 DEF rlu_wait_for_quiescence, ThreadTypes
      <4>3. QED
        BY <4>1, <4>2
    <3>3. QED
      BY <1>22, <3>1, <3>2 DEF rlu_wait_for_quiescence, ThreadTypes
  <2>2. ControlTypes'
    BY <1>22 DEF rlu_wait_for_quiescence, ControlTypes, Goto, Locs, ReturnLocs, SectionLocs, SyncLocs, NextOther
  <2>3. MemoryTypes' /\ LogTypes'
    BY <1>22 DEF rlu_wait_for_quiescence, MemoryTypes, LogTypes, NextOther
  <2>4. QED
    BY <2>1, <2>2, <2>3 DEF TypeOK
<1>23. ASSUME NEW t \in Threads, ResetWriteSets(t)
      PROVE  TypeOK'
  <2>1. ThreadTypes'
    BY <1>23 DEF ResetWriteSets, ThreadTypes, LogTypes
  <2>2. LogTypes'
    BY <1>23 DEF ResetWriteSets, LogTypes, NewHead
  <2>3. ControlTypes'
    BY <1>23 DEF ResetWriteSets, ControlTypes, Goto, Locs, ReturnLocs, SectionLocs, SyncLocs
  <2>4. MemoryTypes'
    BY <1>23 DEF ResetWriteSets, MemoryTypes
  <2>5. QED
    BY <2>1, <2>2, <2>3, <2>4 DEF TypeOK
<1>24. ASSUME NEW t \in Threads, WritebackObject(t)
      PROVE  TypeOK'
  <2>1. MemoryTypes'
    <3>1. WritebackLog(t)[iter[t]] \in Entry
      <4>1. WritebackLog(t) \in Seq(Entry)
        BY IndexInRing DEF WritebackLog, LogTypes, ThreadTypes
      <4>2. QED
        BY <1>24, <4>1 DEF WritebackObject
    <3>2. QED
      BY <1>24, <3>1 DEF WritebackObject, MemoryTypes, Entry
  <2>2. ThreadTypes'
    BY <1>24 DEF WritebackObject, ThreadTypes, WritebackLog
  <2>3. LogTypes' /\ ControlTypes'
    BY <1>24 DEF WritebackObject, LogTypes, ControlTypes
  <2>4. QED
    BY <2>1, <2>2, <2>3 DEF TypeOK
<1>25. ASSUME NEW t \in Threads, WritebackDone(t)
      PROVE  TypeOK'
  <2>1. ThreadTypes'
    BY <1>25 DEF WritebackDone, ThreadTypes
  <2>2. LogTypes'
    BY <1>25 DEF WritebackDone, LogTypes
  <2>3. ControlTypes'
    BY <1>25 DEF WritebackDone, ControlTypes, Goto, Locs, ReturnLocs, SectionLocs, SyncLocs
  <2>4. MemoryTypes'
    BY <1>25 DEF WritebackDone, MemoryTypes
  <2>5. QED
    BY <2>1, <2>2, <2>3, <2>4 DEF TypeOK
<1>26. ASSUME NEW t \in Threads, SyncCommit(t)
      PROVE  TypeOK'
  <2>1. MemoryTypes'
    BY <1>26 DEF SyncCommit, MemoryTypes
  <2>2. ThreadTypes'
    BY <1>26 DEF SyncCommit, ThreadTypes
  <2>3. ControlTypes'
    BY <1>26 DEF SyncCommit, ControlTypes, Goto, Locs, ReturnLocs, SectionLocs, SyncLocs
  <2>4. LogTypes'
    BY <1>26 DEF SyncCommit, LogTypes
  <2>5. QED
    BY <2>1, <2>2, <2>3, <2>4 DEF TypeOK
<1>27. ASSUME NEW t \in Threads, rlu_thread_finish(t)
      PROVE  TypeOK'
  <2>1. ControlTypes'
    BY <1>27 DEF rlu_thread_finish, ControlTypes, Goto, Locs, ReturnLocs, SectionLocs, SyncLocs, StartSync, AfterFinishSync
  <2>2. MemoryTypes' /\ ThreadTypes' /\ LogTypes'
    BY <1>27 DEF rlu_thread_finish, MemoryTypes, ThreadTypes, LogTypes, StartSync
  <2>3. QED
    BY <2>1, <2>2 DEF TypeOK
<1>28. CASE UNCHANGED vars
  <2>1. MemoryTypes'
    BY <1>28 DEF vars, MemoryTypes
  <2>2. ThreadTypes'
    BY <1>28 DEF vars, ThreadTypes
  <2>3. LogTypes'
    BY <1>28 DEF vars, LogTypes
  <2>4. ControlTypes'
    BY <1>28 DEF vars, ControlTypes
  <2>5. QED
    BY <2>1, <2>2, <2>3, <2>4 DEF TypeOK
<1>29. QED
  BY <1>1, <1>2, <1>3, <1>4, <1>5, <1>6, <1>7, <1>8, <1>9, <1>10, <1>11, <1>12, <1>13, <1>14, <1>15, <1>16, <1>17, <1>18, <1>19, <1>20, <1>21, <1>22, <1>23, <1>24, <1>25, <1>26, <1>27, <1>28
     DEF Next, Terminated, ThreadStep, EnterSection, Deref, TryLock, LeaveSection, Sync

\* Every variable keeps its shape in every execution.
THEOREM TypeCorrect == Spec => []TypeOK
<1>1. QED
  BY InitTypeOK, StepTypeOK, PTL DEF Spec

------------------------------------------------------------------------------
(***************************************************************************)
(* The ring of logs never wraps onto a write set in use.  FreshLog is not  *)
(* inductive: how far apart the three counters are, and which slots may    *)
(* hold entries, has to be known in every state.                           *)
(***************************************************************************)
RingCounters(t) ==
  /\ ws_head_counter[t] <= ws_wb_counter[t]
  /\ ws_wb_counter[t] <= ws_tail_counter[t]
  /\ ws_wb_counter[t] - ws_head_counter[t] <= MaxWriteSets
  /\ ws_tail_counter[t] - ws_wb_counter[t] <= MaxWriteSets
  /\ pc[t] \notin SyncLocs => ws_tail_counter[t] - ws_wb_counter[t] < MaxWriteSets
  /\ pc[t] = "writeback" => ws_head_counter[t] = ws_wb_counter[t]
  /\ pc[t] = "commit" => ws_tail_counter[t] = ws_wb_counter[t]

OpenLog(t) ==
  /\ is_write_detected[t] => pc[t] \in SectionLocs
  /\ pc[t] = "cas" => is_write_detected[t]

InUse(t, s) ==
  \/ \E c \in ws_head_counter[t] .. ws_tail_counter[t] - 1 : s = WS_INDEX(c)
  \/ is_write_detected[t] /\ s = CurrentSlot(t)

UsedSlots(t) == \A s \in Slots : write_set[t][s] # <<>> => InUse(t, s)

RingInv == \A t \in Threads : RingCounters(t) /\ OpenLog(t) /\ UsedSlots(t)

\* Two counters less than the ring's size apart have different slots.
LEMMA DifferentSlots ==
  ASSUME NEW a \in Nat, NEW b \in Nat, a < b, b - a < RingSize
  PROVE  WS_INDEX(a) # WS_INDEX(b)
<1> DEFINE qa == a \div RingSize
           qb == b \div RingSize
<1>1. qa \in Nat /\ qb \in Nat /\ RingSize \in Nat
  BY RingAssumption
<1>2. a = RingSize * qa + WS_INDEX(a) /\ b = RingSize * qb + WS_INDEX(b)
  BY RingAssumption DEF WS_INDEX
<1>3. WS_INDEX(a) \in Nat /\ WS_INDEX(b) \in Nat
  BY IndexInRing DEF Slots
<1> SUFFICES ASSUME WS_INDEX(a) = WS_INDEX(b) PROVE FALSE
  OBVIOUS
<1>4. b - a = RingSize * (qb - qa)
  BY <1>1, <1>2, <1>3
<1>5. qb - qa >= 1
  BY <1>1, <1>4
<1>6. RingSize * (qb - qa) >= RingSize
  BY <1>1, <1>5
<1>7. QED
  BY <1>1, <1>4, <1>6

LEMMA RingInvImpliesFreshLog == TypeOK /\ RingInv => FreshLog
<1> SUFFICES ASSUME TypeOK, RingInv, NEW t \in Threads, pc[t] \notin SyncLocs
             PROVE  /\ \A c \in ws_head_counter[t] .. ws_tail_counter[t] - 1 :
                         WS_INDEX(c) # CurrentSlot(t)
                    /\ ~is_write_detected[t] => write_set[t][CurrentSlot(t)] = <<>>
  BY DEF FreshLog
<1>1. /\ ws_head_counter[t] \in Nat /\ ws_wb_counter[t] \in Nat
      /\ ws_tail_counter[t] \in Nat
  BY DEF TypeOK, LogTypes
<1>2. RingCounters(t) /\ UsedSlots(t)
  BY DEF RingInv
<1>3. ws_tail_counter[t] - ws_head_counter[t] < RingSize
  BY <1>1, <1>2, RingAssumption DEF RingCounters
<1>4. \A c \in ws_head_counter[t] .. ws_tail_counter[t] - 1 : WS_INDEX(c) # CurrentSlot(t)
  <2>1. TAKE c \in ws_head_counter[t] .. ws_tail_counter[t] - 1
  <2>2. /\ c \in Nat /\ c < ws_tail_counter[t]
        /\ ws_tail_counter[t] - c < RingSize
    BY <1>1, <1>3, RingAssumption
  <2>3. QED
    BY <1>1, <2>2, DifferentSlots DEF CurrentSlot
<1>5. ~is_write_detected[t] => write_set[t][CurrentSlot(t)] = <<>>
  BY <1>1, <1>2, <1>4, IndexInRing DEF UsedSlots, InUse, CurrentSlot
<1>6. QED
  BY <1>4, <1>5

LEMMA InitRingInv == Init => RingInv
  BY RingAssumption DEF Init, RingInv, RingCounters, OpenLog, UsedSlots, SyncLocs

\* A step that leaves the logs alone keeps RingInv, unless it claims that a
\* sync reached or finished its write-back.
LEMMA FrameRing ==
  ASSUME TypeOK, RingInv, NEW t \in Threads,
         UNCHANGED <<logs, is_write_detected>>,
         \A u \in Threads : u # t => pc'[u] = pc[u],
         pc'[t] \in SyncLocs \/ pc[t] \notin SyncLocs,
         pc'[t] = "writeback" => pc[t] = "writeback",
         pc'[t] # "commit",
         is_write_detected[t] => pc'[t] \in SectionLocs,
         pc'[t] = "cas" => is_write_detected[t]
  PROVE  RingInv'
<1>1. ASSUME NEW u \in Threads PROVE RingCounters(u)'
  BY DEF RingInv, RingCounters, logs
<1>2. ASSUME NEW u \in Threads PROVE OpenLog(u)'
  BY DEF RingInv, OpenLog
<1>3. ASSUME NEW u \in Threads PROVE UsedSlots(u)'
  BY DEF RingInv, UsedSlots, InUse, CurrentSlot, logs
<1>4. QED
  BY <1>1, <1>2, <1>3 DEF RingInv

\* What a step of one thread leaves alone of the others.
LEMMA OthersRing ==
  ASSUME RingInv, NEW u \in Threads,
         pc'[u] = pc[u], is_write_detected'[u] = is_write_detected[u],
         ws_head_counter'[u] = ws_head_counter[u],
         ws_wb_counter'[u] = ws_wb_counter[u],
         ws_tail_counter'[u] = ws_tail_counter[u],
         write_set'[u] = write_set[u]
  PROVE  RingCounters(u)' /\ OpenLog(u)' /\ UsedSlots(u)'
<1>1. RingCounters(u)'
  BY DEF RingInv, RingCounters
<1>2. OpenLog(u)'
  BY DEF RingInv, OpenLog
<1>3. UsedSlots(u)'
  BY DEF RingInv, UsedSlots, InUse, CurrentSlot
<1>4. QED
  BY <1>1, <1>2, <1>3

\* Every step keeps the ring in order.  Most leave the logs alone; those that
\* do not are the CAS, the end of a section and the stages of the write-back.
LEMMA StepRingInv == TypeOK /\ RingInv /\ [Next]_vars => RingInv'
<1> SUFFICES ASSUME TypeOK, RingInv, [Next]_vars PROVE RingInv'
  OBVIOUS
<1>0. /\ \A u \in Threads : RingCounters(u) /\ OpenLog(u) /\ UsedSlots(u)
      /\ pc \in [Threads -> Locs]
      /\ is_write_detected \in [Threads -> BOOLEAN]
      /\ \A u \in Threads : is_write_detected[u] => pc[u] \in SectionLocs
      /\ \A u \in Threads : pc[u] = "cas" => is_write_detected[u]
  BY DEF RingInv, OpenLog, TypeOK, ThreadTypes, ControlTypes
<1>1. ASSUME NEW t \in Threads, rlu_reader_lock(t)
      PROVE  RingInv'
  BY <1>0, <1>1, FrameRing
     DEF rlu_reader_lock, rlu_sync_checkpoint, StartSync, Goto, logs, flags, SyncLocs, SectionLocs
<1>2. ASSUME NEW t \in Threads, RegisterThread(t)
      PROVE  RingInv'
  BY <1>0, <1>2, FrameRing
     DEF RegisterThread, Goto, logs, flags, SyncLocs, SectionLocs
<1>3. ASSUME NEW t \in Threads, ReadWriterVersion(t)
      PROVE  RingInv'
  BY <1>0, <1>3, FrameRing
     DEF ReadWriterVersion, Goto, logs, flags, SyncLocs, SectionLocs
<1>4. ASSUME NEW t \in Threads, ReadCommitVersion(t)
      PROVE  RingInv'
  BY <1>0, <1>4, FrameRing
     DEF ReadCommitVersion, Goto, logs, flags, SyncLocs, SectionLocs
<1>5. ASSUME NEW t \in Threads, NEW o \in Objects, Deref(t, o)
      PROVE  RingInv'
  BY <1>0, <1>5, FrameRing
     DEF Deref, DerefActual, DerefOwnCopy, DerefLocked, Goto, logs, flags, SyncLocs, SectionLocs
<1>6. ASSUME NEW t \in Threads, NEW o \in Objects, TryLockOwn(t, o)
      PROVE  RingInv'
  BY <1>0, <1>6, FrameRing
     DEF TryLockOwn, Goto, logs, flags, SyncLocs, SectionLocs
<1>7. ASSUME NEW t \in Threads, NEW o \in Objects, TryLockBusy(t, o)
      PROVE  RingInv'
  BY <1>0, <1>7, FrameRing
     DEF TryLockBusy, Goto, logs, flags, SyncLocs, SectionLocs
<1>8. ASSUME NEW t \in Threads, DerefSteal(t)
      PROVE  RingInv'
  BY <1>0, <1>8, FrameRing
     DEF DerefSteal, Goto, logs, flags, SyncLocs, SectionLocs
<1>9. ASSUME NEW t \in Threads, CasFails(t)
      PROVE  RingInv'
  BY <1>0, <1>9, FrameRing
     DEF CasFails, Goto, logs, flags, SyncLocs, SectionLocs
<1>10. ASSUME NEW t \in Threads, Checkpoint(t)
      PROVE  RingInv'
  BY <1>0, <1>10, FrameRing
     DEF Checkpoint, rlu_sync_checkpoint, StartSync, Goto, logs, flags, SyncLocs, SectionLocs
<1>11. ASSUME NEW t \in Threads, SyncLoadVersion(t)
      PROVE  RingInv'
  BY <1>0, <1>11, FrameRing
     DEF SyncLoadVersion, Goto, logs, flags, SyncLocs, SectionLocs
<1>12. ASSUME NEW t \in Threads, SyncStoreVersion(t)
      PROVE  RingInv'
  BY <1>0, <1>12, FrameRing
     DEF SyncStoreVersion, Goto, logs, flags, SyncLocs, SectionLocs
<1>13. ASSUME NEW t \in Threads, SyncAdvanceGlobal(t)
      PROVE  RingInv'
  BY <1>0, <1>13, FrameRing
     DEF SyncAdvanceGlobal, Goto, logs, flags, SyncLocs, SectionLocs
<1>14. ASSUME NEW t \in Threads, rlu_init_quiescence(t)
      PROVE  RingInv'
  BY <1>0, <1>14, FrameRing
     DEF rlu_init_quiescence, NextOther, Goto, logs, flags, SyncLocs, SectionLocs
<1>15. ASSUME NEW t \in Threads, rlu_wait_for_quiescence(t)
      PROVE  RingInv'
  BY <1>0, <1>15, FrameRing
     DEF rlu_wait_for_quiescence, NextOther, Goto, logs, flags, SyncLocs, SectionLocs
<1>16. ASSUME NEW t \in Threads, WritebackObject(t)
      PROVE  RingInv'
  BY <1>0, <1>16, FrameRing
     DEF WritebackObject, Goto, logs, flags, SyncLocs, SectionLocs
<1>17. ASSUME NEW t \in Threads, rlu_thread_finish(t)
      PROVE  RingInv'
  BY <1>0, <1>17, FrameRing
     DEF rlu_thread_finish, StartSync, AfterFinishSync, Goto, logs, flags, SyncLocs, SectionLocs
<1>18. ASSUME NEW t \in Threads, NEW o \in Objects, TryLockFree(t, o)
      PROVE  RingInv'
  <2>0. /\ ws_head_counter \in [Threads -> Nat] /\ ws_wb_counter \in [Threads -> Nat]
        /\ ws_tail_counter \in [Threads -> Nat]
        /\ write_set \in [Threads -> [Slots -> Seq(Entry)]]
        /\ CurrentSlot(t) \in Slots /\ MaxWriteSets \in Nat /\ MaxWriteSets >= 1
    BY IndexInRing, RingAssumption DEF TypeOK, LogTypes, CurrentSlot
  <2>1. RingCounters(t)'
    BY <1>0, <1>18, <2>0 DEF TryLockFree, RingCounters, Goto, logs, SyncLocs
  <2>2. OpenLog(t)'
    BY <1>0, <1>18 DEF TryLockFree, OpenLog, Goto, flags, SectionLocs
  <2>3. UsedSlots(t)'
    BY <1>0, <1>18, <2>0 DEF TryLockFree, UsedSlots, InUse, CurrentSlot, Goto, logs, flags
  <2>4. ASSUME NEW u \in Threads, u # t
        PROVE  RingCounters(u)' /\ OpenLog(u)' /\ UsedSlots(u)'
    BY <1>0, <1>18, <2>0, <2>4, OthersRing DEF TryLockFree, Goto, logs, flags
  <2>5. QED
    BY <2>1, <2>2, <2>3, <2>4 DEF RingInv
<1>19. ASSUME NEW t \in Threads, CasSucceeds(t)
      PROVE  RingInv'
  <2>0. /\ ws_head_counter \in [Threads -> Nat] /\ ws_wb_counter \in [Threads -> Nat]
        /\ ws_tail_counter \in [Threads -> Nat]
        /\ write_set \in [Threads -> [Slots -> Seq(Entry)]]
        /\ CurrentSlot(t) \in Slots /\ MaxWriteSets \in Nat /\ MaxWriteSets >= 1
    BY IndexInRing, RingAssumption DEF TypeOK, LogTypes, CurrentSlot
  <2>1. RingCounters(t)'
    BY <1>0, <1>19, <2>0 DEF CasSucceeds, RingCounters, Goto, logs, SyncLocs
  <2>2. OpenLog(t)'
    BY <1>0, <1>19 DEF CasSucceeds, OpenLog, Goto, flags, SectionLocs
  <2>3. UsedSlots(t)'
    BY <1>0, <1>19, <2>0 DEF CasSucceeds, UsedSlots, InUse, CurrentSlot, Goto, logs, flags
  <2>4. ASSUME NEW u \in Threads, u # t
        PROVE  RingCounters(u)' /\ OpenLog(u)' /\ UsedSlots(u)'
    BY <1>0, <1>19, <2>0, <2>4, OthersRing DEF CasSucceeds, Goto, logs, flags
  <2>5. QED
    BY <2>1, <2>2, <2>3, <2>4 DEF RingInv
<1>20. ASSUME NEW t \in Threads, UnlockReader(t)
      PROVE  RingInv'
  <2>0. /\ ws_head_counter \in [Threads -> Nat] /\ ws_wb_counter \in [Threads -> Nat]
        /\ ws_tail_counter \in [Threads -> Nat]
        /\ write_set \in [Threads -> [Slots -> Seq(Entry)]]
        /\ CurrentSlot(t) \in Slots /\ MaxWriteSets \in Nat /\ MaxWriteSets >= 1
    BY IndexInRing, RingAssumption DEF TypeOK, LogTypes, CurrentSlot
  <2>1. RingCounters(t)'
    BY <1>0, <1>20, <2>0 DEF UnlockReader, Unregister, RingCounters, Goto, logs, SyncLocs
  <2>2. OpenLog(t)'
    BY <1>0, <1>20 DEF UnlockReader, Unregister, OpenLog, Goto, flags, SectionLocs
  <2>3. UsedSlots(t)'
    BY <1>0, <1>20, <2>0 DEF UnlockReader, Unregister, UsedSlots, InUse, CurrentSlot, Goto, logs, flags
  <2>4. ASSUME NEW u \in Threads, u # t
        PROVE  RingCounters(u)' /\ OpenLog(u)' /\ UsedSlots(u)'
    BY <1>0, <1>20, <2>0, <2>4, OthersRing DEF UnlockReader, Unregister, Goto, logs, flags
  <2>5. QED
    BY <2>1, <2>2, <2>3, <2>4 DEF RingInv
<1>21. ASSUME NEW t \in Threads, UnlockWriter(t)
      PROVE  RingInv'
  <2>0. /\ ws_head_counter \in [Threads -> Nat] /\ ws_wb_counter \in [Threads -> Nat]
        /\ ws_tail_counter \in [Threads -> Nat]
        /\ write_set \in [Threads -> [Slots -> Seq(Entry)]]
        /\ CurrentSlot(t) \in Slots /\ MaxWriteSets \in Nat /\ MaxWriteSets >= 1
    BY IndexInRing, RingAssumption DEF TypeOK, LogTypes, CurrentSlot
  <2>1. RingCounters(t)'
    <3>1. /\ ws_tail_counter'[t] = ws_tail_counter[t] + 1
          /\ ws_head_counter'[t] = ws_head_counter[t]
          /\ ws_wb_counter'[t] = ws_wb_counter[t]
      BY <1>21, <2>0 DEF UnlockWriter
    <3>2. ws_tail_counter[t] - ws_wb_counter[t] < MaxWriteSets
      BY <1>0, <1>21 DEF UnlockWriter, RingCounters, SyncLocs
    <3>3. pc'[t] = IF MustSync(t) THEN "sync_load" ELSE "checkpoint"
      BY <1>0, <1>21 DEF UnlockWriter, Goto
    <3>4. ~MustSync(t) => ws_tail_counter[t] + 1 - ws_wb_counter[t] < MaxWriteSets
      BY <2>0 DEF MustSync
    <3>5. ws_head_counter[t] <= ws_wb_counter[t] /\ ws_wb_counter[t] <= ws_tail_counter[t]
          /\ ws_wb_counter[t] - ws_head_counter[t] <= MaxWriteSets
      BY <1>0 DEF RingCounters
    <3>6. QED
      BY <2>0, <3>1, <3>2, <3>3, <3>4, <3>5 DEF RingCounters, SyncLocs
  <2>2. OpenLog(t)'
    BY <1>0, <1>21 DEF UnlockWriter, Unregister, OpenLog, Goto, flags, SectionLocs
  <2>3. UsedSlots(t)'
    <3>1. SUFFICES ASSUME NEW s \in Slots, write_set[t][s] # <<>>
                   PROVE  InUse(t, s)'
      BY <1>21 DEF UnlockWriter, UsedSlots
    <3>2. ws_tail_counter'[t] = ws_tail_counter[t] + 1 /\ ws_head_counter'[t] = ws_head_counter[t]
      BY <1>21, <2>0 DEF UnlockWriter
    <3>3. CASE s = CurrentSlot(t)
      <4>1. ws_tail_counter[t] \in ws_head_counter'[t] .. ws_tail_counter'[t] - 1
        BY <1>0, <2>0, <3>2 DEF RingCounters
      <4>2. QED
        BY <3>3, <4>1 DEF InUse, CurrentSlot
    <3>4. CASE s # CurrentSlot(t)
      <4>1. PICK c \in ws_head_counter[t] .. ws_tail_counter[t] - 1 : s = WS_INDEX(c)
        BY <1>0, <3>1, <3>4 DEF UsedSlots, InUse
      <4>2. c \in ws_head_counter'[t] .. ws_tail_counter'[t] - 1
        BY <2>0, <3>2
      <4>3. QED
        BY <4>1, <4>2 DEF InUse
    <3>5. QED
      BY <3>3, <3>4
  <2>4. ASSUME NEW u \in Threads, u # t
        PROVE  RingCounters(u)' /\ OpenLog(u)' /\ UsedSlots(u)'
    BY <1>0, <1>21, <2>0, <2>4, OthersRing DEF UnlockWriter, Unregister, Goto, logs, flags
  <2>5. QED
    BY <2>1, <2>2, <2>3, <2>4 DEF RingInv
<1>22. ASSUME NEW t \in Threads, rlu_abort(t)
      PROVE  RingInv'
  <2>0. /\ ws_head_counter \in [Threads -> Nat] /\ ws_wb_counter \in [Threads -> Nat]
        /\ ws_tail_counter \in [Threads -> Nat]
        /\ write_set \in [Threads -> [Slots -> Seq(Entry)]]
        /\ CurrentSlot(t) \in Slots /\ MaxWriteSets \in Nat /\ MaxWriteSets >= 1
    BY IndexInRing, RingAssumption DEF TypeOK, LogTypes, CurrentSlot
  <2>1. RingCounters(t)'
    BY <1>0, <1>22, <2>0 DEF rlu_abort, Unregister, DiscardLog, RingCounters, Goto, logs, SyncLocs
  <2>2. OpenLog(t)'
    BY <1>0, <1>22 DEF rlu_abort, Unregister, DiscardLog, OpenLog, Goto, flags, SectionLocs
  <2>3. UsedSlots(t)'
    <3>1. CASE is_write_detected[t]
      <4>1. \A s \in Slots : write_set'[t][s] =
              IF s = CurrentSlot(t) THEN <<>> ELSE write_set[t][s]
        BY <1>22, <2>0, <3>1 DEF rlu_abort, DiscardLog
      <4>2. QED
        BY <1>0, <1>22, <4>1 DEF rlu_abort, UsedSlots, InUse
    <3>2. CASE ~is_write_detected[t]
      BY <1>0, <1>22, <3>2 DEF rlu_abort, UsedSlots, InUse
    <3>3. QED
      BY <3>1, <3>2
  <2>4. ASSUME NEW u \in Threads, u # t
        PROVE  RingCounters(u)' /\ OpenLog(u)' /\ UsedSlots(u)'
    BY <1>0, <1>22, <2>0, <2>4, OthersRing DEF rlu_abort, Unregister, DiscardLog, Goto, logs, flags
  <2>5. QED
    BY <2>1, <2>2, <2>3, <2>4 DEF RingInv
<1>23. ASSUME NEW t \in Threads, ResetWriteSets(t)
      PROVE  RingInv'
  <2>0. /\ ws_head_counter \in [Threads -> Nat] /\ ws_wb_counter \in [Threads -> Nat]
        /\ ws_tail_counter \in [Threads -> Nat]
        /\ write_set \in [Threads -> [Slots -> Seq(Entry)]]
        /\ CurrentSlot(t) \in Slots /\ MaxWriteSets \in Nat /\ MaxWriteSets >= 1
    BY IndexInRing, RingAssumption DEF TypeOK, LogTypes, CurrentSlot
  <2>1. RingCounters(t)'
    BY <1>0, <1>23, <2>0 DEF ResetWriteSets, NewHead, RingCounters, Goto, logs, SyncLocs
  <2>2. OpenLog(t)'
    BY <1>0, <1>23 DEF ResetWriteSets, NewHead, OpenLog, Goto, flags, SectionLocs
  <2>3. UsedSlots(t)'
    <3>1. SUFFICES ASSUME NEW s \in Slots, write_set'[t][s] # <<>>
                   PROVE  InUse(t, s)'
      BY DEF UsedSlots
    <3>2. /\ write_set[t][s] # <<>>
          /\ \A c \in ReusableSets(t) : s # WS_INDEX(c)
      BY <1>23, <2>0, <3>1 DEF ResetWriteSets
    <3>3. PICK c \in ws_head_counter[t] .. ws_tail_counter[t] - 1 : s = WS_INDEX(c)
      BY <1>0, <1>23, <3>2 DEF UsedSlots, InUse, ResetWriteSets, SectionLocs
    <3>4. c \in ws_head_counter'[t] .. ws_tail_counter'[t] - 1
      BY <1>23, <2>0, <3>2, <3>3 DEF ResetWriteSets, ReusableSets, NewHead
    <3>5. QED
      BY <3>3, <3>4 DEF InUse
  <2>4. ASSUME NEW u \in Threads, u # t
        PROVE  RingCounters(u)' /\ OpenLog(u)' /\ UsedSlots(u)'
    BY <1>0, <1>23, <2>0, <2>4, OthersRing DEF ResetWriteSets, NewHead, Goto, logs, flags
  <2>5. QED
    BY <2>1, <2>2, <2>3, <2>4 DEF RingInv
<1>24. ASSUME NEW t \in Threads, WritebackDone(t)
      PROVE  RingInv'
  <2>0. /\ ws_head_counter \in [Threads -> Nat] /\ ws_wb_counter \in [Threads -> Nat]
        /\ ws_tail_counter \in [Threads -> Nat]
        /\ write_set \in [Threads -> [Slots -> Seq(Entry)]]
        /\ CurrentSlot(t) \in Slots /\ MaxWriteSets \in Nat /\ MaxWriteSets >= 1
    BY IndexInRing, RingAssumption DEF TypeOK, LogTypes, CurrentSlot
  <2>1. RingCounters(t)'
    BY <1>0, <1>24, <2>0 DEF WritebackDone, RingCounters, Goto, logs, SyncLocs
  <2>2. OpenLog(t)'
    BY <1>0, <1>24 DEF WritebackDone, OpenLog, Goto, flags, SectionLocs
  <2>3. UsedSlots(t)'
    BY <1>0, <1>24, <2>0 DEF WritebackDone, UsedSlots, InUse, CurrentSlot, Goto, logs, flags
  <2>4. ASSUME NEW u \in Threads, u # t
        PROVE  RingCounters(u)' /\ OpenLog(u)' /\ UsedSlots(u)'
    BY <1>0, <1>24, <2>0, <2>4, OthersRing DEF WritebackDone, Goto, logs, flags
  <2>5. QED
    BY <2>1, <2>2, <2>3, <2>4 DEF RingInv
<1>25. ASSUME NEW t \in Threads, SyncCommit(t)
      PROVE  RingInv'
  <2>0. /\ ws_head_counter \in [Threads -> Nat] /\ ws_wb_counter \in [Threads -> Nat]
        /\ ws_tail_counter \in [Threads -> Nat]
        /\ write_set \in [Threads -> [Slots -> Seq(Entry)]]
        /\ CurrentSlot(t) \in Slots /\ MaxWriteSets \in Nat /\ MaxWriteSets >= 1
    BY IndexInRing, RingAssumption DEF TypeOK, LogTypes, CurrentSlot
  <2>1. pc'[t] \notin {"cas", "writeback", "commit"} /\ ret[t] \in ReturnLocs
        /\ pc' = [pc EXCEPT ![t] = ret[t]]
    BY <1>0, <1>25 DEF SyncCommit, Goto, ReturnLocs, TypeOK, ControlTypes
  <2>2. RingCounters(t)'
    <3>1. /\ ws_tail_counter'[t] = ws_tail_counter[t]
          /\ ws_head_counter'[t] = ws_head_counter[t]
          /\ ws_wb_counter'[t] = ws_wb_counter[t]
          /\ ws_tail_counter[t] = ws_wb_counter[t]
      BY <1>0, <1>25 DEF SyncCommit, logs, RingCounters
    <3>2. ws_head_counter[t] <= ws_wb_counter[t]
          /\ ws_wb_counter[t] - ws_head_counter[t] <= MaxWriteSets
      BY <1>0 DEF RingCounters
    <3>3. ws_wb_counter[t] - ws_wb_counter[t] < MaxWriteSets
      BY <2>0
    <3>4. QED
      BY <2>0, <2>1, <3>1, <3>2, <3>3 DEF RingCounters
  <2>3. OpenLog(t)'
    BY <1>0, <1>25, <2>1 DEF SyncCommit, OpenLog, Goto, flags, SectionLocs
  <2>4. UsedSlots(t)'
    BY <1>0, <1>25, <2>0 DEF SyncCommit, UsedSlots, InUse, CurrentSlot, Goto, logs, flags
  <2>5. ASSUME NEW u \in Threads, u # t
        PROVE  RingCounters(u)' /\ OpenLog(u)' /\ UsedSlots(u)'
    BY <1>0, <1>25, <2>0, <2>5, OthersRing DEF SyncCommit, Goto, logs, flags
  <2>6. QED
    BY <2>2, <2>3, <2>4, <2>5 DEF RingInv
<1>26. CASE UNCHANGED vars
  BY <1>0, <1>26, OthersRing DEF vars, logs, flags, RingInv
<1>27. QED
  BY <1>1, <1>2, <1>3, <1>4, <1>5, <1>6, <1>7, <1>8, <1>9, <1>10, <1>11, <1>12, <1>13, <1>14, <1>15, <1>16, <1>17, <1>18, <1>19, <1>20, <1>21, <1>22, <1>23, <1>24, <1>25, <1>26
     DEF Next, Terminated, ThreadStep, EnterSection, TryLock, LeaveSection, Sync

\* Whatever the number of threads and sections, a thread outside a sync has a
\* free, empty log for its next section: rlu_commit_write_set syncs early
\* enough, as long as the ring is twice as long as the number of write sets a
\* thread may accumulate (the assertion of rlu_init).
THEOREM RingNeverWraps == Spec => []FreshLog
<1>1. Init => TypeOK /\ RingInv
  BY InitTypeOK, InitRingInv
<1>2. TypeOK /\ RingInv /\ [Next]_vars => (TypeOK /\ RingInv)'
  BY StepTypeOK, StepRingInv
<1>3. TypeOK /\ RingInv => FreshLog
  BY RingInvImpliesFreshLog
<1>4. QED
  BY <1>1, <1>2, <1>3, PTL DEF Spec
------------------------------------------------------------------------------
(***************************************************************************)
(* The grace period.  GracePeriod speaks of the end of the two scans of    *)
(* rlu_sync_and_writeback; the invariant says what holds in the middle of  *)
(* them, of every section older than the version drawn.                    *)
(***************************************************************************)
\* Where a thread's section may still depend on the version it read.
Reading(u) == pc[u] \in SectionLocs \union {"read_commit"}

\* The run counter is odd exactly while the section counts as running.
CounterOdd(u) == IsOdd(run_counter[u]) <=> Reading(u) \/ pc[u] = "read_version"

\* A version drawn is at most one ahead of the global one, and not ahead of it
\* once the global one was advanced.
VersionBound(t) ==
  /\ pc[t] = "sync_store" => new_version[t] <= g_rlu_writer_version + 1
  /\ pc[t] = "sync_faa" => writer_version[t] <= g_rlu_writer_version + 1
  /\ pc[t] \in {"q_init", "q_wait", "reset_logs", "writeback"} =>
       writer_version[t] <= g_rlu_writer_version

ScanIndex(t) == pc[t] \in {"q_init", "q_wait"} => iter[t] \in Threads \ {t}

\* u's section began before t's version was drawn.
Older(u, t) == Reading(u) /\ local_version[u] < writer_version[t]

\* An older section that t's first scan has passed is remembered, and one that
\* is still remembered has not been passed by the second.
WaitedFor(t, u) ==
  Older(u, t) =>
    /\ pc[t] = "q_init" /\ u < iter[t] => q_threads[t][u] = run_counter[u]
    /\ pc[t] = "q_wait" => u >= iter[t] /\ q_threads[t][u] = run_counter[u]
    /\ pc[t] \notin {"reset_logs", "writeback"}

GraceInv ==
  \A t \in Threads :
    /\ CounterOdd(t) /\ VersionBound(t) /\ ScanIndex(t)
    /\ \A u \in Threads \ {t} : WaitedFor(t, u)

LEMMA GraceInvImpliesGracePeriod == TypeOK /\ GraceInv => GracePeriod
<1> SUFFICES ASSUME TypeOK, GraceInv, NEW t \in Threads, NEW u \in Threads, u # t,
                    pc[t] \in {"reset_logs", "writeback"}, Reading(u)
             PROVE  local_version[u] >= writer_version[t]
  BY DEF GracePeriod, Reading, InSection
<1>1. local_version[u] \in Nat /\ writer_version[t] \in Nat
  BY DEF TypeOK, ThreadTypes
<1>2. ~Older(u, t)
  BY DEF GraceInv, WaitedFor
<1>3. QED
  BY <1>1, <1>2 DEF Older

\* Zero is even, and adding one changes the parity.
LEMMA Parity ==
  ASSUME NEW n \in Nat
  PROVE  ~IsOdd(0) /\ (IsOdd(n + 1) <=> ~IsOdd(n))
  BY DEF IsOdd

LEMMA InitGraceInv == Init => GraceInv
<1> SUFFICES ASSUME Init, NEW t \in Threads, NEW u \in Threads
             PROVE  CounterOdd(t) /\ VersionBound(t) /\ ScanIndex(t) /\ WaitedFor(t, u)
  BY DEF GraceInv
<1>1. pc[t] = "idle" /\ pc[u] = "idle" /\ run_counter[t] = 0
  BY DEF Init
<1>2. ~IsOdd(0)
  BY DEF IsOdd
<1>3. QED
  BY <1>1, <1>2 DEF CounterOdd, VersionBound, ScanIndex, WaitedFor, Older, Reading, SectionLocs

\* Both scans start at another thread, and the next one is another thread not
\* scanned yet, with none left out in between.
LEMMA ScanStart ==
  ASSUME NEW t \in Threads
  PROVE  /\ FirstOther(t) \in Threads \ {t}
         /\ \A u \in Threads \ {t} : u >= FirstOther(t)
  BY ThreadsAssumption DEF Threads, FirstOther

LEMMA ScanNext ==
  ASSUME NEW t \in Threads, iter \in [Threads -> Nat], pc \in [Threads -> Locs],
         iter[t] \in Threads \ {t}, NEW loc, NEW done, NextOther(t, loc, done)
  PROVE  \/ /\ pc' = [pc EXCEPT ![t] = loc]
            /\ iter'[t] \in Threads \ {t} /\ iter'[t] > iter[t]
            /\ \A u \in Threads \ {t} : u < iter'[t] => u <= iter[t]
            /\ \A v \in Threads \ {t} : iter'[v] = iter[v]
         \/ /\ pc' = [pc EXCEPT ![t] = done]
            /\ iter'[t] = FirstOther(t)
            /\ \A u \in Threads \ {t} : u <= iter[t]
            /\ \A v \in Threads \ {t} : iter'[v] = iter[v]
<1> DEFINE n == IF iter[t] + 1 = t THEN t + 1 ELSE iter[t] + 1
<1>1. t \in Nat /\ iter[t] \in Nat /\ NThreads \in Nat /\ t < NThreads /\ iter[t] # t
  BY ThreadsAssumption DEF Threads
<1>2. /\ n \in Nat /\ n # t /\ n > iter[t]
      /\ \A u \in Threads \ {t} : u < n => u <= iter[t]
  BY <1>1, ThreadsAssumption DEF Threads
<1>3. CASE n < NThreads
  <2>1. n \in Threads
    BY <1>1, <1>2, <1>3 DEF Threads
  <2>2. iter' = [iter EXCEPT ![t] = n] /\ pc' = [pc EXCEPT ![t] = loc]
    BY <1>3 DEF NextOther, Goto
  <2>3. QED
    BY <1>2, <2>1, <2>2
<1>4. CASE ~(n < NThreads)
  <2>1. iter' = [iter EXCEPT ![t] = FirstOther(t)] /\ pc' = [pc EXCEPT ![t] = done]
    BY <1>4 DEF NextOther, Goto
  <2>2. \A u \in Threads \ {t} : u < n
    BY <1>1, <1>2, <1>4 DEF Threads
  <2>3. QED
    BY <1>2, <2>1, <2>2
<1>5. QED
  BY <1>3, <1>4

\* A step of t that draws no version, scans nobody and neither begins nor ends
\* a section.
LEMMA FrameGrace ==
  ASSUME TypeOK, GraceInv, NEW t \in Threads,
         UNCHANGED <<g_rlu_writer_version, run_counter, local_version, q_threads>>,
         \A v \in Threads \ {t} : /\ pc'[v] = pc[v] /\ iter'[v] = iter[v]
                                  /\ writer_version'[v] = writer_version[v]
                                  /\ new_version'[v] = new_version[v],
         pc[t] # "read_version", pc'[t] # "read_version",
         Reading(t)' <=> Reading(t),
         pc'[t] \notin {"sync_store", "sync_faa", "q_init", "q_wait", "reset_logs"},
         pc'[t] = "writeback" =>
           pc[t] \in {"reset_logs", "writeback"} /\ writer_version'[t] = writer_version[t]
  PROVE  GraceInv'
<1>1. ASSUME NEW v \in Threads
      PROVE  CounterOdd(v)' /\ VersionBound(v)' /\ ScanIndex(v)'
  <2>1. CounterOdd(v)'
    BY DEF GraceInv, CounterOdd, Reading
  <2>2. VersionBound(v)' /\ ScanIndex(v)'
    BY DEF GraceInv, VersionBound, ScanIndex
  <2>3. QED
    BY <2>1, <2>2
<1>2. ASSUME NEW v \in Threads, NEW u \in Threads \ {v}
      PROVE  WaitedFor(v, u)'
  <2>1. WaitedFor(v, u)
    BY DEF GraceInv
  <2>2. Reading(u)' => Reading(u)
    BY DEF Reading
  <2>3. CASE v = t
    BY <2>1, <2>2, <2>3 DEF WaitedFor, Older
  <2>4. CASE v # t
    BY <2>1, <2>2, <2>4 DEF WaitedFor, Older
  <2>5. QED
    BY <2>3, <2>4
<1>3. QED
  BY <1>1, <1>2 DEF GraceInv

\* The end of a section makes the counter even, and nobody waits for it.
LEMMA EndOfSectionGrace ==
  ASSUME TypeOK, GraceInv, NEW t \in Threads,
         UNCHANGED <<g_rlu_writer_version, local_version, q_threads, writer_version,
                     new_version, iter>>,
         pc[t] \in SectionLocs, pc'[t] \in {"checkpoint", "sync_load"},
         \A v \in Threads \ {t} : pc'[v] = pc[v],
         run_counter' = [run_counter EXCEPT ![t] = run_counter[t] + 1]
  PROVE  GraceInv'
<1>0. run_counter \in [Threads -> Nat]
  BY DEF TypeOK, ThreadTypes
<1>1. CounterOdd(t)'
  BY <1>0, Parity DEF GraceInv, CounterOdd, Reading, SectionLocs
<1>2. ASSUME NEW v \in Threads \ {t} PROVE CounterOdd(v)'
  BY <1>0 DEF GraceInv, CounterOdd, Reading
<1>3. ASSUME NEW v \in Threads PROVE VersionBound(v)' /\ ScanIndex(v)'
  BY DEF GraceInv, VersionBound, ScanIndex
<1>4. ASSUME NEW v \in Threads, NEW u \in Threads \ {v}
      PROVE  WaitedFor(v, u)'
  <2>1. WaitedFor(v, u)
    BY DEF GraceInv
  <2>2. CASE u = t
    BY <2>2 DEF WaitedFor, Older, Reading, SectionLocs
  <2>3. CASE u # t
    BY <1>0, <2>1, <2>3 DEF WaitedFor, Older, Reading
  <2>4. QED
    BY <2>2, <2>3
<1>5. QED
  BY <1>1, <1>2, <1>3, <1>4 DEF GraceInv

\* Every step keeps the invariant.
LEMMA StepGraceInv == TypeOK /\ GraceInv /\ [Next]_vars => GraceInv'
<1> SUFFICES ASSUME TypeOK, GraceInv, [Next]_vars PROVE GraceInv'
  OBVIOUS
<1>0. /\ pc \in [Threads -> Locs] /\ ret \in [Threads -> ReturnLocs]
      /\ run_counter \in [Threads -> Nat] /\ local_version \in [Threads -> Nat]
      /\ writer_version \in [Threads -> Nat] /\ new_version \in [Threads -> Nat]
      /\ iter \in [Threads -> Nat] /\ q_threads \in [Threads -> [Threads -> Nat]]
      /\ g_rlu_writer_version \in Nat
  BY DEF TypeOK, ThreadTypes, ControlTypes, MemoryTypes
<1>1. ASSUME NEW t \in Threads, rlu_reader_lock(t)
      PROVE  GraceInv'
  BY <1>0, <1>1, FrameGrace
     DEF rlu_reader_lock, rlu_sync_checkpoint, StartSync, Goto, Reading, SectionLocs, globals, versions, loops
<1>2. ASSUME NEW t \in Threads, ReadCommitVersion(t)
      PROVE  GraceInv'
  BY <1>0, <1>2, FrameGrace
     DEF ReadCommitVersion, Goto, Reading, SectionLocs, globals, versions, loops
<1>3. ASSUME NEW t \in Threads, NEW o \in Objects, Deref(t, o)
      PROVE  GraceInv'
  BY <1>0, <1>3, FrameGrace
     DEF Deref, DerefActual, DerefOwnCopy, DerefLocked, Goto, Reading, SectionLocs, globals, versions, loops
<1>4. ASSUME NEW t \in Threads, NEW o \in Objects, TryLock(t, o)
      PROVE  GraceInv'
  BY <1>0, <1>4, FrameGrace
     DEF TryLock, TryLockOwn, TryLockBusy, TryLockFree, Goto, Reading, SectionLocs, globals, versions, loops
<1>5. ASSUME NEW t \in Threads, DerefSteal(t)
      PROVE  GraceInv'
  BY <1>0, <1>5, FrameGrace
     DEF DerefSteal, Goto, Reading, SectionLocs, globals, versions, loops
<1>6. ASSUME NEW t \in Threads, CasSucceeds(t)
      PROVE  GraceInv'
  BY <1>0, <1>6, FrameGrace
     DEF CasSucceeds, Goto, Reading, SectionLocs, globals, versions, loops
<1>7. ASSUME NEW t \in Threads, CasFails(t)
      PROVE  GraceInv'
  BY <1>0, <1>7, FrameGrace
     DEF CasFails, Goto, Reading, SectionLocs, globals, versions, loops
<1>8. ASSUME NEW t \in Threads, Checkpoint(t)
      PROVE  GraceInv'
  BY <1>0, <1>8, FrameGrace
     DEF Checkpoint, rlu_sync_checkpoint, StartSync, Goto, Reading, SectionLocs, globals, versions, loops
<1>9. ASSUME NEW t \in Threads, ResetWriteSets(t)
      PROVE  GraceInv'
  BY <1>0, <1>9, FrameGrace
     DEF ResetWriteSets, Goto, Reading, SectionLocs, globals, versions, loops
<1>10. ASSUME NEW t \in Threads, WritebackObject(t)
      PROVE  GraceInv'
  BY <1>0, <1>10, FrameGrace
     DEF WritebackObject, Goto, Reading, SectionLocs, globals, versions, loops
<1>11. ASSUME NEW t \in Threads, WritebackDone(t)
      PROVE  GraceInv'
  BY <1>0, <1>11, FrameGrace
     DEF WritebackDone, Goto, Reading, SectionLocs, globals, versions, loops
<1>12. ASSUME NEW t \in Threads, SyncCommit(t)
      PROVE  GraceInv'
  BY <1>0, <1>12, FrameGrace
     DEF SyncCommit, ReturnLocs, Goto, Reading, SectionLocs, globals, versions, loops
<1>13. ASSUME NEW t \in Threads, rlu_thread_finish(t)
      PROVE  GraceInv'
  BY <1>0, <1>13, FrameGrace
     DEF rlu_thread_finish, StartSync, AfterFinishSync, Goto, Reading, SectionLocs, globals, versions, loops
<1>14. ASSUME NEW t \in Threads, UnlockReader(t)
      PROVE  GraceInv'
  BY <1>0, <1>14, EndOfSectionGrace
     DEF UnlockReader, Unregister, UnregisteredCounter, Goto, SectionLocs, globals, loops
<1>15. ASSUME NEW t \in Threads, UnlockWriter(t)
      PROVE  GraceInv'
  BY <1>0, <1>15, EndOfSectionGrace
     DEF UnlockWriter, Unregister, UnregisteredCounter, Goto, SectionLocs, globals, loops
<1>16. ASSUME NEW t \in Threads, rlu_abort(t)
      PROVE  GraceInv'
  BY <1>0, <1>16, EndOfSectionGrace
     DEF rlu_abort, Unregister, UnregisteredCounter, Goto, SectionLocs, globals, loops
<1>17. ASSUME NEW t \in Threads, RegisterThread(t)
      PROVE  GraceInv'
  <2>1. /\ run_counter' = [run_counter EXCEPT ![t] = run_counter[t] + 1]
        /\ pc[t] = "register" /\ pc' = [pc EXCEPT ![t] = "read_version"]
        /\ UNCHANGED <<g_rlu_writer_version, local_version, writer_version,
                       new_version, q_threads, iter>>
    BY <1>17 DEF RegisterThread, Goto, globals, loops
  <2>2. CounterOdd(t)'
    BY <1>0, <2>1, Parity DEF GraceInv, CounterOdd, Reading, SectionLocs
  <2>3. ASSUME NEW v \in Threads \ {t} PROVE CounterOdd(v)'
    BY <1>0, <2>1 DEF GraceInv, CounterOdd, Reading
  <2>4. ASSUME NEW v \in Threads PROVE VersionBound(v)' /\ ScanIndex(v)'
    BY <1>0, <2>1 DEF GraceInv, VersionBound, ScanIndex
  <2>5. ASSUME NEW v \in Threads, NEW u \in Threads \ {v} PROVE WaitedFor(v, u)'
    BY <1>0, <2>1 DEF GraceInv, WaitedFor, Older, Reading, SectionLocs
  <2>6. QED
    BY <2>2, <2>3, <2>4, <2>5 DEF GraceInv
<1>18. ASSUME NEW t \in Threads, ReadWriterVersion(t)
      PROVE  GraceInv'
  \* The version read is the global one: nobody waits for the new section.
  <2>1. /\ local_version' = [local_version EXCEPT ![t] = g_rlu_writer_version]
        /\ pc[t] = "read_version" /\ pc' = [pc EXCEPT ![t] = "read_commit"]
        /\ UNCHANGED <<g_rlu_writer_version, run_counter, writer_version,
                       new_version, q_threads, iter>>
    BY <1>18 DEF ReadWriterVersion, Goto, globals, loops
  <2>2. ASSUME NEW v \in Threads
        PROVE  CounterOdd(v)' /\ VersionBound(v)' /\ ScanIndex(v)'
    <3>1. CounterOdd(v)'
      BY <1>0, <2>1 DEF GraceInv, CounterOdd, Reading
    <3>2. VersionBound(v)' /\ ScanIndex(v)'
      BY <1>0, <2>1 DEF GraceInv, VersionBound, ScanIndex
    <3>3. QED
      BY <3>1, <3>2
  <2>3. ASSUME NEW v \in Threads, NEW u \in Threads \ {v} PROVE WaitedFor(v, u)'
    <3>1. WaitedFor(v, u) /\ VersionBound(v)
      BY DEF GraceInv
    <3>2. CASE u = t
      BY <1>0, <2>1, <3>1, <3>2 DEF WaitedFor, Older, VersionBound
    <3>3. CASE u # t
      BY <1>0, <2>1, <3>1, <3>3 DEF WaitedFor, Older, Reading
    <3>4. QED
      BY <3>2, <3>3
  <2>4. QED
    BY <2>2, <2>3 DEF GraceInv
<1>19. ASSUME NEW t \in Threads, SyncLoadVersion(t)
      PROVE  GraceInv'
  \* The version drawn is the successor of the global one.
  <2>1. /\ new_version' = [new_version EXCEPT ![t] = g_rlu_writer_version + 1]
        /\ pc[t] = "sync_load" /\ pc' = [pc EXCEPT ![t] = "sync_store"]
        /\ UNCHANGED <<g_rlu_writer_version, run_counter, local_version, writer_version,
                       q_threads, iter>>
    BY <1>19 DEF SyncLoadVersion, Goto, globals, versions, loops
  <2>2. ASSUME NEW v \in Threads
        PROVE  CounterOdd(v)' /\ VersionBound(v)' /\ ScanIndex(v)'
    <3>1. CounterOdd(v)'
      BY <1>0, <2>1 DEF GraceInv, CounterOdd, Reading, SectionLocs
    <3>2. VersionBound(v)'
      BY <1>0, <2>1 DEF GraceInv, VersionBound
    <3>3. ScanIndex(v)'
      BY <1>0, <2>1 DEF GraceInv, ScanIndex
    <3>4. QED
      BY <3>1, <3>2, <3>3
  <2>3. ASSUME NEW v \in Threads, NEW u \in Threads \ {v} PROVE WaitedFor(v, u)'
    <3>1. WaitedFor(v, u)
      BY DEF GraceInv
    <3>2. QED
      BY <1>0, <2>1, <3>1 DEF WaitedFor, Older, Reading, SectionLocs
  <2>4. QED
    BY <2>2, <2>3 DEF GraceInv
<1>20. ASSUME NEW t \in Threads, SyncStoreVersion(t)
      PROVE  GraceInv'
  \* It may have been overtaken meanwhile, but is not further ahead.
  <2>1. /\ writer_version' = [writer_version EXCEPT ![t] = new_version[t]]
        /\ pc[t] = "sync_store" /\ pc' = [pc EXCEPT ![t] = "sync_faa"]
        /\ UNCHANGED <<g_rlu_writer_version, run_counter, local_version, new_version,
                       q_threads, iter>>
    BY <1>20 DEF SyncStoreVersion, Goto, globals, versions, loops
  <2>2. ASSUME NEW v \in Threads
        PROVE  CounterOdd(v)' /\ VersionBound(v)' /\ ScanIndex(v)'
    <3>1. CounterOdd(v)'
      BY <1>0, <2>1 DEF GraceInv, CounterOdd, Reading, SectionLocs
    <3>2. VersionBound(v)'
      BY <1>0, <2>1 DEF GraceInv, VersionBound
    <3>3. ScanIndex(v)'
      BY <1>0, <2>1 DEF GraceInv, ScanIndex
    <3>4. QED
      BY <3>1, <3>2, <3>3
  <2>3. ASSUME NEW v \in Threads, NEW u \in Threads \ {v} PROVE WaitedFor(v, u)'
    <3>1. WaitedFor(v, u)
      BY DEF GraceInv
    <3>2. QED
      BY <1>0, <2>1, <3>1 DEF WaitedFor, Older, Reading, SectionLocs
  <2>4. QED
    BY <2>2, <2>3 DEF GraceInv
<1>21. ASSUME NEW t \in Threads, SyncAdvanceGlobal(t)
      PROVE  GraceInv'
  \* The first scan starts, and has passed nobody.
  <2>1. /\ g_rlu_writer_version' = g_rlu_writer_version + 1
        /\ new_version' = [new_version EXCEPT ![t] = 0]
        /\ iter' = [iter EXCEPT ![t] = FirstOther(t)]
        /\ pc[t] = "sync_faa" /\ pc' = [pc EXCEPT ![t] = "q_init"]
        /\ UNCHANGED <<run_counter, local_version, writer_version, q_threads>>
    BY <1>21 DEF SyncAdvanceGlobal, Goto, globals, versions, loops
  <2>2. ASSUME NEW v \in Threads
        PROVE  CounterOdd(v)' /\ VersionBound(v)' /\ ScanIndex(v)'
    <3>1. CounterOdd(v)'
      BY <1>0, <2>1 DEF GraceInv, CounterOdd, Reading, SectionLocs
    <3>2. VersionBound(v)'
      BY <1>0, <2>1 DEF GraceInv, VersionBound
    <3>3. ScanIndex(v)'
      BY <1>0, <2>1, ScanStart DEF GraceInv, ScanIndex
    <3>4. QED
      BY <3>1, <3>2, <3>3
  <2>3. ASSUME NEW v \in Threads, NEW u \in Threads \ {v} PROVE WaitedFor(v, u)'
    <3>1. WaitedFor(v, u)
      BY DEF GraceInv
    <3>2. CASE v = t
      <4>1. iter'[t] = FirstOther(t) /\ pc'[t] = "q_init"
        BY <1>0, <2>1
      <4>2. ~(u < FirstOther(t))
        BY <3>2, ScanStart, ThreadsAssumption DEF Threads
      <4>3. QED
        BY <3>2, <4>1, <4>2 DEF WaitedFor
    <3>3. CASE v # t
      BY <1>0, <2>1, <3>1, <3>3 DEF WaitedFor, Older, Reading, SectionLocs
    <3>4. QED
      BY <3>2, <3>3
  <2>4. QED
    BY <2>2, <2>3 DEF GraceInv
<1>22. ASSUME NEW t \in Threads, rlu_init_quiescence(t)
      PROVE  GraceInv'
  \* An older section counts as running when the scan gets to it.
  <2>1. /\ pc[t] = "q_init" /\ NextOther(t, "q_init", "q_wait")
        /\ q_threads' = [q_threads EXCEPT ![t][iter[t]] = IF IsRunning(iter[t]) THEN run_counter[iter[t]] ELSE 0]
        /\ UNCHANGED <<g_rlu_writer_version, run_counter, local_version, writer_version,
                       new_version>>
    BY <1>22 DEF rlu_init_quiescence, globals, versions, loops
  <2>2. iter[t] \in Threads \ {t}
    BY <2>1 DEF GraceInv, ScanIndex
  <2>3. /\ \A v \in Threads \ {t} : /\ pc'[v] = pc[v] /\ iter'[v] = iter[v]
                                    /\ q_threads'[v] = q_threads[v]
        /\ pc'[t] \in {"q_init", "q_wait"}
        /\ \A u \in Threads : q_threads'[t][u] =
             IF u = iter[t] THEN IF IsRunning(iter[t]) THEN run_counter[iter[t]] ELSE 0 ELSE q_threads[t][u]
    <3>1. \E loc \in {"q_init", "q_wait"} : pc' = [pc EXCEPT ![t] = loc]
      BY <1>0, <2>1, <2>2, ScanNext
    <3>2. \A v \in Threads \ {t} : iter'[v] = iter[v]
      BY <1>0, <2>1, <2>2, ScanNext
    <3>3. QED
      BY <1>0, <2>1, <2>2, <3>1, <3>2
  <2>4. ASSUME NEW v \in Threads
        PROVE  CounterOdd(v)' /\ VersionBound(v)' /\ ScanIndex(v)'
    <3>1. CounterOdd(v)'
      BY <2>1, <2>3 DEF GraceInv, CounterOdd, Reading, SectionLocs
    <3>2. VersionBound(v)'
      BY <2>1, <2>3 DEF GraceInv, VersionBound
    <3>3. ScanIndex(v)'
      BY <1>0, <2>1, <2>2, <2>3, ScanNext, ScanStart DEF GraceInv, ScanIndex
    <3>4. QED
      BY <3>1, <3>2, <3>3
  <2>5. ASSUME NEW v \in Threads \ {t}, NEW u \in Threads \ {v} PROVE WaitedFor(v, u)'
    <3>1. WaitedFor(v, u) /\ (Older(u, v)' => Older(u, v))
      BY <2>1, <2>3 DEF GraceInv, Older, Reading, SectionLocs
    <3>2. QED
      BY <2>1, <2>3, <3>1 DEF WaitedFor
  <2>6. ASSUME NEW u \in Threads \ {t} PROVE WaitedFor(t, u)'
    <3>1. SUFFICES ASSUME Older(u, t)'
                   PROVE  /\ pc'[t] = "q_init" /\ u < iter'[t] =>
                               q_threads'[t][u] = run_counter[u]
                          /\ pc'[t] = "q_wait" =>
                               u >= iter'[t] /\ q_threads'[t][u] = run_counter[u]
      BY <2>1, <2>3 DEF WaitedFor
    <3>2. Older(u, t) /\ IsRunning(u)
      BY <2>1, <2>3, <3>1 DEF GraceInv, CounterOdd, Older, Reading, SectionLocs, IsRunning
    <3>3. WaitedFor(t, u) /\ u \in Nat /\ iter[t] \in Nat
      BY <1>0, ThreadsAssumption DEF GraceInv, Threads
    <3>4. u <= iter[t] => q_threads'[t][u] = run_counter[u]
      BY <2>1, <2>3, <3>2, <3>3 DEF WaitedFor
    <3>5. QED
      BY <1>0, <2>1, <2>2, <3>3, <3>4, ScanNext, ScanStart
  <2>7. QED
    BY <2>4, <2>5, <2>6 DEF GraceInv
<1>23. ASSUME NEW t \in Threads, rlu_wait_for_quiescence(t)
      PROVE  GraceInv'
  \* The scan does not pass an older section.
  <2>1. /\ pc[t] = "q_wait" /\ NextOther(t, "q_wait", "reset_logs")
        /\ q_threads' = [q_threads EXCEPT ![t][iter[t]] = 0]
        /\ UNCHANGED <<g_rlu_writer_version, run_counter, local_version, writer_version,
                       new_version>>
    BY <1>23 DEF rlu_wait_for_quiescence, globals, versions, loops
  <2>2. iter[t] \in Threads \ {t}
    BY <2>1 DEF GraceInv, ScanIndex
  <2>3. /\ \A v \in Threads \ {t} : /\ pc'[v] = pc[v] /\ iter'[v] = iter[v]
                                    /\ q_threads'[v] = q_threads[v]
        /\ pc'[t] \in {"q_wait", "reset_logs"}
        /\ \A u \in Threads : q_threads'[t][u] =
             IF u = iter[t] THEN 0 ELSE q_threads[t][u]
    <3>1. \E loc \in {"q_wait", "reset_logs"} : pc' = [pc EXCEPT ![t] = loc]
      BY <1>0, <2>1, <2>2, ScanNext
    <3>2. \A v \in Threads \ {t} : iter'[v] = iter[v]
      BY <1>0, <2>1, <2>2, ScanNext
    <3>3. QED
      BY <1>0, <2>1, <2>2, <3>1, <3>2
  <2>4. ASSUME NEW v \in Threads
        PROVE  CounterOdd(v)' /\ VersionBound(v)' /\ ScanIndex(v)'
    <3>1. CounterOdd(v)'
      BY <2>1, <2>3 DEF GraceInv, CounterOdd, Reading, SectionLocs
    <3>2. VersionBound(v)'
      BY <2>1, <2>3 DEF GraceInv, VersionBound
    <3>3. ScanIndex(v)'
      BY <1>0, <2>1, <2>2, <2>3, ScanNext, ScanStart DEF GraceInv, ScanIndex
    <3>4. QED
      BY <3>1, <3>2, <3>3
  <2>5. ASSUME NEW v \in Threads \ {t}, NEW u \in Threads \ {v} PROVE WaitedFor(v, u)'
    <3>1. WaitedFor(v, u) /\ (Older(u, v)' => Older(u, v))
      BY <2>1, <2>3 DEF GraceInv, Older, Reading, SectionLocs
    <3>2. QED
      BY <2>1, <2>3, <3>1 DEF WaitedFor
  <2>6. ASSUME NEW u \in Threads \ {t} PROVE WaitedFor(t, u)'
    <3>1. SUFFICES ASSUME Older(u, t)'
                   PROVE  /\ pc'[t] = "q_wait"
                          /\ u >= iter'[t] /\ q_threads'[t][u] = run_counter[u]
      BY <2>1, <2>3 DEF WaitedFor
    <3>2. Older(u, t) /\ IsOdd(run_counter[u])
      BY <2>1, <2>3, <3>1 DEF GraceInv, CounterOdd, Older, Reading, SectionLocs
    <3>3. u >= iter[t] /\ q_threads[t][u] = run_counter[u]
      BY <2>1, <3>2 DEF GraceInv, WaitedFor
    <3>4. ~IsQuiescent(t, u)
      BY <1>0, <3>2, <3>3, Parity DEF IsQuiescent, Older
    <3>5. u # iter[t] /\ u \in Nat /\ iter[t] \in Nat
      BY <1>0, <1>23, <3>4, ThreadsAssumption DEF rlu_wait_for_quiescence, Threads
    <3>6. ~(u <= iter[t])
      BY <3>3, <3>5
    <3>7. q_threads'[t][u] = run_counter[u]
      BY <2>3, <3>3, <3>5
    <3>8. /\ pc' = [pc EXCEPT ![t] = "q_wait"]
          /\ iter'[t] \in Threads /\ ~(u < iter'[t])
      BY <1>0, <2>1, <2>2, <3>6, ScanNext
    <3>9. iter'[t] \in Nat
      BY <3>8, ThreadsAssumption DEF Threads
    <3>10. u >= iter'[t]
      BY <3>5, <3>8, <3>9
    <3>11. QED
      BY <1>0, <3>7, <3>8, <3>10
  <2>7. QED
    BY <2>4, <2>5, <2>6 DEF GraceInv
<1>24. CASE UNCHANGED vars
  <2>1. ASSUME NEW v \in Threads
        PROVE  CounterOdd(v)' /\ VersionBound(v)' /\ ScanIndex(v)'
    BY <1>24 DEF vars, globals, versions, loops, GraceInv, CounterOdd, VersionBound,
                 ScanIndex, Reading
  <2>2. ASSUME NEW v \in Threads, NEW u \in Threads \ {v} PROVE WaitedFor(v, u)'
    BY <1>24 DEF vars, globals, versions, loops, GraceInv, WaitedFor, Older, Reading
  <2>3. QED
    BY <2>1, <2>2 DEF GraceInv
<1>25. QED
  BY <1>1, <1>2, <1>3, <1>4, <1>5, <1>6, <1>7, <1>8, <1>9, <1>10, <1>11, <1>12,
     <1>13, <1>14, <1>15, <1>16, <1>17, <1>18, <1>19, <1>20, <1>21, <1>22, <1>23,
     <1>24
     DEF Next, Terminated, ThreadStep, EnterSection, LeaveSection, Sync

\* Whatever the number of threads, and however their sections and syncs
\* interleave, a thread writes back only when no other thread is in a section
\* that began before the thread's version was drawn.
THEOREM GracePeriodHolds == Spec => []GracePeriod
<1>1. Init => TypeOK /\ GraceInv
  BY InitTypeOK, InitGraceInv
<1>2. TypeOK /\ GraceInv /\ [Next]_vars => (TypeOK /\ GraceInv)'
  BY StepTypeOK, StepGraceInv
<1>3. TypeOK /\ GraceInv => GracePeriod
  BY GraceInvImpliesGracePeriod
<1>4. QED
  BY <1>1, <1>2, <1>3, PTL DEF Spec
==============================================================================
