---------------------------- MODULE MVRLU_proofs ----------------------------
(***************************************************************************)
(* Theorems about MV-RLU, for every number of threads, objects, sections   *)
(* and write sets.                                                         *)
(***************************************************************************)
EXTENDS MVRLU, TLAPS

ReclaimLocs == {"try_reclaim", "scan", "detach"}

(***************************************************************************)
(* Types of clocks, counters and control, which do not depend on the logs. *)
(***************************************************************************)
ReturnLocs == {"idle", "capacity", "flush", "low_mark", "leave"}

QpState == [qp_clk : Nat, need_reclaim : BOOLEAN, reclaim_done : BOOLEAN, todo : SUBSET Threads,
            run_cnt : [Threads -> Nat], log : Threads \union {NULL}, final : Nat]

ControlTypes ==
  /\ g_wrt_clk \in Nat
  /\ plan \in Plans
  /\ cur_wrt_set \in [Threads -> BOOLEAN]
  /\ qp_clk1 \in [Threads -> Nat] /\ qp_clk2 \in [Threads -> Nat]
  /\ need_reclaim \in [Threads -> BOOLEAN]
  /\ reclaim_lock \in [Threads -> Actors \union {NULL}]
  /\ run_cnt \in [Threads -> Nat] /\ local_clk \in [Threads -> Nat]
  /\ qp \in QpState
  /\ live \subseteq Threads /\ zombies \subseteq Threads \ live

Places ==
  /\ pc \in [Actors -> Locs \union QpLocs]
  /\ ret \in [Actors -> ReturnLocs \union {"reaped", "help"}]
  /\ \A t \in Threads : pc[t] \in Locs /\ ret[t] \in ReturnLocs
  /\ pc[QP] \in QpLocs
  /\ pc[QP] \in ReclaimLocs => ret[QP] \in {"reaped", "help"}
  /\ pc[QP] \in ReclaimLocs \union {"reaped"} => qp.log \in Threads

\* At first, clocks, counters and control have their types.
LEMMA InitControl == Init => ControlTypes /\ Places
<1> SUFFICES ASSUME Init PROVE ControlTypes /\ Places
  OBVIOUS
<1>1. NoRunCnt \in [Threads -> Nat]
  BY DEF NoRunCnt
<1>2. ControlTypes
  BY <1>1 DEF Init, ControlTypes, QpState
<1>3. Places
  BY ActorsAssumption DEF Init, Places, Locs, QpLocs, ReturnLocs, Actors, ReclaimLocs
<1>4. QED
  BY <1>2, <1>3

\* Waking QP changes nothing of it but need_reclaim.
LEMMA WakeQpType ==
  ASSUME qp \in QpState, WakeQp
  PROVE  /\ qp' \in QpState
         /\ qp'.log = qp.log /\ qp'.qp_clk = qp.qp_clk /\ qp'.run_cnt = qp.run_cnt
         /\ qp'.final = qp.final
BY DEF WakeQp, QpState

\* What a step that leaves clocks, counters and lists alone keeps of them.
ControlVars ==
  <<g_wrt_clk, plan, cur_wrt_set, qp_clk1, qp_clk2, need_reclaim, reclaim_lock, run_cnt, local_clk,
    qp, live, zombies>>
LEMMA FrameControl ==
  ASSUME ControlTypes, UNCHANGED ControlVars
  PROVE  ControlTypes'
BY DEF ControlTypes, ControlVars

\* A step that leaves control alone, or moves one actor between two places of
\* its own, keeps everybody's place.
LEMMA FramePlaces ==
  ASSUME Places, UNCHANGED <<pc, ret, qp>>
  PROVE  Places'
BY DEF Places

LEMMA ThreadMoves ==
  ASSUME Places, NEW t \in Threads, NEW loc \in Locs, pc' = [pc EXCEPT ![t] = loc],
         UNCHANGED <<ret, qp>>
  PROVE  Places'
BY ActorsAssumption DEF Places, Actors

LEMMA QpMoves ==
  ASSUME Places, NEW loc \in ReclaimLocs, pc[QP] \in ReclaimLocs, pc' = [pc EXCEPT ![QP] = loc],
         UNCHANGED <<ret, qp>>
  PROVE  Places'
<1>1. loc \in QpLocs
  BY DEF ReclaimLocs, QpLocs
<1>2. QED
  BY <1>1, ActorsAssumption DEF Places, Actors

\* A thread keeps the types of clocks, counters and control.
LEMMA ThreadControl ==
  ASSUME ControlTypes, Places, NEW t \in Threads, ThreadStep(t)
  PROVE  ControlTypes' /\ Places'
<1> USE ActorsAssumption DEF Actors
<1> USE DEF objects, logs, clocks, reclaim, section, control, lists
<1> USE DEF Locs, SectionLocs, ReturnLocs, QpLocs, ReclaimLocs, LogOf, Goto, CallReclaim
<1>1. CASE TryReclaimLock(t)
  BY <1>1 DEF TryReclaimLock, ControlTypes, Places
<1>2. CASE ReclaimWrtSet(t)
  <2>1. UNCHANGED ControlVars /\ UNCHANGED <<pc, ret, qp>>
    BY <1>2 DEF ReclaimWrtSet, ControlVars
  <2>2. QED
    BY ONLY ControlTypes, Places, <2>1, FrameControl, FramePlaces
<1>3. CASE WriteBackCopy(t)
  <2>1. UNCHANGED ControlVars /\ UNCHANGED <<ret, qp>>
    BY <1>3 DEF WriteBackCopy, ControlVars
  <2>2. pc' = pc \/ pc' = [pc EXCEPT ![t] = "detach"]
    BY <1>3 DEF WriteBackCopy
  <2>3. Places'
    BY <2>1, <2>2, FramePlaces, ThreadMoves
  <2>4. QED
    BY ONLY ControlTypes, <2>1, <2>3, FrameControl
<1>4. CASE try_detach_obj(t)
  <2>1. ControlTypes'
    BY <1>4 DEF try_detach_obj, ControlTypes
  <2>2. Places'
    BY <1>4 DEF try_detach_obj, Places, ControlTypes
  <2>3. QED
    BY <2>1, <2>2
<1>5. CASE EndScan(t)
  <2>1. ControlTypes'
    BY <1>5 DEF EndScan, ControlTypes
  <2>2. Places'
    BY <1>5 DEF EndScan, Places, ControlTypes
  <2>3. QED
    BY <2>1, <2>2
<1>6. CASE mvrlu_reader_lock(t)
  <2>1. ControlTypes'
    BY <1>6 DEF mvrlu_reader_lock, StartSection, ControlTypes
  <2>2. Places'
    BY <1>6 DEF mvrlu_reader_lock, StartSection, Places, ControlTypes
  <2>3. QED
    BY <2>1, <2>2
<1>7. CASE log_reclaim_force(t)
  <2>1. ControlTypes'
    BY <1>7, WakeQpType DEF log_reclaim_force, ControlTypes
  <2>2. Places'
    BY <1>7, WakeQpType DEF log_reclaim_force, Places, ControlTypes
  <2>3. QED
    BY <2>1, <2>2
<1>8. CASE ForceWait(t)
  BY <1>8, WakeQpType DEF ForceWait, ControlTypes, Places
<1>9. CASE BelowHighMark(t)
  BY <1>9 DEF BelowHighMark, StartSection, ControlTypes, Places
<1>10. CASE ReadClock(t)
  <2>1. ControlTypes'
    BY <1>10 DEF ReadClock, ControlTypes
  <2>2. Places'
    BY <1>10 DEF ReadClock, Places, ControlTypes
  <2>3. QED
    BY <2>1, <2>2
<1>11. CASE DerefWalk(t)
  <2>1. UNCHANGED ControlVars /\ UNCHANGED <<ret, qp>>
    BY <1>11 DEF DerefWalk, ControlVars
  <2>2. pc' = pc \/ pc' = [pc EXCEPT ![t] = "section"]
    BY <1>11 DEF DerefWalk
  <2>3. Places'
    BY <2>1, <2>2, FramePlaces, ThreadMoves
  <2>4. QED
    BY ONLY ControlTypes, <2>1, <2>3, FrameControl
<1>12. CASE TryLockCas(t)
  <2>1. ControlTypes'
    BY <1>12 DEF TryLockCas, ControlTypes
  <2>2. Places'
    <3>1. ret' = ret /\ qp' = qp
      BY <1>12 DEF TryLockCas
    <3>2. pc' = pc \/ \E loc \in {"section", "failed"} : pc' = [pc EXCEPT ![t] = loc]
      BY <1>12 DEF TryLockCas
    <3>3. QED
      BY <3>1, <3>2 DEF Places
  <2>3. QED
    BY <2>1, <2>2
<1>13. ASSUME NEW o \in Objects, DerefHead(t, o) PROVE ControlTypes' /\ Places'
  <2>1. UNCHANGED ControlVars /\ UNCHANGED <<ret, qp>>
    BY <1>13 DEF DerefHead, ControlVars
  <2>2. pc' = pc \/ pc' = [pc EXCEPT ![t] = "walk"]
    BY <1>13 DEF DerefHead
  <2>3. Places'
    BY <2>1, <2>2, FramePlaces, ThreadMoves
  <2>4. QED
    BY ONLY ControlTypes, <2>1, <2>3, FrameControl
<1>14. ASSUME NEW o \in Objects, TryLockRead(t, o) PROVE ControlTypes' /\ Places'
  <2>1. ControlTypes'
    BY <1>14 DEF TryLockRead, ControlTypes
  <2>2. Places'
    <3>1. ret' = ret /\ qp' = qp
      BY <1>14 DEF TryLockRead
    <3>2. pc' = pc \/ \E loc \in {"lock", "failed"} : pc' = [pc EXCEPT ![t] = loc]
      BY <1>14 DEF TryLockRead
    <3>3. QED
      BY <3>1, <3>2 DEF Places
  <2>3. QED
    BY <2>1, <2>2
<1>15. ASSUME NEW o \in Objects, mvrlu_free(t, o) PROVE ControlTypes' /\ Places'
  BY <1>15 DEF mvrlu_free, ControlTypes, Places
<1>16. CASE mvrlu_reader_unlock(t)
  <2>1. ControlTypes'
    BY <1>16, WakeQpType DEF mvrlu_reader_unlock, AfterSection, EndSection, ControlTypes
  <2>2. Places'
    BY <1>16, WakeQpType DEF mvrlu_reader_unlock, AfterSection, EndSection, Places, ControlTypes
  <2>3. QED
    BY <2>1, <2>2
<1>17. CASE MoveCopy(t)
  <2>1. ControlTypes'
    BY <1>17 DEF MoveCopy, ControlTypes
  <2>2. Places'
    <3>1. ret' = ret /\ qp' = qp
      BY <1>17 DEF MoveCopy
    <3>2. pc' = pc \/ \E loc \in {"move", "cas"} : pc' = [pc EXCEPT ![t] = loc]
      BY <1>17 DEF MoveCopy
    <3>3. QED
      BY <3>1, <3>2 DEF Places
  <2>3. QED
    BY <2>1, <2>2
<1>18. CASE MoveCas(t)
  BY <1>18 DEF MoveCas, ControlTypes, Places
<1>19. CASE LoadClock(t)
  BY <1>19 DEF LoadClock, ControlTypes, Places
<1>20. CASE StoreClock(t)
  BY <1>20 DEF StoreClock, ControlTypes, Places
<1>21. CASE AdvanceClock(t)
  BY <1>21 DEF AdvanceClock, ControlTypes, Places
<1>22. CASE ws_unlock(t)
  <2>1. ControlTypes'
    BY <1>22, WakeQpType DEF ws_unlock, AfterSection, CheckLowMark, ControlTypes
  <2>2. Places'
    BY <1>22, WakeQpType DEF ws_unlock, AfterSection, CheckLowMark, Places, ControlTypes
  <2>3. QED
    BY <2>1, <2>2
<1>23. CASE AfterReclaim(t)
  <2>1. ControlTypes'
    BY <1>23, WakeQpType DEF AfterReclaim, CheckLowMark, ControlTypes
  <2>2. Places'
    BY <1>23, WakeQpType DEF AfterReclaim, CheckLowMark, Places, ControlTypes
  <2>3. QED
    BY <2>1, <2>2
<1>24. CASE mvrlu_abort(t)
  BY <1>24 DEF mvrlu_abort, EndSection, ControlTypes, Places
<1>25. CASE log_abort(t)
  <2>1. cur_wrt_set' \in [Threads -> BOOLEAN]
    BY <1>25 DEF log_abort, ControlTypes
  <2>2. ControlTypes'
    BY <1>25, <2>1 DEF log_abort, ControlTypes
  <2>3. \/ pc' = [pc EXCEPT ![t] = "try_reclaim"] /\ ret' = [ret EXCEPT ![t] = "idle"]
        \/ pc' = [pc EXCEPT ![t] = "idle"] /\ ret' = ret
    BY <1>25 DEF log_abort, AfterSection
  <2>4. qp' = qp
    BY <1>25 DEF log_abort
  <2>5. Places'
    BY <2>3, <2>4 DEF Places
  <2>6. QED
    BY <2>2, <2>5
<1>26. CASE mvrlu_flush_log(t)
  BY <1>26 DEF mvrlu_flush_log, ControlTypes, Places
<1>27. CASE mvrlu_thread_finish(t)
  BY <1>27 DEF mvrlu_thread_finish, ControlTypes, Places
<1>28. CASE LeaveLists(t)
  BY <1>28 DEF LeaveLists, LiveWithout, ControlTypes, Places
<1>29. QED
  BY <1>1, <1>2, <1>3, <1>4, <1>5, <1>6, <1>7, <1>8, <1>9, <1>10, <1>11, <1>12, <1>13, <1>14,
     <1>15, <1>16, <1>17, <1>18, <1>19, <1>20, <1>21, <1>22, <1>23, <1>24, <1>25, <1>26, <1>27,
     <1>28 DEF ThreadStep, log_reclaim

\* So does QP.
LEMMA QpControl ==
  ASSUME ControlTypes, Places, QpStep
  PROVE  ControlTypes' /\ Places'
<1> USE ActorsAssumption DEF Actors
<1> USE DEF objects, logs, clocks, reclaim, section, control, lists
<1> USE DEF Locs, SectionLocs, ReturnLocs, QpLocs, ReclaimLocs, LogOf, Goto, CallReclaim
<1>1. CASE TryReclaimLock(QP)
  <2>1. ControlTypes'
    BY <1>1 DEF TryReclaimLock, ControlTypes, Places
  <2>2. Places'
    BY <1>1 DEF TryReclaimLock, Places
  <2>3. QED
    BY <2>1, <2>2
<1>2. CASE ReclaimWrtSet(QP)
  <2>1. UNCHANGED ControlVars /\ UNCHANGED <<pc, ret, qp>>
    BY <1>2 DEF ReclaimWrtSet, ControlVars
  <2>2. QED
    BY ONLY ControlTypes, Places, <2>1, FrameControl, FramePlaces
<1>3. CASE WriteBackCopy(QP)
  <2>1. UNCHANGED ControlVars /\ UNCHANGED <<ret, qp>>
    BY <1>3 DEF WriteBackCopy, ControlVars
  <2>2. pc[QP] \in ReclaimLocs /\ (pc' = pc \/ pc' = [pc EXCEPT ![QP] = "detach"])
    BY <1>3 DEF WriteBackCopy
  <2>3. Places'
    BY <2>1, <2>2, FramePlaces, QpMoves
  <2>4. QED
    BY ONLY ControlTypes, <2>1, <2>3, FrameControl
<1>4. CASE try_detach_obj(QP)
  <2>1. ControlTypes'
    BY <1>4 DEF try_detach_obj, ControlTypes
  <2>2. Places'
    BY <1>4 DEF try_detach_obj, Places
  <2>3. QED
    BY <2>1, <2>2
<1>5. CASE EndScan(QP)
  <2>1. ControlTypes'
    BY <1>5 DEF EndScan, ControlTypes, Places
  <2>2. Places'
    BY <1>5 DEF EndScan, Places
  <2>3. QED
    BY <2>1, <2>2
<1>6. CASE QpReadClock
  <2>1. qp' \in QpState
    BY <1>6 DEF QpReadClock, ControlTypes, QpState
  <2>2. QED
    BY <1>6, <2>1 DEF QpReadClock, ControlTypes, Places
<1>7. CASE qp_init
  <2>1. qp' \in QpState
    BY <1>7 DEF qp_init, ControlTypes, QpState
  <2>2. QED
    BY <1>7, <2>1 DEF qp_init, ControlTypes, Places
<1>8. CASE qp_wait
  <2>1. qp' \in QpState
    BY <1>8 DEF qp_wait, ControlTypes, QpState, NoRunCnt
  <2>2. QED
    BY <1>8, <2>1 DEF qp_wait, ControlTypes, Places
<1>9. CASE QpReaped
  <2>1. qp' \in QpState
    BY <1>9 DEF QpReaped, ControlTypes, QpState
  <2>2. QED
    BY <1>9, <2>1 DEF QpReaped, ControlTypes, Places
<1>10. CASE QpReapDone
  <2>1. qp' \in QpState
    BY <1>10 DEF QpReapDone, ControlTypes, QpState
  <2>2. QED
    BY <1>10, <2>1 DEF QpReapDone, ControlTypes, Places
<1>11. CASE QpCheck
  <2>1. qp' \in QpState
    BY <1>11 DEF QpCheck, ControlTypes, QpState
  <2>2. QED
    BY <1>11, <2>1 DEF QpCheck, ControlTypes, Places
<1>12. CASE QpTrigger
  <2>1. qp' \in QpState
    <3>1. \/ qp' = [qp EXCEPT !.reclaim_done = FALSE, !.qp_clk = 0]
          \/ qp' = [qp EXCEPT !.qp_clk = 0]
      BY <1>12 DEF QpTrigger
    <3>2. qp \in QpState
      BY DEF ControlTypes
    <3>3. CASE qp' = [qp EXCEPT !.reclaim_done = FALSE, !.qp_clk = 0]
      BY <3>2, <3>3 DEF QpState
    <3>4. CASE qp' = [qp EXCEPT !.qp_clk = 0]
      BY <3>2, <3>4 DEF QpState
    <3>5. QED
      BY <3>1, <3>3, <3>4
  <2>2. /\ qp_clk1' \in [Threads -> Nat] /\ qp_clk2' \in [Threads -> Nat]
        /\ need_reclaim' \in [Threads -> BOOLEAN]
    BY <1>12 DEF QpTrigger, UpdateClocks, ControlTypes, QpState
  <2>3. ControlTypes'
    BY <1>12, <2>1, <2>2 DEF QpTrigger, ControlTypes
  <2>4. Places'
    BY <1>12 DEF QpTrigger, Places
  <2>5. QED
    BY <2>3, <2>4
<1>13. CASE QpStop
  <2>1. qp' \in QpState
    <3>1. \/ qp' = [qp EXCEPT !.qp_clk = g_wrt_clk, !.final = @ + 1, !.todo = zombies]
          \/ qp' = qp
      BY <1>13 DEF QpStop
    <3>2. qp \in QpState /\ zombies \subseteq Threads /\ g_wrt_clk \in Nat
      BY DEF ControlTypes
    <3>3. CASE qp' = [qp EXCEPT !.qp_clk = g_wrt_clk, !.final = @ + 1, !.todo = zombies]
      <4>1. qp.final + 1 \in Nat /\ zombies \in SUBSET Threads
        BY <3>2 DEF QpState
      <4>2. QED
        BY <3>2, <3>3, <4>1 DEF QpState
    <3>4. QED
      BY <3>1, <3>2, <3>3
  <2>2. ControlTypes'
    BY <1>13, <2>1 DEF QpStop, ControlTypes
  <2>3. Places'
    BY <1>13 DEF QpStop, Places
  <2>4. QED
    BY <2>2, <2>3
<1>14. ASSUME NEW t \in Threads, QpReap(t) PROVE ControlTypes' /\ Places'
  <2>0. qp \in QpState /\ qp' = [qp EXCEPT !.log = t, !.todo = @ \ {t}]
    BY <1>14 DEF QpReap, ControlTypes
  <2>1. qp' \in QpState /\ qp'.log = t
    BY <2>0 DEF QpState
  <2>2. /\ qp_clk1' \in [Threads -> Nat] /\ qp_clk2' \in [Threads -> Nat]
        /\ need_reclaim' \in [Threads -> BOOLEAN]
    BY <1>14 DEF QpReap, UpdateClocks, ControlTypes, QpState
  <2>3. ControlTypes'
    BY <1>14, <2>1, <2>2 DEF QpReap, ControlTypes
  <2>4. Places'
    BY <1>14, <2>1 DEF QpReap, Places
  <2>5. QED
    BY <2>3, <2>4
<1>15. ASSUME NEW t \in Threads, QpHelp(t) PROVE ControlTypes' /\ Places'
  <2>0. qp \in QpState /\ qp' = [qp EXCEPT !.log = t, !.todo = @ \ {t}]
    BY <1>15 DEF QpHelp, ControlTypes
  <2>1. qp' \in QpState /\ qp'.log = t
    BY <2>0 DEF QpState
  <2>2. ControlTypes'
    BY <1>15, <2>1 DEF QpHelp, ControlTypes
  <2>3. Places'
    BY <1>15, <2>1 DEF QpHelp, Places
  <2>4. QED
    BY <2>2, <2>3
<1>16. QED
  BY <1>1, <1>2, <1>3, <1>4, <1>5, <1>6, <1>7, <1>8, <1>9, <1>10, <1>11, <1>12, <1>13, <1>14,
     <1>15 DEF QpStep, log_reclaim

\* So does every step.
LEMMA StepControl ==
  ControlTypes /\ Places /\ [Next]_vars => ControlTypes' /\ Places'
<1>1. ASSUME ControlTypes, Places, UNCHANGED vars PROVE ControlTypes' /\ Places'
  BY <1>1 DEF vars, ControlTypes, Places, objects, logs, clocks, reclaim, section, control, lists
<1>2. QED
  BY <1>1, ThreadControl, QpControl DEF Next, Terminating

(***************************************************************************)
(* Clocks and sections.                                                    *)
(***************************************************************************)

\* What a step of a thread does to the counters and clocks of the sections.
SectionGoesOn(t) ==
  /\ run_cnt' = run_cnt /\ local_clk' = local_clk
  /\ pc'[t] = "read_clock" <=> pc[t] = "read_clock"
  /\ pc'[t] \in SectionLocs <=> pc[t] \in SectionLocs
Starts(t) ==
  /\ run_cnt' = [run_cnt EXCEPT ![t] = @ + 1] /\ local_clk' = local_clk
  /\ pc[t] \notin SectionLocs \union {"read_clock"} /\ pc'[t] = "read_clock"
Ends(t) ==
  /\ run_cnt' = [run_cnt EXCEPT ![t] = @ + 1] /\ local_clk' = local_clk
  /\ pc[t] \in SectionLocs /\ pc'[t] \notin SectionLocs \union {"read_clock"}
ReadsClock(t) ==
  /\ run_cnt' = run_cnt /\ local_clk' = [local_clk EXCEPT ![t] = g_wrt_clk]
  /\ pc[t] = "read_clock" /\ pc'[t] = "section" /\ g_wrt_clk' = g_wrt_clk

SectionEffect(t) ==
  /\ SectionGoesOn(t) \/ Starts(t) \/ Ends(t) \/ ReadsClock(t)
  /\ pc[t] # "finished"
  /\ \A a \in Actors : a # t => pc'[a] = pc[a]
  /\ g_wrt_clk' \in {g_wrt_clk, g_wrt_clk + 1}
  /\ qp_clk1' = qp_clk1 /\ qp_clk2' = qp_clk2
  /\ qp'.qp_clk = qp.qp_clk /\ qp'.run_cnt = qp.run_cnt /\ qp'.final = qp.final
  /\ live' = live \/ (live' = live \ {t} /\ pc'[t] = "finished")

\* Each action of a thread starts a section, reads its clock, ends it or goes on.
LEMMA ThreadEffect ==
  ASSUME ControlTypes, Places, NEW t \in Threads, ThreadStep(t)
  PROVE  SectionEffect(t)
<1> USE ActorsAssumption DEF Actors
<1> USE DEF objects, logs, clocks, reclaim, section, control, lists
<1> USE DEF SectionLocs, ReturnLocs, LogOf, Goto, CallReclaim
<1> USE DEF SectionEffect, SectionGoesOn, Starts, Ends, ReadsClock
<1>0. /\ t \in Actors /\ pc \in [Actors -> Locs \union QpLocs] /\ ret[t] \in ReturnLocs
      /\ qp \in QpState /\ g_wrt_clk \in Nat
  BY DEF Places, ControlTypes
<1>1. CASE TryReclaimLock(t)
  BY <1>0, <1>1 DEF TryReclaimLock
<1>2. CASE ReclaimWrtSet(t)
  BY <1>0, <1>2 DEF ReclaimWrtSet
<1>3. CASE WriteBackCopy(t)
  BY <1>0, <1>3 DEF WriteBackCopy
<1>4. CASE try_detach_obj(t)
  BY <1>0, <1>4 DEF try_detach_obj
<1>5. CASE EndScan(t)
  BY <1>0, <1>5 DEF EndScan
<1>6. CASE mvrlu_reader_lock(t)
  BY <1>0, <1>6 DEF mvrlu_reader_lock, StartSection
<1>7. CASE log_reclaim_force(t)
  BY <1>0, <1>7, WakeQpType DEF log_reclaim_force
<1>8. CASE ForceWait(t)
  BY <1>0, <1>8, WakeQpType DEF ForceWait
<1>9. CASE BelowHighMark(t)
  BY <1>0, <1>9 DEF BelowHighMark, StartSection
<1>10. CASE ReadClock(t)
  BY <1>0, <1>10 DEF ReadClock
<1>11. CASE DerefWalk(t)
  BY <1>0, <1>11 DEF DerefWalk
<1>12. CASE TryLockCas(t)
  BY <1>0, <1>12 DEF TryLockCas
<1>13. ASSUME NEW o \in Objects, DerefHead(t, o) PROVE SectionEffect(t)
  BY <1>0, <1>13 DEF DerefHead
<1>14. ASSUME NEW o \in Objects, TryLockRead(t, o) PROVE SectionEffect(t)
  BY <1>0, <1>14 DEF TryLockRead
<1>15. ASSUME NEW o \in Objects, mvrlu_free(t, o) PROVE SectionEffect(t)
  BY <1>0, <1>15 DEF mvrlu_free
<1>16. CASE mvrlu_reader_unlock(t)
  BY <1>0, <1>16, WakeQpType DEF mvrlu_reader_unlock, EndSection, AfterSection
<1>17. CASE MoveCopy(t)
  BY <1>0, <1>17 DEF MoveCopy
<1>18. CASE MoveCas(t)
  BY <1>0, <1>18 DEF MoveCas
<1>19. CASE LoadClock(t)
  BY <1>0, <1>19 DEF LoadClock
<1>20. CASE StoreClock(t)
  BY <1>0, <1>20 DEF StoreClock
<1>21. CASE AdvanceClock(t)
  BY <1>0, <1>21 DEF AdvanceClock
<1>22. CASE ws_unlock(t)
  BY <1>0, <1>22, WakeQpType DEF ws_unlock, AfterSection, CheckLowMark
<1>23. CASE AfterReclaim(t)
  BY <1>0, <1>23, WakeQpType DEF AfterReclaim, CheckLowMark
<1>24. CASE mvrlu_abort(t)
  BY <1>0, <1>24 DEF mvrlu_abort, EndSection
<1>25. CASE log_abort(t)
  BY <1>0, <1>25 DEF log_abort, AfterSection
<1>26. CASE mvrlu_flush_log(t)
  BY <1>0, <1>26 DEF mvrlu_flush_log, NoMoreSections
<1>27. CASE mvrlu_thread_finish(t)
  BY <1>0, <1>27 DEF mvrlu_thread_finish, NoMoreSections
<1>28. CASE LeaveLists(t)
  BY <1>0, <1>28 DEF LeaveLists, LiveWithout
<1>29. QED
  BY <1>1, <1>2, <1>3, <1>4, <1>5, <1>6, <1>7, <1>8, <1>9, <1>10, <1>11, <1>12, <1>13, <1>14,
     <1>15, <1>16, <1>17, <1>18, <1>19, <1>20, <1>21, <1>22, <1>23, <1>24, <1>25, <1>26,
     <1>27, <1>28 DEF ThreadStep, log_reclaim

\* The parity of run_cnt, and the clocks.  QP has passed a clock when every
\* running section that has read its clock is not behind it: on the way there,
\* qp_wait waits for the sections whose run_cnt it remembers, and only for them.
ParityInv == \A t \in Threads : IsRunning(t) <=> pc[t] \in SectionLocs \union {"read_clock"}

GoneInv ==
  /\ \A t \in Threads \ live : pc[t] = "finished"
  /\ qp.final # 0 \/ pc[QP] = "final" => live = {}

ClockBounds ==
  /\ qp.qp_clk <= g_wrt_clk
  /\ \A t \in Threads : /\ local_clk[t] <= g_wrt_clk
                        /\ qp_clk1[t] <= g_wrt_clk /\ qp_clk2[t] <= g_wrt_clk

Behind(t) == pc[t] \in SectionLocs /\ local_clk[t] < qp.qp_clk

PassedInv ==
  /\ \A t, l \in Threads : pc[t] \in SectionLocs => qp_clk1[l] <= local_clk[t]
  /\ pc[QP] \notin {"detect", "qp_init", "qp_wait", "finished"} => \A t \in Threads : ~Behind(t)
  /\ pc[QP] = "qp_wait" =>
       \A t \in Threads : Behind(t) => qp.run_cnt[t] # 0 /\ qp.run_cnt[t] = run_cnt[t]

QpInv == ControlTypes /\ Places /\ ParityInv /\ GoneInv /\ ClockBounds /\ PassedInv

\* run_cnt is odd in a section: one more turns that round.
LEMMA Parity ==
  ASSUME NEW n \in Nat
  PROVE  (n + 1) % 2 = 1 <=> n % 2 # 1
OBVIOUS

\* At first no section runs, and all clocks are 0.
LEMMA InitQp == Init => QpInv
<1> SUFFICES ASSUME Init PROVE QpInv
  OBVIOUS
<1>1. ControlTypes /\ Places
  BY InitControl
<1>2. ParityInv
  BY ActorsAssumption DEF Init, ParityInv, IsRunning, SectionLocs, Actors
<1>3. GoneInv
  BY ActorsAssumption DEF Init, GoneInv, Actors
<1>4. ClockBounds
  BY DEF Init, ClockBounds
<1>5. PassedInv
  BY ActorsAssumption DEF Init, PassedInv, SectionLocs, Actors
<1>6. QED
  BY <1>1, <1>2, <1>3, <1>4, <1>5 DEF QpInv

\* A thread does not get behind a clock that QP has found quiescent.
LEMMA ThreadQp ==
  ASSUME QpInv, NEW t \in Threads, ThreadStep(t)
  PROVE  QpInv'
<1>0. ControlTypes /\ Places /\ ParityInv /\ GoneInv /\ ClockBounds /\ PassedInv
  BY DEF QpInv
<1>1. SectionEffect(t)
  BY <1>0, ThreadEffect
<1>2. ControlTypes' /\ Places'
  BY <1>0, ThreadControl
<1>3. /\ t \in Actors /\ QP \in Actors /\ t # QP
      /\ \A u \in Threads : u # t => pc'[u] = pc[u]
      /\ pc'[QP] = pc[QP]
  BY <1>1, ActorsAssumption DEF Actors, SectionEffect
<1>4. /\ \A u \in Threads : u # t => run_cnt'[u] = run_cnt[u] /\ local_clk'[u] = local_clk[u]
      /\ run_cnt \in [Threads -> Nat] /\ local_clk \in [Threads -> Nat] /\ g_wrt_clk \in Nat
      /\ qp_clk1 \in [Threads -> Nat] /\ qp_clk2 \in [Threads -> Nat] /\ qp.qp_clk \in Nat
  BY <1>0, <1>1 DEF SectionEffect, SectionGoesOn, Starts, Ends, ReadsClock, ControlTypes, QpState
<1>5. ParityInv'
  <2>1. ASSUME NEW u \in Threads, u # t
        PROVE  (IsRunning(u) <=> pc[u] \in SectionLocs \union {"read_clock"})'
    BY <1>0, <1>3, <1>4, <2>1 DEF ParityInv, IsRunning
  <2>2. CASE run_cnt' = run_cnt
    BY <1>0, <1>1, <2>1, <2>2 DEF ParityInv, IsRunning, SectionEffect, SectionGoesOn, ReadsClock,
       Starts, Ends, ControlTypes, SectionLocs
  <2>3. CASE Starts(t) \/ Ends(t)
    <3>1. run_cnt'[t] = run_cnt[t] + 1
      BY <1>4, <2>3 DEF Starts, Ends
    <3>2. run_cnt'[t] % 2 = 1 <=> run_cnt[t] % 2 # 1
      BY <1>4, <3>1, Parity
    <3>3. QED
      BY <1>0, <2>1, <2>3, <3>2 DEF ParityInv, IsRunning, Starts, Ends
  <2>4. QED
    BY <1>1, <2>2, <2>3 DEF SectionEffect, SectionGoesOn, ReadsClock
<1>6. GoneInv'
  BY <1>0, <1>1, <1>3 DEF GoneInv, SectionEffect, ControlTypes
<1>7. ClockBounds'
  <2>1. ASSUME NEW u \in Threads PROVE local_clk'[u] <= g_wrt_clk'
    BY <1>0, <1>1, <1>4 DEF ClockBounds, SectionEffect, SectionGoesOn, ReadsClock, Starts, Ends
  <2>2. QED
    BY <1>0, <1>1, <1>4, <2>1 DEF ClockBounds, SectionEffect
<1>8. PassedInv'
  <2>1. ASSUME NEW u \in Threads, pc'[u] \in SectionLocs
        PROVE  \/ u = t /\ ReadsClock(t)
               \/ /\ pc[u] \in SectionLocs /\ local_clk'[u] = local_clk[u]
                  /\ run_cnt'[u] = run_cnt[u]
    <3>1. CASE u # t
      BY <1>3, <1>4, <2>1, <3>1
    <3>2. CASE u = t
      BY <1>1, <2>1, <3>2 DEF SectionEffect, SectionGoesOn, Starts, Ends, SectionLocs
    <3>3. QED
      BY <3>1, <3>2
  <2>2. ReadsClock(t) => local_clk'[t] = g_wrt_clk
    BY <1>4 DEF ReadsClock
  <2>3. QED
    BY <1>0, <1>1, <1>3, <1>4, <2>1, <2>2 DEF PassedInv, Behind, ClockBounds, SectionEffect
<1>9. QED
  BY <1>2, <1>5, <1>6, <1>7, <1>8 DEF QpInv

\* QP leaves sections alone.
LEMMA QpEffect ==
  ASSUME Places, QpStep
  PROVE  /\ run_cnt' = run_cnt /\ local_clk' = local_clk /\ g_wrt_clk' = g_wrt_clk /\ live' = live
         /\ \A t \in Threads : pc'[t] = pc[t]
<1> USE ActorsAssumption DEF Places, Actors
<1> USE DEF objects, logs, clocks, reclaim, section, control, lists, Goto, CallReclaim
<1>1. CASE log_reclaim(QP)
  BY <1>1 DEF log_reclaim, TryReclaimLock, ReclaimWrtSet, WriteBackCopy, try_detach_obj, EndScan
<1>2. CASE QpReadClock \/ qp_init \/ qp_wait \/ QpReaped
  BY <1>2 DEF QpReadClock, qp_init, qp_wait, QpReaped
<1>3. CASE QpReapDone \/ QpCheck \/ QpTrigger \/ QpStop
  BY <1>3 DEF QpReapDone, QpCheck, QpTrigger, QpStop
<1>4. ASSUME NEW t \in Threads, QpReap(t) \/ QpHelp(t)
      PROVE  /\ run_cnt' = run_cnt /\ local_clk' = local_clk /\ g_wrt_clk' = g_wrt_clk
             /\ live' = live /\ \A u \in Threads : pc'[u] = pc[u]
  BY <1>4 DEF QpReap, QpHelp
<1>5. QED
  BY <1>1, <1>2, <1>3, <1>4 DEF QpStep

\* QP hands a clock to the logs only when all sections have passed it.
LEMMA QpQp ==
  ASSUME QpInv, QpStep
  PROVE  QpInv'
<1>0. ControlTypes /\ Places /\ ParityInv /\ GoneInv /\ ClockBounds /\ PassedInv
  BY DEF QpInv
<1>1. ControlTypes' /\ Places'
  BY <1>0, QpControl
<1>2. /\ run_cnt' = run_cnt /\ local_clk' = local_clk /\ g_wrt_clk' = g_wrt_clk /\ live' = live
      /\ \A t \in Threads : pc'[t] = pc[t]
  BY <1>0, QpEffect
<1>3. ParityInv'
  BY <1>0, <1>2 DEF ParityInv, IsRunning
<1>4. \A t \in Threads : pc[t] \in SectionLocs => t \in live /\ IsRunning(t)
  BY <1>0 DEF GoneInv, ParityInv, SectionLocs
<1>5. /\ QP \in Actors /\ pc \in [Actors -> Locs \union QpLocs] /\ qp \in QpState
      /\ run_cnt \in [Threads -> Nat] /\ local_clk \in [Threads -> Nat] /\ g_wrt_clk \in Nat
      /\ qp_clk1 \in [Threads -> Nat] /\ qp_clk2 \in [Threads -> Nat]
      /\ qp.qp_clk \in Nat /\ qp'.qp_clk \in Nat /\ ret[QP] \in ReturnLocs \union {"reaped", "help"}
  BY <1>0, <1>1 DEF ControlTypes, Places, Actors, QpState
<1> DEFINE Rest == /\ (qp'.final # 0 \/ pc'[QP] = "final" => live = {})
                   /\ qp'.qp_clk <= g_wrt_clk
                   /\ \A t \in Threads : qp_clk1'[t] <= g_wrt_clk /\ qp_clk2'[t] <= g_wrt_clk
                   /\ PassedInv'
<1> SUFFICES Rest
  <2>1. Rest => GoneInv' /\ ClockBounds'
    BY <1>0, <1>2 DEF GoneInv, ClockBounds
  <2>2. QED
    BY <1>1, <1>3, <2>1 DEF QpInv
<1> USE DEF objects, logs, clocks, reclaim, section, control, lists, Goto, CallReclaim
<1>6. CASE log_reclaim(QP)
  <2>1. /\ qp' = qp /\ qp_clk1' = qp_clk1 /\ qp_clk2' = qp_clk2
        /\ pc[QP] \in ReclaimLocs
        /\ pc'[QP] \in ReclaimLocs \union {"reaped", "help"}
    BY <1>0, <1>5, <1>6 DEF log_reclaim, TryReclaimLock, ReclaimWrtSet, WriteBackCopy,
       try_detach_obj, EndScan, ReclaimLocs, Places
  <2>2. PassedInv'
    BY <1>0, <1>2, <1>5, <2>1 DEF PassedInv, Behind, ReclaimLocs
  <2>3. QED
    BY <1>0, <2>1, <2>2 DEF GoneInv, ClockBounds, ReclaimLocs
<1>7. CASE QpReadClock
  <2>1. qp' = [qp EXCEPT !.qp_clk = g_wrt_clk] /\ pc'[QP] = "qp_init"
        /\ qp_clk1' = qp_clk1 /\ qp_clk2' = qp_clk2
    BY <1>5, <1>7 DEF QpReadClock
  <2>2. qp'.qp_clk = g_wrt_clk /\ qp'.final = qp.final
    BY <1>5, <2>1 DEF QpState
  <2>3. PassedInv'
    BY <1>0, <1>2, <1>5, <2>1, <2>2 DEF PassedInv, Behind
  <2>4. QED
    BY <1>0, <1>5, <2>1, <2>2, <2>3 DEF GoneInv, ClockBounds
<1>8. CASE qp_init
  <2>1. /\ qp' = [qp EXCEPT !.run_cnt =
               [t \in Threads |-> IF t \in live /\ IsRunning(t) THEN run_cnt[t] ELSE 0]]
        /\ pc'[QP] = "qp_wait" /\ qp_clk1' = qp_clk1 /\ qp_clk2' = qp_clk2
    BY <1>5, <1>8 DEF qp_init
  <2>2. /\ qp'.qp_clk = qp.qp_clk /\ qp'.final = qp.final
        /\ \A t \in Threads : t \in live /\ IsRunning(t) => qp'.run_cnt[t] = run_cnt[t]
    BY <1>5, <2>1 DEF QpState
  <2>3. \A t \in Threads : IsRunning(t) => run_cnt[t] # 0
    BY DEF IsRunning
  <2>4. PassedInv'
    BY <1>0, <1>2, <1>4, <1>5, <2>1, <2>2, <2>3 DEF PassedInv, Behind
  <2>5. QED
    BY <1>0, <2>1, <2>2, <2>4 DEF GoneInv, ClockBounds
<1>9. CASE qp_wait
  <2>1. /\ qp' = [qp EXCEPT !.run_cnt = NoRunCnt,
                             !.todo = IF qp.reclaim_done THEN {} ELSE zombies]
        /\ pc[QP] = "qp_wait" /\ pc'[QP] \in {"may_trigger", "reap"}
        /\ qp_clk1' = qp_clk1 /\ qp_clk2' = qp_clk2
        /\ \A t \in live : Passed(t)
    BY <1>5, <1>9 DEF qp_wait
  <2>2. qp'.qp_clk = qp.qp_clk /\ qp'.final = qp.final
    BY <1>5, <2>1 DEF QpState
  <2>3. \A t \in Threads : ~Behind(t)
    BY <1>0, <1>4, <1>5, <2>1 DEF PassedInv, Passed, Behind
  <2>4. PassedInv'
    BY <1>0, <1>2, <2>1, <2>2, <2>3 DEF PassedInv, Behind
  <2>5. QED
    BY <1>0, <2>1, <2>2, <2>4 DEF GoneInv, ClockBounds
<1>10. CASE QpReaped
  <2>1. /\ qp' = [qp EXCEPT !.log = NULL]
        /\ pc[QP] = "reaped" /\ pc'[QP] = "reap" /\ qp_clk1' = qp_clk1 /\ qp_clk2' = qp_clk2
    BY <1>5, <1>10 DEF QpReaped
  <2>2. qp'.qp_clk = qp.qp_clk /\ qp'.final = qp.final
    BY <1>5, <2>1 DEF QpState
  <2>3. PassedInv'
    BY <1>0, <1>2, <2>1, <2>2 DEF PassedInv, Behind
  <2>4. QED
    BY <1>0, <2>1, <2>2, <2>3 DEF GoneInv, ClockBounds
<1>11. CASE QpReapDone
  <2>1. /\ qp' = [qp EXCEPT !.todo = live]
        /\ pc[QP] = "reap" /\ pc'[QP] = (IF qp.final = 0 THEN "help" ELSE "final")
        /\ qp_clk1' = qp_clk1 /\ qp_clk2' = qp_clk2
    BY <1>5, <1>11 DEF QpReapDone
  <2>2. qp'.qp_clk = qp.qp_clk /\ qp'.final = qp.final
    BY <1>5, <2>1 DEF QpState
  <2>3. PassedInv'
    BY <1>0, <1>2, <2>1, <2>2 DEF PassedInv, Behind
  <2>4. QED
    BY <1>0, <2>1, <2>2, <2>3 DEF GoneInv, ClockBounds
<1>12. CASE QpCheck
  <2>0. PICK done \in BOOLEAN :
        /\ qp' = [qp EXCEPT !.log = NULL, !.todo = {}, !.reclaim_done = done,
                            !.qp_clk = IF done THEN @ ELSE 0, !.need_reclaim = @ /\ ~done]
        /\ pc'[QP] = (IF done THEN "may_trigger" ELSE "detect")
    BY <1>5, <1>12 DEF QpCheck
  <2>1. pc[QP] = "help" /\ qp_clk1' = qp_clk1 /\ qp_clk2' = qp_clk2
    BY <1>12 DEF QpCheck
  <2>2. qp'.qp_clk = (IF done THEN qp.qp_clk ELSE 0) /\ qp'.final = qp.final
    BY <1>5, <2>0 DEF QpState
  <2>3. PassedInv'
    BY <1>0, <1>2, <2>0, <2>1, <2>2 DEF PassedInv, Behind
  <2>4. QED
    BY <1>0, <1>5, <2>0, <2>1, <2>2, <2>3 DEF GoneInv, ClockBounds
<1>13. CASE QpTrigger
  <2>1. /\ pc[QP] = "may_trigger" /\ pc'[QP] = "detect"
        /\ qp'.qp_clk = 0 /\ qp'.final = qp.final
    BY <1>5, <1>13 DEF QpTrigger, QpState
  <2>2. \A t \in Threads : /\ qp_clk1'[t] \in {qp_clk1[t], qp.qp_clk}
                           /\ qp_clk2'[t] \in {qp_clk1[t], qp_clk2[t]}
    BY <1>13 DEF QpTrigger, UpdateClocks
  <2>3. PassedInv'
    BY <1>0, <1>2, <1>5, <2>1, <2>2 DEF PassedInv, Behind
  <2>4. QED
    BY <1>0, <1>5, <2>1, <2>2, <2>3 DEF GoneInv, ClockBounds
<1>14. CASE QpStop
  <2>1. live = {} /\ qp_clk1' = qp_clk1 /\ qp_clk2' = qp_clk2
    BY <1>0, <1>14 DEF QpStop, GoneInv
  <2>2. qp'.qp_clk \in {qp.qp_clk, g_wrt_clk}
    <3>1. \/ qp' = [qp EXCEPT !.qp_clk = g_wrt_clk, !.final = @ + 1, !.todo = zombies]
          \/ qp' = qp
      BY <1>14 DEF QpStop
    <3>2. QED
      BY <1>5, <3>1 DEF QpState
  <2>3. \A t \in Threads : pc'[t] \notin SectionLocs
    BY <1>2, <1>4, <2>1
  <2>4. PassedInv'
    BY <2>3 DEF PassedInv, Behind
  <2>5. QED
    BY <1>0, <1>5, <2>1, <2>2, <2>4 DEF ClockBounds
<1>15. ASSUME NEW t \in Threads, QpReap(t) PROVE Rest
  <2>1. qp' = [qp EXCEPT !.log = t, !.todo = @ \ {t}]
    BY <1>15 DEF QpReap
  <2>2. /\ pc[QP] = "reap" /\ pc'[QP] = "try_reclaim"
    BY <1>5, <1>15 DEF QpReap
  <2>3. qp'.qp_clk = qp.qp_clk /\ qp'.final = qp.final
    BY <1>5, <2>1 DEF QpState
  <2>4. \A u \in Threads : /\ qp_clk1'[u] \in {qp_clk1[u], qp.qp_clk}
                           /\ qp_clk2'[u] \in {qp_clk1[u], qp_clk2[u]}
    BY <1>15 DEF QpReap, UpdateClocks
  <2>5. PassedInv'
    BY <1>0, <1>2, <1>5, <2>2, <2>3, <2>4 DEF PassedInv, Behind
  <2>6. QED
    BY <1>0, <1>5, <2>2, <2>3, <2>4, <2>5 DEF GoneInv, ClockBounds
<1>16. ASSUME NEW t \in Threads, QpHelp(t) PROVE Rest
  <2>1. qp' = [qp EXCEPT !.log = t, !.todo = @ \ {t}]
    BY <1>16 DEF QpHelp
  <2>2. /\ pc[QP] = "help" /\ pc'[QP] = "try_reclaim"
        /\ qp_clk1' = qp_clk1 /\ qp_clk2' = qp_clk2
    BY <1>5, <1>16 DEF QpHelp
  <2>3. qp'.qp_clk = qp.qp_clk /\ qp'.final = qp.final
    BY <1>5, <2>1 DEF QpState
  <2>4. PassedInv'
    BY <1>0, <1>2, <1>5, <2>2, <2>3 DEF PassedInv, Behind
  <2>5. QED
    BY <1>0, <1>5, <2>2, <2>3, <2>4 DEF GoneInv, ClockBounds
<1>17. QED
  BY <1>6, <1>7, <1>8, <1>9, <1>10, <1>11, <1>12, <1>13, <1>14, <1>15, <1>16 DEF QpStep

\* QpInv is inductive.
LEMMA StepQp == QpInv /\ [Next]_vars => QpInv'
<1>1. ASSUME QpInv, UNCHANGED vars PROVE QpInv'
  <2>1. ControlTypes' /\ Places'
    BY <1>1, StepControl DEF QpInv
  <2>2. ParityInv' /\ GoneInv' /\ ClockBounds' /\ PassedInv'
    BY <1>1 DEF QpInv, vars, ParityInv, IsRunning, GoneInv, ClockBounds, PassedInv, Behind, clocks,
       section, control, lists
  <2>3. QED
    BY <2>1, <2>2 DEF QpInv
<1>2. QED
  BY <1>1, ThreadQp, QpQp DEF Next, Terminating

\* No section runs behind a clock that log_reclaim writes copies back by:
\* qp_init and qp_wait let a section pass only once it ended or had read a clock
\* not before the detection's, and sections read g_wrt_clk, which only rises.
THEOREM ClocksAreQuiescent == Spec => []QpClkIsQuiescent
<1>1. QpInv => QpClkIsQuiescent
  <2> SUFFICES ASSUME QpInv, NEW t \in Threads, NEW l \in Threads,
                      IsRunning(t), pc[t] # "read_clock"
               PROVE  local_clk[t] >= qp_clk1[l]
    BY DEF QpClkIsQuiescent
  <2>1. pc[t] \in SectionLocs
    BY DEF QpInv, ParityInv
  <2>2. QED
    BY <2>1 DEF QpInv, PassedInv, ControlTypes
<1>2. QED
  BY <1>1, InitQp, StepQp, PTL DEF Spec

(***************************************************************************)
(* The logs: types, and which copies pointers may name.                    *)
(***************************************************************************)

\* The clock has not reached the clock of write sets that are not committed
\* (ULONG_MAX in mvrlu_i.h).
VersionsFit == g_wrt_clk + 1 < MAX_VERSION

WrtSets == [wrt_clk : Nat, objs : Seq(Copies)]
Args == [obj : Objects \union {NULL}, ptr : Addresses \union {NULL}, clk : Nat, idx : Nat]
Pointers == [obj : Objects, ptr : Addresses \union {ACTUAL}, chain : BOOLEAN]
Scans == [clk1 : Nat, clk2 : Nat, tail : Nat, ws : Nat, idx : Nat]

LogTypes ==
  /\ p_lock \in [Objects -> Addresses \union {NULL}]
  /\ p_copy \in [Objects -> Addresses \union {NULL}]
  /\ actual \in [Objects -> Contents] /\ released \subseteq Objects
  /\ wrt_sets \in [Threads -> Seq(WrtSets)]
  /\ head_cnt \in [Threads -> Nat]
  /\ free_ptrs \in [Threads -> SUBSET Objects]
  /\ held \in [Threads -> SUBSET Pointers]
  /\ arg \in [Threads -> Args]
  /\ scan \in [Threads -> Scans]

\* A write set that is not being committed may be taken off the log again.
Pending(t) == cur_wrt_set[t] /\ pc[t] \notin CommitLocs \union {"unlock"}

InLog(a) ==
  /\ a \in Addresses
  /\ a.ws \in DOMAIN wrt_sets[a.thread]
  /\ a.idx \in DOMAIN wrt_sets[a.thread][a.ws].objs

Kept(a) == InLog(a) /\ ~(Pending(a.thread) /\ a.ws = TailCnt(a.thread))

\* The write set of the open section is the last of its log and not committed;
\* all others are, and none of them is empty.
OpenSet(t) ==
  /\ cur_wrt_set[t] =>
       /\ TailCnt(t) >= 1
       /\ pc[t] \in SectionLocs \union CommitLocs \union {"unlock", "abort"}
       /\ pc[t] \in {"advance", "unlock"} => Current(t).wrt_clk < MAX_VERSION
       /\ pc[t] \notin {"advance", "unlock"} => Current(t).wrt_clk = MAX_VERSION
       /\ pc[t] \notin {"lock", "failed", "abort"} => Len(Current(t).objs) >= 1
  /\ pc[t] \in CommitLocs \union {"unlock", "lock"} => cur_wrt_set[t]

DoneSets(t) ==
  \A w \in 1 .. TailCnt(t) : (cur_wrt_set[t] => w # TailCnt(t)) =>
     Len(wrt_sets[t][w].objs) >= 1 /\ wrt_sets[t][w].wrt_clk < MAX_VERSION

CurrentOf(t) == OpenSet(t) /\ DoneSets(t)

\* The operands of the calls that are in progress.
ArgOf(t) ==
  /\ pc[t] = "lock" => arg[t].obj \in Objects
  /\ pc[t] = "walk" => arg[t].obj \in Objects /\ Kept(arg[t].ptr)
  /\ pc[t] = "move" => arg[t].idx >= 1
  /\ pc[t] = "cas" => arg[t].idx \in DOMAIN Current(t).objs
  /\ pc[t] = "store_clock" => arg[t].clk <= g_wrt_clk + 1

\* Chains lead to copies that stay in their logs.
ChainInv ==
  /\ \A o \in Objects : p_copy[o] # NULL => Kept(p_copy[o])
  /\ \A t \in Threads : \A w \in DOMAIN wrt_sets[t] : \A i \in DOMAIN wrt_sets[t][w].objs :
       wrt_sets[t][w].objs[i].p_copy # NULL => Kept(wrt_sets[t][w].objs[i].p_copy)

\* A log is scanned by one actor, which finds a copy where it looks.
ScanAt(l) ==
  /\ scan[l].ws + 1 \in DOMAIN wrt_sets[l]
  /\ wrt_sets[l][scan[l].ws + 1].wrt_clk < MAX_VERSION
  /\ wrt_sets[l][scan[l].ws + 1].wrt_clk > scan[l].clk2
  /\ scan[l].idx \in DOMAIN wrt_sets[l][scan[l].ws + 1].objs

ScanInv ==
  /\ \A l \in Threads : /\ scan[l].clk1 <= g_wrt_clk /\ scan[l].clk2 <= g_wrt_clk
                        /\ scan[l].idx > 1 => ScanAt(l)
  /\ \A a \in Actors : pc[a] \in {"scan", "detach"} =>
       /\ reclaim_lock[LogOf(a)] = a /\ scan[LogOf(a)].idx >= 1
       /\ pc[a] = "detach" => ScanAt(LogOf(a))

LogInv ==
  /\ LogTypes /\ ChainInv /\ ScanInv
  /\ \A t \in Threads : CurrentOf(t) /\ ArgOf(t)

\* An element of a sequence is replaced.
LEMMA ReplaceInSeq ==
  ASSUME NEW S, NEW s \in Seq(S), NEW n \in 1 .. Len(s), NEW x \in S
  PROVE  /\ [s EXCEPT ![n] = x] \in Seq(S)
         /\ Len([s EXCEPT ![n] = x]) = Len(s)
         /\ [s EXCEPT ![n] = x][n] = x
         /\ \A i \in 1 .. Len(s) : i # n => [s EXCEPT ![n] = x][i] = s[i]
OBVIOUS

\* The last element of a sequence is cut off.
LEMMA ShorterSeq ==
  ASSUME NEW S, NEW s \in Seq(S), Len(s) >= 1
  PROVE  /\ SubSeq(s, 1, Len(s) - 1) \in Seq(S)
         /\ Len(SubSeq(s, 1, Len(s) - 1)) = Len(s) - 1
         /\ \A i \in 1 .. Len(s) - 1 : SubSeq(s, 1, Len(s) - 1)[i] = s[i]
<1>1. PICK n \in Nat : n = Len(s) /\ n >= 1
  OBVIOUS
<1>2. /\ SubSeq(s, 1, n - 1) \in Seq(S)
      /\ Len(SubSeq(s, 1, n - 1)) = n - 1
      /\ \A i \in 1 .. n - 1 : SubSeq(s, 1, n - 1)[i] = s[i]
  BY <1>1
<1>3. QED
  BY <1>1, <1>2

\* A longer sequence has all indices of a shorter one.
LEMMA LongerSeq ==
  ASSUME NEW S, NEW s \in Seq(S), NEW r \in Seq(S), Len(r) >= Len(s), NEW i \in DOMAIN s
  PROVE  i \in DOMAIN r
OBVIOUS

\* Replacing a log's last write set leaves the others alone.
LEMMA SetCurrentEffect ==
  ASSUME LogTypes, NEW t \in Threads, TailCnt(t) >= 1, NEW ws \in WrtSets, SetCurrent(t, ws)
  PROVE  /\ wrt_sets' \in [Threads -> Seq(WrtSets)]
         /\ wrt_sets'[t] = [wrt_sets[t] EXCEPT ![TailCnt(t)] = ws]
         /\ TailCnt(t)' = TailCnt(t)
         /\ Current(t)' = ws
         /\ \A w \in 1 .. TailCnt(t) : w # TailCnt(t) => wrt_sets'[t][w] = wrt_sets[t][w]
<1>1. wrt_sets \in [Threads -> Seq(WrtSets)] /\ wrt_sets[t] \in Seq(WrtSets)
  BY DEF LogTypes
<1>2. TailCnt(t) \in 1 .. Len(wrt_sets[t])
  BY <1>1 DEF TailCnt
<1>3. wrt_sets'[t] = [wrt_sets[t] EXCEPT ![TailCnt(t)] = ws]
  BY <1>1 DEF SetCurrent
<1>4. /\ wrt_sets'[t] \in Seq(WrtSets) /\ Len(wrt_sets'[t]) = Len(wrt_sets[t])
      /\ wrt_sets'[t][TailCnt(t)] = ws
      /\ \A w \in 1 .. TailCnt(t) : w # TailCnt(t) => wrt_sets'[t][w] = wrt_sets[t][w]
  BY <1>1, <1>2, <1>3, ReplaceInSeq DEF TailCnt
<1>5. wrt_sets' = [wrt_sets EXCEPT ![t] = wrt_sets'[t]]
  BY <1>1, <1>3 DEF SetCurrent
<1>6. wrt_sets' \in [Threads -> Seq(WrtSets)]
  BY <1>1, <1>4, <1>5
<1>7. QED
  BY <1>3, <1>4, <1>6 DEF TailCnt, Current

\* A copy of the current write set is changed.
LEMMA ChangeCopy ==
  ASSUME NEW ws \in WrtSets, NEW i \in DOMAIN ws.objs, NEW c \in Copies
  PROVE  /\ [ws EXCEPT !.objs[i] = c] \in WrtSets
         /\ [ws EXCEPT !.objs[i] = c].wrt_clk = ws.wrt_clk
         /\ [ws EXCEPT !.objs[i] = c].objs = [ws.objs EXCEPT ![i] = c]
<1>1. [ws EXCEPT !.objs[i] = c] = [ws EXCEPT !.objs = [ws.objs EXCEPT ![i] = c]]
  OBVIOUS
<1>2. [ws.objs EXCEPT ![i] = c] \in Seq(Copies)
  BY ReplaceInSeq DEF WrtSets
<1>3. QED
  BY <1>1, <1>2 DEF WrtSets

\* What a step may do to the log of its thread.
LogStays(t) ==
  /\ wrt_sets' = wrt_sets /\ cur_wrt_set' = cur_wrt_set /\ (Pending(t)' => Pending(t))
  /\ p_lock' = p_lock

LogOpens(t) ==
  /\ ~cur_wrt_set[t] /\ pc[t] = "section" /\ pc'[t] = "lock"
  /\ wrt_sets' = [wrt_sets EXCEPT ![t] = Append(@, [wrt_clk |-> MAX_VERSION, objs |-> <<>>])]
  /\ cur_wrt_set' = [cur_wrt_set EXCEPT ![t] = TRUE]
  /\ p_lock' = p_lock

Grows(old, new) ==
  /\ new.wrt_clk = old.wrt_clk \/ old.wrt_clk = MAX_VERSION
  /\ Len(new.objs) >= Len(old.objs)
  /\ \A i \in DOMAIN old.objs : new.objs[i].obj = old.objs[i].obj

LinksKept(ws) == \A i \in DOMAIN ws.objs : ws.objs[i].p_copy # NULL => Kept(ws.objs[i].p_copy)

FreesLater(t, ws) ==
  pc[t] # "move" => \A i \in DOMAIN ws.objs : ws.objs[i].type = "free" =>
    i \in DOMAIN Current(t).objs /\ Current(t).objs[i].type = "free"

ClockStays(t, ws) == pc[t] # "store_clock" => ws.wrt_clk = Current(t).wrt_clk

SameLocks(t, ws) == Len(ws.objs) = Len(Current(t).objs) /\ p_lock' = p_lock

LocksOne(t, ws) ==
  LET n == Len(Current(t).objs) + 1 IN
  /\ Len(ws.objs) = n /\ p_lock[ws.objs[n].obj] = NULL
  /\ p_lock' = [p_lock EXCEPT ![ws.objs[n].obj] = CurrentAddress(t, n)]

LogChanges(t) ==
  /\ cur_wrt_set[t] /\ cur_wrt_set' = cur_wrt_set /\ (Pending(t)' => Pending(t))
  /\ \E ws \in WrtSets :
       /\ SetCurrent(t, ws) /\ Grows(Current(t), ws) /\ LinksKept(ws) /\ FreesLater(t, ws)
       /\ ClockStays(t, ws)
       /\ SameLocks(t, ws) \/ LocksOne(t, ws)

LogCloses(t) ==
  /\ pc[t] = "unlock" /\ pc'[t] \in {"try_reclaim", "idle"}
  /\ wrt_sets' = wrt_sets /\ cur_wrt_set' = [cur_wrt_set EXCEPT ![t] = FALSE]
  /\ p_lock' = Unlocked(t)

LogIsCut(t) ==
  /\ pc[t] = "abort" /\ cur_wrt_set[t] /\ pc'[t] \in {"try_reclaim", "idle"}
  /\ wrt_sets' = [wrt_sets EXCEPT ![t] = SubSeq(@, 1, TailCnt(t) - 1)]
  /\ cur_wrt_set' = [cur_wrt_set EXCEPT ![t] = FALSE]
  /\ p_lock' = Unlocked(t)

LogEffect(t) ==
  LogStays(t) \/ LogOpens(t) \/ LogChanges(t) \/ LogCloses(t) \/ LogIsCut(t)

\* A pointer to a copy that is in its log leads to a copy.
LEMMA CopyType ==
  ASSUME LogTypes, NEW a, InLog(a)
  PROVE  CopyAt(a) \in Copies /\ get_wrt_clk(a) \in Nat
<1>1. wrt_sets[a.thread] \in Seq(WrtSets) /\ a.ws \in DOMAIN wrt_sets[a.thread]
  BY DEF LogTypes, InLog, Addresses
<1>2. wrt_sets[a.thread][a.ws] \in WrtSets
  BY <1>1
<1>3. /\ wrt_sets[a.thread][a.ws].objs \in Seq(Copies)
      /\ wrt_sets[a.thread][a.ws].wrt_clk \in Nat
  BY <1>2 DEF WrtSets
<1>4. a.idx \in DOMAIN wrt_sets[a.thread][a.ws].objs
  BY DEF InLog
<1>5. wrt_sets[a.thread][a.ws].objs[a.idx] \in Copies
  BY <1>3, <1>4
<1>6. QED
  BY <1>3, <1>5 DEF CopyAt, get_wrt_clk

\* The write set of an open section, and its copies.
LEMMA CurrentType ==
  ASSUME LogTypes, NEW t \in Threads, CurrentOf(t), cur_wrt_set[t]
  PROVE  /\ TailCnt(t) \in 1 .. Len(wrt_sets[t]) /\ Current(t) \in WrtSets
         /\ Current(t).objs \in Seq(Copies) /\ Current(t).wrt_clk \in Nat
<1>1. wrt_sets[t] \in Seq(WrtSets) /\ TailCnt(t) \in 1 .. Len(wrt_sets[t])
  BY DEF LogTypes, CurrentOf, OpenSet, TailCnt
<1>2. wrt_sets[t][TailCnt(t)] \in WrtSets
  BY <1>1
<1>3. QED
  BY <1>1, <1>2 DEF Current, WrtSets

\* The copy a writer makes.
LEMMA CopiedType ==
  ASSUME LogTypes, NEW o \in Objects, p_copy[o] # NULL => Kept(p_copy[o]),
         NEW kind \in {"copy", "const"}
  PROVE  Copied(o, p_copy[o], kind) \in Copies /\ Copied(o, p_copy[o], kind).obj = o
<1> DEFINE h == [obj |-> o, ptr |-> IF p_copy[o] = NULL THEN ACTUAL ELSE p_copy[o]]
<1>1. ValueAt(h) \in Contents
  <2>1. CASE p_copy[o] = NULL
    BY <2>1 DEF ValueAt, LogTypes
  <2>2. CASE p_copy[o] # NULL
    <3>1. p_copy[o] \in Addresses /\ p_copy[o] # ACTUAL /\ InLog(p_copy[o])
      BY <2>2, MarkerAssumption DEF LogTypes, Kept
    <3>2. CopyAt(p_copy[o]).val \in Contents
      BY <3>1, CopyType DEF Copies
    <3>3. QED
      BY <2>2, <3>1, <3>2 DEF ValueAt
  <2>3. QED
    BY <2>1, <2>2
<1>2. [ValueAt(h) EXCEPT !.n = @ + 1] \in Contents
  BY <1>1 DEF Contents
<1>3. QED
  BY <1>1, <1>2 DEF Copied, Copies, MIN_VERSION

\* What replaces a copy of the current write set when its thread links it.
LEMMA LinkEffect ==
  ASSUME LogTypes, ChainInv, NEW t \in Threads, CurrentOf(t), cur_wrt_set[t],
         arg[t].idx \in DOMAIN Current(t).objs,
         LinkTo(t, p_copy[Current(t).objs[arg[t].idx].obj])
  PROVE  \E c \in Copies :
           /\ c = [Current(t).objs[arg[t].idx] EXCEPT
                     !.p_copy = p_copy[Current(t).objs[arg[t].idx].obj],
                     !.wrt_clk_next =
                       IF p_copy[Current(t).objs[arg[t].idx].obj] = NULL THEN MIN_VERSION
                       ELSE get_wrt_clk(p_copy[Current(t).objs[arg[t].idx].obj])]
           /\ SetCurrent(t, [Current(t) EXCEPT !.objs[arg[t].idx] = c])
<1> DEFINE i == arg[t].idx
           old == Current(t).objs[i]
           p == p_copy[old.obj]
           clk == IF p = NULL THEN MIN_VERSION ELSE get_wrt_clk(p)
           c == [old EXCEPT !.p_copy = p, !.wrt_clk_next = clk]
<1>1. old \in Copies /\ Current(t) \in WrtSets
  BY CurrentType
<1>2. p \in Addresses \union {NULL} /\ (p # NULL => InLog(p))
  BY <1>1 DEF LogTypes, ChainInv, Kept, Copies
<1>3. clk \in Nat
  BY <1>2, CopyType DEF MIN_VERSION
<1>4. c \in Copies
  BY <1>1, <1>2, <1>3 DEF Copies
<1>5. [Current(t) EXCEPT !.objs[i].p_copy = p, !.objs[i].wrt_clk_next = clk]
        = [Current(t) EXCEPT !.objs[i] = c]
  BY <1>1 DEF WrtSets
<1>6. SetCurrent(t, [Current(t) EXCEPT !.objs[i] = c])
  BY <1>5 DEF LinkTo
<1>7. QED
  BY <1>4, <1>6

\* A copy of the current write set is changed, and no lock is taken.
LEMMA ReplaceCopy ==
  ASSUME LogTypes, ChainInv, NEW t \in Threads, CurrentOf(t), cur_wrt_set[t],
         NEW i \in DOMAIN Current(t).objs, NEW c \in Copies,
         c.obj = Current(t).objs[i].obj, c.p_copy # NULL => Kept(c.p_copy),
         c.type = "free" => pc[t] = "move" \/ Current(t).objs[i].type = "free",
         SetCurrent(t, [Current(t) EXCEPT !.objs[i] = c]),
         p_lock' = p_lock, cur_wrt_set' = cur_wrt_set, Pending(t)' => Pending(t)
  PROVE  LogChanges(t)
<1> DEFINE ws == [Current(t) EXCEPT !.objs[i] = c]
<1>1. /\ Current(t) \in WrtSets /\ Current(t).objs \in Seq(Copies) /\ i \in 1 .. Len(Current(t).objs)
      /\ TailCnt(t) \in DOMAIN wrt_sets[t]
  BY CurrentType
<1>2. /\ ws \in WrtSets /\ ws.wrt_clk = Current(t).wrt_clk
      /\ ws.objs = [Current(t).objs EXCEPT ![i] = c]
  BY <1>1, ChangeCopy
<1>3. /\ Len(ws.objs) = Len(Current(t).objs) /\ ws.objs[i] = c
      /\ DOMAIN ws.objs = DOMAIN Current(t).objs
      /\ \A j \in DOMAIN Current(t).objs : j # i => ws.objs[j] = Current(t).objs[j]
  BY <1>1, <1>2, ReplaceInSeq
<1>4. Grows(Current(t), ws)
  BY <1>1, <1>2, <1>3 DEF Grows
<1>5. LinksKept(ws)
  BY <1>1, <1>3 DEF LinksKept, ChainInv, Current
<1>6. FreesLater(t, ws)
  BY <1>3 DEF FreesLater
<1>7. QED
  BY <1>2, <1>3, <1>4, <1>5, <1>6 DEF LogChanges, SameLocks, ClockStays

\* A step of a thread changes its own log only, in one of these ways.
LEMMA ThreadLog ==
  ASSUME LogInv, Places, ControlTypes, VersionsFit, NEW t \in Threads, ThreadStep(t)
  PROVE  LogEffect(t)
<1>0. /\ LogTypes /\ ChainInv /\ CurrentOf(t) /\ ArgOf(t)
      /\ t \in Actors /\ pc \in [Actors -> Locs \union QpLocs] /\ ret[t] \in ReturnLocs
      /\ cur_wrt_set \in [Threads -> BOOLEAN]
  BY DEF LogInv, Places, ControlTypes, Actors
<1> USE DEF objects, logs, clocks, reclaim, section, control, lists, Goto, CallReclaim
<1>1. CASE log_reclaim(t)
  BY <1>0, <1>1 DEF log_reclaim, TryReclaimLock, ReclaimWrtSet, WriteBackCopy, try_detach_obj, EndScan,
     LogEffect, LogStays, Pending, CommitLocs
<1>2. CASE mvrlu_reader_lock(t) \/ log_reclaim_force(t) \/ ForceWait(t) \/ BelowHighMark(t)
  BY <1>0, <1>2 DEF mvrlu_reader_lock, log_reclaim_force, ForceWait, BelowHighMark, StartSection,
     LogEffect, LogStays, Pending, CommitLocs
<1>3. CASE ReadClock(t) \/ DerefWalk(t)
  BY <1>0, <1>3 DEF ReadClock, DerefWalk, LogEffect, LogStays, Pending, CommitLocs
<1>4. CASE TryLockCas(t)
  <2>1. cur_wrt_set[t] /\ arg[t].obj \in Objects
    BY <1>0, <1>4 DEF TryLockCas, CurrentOf, OpenSet, ArgOf
  <2>2. CASE CasLock(arg[t].obj, arg[t].ptr)
    <3>1. PICK kind \in {"copy", "const"} :
            SetCurrent(t, [Current(t) EXCEPT !.objs = Append(@, Copied(arg[t].obj, arg[t].ptr, kind))])
      BY <1>4, <2>2 DEF TryLockCas
    <3> DEFINE c == Copied(arg[t].obj, arg[t].ptr, kind)
               ws == [Current(t) EXCEPT !.objs = Append(@, c)]
    <3>2. c \in Copies
      <4>1. arg[t].ptr = p_copy[arg[t].obj]
        BY <2>2 DEF CasLock
      <4>2. QED
        BY <1>0, <2>1, <4>1, CopiedType DEF ChainInv
    <3>3. Current(t) \in WrtSets /\ Current(t).objs \in Seq(Copies)
      BY <1>0, <2>1, CurrentType
    <3>4. /\ Append(Current(t).objs, c) \in Seq(Copies)
          /\ Len(Append(Current(t).objs, c)) = Len(Current(t).objs) + 1
          /\ \A i \in DOMAIN Current(t).objs : Append(Current(t).objs, c)[i] = Current(t).objs[i]
      BY <3>2, <3>3
    <3>5. ws \in WrtSets /\ ws.wrt_clk = Current(t).wrt_clk /\ ws.objs = Append(Current(t).objs, c)
      BY <3>3, <3>4 DEF WrtSets
    <3>6. Grows(Current(t), ws)
      BY <3>3, <3>4, <3>5 DEF Grows
    <3>7. /\ cur_wrt_set' = cur_wrt_set /\ pc'[t] = "section" /\ pc[t] = "lock"
          /\ p_lock[arg[t].obj] = NULL
          /\ p_lock' = [p_lock EXCEPT ![arg[t].obj] = CurrentAddress(t, Len(Current(t).objs) + 1)]
      BY <1>0, <1>4, <2>2 DEF TryLockCas, CasLock
    <3>8. /\ DOMAIN ws.objs = DOMAIN Current(t).objs \union {Len(ws.objs)}
          /\ Len(ws.objs) = Len(Current(t).objs) + 1 /\ ws.objs[Len(ws.objs)] = c
      BY <3>2, <3>3, <3>4, <3>5
    <3>9. c.p_copy = NULL /\ c.obj = arg[t].obj /\ c.type # "free"
      BY DEF Copied
    <3>10. LinksKept(ws)
      <4>1. TailCnt(t) \in DOMAIN wrt_sets[t]
        BY <1>0, <2>1, CurrentType
      <4>2. QED
        BY <1>0, <3>4, <3>5, <3>8, <3>9, <4>1 DEF LinksKept, ChainInv, Current
    <3>11. FreesLater(t, ws) /\ ClockStays(t, ws)
      BY <3>4, <3>5, <3>8, <3>9 DEF FreesLater, ClockStays
    <3>12. LocksOne(t, ws)
      BY <3>7, <3>8, <3>9 DEF LocksOne
    <3>13. QED
      BY <2>1, <3>1, <3>5, <3>6, <3>7, <3>10, <3>11, <3>12 DEF LogEffect, LogChanges, Pending,
         CommitLocs
  <2>3. CASE ~CasLock(arg[t].obj, arg[t].ptr)
    BY <1>0, <1>4, <2>1, <2>3 DEF TryLockCas, LogEffect, LogStays, Pending, CommitLocs
  <2>4. QED
    BY <2>2, <2>3
<1>5. ASSUME NEW o \in Objects, DerefHead(t, o) PROVE LogEffect(t)
  BY <1>0, <1>5 DEF DerefHead, LogEffect, LogStays, Pending, CommitLocs
<1>6. ASSUME NEW o \in Objects, TryLockRead(t, o) PROVE LogEffect(t)
  <2>1. CASE pc' = [pc EXCEPT ![t] = "lock"] /\ ~cur_wrt_set[t]
    BY <1>0, <1>6, <2>1 DEF TryLockRead, LogEffect, LogOpens
  <2>2. CASE ~(pc' = [pc EXCEPT ![t] = "lock"] /\ ~cur_wrt_set[t])
    <3>1. cur_wrt_set[t] => [cur_wrt_set EXCEPT ![t] = TRUE] = cur_wrt_set
      BY <1>0
    <3>2. wrt_sets' = wrt_sets /\ cur_wrt_set' = cur_wrt_set /\ pc[t] = "section" /\ p_lock' = p_lock
      BY <1>0, <1>6, <2>2, <3>1 DEF TryLockRead
    <3>3. Pending(t)' => Pending(t)
      BY <3>2 DEF Pending, CommitLocs
    <3>4. QED
      BY <3>2, <3>3 DEF LogEffect, LogStays
  <2>3. QED
    BY <2>1, <2>2
<1>7. ASSUME NEW o \in Objects, mvrlu_free(t, o) PROVE LogEffect(t)
  <2>1. PICK i \in DOMAIN Current(t).objs :
          SetCurrent(t, [Current(t) EXCEPT !.objs[i].val.links = @ \ {o}])
    BY <1>7 DEF mvrlu_free
  <2>2. cur_wrt_set[t] /\ Current(t) \in WrtSets /\ Current(t).objs \in Seq(Copies)
    BY <1>0, <1>7, CurrentType DEF mvrlu_free
  <2> DEFINE old == Current(t).objs[i]
             c == [old EXCEPT !.val.links = @ \ {o}]
             ws == [Current(t) EXCEPT !.objs[i] = c]
  <2>3. old \in Copies
    BY <2>2
  <2>4. c \in Copies /\ c.obj = old.obj
    BY <2>3 DEF Copies, Contents
  <2>5. [Current(t) EXCEPT !.objs[i].val.links = @ \ {o}] = ws
    BY <2>2, <2>3 DEF WrtSets, Copies
  <2>6. SetCurrent(t, ws)
    BY <2>1, <2>5
  <2>7. cur_wrt_set' = cur_wrt_set /\ pc' = pc /\ p_lock' = p_lock
    BY <1>7 DEF mvrlu_free
  <2>8. (Pending(t)' => Pending(t)) /\ c.type = old.type /\ c.p_copy = old.p_copy
    BY <2>3, <2>7 DEF Pending, Copies
  <2>9. old.p_copy # NULL => Kept(old.p_copy)
    BY <1>0, <2>2, CurrentType DEF ChainInv, Current
  <2> HIDE DEF c
  <2>10. QED
    BY <1>0, <2>2, <2>4, <2>6, <2>7, <2>8, <2>9, ReplaceCopy DEF LogEffect
<1>8. CASE mvrlu_reader_unlock(t)
  BY <1>0, <1>8 DEF mvrlu_reader_unlock, AfterSection, LogEffect, LogStays, Pending, CommitLocs
<1>9. CASE MoveCopy(t)
  <2> DEFINE i == arg[t].idx
             old == Current(t).objs[i]
  <2>1. cur_wrt_set[t] /\ pc[t] = "move" /\ cur_wrt_set' = cur_wrt_set /\ pc'[t] \in {"move", "cas"}
    BY <1>0, <1>9 DEF MoveCopy, CurrentOf, OpenSet, CommitLocs
  <2>2. /\ Current(t) \in WrtSets /\ Current(t).objs \in Seq(Copies)
        /\ i \in DOMAIN Current(t).objs /\ old \in Copies
    <3>1. Current(t) \in WrtSets /\ Current(t).objs \in Seq(Copies)
      BY <1>0, <2>1, CurrentType
    <3>2. i \in Nat
      BY <1>0 DEF LogTypes, Args
    <3>3. i >= 1 /\ i <= Len(Current(t).objs)
      BY <1>0, <1>9 DEF MoveCopy, ArgOf
    <3>4. QED
      BY <3>1, <3>2, <3>3
  <2>3. p_lock' = p_lock /\ (Pending(t)' => Pending(t)) /\ (old.p_copy # NULL => Kept(old.p_copy))
    <3>1. p_lock' = p_lock
      BY <1>9 DEF MoveCopy
    <3>2. QED
      BY <1>0, <2>1, <2>2, <3>1, CurrentType DEF ChainInv, Current, Pending, CommitLocs
  <2>4. CASE old.obj \in free_ptrs[t]
    <3>1. SetCurrent(t, [Current(t) EXCEPT !.objs[i].type = "free"])
      BY <1>9, <2>4 DEF MoveCopy
    <3>2. [Current(t) EXCEPT !.objs[i].type = "free"]
            = [Current(t) EXCEPT !.objs[i] = [old EXCEPT !.type = "free"]]
      BY <2>2
    <3> DEFINE c == [old EXCEPT !.type = "free"]
    <3>3. c \in Copies /\ c.obj = old.obj /\ c.p_copy = old.p_copy
      BY <2>2 DEF Copies
    <3>4. SetCurrent(t, [Current(t) EXCEPT !.objs[i] = c])
      BY <3>1, <3>2
    <3> HIDE DEF c
    <3>5. QED
      BY <1>0, <2>1, <2>2, <2>3, <3>3, <3>4, ReplaceCopy DEF LogEffect
  <2>5. CASE old.obj \notin free_ptrs[t] /\ old.type = "const"
    <3>1. wrt_sets' = wrt_sets
      BY <1>9, <2>5 DEF MoveCopy
    <3>2. QED
      BY <2>1, <2>3, <3>1 DEF LogEffect, LogStays
  <2>6. CASE old.obj \notin free_ptrs[t] /\ old.type # "const"
    <3>1. LinkTo(t, p_copy[old.obj])
      BY <1>9, <2>6 DEF MoveCopy
    <3>2. PICK c \in Copies :
            /\ c = [old EXCEPT !.p_copy = p_copy[old.obj],
                               !.wrt_clk_next = IF p_copy[old.obj] = NULL THEN MIN_VERSION
                                                ELSE get_wrt_clk(p_copy[old.obj])]
            /\ SetCurrent(t, [Current(t) EXCEPT !.objs[i] = c])
      BY <1>0, <2>1, <2>2, <3>1, LinkEffect
    <3>3. c.obj = old.obj /\ c.type = old.type /\ c.p_copy = p_copy[old.obj] /\ old.obj \in Objects
      BY <2>2, <3>2 DEF Copies
    <3>4. c.p_copy # NULL => Kept(c.p_copy)
      BY <1>0, <3>3 DEF ChainInv
    <3>5. QED
      BY <1>0, <2>1, <2>2, <2>3, <3>2, <3>3, <3>4, ReplaceCopy DEF LogEffect
  <2>7. QED
    BY <2>4, <2>5, <2>6
<1>10. CASE MoveCas(t)
  <2> DEFINE i == arg[t].idx
             old == Current(t).objs[i]
  <2>1. cur_wrt_set[t] /\ pc[t] = "cas" /\ cur_wrt_set' = cur_wrt_set /\ pc'[t] \in {"move", "cas"}
    BY <1>0, <1>10 DEF MoveCas, CurrentOf, OpenSet, CommitLocs
  <2>2. /\ Current(t) \in WrtSets /\ Current(t).objs \in Seq(Copies)
        /\ i \in DOMAIN Current(t).objs /\ old \in Copies
    <3>1. Current(t) \in WrtSets /\ Current(t).objs \in Seq(Copies)
      BY <1>0, <2>1, CurrentType
    <3>2. i \in DOMAIN Current(t).objs
      BY <1>0, <2>1 DEF ArgOf
    <3>3. QED
      BY <3>1, <3>2
  <2>3. CASE p_copy[old.obj] = old.p_copy
    <3>1. wrt_sets' = wrt_sets /\ p_lock' = p_lock
      BY <1>10, <2>3 DEF MoveCas
    <3>2. QED
      BY <2>1, <3>1 DEF LogEffect, LogStays, Pending, CommitLocs
  <2>4. CASE p_copy[old.obj] # old.p_copy
    <3>1. LinkTo(t, p_copy[old.obj])
      BY <1>10, <2>4 DEF MoveCas
    <3>2. PICK c \in Copies :
            /\ c = [old EXCEPT !.p_copy = p_copy[old.obj],
                               !.wrt_clk_next = IF p_copy[old.obj] = NULL THEN MIN_VERSION
                                                ELSE get_wrt_clk(p_copy[old.obj])]
            /\ SetCurrent(t, [Current(t) EXCEPT !.objs[i] = c])
      BY <1>0, <2>1, <2>2, <3>1, LinkEffect
    <3>3. c.obj = old.obj /\ c.type = old.type /\ c.p_copy = p_copy[old.obj] /\ old.obj \in Objects
      BY <2>2, <3>2 DEF Copies
    <3>4. c.p_copy # NULL => Kept(c.p_copy)
      BY <1>0, <3>3 DEF ChainInv
    <3>5. p_lock' = p_lock /\ (Pending(t)' => Pending(t))
      BY <1>10, <2>1 DEF MoveCas, Pending, CommitLocs
    <3>6. QED
      BY <1>0, <2>1, <2>2, <3>2, <3>3, <3>4, <3>5, ReplaceCopy DEF LogEffect
  <2>5. QED
    BY <2>3, <2>4
<1>11. CASE LoadClock(t)
  BY <1>0, <1>11 DEF LoadClock, LogEffect, LogStays, Pending, CommitLocs
<1>12. CASE StoreClock(t)
  <2>1. /\ cur_wrt_set[t] /\ pc[t] = "store_clock" /\ cur_wrt_set' = cur_wrt_set
        /\ pc'[t] = "advance" /\ Current(t).wrt_clk = MAX_VERSION
    BY <1>0, <1>12 DEF StoreClock, CurrentOf, OpenSet, CommitLocs
  <2>2. Current(t) \in WrtSets /\ arg[t].clk \in Nat
    BY <1>0, <2>1, CurrentType DEF LogTypes, Args
  <2> DEFINE ws == [Current(t) EXCEPT !.wrt_clk = arg[t].clk]
  <2>3. ws \in WrtSets /\ ws.objs = Current(t).objs
    BY <2>2 DEF WrtSets
  <2>4. Grows(Current(t), ws)
    BY <2>1, <2>2, <2>3 DEF Grows, WrtSets
  <2>5. SetCurrent(t, ws)
    BY <1>12 DEF StoreClock
  <2>6. LinksKept(ws) /\ FreesLater(t, ws) /\ ClockStays(t, ws)
    BY <1>0, <2>1, <2>3, CurrentType DEF LinksKept, FreesLater, ClockStays, ChainInv, Current
  <2>7. p_lock' = p_lock
    BY <1>12 DEF StoreClock
  <2>8. QED
    BY <2>1, <2>3, <2>4, <2>5, <2>6, <2>7 DEF LogEffect, LogChanges, SameLocks, Pending, CommitLocs
<1>13. CASE AdvanceClock(t)
  BY <1>0, <1>13 DEF AdvanceClock, LogEffect, LogStays, Pending, CommitLocs
<1>14. CASE ws_unlock(t)
  BY <1>0, <1>14 DEF ws_unlock, AfterSection, LogEffect, LogCloses
<1>15. CASE AfterReclaim(t) \/ mvrlu_abort(t)
  BY <1>0, <1>15 DEF AfterReclaim, mvrlu_abort, LogEffect, LogStays, Pending, CommitLocs
<1>16. CASE log_abort(t)
  <2>1. CASE cur_wrt_set[t]
    BY <1>0, <1>16, <2>1 DEF log_abort, AfterSection, LogEffect, LogIsCut
  <2>2. CASE ~cur_wrt_set[t]
    BY <1>0, <1>16, <2>2 DEF log_abort, LogEffect, LogStays, Pending
  <2>3. QED
    BY <2>1, <2>2
<1>17. CASE mvrlu_flush_log(t) \/ mvrlu_thread_finish(t) \/ LeaveLists(t)
  BY <1>0, <1>17 DEF mvrlu_flush_log, mvrlu_thread_finish, LeaveLists, NoMoreSections, LogEffect,
     LogStays, Pending, CommitLocs
<1>18. QED
  BY <1>1, <1>2, <1>3, <1>4, <1>5, <1>6, <1>7, <1>8, <1>9, <1>10, <1>11, <1>12, <1>13, <1>14,
     <1>15, <1>16, <1>17 DEF ThreadStep

\* Other threads' logs are as they were.
LEMMA OtherLogs ==
  ASSUME LogTypes, ControlTypes, NEW t \in Threads, LogEffect(t), NEW u \in Threads, u # t
  PROVE  wrt_sets'[u] = wrt_sets[u] /\ cur_wrt_set'[u] = cur_wrt_set[u]
BY DEF LogTypes, ControlTypes, LogEffect, LogStays, LogOpens, LogChanges, LogCloses, LogIsCut,
   SetCurrent

\* A thread's log after a step of its own: write sets that are not its current
\* one are as they were, and the current one only grows, or goes.
LEMMA OwnLog ==
  ASSUME LogTypes, ControlTypes, NEW t \in Threads, CurrentOf(t), LogEffect(t)
  PROVE  /\ wrt_sets' \in [Threads -> Seq(WrtSets)]
         /\ \A w \in DOMAIN wrt_sets[t] :
              \/ w \in DOMAIN wrt_sets'[t] /\ wrt_sets'[t][w] = wrt_sets[t][w]
              \/ /\ w \in DOMAIN wrt_sets'[t] /\ w = TailCnt(t) /\ cur_wrt_set[t]
                 /\ LogChanges(t) /\ Grows(wrt_sets[t][w], wrt_sets'[t][w])
              \/ w = TailCnt(t) /\ LogIsCut(t)
<1>1. /\ wrt_sets \in [Threads -> Seq(WrtSets)] /\ wrt_sets[t] \in Seq(WrtSets)
      /\ DOMAIN wrt_sets[t] = 1 .. TailCnt(t) /\ TailCnt(t) \in Nat
  BY DEF LogTypes, TailCnt
<1>2. CASE LogStays(t) \/ LogCloses(t)
  BY <1>1, <1>2 DEF LogStays, LogCloses
<1>3. CASE LogOpens(t)
  <2> DEFINE new == [wrt_clk |-> MAX_VERSION, objs |-> <<>>]
  <2>1. new \in WrtSets
    BY BoundsAssumption DEF WrtSets
  <2>2. Append(wrt_sets[t], new) \in Seq(WrtSets)
    BY <1>1, <2>1
  <2>3. wrt_sets' = [wrt_sets EXCEPT ![t] = Append(wrt_sets[t], new)]
    BY <1>3 DEF LogOpens
  <2>4. wrt_sets'[t] = Append(wrt_sets[t], new) /\ wrt_sets' \in [Threads -> Seq(WrtSets)]
    BY <1>1, <2>2, <2>3
  <2>5. \A w \in DOMAIN wrt_sets[t] :
          w \in DOMAIN Append(wrt_sets[t], new) /\ Append(wrt_sets[t], new)[w] = wrt_sets[t][w]
    BY <1>1, <2>1
  <2>6. QED
    BY <2>4, <2>5
<1>4. CASE LogChanges(t)
  <2>1. PICK ws \in WrtSets : SetCurrent(t, ws) /\ Grows(Current(t), ws)
    BY <1>4 DEF LogChanges
  <2>2. cur_wrt_set[t] /\ TailCnt(t) >= 1
    BY <1>4 DEF LogChanges, CurrentOf, OpenSet
  <2>3. /\ wrt_sets' \in [Threads -> Seq(WrtSets)] /\ TailCnt(t)' = TailCnt(t)
        /\ Current(t)' = ws
        /\ \A w \in 1 .. TailCnt(t) : w # TailCnt(t) => wrt_sets'[t][w] = wrt_sets[t][w]
    BY <2>1, <2>2, SetCurrentEffect
  <2>4. DOMAIN wrt_sets'[t] = 1 .. TailCnt(t)
    BY <2>3 DEF TailCnt
  <2>5. wrt_sets'[t][TailCnt(t)] = ws /\ Grows(wrt_sets[t][TailCnt(t)], ws)
    BY <2>1, <2>3 DEF Current
  <2>6. QED
    BY <1>1, <1>4, <2>2, <2>3, <2>4, <2>5
<1>5. CASE LogIsCut(t)
  <2>1. TailCnt(t) >= 1
    BY <1>5 DEF LogIsCut, CurrentOf, OpenSet
  <2>2. wrt_sets' = [wrt_sets EXCEPT ![t] = SubSeq(wrt_sets[t], 1, TailCnt(t) - 1)]
    BY <1>5 DEF LogIsCut
  <2>3. /\ SubSeq(wrt_sets[t], 1, TailCnt(t) - 1) \in Seq(WrtSets)
        /\ Len(SubSeq(wrt_sets[t], 1, TailCnt(t) - 1)) = TailCnt(t) - 1
        /\ \A w \in 1 .. TailCnt(t) - 1 : SubSeq(wrt_sets[t], 1, TailCnt(t) - 1)[w] = wrt_sets[t][w]
    BY <1>1, <2>1 DEF TailCnt
  <2>4. wrt_sets'[t] = SubSeq(wrt_sets[t], 1, TailCnt(t) - 1) /\ wrt_sets' \in [Threads -> Seq(WrtSets)]
    BY <1>1, <2>2, <2>3
  <2>5. \A w \in DOMAIN wrt_sets[t] : w # TailCnt(t) =>
          w \in DOMAIN wrt_sets'[t] /\ wrt_sets'[t][w] = wrt_sets[t][w]
    BY <1>1, <2>1, <2>3, <2>4
  <2>6. QED
    BY <1>5, <2>4, <2>5
<1>6. QED
  BY <1>2, <1>3, <1>4, <1>5 DEF LogEffect

\* A copy that stays in its log does so through any step, and keeps its object
\* and, once its write set is committed, its clock.
LEMMA KeptStays ==
  ASSUME LogTypes, ControlTypes, NEW t \in Threads, CurrentOf(t), SectionEffect(t), LogEffect(t),
         NEW a, Kept(a)
  PROVE  /\ Kept(a)' /\ CopyAt(a)'.obj = CopyAt(a).obj
         /\ get_wrt_clk(a)' = get_wrt_clk(a) \/ get_wrt_clk(a) = MAX_VERSION
<1>1. /\ a \in Addresses /\ a.thread \in Threads
      /\ a.ws \in DOMAIN wrt_sets[a.thread]
      /\ a.idx \in DOMAIN wrt_sets[a.thread][a.ws].objs
      /\ ~(Pending(a.thread) /\ a.ws = TailCnt(a.thread))
  BY DEF Kept, InLog, Addresses
<1>2. CASE a.thread # t
  <2>1. wrt_sets'[a.thread] = wrt_sets[a.thread] /\ cur_wrt_set'[a.thread] = cur_wrt_set[a.thread]
    BY <1>1, <1>2, OtherLogs
  <2>2. pc'[a.thread] = pc[a.thread]
    BY <1>1, <1>2 DEF SectionEffect, Actors
  <2>3. QED
    BY <1>1, <2>1, <2>2 DEF Kept, InLog, Pending, TailCnt, CopyAt, get_wrt_clk
<1>3. CASE a.thread = t
  <2>1. /\ wrt_sets' \in [Threads -> Seq(WrtSets)]
        /\ \/ a.ws \in DOMAIN wrt_sets'[t] /\ wrt_sets'[t][a.ws] = wrt_sets[t][a.ws]
           \/ /\ a.ws \in DOMAIN wrt_sets'[t] /\ a.ws = TailCnt(t) /\ cur_wrt_set[t]
              /\ LogChanges(t) /\ Grows(wrt_sets[t][a.ws], wrt_sets'[t][a.ws])
           \/ a.ws = TailCnt(t) /\ LogIsCut(t)
    BY <1>1, <1>3, OwnLog
  <2>2. ~(a.ws = TailCnt(t) /\ LogIsCut(t))
    BY <1>1, <1>3 DEF LogIsCut, Pending, CommitLocs
  <2>3. wrt_sets[t] \in Seq(WrtSets) /\ wrt_sets'[t] \in Seq(WrtSets)
    BY <2>1 DEF LogTypes
  <2>4. a.ws \in DOMAIN wrt_sets'[t] /\ a.ws \in DOMAIN wrt_sets[t]
    BY <1>1, <1>3, <2>1, <2>2
  <2> DEFINE old == wrt_sets[t][a.ws]
             new == wrt_sets'[t][a.ws]
  <2>5. a.idx \in DOMAIN new.objs /\ new.objs[a.idx].obj = old.objs[a.idx].obj
        /\ (new.wrt_clk = old.wrt_clk \/ old.wrt_clk = MAX_VERSION)
    <3>1. CASE new = old
      BY <1>1, <1>3, <3>1
    <3>2. CASE Grows(old, new)
      <4>1. old \in WrtSets /\ new \in WrtSets
        BY <2>3, <2>4
      <4>2. old.objs \in Seq(Copies) /\ new.objs \in Seq(Copies)
        BY <4>1 DEF WrtSets
      <4>3. a.idx \in DOMAIN old.objs
        BY <1>1, <1>3
      <4>4. Len(new.objs) >= Len(old.objs)
        BY <3>2 DEF Grows
      <4>5. a.idx \in DOMAIN new.objs
        BY <4>2, <4>3, <4>4, LongerSeq
      <4>6. QED
        BY <3>2, <4>3, <4>5 DEF Grows
    <3>3. QED
      BY <2>1, <2>2, <3>1, <3>2
  <2>6. InLog(a)' /\ CopyAt(a)'.obj = CopyAt(a).obj
        /\ (get_wrt_clk(a)' = get_wrt_clk(a) \/ get_wrt_clk(a) = MAX_VERSION)
    BY <1>1, <1>3, <2>4, <2>5 DEF InLog, CopyAt, get_wrt_clk
  <2>7. ~(Pending(t) /\ a.ws = TailCnt(t))'
    <3>1. CASE LogStays(t)
      BY <1>1, <1>3, <3>1 DEF LogStays, TailCnt
    <3>2. CASE LogOpens(t)
      <4>1. TailCnt(t)' = TailCnt(t) + 1
        BY <2>3, <3>2 DEF LogOpens, LogTypes, TailCnt
      <4>2. a.ws <= TailCnt(t) /\ TailCnt(t) \in Nat
        BY <1>1, <1>3, <2>3 DEF TailCnt
      <4>3. a.ws \in Nat
        BY <1>1 DEF Addresses
      <4>4. QED
        BY <4>1, <4>2, <4>3
    <3>3. CASE LogChanges(t)
      <4>1. TailCnt(t)' = TailCnt(t)
        BY <3>3, SetCurrentEffect DEF LogChanges, CurrentOf, OpenSet
      <4>2. QED
        BY <1>1, <1>3, <3>3, <4>1 DEF LogChanges
    <3>4. CASE LogCloses(t) \/ LogIsCut(t)
      BY <3>4 DEF LogCloses, LogIsCut, Pending, ControlTypes
    <3>5. QED
      BY <3>1, <3>2, <3>3, <3>4 DEF LogEffect
  <2>8. QED
    BY <1>3, <2>6, <2>7 DEF Kept
<1>4. QED
  BY <1>2, <1>3

\* A committed write set stays, with its clock.
LEMMA CommittedStays ==
  ASSUME LogTypes, ControlTypes, NEW t \in Threads, CurrentOf(t), LogEffect(t),
         NEW l \in Threads, NEW w \in DOMAIN wrt_sets[l], wrt_sets[l][w].wrt_clk < MAX_VERSION
  PROVE  /\ w \in DOMAIN wrt_sets'[l] /\ wrt_sets'[l][w].wrt_clk = wrt_sets[l][w].wrt_clk
         /\ DOMAIN wrt_sets[l][w].objs \subseteq DOMAIN wrt_sets'[l][w].objs
<1>1. CASE l # t
  BY <1>1, OtherLogs
<1>2. CASE l = t
  <2>1. /\ wrt_sets' \in [Threads -> Seq(WrtSets)]
        /\ \/ w \in DOMAIN wrt_sets'[t] /\ wrt_sets'[t][w] = wrt_sets[t][w]
           \/ /\ w \in DOMAIN wrt_sets'[t] /\ w = TailCnt(t) /\ cur_wrt_set[t]
              /\ LogChanges(t) /\ Grows(wrt_sets[t][w], wrt_sets'[t][w])
           \/ w = TailCnt(t) /\ LogIsCut(t)
    BY <1>2, OwnLog
  <2>2. ~(w = TailCnt(t) /\ LogIsCut(t))
    BY <1>2, BoundsAssumption DEF LogIsCut, CurrentOf, OpenSet, Current
  <2>3. wrt_sets[t][w] \in WrtSets
    BY <1>2 DEF LogTypes
  <2>4. CASE Grows(wrt_sets[t][w], wrt_sets'[t][w]) /\ w \in DOMAIN wrt_sets'[t]
    <3>1. wrt_sets'[t][w] \in WrtSets
      BY <2>1, <2>4
    <3>2. wrt_sets'[t][w].objs \in Seq(Copies) /\ wrt_sets[t][w].objs \in Seq(Copies)
      BY <2>3, <3>1 DEF WrtSets
    <3>3. QED
      BY <1>2, <2>3, <2>4, <3>2, BoundsAssumption DEF Grows, WrtSets
  <2>5. QED
    BY <1>2, <2>1, <2>2, <2>4
<1>3. QED
  BY <1>1, <1>2


(***************************************************************************)
(* The rest of a thread's state.                                           *)
(***************************************************************************)

\* What a step of a thread outside log_reclaim does besides: it changes its own
\* operands, puts a copy of its own into a chain, and leaves scans alone.
ChainsStay == p_copy' = p_copy
PutsCopy(t) ==
  /\ pc[t] = "cas" /\ pc'[t] = "move" /\ wrt_sets' = wrt_sets
  /\ \E o \in Objects : p_copy' = [p_copy EXCEPT ![o] = CurrentAddress(t, arg[t].idx)]

Frame(t) ==
  /\ \A u \in Threads : u # t => arg'[u] = arg[u]
  /\ ChainsStay \/ PutsCopy(t)
  /\ scan' = scan /\ reclaim_lock' = reclaim_lock /\ qp'.log = qp.log
  /\ pc'[t] \notin {"scan", "detach"}
  /\ arg' \in [Threads -> Args] /\ held' \in [Threads -> SUBSET Pointers]
  /\ free_ptrs' \in [Threads -> SUBSET Objects] /\ head_cnt' \in [Threads -> Nat]
  /\ p_lock' \in [Objects -> Addresses \union {NULL}]
  /\ p_copy' \in [Objects -> Addresses \union {NULL}]
  /\ actual' \in [Objects -> Contents] /\ released' \subseteq Objects

\* Locks that a thread gives up.
LEMMA UnlockedType ==
  ASSUME LogTypes, NEW t \in Threads
  PROVE  Unlocked(t) \in [Objects -> Addresses \union {NULL}]
BY DEF LogTypes, Unlocked

\* Addresses of copies of the current write set.
LEMMA CurrentAddressType ==
  ASSUME LogTypes, NEW t \in Threads, NEW i \in Nat
  PROVE  CurrentAddress(t, i) \in Addresses
<1>1. TailCnt(t) \in Nat
  BY DEF LogTypes, TailCnt
<1>2. QED
  BY <1>1 DEF CurrentAddress, Address, Addresses

\* A thread takes another operand, or another pointer.
LEMMA ArgIsSet ==
  ASSUME LogTypes, NEW t \in Threads, NEW v \in Args, arg' = arg \/ arg' = [arg EXCEPT ![t] = v]
  PROVE  arg' \in [Threads -> Args] /\ \A u \in Threads : u # t => arg'[u] = arg[u]
BY DEF LogTypes

\* What mvrlu_deref returned is a pointer to an object or to a copy.
LEMMA Holds ==
  ASSUME LogTypes, NEW t \in Threads, NEW o \in Objects, NEW p \in Addresses \union {ACTUAL},
         NEW c \in BOOLEAN, held' = held \/ Hold(t, o, p, c)
  PROVE  held' \in [Threads -> SUBSET Pointers]
<1> DEFINE new == held[t] \union {[obj |-> o, ptr |-> p, chain |-> c]}
<1>1. [obj |-> o, ptr |-> p, chain |-> c] \in Pointers
  BY DEF Pointers
<1>2. new \in SUBSET Pointers /\ held \in [Threads -> SUBSET Pointers]
  BY <1>1 DEF LogTypes
<1>3. held' = held \/ held' = [held EXCEPT ![t] = new]
  BY DEF Hold
<1> HIDE DEF new
<1>4. QED
  BY <1>2, <1>3

\* Pointers and operands a section takes have their types.
LEMMA ThreadFrame ==
  ASSUME LogInv, Places, ControlTypes, NEW t \in Threads, ThreadStep(t), ~log_reclaim(t)
  PROVE  Frame(t)
<1>0. /\ LogTypes /\ ChainInv /\ CurrentOf(t) /\ ArgOf(t)
      /\ t \in Actors /\ pc \in [Actors -> Locs \union QpLocs] /\ ret[t] \in ReturnLocs
      /\ arg \in [Threads -> Args] /\ held \in [Threads -> SUBSET Pointers]
      /\ free_ptrs \in [Threads -> SUBSET Objects] /\ head_cnt \in [Threads -> Nat]
      /\ p_lock \in [Objects -> Addresses \union {NULL}]
      /\ p_copy \in [Objects -> Addresses \union {NULL}]
      /\ actual \in [Objects -> Contents] /\ released \subseteq Objects
      /\ qp \in QpState /\ arg[t] \in Args /\ g_wrt_clk \in Nat /\ qp_clk2 \in [Threads -> Nat]
      /\ wrt_sets \in [Threads -> Seq(WrtSets)]
  BY DEF LogInv, Places, ControlTypes, Actors, LogTypes
<1>01. NoArg \in Args
  BY DEF NoArg, Args
<1> USE DEF objects, logs, clocks, reclaim, section, control, lists, Goto, CallReclaim, ReturnLocs
<1> USE DEF Frame, ChainsStay
<1>2. CASE mvrlu_reader_lock(t) \/ log_reclaim_force(t) \/ ForceWait(t) \/ BelowHighMark(t)
  BY <1>0, <1>2, WakeQpType DEF mvrlu_reader_lock, log_reclaim_force, ForceWait, BelowHighMark,
     StartSection
<1>3. CASE ReadClock(t)
  BY <1>0, <1>3 DEF ReadClock
<1>4. CASE DerefWalk(t)
  <2> DEFINE a == arg[t].ptr
             c == CopyAt(a)
  <2>1. arg[t].obj \in Objects /\ a \in Addresses /\ c \in Copies
    BY <1>0, <1>4, CopyType DEF DerefWalk, ArgOf, Kept, InLog
  <2>2. \/ arg' = [arg EXCEPT ![t] = NoArg]
        \/ arg' = [arg EXCEPT ![t] = [arg[t] EXCEPT !.ptr = c.p_copy]]
    BY <1>0, <1>4 DEF DerefWalk
  <2>3. c.p_copy \in Addresses \union {NULL}
    BY <2>1 DEF Copies
  <2>4. arg' \in [Threads -> Args] /\ \A u \in Threads : u # t => arg'[u] = arg[u]
    <3>1. [arg[t] EXCEPT !.ptr = c.p_copy] \in Args
      BY <1>0, <2>3 DEF Args
    <3>2. QED
      BY <1>0, <1>01, <2>2, <3>1, ArgIsSet
  <2>5. held' \in [Threads -> SUBSET Pointers]
    <3>1. held' = held \/ Hold(t, arg[t].obj, a, TRUE) \/ Hold(t, arg[t].obj, ACTUAL, TRUE)
      BY <1>4 DEF DerefWalk
    <3>2. QED
      BY <1>0, <2>1, <3>1, Holds
  <2>6. QED
    BY <1>0, <1>4, <2>4, <2>5 DEF DerefWalk
<1>5. CASE TryLockCas(t)
  <2>1. arg[t].obj \in Objects /\ Current(t).objs \in Seq(Copies)
    BY <1>0, <1>5, CurrentType DEF TryLockCas, ArgOf, CurrentOf, OpenSet
  <2>2. CurrentAddress(t, Len(Current(t).objs) + 1) \in Addresses
    BY <1>0, <2>1, CurrentAddressType
  <2>3. QED
    BY <1>0, <1>01, <1>5, <2>1, <2>2 DEF TryLockCas
<1>6. ASSUME NEW o \in Objects, DerefHead(t, o) PROVE Frame(t)
  <2>1. \/ arg' = arg
        \/ arg' = [arg EXCEPT ![t] = [NoArg EXCEPT !.obj = o, !.ptr = p_copy[o], !.clk = qp_clk2[t]]]
    BY <1>6 DEF DerefHead, ShortcutClock
  <2>2. held' = held \/ Hold(t, o, ACTUAL, FALSE)
    BY <1>6 DEF DerefHead
  <2>3. arg' \in [Threads -> Args] /\ \A u \in Threads : u # t => arg'[u] = arg[u]
    <3>1. [NoArg EXCEPT !.obj = o, !.ptr = p_copy[o], !.clk = qp_clk2[t]] \in Args
      BY <1>0 DEF NoArg, Args
    <3>2. QED
      BY <1>0, <2>1, <3>1, ArgIsSet
  <2>4. held' \in [Threads -> SUBSET Pointers]
    BY <1>0, <2>2, Holds
  <2>5. QED
    BY <1>0, <1>6, <2>3, <2>4 DEF DerefHead
<1>7. ASSUME NEW o \in Objects, TryLockRead(t, o) PROVE Frame(t)
  <2>1. \/ arg' = arg
        \/ arg' = [arg EXCEPT ![t] = [NoArg EXCEPT !.obj = o, !.ptr = p_copy[o]]]
    BY <1>7 DEF TryLockRead
  <2>2. arg' \in [Threads -> Args] /\ \A u \in Threads : u # t => arg'[u] = arg[u]
    <3>1. [NoArg EXCEPT !.obj = o, !.ptr = p_copy[o]] \in Args
      BY <1>0 DEF NoArg, Args
    <3>2. QED
      BY <1>0, <2>1, <3>1, ArgIsSet
  <2>3. pc'[t] \in {"lock", "failed"}
    BY <1>0, <1>7 DEF TryLockRead
  <2>4. QED
    BY <1>0, <1>7, <2>2, <2>3 DEF TryLockRead
<1>8. ASSUME NEW o \in Objects, mvrlu_free(t, o) PROVE Frame(t)
  BY <1>0, <1>8 DEF mvrlu_free
<1>9. CASE mvrlu_reader_unlock(t)
  <2>1. \/ arg' = arg \/ arg' = [arg EXCEPT ![t] = [arg[t] EXCEPT !.idx = 1]]
    BY <1>0, <1>9 DEF mvrlu_reader_unlock
  <2>2. arg' \in [Threads -> Args] /\ \A u \in Threads : u # t => arg'[u] = arg[u]
    <3>1. [arg[t] EXCEPT !.idx = 1] \in Args
      BY <1>0 DEF Args
    <3>2. QED
      BY <1>0, <2>1, <3>1, ArgIsSet
  <2>3. qp'.log = qp.log
    BY <1>0, <1>9, WakeQpType DEF mvrlu_reader_unlock
  <2>4. QED
    BY <1>0, <1>9, <2>2, <2>3 DEF mvrlu_reader_unlock, AfterSection, EndSection
<1>10. CASE MoveCopy(t)
  <2>1. \/ arg' = arg \/ arg' = [arg EXCEPT ![t] = [arg[t] EXCEPT !.idx = arg[t].idx + 1]]
    BY <1>0, <1>10 DEF MoveCopy
  <2>2. arg[t].idx + 1 \in Nat
    BY <1>0 DEF Args
  <2>3. arg' \in [Threads -> Args] /\ \A u \in Threads : u # t => arg'[u] = arg[u]
    <3>1. [arg[t] EXCEPT !.idx = arg[t].idx + 1] \in Args
      BY <1>0, <2>2 DEF Args
    <3>2. QED
      BY <1>0, <2>1, <3>1, ArgIsSet
  <2>4. pc'[t] \in {"move", "cas"}
    BY <1>0, <1>10 DEF MoveCopy
  <2>5. QED
    BY <1>0, <1>10, <2>3, <2>4 DEF MoveCopy
<1>11. CASE MoveCas(t)
  <2>1. \/ arg' = arg \/ arg' = [arg EXCEPT ![t] = [arg[t] EXCEPT !.idx = arg[t].idx + 1]]
    BY <1>0, <1>11 DEF MoveCas
  <2>2. arg[t].idx + 1 \in Nat /\ arg[t].idx \in Nat
    BY <1>0 DEF Args
  <2>3. arg' \in [Threads -> Args] /\ \A u \in Threads : u # t => arg'[u] = arg[u]
    <3>1. [arg[t] EXCEPT !.idx = arg[t].idx + 1] \in Args
      BY <1>0, <2>2 DEF Args
    <3>2. QED
      BY <1>0, <2>1, <3>1, ArgIsSet
  <2>4. cur_wrt_set[t] /\ arg[t].idx \in DOMAIN Current(t).objs
    <3>1. pc[t] = "cas"
      BY <1>11 DEF MoveCas
    <3>2. QED
      BY <1>0, <3>1 DEF CurrentOf, OpenSet, CommitLocs, ArgOf
  <2>5. Current(t).objs[arg[t].idx].obj \in Objects
    <3>1. Current(t).objs \in Seq(Copies)
      BY <1>0, <2>4, CurrentType
    <3>2. Current(t).objs[arg[t].idx] \in Copies
      BY <2>4, <3>1
    <3>3. QED
      BY <3>2 DEF Copies
  <2>6. ChainsStay \/ PutsCopy(t)
    <3>1. CASE p_copy[Current(t).objs[arg[t].idx].obj] = Current(t).objs[arg[t].idx].p_copy
      BY <1>0, <1>11, <2>5, <3>1 DEF MoveCas, PutsCopy
    <3>2. CASE p_copy[Current(t).objs[arg[t].idx].obj] # Current(t).objs[arg[t].idx].p_copy
      BY <1>11, <3>2 DEF MoveCas
    <3>3. QED
      BY <3>1, <3>2
  <2>7. p_copy' \in [Objects -> Addresses \union {NULL}]
    <3>1. CurrentAddress(t, arg[t].idx) \in Addresses
      BY <1>0, <2>2, CurrentAddressType
    <3>2. QED
      BY <1>0, <2>6, <3>1 DEF PutsCopy
  <2>8. QED
    BY <1>0, <1>11, <2>3, <2>6, <2>7 DEF MoveCas
<1>12. CASE LoadClock(t)
  <2>1. arg' = [arg EXCEPT ![t] = [arg[t] EXCEPT !.clk = g_wrt_clk + 1]]
    BY <1>12 DEF LoadClock
  <2>2. arg' \in [Threads -> Args] /\ \A u \in Threads : u # t => arg'[u] = arg[u]
    <3>1. [arg[t] EXCEPT !.clk = g_wrt_clk + 1] \in Args
      <4>1. g_wrt_clk + 1 \in Nat /\ arg[t] \in Args
        BY <1>0
      <4>2. QED
        BY <4>1 DEF Args
    <3>2. QED
      BY <1>0, <2>1, <3>1, ArgIsSet
  <2>3. QED
    BY <1>0, <1>12, <2>2 DEF LoadClock
<1>13. CASE StoreClock(t)
  BY <1>0, <1>13 DEF StoreClock
<1>14. CASE AdvanceClock(t) \/ mvrlu_abort(t)
  BY <1>0, <1>01, <1>14 DEF AdvanceClock, mvrlu_abort, EndSection
<1>15. CASE ws_unlock(t)
  BY <1>0, <1>15, UnlockedType, WakeQpType DEF ws_unlock, AfterSection, CheckLowMark
<1>16. CASE AfterReclaim(t)
  BY <1>0, <1>16, WakeQpType DEF AfterReclaim, CheckLowMark
<1>17. CASE log_abort(t)
  <2>1. p_lock' \in [Objects -> Addresses \union {NULL}]
    BY <1>0, <1>17, UnlockedType DEF log_abort
  <2>2. free_ptrs' \in [Threads -> SUBSET Objects]
    BY <1>0, <1>17 DEF log_abort
  <2>3. QED
    BY <1>0, <1>17, <2>1, <2>2 DEF log_abort, AfterSection
<1>18. CASE mvrlu_flush_log(t) \/ mvrlu_thread_finish(t) \/ LeaveLists(t)
  BY <1>0, <1>18 DEF mvrlu_flush_log, mvrlu_thread_finish, LeaveLists, NoMoreSections
<1>19. QED
  BY <1>2, <1>3, <1>4, <1>5, <1>6, <1>7, <1>8, <1>9, <1>10, <1>11, <1>12, <1>13, <1>14,
     <1>15, <1>16, <1>17, <1>18 DEF ThreadStep


(***************************************************************************)
(* LogInv is inductive, as long as the clock fits.                         *)
(***************************************************************************)
LEMMA InitLog == Init => LogInv
<1> SUFFICES ASSUME Init PROVE LogInv
  OBVIOUS
<1>1. LogTypes
  <2>1. /\ NoArg \in Args /\ NoScan \in Scans
        /\ \A o \in Objects : [n |-> 0, links |-> IF o = Root THEN Objects \ {Root} ELSE {}] \in Contents
    BY DEF NoArg, Args, NoScan, Scans, Contents
  <2>2. QED
    BY <2>1 DEF Init, LogTypes
<1>2. \A t \in Threads : wrt_sets[t] = <<>> /\ ~cur_wrt_set[t] /\ pc[t] = "idle" /\ TailCnt(t) = 0
  BY ActorsAssumption DEF Init, Actors, TailCnt
<1>3. ChainInv
  BY <1>2 DEF Init, ChainInv
<1>4. ScanInv
  BY DEF Init, ScanInv, NoScan, Actors
<1>5. ASSUME NEW t \in Threads PROVE CurrentOf(t) /\ ArgOf(t)
  BY <1>2 DEF CurrentOf, OpenSet, DoneSets, ArgOf, CommitLocs
<1>6. QED
  BY <1>1, <1>3, <1>4, <1>5 DEF LogInv

\* log_reclaim cuts chains off objects and goes through one log.
LEMMA ReclaimScan ==
  ASSUME LogInv, QpInv, VersionsFit, NEW a \in Actors, log_reclaim(a)
  PROVE  /\ wrt_sets' = wrt_sets /\ cur_wrt_set' = cur_wrt_set /\ arg' = arg
         /\ p_lock' = p_lock /\ g_wrt_clk' = g_wrt_clk
         /\ LogTypes' /\ ScanInv'
         /\ \A o \in Objects : p_copy'[o] \in {p_copy[o], NULL}
         /\ pc[a] \in ReclaimLocs /\ pc'[a] \in ReclaimLocs \union ReturnLocs \union {"reaped", "help"}
         /\ \A b \in Actors : b # a => pc'[b] = pc[b]
<1> DEFINE l == LogOf(a)
           w == scan[l].ws + 1
           Place == /\ pc[a] \in ReclaimLocs
                    /\ pc'[a] \in ReclaimLocs \union ReturnLocs \union {"reaped", "help"}
                    /\ \A b \in Actors : b # a => pc'[b] = pc[b]
           Rest == /\ LogTypes' /\ ScanInv' /\ Place
                   /\ \A o \in Objects : p_copy'[o] \in {p_copy[o], NULL}
<1> USE DEF objects, logs, clocks, reclaim, section, control, lists, Goto
<1>0. /\ LogTypes /\ ScanInv /\ ControlTypes /\ Places /\ ClockBounds
      /\ pc \in [Actors -> Locs \union QpLocs] /\ a \in Actors
      /\ ret[a] \in ReturnLocs \union {"reaped", "help"}
  BY DEF LogInv, QpInv, Places
<1>01. \A k \in Threads : /\ scan[k].clk1 <= g_wrt_clk /\ scan[k].clk2 <= g_wrt_clk
                          /\ scan[k].idx > 1 => ScanAt(k)
  BY <1>0 DEF ScanInv
<1>02. \A b \in Actors : pc[b] \in {"scan", "detach"} =>
         /\ reclaim_lock[LogOf(b)] = b /\ scan[LogOf(b)].idx >= 1
         /\ pc[b] = "detach" => ScanAt(LogOf(b))
  BY <1>0 DEF ScanInv
<1>1. pc[a] \in ReclaimLocs /\ qp' = qp
  BY DEF log_reclaim, TryReclaimLock, ReclaimWrtSet, WriteBackCopy, try_detach_obj, EndScan, ReclaimLocs
<1>2. l \in Threads
  BY <1>0, <1>1 DEF LogOf, Places, Actors
<1>3. /\ wrt_sets' = wrt_sets /\ cur_wrt_set' = cur_wrt_set /\ arg' = arg
      /\ p_lock' = p_lock /\ g_wrt_clk' = g_wrt_clk
  BY DEF log_reclaim, TryReclaimLock, ReclaimWrtSet, WriteBackCopy, try_detach_obj, EndScan
<1>4. \A b \in Actors : LogOf(b)' = LogOf(b)
  BY <1>1 DEF LogOf
<1>5. /\ scan \in [Threads -> Scans] /\ wrt_sets \in [Threads -> Seq(WrtSets)]
      /\ wrt_sets[l] \in Seq(WrtSets) /\ scan[l] \in Scans /\ scan[l].ws \in Nat /\ scan[l].idx \in Nat
      /\ scan[l].clk1 \in Nat /\ scan[l].clk2 \in Nat /\ scan[l].tail \in Nat
      /\ reclaim_lock \in [Threads -> Actors \union {NULL}]
      /\ p_copy \in [Objects -> Addresses \union {NULL}]
      /\ actual \in [Objects -> Contents] /\ released \subseteq Objects
      /\ head_cnt \in [Threads -> Nat] /\ g_wrt_clk \in Nat
  BY <1>0, <1>2 DEF LogTypes, Scans, ControlTypes
<1>6. ASSUME pc[a] = "scan", ~ScanEnds(l)
      PROVE  /\ w \in DOMAIN wrt_sets[l] /\ wrt_sets[l][w] \in WrtSets
             /\ wrt_sets[l][w].wrt_clk <= scan[l].clk1 /\ wrt_sets[l][w].wrt_clk \in Nat
             /\ wrt_sets[l][w].wrt_clk < MAX_VERSION
             /\ wrt_sets[l][w].objs \in Seq(Copies)
  <2>1. w \in Nat /\ w >= 1 /\ w <= Len(wrt_sets[l])
    BY <1>5, <1>6 DEF ScanEnds, TailCnt
  <2>2. w \in DOMAIN wrt_sets[l] /\ wrt_sets[l][w] \in WrtSets
    BY <1>5, <2>1
  <2>3. wrt_sets[l][w].wrt_clk \in Nat /\ wrt_sets[l][w].objs \in Seq(Copies)
    BY <2>2 DEF WrtSets
  <2>4. ~(wrt_sets[l][w].wrt_clk > scan[l].clk1)
    BY <1>6 DEF ScanEnds
  <2>5. scan[l].clk1 <= g_wrt_clk
    BY <1>01, <1>2
  <2>6. QED
    BY <1>5, <2>2, <2>3, <2>4, <2>5, BoundsAssumption DEF VersionsFit
\* What is left to show of scan when its value for the log is s.
<1> DEFINE Fits(s) == /\ s \in Scans
                      /\ s.clk1 <= g_wrt_clk /\ s.clk2 <= g_wrt_clk
                      /\ s.idx > 1 => /\ s.ws + 1 \in DOMAIN wrt_sets[l]
                                      /\ wrt_sets[l][s.ws + 1].wrt_clk < MAX_VERSION
                                      /\ wrt_sets[l][s.ws + 1].wrt_clk > s.clk2
                                      /\ s.idx \in DOMAIN wrt_sets[l][s.ws + 1].objs
<1>7. ASSUME NEW s, Fits(s), scan' = [scan EXCEPT ![l] = s],
             \A b \in Actors : b # a => pc'[b] = pc[b],
             \A b \in Actors : b # a /\ pc[b] \in {"scan", "detach"} =>
               LogOf(b) # l /\ reclaim_lock'[LogOf(b)] = reclaim_lock[LogOf(b)],
             pc'[a] \in {"scan", "detach"} => reclaim_lock'[l] = a /\ s.idx >= 1,
             pc'[a] # "detach"
      PROVE  ScanInv' /\ scan' \in [Threads -> Scans]
  <2>1. /\ scan'[l] = s /\ \A k \in Threads : k # l => scan'[k] = scan[k]
        /\ scan' \in [Threads -> Scans]
    BY <1>2, <1>5, <1>7
  <2>2. ASSUME NEW k \in Threads
        PROVE  /\ scan'[k].clk1 <= g_wrt_clk /\ scan'[k].clk2 <= g_wrt_clk
               /\ scan'[k].idx > 1 => ScanAt(k)'
    <3>1. CASE k = l
      BY <1>3, <1>7, <2>1, <3>1 DEF ScanAt
    <3>2. CASE k # l
      BY <1>01, <1>3, <2>1, <3>2 DEF ScanAt
    <3>3. QED
      BY <3>1, <3>2
  <2>3. ASSUME NEW b \in Actors, pc'[b] \in {"scan", "detach"}
        PROVE  /\ reclaim_lock'[LogOf(b)] = b /\ scan'[LogOf(b)].idx >= 1
               /\ pc'[b] = "detach" => ScanAt(LogOf(b))'
    <3>1. CASE b = a
      BY <1>7, <2>1, <2>3, <3>1
    <3>2. CASE b # a
      <4>1. LogOf(b) \in Threads
        BY <1>0, <1>7, <2>3, <3>2 DEF LogOf, Places, Actors, ReclaimLocs
      <4>2. QED
        <5>1. /\ pc[b] \in {"scan", "detach"} /\ LogOf(b) # l /\ pc'[b] = pc[b]
              /\ reclaim_lock'[LogOf(b)] = reclaim_lock[LogOf(b)] /\ scan'[LogOf(b)] = scan[LogOf(b)]
          BY <1>7, <2>1, <2>3, <3>2, <4>1
        <5>2. ScanAt(LogOf(b)) => ScanAt(LogOf(b))'
          BY <1>3, <1>4, <5>1 DEF ScanAt
        <5>3. QED
          BY <1>02, <5>1, <5>2
    <3>3. QED
      BY <3>1, <3>2
  <2>4. QED
    BY <1>3, <1>4, <2>1, <2>2, <2>3 DEF ScanInv
<1>8. ASSUME NEW b \in Actors, b # a, pc[b] \in {"scan", "detach"}
      PROVE  reclaim_lock[LogOf(b)] = b
  BY <1>02, <1>8
<1>9. ASSUME pc[a] \in {"scan", "detach"}
      PROVE  reclaim_lock[l] = a /\ scan[l].idx >= 1
  BY <1>02, <1>9
<1>10. \A k \in Threads : wrt_sets[k] \in Seq(WrtSets)
  BY <1>5
\* The copy after the one that was looked at.
<1>11. ASSUME w \in DOMAIN wrt_sets[l], wrt_sets[l][w].wrt_clk < MAX_VERSION,
              wrt_sets[l][w].wrt_clk > scan[l].clk2, scan' = NextCopy(l)
       PROVE  \E s : Fits(s) /\ s.idx >= 1 /\ scan' = [scan EXCEPT ![l] = s]
  <2>1. scan[l].clk1 <= g_wrt_clk /\ scan[l].clk2 <= g_wrt_clk
    BY <1>01, <1>2
  <2>2. wrt_sets[l][w].objs \in Seq(Copies)
    <3>1. wrt_sets[l][w] \in WrtSets
      BY <1>5, <1>11
    <3>2. QED
      BY <3>1 DEF WrtSets
  <2>3. CASE scan[l].idx < Len(wrt_sets[l][w].objs)
    <3> DEFINE s == [scan[l] EXCEPT !.idx = @ + 1]
    <3>1. scan' = [scan EXCEPT ![l] = s]
      BY <1>11, <2>3 DEF NextCopy
    <3>2. /\ s \in Scans /\ s.idx = scan[l].idx + 1 /\ s.ws = scan[l].ws
          /\ s.clk1 = scan[l].clk1 /\ s.clk2 = scan[l].clk2
      <4>1. scan[l] \in Scans
        BY <1>5
      <4>2. QED
        BY <4>1 DEF Scans
    <3>3. s.idx \in DOMAIN wrt_sets[l][w].objs
      BY <1>5, <2>2, <2>3, <3>2
    <3>4. Fits(s) /\ s.idx >= 1
      BY <1>5, <1>11, <2>1, <3>2, <3>3
    <3>5. QED
      BY <3>1, <3>4
  <2>4. CASE ~(scan[l].idx < Len(wrt_sets[l][w].objs))
    <3> DEFINE s == [scan[l] EXCEPT !.ws = w, !.idx = 1]
    <3>1. scan' = [scan EXCEPT ![l] = s]
      BY <1>11, <2>4 DEF NextCopy
    <3>2. s \in Scans /\ s.idx = 1 /\ s.clk1 = scan[l].clk1 /\ s.clk2 = scan[l].clk2
      <4>1. scan[l] \in Scans /\ w \in Nat
        BY <1>5
      <4>2. QED
        BY <4>1 DEF Scans
    <3>3. Fits(s) /\ s.idx >= 1
      BY <2>1, <3>2
    <3>4. QED
      BY <3>1, <3>3
  <2>5. QED
    BY <2>3, <2>4
<1> SUFFICES Rest
  BY <1>3
<1>12. CASE TryReclaimLock(a)
  <2>1. CASE reclaim_lock[l] = NULL
    <3> DEFINE s == [clk1 |-> qp_clk1[l], clk2 |-> qp_clk2[l],
                     tail |-> TailCnt(l), ws |-> head_cnt[l], idx |-> 1]
    <3>1. /\ scan' = [scan EXCEPT ![l] = s] /\ reclaim_lock' = [reclaim_lock EXCEPT ![l] = a]
          /\ pc' = [pc EXCEPT ![a] = "scan"] /\ UNCHANGED <<objects, logs>> /\ held' = held
      BY <1>12, <2>1 DEF TryReclaimLock
    <3>2. Fits(s)
      BY <1>0, <1>2, <1>5 DEF Scans, ControlTypes, ClockBounds, TailCnt
    <3>3. ScanInv' /\ scan' \in [Threads -> Scans]
      <4> HIDE DEF s, Fits
      <4>1. s.idx >= 1
        BY DEF s
      <4>2. \A b \in Actors : b # a /\ pc[b] \in {"scan", "detach"} =>
               LogOf(b) # l /\ reclaim_lock'[LogOf(b)] = reclaim_lock[LogOf(b)]
        BY <1>2, <1>5, <1>8, <2>1, <3>1, MarkerAssumption
      <4>3. /\ \A b \in Actors : b # a => pc'[b] = pc[b] /\ pc'[a] = "scan"
            /\ pc'[a] = "scan" /\ reclaim_lock'[l] = a
        BY <1>0, <1>2, <1>5, <3>1
      <4>4. QED
        BY <1>7, <3>1, <3>2, <4>1, <4>2, <4>3
    <3>4. Place
      BY <1>0, <1>1, <3>1 DEF ReclaimLocs
    <3>5. QED
      BY <1>0, <1>3, <3>1, <3>3, <3>4 DEF LogTypes
  <2>2. CASE reclaim_lock[l] # NULL
    <3>1. /\ UNCHANGED <<objects, logs, reclaim, section>> /\ pc' = [pc EXCEPT ![a] = ret[a]]
      BY <1>12, <2>2 DEF TryReclaimLock
    <3>2. pc'[a] = ret[a] /\ \A b \in Actors : b # a => pc'[b] = pc[b]
      BY <1>0, <3>1
    <3>3. ScanInv'
      BY <1>0, <1>3, <1>4, <3>1, <3>2 DEF ScanInv, ScanAt, ReturnLocs
    <3>4. QED
      BY <1>0, <1>1, <3>1, <3>2, <3>3 DEF LogTypes
  <2>3. QED
    BY <2>1, <2>2
<1>13. CASE ReclaimWrtSet(a)
  <2> DEFINE s == [scan[l] EXCEPT !.ws = w]
  <2>1. /\ pc[a] = "scan" /\ ~ScanEnds(l) /\ wrt_sets[l][w].wrt_clk <= scan[l].clk2
        /\ scan' = [scan EXCEPT ![l] = s] /\ head_cnt' = [head_cnt EXCEPT ![l] = w]
        /\ reclaim_lock' = reclaim_lock /\ pc' = pc
        /\ UNCHANGED <<p_lock, p_copy, actual, wrt_sets, free_ptrs, section>>
    BY <1>13 DEF ReclaimWrtSet
  <2>2. released' \subseteq Objects
    <3>1. \A i \in DOMAIN wrt_sets[l][w].objs : wrt_sets[l][w].objs[i].obj \in Objects
      <4>1. wrt_sets[l][w].objs \in Seq(Copies)
        BY <1>6, <2>1
      <4>2. \A i \in DOMAIN wrt_sets[l][w].objs : wrt_sets[l][w].objs[i] \in Copies
        BY <4>1
      <4>3. QED
        BY <4>2 DEF Copies
    <3>2. released' = released \union
            {wrt_sets[l][w].objs[i].obj :
               i \in {j \in DOMAIN wrt_sets[l][w].objs : wrt_sets[l][w].objs[j].type = "free"}}
      BY <1>13 DEF ReclaimWrtSet
    <3>3. QED
      BY <1>5, <3>1, <3>2
  <2>3. ~(scan[l].idx > 1)
    <3>1. wrt_sets[l][w].wrt_clk \in Nat /\ scan[l].clk2 \in Nat
      BY <1>5, <1>6, <2>1
    <3>2. ~ScanAt(l)
      BY <2>1, <3>1 DEF ScanAt
    <3>3. QED
      BY <1>01, <1>2, <3>2
  <2>4. Fits(s) /\ s.idx >= 1
    <3>1. scan[l] \in Scans /\ w \in Nat
      BY <1>5
    <3>2. s \in Scans /\ s.idx = scan[l].idx /\ s.clk1 = scan[l].clk1 /\ s.clk2 = scan[l].clk2
      BY <3>1 DEF Scans
    <3>3. QED
      BY <1>01, <1>2, <1>9, <2>1, <2>3, <3>2
  <2>5. ScanInv' /\ scan' \in [Threads -> Scans]
    <3> HIDE DEF s, Fits
    <3>1. QED
      BY <1>7, <1>8, <1>9, <2>1, <2>4
  <2>6. QED
    BY <1>0, <1>1, <1>5, <2>1, <2>2, <2>5 DEF LogTypes
<1>14. CASE WriteBackCopy(a)
  <2> DEFINE c == wrt_sets[l][w].objs[scan[l].idx]
  <2>1. /\ pc[a] = "scan" /\ ~ScanEnds(l) /\ wrt_sets[l][w].wrt_clk > scan[l].clk2
        /\ reclaim_lock' = reclaim_lock
        /\ UNCHANGED <<p_lock, p_copy, released, logs, section>>
    BY <1>14 DEF WriteBackCopy
  <2>2. \/ /\ c.type = "copy" /\ actual' = [actual EXCEPT ![c.obj] = c.val]
           /\ pc' = [pc EXCEPT ![a] = "detach"] /\ scan' = scan
        \/ scan' = NextCopy(l) /\ actual' = actual /\ pc' = pc
    BY <1>14 DEF WriteBackCopy
  <2>3. Len(wrt_sets[l][w].objs) >= 1
    <3>1. CurrentOf(l) /\ l \in Threads
      BY <1>2 DEF LogInv
    <3>2. w \in 1 .. TailCnt(l)
      BY <1>5, <1>6, <2>1 DEF TailCnt
    <3>3. CASE cur_wrt_set[l] /\ w = TailCnt(l)
      <4>1. wrt_sets[l][w].wrt_clk # MAX_VERSION
        BY <1>6, <2>1, BoundsAssumption
      <4>2. QED
        BY <3>1, <3>3, <4>1 DEF CurrentOf, OpenSet, Current
    <3>4. QED
      BY <3>1, <3>2, <3>3 DEF CurrentOf, DoneSets
  <2>4. CASE pc' = [pc EXCEPT ![a] = "detach"]
    <3>0. c.type = "copy" /\ actual' = [actual EXCEPT ![c.obj] = c.val] /\ scan' = scan
      BY <1>0, <2>1, <2>2, <2>4
    <3>1. scan[l].idx \in DOMAIN wrt_sets[l][w].objs
      <4>1. scan[l].idx >= 1 /\ wrt_sets[l][w].objs \in Seq(Copies)
        BY <1>6, <1>9, <2>1
      <4>2. CASE scan[l].idx > 1
        BY <1>01, <1>2, <4>2 DEF ScanAt
      <4>3. CASE ~(scan[l].idx > 1)
        <5>1. scan[l].idx = 1
          BY <1>5, <4>1, <4>3
        <5>2. QED
          BY <2>3, <4>1, <5>1
      <4>4. QED
        BY <4>2, <4>3
    <3>2. c \in Copies
      BY <1>6, <2>1, <3>1
    <3>3. actual' \in [Objects -> Contents]
      BY <1>5, <3>0, <3>2 DEF Copies
    <3>4. pc'[a] = "detach" /\ \A b \in Actors : b # a => pc'[b] = pc[b]
      BY <1>0, <2>4
    <3>5. ScanAt(l)
      BY <1>6, <2>1, <3>1 DEF ScanAt
    <3>6. ScanInv'
      BY <1>0, <1>3, <1>4, <1>9, <2>1, <3>0, <3>4, <3>5 DEF ScanInv, ScanAt
    <3>7. QED
      BY <1>0, <1>1, <2>1, <3>0, <3>3, <3>4, <3>6 DEF LogTypes, ReclaimLocs
  <2>5. CASE scan' = NextCopy(l) /\ actual' = actual /\ pc' = pc
    <3>1. PICK s : Fits(s) /\ s.idx >= 1 /\ scan' = [scan EXCEPT ![l] = s]
      BY <1>6, <1>11, <2>1, <2>5
    <3>2. ScanInv' /\ scan' \in [Threads -> Scans]
      <4> HIDE DEF Fits
      <4>1. QED
        BY <1>7, <1>8, <1>9, <2>1, <2>5, <3>1
    <3>3. QED
      BY <1>0, <1>1, <1>5, <2>1, <2>5, <3>2 DEF LogTypes
  <2>6. QED
    BY <2>2, <2>4, <2>5
<1>15. CASE try_detach_obj(a)
  <2> DEFINE o == CopyAt(Address(l, w, scan[l].idx)).obj
  <2>1. /\ pc[a] = "detach" /\ scan' = NextCopy(l) /\ pc' = [pc EXCEPT ![a] = "scan"]
        /\ reclaim_lock' = reclaim_lock
        /\ p_copy' = p_copy \/ p_copy' = [p_copy EXCEPT ![o] = NULL]
        /\ UNCHANGED <<p_lock, actual, released, logs, section>>
    BY <1>15 DEF try_detach_obj
  <2>2. ScanAt(l)
    BY <1>02, <2>1
  <2>3. PICK s : Fits(s) /\ s.idx >= 1 /\ scan' = [scan EXCEPT ![l] = s]
    BY <1>11, <2>1, <2>2 DEF ScanAt
  <2>4. pc'[a] = "scan" /\ \A b \in Actors : b # a => pc'[b] = pc[b]
    BY <1>0, <2>1
  <2>5. ScanInv' /\ scan' \in [Threads -> Scans]
    <3> HIDE DEF Fits
    <3>1. QED
      BY <1>7, <1>8, <1>9, <2>1, <2>3, <2>4
  <2>6. p_copy' \in [Objects -> Addresses \union {NULL}] /\ \A x \in Objects : p_copy'[x] \in {p_copy[x], NULL}
    BY <1>5, <2>1
  <2>7. QED
    BY <1>0, <1>1, <1>5, <2>1, <2>4, <2>5, <2>6 DEF LogTypes, ReclaimLocs
<1>16. CASE EndScan(a)
  <2>1. /\ pc[a] = "scan" /\ scan' = [scan EXCEPT ![l] = NoScan]
        /\ reclaim_lock' = [reclaim_lock EXCEPT ![l] = NULL] /\ pc' = [pc EXCEPT ![a] = ret[a]]
        /\ UNCHANGED <<objects, logs, section>>
    BY <1>16 DEF EndScan
  <2>2. pc'[a] = ret[a] /\ \A b \in Actors : b # a => pc'[b] = pc[b]
    BY <1>0, <2>1
  <2>3. Fits(NoScan)
    BY <1>5 DEF NoScan, Scans
  <2>4. ScanInv' /\ scan' \in [Threads -> Scans]
    <3>1. \A b \in Actors : b # a /\ pc[b] \in {"scan", "detach"} =>
             LogOf(b) # l /\ reclaim_lock'[LogOf(b)] = reclaim_lock[LogOf(b)]
      <4>1. reclaim_lock[l] = a
        BY <1>9, <2>1
      <4>2. QED
        BY <1>2, <1>5, <1>8, <2>1, <4>1
    <3>2. pc'[a] \notin {"scan", "detach"}
      BY <1>0, <2>2 DEF ReturnLocs
    <3> HIDE DEF Fits
    <3>3. QED
      BY <1>7, <2>1, <2>2, <2>3, <3>1, <3>2
  <2>5. QED
    BY <1>0, <1>1, <1>5, <2>1, <2>2, <2>4 DEF LogTypes
<1>17. QED
  BY <1>12, <1>13, <1>14, <1>15, <1>16 DEF log_reclaim


\* log_reclaim, by whichever actor.
LEMMA ReclaimLog ==
  ASSUME LogInv, QpInv, VersionsFit, NEW a \in Actors, log_reclaim(a)
  PROVE  LogInv'
<1>1. /\ wrt_sets' = wrt_sets /\ cur_wrt_set' = cur_wrt_set /\ arg' = arg
      /\ g_wrt_clk' = g_wrt_clk /\ LogTypes' /\ ScanInv'
      /\ \A o \in Objects : p_copy'[o] \in {p_copy[o], NULL}
      /\ pc[a] \in ReclaimLocs /\ pc'[a] \in ReclaimLocs \union ReturnLocs \union {"reaped", "help"}
      /\ \A b \in Actors : b # a => pc'[b] = pc[b]
  BY ReclaimScan
<1>2. ASSUME NEW t \in Threads PROVE ~cur_wrt_set[t] \/ pc'[t] = pc[t]
  <2>1. CurrentOf(t) /\ t \in Actors
    BY DEF LogInv, Actors
  <2>2. CASE t = a
    BY <1>1, <2>1, <2>2 DEF CurrentOf, OpenSet, ReclaimLocs, SectionLocs, CommitLocs
  <2>3. QED
    BY <1>1, <2>1, <2>2
<1>3. \A t \in Threads : CurrentOf(t)' /\ ArgOf(t)'
  <2> SUFFICES ASSUME NEW t \in Threads PROVE CurrentOf(t)' /\ ArgOf(t)'
    OBVIOUS
  <2>1. CurrentOf(t) /\ ArgOf(t) /\ t \in Actors
    BY DEF LogInv, Actors
  <2>2. CASE pc'[t] = pc[t]
    <3>1. CurrentOf(t)'
      BY <1>1, <2>1, <2>2 DEF CurrentOf, OpenSet, DoneSets, TailCnt, Current
    <3>2. \A p : Kept(p) => Kept(p)'
      BY <1>1, <1>2 DEF Kept, InLog, Pending, TailCnt, Addresses
    <3>3. QED
      BY <1>1, <2>1, <2>2, <3>1, <3>2 DEF ArgOf, TailCnt, Current
  <2>3. CASE pc'[t] # pc[t]
    <3>1. t = a /\ ~cur_wrt_set[t]
      BY <1>1, <1>2, <2>1, <2>3
    <3>2. pc'[t] \notin CommitLocs \union {"unlock", "lock", "walk", "move", "cas", "store_clock"}
      BY <1>1, <3>1 DEF ReclaimLocs, ReturnLocs, CommitLocs
    <3>3. QED
      BY <1>1, <2>1, <3>1, <3>2 DEF CurrentOf, OpenSet, DoneSets, TailCnt, Current, ArgOf
  <2>4. QED
    BY <2>2, <2>3
<1>4. \A p : Kept(p) => Kept(p)'
  BY <1>1, <1>2 DEF Kept, InLog, Pending, TailCnt, Addresses
<1>5. ChainInv'
  BY <1>1, <1>4 DEF LogInv, ChainInv
<1>6. QED
  BY <1>1, <1>3, <1>5 DEF LogInv

\* The rest of QP leaves logs alone.
LEMMA QpLog ==
  ASSUME LogInv, QpInv, VersionsFit, QpStep
  PROVE  LogInv'
<1>1. CASE log_reclaim(QP)
  BY <1>1, ReclaimLog DEF Actors
<1> USE DEF objects, logs, clocks, reclaim, section, control, lists, Goto, CallReclaim
<1>2. CASE ~log_reclaim(QP)
  <2>1. /\ UNCHANGED <<g_wrt_clk, objects, logs, reclaim, section>>
    BY <1>2 DEF QpStep, QpReadClock, qp_init, qp_wait, QpReaped, QpReapDone, QpCheck, QpTrigger,
       QpStop, QpReap, QpHelp
  <2>2. /\ \A t \in Threads : pc'[t] = pc[t]
        /\ pc'[QP] \notin {"scan", "detach"}
    <3>1. pc \in [Actors -> Locs \union QpLocs] /\ Places
      BY DEF QpInv, Places
    <3>2. \E loc \in {"qp_init", "qp_wait", "may_trigger", "reap", "try_reclaim", "help", "final",
                      "detect", "finished"} : pc' = [pc EXCEPT ![QP] = loc]
      BY <1>2 DEF QpStep, QpReadClock, qp_init, qp_wait, QpReaped, QpReapDone, QpCheck, QpTrigger,
         QpStop, QpReap, QpHelp
    <3>3. QED
      BY <3>1, <3>2, ActorsAssumption DEF Actors
  <2>3. LogTypes'
    BY <2>1 DEF LogInv, LogTypes
  <2>4. ChainInv'
    <3>1. \A p : Kept(p) => Kept(p)'
      BY <2>1, <2>2 DEF Kept, InLog, Pending, TailCnt, Addresses
    <3>2. QED
      BY <2>1, <3>1 DEF LogInv, ChainInv
  <2>5. ScanInv'
    <3>1. ScanInv /\ scan' = scan /\ wrt_sets' = wrt_sets /\ g_wrt_clk' = g_wrt_clk
          /\ reclaim_lock' = reclaim_lock
      BY <2>1 DEF LogInv
    <3>2. \A l \in Threads : ScanAt(l) => ScanAt(l)'
      BY <3>1 DEF ScanAt
    <3>3. ASSUME NEW b \in Actors, pc'[b] \in {"scan", "detach"}
          PROVE  /\ b \in Threads /\ LogOf(b) = b /\ LogOf(b)' = b /\ pc[b] = pc'[b]
      BY <2>2, <3>3, ActorsAssumption DEF LogOf, Actors
    <3>4. QED
      BY <3>1, <3>2, <3>3 DEF ScanInv
  <2>6. \A t \in Threads : CurrentOf(t)' /\ ArgOf(t)'
    BY <2>1, <2>2 DEF LogInv, CurrentOf, OpenSet, DoneSets, ArgOf, TailCnt, Current, Kept, InLog,
       Pending, Addresses
  <2>7. QED
    BY <2>3, <2>4, <2>5, <2>6 DEF LogInv
<1>3. QED
  BY <1>1, <1>2


\* A thread's log, write set and operand while another thread takes a step.
LEMMA OtherThread ==
  ASSUME LogTypes, ControlTypes, NEW t \in Threads, SectionEffect(t), LogEffect(t), Frame(t),
         NEW u \in Threads, u # t
  PROVE  /\ wrt_sets'[u] = wrt_sets[u] /\ cur_wrt_set'[u] = cur_wrt_set[u]
         /\ pc'[u] = pc[u] /\ arg'[u] = arg[u]
         /\ TailCnt(u)' = TailCnt(u) /\ Current(u)' = Current(u)
         /\ g_wrt_clk' \in Nat /\ g_wrt_clk' >= g_wrt_clk
<1>1. /\ wrt_sets'[u] = wrt_sets[u] /\ cur_wrt_set'[u] = cur_wrt_set[u]
  BY OtherLogs
<1>2. pc'[u] = pc[u] /\ arg'[u] = arg[u] /\ g_wrt_clk' \in {g_wrt_clk, g_wrt_clk + 1}
  BY DEF SectionEffect, Frame, Actors
<1>3. QED
  BY <1>1, <1>2 DEF TailCnt, Current, ControlTypes

\* The write set of a thread's own section.
LEMMA ThreadCurrent ==
  ASSUME LogInv, QpInv, VersionsFit, NEW t \in Threads, ThreadStep(t), ~log_reclaim(t)
  PROVE  CurrentOf(t)'
<1>0. /\ LogTypes /\ ChainInv /\ CurrentOf(t) /\ ArgOf(t) /\ ControlTypes /\ Places
      /\ t \in Actors /\ pc \in [Actors -> Locs \union QpLocs] /\ ret[t] \in ReturnLocs
      /\ wrt_sets \in [Threads -> Seq(WrtSets)] /\ wrt_sets[t] \in Seq(WrtSets)
      /\ TailCnt(t) \in Nat /\ cur_wrt_set \in [Threads -> BOOLEAN]
      /\ OpenSet(t) /\ DoneSets(t) /\ g_wrt_clk \in Nat
  BY DEF LogInv, QpInv, Places, ControlTypes, Actors, LogTypes, TailCnt, CurrentOf
<1>1. LogEffect(t)
  BY <1>0, ThreadLog
<1>2. DoneSets(t)'
  <2>1. CASE LogStays(t)
    BY <1>0, <2>1 DEF LogStays, DoneSets, TailCnt
  <2>2. CASE LogOpens(t)
    <3> DEFINE new == [wrt_clk |-> MAX_VERSION, objs |-> <<>>]
    <3>1. wrt_sets'[t] = Append(wrt_sets[t], new) /\ cur_wrt_set'[t] /\ ~cur_wrt_set[t]
      BY <1>0, <2>2 DEF LogOpens
    <3>2. new \in WrtSets
      BY BoundsAssumption DEF WrtSets
    <3>3. /\ Len(wrt_sets'[t]) = TailCnt(t) + 1
          /\ \A w \in 1 .. TailCnt(t) : wrt_sets'[t][w] = wrt_sets[t][w]
      BY <1>0, <3>1, <3>2 DEF TailCnt
    <3>4. QED
      BY <1>0, <3>1, <3>3 DEF DoneSets, TailCnt
  <2>3. CASE LogChanges(t)
    <3>1. cur_wrt_set[t] /\ cur_wrt_set'[t]
      BY <2>3 DEF LogChanges
    <3>2. PICK ws \in WrtSets : SetCurrent(t, ws)
      BY <2>3 DEF LogChanges
    <3>3. TailCnt(t)' = TailCnt(t)
          /\ \A w \in 1 .. TailCnt(t) : w # TailCnt(t) => wrt_sets'[t][w] = wrt_sets[t][w]
      BY <1>0, <3>1, <3>2, SetCurrentEffect DEF OpenSet
    <3>4. QED
      BY <1>0, <3>1, <3>3 DEF DoneSets
  <2>4. CASE LogCloses(t)
    <3>1. pc[t] = "unlock" /\ wrt_sets' = wrt_sets
      BY <2>4 DEF LogCloses
    <3>2. /\ cur_wrt_set[t] /\ Current(t).wrt_clk < MAX_VERSION /\ Len(Current(t).objs) >= 1
      BY <1>0, <3>1 DEF OpenSet
    <3>3. QED
      BY <1>0, <3>1, <3>2 DEF DoneSets, TailCnt, Current
  <2>5. CASE LogIsCut(t)
    <3>1. cur_wrt_set[t] /\ TailCnt(t) >= 1
      BY <1>0, <2>5 DEF LogIsCut, OpenSet
    <3>2. wrt_sets'[t] = SubSeq(wrt_sets[t], 1, TailCnt(t) - 1)
      BY <1>0, <2>5 DEF LogIsCut
    <3>3. /\ Len(SubSeq(wrt_sets[t], 1, TailCnt(t) - 1)) = TailCnt(t) - 1
          /\ \A w \in 1 .. TailCnt(t) - 1 : SubSeq(wrt_sets[t], 1, TailCnt(t) - 1)[w] = wrt_sets[t][w]
      BY <1>0, <3>1, ShorterSeq DEF TailCnt
    <3>4. /\ TailCnt(t)' = TailCnt(t) - 1
          /\ \A w \in 1 .. TailCnt(t) - 1 : wrt_sets'[t][w] = wrt_sets[t][w]
      BY <3>2, <3>3 DEF TailCnt
    <3>5. QED
      BY <1>0, <3>1, <3>4 DEF DoneSets
  <2>6. QED
    BY <1>1, <2>1, <2>2, <2>3, <2>4, <2>5 DEF LogEffect
<1> USE DEF objects, logs, clocks, reclaim, section, control, lists, Goto, CallReclaim
<1> USE DEF SectionLocs, CommitLocs
\* When the log stays as it is.
<1>3. ASSUME wrt_sets' = wrt_sets, cur_wrt_set' = cur_wrt_set,
             cur_wrt_set[t] =>
               /\ pc'[t] \in SectionLocs \union CommitLocs \union {"unlock", "abort"}
               /\ pc'[t] \in {"advance", "unlock"} <=> pc[t] \in {"advance", "unlock"}
               /\ pc'[t] \in {"lock", "failed", "abort"} \/ Len(Current(t).objs) >= 1,
             pc'[t] \in CommitLocs \union {"unlock", "lock"} => cur_wrt_set[t]
      PROVE  OpenSet(t)'
  <2>1. TailCnt(t)' = TailCnt(t) /\ Current(t)' = Current(t)
    BY <1>3 DEF TailCnt, Current
  <2>2. QED
    BY <1>0, <1>3, <2>1 DEF OpenSet
\* When the section has no write set.
<1>4. ASSUME ~cur_wrt_set'[t], pc'[t] \notin CommitLocs \union {"unlock", "lock"}
      PROVE  OpenSet(t)'
  BY <1>4 DEF OpenSet
\* When the write set is changed.
<1>5. ASSUME LogChanges(t), pc[t] # "store_clock", pc'[t] \in {"section", "move", "cas"},
             pc[t] \in {"lock", "section", "move", "cas"},
             Len(Current(t).objs) >= 1 \/ Len(Current(t)'.objs) >= 1
      PROVE  OpenSet(t)'
  <2>1. PICK ws \in WrtSets : SetCurrent(t, ws) /\ Grows(Current(t), ws) /\ ClockStays(t, ws)
    BY <1>5 DEF LogChanges
  <2>2. cur_wrt_set[t] /\ cur_wrt_set'[t] /\ TailCnt(t) >= 1
    BY <1>0, <1>5 DEF LogChanges, OpenSet
  <2>3. TailCnt(t)' = TailCnt(t) /\ Current(t)' = ws
    BY <1>0, <2>1, <2>2, SetCurrentEffect
  <2>4. ws.objs \in Seq(Copies) /\ Current(t).objs \in Seq(Copies)
    BY <1>0, <2>2, CurrentType DEF WrtSets
  <2>5. Len(ws.objs) >= 1
    BY <1>5, <2>1, <2>3, <2>4 DEF Grows
  <2>6. ws.wrt_clk = MAX_VERSION
    BY <1>0, <1>5, <2>1, <2>2 DEF ClockStays, OpenSet
  <2>7. QED
    BY <1>5, <2>2, <2>3, <2>5, <2>6 DEF OpenSet
<1> SUFFICES OpenSet(t)'
  BY <1>2 DEF CurrentOf
<1>7. CASE mvrlu_reader_lock(t) \/ log_reclaim_force(t) \/ ForceWait(t) \/ BelowHighMark(t)
  <2>1. /\ ~cur_wrt_set[t] /\ cur_wrt_set' = cur_wrt_set
        /\ pc'[t] \in {"try_reclaim", "read_clock", "capacity", "force_wait"}
    BY <1>0, <1>7 DEF mvrlu_reader_lock, log_reclaim_force, ForceWait, BelowHighMark,
       StartSection, OpenSet
  <2>2. QED
    BY <1>4, <2>1
<1>8. CASE ReadClock(t)
  <2>1. ~cur_wrt_set[t] /\ cur_wrt_set' = cur_wrt_set /\ pc'[t] = "section"
    BY <1>0, <1>8 DEF ReadClock, OpenSet
  <2>2. QED
    BY <1>4, <2>1
<1>9. CASE DerefWalk(t)
  <2>1. /\ wrt_sets' = wrt_sets /\ cur_wrt_set' = cur_wrt_set /\ pc[t] = "walk"
        /\ pc'[t] \in {"walk", "section"}
    BY <1>0, <1>9 DEF DerefWalk
  <2>2. QED
    BY <1>0, <1>3, <2>1 DEF OpenSet
<1>10. CASE TryLockCas(t)
  <2>1. pc[t] = "lock" /\ cur_wrt_set[t] /\ cur_wrt_set' = cur_wrt_set
    BY <1>0, <1>10 DEF TryLockCas, OpenSet
  <2>2. CASE CasLock(arg[t].obj, arg[t].ptr)
    <3>1. pc'[t] = "section"
      BY <1>0, <1>10, <2>2 DEF TryLockCas
    <3>2. LogChanges(t) /\ Len(Current(t)'.objs) >= 1
      <4>1. PICK kind :
              SetCurrent(t, [Current(t) EXCEPT !.objs = Append(@, Copied(arg[t].obj, arg[t].ptr, kind))])
        BY <1>10, <2>2 DEF TryLockCas
      <4>2. p_lock' # p_lock
        <5>1. /\ p_lock[arg[t].obj] = NULL /\ arg[t].obj \in Objects
              /\ p_lock' = [p_lock EXCEPT ![arg[t].obj] = CurrentAddress(t, Len(Current(t).objs) + 1)]
          BY <1>0, <1>10, <2>1, <2>2 DEF TryLockCas, CasLock, ArgOf
        <5>2. Current(t).objs \in Seq(Copies)
          BY <1>0, <2>1, CurrentType
        <5>3. CurrentAddress(t, Len(Current(t).objs) + 1) \in Addresses
          BY <1>0, <5>2, CurrentAddressType
        <5>4. QED
          BY <1>0, <5>1, <5>3, MarkerAssumption DEF LogTypes
      <4>3. LogChanges(t)
        BY <1>1, <2>1, <4>2 DEF LogEffect, LogStays, LogOpens, LogCloses, LogIsCut
      <4>4. PICK ws \in WrtSets : SetCurrent(t, ws) /\ (SameLocks(t, ws) \/ LocksOne(t, ws))
        BY <4>3 DEF LogChanges
      <4>5. Current(t)' = ws /\ Current(t).objs \in Seq(Copies)
        BY <1>0, <2>1, <4>4, SetCurrentEffect, CurrentType DEF OpenSet
      <4>6. Len(ws.objs) = Len(Current(t).objs) + 1
        BY <4>2, <4>4 DEF SameLocks, LocksOne
      <4>7. QED
        BY <4>3, <4>5, <4>6
    <3>3. QED
      BY <1>5, <2>1, <3>1, <3>2
  <2>3. CASE ~CasLock(arg[t].obj, arg[t].ptr)
    <3>1. wrt_sets' = wrt_sets /\ pc'[t] = "failed"
      BY <1>0, <1>10, <2>3 DEF TryLockCas
    <3>2. QED
      BY <1>0, <1>3, <2>1, <3>1
  <2>4. QED
    BY <2>2, <2>3
<1>11. ASSUME NEW o \in Objects, DerefHead(t, o) PROVE OpenSet(t)'
  <2>1. /\ wrt_sets' = wrt_sets /\ cur_wrt_set' = cur_wrt_set /\ pc[t] = "section"
        /\ pc'[t] \in {"walk", "section"}
    BY <1>0, <1>11 DEF DerefHead
  <2>2. QED
    BY <1>0, <1>3, <2>1 DEF OpenSet
<1>12. ASSUME NEW o \in Objects, TryLockRead(t, o) PROVE OpenSet(t)'
  <2>1. pc[t] = "section"
    BY <1>12 DEF TryLockRead
  <2>2. CASE cur_wrt_set[t]
    <3>1. [cur_wrt_set EXCEPT ![t] = TRUE] = cur_wrt_set
      BY <1>0, <2>2
    <3>2. /\ wrt_sets' = wrt_sets /\ cur_wrt_set' = cur_wrt_set /\ pc'[t] \in {"lock", "failed"}
      BY <1>0, <1>12, <2>2, <3>1 DEF TryLockRead
    <3>3. QED
      BY <1>3, <2>1, <2>2, <3>2
  <2>3. CASE ~cur_wrt_set[t] /\ pc'[t] = "lock"
    <3>1. LogOpens(t)
      BY <1>0, <1>12, <2>3 DEF TryLockRead, LogOpens
    <3> DEFINE new == [wrt_clk |-> MAX_VERSION, objs |-> <<>>]
    <3>2. wrt_sets'[t] = Append(wrt_sets[t], new) /\ cur_wrt_set'[t]
      BY <1>0, <3>1 DEF LogOpens
    <3>3. new \in WrtSets
      BY BoundsAssumption DEF WrtSets
    <3>4. /\ Len(wrt_sets'[t]) = TailCnt(t) + 1 /\ wrt_sets'[t][TailCnt(t) + 1] = new
      BY <1>0, <3>2, <3>3 DEF TailCnt
    <3>5. TailCnt(t)' >= 1 /\ Current(t)' = new
      BY <1>0, <3>4 DEF TailCnt, Current
    <3>6. QED
      BY <2>3, <3>2, <3>5 DEF OpenSet
  <2>4. CASE ~cur_wrt_set[t] /\ pc'[t] # "lock"
    <3>1. cur_wrt_set' = cur_wrt_set /\ pc'[t] = "failed"
      BY <1>0, <1>12, <2>4 DEF TryLockRead
    <3>2. QED
      BY <1>4, <2>4, <3>1
  <2>5. QED
    BY <2>2, <2>3, <2>4
<1>13. ASSUME NEW o \in Objects, mvrlu_free(t, o) PROVE OpenSet(t)'
  <2>1. pc[t] = "section" /\ pc' = pc /\ cur_wrt_set[t] /\ cur_wrt_set' = cur_wrt_set
    BY <1>13 DEF mvrlu_free
  <2>2. Len(Current(t).objs) >= 1
    BY <1>0, <2>1 DEF OpenSet
  <2>3. LogChanges(t) \/ (wrt_sets' = wrt_sets /\ cur_wrt_set' = cur_wrt_set)
    BY <1>1, <2>1 DEF LogEffect, LogStays, LogOpens, LogCloses, LogIsCut
  <2>4. QED
    BY <1>0, <1>3, <1>5, <2>1, <2>2, <2>3
<1>14. CASE mvrlu_reader_unlock(t)
  <2>1. wrt_sets' = wrt_sets /\ cur_wrt_set' = cur_wrt_set /\ pc[t] = "section"
    BY <1>14 DEF mvrlu_reader_unlock
  <2>2. CASE cur_wrt_set[t]
    <3>1. pc'[t] = "move" /\ Len(Current(t).objs) >= 1
      BY <1>0, <1>14, <2>1, <2>2 DEF mvrlu_reader_unlock, OpenSet
    <3>2. QED
      BY <1>3, <2>1, <2>2, <3>1
  <2>3. CASE ~cur_wrt_set[t]
    <3>1. pc'[t] \in {"try_reclaim", "idle"}
      BY <1>0, <1>14, <2>3 DEF mvrlu_reader_unlock, AfterSection
    <3>2. QED
      BY <1>4, <2>1, <2>3, <3>1
  <2>4. QED
    BY <2>2, <2>3
<1>15. CASE MoveCopy(t) \/ MoveCas(t)
  <2>1. pc[t] \in {"move", "cas"} /\ pc'[t] \in {"move", "cas"} /\ cur_wrt_set' = cur_wrt_set
    BY <1>0, <1>15 DEF MoveCopy, MoveCas
  <2>2. cur_wrt_set[t] /\ Len(Current(t).objs) >= 1
    BY <1>0, <2>1 DEF OpenSet
  <2>3. LogChanges(t) \/ wrt_sets' = wrt_sets
    BY <1>1, <2>1, <2>2 DEF LogEffect, LogStays, LogOpens, LogCloses, LogIsCut
  <2>4. QED
    BY <1>0, <1>3, <1>5, <2>1, <2>2, <2>3
<1>16. CASE LoadClock(t)
  <2>1. /\ wrt_sets' = wrt_sets /\ cur_wrt_set' = cur_wrt_set /\ pc[t] = "move"
        /\ pc'[t] = "store_clock"
    BY <1>0, <1>16 DEF LoadClock
  <2>2. QED
    BY <1>0, <1>3, <2>1 DEF OpenSet
<1>17. CASE StoreClock(t)
  <2>1. /\ pc[t] = "store_clock" /\ pc'[t] = "advance" /\ cur_wrt_set' = cur_wrt_set
        /\ SetCurrent(t, [Current(t) EXCEPT !.wrt_clk = arg[t].clk])
    BY <1>0, <1>17 DEF StoreClock
  <2>2. cur_wrt_set[t] /\ Len(Current(t).objs) >= 1 /\ TailCnt(t) >= 1
    BY <1>0, <2>1 DEF OpenSet
  <2>3. Current(t) \in WrtSets /\ arg[t].clk \in Nat
    BY <1>0, <2>2, CurrentType DEF LogTypes, Args
  <2> DEFINE ws == [Current(t) EXCEPT !.wrt_clk = arg[t].clk]
  <2>4. ws \in WrtSets /\ ws.objs = Current(t).objs /\ ws.wrt_clk = arg[t].clk
    BY <2>3 DEF WrtSets
  <2>5. Current(t)' = ws /\ TailCnt(t)' = TailCnt(t)
    <3> HIDE DEF ws
    <3>1. SetCurrent(t, ws)
      BY <2>1 DEF ws
    <3>2. QED
      BY <1>0, <2>2, <2>4, <3>1, SetCurrentEffect
  <2>6. ws.wrt_clk < MAX_VERSION
    BY <1>0, <2>1, <2>3, <2>4, BoundsAssumption DEF ArgOf, VersionsFit
  <2>7. QED
    BY <2>1, <2>2, <2>4, <2>5, <2>6 DEF OpenSet
<1>18. CASE AdvanceClock(t)
  <2>1. /\ wrt_sets' = wrt_sets /\ cur_wrt_set' = cur_wrt_set /\ pc[t] = "advance"
        /\ pc'[t] = "unlock"
    BY <1>0, <1>18 DEF AdvanceClock
  <2>2. QED
    BY <1>0, <1>3, <2>1 DEF OpenSet
<1>19. CASE ws_unlock(t)
  <2>1. ~cur_wrt_set'[t] /\ pc'[t] \in {"try_reclaim", "idle"}
    BY <1>0, <1>19 DEF ws_unlock, AfterSection
  <2>2. QED
    BY <1>4, <2>1
<1>20. CASE AfterReclaim(t)
  <2>1. ~cur_wrt_set[t] /\ cur_wrt_set' = cur_wrt_set /\ pc'[t] = "idle"
    BY <1>0, <1>20 DEF AfterReclaim, OpenSet
  <2>2. QED
    BY <1>4, <2>1
<1>21. CASE mvrlu_abort(t)
  <2>1. wrt_sets' = wrt_sets /\ cur_wrt_set' = cur_wrt_set /\ pc[t] = "failed" /\ pc'[t] = "abort"
    BY <1>0, <1>21 DEF mvrlu_abort
  <2>2. QED
    BY <1>3, <2>1
<1>22. CASE log_abort(t)
  <2>1. ~cur_wrt_set'[t] /\ pc'[t] \in {"try_reclaim", "idle"}
    BY <1>0, <1>22 DEF log_abort, AfterSection
  <2>2. QED
    BY <1>4, <2>1
<1>23. CASE mvrlu_flush_log(t) \/ mvrlu_thread_finish(t) \/ LeaveLists(t)
  <2>1. /\ ~cur_wrt_set[t] /\ cur_wrt_set' = cur_wrt_set
        /\ pc'[t] \in {"flush", "try_reclaim", "leave", "finished"}
    BY <1>0, <1>23 DEF mvrlu_flush_log, mvrlu_thread_finish, LeaveLists, NoMoreSections, OpenSet
  <2>2. QED
    BY <1>4, <2>1
<1>24. QED
  BY <1>7, <1>8, <1>9, <1>10, <1>11, <1>12, <1>13, <1>14, <1>15, <1>16, <1>17, <1>18, <1>19,
     <1>20, <1>21, <1>22, <1>23 DEF ThreadStep


\* The operands of calls.
LEMMA ThreadArg ==
  ASSUME LogInv, QpInv, VersionsFit, NEW t \in Threads, ThreadStep(t), ~log_reclaim(t)
  PROVE  ArgOf(t)'
<1>0. /\ LogTypes /\ ChainInv /\ CurrentOf(t) /\ ArgOf(t) /\ ControlTypes /\ Places
      /\ t \in Actors /\ pc \in [Actors -> Locs \union QpLocs] /\ ret[t] \in ReturnLocs
      /\ arg \in [Threads -> Args] /\ arg[t] \in Args /\ g_wrt_clk \in Nat
      /\ OpenSet(t)
  BY DEF LogInv, QpInv, Places, ControlTypes, Actors, LogTypes, CurrentOf
<1>1. SectionEffect(t) /\ LogEffect(t)
  BY <1>0, ThreadEffect, ThreadLog
<1>2. \A p : Kept(p) => Kept(p)'
  BY <1>0, <1>1, KeptStays
<1> USE DEF objects, logs, clocks, reclaim, section, control, lists, Goto, CallReclaim
<1>3. ASSUME pc'[t] \notin {"lock", "walk", "move", "cas", "store_clock"}
      PROVE  ArgOf(t)'
  BY <1>3 DEF ArgOf
<1>4. CASE DerefWalk(t)
  <2>1. CASE pc'[t] = "walk"
    <3>1. /\ pc[t] = "walk" /\ arg' = [arg EXCEPT ![t].ptr = CopyAt(arg[t].ptr).p_copy]
          /\ CopyAt(arg[t].ptr).p_copy # NULL
      BY <1>0, <1>4, <2>1 DEF DerefWalk, OlderAreGone
    <3>2. Kept(arg[t].ptr)
      BY <1>0, <3>1 DEF ArgOf
    <3>3. Kept(CopyAt(arg[t].ptr).p_copy)
      <4>1. /\ arg[t].ptr.thread \in Threads
            /\ arg[t].ptr.ws \in DOMAIN wrt_sets[arg[t].ptr.thread]
            /\ arg[t].ptr.idx \in DOMAIN wrt_sets[arg[t].ptr.thread][arg[t].ptr.ws].objs
        BY <3>2 DEF Kept, InLog, Addresses
      <4>2. CopyAt(arg[t].ptr).p_copy =
              wrt_sets[arg[t].ptr.thread][arg[t].ptr.ws].objs[arg[t].ptr.idx].p_copy
        BY DEF CopyAt
      <4>3. QED
        BY <1>0, <3>1, <4>1, <4>2 DEF ChainInv
    <3>4. arg'[t].obj = arg[t].obj /\ arg'[t].ptr = CopyAt(arg[t].ptr).p_copy
      BY <1>0, <3>1 DEF Args
    <3>5. QED
      BY <1>0, <1>2, <2>1, <3>1, <3>3, <3>4 DEF ArgOf
  <2>2. CASE pc'[t] # "walk"
    <3>1. pc'[t] = "section"
      BY <1>0, <1>4, <2>2 DEF DerefWalk
    <3>2. QED
      BY <1>3, <3>1
  <2>3. QED
    BY <2>1, <2>2
<1>5. ASSUME NEW o \in Objects, DerefHead(t, o) PROVE ArgOf(t)'
  <2>1. CASE p_copy[o] = NULL
    <3>1. pc'[t] = "section"
      BY <1>0, <1>5, <2>1 DEF DerefHead
    <3>2. QED
      BY <1>3, <3>1
  <2>2. CASE p_copy[o] # NULL
    <3>1. /\ pc'[t] = "walk"
          /\ arg' = [arg EXCEPT ![t] = [NoArg EXCEPT !.obj = o, !.ptr = p_copy[o],
                                                     !.clk = ShortcutClock(t)]]
      BY <1>0, <1>5, <2>2 DEF DerefHead
    <3>2. arg'[t].obj = o /\ arg'[t].ptr = p_copy[o]
      BY <1>0, <3>1 DEF NoArg
    <3>3. Kept(p_copy[o])
      BY <1>0, <2>2 DEF ChainInv
    <3>4. QED
      BY <1>2, <3>1, <3>2, <3>3 DEF ArgOf
  <2>3. QED
    BY <2>1, <2>2
<1>6. ASSUME NEW o \in Objects, TryLockRead(t, o) PROVE ArgOf(t)'
  <2>1. CASE pc'[t] = "lock"
    <3>1. arg' = [arg EXCEPT ![t] = [NoArg EXCEPT !.obj = o, !.ptr = p_copy[o]]]
      BY <1>0, <1>6, <2>1 DEF TryLockRead
    <3>2. arg'[t].obj = o
      BY <1>0, <3>1 DEF NoArg
    <3>3. QED
      BY <2>1, <3>2 DEF ArgOf
  <2>2. CASE pc'[t] # "lock"
    <3>1. pc'[t] = "failed"
      BY <1>0, <1>6, <2>2 DEF TryLockRead
    <3>2. QED
      BY <1>3, <3>1
  <2>3. QED
    BY <2>1, <2>2
<1>7. ASSUME NEW o \in Objects, mvrlu_free(t, o) PROVE ArgOf(t)'
  <2>1. pc'[t] = "section"
    BY <1>7 DEF mvrlu_free
  <2>2. QED
    BY <1>3, <2>1
<1>8. CASE mvrlu_reader_unlock(t)
  <2>1. CASE cur_wrt_set[t]
    <3>1. pc'[t] = "move" /\ arg' = [arg EXCEPT ![t].idx = 1]
      BY <1>0, <1>8, <2>1 DEF mvrlu_reader_unlock
    <3>2. arg'[t].idx = 1
      BY <1>0, <3>1 DEF Args
    <3>3. QED
      BY <3>1, <3>2 DEF ArgOf
  <2>2. CASE ~cur_wrt_set[t]
    <3>1. pc'[t] \in {"try_reclaim", "idle"}
      BY <1>0, <1>8, <2>2 DEF mvrlu_reader_unlock, AfterSection
    <3>2. QED
      BY <1>3, <3>1
  <2>3. QED
    BY <2>1, <2>2
\* The number of copies in the write set stays.
<1>9. ASSUME pc[t] \in {"move", "cas"}, cur_wrt_set' = cur_wrt_set
      PROVE  DOMAIN Current(t)'.objs = DOMAIN Current(t).objs \/ p_lock' # p_lock
  <2>1. cur_wrt_set[t] /\ TailCnt(t) >= 1
    BY <1>0, <1>9 DEF OpenSet, CommitLocs
  <2>2. LogStays(t) \/ LogChanges(t)
    BY <1>0, <1>1, <1>9, <2>1 DEF LogEffect, LogOpens, LogCloses, LogIsCut
  <2>3. CASE LogStays(t)
    BY <2>3 DEF LogStays, Current, TailCnt
  <2>4. CASE LogChanges(t)
    <3>1. PICK ws \in WrtSets : SetCurrent(t, ws) /\ (SameLocks(t, ws) \/ LocksOne(t, ws))
      BY <2>4 DEF LogChanges
    <3>2. Current(t)' = ws
      BY <1>0, <2>1, <3>1, SetCurrentEffect
    <3>3. ws.objs \in Seq(Copies) /\ Current(t).objs \in Seq(Copies)
      BY <1>0, <2>1, CurrentType DEF WrtSets
    <3>4. CASE SameLocks(t, ws)
      BY <3>2, <3>3, <3>4 DEF SameLocks
    <3>5. CASE LocksOne(t, ws)
      <4> DEFINE n == Len(Current(t).objs) + 1
                 o == ws.objs[n].obj
      <4>1. n \in DOMAIN ws.objs
        BY <3>3, <3>5 DEF LocksOne
      <4>2. ws.objs[n] \in Copies
        BY <3>3, <4>1
      <4>3. o \in Objects /\ n \in Nat
        BY <3>3, <4>2 DEF Copies
      <4>4. CurrentAddress(t, n) \in Addresses
        BY <1>0, <4>3, CurrentAddressType
      <4>5. QED
        BY <1>0, <3>5, <4>3, <4>4, MarkerAssumption DEF LocksOne, LogTypes
    <3>6. QED
      BY <3>1, <3>4, <3>5
  <2>5. QED
    BY <2>2, <2>3, <2>4
<1>10. CASE MoveCopy(t)
  <2>1. /\ pc[t] = "move" /\ cur_wrt_set' = cur_wrt_set /\ p_lock' = p_lock
        /\ arg[t].idx <= Len(Current(t).objs)
        /\ \/ pc'[t] = "move" /\ arg' = [arg EXCEPT ![t].idx = arg[t].idx + 1]
           \/ pc'[t] = "cas" /\ arg' = arg
    BY <1>0, <1>10 DEF MoveCopy
  <2>2. arg[t].idx \in Nat /\ arg[t].idx >= 1 /\ cur_wrt_set[t]
    BY <1>0, <2>1 DEF ArgOf, Args, OpenSet, CommitLocs
  <2>3. CASE pc'[t] = "move"
    <3>1. arg'[t].idx = arg[t].idx + 1
      BY <1>0, <2>1, <2>3 DEF Args
    <3>2. QED
      BY <2>2, <2>3, <3>1 DEF ArgOf
  <2>4. CASE pc'[t] = "cas"
    <3>1. DOMAIN Current(t)'.objs = DOMAIN Current(t).objs
      BY <1>9, <2>1
    <3>2. arg[t].idx \in DOMAIN Current(t).objs
      BY <1>0, <2>1, <2>2, CurrentType
    <3>3. QED
      BY <2>1, <2>4, <3>1, <3>2 DEF ArgOf
  <2>5. QED
    BY <2>1, <2>3, <2>4
<1>11. CASE MoveCas(t)
  <2>1. /\ pc[t] = "cas" /\ cur_wrt_set' = cur_wrt_set /\ p_lock' = p_lock
        /\ \/ pc'[t] = "move" /\ arg' = [arg EXCEPT ![t].idx = arg[t].idx + 1]
           \/ pc'[t] = "cas" /\ arg' = arg
    BY <1>0, <1>11 DEF MoveCas
  <2>2. arg[t].idx \in Nat /\ arg[t].idx \in DOMAIN Current(t).objs
    BY <1>0, <2>1 DEF ArgOf, Args
  <2>3. CASE pc'[t] = "move"
    <3>1. arg'[t].idx = arg[t].idx + 1
      BY <1>0, <2>1, <2>3 DEF Args
    <3>2. QED
      BY <2>2, <2>3, <3>1 DEF ArgOf
  <2>4. CASE pc'[t] = "cas"
    <3>1. DOMAIN Current(t)'.objs = DOMAIN Current(t).objs
      BY <1>9, <2>1
    <3>2. QED
      BY <2>1, <2>2, <2>4, <3>1 DEF ArgOf
  <2>5. QED
    BY <2>1, <2>3, <2>4
<1>12. CASE LoadClock(t)
  <2>1. /\ pc'[t] = "store_clock" /\ arg' = [arg EXCEPT ![t].clk = g_wrt_clk + 1]
        /\ g_wrt_clk' = g_wrt_clk
    BY <1>0, <1>12 DEF LoadClock
  <2>2. arg'[t].clk = g_wrt_clk + 1
    BY <1>0, <2>1 DEF Args
  <2>3. QED
    BY <1>0, <2>1, <2>2 DEF ArgOf
<1>13. CASE ReadClock(t) \/ StoreClock(t) \/ AdvanceClock(t) \/ mvrlu_abort(t)
  <2>1. pc'[t] \in {"section", "advance", "unlock", "abort"}
    BY <1>0, <1>13 DEF ReadClock, StoreClock, AdvanceClock, mvrlu_abort
  <2>2. QED
    BY <1>3, <2>1
<1>14. CASE mvrlu_reader_lock(t) \/ log_reclaim_force(t) \/ ForceWait(t) \/ BelowHighMark(t)
  <2>1. pc'[t] \in {"try_reclaim", "read_clock", "capacity", "force_wait"}
    BY <1>0, <1>14 DEF mvrlu_reader_lock, log_reclaim_force, ForceWait, BelowHighMark, StartSection
  <2>2. QED
    BY <1>3, <2>1
<1>15. CASE ws_unlock(t) \/ AfterReclaim(t) \/ log_abort(t)
  <2>1. pc'[t] \in {"try_reclaim", "idle"}
    BY <1>0, <1>15 DEF ws_unlock, AfterReclaim, log_abort, AfterSection
  <2>2. QED
    BY <1>3, <2>1
<1>16. CASE mvrlu_flush_log(t) \/ mvrlu_thread_finish(t) \/ LeaveLists(t)
  <2>1. pc'[t] \in {"flush", "try_reclaim", "leave", "finished"}
    BY <1>0, <1>16 DEF mvrlu_flush_log, mvrlu_thread_finish, LeaveLists
  <2>2. QED
    BY <1>3, <2>1
<1>17. CASE TryLockCas(t)
  <2>1. pc'[t] \in {"section", "failed"}
    BY <1>0, <1>17 DEF TryLockCas
  <2>2. QED
    BY <1>3, <2>1
<1>18. QED
  BY <1>4, <1>5, <1>6, <1>7, <1>8, <1>10, <1>11, <1>12, <1>13, <1>14, <1>15, <1>16, <1>17
     DEF ThreadStep

\* A step of a thread outside log_reclaim.
LEMMA ThreadLogInv ==
  ASSUME LogInv, QpInv, VersionsFit, NEW t \in Threads, ThreadStep(t)
  PROVE  LogInv'
<1>0. /\ LogTypes /\ ChainInv /\ ScanInv /\ CurrentOf(t) /\ ArgOf(t) /\ ControlTypes /\ Places
      /\ t \in Actors /\ pc \in [Actors -> Locs \union QpLocs]
  BY DEF LogInv, QpInv, Places, Actors
<1> SUFFICES ASSUME ~log_reclaim(t) PROVE LogInv'
  BY <1>0, ReclaimLog
<1>1. SectionEffect(t) /\ LogEffect(t) /\ Frame(t)
  BY <1>0, ThreadEffect, ThreadLog, ThreadFrame
<1>2. \A p : Kept(p) => Kept(p)'
  BY <1>0, <1>1, KeptStays
<1>3. LogTypes'
  <2>1. wrt_sets' \in [Threads -> Seq(WrtSets)]
    BY <1>0, <1>1, OwnLog
  <2>2. QED
    BY <1>0, <1>1, <2>1 DEF Frame, LogTypes
<1>4. ASSUME NEW u \in Threads PROVE CurrentOf(u)' /\ ArgOf(u)'
  <2>1. CASE u = t
    BY <2>1, ThreadCurrent, ThreadArg
  <2>2. CASE u # t
    <3>1. /\ wrt_sets'[u] = wrt_sets[u] /\ cur_wrt_set'[u] = cur_wrt_set[u]
          /\ pc'[u] = pc[u] /\ arg'[u] = arg[u]
          /\ TailCnt(u)' = TailCnt(u) /\ Current(u)' = Current(u)
          /\ g_wrt_clk' \in Nat /\ g_wrt_clk' >= g_wrt_clk
      BY <1>0, <1>1, <2>2, OtherThread
    <3>2. CurrentOf(u) /\ ArgOf(u) /\ arg[u] \in Args /\ g_wrt_clk \in Nat
      BY <1>0 DEF LogInv, LogTypes, ControlTypes
    <3>3. CurrentOf(u)'
      BY <3>1, <3>2 DEF CurrentOf, OpenSet, DoneSets
    <3>4. ArgOf(u)'
      BY <1>2, <3>1, <3>2 DEF ArgOf, Args
    <3>5. QED
      BY <3>3, <3>4
  <2>3. QED
    BY <2>1, <2>2
<1>5. ChainInv'
  <2>1. ASSUME NEW o \in Objects, NEW p, p = p_copy'[o], p # NULL PROVE Kept(p)'
    <3>1. CASE ChainsStay
      BY <1>0, <1>2, <2>1, <3>1 DEF ChainsStay, ChainInv
    <3>2. CASE PutsCopy(t) /\ p_copy'[o] = p_copy[o]
      BY <1>0, <1>2, <2>1, <3>2 DEF ChainInv
    <3>3. CASE PutsCopy(t) /\ p_copy'[o] # p_copy[o]
      <4>1. /\ p_copy'[o] = CurrentAddress(t, arg[t].idx)
            /\ pc[t] = "cas" /\ pc'[t] = "move" /\ wrt_sets' = wrt_sets
        BY <1>0, <3>3 DEF PutsCopy, LogTypes
      <4>2. /\ cur_wrt_set[t] /\ TailCnt(t) \in DOMAIN wrt_sets[t]
            /\ arg[t].idx \in DOMAIN Current(t).objs /\ arg[t].idx \in Nat /\ TailCnt(t) \in Nat
        <5>1. cur_wrt_set[t] /\ arg[t].idx \in DOMAIN Current(t).objs
          BY <1>0, <4>1 DEF CurrentOf, OpenSet, CommitLocs, ArgOf
        <5>2. TailCnt(t) \in 1 .. Len(wrt_sets[t]) /\ wrt_sets[t] \in Seq(WrtSets) /\ arg[t] \in Args
          BY <1>0, <5>1, CurrentType DEF LogTypes
        <5>3. QED
          BY <5>1, <5>2 DEF Args
      <4>3. CurrentAddress(t, arg[t].idx) \in Addresses
        BY <1>0, <4>2, CurrentAddressType
      <4>4. QED
        <5>1. /\ p \in Addresses /\ p.thread = t /\ p.ws = TailCnt(t) /\ p.idx = arg[t].idx
          BY <2>1, <4>1, <4>3 DEF CurrentAddress, Address
        <5>2. /\ p.ws \in DOMAIN wrt_sets'[p.thread]
              /\ p.idx \in DOMAIN wrt_sets'[p.thread][p.ws].objs
          BY <4>1, <4>2, <5>1 DEF Current
        <5>3. QED
          BY <4>1, <5>1, <5>2 DEF Kept, InLog, Pending, CommitLocs
    <3>4. QED
      BY <1>1, <3>1, <3>2, <3>3 DEF Frame
  <2>2. ASSUME NEW u \in Threads, NEW w \in DOMAIN wrt_sets'[u], NEW i \in DOMAIN wrt_sets'[u][w].objs,
               NEW p, p = wrt_sets'[u][w].objs[i].p_copy, p # NULL
        PROVE  Kept(p)'
    <3>1. CASE w \in DOMAIN wrt_sets[u] /\ wrt_sets'[u][w] = wrt_sets[u][w]
      BY <1>0, <1>2, <2>2, <3>1 DEF ChainInv
    <3>2. CASE u # t
      BY <1>0, <1>1, <3>1, <3>2, OtherLogs
    <3>3. CASE u = t /\ LogStays(t)
      BY <3>1, <3>3 DEF LogStays
    <3>4. CASE u = t /\ LogCloses(t)
      BY <3>1, <3>4 DEF LogCloses
    <3>5. wrt_sets \in [Threads -> Seq(WrtSets)] /\ wrt_sets[t] \in Seq(WrtSets)
      BY <1>0 DEF LogTypes
    <3>6. CASE u = t /\ LogOpens(t)
      <4> DEFINE new == [wrt_clk |-> MAX_VERSION, objs |-> <<>>]
      <4>1. wrt_sets'[t] = Append(wrt_sets[t], new)
        BY <3>5, <3>6 DEF LogOpens
      <4>2. new \in WrtSets
        BY BoundsAssumption DEF WrtSets
      <4>3. \A x \in DOMAIN Append(wrt_sets[t], new) :
              \/ x \in DOMAIN wrt_sets[t] /\ Append(wrt_sets[t], new)[x] = wrt_sets[t][x]
              \/ Append(wrt_sets[t], new)[x] = new
        BY <3>5, <4>2
      <4>4. w \in DOMAIN wrt_sets[t] /\ wrt_sets'[t][w] = wrt_sets[t][w]
        BY <2>2, <3>6, <4>1, <4>3
      <4>5. QED
        BY <3>1, <3>6, <4>4
    <3>7. CASE u = t /\ LogIsCut(t)
      <4>1. cur_wrt_set[t] /\ TailCnt(t) >= 1 /\ TailCnt(t) \in Nat
        BY <1>0, <3>5, <3>7 DEF LogIsCut, CurrentOf, OpenSet, TailCnt
      <4>2. wrt_sets'[t] = SubSeq(wrt_sets[t], 1, TailCnt(t) - 1)
        BY <3>5, <3>7 DEF LogIsCut
      <4>3. \A x \in DOMAIN SubSeq(wrt_sets[t], 1, TailCnt(t) - 1) :
              x \in DOMAIN wrt_sets[t] /\ SubSeq(wrt_sets[t], 1, TailCnt(t) - 1)[x] = wrt_sets[t][x]
        BY <3>5, <4>1 DEF TailCnt
      <4>4. QED
        BY <3>1, <3>7, <4>2, <4>3
    <3>8. CASE u = t /\ LogChanges(t)
      <4>1. PICK ws \in WrtSets : SetCurrent(t, ws) /\ LinksKept(ws)
        BY <3>8 DEF LogChanges
      <4>2. cur_wrt_set[t] /\ TailCnt(t) >= 1
        BY <1>0, <3>8 DEF LogChanges, CurrentOf, OpenSet
      <4>3. /\ wrt_sets' \in [Threads -> Seq(WrtSets)] /\ TailCnt(t)' = TailCnt(t)
            /\ Current(t)' = ws
            /\ \A x \in 1 .. TailCnt(t) : x # TailCnt(t) => wrt_sets'[t][x] = wrt_sets[t][x]
        BY <1>0, <4>1, <4>2, SetCurrentEffect
      <4>4. CASE w = TailCnt(t)
        BY <1>2, <2>2, <3>8, <4>1, <4>3, <4>4 DEF LinksKept, Current
      <4>5. CASE w # TailCnt(t)
        <5>1. w \in 1 .. TailCnt(t) /\ w \in DOMAIN wrt_sets[t]
          BY <3>5, <3>8, <4>3 DEF TailCnt
        <5>2. QED
          BY <3>1, <3>8, <4>3, <4>5, <5>1
      <4>6. QED
        BY <4>4, <4>5
    <3>9. QED
      BY <1>1, <3>2, <3>3, <3>4, <3>6, <3>7, <3>8 DEF LogEffect
  <2>3. QED
    BY <2>1, <2>2 DEF ChainInv
<1>6. ScanInv'
  <2>1. /\ scan' = scan /\ reclaim_lock' = reclaim_lock /\ qp'.log = qp.log
        /\ pc'[t] \notin {"scan", "detach"} /\ \A b \in Actors : b # t => pc'[b] = pc[b]
        /\ g_wrt_clk' \in {g_wrt_clk, g_wrt_clk + 1}
    BY <1>1 DEF Frame, SectionEffect
  <2>2. ASSUME NEW l \in Threads, ScanAt(l) PROVE ScanAt(l)'
    <3>1. scan[l].ws + 1 \in DOMAIN wrt_sets[l] /\ wrt_sets[l][scan[l].ws + 1].wrt_clk < MAX_VERSION
      BY <2>2 DEF ScanAt
    <3>2. /\ scan[l].ws + 1 \in DOMAIN wrt_sets'[l]
          /\ wrt_sets'[l][scan[l].ws + 1].wrt_clk = wrt_sets[l][scan[l].ws + 1].wrt_clk
          /\ DOMAIN wrt_sets[l][scan[l].ws + 1].objs \subseteq DOMAIN wrt_sets'[l][scan[l].ws + 1].objs
      BY <1>0, <1>1, <3>1, CommittedStays
    <3>3. QED
      BY <2>1, <2>2, <3>2 DEF ScanAt
  <2>3. ASSUME NEW l \in Threads
        PROVE  /\ scan'[l].clk1 <= g_wrt_clk' /\ scan'[l].clk2 <= g_wrt_clk'
               /\ scan'[l].idx > 1 => ScanAt(l)'
    <3>1. /\ scan[l].clk1 <= g_wrt_clk /\ scan[l].clk2 <= g_wrt_clk
          /\ scan[l].idx > 1 => ScanAt(l)
      BY <1>0 DEF ScanInv
    <3>2. scan[l].clk1 \in Nat /\ scan[l].clk2 \in Nat /\ g_wrt_clk \in Nat
      BY <1>0 DEF LogTypes, Scans, ControlTypes
    <3>3. QED
      BY <2>1, <2>2, <3>1, <3>2
  <2>4. ASSUME NEW b \in Actors, pc'[b] \in {"scan", "detach"}
        PROVE  /\ reclaim_lock'[LogOf(b)'] = b /\ scan'[LogOf(b)'].idx >= 1
               /\ pc'[b] = "detach" => ScanAt(LogOf(b))'
    <3>1. b # t /\ pc'[b] = pc[b]
      BY <2>1, <2>4
    <3>2. LogOf(b)' = LogOf(b)
      BY <2>1 DEF LogOf
    <3>3. /\ reclaim_lock[LogOf(b)] = b /\ scan[LogOf(b)].idx >= 1
          /\ pc[b] = "detach" => ScanAt(LogOf(b))
      BY <1>0, <2>4, <3>1 DEF ScanInv
    <3>4. LogOf(b) \in Threads
      BY <1>0, <2>4, <3>1 DEF LogOf, Places, Actors, ReclaimLocs
    <3>5. ScanAt(LogOf(b)) => ScanAt(LogOf(b))'
      <4>1. PICK l \in Threads : l = LogOf(b)
        BY <3>4
      <4>2. ScanAt(LogOf(b))' <=> ScanAt(l)'
        BY <3>2, <4>1 DEF ScanAt
      <4>3. QED
        BY <2>2, <4>1, <4>2
    <3>6. QED
      BY <2>1, <3>1, <3>2, <3>3, <3>5
  <2>5. QED
    BY <2>3, <2>4 DEF ScanInv
<1>7. QED
  BY <1>3, <1>4, <1>5, <1>6 DEF LogInv

\* LogInv is inductive while the clock fits.
LEMMA StepLog == QpInv /\ VersionsFit /\ LogInv /\ [Next]_vars => LogInv'
<1>1. ASSUME QpInv, LogInv, UNCHANGED vars PROVE LogInv'
  <2>1. LogTypes' /\ ScanInv'
    BY <1>1 DEF LogInv, LogTypes, ScanInv, ScanAt, LogOf, vars, objects, logs, section, reclaim, control
  <2>2. \A p : Kept(p) => Kept(p)'
    BY <1>1 DEF Kept, InLog, Pending, TailCnt, vars, logs, control
  <2>3. ChainInv'
    BY <1>1, <2>2 DEF LogInv, ChainInv, vars, objects, logs
  <2>4. \A t \in Threads : CurrentOf(t)' /\ ArgOf(t)'
    BY <1>1, <2>2 DEF LogInv, CurrentOf, OpenSet, DoneSets, ArgOf, Current, TailCnt, vars, logs,
       section, control
  <2>5. QED
    BY <2>1, <2>3, <2>4 DEF LogInv
<1>2. QED
  BY <1>1, ThreadLogInv, QpLog DEF Next, Terminating

\* Types, while the clock fits.
THEOREM TypeCorrect == Spec /\ []VersionsFit => []TypeOK
<1>1. Init => QpInv /\ LogInv
  BY InitQp, InitLog
<1>2. QpInv /\ LogInv /\ VersionsFit /\ [Next]_vars => (QpInv /\ LogInv)'
  BY StepQp, StepLog
<1>3. QpInv /\ LogInv => TypeOK
  BY DEF QpInv, LogInv, ControlTypes, Places, LogTypes, TypeOK, WrtSets
<1>4. QED
  BY <1>1, <1>2, <1>3, PTL DEF Spec


(***************************************************************************)
(* Locks.  LocksMatchLogs says which write set a lock belongs to; it is    *)
(* inductive with the fact that no copy of a write set that may still be   *)
(* taken off its log is marked as freed, so that an abort unlocks all.     *)
(***************************************************************************)
LockOf(o) ==
  p_lock[o] # NULL =>
    /\ InLog(p_lock[o]) /\ CopyAt(p_lock[o]).obj = o
    /\ \/ cur_wrt_set[p_lock[o].thread] /\ p_lock[o].ws = TailCnt(p_lock[o].thread)
       \/ CopyAt(p_lock[o]).type = "free"

ListedBy(t) ==
  cur_wrt_set[t] =>
    \A i \in DOMAIN Current(t).objs : p_lock[Current(t).objs[i].obj] = CurrentAddress(t, i)

NoFrees(t) == Pending(t) => \A i \in DOMAIN Current(t).objs : Current(t).objs[i].type # "free"

LocksInv ==
  /\ \A o \in Objects : LockOf(o)
  /\ \A t \in Threads : ListedBy(t) /\ NoFrees(t)

\* A step leaves the copy at p, and the write set its log ends with.
SameCopy(p) == InLog(p)' /\ CopyAt(p)'.obj = CopyAt(p).obj /\ CopyAt(p)'.type = CopyAt(p).type
SameTail(p) == cur_wrt_set'[p.thread] = cur_wrt_set[p.thread] /\ TailCnt(p.thread)' = TailCnt(p.thread)

\* What a lock says after a step that leaves it and the copy it names alone.
LEMMA LockStays ==
  ASSUME NEW o \in Objects, LockOf(o), p_lock'[o] = p_lock[o],
         NEW p, p = p_lock[o], p # NULL, SameCopy(p), SameTail(p) \/ CopyAt(p).type = "free"
  PROVE  LockOf(o)'
<1>1. /\ InLog(p) /\ CopyAt(p).obj = o
      /\ \/ cur_wrt_set[p.thread] /\ p.ws = TailCnt(p.thread)
         \/ CopyAt(p).type = "free"
  BY DEF LockOf
<1>2. p_lock'[o] = p
  OBVIOUS
<1>3. InLog(p_lock[o])' <=> InLog(p)'
  BY <1>2 DEF InLog
<1>4. CopyAt(p_lock[o])' = CopyAt(p)' /\ TailCnt(p_lock[o].thread)' = TailCnt(p.thread)'
  BY <1>2 DEF CopyAt, TailCnt
<1>5. QED
  BY <1>1, <1>2, <1>3, <1>4 DEF LockOf, SameCopy, SameTail

\* What a thread's step does to the locks and to the copies they name.
LEMMA ThreadLocks ==
  ASSUME LogInv, QpInv, VersionsFit, LocksInv, NEW t \in Threads, ThreadStep(t)
  PROVE  LocksInv'
<1>0. /\ LogTypes /\ CurrentOf(t) /\ ControlTypes /\ Places /\ OpenSet(t)
      /\ wrt_sets \in [Threads -> Seq(WrtSets)] /\ wrt_sets[t] \in Seq(WrtSets)
      /\ p_lock \in [Objects -> Addresses \union {NULL}] /\ TailCnt(t) \in Nat
      /\ cur_wrt_set \in [Threads -> BOOLEAN] /\ NULL \notin Addresses
  <2>1. LogTypes /\ CurrentOf(t) /\ ControlTypes /\ Places
    BY DEF LogInv, QpInv
  <2>2. NULL \notin Addresses
    BY MarkerAssumption
  <2>3. OpenSet(t) /\ cur_wrt_set \in [Threads -> BOOLEAN]
    BY <2>1 DEF CurrentOf, ControlTypes
  <2>4. /\ wrt_sets \in [Threads -> Seq(WrtSets)]
        /\ p_lock \in [Objects -> Addresses \union {NULL}]
    BY <2>1 DEF LogTypes
  <2>5. wrt_sets[t] \in Seq(WrtSets) /\ TailCnt(t) \in Nat
    BY <2>4 DEF TailCnt
  <2>6. QED
    BY <2>1, <2>2, <2>3, <2>4, <2>5
<1>1. SectionEffect(t) /\ LogEffect(t)
  BY <1>0, ThreadEffect, ThreadLog
<1>2. \A o \in Objects : LockOf(o)
  BY DEF LocksInv
<1>3. \A u \in Threads : ListedBy(u) /\ NoFrees(u)
  BY DEF LocksInv
\* Other threads: their write sets are the same.
<1>4. ASSUME NEW u \in Threads, u # t
      PROVE  /\ wrt_sets'[u] = wrt_sets[u] /\ cur_wrt_set'[u] = cur_wrt_set[u]
             /\ pc'[u] = pc[u] /\ TailCnt(u)' = TailCnt(u) /\ Current(u)' = Current(u)
             /\ NoFrees(u)'
  <2>1. wrt_sets'[u] = wrt_sets[u] /\ cur_wrt_set'[u] = cur_wrt_set[u]
    BY <1>0, <1>1, <1>4, OtherLogs
  <2>2. pc'[u] = pc[u]
    BY <1>1, <1>4 DEF SectionEffect, Actors
  <2>3. TailCnt(u)' = TailCnt(u) /\ Current(u)' = Current(u)
    BY <2>1 DEF TailCnt, Current
  <2>4. QED
    BY <1>3, <2>1, <2>2, <2>3 DEF NoFrees, Pending
<1>5. ASSUME NEW p \in Addresses, InLog(p), p.thread # t
      PROVE  SameCopy(p) /\ SameTail(p)
  <2>1. p.thread \in Threads
    BY DEF Addresses
  <2>2. wrt_sets'[p.thread] = wrt_sets[p.thread] /\ cur_wrt_set'[p.thread] = cur_wrt_set[p.thread]
    BY <1>4, <1>5, <2>1
  <2>3. QED
    BY <1>5, <2>2 DEF InLog, CopyAt, SameCopy, SameTail, TailCnt
\* Objects in a write set are locked by it.
<1>6. ASSUME NEW u \in Threads, cur_wrt_set[u], NEW i \in DOMAIN Current(u).objs
      PROVE  /\ p_lock[Current(u).objs[i].obj] = CurrentAddress(u, i)
             /\ CurrentAddress(u, i) # NULL /\ Current(u).objs[i].obj \in Objects
  <2>1. CurrentOf(u)
    BY DEF LogInv
  <2>2. Current(u).objs \in Seq(Copies)
    BY <1>0, <1>6, <2>1, CurrentType
  <2>3. i \in Nat
    BY <1>6, <2>2
  <2>4. Current(u).objs[i] \in Copies
    BY <1>6, <2>2
  <2>5. CurrentAddress(u, i) \in Addresses
    BY <1>0, <2>3, CurrentAddressType
  <2>6. QED
    BY <1>0, <1>3, <1>6, <2>4, <2>5 DEF ListedBy, Copies
<1>7. \A o \in Objects : p_lock[o] # NULL => p_lock[o] \in Addresses /\ InLog(p_lock[o])
  BY <1>0, <1>2 DEF LockOf
<1>8. CASE LogStays(t)
  <2>1. /\ wrt_sets' = wrt_sets /\ cur_wrt_set' = cur_wrt_set /\ p_lock' = p_lock
        /\ Pending(t)' => Pending(t)
    BY <1>8 DEF LogStays
  <2>2. \A o \in Objects : LockOf(o)'
    BY <1>2, <2>1 DEF LockOf, InLog, CopyAt, TailCnt
  <2>3. \A u \in Threads : ListedBy(u)'
    BY <1>3, <2>1 DEF ListedBy, Current, CurrentAddress, TailCnt
  <2>4. NoFrees(t)'
    BY <1>3, <2>1 DEF NoFrees, Current, TailCnt
  <2>5. QED
    BY <1>4, <2>2, <2>3, <2>4 DEF LocksInv
<1>9. CASE LogOpens(t)
  <2> DEFINE new == [wrt_clk |-> MAX_VERSION, objs |-> <<>>]
  <2>1. /\ wrt_sets'[t] = Append(wrt_sets[t], new) /\ ~cur_wrt_set[t] /\ cur_wrt_set'[t]
        /\ p_lock' = p_lock
    BY <1>0, <1>9 DEF LogOpens
  <2>2. new \in WrtSets
    BY BoundsAssumption DEF WrtSets
  <2>3. /\ Len(wrt_sets'[t]) = TailCnt(t) + 1 /\ wrt_sets'[t][TailCnt(t) + 1] = new
        /\ \A w \in DOMAIN wrt_sets[t] : w \in DOMAIN wrt_sets'[t] /\ wrt_sets'[t][w] = wrt_sets[t][w]
    BY <1>0, <2>1, <2>2 DEF TailCnt
  <2>4. Current(t)' = new
    BY <2>3 DEF TailCnt, Current
  <2>5. ListedBy(t)' /\ NoFrees(t)'
    BY <2>4 DEF ListedBy, NoFrees
  <2>6. ASSUME NEW o \in Objects, NEW p, p = p_lock[o] PROVE LockOf(o)'
    <3>1. CASE p # NULL /\ p.thread = t
      <4>1. InLog(p) /\ CopyAt(p).type = "free"
        BY <1>2, <2>1, <2>6, <3>1 DEF LockOf
      <4>2. SameCopy(p)
        BY <2>3, <3>1, <4>1 DEF InLog, CopyAt, SameCopy
      <4>3. LockOf(o) /\ p_lock'[o] = p_lock[o]
        BY <1>2, <2>1
      <4>4. QED
        BY <2>6, <3>1, <4>1, <4>2, <4>3, LockStays
    <3>2. CASE p # NULL /\ p.thread # t
      <4>1. LockOf(o) /\ p_lock'[o] = p_lock[o] /\ p \in Addresses /\ InLog(p)
        BY <1>2, <1>7, <2>1, <2>6, <3>2
      <4>2. SameCopy(p) /\ SameTail(p)
        BY <1>5, <3>2, <4>1
      <4>3. QED
        BY <2>6, <3>2, <4>1, <4>2, LockStays
    <3>3. CASE p = NULL
      BY <2>1, <2>6, <3>3 DEF LockOf
    <3>4. QED
      BY <3>1, <3>2, <3>3
  <2>7. ASSUME NEW u \in Threads, u # t PROVE ListedBy(u)'
    BY <1>3, <1>4, <2>1, <2>7 DEF ListedBy, CurrentAddress
  <2>8. QED
    BY <1>4, <2>5, <2>6, <2>7 DEF LocksInv
<1>10. CASE LogChanges(t)
  <2>1. PICK ws \in WrtSets :
          /\ SetCurrent(t, ws) /\ Grows(Current(t), ws) /\ FreesLater(t, ws)
          /\ SameLocks(t, ws) \/ LocksOne(t, ws)
    BY <1>10 DEF LogChanges
  <2>2. cur_wrt_set[t] /\ TailCnt(t) >= 1 /\ cur_wrt_set' = cur_wrt_set /\ (Pending(t)' => Pending(t))
    BY <1>0, <1>10 DEF LogChanges, OpenSet
  <2>3. /\ wrt_sets' \in [Threads -> Seq(WrtSets)] /\ TailCnt(t)' = TailCnt(t) /\ Current(t)' = ws
        /\ \A w \in 1 .. TailCnt(t) : w # TailCnt(t) => wrt_sets'[t][w] = wrt_sets[t][w]
    BY <1>0, <2>1, <2>2, SetCurrentEffect
  <2>4. /\ DOMAIN wrt_sets[t] = 1 .. TailCnt(t) /\ DOMAIN wrt_sets'[t] = 1 .. TailCnt(t)
        /\ wrt_sets'[t][TailCnt(t)] = ws /\ wrt_sets[t][TailCnt(t)] = Current(t)
    BY <1>0, <2>3 DEF TailCnt, Current
  <2>5. Current(t).objs \in Seq(Copies) /\ ws.objs \in Seq(Copies)
    BY <1>0, <2>2, CurrentType DEF WrtSets
  <2>6. /\ DOMAIN Current(t).objs \subseteq DOMAIN ws.objs
        /\ \A i \in DOMAIN Current(t).objs : ws.objs[i].obj = Current(t).objs[i].obj
    BY <2>1, <2>5, LongerSeq DEF Grows
  <2>7. NoFrees(t)'
    BY <1>3, <2>1, <2>2, <2>3 DEF NoFrees, FreesLater, Pending, CommitLocs
  \* A lock that the step leaves alone.
  <2>8. ASSUME NEW o \in Objects, p_lock'[o] = p_lock[o], NEW p, p = p_lock[o] PROVE LockOf(o)'
    <3>1. CASE p # NULL /\ p.thread = t /\ p.ws = TailCnt(t)
      <4>1. InLog(p) /\ CopyAt(p).obj = o /\ p.idx \in DOMAIN Current(t).objs /\ p \in Addresses
        BY <1>2, <1>7, <2>4, <2>8, <3>1 DEF LockOf, InLog
      <4>2. /\ p.ws \in DOMAIN wrt_sets'[p.thread]
            /\ p.idx \in DOMAIN wrt_sets'[p.thread][p.ws].objs
            /\ wrt_sets'[p.thread][p.ws].objs[p.idx].obj = o
        BY <2>4, <2>6, <3>1, <4>1 DEF InLog, CopyAt
      <4>3. p_lock'[o] = p /\ cur_wrt_set'[p.thread] /\ p.ws = TailCnt(p.thread)'
        BY <2>2, <2>3, <2>8, <3>1 DEF TailCnt
      <4>4. QED
        BY <4>1, <4>2, <4>3 DEF LockOf, InLog, CopyAt, TailCnt
    <3>2. CASE p # NULL /\ p.thread = t /\ p.ws # TailCnt(t)
      <4>1. InLog(p) /\ p \in Addresses
        BY <1>7, <2>8, <3>2
      <4>2. wrt_sets'[p.thread][p.ws] = wrt_sets[p.thread][p.ws] /\ p.ws \in DOMAIN wrt_sets'[p.thread]
        BY <2>3, <2>4, <3>2, <4>1 DEF InLog
      <4>3. SameCopy(p)
        BY <4>1, <4>2 DEF InLog, CopyAt, SameCopy
      <4>4. SameTail(p)
        BY <2>2, <2>3, <3>2 DEF SameTail, TailCnt
      <4>5. LockOf(o)
        BY <1>2
      <4>6. QED
        BY <2>8, <3>2, <4>3, <4>4, <4>5, LockStays
    <3>3. CASE p # NULL /\ p.thread # t
      <4>1. LockOf(o) /\ p \in Addresses /\ InLog(p)
        BY <1>2, <1>7, <2>8, <3>3
      <4>2. SameCopy(p) /\ SameTail(p)
        BY <1>5, <3>3, <4>1
      <4>3. QED
        BY <2>8, <3>3, <4>1, <4>2, LockStays
    <3>4. CASE p = NULL
      BY <2>8, <3>4 DEF LockOf
    <3>5. QED
      BY <3>1, <3>2, <3>3, <3>4
  <2>9. CASE SameLocks(t, ws)
    <3>1. p_lock' = p_lock /\ DOMAIN ws.objs = DOMAIN Current(t).objs
      BY <2>5, <2>9 DEF SameLocks
    <3>2. ListedBy(t)'
      BY <1>3, <2>2, <2>3, <2>6, <3>1 DEF ListedBy, CurrentAddress
    <3>3. ASSUME NEW u \in Threads, u # t PROVE ListedBy(u)'
      BY <1>3, <1>4, <3>1, <3>3 DEF ListedBy, CurrentAddress
    <3>4. QED
      BY <1>4, <2>7, <2>8, <3>1, <3>2, <3>3 DEF LocksInv
  <2>10. CASE LocksOne(t, ws)
    <3>0. PICK n, new : n = Len(Current(t).objs) + 1 /\ new = ws.objs[n].obj
      OBVIOUS
    <3>1. /\ Len(ws.objs) = n /\ p_lock[new] = NULL
          /\ p_lock' = [p_lock EXCEPT ![new] = CurrentAddress(t, n)]
      BY <2>10, <3>0 DEF LocksOne
    <3>2. /\ n \in DOMAIN ws.objs /\ n \in Nat
          /\ \A i \in DOMAIN ws.objs : i # n => i \in DOMAIN Current(t).objs
      BY <2>5, <3>0, <3>1
    <3>3. ws.objs[n] \in Copies
      BY <2>5, <3>2
    <3>4. new \in Objects /\ CurrentAddress(t, n) \in Addresses
      BY <1>0, <3>0, <3>2, <3>3, CurrentAddressType DEF Copies
    <3>5. /\ p_lock'[new] = CurrentAddress(t, n)
          /\ \A o \in Objects : o # new => p_lock'[o] = p_lock[o]
      BY <1>0, <3>1, <3>4
    <3>6. LockOf(new)'
      <4>0. PICK p : p = CurrentAddress(t, n)
        OBVIOUS
      <4>1. p \in Addresses /\ p.thread = t /\ p.ws = TailCnt(t) /\ p.idx = n
        BY <3>4, <4>0 DEF CurrentAddress, Address
      <4>2. TailCnt(t) \in DOMAIN wrt_sets'[t]
        BY <1>0, <2>2, <2>4
      <4>3. /\ p.ws \in DOMAIN wrt_sets'[p.thread]
            /\ p.idx \in DOMAIN wrt_sets'[p.thread][p.ws].objs
            /\ wrt_sets'[p.thread][p.ws].objs[p.idx].obj = new
        BY <2>4, <3>0, <3>2, <4>1, <4>2
      <4>4. p_lock'[new] = p
        BY <3>5, <4>0
      <4>5. cur_wrt_set'[p.thread] /\ p.ws = TailCnt(p.thread)'
        BY <2>2, <2>3, <4>1 DEF TailCnt
      <4>6. QED
        BY <4>1, <4>3, <4>4, <4>5 DEF LockOf, InLog, CopyAt, TailCnt
    <3>7. ListedBy(t)'
      <4>1. ASSUME NEW i \in DOMAIN ws.objs PROVE p_lock'[ws.objs[i].obj] = CurrentAddress(t, i)
        <5>1. CASE i = n
          BY <3>0, <3>5, <5>1
        <5>2. CASE i # n
          <6>1. i \in DOMAIN Current(t).objs
            BY <3>2, <5>2
          <6>2. ws.objs[i].obj = Current(t).objs[i].obj
            BY <2>6, <6>1
          <6>3. /\ p_lock[Current(t).objs[i].obj] = CurrentAddress(t, i)
                /\ CurrentAddress(t, i) # NULL /\ Current(t).objs[i].obj \in Objects
            BY <1>6, <2>2, <6>1
          <6>4. Current(t).objs[i].obj # new
            BY <3>1, <6>3
          <6>5. QED
            BY <3>5, <6>2, <6>3, <6>4
        <5>3. QED
          BY <5>1, <5>2
      <4>2. QED
        BY <2>3, <4>1 DEF ListedBy, CurrentAddress
    <3>8. ASSUME NEW u \in Threads, u # t PROVE ListedBy(u)'
      <4>1. ASSUME cur_wrt_set[u], NEW i \in DOMAIN Current(u).objs
            PROVE  p_lock'[Current(u).objs[i].obj] = CurrentAddress(u, i)
        <5>1. /\ p_lock[Current(u).objs[i].obj] = CurrentAddress(u, i)
              /\ CurrentAddress(u, i) # NULL /\ Current(u).objs[i].obj \in Objects
          BY <1>6, <4>1
        <5>2. Current(u).objs[i].obj # new
          BY <3>1, <5>1
        <5>3. QED
          BY <3>5, <5>1, <5>2
      <4>2. QED
        BY <1>4, <3>8, <4>1 DEF ListedBy, CurrentAddress
    <3>9. ASSUME NEW o \in Objects PROVE LockOf(o)'
      <4>1. CASE o = new
        BY <3>6, <4>1
      <4>2. CASE o # new
        BY <2>8, <3>5, <4>2
      <4>3. QED
        BY <4>1, <4>2
    <3>10. QED
      BY <1>4, <2>7, <3>7, <3>8, <3>9 DEF LocksInv
  <2>11. QED
    BY <2>1, <2>9, <2>10
\* A write set ends: its thread's locks go, except those of objects it frees.
<1>11. ASSUME cur_wrt_set[t], p_lock' = Unlocked(t), cur_wrt_set' = [cur_wrt_set EXCEPT ![t] = FALSE],
              \A p \in Addresses : InLog(p) /\ p.thread = t
                  /\ (p.ws = TailCnt(t) => CopyAt(p).type = "free") => SameCopy(p)
       PROVE  LocksInv'
  <2>1. ~cur_wrt_set'[t]
    BY <1>0, <1>11
  <2>2. ASSUME NEW o \in Objects, NEW p, p = p_lock[o] PROVE LockOf(o)'
    <3>1. CASE p_lock'[o] = NULL
      BY <3>1 DEF LockOf
    <3>2. CASE p_lock'[o] # NULL /\ p.thread # t
      <4>1. p_lock'[o] = p /\ p # NULL
        BY <1>11, <2>2, <3>2 DEF Unlocked
      <4>2. LockOf(o) /\ p \in Addresses /\ InLog(p)
        BY <1>2, <1>7, <2>2, <4>1
      <4>3. SameCopy(p) /\ SameTail(p)
        BY <1>5, <3>2, <4>2
      <4>4. QED
        BY <2>2, <4>1, <4>2, <4>3, LockStays
    <3>3. CASE p_lock'[o] # NULL /\ p.thread = t
      <4>1. p_lock'[o] = p /\ p # NULL /\ ~\E i \in DOMAIN Current(t).objs :
              Current(t).objs[i].obj = o /\ Current(t).objs[i].type # "free"
        BY <1>11, <2>2, <3>3 DEF Unlocked
      <4>2. p \in Addresses /\ InLog(p) /\ CopyAt(p).obj = o
            /\ (p.ws = TailCnt(t) \/ CopyAt(p).type = "free")
        BY <1>2, <1>7, <2>2, <3>3, <4>1 DEF LockOf
      <4>3. CopyAt(p).type = "free"
        BY <3>3, <4>1, <4>2 DEF InLog, CopyAt, Current
      <4>4. SameCopy(p)
        BY <1>11, <3>3, <4>2, <4>3
      <4>5. LockOf(o)
        BY <1>2
      <4>6. QED
        BY <2>2, <4>1, <4>3, <4>4, <4>5, LockStays
    <3>4. QED
      BY <3>1, <3>2, <3>3
  <2>3. ListedBy(t)' /\ NoFrees(t)'
    BY <2>1 DEF ListedBy, NoFrees, Pending
  <2>4. ASSUME NEW u \in Threads, u # t PROVE ListedBy(u)'
    <3>1. ASSUME cur_wrt_set[u], NEW i \in DOMAIN Current(u).objs
          PROVE  p_lock'[Current(u).objs[i].obj] = CurrentAddress(u, i)
      <4> DEFINE o == Current(u).objs[i].obj
      <4>1. p_lock[o] = CurrentAddress(u, i) /\ o \in Objects
        BY <1>6, <3>1
      <4>2. ~\E j \in DOMAIN Current(t).objs : Current(t).objs[j].obj = o
        <5>1. ASSUME NEW j \in DOMAIN Current(t).objs, Current(t).objs[j].obj = o PROVE FALSE
          <6>1. p_lock[o] = CurrentAddress(t, j)
            BY <1>6, <1>11, <5>1
          <6>2. QED
            BY <2>4, <4>1, <6>1 DEF CurrentAddress, Address
        <5>2. QED
          BY <5>1
      <4>3. QED
        BY <1>11, <4>1, <4>2 DEF Unlocked
    <3>2. QED
      BY <1>4, <2>4, <3>1 DEF ListedBy, CurrentAddress
  <2>5. QED
    BY <1>4, <2>2, <2>3, <2>4 DEF LocksInv
<1>12. CASE LogCloses(t)
  <2>1. /\ wrt_sets' = wrt_sets /\ pc[t] = "unlock" /\ p_lock' = Unlocked(t)
        /\ cur_wrt_set' = [cur_wrt_set EXCEPT ![t] = FALSE]
    BY <1>12 DEF LogCloses
  <2>2. cur_wrt_set[t]
    BY <1>0, <2>1 DEF OpenSet
  <2>3. \A p : InLog(p) => SameCopy(p)
    BY <2>1 DEF InLog, CopyAt, SameCopy
  <2>4. QED
    BY <1>11, <2>1, <2>2, <2>3
<1>13. CASE LogIsCut(t)
  <2>1. /\ pc[t] = "abort" /\ cur_wrt_set[t] /\ p_lock' = Unlocked(t)
        /\ cur_wrt_set' = [cur_wrt_set EXCEPT ![t] = FALSE]
        /\ wrt_sets'[t] = SubSeq(wrt_sets[t], 1, TailCnt(t) - 1)
    BY <1>0, <1>13 DEF LogIsCut
  <2>2. TailCnt(t) >= 1
    BY <1>0, <2>1 DEF OpenSet
  <2>3. Pending(t)
    BY <2>1 DEF Pending, CommitLocs
  <2>4. /\ Len(wrt_sets'[t]) = TailCnt(t) - 1
        /\ \A w \in 1 .. TailCnt(t) - 1 : wrt_sets'[t][w] = wrt_sets[t][w]
        /\ wrt_sets'[t] \in Seq(WrtSets)
    BY <1>0, <2>1, <2>2, ShorterSeq DEF TailCnt
  <2>5. ASSUME NEW p \in Addresses, InLog(p), p.thread = t, p.ws = TailCnt(t) => CopyAt(p).type = "free"
        PROVE  SameCopy(p)
    <3>1. p.ws # TailCnt(t)
      BY <1>3, <2>3, <2>5 DEF NoFrees, InLog, CopyAt, Current
    <3>2. p.ws \in DOMAIN wrt_sets[t] /\ p.ws \in 1 .. TailCnt(t)
      BY <1>0, <2>5 DEF InLog, TailCnt
    <3>3. p.ws \in 1 .. TailCnt(t) - 1
      BY <1>0, <3>1, <3>2
    <3>4. p.ws \in DOMAIN wrt_sets'[t] /\ wrt_sets'[t][p.ws] = wrt_sets[t][p.ws]
      BY <1>0, <2>4, <3>3
    <3>5. QED
      BY <2>5, <3>4 DEF InLog, CopyAt, SameCopy
  <2>6. QED
    BY <1>11, <2>1, <2>5
<1>14. QED
  BY <1>1, <1>8, <1>9, <1>10, <1>12, <1>13 DEF LogEffect

\* QP writes no log, and locks nothing.
LEMMA QpFrame ==
  ASSUME LogInv, QpInv, VersionsFit, QpStep
  PROVE  /\ wrt_sets' = wrt_sets /\ cur_wrt_set' = cur_wrt_set /\ arg' = arg
         /\ p_lock' = p_lock /\ g_wrt_clk' = g_wrt_clk
         /\ \A o \in Objects : p_copy'[o] \in {p_copy[o], NULL}
         /\ \A t \in Threads : pc'[t] = pc[t]
<1>1. CASE log_reclaim(QP)
  BY <1>1, ReclaimScan, ActorsAssumption DEF Actors
<1> USE DEF objects, logs, clocks, reclaim, section, control, lists, Goto, CallReclaim
<1>2. CASE ~log_reclaim(QP)
  <2>1. /\ UNCHANGED <<g_wrt_clk, objects, logs, reclaim, section>>
    BY <1>2 DEF QpStep, QpReadClock, qp_init, qp_wait, QpReaped, QpReapDone, QpCheck, QpTrigger,
       QpStop, QpReap, QpHelp
  <2>2. \A t \in Threads : pc'[t] = pc[t]
    <3>1. pc \in [Actors -> Locs \union QpLocs]
      BY DEF QpInv, Places
    <3>2. \E loc : pc' = [pc EXCEPT ![QP] = loc]
      BY <1>2 DEF QpStep, QpReadClock, qp_init, qp_wait, QpReaped, QpReapDone, QpCheck, QpTrigger,
         QpStop, QpReap, QpHelp
    <3>3. QED
      BY <3>1, <3>2, ActorsAssumption DEF Actors
  <2>3. QED
    BY <2>1, <2>2
<1>3. QED
  BY <1>1, <1>2

\* What the write sets are locked by holds at first, and after every step.
LEMMA InitLocks == Init => LocksInv
  BY DEF Init, LocksInv, LockOf, ListedBy, NoFrees, Pending

\* LocksInv is inductive with it.
LEMMA StepLocks == QpInv /\ VersionsFit /\ LogInv /\ LocksInv /\ [Next]_vars => LocksInv'
<1>1. ASSUME LocksInv, wrt_sets' = wrt_sets, cur_wrt_set' = cur_wrt_set, p_lock' = p_lock,
             \A t \in Threads : pc'[t] = pc[t]
      PROVE  LocksInv'
  <2>1. \A o \in Objects : LockOf(o)'
    BY <1>1 DEF LocksInv, LockOf, InLog, CopyAt, TailCnt
  <2>2. \A t \in Threads : ListedBy(t)' /\ NoFrees(t)'
    BY <1>1 DEF LocksInv, ListedBy, NoFrees, Pending, Current, CurrentAddress, TailCnt
  <2>3. QED
    BY <2>1, <2>2 DEF LocksInv
<1>2. ASSUME LocksInv, UNCHANGED vars PROVE LocksInv'
  BY <1>1, <1>2 DEF vars, logs, objects, control
<1>3. ASSUME QpInv, VersionsFit, LogInv, LocksInv, QpStep PROVE LocksInv'
  BY <1>1, <1>3, QpFrame
<1>4. QED
  BY <1>2, <1>3, ThreadLocks DEF Next, Terminating

\* The copies of a thread's log that LocksMatchLogs speaks of.
LEMMA InLogIsACopy ==
  ASSUME NEW p, InLog(p)
  PROVE  p \in AllCopies
<1>1. p.thread \in Threads /\ p = Address(p.thread, p.ws, p.idx)
  BY DEF InLog, Addresses, Address
<1>2. p \in CopiesOf(p.thread, p.ws)
  BY <1>1 DEF InLog, CopiesOf
<1>3. QED
  BY <1>1, <1>2 DEF InLog, AllCopies

\* An object is locked by the write set that lists it and by no other, until
\* that write set ends (ws_unlock, log_abort), or for good if it frees the object.
THEOREM LocksAgree == Spec /\ []VersionsFit => []LocksMatchLogs
<1>1. Init => QpInv /\ LogInv /\ LocksInv
  BY InitQp, InitLog, InitLocks
<1>2. QpInv /\ LogInv /\ LocksInv /\ VersionsFit /\ [Next]_vars => (QpInv /\ LogInv /\ LocksInv)'
  BY StepQp, StepLog, StepLocks
<1>3. QpInv /\ LogInv /\ LocksInv => LocksMatchLogs
  BY InLogIsACopy DEF LocksInv, LockOf, ListedBy, LocksMatchLogs
<1>4. QED
  BY <1>1, <1>2, <1>3, PTL DEF Spec

(***************************************************************************)
(* Versions.  A writer links its copy to the head of a chain while it has  *)
(* the object locked.  That head is then a copy of a commit that is over:  *)
(* of one that is not, the object would be locked.  So its clock is not    *)
(* after g_wrt_clk, and the clock the writer draws once all its copies are *)
(* linked is after it.                                                     *)
(***************************************************************************)
IsVersion(o, a) ==
  InLog(a) /\ get_wrt_clk(a) # MAX_VERSION /\ CopyAt(a).obj = o /\ CopyAt(a).type = "copy"

\* The copy leads to the version before it, and names its clock.
Linked(c) ==
  /\ c.wrt_clk_next <= g_wrt_clk
  /\ c.p_copy # NULL => IsVersion(c.obj, c.p_copy) /\ get_wrt_clk(c.p_copy) = c.wrt_clk_next

\* The write sets of commits that are over are not after the clock.
ClocksOf(t) ==
  /\ \A w \in 1 .. TailCnt(t) :
       (cur_wrt_set[t] => w # TailCnt(t)) => wrt_sets[t][w].wrt_clk <= g_wrt_clk
  /\ pc[t] = "unlock" => Current(t).wrt_clk <= g_wrt_clk
  /\ pc[t] = "advance" => Current(t).wrt_clk <= g_wrt_clk + 1

\* A chain begins with a version, or with a copy a commit has moved there.
HeadOf(o) ==
  p_copy[o] # NULL =>
    /\ CopyAt(p_copy[o]).obj = o /\ CopyAt(p_copy[o]).type = "copy"
    /\ get_wrt_clk(p_copy[o]) = MAX_VERSION => p_copy[o].idx < arg[p_copy[o].thread].idx

\* The copies ws_move_lock_to_copy has been at are linked or freed.
MoveLocs == {"move", "cas", "store_clock"}

MovedOf(t) ==
  /\ pc[t] \in MoveLocs =>
       \A i \in DOMAIN Current(t).objs :
         i < arg[t].idx /\ Current(t).objs[i].type = "copy" => Linked(Current(t).objs[i])
  /\ pc[t] \in {"move", "cas"} =>
       \A i \in DOMAIN Current(t).objs : i >= arg[t].idx => Current(t).objs[i].type # "free"
  /\ pc[t] = "cas" =>
       Current(t).objs[arg[t].idx].type = "copy" /\ Linked(Current(t).objs[arg[t].idx])
  /\ pc[t] = "store_clock" =>
       /\ arg[t].idx > Len(Current(t).objs)
       /\ \A i \in DOMAIN Current(t).objs :
            Current(t).objs[i].type = "copy" => Current(t).objs[i].wrt_clk_next < arg[t].clk

VersionsOf(t) ==
  \A w \in DOMAIN wrt_sets[t] : wrt_sets[t][w].wrt_clk # MAX_VERSION =>
    \A i \in DOMAIN wrt_sets[t][w].objs : wrt_sets[t][w].objs[i].type = "copy" =>
      /\ Linked(wrt_sets[t][w].objs[i])
      /\ wrt_sets[t][w].objs[i].wrt_clk_next < wrt_sets[t][w].wrt_clk

VersionInv ==
  /\ \A t \in Threads : ClocksOf(t) /\ MovedOf(t) /\ VersionsOf(t)
  /\ \A o \in Objects : HeadOf(o)

\* What a commit does while it moves its copies and stores its clock.
MarksFree(t, i) ==
  /\ pc[t] = "move" /\ pc'[t] = "move" /\ arg'[t].idx = i + 1 /\ p_copy' = p_copy
  /\ i \in DOMAIN Current(t).objs /\ Current(t)'.objs[i].type # "copy"

LinksCopy(t, i) ==
  /\ pc[t] \in {"move", "cas"} /\ pc'[t] = "cas" /\ arg'[t].idx = i /\ p_copy' = p_copy
  /\ i \in DOMAIN Current(t).objs /\ (pc[t] = "move" => Current(t).objs[i].type # "const")
  /\ Current(t)'.objs[i].type = Current(t).objs[i].type
  /\ Current(t)'.objs[i].p_copy = p_copy[Current(t).objs[i].obj]
  /\ Current(t)'.objs[i].wrt_clk_next =
       IF p_copy[Current(t).objs[i].obj] = NULL THEN MIN_VERSION
       ELSE get_wrt_clk(p_copy[Current(t).objs[i].obj])

PutsInFront(t, i) ==
  /\ pc[t] = "cas" /\ pc'[t] = "move" /\ arg'[t].idx = i + 1 /\ i \in DOMAIN Current(t).objs
  /\ Current(t)' = Current(t)
  /\ p_copy' = [p_copy EXCEPT ![Current(t).objs[i].obj] = CurrentAddress(t, i)]

DrawsClock(t, i) ==
  /\ pc[t] = "move" /\ pc'[t] = "store_clock" /\ arg'[t].idx = i /\ arg'[t].clk = g_wrt_clk + 1
  /\ i > Len(Current(t).objs) /\ Current(t)' = Current(t) /\ p_copy' = p_copy

StoresClock(t, i) ==
  /\ pc[t] = "store_clock" /\ pc'[t] = "advance" /\ arg'[t].idx = i /\ p_copy' = p_copy
  /\ Current(t)'.objs = Current(t).objs /\ Current(t)'.wrt_clk = arg[t].clk

MoveEffect(t) ==
  LET i == arg[t].idx IN
  /\ cur_wrt_set[t] /\ cur_wrt_set'[t] /\ TailCnt(t)' = TailCnt(t) /\ g_wrt_clk' = g_wrt_clk
  /\ DOMAIN Current(t)'.objs = DOMAIN Current(t).objs
  /\ \A j \in DOMAIN Current(t).objs :
       /\ Current(t)'.objs[j].obj = Current(t).objs[j].obj
       /\ j # i => Current(t)'.objs[j] = Current(t).objs[j]
  /\ \/ MarksFree(t, i) \/ LinksCopy(t, i) \/ PutsInFront(t, i)
     \/ DrawsClock(t, i) \/ StoresClock(t, i)

\* MoveCopy, MoveCas, LoadClock and StoreClock do this.
LEMMA CommitSteps ==
  ASSUME LogInv, QpInv, VersionsFit, NEW t \in Threads, ThreadStep(t), pc[t] \in MoveLocs
  PROVE  MoveEffect(t)
<1>0. /\ LogTypes /\ ChainInv /\ CurrentOf(t) /\ ArgOf(t) /\ OpenSet(t)
      /\ t \in Actors /\ pc \in [Actors -> Locs \union QpLocs]
      /\ cur_wrt_set \in [Threads -> BOOLEAN] /\ cur_wrt_set[t]
      /\ arg \in [Threads -> Args] /\ arg[t] \in Args /\ arg[t].idx \in Nat
      /\ p_copy \in [Objects -> Addresses \union {NULL}] /\ TailCnt(t) >= 1
  BY DEF LogInv, QpInv, Places, ControlTypes, Actors, LogTypes, CurrentOf, OpenSet, MoveLocs,
     CommitLocs, Args
<1>1. Current(t) \in WrtSets /\ Current(t).objs \in Seq(Copies)
  BY <1>0, CurrentType
<1> USE DEF objects, logs, clocks, reclaim, section, control, lists, Goto, CallReclaim
<1>2. MoveCopy(t) \/ MoveCas(t) \/ LoadClock(t) \/ StoreClock(t)
  BY DEF ThreadStep, log_reclaim, TryReclaimLock, ReclaimWrtSet, WriteBackCopy, try_detach_obj,
     EndScan, mvrlu_reader_lock, log_reclaim_force, ForceWait, BelowHighMark, ReadClock, DerefWalk,
     TryLockCas, DerefHead, TryLockRead, mvrlu_free, mvrlu_reader_unlock, AdvanceClock, ws_unlock,
     AfterReclaim, mvrlu_abort, log_abort, mvrlu_flush_log, mvrlu_thread_finish, LeaveLists,
     NoMoreSections, MoveLocs
\* A copy is replaced.
<1>3. ASSUME NEW c \in Copies, arg[t].idx \in DOMAIN Current(t).objs,
             SetCurrent(t, [Current(t) EXCEPT !.objs[arg[t].idx] = c]),
             c.obj = Current(t).objs[arg[t].idx].obj
      PROVE  /\ TailCnt(t)' = TailCnt(t) /\ DOMAIN Current(t)'.objs = DOMAIN Current(t).objs
             /\ Current(t)'.objs[arg[t].idx] = c
             /\ \A j \in DOMAIN Current(t).objs :
                  /\ Current(t)'.objs[j].obj = Current(t).objs[j].obj
                  /\ j # arg[t].idx => Current(t)'.objs[j] = Current(t).objs[j]
  <2> DEFINE ws == [Current(t) EXCEPT !.objs[arg[t].idx] = c]
  <2>1. ws \in WrtSets /\ ws.objs = [Current(t).objs EXCEPT ![arg[t].idx] = c]
    BY <1>1, <1>3, ChangeCopy
  <2>2. TailCnt(t)' = TailCnt(t) /\ Current(t)' = ws
    BY <1>0, <1>3, <2>1, SetCurrentEffect
  <2> HIDE DEF ws
  <2>3. QED
    BY <1>1, <1>3, <2>1, <2>2
\* The log is left alone.
<1>4. ASSUME wrt_sets' = wrt_sets
      PROVE  TailCnt(t)' = TailCnt(t) /\ Current(t)' = Current(t)
  BY <1>4 DEF TailCnt, Current
<1>5. CASE MoveCopy(t)
  <2> DEFINE i == arg[t].idx
             old == Current(t).objs[i]
  <2>1. /\ pc[t] = "move" /\ cur_wrt_set' = cur_wrt_set /\ g_wrt_clk' = g_wrt_clk /\ p_copy' = p_copy
        /\ i \in DOMAIN Current(t).objs /\ old \in Copies
    <3>1. pc[t] = "move" /\ i <= Len(Current(t).objs)
      BY <1>5 DEF MoveCopy
    <3>2. i >= 1
      BY <1>0, <3>1 DEF ArgOf
    <3>3. QED
      BY <1>0, <1>1, <1>5, <3>1, <3>2 DEF MoveCopy
  <2>2. CASE old.obj \in free_ptrs[t]
    <3>1. /\ SetCurrent(t, [Current(t) EXCEPT !.objs[i].type = "free"])
          /\ arg' = [arg EXCEPT ![t].idx = i + 1] /\ pc' = pc
      BY <1>5, <2>2 DEF MoveCopy
    <3>2. [Current(t) EXCEPT !.objs[i].type = "free"]
            = [Current(t) EXCEPT !.objs[i] = [old EXCEPT !.type = "free"]]
      BY <1>1, <2>1
    <3> DEFINE c == [old EXCEPT !.type = "free"]
    <3>3. c \in Copies /\ c.obj = old.obj /\ c.type = "free"
      BY <2>1 DEF Copies
    <3>4. SetCurrent(t, [Current(t) EXCEPT !.objs[i] = c])
      BY <3>1, <3>2
    <3>5. arg'[t].idx = i + 1 /\ pc'[t] = "move"
      BY <1>0, <2>1, <3>1 DEF Args
    <3> HIDE DEF c
    <3>6. QED
      BY <1>0, <1>3, <2>1, <3>3, <3>4, <3>5 DEF MoveEffect, MarksFree
  <2>3. CASE old.obj \notin free_ptrs[t] /\ old.type = "const"
    <3>1. arg' = [arg EXCEPT ![t].idx = i + 1] /\ wrt_sets' = wrt_sets /\ pc' = pc
      BY <1>5, <2>3 DEF MoveCopy
    <3>2. arg'[t].idx = i + 1 /\ pc'[t] = "move"
      BY <1>0, <2>1, <3>1 DEF Args
    <3>3. QED
      BY <1>0, <1>4, <2>1, <2>3, <3>1, <3>2 DEF MoveEffect, MarksFree
  <2>4. CASE old.obj \notin free_ptrs[t] /\ old.type # "const"
    <3>1. LinkTo(t, p_copy[old.obj]) /\ pc' = [pc EXCEPT ![t] = "cas"] /\ arg' = arg
      BY <1>5, <2>4 DEF MoveCopy
    <3>2. PICK c \in Copies :
            /\ c = [old EXCEPT !.p_copy = p_copy[old.obj],
                               !.wrt_clk_next = IF p_copy[old.obj] = NULL THEN MIN_VERSION
                                                ELSE get_wrt_clk(p_copy[old.obj])]
            /\ SetCurrent(t, [Current(t) EXCEPT !.objs[i] = c])
      BY <1>0, <2>1, <3>1, LinkEffect
    <3>3. /\ c.obj = old.obj /\ c.type = old.type /\ c.p_copy = p_copy[old.obj]
          /\ c.wrt_clk_next = IF p_copy[old.obj] = NULL THEN MIN_VERSION
                              ELSE get_wrt_clk(p_copy[old.obj])
      BY <2>1, <3>2 DEF Copies
    <3>4. QED
      BY <1>0, <1>3, <2>1, <2>4, <3>1, <3>2, <3>3 DEF MoveEffect, LinksCopy
  <2>5. QED
    BY <2>2, <2>3, <2>4
<1>6. CASE MoveCas(t)
  <2> DEFINE i == arg[t].idx
             old == Current(t).objs[i]
  <2>1. /\ pc[t] = "cas" /\ cur_wrt_set' = cur_wrt_set /\ g_wrt_clk' = g_wrt_clk
        /\ i \in DOMAIN Current(t).objs /\ old \in Copies
    <3>1. pc[t] = "cas" /\ i \in DOMAIN Current(t).objs
      BY <1>0, <1>6 DEF MoveCas, ArgOf
    <3>2. QED
      BY <1>1, <1>6, <3>1 DEF MoveCas
  <2>2. CASE p_copy[old.obj] = old.p_copy
    <3>1. /\ p_copy' = [p_copy EXCEPT ![old.obj] = CurrentAddress(t, i)] /\ wrt_sets' = wrt_sets
          /\ arg' = [arg EXCEPT ![t].idx = i + 1] /\ pc' = [pc EXCEPT ![t] = "move"]
      BY <1>6, <2>2 DEF MoveCas
    <3>2. arg'[t].idx = i + 1 /\ pc'[t] = "move"
      BY <1>0, <3>1 DEF Args
    <3>3. QED
      BY <1>0, <1>4, <2>1, <3>1, <3>2 DEF MoveEffect, PutsInFront
  <2>3. CASE p_copy[old.obj] # old.p_copy
    <3>1. LinkTo(t, p_copy[old.obj]) /\ pc' = pc /\ arg' = arg /\ p_copy' = p_copy
      BY <1>6, <2>3 DEF MoveCas
    <3>2. PICK c \in Copies :
            /\ c = [old EXCEPT !.p_copy = p_copy[old.obj],
                               !.wrt_clk_next = IF p_copy[old.obj] = NULL THEN MIN_VERSION
                                                ELSE get_wrt_clk(p_copy[old.obj])]
            /\ SetCurrent(t, [Current(t) EXCEPT !.objs[i] = c])
      BY <1>0, <2>1, <3>1, LinkEffect
    <3>3. /\ c.obj = old.obj /\ c.type = old.type /\ c.p_copy = p_copy[old.obj]
          /\ c.wrt_clk_next = IF p_copy[old.obj] = NULL THEN MIN_VERSION
                              ELSE get_wrt_clk(p_copy[old.obj])
      BY <2>1, <3>2 DEF Copies
    <3>4. QED
      BY <1>0, <1>3, <2>1, <3>1, <3>2, <3>3 DEF MoveEffect, LinksCopy
  <2>4. QED
    BY <2>2, <2>3
<1>7. CASE LoadClock(t)
  <2>1. /\ pc[t] = "move" /\ arg[t].idx > Len(Current(t).objs)
        /\ arg' = [arg EXCEPT ![t].clk = g_wrt_clk + 1] /\ pc' = [pc EXCEPT ![t] = "store_clock"]
        /\ wrt_sets' = wrt_sets /\ cur_wrt_set' = cur_wrt_set /\ g_wrt_clk' = g_wrt_clk
        /\ p_copy' = p_copy
    BY <1>7 DEF LoadClock
  <2>2. arg'[t].idx = arg[t].idx /\ arg'[t].clk = g_wrt_clk + 1 /\ pc'[t] = "store_clock"
    BY <1>0, <2>1 DEF Args
  <2>3. QED
    BY <1>0, <1>4, <2>1, <2>2 DEF MoveEffect, DrawsClock
<1>8. CASE StoreClock(t)
  <2>1. /\ pc[t] = "store_clock" /\ SetCurrent(t, [Current(t) EXCEPT !.wrt_clk = arg[t].clk])
        /\ pc' = [pc EXCEPT ![t] = "advance"] /\ arg' = arg
        /\ cur_wrt_set' = cur_wrt_set /\ g_wrt_clk' = g_wrt_clk /\ p_copy' = p_copy
    BY <1>8 DEF StoreClock
  <2> DEFINE ws == [Current(t) EXCEPT !.wrt_clk = arg[t].clk]
  <2>2. ws \in WrtSets /\ ws.objs = Current(t).objs /\ ws.wrt_clk = arg[t].clk
    BY <1>0, <1>1 DEF WrtSets, Args
  <2>3. TailCnt(t)' = TailCnt(t) /\ Current(t)' = ws
    BY <1>0, <2>1, <2>2, SetCurrentEffect
  <2>4. pc'[t] = "advance"
    BY <1>0, <2>1
  <2> HIDE DEF ws
  <2>5. QED
    BY <1>0, <2>1, <2>2, <2>3, <2>4 DEF MoveEffect, StoresClock
<1>9. QED
  BY <1>2, <1>5, <1>6, <1>7, <1>8

\* Outside these steps a commit starts, or its clock advances, or it is not
\* concerned; log_reclaim may cut a chain off.
SectionCommits(t) ==
  /\ pc[t] = "section" /\ cur_wrt_set[t] /\ wrt_sets' = wrt_sets /\ cur_wrt_set' = cur_wrt_set
  /\ arg'[t].idx = 1

OutsideMove(t) ==
  /\ \A o \in Objects : p_copy'[o] \in {p_copy[o], NULL}
  /\ pc'[t] \notin {"cas", "store_clock", "advance"}
  /\ pc'[t] = "move" => SectionCommits(t)
  /\ pc'[t] = "unlock" <=> pc[t] = "advance"
  /\ IF pc[t] = "advance"
     THEN g_wrt_clk' = g_wrt_clk + 1 /\ wrt_sets' = wrt_sets /\ cur_wrt_set' = cur_wrt_set
     ELSE g_wrt_clk' = g_wrt_clk
  /\ pc[t] = "unlock" => wrt_sets' = wrt_sets

LEMMA OtherSteps ==
  ASSUME LogInv, QpInv, VersionsFit, NEW t \in Threads, ThreadStep(t), pc[t] \notin MoveLocs
  PROVE  OutsideMove(t)
<1>0. /\ LogTypes /\ t \in Actors /\ pc \in [Actors -> Locs \union QpLocs]
      /\ ret[t] \in ReturnLocs /\ arg \in [Threads -> Args] /\ arg[t] \in Args
  BY DEF LogInv, QpInv, Places, Actors, LogTypes
<1>1. CASE log_reclaim(t)
  <2>1. /\ wrt_sets' = wrt_sets /\ cur_wrt_set' = cur_wrt_set /\ g_wrt_clk' = g_wrt_clk
        /\ \A o \in Objects : p_copy'[o] \in {p_copy[o], NULL}
        /\ pc[t] \in ReclaimLocs /\ pc'[t] \in ReclaimLocs \union ReturnLocs \union {"reaped", "help"}
    BY <1>0, <1>1, ReclaimScan
  <2>2. QED
    BY <2>1 DEF OutsideMove, ReclaimLocs, ReturnLocs
<1> USE DEF objects, logs, clocks, reclaim, section, control, lists, Goto, CallReclaim
<1>2. CASE mvrlu_reader_lock(t) \/ log_reclaim_force(t) \/ ForceWait(t) \/ BelowHighMark(t)
  BY <1>0, <1>2 DEF mvrlu_reader_lock, log_reclaim_force, ForceWait, BelowHighMark, StartSection,
     OutsideMove
<1>3. CASE ReadClock(t) \/ DerefWalk(t)
  BY <1>0, <1>3 DEF ReadClock, DerefWalk, OutsideMove
<1>4. CASE TryLockCas(t)
  BY <1>0, <1>4 DEF TryLockCas, OutsideMove
<1>5. CASE \E o \in Objects : DerefHead(t, o) \/ TryLockRead(t, o) \/ mvrlu_free(t, o)
  BY <1>0, <1>5 DEF DerefHead, TryLockRead, mvrlu_free, OutsideMove
<1>6. CASE mvrlu_reader_unlock(t)
  <2>1. /\ pc[t] = "section" /\ UNCHANGED <<g_wrt_clk, p_copy, wrt_sets, cur_wrt_set>>
    BY <1>6 DEF mvrlu_reader_unlock
  <2>2. CASE cur_wrt_set[t]
    <3>1. pc' = [pc EXCEPT ![t] = "move"] /\ arg' = [arg EXCEPT ![t].idx = 1]
      BY <1>6, <2>2 DEF mvrlu_reader_unlock
    <3>2. pc'[t] = "move" /\ arg'[t].idx = 1
      BY <1>0, <3>1 DEF Args
    <3>3. QED
      BY <2>1, <2>2, <3>2 DEF OutsideMove, SectionCommits
  <2>3. CASE ~cur_wrt_set[t]
    <3>1. pc'[t] \in {"try_reclaim", "idle"}
      BY <1>0, <1>6, <2>3 DEF mvrlu_reader_unlock, AfterSection
    <3>2. QED
      BY <2>1, <3>1 DEF OutsideMove
  <2>4. QED
    BY <2>2, <2>3
<1>7. CASE AdvanceClock(t)
  BY <1>0, <1>7 DEF AdvanceClock, OutsideMove
<1>8. CASE ws_unlock(t)
  BY <1>0, <1>8 DEF ws_unlock, AfterSection, OutsideMove
<1>9. CASE AfterReclaim(t) \/ mvrlu_abort(t)
  BY <1>0, <1>9 DEF AfterReclaim, mvrlu_abort, OutsideMove
<1>10. CASE log_abort(t)
  BY <1>0, <1>10 DEF log_abort, AfterSection, OutsideMove
<1>11. CASE mvrlu_flush_log(t) \/ mvrlu_thread_finish(t) \/ LeaveLists(t)
  BY <1>0, <1>11 DEF mvrlu_flush_log, mvrlu_thread_finish, LeaveLists, NoMoreSections, OutsideMove
<1>12. ~(MoveCopy(t) \/ MoveCas(t) \/ LoadClock(t) \/ StoreClock(t))
  BY DEF MoveCopy, MoveCas, LoadClock, StoreClock, MoveLocs
<1>13. QED
  BY <1>1, <1>2, <1>3, <1>4, <1>5, <1>6, <1>7, <1>8, <1>9, <1>10, <1>11, <1>12 DEF ThreadStep

\* A committed write set is not changed any more, and no other step than
\* storing its clock commits one.
LEMMA DoneStays ==
  ASSUME LogInv, QpInv, VersionsFit, NEW t \in Threads, ThreadStep(t),
         NEW l \in Threads, NEW w \in DOMAIN wrt_sets[l], wrt_sets[l][w].wrt_clk # MAX_VERSION
  PROVE  w \in DOMAIN wrt_sets'[l] /\ wrt_sets'[l][w] = wrt_sets[l][w]
<1>0. /\ LogTypes /\ ControlTypes /\ Places /\ CurrentOf(t) /\ OpenSet(t)
  BY DEF LogInv, QpInv, CurrentOf
<1>1. LogEffect(t)
  BY <1>0, ThreadLog
<1>2. CASE l # t
  BY <1>0, <1>1, <1>2, OtherLogs
<1>3. CASE l = t
  <2>1. \/ w \in DOMAIN wrt_sets'[t] /\ wrt_sets'[t][w] = wrt_sets[t][w]
        \/ w = TailCnt(t) /\ cur_wrt_set[t]
    BY <1>0, <1>1, <1>3, OwnLog DEF LogIsCut
  <2>2. CASE w = TailCnt(t) /\ cur_wrt_set[t]
    <3>1. pc[t] \in {"advance", "unlock"}
      BY <1>0, <1>3, <2>2 DEF OpenSet, Current
    <3>2. wrt_sets' = wrt_sets
      BY <3>1, OtherSteps DEF OutsideMove, MoveLocs
    <3>3. QED
      BY <1>3, <3>2
  <2>3. QED
    BY <1>3, <2>1, <2>2
<1>4. QED
  BY <1>2, <1>3

\* What is committed after another step was so before it.
LEMMA CommittedBefore ==
  ASSUME LogInv, QpInv, VersionsFit, NEW t \in Threads, ThreadStep(t), pc[t] # "store_clock",
         NEW w \in DOMAIN wrt_sets'[t], wrt_sets'[t][w].wrt_clk # MAX_VERSION
  PROVE  w \in DOMAIN wrt_sets[t] /\ wrt_sets'[t][w] = wrt_sets[t][w]
<1>0. /\ LogTypes /\ ControlTypes /\ Places /\ CurrentOf(t) /\ OpenSet(t)
      /\ wrt_sets \in [Threads -> Seq(WrtSets)] /\ wrt_sets[t] \in Seq(WrtSets)
      /\ DOMAIN wrt_sets[t] = 1 .. TailCnt(t) /\ TailCnt(t) \in Nat
  BY DEF LogInv, QpInv, CurrentOf, LogTypes, TailCnt
<1>1. LogEffect(t)
  BY <1>0, ThreadLog
<1>2. CASE wrt_sets' = wrt_sets
  BY <1>2
<1>3. CASE LogOpens(t)
  <2> DEFINE new == [wrt_clk |-> MAX_VERSION, objs |-> <<>>]
  <2>1. wrt_sets'[t] = Append(wrt_sets[t], new)
    BY <1>0, <1>3 DEF LogOpens
  <2>2. new \in WrtSets
    BY BoundsAssumption DEF WrtSets
  <2>3. /\ DOMAIN wrt_sets'[t] = 1 .. TailCnt(t) + 1 /\ wrt_sets'[t][TailCnt(t) + 1] = new
        /\ \A v \in 1 .. TailCnt(t) : wrt_sets'[t][v] = wrt_sets[t][v]
    BY <1>0, <2>1, <2>2 DEF TailCnt
  <2>4. QED
    BY <1>0, <2>3
<1>4. CASE LogChanges(t)
  <2>1. PICK ws \in WrtSets : SetCurrent(t, ws) /\ ClockStays(t, ws)
    BY <1>4 DEF LogChanges
  <2>2. cur_wrt_set[t] /\ TailCnt(t) >= 1
    BY <1>0, <1>4 DEF LogChanges, OpenSet
  <2>3. /\ wrt_sets'[t] = [wrt_sets[t] EXCEPT ![TailCnt(t)] = ws]
        /\ \A v \in 1 .. TailCnt(t) : v # TailCnt(t) => wrt_sets'[t][v] = wrt_sets[t][v]
    BY <1>0, <2>1, <2>2, SetCurrentEffect
  <2>4. w \in 1 .. TailCnt(t) /\ wrt_sets'[t][TailCnt(t)] = ws
    BY <1>0, <2>2, <2>3
  <2>5. CASE w = TailCnt(t)
    <3>1. ws.wrt_clk = Current(t).wrt_clk
      BY <2>1 DEF ClockStays
    <3>2. pc[t] \in {"advance", "unlock"}
      BY <1>0, <2>2, <2>4, <2>5, <3>1 DEF OpenSet
    <3>3. QED
      BY <1>2, <3>2, OtherSteps DEF OutsideMove, MoveLocs
  <2>6. QED
    BY <1>0, <2>3, <2>4, <2>5
<1>5. CASE LogIsCut(t)
  <2>1. wrt_sets'[t] = SubSeq(wrt_sets[t], 1, TailCnt(t) - 1) /\ TailCnt(t) >= 1
    BY <1>0, <1>5 DEF LogIsCut, OpenSet
  <2>2. /\ Len(wrt_sets'[t]) = TailCnt(t) - 1 /\ wrt_sets'[t] \in Seq(WrtSets)
        /\ \A v \in 1 .. TailCnt(t) - 1 : wrt_sets'[t][v] = wrt_sets[t][v]
    <3>1. wrt_sets[t] \in Seq(WrtSets) /\ Len(wrt_sets[t]) = TailCnt(t) /\ Len(wrt_sets[t]) >= 1
      BY <1>0, <2>1 DEF TailCnt
    <3>2. QED
      BY <2>1, <3>1, ShorterSeq
  <2>3. DOMAIN wrt_sets'[t] = 1 .. TailCnt(t) - 1
    BY <2>2
  <2>4. w \in 1 .. TailCnt(t) - 1 /\ w \in 1 .. TailCnt(t)
    BY <1>0, <2>3
  <2>5. QED
    BY <1>0, <2>2, <2>4
<1>6. QED
  BY <1>1, <1>2, <1>3, <1>4, <1>5 DEF LogEffect, LogStays, LogCloses

\* Versions stay, and so do the links to them.
LEMMA VersionStays ==
  ASSUME LogInv, QpInv, VersionsFit, NEW t \in Threads, ThreadStep(t), NEW o, NEW a, IsVersion(o, a)
  PROVE  IsVersion(o, a)' /\ get_wrt_clk(a)' = get_wrt_clk(a)
<1>1. /\ a.thread \in Threads /\ a.ws \in DOMAIN wrt_sets[a.thread]
      /\ wrt_sets[a.thread][a.ws].wrt_clk # MAX_VERSION
  BY DEF IsVersion, InLog, get_wrt_clk, Addresses
<1>2. a.ws \in DOMAIN wrt_sets'[a.thread] /\ wrt_sets'[a.thread][a.ws] = wrt_sets[a.thread][a.ws]
  BY <1>1, DoneStays
<1>3. QED
  BY <1>2 DEF IsVersion, InLog, get_wrt_clk, CopyAt

\* A copy that is linked stays linked.
LEMMA LinkStays ==
  ASSUME LogInv, QpInv, VersionsFit, NEW t \in Threads, ThreadStep(t), NEW c \in Copies, Linked(c)
  PROVE  Linked(c)'
<1>1. g_wrt_clk \in Nat /\ g_wrt_clk' \in {g_wrt_clk, g_wrt_clk + 1}
  BY ThreadEffect DEF QpInv, ControlTypes, SectionEffect
<1>2. c.wrt_clk_next <= g_wrt_clk /\ c.wrt_clk_next \in Nat
  BY DEF Linked, Copies
<1>3. c.p_copy # NULL =>
        IsVersion(c.obj, c.p_copy)' /\ get_wrt_clk(c.p_copy)' = c.wrt_clk_next
  BY VersionStays DEF Linked
<1>4. QED
  BY <1>1, <1>2, <1>3 DEF Linked

\* The committed write sets of a thread.
LEMMA StepVersionsOf ==
  ASSUME LogInv, QpInv, VersionsFit, NEW t \in Threads, ThreadStep(t), pc[t] # "store_clock",
         VersionsOf(t)
  PROVE  VersionsOf(t)'
<1>1. ASSUME NEW w \in DOMAIN wrt_sets'[t], wrt_sets'[t][w].wrt_clk # MAX_VERSION,
             NEW i \in DOMAIN wrt_sets'[t][w].objs, wrt_sets'[t][w].objs[i].type = "copy",
             NEW c, c = wrt_sets'[t][w].objs[i]
      PROVE  Linked(c)' /\ c.wrt_clk_next < wrt_sets'[t][w].wrt_clk
  <2>1. w \in DOMAIN wrt_sets[t] /\ wrt_sets'[t][w] = wrt_sets[t][w]
    BY <1>1, CommittedBefore
  <2>2. Linked(c) /\ c.wrt_clk_next < wrt_sets[t][w].wrt_clk
    BY <1>1, <2>1 DEF VersionsOf
  <2>3. c \in Copies
    <3>1. wrt_sets[t] \in Seq(WrtSets)
      BY DEF LogInv, LogTypes
    <3>2. wrt_sets[t][w] \in WrtSets
      BY <2>1, <3>1
    <3>3. wrt_sets[t][w].objs \in Seq(Copies) /\ i \in DOMAIN wrt_sets[t][w].objs
      BY <1>1, <2>1, <3>2 DEF WrtSets
    <3>4. wrt_sets[t][w].objs[i] \in Copies
      BY <3>3
    <3>5. QED
      BY <1>1, <2>1, <3>4
  <2>4. Linked(c)'
    BY <2>2, <2>3, LinkStays
  <2>5. QED
    BY <2>1, <2>2, <2>4
<1>2. QED
  BY <1>1 DEF VersionsOf, Linked, IsVersion, InLog, CopyAt, get_wrt_clk

\* The clocks of a thread's commits that are over.
LEMMA StepClocksOf ==
  ASSUME LogInv, LogInv', QpInv, VersionsFit, NEW t \in Threads, ThreadStep(t), ClocksOf(t)
  PROVE  ClocksOf(t)'
<1>0. /\ wrt_sets \in [Threads -> Seq(WrtSets)] /\ DOMAIN wrt_sets[t] = 1 .. TailCnt(t)
      /\ wrt_sets[t] \in Seq(WrtSets)
      /\ DOMAIN wrt_sets'[t] = 1 .. TailCnt(t)' /\ g_wrt_clk \in Nat /\ TailCnt(t) \in Nat
      /\ OpenSet(t) /\ DoneSets(t) /\ DoneSets(t)'
  <2>1. LogTypes /\ LogTypes' /\ CurrentOf(t) /\ CurrentOf(t)' /\ g_wrt_clk \in Nat
    BY DEF LogInv, QpInv, ControlTypes
  <2>2. /\ wrt_sets \in [Threads -> Seq(WrtSets)] /\ wrt_sets[t] \in Seq(WrtSets)
        /\ wrt_sets'[t] \in Seq(WrtSets)
    BY <2>1 DEF LogTypes
  <2>3. QED
    BY <2>1, <2>2 DEF CurrentOf, TailCnt
<1>1. CASE pc[t] \in MoveLocs
  <2>1. MoveEffect(t)
    BY <1>1, CommitSteps
  <2>2. cur_wrt_set[t] /\ cur_wrt_set'[t] /\ TailCnt(t)' = TailCnt(t) /\ g_wrt_clk' = g_wrt_clk
    BY <2>1 DEF MoveEffect
  <2>3. ASSUME NEW w \in 1 .. TailCnt(t)', w # TailCnt(t)'
        PROVE  wrt_sets'[t][w].wrt_clk <= g_wrt_clk'
    <3>1. w \in DOMAIN wrt_sets[t] /\ wrt_sets[t][w].wrt_clk # MAX_VERSION
          /\ wrt_sets[t][w].wrt_clk <= g_wrt_clk
      <4>1. w \in 1 .. TailCnt(t) /\ w # TailCnt(t)
        BY <2>2, <2>3
      <4>2. wrt_sets[t][w].wrt_clk < MAX_VERSION /\ wrt_sets[t][w].wrt_clk <= g_wrt_clk
        BY <4>1 , <1>0 DEF DoneSets, ClocksOf
      <4>3. wrt_sets[t][w] \in WrtSets
        BY <1>0, <4>1
      <4>4. QED
        BY <1>0, <4>1, <4>2, <4>3, BoundsAssumption DEF WrtSets
    <3>2. wrt_sets'[t][w] = wrt_sets[t][w]
      BY <3>1, DoneStays
    <3>3. QED
      BY <2>2, <3>1, <3>2
  <2>4. pc'[t] # "unlock"
    BY <2>1 DEF MoveEffect, MarksFree, LinksCopy, PutsInFront, DrawsClock, StoresClock
  <2>5. pc'[t] = "advance" => Current(t)'.wrt_clk <= g_wrt_clk' + 1
    <3>1. pc'[t] = "advance" => StoresClock(t, arg[t].idx)
      BY <2>1 DEF MoveEffect, MarksFree, LinksCopy, PutsInFront, DrawsClock
    <3>2. pc[t] = "store_clock" => arg[t].clk <= g_wrt_clk + 1
      BY DEF LogInv, ArgOf
    <3>3. QED
      BY <2>2, <3>1, <3>2 DEF StoresClock
  <2>6. QED
    BY <2>2, <2>3, <2>4, <2>5 DEF ClocksOf
<1>2. CASE pc[t] \notin MoveLocs
  <2>1. OutsideMove(t)
    BY <1>2, OtherSteps
  <2>2. /\ pc'[t] # "advance" /\ g_wrt_clk' \in {g_wrt_clk, g_wrt_clk + 1}
        /\ pc'[t] = "unlock" <=> pc[t] = "advance"
        /\ pc[t] = "advance" =>
             g_wrt_clk' = g_wrt_clk + 1 /\ wrt_sets' = wrt_sets /\ cur_wrt_set' = cur_wrt_set
    BY <2>1 DEF OutsideMove
  <2>3. ASSUME NEW w \in 1 .. TailCnt(t)', cur_wrt_set'[t] => w # TailCnt(t)'
        PROVE  wrt_sets'[t][w].wrt_clk <= g_wrt_clk'
    <3>1. wrt_sets'[t][w].wrt_clk < MAX_VERSION
      BY <1>0, <2>3 DEF DoneSets
    <3>2. w \in DOMAIN wrt_sets'[t] /\ wrt_sets'[t][w].wrt_clk # MAX_VERSION
      BY <1>0, <2>3, <3>1, BoundsAssumption
    <3>3. w \in DOMAIN wrt_sets[t] /\ wrt_sets'[t][w] = wrt_sets[t][w]
      BY <1>2, <3>2, CommittedBefore DEF MoveLocs
    <3>4. wrt_sets[t][w] \in WrtSets
      BY <1>0, <3>3
    <3>5. CASE cur_wrt_set[t] /\ w = TailCnt(t)
      <4>1. pc[t] \in {"advance", "unlock"}
        BY <1>0, <3>2, <3>3, <3>5 DEF OpenSet, Current
      <4>2. pc[t] # "advance"
        BY <2>2, <2>3, <3>5 DEF TailCnt
      <4>3. wrt_sets[t][w].wrt_clk <= g_wrt_clk
        BY <3>5, <4>1, <4>2 DEF ClocksOf, Current
      <4>4. QED
        BY <1>0, <2>2, <3>3, <3>4, <4>3 DEF WrtSets
    <3>6. CASE ~(cur_wrt_set[t] /\ w = TailCnt(t))
      <4>1. wrt_sets[t][w].wrt_clk <= g_wrt_clk
        BY <1>0, <3>3, <3>6 DEF ClocksOf
      <4>2. QED
        BY <1>0, <2>2, <3>3, <3>4, <4>1 DEF WrtSets
    <3>7. QED
      BY <3>5, <3>6
  <2>4. pc'[t] = "unlock" => Current(t)'.wrt_clk <= g_wrt_clk'
    BY <2>2 DEF ClocksOf, Current, TailCnt
  <2>5. QED
    BY <2>2, <2>3, <2>4 DEF ClocksOf
<1>3. QED
  BY <1>1, <1>2

\* The head of a chain whose object the thread has locked is a version, not
\* after the clock.
LEMMA HeadIsDone ==
  ASSUME LogInv, QpInv, VersionsFit, LocksInv, VersionInv, NEW t \in Threads,
         pc[t] \in {"move", "cas"}, arg[t].idx \in DOMAIN Current(t).objs,
         NEW o, o = Current(t).objs[arg[t].idx].obj, NEW a, a = p_copy[o], a # NULL
  PROVE  IsVersion(o, a) /\ get_wrt_clk(a) <= g_wrt_clk
<1>0. /\ LogTypes /\ ChainInv /\ OpenSet(t) /\ CurrentOf(t) /\ cur_wrt_set[t]
      /\ Current(t).objs \in Seq(Copies) /\ o \in Objects
  <2>1. LogTypes /\ ChainInv /\ OpenSet(t) /\ CurrentOf(t)
    BY DEF LogInv, CurrentOf
  <2>2. cur_wrt_set[t]
    BY <2>1 DEF OpenSet, CommitLocs
  <2>3. Current(t).objs \in Seq(Copies)
    BY <2>1, <2>2, CurrentType
  <2>4. Current(t).objs[arg[t].idx] \in Copies
    BY <2>3
  <2>5. QED
    BY <2>1, <2>2, <2>3, <2>4 DEF Copies
<1>1. InLog(a) /\ a \in Addresses /\ a.thread \in Threads
  BY <1>0 DEF ChainInv, Kept, InLog, Addresses
<1>2. /\ CopyAt(a).obj = o /\ CopyAt(a).type = "copy"
      /\ get_wrt_clk(a) = MAX_VERSION => a.idx < arg[a.thread].idx
  BY <1>0 DEF VersionInv, HeadOf
<1>3. p_lock[o] = CurrentAddress(t, arg[t].idx)
  BY <1>0 DEF LocksInv, ListedBy
<1>4. ~(cur_wrt_set[a.thread] /\ a.ws = TailCnt(a.thread))
  <2> SUFFICES ASSUME cur_wrt_set[a.thread], a.ws = TailCnt(a.thread) PROVE FALSE
    OBVIOUS
  <2>1. a.idx \in DOMAIN Current(a.thread).objs /\ Current(a.thread).objs[a.idx].obj = o
    BY <1>1, <1>2 DEF InLog, CopyAt, Current
  <2>2. p_lock[o] = CurrentAddress(a.thread, a.idx)
    <3>1. ListedBy(a.thread)
      BY <1>1 DEF LocksInv
    <3>2. QED
      BY <2>1, <3>1 DEF ListedBy
  <2>3. a.thread = t /\ a.idx = arg[t].idx
    <3>1. \A u, i : CurrentAddress(u, i).thread = u /\ CurrentAddress(u, i).idx = i
      BY DEF CurrentAddress, Address
    <3>2. CurrentAddress(t, arg[t].idx) = CurrentAddress(a.thread, a.idx)
      BY <1>3, <2>2
    <3>3. QED
      BY <3>1, <3>2
  <2>4. get_wrt_clk(a) = MAX_VERSION
    <3>1. Current(t).wrt_clk = MAX_VERSION
      BY <1>0 DEF OpenSet
    <3>2. QED
      BY <2>3, <3>1 DEF get_wrt_clk, Current
  <2>5. arg[t].idx \in Nat
    <3>1. arg[t] \in Args
      BY <1>0 DEF LogTypes
    <3>2. QED
      BY <3>1 DEF Args
  <2>6. QED
    BY <1>2, <2>3, <2>4, <2>5
<1>5. a.ws \in 1 .. TailCnt(a.thread)
  <2>1. PICK log \in Seq(WrtSets) : log = wrt_sets[a.thread]
    BY <1>0, <1>1 DEF LogTypes
  <2>2. a.ws \in DOMAIN log /\ TailCnt(a.thread) = Len(log)
    BY <1>1, <2>1 DEF InLog, TailCnt
  <2>3. DOMAIN log = 1 .. Len(log)
    BY <2>1
  <2>4. QED
    BY <2>2, <2>3
<1>6. get_wrt_clk(a) < MAX_VERSION /\ get_wrt_clk(a) <= g_wrt_clk
  <2>1. DoneSets(a.thread) /\ ClocksOf(a.thread)
    <3>1. CurrentOf(a.thread)
      BY <1>1 DEF LogInv
    <3>2. ClocksOf(a.thread)
      BY <1>1 DEF VersionInv
    <3>3. QED
      BY <3>1, <3>2 DEF CurrentOf
  <2>2. PICK u, w : u = a.thread /\ w = a.ws
    OBVIOUS
  <2>3. w \in 1 .. TailCnt(u) /\ (cur_wrt_set[u] => w # TailCnt(u))
    BY <1>4, <1>5, <2>2
  <2>4. wrt_sets[u][w].wrt_clk < MAX_VERSION
    BY <2>1, <2>2, <2>3 DEF DoneSets
  <2>5. wrt_sets[u][w].wrt_clk <= g_wrt_clk
    BY <2>1, <2>2, <2>3 DEF ClocksOf
  <2>6. QED
    BY <2>2, <2>4, <2>5 DEF get_wrt_clk
<1>7. get_wrt_clk(a) # MAX_VERSION
  BY <1>0, <1>1, <1>6, CopyType, BoundsAssumption
<1>8. QED
  BY <1>1, <1>2, <1>6, <1>7 DEF IsVersion

\* A write set whose clock is being stored: all its copies are linked.
LEMMA StoreVersionsOf ==
  ASSUME LogInv, LogInv', QpInv, VersionsFit, NEW t \in Threads, ThreadStep(t),
         pc[t] = "store_clock", VersionsOf(t), MovedOf(t)
  PROVE  VersionsOf(t)'
<1>0. /\ LogTypes /\ CurrentOf(t) /\ OpenSet(t) /\ DoneSets(t)
      /\ wrt_sets \in [Threads -> Seq(WrtSets)] /\ wrt_sets[t] \in Seq(WrtSets)
      /\ DOMAIN wrt_sets[t] = 1 .. TailCnt(t) /\ TailCnt(t) \in Nat
      /\ wrt_sets'[t] \in Seq(WrtSets) /\ DOMAIN wrt_sets'[t] = 1 .. TailCnt(t)'
  <2>1. LogTypes /\ LogTypes' /\ CurrentOf(t)
    BY DEF LogInv
  <2>2. wrt_sets \in [Threads -> Seq(WrtSets)] /\ wrt_sets' \in [Threads -> Seq(WrtSets)]
    BY <2>1 DEF LogTypes
  <2>3. QED
    BY <2>1, <2>2 DEF CurrentOf, TailCnt
<1>1. MoveEffect(t)
  BY CommitSteps DEF MoveLocs
<1>2. /\ cur_wrt_set[t] /\ TailCnt(t)' = TailCnt(t)
      /\ Current(t)'.objs = Current(t).objs /\ Current(t)'.wrt_clk = arg[t].clk
  BY <1>1 DEF MoveEffect, MarksFree, LinksCopy, PutsInFront, DrawsClock, StoresClock
<1>3. Current(t) \in WrtSets /\ Current(t).objs \in Seq(Copies)
  BY <1>0, <1>2, CurrentType
<1>4. ASSUME NEW w \in DOMAIN wrt_sets'[t], wrt_sets'[t][w].wrt_clk # MAX_VERSION,
             NEW i \in DOMAIN wrt_sets'[t][w].objs, wrt_sets'[t][w].objs[i].type = "copy",
             NEW c, c = wrt_sets'[t][w].objs[i]
      PROVE  Linked(c)' /\ c.wrt_clk_next < wrt_sets'[t][w].wrt_clk
  <2>1. CASE w = TailCnt(t)
    <3>1. wrt_sets'[t][w] = Current(t)'
      BY <1>2, <2>1 DEF Current, TailCnt
    <3>2. i \in DOMAIN Current(t).objs /\ c = Current(t).objs[i] /\ c.type = "copy"
      BY <1>2, <1>4, <3>1
    <3>3. c \in Copies /\ i < arg[t].idx
      <4>1. i \in 1 .. Len(Current(t).objs) /\ Len(Current(t).objs) \in Nat
        BY <1>3, <3>2
      <4>2. arg[t].idx > Len(Current(t).objs)
        BY DEF MovedOf
      <4>3. arg[t] \in Args
        BY <1>0 DEF LogTypes
      <4>4. QED
        BY <1>3, <3>2, <4>1, <4>2, <4>3 DEF Args
    <3>4. Linked(c)
      BY <3>2, <3>3 DEF MovedOf, MoveLocs
    <3>5. c.wrt_clk_next < arg[t].clk
      BY <3>2 DEF MovedOf
    <3>6. Linked(c)'
      BY <3>3, <3>4, LinkStays
    <3>7. QED
      BY <1>2, <3>1, <3>5, <3>6
  <2>2. CASE w # TailCnt(t)
    <3>1. w \in DOMAIN wrt_sets[t]
      BY <1>0, <1>2, <1>4
    <3>2. wrt_sets[t][w].wrt_clk < MAX_VERSION /\ wrt_sets[t][w] \in WrtSets
      BY <1>0, <2>2, <3>1 DEF DoneSets
    <3>3. wrt_sets[t][w].wrt_clk # MAX_VERSION
      BY <3>2, BoundsAssumption DEF WrtSets
    <3>4. wrt_sets'[t][w] = wrt_sets[t][w]
      BY <3>1, <3>3, DoneStays
    <3>5. Linked(c) /\ c.wrt_clk_next < wrt_sets[t][w].wrt_clk
      BY <1>4, <3>1, <3>3, <3>4 DEF VersionsOf
    <3>6. c \in Copies
      BY <1>4, <3>2, <3>4 DEF WrtSets
    <3>7. Linked(c)'
      BY <3>5, <3>6, LinkStays
    <3>8. QED
      BY <3>4, <3>5, <3>7
  <2>3. QED
    BY <2>1, <2>2
<1>5. QED
  BY <1>4 DEF VersionsOf, Linked, IsVersion, InLog, CopyAt, get_wrt_clk

\* What a commit has moved: outside ws_move_lock_to_copy nothing, unless it
\* starts, with a write set that frees nothing yet.
LEMMA StartsMoving ==
  ASSUME LogInv, QpInv, VersionsFit, LocksInv, NEW t \in Threads, ThreadStep(t),
         pc[t] \notin MoveLocs
  PROVE  MovedOf(t)'
<1>1. OutsideMove(t)
  BY OtherSteps
<1>2. CASE pc'[t] # "move"
  BY <1>1, <1>2 DEF OutsideMove, MovedOf, MoveLocs
<1>3. CASE pc'[t] = "move"
  <2>1. /\ pc[t] = "section" /\ cur_wrt_set[t] /\ wrt_sets' = wrt_sets
        /\ cur_wrt_set' = cur_wrt_set /\ arg'[t].idx = 1
    BY <1>1, <1>3 DEF OutsideMove, SectionCommits
  <2>2. Current(t)' = Current(t)
    BY <2>1 DEF Current, TailCnt
  <2>3. \A i \in DOMAIN Current(t).objs : Current(t).objs[i].type # "free"
    BY <2>1 DEF LocksInv, NoFrees, Pending, CommitLocs
  <2>4. \A i \in DOMAIN Current(t).objs : i \in Nat /\ i >= 1
    <3>1. Current(t).objs \in Seq(Copies)
      BY <2>1, CurrentType DEF LogInv
    <3>2. QED
      BY <3>1
  <2>5. \A i \in DOMAIN Current(t)'.objs : ~(i < arg'[t].idx)
    BY <2>1, <2>2, <2>4
  <2>6. QED
    BY <1>3, <2>2, <2>3, <2>5 DEF MovedOf
<1>4. QED
  BY <1>2, <1>3

\* MovedOf after a step, with the write set and the index it then has.
LEMMA MovedAfter ==
  ASSUME NEW t, NEW n, n = arg'[t].idx, NEW objs, objs = Current(t)'.objs,
         pc'[t] \in MoveLocs =>
           \A j \in DOMAIN objs : j < n /\ objs[j].type = "copy" => Linked(objs[j])',
         pc'[t] \in {"move", "cas"} => \A j \in DOMAIN objs : j >= n => objs[j].type # "free",
         pc'[t] = "cas" => objs[n].type = "copy" /\ Linked(objs[n])',
         pc'[t] = "store_clock" =>
           /\ n > Len(objs)
           /\ \A j \in DOMAIN objs : objs[j].type = "copy" => objs[j].wrt_clk_next < arg'[t].clk
  PROVE  MovedOf(t)'
BY DEF MovedOf, Linked, IsVersion, InLog, CopyAt, get_wrt_clk

\* The copy a commit links names the head of the chain and its clock.
LEMMA LinksHead ==
  ASSUME LogInv, QpInv, VersionsFit, LocksInv, VersionInv, NEW t \in Threads, ThreadStep(t),
         MoveEffect(t), LinksCopy(t, arg[t].idx), NEW c, c = Current(t)'.objs[arg[t].idx]
  PROVE  c.type = "copy" /\ Linked(c)'
<1> DEFINE n == arg[t].idx
           old == Current(t).objs[n]
           a == p_copy[old.obj]
<1>1. /\ pc[t] \in {"move", "cas"} /\ n \in DOMAIN Current(t).objs
      /\ pc[t] = "move" => old.type # "const"
      /\ c.obj = old.obj /\ c.type = old.type /\ c.p_copy = a
      /\ c.wrt_clk_next = IF a = NULL THEN MIN_VERSION ELSE get_wrt_clk(a)
      /\ cur_wrt_set[t] /\ g_wrt_clk' = g_wrt_clk
  BY DEF MoveEffect, LinksCopy
<1>2. old \in Copies
  <2>1. Current(t).objs \in Seq(Copies)
    BY <1>1, CurrentType DEF LogInv
  <2>2. QED
    BY <1>1, <2>1
<1>3. n \in Nat /\ g_wrt_clk \in Nat
  <2>1. arg[t] \in Args
    BY DEF LogInv, LogTypes
  <2>2. QED
    BY <2>1 DEF Args, QpInv, ControlTypes
<1>4. c.type = "copy"
  <2>1. old.type # "free" /\ (pc[t] = "cas" => old.type = "copy")
    BY <1>1, <1>3 DEF VersionInv, MovedOf
  <2>2. QED
    BY <1>1, <1>2, <2>1 DEF Copies
<1>5. CASE a = NULL
  <2>1. c.p_copy = NULL /\ c.wrt_clk_next = 0
    BY <1>1, <1>5 DEF MIN_VERSION
  <2>2. c.wrt_clk_next <= g_wrt_clk'
    BY <1>1, <1>3, <2>1
  <2> HIDE DEF n, old, a
  <2>3. QED
    BY <1>4, <2>1, <2>2 DEF Linked
<1>6. CASE a # NULL
  <2>1. PICK o, b : o = old.obj /\ b = a
    OBVIOUS
  <2>2. IsVersion(o, b) /\ get_wrt_clk(b) <= g_wrt_clk
    BY <1>1, <1>6, <2>1, HeadIsDone
  <2>3. IsVersion(o, b)' /\ get_wrt_clk(b)' = get_wrt_clk(b)
    BY <2>2, VersionStays
  <2>4. c.wrt_clk_next = get_wrt_clk(b) /\ c.p_copy = b /\ c.obj = o
    BY <1>1, <1>6, <2>1
  <2>5. c.wrt_clk_next <= g_wrt_clk'
    BY <1>1, <2>2, <2>4
  <2>6. IsVersion(c.obj, c.p_copy)' /\ get_wrt_clk(c.p_copy)' = c.wrt_clk_next
    BY <2>3, <2>4
  <2> HIDE DEF n, old, a
  <2>7. QED
    BY <1>4, <2>5, <2>6 DEF Linked
<1>7. QED
  BY <1>5, <1>6

\* What a commit has moved, while it goes on moving.
LEMMA MovesOn ==
  ASSUME LogInv, QpInv, VersionsFit, LocksInv, VersionInv, NEW t \in Threads, ThreadStep(t),
         pc[t] \in MoveLocs
  PROVE  MovedOf(t)'
<1>1. MoveEffect(t)
  BY CommitSteps
<1>2. PICK n, old, new : n = arg[t].idx /\ old = Current(t).objs /\ new = Current(t)'.objs
  OBVIOUS
<1>3. /\ cur_wrt_set[t] /\ DOMAIN new = DOMAIN old /\ n \in Nat
      /\ \A j \in DOMAIN old : j # n => new[j] = old[j]
      /\ old \in Seq(Copies)
  <2>1. cur_wrt_set[t] /\ DOMAIN new = DOMAIN old /\ \A j \in DOMAIN old : j # n => new[j] = old[j]
    BY <1>1, <1>2 DEF MoveEffect
  <2>2. old \in Seq(Copies) /\ arg[t] \in Args
    BY <1>2, <2>1, CurrentType DEF LogInv, LogTypes
  <2>3. QED
    BY <1>2, <2>1, <2>2 DEF Args
<1>4. MovedOf(t) /\ g_wrt_clk \in Nat
  BY DEF VersionInv, QpInv, ControlTypes
<1>5. \A j \in DOMAIN old : j \in Nat /\ j \in 1 .. Len(old) /\ old[j] \in Copies
  BY <1>3
<1>6. ASSUME NEW j \in DOMAIN old, old[j].type = "copy", j < n
      PROVE  Linked(old[j]) /\ Linked(old[j])' /\ new[j] = old[j]
  <2>1. Linked(old[j])
    BY <1>2, <1>4, <1>6 DEF MovedOf
  <2>2. PICK c \in Copies : c = old[j]
    BY <1>5
  <2>3. Linked(c)'
    BY <2>1, <2>2, LinkStays
  <2>4. QED
    BY <1>3, <1>5, <1>6, <2>1, <2>2, <2>3
<1>7. pc[t] \in {"move", "cas"} => \A j \in DOMAIN old : j >= n => old[j].type # "free"
  BY <1>2, <1>4 DEF MovedOf
<1>8. CASE MarksFree(t, n)
  <2>1. pc'[t] = "move" /\ arg'[t].idx = n + 1 /\ new[n].type # "copy" /\ pc[t] = "move"
    BY <1>2, <1>8 DEF MarksFree
  <2>2. ASSUME NEW j \in DOMAIN new, j < n + 1, new[j].type = "copy" PROVE Linked(new[j])'
    <3>1. j < n /\ j # n
      BY <1>3, <1>5, <2>1, <2>2
    <3>2. QED
      BY <1>3, <1>6, <2>2, <3>1
  <2>3. \A j \in DOMAIN new : j >= n + 1 => new[j].type # "free"
    BY <1>3, <1>5, <1>7, <2>1
  <2>4. QED
    BY <1>2, <2>1, <2>2, <2>3, MovedAfter
<1>9. CASE LinksCopy(t, n)
  <2>1. pc'[t] = "cas" /\ arg'[t].idx = n /\ pc[t] \in {"move", "cas"}
    BY <1>9 DEF LinksCopy
  <2>2. new[n].type = "copy" /\ Linked(new[n])'
    BY <1>1, <1>2, <1>9, LinksHead
  <2>3. \A j \in DOMAIN new : j < n /\ new[j].type = "copy" => Linked(new[j])'
    BY <1>3, <1>5, <1>6
  <2>4. \A j \in DOMAIN new : j >= n => new[j].type # "free"
    BY <1>3, <1>5, <1>7, <2>1, <2>2
  <2>5. QED
    BY <1>2, <2>1, <2>2, <2>3, <2>4, MovedAfter
<1>10. CASE PutsInFront(t, n)
  <2>1. pc'[t] = "move" /\ arg'[t].idx = n + 1 /\ pc[t] = "cas" /\ new = old /\ n \in DOMAIN old
    BY <1>2, <1>10 DEF PutsInFront
  <2>2. Linked(old[n])'
    <3>1. Linked(old[n])
      BY <1>2, <1>4, <2>1 DEF MovedOf
    <3>2. PICK c \in Copies : c = old[n]
      BY <1>5, <2>1
    <3>3. Linked(c)'
      BY <3>1, <3>2, LinkStays
    <3>4. QED
      BY <3>2, <3>3
  <2>3. \A j \in DOMAIN new : j < n + 1 /\ new[j].type = "copy" => Linked(new[j])'
    <3>1. \A j \in DOMAIN new : j < n + 1 => j < n \/ j = n
      BY <1>3, <1>5
    <3>2. QED
      BY <1>6, <2>1, <2>2, <3>1
  <2>4. \A j \in DOMAIN new : j >= n + 1 => new[j].type # "free"
    BY <1>3, <1>5, <1>7, <2>1
  <2>5. QED
    BY <1>2, <2>1, <2>3, <2>4, MovedAfter
<1>11. CASE DrawsClock(t, n)
  <2>1. /\ pc'[t] = "store_clock" /\ arg'[t].idx = n /\ arg'[t].clk = g_wrt_clk + 1
        /\ n > Len(old) /\ new = old
    BY <1>2, <1>11 DEF DrawsClock
  <2>2. \A j \in DOMAIN new : j < n
    BY <1>3, <1>5, <2>1
  <2>3. \A j \in DOMAIN new : j < n /\ new[j].type = "copy" => Linked(new[j])'
    BY <1>3, <1>6
  <2>4. ASSUME NEW j \in DOMAIN new, new[j].type = "copy"
        PROVE  new[j].wrt_clk_next < arg'[t].clk
    <3>1. Linked(old[j]) /\ old[j] \in Copies
      BY <1>5, <1>6, <2>1, <2>2, <2>4
    <3>2. old[j].wrt_clk_next <= g_wrt_clk /\ old[j].wrt_clk_next \in Nat
      BY <3>1 DEF Linked, Copies
    <3>3. QED
      BY <1>4, <2>1, <3>2
  <2>5. QED
    BY <1>2, <2>1, <2>3, <2>4, MovedAfter
<1>12. CASE StoresClock(t, n)
  BY <1>12 DEF StoresClock, MovedOf, MoveLocs
<1>13. QED
  BY <1>1, <1>2, <1>8, <1>9, <1>10, <1>11, <1>12 DEF MoveEffect

\* A step of another thread, its log_reclaim included, leaves the thread's log
\* and operands alone.
LEMMA OthersStay ==
  ASSUME LogInv, QpInv, VersionsFit, NEW t \in Threads, ThreadStep(t), NEW u \in Threads, u # t
  PROVE  /\ wrt_sets'[u] = wrt_sets[u] /\ cur_wrt_set'[u] = cur_wrt_set[u]
         /\ pc'[u] = pc[u] /\ arg'[u] = arg[u]
<1>1. LogTypes /\ ControlTypes /\ Places /\ SectionEffect(t) /\ LogEffect(t)
  BY ThreadEffect, ThreadLog DEF LogInv, QpInv
<1>2. CASE log_reclaim(t)
  BY <1>2, ReclaimScan DEF Actors
<1>3. CASE ~log_reclaim(t)
  BY <1>1, <1>3, ThreadFrame, OtherThread
<1>4. QED
  BY <1>2, <1>3

\* What VersionInv says of a thread stays while its log, its place and its
\* operands stay, and links hold.
LEMMA KeepThread ==
  ASSUME LogInv, QpInv, NEW u \in Threads, wrt_sets'[u] = wrt_sets[u],
         cur_wrt_set'[u] = cur_wrt_set[u], pc'[u] = pc[u], arg'[u] = arg[u],
         g_wrt_clk' \in Nat, g_wrt_clk' >= g_wrt_clk,
         \A c \in Copies : Linked(c) => Linked(c)',
         ClocksOf(u), MovedOf(u), VersionsOf(u)
  PROVE  ClocksOf(u)' /\ MovedOf(u)' /\ VersionsOf(u)'
<1>1. /\ wrt_sets[u] \in Seq(WrtSets) /\ CurrentOf(u) /\ OpenSet(u) /\ LogTypes
      /\ g_wrt_clk \in Nat /\ TailCnt(u) \in Nat
      /\ TailCnt(u)' = TailCnt(u) /\ Current(u)' = Current(u)
  BY DEF LogInv, LogTypes, QpInv, ControlTypes, TailCnt, CurrentOf, Current
<1>2. \A w \in DOMAIN wrt_sets[u] : /\ wrt_sets[u][w].objs \in Seq(Copies)
                                   /\ wrt_sets[u][w].wrt_clk \in Nat
  <2>1. ASSUME NEW w \in DOMAIN wrt_sets[u]
        PROVE  wrt_sets[u][w].objs \in Seq(Copies) /\ wrt_sets[u][w].wrt_clk \in Nat
    <3>1. wrt_sets[u][w] \in WrtSets
      BY <1>1
    <3>2. QED
      BY <3>1 DEF WrtSets
  <2>2. QED
    BY <2>1
<1>3. DOMAIN wrt_sets[u] = 1 .. TailCnt(u)
  BY <1>1 DEF TailCnt
<1>4. ClocksOf(u)'
  <2>1. \A w \in 1 .. TailCnt(u)' : (cur_wrt_set'[u] => w # TailCnt(u)') =>
           wrt_sets'[u][w].wrt_clk <= g_wrt_clk'
    <3>1. \A w \in 1 .. TailCnt(u) : (cur_wrt_set[u] => w # TailCnt(u)) =>
             wrt_sets[u][w].wrt_clk <= g_wrt_clk /\ wrt_sets[u][w].wrt_clk \in Nat
      BY <1>2, <1>3 DEF ClocksOf
    <3>2. QED
      BY <1>1, <3>1
  <2>2. /\ pc[u] = "unlock" => Current(u).wrt_clk <= g_wrt_clk'
        /\ pc[u] = "advance" => Current(u).wrt_clk <= g_wrt_clk' + 1
    <3>1. pc[u] \in {"unlock", "advance"} => Current(u).wrt_clk \in Nat
      BY <1>1, CurrentType DEF OpenSet, CommitLocs
    <3>2. QED
      BY <1>1, <3>1 DEF ClocksOf
  <2>3. QED
    BY <1>1, <2>1, <2>2 DEF ClocksOf
<1>5. MovedOf(u)'
  <2>1. CASE pc[u] \notin MoveLocs
    BY <2>1 DEF MovedOf, MoveLocs
  <2>2. CASE pc[u] \in MoveLocs
    <3>1. PICK n, objs : n = arg[u].idx /\ objs = Current(u).objs
      OBVIOUS
    <3>2. objs \in Seq(Copies)
      BY <1>1, <2>2, <3>1, CurrentType DEF OpenSet, MoveLocs, CommitLocs
    <3>3. \A j \in DOMAIN objs : objs[j] \in Copies
      BY <3>2
    <3>4. \A j \in DOMAIN objs : j < n /\ objs[j].type = "copy" => Linked(objs[j])'
      <4>1. ASSUME NEW j \in DOMAIN objs, j < n, objs[j].type = "copy", NEW c, c = objs[j]
            PROVE  Linked(c)'
        BY <2>2, <3>1, <3>3, <4>1 DEF MovedOf
      <4>2. QED
        BY <4>1
    <3>5. pc[u] \in {"move", "cas"} => \A j \in DOMAIN objs : j >= n => objs[j].type # "free"
      BY <3>1 DEF MovedOf
    <3>6. pc[u] = "cas" => objs[n].type = "copy" /\ Linked(objs[n])'
      <4>1. ASSUME pc[u] = "cas", NEW c, c = objs[n] PROVE c.type = "copy" /\ Linked(c)'
        <5>1. n \in DOMAIN objs
          BY <3>1, <4>1 DEF LogInv, ArgOf
        <5>2. QED
          BY <3>1, <3>3, <4>1, <5>1 DEF MovedOf
      <4>2. QED
        BY <4>1
    <3>7. pc[u] = "store_clock" =>
           /\ n > Len(objs)
           /\ \A j \in DOMAIN objs : objs[j].type = "copy" => objs[j].wrt_clk_next < arg[u].clk
      BY <3>1 DEF MovedOf
    <3>8. n = arg'[u].idx /\ objs = Current(u)'.objs
      BY <1>1, <3>1
    <3>9. QED
      BY <3>4, <3>5, <3>6, <3>7, <3>8, MovedAfter
  <2>3. QED
    BY <2>1, <2>2
<1>6. VersionsOf(u)'
  <2>1. ASSUME NEW w \in DOMAIN wrt_sets'[u], wrt_sets'[u][w].wrt_clk # MAX_VERSION,
               NEW i \in DOMAIN wrt_sets'[u][w].objs, wrt_sets'[u][w].objs[i].type = "copy",
               NEW c, c = wrt_sets'[u][w].objs[i]
        PROVE  Linked(c)' /\ c.wrt_clk_next < wrt_sets'[u][w].wrt_clk
    <3>1. Linked(c) /\ c.wrt_clk_next < wrt_sets[u][w].wrt_clk
      BY <2>1 DEF VersionsOf
    <3>2. c \in Copies
      <4>1. wrt_sets[u][w].objs \in Seq(Copies) /\ i \in DOMAIN wrt_sets[u][w].objs
        BY <1>2, <2>1
      <4>2. QED
        BY <2>1, <4>1
    <3>3. QED
      BY <3>1, <3>2
  <2>2. QED
    BY <2>1 DEF VersionsOf, Linked, IsVersion, InLog, CopyAt, get_wrt_clk
<1>7. QED
  BY <1>4, <1>5, <1>6

\* A copy at the head of a chain that is not committed is one of a commit that
\* is moving its copies.
LEMMA HeadIsMoving ==
  ASSUME LogInv, QpInv, NEW a, Kept(a), get_wrt_clk(a) = MAX_VERSION
  PROVE  /\ a.ws = TailCnt(a.thread) /\ cur_wrt_set[a.thread] /\ pc[a.thread] \in MoveLocs
         /\ a.thread \in Threads /\ a.idx \in DOMAIN Current(a.thread).objs
<1>1. PICK u, w : u = a.thread /\ w = a.ws
  OBVIOUS
<1>2. /\ u \in Threads /\ w \in DOMAIN wrt_sets[u] /\ wrt_sets[u][w].wrt_clk = MAX_VERSION
      /\ ~(Pending(u) /\ w = TailCnt(u)) /\ a.idx \in DOMAIN wrt_sets[u][w].objs
  BY <1>1 DEF Kept, InLog, get_wrt_clk, Addresses
<1>3. /\ CurrentOf(u) /\ OpenSet(u) /\ DoneSets(u) /\ wrt_sets[u] \in Seq(WrtSets) /\ pc[u] \in Locs
  BY <1>2 DEF LogInv, LogTypes, CurrentOf, QpInv, Places, ControlTypes
<1>4. cur_wrt_set[u] /\ w = TailCnt(u)
  <2>1. w \in 1 .. TailCnt(u)
    BY <1>2, <1>3 DEF TailCnt
  <2>2. ~(MAX_VERSION < MAX_VERSION)
    BY BoundsAssumption
  <2>3. QED
    BY <1>2, <1>3, <2>1, <2>2 DEF DoneSets
<1>5. pc[u] \in CommitLocs \union {"unlock"}
  BY <1>2, <1>4 DEF Pending
<1>6. Current(u).wrt_clk = MAX_VERSION
  BY <1>2, <1>4 DEF Current
<1>7. pc[u] \notin {"advance", "unlock"}
  BY <1>3, <1>4, <1>6, BoundsAssumption DEF OpenSet
<1>8. pc[u] \in MoveLocs
  BY <1>3, <1>5, <1>7 DEF CommitLocs, MoveLocs, Locs, SectionLocs
<1>9. QED
  BY <1>1, <1>2, <1>4, <1>8 DEF Current

\* A chain that begins with a copy a: what is needed of a after a step.
LEMMA HeadAfter ==
  ASSUME NEW o \in Objects, NEW a, a = p_copy'[o], CopyAt(a)'.obj = o, CopyAt(a)'.type = "copy",
         get_wrt_clk(a)' = MAX_VERSION => a.idx < arg'[a.thread].idx
  PROVE  HeadOf(o)'
BY DEF HeadOf, CopyAt, get_wrt_clk

\* The head of a chain that a step of a thread leaves alone.
LEMMA HeadStays ==
  ASSUME LogInv, QpInv, VersionsFit, VersionInv, NEW t \in Threads, ThreadStep(t),
         NEW o \in Objects, p_copy'[o] = p_copy[o], p_copy[o] # NULL
  PROVE  HeadOf(o)'
<1>1. PICK a : a = p_copy[o]
  OBVIOUS
<1>2. PICK u, w, j : u = a.thread /\ w = a.ws /\ j = a.idx
  OBVIOUS
<1>3. Kept(a)
  BY <1>1 DEF LogInv, ChainInv
<1>4. u \in Threads /\ w \in DOMAIN wrt_sets[u] /\ j \in DOMAIN wrt_sets[u][w].objs
  BY <1>2, <1>3 DEF Kept, InLog, Addresses
<1>5. /\ wrt_sets[u][w].objs[j].obj = o /\ wrt_sets[u][w].objs[j].type = "copy"
      /\ wrt_sets[u][w].wrt_clk = MAX_VERSION => j < arg[u].idx
  BY <1>1, <1>2 DEF VersionInv, HeadOf, CopyAt, get_wrt_clk
<1>6. /\ wrt_sets'[u][w].objs[j].obj = o /\ wrt_sets'[u][w].objs[j].type = "copy"
      /\ wrt_sets'[u][w].wrt_clk = MAX_VERSION => j < arg'[u].idx
  <2>1. CASE wrt_sets[u][w].wrt_clk # MAX_VERSION
    <3>1. wrt_sets'[u][w] = wrt_sets[u][w]
      BY <1>4, <2>1, DoneStays
    <3>2. QED
      BY <1>5, <2>1, <3>1
  <2>2. CASE u # t
    <3>1. wrt_sets'[u] = wrt_sets[u] /\ arg'[u] = arg[u]
      BY <1>4, <2>2, OthersStay
    <3>2. QED
      BY <1>5, <3>1
  <2>3. CASE u = t /\ wrt_sets[u][w].wrt_clk = MAX_VERSION
    <3>1. w = TailCnt(t) /\ pc[t] \in MoveLocs /\ j \in DOMAIN Current(t).objs
      <4>1. get_wrt_clk(a) = MAX_VERSION
        BY <1>2, <2>3 DEF get_wrt_clk
      <4>2. QED
        BY <1>2, <1>3, <2>3, <4>1, HeadIsMoving
    <3>2. MoveEffect(t)
      BY <3>1, CommitSteps
    <3>3. /\ Current(t).objs[j].type = "copy" /\ Current(t).objs[j].obj = o /\ j < arg[t].idx
      BY <1>5, <2>3, <3>1 DEF Current
    <3>4. j \in Nat /\ arg[t].idx \in Nat
      <4>1. arg[t] \in Args /\ wrt_sets[u] \in Seq(WrtSets)
        BY <1>4 DEF LogInv, LogTypes
      <4>2. wrt_sets[u][w] \in WrtSets
        BY <1>4, <4>1
      <4>3. wrt_sets[u][w].objs \in Seq(Copies)
        BY <4>2 DEF WrtSets
      <4>4. QED
        BY <1>4, <4>1, <4>3 DEF Args
    <3>5. Current(t)'.objs[j] = Current(t).objs[j] /\ TailCnt(t)' = TailCnt(t)
      BY <3>1, <3>2, <3>3, <3>4 DEF MoveEffect
    <3>6. arg'[t].idx \in {arg[t].idx, arg[t].idx + 1}
      BY <3>2 DEF MoveEffect, MarksFree, LinksCopy, PutsInFront, DrawsClock, StoresClock
    <3>7. j < arg'[t].idx
      BY <3>3, <3>4, <3>6
    <3>8. wrt_sets'[u][w].objs[j] = Current(t)'.objs[j]
      BY <2>3, <3>1, <3>5 DEF Current, TailCnt
    <3>9. QED
      BY <2>3, <3>3, <3>5, <3>7, <3>8
  <2>4. QED
    BY <2>1, <2>2, <2>3
<1>7. /\ CopyAt(a)'.obj = o /\ CopyAt(a)'.type = "copy"
      /\ get_wrt_clk(a)' = MAX_VERSION => a.idx < arg'[a.thread].idx
  BY <1>2, <1>6 DEF CopyAt, get_wrt_clk
<1>8. QED
  BY <1>1, <1>7, HeadAfter

\* The head of a chain after any step of a thread.
LEMMA StepHeadOf ==
  ASSUME LogInv, QpInv, VersionsFit, VersionInv, NEW t \in Threads, ThreadStep(t),
         NEW o \in Objects
  PROVE  HeadOf(o)'
<1>1. CASE p_copy'[o] = NULL
  BY <1>1 DEF HeadOf
<1>2. CASE p_copy'[o] = p_copy[o]
  BY <1>1, <1>2, HeadStays
<1>3. CASE p_copy'[o] # NULL /\ p_copy'[o] # p_copy[o]
  <2>1. pc[t] \in MoveLocs
    BY <1>3, OtherSteps DEF OutsideMove
  <2>2. MoveEffect(t)
    BY <2>1, CommitSteps
  <2>3. PICK i : i = arg[t].idx
    OBVIOUS
  <2>4. PutsInFront(t, i)
    BY <1>3, <2>2, <2>3 DEF MoveEffect, MarksFree, LinksCopy, DrawsClock, StoresClock
  <2>5. /\ pc[t] = "cas" /\ Current(t)' = Current(t) /\ arg'[t].idx = i + 1
        /\ p_copy' = [p_copy EXCEPT ![Current(t).objs[i].obj] = CurrentAddress(t, i)]
        /\ TailCnt(t)' = TailCnt(t)
    BY <2>2, <2>4 DEF PutsInFront, MoveEffect
  <2>6. o = Current(t).objs[i].obj /\ p_copy'[o] = CurrentAddress(t, i)
    BY <1>3, <2>5 DEF LogInv, LogTypes
  <2>7. Current(t).objs[i].type = "copy"
    BY <2>3, <2>5 DEF VersionInv, MovedOf
  <2>8. PICK a : a = CurrentAddress(t, i)
    OBVIOUS
  <2>9. a.thread = t /\ a.ws = TailCnt(t) /\ a.idx = i
    BY <2>8 DEF CurrentAddress, Address
  <2>10. CopyAt(a)' = Current(t).objs[i]
    BY <2>5, <2>9 DEF CopyAt, Current, TailCnt
  <2>11. a.idx < arg'[a.thread].idx
    <3>1. arg[t] \in Args
      BY DEF LogInv, LogTypes
    <3>2. QED
      BY <2>3, <2>5, <2>9, <3>1 DEF Args
  <2>12. QED
    BY <2>6, <2>7, <2>8, <2>10, <2>11, HeadAfter
<1>4. QED
  BY <1>1, <1>2, <1>3

\* VersionInv is inductive with the invariants above: steps of a thread.
LEMMA ThreadVersions ==
  ASSUME LogInv, LogInv', QpInv, QpInv', VersionsFit, LocksInv, VersionInv, NEW t \in Threads,
         ThreadStep(t)
  PROVE  VersionInv'
<1>1. ASSUME NEW u \in Threads PROVE ClocksOf(u)' /\ MovedOf(u)' /\ VersionsOf(u)'
  <2>1. ClocksOf(u) /\ MovedOf(u) /\ VersionsOf(u)
    BY DEF VersionInv
  <2>2. CASE u = t
    <3>1. ClocksOf(u)'
      BY <2>1, <2>2, StepClocksOf
    <3>2. MovedOf(u)'
      BY <2>2, MovesOn, StartsMoving
    <3>3. VersionsOf(u)'
      BY <2>1, <2>2, StepVersionsOf, StoreVersionsOf
    <3>4. QED
      BY <3>1, <3>2, <3>3
  <2>3. CASE u # t
    <3>1. /\ wrt_sets'[u] = wrt_sets[u] /\ cur_wrt_set'[u] = cur_wrt_set[u]
          /\ pc'[u] = pc[u] /\ arg'[u] = arg[u]
      BY <2>3, OthersStay
    <3>2. g_wrt_clk' \in Nat /\ g_wrt_clk' >= g_wrt_clk
      BY ThreadEffect DEF QpInv, ControlTypes, SectionEffect
    <3>3. \A c \in Copies : Linked(c) => Linked(c)'
      BY LinkStays
    <3>4. QED
      BY <2>1, <3>1, <3>2, <3>3, KeepThread
  <2>4. QED
    BY <2>2, <2>3
<1>2. \A o \in Objects : HeadOf(o)'
  BY StepHeadOf
<1>3. QED
  BY <1>1, <1>2 DEF VersionInv

\* Steps that leave logs, operands and the clock alone, and at most cut chains.
LEMMA FrameVersions ==
  ASSUME LogInv, QpInv, VersionInv, wrt_sets' = wrt_sets, cur_wrt_set' = cur_wrt_set, arg' = arg,
         g_wrt_clk' = g_wrt_clk, \A o \in Objects : p_copy'[o] \in {p_copy[o], NULL},
         \A t \in Threads : pc'[t] = pc[t]
  PROVE  VersionInv'
<1>1. \A c \in Copies : Linked(c) => Linked(c)'
  BY DEF Linked, IsVersion, InLog, CopyAt, get_wrt_clk
<1>2. g_wrt_clk' \in Nat /\ g_wrt_clk' >= g_wrt_clk
  BY DEF QpInv, ControlTypes
<1>3. ASSUME NEW u \in Threads PROVE ClocksOf(u)' /\ MovedOf(u)' /\ VersionsOf(u)'
  <2>1. ClocksOf(u) /\ MovedOf(u) /\ VersionsOf(u)
    BY DEF VersionInv
  <2>2. QED
    BY <1>1, <1>2, <2>1, KeepThread
<1>4. ASSUME NEW o \in Objects PROVE HeadOf(o)'
  <2>1. CASE p_copy'[o] = NULL
    BY <2>1 DEF HeadOf
  <2>2. CASE p_copy'[o] = p_copy[o] /\ p_copy[o] # NULL
    <3>1. PICK a : a = p_copy[o]
      OBVIOUS
    <3>2. /\ CopyAt(a).obj = o /\ CopyAt(a).type = "copy"
          /\ get_wrt_clk(a) = MAX_VERSION => a.idx < arg[a.thread].idx
      BY <2>2, <3>1 DEF VersionInv, HeadOf
    <3>3. CopyAt(a)' = CopyAt(a) /\ get_wrt_clk(a)' = get_wrt_clk(a)
      BY DEF CopyAt, get_wrt_clk
    <3>4. QED
      BY <2>2, <3>1, <3>2, <3>3, HeadAfter
  <2>3. QED
    BY <2>1, <2>2
<1>5. QED
  BY <1>3, <1>4 DEF VersionInv

\* No log holds a copy at first.
LEMMA InitVersions == Init => VersionInv
<1> SUFFICES ASSUME Init PROVE VersionInv
  OBVIOUS
<1>1. ASSUME NEW t \in Threads PROVE ClocksOf(t) /\ MovedOf(t) /\ VersionsOf(t)
  <2>1. wrt_sets[t] = <<>> /\ cur_wrt_set[t] = FALSE /\ pc[t] = "idle"
    BY ActorsAssumption DEF Init, Actors
  <2>2. TailCnt(t) = 0
    BY <2>1 DEF TailCnt
  <2>3. QED
    BY <2>1, <2>2 DEF ClocksOf, MovedOf, VersionsOf, MoveLocs
<1>2. \A o \in Objects : HeadOf(o)
  BY DEF Init, HeadOf
<1>3. QED
  BY <1>1, <1>2 DEF VersionInv

\* VersionInv is inductive with them: every step.
LEMMA StepVersions ==
  QpInv /\ QpInv' /\ LogInv /\ LogInv' /\ VersionsFit /\ LocksInv /\ VersionInv /\ [Next]_vars
    => VersionInv'
<1> SUFFICES ASSUME QpInv, QpInv', LogInv, LogInv', VersionsFit, LocksInv, VersionInv, [Next]_vars
             PROVE  VersionInv'
  OBVIOUS
<1>1. CASE UNCHANGED vars
  BY <1>1, FrameVersions DEF vars, logs, objects, control, section
<1>2. CASE QpStep
  BY <1>2, QpFrame, FrameVersions
<1>3. ASSUME NEW t \in Threads, ThreadStep(t) PROVE VersionInv'
  BY <1>3, ThreadVersions
<1>4. QED
  BY <1>1, <1>2, <1>3 DEF Next, Terminating

\* The versions of an object are the copies in the logs that are committed.
LEMMA VersionsAreCopies ==
  ASSUME LogInv, NEW o \in Objects, NEW a
  PROVE  a \in Versions(o) <=> IsVersion(o, a)
<1>1. a \in AllCopies <=> InLog(a)
  <2>1. ASSUME a \in AllCopies PROVE InLog(a)
    <3>0. PICK t \in Threads : a \in UNION {CopiesOf(t, w) : w \in DOMAIN wrt_sets[t]}
      BY <2>1 DEF AllCopies
    <3>1. PICK w \in DOMAIN wrt_sets[t] : a \in CopiesOf(t, w)
      BY <3>0
    <3>2. PICK i \in DOMAIN wrt_sets[t][w].objs : a = Address(t, w, i)
      BY <3>1 DEF CopiesOf
    <3>3. a.thread = t /\ a.ws = w /\ a.idx = i
      BY <3>2 DEF Address
    <3>4. w \in Nat /\ i \in Nat
      <4>1. wrt_sets[t] \in Seq(WrtSets)
        BY DEF LogInv, LogTypes
      <4>2. wrt_sets[t][w] \in WrtSets
        BY <4>1
      <4>3. wrt_sets[t][w].objs \in Seq(Copies)
        BY <4>2 DEF WrtSets
      <4>4. QED
        BY <4>1, <4>3
    <3>5. a \in Addresses
      BY <3>2, <3>4 DEF Address, Addresses
    <3>6. QED
      BY <3>3, <3>5 DEF InLog
  <2>2. QED
    BY <2>1, InLogIsACopy
<1>2. QED
  BY <1>1 DEF Versions, IsVersion

\* The chain from a version of an object goes down: each copy is newer than the
\* one it names, and keeps that one's clock, which mvrlu_deref compares with
\* qp_clk2 to know that the rest of the chain is given up.
THEOREM ChainsDescend == Spec /\ []VersionsFit => []VersionsDescend
<1>1. Init => QpInv /\ LogInv /\ LocksInv /\ VersionInv
  BY InitQp, InitLog, InitLocks, InitVersions
<1>2. QpInv /\ LogInv /\ LocksInv /\ VersionInv /\ VersionsFit /\ [Next]_vars
        => (QpInv /\ LogInv /\ LocksInv /\ VersionInv)'
  BY StepQp, StepLog, StepLocks, StepVersions
<1>3. LogInv /\ VersionInv => VersionsDescend
  <2> SUFFICES ASSUME LogInv, VersionInv, NEW o \in Objects, NEW a \in Versions(o), NEW c,
                      c = CopyAt(a)
               PROVE  /\ c.wrt_clk_next < get_wrt_clk(a)
                      /\ c.p_copy # NULL =>
                           c.p_copy \in Versions(o) /\ get_wrt_clk(c.p_copy) = c.wrt_clk_next
    BY DEF VersionsDescend
  <2>1. IsVersion(o, a)
    BY VersionsAreCopies
  <2>2. PICK t, w, i : t = a.thread /\ w = a.ws /\ i = a.idx
    OBVIOUS
  <2>3. /\ t \in Threads /\ w \in DOMAIN wrt_sets[t] /\ i \in DOMAIN wrt_sets[t][w].objs
        /\ wrt_sets[t][w].wrt_clk # MAX_VERSION /\ c = wrt_sets[t][w].objs[i]
        /\ c.type = "copy" /\ c.obj = o
    BY <2>1, <2>2 DEF IsVersion, InLog, Addresses, CopyAt, get_wrt_clk
  <2>4. VersionsOf(t)
    BY <2>3 DEF VersionInv
  <2>5. Linked(c) /\ c.wrt_clk_next < wrt_sets[t][w].wrt_clk
    BY <2>3, <2>4 DEF VersionsOf
  <2>6. c.wrt_clk_next < get_wrt_clk(a)
    BY <2>2, <2>5 DEF get_wrt_clk
  <2>7. c.p_copy # NULL => IsVersion(o, c.p_copy) /\ get_wrt_clk(c.p_copy) = c.wrt_clk_next
    BY <2>3, <2>5 DEF Linked
  <2>8. QED
    BY <2>6, <2>7, VersionsAreCopies
<1>4. QED
  BY <1>1, <1>2, <1>3, PTL DEF Spec

=============================================================================
