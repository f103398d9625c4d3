-------------------------------- MODULE MVRLU --------------------------------
(***************************************************************************)
(* Multi-version Read-Log-Update (lb+tree_mvrlu/lib/mvrlu.c), the second   *)
(* synchronisation layer of the LB+tree, built with the global clock       *)
(* (libmvrlu-gclk).                                                        *)
(*                                                                         *)
(* A section reads the versions of objects as of its local clock.  A       *)
(* writer locks an object, changes a copy in its own log, and on commit    *)
(* puts the copy at the head of the object's version chain.  A background  *)
(* thread, QP, finds clocks that all running sections have passed; with    *)
(* two such clocks, log_reclaim writes the latest copies back to their     *)
(* actual objects one period before it gives the log space up.             *)
(*                                                                         *)
(* One action per access to shared memory that others can tell apart, in   *)
(* program order; memory is sequentially consistent.  A log is a sequence  *)
(* of write sets that grows; head_cnt counts those given up, whose memory  *)
(* may be overwritten.  The layout of the ring is abstracted.              *)
(***************************************************************************)
EXTENDS Integers, Sequences, FiniteSets

CONSTANTS
  Threads,       \* registered by mvrlu_thread_init before the first section
  QP,            \* g_qp_thread
  Objects,       \* handed out by mvrlu_alloc
  Root,          \* the object every section starts from
  Plans,         \* what the threads do, see plan
  LowMark,       \* MVRLU_LOG_LOW_MARK, in write sets
  HighMark,      \* MVRLU_LOG_HIGH_MARK, in write sets
  DerefMinActObj,    \* MVRLU_DEREF_MIN_ACT_OBJ
  MVRLU_DEREF_MARK,
  MAX_VERSION,   \* clock of a write set that is not committed
  NULL, ACTUAL   \* no copy, no lock; a pointer to the object itself

MIN_VERSION == 0
Actors == Threads \union {QP}

ASSUME ActorsAssumption == QP \notin Threads /\ Root \in Objects
ASSUME MarksAssumption == LowMark \in Nat /\ HighMark \in Nat /\ LowMark <= HighMark
ASSUME BoundsAssumption == MAX_VERSION \in Nat

\* Where a copy is: a write set of a thread's log, and its place in that.
Addresses == [thread : Threads, ws : Nat, idx : Nat]
ASSUME MarkerAssumption ==
  NULL \notin Addresses /\ ACTUAL \notin Addresses /\ NULL # ACTUAL /\ NULL \notin Actors
ASSUME PlansAssumption ==
  Plans \subseteq [Threads -> [objects : SUBSET Objects, locks : BOOLEAN, frees : BOOLEAN,
                              sections : Nat, flushes : BOOLEAN]]

VARIABLES
  g_wrt_clk,
  p_lock, p_copy, actual,   \* the object's header and contents
  released,                 \* objects given back by port_free
  wrt_sets, head_cnt,       \* the log: write sets, and how many are given up
  qp_clk1, qp_clk2, need_reclaim, reclaim_lock,
  run_cnt, local_clk,
  cur_wrt_set,              \* the section has a write set, the last of its log
  free_ptrs,
  pc, ret,                  \* where an actor is; where its log_reclaim returns to
  arg,                      \* operand of the call in progress
  held,                     \* pointers the section got from mvrlu_deref
  scan,                     \* loop variables of the log_reclaim of each log
  qp,                       \* g_qp_thread and the locals of its loop
  live, zombies,            \* g_live_threads, g_zombie_threads with a log left
  plan,                     \* of each thread: the objects it uses, whether it locks and
                            \* frees them, how many sections it runs, and whether
                            \* it calls mvrlu_flush_log behind them
  history                   \* see History

objects == <<p_lock, p_copy, actual, released>>
logs    == <<wrt_sets, head_cnt, cur_wrt_set, free_ptrs>>
clocks  == <<qp_clk1, qp_clk2, need_reclaim>>
reclaim == <<reclaim_lock, scan>>
section == <<run_cnt, local_clk, held, arg>>
control == <<pc, ret>>
lists   == <<live, zombies, plan>>
vars == <<g_wrt_clk, objects, logs, clocks, reclaim, section, control, qp, lists, history>>

Goto(a, loc) == pc' = [pc EXCEPT ![a] = loc]

------------------------------------------------------------------------------
(* Copies and their addresses.                                             *)

Contents == [n : Nat, links : SUBSET Objects]
Address(t, w, i) == [thread |-> t, ws |-> w, idx |-> i]
CopyAt(a) == wrt_sets[a.thread][a.ws].objs[a.idx]

\* get_wrt_clk: __wrt_clk repeats the write set's clock once it is known.
get_wrt_clk(a) == wrt_sets[a.thread][a.ws].wrt_clk

TailCnt(t) == Len(wrt_sets[t])
log_used(t) == TailCnt(t) - head_cnt[t]

\* The write set the thread is filling or committing.
Current(t) == wrt_sets[t][TailCnt(t)]
CurrentAddress(t, i) == Address(t, TailCnt(t), i)

\* An address is given up when log_reclaim moved head_cnt past it.
GivenUp(a) == a.ws <= head_cnt[a.thread]

IsRunning(t) == run_cnt[t] % 2 = 1
SectionLocs == {"section", "walk", "lock", "failed"}
CommitLocs == {"move", "cas", "new_clock", "store_clock", "advance"}

\* Committing: from the first copy put into a chain until the clock advances.
Committing == {t \in Threads : pc[t] \in CommitLocs}

(***************************************************************************)
(* History.  late_commit: a write set got a clock that a section may have  *)
(* read already, since log_commit loads, stores and advances the clock in  *)
(* three steps.  spans[l]: Unwritten until log_reclaim has written the     *)
(* copies of log l back with its present clocks; then the threads still in *)
(* a section or commit that ran at that time, or in a section that read    *)
(* the clock before such a commit advanced it.  early_reclaim: qp_clk2 was *)
(* moved to qp_clk1 while spans was not empty.                             *)
(***************************************************************************)
NoHistory == [late_commit |-> FALSE, early_reclaim |-> FALSE,
              spans |-> [t \in Threads |-> {}]]
Unwritten == {QP}
Busy == {t \in Threads : IsRunning(t)} \union Committing
Ended(t) == history' = [history EXCEPT !.spans = [l \in Threads |-> @[l] \ {t}]]

NoArg == [obj |-> NULL, ptr |-> NULL, clk |-> 0, idx |-> 0]
NoRunCnt == [t \in Threads |-> 0]
\* thread_list_for_each_safe: the lists have one order, whatever it is.
NextInList(S, t) == S # {} /\ t = CHOOSE u \in S : TRUE
NoScan == [clk1 |-> 0, clk2 |-> 0, tail |-> 0, ws |-> 0, idx |-> 0]

Init ==
  /\ g_wrt_clk = 0
  /\ p_lock = [o \in Objects |-> NULL]
  /\ p_copy = [o \in Objects |-> NULL]
  /\ actual = [o \in Objects |->
                 [n |-> 0, links |-> IF o = Root THEN Objects \ {Root} ELSE {}]]
  /\ released = {}
  /\ wrt_sets = [t \in Threads |-> <<>>]
  /\ head_cnt = [t \in Threads |-> 0]
  /\ cur_wrt_set = [t \in Threads |-> FALSE]
  /\ free_ptrs = [t \in Threads |-> {}]
  /\ qp_clk1 = [t \in Threads |-> 0]
  /\ qp_clk2 = [t \in Threads |-> 0]
  /\ need_reclaim = [t \in Threads |-> FALSE]
  /\ reclaim_lock = [t \in Threads |-> NULL]
  /\ scan = [t \in Threads |-> NoScan]
  /\ run_cnt = [t \in Threads |-> 0]
  /\ local_clk = [t \in Threads |-> 0]
  /\ held = [t \in Threads |-> {}]
  /\ arg = [t \in Threads |-> NoArg]
  /\ pc = [a \in Actors |-> IF a = QP THEN "detect" ELSE "idle"]
  /\ ret = [a \in Actors |-> "idle"]
  /\ qp = [qp_clk |-> 0, need_reclaim |-> FALSE, reclaim_done |-> TRUE,
           todo |-> {}, run_cnt |-> NoRunCnt, log |-> NULL, final |-> 0]
  /\ live = Threads
  /\ plan \in Plans
  /\ zombies = {}
  /\ history = NoHistory

------------------------------------------------------------------------------
(* log_reclaim, run by the log's thread or by QP.  The caller has seen     *)
(* need_reclaim; ret is where it goes on.                                  *)

LogOf(a) == IF a = QP THEN qp.log ELSE a

CallReclaim(a, back) ==
  /\ pc' = [pc EXCEPT ![a] = "try_reclaim"]
  /\ ret' = [ret EXCEPT ![a] = back]

\* try_lock; under the lock, the clocks and counters are read together.
TryReclaimLock(a) ==
  LET l == LogOf(a) IN
  /\ pc[a] = "try_reclaim"
  /\ IF reclaim_lock[l] = NULL
     THEN /\ reclaim_lock' = [reclaim_lock EXCEPT ![l] = a]
          /\ scan' = [scan EXCEPT ![l] = [clk1 |-> qp_clk1[l], clk2 |-> qp_clk2[l],
                                          tail |-> TailCnt(l), ws |-> head_cnt[l], idx |-> 1]]
          /\ Goto(a, "scan")
     ELSE /\ Goto(a, ret[a])
          /\ UNCHANGED reclaim
  /\ UNCHANGED <<g_wrt_clk, objects, logs, clocks, section, ret, qp, lists, history>>

\* The next write set, if the scan does not end before it.
ScanEnds(l) ==
  LET w == scan[l].ws + 1 IN
  (w <= scan[l].tail /\ w <= TailCnt(l)) => wrt_sets[l][w].wrt_clk > scan[l].clk1

\* Not after qp_clk2: free what the write set frees, give its space up.
ReclaimWrtSet(a) ==
  LET l == LogOf(a)
      w == scan[l].ws + 1
      ws == wrt_sets[l][w]
  IN
  /\ pc[a] = "scan" /\ ~ScanEnds(l)
  /\ ws.wrt_clk <= scan[l].clk2
  /\ released' = released \union {ws.objs[i].obj : i \in {j \in DOMAIN ws.objs : ws.objs[j].type = "free"}}
  /\ head_cnt' = [head_cnt EXCEPT ![l] = w]
  /\ scan' = [scan EXCEPT ![l].ws = w]
  /\ UNCHANGED <<g_wrt_clk, p_lock, p_copy, actual, wrt_sets, cur_wrt_set, free_ptrs, clocks,
                 reclaim_lock, section, control, qp, lists, history>>

\* The copy after idx, or the write set after it.
NextCopy(l) ==
  IF scan[l].idx < Len(wrt_sets[l][scan[l].ws + 1].objs)
  THEN [scan EXCEPT ![l].idx = @ + 1]
  ELSE [scan EXCEPT ![l].ws = @ + 1, ![l].idx = 1]

\* Mutant of IsLatest: any copy of a chain will do.
IsInChain(o, at) == p_copy[o] # NULL

\* The copy is the head of its object's chain.
IsLatest(o, at) == p_copy[o] = at

\* try_writeback_obj: in (qp_clk2, qp_clk1] a copy that is still the latest
\* goes to the actual object, any other is passed by.
WriteBackCopy(a) ==
  LET l == LogOf(a)
      w == scan[l].ws + 1
      c == wrt_sets[l][w].objs[scan[l].idx]
  IN
  /\ pc[a] = "scan" /\ ~ScanEnds(l)
  /\ wrt_sets[l][w].wrt_clk > scan[l].clk2
  /\ IF c.type = "copy" /\ IsLatest(c.obj, Address(l, w, scan[l].idx))
     THEN /\ actual' = [actual EXCEPT ![c.obj] = c.val]
          /\ Goto(a, "detach")
          /\ UNCHANGED scan
     ELSE /\ scan' = NextCopy(l)
          /\ UNCHANGED <<actual, pc>>
  /\ UNCHANGED <<g_wrt_clk, p_lock, p_copy, released, logs, clocks, reclaim_lock, section,
                 ret, qp, lists, history>>

\* try_detach_obj: unless a newer copy was put in front meanwhile.
try_detach_obj(a) ==
  LET l == LogOf(a)
      at == Address(l, scan[l].ws + 1, scan[l].idx)
      o == CopyAt(at).obj
  IN
  /\ pc[a] = "detach"
  /\ p_copy' = IF IsLatest(o, at) THEN [p_copy EXCEPT ![o] = NULL] ELSE p_copy
  /\ scan' = NextCopy(l)
  /\ Goto(a, "scan")
  /\ UNCHANGED <<g_wrt_clk, p_lock, actual, released, logs, clocks, reclaim_lock, section,
                 ret, qp, lists, history>>

\* need_reclaim = 0 and unlock.  The pass counts if it used the log's present clocks.
EndScan(a) ==
  LET l == LogOf(a)
      current == scan[l].clk1 = qp_clk1[l] /\ scan[l].clk2 = qp_clk2[l]
  IN
  /\ pc[a] = "scan" /\ ScanEnds(l)
  /\ need_reclaim' = [need_reclaim EXCEPT ![l] = FALSE]
  /\ reclaim_lock' = [reclaim_lock EXCEPT ![l] = NULL]
  /\ scan' = [scan EXCEPT ![l] = NoScan]
  /\ history' = IF current /\ history.spans[l] = Unwritten
                THEN [history EXCEPT !.spans[l] = Busy] ELSE history
  /\ Goto(a, ret[a])
  /\ UNCHANGED <<g_wrt_clk, objects, logs, qp_clk1, qp_clk2, section, ret, qp, lists>>

log_reclaim(a) ==
  TryReclaimLock(a) \/ ReclaimWrtSet(a) \/ WriteBackCopy(a) \/ try_detach_obj(a) \/ EndScan(a)

------------------------------------------------------------------------------
(* mvrlu_reader_lock: make room in the log, then start.                    *)

\* wakeup_qp_thread_for_reclaim
WakeQp == qp' = [qp EXCEPT !.need_reclaim = TRUE]

\* The section counts as running from here on.
StartSection(t) ==
  /\ run_cnt' = [run_cnt EXCEPT ![t] = @ + 1]
  /\ Goto(t, "read_clock")

mvrlu_reader_lock(t) ==
  /\ pc[t] = "idle" /\ run_cnt[t] < 2 * plan[t].sections
  /\ IF need_reclaim[t] THEN CallReclaim(t, "capacity") /\ UNCHANGED run_cnt
     ELSE /\ IF log_used(t) < HighMark THEN StartSection(t)
             ELSE Goto(t, "capacity") /\ UNCHANGED run_cnt
          /\ UNCHANGED ret
  /\ UNCHANGED <<g_wrt_clk, objects, logs, clocks, reclaim, local_clk, held, arg, qp, lists, history>>

\* log_reclaim_force, at the high mark or from mvrlu_flush_log.
log_reclaim_force(t) ==
  /\ \/ pc[t] = "capacity" /\ log_used(t) >= HighMark
     \/ pc[t] = "flush" /\ log_used(t) > 0
  /\ IF need_reclaim[t]
     THEN CallReclaim(t, pc[t]) /\ UNCHANGED qp
     ELSE /\ pc' = [pc EXCEPT ![t] = "force_wait"]
          /\ ret' = [ret EXCEPT ![t] = pc[t]]
          /\ IF log_used(t) > 0 THEN WakeQp ELSE UNCHANGED qp
  /\ UNCHANGED <<g_wrt_clk, objects, logs, clocks, reclaim, section, lists, history>>

\* Wait for need_reclaim; every thousandth time round wake QP again.
ForceWait(t) ==
  /\ pc[t] = "force_wait"
  /\ IF need_reclaim[t] THEN Goto(t, "try_reclaim") /\ UNCHANGED qp
     ELSE /\ ~qp.need_reclaim
          /\ WakeQp
          /\ UNCHANGED pc
  /\ UNCHANGED <<g_wrt_clk, objects, logs, clocks, reclaim, section, ret, lists, history>>

\* Room was made.
BelowHighMark(t) ==
  /\ pc[t] = "capacity" /\ log_used(t) < HighMark
  /\ StartSection(t)
  /\ UNCHANGED <<g_wrt_clk, objects, logs, clocks, reclaim, local_clk, held, arg, ret, qp,
                 lists, history>>

ReadClock(t) ==
  /\ pc[t] = "read_clock"
  /\ local_clk' = [local_clk EXCEPT ![t] = g_wrt_clk]
  /\ history' = [history EXCEPT !.spans =
       [l \in Threads |-> IF @[l] \intersect Committing = {} THEN @[l] ELSE @[l] \union {t}]]
  /\ Goto(t, "section")
  /\ UNCHANGED <<g_wrt_clk, objects, logs, clocks, reclaim, run_cnt, held, arg, ret, qp, lists>>

------------------------------------------------------------------------------
(* mvrlu_deref.                                                            *)

ValueAt(h) == IF h.ptr = ACTUAL THEN actual[h.obj] ELSE CopyAt(h.ptr).val

\* What the section can reach: the root, and what its root object links.
Reachable(t, o) ==
  /\ o \in plan[t].objects
  /\ o = Root \/ \E h \in held[t] : h.obj = Root /\ o \in ValueAt(h).links

Hold(t, o, p, chain) ==
  held' = [held EXCEPT ![t] = @ \union {[obj |-> o, ptr |-> p, chain |-> chain]}]

\* Mutant of ShortcutClock: the clock of the copies that are being written back.
WritebackClock(t) == qp_clk1[t]

ShortcutClock(t) == qp_clk2[t]

\* Read p_copy: no copies, or a chain to walk.
DerefHead(t, o) ==
  /\ pc[t] = "section"
  /\ \A h \in held[t] : h.obj # o
  /\ Reachable(t, o)
  /\ IF p_copy[o] = NULL
     THEN Hold(t, o, ACTUAL, FALSE) /\ UNCHANGED <<arg, pc>>
     ELSE /\ arg' = [arg EXCEPT ![t] = [NoArg EXCEPT !.obj = o, !.ptr = p_copy[o],
                                                      !.clk = ShortcutClock(t)]]
          /\ Goto(t, "walk")
          /\ UNCHANGED held
  /\ UNCHANGED <<g_wrt_clk, objects, logs, clocks, reclaim, run_cnt, local_clk, ret, qp,
                 lists, history>>

\* The versions before c are given up: what is left of them is the master.
OlderAreGone(c, clk) == c.wrt_clk_next <= clk \/ c.p_copy = NULL

\* One copy of the chain: take it, stop at the actual object, or go on.
DerefWalk(t) ==
  LET o == arg[t].obj
      a == arg[t].ptr
      c == CopyAt(a)
      done(p) == Hold(t, o, p, TRUE) /\ Goto(t, "section") /\ arg' = [arg EXCEPT ![t] = NoArg]
  IN
  /\ pc[t] = "walk"
  /\ IF get_wrt_clk(a) <= local_clk[t] THEN done(a)
     ELSE IF OlderAreGone(c, arg[t].clk) THEN done(ACTUAL)
     ELSE arg' = [arg EXCEPT ![t].ptr = c.p_copy] /\ UNCHANGED <<held, pc>>
  /\ UNCHANGED <<g_wrt_clk, objects, logs, clocks, reclaim, run_cnt, local_clk, ret, qp,
                 lists, history>>

------------------------------------------------------------------------------
(* _mvrlu_try_lock, _mvrlu_try_lock_const and mvrlu_free.                  *)

SetCurrent(t, ws) == wrt_sets' = [wrt_sets EXCEPT ![t][TailCnt(t)] = ws]

\* Mutant of OldEnough: any version that is committed.
Committed(t, p_old_copy) == p_old_copy # NULL => get_wrt_clk(p_old_copy) # MAX_VERSION

\* "the local version of a thread is greater or equal to the writer version"
OldEnough(t, p_old_copy) == p_old_copy # NULL => get_wrt_clk(p_old_copy) <= local_clk[t]

\* Read p_lock and p_copy; refuse an object that is locked or newer than the
\* section; log_append_begin adds a write set to the log.
TryLockRead(t, o) ==
  LET p_old_copy == p_copy[o] IN
  /\ pc[t] = "section" /\ plan[t].locks
  /\ \E h \in held[t] : h.obj = o
  /\ cur_wrt_set[t] => \A i \in DOMAIN Current(t).objs : Current(t).objs[i].obj # o
  /\ IF p_lock[o] = NULL /\ OldEnough(t, p_old_copy)
     THEN /\ wrt_sets' = IF cur_wrt_set[t] THEN wrt_sets
                         ELSE [wrt_sets EXCEPT ![t] = Append(@, [wrt_clk |-> MAX_VERSION, objs |-> <<>>])]
          /\ cur_wrt_set' = [cur_wrt_set EXCEPT ![t] = TRUE]
          /\ arg' = [arg EXCEPT ![t] = [NoArg EXCEPT !.obj = o, !.ptr = p_old_copy]]
          /\ Goto(t, "lock")
     ELSE /\ Goto(t, "failed")
          /\ UNCHANGED <<wrt_sets, cur_wrt_set, arg>>
  /\ UNCHANGED <<g_wrt_clk, objects, head_cnt, free_ptrs, clocks, reclaim, run_cnt, local_clk,
                 held, ret, qp, lists, history>>

\* What a section makes of an object it locked: one more; nothing if const.
Copied(o, p_old_copy, kind) ==
  LET old == ValueAt([obj |-> o, ptr |-> IF p_old_copy = NULL THEN ACTUAL ELSE p_old_copy])
  IN  [obj |-> o, type |-> kind, p_copy |-> NULL, wrt_clk_next |-> MIN_VERSION,
       val |-> IF kind = "copy" THEN [old EXCEPT !.n = @ + 1] ELSE old]

\* Mutant of CasLock: the lock is taken by a plain store.
StoreLock(o, p_old_copy) == p_copy[o] = p_old_copy

\* The compare-and-swap, and p_copy as it was.
CasLock(o, p_old_copy) == p_lock[o] = NULL /\ p_copy[o] = p_old_copy

\* try_lock_obj, with p_copy read again against ABA; then the copy and
\* log_append_end.
TryLockCas(t) ==
  LET o == arg[t].obj IN
  /\ pc[t] = "lock"
  /\ IF CasLock(o, arg[t].ptr)
     THEN /\ p_lock' = [p_lock EXCEPT ![o] = CurrentAddress(t, Len(Current(t).objs) + 1)]
          /\ \E kind \in {"copy"} \union (IF o # Root /\ plan[t].frees THEN {"const"} ELSE {}) :
               SetCurrent(t, [Current(t) EXCEPT !.objs = Append(@, Copied(o, arg[t].ptr, kind))])
          /\ Goto(t, "section")
     ELSE /\ Goto(t, "failed")
          /\ UNCHANGED <<p_lock, wrt_sets>>
  /\ arg' = [arg EXCEPT ![t] = NoArg]
  /\ UNCHANGED <<g_wrt_clk, p_copy, actual, released, head_cnt, cur_wrt_set, free_ptrs, clocks,
                 reclaim, run_cnt, local_clk, held, ret, qp, lists, history>>

\* A section that locked the root and o unlinks o and frees it.
mvrlu_free(t, o) ==
  LET locked(x) == {i \in DOMAIN Current(t).objs : Current(t).objs[i].obj = x} IN
  /\ pc[t] = "section" /\ plan[t].frees /\ cur_wrt_set[t] /\ o # Root
  /\ locked(o) # {}
  /\ \E i \in locked(Root) :
       /\ o \in Current(t).objs[i].val.links
       /\ SetCurrent(t, [Current(t) EXCEPT !.objs[i].val.links = @ \ {o}])
  /\ free_ptrs' = [free_ptrs EXCEPT ![t] = @ \union {o}]
  /\ UNCHANGED <<g_wrt_clk, objects, head_cnt, cur_wrt_set, clocks, reclaim, section, control, qp,
                 lists, history>>

------------------------------------------------------------------------------
(* mvrlu_reader_unlock with log_commit, and mvrlu_abort.                   *)

EndSection(t) ==
  /\ run_cnt' = [run_cnt EXCEPT ![t] = @ + 1]
  /\ held' = [held EXCEPT ![t] = {}]

\* A log that is due is reclaimed.
AfterSection(t, next) ==
  IF need_reclaim[t] THEN CallReclaim(t, next) ELSE Goto(t, "idle") /\ UNCHANGED ret

\* The dereference mark: too many of the objects had version chains.
DerefMark(t) ==
  LET num_act_obj == Cardinality(held[t])
      num_deref == Cardinality({h \in held[t] : h.chain})
  IN  num_act_obj > DerefMinActObj /\ num_act_obj < MVRLU_DEREF_MARK * num_deref

\* Wake QP if the mark is reached; then commit, if the section wrote.
mvrlu_reader_unlock(t) ==
  /\ pc[t] = "section"
  /\ EndSection(t)
  /\ IF DerefMark(t) THEN WakeQp ELSE UNCHANGED qp
  /\ IF cur_wrt_set[t]
     THEN /\ Goto(t, "move")
          /\ arg' = [arg EXCEPT ![t].idx = 1]
          /\ UNCHANGED <<ret, history>>
     ELSE /\ AfterSection(t, "low_mark")
          /\ Ended(t)
          /\ UNCHANGED arg
  /\ UNCHANGED <<g_wrt_clk, objects, logs, clocks, reclaim, local_clk, lists>>

\* ws_move_lock_to_copy, one copy: mark it freed, pass a const lock by, or
\* link the copy to the head of the object's chain.
LinkTo(t, p_old_copy) ==
  SetCurrent(t, [Current(t) EXCEPT
    !.objs[arg[t].idx].p_copy = p_old_copy,
    !.objs[arg[t].idx].wrt_clk_next =
       IF p_old_copy = NULL THEN MIN_VERSION ELSE get_wrt_clk(p_old_copy)])

MoveCopy(t) ==
  LET i == arg[t].idx
      c == Current(t).objs[i]
      next == arg' = [arg EXCEPT ![t].idx = i + 1]
  IN
  /\ pc[t] = "move" /\ i <= Len(Current(t).objs)
  /\ CASE c.obj \in free_ptrs[t] ->
            /\ SetCurrent(t, [Current(t) EXCEPT !.objs[i].type = "free"])
            /\ next /\ UNCHANGED pc
       [] c.obj \notin free_ptrs[t] /\ c.type = "const" -> next /\ UNCHANGED <<wrt_sets, pc>>
       [] OTHER -> LinkTo(t, p_copy[c.obj]) /\ Goto(t, "cas") /\ UNCHANGED arg
  /\ UNCHANGED <<g_wrt_clk, objects, head_cnt, cur_wrt_set, free_ptrs, clocks, reclaim, run_cnt,
                 local_clk, held, ret, qp, lists, history>>

\* The CAS fails if log_reclaim has detached the old copy meanwhile.
MoveCas(t) ==
  LET i == arg[t].idx
      c == Current(t).objs[i]
  IN
  /\ pc[t] = "cas"
  /\ IF p_copy[c.obj] = c.p_copy
     THEN /\ p_copy' = [p_copy EXCEPT ![c.obj] = CurrentAddress(t, i)]
          /\ arg' = [arg EXCEPT ![t].idx = i + 1]
          /\ Goto(t, "move")
          /\ UNCHANGED wrt_sets
     ELSE /\ LinkTo(t, p_copy[c.obj])
          /\ UNCHANGED <<p_copy, arg, pc>>
  /\ UNCHANGED <<g_wrt_clk, p_lock, actual, released, head_cnt, cur_wrt_set, free_ptrs, clocks,
                 reclaim, run_cnt, local_clk, held, ret, qp, lists, history>>

\* new_clock
LoadClock(t) ==
  /\ pc[t] = "move" /\ arg[t].idx > Len(Current(t).objs)
  /\ arg' = [arg EXCEPT ![t].clk = g_wrt_clk + 1]
  /\ Goto(t, "store_clock")
  /\ UNCHANGED <<g_wrt_clk, objects, logs, clocks, reclaim, run_cnt, local_clk, held, ret, qp,
                 lists, history>>

\* "Make them public atomically"
StoreClock(t) ==
  /\ pc[t] = "store_clock"
  /\ SetCurrent(t, [Current(t) EXCEPT !.wrt_clk = arg[t].clk])
  /\ history' = IF arg[t].clk <= g_wrt_clk THEN [history EXCEPT !.late_commit = TRUE] ELSE history
  /\ Goto(t, "advance")
  /\ UNCHANGED <<g_wrt_clk, objects, head_cnt, cur_wrt_set, free_ptrs, clocks, reclaim, section,
                 ret, qp, lists>>

\* advance_clock
AdvanceClock(t) ==
  /\ pc[t] = "advance"
  /\ g_wrt_clk' = g_wrt_clk + 1
  /\ arg' = [arg EXCEPT ![t] = NoArg]
  /\ Goto(t, "unlock")
  /\ Ended(t)
  /\ UNCHANGED <<objects, logs, clocks, reclaim, run_cnt, local_clk, held, ret, qp, lists>>

\* Mutant of Unlocked: only what was copied is unlocked.
UnlockedCopies(t) ==
  [o \in Objects |->
     IF \E i \in DOMAIN Current(t).objs :
          Current(t).objs[i].obj = o /\ Current(t).objs[i].type = "copy"
     THEN NULL ELSE p_lock[o]]

\* What ws_unlock leaves: an object that is to be freed stays locked.
Unlocked(t) ==
  [o \in Objects |->
     IF \E i \in DOMAIN Current(t).objs :
          Current(t).objs[i].obj = o /\ Current(t).objs[i].type # "free"
     THEN NULL ELSE p_lock[o]]

\* wakeup_qp_thread_for_reclaim at the low mark.
CheckLowMark(t) == IF log_used(t) >= LowMark THEN WakeQp ELSE UNCHANGED qp

ws_unlock(t) ==
  /\ pc[t] = "unlock"
  /\ p_lock' = Unlocked(t)
  /\ cur_wrt_set' = [cur_wrt_set EXCEPT ![t] = FALSE]
  /\ free_ptrs' = [free_ptrs EXCEPT ![t] = {}]
  /\ AfterSection(t, "low_mark")
  /\ IF need_reclaim[t] THEN UNCHANGED qp ELSE CheckLowMark(t)
  /\ UNCHANGED <<g_wrt_clk, p_copy, actual, released, wrt_sets, head_cnt, clocks, reclaim, section,
                 lists, history>>

AfterReclaim(t) ==
  /\ pc[t] = "low_mark"
  /\ CheckLowMark(t)
  /\ Goto(t, "idle")
  /\ UNCHANGED <<g_wrt_clk, objects, logs, clocks, reclaim, section, ret, lists, history>>

\* After a refused lock, as all sections of the tree do.
mvrlu_abort(t) ==
  /\ pc[t] = "failed"
  /\ EndSection(t)
  /\ Ended(t)
  /\ Goto(t, "abort")
  /\ arg' = [arg EXCEPT ![t] = NoArg]
  /\ UNCHANGED <<g_wrt_clk, objects, logs, clocks, reclaim, local_clk, ret, qp, lists>>

\* Mutant of log_abort: the objects stay locked.
AbortWithoutUnlock(t) ==
  /\ pc[t] = "abort"
  /\ IF cur_wrt_set[t]
     THEN /\ wrt_sets' = [wrt_sets EXCEPT ![t] = SubSeq(@, 1, TailCnt(t) - 1)]
          /\ cur_wrt_set' = [cur_wrt_set EXCEPT ![t] = FALSE]
          /\ free_ptrs' = [free_ptrs EXCEPT ![t] = {}]
     ELSE UNCHANGED <<wrt_sets, cur_wrt_set, free_ptrs>>
  /\ AfterSection(t, "idle")
  /\ UNCHANGED <<g_wrt_clk, p_lock, p_copy, actual, released, head_cnt, clocks, reclaim, section,
                 qp, lists, history>>

\* log_abort takes the write set off the log again.
log_abort(t) ==
  /\ pc[t] = "abort"
  /\ IF cur_wrt_set[t]
     THEN /\ p_lock' = Unlocked(t)
          /\ wrt_sets' = [wrt_sets EXCEPT ![t] = SubSeq(@, 1, TailCnt(t) - 1)]
          /\ cur_wrt_set' = [cur_wrt_set EXCEPT ![t] = FALSE]
          /\ free_ptrs' = [free_ptrs EXCEPT ![t] = {}]
     ELSE UNCHANGED <<p_lock, wrt_sets, cur_wrt_set, free_ptrs>>
  /\ AfterSection(t, "idle")
  /\ UNCHANGED <<g_wrt_clk, p_copy, actual, released, head_cnt, clocks, reclaim, section, qp,
                 lists, history>>

------------------------------------------------------------------------------
(* mvrlu_flush_log and mvrlu_thread_finish, after the last section.        *)

NoMoreSections(t) == pc[t] = "idle" /\ run_cnt[t] = 2 * plan[t].sections

mvrlu_flush_log(t) ==
  /\ NoMoreSections(t) /\ plan[t].flushes
  /\ Goto(t, "flush")
  /\ UNCHANGED <<g_wrt_clk, objects, logs, clocks, reclaim, section, ret, qp, lists, history>>

mvrlu_thread_finish(t) ==
  /\ \/ NoMoreSections(t) /\ ~plan[t].flushes
     \/ pc[t] = "flush" /\ log_used(t) = 0
  /\ IF need_reclaim[t] THEN CallReclaim(t, "leave")
     ELSE Goto(t, "leave") /\ UNCHANGED ret
  /\ UNCHANGED <<g_wrt_clk, objects, logs, clocks, reclaim, section, qp, lists, history>>

\* Mutant of LiveWithout: the thread stays in the list.
LiveWith(t) == live

LiveWithout(t) == live \ {t}

\* Off the live list, once QP lets go of the lists' locks; what is left in
\* the log is for QP.
LeaveLists(t) ==
  /\ pc[t] = "leave" /\ pc[QP] \notin {"try_reclaim", "scan", "detach"}
  /\ live' = LiveWithout(t)
  /\ zombies' = IF log_used(t) > 0 THEN zombies \union {t} ELSE zombies
  /\ Goto(t, "finished")
  /\ UNCHANGED <<g_wrt_clk, objects, logs, clocks, reclaim, section, ret, qp, plan, history>>

------------------------------------------------------------------------------
(* The loop of the QP thread.  A list is walked under its lock; what its   *)
(* loops wait for stays true, so one action stands for a walk.             *)

\* qp_detect reads the clock.
QpReadClock ==
  /\ pc[QP] = "detect"
  /\ qp' = [qp EXCEPT !.qp_clk = g_wrt_clk]
  /\ Goto(QP, "qp_init")
  /\ UNCHANGED <<g_wrt_clk, objects, logs, clocks, reclaim, section, ret, lists, history>>

\* The run_cnt of each thread to wait for; 0 for one between sections.
qp_init ==
  /\ pc[QP] = "qp_init"
  /\ qp' = [qp EXCEPT !.run_cnt =
               [t \in Threads |-> IF t \in live /\ IsRunning(t) THEN run_cnt[t] ELSE 0]]
  /\ Goto(QP, "qp_wait")
  /\ UNCHANGED <<g_wrt_clk, objects, logs, clocks, reclaim, section, ret, lists, history>>

\* Mutant of Passed: a section that began one commit earlier will do.
PassedByOne(t) ==
  qp.run_cnt[t] # 0 => run_cnt[t] # qp.run_cnt[t] \/ local_clk[t] + 1 >= qp.qp_clk

\* The thread left its section, or runs one that began later.
Passed(t) ==
  qp.run_cnt[t] # 0 => run_cnt[t] # qp.run_cnt[t] \/ local_clk[t] >= qp.qp_clk

qp_wait ==
  /\ pc[QP] = "qp_wait"
  /\ \A t \in live : Passed(t)
  /\ qp' = [qp EXCEPT !.run_cnt = NoRunCnt,
                      !.todo = IF qp.reclaim_done THEN {} ELSE zombies]
  /\ Goto(QP, IF qp.reclaim_done THEN "may_trigger" ELSE "reap")
  /\ UNCHANGED <<g_wrt_clk, objects, logs, clocks, reclaim, section, ret, lists, history>>

\* qp_update_qp_clk_for_reclaim, for the threads of S.
UpdateClocks(S) ==
  /\ qp_clk2' = [t \in Threads |-> IF t \in S THEN qp_clk1[t] ELSE qp_clk2[t]]
  /\ qp_clk1' = [t \in Threads |-> IF t \in S THEN qp.qp_clk ELSE qp_clk1[t]]
  /\ need_reclaim' = [t \in Threads |-> t \in S \/ need_reclaim[t]]
  /\ history' = [history EXCEPT
       !.spans = [t \in Threads |-> IF t \in S THEN Unwritten ELSE @[t]],
       !.early_reclaim = @ \/ \E l \in IF S = live THEN Threads ELSE S : history.spans[l] # {}]

\* qp_reap_zombie_threads, one zombie: its clocks, its log, then the list.
QpReap(t) ==
  /\ pc[QP] = "reap" /\ NextInList(qp.todo, t)
  /\ UpdateClocks({t})
  /\ qp' = [qp EXCEPT !.log = t, !.todo = @ \ {t}]
  /\ CallReclaim(QP, "reaped")
  /\ UNCHANGED <<g_wrt_clk, objects, logs, reclaim, section, lists>>

QpReaped ==
  /\ pc[QP] = "reaped"
  /\ zombies' = IF log_used(qp.log) = 0 THEN zombies \ {qp.log} ELSE zombies
  /\ qp' = [qp EXCEPT !.log = NULL]
  /\ Goto(QP, "reap")
  /\ UNCHANGED <<g_wrt_clk, objects, logs, clocks, reclaim, section, ret, live, plan, history>>

QpReapDone ==
  /\ pc[QP] = "reap" /\ qp.todo = {}
  /\ qp' = [qp EXCEPT !.todo = live]
  /\ Goto(QP, IF qp.final = 0 THEN "help" ELSE "final")
  /\ UNCHANGED <<g_wrt_clk, objects, logs, clocks, reclaim, section, ret, lists, history>>

\* qp_help_reclaim_log: a thread whose log is due; only QP makes logs due.
QpHelp(t) ==
  LET due == {u \in qp.todo \intersect live : need_reclaim[u]} IN
  /\ pc[QP] = "help" /\ NextInList(due, t)
  /\ qp' = [qp EXCEPT !.log = t, !.todo = @ \ {t}]
  /\ CallReclaim(QP, "help")
  /\ UNCHANGED <<g_wrt_clk, objects, logs, clocks, reclaim, section, lists, history>>

\* qp_check_reclaim_done; need_reclaim is cleared if it is.
QpCheck ==
  LET done == \A t \in live : ~need_reclaim[t] IN
  /\ pc[QP] = "help"
  /\ \A t \in qp.todo \intersect live : ~need_reclaim[t]
  /\ qp' = [qp EXCEPT !.log = NULL, !.todo = {}, !.reclaim_done = done,
                      !.qp_clk = IF done THEN @ ELSE 0, !.need_reclaim = @ /\ ~done]
  /\ Goto(QP, IF done THEN "may_trigger" ELSE "detect")
  /\ UNCHANGED <<g_wrt_clk, objects, logs, clocks, reclaim, section, ret, lists, history>>

\* qp_trigger_reclaim
QpTrigger ==
  /\ pc[QP] = "may_trigger"
  /\ IF qp.need_reclaim
     THEN qp' = [qp EXCEPT !.reclaim_done = FALSE, !.qp_clk = 0] /\ UpdateClocks(live)
     ELSE qp' = [qp EXCEPT !.qp_clk = 0] /\ UNCHANGED <<clocks, history>>
  /\ Goto(QP, "detect")
  /\ UNCHANGED <<g_wrt_clk, objects, logs, reclaim, section, ret, lists>>

\* mvrlu_finish, once the threads are gone: two rounds without detection.
QpStop ==
  /\ (live = {} /\ pc[QP] = "detect") \/ pc[QP] = "final"
  /\ IF qp.final < 2
     THEN /\ qp' = [qp EXCEPT !.qp_clk = g_wrt_clk, !.final = @ + 1, !.todo = zombies]
          /\ Goto(QP, "reap")
     ELSE Goto(QP, "finished") /\ UNCHANGED qp
  /\ UNCHANGED <<g_wrt_clk, objects, logs, clocks, reclaim, section, ret, lists, history>>

------------------------------------------------------------------------------
ThreadStep(t) ==
  \/ log_reclaim(t)
  \/ mvrlu_reader_lock(t) \/ log_reclaim_force(t) \/ ForceWait(t) \/ BelowHighMark(t) \/ ReadClock(t)
  \/ DerefWalk(t) \/ TryLockCas(t)
  \/ \E o \in Objects : DerefHead(t, o) \/ TryLockRead(t, o) \/ mvrlu_free(t, o)
  \/ mvrlu_reader_unlock(t) \/ MoveCopy(t) \/ MoveCas(t) \/ LoadClock(t) \/ StoreClock(t)
  \/ AdvanceClock(t) \/ ws_unlock(t) \/ AfterReclaim(t)
  \/ mvrlu_abort(t) \/ log_abort(t)
  \/ mvrlu_flush_log(t) \/ mvrlu_thread_finish(t) \/ LeaveLists(t)

QpStep ==
  \/ log_reclaim(QP)
  \/ QpReadClock \/ qp_init \/ qp_wait
  \/ QpReaped \/ QpReapDone \/ QpCheck \/ QpTrigger \/ QpStop
  \/ \E t \in Threads : QpReap(t) \/ QpHelp(t)

Terminating == (\A a \in Actors : pc[a] = "finished") /\ UNCHANGED vars

Next == (\E t \in Threads : ThreadStep(t)) \/ QpStep \/ Terminating

Spec == Init /\ [][Next]_vars

------------------------------------------------------------------------------
(***************************************************************************)
(* Properties.                                                             *)
(***************************************************************************)
Locs == {"idle", "capacity", "force_wait", "read_clock", "move", "cas",
         "store_clock", "advance", "unlock", "low_mark", "abort", "flush",
         "leave", "finished", "try_reclaim", "scan", "detach"} \union SectionLocs
QpLocs == {"detect", "qp_init", "qp_wait", "reap", "reaped", "help", "may_trigger", "final", "finished", "try_reclaim", "scan", "detach"}

Copies == [obj : Objects, type : {"copy", "const", "free"}, val : Contents,
           p_copy : Addresses \union {NULL}, wrt_clk_next : Nat]

\* Types; a thread is in one of the two lists of threads.
TypeOK ==
  /\ g_wrt_clk \in Nat
  /\ plan \in Plans
  /\ p_lock \in [Objects -> Addresses \union {NULL}]
  /\ p_copy \in [Objects -> Addresses \union {NULL}]
  /\ actual \in [Objects -> Contents] /\ released \subseteq Objects
  /\ wrt_sets \in [Threads -> Seq([wrt_clk : Nat, objs : Seq(Copies)])]
  /\ head_cnt \in [Threads -> Nat] /\ cur_wrt_set \in [Threads -> BOOLEAN]
  /\ free_ptrs \in [Threads -> SUBSET Objects]
  /\ qp_clk1 \in [Threads -> Nat] /\ qp_clk2 \in [Threads -> Nat]
  /\ need_reclaim \in [Threads -> BOOLEAN]
  /\ reclaim_lock \in [Threads -> Actors \union {NULL}]
  /\ run_cnt \in [Threads -> Nat] /\ local_clk \in [Threads -> Nat]
  /\ \A t \in Threads : pc[t] \in Locs
  /\ pc[QP] \in QpLocs
  /\ live \subseteq Threads /\ zombies \subseteq Threads \ live

CopiesOf(t, w) == {Address(t, w, i) : i \in DOMAIN wrt_sets[t][w].objs}
AllCopies == UNION {UNION {CopiesOf(t, w) : w \in DOMAIN wrt_sets[t]} : t \in Threads}

\* The committed versions of an object, and its contents at a clock.
Versions(o) ==
  {a \in AllCopies : CopyAt(a).obj = o /\ CopyAt(a).type = "copy" /\ get_wrt_clk(a) # MAX_VERSION}
Newest(S) == CHOOSE a \in S : \A b \in S : get_wrt_clk(b) <= get_wrt_clk(a)
InitContents(o) == [n |-> 0, links |-> IF o = Root THEN Objects \ {Root} ELSE {}]
ContentsAt(o, clk) ==
  LET S == {a \in Versions(o) : get_wrt_clk(a) <= clk}
  IN  IF S = {} THEN InitContents(o) ELSE CopyAt(Newest(S)).val

(* No commit was late and no log was reclaimed early: what the following    *)
(* properties assume, and the code does not guarantee.                      *)
Timely == ~history.late_commit /\ ~history.early_reclaim

\* What mvrlu_deref returned to a running section is the version of the object
\* as of the section's clock, and stays that while the section holds it: no
\* write-back overwrites an object that is being read, no log is given up and
\* no object freed under a reader, and the walk along a chain ends before the
\* copies whose space is given up.
SnapshotReads ==
  Timely => \A t \in Threads :
    /\ \A h \in held[t] : /\ h.obj \notin released
                          /\ h.ptr # ACTUAL => ~GivenUp(h.ptr)
                          /\ ValueAt(h) = ContentsAt(h.obj, local_clk[t])
    /\ pc[t] = "walk" => ~GivenUp(arg[t].ptr)

\* The latest version of an object is never lost between its log and the
\* object: whichever the chain names holds it, while write-back, detaching and
\* the commits of other threads go on.
LatestKept ==
  Timely => \A o \in Objects \ released :
    (\A t \in Committing : \A i \in DOMAIN Current(t).objs : Current(t).objs[i].obj # o)
    => IF p_copy[o] = NULL THEN actual[o] = ContentsAt(o, MAX_VERSION)
       ELSE ~GivenUp(p_copy[o]) /\ CopyAt(p_copy[o]).val = ContentsAt(o, MAX_VERSION)

\* An object is locked by the write set that lists it, and by no other: it is
\* unlocked when that write set ends, unless the write set frees the object.
LocksMatchLogs ==
  /\ \A o \in Objects : p_lock[o] # NULL =>
       LET t == p_lock[o].thread IN
       /\ p_lock[o] \in AllCopies /\ CopyAt(p_lock[o]).obj = o
       /\ \/ cur_wrt_set[t] /\ p_lock[o].ws = TailCnt(t)
          \/ CopyAt(p_lock[o]).type = "free"
  /\ \A t \in Threads : cur_wrt_set[t] =>
       \A i \in DOMAIN Current(t).objs : p_lock[Current(t).objs[i].obj] = CurrentAddress(t, i)

\* A section only locks what nobody has changed since its clock: "acquiring a
\* lock fundamentally means advancing the version".
WritesExtendSnapshot ==
  Timely => \A t \in Threads : pc[t] = "section" /\ cur_wrt_set[t] =>
    \A i \in DOMAIN Current(t).objs :
      LET o == Current(t).objs[i].obj IN ContentsAt(o, MAX_VERSION) = ContentsAt(o, local_clk[t])

\* The versions of an object form a chain of falling clocks, each copy naming
\* its successor and the successor's clock.
VersionsDescend ==
  \A o \in Objects : \A a \in Versions(o) :
    /\ CopyAt(a).wrt_clk_next < get_wrt_clk(a)
    /\ CopyAt(a).p_copy # NULL =>
         CopyAt(a).p_copy \in Versions(o) /\ get_wrt_clk(CopyAt(a).p_copy) = CopyAt(a).wrt_clk_next

\* A running section's clock is not behind the clock any log is written back
\* by: it sees the copies that log_reclaim writes over their objects ("Nobody
\* accesses the master because all threads access the copy").
QpClkIsQuiescent ==
  \A t, l \in Threads : IsRunning(t) /\ pc[t] # "read_clock" => local_clk[t] >= qp_clk1[l]
==============================================================================
