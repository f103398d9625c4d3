--------------------------------- MODULE RLU ---------------------------------
(***************************************************************************)
(* Read-Log-Update, the synchronisation layer of the LB+tree               *)
(* (lb+tree_rlu/rlu.c, rlu.h), in its fine-grained mode.                   *)
(*                                                                         *)
(* A thread reads and writes shared objects inside sections                *)
(* (rlu_reader_lock .. rlu_reader_unlock or rlu_abort).  A writer locks an *)
(* object by installing, with a CAS, a pointer to a private copy in the    *)
(* object's header; the copies live in the thread's write sets, a ring of  *)
(* logs.  A committed write set is published by rlu_sync_and_writeback,    *)
(* which advances the global writer version, waits for the sections that   *)
(* may still read the old contents, copies the log back and unlocks.       *)
(*                                                                         *)
(* One action per access to shared memory, in program order; accesses only *)
(* the thread itself can observe are merged into the preceding step.       *)
(* Memory is sequentially consistent.  An object's contents are one        *)
(* number, and a section adds one to each object it locks.                 *)
(***************************************************************************)
EXTENDS Integers, Sequences, FiniteSets

CONSTANTS
  NThreads,      \* g_rlu_cur_threads: all are registered before one starts
  Writers,       \* the threads whose sections may call rlu_try_lock
  Objects,       \* the objects handed out by rlu_alloc
  MaxWriteSets,  \* g_rlu_max_write_sets
  RingSize,      \* RLU_MAX_WRITE_SETS
  MAX_VERSION,   \* the writer_version of a thread that is not syncing
  MaxSections,   \* bound: the number of sections each thread runs
  NULL,          \* header of an unlocked object
  ACTUAL         \* a section's pointer to the object, not to a copy of it

Threads == 0 .. NThreads - 1
Slots   == 0 .. RingSize - 1

\* The assertions of rlu_init, and that the two markers are not log addresses.
LogPtrs == [thread : Threads, ws : Slots, idx : Nat \ {0}]

ASSUME ThreadsAssumption == NThreads \in Nat /\ NThreads >= 2 /\ Writers \subseteq Threads
ASSUME RingAssumption ==
  /\ RingSize \in Nat /\ RingSize >= 2
  /\ MaxWriteSets \in Nat /\ MaxWriteSets >= 1
  /\ MaxWriteSets * 2 <= RingSize
ASSUME BoundAssumption == MAX_VERSION \in Nat /\ MaxSections \in [Threads -> Nat]
ASSUME MarkerAssumption == NULL \notin LogPtrs /\ ACTUAL \notin LogPtrs /\ NULL # ACTUAL

VARIABLES
  g_rlu_writer_version, g_rlu_commit_version,
  lock,                  \* header p_obj_copy of each object: NULL or a log address
  actual,                \* contents of each object
  run_counter, local_version, writer_version,
  is_write_detected, is_steal, is_check_locks, is_sync,
  ws_head_counter, ws_wb_counter, ws_tail_counter,
  write_set,             \* obj_write_set[ws_id]: headers and copies, in order
  q_threads,             \* run_counter of a thread waited for, 0 if is_wait = 0
  pc, ret,               \* where the thread is; where its sync returns to
  new_version,           \* the value rlu_sync_and_writeback is about to store
  ws_counter, iter,      \* loop variables of the sync
  p_obj,                 \* operand of the call in progress, with the p_obj_copy read
  held,                  \* pointers the section obtained so far
  view, commits, version_race   \* history: see History

globals  == <<g_rlu_writer_version, g_rlu_commit_version>>
memory   == <<lock, actual>>
versions == <<run_counter, local_version>>
flags    == <<is_write_detected, is_steal, is_check_locks>>
logs     == <<ws_head_counter, ws_wb_counter, ws_tail_counter, write_set>>
loops    == <<q_threads, new_version, ws_counter, iter>>
section  == <<p_obj, held>>
history  == <<view, commits, version_race>>
vars == <<globals, memory, versions, writer_version, flags, is_sync, logs,
          pc, ret, loops, section, history>>

Entry    == [obj : Objects, run_counter : Nat, val : Nat]
Pointers == [obj : Objects, ptr : LogPtrs \union {ACTUAL}]

SyncLocs == {"sync_load", "sync_store", "sync_faa", "q_init", "q_wait",
             "reset_logs", "writeback", "commit"}
SectionLocs == {"section", "deref", "cas", "failed"}
ReturnLocs == {"idle", "register", "checkpoint", "finish", "finished"}
Locs == {"read_version", "read_commit"} \union ReturnLocs \union SectionLocs
          \union SyncLocs

WS_INDEX(counter) == counter % RingSize

IsOdd(n) == n % 2 = 1

InSection(t) == pc[t] \in SectionLocs

\* The log the thread's open section appends to (ws_cur_id).
CurrentSlot(t) == WS_INDEX(ws_tail_counter[t])

LogEntry(p) == write_set[p.thread][p.ws][p.idx]

Goto(t, loc) == pc' = [pc EXCEPT ![t] = loc]

------------------------------------------------------------------------------
(***************************************************************************)
(* History.  view[t] is the value each object had at the instant t's       *)
(* section read g_rlu_writer_version: the copy of a writer whose version   *)
(* had been drawn, t's own unpublished copy, else the contents.            *)
(* commits[o] counts the committed changes of o.  version_race records     *)
(* that a writer's version was no longer the successor of the global one   *)
(* when the global one was advanced.                                       *)
(***************************************************************************)
ViewOf(t) ==
  [o \in Objects |->
     IF /\ lock[o] # NULL
        /\ \/ lock[o].thread = t
           \/ writer_version[lock[o].thread] <= g_rlu_writer_version
     THEN LogEntry(lock[o]).val
     ELSE actual[o]]

NoView == [o \in Objects |-> 0]

Init ==
  /\ g_rlu_writer_version = 0
  /\ g_rlu_commit_version = 0
  /\ lock = [o \in Objects |-> NULL]
  /\ actual = [o \in Objects |-> 0]
  /\ run_counter = [t \in Threads |-> 0]
  /\ local_version = [t \in Threads |-> 0]
  /\ writer_version = [t \in Threads |-> MAX_VERSION]
  /\ is_write_detected = [t \in Threads |-> FALSE]
  /\ is_steal = [t \in Threads |-> TRUE]
  /\ is_check_locks = [t \in Threads |-> TRUE]
  /\ is_sync = [t \in Threads |-> FALSE]
  /\ ws_head_counter = [t \in Threads |-> 0]
  /\ ws_wb_counter = [t \in Threads |-> 0]
  /\ ws_tail_counter = [t \in Threads |-> 0]
  /\ write_set = [t \in Threads |-> [s \in Slots |-> <<>>]]
  /\ q_threads = [t \in Threads |-> [u \in Threads |-> 0]]
  /\ pc = [t \in Threads |-> "idle"]
  /\ ret = [t \in Threads |-> "idle"]
  /\ new_version = [t \in Threads |-> 0]
  /\ ws_counter = [t \in Threads |-> 0]
  /\ iter = [t \in Threads |-> 0]
  /\ p_obj = [t \in Threads |-> NULL]
  /\ held = [t \in Threads |-> {}]
  /\ view = [t \in Threads |-> NoView]
  /\ commits = [o \in Objects |-> 0]
  /\ version_race = FALSE

------------------------------------------------------------------------------
(***************************************************************************)
(* Entering a section                                                      *)
(***************************************************************************)

\* rlu_sync_and_writeback returns at once when no write set is in use.
StartSync(t, back) ==
  IF ws_tail_counter[t] = ws_head_counter[t]
  THEN Goto(t, back) /\ UNCHANGED ret
  ELSE Goto(t, "sync_load") /\ ret' = [ret EXCEPT ![t] = back]

rlu_sync_checkpoint(t, back) ==
  IF is_sync[t]
  THEN StartSync(t, back)
  ELSE Goto(t, back) /\ UNCHANGED ret

RegisterThread(t) ==
  /\ pc[t] = "register"
  /\ run_counter' = [run_counter EXCEPT ![t] = @ + 1]
  /\ Goto(t, "read_version")
  /\ UNCHANGED <<globals, memory, local_version, writer_version, flags, is_sync, logs,
                 ret, loops, section, history>>

rlu_reader_lock(t) ==
  /\ pc[t] = "idle"
  /\ run_counter[t] < 2 * MaxSections[t]
  /\ rlu_sync_checkpoint(t, "register")
  /\ UNCHANGED <<globals, memory, versions, writer_version, flags, is_sync, logs,
                 loops, section, history>>

ReadWriterVersion(t) ==
  /\ pc[t] = "read_version"
  /\ local_version' = [local_version EXCEPT ![t] = g_rlu_writer_version]
  /\ view' = [view EXCEPT ![t] = ViewOf(t)]
  /\ Goto(t, "read_commit")
  /\ UNCHANGED <<globals, memory, run_counter, writer_version, flags, is_sync, logs, ret, loops, section, commits, version_race>>

\* With no sync in progress there is nothing to steal ...
Quiet(t) == local_version[t] = g_rlu_commit_version

\* Mutant of NoLocksMatter: the thread's own unpublished write sets are forgotten.
NoOthersLocks(t) == Quiet(t)

\* ... and a thread without write sets of its own need not look at locks at all.
NoLocksMatter(t) == Quiet(t) /\ ws_tail_counter[t] = ws_wb_counter[t]

ReadCommitVersion(t) ==
  /\ pc[t] = "read_commit"
  /\ is_steal' = [is_steal EXCEPT ![t] = ~Quiet(t)]
  /\ is_check_locks' = [is_check_locks EXCEPT ![t] = ~NoLocksMatter(t)]
  /\ Goto(t, "section")
  /\ UNCHANGED <<globals, memory, versions, writer_version, is_write_detected, is_sync,
                 logs, ret, loops, section, history>>

------------------------------------------------------------------------------
(***************************************************************************)
(* Reading: RLU_DEREF and rlu_deref_slow_path                              *)
(***************************************************************************)
Hold(t, o, p) == held' = [held EXCEPT ![t] = @ \union {[obj |-> o, ptr |-> p]}]

\* The section gets the object itself: locks are not checked, or it is not
\* locked, or it is locked by another thread and stealing is off.
DerefActual(t, o) ==
  /\ pc[t] = "section"
  /\ \/ ~is_check_locks[t]
     \/ lock[o] = NULL
     \/ lock[o] # NULL /\ lock[o].thread # t /\ ~is_steal[t]
  /\ Hold(t, o, ACTUAL)
  /\ UNCHANGED <<globals, memory, versions, writer_version, flags, is_sync, logs,
                 pc, ret, loops, p_obj, history>>

\* The object is locked by this thread: by this section or an earlier one.
DerefOwnCopy(t, o) ==
  /\ pc[t] = "section"
  /\ is_check_locks[t]
  /\ lock[o] # NULL /\ lock[o].thread = t
  /\ Hold(t, o, lock[o])
  /\ UNCHANGED <<globals, memory, versions, writer_version, flags, is_sync, logs,
                 pc, ret, loops, p_obj, history>>

\* Another thread's copy was found; the owner's version is read next.
DerefLocked(t, o) ==
  /\ pc[t] = "section"
  /\ is_check_locks[t] /\ is_steal[t]
  /\ lock[o] # NULL /\ lock[o].thread # t
  /\ p_obj' = [p_obj EXCEPT ![t] = [obj |-> o, ptr |-> lock[o]]]
  /\ Goto(t, "deref")
  /\ UNCHANGED <<globals, memory, versions, writer_version, flags, is_sync, logs,
                 ret, loops, held, history>>

\* Mutant of CanSteal: the version comparison is off by one.
CanStealTooEarly(t) == writer_version[p_obj[t].ptr.thread] <= local_version[t] + 1

CanSteal(t) == writer_version[p_obj[t].ptr.thread] <= local_version[t]

DerefSteal(t) ==
  /\ pc[t] = "deref"
  /\ Hold(t, p_obj[t].obj, IF CanSteal(t) THEN p_obj[t].ptr ELSE ACTUAL)
  /\ p_obj' = [p_obj EXCEPT ![t] = NULL]
  /\ Goto(t, "section")
  /\ UNCHANGED <<globals, memory, versions, writer_version, flags, is_sync, logs,
                 ret, loops, history>>

------------------------------------------------------------------------------
(***************************************************************************)
(* Writing: rlu_try_lock.  A pointer to a copy is first mapped back to the *)
(* object it copies, so the operand is the object.  Where the call fails,  *)
(* every caller aborts.                                                    *)
(***************************************************************************)
\* Locked by this thread: by this section, or by an earlier one whose write
\* set is not published yet.
TryLockOwn(t, o) ==
  /\ pc[t] = "section" /\ t \in Writers
  /\ lock[o] # NULL /\ lock[o].thread = t
  /\ IF LogEntry(lock[o]).run_counter = run_counter[t]
     THEN UNCHANGED <<pc, is_sync>>
     ELSE is_sync' = [is_sync EXCEPT ![t] = TRUE] /\ Goto(t, "failed")
  /\ UNCHANGED <<globals, memory, versions, writer_version, flags, logs, ret, loops,
                 section, history>>

\* rlu_send_sync_request to the owner, and a sync of this thread.
TryLockBusy(t, o) ==
  /\ pc[t] = "section" /\ t \in Writers
  /\ lock[o] # NULL /\ lock[o].thread # t
  /\ is_sync' = [is_sync EXCEPT ![t] = TRUE, ![lock[o].thread] = TRUE]
  /\ Goto(t, "failed")
  /\ UNCHANGED <<globals, memory, versions, writer_version, flags, logs, ret, loops,
                 section, history>>

\* Not locked when first looked at; the CAS comes later.
TryLockFree(t, o) ==
  /\ pc[t] = "section" /\ t \in Writers
  /\ lock[o] = NULL
  /\ is_write_detected' = [is_write_detected EXCEPT ![t] = TRUE]
  /\ is_check_locks' = [is_check_locks EXCEPT ![t] = is_write_detected[t] => @]
  /\ p_obj' = [p_obj EXCEPT ![t] = [obj |-> o, ptr |-> ACTUAL]]
  /\ Goto(t, "cas")
  /\ UNCHANGED <<globals, memory, versions, writer_version, is_steal, is_sync, logs,
                 ret, loops, held, history>>

\* Mutant of NewCopyPtr: the address is taken before the header is appended.
StaleCopyPtr(t) ==
  [thread |-> t, ws |-> CurrentSlot(t), idx |-> Len(write_set[t][CurrentSlot(t)])]

\* Where rlu_add_ws_obj_header_to_write_set puts the next copy.
NewCopyPtr(t) ==
  [thread |-> t, ws |-> CurrentSlot(t), idx |-> Len(write_set[t][CurrentSlot(t)]) + 1]

\* The CAS and, once it succeeded, the copy of the object into the log and the
\* section's change of that copy: no other thread may look at either yet.
CasSucceeds(t) ==
  LET o == p_obj[t].obj IN
  /\ pc[t] = "cas"
  /\ lock[o] = NULL
  /\ lock' = [lock EXCEPT ![o] = NewCopyPtr(t)]
  /\ write_set' = [write_set EXCEPT ![t][CurrentSlot(t)] =
       Append(@, [obj |-> o, run_counter |-> run_counter[t], val |-> actual[o] + 1])]
  /\ p_obj' = [p_obj EXCEPT ![t] = NULL]
  /\ Goto(t, "section")
  /\ UNCHANGED <<globals, actual, versions, writer_version, flags, is_sync,
                 ws_head_counter, ws_wb_counter, ws_tail_counter, ret, loops, held, history>>

CasFails(t) ==
  /\ pc[t] = "cas"
  /\ lock[p_obj[t].obj] # NULL
  /\ p_obj' = [p_obj EXCEPT ![t] = NULL]
  /\ Goto(t, "failed")
  /\ UNCHANGED <<globals, memory, versions, writer_version, flags, is_sync, logs,
                 ret, loops, held, history>>

------------------------------------------------------------------------------
(***************************************************************************)
(* Leaving a section                                                       *)
(***************************************************************************)
\* Mutant of UnregisteredCounter: the counter goes back to its old value.
CounterGoesBack(t) == run_counter[t] - 1

UnregisteredCounter(t) == run_counter[t] + 1

\* The flags get the values rlu_reset gives them before they are used again.
Unregister(t) ==
  /\ run_counter' = [run_counter EXCEPT ![t] = UnregisteredCounter(t)]
  /\ is_write_detected' = [is_write_detected EXCEPT ![t] = FALSE]
  /\ is_steal' = [is_steal EXCEPT ![t] = TRUE]
  /\ is_check_locks' = [is_check_locks EXCEPT ![t] = TRUE]
  /\ held' = [held EXCEPT ![t] = {}]
  /\ view' = [view EXCEPT ![t] = NoView]

LogObjects(t) ==
  LET log == write_set[t][CurrentSlot(t)] IN {log[i].obj : i \in DOMAIN log}

MustSync(t) ==
  \/ WS_INDEX(ws_tail_counter[t] + 1) = WS_INDEX(ws_head_counter[t])
  \/ ws_tail_counter[t] + 1 - ws_wb_counter[t] >= MaxWriteSets

\* rlu_reader_unlock of a section that wrote nothing.
UnlockReader(t) ==
  /\ pc[t] = "section"
  /\ ~is_write_detected[t]
  /\ Unregister(t)
  /\ Goto(t, "checkpoint")
  /\ UNCHANGED <<globals, memory, local_version, writer_version, is_sync, logs, ret,
                 loops, p_obj, commits, version_race>>

\* rlu_reader_unlock with rlu_commit_write_set: the log becomes a committed
\* write set, published now or when enough of them have accumulated.
UnlockWriter(t) ==
  /\ pc[t] = "section"
  /\ is_write_detected[t]
  /\ Unregister(t)
  /\ ws_tail_counter' = [ws_tail_counter EXCEPT ![t] = @ + 1]
  /\ commits' = [o \in Objects |->
       IF o \in LogObjects(t) THEN commits[o] + 1 ELSE commits[o]]
  /\ IF MustSync(t)
     THEN Goto(t, "sync_load") /\ ret' = [ret EXCEPT ![t] = "checkpoint"]
     ELSE Goto(t, "checkpoint") /\ UNCHANGED ret
  /\ UNCHANGED <<globals, memory, local_version, writer_version, is_sync,
                 ws_head_counter, ws_wb_counter, write_set, loops, p_obj, version_race>>

\* Mutant of DiscardLog: the objects stay locked.
DiscardWithoutUnlock(t) ==
  /\ write_set' = [write_set EXCEPT ![t][CurrentSlot(t)] = <<>>]
  /\ UNCHANGED lock

\* Mutant of DiscardLog: the log is not emptied.
DiscardWithoutReset(t) ==
  /\ lock' = [o \in Objects |-> IF o \in LogObjects(t) THEN NULL ELSE lock[o]]
  /\ UNCHANGED write_set

\* rlu_unlock_objs and rlu_reset_write_set of the current log.  The separate
\* stores of the loop only release locks nobody waits for.
DiscardLog(t) ==
  /\ lock' = [o \in Objects |-> IF o \in LogObjects(t) THEN NULL ELSE lock[o]]
  /\ write_set' = [write_set EXCEPT ![t][CurrentSlot(t)] = <<>>]

rlu_abort(t) ==
  /\ pc[t] \in {"section", "failed"}
  /\ Unregister(t)
  /\ IF is_write_detected[t] THEN DiscardLog(t) ELSE UNCHANGED <<lock, write_set>>
  /\ Goto(t, "checkpoint")
  /\ UNCHANGED <<globals, actual, local_version, writer_version, is_sync,
                 ws_head_counter, ws_wb_counter, ws_tail_counter, ret, loops, p_obj,
                 commits, version_race>>

Checkpoint(t) ==
  /\ pc[t] = "checkpoint"
  /\ rlu_sync_checkpoint(t, "idle")
  /\ UNCHANGED <<globals, memory, versions, writer_version, flags, is_sync, logs,
                 loops, section, history>>

------------------------------------------------------------------------------
(***************************************************************************)
(* rlu_sync_and_writeback                                                  *)
(***************************************************************************)

\* A loop over the other threads, in th_id order.
FirstOther(t) == IF t = 0 THEN 1 ELSE 0

NextOther(t, loc, done) ==
  LET u == IF iter[t] + 1 = t THEN t + 1 ELSE iter[t] + 1 IN
  IF u < NThreads
  THEN iter' = [iter EXCEPT ![t] = u] /\ Goto(t, loc)
  ELSE iter' = [iter EXCEPT ![t] = FirstOther(t)] /\ Goto(t, done)

\* The version is computed from the global one, stored, and only then is the
\* global one advanced: three accesses, not one.
SyncLoadVersion(t) ==
  /\ pc[t] = "sync_load"
  /\ new_version' = [new_version EXCEPT ![t] = g_rlu_writer_version + 1]
  /\ Goto(t, "sync_store")
  /\ UNCHANGED <<globals, memory, versions, writer_version, flags, is_sync, logs, ret,
                 q_threads, ws_counter, iter, section, history>>

SyncStoreVersion(t) ==
  /\ pc[t] = "sync_store"
  /\ writer_version' = [writer_version EXCEPT ![t] = new_version[t]]
  /\ Goto(t, "sync_faa")
  /\ UNCHANGED <<globals, memory, versions, flags, is_sync, logs, ret,
                 loops, section, history>>

SyncAdvanceGlobal(t) ==
  /\ pc[t] = "sync_faa"
  /\ g_rlu_writer_version' = g_rlu_writer_version + 1
  /\ new_version' = [new_version EXCEPT ![t] = 0]
  /\ iter' = [iter EXCEPT ![t] = FirstOther(t)]
  /\ version_race' = (version_race \/
       \E u \in Threads \ {t} : pc[u] \in {"sync_store", "sync_faa"})
  /\ Goto(t, "q_init")
  /\ UNCHANGED <<g_rlu_commit_version, memory, versions, writer_version, flags, is_sync,
                 logs, ret, q_threads, ws_counter, section, view, commits>>

\* Mutant of IsRunning: waits for the threads outside sections.
IsIdle(u) == ~IsOdd(run_counter[u])

IsRunning(u) == IsOdd(run_counter[u])

rlu_init_quiescence(t) ==
  LET u == iter[t] IN
  /\ pc[t] = "q_init"
  /\ q_threads' = [q_threads EXCEPT ![t][u] =
       IF IsRunning(u) THEN run_counter[u] ELSE 0]
  /\ NextOther(t, "q_init", "q_wait")
  /\ UNCHANGED <<globals, memory, versions, writer_version, flags, is_sync, logs, ret,
                 new_version, ws_counter, section, history>>

\* Mutant of IsQuiescent: the version limit is off by one.
IsQuiescentOffByOne(t, u) ==
  \/ q_threads[t][u] = 0
  \/ q_threads[t][u] # run_counter[u]
  \/ local_version[u] + 1 >= writer_version[t]

\* Mutant of IsQuiescent: the end of the section goes unnoticed.
IsQuiescentByVersion(t, u) ==
  \/ q_threads[t][u] = 0
  \/ local_version[u] >= writer_version[t]

\* A section is waited for until it ends or turns out to have started after
\* the version was drawn.
IsQuiescent(t, u) ==
  \/ q_threads[t][u] = 0
  \/ q_threads[t][u] # run_counter[u]
  \/ local_version[u] >= writer_version[t]

rlu_wait_for_quiescence(t) ==
  LET u == iter[t] IN
  /\ pc[t] = "q_wait"
  /\ IsQuiescent(t, u)
  /\ q_threads' = [q_threads EXCEPT ![t][u] = 0]
  /\ NextOther(t, "q_wait", "reset_logs")
  /\ UNCHANGED <<globals, memory, versions, writer_version, flags, is_sync, logs, ret,
                 new_version, ws_counter, section, history>>

\* The write sets written back by the previous sync.
ReusableSets(t) == ws_head_counter[t] .. ws_wb_counter[t] - 1

\* Mutant of NewHead: the head of the ring stays behind.
OldHead(t) == ws_head_counter[t]

NewHead(t) == ws_wb_counter[t]

ResetWriteSets(t) ==
  /\ pc[t] = "reset_logs"
  /\ write_set' = [write_set EXCEPT ![t] = [s \in Slots |->
       IF \E c \in ReusableSets(t) : s = WS_INDEX(c) THEN <<>> ELSE @[s]]]
  /\ ws_head_counter' = [ws_head_counter EXCEPT ![t] = NewHead(t)]
  /\ ws_counter' = [ws_counter EXCEPT ![t] = ws_wb_counter[t]]
  /\ iter' = [iter EXCEPT ![t] = 1]
  /\ Goto(t, "writeback")
  /\ UNCHANGED <<globals, memory, versions, writer_version, flags, is_sync,
                 ws_wb_counter, ws_tail_counter, ret, q_threads, new_version,
                 section, history>>

WritebackLog(t) == write_set[t][WS_INDEX(ws_counter[t])]

\* One object is copied back and unlocked; then the next one of the log, or the
\* next log.  A committed log is never empty.
WritebackObject(t) ==
  LET e    == WritebackLog(t)[iter[t]]
      last == iter[t] = Len(WritebackLog(t))
  IN
  /\ pc[t] = "writeback"
  /\ ws_counter[t] < ws_tail_counter[t]
  /\ iter[t] \in DOMAIN WritebackLog(t)
  /\ actual' = [actual EXCEPT ![e.obj] = e.val]
  /\ lock' = [lock EXCEPT ![e.obj] = NULL]
  /\ iter' = [iter EXCEPT ![t] = IF last THEN 1 ELSE @ + 1]
  /\ ws_counter' = [ws_counter EXCEPT ![t] = IF last THEN @ + 1 ELSE @]
  /\ UNCHANGED <<globals, versions, writer_version, flags, is_sync, logs, pc, ret,
                 q_threads, new_version, section, history>>

WritebackDone(t) ==
  /\ pc[t] = "writeback"
  /\ ws_counter[t] = ws_tail_counter[t]
  /\ ws_wb_counter' = [ws_wb_counter EXCEPT ![t] = ws_tail_counter[t]]
  /\ writer_version' = [writer_version EXCEPT ![t] = MAX_VERSION]
  /\ ws_counter' = [ws_counter EXCEPT ![t] = 0]
  /\ iter' = [iter EXCEPT ![t] = 0]
  /\ Goto(t, "commit")
  /\ UNCHANGED <<globals, memory, versions, flags, is_sync, ws_head_counter,
                 ws_tail_counter, write_set, ret, q_threads, new_version, section,
                 history>>

SyncCommit(t) ==
  /\ pc[t] = "commit"
  /\ g_rlu_commit_version' = g_rlu_commit_version + 1
  /\ is_sync' = [is_sync EXCEPT ![t] = FALSE]
  /\ Goto(t, ret[t])
  /\ ret' = [ret EXCEPT ![t] = "idle"]
  /\ UNCHANGED <<g_rlu_writer_version, memory, versions, writer_version, flags, logs,
                 loops, section, history>>

\* Mutant of AfterFinishSync: one sync only.
AfterOnlySync(t) == "finished"

AfterFinishSync(t) == IF pc[t] = "idle" THEN "finish" ELSE "finished"

\* main calls rlu_thread_finish for one thread after the other when all have
\* returned, here after MaxSections sections.  It syncs twice: the first sync
\* writes back, the second resets the logs.
rlu_thread_finish(t) ==
  /\ pc[t] \in {"idle", "finish"}
  /\ \A u \in Threads :
       \/ pc[u] = "finished" /\ u < t
       \/ pc[u] = "idle" /\ u > t /\ run_counter[u] = 2 * MaxSections[u]
       \/ u = t /\ run_counter[u] = 2 * MaxSections[u]
  /\ StartSync(t, AfterFinishSync(t))
  /\ UNCHANGED <<globals, memory, versions, writer_version, flags, is_sync, logs,
                 loops, section, history>>

------------------------------------------------------------------------------
EnterSection(t) ==
  rlu_reader_lock(t) \/ RegisterThread(t) \/ ReadWriterVersion(t) \/ ReadCommitVersion(t)

Deref(t, o) ==
  DerefActual(t, o) \/ DerefOwnCopy(t, o) \/ DerefLocked(t, o)

TryLock(t, o) == TryLockOwn(t, o) \/ TryLockBusy(t, o) \/ TryLockFree(t, o)

LeaveSection(t) == UnlockReader(t) \/ UnlockWriter(t) \/ rlu_abort(t)

Sync(t) ==
  \/ SyncLoadVersion(t) \/ SyncStoreVersion(t) \/ SyncAdvanceGlobal(t)
  \/ rlu_init_quiescence(t) \/ rlu_wait_for_quiescence(t)
  \/ ResetWriteSets(t)
  \/ WritebackObject(t) \/ WritebackDone(t)
  \/ SyncCommit(t)

ThreadStep(t) ==
  \/ EnterSection(t)
  \/ \E o \in Objects : Deref(t, o) \/ TryLock(t, o)
  \/ DerefSteal(t) \/ CasSucceeds(t) \/ CasFails(t)
  \/ LeaveSection(t)
  \/ Checkpoint(t)
  \/ Sync(t)
  \/ rlu_thread_finish(t)

AllFinished == \A t \in Threads : pc[t] = "finished"

Terminated == AllFinished /\ UNCHANGED vars

Next == (\E t \in Threads : ThreadStep(t)) \/ Terminated

Spec == Init /\ [][Next]_vars

(***************************************************************************)
(* A running thread keeps executing, and a section, a bounded traversal of *)
(* the tree, ends however often it goes through rlu_deref_slow_path.       *)
(***************************************************************************)
Fairness ==
  \A t \in Threads : WF_vars(ThreadStep(t)) /\ SF_vars(LeaveSection(t))

FairSpec == Spec /\ Fairness
------------------------------------------------------------------------------
(***************************************************************************)
(* Properties                                                              *)
(***************************************************************************)

MemoryTypes ==
  /\ g_rlu_writer_version \in Nat /\ g_rlu_commit_version \in Nat
  /\ lock \in [Objects -> LogPtrs \union {NULL}]
  /\ actual \in [Objects -> Nat]
  /\ commits \in [Objects -> Nat]
  /\ version_race \in BOOLEAN

ThreadTypes ==
  /\ run_counter \in [Threads -> Nat]
  /\ local_version \in [Threads -> Nat]
  /\ writer_version \in [Threads -> Nat] /\ new_version \in [Threads -> Nat]
  /\ is_write_detected \in [Threads -> BOOLEAN] /\ is_steal \in [Threads -> BOOLEAN]
  /\ is_check_locks \in [Threads -> BOOLEAN] /\ is_sync \in [Threads -> BOOLEAN]
  /\ q_threads \in [Threads -> [Threads -> Nat]]
  /\ ws_counter \in [Threads -> Nat] /\ iter \in [Threads -> Nat]
  /\ held \in [Threads -> SUBSET Pointers]

LogTypes ==
  /\ ws_head_counter \in [Threads -> Nat] /\ ws_wb_counter \in [Threads -> Nat]
  /\ ws_tail_counter \in [Threads -> Nat]
  /\ write_set \in [Threads -> [Slots -> Seq(Entry)]]

ControlTypes ==
  /\ pc \in [Threads -> Locs] /\ ret \in [Threads -> ReturnLocs]
  /\ p_obj \in [Threads -> Pointers \union {NULL}]
  /\ \A t \in Threads : pc[t] \in {"deref", "cas"} => p_obj[t] \in Pointers

\* Every variable of the program keeps its shape, a call in progress has its
\* operand, and a sync returns to a place outside sections.
TypeOK == MemoryTypes /\ ThreadTypes /\ LogTypes /\ ControlTypes

\* A pointer leads into a log that still describes that object.
Names(o, p) ==
  /\ p.idx \in DOMAIN write_set[p.thread][p.ws]
  /\ LogEntry(p).obj = o

InCurrentLog(t, p) ==
  /\ InSection(t) /\ is_write_detected[t]
  /\ p.thread = t /\ p.ws = CurrentSlot(t)

\* Entry i of t's write set c belongs to t's open section or to a committed
\* write set, and is not written back yet.
OwnedEntry(t, c, i) ==
  /\ c < ws_tail_counter[t] \/ is_write_detected[t]
  /\ pc[t] = "writeback" =>
       c > ws_counter[t] \/ (c = ws_counter[t] /\ i >= iter[t])

\* Headers and logs agree: a locked object's header names its entry in the
\* owner's log, and every entry not written back yet has its object locked by
\* it.  These are the assertions of the write-back and unlock loops
\* (rlu.c:345, rlu.c:405).
LocksMatchLogs ==
  /\ \A o \in Objects : lock[o] # NULL => Names(o, lock[o])
  /\ \A t \in Threads : \A c \in ws_wb_counter[t] .. ws_tail_counter[t] :
       \A i \in DOMAIN write_set[t][WS_INDEX(c)] :
         OwnedEntry(t, c, i) =>
           lock[write_set[t][WS_INDEX(c)][i].obj] =
             [thread |-> t, ws |-> WS_INDEX(c), idx |-> i]

\* The run counter in a log header tells the open section's own locks from
\* those of earlier, unpublished sections of the same thread: rlu_try_lock
\* hands out a copy for writing only in the first case (rlu.c:878).
RunCounterTellsSections ==
  \A t \in Threads, o \in Objects :
    InSection(t) /\ lock[o] # NULL /\ lock[o].thread = t =>
      (LogEntry(lock[o]).run_counter = run_counter[t] <=> InCurrentLog(t, lock[o]))

\* A thread outside a sync has a free, empty log for its next section: the
\* ring never wraps onto a write set still in use (rlu.c:608-609).
FreshLog ==
  \A t \in Threads : pc[t] \notin SyncLocs =>
    /\ \A c \in ws_head_counter[t] .. ws_tail_counter[t] - 1 : WS_INDEX(c) # CurrentSlot(t)
    /\ ~is_write_detected[t] => write_set[t][CurrentSlot(t)] = <<>>

\* When a thread writes back, no other thread is in a section that began
\* before the thread's version was drawn: the grace period is complete
\* (rlu_init_quiescence, rlu_wait_for_quiescence).
GracePeriod ==
  \A t, u \in Threads :
    pc[t] \in {"reset_logs", "writeback"} /\ u # t
      /\ (InSection(u) \/ pc[u] = "read_commit")
      => local_version[u] >= writer_version[t]

\* A log that a section stole a copy from is not reset while the section is
\* open: "The other thread is going to wait for this thread to finish before
\* reusing the write-set log" (rlu.c:839).
StolenLogNotReused ==
  \A t \in Threads : InSection(t) =>
    \A h \in held[t] : h.ptr # ACTUAL => Names(h.obj, h.ptr)

ValueAt(h) == IF h.ptr = ACTUAL THEN actual[h.obj] ELSE LogEntry(h.ptr).val

\* Through every pointer it got, a section reads the object as it was when
\* the section began, at any time until it ends, whoever writes back
\* meanwhile.  Its own locked copies are excepted, and so are executions in
\* which two syncs drew their versions at the same time.
SnapshotReads ==
  ~version_race =>
    \A t \in Threads : InSection(t) =>
      \A h \in held[t] :
        h.ptr = ACTUAL \/ ~InCurrentLog(t, h.ptr) => ValueAt(h) = view[t][h.obj]

\* A section that locked an object changes the version its snapshot shows,
\* so what it decided from reading is still true of what it writes.
WritesExtendSnapshot ==
  ~version_race =>
    \A t \in Threads, o \in Objects :
      lock[o] # NULL /\ InCurrentLog(t, lock[o]) =>
        LogEntry(lock[o]).val = view[t][o] + 1

\* The newest committed contents of an object, wherever they are.
Committed(o) ==
  IF lock[o] = NULL THEN actual[o]
  ELSE IF InCurrentLog(lock[o].thread, lock[o]) THEN LogEntry(lock[o]).val - 1
  ELSE LogEntry(lock[o]).val

\* No committed change is lost and no aborted one survives, whichever way
\* syncs, aborts and reuse of logs interleave.
NoLostUpdate == \A o \in Objects : Committed(o) = commits[o]

\* A finished thread has written back and unlocked all it committed, and its
\* logs are empty (rlu_thread_finish syncs twice).
FinishedIsClean ==
  \A t \in Threads : pc[t] = "finished" =>
    /\ \A o \in Objects : lock[o] # NULL => lock[o].thread # t
    /\ \A s \in Slots : write_set[t][s] = <<>>

\* A sync ends: writers never wait for each other in a circle, and the
\* sections they wait for end.
SyncTerminates ==
  \A t \in Threads : pc[t] \in SyncLocs ~> pc[t] \notin SyncLocs
==============================================================================
