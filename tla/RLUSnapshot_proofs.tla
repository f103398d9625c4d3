-------------------------- MODULE RLUSnapshot_proofs --------------------------
(***************************************************************************)
(* Sections read snapshots, and write what extends them, for every number  *)
(* of threads, objects, write sets, ring size and number of sections, as   *)
(* long as versions do not reach MAX_VERSION and no two syncs draw their   *)
(* versions at the same time.                                              *)
(*                                                                         *)
(* SnapshotReads speaks of the pointers a section holds.  The invariant    *)
(* says, of every object and every section, whether the section's snapshot *)
(* has the object or the copy that locks it, and what the two counters     *)
(* compared in rlu_reader_lock, the flags they set and the pointers not    *)
(* decided on yet say of that.                                             *)
(***************************************************************************)
EXTENDS RLULocks_proofs, FiniteSetTheorems

\* The syncs that have advanced the global version and not the commit version.
Advanced  == Publishing \ {"sync_faa"}
SyncsOpen == {u \in Threads : pc[u] \in Advanced \union {"commit"}}

\* Those of them that t's section is not behind.  A sync at "commit" has waited
\* for every section that is behind it.
Counted(t) ==
  {u \in Threads : \/ pc[u] = "commit"
                   \/ pc[u] \in Advanced /\ writer_version[u] <= local_version[t]}

CountInv == g_rlu_writer_version = g_rlu_commit_version + Cardinality(SyncsOpen)

CountBound(t) ==
  Reading(t) => g_rlu_commit_version + Cardinality(Counted(t)) <= local_version[t]

\* Without a race, the version drawn is the next one until it is the global one.
Undisturbed(u) ==
  /\ pc[u] = "sync_store" => new_version[u] = g_rlu_writer_version + 1
  /\ pc[u] = "sync_faa" => writer_version[u] = g_rlu_writer_version + 1

\* Whether t's snapshot has the copy that locks o.
Visible(t, o) ==
  IF lock[o].thread = t THEN ~InCurrentLog(t, lock[o]) ELSE MayBeStolen(lock[o].thread, t)

Shown(t, o) == IF lock[o] # NULL /\ Visible(t, o) THEN LogEntry(lock[o]).val ELSE actual[o]

SnapshotOf(t) == Reading(t) => \A o \in Objects : view[t][o] = Shown(t, o)

\* A section that does not steal has nothing to steal, and one that does not
\* look at locks has locked nothing either.
NothingToSteal(t) == \A u \in Threads \ {t} : ~MayBeStolen(u, t)

Flags(t) ==
  InSection(t) =>
    /\ ~is_steal[t] => NothingToSteal(t)
    /\ ~is_check_locks[t] =>
         /\ NothingToSteal(t)
         /\ ~is_write_detected[t] /\ ws_tail_counter[t] = ws_wb_counter[t]

\* The copy a section found but has not decided on: unless it is still the one
\* to steal, the object has caught up with the snapshot.
PendingView(t) ==
  pc[t] = "deref" =>
    LET p == p_obj[t].ptr
        o == p_obj[t].obj
    IN
    /\ actual[o] = view[t][o] \/ (MayBeStolen(p.thread, t) /\ lock[o] = p)
    /\ MayBeStolen(p.thread, t) => LogEntry(p).val = view[t][o]

HeldView(t, h) ==
  h.ptr = ACTUAL \/ ~InCurrentLog(t, h.ptr) => ValueAt(h) = view[t][h.obj]

SnapshotInv(t) ==
  /\ CountBound(t) /\ SnapshotOf(t) /\ Flags(t) /\ PendingView(t)
  /\ \A h \in held[t] : HeldView(t, h)

SnapInv ==
  /\ DOMAIN view = Threads /\ CountInv
  /\ ~version_race => \A t \in Threads : Undisturbed(t) /\ SnapshotInv(t)

(***************************************************************************)
(* Sets of threads.                                                        *)
(***************************************************************************)
LEMMA ThreadSets ==
  ASSUME NEW S \in SUBSET Threads
  PROVE  IsFiniteSet(S) /\ Cardinality(S) \in Nat
<1>1. IsFiniteSet(Threads)
  BY FS_Interval, ThreadsAssumption DEF Threads
<1>2. IsFiniteSet(S)
  BY <1>1, FS_Subset
<1>3. QED
  BY <1>2, FS_CardinalityType

\* One thread more in a set of threads.
LEMMA OneMore ==
  ASSUME NEW S \in SUBSET Threads, NEW T \in SUBSET Threads, NEW a \in Threads,
         a \notin S, T = S \union {a}
  PROVE  Cardinality(T) = Cardinality(S) + 1
  BY ThreadSets, FS_AddElement

\* One thread less.
LEMMA OneLess ==
  ASSUME NEW S \in SUBSET Threads, NEW T \in SUBSET Threads, NEW a \in Threads,
         a \in S, T = S \ {a}
  PROVE  Cardinality(T) = Cardinality(S) - 1
  BY ThreadSets, FS_RemoveElement

\* At first nobody reads, and no version was given out.
LEMMA InitSnapInv == Init => SnapInv
<1> SUFFICES ASSUME Init PROVE SnapInv
  OBVIOUS
<1>1. SyncsOpen = {}
  BY DEF Init, SyncsOpen, Advanced, Publishing
<1>2. CountInv
  BY <1>1, FS_EmptySet DEF Init, CountInv
<1>3. \A t \in Threads : Undisturbed(t) /\ SnapshotInv(t)
  BY DEF Init, Undisturbed, SnapshotInv, CountBound, SnapshotOf, Flags, PendingView, Reading,
         InSection, SectionLocs
<1>4. DOMAIN view = Threads
  BY DEF Init
<1>5. QED
  BY <1>2, <1>3, <1>4 DEF SnapInv

(***************************************************************************)
(* The version counters.                                                   *)
(***************************************************************************)

\* The steps that count no sync.
LEMMA UncountedStep ==
  ASSUME TypeOK, NEW a \in Threads, ThreadStep(a),
         ~SyncAdvanceGlobal(a), ~WritebackDone(a), ~SyncCommit(a)
  PROVE  /\ UNCHANGED <<g_rlu_writer_version, g_rlu_commit_version, version_race>>
         /\ pc'[a] \in Advanced <=> pc[a] \in Advanced
         /\ pc[a] # "commit" /\ pc'[a] # "commit"
         /\ pc[a] \in Advanced => writer_version'[a] = writer_version[a]
<1>0. pc \in [Threads -> Locs] /\ writer_version \in [Threads -> Nat]
  BY Types, VersionTypes
<1> DEFINE Goal ==
      /\ UNCHANGED <<g_rlu_writer_version, g_rlu_commit_version, version_race>>
      /\ pc'[a] \in Advanced <=> pc[a] \in Advanced
      /\ pc[a] # "commit" /\ pc'[a] # "commit"
      /\ pc[a] \in Advanced => writer_version'[a] = writer_version[a]
<1>1. ASSUME EnterSection(a) PROVE Goal
  BY <1>0, <1>1
     DEF EnterSection, rlu_reader_lock, RegisterThread, ReadWriterVersion, ReadCommitVersion,
         rlu_sync_checkpoint, StartSync, Goto, globals, history, Advanced, Publishing
<1>2. ASSUME NEW o \in Objects, Deref(a, o) PROVE Goal
  BY <1>0, <1>2
     DEF Deref, DerefActual, DerefOwnCopy, DerefLocked, Goto, globals, history, Advanced,
         Publishing
<1>3. ASSUME NEW o \in Objects, TryLock(a, o) PROVE Goal
  BY <1>0, <1>3
     DEF TryLock, TryLockOwn, TryLockBusy, TryLockFree, Goto, globals, history, Advanced,
         Publishing
<1>4. ASSUME DerefSteal(a) \/ CasSucceeds(a) \/ CasFails(a) PROVE Goal
  BY <1>0, <1>4
     DEF DerefSteal, CasSucceeds, CasFails, Goto, globals, history, Advanced, Publishing
<1>5. ASSUME LeaveSection(a) PROVE Goal
  BY <1>0, <1>5
     DEF LeaveSection, UnlockReader, UnlockWriter, rlu_abort, Goto, globals, Advanced, Publishing
<1>6. ASSUME Checkpoint(a) \/ rlu_thread_finish(a) PROVE Goal
  BY <1>0, <1>6
     DEF Checkpoint, rlu_thread_finish, rlu_sync_checkpoint, StartSync, AfterFinishSync, Goto,
         globals, history, Advanced, Publishing
<1>7. ASSUME SyncLoadVersion(a) \/ SyncStoreVersion(a) PROVE Goal
  BY <1>0, <1>7
     DEF SyncLoadVersion, SyncStoreVersion, Goto, globals, history, Advanced, Publishing
<1>8. ASSUME rlu_init_quiescence(a) \/ rlu_wait_for_quiescence(a) PROVE Goal
  BY <1>0, <1>8
     DEF rlu_init_quiescence, rlu_wait_for_quiescence, NextOther, Goto, globals, history,
         Advanced, Publishing
<1>9. ASSUME ResetWriteSets(a) \/ WritebackObject(a) PROVE Goal
  BY <1>0, <1>9
     DEF ResetWriteSets, WritebackObject, Goto, globals, history, Advanced, Publishing
<1>10. QED
  BY <1>1, <1>2, <1>3, <1>4, <1>5, <1>6, <1>7, <1>8, <1>9 DEF ThreadStep, Sync

\* The writer version counts the syncs that advanced it.
LEMMA StepCountInv ==
  ASSUME TypeOK, CountInv, NEW a \in Threads, ThreadStep(a)
  PROVE  CountInv'
<1>0. /\ pc \in [Threads -> Locs] /\ ret \in [Threads -> ReturnLocs]
      /\ g_rlu_writer_version \in Nat /\ g_rlu_commit_version \in Nat
      /\ \A u \in Threads \ {a} : pc'[u] = pc[u]
      /\ SyncsOpen \in SUBSET Threads /\ SyncsOpen' \in SUBSET Threads
  BY OthersStay, Types DEF Others, TypeOK, MemoryTypes, ControlTypes, SyncsOpen
<1>1. CASE SyncAdvanceGlobal(a)
  <2>1. /\ g_rlu_writer_version' = g_rlu_writer_version + 1
        /\ UNCHANGED g_rlu_commit_version
        /\ pc[a] = "sync_faa" /\ pc'[a] = "q_init"
    BY <1>0, <1>1 DEF SyncAdvanceGlobal, Goto
  <2>2. a \notin SyncsOpen /\ SyncsOpen' = SyncsOpen \union {a}
    BY <1>0, <2>1 DEF SyncsOpen, Advanced, Publishing
  <2>3. Cardinality(SyncsOpen') = Cardinality(SyncsOpen) + 1
    BY <1>0, <2>2, OneMore
  <2>4. QED
    BY <1>0, <2>1, <2>3, ThreadSets DEF CountInv
<1>2. CASE SyncCommit(a)
  <2>1. /\ g_rlu_commit_version' = g_rlu_commit_version + 1
        /\ UNCHANGED g_rlu_writer_version
        /\ pc[a] = "commit" /\ pc'[a] \in ReturnLocs
    BY <1>0, <1>2 DEF SyncCommit, Goto
  <2>2. a \in SyncsOpen /\ SyncsOpen' = SyncsOpen \ {a}
    BY <1>0, <2>1 DEF SyncsOpen, Advanced, Publishing, ReturnLocs
  <2>3. Cardinality(SyncsOpen') = Cardinality(SyncsOpen) - 1
    BY <1>0, <2>2, OneLess
  <2>4. QED
    BY <1>0, <2>1, <2>3, ThreadSets DEF CountInv
<1>3. CASE ~SyncAdvanceGlobal(a) /\ ~SyncCommit(a)
  <2>1. /\ UNCHANGED <<g_rlu_writer_version, g_rlu_commit_version>>
        /\ pc'[a] \in Advanced \union {"commit"} <=> pc[a] \in Advanced \union {"commit"}
    <3>1. CASE WritebackDone(a)
      BY <1>0, <3>1 DEF WritebackDone, Goto, globals, Advanced, Publishing
    <3>2. CASE ~WritebackDone(a)
      BY <1>3, <3>2, UncountedStep
    <3>3. QED
      BY <3>1, <3>2
  <2>2. SyncsOpen' = SyncsOpen
    BY <1>0, <2>1 DEF SyncsOpen
  <2>3. QED
    BY <2>1, <2>2 DEF CountInv
<1>4. QED
  BY <1>1, <1>2, <1>3

(***************************************************************************)
(* What a step of thread a does to its section, and to objects.            *)
(***************************************************************************)

\* A section begins with the version it reads, and until it ends its view, its
\* version and the write sets it started with stay.
SameSection(t) ==
  /\ view'[t] = view[t] /\ local_version'[t] = local_version[t]
  /\ ws_tail_counter'[t] = ws_tail_counter[t] /\ ws_wb_counter'[t] = ws_wb_counter[t]
  /\ is_write_detected[t] => is_write_detected'[t]
  /\ InSection(t) => InSection(t)'

SectionGoesOn(a) ==
  /\ DOMAIN view' = Threads
  /\ \A t \in Threads \ {a} : view'[t] = view[t]
  /\ Reading(a)' => ReadWriterVersion(a) \/ (Reading(a) /\ SameSection(a))
  /\ InSection(a)' => InSection(a) \/ ReadCommitVersion(a)
  /\ InSection(a) => InSection(a)' \/ LeaveSection(a)

\* A step of a thread begins its section, ends it, or goes on in it.
LEMMA ReadingStep ==
  ASSUME TypeOK, DOMAIN view = Threads, NEW a \in Threads, ThreadStep(a)
  PROVE  SectionGoesOn(a)
<1>0. /\ pc \in [Threads -> Locs] /\ ret \in [Threads -> ReturnLocs] /\ ret[a] \in ReturnLocs
      /\ local_version \in [Threads -> Nat] /\ ws_tail_counter \in [Threads -> Nat]
      /\ ws_wb_counter \in [Threads -> Nat] /\ is_write_detected \in [Threads -> BOOLEAN]
  BY Types, VersionTypes
<1> USE DEF SectionGoesOn, Reading, InSection, SectionLocs, SameSection
<1>1. ASSUME ReadWriterVersion(a) PROVE SectionGoesOn(a)
  BY <1>0, <1>1 DEF ReadWriterVersion, Goto
<1>2. ASSUME ReadCommitVersion(a) PROVE SectionGoesOn(a)
  BY <1>0, <1>2 DEF ReadCommitVersion, Goto, versions, logs, history
<1>3. ASSUME rlu_reader_lock(a) \/ RegisterThread(a) PROVE SectionGoesOn(a)
  BY <1>0, <1>3
     DEF rlu_reader_lock, RegisterThread, rlu_sync_checkpoint, StartSync, Goto, history
<1>4. ASSUME NEW o \in Objects, Deref(a, o) PROVE SectionGoesOn(a)
  BY <1>0, <1>4
     DEF Deref, DerefActual, DerefOwnCopy, DerefLocked, Goto, versions, flags, logs, history
<1>5. ASSUME NEW o \in Objects, TryLock(a, o) PROVE SectionGoesOn(a)
  BY <1>0, <1>5
     DEF TryLock, TryLockOwn, TryLockBusy, TryLockFree, Goto, versions, flags, logs, history
<1>6. ASSUME DerefSteal(a) \/ CasSucceeds(a) \/ CasFails(a) PROVE SectionGoesOn(a)
  BY <1>0, <1>6 DEF DerefSteal, CasSucceeds, CasFails, Goto, versions, flags, logs, history
<1>7. ASSUME LeaveSection(a) PROVE SectionGoesOn(a)
  <2>1. /\ \E loc \in {"checkpoint", "sync_load"} : pc' = [pc EXCEPT ![a] = loc]
        /\ view' = [view EXCEPT ![a] = NoView]
    BY <1>7 DEF LeaveSection, UnlockReader, UnlockWriter, rlu_abort, Unregister, Goto
  <2>2. QED
    BY <1>0, <1>7, <2>1
<1>8. ASSUME Checkpoint(a) \/ rlu_thread_finish(a) PROVE SectionGoesOn(a)
  BY <1>0, <1>8
     DEF Checkpoint, rlu_thread_finish, rlu_sync_checkpoint, StartSync, AfterFinishSync, Goto,
         history
<1>9. ASSUME Sync(a) PROVE SectionGoesOn(a)
  <2>1. UNCHANGED view
    BY <1>9
       DEF Sync, SyncLoadVersion, SyncStoreVersion, SyncAdvanceGlobal, rlu_init_quiescence,
           rlu_wait_for_quiescence, ResetWriteSets, WritebackObject, WritebackDone, SyncCommit,
           history
  <2>2. /\ pc[a] \in SyncLocs
        /\ \E loc \in SyncLocs \union ReturnLocs : pc' = [pc EXCEPT ![a] = loc]
    BY <1>0, <1>9
       DEF Sync, SyncLoadVersion, SyncStoreVersion, SyncAdvanceGlobal, rlu_init_quiescence,
           rlu_wait_for_quiescence, NextOther, ResetWriteSets, WritebackObject, WritebackDone,
           SyncCommit, Goto, SyncLocs
  <2>3. QED
    BY <1>0, <2>1, <2>2 DEF SyncLocs, ReturnLocs
<1>10. QED
  BY <1>1, <1>2, <1>3, <1>4, <1>5, <1>6, <1>7, <1>8, <1>9 DEF ThreadStep, EnterSection

\* The same for every thread.
LEMMA SectionsGoOn ==
  ASSUME TypeOK, DOMAIN view = Threads, NEW a \in Threads, ThreadStep(a),
         NEW t \in Threads, Reading(t)', ~(t = a /\ ReadWriterVersion(a))
  PROVE  Reading(t) /\ SameSection(t)
<1>1. CASE t = a
  BY <1>1, ReadingStep DEF SectionGoesOn
<1>2. CASE t # a
  BY <1>2, ReadingStep, OthersStay DEF SectionGoesOn, Others, Reading, InSection, SameSection
<1>3. QED
  BY <1>1, <1>2

\* An object stays as it is, or is locked, unlocked by an abort, or written back.
Untouched(o) == lock'[o] = lock[o] /\ actual'[o] = actual[o]

Taken(a, o) ==
  /\ lock[o] = NULL /\ lock'[o] # NULL /\ lock'[o].thread = a /\ actual'[o] = actual[o]
  /\ pc'[a] = "section" /\ InCurrentLog(a, lock[o])'

Discarded(a, o) ==
  /\ lock[o] # NULL /\ lock[o].thread = a /\ lock'[o] = NULL /\ actual'[o] = actual[o]
  /\ InSection(a) /\ ~Reading(a)'

WrittenBack(a, o) ==
  /\ lock[o] # NULL /\ lock[o].thread = a /\ lock'[o] = NULL
  /\ actual'[o] = LogEntry(lock[o]).val
  /\ pc[a] = "writeback"

\* Objects and headers change in three steps only.
LEMMA MemoryStays ==
  ASSUME NEW a \in Threads, ThreadStep(a),
         ~CasSucceeds(a), ~rlu_abort(a), ~WritebackObject(a)
  PROVE  UNCHANGED memory
<1>1. ASSUME EnterSection(a) PROVE UNCHANGED memory
  BY <1>1 DEF EnterSection, rlu_reader_lock, RegisterThread, ReadWriterVersion, ReadCommitVersion
<1>2. ASSUME NEW q \in Objects, Deref(a, q) \/ TryLock(a, q) PROVE UNCHANGED memory
  BY <1>2 DEF Deref, DerefActual, DerefOwnCopy, DerefLocked,
              TryLock, TryLockOwn, TryLockBusy, TryLockFree
<1>3. ASSUME DerefSteal(a) \/ CasFails(a) \/ UnlockReader(a) \/ UnlockWriter(a)
             \/ Checkpoint(a) \/ rlu_thread_finish(a)
      PROVE  UNCHANGED memory
  BY <1>3 DEF DerefSteal, CasFails, UnlockReader, UnlockWriter, Checkpoint, rlu_thread_finish
<1>4. ASSUME \/ SyncLoadVersion(a) \/ SyncStoreVersion(a) \/ SyncAdvanceGlobal(a)
             \/ rlu_init_quiescence(a) \/ rlu_wait_for_quiescence(a)
             \/ ResetWriteSets(a) \/ WritebackDone(a) \/ SyncCommit(a)
      PROVE  UNCHANGED memory
  BY <1>4 DEF SyncLoadVersion, SyncStoreVersion, SyncAdvanceGlobal, rlu_init_quiescence,
              rlu_wait_for_quiescence, ResetWriteSets, WritebackDone, SyncCommit
<1>5. QED
  BY <1>1, <1>2, <1>3, <1>4 DEF ThreadStep, LeaveSection, Sync

\* A step takes an object's lock, discards or writes back its copy, or leaves it.
LEMMA ObjectStep ==
  ASSUME TypeOK, RingInv, LockInv, NEW a \in Threads, ThreadStep(a), NEW o \in Objects
  PROVE  Untouched(o) \/ Taken(a, o) \/ Discarded(a, o) \/ WrittenBack(a, o)
<1>0. /\ pc \in [Threads -> Locs] /\ lock \in [Objects -> LogPtrs \union {NULL}]
      /\ actual \in [Objects -> Nat]
  BY Types
<1>1. CASE CasSucceeds(a)
  <2>0. PICK q, n, k : /\ q = p_obj[a].obj /\ n = ws_tail_counter[a]
                       /\ k = Len(write_set[a][CurrentSlot(a)]) + 1
    OBVIOUS
  <2>1. /\ q \in Objects /\ lock[q] = NULL /\ is_write_detected[a]
        /\ n \in Nat /\ k \in Nat \ {0} /\ lock' = [lock EXCEPT ![q] = Address(a, n, k)]
    BY <1>1, <2>0, CasEntries
  <2>2. /\ UNCHANGED <<actual, ws_tail_counter, is_write_detected>>
        /\ pc' = [pc EXCEPT ![a] = "section"]
    BY <1>1 DEF CasSucceeds, Goto, flags
  <2>3. CASE o = q
    <3>1. lock'[o] = Address(a, n, k) /\ lock'[o] # NULL
      BY <1>0, <2>1, <2>3, AddressNotNull
    <3>2. lock'[o].thread = a /\ lock'[o].ws = CurrentSlot(a)'
      BY <2>0, <2>2, <3>1 DEF Address, CurrentSlot
    <3>3. pc'[a] = "section" /\ InCurrentLog(a, lock[o])'
      BY <1>0, <2>1, <2>2, <3>2 DEF InCurrentLog, InSection, SectionLocs
    <3>4. QED
      BY <2>1, <2>2, <2>3, <3>1, <3>2, <3>3 DEF Taken
  <2>4. CASE o # q
    BY <1>0, <2>1, <2>2, <2>4 DEF Untouched
  <2>5. QED
    BY <2>3, <2>4
<1>2. CASE rlu_abort(a)
  <2>1. CASE is_write_detected[a] /\ o \in LogObjects(a)
    <3>1. /\ lock'[o] = NULL /\ UNCHANGED actual /\ pc[a] \in {"section", "failed"}
          /\ pc' = [pc EXCEPT ![a] = "checkpoint"]
      BY <1>2, <2>1 DEF rlu_abort, DiscardLog, Goto
    <3>2. PICK j \in Nat : Owned(a, ws_tail_counter[a], j) /\ EntryAt(a, ws_tail_counter[a], j).obj = o
      BY <2>1, LogObjectsLocked
    <3>3. lock[o] # NULL /\ lock[o] = Address(a, ws_tail_counter[a], j)
      BY <2>1, <3>2, LogObjectsLocked, Types DEF LockInv, OwnedAreLocked
    <3>4. lock[o].thread = a
      BY <3>3 DEF Address
    <3>5. InSection(a) /\ ~Reading(a)'
      BY <1>0, <3>1 DEF InSection, Reading, SectionLocs
    <3>6. QED
      BY <3>1, <3>3, <3>4, <3>5 DEF Discarded
  <2>2. CASE ~(is_write_detected[a] /\ o \in LogObjects(a))
    BY <1>2, <2>2 DEF rlu_abort, DiscardLog, Untouched
  <2>3. QED
    BY <2>1, <2>2
<1>3. CASE WritebackObject(a)
  <2>0. PICK n, k, e : n = ws_counter[a] /\ k = iter[a] /\ e = WritebackLog(a)[iter[a]]
    OBVIOUS
  <2>1. /\ actual' = [actual EXCEPT ![e.obj] = e.val] /\ lock' = [lock EXCEPT ![e.obj] = NULL]
        /\ pc[a] = "writeback"
    BY <1>3, <2>0 DEF WritebackObject
  <2>2. Owned(a, n, k) /\ e = EntryAt(a, n, k)
    BY <1>3, <2>0, WritebackEntries
  <2>3. n \in Nat /\ k \in Nat /\ Address(a, n, k) # NULL
    BY <2>2, OwnedTypes
  <2>4. lock[e.obj] = Address(a, n, k)
    BY <2>2, <2>3 DEF LockInv, OwnedAreLocked
  <2>5. lock[e.obj].thread = a /\ LogEntry(lock[e.obj]) = e
    BY <2>2, <2>4 DEF Address, LogEntry, EntryAt
  <2>6. CASE o = e.obj
    BY <1>0, <2>1, <2>3, <2>4, <2>5, <2>6 DEF WrittenBack
  <2>7. CASE o # e.obj
    BY <1>0, <2>1, <2>7 DEF Untouched
  <2>8. QED
    BY <2>6, <2>7
<1>4. CASE ~CasSucceeds(a) /\ ~rlu_abort(a) /\ ~WritebackObject(a)
  BY <1>4, MemoryStays DEF memory, Untouched
<1>5. QED
  BY <1>1, <1>2, <1>3, <1>4

\* The copy that locks an object keeps its contents for as long as it does.
LEMMA LockedCopyStays ==
  ASSUME TypeOK, RingInv, LockInv, DOMAIN view = Threads, NEW a \in Threads, ThreadStep(a),
         NEW o \in Objects, lock[o] # NULL, lock'[o] = lock[o]
  PROVE  LogEntry(lock[o])' = LogEntry(lock[o])
<1>1. PICK u \in Threads, c \in Nat, i \in Nat :
        /\ Owned(u, c, i) /\ EntryAt(u, c, i).obj = o
        /\ lock[o] = Address(u, c, i) /\ lock[o].thread = u
        /\ LogEntry(lock[o]) = EntryAt(u, c, i)
  BY HeaderEntry
<1>2. lock[o].thread = u /\ lock[o].ws = WS_INDEX(c) /\ lock[o].idx = i
  BY <1>1 DEF Address
<1>3. SUFFICES write_set'[u][WS_INDEX(c)][i] = write_set[u][WS_INDEX(c)][i]
  BY <1>2 DEF LogEntry
<1>4. CASE u # a
  BY <1>4, OthersStay DEF Others
<1>5. CASE u = a /\ c # ws_tail_counter[a]
  <2>1. /\ ws_head_counter[a] \in Nat /\ ws_wb_counter[a] \in Nat /\ ws_tail_counter[a] \in Nat
        /\ ws_head_counter[a] <= ws_wb_counter[a]
        /\ c \in ws_wb_counter[a] .. ws_tail_counter[a]
    BY <1>1, <1>5, Types DEF Owned, RingInv, RingCounters
  <2>2. c \in ws_head_counter[a] .. ws_tail_counter[a] - 1 /\ ~(c < ws_wb_counter[a])
    BY <1>5, <2>1
  <2>3. QED
    BY <1>5, <2>2, CommittedCopiesStay DEF CommittedStay
<1>6. CASE u = a /\ c = ws_tail_counter[a]
  <2>1. is_write_detected[a] /\ InSection(a)
    BY <1>1, <1>6, OpenEntries
  <2>2. i \in DOMAIN write_set[a][WS_INDEX(c)] /\ WS_INDEX(c) \in Slots
    BY <1>1, <1>6, IndexInRing DEF Owned
  <2>3. CASE InSection(a)'
    BY <1>6, <2>1, <2>2, <2>3, OwnLogsGrow
  <2>4. CASE ~InSection(a)'
    <3>1. LeaveSection(a)
      BY <2>1, <2>4, ReadingStep DEF SectionGoesOn
    <3>2. ~UnlockReader(a)
      BY <2>1 DEF UnlockReader
    <3>3. CASE UnlockWriter(a)
      BY <3>3 DEF UnlockWriter
    <3>4. CASE rlu_abort(a)
      <4>1. o \in LogObjects(a)
        BY <1>1, <1>6, <2>1, LogObjectsOwned
      <4>2. lock'[o] = NULL
        BY <2>1, <3>4, <4>1 DEF rlu_abort, DiscardLog
      <4>3. QED
        BY <4>2
    <3>5. QED
      BY <3>1, <3>2, <3>3, <3>4 DEF LeaveSection
  <2>5. QED
    BY <2>3, <2>4
<1>7. QED
  BY <1>4, <1>5, <1>6

\* A sync that has written everything back owns no entry.
LEMMA NothingLeft ==
  ASSUME TypeOK, RingInv, LockInv, NEW a \in Threads, WritebackDone(a),
         NEW o \in Objects, lock[o] # NULL
  PROVE  lock[o].thread # a
<1>1. PICK u \in Threads, c \in Nat, i \in Nat :
        Owned(u, c, i) /\ lock[o].thread = u
  BY HeaderEntry
<1>2. SUFFICES ASSUME u = a PROVE FALSE
  BY <1>1
<1>3. pc[a] = "writeback" /\ ws_counter[a] = ws_tail_counter[a]
  BY DEF WritebackDone
<1>4. c = ws_tail_counter[a]
  BY <1>1, <1>2, <1>3, OpenEntries, Types DEF Owned, OwnedEntry
<1>5. InSection(a)
  BY <1>1, <1>2, <1>4, OpenEntries
<1>6. QED
  BY <1>3, <1>5 DEF InSection, SectionLocs

\* What may be stolen may be stolen until it is written back.
LEMMA StealableStays ==
  ASSUME TypeOK, NEW a \in Threads, ThreadStep(a), ~WritebackDone(a),
         NEW t \in Threads, local_version'[t] = local_version[t],
         NEW u \in Threads, MayBeStolen(u, t)
  PROVE  MayBeStolen(u, t)'
<1>0. /\ pc \in [Threads -> Locs] /\ writer_version \in [Threads -> Nat]
      /\ new_version \in [Threads -> Nat]
  BY Types, VersionTypes
<1>1. CASE u # a
  BY <1>1, OthersStay DEF Others, MayBeStolen
<1>2. CASE u = a /\ pc[a] = "sync_store"
  <2>1. SyncStoreVersion(a)
    BY <1>2 DEF ThreadStep, EnterSection, rlu_reader_lock, RegisterThread, ReadWriterVersion,
                ReadCommitVersion, Deref, DerefActual, DerefOwnCopy, DerefLocked, TryLock,
                TryLockOwn, TryLockBusy, TryLockFree, DerefSteal, CasSucceeds, CasFails,
                LeaveSection, UnlockReader, UnlockWriter, rlu_abort, Checkpoint,
                rlu_thread_finish, Sync, SyncLoadVersion, SyncAdvanceGlobal,
                rlu_init_quiescence, rlu_wait_for_quiescence, ResetWriteSets,
                WritebackObject, WritebackDone, SyncCommit
  <2>2. QED
    BY <1>0, <1>2, <2>1 DEF SyncStoreVersion, Goto, MayBeStolen, Publishing
<1>3. CASE u = a /\ pc[a] \in Publishing
  <2>1. CASE SyncAdvanceGlobal(a)
    BY <1>0, <1>3, <2>1 DEF SyncAdvanceGlobal, Goto, MayBeStolen, Publishing
  <2>2. CASE pc[a] = "sync_faa" /\ ~SyncAdvanceGlobal(a)
    BY <2>2 DEF ThreadStep, EnterSection, rlu_reader_lock, RegisterThread, ReadWriterVersion,
                ReadCommitVersion, Deref, DerefActual, DerefOwnCopy, DerefLocked, TryLock,
                TryLockOwn, TryLockBusy, TryLockFree, DerefSteal, CasSucceeds, CasFails,
                LeaveSection, UnlockReader, UnlockWriter, rlu_abort, Checkpoint,
                rlu_thread_finish, Sync, SyncLoadVersion, SyncStoreVersion,
                rlu_init_quiescence, rlu_wait_for_quiescence, ResetWriteSets,
                WritebackObject, WritebackDone, SyncCommit
  <2>3. CASE pc[a] \in Advanced /\ ~SyncAdvanceGlobal(a)
    <3>1. ~SyncCommit(a)
      BY <2>3 DEF SyncCommit, Advanced, Publishing
    <3>2. pc'[a] \in Advanced /\ writer_version'[a] = writer_version[a]
      BY <2>3, <3>1, UncountedStep
    <3>3. QED
      BY <1>3, <2>3, <3>2 DEF MayBeStolen, Advanced, Publishing
  <2>4. QED
    BY <1>3, <2>1, <2>2, <2>3 DEF Advanced
<1>4. QED
  BY <1>1, <1>2, <1>3 DEF MayBeStolen

\* No log becomes one to steal from while a section reads.
LEMMA StealableBefore ==
  ASSUME TypeOK, StealInv, NEW a \in Threads, ThreadStep(a),
         NEW t \in Threads, local_version'[t] = local_version[t],
         NEW u \in Threads, MayBeStolen(u, t)'
  PROVE  MayBeStolen(u, t)
<1>1. CASE u = a
  BY <1>1, VersionStep
<1>2. CASE u # a
  BY <1>2, OthersStay DEF Others, MayBeStolen
<1>3. QED
  BY <1>1, <1>2

\* As long as a copy locks an object, an open section's snapshot has it or not.
LEMMA VisibleStays ==
  ASSUME TypeOK, RingInv, LockInv, StealInv, DOMAIN view = Threads,
         NEW a \in Threads, ThreadStep(a),
         NEW t \in Threads, Reading(t), Reading(t)', SameSection(t),
         NEW o \in Objects, lock[o] # NULL, lock'[o] = lock[o]
  PROVE  Visible(t, o)' <=> Visible(t, o)
<1>1. PICK u \in Threads, c \in Nat, i \in Nat :
        Owned(u, c, i) /\ lock[o] = Address(u, c, i) /\ lock[o].thread = u
  BY HeaderEntry
<1>2. CASE u = t
  <2>1. CurrentSlot(t)' = CurrentSlot(t)
    BY DEF SameSection, CurrentSlot
  <2>2. InCurrentLog(t, lock[o]) => InCurrentLog(t, lock[o])'
    BY <2>1 DEF InCurrentLog, SameSection
  <2>3. ASSUME InCurrentLog(t, lock[o])' PROVE InCurrentLog(t, lock[o])
    <3>1. WS_INDEX(c) = CurrentSlot(t)
      BY <1>1, <2>1, <2>3 DEF InCurrentLog, Address
    <3>2. /\ c \in ws_wb_counter[t] .. ws_tail_counter[t]
          /\ ws_tail_counter[t] \in ws_wb_counter[t] .. ws_tail_counter[t]
      BY <1>1, <1>2, Types DEF Owned, RingInv, RingCounters
    <3>3. c = ws_tail_counter[t]
      BY <3>1, <3>2, OneCounterPerSlot DEF CurrentSlot
    <3>4. InCurrentLog(t, Address(t, c, i)) /\ lock[o] = Address(t, c, i)
      BY <1>1, <1>2, <3>3, OpenEntries
    <3>5. QED
      BY <3>4
  <2>4. QED
    BY <1>1, <1>2, <2>2, <2>3 DEF Visible
<1>3. CASE u # t
  <2>1. MayBeStolen(u, t)' => MayBeStolen(u, t)
    BY StealableBefore DEF SameSection
  <2>2. MayBeStolen(u, t) => MayBeStolen(u, t)'
    <3>1. local_version'[t] = local_version[t]
      BY DEF SameSection
    <3>2. CASE WritebackDone(a)
      <4>1. u # a
        BY <1>1, <3>2, NothingLeft
      <4>2. QED
        BY <3>1, <4>1, OthersStay DEF Others, MayBeStolen
    <3>3. CASE ~WritebackDone(a)
      BY <3>1, <3>3, StealableStays
    <3>4. QED
      BY <3>2, <3>3
  <2>3. QED
    BY <1>1, <1>3, <2>1, <2>2 DEF Visible
<1>4. QED
  BY <1>2, <1>3

(***************************************************************************)
(* The parts of the invariant, one by one.                                 *)
(***************************************************************************)

\* The write-back of an object makes its contents what open sections see.
LEMMA WriteBackIsSeen ==
  ASSUME TypeOK, GraceInv, NEW a \in Threads, NEW t \in Threads \ {a}, Reading(t),
         NEW o \in Objects, WrittenBack(a, o)
  PROVE  Visible(t, o) /\ MayBeStolen(a, t) /\ Shown(t, o) = actual'[o]
<1>1. local_version[t] >= writer_version[a]
  BY GraceInvImpliesGracePeriod DEF GracePeriod, WrittenBack, Reading, InSection
<1>2. MayBeStolen(a, t)
  BY <1>1, VersionTypes DEF MayBeStolen, WrittenBack, Publishing
<1>3. QED
  BY <1>2 DEF Visible, WrittenBack, Shown

\* What an open section's snapshot has of an object stays.
LEMMA ShownStays ==
  ASSUME TypeOK, RingInv, LockInv, GraceInv, StealInv, DOMAIN view = Threads,
         NEW a \in Threads, ThreadStep(a),
         NEW t \in Threads, Reading(t), Reading(t)', SameSection(t), NEW o \in Objects
  PROVE  Shown(t, o)' = Shown(t, o)
<1>1. CASE Untouched(o)
  <2>1. CASE lock[o] = NULL
    BY <1>1, <2>1 DEF Shown, Untouched
  <2>2. CASE lock[o] # NULL
    <3>1. lock'[o] = lock[o] /\ actual'[o] = actual[o]
      BY <1>1 DEF Untouched
    <3>2. Visible(t, o)' <=> Visible(t, o)
      BY <2>2, <3>1, VisibleStays
    <3>3. LogEntry(lock[o])' = LogEntry(lock[o])
      BY <2>2, <3>1, LockedCopyStays
    <3>4. QED
      BY <2>2, <3>1, <3>2, <3>3 DEF Shown
  <2>3. QED
    BY <2>1, <2>2
<1>2. CASE Taken(a, o)
  <2>1. ~Visible(t, o)'
    <3>1. CASE t = a
      BY <1>2, <3>1 DEF Taken, Visible
    <3>2. CASE t # a
      BY <1>2, <3>2 DEF Taken, Visible, MayBeStolen, Publishing
    <3>3. QED
      BY <3>1, <3>2
  <2>2. QED
    BY <1>2, <2>1 DEF Taken, Shown
<1>3. CASE Discarded(a, o)
  <2>1. t # a
    BY <1>3 DEF Discarded
  <2>2. ~Visible(t, o)
    BY <1>3, <2>1 DEF Discarded, Visible, MayBeStolen, Publishing, InSection, SectionLocs
  <2>3. QED
    BY <1>3, <2>2 DEF Discarded, Shown
<1>4. CASE WrittenBack(a, o)
  <2>1. t # a
    BY <1>4 DEF WrittenBack, Reading, SectionLocs
  <2>2. Shown(t, o) = actual'[o]
    BY <1>4, <2>1, WriteBackIsSeen
  <2>3. QED
    BY <1>4, <2>2 DEF WrittenBack, Shown
<1>5. QED
  BY <1>1, <1>2, <1>3, <1>4, ObjectStep

\* Contents an open section may read stay.
LEMMA ContentsStay ==
  ASSUME TypeOK, RingInv, LockInv, GraceInv, StealInv,
         NEW a \in Threads, ThreadStep(a),
         NEW t \in Threads, Reading(t), Reading(t)', SnapshotOf(t),
         NEW o \in Objects, actual[o] = view[t][o]
  PROVE  actual'[o] = view[t][o]
<1>1. CASE WrittenBack(a, o)
  <2>1. t # a
    BY <1>1 DEF WrittenBack, Reading, SectionLocs
  <2>2. QED
    BY <1>1, <2>1, WriteBackIsSeen DEF SnapshotOf
<1>2. CASE ~WrittenBack(a, o)
  BY <1>2, ObjectStep DEF Untouched, Taken, Discarded
<1>3. QED
  BY <1>1, <1>2

\* Without a version race no sync gets in the way of another.
LEMMA StepUndisturbed ==
  ASSUME TypeOK, NEW a \in Threads, ThreadStep(a), ~version_race',
         \A u \in Threads : Undisturbed(u),
         NEW u \in Threads
  PROVE  Undisturbed(u)'
<1>0. /\ pc \in [Threads -> Locs] /\ ret \in [Threads -> ReturnLocs] /\ ret[a] \in ReturnLocs
      /\ writer_version \in [Threads -> Nat] /\ new_version \in [Threads -> Nat]
      /\ g_rlu_writer_version \in Nat
  BY Types, VersionTypes
<1>1. CASE SyncAdvanceGlobal(a)
  <2>1. \A v \in Threads \ {a} : pc[v] \notin {"sync_store", "sync_faa"}
    BY <1>1 DEF SyncAdvanceGlobal
  <2>2. pc' = [pc EXCEPT ![a] = "q_init"]
    BY <1>1 DEF SyncAdvanceGlobal, Goto
  <2>3. QED
    BY <1>0, <2>1, <2>2 DEF Undisturbed
<1>2. CASE SyncLoadVersion(a)
  <2>1. /\ pc' = [pc EXCEPT ![a] = "sync_store"] /\ UNCHANGED g_rlu_writer_version
        /\ UNCHANGED writer_version
        /\ new_version' = [new_version EXCEPT ![a] = g_rlu_writer_version + 1]
    BY <1>2 DEF SyncLoadVersion, Goto, globals
  <2>2. QED
    BY <1>0, <2>1 DEF Undisturbed
<1>3. CASE SyncStoreVersion(a)
  <2>1. /\ pc[a] = "sync_store" /\ pc' = [pc EXCEPT ![a] = "sync_faa"]
        /\ UNCHANGED <<g_rlu_writer_version, new_version>>
        /\ writer_version' = [writer_version EXCEPT ![a] = new_version[a]]
    BY <1>3 DEF SyncStoreVersion, Goto, globals, loops
  <2>2. QED
    BY <1>0, <2>1 DEF Undisturbed
<1>4. CASE ~SyncAdvanceGlobal(a) /\ ~SyncLoadVersion(a) /\ ~SyncStoreVersion(a)
  <2>1. UNCHANGED g_rlu_writer_version
    <3>1. CASE WritebackDone(a) \/ SyncCommit(a)
      BY <3>1 DEF WritebackDone, SyncCommit, globals
    <3>2. CASE ~WritebackDone(a) /\ ~SyncCommit(a)
      BY <1>4, <3>2, UncountedStep
    <3>3. QED
      BY <3>1, <3>2
  <2>2. pc'[a] \notin {"sync_store", "sync_faa"}
    <3>1. ASSUME EnterSection(a) PROVE pc'[a] \notin {"sync_store", "sync_faa"}
      BY <1>0, <3>1
         DEF EnterSection, rlu_reader_lock, RegisterThread, ReadWriterVersion,
             ReadCommitVersion, rlu_sync_checkpoint, StartSync, Goto
    <3>2. ASSUME NEW o \in Objects, Deref(a, o) \/ TryLock(a, o)
          PROVE  pc'[a] \notin {"sync_store", "sync_faa"}
      BY <1>0, <3>2
         DEF Deref, DerefActual, DerefOwnCopy, DerefLocked, TryLock, TryLockOwn, TryLockBusy,
             TryLockFree, Goto
    <3>3. ASSUME DerefSteal(a) \/ CasSucceeds(a) \/ CasFails(a) \/ LeaveSection(a)
          PROVE  pc'[a] \notin {"sync_store", "sync_faa"}
      BY <1>0, <3>3
         DEF DerefSteal, CasSucceeds, CasFails, LeaveSection, UnlockReader, UnlockWriter,
             rlu_abort, Goto
    <3>4. ASSUME Checkpoint(a) \/ rlu_thread_finish(a)
          PROVE  pc'[a] \notin {"sync_store", "sync_faa"}
      BY <1>0, <3>4
         DEF Checkpoint, rlu_thread_finish, rlu_sync_checkpoint, StartSync, AfterFinishSync, Goto
    <3>5. ASSUME Sync(a) PROVE pc'[a] \notin {"sync_store", "sync_faa"}
      BY <1>0, <1>4, <3>5
         DEF Sync, rlu_init_quiescence, rlu_wait_for_quiescence, NextOther, ResetWriteSets,
             WritebackObject, WritebackDone, SyncCommit, Goto, ReturnLocs
    <3>6. QED
      BY <3>1, <3>2, <3>3, <3>4, <3>5 DEF ThreadStep
  <2>3. CASE u = a
    BY <2>2, <2>3 DEF Undisturbed
  <2>4. CASE u # a
    BY <2>1, <2>4, OthersStay DEF Undisturbed, Others
  <2>5. QED
    BY <2>3, <2>4
<1>5. QED
  BY <1>1, <1>2, <1>3, <1>4

\* Every sync a section is behind or that is about to commit is still to be
\* counted in the commit version.
LEMMA StepCountBound ==
  ASSUME TypeOK, RingInv, GraceInv, StealInv, CountInv, DOMAIN view = Threads,
         NEW a \in Threads, ThreadStep(a),
         \A u \in Threads : Undisturbed(u) /\ CountBound(u),
         NEW t \in Threads
  PROVE  CountBound(t)'
<1> SUFFICES ASSUME Reading(t)'
             PROVE  g_rlu_commit_version' + Cardinality(Counted(t)') <= local_version'[t]
  BY DEF CountBound
<1>0. /\ pc \in [Threads -> Locs] /\ ret \in [Threads -> ReturnLocs] /\ ret[a] \in ReturnLocs
      /\ local_version \in [Threads -> Nat] /\ writer_version \in [Threads -> Nat]
      /\ g_rlu_writer_version \in Nat /\ g_rlu_commit_version \in Nat
      /\ \A u \in Threads \ {a} : pc'[u] = pc[u] /\ writer_version'[u] = writer_version[u]
      /\ Counted(t) \in SUBSET Threads /\ Counted(t)' \in SUBSET Threads
      /\ SyncsOpen \in SUBSET Threads
  <2>1. /\ pc \in [Threads -> Locs] /\ ret \in [Threads -> ReturnLocs] /\ ret[a] \in ReturnLocs
        /\ local_version \in [Threads -> Nat] /\ writer_version \in [Threads -> Nat]
        /\ g_rlu_writer_version \in Nat /\ g_rlu_commit_version \in Nat
    BY Types, VersionTypes DEF TypeOK, MemoryTypes
  <2>2. \A u \in Threads \ {a} : pc'[u] = pc[u] /\ writer_version'[u] = writer_version[u]
    BY OthersStay DEF Others
  <2>3. /\ Counted(t) \in SUBSET Threads /\ Counted(t)' \in SUBSET Threads
        /\ SyncsOpen \in SUBSET Threads
    BY DEF Counted, SyncsOpen
  <2>4. QED
    BY <2>1, <2>2, <2>3
<1>1. CASE t = a /\ ReadWriterVersion(a)
  <2>1. /\ local_version' = [local_version EXCEPT ![a] = g_rlu_writer_version]
        /\ UNCHANGED <<g_rlu_commit_version, writer_version>>
        /\ pc[a] = "read_version" /\ pc' = [pc EXCEPT ![a] = "read_commit"]
    BY <1>1 DEF ReadWriterVersion, Goto, globals
  <2>2. \A u \in Threads : pc[u] \in Advanced => writer_version[u] <= g_rlu_writer_version
    BY DEF GraceInv, VersionBound, Advanced, Publishing
  <2>3. Counted(t)' = SyncsOpen
    BY <1>0, <1>1, <2>1, <2>2 DEF Counted, SyncsOpen, Advanced, Publishing
  <2>4. g_rlu_commit_version' + Cardinality(Counted(t)') = local_version'[t]
    BY <1>0, <1>1, <2>1, <2>3 DEF CountInv
  <2>5. QED
    BY <1>0, <1>1, <2>1, <2>4
<1>2. CASE ~(t = a /\ ReadWriterVersion(a))
  <2>1. Reading(t) /\ local_version'[t] = local_version[t]
    BY <1>2, SectionsGoOn DEF SameSection
  <2>2. g_rlu_commit_version + Cardinality(Counted(t)) <= local_version[t]
    BY <2>1 DEF CountBound
  <2>3. CASE SyncAdvanceGlobal(a)
    <3>1. /\ UNCHANGED <<g_rlu_commit_version, writer_version>>
          /\ pc[a] = "sync_faa" /\ pc' = [pc EXCEPT ![a] = "q_init"]
          /\ g_rlu_writer_version' = g_rlu_writer_version + 1
      BY <2>3 DEF SyncAdvanceGlobal, Goto
    <3>2. local_version[t] < writer_version[a]
      BY <1>0, <3>1 DEF Undisturbed, StealInv, Version
    <3>3. Counted(t)' = Counted(t)
      BY <1>0, <2>1, <3>1, <3>2 DEF Counted, Advanced, Publishing
    <3>4. QED
      BY <2>1, <2>2, <3>1, <3>3
  <2>4. CASE WritebackDone(a)
    <3>1. /\ UNCHANGED <<g_rlu_commit_version>>
          /\ pc[a] = "writeback" /\ pc' = [pc EXCEPT ![a] = "commit"]
      BY <2>4 DEF WritebackDone, Goto, globals
    <3>2. t # a
      BY <2>1, <3>1 DEF Reading, SectionLocs
    <3>3. writer_version[a] <= local_version[t]
      BY <2>1, <3>1, <3>2, GraceInvImpliesGracePeriod DEF GracePeriod, Reading, InSection
    <3>4. Counted(t)' = Counted(t)
      BY <1>0, <2>1, <3>1, <3>3 DEF Counted, Advanced, Publishing
    <3>5. QED
      BY <2>1, <2>2, <3>1, <3>4
  <2>5. CASE SyncCommit(a)
    <3>1. /\ g_rlu_commit_version' = g_rlu_commit_version + 1
          /\ pc[a] = "commit" /\ pc' = [pc EXCEPT ![a] = ret[a]]
      BY <2>5 DEF SyncCommit, Goto
    <3>2. a \in Counted(t) /\ Counted(t)' = Counted(t) \ {a}
      BY <1>0, <2>1, <3>1 DEF Counted, Advanced, Publishing, ReturnLocs
    <3>3. Cardinality(Counted(t)') = Cardinality(Counted(t)) - 1
      BY <1>0, <3>2, OneLess
    <3>4. QED
      BY <1>0, <2>1, <2>2, <3>1, <3>3, ThreadSets
  <2>6. CASE ~SyncAdvanceGlobal(a) /\ ~WritebackDone(a) /\ ~SyncCommit(a)
    <3>1. /\ UNCHANGED g_rlu_commit_version
          /\ pc'[a] \in Advanced <=> pc[a] \in Advanced
          /\ pc[a] # "commit" /\ pc'[a] # "commit"
          /\ pc[a] \in Advanced => writer_version'[a] = writer_version[a]
      BY <2>6, UncountedStep
    <3>2. Counted(t)' = Counted(t)
      BY <1>0, <2>1, <3>1 DEF Counted
    <3>3. QED
      BY <2>1, <2>2, <3>1, <3>2
  <2>7. QED
    BY <2>3, <2>4, <2>5, <2>6
<1>3. QED
  BY <1>1, <1>2

\* An object reads the same for a section, whatever the others do to it.
LEMMA StepSnapshotOf ==
  ASSUME TypeOK, RingInv, LockInv, GraceInv, StealInv, VersionsFit, DOMAIN view = Threads,
         NEW a \in Threads, ThreadStep(a),
         \A u \in Threads : Undisturbed(u),
         NEW t \in Threads, SnapshotOf(t)
  PROVE  SnapshotOf(t)'
<1> SUFFICES ASSUME Reading(t)', NEW o \in Objects
             PROVE  view'[t][o] = Shown(t, o)'
  BY DEF SnapshotOf
<1>1. CASE t = a /\ ReadWriterVersion(a)
  <2>0. /\ pc \in [Threads -> Locs] /\ local_version \in [Threads -> Nat]
        /\ writer_version \in [Threads -> Nat] /\ g_rlu_writer_version \in Nat
        /\ lock \in [Objects -> LogPtrs \union {NULL}]
    BY Types, VersionTypes
  <2>1. /\ local_version' = [local_version EXCEPT ![a] = g_rlu_writer_version]
        /\ view' = [view EXCEPT ![a] = ViewOf(a)]
        /\ pc[a] = "read_version" /\ pc' = [pc EXCEPT ![a] = "read_commit"]
        /\ UNCHANGED <<lock, actual, write_set, writer_version, new_version>>
    BY <1>1 DEF ReadWriterVersion, Goto, memory, logs, loops
  <2>2. view'[t][o] = ViewOf(t)[o]
    BY <1>1, <2>1
  <2>3. LogEntry(lock[o])' = LogEntry(lock[o]) /\ UNCHANGED <<lock, actual>>
    BY <2>1 DEF LogEntry
  <2>4. pc'[t] = "read_commit"
    BY <1>1, <2>0, <2>1
  <2>5. CASE lock[o] = NULL
    BY <2>1, <2>2, <2>5 DEF ViewOf, Shown
  <2>6. CASE lock[o] # NULL /\ lock[o].thread = t
    <3>1. ~InCurrentLog(t, lock[o])'
      BY <2>4 DEF InCurrentLog, InSection, SectionLocs
    <3>2. Shown(t, o)' = LogEntry(lock[o]).val
      BY <2>6, <2>3, <3>1 DEF Shown, Visible
    <3>3. QED
      BY <2>2, <2>6, <3>2 DEF ViewOf
  <2>7. CASE lock[o] # NULL /\ lock[o].thread # t
    <3>0. PICK u \in Threads : u = lock[o].thread /\ u # t
      BY <2>0, <2>7 DEF LogPtrs
    <3>1. MayBeStolen(u, t)' <=> writer_version[u] <= g_rlu_writer_version
      <4>1. pc'[u] = pc[u] /\ local_version'[t] = g_rlu_writer_version
        BY <1>1, <2>0, <2>1, <3>0
      <4>2. CASE pc[u] \in Publishing
        BY <2>1, <4>1, <4>2 DEF MayBeStolen, Publishing
      <4>3. CASE pc[u] = "sync_store"
        <5>1. writer_version[u] = MAX_VERSION /\ new_version[u] = g_rlu_writer_version + 1
          BY <4>3 DEF StealInv, Version, Undisturbed, Publishing
        <5>2. ~(writer_version[u] <= g_rlu_writer_version) /\ ~(new_version[u] <= g_rlu_writer_version)
          BY <2>0, <5>1, BoundAssumption DEF VersionsFit
        <5>3. QED
          BY <2>1, <4>1, <4>3, <5>2 DEF MayBeStolen, Publishing
      <4>4. CASE pc[u] \notin Publishing /\ pc[u] # "sync_store"
        <5>1. writer_version[u] = MAX_VERSION
          BY <4>4 DEF StealInv, Version
        <5>2. ~(writer_version[u] <= g_rlu_writer_version)
          BY <2>0, <5>1, BoundAssumption DEF VersionsFit
        <5>3. QED
          BY <4>1, <4>4, <5>2 DEF MayBeStolen
      <4>5. QED
        BY <4>2, <4>3, <4>4
    <3>2. Visible(t, o)' <=> writer_version[u] <= g_rlu_writer_version
      BY <2>1, <3>0, <3>1 DEF Visible
    <3>3. Shown(t, o)' = IF writer_version[u] <= g_rlu_writer_version
                         THEN LogEntry(lock[o]).val ELSE actual[o]
      BY <2>7, <2>3, <3>2 DEF Shown
    <3>4. QED
      BY <2>2, <2>7, <3>0, <3>3 DEF ViewOf
  <2>8. QED
    BY <2>5, <2>6, <2>7
<1>2. CASE ~(t = a /\ ReadWriterVersion(a))
  <2>1. Reading(t) /\ SameSection(t)
    BY <1>2, SectionsGoOn
  <2>2. Shown(t, o)' = Shown(t, o)
    BY <2>1, ShownStays
  <2>3. QED
    BY <2>1, <2>2 DEF SnapshotOf, SameSection
<1>3. QED
  BY <1>1, <1>2

\* Without a sync in progress that the section is not behind, nothing is to be
\* stolen; the commit version tells.
LEMMA QuietMeansNothing ==
  ASSUME TypeOK, StealInv, \A u \in Threads : Undisturbed(u),
         NEW t \in Threads, Reading(t), CountBound(t), Quiet(t)
  PROVE  NothingToSteal(t)
<1>0. /\ local_version \in [Threads -> Nat] /\ g_rlu_writer_version \in Nat
      /\ local_version[t] <= g_rlu_writer_version
      /\ Counted(t) \in SUBSET Threads
  BY VersionTypes DEF StealInv, Version, Counted
<1>1. Cardinality(Counted(t)) = 0
  <2>1. g_rlu_commit_version + Cardinality(Counted(t)) <= local_version[t]
    BY DEF CountBound
  <2>2. QED
    BY <1>0, <2>1, ThreadSets DEF Quiet
<1>2. Counted(t) = {}
  BY <1>0, <1>1, ThreadSets, FS_EmptySet
<1>3. ASSUME NEW u \in Threads \ {t}, MayBeStolen(u, t) PROVE FALSE
  <2>1. CASE pc[u] = "sync_store"
    BY <1>0, <1>3, <2>1 DEF MayBeStolen, Undisturbed, Publishing
  <2>2. CASE pc[u] = "sync_faa"
    BY <1>0, <1>3, <2>2 DEF MayBeStolen, Undisturbed, Publishing
  <2>3. CASE pc[u] \in Advanced
    BY <1>2, <1>3, <2>3 DEF MayBeStolen, Counted, Advanced, Publishing
  <2>4. QED
    BY <1>3, <2>1, <2>2, <2>3 DEF MayBeStolen, Advanced
<1>4. QED
  BY <1>3 DEF NothingToSteal

\* The flags of an open section change only when it locks its first object.
LEMMA SectionFlags ==
  ASSUME TypeOK, NEW a \in Threads, ThreadStep(a), InSection(a), InSection(a)'
  PROVE  /\ is_steal'[a] = is_steal[a]
         /\ \/ is_check_locks'[a] = is_check_locks[a] /\ is_write_detected'[a] = is_write_detected[a]
            \/ is_check_locks'[a] = (is_write_detected[a] => is_check_locks[a])
<1>0. /\ pc \in [Threads -> Locs] /\ is_check_locks \in [Threads -> BOOLEAN]
      /\ is_steal \in [Threads -> BOOLEAN] /\ is_write_detected \in [Threads -> BOOLEAN]
      /\ pc[a] \in SectionLocs
  BY Types, VersionTypes DEF TypeOK, ThreadTypes, InSection
<1> DEFINE Goal ==
      /\ is_steal'[a] = is_steal[a]
      /\ \/ is_check_locks'[a] = is_check_locks[a] /\ is_write_detected'[a] = is_write_detected[a]
         \/ is_check_locks'[a] = (is_write_detected[a] => is_check_locks[a])
<1>1. ~LeaveSection(a)
  BY <1>0 DEF LeaveSection, UnlockReader, UnlockWriter, rlu_abort, Goto, InSection, SectionLocs
<1>2. ~EnterSection(a) /\ ~Checkpoint(a) /\ ~rlu_thread_finish(a) /\ ~Sync(a)
  BY <1>0 DEF EnterSection, rlu_reader_lock, RegisterThread, ReadWriterVersion,
              ReadCommitVersion, Checkpoint, rlu_thread_finish, Sync, SyncLoadVersion,
              SyncStoreVersion, SyncAdvanceGlobal, rlu_init_quiescence,
              rlu_wait_for_quiescence, ResetWriteSets, WritebackObject, WritebackDone,
              SyncCommit, SectionLocs
<1>3. ASSUME NEW o \in Objects, Deref(a, o) PROVE Goal
  BY <1>3 DEF Deref, DerefActual, DerefOwnCopy, DerefLocked, flags
<1>4. ASSUME NEW o \in Objects, TryLockOwn(a, o) \/ TryLockBusy(a, o) PROVE Goal
  BY <1>4 DEF TryLockOwn, TryLockBusy, flags
<1>5. ASSUME NEW o \in Objects, TryLockFree(a, o) PROVE Goal
  BY <1>0, <1>5 DEF TryLockFree
<1>6. ASSUME DerefSteal(a) \/ CasSucceeds(a) \/ CasFails(a) PROVE Goal
  BY <1>6 DEF DerefSteal, CasSucceeds, CasFails, flags
<1>7. QED
  BY <1>1, <1>2, <1>3, <1>4, <1>5, <1>6 DEF ThreadStep, TryLock

\* A section that found nothing to steal will find nothing.
LEMMA NothingStays ==
  ASSUME TypeOK, StealInv, NEW a \in Threads, ThreadStep(a),
         NEW t \in Threads, local_version'[t] = local_version[t], NothingToSteal(t)
  PROVE  NothingToSteal(t)'
  BY StealableBefore DEF NothingToSteal

\* is_steal and is_check_locks stay clear only while there is nothing to steal.
LEMMA StepFlags ==
  ASSUME TypeOK, RingInv, StealInv, DOMAIN view = Threads,
         NEW a \in Threads, ThreadStep(a),
         \A u \in Threads : Undisturbed(u),
         NEW t \in Threads, CountBound(t), Flags(t)
  PROVE  Flags(t)'
<1> SUFFICES ASSUME InSection(t)' PROVE Flags(t)'
  BY DEF Flags
<1>0. /\ pc \in [Threads -> Locs] /\ is_check_locks \in [Threads -> BOOLEAN]
      /\ is_steal \in [Threads -> BOOLEAN] /\ is_write_detected \in [Threads -> BOOLEAN]
      /\ ws_tail_counter \in [Threads -> Nat] /\ ws_wb_counter \in [Threads -> Nat]
  BY Types DEF TypeOK, ThreadTypes
<1>1. CASE t = a /\ ReadCommitVersion(a)
  <2>1. /\ is_steal' = [is_steal EXCEPT ![a] = ~Quiet(a)]
        /\ is_check_locks' = [is_check_locks EXCEPT ![a] = ~NoLocksMatter(a)]
        /\ pc[a] = "read_commit"
        /\ UNCHANGED <<local_version, is_write_detected, ws_tail_counter, ws_wb_counter>>
    BY <1>1 DEF ReadCommitVersion, versions, logs
  <2>2. is_steal'[a] = ~Quiet(a) /\ is_check_locks'[a] = ~NoLocksMatter(a)
    BY <1>0, <2>1
  <2>3. Reading(a) /\ ~is_write_detected[a]
    BY <2>1 DEF Reading, RingInv, OpenLog, SectionLocs
  <2>4. Quiet(a) => NothingToSteal(a)'
    BY <1>1, <2>1, <2>3, QuietMeansNothing, NothingStays
  <2>5. NoLocksMatter(a) => Quiet(a) /\ ws_tail_counter[a] = ws_wb_counter[a]
    BY DEF NoLocksMatter
  <2>6. QED
    BY <1>1, <2>1, <2>2, <2>3, <2>4, <2>5 DEF Flags
<1>2. CASE ~(t = a /\ ReadCommitVersion(a))
  <2>1. InSection(t)
    <3>1. CASE t = a
      BY <1>2, <3>1, ReadingStep DEF SectionGoesOn
    <3>2. CASE t # a
      BY <3>2, OthersStay DEF Others, InSection
    <3>3. QED
      BY <3>1, <3>2
  <2>2. SameSection(t)
    <3>1. Reading(t)'
      BY DEF Reading, InSection
    <3>2. ~(t = a /\ ReadWriterVersion(a))
      BY <2>1 DEF ReadWriterVersion, InSection, SectionLocs
    <3>3. QED
      BY <3>1, <3>2, SectionsGoOn
  <2>3. NothingToSteal(t) => NothingToSteal(t)'
    BY <2>2, NothingStays DEF SameSection
  <2>4. CASE t = a
    <3>1. /\ is_steal'[t] = is_steal[t]
          /\ \/ is_check_locks'[t] = is_check_locks[t] /\ is_write_detected'[t] = is_write_detected[t]
             \/ is_check_locks'[t] = (is_write_detected[t] => is_check_locks[t])
      BY <2>1, <2>4, SectionFlags
    <3>2. ~is_check_locks'[t] => ~is_check_locks[t] /\ ~is_write_detected'[t]
      BY <1>0, <2>1, <3>1 DEF Flags
    <3>3. QED
      BY <2>1, <2>2, <2>3, <3>1, <3>2 DEF Flags, SameSection
  <2>5. CASE t # a
    <3>1. /\ is_steal'[t] = is_steal[t] /\ is_check_locks'[t] = is_check_locks[t]
          /\ is_write_detected'[t] = is_write_detected[t]
      BY <2>5, OthersStay DEF Others
    <3>2. QED
      BY <2>1, <2>2, <2>3, <3>1 DEF Flags, SameSection
  <2>6. QED
    BY <2>4, <2>5
<1>3. QED
  BY <1>1, <1>2

\* CanSteal compares versions of threads that need not be publishing.
LEMMA StealDecides ==
  ASSUME TypeOK, StealInv, VersionsFit, \A u \in Threads : Undisturbed(u),
         NEW t \in Threads, pc[t] = "deref"
  PROVE  CanSteal(t) <=> MayBeStolen(p_obj[t].ptr.thread, t)
<1>0. PICK u : u = p_obj[t].ptr.thread
  OBVIOUS
<1>1. u \in Threads
  BY <1>0 DEF StealInv, PendingCopy, LogPtrs
<1>2. /\ local_version[t] \in Nat /\ writer_version[u] \in Nat /\ new_version[u] \in Nat
      /\ g_rlu_writer_version \in Nat /\ MAX_VERSION \in Nat
      /\ local_version[t] <= g_rlu_writer_version /\ g_rlu_writer_version < MAX_VERSION
  BY <1>1, VersionTypes, BoundAssumption DEF StealInv, Version, VersionsFit
<1>3. CanSteal(t) <=> writer_version[u] <= local_version[t]
  BY <1>0 DEF CanSteal
<1>4. CASE pc[u] \in Publishing
  BY <1>0, <1>3, <1>4 DEF MayBeStolen, Publishing
<1>5. CASE pc[u] \notin Publishing
  <2>1. writer_version[u] = MAX_VERSION
    BY <1>1, <1>5 DEF StealInv, Version
  <2>2. ~CanSteal(t)
    BY <1>2, <1>3, <2>1
  <2>3. pc[u] = "sync_store" => ~(new_version[u] <= local_version[t])
    BY <1>1, <1>2 DEF Undisturbed
  <2>4. QED
    BY <1>0, <1>5, <2>2, <2>3 DEF MayBeStolen
<1>6. QED
  BY <1>4, <1>5

\* The copy a section has found and not stolen yet stays what its snapshot has.
LEMMA StepPendingView ==
  ASSUME TypeOK, RingInv, LockInv, GraceInv, StealInv, DOMAIN view = Threads,
         NEW a \in Threads, ThreadStep(a),
         NEW t \in Threads, SnapshotOf(t), PendingView(t)
  PROVE  PendingView(t)'
<1> SUFFICES ASSUME pc'[t] = "deref" PROVE PendingView(t)'
  BY DEF PendingView
<1>1. CASE t = a
  <2>1. PICK o \in Objects : DerefLocked(a, o)
    BY <1>1, SectionStep
  <2>2. /\ lock[o] # NULL /\ lock[o].thread # a /\ pc[a] = "section"
        /\ p_obj' = [p_obj EXCEPT ![a] = [obj |-> o, ptr |-> lock[o]]]
        /\ pc' = [pc EXCEPT ![a] = "deref"]
        /\ UNCHANGED <<lock, actual, write_set, view, local_version, writer_version, new_version>>
    BY <2>1 DEF DerefLocked, Goto, memory, versions, logs, loops, history
  <2>3. p_obj'[a].obj = o /\ p_obj'[a].ptr = lock[o]
    BY <2>2, VersionTypes
  <2>4. view[a][o] = Shown(a, o) /\ (Visible(a, o) <=> MayBeStolen(lock[o].thread, a))
    BY <1>1, <2>2 DEF SnapshotOf, Reading, SectionLocs, Visible
  <2>5. lock[o].thread \in Threads
    BY <2>2, Types DEF LogPtrs
  <2>6. MayBeStolen(lock[o].thread, a)' <=> MayBeStolen(lock[o].thread, a)
    BY <2>2, <2>5, Types DEF MayBeStolen
  <2>7. MayBeStolen(lock[o].thread, a) => LogEntry(lock[o]).val = view[a][o]
    BY <2>2, <2>4 DEF Shown
  <2>8. ~MayBeStolen(lock[o].thread, a) => actual[o] = view[a][o]
    BY <2>4 DEF Shown
  <2>9. LogEntry(p_obj[a].ptr)' = LogEntry(lock[o])
    <3>1. UNCHANGED write_set
      BY <2>2
    <3>2. QED
      BY <2>3, <3>1 DEF LogEntry
  <2>10. QED
    <3>1. MayBeStolen(p_obj[a].ptr.thread, a)' <=> MayBeStolen(lock[o].thread, a)
      BY <2>2, <2>3, <2>6 DEF MayBeStolen
    <3>2. UNCHANGED <<lock, actual, view>>
      BY <2>2
    <3>3. QED
      BY <1>1, <2>3, <2>7, <2>8, <2>9, <3>1, <3>2 DEF PendingView
<1>2. CASE t # a
  <2>0. PICK p, o, u : p = p_obj[t].ptr /\ o = p_obj[t].obj /\ u = p.thread
    OBVIOUS
  <2>1. /\ pc[t] = "deref" /\ p_obj'[t] = p_obj[t] /\ local_version'[t] = local_version[t]
    BY <1>2, OthersStay DEF Others
  <2>2. Reading(t) /\ Reading(t)' /\ SameSection(t)
    <3>1. Reading(t)'
      BY DEF Reading, SectionLocs
    <3>2. QED
      BY <1>2, <3>1, SectionsGoOn
  <2>3. o \in Objects /\ p \in LogPtrs /\ u \in Threads
    <3>1. p_obj[t] \in Pointers /\ p \in LogPtrs
      BY <2>0, <2>1, VersionTypes DEF StealInv, PendingCopy
    <3>2. QED
      BY <2>0, <3>1 DEF Pointers, LogPtrs
  <2>4. /\ actual[o] = view[t][o] \/ (MayBeStolen(u, t) /\ lock[o] = p)
        /\ MayBeStolen(u, t) => LogEntry(p).val = view[t][o]
    BY <2>0, <2>1 DEF PendingView
  <2>5. MayBeStolen(u, t)' => MayBeStolen(u, t) /\ LogEntry(p)' = LogEntry(p)
    BY <1>2, <2>0, <2>1, PendingCopyStays
  <2>6. actual'[o] = view'[t][o] \/ (MayBeStolen(u, t)' /\ lock'[o] = p)
    <3>1. CASE actual[o] = view[t][o]
      BY <2>2, <2>3, <3>1, ContentsStay DEF SameSection
    <3>2. CASE MayBeStolen(u, t) /\ lock[o] = p
      <4>0. lock[o] # NULL /\ lock[o].thread = u
        BY <2>0, <2>3, <3>2, MarkerAssumption
      <4>1. CASE Untouched(o)
        <5>1. ~WritebackDone(a) \/ u # a
          BY <2>3, <4>0, NothingLeft
        <5>2. MayBeStolen(u, t)'
          <6>1. CASE u # a
            BY <2>1, <2>3, <3>2, <6>1, OthersStay DEF Others, MayBeStolen
          <6>2. CASE ~WritebackDone(a)
            BY <2>1, <2>3, <3>2, <6>2, StealableStays
          <6>3. QED
            BY <5>1, <6>1, <6>2
        <5>3. QED
          BY <3>2, <4>1, <5>2 DEF Untouched
      <4>2. CASE WrittenBack(a, o)
        BY <2>2, <2>4, <3>2, <4>2 DEF WrittenBack, SameSection
      <4>3. ~Taken(a, o)
        BY <4>0 DEF Taken
      <4>4. ~Discarded(a, o)
        BY <3>2, <4>0 DEF Discarded, MayBeStolen, Publishing, InSection, SectionLocs
      <4>5. QED
        BY <2>3, <4>1, <4>2, <4>3, <4>4, ObjectStep
    <3>3. QED
      BY <2>4, <3>1, <3>2
  <2>7. MayBeStolen(u, t)' => LogEntry(p)'.val = view'[t][o]
    BY <2>2, <2>4, <2>5 DEF SameSection
  <2>8. p_obj'[t].ptr = p /\ p_obj'[t].obj = o
    BY <2>0, <2>1
  <2>9. /\ MayBeStolen(p_obj[t].ptr.thread, t)' <=> MayBeStolen(u, t)'
        /\ LogEntry(p_obj[t].ptr)' = LogEntry(p)'
    BY <2>0, <2>8 DEF MayBeStolen, LogEntry
  <2>10. QED
    BY <2>6, <2>7, <2>8, <2>9 DEF PendingView
<1>3. QED
  BY <1>1, <1>2

\* What a section is given.
LEMMA NewHeld ==
  ASSUME TypeOK, NEW a \in Threads, ThreadStep(a), NEW h \in held'[a], h \notin held[a]
  PROVE  \/ \E o \in Objects : DerefActual(a, o) /\ h = [obj |-> o, ptr |-> ACTUAL]
         \/ \E o \in Objects : DerefOwnCopy(a, o) /\ h = [obj |-> o, ptr |-> lock[o]]
         \/ /\ DerefSteal(a)
            /\ h = [obj |-> p_obj[a].obj,
                    ptr |-> IF CanSteal(a) THEN p_obj[a].ptr ELSE ACTUAL]
<1>0. held \in [Threads -> SUBSET Pointers]
  BY VersionTypes
<1>1. ASSUME NEW o \in Objects, DerefActual(a, o) PROVE h = [obj |-> o, ptr |-> ACTUAL]
  BY <1>0, <1>1 DEF DerefActual, Hold
<1>2. ASSUME NEW o \in Objects, DerefOwnCopy(a, o) PROVE h = [obj |-> o, ptr |-> lock[o]]
  BY <1>0, <1>2 DEF DerefOwnCopy, Hold
<1>3. ASSUME DerefSteal(a)
      PROVE  h = [obj |-> p_obj[a].obj, ptr |-> IF CanSteal(a) THEN p_obj[a].ptr ELSE ACTUAL]
  BY <1>0, <1>3 DEF DerefSteal, Hold
<1>4. held'[a] # held[a] /\ held'[a] # {}
  OBVIOUS
<1>5. ~EnterSection(a) /\ ~Checkpoint(a) /\ ~rlu_thread_finish(a) /\ ~Sync(a)
  BY <1>4 DEF EnterSection, rlu_reader_lock, RegisterThread, ReadWriterVersion,
              ReadCommitVersion, Checkpoint, rlu_thread_finish, Sync, SyncLoadVersion,
              SyncStoreVersion, SyncAdvanceGlobal, rlu_init_quiescence,
              rlu_wait_for_quiescence, ResetWriteSets, WritebackObject, WritebackDone,
              SyncCommit, section
<1>6. ~LeaveSection(a)
  BY <1>0, <1>4 DEF LeaveSection, UnlockReader, UnlockWriter, rlu_abort, Unregister
<1>7. ~CasSucceeds(a) /\ ~CasFails(a) /\ \A o \in Objects : ~TryLock(a, o) /\ ~DerefLocked(a, o)
  BY <1>4 DEF CasSucceeds, CasFails, TryLock, TryLockOwn, TryLockBusy, TryLockFree,
              DerefLocked, section
<1>8. QED
  BY <1>1, <1>2, <1>3, <1>5, <1>6, <1>7 DEF ThreadStep, Deref

\* What a section holds reads what its snapshot has, until the section ends.
LEMMA HeldViewStays ==
  ASSUME TypeOK, RingInv, LockInv, GraceInv, StealInv, DOMAIN view = Threads,
         NEW a \in Threads, ThreadStep(a),
         NEW t \in Threads, InSection(t)', SnapshotOf(t),
         NEW h \in held[t], HeldView(t, h)
  PROVE  HeldView(t, h)'
<1>1. InSection(t) /\ Reading(t) /\ Reading(t)' /\ SameSection(t)
  <2>1. InSection(t) /\ Reading(t)'
    BY DEF StealInv, Reading, InSection
  <2>2. ~ReadWriterVersion(t)
    BY <2>1 DEF ReadWriterVersion, InSection, SectionLocs
  <2>3. QED
    BY <2>1, <2>2, SectionsGoOn
<1>2. h \in Pointers /\ h.obj \in Objects
  BY VersionTypes DEF Pointers
<1>3. CASE h.ptr = ACTUAL
  <2>1. actual[h.obj] = view[t][h.obj]
    BY <1>3 DEF HeldView, ValueAt
  <2>2. actual'[h.obj] = view[t][h.obj]
    BY <1>1, <1>2, <2>1, ContentsStay
  <2>3. QED
    BY <1>1, <1>3, <2>2 DEF HeldView, ValueAt, SameSection
<1>4. CASE h.ptr # ACTUAL
  <2>1. LogEntry(h.ptr)' = LogEntry(h.ptr)
    BY <1>1, <1>4, HeldCopyStays DEF SameSection
  <2>2. InCurrentLog(t, h.ptr) => InCurrentLog(t, h.ptr)'
    BY <1>1 DEF InCurrentLog, CurrentSlot, SameSection
  <2>3. QED
    BY <1>1, <1>4, <2>1, <2>2 DEF HeldView, ValueAt, SameSection
<1>5. QED
  BY <1>3, <1>4

\* Where a section is given the object, the object has what its snapshot has.
LEMMA ActualGiven ==
  ASSUME TypeOK, RingInv, LockInv, NEW t \in Threads, NEW o \in Objects, DerefActual(t, o),
         SnapshotOf(t), Flags(t)
  PROVE  actual[o] = view[t][o]
<1>1. InSection(t) /\ view[t][o] = Shown(t, o)
  BY DEF DerefActual, InSection, SectionLocs, SnapshotOf, Reading
<1>2. CASE lock[o] = NULL
  BY <1>1, <1>2 DEF Shown
<1>3. CASE lock[o] # NULL
  <2>1. PICK u \in Threads, c \in Nat, i \in Nat :
          Owned(u, c, i) /\ lock[o] = Address(u, c, i) /\ lock[o].thread = u
    BY <1>3, HeaderEntry
  <2>2. ASSUME u # t, NothingToSteal(t) PROVE actual[o] = view[t][o]
    BY <1>1, <2>1, <2>2 DEF Shown, Visible, NothingToSteal
  <2>3. CASE ~is_check_locks[t]
    <3>1. NothingToSteal(t) /\ ~is_write_detected[t] /\ ws_tail_counter[t] = ws_wb_counter[t]
      BY <1>1, <2>3 DEF Flags
    <3>2. u # t
      <4>1. SUFFICES ASSUME u = t PROVE FALSE
        OBVIOUS
      <4>2. c = ws_tail_counter[t]
        BY <2>1, <3>1, <4>1, Types DEF Owned
      <4>3. QED
        BY <2>1, <3>1, <4>1, <4>2, OpenEntries
    <3>3. QED
      BY <2>2, <3>1, <3>2
  <2>4. CASE is_check_locks[t]
    <3>1. u # t /\ ~is_steal[t]
      BY <1>3, <2>1, <2>4 DEF DerefActual
    <3>2. NothingToSteal(t)
      BY <1>1, <3>1 DEF Flags
    <3>3. QED
      BY <2>2, <3>1, <3>2
  <2>5. QED
    BY <2>3, <2>4
<1>4. QED
  BY <1>2, <1>3

\* Pointers that a section holds keep to its snapshot.
LEMMA StepHeldView ==
  ASSUME TypeOK, RingInv, LockInv, GraceInv, StealInv, VersionsFit, DOMAIN view = Threads,
         NEW a \in Threads, ThreadStep(a),
         \A u \in Threads : Undisturbed(u) /\ SnapshotInv(u),
         NEW t \in Threads, NEW h \in held'[t]
  PROVE  HeldView(t, h)'
<1>0. SnapshotOf(t) /\ Flags(t) /\ PendingView(t) /\ \A k \in held[t] : HeldView(t, k)
  BY DEF SnapshotInv
<1>1. CASE h \in held[t]
  <2>1. InSection(t)'
    <3>1. CASE t = a
      BY <3>1, SectionStep
    <3>2. CASE t # a
      BY <1>1, <3>2, OthersStay DEF Others, StealInv, InSection
    <3>3. QED
      BY <3>1, <3>2
  <2>2. QED
    BY <1>0, <1>1, <2>1, HeldViewStays
<1>2. CASE h \notin held[t]
  <2>1. t = a
    BY <1>2, OthersStay DEF Others
  <2>2. ASSUME NEW o \in Objects, DerefActual(a, o), h = [obj |-> o, ptr |-> ACTUAL]
        PROVE  HeldView(t, h)'
    <3>1. actual[o] = view[a][o] /\ UNCHANGED <<actual, view>>
      BY <1>0, <2>1, <2>2, ActualGiven DEF DerefActual, memory, history
    <3>2. QED
      BY <2>1, <2>2, <3>1 DEF HeldView, ValueAt
  <2>3. ASSUME NEW o \in Objects, DerefOwnCopy(a, o), h = [obj |-> o, ptr |-> lock[o]]
        PROVE  HeldView(t, h)'
    <3>1. /\ lock[o] # NULL /\ lock[o].thread = a /\ pc[a] = "section"
          /\ UNCHANGED <<pc, is_write_detected, ws_tail_counter, write_set, view>>
      BY <2>3 DEF DerefOwnCopy, flags, logs, history
    <3>2. h.obj = o /\ h.ptr = lock[o] /\ h.ptr # ACTUAL
      BY <2>3, <3>1, Types, MarkerAssumption
    <3>3. InCurrentLog(a, h.ptr)' <=> InCurrentLog(a, h.ptr)
      BY <3>1 DEF InCurrentLog, CurrentSlot, InSection
    <3>4. ~InCurrentLog(a, h.ptr) => LogEntry(h.ptr).val = view[a][o]
      BY <1>0, <2>1, <3>1, <3>2 DEF SnapshotOf, Reading, SectionLocs, Shown, Visible
    <3>5. LogEntry(h.ptr)' = LogEntry(h.ptr)
      BY <3>1 DEF LogEntry
    <3>6. QED
      BY <2>1, <3>1, <3>2, <3>3, <3>4, <3>5 DEF HeldView, ValueAt
  <2>4. ASSUME DerefSteal(a),
               h = [obj |-> p_obj[a].obj,
                    ptr |-> IF CanSteal(a) THEN p_obj[a].ptr ELSE ACTUAL]
        PROVE  HeldView(t, h)'
    <3>1. pc[a] = "deref" /\ UNCHANGED <<actual, write_set, view>>
      BY <2>4 DEF DerefSteal, memory, logs, history
    <3>2. CanSteal(a) <=> MayBeStolen(p_obj[a].ptr.thread, a)
      BY <3>1, StealDecides
    <3>3. p_obj[a].ptr # ACTUAL
      BY <3>1, MarkerAssumption DEF StealInv, PendingCopy
    <3>4. CASE CanSteal(a)
      <4>1. h.obj = p_obj[a].obj /\ h.ptr = p_obj[a].ptr
        BY <2>4, <3>4
      <4>2. LogEntry(h.ptr).val = view[a][h.obj]
        BY <1>0, <2>1, <3>1, <3>2, <3>4, <4>1 DEF PendingView
      <4>3. LogEntry(h.ptr)' = LogEntry(h.ptr)
        BY <3>1 DEF LogEntry
      <4>4. QED
        BY <2>1, <3>1, <3>3, <4>1, <4>2, <4>3 DEF HeldView, ValueAt
    <3>5. CASE ~CanSteal(a)
      <4>1. h.obj = p_obj[a].obj /\ h.ptr = ACTUAL
        BY <2>4, <3>5
      <4>2. actual[h.obj] = view[a][h.obj]
        BY <1>0, <2>1, <3>1, <3>2, <3>5, <4>1 DEF PendingView
      <4>3. QED
        BY <2>1, <3>1, <4>1, <4>2 DEF HeldView, ValueAt
    <3>6. QED
      BY <3>4, <3>5
  <2>5. QED
    BY <1>2, <2>1, <2>2, <2>3, <2>4, NewHeld
<1>3. QED
  BY <1>1, <1>2

\* A race, once recorded, stays recorded.
LEMMA RaceStays ==
  ASSUME NEW a \in Threads, ThreadStep(a), TypeOK, ~version_race'
  PROVE  ~version_race
<1>1. CASE SyncAdvanceGlobal(a)
  BY <1>1 DEF SyncAdvanceGlobal
<1>2. CASE WritebackDone(a) \/ SyncCommit(a)
  BY <1>2 DEF WritebackDone, SyncCommit, history
<1>3. CASE ~SyncAdvanceGlobal(a) /\ ~WritebackDone(a) /\ ~SyncCommit(a)
  BY <1>3, UncountedStep
<1>4. QED
  BY <1>1, <1>2, <1>3

\* SnapInv is inductive with the invariants of locks, rings and grace periods.
LEMMA StepSnapInv ==
  /\ TypeOK /\ RingInv /\ LockInv /\ GraceInv /\ StealInv /\ SnapInv
  /\ VersionsFit /\ [Next]_vars
  => SnapInv'
<1> SUFFICES ASSUME TypeOK, RingInv, LockInv, GraceInv, StealInv, SnapInv, VersionsFit,
                    [Next]_vars
             PROVE  SnapInv'
  OBVIOUS
<1>0. DOMAIN view = Threads /\ CountInv
  BY DEF SnapInv
<1>1. ASSUME NEW a \in Threads, ThreadStep(a) PROVE SnapInv'
  <2>1. DOMAIN view' = Threads
    BY <1>0, <1>1, ReadingStep DEF SectionGoesOn
  <2>2. CountInv'
    BY <1>0, <1>1, StepCountInv
  <2>3. ASSUME ~version_race', NEW t \in Threads PROVE Undisturbed(t)' /\ SnapshotInv(t)'
    <3>1. \A u \in Threads : Undisturbed(u) /\ SnapshotInv(u)
      BY <1>1, <2>3, RaceStays DEF SnapInv
    <3>2. \A u \in Threads : Undisturbed(u) /\ CountBound(u)
      BY <3>1 DEF SnapshotInv
    <3>3. SnapshotOf(t) /\ Flags(t) /\ PendingView(t)
      BY <3>1 DEF SnapshotInv
    <3>4. Undisturbed(t)'
      BY <1>1, <2>3, <3>1, StepUndisturbed
    <3>5. CountBound(t)'
      BY <1>0, <1>1, <3>2, StepCountBound
    <3>6. SnapshotOf(t)'
      BY <1>0, <1>1, <3>2, <3>3, StepSnapshotOf
    <3>7. Flags(t)'
      BY <1>0, <1>1, <3>2, <3>3, StepFlags
    <3>8. PendingView(t)'
      BY <1>0, <1>1, <3>3, StepPendingView
    <3>9. \A h \in held'[t] : HeldView(t, h)'
      BY <1>0, <1>1, <3>1, StepHeldView
    <3>10. QED
      BY <3>4, <3>5, <3>6, <3>7, <3>8, <3>9 DEF SnapshotInv
  <2>4. QED
    BY <2>1, <2>2, <2>3 DEF SnapInv
<1>2. CASE UNCHANGED vars
  <2>1. UNCHANGED <<pc, lock, actual, held, p_obj, g_rlu_writer_version, g_rlu_commit_version,
                    local_version, writer_version, new_version, ws_wb_counter,
                    ws_tail_counter, write_set, is_write_detected, is_steal, is_check_locks,
                    view, version_race>>
    BY <1>2 DEF vars, globals, memory, versions, flags, logs, loops, section, history
  <2>2. \A t \in Threads : \A u : MayBeStolen(u, t)' <=> MayBeStolen(u, t)
    BY <2>1 DEF MayBeStolen
  <2>3. CountInv' /\ DOMAIN view' = Threads
    BY <1>0, <2>1 DEF CountInv, SyncsOpen
  <2>4. ASSUME ~version_race', NEW t \in Threads PROVE Undisturbed(t)' /\ SnapshotInv(t)'
    <3>1. Undisturbed(t) /\ SnapshotInv(t)
      BY <2>1, <2>4 DEF SnapInv
    <3>2. Undisturbed(t)' /\ CountBound(t)'
      BY <2>1, <3>1 DEF Undisturbed, SnapshotInv, CountBound, Counted, Reading
    <3>3. \A o \in Objects : Shown(t, o)' = Shown(t, o)
      BY <2>1, <2>2 DEF Shown, Visible, InCurrentLog, InSection, CurrentSlot, LogEntry
    <3>4. SnapshotOf(t)'
      BY <2>1, <3>1, <3>3 DEF SnapshotInv, SnapshotOf, Reading
    <3>5. NothingToSteal(t)' <=> NothingToSteal(t)
      BY <2>2 DEF NothingToSteal
    <3>6. Flags(t)'
      <4>1. Flags(t)
        BY <3>1 DEF SnapshotInv
      <4>2. QED
        BY <2>1, <3>5, <4>1 DEF Flags, InSection
    <3>7. PendingView(t)'
      BY <2>1, <2>2, <3>1 DEF SnapshotInv, PendingView, LogEntry
    <3>8. \A h \in held'[t] : HeldView(t, h)'
      BY <2>1, <3>1 DEF SnapshotInv, HeldView, InCurrentLog, InSection, CurrentSlot, ValueAt,
                        LogEntry
    <3>9. QED
      BY <3>2, <3>4, <3>6, <3>7, <3>8 DEF SnapshotInv
  <2>5. QED
    BY <2>3, <2>4 DEF SnapInv
<1>3. QED
  BY <1>1, <1>2 DEF Next, Terminated

------------------------------------------------------------------------------

\* SnapInv is about what the property SnapshotReads is about.
LEMMA SnapInvImpliesSnapshotReads == SnapInv => SnapshotReads
  BY DEF SnapInv, SnapshotInv, HeldView, SnapshotReads

\* The object a section locked had, when it was locked, what its snapshot has.
LEMMA SnapInvImpliesWritesExtend ==
  TypeOK /\ RingInv /\ LockInv /\ ValueInv /\ SnapInv => WritesExtendSnapshot
<1> SUFFICES ASSUME TypeOK, RingInv, LockInv, ValueInv, SnapInv, ~version_race,
                    NEW t \in Threads, NEW o \in Objects,
                    lock[o] # NULL, InCurrentLog(t, lock[o])
             PROVE  LogEntry(lock[o]).val = view[t][o] + 1
  BY DEF WritesExtendSnapshot
<1>1. PICK u \in Threads, c \in Nat, i \in Nat :
        /\ Owned(u, c, i) /\ EntryAt(u, c, i).obj = o
        /\ lock[o] = Address(u, c, i) /\ lock[o].thread = u
        /\ LogEntry(lock[o]) = EntryAt(u, c, i)
  BY HeaderEntry
<1>2. LogEntry(lock[o]).val = actual[o] + 1
  <2>1. EntryValue(u, c, i)
    BY <1>1 DEF ValueInv, OwnedValues
  <2>2. EntryAt(u, c, i).val = actual[EntryAt(u, c, i).obj] + 1
    BY <2>1 DEF EntryValue
  <2>3. QED
    BY <1>1, <2>2
<1>3. Reading(t) /\ lock[o].thread = t
  BY DEF InCurrentLog, InSection, Reading
<1>4. view[t][o] = Shown(t, o)
  BY <1>3 DEF SnapInv, SnapshotInv, SnapshotOf
<1>5. Shown(t, o) = actual[o]
  BY <1>3 DEF Shown, Visible
<1>6. QED
  BY <1>2, <1>4, <1>5

\* In every execution in which versions fit and no two syncs draw theirs at the
\* same time, every pointer rlu_deref gave to an open section reads the object
\* as it was when the section began, until the section ends; its own locked
\* copies are excepted.
THEOREM SectionsReadSnapshots == Spec /\ []VersionsFit => []SnapshotReads
<1> DEFINE Inv == TypeOK /\ RingInv /\ LockInv /\ GraceInv /\ StealInv /\ SnapInv
<1>1. Init => Inv
  BY InitTypeOK, InitRingInv, InitLockInv, InitGraceInv, InitStealInv, InitSnapInv
<1>2. Inv /\ VersionsFit /\ [Next]_vars => Inv'
  BY StepTypeOK, StepRingInv, StepLockInv, StepGraceInv, StepStealInv, StepSnapInv
<1>3. Inv => SnapshotReads
  BY SnapInvImpliesSnapshotReads
<1>4. QED
  BY <1>1, <1>2, <1>3, PTL DEF Spec

\* In the same executions, what a section writes is its change of what its
\* snapshot has, not of something newer: rlu_try_lock locks no object that was
\* changed since the section began.
THEOREM SectionsExtendSnapshots == Spec /\ []VersionsFit => []WritesExtendSnapshot
<1> DEFINE Inv ==
      TypeOK /\ RingInv /\ LockInv /\ ValueInv /\ GraceInv /\ StealInv /\ SnapInv
<1>1. Init => Inv
  BY InitTypeOK, InitRingInv, InitLockInv, InitValueInv, InitGraceInv, InitStealInv, InitSnapInv
<1>2. Inv /\ VersionsFit /\ [Next]_vars => Inv'
  BY StepTypeOK, StepRingInv, StepLockInv, StepValueInv, StepGraceInv, StepStealInv, StepSnapInv
<1>3. Inv => WritesExtendSnapshot
  BY SnapInvImpliesWritesExtend
<1>4. QED
  BY <1>1, <1>2, <1>3, PTL DEF Spec
==============================================================================
