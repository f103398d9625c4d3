--------------------------- MODULE RLUStore_proofs ---------------------------
(***************************************************************************)
(* RLU implements the snapshot store, for every number of threads,         *)
(* objects, write sets, ring size and number of sections, in the           *)
(* executions in which versions fit and no two syncs draw theirs at the    *)
(* same time.                                                              *)
(*                                                                         *)
(* Seven kinds of steps show in the store: the read of the global version  *)
(* begins a section, the CAS writes, the two unlocks commit, rlu_abort     *)
(* aborts, the advance of the global version publishes, and the three ways *)
(* to be given a pointer read.  All others change nothing in it, the       *)
(* write-back among them, because of the invariants of the other modules.  *)
(***************************************************************************)
EXTENDS RLUStore, RLUSnapshot_proofs

AllInv == TypeOK /\ RingInv /\ LockInv /\ ValueInv /\ GraceInv /\ StealInv /\ SnapInv

\* At first the runtime is an empty store.
LEMMA InitAbstract == Init => Abstract!Init
  BY DEF Init, Abstract!Init, AbstractStore, AbstractPending, AbstractOpen, AbstractSeen, WrittenBy,
  OwnedBy, Published, InSection, SectionLocs, Abstract!Blank, NoView

(***************************************************************************)
(* What steps leave alone.                                                 *)
(***************************************************************************)

\* A copy that still locks its object belongs to the open section as before.
LEMMA CurrentStays ==
  ASSUME TypeOK, RingInv, LockInv, DOMAIN view = Threads, NEW a \in Threads, ThreadStep(a),
         NEW t \in Threads, ~(t = a /\ UnlockWriter(a)),
         NEW o \in Objects, lock[o] # NULL, lock'[o] = lock[o]
  PROVE  InCurrentLog(t, lock[o])' <=> InCurrentLog(t, lock[o])
<1>1. PICK u \in Threads, c \in Nat, i \in Nat :
        /\ Owned(u, c, i) /\ EntryAt(u, c, i).obj = o
        /\ lock[o] = Address(u, c, i) /\ lock[o].thread = u
  BY HeaderEntry
<1>2. CASE u # t
  BY <1>1, <1>2 DEF InCurrentLog
<1>3. CASE u = t /\ t # a
  BY <1>3, OthersStay DEF Others, InCurrentLog, InSection, CurrentSlot
<1>4. CASE u = a /\ t = a /\ InSection(a)
  <2>1. InCurrentLog(a, lock[o]) <=> c = ws_tail_counter[a]
    BY <1>1, <1>4, OpenEntries
  <2>2. CASE InSection(a)'
    <3>1. SameSection(a)
      <4>1. Reading(a)' /\ ~ReadWriterVersion(a)
        BY <1>4, <2>2 DEF Reading, InSection, ReadWriterVersion, SectionLocs
      <4>2. QED
        BY <4>1, ReadingStep DEF SectionGoesOn
    <3>2. InCurrentLog(a, lock[o]) => InCurrentLog(a, lock[o])'
      BY <2>2, <3>1 DEF InCurrentLog, CurrentSlot, SameSection
    <3>3. ASSUME InCurrentLog(a, lock[o])' PROVE c = ws_tail_counter[a]
      <4>1. WS_INDEX(c) = WS_INDEX(ws_tail_counter[a])
        BY <1>1, <3>1, <3>3 DEF InCurrentLog, CurrentSlot, Address, SameSection
      <4>2. /\ c \in ws_wb_counter[a] .. ws_tail_counter[a]
            /\ ws_tail_counter[a] \in ws_wb_counter[a] .. ws_tail_counter[a]
        BY <1>1, <1>4, Types DEF Owned, RingInv, RingCounters
      <4>3. QED
        BY <4>1, <4>2, OneCounterPerSlot
    <3>4. QED
      BY <1>4, <2>1, <3>2, <3>3
  <2>3. CASE ~InSection(a)'
    <3>1. LeaveSection(a)
      BY <1>4, <2>3, ReadingStep DEF SectionGoesOn
    <3>2. SUFFICES ASSUME InCurrentLog(a, lock[o]) PROVE FALSE
      BY <1>4, <2>3 DEF InCurrentLog
    <3>3. is_write_detected[a] /\ rlu_abort(a)
      BY <1>4, <3>1, <3>2 DEF InCurrentLog, LeaveSection, UnlockReader
    <3>4. o \in LogObjects(a)
      BY <1>1, <1>4, <2>1, <3>2, <3>3, LogObjectsOwned
    <3>5. lock'[o] = NULL
      BY <3>3, <3>4 DEF rlu_abort, DiscardLog
    <3>6. QED
      BY <3>5
  <2>4. QED
    BY <2>2, <2>3
<1>5. CASE t = a /\ ~InSection(a)
  <2>1. SUFFICES ASSUME InSection(a)' PROVE ~is_write_detected'[a]
    BY <1>5 DEF InCurrentLog
  <2>2. ReadCommitVersion(a)
    BY <1>5, <2>1, ReadingStep DEF SectionGoesOn
  <2>3. is_write_detected'[a] = is_write_detected[a] /\ ~is_write_detected[a]
    BY <1>5, <2>2 DEF ReadCommitVersion, RingInv, OpenLog, InSection
  <2>4. QED
    BY <2>3
<1>6. QED
  BY <1>2, <1>3, <1>4, <1>5

\* Which step it was that locked or discarded an object.
LEMMA WhichStep ==
  ASSUME TypeOK, RingInv, LockInv, DOMAIN view = Threads, NEW a \in Threads, ThreadStep(a),
         NEW o \in Objects
  PROVE  /\ Taken(a, o) => CasSucceeds(a)
         /\ Discarded(a, o) => rlu_abort(a) /\ InCurrentLog(a, lock[o])
<1>0. lock \in [Objects -> LogPtrs \union {NULL}]
  BY Types
<1>1. ASSUME Taken(a, o) PROVE CasSucceeds(a)
  <2>1. lock[o] = NULL /\ lock'[o] # NULL
    BY <1>1 DEF Taken
  <2>2. ~rlu_abort(a)
    BY <2>1 DEF rlu_abort, DiscardLog
  <2>3. ~WritebackObject(a)
    BY <1>0, <2>1 DEF WritebackObject
  <2>4. QED
    BY <2>1, <2>2, <2>3, MemoryStays DEF memory
<1>2. ASSUME Discarded(a, o) PROVE rlu_abort(a) /\ InCurrentLog(a, lock[o])
  <2>1. lock[o] # NULL /\ lock'[o] = NULL /\ InSection(a) /\ ~InSection(a)'
    BY <1>2 DEF Discarded, Reading, InSection
  <2>2. LeaveSection(a)
    BY <2>1, ReadingStep DEF SectionGoesOn
  <2>3. rlu_abort(a)
    BY <2>1, <2>2 DEF LeaveSection, UnlockReader, UnlockWriter, memory
  <2>4. is_write_detected[a] /\ o \in LogObjects(a)
    BY <2>1, <2>3 DEF rlu_abort, DiscardLog
  <2>5. PICK j \in Nat : /\ Owned(a, ws_tail_counter[a], j)
                         /\ EntryAt(a, ws_tail_counter[a], j).obj = o
    BY <2>4, LogObjectsLocked
  <2>6. ws_tail_counter[a] \in Nat /\ lock[o] = Address(a, ws_tail_counter[a], j)
    BY <2>5, Types DEF LockInv, OwnedAreLocked
  <2>7. QED
    BY <2>3, <2>5, <2>6, OpenEntries
<1>3. QED
  BY <1>1, <1>2

\* A thread's copies are published by one step only, and none is left when
\* they cease to be.
LEMMA PublishedStays ==
  ASSUME TypeOK, RingInv, LockInv, NEW a \in Threads, ThreadStep(a), ~SyncAdvanceGlobal(a),
         NEW t \in Threads, NEW o \in Objects, lock[o] # NULL, lock[o].thread = t
  PROVE  Published(t)' <=> Published(t)
<1>0. pc \in [Threads -> Locs] /\ ret \in [Threads -> ReturnLocs]
  BY Types, VersionTypes
<1>1. CASE t # a
  BY <1>1, OthersStay DEF Others, Published
<1>2. CASE WritebackDone(a)
  BY <1>1, <1>2, NothingLeft
<1>3. CASE SyncCommit(a) /\ t = a
  <2>1. pc[a] = "commit" /\ pc'[a] = ret[a]
    BY <1>0, <1>3 DEF SyncCommit, Goto
  <2>2. ret[a] \in ReturnLocs
    BY <1>0
  <2>3. QED
    BY <1>3, <2>1, <2>2 DEF Published, ReturnLocs
<1>4. CASE ~WritebackDone(a) /\ ~SyncCommit(a) /\ t = a
  BY <1>4, UncountedStep DEF Published, Advanced, Publishing
<1>5. QED
  BY <1>1, <1>2, <1>3, <1>4

\* Copying back changes nothing that is published, nor do locks and aborts.
LEMMA StoreStays ==
  ASSUME TypeOK, RingInv, LockInv, DOMAIN view = Threads, NEW a \in Threads, ThreadStep(a),
         ~SyncAdvanceGlobal(a)
  PROVE  AbstractStore' = AbstractStore
<1> DEFINE Value(o) ==
      IF lock[o] # NULL /\ Published(lock[o].thread) THEN LogEntry(lock[o]).val ELSE actual[o]
<1>1. ASSUME NEW o \in Objects PROVE Value(o)' = Value(o)
  <2>1. CASE Untouched(o)
    <3>1. CASE lock[o] = NULL
      BY <2>1, <3>1 DEF Untouched
    <3>2. CASE lock[o] # NULL
      <4>1. lock'[o] = lock[o] /\ actual'[o] = actual[o]
        BY <2>1 DEF Untouched
      <4>2. lock[o].thread \in Threads
        BY <3>2, HeaderEntry
      <4>3. Published(lock[o].thread)' <=> Published(lock[o].thread)
        BY <3>2, <4>1, <4>2, PublishedStays DEF Published
      <4>4. LogEntry(lock[o])' = LogEntry(lock[o])
        BY <3>2, <4>1, LockedCopyStays
      <4>5. QED
        BY <4>1, <4>3, <4>4
    <3>3. QED
      BY <3>1, <3>2
  <2>2. CASE Taken(a, o)
    BY <2>2 DEF Taken, Published
  <2>3. CASE Discarded(a, o)
    BY <2>3 DEF Discarded, Published, InSection, SectionLocs
  <2>4. CASE WrittenBack(a, o)
    BY <2>4 DEF WrittenBack, Published
  <2>5. QED
    BY <2>1, <2>2, <2>3, <2>4, ObjectStep
<1>2. QED
  BY <1>1 DEF AbstractStore

\* What an open section has locked stays its own until it ends.
LEMMA WrittenStays ==
  ASSUME TypeOK, RingInv, LockInv, DOMAIN view = Threads, NEW a \in Threads, ThreadStep(a),
         NEW t \in Threads, ~(t = a /\ LeaveSection(a)),
         NEW o \in Objects, ~(t = a /\ Taken(a, o))
  PROVE  o \in WrittenBy(t)' <=> o \in WrittenBy(t)
<1>1. CASE Untouched(o)
  <2>1. ~(t = a /\ UnlockWriter(a))
    BY DEF LeaveSection
  <2>2. lock[o] # NULL => (InCurrentLog(t, lock[o])' <=> InCurrentLog(t, lock[o]))
    BY <1>1, <2>1, CurrentStays DEF Untouched
  <2>3. QED
    BY <1>1, <2>2 DEF Untouched, WrittenBy, OwnedBy
<1>2. CASE Taken(a, o)
  BY <1>2 DEF Taken, WrittenBy, OwnedBy
<1>3. CASE Discarded(a, o)
  <2>1. t # a
    BY <1>3, WhichStep DEF LeaveSection
  <2>2. QED
    BY <1>3, <2>1 DEF Discarded, WrittenBy, OwnedBy
<1>4. CASE WrittenBack(a, o)
  BY <1>4 DEF WrittenBack, WrittenBy, OwnedBy, InCurrentLog, InSection, SectionLocs
<1>5. QED
  BY <1>1, <1>2, <1>3, <1>4, ObjectStep

\* What a thread has committed and not published stays so until it is published.
LEMMA PendingStays ==
  ASSUME TypeOK, RingInv, LockInv, DOMAIN view = Threads, NEW a \in Threads, ThreadStep(a),
         ~SyncAdvanceGlobal(a), NEW t \in Threads, ~(t = a /\ UnlockWriter(a))
  PROVE  AbstractPending'[t] = AbstractPending[t]
<1> DEFINE Pending(o) ==
      /\ ~Published(t) /\ lock[o] # NULL /\ lock[o].thread = t
      /\ ~InCurrentLog(t, lock[o])
<1>1. ASSUME NEW o \in Objects PROVE Pending(o)' <=> Pending(o)
  <2>1. CASE Untouched(o)
    <3>1. lock'[o] = lock[o]
      BY <2>1 DEF Untouched
    <3>2. CASE lock[o] # NULL /\ lock[o].thread = t
      <4>1. InCurrentLog(t, lock[o])' <=> InCurrentLog(t, lock[o])
        BY <3>1, <3>2, CurrentStays
      <4>2. Published(t)' <=> Published(t)
        BY <3>2, PublishedStays
      <4>3. QED
        BY <3>1, <4>1, <4>2
    <3>3. CASE ~(lock[o] # NULL /\ lock[o].thread = t)
      BY <3>1, <3>3
    <3>4. QED
      BY <3>2, <3>3
  <2>2. CASE Taken(a, o)
    BY <2>2 DEF Taken
  <2>3. CASE Discarded(a, o)
    BY <2>3, WhichStep DEF Discarded
  <2>4. CASE WrittenBack(a, o)
    BY <2>4 DEF WrittenBack, Published
  <2>5. QED
    BY <2>1, <2>2, <2>3, <2>4, ObjectStep
<1>2. AbstractPending[t] = {o \in Objects : Pending(o)}
  BY DEF AbstractPending, OwnedBy, WrittenBy
<1>3. AbstractPending'[t] = {o \in Objects : Pending(o)'}
  BY DEF AbstractPending, OwnedBy, WrittenBy
<1>4. QED
  BY <1>1, <1>2, <1>3

\* Sections begin, and end, in the steps named for it.
LEMMA OpenStays ==
  ASSUME TypeOK, DOMAIN view = Threads, NEW a \in Threads, ThreadStep(a),
         ~ReadWriterVersion(a), ~LeaveSection(a)
  PROVE  UNCHANGED <<view, AbstractOpen>>
<1>1. UNCHANGED view
  <2>1. ASSUME EnterSection(a) PROVE UNCHANGED view
    BY <2>1 DEF EnterSection, rlu_reader_lock, RegisterThread, ReadCommitVersion, history
  <2>2. ASSUME NEW o \in Objects, Deref(a, o) \/ TryLock(a, o) PROVE UNCHANGED view
    BY <2>2 DEF Deref, DerefActual, DerefOwnCopy, DerefLocked,
                TryLock, TryLockOwn, TryLockBusy, TryLockFree, history
  <2>3. ASSUME DerefSteal(a) \/ CasSucceeds(a) \/ CasFails(a) \/ Checkpoint(a)
               \/ rlu_thread_finish(a)
        PROVE  UNCHANGED view
    BY <2>3 DEF DerefSteal, CasSucceeds, CasFails, Checkpoint, rlu_thread_finish, history
  <2>4. ASSUME Sync(a) PROVE UNCHANGED view
    BY <2>4 DEF Sync, SyncLoadVersion, SyncStoreVersion, SyncAdvanceGlobal,
                rlu_init_quiescence, rlu_wait_for_quiescence, ResetWriteSets,
                WritebackObject, WritebackDone, SyncCommit, history
  <2>5. QED
    BY <2>1, <2>2, <2>3, <2>4 DEF ThreadStep
<1>2. Reading(a)' <=> Reading(a)
  <2>1. Reading(a)' => Reading(a)
    BY ReadingStep DEF SectionGoesOn
  <2>2. InSection(a) => InSection(a)'
    BY ReadingStep DEF SectionGoesOn
  <2>3. ASSUME pc[a] = "read_commit" PROVE Reading(a)'
    <3>1. ReadCommitVersion(a)
      BY <2>3 DEF ThreadStep, EnterSection, rlu_reader_lock, RegisterThread, ReadWriterVersion,
                  Deref, DerefActual, DerefOwnCopy, DerefLocked, TryLock, TryLockOwn,
                  TryLockBusy, TryLockFree, DerefSteal, CasSucceeds, CasFails, Checkpoint,
                  rlu_thread_finish, Sync, SyncLoadVersion, SyncStoreVersion,
                  SyncAdvanceGlobal, rlu_init_quiescence, rlu_wait_for_quiescence,
                  ResetWriteSets, WritebackObject, WritebackDone, SyncCommit
    <3>2. QED
      BY <3>1, Types DEF ReadCommitVersion, Goto, Reading, SectionLocs
  <2>4. QED
    BY <2>1, <2>2, <2>3 DEF Reading, InSection
<1>3. \A t \in Threads : Reading(t)' <=> Reading(t)
  BY <1>2, OthersStay DEF Others, Reading
<1>4. AbstractOpen' = AbstractOpen
  BY <1>3 DEF AbstractOpen, Reading, InSection
<1>5. QED
  BY <1>1, <1>4

\* The pointers AbstractSeen looks at.
Counts(t, h) == h.ptr = ACTUAL \/ ~InCurrentLog(t, h.ptr)
CountedHeld(t) == {h \in held[t] : Counts(t, h)}

\* The objects of a set of pointers, each with its version in a snapshot.
ReadOf(S, v) == {<<h.obj, v[h.obj]>> : h \in S}

\* What a section has read is what its snapshot has: the pointers matter only
\* through the objects they were given for.
SeenFromView ==
  \A t \in Threads : AbstractSeen[t] = ReadOf(CountedHeld(t), view[t])

\* What a section read is what its view, taken when it began, says of the objects.
LEMMA SeenIsSnapshot == SnapInv /\ NoVersionRace => SeenFromView
<1> SUFFICES ASSUME SnapInv, NoVersionRace, NEW t \in Threads
             PROVE  AbstractSeen[t] = ReadOf(CountedHeld(t), view[t])
  BY DEF SeenFromView
<1>1. \A h \in held[t] : Counts(t, h) => ValueAt(h) = view[t][h.obj]
  BY DEF SnapInv, SnapshotInv, HeldView, NoVersionRace, Counts
<1>2. QED
  BY <1>1 DEF AbstractSeen, Counts, CountedHeld, ReadOf

\* The same for both ends of a step.
LEMMA SeenIsSnapshotNext == SnapInv' /\ NoVersionRace' => SeenFromView'
  BY SeenIsSnapshot, PTL

\* A copy a section holds never becomes one of its own open log: that log was
\* empty before the section's first lock.
LEMMA CountsStays ==
  ASSUME TypeOK, RingInv, StealInv, NEW t \in Threads, InSection(t), InSection(t)',
         SameSection(t), NEW h \in held[t]
  PROVE  Counts(t, h)' <=> Counts(t, h)
<1>1. CurrentSlot(t)' = CurrentSlot(t)
  BY DEF SameSection, CurrentSlot
<1>2. InCurrentLog(t, h.ptr) => InCurrentLog(t, h.ptr)'
  BY <1>1 DEF InCurrentLog, SameSection
<1>3. ASSUME h.ptr # ACTUAL, InCurrentLog(t, h.ptr)' PROVE is_write_detected[t]
  <2>1. h.ptr.thread = t /\ h.ptr.ws = CurrentSlot(t)
    BY <1>1, <1>3 DEF InCurrentLog
  <2>2. h.ptr.idx \in DOMAIN write_set[t][CurrentSlot(t)]
    BY <1>3, <2>1 DEF StealInv, HeldCopy, Names
  <2>3. ~is_write_detected[t] => write_set[t][CurrentSlot(t)] = <<>>
    BY RingInvImpliesFreshLog DEF FreshLog, InSection, SectionLocs, SyncLocs
  <2>4. QED
    BY <2>2, <2>3
<1>4. QED
  BY <1>1, <1>2, <1>3 DEF Counts, InCurrentLog

\* Unless it is given a pointer or ends, a section has read what it had read.
LEMMA SeenStays ==
  ASSUME AllInv, AllInv', NoVersionRace, NoVersionRace', NEW a \in Threads, ThreadStep(a),
         NEW t \in Threads, held'[t] = held[t]
  PROVE  AbstractSeen'[t] = AbstractSeen[t]
<1>0. /\ TypeOK /\ RingInv /\ StealInv /\ SnapInv /\ DOMAIN view = Threads
      /\ StealInv' /\ SnapInv'
  BY DEF AllInv, SnapInv
<1>1. CASE held[t] = {}
  BY <1>1 DEF AbstractSeen
<1>2. CASE held[t] # {}
  <2>1. InSection(t) /\ InSection(t)'
    BY <1>0, <1>2 DEF StealInv
  <2>2. SameSection(t)
    <3>1. Reading(t)' /\ ~ReadWriterVersion(t)
      BY <2>1 DEF Reading, InSection, ReadWriterVersion, SectionLocs
    <3>2. QED
      BY <1>0, <3>1, SectionsGoOn
  <2>3. view'[t] = view[t]
    BY <2>2 DEF SameSection
  <2>4. \A h \in held[t] : Counts(t, h)' <=> Counts(t, h)
    BY <1>0, <2>1, <2>2, CountsStays
  <2>5. AbstractSeen[t] = ReadOf(CountedHeld(t), view[t])
    BY <1>0, SeenIsSnapshot DEF SeenFromView
  <2>6. AbstractSeen'[t] = ReadOf(CountedHeld(t)', view'[t])
    BY <1>0, SeenIsSnapshotNext DEF SeenFromView, ReadOf
  <2>7. CountedHeld(t)' = CountedHeld(t)
    BY <2>4 DEF CountedHeld
  <2>8. QED
    BY <2>3, <2>5, <2>6, <2>7
<1>3. QED
  BY <1>1, <1>2

\* A pointer given is a read of the snapshot, unless it is the section's own copy.
LEMMA SeenGrows ==
  ASSUME AllInv, AllInv', NoVersionRace, NoVersionRace', NEW a \in Threads, ThreadStep(a),
         InSection(a), InSection(a)', NEW h, held'[a] = held[a] \union {h}
  PROVE  \/ AbstractSeen'[a] = AbstractSeen[a]
         \/ AbstractSeen'[a] = AbstractSeen[a] \union {<<h.obj, view[a][h.obj]>>}
<1>0. /\ TypeOK /\ RingInv /\ StealInv /\ SnapInv /\ DOMAIN view = Threads
      /\ StealInv' /\ SnapInv'
  BY DEF AllInv, SnapInv
<1>1. SameSection(a)
  <2>1. Reading(a)' /\ ~ReadWriterVersion(a)
    BY DEF Reading, InSection, ReadWriterVersion, SectionLocs
  <2>2. QED
    BY <1>0, <2>1, SectionsGoOn
<1>2. view'[a] = view[a]
  BY <1>1 DEF SameSection
<1>3. \A k \in held[a] : Counts(a, k)' <=> Counts(a, k)
  BY <1>0, <1>1, CountsStays
<1>4. AbstractSeen[a] = ReadOf(CountedHeld(a), view[a])
  BY <1>0, SeenIsSnapshot DEF SeenFromView
<1>5. AbstractSeen'[a] = ReadOf(CountedHeld(a)', view'[a])
  BY <1>0, SeenIsSnapshotNext DEF SeenFromView, ReadOf
<1>6. CASE CountedHeld(a)' = CountedHeld(a)
  BY <1>2, <1>4, <1>5, <1>6
<1>7. CASE CountedHeld(a)' = CountedHeld(a) \union {h}
  <2>1. \A v : ReadOf(CountedHeld(a) \union {h}, v) =
                 ReadOf(CountedHeld(a), v) \union {<<h.obj, v[h.obj]>>}
    BY DEF ReadOf
  <2>2. QED
    BY <1>2, <1>4, <1>5, <1>7, <2>1
<1>8. CountedHeld(a)' = CountedHeld(a) \/ CountedHeld(a)' = CountedHeld(a) \union {h}
  <2>1. CASE Counts(a, h)'
    BY <1>3, <2>1 DEF CountedHeld
  <2>2. CASE ~Counts(a, h)'
    BY <1>3, <2>2 DEF CountedHeld
  <2>3. QED
    BY <2>1, <2>2
<1>9. QED
  BY <1>6, <1>7, <1>8

(***************************************************************************)
(* The steps that show in the store.                                       *)
(***************************************************************************)
\* The invariants, and what a step is taken under.
Both == AllInv /\ NoVersionRace /\ VersionsFit

\* A thread outside sections has locked nothing that is not committed.
LEMMA NothingWritten ==
  ASSUME NEW t \in Threads, ~InSection(t) \/ ~is_write_detected[t]
  PROVE  WrittenBy(t) = {}
  BY DEF WrittenBy, InCurrentLog

\* The copy that locks an object is one change ahead of its contents.
LEMMA CopyIsNext ==
  ASSUME AllInv, NEW o \in Objects, lock[o] # NULL
  PROVE  lock[o].thread \in Threads /\ LogEntry(lock[o]).val = actual[o] + 1
<1>1. PICK u \in Threads, c \in Nat, i \in Nat :
        /\ Owned(u, c, i) /\ EntryAt(u, c, i).obj = o
        /\ lock[o] = Address(u, c, i) /\ lock[o].thread = u
        /\ LogEntry(lock[o]) = EntryAt(u, c, i)
  BY HeaderEntry DEF AllInv
<1>2. EntryValue(u, c, i)
  BY <1>1 DEF AllInv, ValueInv, OwnedValues
<1>3. EntryAt(u, c, i).val = actual[EntryAt(u, c, i).obj] + 1
  BY <1>2 DEF EntryValue
<1>4. QED
  BY <1>1, <1>3

\* Outside a race the versions tell what is published.
LEMMA VersionTellsPublished ==
  ASSUME Both, NEW u \in Threads
  PROVE  writer_version[u] <= g_rlu_writer_version <=> Published(u)
<1>0. g_rlu_writer_version \in Nat /\ writer_version[u] \in Nat /\ MAX_VERSION \in Nat
  BY VersionTypes, BoundAssumption DEF Both, AllInv
<1>1. CASE Published(u)
  BY <1>1 DEF Both, AllInv, GraceInv, VersionBound, Published
<1>2. CASE pc[u] = "sync_faa"
  <2>1. writer_version[u] = g_rlu_writer_version + 1
    BY <1>2 DEF Both, AllInv, SnapInv, Undisturbed, NoVersionRace
  <2>2. QED
    BY <1>0, <1>2, <2>1 DEF Published
<1>3. CASE pc[u] \notin Publishing
  <2>1. writer_version[u] = MAX_VERSION
    BY <1>3 DEF Both, AllInv, StealInv, Version
  <2>2. QED
    BY <1>0, <1>3, <2>1 DEF Both, VersionsFit, Published, Publishing
<1>4. QED
  BY <1>1, <1>2, <1>3 DEF Published, Publishing

\* A section begins with what is published and its thread's unpublished changes.
LEMMA BeginStep ==
  ASSUME Both, AllInv', NoVersionRace', NEW a \in Threads, ReadWriterVersion(a)
  PROVE  Abstract!Begin(a)
<1>0. /\ ThreadStep(a) /\ TypeOK /\ RingInv /\ LockInv /\ DOMAIN view = Threads
      /\ pc \in [Threads -> Locs]
  BY Types DEF ThreadStep, EnterSection, Both, AllInv, SnapInv
<1>1. /\ pc[a] = "read_version" /\ pc' = [pc EXCEPT ![a] = "read_commit"]
      /\ view' = [view EXCEPT ![a] = ViewOf(a)] /\ UNCHANGED held
  BY DEF ReadWriterVersion, Goto, section
<1>2. a \notin AbstractOpen /\ AbstractOpen' = AbstractOpen \union {a}
  BY <1>0, <1>1 DEF AbstractOpen, InSection, SectionLocs
<1>3. ~SyncAdvanceGlobal(a) /\ ~LeaveSection(a) /\ ~UnlockWriter(a) /\ ~CasSucceeds(a)
  BY <1>1 DEF SyncAdvanceGlobal, LeaveSection, UnlockReader, UnlockWriter, rlu_abort, CasSucceeds
<1>4. AbstractStore' = AbstractStore
  BY <1>0, <1>3, StoreStays
<1>5. AbstractPending' = AbstractPending
  BY <1>0, <1>3, PendingStays DEF AbstractPending
<1>6. AbstractSeen' = AbstractSeen
  BY <1>0, <1>1, SeenStays DEF AbstractSeen, Both
<1>7. \A t \in Threads : WrittenBy(t)' = WrittenBy(t)
  BY <1>0, <1>3, WrittenStays, WhichStep DEF WrittenBy, OwnedBy
<1>8. ASSUME NEW o \in Objects
      PROVE  ViewOf(a)[o] =
               IF o \in AbstractPending[a] THEN AbstractStore[o] + 1 ELSE AbstractStore[o]
  <2>1. o \in AbstractPending[a] <=> lock[o] # NULL /\ lock[o].thread = a
    BY <1>1, NothingWritten DEF AbstractPending, OwnedBy, Published, InSection, SectionLocs
  <2>2. CASE lock[o] = NULL
    BY <2>1, <2>2 DEF ViewOf, AbstractStore
  <2>3. CASE lock[o] # NULL /\ lock[o].thread = a
    <3>1. ~Published(a)
      BY <1>1 DEF Published
    <3>2. LogEntry(lock[o]).val = actual[o] + 1
      BY <2>3, CopyIsNext DEF Both
    <3>3. QED
      BY <2>1, <2>3, <3>1, <3>2 DEF ViewOf, AbstractStore
  <2>4. CASE lock[o] # NULL /\ lock[o].thread # a
    <3>1. lock[o].thread \in Threads
      BY <2>4, CopyIsNext DEF Both
    <3>2. writer_version[lock[o].thread] <= g_rlu_writer_version <=> Published(lock[o].thread)
      BY <3>1, VersionTellsPublished
    <3>3. QED
      BY <2>1, <2>4, <3>2 DEF ViewOf, AbstractStore
  <2>5. QED
    BY <2>2, <2>3, <2>4
<1>9. ViewOf(a) = [o \in Objects |->
        IF o \in AbstractPending[a] THEN AbstractStore[o] + 1 ELSE AbstractStore[o]]
  BY <1>8 DEF ViewOf
<1>10. QED
  BY <1>1, <1>2, <1>4, <1>5, <1>6, <1>7, <1>9 DEF Abstract!Begin

\* The advance of the global version publishes all a thread has committed.
LEMMA PublishStep ==
  ASSUME Both, AllInv', NoVersionRace', NEW a \in Threads, SyncAdvanceGlobal(a)
  PROVE  Abstract!Publish(a)
<1>0. /\ ThreadStep(a) /\ TypeOK /\ RingInv /\ LockInv /\ DOMAIN view = Threads
      /\ pc \in [Threads -> Locs]
  BY Types DEF ThreadStep, Sync, Both, AllInv, SnapInv
<1>1. /\ pc[a] = "sync_faa" /\ pc' = [pc EXCEPT ![a] = "q_init"]
      /\ UNCHANGED <<lock, actual, held, write_set, is_write_detected, ws_tail_counter>>
  BY DEF SyncAdvanceGlobal, Goto, memory, flags, logs, section
<1>2. ~ReadWriterVersion(a) /\ ~LeaveSection(a) /\ ~CasSucceeds(a)
  BY <1>1 DEF ReadWriterVersion, LeaveSection, UnlockReader, UnlockWriter, rlu_abort, CasSucceeds
<1>3. UNCHANGED <<view, AbstractOpen>>
  BY <1>0, <1>2, OpenStays
<1>4. AbstractSeen' = AbstractSeen
  BY <1>0, <1>1, SeenStays DEF AbstractSeen, Both
<1>5. \A t \in Threads : WrittenBy(t)' = WrittenBy(t)
  BY <1>0, <1>2, WrittenStays, WhichStep DEF WrittenBy, OwnedBy
<1>6. \A t \in Threads : OwnedBy(t)' = OwnedBy(t) /\ (t # a => (Published(t)' <=> Published(t)))
  BY <1>0, <1>1 DEF OwnedBy, Published
<1>7. ~Published(a) /\ Published(a)' /\ WrittenBy(a) = {}
  BY <1>0, <1>1, NothingWritten DEF Published, InSection, SectionLocs
<1>8. AbstractPending' = [AbstractPending EXCEPT ![a] = {}]
  BY <1>5, <1>6, <1>7 DEF AbstractPending
<1>9. ASSUME NEW o \in Objects
      PROVE  AbstractStore'[o] =
               IF o \in AbstractPending[a] THEN AbstractStore[o] + 1 ELSE AbstractStore[o]
  <2>1. o \in AbstractPending[a] <=> lock[o] # NULL /\ lock[o].thread = a
    BY <1>7 DEF AbstractPending, OwnedBy
  <2>2. LogEntry(lock[o])' = LogEntry(lock[o])
    BY <1>1 DEF LogEntry
  <2>3. CASE lock[o] # NULL /\ lock[o].thread = a
    <3>1. LogEntry(lock[o]).val = actual[o] + 1
      BY <2>3, CopyIsNext DEF Both
    <3>2. QED
      BY <1>1, <1>7, <2>1, <2>2, <2>3, <3>1 DEF AbstractStore
  <2>4. CASE lock[o] # NULL /\ lock[o].thread # a
    <3>1. lock[o].thread \in Threads
      BY <2>4, CopyIsNext DEF Both
    <3>2. Published(lock[o].thread)' <=> Published(lock[o].thread)
      BY <1>0, <1>1, <2>4, <3>1 DEF Published
    <3>3. QED
      BY <1>1, <2>1, <2>2, <2>4, <3>2 DEF AbstractStore
  <2>5. CASE lock[o] = NULL
    BY <1>1, <2>1, <2>5 DEF AbstractStore
  <2>6. QED
    BY <2>3, <2>4, <2>5
<1>10. AbstractStore' = [o \in Objects |->
         IF o \in AbstractPending[a] THEN AbstractStore[o] + 1 ELSE AbstractStore[o]]
  BY <1>9 DEF AbstractStore
<1>11. QED
  BY <1>3, <1>4, <1>5, <1>8, <1>10 DEF Abstract!Publish

\* A section locks an object nobody else is changing and whose newest version
\* its snapshot has.
LEMMA WriteStep ==
  ASSUME Both, AllInv', NoVersionRace', NEW a \in Threads, CasSucceeds(a)
  PROVE  \E o \in Objects : Abstract!Write(a, o)
<1>0. /\ ThreadStep(a) /\ TypeOK /\ RingInv /\ LockInv /\ DOMAIN view = Threads
      /\ lock \in [Objects -> LogPtrs \union {NULL}]
  BY Types DEF ThreadStep, Both, AllInv, SnapInv
<1>1. PICK o \in Objects : o = p_obj[a].obj
  BY <1>0, VersionTypes DEF CasSucceeds, Pointers
<1>2. /\ pc[a] = "cas" /\ lock[o] = NULL /\ UNCHANGED held
      /\ lock' = [lock EXCEPT ![o] = NewCopyPtr(a)]
  BY <1>1 DEF CasSucceeds
<1>3. ~ReadWriterVersion(a) /\ ~LeaveSection(a) /\ ~SyncAdvanceGlobal(a) /\ ~UnlockWriter(a)
  BY <1>2 DEF ReadWriterVersion, LeaveSection, UnlockReader, UnlockWriter, rlu_abort,
              SyncAdvanceGlobal
<1>4. UNCHANGED <<view, AbstractOpen, AbstractStore>>
  BY <1>0, <1>3, OpenStays, StoreStays
<1>5. AbstractPending' = AbstractPending
  BY <1>0, <1>3, PendingStays DEF AbstractPending
<1>6. AbstractSeen' = AbstractSeen
  BY <1>0, <1>2, SeenStays DEF AbstractSeen, Both
<1>7. Taken(a, o)
  <2>1. lock'[o] = Address(a, ws_tail_counter[a], Len(write_set[a][CurrentSlot(a)]) + 1)
    BY <1>0, <1>1, CasEntries
  <2>2. lock'[o] # NULL
    BY <1>0, <1>1, <2>1, CasEntries, AddressNotNull
  <2>3. ~Untouched(o) /\ ~Discarded(a, o) /\ ~WrittenBack(a, o)
    BY <1>2, <2>2 DEF Untouched, Discarded, WrittenBack
  <2>4. QED
    BY <1>0, <2>3, ObjectStep
<1>8. \A t \in Threads : WrittenBy(t)' = IF t = a THEN WrittenBy(a) \union {o} ELSE WrittenBy(t)
  <2>1. \A q \in Objects \ {o} : ~Taken(a, q)
    BY <1>0, <1>2 DEF Taken
  <2>2. ASSUME NEW t \in Threads, NEW q \in Objects, ~(t = a /\ q = o)
        PROVE  q \in WrittenBy(t)' <=> q \in WrittenBy(t)
    <3>1. ~(t = a /\ LeaveSection(a)) /\ ~(t = a /\ Taken(a, q))
      BY <1>3, <2>1, <2>2
    <3>2. QED
      BY <1>0, <3>1, WrittenStays
  <2>3. o \in WrittenBy(a)'
    BY <1>7 DEF Taken, WrittenBy, OwnedBy
  <2>4. \A t \in Threads : WrittenBy(t) \subseteq Objects /\ WrittenBy(t)' \subseteq Objects
    BY DEF WrittenBy, OwnedBy
  <2>5. QED
    BY <2>2, <2>3, <2>4
<1>9. a \in AbstractOpen
  BY <1>2 DEF AbstractOpen, InSection, SectionLocs
<1>10. \A t \in Threads : o \notin AbstractPending[t] \union WrittenBy(t)
  BY <1>2 DEF AbstractPending, WrittenBy, OwnedBy
<1>11. view[a][o] = AbstractStore[o]
  <2>1. SnapshotOf(a) /\ Reading(a)
    BY <1>2 DEF Both, AllInv, SnapInv, SnapshotInv, NoVersionRace, Reading, SectionLocs
  <2>2. QED
    BY <1>2, <2>1 DEF SnapshotOf, Shown, AbstractStore
<1>12. Abstract!Write(a, o)
  BY <1>4, <1>5, <1>6, <1>8, <1>9, <1>10, <1>11 DEF Abstract!Write, Abstract!Taken
<1>13. QED
  BY <1>12

\* The end of a section, whichever it is, clears what it read and locked.
LEMMA EndStep ==
  ASSUME Both, AllInv', NoVersionRace', NEW a \in Threads, LeaveSection(a)
  PROVE  Abstract!End(a)
<1>0. /\ ThreadStep(a) /\ TypeOK /\ RingInv /\ LockInv /\ DOMAIN view = Threads
      /\ pc \in [Threads -> Locs] /\ is_write_detected \in [Threads -> BOOLEAN]
      /\ held \in [Threads -> SUBSET Pointers]
  BY Types, VersionTypes DEF ThreadStep, Both, AllInv, SnapInv
<1>1. /\ pc[a] \in {"section", "failed"}
      /\ \E loc \in {"checkpoint", "sync_load"} : pc' = [pc EXCEPT ![a] = loc]
      /\ view' = [view EXCEPT ![a] = NoView] /\ held' = [held EXCEPT ![a] = {}]
  BY DEF LeaveSection, UnlockReader, UnlockWriter, rlu_abort, Unregister, Goto
<1>2. ~ReadWriterVersion(a) /\ ~SyncAdvanceGlobal(a) /\ ~CasSucceeds(a)
  BY <1>1 DEF ReadWriterVersion, SyncAdvanceGlobal, CasSucceeds
<1>3. AbstractStore' = AbstractStore
  BY <1>0, <1>2, StoreStays
<1>4. a \in AbstractOpen /\ AbstractOpen' = AbstractOpen \ {a}
  BY <1>0, <1>1 DEF AbstractOpen, InSection, SectionLocs
<1>5. AbstractSeen' = [AbstractSeen EXCEPT ![a] = {}]
  <2>1. \A t \in Threads \ {a} : AbstractSeen'[t] = AbstractSeen[t]
    BY <1>0, <1>1, SeenStays DEF Both
  <2>2. AbstractSeen'[a] = {}
    BY <1>0, <1>1 DEF AbstractSeen
  <2>3. QED
    BY <2>1, <2>2 DEF AbstractSeen
<1>6. \A t \in Threads : WrittenBy(t)' = IF t = a THEN {} ELSE WrittenBy(t)
  <2>1. ASSUME NEW t \in Threads \ {a} PROVE WrittenBy(t)' = WrittenBy(t)
    BY <1>0, <1>2, WrittenStays, WhichStep DEF WrittenBy, OwnedBy
  <2>2. ~InSection(a)'
    BY <1>0, <1>1 DEF InSection, SectionLocs
  <2>3. WrittenBy(a)' = {}
    BY <2>2 DEF WrittenBy, InCurrentLog
  <2>4. QED
    BY <2>1, <2>3
<1>7. QED
  BY <1>1, <1>3, <1>4, <1>5, <1>6 DEF Abstract!End, Abstract!Blank, NoView

\* RLU_READER_UNLOCK is a commit of the store.
LEMMA CommitStep ==
  ASSUME Both, AllInv', NoVersionRace', NEW a \in Threads, UnlockReader(a) \/ UnlockWriter(a)
  PROVE  Abstract!Commit(a)
<1>0. /\ LeaveSection(a) /\ ThreadStep(a) /\ TypeOK /\ RingInv /\ LockInv
      /\ DOMAIN view = Threads /\ pc \in [Threads -> Locs]
  BY Types DEF LeaveSection, ThreadStep, Both, AllInv, SnapInv
<1>1. Abstract!End(a)
  BY <1>0, EndStep
<1>2. /\ pc[a] = "section" /\ UNCHANGED lock
      /\ \E loc \in {"checkpoint", "sync_load"} : pc' = [pc EXCEPT ![a] = loc]
  BY DEF UnlockReader, UnlockWriter, Goto, memory
<1>3. ~SyncAdvanceGlobal(a)
  BY <1>2 DEF SyncAdvanceGlobal
<1>4. \A t \in Threads \ {a} : AbstractPending'[t] = AbstractPending[t]
  BY <1>0, <1>3, PendingStays
<1>5. AbstractPending'[a] = AbstractPending[a] \union WrittenBy(a)
  <2>1. ~InSection(a)' /\ ~Published(a) /\ ~Published(a)'
    BY <1>0, <1>2 DEF InSection, SectionLocs, Published
  <2>2. OwnedBy(a)' = OwnedBy(a) /\ WrittenBy(a)' = {} /\ WrittenBy(a) \subseteq OwnedBy(a)
    BY <1>2, <2>1 DEF OwnedBy, WrittenBy, InCurrentLog
  <2>3. QED
    BY <2>1, <2>2 DEF AbstractPending
<1>6. AbstractPending' = [AbstractPending EXCEPT ![a] = @ \union WrittenBy(a)]
  BY <1>4, <1>5 DEF AbstractPending
<1>7. QED
  BY <1>1, <1>6 DEF Abstract!Commit

\* RLU_ABORT is an abort of the store.
LEMMA AbortStep ==
  ASSUME Both, AllInv', NoVersionRace', NEW a \in Threads, rlu_abort(a)
  PROVE  Abstract!Abort(a)
<1>0. /\ LeaveSection(a) /\ ThreadStep(a) /\ TypeOK /\ RingInv /\ LockInv
      /\ DOMAIN view = Threads /\ pc \in [Threads -> Locs]
  BY Types DEF LeaveSection, ThreadStep, Both, AllInv, SnapInv
<1>1. Abstract!End(a)
  BY <1>0, EndStep
<1>2. pc[a] \in {"section", "failed"} /\ pc' = [pc EXCEPT ![a] = "checkpoint"]
  BY DEF rlu_abort, Goto
<1>3. ~SyncAdvanceGlobal(a) /\ ~UnlockWriter(a)
  <2>1. ws_tail_counter \in [Threads -> Nat] /\ UNCHANGED ws_tail_counter
    BY <1>0, Types DEF rlu_abort
  <2>2. QED
    BY <1>2, <2>1 DEF SyncAdvanceGlobal, UnlockWriter
<1>4. AbstractPending' = AbstractPending
  BY <1>0, <1>3, PendingStays DEF AbstractPending
<1>5. QED
  BY <1>1, <1>4 DEF Abstract!Abort

\* To be given a pointer is to read the object, or one's own locked copy of it.
LEMMA ReadStep ==
  ASSUME Both, AllInv', NoVersionRace', NEW a \in Threads,
         DerefSteal(a) \/ \E o \in Objects : DerefActual(a, o) \/ DerefOwnCopy(a, o)
  PROVE  (\E o \in Objects : Abstract!Read(a, o)) \/ UNCHANGED Abstract!vars
<1>0. /\ ThreadStep(a) /\ TypeOK /\ RingInv /\ LockInv /\ DOMAIN view = Threads
      /\ pc \in [Threads -> Locs] /\ held \in [Threads -> SUBSET Pointers]
  BY Types, VersionTypes DEF ThreadStep, Deref, Both, AllInv, SnapInv
<1>1. /\ pc[a] \in {"section", "deref"} /\ pc'[a] = "section"
      /\ \E o \in Objects : \E p : held' = [held EXCEPT ![a] = @ \union {[obj |-> o, ptr |-> p]}]
  <2>1. CASE DerefSteal(a)
    <3>1. pc[a] = "deref" /\ pc'[a] = "section"
      BY <1>0, <2>1 DEF DerefSteal, Goto
    <3>2. p_obj[a].obj \in Objects
      BY <1>0, <3>1, VersionTypes DEF Pointers
    <3>3. QED
      BY <2>1, <3>1, <3>2 DEF DerefSteal, Hold
  <2>2. CASE \E o \in Objects : DerefActual(a, o) \/ DerefOwnCopy(a, o)
    BY <2>2 DEF DerefActual, DerefOwnCopy, Hold
  <2>3. QED
    BY <2>1, <2>2
<1>2. ~ReadWriterVersion(a) /\ ~SyncAdvanceGlobal(a) /\ ~CasSucceeds(a) /\ ~LeaveSection(a)
  BY <1>0, <1>1 DEF ReadWriterVersion, SyncAdvanceGlobal, CasSucceeds, LeaveSection,
                    UnlockReader, UnlockWriter, rlu_abort, Goto
<1>3. UNCHANGED <<view, AbstractOpen, AbstractStore>>
  BY <1>0, <1>2, OpenStays, StoreStays
<1>4. AbstractPending' = AbstractPending
  BY <1>0, <1>2, PendingStays DEF AbstractPending, LeaveSection
<1>5. \A t \in Threads : WrittenBy(t)' = WrittenBy(t)
  BY <1>0, <1>2, WrittenStays, WhichStep DEF WrittenBy, OwnedBy
<1>6. PICK o \in Objects : \E p :
        held' = [held EXCEPT ![a] = @ \union {[obj |-> o, ptr |-> p]}]
  BY <1>1
<1>7. PICK h : h.obj = o /\ held' = [held EXCEPT ![a] = @ \union {h}]
  BY <1>6
<1>8. \A t \in Threads \ {a} : AbstractSeen'[t] = AbstractSeen[t]
  BY <1>0, <1>7, SeenStays DEF Both
<1>9. InSection(a) /\ InSection(a)'
  BY <1>1 DEF InSection, SectionLocs
<1>10. \/ AbstractSeen'[a] = AbstractSeen[a]
       \/ AbstractSeen'[a] = AbstractSeen[a] \union {<<o, view[a][o]>>}
  BY <1>0, <1>7, <1>9, SeenGrows DEF Both
<1>11. CASE AbstractSeen'[a] = AbstractSeen[a]
  <2>1. AbstractSeen' = AbstractSeen
    BY <1>8, <1>11 DEF AbstractSeen
  <2>2. QED
    BY <1>3, <1>4, <1>5, <2>1 DEF Abstract!vars
<1>12. CASE AbstractSeen'[a] = AbstractSeen[a] \union {<<o, view[a][o]>>}
  <2>1. AbstractSeen' = [AbstractSeen EXCEPT ![a] = @ \union {<<o, view[a][o]>>}]
    BY <1>8, <1>12 DEF AbstractSeen
  <2>2. a \in AbstractOpen
    BY <1>9 DEF AbstractOpen
  <2>3. Abstract!Read(a, o)
    BY <1>3, <1>4, <1>5, <2>1, <2>2 DEF Abstract!Read
  <2>4. QED
    BY <2>3
<1>13. QED
  BY <1>10, <1>11, <1>12

\* All other steps are the implementation's own: looking at a locked header,
\* failing to lock, and everything a sync does but for its advance.
Hidden(a) ==
  /\ ~ReadWriterVersion(a) /\ ~SyncAdvanceGlobal(a) /\ ~CasSucceeds(a) /\ ~LeaveSection(a)
  /\ ~DerefSteal(a) /\ \A o \in Objects : ~DerefActual(a, o) /\ ~DerefOwnCopy(a, o)

\* No other step of a thread changes the store.
LEMMA HiddenStep ==
  ASSUME Both, AllInv', NoVersionRace', NEW a \in Threads, ThreadStep(a), Hidden(a)
  PROVE  UNCHANGED Abstract!vars
<1>0. /\ TypeOK /\ RingInv /\ LockInv /\ DOMAIN view = Threads
      /\ held \in [Threads -> SUBSET Pointers]
  BY VersionTypes DEF Both, AllInv, SnapInv
<1>1. held' = held
  <2>1. ASSUME EnterSection(a) PROVE held' = held
    BY <2>1 DEF EnterSection, rlu_reader_lock, RegisterThread, ReadWriterVersion,
                ReadCommitVersion, section
  <2>2. ASSUME NEW o \in Objects, DerefLocked(a, o) \/ TryLock(a, o) PROVE held' = held
    BY <2>2 DEF DerefLocked, TryLock, TryLockOwn, TryLockBusy, TryLockFree, section
  <2>3. ASSUME CasFails(a) \/ Checkpoint(a) \/ rlu_thread_finish(a) PROVE held' = held
    BY <2>3 DEF CasFails, Checkpoint, rlu_thread_finish, section
  <2>4. ASSUME Sync(a) PROVE held' = held
    BY <2>4 DEF Sync, SyncLoadVersion, SyncStoreVersion, SyncAdvanceGlobal,
                rlu_init_quiescence, rlu_wait_for_quiescence, ResetWriteSets,
                WritebackObject, WritebackDone, SyncCommit, section
  <2>5. QED
    BY <2>1, <2>2, <2>3, <2>4 DEF Hidden, ThreadStep, Deref
<1>2. UNCHANGED <<view, AbstractOpen, AbstractStore>>
  BY <1>0, OpenStays, StoreStays DEF Hidden
<1>3. AbstractPending' = AbstractPending
  BY <1>0, PendingStays DEF AbstractPending, LeaveSection, Hidden
<1>4. \A t \in Threads : WrittenBy(t)' = WrittenBy(t)
  BY <1>0, WrittenStays, WhichStep DEF WrittenBy, OwnedBy, Hidden
<1>5. AbstractSeen' = AbstractSeen
  BY <1>0, <1>1, SeenStays DEF AbstractSeen, Both
<1>6. QED
  BY <1>2, <1>3, <1>4, <1>5 DEF Abstract!vars

\* Every step of the runtime is one of the store, or none.
LEMMA StepAbstract ==
  AllInv /\ AllInv' /\ VersionsFit /\ NoVersionRace /\ NoVersionRace' /\ [Next]_vars
    => [Abstract!Next]_Abstract!vars
<1> SUFFICES ASSUME Both, AllInv', NoVersionRace', [Next]_vars
             PROVE  [Abstract!Next]_Abstract!vars
  BY DEF Both
<1>1. ASSUME NEW a \in Threads, ThreadStep(a) PROVE [Abstract!Next]_Abstract!vars
  <2>1. CASE ReadWriterVersion(a)
    BY <2>1, BeginStep DEF Abstract!Next
  <2>2. CASE SyncAdvanceGlobal(a)
    BY <2>2, PublishStep DEF Abstract!Next
  <2>3. CASE CasSucceeds(a)
    BY <2>3, WriteStep DEF Abstract!Next
  <2>4. CASE UnlockReader(a) \/ UnlockWriter(a)
    BY <2>4, CommitStep DEF Abstract!Next
  <2>5. CASE rlu_abort(a)
    BY <2>5, AbortStep DEF Abstract!Next
  <2>6. CASE DerefSteal(a) \/ \E o \in Objects : DerefActual(a, o) \/ DerefOwnCopy(a, o)
    BY <2>6, ReadStep DEF Abstract!Next
  <2>7. CASE Hidden(a)
    BY <1>1, <2>7, HiddenStep
  <2>8. QED
    BY <2>1, <2>2, <2>3, <2>4, <2>5, <2>6, <2>7 DEF Hidden, LeaveSection
<1>2. CASE UNCHANGED vars
  <2>1. UNCHANGED <<pc, lock, actual, held, write_set, is_write_detected, ws_tail_counter, view>>
    BY <1>2 DEF vars, memory, flags, logs, section, history
  <2>2. UNCHANGED <<AbstractStore, AbstractPending, AbstractOpen>>
    BY <2>1 DEF AbstractStore, AbstractPending, AbstractOpen, Published, OwnedBy, WrittenBy,
                InCurrentLog, InSection, CurrentSlot, LogEntry
  <2>3. AbstractSeen' = AbstractSeen
    BY <2>1 DEF AbstractSeen, ValueAt, InCurrentLog, InSection, CurrentSlot, LogEntry
  <2>4. \A t \in Threads : WrittenBy(t)' = WrittenBy(t)
    BY <2>1 DEF OwnedBy, WrittenBy, InCurrentLog, InSection, CurrentSlot
  <2>5. QED
    BY <2>1, <2>2, <2>3, <2>4 DEF Abstract!vars
<1>3. QED
  BY <1>1, <1>2 DEF Next, Terminated

------------------------------------------------------------------------------
\* Every execution of RLU in which versions fit and no two syncs draw their
\* versions at the same time is one of the snapshot store: a section reads a
\* snapshot, extends the snapshot with what it writes, and its thread's
\* committed changes appear to the others all at one instant, however the
\* waiting, the write-back and the reuse of logs interleave with sections.
THEOREM StoreImplemented ==
  Spec /\ []VersionsFit /\ []NoVersionRace => ImplementsSnapshotStore
<1>1. Init => AllInv
  BY InitTypeOK, InitRingInv, InitLockInv, InitValueInv, InitGraceInv, InitStealInv, InitSnapInv
     DEF AllInv
<1>2. AllInv /\ VersionsFit /\ [Next]_vars => AllInv'
  BY StepTypeOK, StepRingInv, StepLockInv, StepValueInv, StepGraceInv, StepStealInv, StepSnapInv
     DEF AllInv
<1>3. QED
  BY <1>1, <1>2, StepAbstract, InitAbstract, PTL
     DEF Spec, ImplementsSnapshotStore, Abstract!Spec
==============================================================================
