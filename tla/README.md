# LB+tree: a verification project

The repository holds a concurrent ordered map, the *lazy-balanced tree*
(`lb+tree_rlu/lb_tree.c`), the synchronisation layer it runs on, *Read-Log-Update*
(`lb+tree_rlu/rlu.c`, `rlu.h`), and a benchmark that drives the tree with several
threads (`bench.c`, `pre_define.c`). A second copy of the tree runs on a
multi-version RLU (`lb+tree_mvrlu/`). This project models the first tree, its RLU
and the multi-version RLU in TLA+, checks the models with TLC, and proves what it
can with TLAPS.

Paths and line numbers below are those of `lb+tree_rlu/` unless another
directory is named; `mvrlu.c` is `lb+tree_mvrlu/lib/mvrlu.c`.

## 1. Inventory

| Component | State | Operations | Interaction | What is hard | What makes it correct |
|---|---|---|---|---|---|
| RLU runtime (`rlu.c`) | two global versions, a lock word per object, per thread a run counter, version, flags and a ring of logs | `rlu_reader_lock`, `RLU_DEREF`, `rlu_try_lock`, `rlu_assign_pointer`, `rlu_reader_unlock`, `rlu_abort`, `rlu_sync_and_writeback`, `rlu_thread_finish` | threads meet only in shared words: CAS on the lock word, stores to versions, sync requests | everything is lock free: grace periods, stealing of copies, deferred publication, log reuse | sections read snapshots; no change is lost; a log is not reused while it is read; syncs end |
| RLU memory (`rlu_alloc`, `rlu_free`, `rlu_process_free`) | object headers, an array of freed nodes per thread | allocate, free in a section, release after the grace period | objects are reached from the tree | freeing while others read; abort of a section that freed | nothing reachable or held is released |
| Leaf list and partitions (`lb_tree.c`) | list of leaf nodes; a header node per partition with `count` and `state` | search, add, remove, update | first section descends, second one works on the list | the header of the first section is used in the second; splits and merges in between | sorted; nothing lost; `count` right; a held header still leads to the key |
| Leaf split and merge (`lb_tree.c:811-1078`, `1255-1371`) | `state` of headers, `p_smo` of the registering thread | header split, parent update, partner search, header merge, release | several sections in a row, run by the thread that registered them, later | others see every intermediate state | one owner per registered header; the parent knows the partitions; every merge ends |
| Inner nodes and inner SMOs (`lb_tree.c:344-546`, `1084-1249`, `1373-1487`) | entries, `min_key`, `p_next`, `state`, level | root level up and down, inner split, partner search, merge | as above, one level up | nodes at their limit, levels that come and go | every key has one path |
| Range scan (`lb_tree.c:98-136`, `602-643`) | a result buffer | read of several partitions | one section | – | what it returns was in the tree at one instant |
| Benchmark (`bench.c`) | `stop`, `global_cycle`, statistics | `rlu_test`, `main` | starts, stops and joins the threads | stop while a thread is in the middle of a split or has unpublished logs | all threads return; the statistics describe the tree |
| Barrier, threads (`pre_define.c`) | mutex, condition, counts | `barrier_cross`, thread set, wait, finish | start of the benchmark | condition wait without a loop | nobody starts early, nobody stays behind |
| MV-RLU (`mvrlu.c`) | a version chain per object, a log of write sets per thread with two watermarks (`qp_clk1`, `qp_clk2`), the global clock, lists of live and of finished threads | section begin and end, `mvrlu_deref`, `mvrlu_try_lock(_const)`, `mvrlu_free`, commit, abort, `log_reclaim`, flush, thread finish; the loop of the QP thread | threads meet in version chains and clocks; QP finds clocks that all sections have passed and makes logs due, their owners or QP reclaim them | a commit is several stores; write-back over the object while others read; a log given up while a chain leads into it; a finished thread's log | a section reads the versions of its clock; the latest version is never lost; nothing freed is held |
| Tree over MV-RLU (`lb+tree_mvrlu/benchmark`) | as the first tree | as the first tree | – | – | – |

Not looked at further: `Flamegraph/` (third party), scripts, option files,
`Inform/paper` (a PDF), tree printing, the `pure_` stubs.

The hazards of this code, line by line, with the properties that would catch
each, are the `hazards` of `PROJECT.json`.

## 2. Modules

| Module | Models |
|---|---|
| `RLU.tla` | `rlu.c`/`rlu.h` in fine-grained mode, one action per access to shared memory |
| `MCRLU.tla` | constants for TLC |
| `SnapshotStore.tla` | what RLU promises: a store under snapshot isolation |
| `RLUStore.tla`, `MCRLUStore.tla` | the refinement mapping from `RLU` to `SnapshotStore` |
| `RLU_proofs.tla` | theorems about `RLU`: types, the ring of write sets, grace periods |
| `RLULocks_proofs.tla` | headers against logs, contents of the logs, own locks, finish, copies stolen from the logs of others |
| `RLUSnapshot_proofs.tla` | snapshots, for reading and for writing |
| `RLUStore_proofs.tla` | the refinement of `SnapshotStore` |
| `LBTree.tla` | the tree while its root has level 1, one action per RLU section |
| `MCLBTree.tla` | constants for TLC |
| `LBList_proofs.tla` | lemmas about the leaf list: what each write of the tree does to it |
| `LBTree_proofs.tla` | theorems about `LBTree` |
| `InnerTree.tla` | the inner nodes of a tree of any level, one action per section's commit |
| `MCInnerTree.tla` | constants for TLC |
| `InnerTree_proofs.tla` | theorems about `InnerTree` |
| `MVRLU.tla` | `mvrlu.c` with the global clock, one action per access others can tell apart |
| `MCMVRLU.tla` | constants for TLC |
| `MVRLU_proofs.tla` | theorems about `MVRLU`: the detection of quiescence, types, locks, version chains |

The layers meet at the section. `RLU` shows at the level of single memory
accesses that sections read snapshots, that changes commit at one instant and
that locks are held until the older sections are over; `LBTree` takes sections of
this kind as its steps, with the snapshot, the refused locks and the pointers to
old copies, for one inner node over the leaf list. `InnerTree` has the levels above,
with sections that are atomic. `MVRLU` stands beside `RLU`: the other layer the
repository offers the tree.

### 2.1 RLU

A thread's `pc` names its place between two accesses. The actions follow the
functions: `rlu_reader_lock`, `RegisterThread`, `ReadWriterVersion`,
`ReadCommitVersion` (`rlu.c:752-771`, `423-430`); `DerefActual`, `DerefOwnCopy`,
`DerefLocked`, `DerefSteal` (`rlu.h:206-217`, `rlu.c:803-848`); `TryLockOwn`,
`TryLockBusy`, `TryLockFree`, `CasSucceeds`, `CasFails` (`rlu.c:850-937`);
`UnlockReader`, `UnlockWriter`, `rlu_abort` (`592-610`, `785-801`, `945-963`); the
nine steps of `rlu_sync_and_writeback` (`549-585`) with its scan, wait, log reset
and write-back; `rlu_thread_finish`, which `main` calls after joining.

Abstractions: an object's contents are a number, and a section adds one to each
object it locks. Steps nobody else can observe are merged into the preceding one:
the CAS with the copy of the object into the private log, the flags with the end
of the section (where they get the values `rlu_reset` gives them before their next
use), the unlock loop of an abort. Memory is sequentially consistent; the code's
fences and atomics are not modelled as such. `rlu_alloc` and `rlu_free` are
left out (section 6). Coarse-grained mode is left out: the benchmark
initialises RLU with `RLU_TYPE_FINE_GRAINED` only. The variables `view`, `commits`
and `version_race` are history: no guard reads them.

### 2.2 LBTree

A node is a record in a sequence, its number is its address; nodes are never
reused. `entry` is the inner node's array. A thread runs through the sections of
its operation or of the split or merge it registered (`smo`): `Begin` takes the
snapshot the section reads (`rlu_reader_lock`), the section's own action is its
end: a commit (`rlu_leaf_add`, `rlu_leaf_remove`, `rlu_leaf_update`,
`rlu_header_split`, `rlu_inner_split_update`, `ReleaseBoth`,
`rlu_header_partner_search`, `rlu_header_merge`, `ReleaseMaster`,
`rlu_root_level_down`), an end that wrote nothing (`LeafNothing`, `NoPartner`,
`LevelStays`) or an abort and `goto restart` (`LeafRestart`, `SplitUpdateRestart`,
`SmoRestart`). `wrote` holds the objects a commit keeps locked until the sections
in `older` are over (`SyncAndWriteback`); `rlu_max_ws` is 1, as in
`bench_set/0.txt`. Sections that only read (`Descend`, `Search`, `FindParent`)
read one instant, so they are one step.

`p_header` and `p_inner` are pointers: a node, and the copy they point to if
`RLU_DEREF` gave a copy in a log, stolen or the thread's own. Later sections go on
from such a pointer although the copy may be old; the model keeps the copy's
contents to follow it.

Abstractions: values of items, range scans and statistics are left out; all locks
of a section are taken with its commit (they are tried, never waited for, and a
refusal ends the section); executions in which RLU syncs draw the same version
(the finding on `rlu.c:563`) are left to `RLU`. The inner node never gets enough
entries to be registered for a split (`OneInnerNode`); `InnerTree` goes on there.

### 2.3 InnerTree

A node is again a record in a sequence: level, state, `min_key`, the entries (`count`
is their number) and the right neighbour; the node behind the last of a level is its
tail (`TailNode`). The leaf list is the set of its headers' keys, `headers`, and
those whose state is not FREE, `registered`. A thread registers a header
(`RegisterHeader`: `rlu_leaf_smo_check` finds a partition too full or too empty),
then goes through the sections of `rlu_lb_tree_split` or `rlu_lb_tree_merge`
(`1497-1564`), which end by testing the parent it changed
(`rlu_inner_smo_check`): that may register the parent in turn, and the thread's next
turn of `rlu_test` splits or merges it. So one registration at the leaves can run up
to the root, add a level (`rlu_root_level_up`) or take one away
(`rlu_root_level_down`). `smo.operator` codes kind and level in one number as the
code does, with its `% 10`.

One action is one section at the instant of its commit. That is sound for the sections that
write since each of them locks every node its outcome depends on, apart from the
path of its descent; a section that finds a lock taken starts again and changes
nothing. `FindParent` only reads, and takes effect at its snapshot. `min_key` of a
node never changes, so that `rlu_inner_entry_search` may read the neighbour's without
`RLU_DEREF` (374). The root's `p_inner` has two values between the commit of a new
one and its write-back: `smo_check` reads `p_data->p_root` directly (1172) and may see
the old one, `master_root`; until `RootWriteback` the root is locked and no other
thread changes it.

### 2.4 MVRLU

A log is a sequence of write sets that only grows; `head_cnt` counts those given up,
whose memory the ring may overwrite. A copy's address is thread, write set and
index. A section takes its clock (`mvrlu_reader_lock`, `ReadClock`), walks version
chains (`DerefHead`, `DerefWalk`), locks (`TryLockRead`, `TryLockCas`), may free what it
unlinked (`mvrlu_free`), and commits: each copy goes to the head of its chain
(`MoveCopy`, `MoveCas`), then the write set gets its clock in the three steps of
`new_clock`, the store and `advance_clock` (`LoadClock`, `StoreClock`,
`AdvanceClock`), then `ws_unlock`. `log_reclaim` (`TryReclaimLock` to `EndScan`) gives
up write sets not after `qp_clk2` and writes back those not after `qp_clk1`; it is run
by the log's thread or by QP. The QP thread's loop is `QpReadClock` to `QpTrigger`:
it waits until every section has a clock not before the one it read, and hands
that to the logs as their next `qp_clk1`. A thread that finishes with something in
its log goes to the zombies, which QP reaps.

Reductions: a walk of QP along one of its lists is one action, since what it waits
for stays true and the lists have one order; a CAS and the second look at `p_copy`
behind it, the increment of `run_cnt` and the reading of `need_reclaim` next to it,
the end of a scan and the unlock, are each one action; `qp_clk` is cleared when it
is dead; a section aborts after a refused lock only, as the tree's do. What a section
computes from an object is again a number more, and the root object links the others,
so that a section can unlink and free one. The build is the one with the global clock
(`libmvrlu-gclk`). Memory is sequentially consistent. `history` is not read by any
guard.

Three places where unlocked accesses are one action need an argument.
* `log_reclaim` reads `qp_clk1`, then `qp_clk2` (909-910), and QP stores `qp_clk2`, `qp_clk1`
  and `need_reclaim` (1159-1161). A scan in between may get the old `qp_clk1` for both. It
  gives up what the new `qp_clk2` permits and writes nothing back: a part of what a scan
  behind the stores does, the rest of which is left to the next one. If something up to
  that clock was not written back yet, the store of `qp_clk2` is `early_reclaim` already.
* `mvrlu_deref` reads `p_copy`, then `qp_clk2` (1536-1538). With an update in between, the
  walk is one that begins at the second read: if the copy it starts from was detached
  meanwhile, the object has its contents, where both walks end; if newer copies were
  put before it, the section's clock is behind them and the walk passes them.
* `ws_unlock` marks and unlocks copy by copy (779-801). The marks are the clock that
  `get_wrt_clk` takes from the write set until then; a thread that meets a lock that is not
  off yet refuses, as it would have a moment earlier.

None of the theorems of 4.4 depends on which clocks a scan has.

## 3. Runs

`PROJECT.json` lists each run with its properties. All runs check for deadlock:
the models end in a state in which every thread has finished, and stutter there.

| Run | Bounds | Shows |
|---|---|---|
| `rlu_pair` | 2 writers, 2 + 1 sections, 2 objects, ring of 2 | ring and log reuse, headers against logs, no lost update, every sync ends |
| `rlu_three` | 2 writers and a reader, one section each | grace period, snapshots |
| `rlu_store` | 2 write sets before a sync, 3 + 1 sections, ring of 4 | own locks are told apart, finish, RLU implements `SnapshotStore` |
| `tree_remove` | 2 threads, 3 adds or removes each, 2 keys | splits and merges down to the last partition |
| `tree_three` | 3 threads, one operation of any kind each, 3 keys | three actors at one partition |
| `tree_liveness` | 2 threads, 2 adds or searches each, 3 keys, old pointers included | without removes, threads return when the duration is over (the lowering of the last level is for `tree_crash`) |
| `tree_crash` | 1 thread, 4 adds or removes | finding: the root loses its inner node |
| `tree_livelock` | 2 threads, 2 adds or removes each | finding: a partner search never ends |
| `tree_stale` | 2 threads, 2 adds each | finding: an add is lost |
| `inner` | 2 threads, headers 0 and 2 of 6 keys, degree 4, split above 2 entries, merge below 2; three plans of 2 to 4 registrations | inner splits and merges up to a root of level 3 and back: levels sorted, parents list their children, descents reach every header, registrations have one owner, what was begun ends unless its parent stays full |
| `inner_full` | 2 threads, 2 + 1 splits (one thread alone is enough), degree 3, split threshold 100 % | finding: a node that is full is never split |
| `mv_rlu` | 2 threads and QP, 2 objects, low and high mark 2; five plans: one frees beside a reader, two write one object, one writes two objects beside one that writes one of them, one writes twice beside a reader, one fills its log | snapshots against write-back and reclamation, no version lost, locks match logs |

Why the bounds suffice for what the runs are after: an interference in RLU is
between a writer, a second writer that races for a version or an object, and a
reader, which is `rlu_three`; reuse of a log takes two sections of one thread and a
sync each, which is `rlu_pair` with a ring of 2, the smallest the assertion of
`rlu_init` allows. In the tree, `leaf_node_degree` 3 with thresholds 50 and 34 makes a
partition split at two items and merge at none, so that two keys and three
operations reach a split, a merge, and operations between their sections.

`inner` has the smallest degree at which a node can split in two and leave room in both;
with six keys, two splits by each thread grow the tree to level 3 (a split of a root of
level 1, then of one of level 2), and the plans with merges take it down again while the
other thread splits. In `mv_rlu` QP is woken
by a log of two write sets (both marks are 2), by a flush and by the dereference mark;
so logs are written back and given up while sections of both threads run, a reader meets
a chain of two versions of which the older one is being written back, and in the last
plan the third section waits for room in the log. Two commits are enough for a version
chain, its write-back and its end, which take two detections of QP. In the third plan
the section that needs both objects may find one locked or too new when it has locked the
other: it aborts with a lock held, and tries again.

Restrictions, by name. `MaxSections` and `MaxOps` bound what a thread starts; a
split or merge is not counted. `NoVersionRace` (a constraint of `rlu_store`) and the
premise `~version_race` of `SnapshotReads` and `WritesExtendSnapshot` leave out the
executions after two syncs drew the same version: without the premise both fail.
`FreshPointers` (a constraint of `tree_remove` and `tree_three`) leaves out
the executions in which a thread starts a section from an old copy of a node, which is
the finding of `tree_stale`, or from a header that another thread's merge has taken out
of the list and freed, which is a use of freed memory that no run is about. The
properties therefore say that the protocol of splits and merges is right as long
as held pointers are: they lead to headers that are still in the list, though these may
have been split, or have got the items of a merged partition, since they were found.
`DistinctHeaders` (a constraint of the same runs) leaves out the executions in which a
split makes an empty partition in front of another header: the partition lost its items
between the registration of its split and the split, `split_point` is 0, and the new
header gets the key of the header behind it (906). Two entries of the parent then have
one key, and their order in the parent and in the list can differ.
Object and thread symmetry are used in runs of invariants only.

`Plans` bounds what the threads of `InnerTree` and `MVRLU` start.

`Followed` (a constraint of `inner`, and the premise of its properties) ends a
behaviour of `InnerTree` where the code itself cannot go on properly:
* `RootStays`: the root's node became NULL (the finding of `tree_crash`).
* `HeldNodesLive`: a node was freed that another thread holds as its parent, or a root
  that another thread has registered. There are two ways. `rlu_inner_merge` frees its
  slave (1482): the partner search has made sure that the slave is not registered, but not
  that nobody found it with `FindParent`, or with a partner search one level below,
  and goes on with it in a later section (`rlu_inner_split_update`,
  `rlu_root_level_down`, `rlu_inner_smo_check`). And `rlu_root_level_down` frees the root's
  node without a look at its `state` (479-493). With RLU's memory the other
  thread works on what is left of the freed node. Both happen within the bounds of
  `inner`. A parent that was split, or was the master of a merge, is not left out: that is
  LOST, and what `MasterHasEntry` is about.
* `MergedBelowRoot`: the child of a lowered root becomes the root while it is
  registered for a merge; the partner search for it then takes the node itself for its
  parent (1391-1412).
* `SplitLeavesTwo`: merges took entries from a node registered for a split, and
  `split_point` is 0 (1223): the new node would have no entry. Or `distri_r` is 100 and
  `split_point` is the count: the old node would have none.
* `LevelsFit`: a node has level 10, which the operator, 10 or -10 and the level, takes for
  another one (`% 10`).
* `EntriesFit`: a node has more entries than its array (`MAX_INNER_DEGREE`, 50):
  `rlu_inner_merge` adds the slave's entries whatever the count (1477). Counts above
  `inner_node_degree` that fit the array are followed.

`Timely` (a constraint of `mv_rlu`, and the premise of `SnapshotReads`, `LatestKept` and
`WritesExtendSnapshot`) leaves out the executions behind two races, which `history`
records: `late_commit`, a write set gets a clock some section may have read before;
`early_reclaim`, a log's second watermark is moved up before the copies it covers were
written back and all sections and commits of that time are over. Section 5 lists the
code's ways to get there. So the run says that version chains, write-back,
reclamation and the QP thread's detection are right as long as the clocks are.

### Fairness

A thread that can step does (weak fairness per thread: the operating system
schedules running threads). In `RLU`, `SF_vars(LeaveSection(t))`: a section is a
traversal of finitely many nodes and ends, though it may pass through
`rlu_deref_slow_path` any number of times. In `LBTree` a thread retries as long as
a lock is refused, and is not assumed to get it; that it does follows from the
fairness of the others. `StopThreads` is weakly fair because `main` sleeps for the
given duration only. In `InnerTree` the steps of a split or merge that was begun are weakly
fair. A thread at `"idle"` is at the top of `rlu_test`'s loop, where `stop` and the
cycle limit are tested (`bench.c:612-614`): it may return there with what
`rlu_inner_smo_check` has just registered (`lb_tree.c:1164`), and gets no fairness. (The
search for a partner is a step from `"idle"` as well, so it may stop, too, which only
adds behaviours.) Refused locks are left out of `InnerTree`: a section that is refused
waits for sections of others, which end; only threads that get ROLLBACK go on to take
locks for ever. `SmosEnd` makes its exception for a split whose parent stays full: it need
not end. All other splits and merges that were begun do, in the behaviours within `Followed`.
Two neighbours registered for merges wait for each other for ever
(`PartnerSearchRestart`), the inner form of the finding of `tree_livelock`: to `SmosEnd`
their threads are idle.
`MVRLU` is checked without fairness.

## 4. Proofs

Every safety property the runs check of `RLU`, `LBTree` and `InnerTree` is proved, and
four of those of `MVRLU`: for any number of threads, objects, keys and sections, and for
all values of the options the code accepts.

### 4.1 RLU

Any ring that satisfies the assertions of `rlu_init`. Each module builds on the
invariants of the one before it.

`RLU_proofs.tla`:

* `TypeCorrect`: `Spec => []TypeOK`. Inductive as it stands; one lemma per group of
  actions.
* `RingNeverWraps`: `Spec => []FreshLog`. A ring slot says nothing about the counters
  that share it, so the invariant is strengthened to `RingInv`: `RingCounters` orders
  head, write-back and tail counter and bounds their distance by
  `2 * MaxWriteSets`, tighter outside a sync, `OpenLog` says what the current slot holds
  in each phase of a section, and `UsedSlots` that a slot with entries is that of a
  counter between head and tail. `DifferentSlots` turns the distance into different
  slots (the only arithmetic on `%`); `RingInvImpliesFreshLog` concludes. Only
  `UnlockWriter` and the sync change counters; every other action falls under
  `FrameRing` or `OthersRing`.

* `GracePeriodHolds`: `Spec => []GracePeriod`, also for executions with a version
  race. `GracePeriod` speaks of the end of the two scans of a sync; `GraceInv` says
  what holds in the middle of them, for every section older than the version drawn
  (`Older`): the first scan, once past it, has remembered its run counter, and the
  second cannot get past it (`WaitedFor`). That needs three more facts: the counter is
  odd exactly while a section runs (`CounterOdd`); a version drawn is never ahead of
  the global one when the scans start, so a section that begins during them is not
  older (`VersionBound`); and the scans visit every other thread (`ScanIndex`,
  `ScanStart`, `ScanNext`). `FrameGrace` covers the steps that touch none of this,
  `EndOfSectionGrace` the three ways a section ends.

`RLULocks_proofs.tla`:

* `HeadersAgreeWithLogs`: `Spec => []LocksMatchLogs`. A ring slot is used again, so
  `LockInv` names entries by thread, write-set counter and index (`Owned`): those of the
  write sets between the write-back counter and the tail, without the part that is
  written back or taken back already. `HeadersNameOwned`
  and `OwnedAreLocked` are the two directions of the property, kept through the loops
  of write-back and abort by the entry each loop has reached.
* `CommitsAreKept`: `Spec => []NoLostUpdate`, and `RunCountersSuffice`:
  `Spec => []RunCounterTellsSections`. `ValueInv`: an owned entry is one change ahead of
  the object it locks, and its run counter is the thread's own exactly if the entry is the
  open section's; an unlocked object has the last committed value.
* `TwoSyncsSuffice`: `Spec => []FinishedIsClean`. `FinishInv` says what is left to write
  back in each phase of `rlu_thread_finish`; when the head counter has reached the
  tail no entry is owned, and `LockInv` leaves no header that names one.
* `StolenLogsStay`: `Spec /\ []VersionsFit => []StolenLogNotReused`. `StealInv` joins
  the lock and grace invariants: a copy a section holds, or is about to take (its owner's
  writer version was not compared yet), stays in the owner's log: it is in a write set the
  head counter has not passed, and if it was written back, then by an earlier sync than the
  owner's current one, whose version the section is behind and which therefore waits
  for it. `VersionsFit`, the hypothesis, is that the global version stays below
  `MAX_VERSION`: this value marks a thread that is not syncing (`rlu.h`, `LONG_MAX`), and a
  section with that version would steal from logs nobody has committed.

`RLUSnapshot_proofs.tla`, with the same hypothesis:

* `SectionsReadSnapshots`: `[]SnapshotReads`, and `SectionsExtendSnapshots`:
  `[]WritesExtendSnapshot`. `SnapInv` says of every section and every object what the
  section's snapshot has of it (`Shown`): the copy in the log that locks it, if the section
  may take that copy (`Visible`), the object itself otherwise. The rest explains the
  shortcuts of `rlu_reader_lock`: a section steals only if the global version was ahead of
  the commit version, and looks at locks only then or if its own logs hold something. `CountInv`: the
  difference of the two counters is the number of syncs that have advanced the one and
  not yet the other. `CountBound`: those of them a section is not behind fit between the
  commit version and the section's own version. So if the two versions are equal no
  log can be stolen from (`Flags`). Like the properties, `SnapInv` speaks of states
  before the first version race only: two syncs with one version make the difference of
  the counters say nothing about the sections.

`RLUStore_proofs.tla`:

* `StoreImplemented`: `Spec /\ []VersionsFit /\ []NoVersionRace =>
  ImplementsSnapshotStore`, the property of `rlu_store`. The mapping is that of
  `RLUStore`: pending is what a thread's logs hold of earlier sections and have not
  published (`AbstractPending`), and the store's value of an object is its own or, once
  the global version was advanced past the log that locks it, the copy's
  (`AbstractStore`). Seven kinds of steps are steps of the store: `ReadWriterVersion` begins
  a section, `CasSucceeds` writes, `UnlockReader` and `UnlockWriter` commit, `rlu_abort`
  aborts, the advance of the global version publishes a whole log, and the three ways to
  be given a pointer read. All others leave the mapped state alone: `CurrentStays` and
  its neighbours say so of the logs, and for the write-back it takes `LockInv` and
  `ValueInv` (an object gets the value the store had all along). That a section reads
  the snapshot it began with, whatever was published since, is `SnapInv`.

The assumptions are those named in `RLU.tla`, which the runs evaluate.

### 4.2 LBTree

All theorems have the form `Spec /\ []FreshPointers /\ []DistinctHeaders => []P`: the two
restrictions of the runs (section 3) are hypotheses, and each theorem is about the
executions in which they hold. Neither says what `P` says. The assumptions on the
constants are those of `LBTree.tla`: any degree from 3 on, any ratios between 1 and 100,
any keys and threads, as many operations as leave the parent below its split threshold.

`LBList_proofs.tla` is about heaps, not about steps. The properties follow pointers by
the recursive function `Path`, and the provers do no induction, so a list is given by its
positions: `IsList(h, L, N)` says that `L[0]`, ..., `L[N]` are the nodes from head to tail,
that neighbours are ordered and that a header's count leads to the next header. That `Path`
is this `L` is shown by a least counterexample (`WellFoundedInduction`'s natural order:
`Least`). Then:

* `LocateFinds`: from any header of such a list, the walk the four leaf functions make
  (`Locate`) ends at the place of its key, and knows the header that counts it. Its
  recursion over the nodes is again taken by its least counterexample.
* `AddList`, `RemoveList`, `SplitList`, `MergeList`: each write of the four functions makes a
  list of a list, if it is made at the right place. `AddStep`, `RemoveStep`, `SplitStep`,
  `MergeStep`: the place *is* right although it was found in the section's snapshot and
  the list has moved on: a partition of the snapshot whose header and nodes are not among those
  committed since, which the section's locks make sure of, is still a partition, at
  another position.
* `Proto`: what registrations, pending SMOs and the parent owe each other, with a lemma for
  each step (registration, split, merge, parent update, partner search, release) over
  two heaps. `SmoFits`: an SMO's master is a header with an entry until it is
  released. `Owners`: a header whose state is not FREE has one owner, whose operator its
  state shows. `Entries`: strictly ordered entries whose keys are their headers'.
  `Orphans`: a header without an entry is the slave of a split that is between its list
  and its parent section.

`LBTree_proofs.tla` has the inductive invariant `TreeInv`, proved in `TreeInvHolds`:

* `TypeInv`, and `SectionInv`: a commit waits in `older` for sections that are open.
* `SnapInv`: in an open section's snapshot only what was committed since the section began
  (`Since`, the union of `wrote` over the commits that wait for it) is old: all other
  nodes, partitions and the parent's entries are as in the list. This is why a section that
  gets its locks may write what it computed from its snapshot. It is kept because every
  commit joins the `Since` of the open sections in the step that publishes it, and
  `SyncAndWriteback` takes nothing away: a commit's wait ends only when the section has.
* `HeldInv`: the header an operation holds is a header whose key is at most the
  operation's.
* `Proto`, and `Items`: the list's items are `present`.

One `...Stays` lemma for each action says that it keeps `TreeInv`, most of them by
`LocalStays`, `LeaveStays` or `CommitStays`, which cover what a step does to sections. From it:

* `TypeCorrect` (`TypeOK`), `StaysSorted` (`ListSorted`), `StaysCounted` (`CountsMatch`),
  `KeysKept` (`NothingLost`): no committed add or remove is lost, though each function locks
  three nodes at most of a list it read some time ago.
* `KeyIsFound` (`HeldHeaderSuffices`): the second section may start from the header of the first.
* `ParentComplete` (`ParentKnowsPartitions`), `OneOwner` (`RegisteredByOne`), `NothingLeaked`
  (`NoSectionLeaked`): the protocol of splits and merges. `DistinctHeaders` is needed here: the
  update of the parent and the partner search take neighbours by key in the parent for
  neighbours in the list.

### 4.3 InnerTree

All theorems of `InnerTree_proofs.tla` have the form `Spec /\ []Followed => []P`: they are
about the executions in which the code can go on (section 3). `Followed` is a hypothesis
that cannot be proved, since the code does not see to it: each of its parts fails in some
execution, and an execution is followed up to the state where the first one does. As a
hypothesis of a step it holds of both of its states. No part of `Followed`
says what a property says: they are about a lost or freed root, an empty half of a split, the
tenth level, a merge without a parent and an array that is too small. The last two
(`MergedBelowRoot`, `EntriesFit`) are not even needed: `TreeKept` has the others as its hypothesis (`CanGoOn`).
The assumptions on the constants are those of `InnerTree.tla`: any threads and keys, any
degree from 3 to 50, any ratios, any first tree that one node holds, any plans.

The first half is about heaps. `Tree(h, r, H, U)` says that heap `h` has the root `r` over
the headers `H`: on each level the ranges of the nodes begin at key 0, go on at each
neighbour and end at a tail (`NodesOK`, `OrderOK`, `FirstOK`), the root is alone on its level
(`TopOK`), every entry names a node of the level below under its first key (`ChildOK`), and
every such node has an entry (`ParentOK`), apart from those in `U`.

* `Routing`: of such a heap, a descent for key `k` to level `l` ends at the one node of the
  level whose range has `k`. Both recursions (`NodeFor` to the right, `DescendTo` down) are
  taken by a least counterexample, as in 4.2. `FindsEntry`: there is the entry of the child
  that `k` is the first key of, if it is listed.
* One lemma for each kind of write says that it makes a `Tree` of a `Tree`: `NodeSplit`,
  `NodesMerged`, `LevelAdded`, `LevelRemoved`, and those on headers and on single entries.
  Each adds a child to `U` or takes one away: a split hides the new node until
  its parent lists it, a partner search hides the slave until the merge removes it.

The inductive invariant is `TreeInv`, proved in `TreeKept`, which the theorems below take
from `FollowedKept`:

* `Tree` of the model's heap, with `U` the slaves of the threads that are between the
  sections of a split or merge (`Hid`).
* `ThreadOK`: what a thread's place says. What it owns (`Own`) is there and registered for
  its kind of operation (`OwnOK`). Master and slave have nothing between them while the slave
  is hidden (`SmoOK`, `Near`): so a merge joins neighbours, and a split's entry goes right behind
  its master's. The parent it holds is a node of the level above (`ParOK`), by `HeldNodesLive`.
* `Apart` and `OwnerOK`: no two threads own one node, and every registered node has an owner.
  With `Near` and `Tree` this is what keeps restructurings apart: a node whose neighbour is
  hidden or registered is not chosen as a partner.
* `DeadOK`: freed nodes and tails are not registered, so that nobody owns them.

One `...Keeps` lemma for each action says that it keeps `TreeInv`; `StepKeeps` joins them. From
it:

* `LevelsSorted` (`LevelsAreSorted`), `ParentsList` (`ParentsListChildren`): no node and no
  partition is lost or listed twice, whatever splits and merges run at the same time.
* `DescentsArrive` (`RoutesToHeaders`), by `Routing`.
* `OneOwner` (`RegisteredByOne`), `NoLeak` (`NoSectionLeaked`), `MasterListed` (`MasterHasEntry`), and
  `TypesKept` (`TypeOK`).

### 4.4 MVRLU

`MVRLU_proofs.tla`. The theorems need no premise about the two races of section 3 (`Timely`):

* `ClocksAreQuiescent`: `Spec => []QpClkIsQuiescent`. `QpInv`: `run_cnt` is odd exactly in a
  section (`ParityInv`), clocks only rise (`ClockBounds`), and a section that is behind the
  clock QP detects was seen in `qp_init` and has the run counter QP remembers of it, so that
  `qp_wait` cannot end before it (`PassedInv`). A thread that is gone has no section
  (`GoneInv`).
* `TypeCorrect`: `Spec /\ []VersionsFit => []TypeOK`, with `LogInv`: every copy a chain, a
  lock, a section or a scan names is in its log and is one of that object. `VersionsFit` keeps
  the clock below `MAX_VERSION`, the clock of a write set that is not committed.
* `LocksAgree`: `[]LocksMatchLogs`, the same hypothesis. `LocksInv`: a lock names the write set that
  lists it, which is the open one of its thread, unless the copy frees the object: then
  nobody unlocks it again.
* `ChainsDescend`: `[]VersionsDescend`, the same hypothesis. `VersionInv`: a copy keeps the clock of the
  version it was put upon, also if that version is written back and given up later, and
  a commit moves its copies before it draws its clock, which is ahead of all of them.

### 4.5 Only model-checked

* Liveness (`SyncTerminates`, `SmosEnd` and the tree's): out of the prover's reach.
* `SnapshotReads`, `LatestKept` and `WritesExtendSnapshot` of `MVRLU`. Their inductive
  invariant would have to say for every section and every version on every chain in which
  of the two detections its clock is, for copies of write sets that are half written back;
  the runs check them under `Timely`.

## 5. Findings

Those a run shows (`findings` of `PROJECT.json`):

1. `tree_crash`, `lb_tree.c:489`: the merge of the last two partitions of a tree of
   level 1 sets the root's `p_inner` to NULL.
2. `tree_livelock`, `lb_tree.c:1000`: a partner search waits for ever for a neighbour
   that nobody will release.
3. `tree_stale`, `lb_tree.c:681`: an operation's second section starts from a stolen
   copy and overwrites a committed change.
4. `inner_full`, `lb_tree.c:1159`: with the default split ratio of 100 % a node is
   registered for a split when it has more than `inner_node_degree` entries, which
   `rlu_inner_split_update` (1292) never lets it have. The thread that has another
   entry for the node gets ROLLBACK for ever, and never tests `stop` again.

Those that were met while modelling and are left out by a named restriction or exception:

* `rlu.c:563`: two syncs can draw the same writer version, as the load, the sum and the
  store are separate accesses, and a reader can steal a copy before its writer
  advanced the global version, contrary to the comment at `rlu.c:837`
  (`~version_race`). `GracePeriod` holds all the same.
* `lb_tree.c:906`: a header split with nothing to move makes a second header of one key
  (`DistinctHeaders`).
* `bench.c:612-614`, `666-671`: the same as `inner_full` with a lower ratio (the exception
  that `SmosEnd` makes). A thread registers a node for a split at the end of one turn of its
  loop (`lb_tree.c:1164`) and splits it in the next one. If it sees `stop` or the cycle limit
  in between, it returns; the node stays registered, nobody else registers it, and a
  thread that fills it up gets ROLLBACK for ever. `StopIsTested` fails in this way with the
  constants of `inner`, if the first thread plans one split and the second one two.
* `lb_tree.c:1482`, `493`: a merge of inner nodes frees its slave, and a lowered root is
  freed, while another thread has that node as the parent of its split or merge and goes
  on with it in a section of its own (`HeldNodesLive`): it reads, and may lock, a freed
  node. `rlu_process_free` asserts that what it frees is not locked (`rlu.c:450`).
* `mvrlu.c:816-819`: a write set's clock is computed, stored and only then put into the
  global clock. Two commits may get one clock, and a section that began between
  another's `advance_clock` and this store has the clock already (`late_commit`).
* `mvrlu.c:1017-1019`: QP does not wait for a section whose `local_clk` is not before
  the clock it detects, although the comment at 879-883 counts on all sections of the
  first period being over in the second; `mvrlu.c:1462`: `run_cnt` is incremented before
  `log_commit`, so QP does not wait for commits either (`early_reclaim`).
* `mvrlu.c:904-957`: `need_reclaim` is cleared at the end of `log_reclaim`, which may
  have used clocks older than those that set it: the new ones are taken for done
  (`early_reclaim`).
* `mvrlu.c:1109-1111`, `1358-1366`: the log of a finished thread gets new clocks in every
  round of QP, and two more in `mvrlu_finish`, whether its copies were written back or not
  (`early_reclaim`).

And some outside the models, from reading only: `mvrlu_thread_free` (`mvrlu.c:1327-1339`)
may free a thread that is still among the zombies, which QP frees again (1126-1130);
`port_free_log_mem` in `port-user.h` computes a wrong bit from the second word of its
bitmap on; a reader whose first lock is refused leaves `is_write_detected` unset, and
`mvrlu_reader_unlock` then keeps the write set it began.

## 6. Not modelled, and what could follow

* RLU memory: `rlu_alloc`, `rlu_free`, `rlu_process_free` (`rlu.c:690-740`). Nodes of the
  tree models are never reused, so neither the bound of the array of freed nodes
  (732) nor a node released too early can show.
* Fewer than all threads, or a thread that ends with unpublished write sets
  (`bench.c:812`): the tree models have `rlu_max_ws` 1, as the shipped option file
  `bench_set/0.txt`. `RLU` has deferred write sets and `rlu_thread_finish`, but no
  operations that retry.
* `barrier_cross` (`pre_define.c:132`), the creation and joining of threads, options,
  statistics. The models let threads start at any time.
* Range scans (`lb_tree.c:98-136`, `602-643`) change a counter only; they see what any
  section sees.
* `lb_tree.c:990` reads one entry behind the last one, which is never used.
* Composition of `LBTree` and `InnerTree` in one run: old pointers to inner nodes,
  refused locks at several levels. The state space of the product is out of TLC's
  reach; the argument that sections of `InnerTree` are atomic is made in prose (2.3).
* Of MV-RLU: the layout of the log ring with its bogus write sets at the wrap-around, the
  registration of threads and `mvrlu_thread_free`, the ordo clock, the debug
  hash table, allocation; that `mvrlu_flush_log` ends. The tree over it is an
  earlier state of the first tree and calls its own copy of RLU.
* Stubs, printing, scripts, `Flamegraph/`, tools, the paper: no state of the program.

A team that goes on would prove `SnapshotReads` of `MVRLU` under `Timely`; compose `RLU`'s
sections with its memory; and give `LBTree` an abstract set of keys with linearisation
points.
