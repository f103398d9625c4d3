-------------------------------- MODULE LBTree --------------------------------
(***************************************************************************)
(* The lazy-balanced tree (lb+tree_rlu/lb_tree.c) while its root has level *)
(* 1: one list of leaf nodes, sorted, in which header nodes separate the   *)
(* partitions, and one inner node with an entry for each header.           *)
(*                                                                         *)
(* A thread of the benchmark (rlu_test) runs an operation or, when its     *)
(* last operation registered one, a split or merge of a partition.  Each   *)
(* is a sequence of RLU sections: the first one descends to a header, the  *)
(* following ones start from the pointers the earlier ones obtained.       *)
(*                                                                         *)
(* A section that may write is two steps.  Begin takes the snapshot it     *)
(* reads; its end locks the objects it changes and commits, or aborts.     *)
(* A committing thread keeps its objects locked until the sections that    *)
(* began before the commit are over (rlu_max_ws = 1: every write set is    *)
(* synchronised at once).  The module RLU shows that RLU provides this.    *)
(* Until then RLU_DEREF gives later sections a pointer to the committed    *)
(* copy in the thread's log, which they may still hold when it is old.     *)
(*                                                                         *)
(* Nodes are never reused: freed memory and old copies keep their          *)
(* contents.  Values of items are left out.                                *)
(***************************************************************************)
EXTENDS Integers, Sequences, FiniteSets

CONSTANTS
  Threads,
  Ops,              \* the operations the benchmark mixes
  MaxKey,           \* ITEM_MAX_KEY; ITEM_MIN_KEY is 1
  leaf_node_degree, split_thres_r, merge_thres_r, distri_r,   \* lb_meta
  InnerSplitThres,  \* from inner_node_degree: the inner node is split above it
  MaxOps            \* bound: the operations each thread starts

Keys == 1 .. MaxKey

ASSUME OptionAssumption ==
  /\ MaxKey \in Nat /\ MaxOps \in Nat /\ InnerSplitThres \in Nat
  /\ leaf_node_degree \in Nat /\ leaf_node_degree >= 3
  /\ split_thres_r \in 1 .. 100 /\ merge_thres_r \in 1 .. 100 /\ distri_r \in 1 .. 100
  /\ Ops \subseteq {"add", "remove", "update", "search"}

\* bound: too few operations for the inner node to be split.
ASSUME OneInnerNode == Cardinality(Threads) * MaxOps < InnerSplitThres

split_thres == (leaf_node_degree * split_thres_r) \div 100
merge_thres == (leaf_node_degree * merge_thres_r) \div 100

VARIABLES
  leaf,       \* the leaf nodes, by order of allocation
  entry,      \* the entries of the inner node
  root_null,  \* the root's p_inner is NULL
  pc, op, n_ops,
  p_header,   \* result of the descent: a node, and the copy pointed to, if any
  p_inner,    \* the same for the inner node an SMO updates
  smo,        \* p_smo of each thread
  snap,       \* snapshot of an open section, and the objects locked when it began
  wrote,      \* objects a committing thread has not written back yet
  older,      \* sections a committing thread waits for
  after,      \* where it goes then
  stop, crashed,
  present     \* history: the keys added and not removed

heap    == <<leaf, entry, root_null>>
rlu     == <<snap, wrote, older, after>>
process == <<stop, crashed>>
vars == <<heap, pc, op, n_ops, p_header, p_inner, smo, rlu, process, present>>

NORMAL      == 0
HEADER_TYPE == 1
TAIL_TYPE   == 2

MERGE_REGIST == -1
FREE         == 0
SPLIT_REGIST == 1

\* Lockable objects: leaf nodes by their number, the inner node, the root.
HEAD  == 1
TAIL  == 2
INNER == 0
ROOT  == -1

NoSmo == [operator |-> 0, master |-> 0, slave |-> 0]
NoPtr == [node |-> 0, copy |-> <<>>]

\* rlu_new_root: an empty partition and its entry.
Init ==
  /\ leaf = <<[type |-> HEADER_TYPE, state |-> FREE, count |-> 0, key |-> 0, next |-> TAIL],
              [type |-> TAIL_TYPE, state |-> FREE, count |-> 0, key |-> MaxKey + 1, next |-> TAIL]>>
  /\ entry = <<[key |-> 0, child |-> HEAD]>>
  /\ root_null = FALSE
  /\ pc = [t \in Threads |-> "idle"]
  /\ op = [t \in Threads |-> [kind |-> "search", key |-> 1]]
  /\ n_ops = [t \in Threads |-> 0]
  /\ p_header = [t \in Threads |-> NoPtr]
  /\ p_inner = [t \in Threads |-> NoPtr]
  /\ smo = [t \in Threads |-> NoSmo]
  /\ snap = [t \in Threads |-> <<>>]
  /\ wrote = [t \in Threads |-> {}]
  /\ older = [t \in Threads |-> {}]
  /\ after = [t \in Threads |-> "idle"]
  /\ stop = FALSE /\ crashed = FALSE
  /\ present = {}

Goto(t, loc) == pc' = [pc EXCEPT ![t] = loc]

------------------------------------------------------------------------------
(***************************************************************************)
(* Sections                                                                *)
(***************************************************************************)
WriteSections ==
  {"leaf", "split", "update", "release", "partner", "merge", "release_master", "level_down"}

\* Sections that go through the root's p_inner.
FromRoot == {"descend", "find_parent", "partner", "level_down"}

\* What rlu_try_lock refuses: objects of other threads' unfinished commits.
Locked(t) == UNION {wrote[u] : u \in Threads \ {t}}

Begin(t) ==
  /\ pc[t] \in WriteSections /\ snap[t] = <<>>
  /\ pc[t] \in FromRoot => ~root_null
  /\ snap' = [snap EXCEPT ![t] = <<[leaf |-> leaf, entry |-> entry, locked |-> Locked(t)]>>]
  /\ UNCHANGED <<heap, pc, op, n_ops, p_header, p_inner, smo, wrote, older, after, process,
                 present>>

InSection(t, loc) == pc[t] = loc /\ snap[t] # <<>>

Leave(t) ==
  /\ snap' = [snap EXCEPT ![t] = <<>>]
  /\ older' = [u \in Threads |-> older[u] \ {t}]

\* RLU_READER_UNLOCK of a section that locked nothing, and RLU_ABORT.
LeaveTo(t, loc) ==
  /\ Leave(t)
  /\ Goto(t, loc)
  /\ UNCHANGED <<heap, wrote, after, process, present>>

\* Mutant of Sections: nobody is waited for.
NoSections(t) == {}

\* The open sections, which a commit waits for.
Sections(t) == {v \in Threads \ {t} : snap[v] # <<>>}

\* RLU_READER_UNLOCK of a section that locked objs.
Commit(t, objs, loc) ==
  /\ objs \intersect Locked(t) = {}
  /\ snap' = [snap EXCEPT ![t] = <<>>]
  /\ wrote' = [wrote EXCEPT ![t] = objs]
  /\ older' = [u \in Threads |->
       IF u = t THEN Sections(t) ELSE older[u] \ {t}]
  /\ after' = [after EXCEPT ![t] = loc]
  /\ Goto(t, "sync")
  /\ UNCHANGED process

\* Mutant of SyncAndWriteback: the objects stay locked.
WritebackOnly(t) ==
  /\ pc[t] = "sync" /\ older[t] = {}
  /\ Goto(t, after[t])
  /\ UNCHANGED <<heap, op, n_ops, p_header, p_inner, smo, rlu, process, present>>

\* The sections that began before the commit are over: write back, unlock.
SyncAndWriteback(t) ==
  /\ pc[t] = "sync" /\ older[t] = {}
  /\ wrote' = [wrote EXCEPT ![t] = {}]
  /\ Goto(t, after[t])
  /\ UNCHANGED <<heap, op, n_ops, p_header, p_inner, smo, snap, older, after, process, present>>

\* RLU_DEREF of a leaf pointer in an open section: a pointer to a copy stays
\* one, and the copy of a thread that committed before the section is stolen.
Deref(p, s) ==
  IF p.copy # <<>> \/ p.node \notin s.locked THEN p
  ELSE [p EXCEPT !.copy = <<s.leaf[p.node]>>]

------------------------------------------------------------------------------
(***************************************************************************)
(* Walking the leaf list                                                   *)
(***************************************************************************)
\* The nodes reached from pointer p in h, one p_next after the other.
Path(h, p) ==
  LET first == IF p.copy = <<>> THEN h[p.node] ELSE p.copy[1]
      c[i \in 0 .. Len(h)] ==
        IF i = 0 THEN p.node
        ELSE IF i = 1 THEN first.next
        ELSE h[c[i - 1]].next
  IN c

\* Mutant of Stops: the walk ends with the partition it began in.
StopsWithPartition(n, k) == k <= n.key \/ n.type = HEADER_TYPE

\* key_compare and the type: the walk for k ends at node n.
Stops(n, k) == k < n.key \/ (k = n.key /\ n.type = NORMAL)

\* Mutant of Locate: the header the walk began at stays the partition's.
LocateFromHeld(h, p, k) ==
  LET c == Path(h, p)
      i == CHOOSE j \in 1 .. Len(h) :
             Stops(h[c[j]], k) /\ \A m \in 1 .. j - 1 : ~Stops(h[c[m]], k)
  IN [prev |-> c[i - 1], at |-> c[i], found |-> h[c[i]].key = k, header |-> p]

\* Where k is or belongs: the loop all leaf operations have.  A header passed
\* on the way becomes the partition's header.
Locate(h, p, k) ==
  LET c == Path(h, p)
      i == CHOOSE j \in 1 .. Len(h) :
             Stops(h[c[j]], k) /\ \A m \in 1 .. j - 1 : ~Stops(h[c[m]], k)
      g == CHOOSE j \in 0 .. i - 1 :
             /\ j = 0 \/ h[c[j]].type = HEADER_TYPE
             /\ \A m \in j + 1 .. i - 1 : h[c[m]].type # HEADER_TYPE
  IN [prev |-> c[i - 1], at |-> c[i], found |-> h[c[i]].key = k,
      header |-> IF g = 0 THEN p ELSE [node |-> c[g], copy |-> <<>>]]

\* rlu_inner_entry_search in the only inner node of its level.
EntrySearch(es, k) ==
  CHOOSE i \in 1 .. Len(es) :
    /\ \A j \in 2 .. i : es[j].key <= k
    /\ i < Len(es) => k < es[i + 1].key

------------------------------------------------------------------------------
(***************************************************************************)
(* Operations: rlu_lb_tree_add, remove, update, search                     *)
(***************************************************************************)
StartOperation(t) ==
  /\ pc[t] = "idle" /\ ~stop
  /\ smo[t].operator = 0
  /\ n_ops[t] < MaxOps
  /\ \E kind \in Ops, k \in Keys : op' = [op EXCEPT ![t] = [kind |-> kind, key |-> k]]
  /\ n_ops' = [n_ops EXCEPT ![t] = @ + 1]
  /\ Goto(t, "descend")
  /\ UNCHANGED <<heap, p_header, p_inner, smo, rlu, process, present>>

\* The first section: from the root to a header.
Descend(t) ==
  LET child == entry[EntrySearch(entry, op[t].key)].child IN
  /\ pc[t] = "descend" /\ ~root_null
  /\ p_header' = [p_header EXCEPT ![t] =
       [node |-> child, copy |-> IF child \in Locked(t) THEN <<leaf[child]>> ELSE <<>>]]
  /\ Goto(t, IF op[t].kind = "search" THEN "search" ELSE "leaf")
  /\ UNCHANGED <<heap, op, n_ops, p_inner, smo, rlu, process, present>>

\* rlu_leaf_search: its result is what Locate finds.
Search(t) ==
  /\ pc[t] = "search"
  /\ Goto(t, "idle")
  /\ p_header' = [p_header EXCEPT ![t] = NoPtr]
  /\ UNCHANGED <<heap, op, n_ops, p_inner, smo, rlu, process, present>>

Place(t) == Locate(snap[t][1].leaf, Deref(p_header[t], snap[t][1]), op[t].key)

HasWork(t) == Place(t).found <=> op[t].kind # "add"

\* Mutant of LeafLocks: only the node written to is locked.
LocksPredecessor(t) == {Place(t).prev}

LeafLocks(t) ==
  LET w == Place(t) IN
  IF op[t].kind = "update" THEN {w.at} ELSE {w.header.node, w.prev, w.at}

\* The key is there already, or is not there.
LeafNothing(t) ==
  /\ InSection(t, "leaf")
  /\ ~HasWork(t)
  /\ p_header' = [p_header EXCEPT ![t] = NoPtr]
  /\ LeaveTo(t, "idle")
  /\ UNCHANGED <<op, n_ops, p_inner, smo>>

\* A lock is refused; the section starts again with the p_header it has now:
\* of rlu_leaf_add and rlu_leaf_remove the one they dereferenced, which points
\* to the copy in the thread's own log if it was locked before the refusal.
LeafRestart(t) ==
  LET w == Place(t)
      h == w.header.node
  IN
  /\ InSection(t, "leaf")
  /\ HasWork(t)
  /\ LeafLocks(t) \intersect Locked(t) # {}
  /\ p_header' = [p_header EXCEPT ![t] =
       IF op[t].kind = "update" THEN @
       ELSE IF h \in Locked(t) THEN Deref(w.header, snap[t][1])
       ELSE [node |-> h, copy |-> <<leaf[h]>>]]
  /\ LeaveTo(t, "leaf")
  /\ UNCHANGED <<op, n_ops, p_inner, smo>>

\* Registration of a split or merge of partition h.
Register(t, h, operator) ==
  smo' = [smo EXCEPT ![t] = [operator |-> operator, master |-> h, slave |-> 0]]

\* Mutants of NeedsSplit and NeedsMerge: the state is not looked at.
SplitsAnyway(h) == leaf[h].count + 1 > split_thres
MergesAnyway(h) == leaf[h].count - 1 < merge_thres

\* One more item, or one less, and partition h is to be split, or merged.
NeedsSplit(h) == leaf[h].count + 1 > split_thres /\ leaf[h].state = FREE

NeedsMerge(h) == leaf[h].count - 1 < merge_thres /\ leaf[h].state = FREE

rlu_leaf_add(t) ==
  LET w == Place(t)
      h == w.header.node
      new == [type |-> NORMAL, state |-> FREE, count |-> 0, key |-> op[t].key, next |-> w.at]
  IN
  /\ InSection(t, "leaf") /\ op[t].kind = "add"
  /\ HasWork(t)
  /\ leaf' = Append([leaf EXCEPT ![w.prev].next = Len(leaf) + 1,
                                 ![h].count = @ + 1,
                                 ![h].state = IF NeedsSplit(h) THEN SPLIT_REGIST ELSE @], new)
  /\ IF NeedsSplit(h) THEN Register(t, h, 10) ELSE UNCHANGED smo
  /\ present' = present \union {op[t].key}
  /\ p_header' = [p_header EXCEPT ![t] = NoPtr]
  /\ Commit(t, LeafLocks(t), "idle")
  /\ UNCHANGED <<entry, root_null, op, n_ops, p_inner>>

rlu_leaf_remove(t) ==
  LET w == Place(t)
      h == w.header.node
  IN
  /\ InSection(t, "leaf") /\ op[t].kind = "remove"
  /\ HasWork(t)
  /\ leaf' = [leaf EXCEPT ![w.prev].next = snap[t][1].leaf[w.at].next,
                          ![h].count = @ - 1,
                          ![h].state = IF NeedsMerge(h) THEN MERGE_REGIST ELSE @]
  /\ IF NeedsMerge(h) THEN Register(t, h, -10) ELSE UNCHANGED smo
  /\ present' = present \ {op[t].key}
  /\ p_header' = [p_header EXCEPT ![t] = NoPtr]
  /\ Commit(t, LeafLocks(t), "idle")
  /\ UNCHANGED <<entry, root_null, op, n_ops, p_inner>>

rlu_leaf_update(t) ==
  /\ InSection(t, "leaf") /\ op[t].kind = "update"
  /\ HasWork(t)
  /\ p_header' = [p_header EXCEPT ![t] = NoPtr]
  /\ Commit(t, LeafLocks(t), "idle")
  /\ UNCHANGED <<heap, op, n_ops, p_inner, smo, present>>

------------------------------------------------------------------------------
(***************************************************************************)
(* Splitting a partition: rlu_lb_tree_split                                *)
(***************************************************************************)
StartSmo(t) ==
  /\ pc[t] = "idle" /\ ~stop
  /\ smo[t].operator # 0
  /\ Goto(t, IF smo[t].operator > 0 THEN "split" ELSE "partner")
  /\ UNCHANGED <<heap, op, n_ops, p_header, p_inner, smo, rlu, process, present>>

split_point(h, m) == (h[m].count * distri_r) \div 100

\* The items stay with the master, up to the node curr.
SplitPlace(t) ==
  LET h    == snap[t][1].leaf
      m    == smo[t].master
      keep == h[m].count - split_point(h, m)
      path == Path(h, [node |-> m, copy |-> <<>>])
  IN [keep |-> keep, curr |-> path[keep], next |-> path[keep + 1]]

SplitLocks(t) == {smo[t].master, SplitPlace(t).curr, SplitPlace(t).next}

\* A new header is put in front of the last split_point items.
rlu_header_split(t) ==
  LET h == snap[t][1].leaf
      m == smo[t].master
      w == SplitPlace(t)
      new == [type |-> HEADER_TYPE, state |-> SPLIT_REGIST, count |-> split_point(h, m),
              key |-> h[w.next].key, next |-> w.next]
  IN
  /\ InSection(t, "split")
  /\ leaf' = Append([leaf EXCEPT ![w.curr].next = Len(leaf) + 1, ![m].count = w.keep], new)
  /\ smo' = [smo EXCEPT ![t].slave = Len(leaf) + 1]
  /\ Commit(t, SplitLocks(t), "find_parent")
  /\ UNCHANGED <<entry, root_null, op, n_ops, p_header, p_inner, present>>

\* rlu_parent_split_update: the descent to the parent.
FindParent(t) ==
  /\ pc[t] = "find_parent" /\ ~root_null
  /\ p_inner' = [p_inner EXCEPT ![t] = [node |-> INNER, copy |-> <<>>]]
  /\ Goto(t, "update")
  /\ UNCHANGED <<heap, op, n_ops, p_header, smo, rlu, process, present>>

\* The entries the section looks the master up in: those of a copy, if the
\* pointer is one to a copy by now.
SeenEntries(t) == IF p_inner[t].copy = <<>> THEN snap[t][1].entry ELSE p_inner[t].copy[1]

MasterEntries(t) ==
  {i \in DOMAIN SeenEntries(t) : SeenEntries(t)[i].key = leaf[smo[t].master].key}

m_point(t) == CHOOSE i \in MasterEntries(t) : \A j \in MasterEntries(t) : i <= j

\* The slave's entry goes behind the master's; a parent that has no entry of
\* the master is searched for again.
rlu_inner_split_update(t) ==
  LET s == smo[t].slave
      m == m_point(t)
  IN
  /\ InSection(t, "update")
  /\ p_inner' = [p_inner EXCEPT ![t] = NoPtr]
  /\ IF MasterEntries(t) = {} THEN LeaveTo(t, "find_parent")
     ELSE /\ entry' = SubSeq(entry, 1, m) \o <<[key |-> leaf[s].key, child |-> s]>>
                      \o SubSeq(entry, m + 1, Len(entry))
          /\ Commit(t, {INNER}, "release")
          /\ UNCHANGED <<leaf, root_null, present>>
  /\ UNCHANGED <<op, n_ops, p_header, smo>>

\* The lock is refused: the section starts again from the pointer it has now.
SplitUpdateRestart(t) ==
  /\ InSection(t, "update")
  /\ MasterEntries(t) # {}
  /\ INNER \in Locked(t)
  /\ p_inner' = [p_inner EXCEPT ![t].copy =
       IF @ # <<>> \/ INNER \notin snap[t][1].locked THEN @ ELSE <<snap[t][1].entry>>]
  /\ LeaveTo(t, "update")
  /\ UNCHANGED <<op, n_ops, p_header, smo>>

Done(t) == smo' = [smo EXCEPT ![t] = NoSmo]

\* The release functions return without RLU_READER_UNLOCK when a state is not
\* the one they expect: the section stays open, its locks are kept.
ReturnInSection(t) ==
  /\ Goto(t, "leaked")
  /\ UNCHANGED <<leaf, smo, rlu, process>>

\* rlu_header_release(3).
ReleaseBoth(t) ==
  LET m == smo[t].master
      s == smo[t].slave
  IN
  /\ InSection(t, "release")
  /\ {m, s} \intersect Locked(t) = {}
  /\ IF leaf[m].state = SPLIT_REGIST /\ leaf[s].state = SPLIT_REGIST
     THEN /\ leaf' = [leaf EXCEPT ![m].state = FREE, ![s].state = FREE]
          /\ Done(t)
          /\ Commit(t, {m, s}, "idle")
     ELSE ReturnInSection(t)
  /\ UNCHANGED <<entry, root_null, op, n_ops, p_header, p_inner, present>>

------------------------------------------------------------------------------
(***************************************************************************)
(* Merging two partitions: rlu_lb_tree_merge                               *)
(***************************************************************************)
\* rlu_header_partner_search: the right neighbour is tried, the left one only
\* when there is no right one.
PartnerEntry(t) ==
  LET es == snap[t][1].entry
      e  == EntrySearch(es, leaf[smo[t].master].key)
  IN IF e < Len(es) THEN e + 1 ELSE e - 1

Partner(t) == snap[t][1].entry[PartnerEntry(t)].child

\* Mutant of PartnerFree: the partner's state is not looked at.
PartnerTaken(t) == TRUE

PartnerFree(t) == snap[t][1].leaf[Partner(t)].state = FREE

\* Mutant of RemoveEntry: the entries are shifted from one place too early on.
RemoveEntryBefore(es, i) == SubSeq(es, 1, i - 2) \o SubSeq(es, i, Len(es))

RemoveEntry(es, i) == SubSeq(es, 1, i - 1) \o SubSeq(es, i + 1, Len(es))

\* Of the two neighbours the left one becomes the master; the other one's
\* entry is removed.
rlu_header_partner_search(t) ==
  LET es == snap[t][1].entry
      e  == EntrySearch(es, leaf[smo[t].master].key)
      m  == IF PartnerEntry(t) > e THEN e ELSE PartnerEntry(t)
  IN
  /\ InSection(t, "partner")
  /\ Len(es) > 1 /\ PartnerFree(t)
  /\ leaf' = [leaf EXCEPT ![Partner(t)].state = MERGE_REGIST]
  /\ smo' = [smo EXCEPT ![t].master = es[m].child, ![t].slave = es[m + 1].child]
  /\ entry' = RemoveEntry(es, m + 1)
  /\ Commit(t, {Partner(t), INNER}, "merge")
  /\ UNCHANGED <<root_null, op, n_ops, p_header, p_inner, present>>

\* Only one partition is left.
NoPartner(t) ==
  /\ InSection(t, "partner")
  /\ Len(snap[t][1].entry) = 1
  /\ LeaveTo(t, "release_master")
  /\ UNCHANGED <<op, n_ops, p_header, p_inner, smo>>

\* Where the walk from the master finds a header with the slave's key.
SlavePositions(t) ==
  LET h == snap[t][1].leaf
      c == Path(h, [node |-> smo[t].master, copy |-> <<>>])
  IN {i \in 1 .. Len(h) : /\ h[c[i]].type = HEADER_TYPE
                          /\ h[c[i]].key = leaf[smo[t].slave].key}

MergePlace(t) ==
  LET c == Path(snap[t][1].leaf, [node |-> smo[t].master, copy |-> <<>>])
      i == CHOOSE j \in SlavePositions(t) : \A k \in SlavePositions(t) : j <= k
  IN [prev |-> c[i - 1], at |-> c[i]]

MergeLocks(t) == {smo[t].master, MergePlace(t).prev, MergePlace(t).at}

\* The slave's header is taken out of the list, its items stay; if it is not
\* behind the master, the merge is given up.
rlu_header_merge(t) ==
  LET h == snap[t][1].leaf
      m == smo[t].master
      w == MergePlace(t)
  IN
  /\ InSection(t, "merge")
  /\ IF SlavePositions(t) = {}
     THEN LeaveTo(t, "release_master") /\ smo' = [smo EXCEPT ![t].slave = 0]
     ELSE /\ leaf' = [leaf EXCEPT ![m].count = @ + leaf[w.at].count,
                                  ![w.prev].next = h[w.at].next]
          /\ Commit(t, MergeLocks(t), "release_master")
          /\ UNCHANGED <<entry, root_null, smo, present>>
  /\ UNCHANGED <<op, n_ops, p_header, p_inner>>

\* rlu_header_release(1); after a merge the root is looked at.
ReleaseMaster(t) ==
  LET m == smo[t].master IN
  /\ InSection(t, "release_master")
  /\ m \notin Locked(t)
  /\ IF leaf[m].state # MERGE_REGIST THEN ReturnInSection(t)
     ELSE /\ leaf' = [leaf EXCEPT ![m].state = FREE]
          /\ IF smo[t].slave # 0
             THEN Commit(t, {m}, "level_down") /\ UNCHANGED smo
             ELSE Commit(t, {m}, "idle") /\ Done(t)
  /\ UNCHANGED <<entry, root_null, op, n_ops, p_header, p_inner, present>>

\* rlu_root_level_down: the last entry's p_inner_child becomes the root's
\* p_inner, and in a node of level 1 that is NULL.
rlu_root_level_down(t) ==
  /\ InSection(t, "level_down")
  /\ Len(snap[t][1].entry) = 1
  /\ root_null' = TRUE
  /\ Done(t)
  /\ Commit(t, {ROOT, INNER}, "idle")
  /\ UNCHANGED <<leaf, entry, op, n_ops, p_header, p_inner, present>>

LevelStays(t) ==
  /\ InSection(t, "level_down")
  /\ Len(snap[t][1].entry) > 1
  /\ Done(t)
  /\ LeaveTo(t, "idle")
  /\ UNCHANGED <<op, n_ops, p_header, p_inner>>

------------------------------------------------------------------------------
(***************************************************************************)
(* Refusals and the end                                                    *)
(***************************************************************************)
MustRestart(t) ==
  \/ pc[t] = "split" /\ SplitLocks(t) \intersect Locked(t) # {}
  \/ pc[t] = "release" /\ {smo[t].master, smo[t].slave} \intersect Locked(t) # {}
  \/ /\ pc[t] = "partner" /\ Len(snap[t][1].entry) > 1
     /\ PartnerFree(t) => {Partner(t), INNER} \intersect Locked(t) # {}
  \/ /\ pc[t] = "merge" /\ SlavePositions(t) # {}
     /\ MergeLocks(t) \intersect Locked(t) # {}
  \/ pc[t] = "release_master" /\ smo[t].master \in Locked(t)
  \/ /\ pc[t] = "level_down" /\ Len(snap[t][1].entry) = 1
     /\ {ROOT, INNER} \intersect Locked(t) # {}

\* RLU_ABORT and goto restart: everything is read again.
SmoRestart(t) ==
  /\ snap[t] # <<>>
  /\ MustRestart(t)
  /\ LeaveTo(t, pc[t])
  /\ UNCHANGED <<op, n_ops, p_header, p_inner, smo>>

\* A thread follows the NULL: segfault_handler ends the process.
NullRoot(t) ==
  /\ pc[t] \in FromRoot /\ snap[t] = <<>> /\ root_null
  /\ crashed' = TRUE
  /\ UNCHANGED <<heap, pc, op, n_ops, p_header, p_inner, smo, rlu, stop, present>>

\* main, after the given duration.
StopThreads ==
  /\ ~stop
  /\ stop' = TRUE
  /\ UNCHANGED <<heap, pc, op, n_ops, p_header, p_inner, smo, rlu, crashed, present>>

Return(t) ==
  /\ pc[t] = "idle" /\ stop
  /\ Goto(t, "returned")
  /\ UNCHANGED <<heap, op, n_ops, p_header, p_inner, smo, rlu, process, present>>

Operate(t) ==
  \/ StartOperation(t) \/ Descend(t) \/ Search(t)
  \/ rlu_leaf_add(t) \/ rlu_leaf_remove(t) \/ rlu_leaf_update(t)
  \/ LeafNothing(t) \/ LeafRestart(t)

Split(t) ==
  \/ rlu_header_split(t) \/ FindParent(t) \/ rlu_inner_split_update(t)
  \/ SplitUpdateRestart(t) \/ ReleaseBoth(t)

Merge(t) ==
  \/ rlu_header_partner_search(t) \/ NoPartner(t)
  \/ rlu_header_merge(t) \/ ReleaseMaster(t)
  \/ rlu_root_level_down(t) \/ LevelStays(t)

ThreadStep(t) ==
  /\ ~crashed
  /\ \/ Begin(t) \/ SyncAndWriteback(t)
     \/ Operate(t) \/ StartSmo(t) \/ Split(t) \/ Merge(t)
     \/ SmoRestart(t) \/ NullRoot(t) \/ Return(t)

Ended == crashed \/ \A t \in Threads : pc[t] = "returned"

Next ==
  \/ \E t \in Threads : ThreadStep(t)
  \/ ~crashed /\ StopThreads
  \/ Ended /\ UNCHANGED vars

Spec == Init /\ [][Next]_vars

\* Running threads keep executing, and the given duration ends.
FairSpec == Spec /\ WF_vars(StopThreads) /\ \A t \in Threads : WF_vars(ThreadStep(t))

------------------------------------------------------------------------------
(***************************************************************************)
(* Properties                                                              *)
(***************************************************************************)
Locs == WriteSections \union FromRoot \union {"idle", "search", "sync", "leaked", "returned"}

LeafTypes ==
  /\ leaf \in Seq([type : {NORMAL, HEADER_TYPE, TAIL_TYPE},
                   state : {MERGE_REGIST, FREE, SPLIT_REGIST},
                   count : Nat, key : 0 .. MaxKey + 1, next : Nat])
  /\ \A i \in DOMAIN leaf : leaf[i].next \in DOMAIN leaf

\* Nodes and entries keep their shape and point to nodes, and an SMO in
\* progress names its partitions.
TypeOK ==
  /\ LeafTypes
  /\ entry \in Seq([key : 0 .. MaxKey + 1, child : DOMAIN leaf])
  /\ entry # <<>>
  /\ root_null \in BOOLEAN /\ stop \in BOOLEAN /\ crashed \in BOOLEAN
  /\ pc \in [Threads -> Locs] /\ after \in [Threads -> Locs]
  /\ \A t \in Threads :
       /\ smo[t].operator \in {-10, 0, 10}
       /\ smo[t].operator # 0 => smo[t].master \in DOMAIN leaf
       /\ pc[t] \in {"find_parent", "update", "release", "merge"} => smo[t].slave \in DOMAIN leaf
  /\ present \subseteq Keys

\* The leaf list from its first header; behind the tail comes the tail.
List == Path(leaf, [node |-> HEAD, copy |-> <<>>])

InList == {List[i] : i \in 0 .. Len(leaf)}

IsHeader(n) == leaf[n].type = HEADER_TYPE

\* The header a thread carries from one section to the next is in the list,
\* and if the thread's pointer is one to a copy, the copy equals the header.
FreshHeader(t) ==
  /\ p_header[t].node \in InList
  /\ p_header[t].copy \in {<<>>, <<leaf[p_header[t].node]>>}

\* The executions in which no thread starts a section from an old copy, or from
\* a header that another thread's merge took out of the list.
FreshPointers ==
  \A t \in Threads :
    /\ p_header[t] = NoPtr \/ FreshHeader(t)
    /\ p_inner[t].copy \in {<<>>, <<entry>>}

\* The executions in which no split finds nothing to move right before a
\* header: split_point is 0 if the partition lost its items after its split was
\* registered, and the empty slave gets the key of that header.  The parent then
\* has two entries of one key, and its entries and the list part ways.
DistinctHeaders ==
  \A n, m \in InList : IsHeader(n) /\ IsHeader(m) /\ leaf[n].key = leaf[m].key => n = m

\* Headers and items stay in key order under concurrent adds, removes, splits
\* and merges, though each locks three nodes at most; only a header may have
\* the key of its successor.
ListSorted ==
  \A i \in 0 .. Len(leaf) - 1 : List[i] # TAIL =>
    \/ leaf[List[i]].key < leaf[List[i + 1]].key
    \/ IsHeader(List[i]) /\ leaf[List[i]].key = leaf[List[i + 1]].key

ItemsBehind(i) ==
  {j \in i + 1 .. Len(leaf) : \A m \in i + 1 .. j : leaf[List[m]].type = NORMAL}

\* The count of a partition's header, from which splits and merges are
\* decided and split points computed, is the number of its items, whatever
\* header the threads started their walks from.  With DistinctHeaders, like the
\* next properties about the parent and registrations.
CountsMatch ==
  \A i \in 0 .. Len(leaf) :
    IsHeader(List[i]) => leaf[List[i]].count = Cardinality(ItemsBehind(i))

\* The list holds the keys added and not removed: no committed change of a
\* leaf is lost to another one or to a split or merge.
NothingLost ==
  {leaf[n].key : n \in {m \in InList : leaf[m].type = NORMAL}} = present

\* From the header an operation holds between its two sections, which may
\* have been split since, the key is found exactly if it is in the tree.
HeldHeaderSuffices ==
  \A t \in Threads :
    pc[t] \in {"leaf", "search"} /\ snap[t] = <<>> /\ FreshHeader(t) =>
      (Locate(leaf, p_header[t], op[t].key).found <=> op[t].key \in present)

\* The parent's entries are headers of the list, in key order, and a
\* partition no split or merge is registered for has an entry: neighbours in
\* the parent are candidates for a merge (rlu_header_partner_search).
ParentKnowsPartitions ==
  /\ \A i \in DOMAIN entry :
       /\ entry[i].child \in InList /\ IsHeader(entry[i].child)
       /\ entry[i].key = leaf[entry[i].child].key
       /\ i > 1 => entry[i - 1].key <= entry[i].key
  /\ \A n \in InList : IsHeader(n) /\ leaf[n].state = FREE =>
       \E i \in DOMAIN entry : entry[i].child = n

\* t has a split or merge registered or begun, and has not released it yet.
Owes(t) ==
  smo[t].operator # 0 /\ "level_down" \notin {pc[t], IF pc[t] = "sync" THEN after[t] ELSE "idle"}

\* A registered header belongs to one pending split or merge, so that it is
\* released some day and by one thread only.
RegisteredByOne ==
  \A n \in InList : IsHeader(n) /\ leaf[n].state # FREE =>
    \E t \in Threads : \A u \in Threads :
      u = t <=> Owes(u) /\ n \in {smo[u].master, smo[u].slave}

\* The release functions find the states they release; their return without
\* RLU_READER_UNLOCK (lb_tree.c:866) is never taken.
NoSectionLeaked == \A t \in Threads : pc[t] # "leaked"

\* "If both duration and cycle are non-zero. process is terminated by duration
\* condtion." (Guide_book/bench_option_help.txt:10): when the duration is
\* over, every thread returns.
TerminatedByDuration == stop ~> \A t \in Threads : pc[t] = "returned"

\* The same line of a process that goes on: every thread returns to the test of
\* stop, whatever split or merge it is in.
StopReachesThreads == stop ~> crashed \/ \A t \in Threads : pc[t] = "returned"

\* bench.c:630-634 counts an add that returned success as one more item and a
\* remove as one less, and show_post_bench prints their sum as "Total Modified
\* Size" (pre_define.c:538): the tree holds the items so counted.
TotalModifiedSize ==
  Cardinality({n \in InList : leaf[n].type = NORMAL}) = Cardinality(present)
==============================================================================
