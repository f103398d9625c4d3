------------------------------ MODULE InnerTree ------------------------------
(***************************************************************************)
(* The inner nodes of the lazy-balanced tree (lb+tree_rlu/lb_tree.c):      *)
(* levels that come and go, splits and merges of inner nodes, each run by  *)
(* the thread that registered it, as a row of RLU sections.                *)
(*                                                                         *)
(* A section locks every node its outcome depends on, apart from the path  *)
(* of a descent, so one action stands for a section at its commit; LBTree  *)
(* has the snapshots, the refused locks and the pointers to old copies.    *)
(* The leaf list is abstracted to the keys of its headers.                 *)
(***************************************************************************)
EXTENDS Integers, Sequences, FiniteSets, SequencesExt, Functions

CONSTANTS
  Threads,
  MaxKey,        \* ITEM_MAX_KEY
  Trees,         \* sets of headers of a tree of level 1 that one thread has grown
  inner_node_degree, split_thres_r, merge_thres_r, distri_r,   \* lb_meta
  Plans          \* bounds: splits and merges of partitions each thread may register

Keys == 0 .. MaxKey
NoNode == 0
MAX_INNER_DEGREE == 50

split_thres == (inner_node_degree * split_thres_r) \div 100
merge_thres == (inner_node_degree * merge_thres_r) \div 100

ASSUME OptionAssumption ==
  /\ MaxKey \in Nat /\ Plans \subseteq [Threads -> [splits : Nat, merges : Nat]]
  /\ inner_node_degree \in 3 .. MAX_INNER_DEGREE
  /\ split_thres_r \in 1 .. 100 /\ merge_thres_r \in 1 .. 100 /\ distri_r \in 1 .. 100

ASSUME TreesAssumption ==
  \A hs \in Trees : hs \subseteq Keys /\ 0 \in hs /\ Cardinality(hs) <= split_thres

VARIABLES
  node,         \* the inner nodes, by order of allocation
  root,         \* the root's p_inner
  master_root,  \* the same in the root's own memory: behind, until written back
  headers,      \* keys of the headers in the leaf list
  registered,   \* those whose state is not FREE
  pc,
  smo,          \* p_smo of each thread
  p_inner,      \* the parent a split or merge goes on with
  left          \* splits and merges of partitions each thread may still register

tree == <<node, root, master_root>>
leaves == <<headers, registered>>
vars == <<tree, leaves, pc, smo, p_inner, left>>

MERGE_REGIST == -1
FREE         == 0
SPLIT_REGIST == 1

NoSmo == [operator |-> 0, master |-> 0, slave |-> 0]

Goto(t, loc) == pc' = [pc EXCEPT ![t] = loc]

\* The entry of a child; a header is named by its key.
Entry(k, c) == [key |-> k, child |-> c]

\* rlu_new_inner and the assignments behind it; count is Len(entries).
Inner(level, state, es, next) ==
  [level |-> level, state |-> state, min_key |-> es[1].key, entries |-> es, next |-> next]
TailNode(level) ==
  [level |-> level, state |-> FREE, min_key |-> MaxKey + 1, entries |-> <<>>, next |-> NoNode]

\* What is left of a node after RLU_FREE.
Freed == [TailNode(0) EXCEPT !.min_key = 0]

\* rlu_new_root, and a few splits of partitions by one thread.
Init ==
  /\ \E hs \in Trees :
       /\ headers = hs
       /\ \E ks \in [1 .. Cardinality(hs) -> hs] :
            /\ Range(ks) = hs /\ \A i, j \in DOMAIN ks : i < j => ks[i] < ks[j]
            /\ node = <<Inner(1, FREE, [i \in DOMAIN ks |-> Entry(ks[i], ks[i])], 2), TailNode(1)>>
  /\ root = 1 /\ master_root = 1
  /\ registered = {}
  /\ pc = [t \in Threads |-> "idle"]
  /\ smo = [t \in Threads |-> NoSmo]
  /\ p_inner = [t \in Threads |-> NoNode]
  /\ left \in Plans

------------------------------------------------------------------------------
(* Descents.                                                               *)

count(n) == Len(node[n].entries)

\* Nodes of a tree: not freed, not the tail of a level.
Inners == {n \in DOMAIN node : node[n].next # NoNode}

\* Mutant of Right: a node is left for its neighbour one key too late.
RightOfMin(n, k) == k > node[node[n].next].min_key

\* key_compare with p_next->min_key: go right.
Right(n, k) == k >= node[node[n].next].min_key

\* rlu_inner_entry_search: the node of n's level, and the entry in it.
NodeFor(n, k) ==
  LET walk[m \in Inners] == IF Right(m, k) THEN walk[node[m].next] ELSE m
  IN  walk[n]
EntryFor(n, k) ==
  LET es == node[n].entries IN
  CHOOSE i \in DOMAIN es : /\ \A j \in 2 .. i : es[j].key <= k
                           /\ i < Len(es) => k < es[i + 1].key

\* The loop from the root down to a level; level is not above the root's.
DescendTo(level, k) ==
  LET descend[n \in Inners] ==
        LET m == NodeFor(n, k)
        IN  IF node[m].level > level
            THEN descend[node[m].entries[EntryFor(m, k)].child] ELSE m
  IN  descend[root]

\* operator: 10 and the child's level of a split, the negative of that of a merge.
child_level(t) == (IF smo[t].operator < 0 THEN -smo[t].operator ELSE smo[t].operator) % 10
parent_level(t) == child_level(t) + 1

\* The master's key in its parent: a header's own, an inner node's min_key.
master_key(t) == IF child_level(t) = 0 THEN smo[t].master ELSE node[smo[t].master].min_key
slave_key(t)  == IF child_level(t) = 0 THEN smo[t].slave ELSE node[smo[t].slave].min_key

------------------------------------------------------------------------------
(* Partitions: registration, split, merge; LBTree has their sections.      *)

RegisterHeader(t) ==
  /\ pc[t] = "idle" /\ smo[t].operator = 0
  /\ \E m \in headers \ registered :
       /\ \/ /\ left[t].splits > 0
             /\ left' = [left EXCEPT ![t].splits = @ - 1]
             /\ smo' = [smo EXCEPT ![t] = [NoSmo EXCEPT !.operator = 10, !.master = m]]
          \/ /\ left[t].merges > 0
             /\ left' = [left EXCEPT ![t].merges = @ - 1]
             /\ smo' = [smo EXCEPT ![t] = [NoSmo EXCEPT !.operator = -10, !.master = m]]
       /\ registered' = registered \union {m}
  /\ UNCHANGED <<tree, headers, pc, p_inner>>

\* Mutant of NewKeys: the walk to the split point goes up to the tail.
NewKeysAndTail(t) ==
  {s \in (Keys \union {MaxKey + 1}) \ headers :
     smo[t].master < s /\ \A h \in headers : h <= smo[t].master \/ s < h}

\* Keys of the items of the master's partition, one of which heads the new one.
NewKeys(t) ==
  {s \in Keys \ headers :
     smo[t].master < s /\ \A h \in headers : h <= smo[t].master \/ s < h}

rlu_header_split(t) ==
  /\ pc[t] = "idle" /\ smo[t].operator = 10
  /\ \E s \in NewKeys(t) :
       /\ headers' = headers \union {s}
       /\ registered' = registered \union {s}
       /\ smo' = [smo EXCEPT ![t].slave = s]
  /\ Goto(t, "find_parent")
  /\ UNCHANGED <<tree, p_inner, left>>

\* No key is left between the headers: the partition is not that full.
HeaderNotFull(t) ==
  /\ pc[t] = "idle" /\ smo[t].operator = 10
  /\ NewKeys(t) = {}
  /\ registered' = registered \ {smo[t].master}
  /\ smo' = [smo EXCEPT ![t] = NoSmo]
  /\ UNCHANGED <<tree, headers, pc, p_inner, left>>

HeaderParent(t) == DescendTo(1, smo[t].master)

\* The entries without the i-th.
RemoveEntry(es, i) == RemoveAt(es, i)

\* The right neighbour of entry e, the left one if there is none to the right.
PartnerOf(n, e) == IF e < count(n) THEN e + 1 ELSE e - 1
Lesser(a, b) == IF a < b THEN a ELSE b

rlu_header_partner_search(t) ==
  LET p == HeaderParent(t)
      e == EntryFor(p, smo[t].master)
      q == PartnerOf(p, e)
      m == Lesser(e, q)
      partner == node[p].entries[q].child
  IN
  /\ pc[t] = "idle" /\ smo[t].operator = -10
  /\ count(p) > 1 /\ partner \notin registered
  /\ registered' = registered \union {partner}
  /\ smo' = [smo EXCEPT ![t].master = node[p].entries[m].child,
                        ![t].slave = node[p].entries[m + 1].child]
  /\ node' = [node EXCEPT ![p].entries = RemoveEntry(@, m + 1)]
  /\ p_inner' = [p_inner EXCEPT ![t] = p]
  /\ Goto(t, "header_merge")
  /\ UNCHANGED <<root, master_root, headers, left>>

\* The only partition of its parent.
NoPartner(t) ==
  /\ pc[t] = "idle" /\ smo[t].operator = -10
  /\ count(HeaderParent(t)) = 1
  /\ registered' = registered \ {smo[t].master}
  /\ smo' = [smo EXCEPT ![t] = NoSmo]
  /\ UNCHANGED <<tree, headers, pc, p_inner, left>>

\* rlu_header_merge and the release of the master.
rlu_header_merge(t) ==
  /\ pc[t] = "header_merge"
  /\ headers' = headers \ {smo[t].slave}
  /\ registered' = registered \ {smo[t].master, smo[t].slave}
  /\ Goto(t, "level_down")
  /\ UNCHANGED <<tree, smo, p_inner, left>>

------------------------------------------------------------------------------
(* Split of an inner node, and the parent's entry of a split.              *)

split_point(n) == (count(n) * distri_r) \div 100

\* The last split_point entries move to a new node behind this one.
rlu_inner_split(t) ==
  LET m == smo[t].master
      es == node[m].entries
      k == count(m) - split_point(m)
      new == Inner(node[m].level, SPLIT_REGIST, SubSeq(es, k + 1, count(m)), node[m].next)
  IN
  /\ pc[t] = "idle" /\ smo[t].operator > 10
  /\ node' = Append([node EXCEPT ![m].entries = SubSeq(es, 1, k), ![m].next = Len(node) + 1], new)
  /\ smo' = [smo EXCEPT ![t].slave = Len(node) + 1]
  /\ Goto(t, "find_parent")
  /\ UNCHANGED <<root, master_root, leaves, p_inner, left>>

\* rlu_parent_split_update: the descent, if the tree has the parent's level.
FindParent(t) ==
  /\ pc[t] = "find_parent"
  /\ IF node[root].level < parent_level(t)
     THEN Goto(t, "level_up") /\ UNCHANGED p_inner
     ELSE /\ p_inner' = [p_inner EXCEPT ![t] = DescendTo(parent_level(t), master_key(t))]
          /\ Goto(t, "update")
  /\ UNCHANGED <<tree, leaves, smo, left>>

\* The root is locked until its new p_inner is written back.
RootUnlocked == root = master_root

\* Another level on top of what the root has now.
rlu_root_level_up(t) ==
  LET new == Len(node) + 1 IN
  /\ pc[t] = "level_up" /\ RootUnlocked
  /\ node' = node \o <<Inner(parent_level(t), FREE, <<Entry(node[root].min_key, root)>>, new + 1),
                       TailNode(parent_level(t))>>
  /\ root' = new
  /\ p_inner' = [p_inner EXCEPT ![t] = new]
  /\ Goto(t, "up_written")
  /\ UNCHANGED <<master_root, leaves, smo, left>>

\* The sections that saw the old root are over.
RootWriteback(t) ==
  /\ pc[t] \in {"up_written", "down_written"}
  /\ master_root' = root
  /\ Goto(t, IF pc[t] = "up_written" THEN "update" ELSE "check_merge")
  /\ UNCHANGED <<node, root, leaves, smo, p_inner, left>>

MasterEntries(t) ==
  {i \in DOMAIN node[p_inner[t]].entries : node[p_inner[t]].entries[i].key = master_key(t)}

HasRoom(n) == count(n) < inner_node_degree

\* The slave's entry goes behind the master's.
rlu_inner_split_update(t) ==
  /\ pc[t] = "update"
  /\ HasRoom(p_inner[t])
  /\ \E i \in MasterEntries(t) :
       /\ \A j \in MasterEntries(t) : i <= j
       /\ node' = [node EXCEPT ![p_inner[t]].entries =
                     InsertAt(@, i + 1, Entry(slave_key(t), smo[t].slave))]
  /\ Goto(t, "release")
  /\ UNCHANGED <<root, master_root, leaves, smo, p_inner, left>>

\* Mutant of SplitUpdateFails: the update is tried again without a new descent.
UpdateAgain(t) ==
  /\ pc[t] = "update"
  /\ MasterEntries(t) = {} \/ ~HasRoom(p_inner[t])
  /\ Goto(t, "update")
  /\ UNCHANGED <<tree, leaves, smo, p_inner, left>>

\* LOST: the master is not, or no longer, in this node.  ROLLBACK: it is full.
\* The parent is searched for again.
SplitUpdateFails(t) ==
  /\ pc[t] = "update"
  /\ MasterEntries(t) = {} \/ ~HasRoom(p_inner[t])
  /\ Goto(t, "find_parent")
  /\ UNCHANGED <<tree, leaves, smo, p_inner, left>>

\* rlu_header_release(3).
ReleaseHeaders(t) ==
  /\ pc[t] = "release" /\ child_level(t) = 0
  /\ registered' = registered \ {smo[t].master, smo[t].slave}
  /\ Goto(t, "check_split")
  /\ UNCHANGED <<tree, headers, smo, p_inner, left>>

\* rlu_inner_release(3) and (1); in another state than the expected one it
\* returns without RLU_READER_UNLOCK.
ReleaseNodes(t, ns, state, loc) ==
  /\ IF \A n \in ns : node[n].state = state
     THEN /\ node' = [n \in DOMAIN node |-> IF n \in ns THEN [node[n] EXCEPT !.state = FREE] ELSE node[n]]
          /\ Goto(t, loc)
     ELSE Goto(t, "leaked") /\ UNCHANGED node
  /\ UNCHANGED <<root, master_root, leaves, smo, p_inner, left>>

rlu_inner_release(t) ==
  \/ /\ pc[t] = "release" /\ child_level(t) > 0
     /\ ReleaseNodes(t, {smo[t].master, smo[t].slave}, SPLIT_REGIST, "check_split")
  \/ /\ pc[t] = "release_master"
     /\ ReleaseNodes(t, {smo[t].master}, MERGE_REGIST, "level_down")

------------------------------------------------------------------------------
(* rlu_inner_smo_check, and the end of a split or merge.                   *)

\* Mutants of NeedsSplit and NeedsMerge: the state is not looked at.
SplitsAnyway(n) == count(n) > split_thres
MergesAnyway(n) == count(n) < merge_thres /\ node[n].level < node[master_root].level

NeedsSplit(n) == count(n) > split_thres /\ node[n].state = FREE

\* The root's level is read from the root's own memory.
NeedsMerge(n) ==
  count(n) < merge_thres /\ node[n].level < node[master_root].level /\ node[n].state = FREE

\* A new registration stays in p_smo; rlu_test clears one that is done.
rlu_inner_smo_check(t) ==
  LET n == p_inner[t]
      register(state, operator) ==
        /\ node' = [node EXCEPT ![n].state = state]
        /\ smo' = [smo EXCEPT ![t] = [NoSmo EXCEPT !.operator = operator, !.master = n]]
      done == smo' = [smo EXCEPT ![t] = NoSmo] /\ UNCHANGED node
  IN
  /\ \/ /\ pc[t] = "check_split"
        /\ IF NeedsSplit(n) THEN register(SPLIT_REGIST, 10 + node[n].level) ELSE done
     \/ /\ pc[t] = "check_merge"
        /\ IF NeedsMerge(n) THEN register(MERGE_REGIST, -10 - node[n].level) ELSE done
  /\ p_inner' = [p_inner EXCEPT ![t] = NoNode]
  /\ Goto(t, "idle")
  /\ UNCHANGED <<root, master_root, leaves, left>>

------------------------------------------------------------------------------
(* Merge of two inner nodes.                                               *)

\* Where the merge of t's master looks for a partner.
MergeParent(t) == DescendTo(parent_level(t), master_key(t))
MergePartner(t) ==
  LET p == MergeParent(t)
  IN  node[p].entries[PartnerOf(p, EntryFor(p, master_key(t)))].child

\* Mutant of PartnerFree: the partner's state is not looked at.
PartnerTaken(t) == TRUE

PartnerFree(t) == node[MergePartner(t)].state = FREE

HasMergeParent(t) == pc[t] = "idle" /\ smo[t].operator < -10 /\ node[root].level >= parent_level(t)

rlu_inner_partner_search(t) ==
  LET p == MergeParent(t)
      e == EntryFor(p, master_key(t))
      m == Lesser(e, PartnerOf(p, e))
  IN
  /\ HasMergeParent(t)
  /\ count(p) > 1 /\ PartnerFree(t)
  /\ node' = [node EXCEPT ![MergePartner(t)].state = MERGE_REGIST,
                          ![p].entries = RemoveEntry(@, m + 1)]
  /\ smo' = [smo EXCEPT ![t].master = node[p].entries[m].child,
                        ![t].slave = node[p].entries[m + 1].child]
  /\ p_inner' = [p_inner EXCEPT ![t] = p]
  /\ Goto(t, "inner_merge")
  /\ UNCHANGED <<root, master_root, leaves, left>>

\* No partner, or one that is not free: search again, for ever.
PartnerSearchRestart(t) ==
  /\ \/ HasMergeParent(t) /\ (count(MergeParent(t)) > 1 => ~PartnerFree(t))
     \/ LET p == HeaderParent(t) IN
        /\ pc[t] = "idle" /\ smo[t].operator = -10 /\ count(p) > 1
        /\ node[p].entries[PartnerOf(p, EntryFor(p, smo[t].master))].child \in registered
  /\ UNCHANGED vars

\* The slave's entries go to the master, whatever their number.
rlu_inner_merge(t) ==
  LET m == smo[t].master
      s == smo[t].slave
  IN
  /\ pc[t] = "inner_merge"
  /\ node' = [node EXCEPT ![m].entries = @ \o node[s].entries, ![m].next = node[s].next,
                          ![s] = Freed]
  /\ Goto(t, "release_master")
  /\ UNCHANGED <<root, master_root, leaves, smo, p_inner, left>>

\* The root's node has one entry and no neighbour but the tail.
LevelEnds(n) == count(n) <= 1 /\ node[node[n].next].min_key = MaxKey + 1

\* The root's only child takes its place; a root of level 1 has none (LBTree).
rlu_root_level_down(t) ==
  LET p == p_inner[t] IN
  /\ pc[t] = "level_down"
  /\ IF p = root /\ LevelEnds(p)
     THEN /\ RootUnlocked
          /\ root' = IF node[p].level = 1 THEN NoNode ELSE node[p].entries[1].child
          /\ node' = [node EXCEPT ![p] = Freed, ![node[p].next] = Freed]
          /\ p_inner' = [p_inner EXCEPT ![t] = root']
          /\ Goto(t, "down_written")
     ELSE /\ Goto(t, "check_merge")
          /\ UNCHANGED <<node, root, p_inner>>
  /\ UNCHANGED <<master_root, leaves, smo, left>>

------------------------------------------------------------------------------
Split(t) ==
  \/ rlu_header_split(t) \/ HeaderNotFull(t) \/ rlu_inner_split(t)
  \/ FindParent(t) \/ rlu_root_level_up(t) \/ rlu_inner_split_update(t) \/ SplitUpdateFails(t)
  \/ ReleaseHeaders(t)

Merge(t) ==
  \/ rlu_header_partner_search(t) \/ NoPartner(t) \/ rlu_header_merge(t)
  \/ rlu_inner_partner_search(t) \/ PartnerSearchRestart(t) \/ rlu_inner_merge(t)
  \/ rlu_root_level_down(t)

ThreadStep(t) ==
  \/ RegisterHeader(t) \/ Split(t) \/ Merge(t) \/ RootWriteback(t)
  \/ rlu_inner_release(t) \/ rlu_inner_smo_check(t)

Done == \A t \in Threads : pc[t] = "idle" /\ smo[t].operator = 0

Next == (\E t \in Threads : ThreadStep(t)) \/ (Done /\ UNCHANGED vars)

Spec == Init /\ [][Next]_vars

\* A split or merge that was begun goes on.  A thread that is idle need not: at
\* the top of its loop rlu_test tests stop, and returns with what is registered.
\* (A search for a partner is at "idle", too, and may stop as well.)
FairSpec == Spec /\ \A t \in Threads : WF_vars(pc[t] # "idle" /\ ThreadStep(t))

------------------------------------------------------------------------------
(* What the code cannot go on from (README): no behaviour is followed      *)
(* behind such a state, and the properties below are about the others.     *)

live(n) == node[n].level > 0

\* The last partition of the last level is gone.
RootStays == root # NoNode

\* A node was freed while another thread holds it as its parent: a slave by
\* rlu_inner_merge, a root by rlu_root_level_down; or a root that is registered.
HeldNodesLive ==
  \A t \in Threads :
    /\ p_inner[t] # NoNode => live(p_inner[t])
    /\ child_level(t) > 0 => live(smo[t].master)

\* The parent level of a registered merge went before the merge.
MergedBelowRoot == \A t \in Threads : smo[t].operator < -10 => node[root].level >= parent_level(t)

\* Merges shrank a node after it was registered for a split, or distri_r is 100
\* and all entries move.
SplitLeavesTwo ==
  \A t \in Threads :
    LET m == smo[t].master
    IN  pc[t] = "idle" /\ smo[t].operator > 10 => split_point(m) \in 1 .. count(m) - 1

\* operator % 10 is the child's level below 10 only.
LevelsFit == \A n \in DOMAIN node : node[n].level < 10

\* The array of entries; rlu_inner_merge does not look at the counts.
EntriesFit == \A n \in DOMAIN node : count(n) <= MAX_INNER_DEGREE

Followed ==
  RootStays /\ HeldNodesLive /\ MergedBelowRoot /\ SplitLeavesTwo /\ LevelsFit /\ EntriesFit

------------------------------------------------------------------------------
(* Properties.                                                             *)

\* Nodes have a level, a state and a successor, entries and headers a key of
\* an item, and whoever works on a parent holds one.
TypeOK ==
  /\ \A n \in DOMAIN node :
       /\ node[n].level \in Nat /\ node[n].state \in {MERGE_REGIST, FREE, SPLIT_REGIST}
       /\ node[n].next \in {NoNode} \union DOMAIN node
       /\ \A i \in DOMAIN node[n].entries : node[n].entries[i].key \in Keys
  /\ {root, master_root} \subseteq {NoNode} \union DOMAIN node
  /\ registered \subseteq headers /\ headers \subseteq Keys
  /\ \A t \in Threads :
       /\ p_inner[t] \in {NoNode} \union DOMAIN node
       /\ pc[t] \in {"update", "up_written", "release", "check_split", "header_merge",
                     "inner_merge", "release_master", "level_down"} => p_inner[t] # NoNode

Splitting(t) == smo[t].operator > 0 /\ pc[t] \in {"find_parent", "level_up", "up_written", "update"}
Merging(t)   == smo[t].operator < 0 /\ pc[t] \in {"header_merge", "inner_merge"}

\* Children of a level that its parent level does not list, or not any more.
Unlisted(level) ==
  {smo[t].slave : t \in {u \in Threads : child_level(u) = level /\ (Splitting(u) \/ Merging(u))}}

top == node[root].level

\* What a level's nodes have below them: level 0 is that of the headers.
Level(l) == IF l = 0 THEN headers ELSE {n \in Inners : node[n].level = l}
KeyOf(l, c) == IF l = 0 THEN c ELSE node[c].min_key

\* A node's range ends at its neighbour's first key; its entries are in the range.
RangeSorted(n) ==
  LET es == node[n].entries
      right == node[node[n].next]
  IN
  /\ right.level = node[n].level
  /\ right.next = NoNode => right.min_key = MaxKey + 1
  /\ es # <<>> /\ es[1].key = node[n].min_key
  /\ \A e \in DOMAIN es : es[e].key < right.min_key
  /\ \A d, e \in DOMAIN es : d < e => es[d].key < es[e].key

\* rlu_inner_entry_search, rlu_inner_split and rlu_inner_merge keep each level a
\* list of nodes in the order of their keys, each with the entries of its own
\* range: the ranges of a level begin at key 0, go on at each neighbour and end
\* at a tail, and no two overlap.
Sorted ==
  /\ \A n \in Inners : node[n].level \in 1 .. top /\ RangeSorted(n)
  /\ \A m, n \in Inners :
       m # n /\ node[m].level = node[n].level =>
         \/ node[m].min_key < node[n].min_key
         \/ node[node[n].next].min_key <= node[m].min_key
  /\ \A l \in 1 .. top : \E n \in Level(l) : node[n].min_key = 0
LevelsAreSorted == Followed => Sorted

\* The entries of a level.
EntriesOf(l) == UNION {Range(node[n].entries) : n \in Level(l)}

\* A level lists the nodes below it, each under its first key: only slaves of a
\* split that has not reached the parent, or of a merge that has left it, are
\* missing, and nothing that was freed is there.  So the partners of a merge are
\* neighbours, and rlu_root_level_down drops no node but the root's.
Listed ==
  /\ Level(top) \ Unlisted(top) = {root}
  /\ \A l \in 0 .. top - 1 :
       /\ {e.child : e \in EntriesOf(l + 1)} = Level(l) \ Unlisted(l)
       /\ \A e \in EntriesOf(l + 1) : e.key = KeyOf(l, e.child)
ParentsListChildren == Followed => Listed

\* A descent from the root ends, for each key, at the last header not above it
\* that its parent lists: rlu_leaf_search reaches the key from there.
RoutesToHeaders ==
  Followed => \A k \in Keys :
    LET p == DescendTo(1, k)
        h == node[p].entries[EntryFor(p, k)].child
    IN  /\ h \in headers /\ h <= k
        /\ \A g \in headers : h < g /\ g <= k => g \in Unlisted(0)

\* Every registered node belongs to one split or merge, which knows it, and
\* nothing else is registered: rlu_inner_smo_check, rlu_inner_partner_search
\* and rlu_inner_release agree on the states.
Owners(n) ==
  {t \in Threads :
     /\ child_level(t) > 0 /\ n \in {smo[t].master, smo[t].slave}
     /\ pc[t] \notin {"check_split", "level_down", "down_written", "check_merge"}}
RegisteredByOne ==
  Followed => \A n \in DOMAIN node :
    live(n) =>
      /\ Cardinality(Owners(n)) = (IF node[n].state = FREE THEN 0 ELSE 1)
      /\ \A t \in Owners(n) :
           node[n].state = (IF smo[t].operator > 0 THEN SPLIT_REGIST ELSE MERGE_REGIST)

\* rlu_inner_release finds the states it expects, and ends its section.
NoSectionLeaked == Followed => \A t \in Threads : pc[t] # "leaked"

\* The master of a split stays in its parent: a search that comes back with
\* LOST finds it later, or rlu_root_level_up makes its parent.
MasterHasEntry ==
  Followed => \A t \in Threads :
    Splitting(t) =>
      IF node[root].level < parent_level(t)
      THEN child_level(t) = node[root].level /\ smo[t].master = root
      ELSE LET p == DescendTo(parent_level(t), master_key(t))
           IN  node[p].entries[EntryFor(p, master_key(t))].key = master_key(t)

\* ROLLBACK: the parent has no room for the slave's entry.
NoRoom(t) == pc[t] \in {"find_parent", "update"} /\ p_inner[t] # NoNode /\ ~HasRoom(p_inner[t])

\* Each split or merge that was begun ends, unless its parent stays full, since
\* nobody splits it, and ROLLBACK goes on for ever: no search goes on for ever
\* because of LOST, no root stays locked, and no section is left open.
SmosEnd == \A t \in Threads : <>[]NoRoom(t) \/ []<>(pc[t] = "idle")

\* "process is terminated by duration condtion" (bench_option_help.txt:10): every
\* thread comes back to the test of stop in rlu_test.
StopIsTested == \A t \in Threads : []<>(pc[t] = "idle")
==============================================================================
