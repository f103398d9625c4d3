--------------------------- MODULE InnerTree_proofs ---------------------------
(***************************************************************************)
(* The levels of the tree stay sorted, parents list their children,        *)
(* descents reach the right header and registrations have one owner, for   *)
(* every number of threads and keys and every setting of the ratios, as    *)
(* long as the code can go on (Followed, which has up to nine levels).     *)
(*                                                                         *)
(* The first part is about heaps: what the shape of a tree is, where a     *)
(* descent ends, and what each kind of write does to the shape.  A heap h  *)
(* has the root r over the headers H; U[l] are the children of level l     *)
(* that their parents need not list.                                       *)
(***************************************************************************)
EXTENDS InnerTree, TLAPS, FiniteSetTheorems, SequenceTheorems, WellFoundedInduction

\* The types of entries and nodes.
EntryRecord == [key : Keys, child : Nat]
NodeRecord ==
  [level : Nat, state : {MERGE_REGIST, FREE, SPLIT_REGIST}, min_key : Nat,
   entries : Seq(EntryRecord), next : Nat]

\* Nodes whose neighbours exist.
Heap(h) ==
  h \in Seq(NodeRecord) /\ \A n \in DOMAIN h : h[n].next \in {NoNode} \union DOMAIN h

\* Inners, Level and KeyOf of a heap.
Inn(h) == {n \in DOMAIN h : h[n].next # NoNode}
Lev(h, H, l) == IF l = 0 THEN H ELSE {n \in Inn(h) : h[n].level = l}
Key(h, l, c) == IF l = 0 THEN c ELSE h[c].min_key
Right1(h, n) == h[h[n].next].min_key

\* RangeSorted of a heap.
Range1(h, n) ==
  /\ h[h[n].next].level = h[n].level
  /\ h[h[n].next].next = NoNode => Right1(h, n) = MaxKey + 1
  /\ h[n].entries # <<>> /\ h[n].entries[1].key = h[n].min_key
  /\ \A e \in DOMAIN h[n].entries : h[n].entries[e].key < Right1(h, n)
  /\ \A d, e \in DOMAIN h[n].entries : d < e => h[n].entries[d].key < h[n].entries[e].key

\* Sorted of a heap.
NodesOK(h, T) == \A n \in Inn(h) : h[n].level \in 1 .. T /\ Range1(h, n)
OrderOK(h) ==
  \A m, n \in Inn(h) :
    m # n /\ h[m].level = h[n].level => h[m].min_key < h[n].min_key \/ Right1(h, n) <= h[m].min_key
FirstOK(h, T) == \A l \in 1 .. T : \E n \in Inn(h) : h[n].level = l /\ h[n].min_key = 0

\* The root is what its level has apart from new nodes.
TopOK(h, r, U) ==
  /\ r \in Inn(h) /\ r \notin U[h[r].level] /\ h[r].min_key = 0
  /\ \A n \in Inn(h) : h[n].level = h[r].level => n = r \/ n \in U[h[r].level]

\* Every entry names a node below, under its first key.
ChildOK(h, H, U) ==
  \A n \in Inn(h) : \A i \in DOMAIN h[n].entries :
    LET c == h[n].entries[i].child
        l == h[n].level - 1
    IN  c \in Lev(h, H, l) /\ c \notin U[l] /\ h[n].entries[i].key = Key(h, l, c)

\* Node n has an entry for c.
Lists(h, n, c) == \E i \in DOMAIN h[n].entries : h[n].entries[i].child = c

\* Every node below the root's level has an entry above it.
ParentOK(h, T, H, U) ==
  \A l \in 0 .. T - 1 : \A c \in Lev(h, H, l) :
    c \notin U[l] => \E n \in Inn(h) : h[n].level = l + 1 /\ Lists(h, n, c)

\* The shape: sorted levels, each of which lists the one below.
Tree(h, r, H, U) ==
  /\ Heap(h) /\ H \subseteq Keys /\ NodesOK(h, h[r].level) /\ OrderOK(h) /\ FirstOK(h, h[r].level)
  /\ TopOK(h, r, U) /\ ChildOK(h, H, U) /\ ParentOK(h, h[r].level, H, U)

\* The range of node n holds key k.
Covers(h, n, k) == h[n].min_key <= k /\ k < Right1(h, n)

------------------------------------------------------------------------------
(* Facts about heaps.                                                      *)

\* Any property of naturals that holds somewhere holds first somewhere.
LEMMA Least ==
  ASSUME NEW S \in SUBSET Nat, S # {}
  PROVE  \E n \in S : \A m \in S : n <= m
<1>1. IsWellFoundedOn(OpToRel(<, Nat), Nat)
  BY NatLessThanWellFounded
<1>2. PICK n \in S : \A m \in S : <<m, n>> \notin OpToRel(<, Nat)
  BY <1>1, WFMin
<1>3. \A m \in S : ~(m < n)
  BY <1>2 DEF OpToRel
<1>4. QED
  BY <1>3

\* A bounded one holds last somewhere.
LEMMA Greatest ==
  ASSUME NEW S \in SUBSET Nat, S # {}, NEW b \in Nat, \A m \in S : m <= b
  PROVE  \E n \in S : \A m \in S : m <= n
<1> DEFINE R == {d \in Nat : \E m \in S : m + d = b}
<1>1. \A m \in S : b - m \in R /\ m \in Nat
  OBVIOUS
<1>2. R \in SUBSET Nat /\ R # {}
  BY <1>1
<1> HIDE DEF R
<1>3. PICK d \in R : \A e \in R : d <= e
  BY <1>2, Least
<1>4. PICK n \in S : n + d = b /\ d \in Nat
  BY <1>3 DEF R
<1>5. ASSUME NEW m \in S PROVE m <= n
  <2>1. d <= b - m /\ m \in Nat /\ n \in Nat
    BY <1>1, <1>3
  <2>2. QED
    BY <1>4, <2>1
<1>6. QED
  BY <1>5

\* The types of the keys.
LEMMA KeyFacts ==
  /\ MaxKey \in Nat
  /\ \A k \in Keys : k \in Nat /\ k <= MaxKey
  /\ \A k \in Nat : k <= MaxKey => k \in Keys
  BY OptionAssumption DEF Keys

\* The types of a heap's nodes, of their fields and of their entries.
LEMMA HeapFacts ==
  ASSUME NEW h, Heap(h)
  PROVE  /\ Len(h) \in Nat /\ DOMAIN h = 1 .. Len(h)
         /\ \A n \in DOMAIN h :
              /\ h[n] \in NodeRecord
              /\ h[n].level \in Nat /\ h[n].min_key \in Nat /\ h[n].next \in Nat
              /\ h[n].state \in {MERGE_REGIST, FREE, SPLIT_REGIST}
              /\ h[n].next \in {NoNode} \union DOMAIN h
              /\ h[n].entries \in Seq(EntryRecord) /\ Len(h[n].entries) \in Nat
              /\ DOMAIN h[n].entries = 1 .. Len(h[n].entries)
<1>1. h \in Seq(NodeRecord) /\ \A n \in DOMAIN h : h[n].next \in {NoNode} \union DOMAIN h
  BY DEF Heap
<1>2. Len(h) \in Nat /\ DOMAIN h = 1 .. Len(h) /\ \A n \in DOMAIN h : h[n] \in NodeRecord
  BY <1>1
<1>3. ASSUME NEW r \in NodeRecord
      PROVE  /\ r.level \in Nat /\ r.min_key \in Nat /\ r.next \in Nat
             /\ r.state \in {MERGE_REGIST, FREE, SPLIT_REGIST}
             /\ r.entries \in Seq(EntryRecord)
  BY DEF NodeRecord
<1>4. ASSUME NEW es \in Seq(EntryRecord) PROVE Len(es) \in Nat /\ DOMAIN es = 1 .. Len(es)
  OBVIOUS
<1>5. QED
  BY <1>1, <1>2, <1>3, <1>4

\* The entries' types.
LEMMA EntryFacts ==
  ASSUME NEW es \in Seq(EntryRecord)
  PROVE  /\ Len(es) \in Nat /\ DOMAIN es = 1 .. Len(es)
         /\ \A i \in DOMAIN es : /\ es[i] \in EntryRecord /\ es[i].key \in Keys
                                 /\ es[i].key \in Nat /\ es[i].child \in Nat
<1>1. ASSUME NEW e \in EntryRecord PROVE e.key \in Keys /\ e.key \in Nat /\ e.child \in Nat
  BY KeyFacts DEF EntryRecord
<1>2. Len(es) \in Nat /\ DOMAIN es = 1 .. Len(es) /\ \A i \in DOMAIN es : es[i] \in EntryRecord
  OBVIOUS
<1>3. QED
  BY <1>1, <1>2

\* What the nodes of a sorted heap have in common.
LEMMA InnFacts ==
  ASSUME NEW h, NEW T \in Nat, Heap(h), NodesOK(h, T), NEW n \in Inn(h)
  PROVE  /\ n \in DOMAIN h /\ n \in Nat /\ n > 0
         /\ h[n].next \in DOMAIN h /\ h[n].level \in 1 .. T /\ h[n].level \in Nat
         /\ h[h[n].next].level = h[n].level
         /\ h[n].min_key \in Keys /\ h[n].min_key \in Nat /\ Right1(h, n) \in Nat
         /\ h[n].min_key < Right1(h, n) /\ Right1(h, n) <= MaxKey + 1
         /\ h[n].next \notin Inn(h) => Right1(h, n) = MaxKey + 1
         /\ h[n].entries \in Seq(EntryRecord) /\ Len(h[n].entries) \in Nat \ {0}
         /\ DOMAIN h[n].entries = 1 .. Len(h[n].entries) /\ 1 \in DOMAIN h[n].entries
         /\ h[n].entries[1].key = h[n].min_key
         /\ \A i \in DOMAIN h[n].entries :
              /\ h[n].entries[i].key \in Keys /\ h[n].entries[i].key \in Nat
              /\ h[n].entries[i].child \in Nat
              /\ h[n].min_key <= h[n].entries[i].key /\ h[n].entries[i].key < Right1(h, n)
         /\ \A d, e \in DOMAIN h[n].entries : d < e => h[n].entries[d].key < h[n].entries[e].key
<1>1. n \in DOMAIN h /\ h[n].next # NoNode
  BY DEF Inn
<1>2. h[n].next \in DOMAIN h /\ n \in Nat /\ n > 0
  BY <1>1, HeapFacts
<1>3. h[n].level \in 1 .. T /\ Range1(h, n)
  BY DEF NodesOK
<1>4. /\ h[h[n].next].level = h[n].level
      /\ h[h[n].next].next = NoNode => Right1(h, n) = MaxKey + 1
      /\ h[n].entries # <<>> /\ h[n].entries[1].key = h[n].min_key
      /\ \A e \in DOMAIN h[n].entries : h[n].entries[e].key < Right1(h, n)
      /\ \A d, e \in DOMAIN h[n].entries : d < e => h[n].entries[d].key < h[n].entries[e].key
  BY <1>3 DEF Range1
<1>5. /\ h[n].entries \in Seq(EntryRecord) /\ Len(h[n].entries) \in Nat
      /\ DOMAIN h[n].entries = 1 .. Len(h[n].entries)
      /\ h[n].min_key \in Nat /\ Right1(h, n) \in Nat
  BY <1>1, <1>2, HeapFacts DEF Right1
<1>6. Len(h[n].entries) # 0
  BY <1>4, <1>5
<1>7. 1 \in DOMAIN h[n].entries
  BY <1>5, <1>6
<1>8. \A i \in DOMAIN h[n].entries :
        /\ h[n].entries[i].key \in Keys /\ h[n].entries[i].key \in Nat
        /\ h[n].entries[i].child \in Nat
  BY <1>5, EntryFacts
<1>9. h[n].min_key \in Keys /\ h[n].min_key < Right1(h, n)
  BY <1>4, <1>7, <1>8
<1>10. h[n].next \notin Inn(h) => Right1(h, n) = MaxKey + 1
  BY <1>2, <1>4 DEF Inn
<1>11. ASSUME NEW i \in DOMAIN h[n].entries PROVE h[n].min_key <= h[n].entries[i].key
  <2>1. i = 1 \/ 1 < i
    BY <1>5
  <2>2. h[n].entries[1].key \in Nat /\ h[n].entries[i].key \in Nat
    BY <1>7, <1>8
  <2>3. 1 < i => h[n].entries[1].key < h[n].entries[i].key
    BY <1>4, <1>7
  <2>4. QED
    BY <1>4, <2>1, <2>2, <2>3
<1>12. Right1(h, n) <= MaxKey + 1
  <2> DEFINE m == h[n].next
  <2>1. CASE m \in Inn(h)
    <3>1. Range1(h, m) /\ m \in DOMAIN h
      BY <2>1 DEF NodesOK, Inn
    <3>2. /\ h[m].entries # <<>> /\ h[m].entries[1].key = h[m].min_key
          /\ h[m].entries \in Seq(EntryRecord)
      BY <3>1, HeapFacts DEF Range1
    <3>3. 1 \in DOMAIN h[m].entries
      BY <3>2
    <3>4. h[m].min_key \in Keys
      BY <3>2, <3>3, EntryFacts
    <3>5. QED
      BY <3>4, KeyFacts DEF Right1
  <2>2. CASE m \notin Inn(h)
    BY <1>10, <2>2, KeyFacts
  <2>3. QED
    BY <2>1, <2>2
<1>13. QED
  BY <1>1, <1>2, <1>3, <1>4, <1>5, <1>6, <1>7, <1>8, <1>9, <1>10, <1>11, <1>12

------------------------------------------------------------------------------
(* Descents.                                                               *)

\* The ranges of a level do not overlap.
LEMMA CoverOnce ==
  ASSUME NEW h, NEW T \in Nat, Heap(h), NodesOK(h, T), OrderOK(h), NEW k \in Nat,
         NEW m \in Inn(h), NEW n \in Inn(h), h[m].level = h[n].level,
         Covers(h, m, k), Covers(h, n, k)
  PROVE  m = n
<1>1. /\ h[m].min_key \in Nat /\ h[n].min_key \in Nat
      /\ Right1(h, m) \in Nat /\ Right1(h, n) \in Nat
  BY InnFacts
<1>2. /\ h[m].min_key <= k /\ k < Right1(h, m)
      /\ h[n].min_key <= k /\ k < Right1(h, n)
  BY DEF Covers
<1>3. ASSUME m # n PROVE FALSE
  <2>1. h[m].min_key < h[n].min_key \/ Right1(h, n) <= h[m].min_key
    BY <1>3 DEF OrderOK
  <2>2. h[n].min_key < h[m].min_key \/ Right1(h, m) <= h[n].min_key
    BY <1>3 DEF OrderOK
  <2>3. QED
    BY <1>1, <1>2, <2>1, <2>2
<1>4. QED
  BY <1>3

\* The ranges of a level leave no key out.
LEMMA CoverExists ==
  ASSUME NEW h, NEW T \in Nat, Heap(h), NodesOK(h, T), OrderOK(h), FirstOK(h, T),
         NEW l \in 1 .. T, NEW k \in Keys
  PROVE  \E n \in Inn(h) : h[n].level = l /\ Covers(h, n, k)
<1> DEFINE S == {x \in Nat : \E n \in Inn(h) : h[n].level = l /\ h[n].min_key = x /\ x <= k}
<1>0. k \in Nat /\ k <= MaxKey /\ MaxKey \in Nat
  BY KeyFacts
<1>1. S \in SUBSET Nat /\ \A x \in S : x <= k
  OBVIOUS
<1>2. S # {}
  <2>1. PICK n \in Inn(h) : h[n].level = l /\ h[n].min_key = 0
    BY DEF FirstOK
  <2>2. 0 \in S
    BY <1>0, <2>1
  <2>3. QED
    BY <2>2
<1>3. PICK x \in S : \A y \in S : y <= x
  BY <1>0, <1>1, <1>2, Greatest
<1>4. PICK n \in Inn(h) : h[n].level = l /\ h[n].min_key = x /\ x <= k
  BY <1>3
<1>5. ASSUME ~(k < Right1(h, n)) PROVE FALSE
  <2> DEFINE m == h[n].next
  <2>1. /\ Right1(h, n) \in Nat /\ h[n].min_key < Right1(h, n)
        /\ m \notin Inn(h) => Right1(h, n) = MaxKey + 1
        /\ h[m].level = h[n].level
    BY InnFacts
  <2>2. Right1(h, n) <= k
    BY <1>0, <1>5, <2>1
  <2>3. m \in Inn(h)
    BY <1>0, <2>1, <2>2
  <2>4. h[m].level = l /\ h[m].min_key = Right1(h, n)
    BY <1>4, <2>1 DEF Right1
  <2>5. Right1(h, n) \in S
    BY <2>1, <2>2, <2>3, <2>4
  <2>6. QED
    BY <1>3, <1>4, <2>1, <2>5
<1>6. QED
  BY <1>4, <1>5 DEF Covers

\* The entry of the greatest key not above k.
LEMMA EntryExists ==
  ASSUME NEW es \in Seq(EntryRecord), Len(es) > 0, NEW k \in Nat
  PROVE  \E i \in DOMAIN es : /\ \A j \in 2 .. i : es[j].key <= k
                              /\ i < Len(es) => k < es[i + 1].key
<1> DEFINE n == Len(es)
           Fits(i) == /\ \A j \in 2 .. i : es[j].key <= k
                      /\ i < n => k < es[i + 1].key
           S == {j \in 2 .. n : k < es[j].key}
<1>1. n \in Nat /\ n >= 1 /\ DOMAIN es = 1 .. n /\ \A i \in 1 .. n : es[i].key \in Nat
  BY EntryFacts
<1>2. CASE S = {}
  <2>1. ASSUME NEW j \in 2 .. n PROVE es[j].key <= k
    <3>1. ~(k < es[j].key) /\ es[j].key \in Nat
      BY <1>1, <1>2
    <3>2. QED
      BY <3>1
  <2>2. Fits(n) /\ n \in 1 .. n
    BY <1>1, <2>1
  <2>3. QED
    BY <1>1, <2>2
<1>3. CASE S # {}
  <2>1. S \in SUBSET Nat
    BY <1>1
  <2>2. PICK i \in S : \A m \in S : i <= m
    BY <1>3, <2>1, Least
  <2>3. i \in 2 .. n /\ k < es[i].key
    OBVIOUS
  <2>4. ASSUME NEW j \in 2 .. i - 1 PROVE es[j].key <= k
    <3>1. j \in 2 .. n /\ j \notin S /\ j \in 1 .. n
      BY <1>1, <2>2, <2>3
    <3>2. ~(k < es[j].key) /\ es[j].key \in Nat
      BY <1>1, <3>1
    <3>3. QED
      BY <3>2
  <2>5. (i - 1) + 1 = i /\ i - 1 \in 1 .. n
    BY <1>1, <2>3
  <2>6. Fits(i - 1)
    BY <2>3, <2>4, <2>5
  <2>7. QED
    BY <1>1, <2>5, <2>6
<1>4. QED
  BY <1>2, <1>3

\* The entry a descent takes in a node whose entries are in order.
LEMMA EntryForIs ==
  ASSUME NEW n, NEW es, es = node[n].entries, es \in Seq(EntryRecord), Len(es) > 0,
         \A d, e \in DOMAIN es : d < e => es[d].key < es[e].key, NEW k \in Nat
  PROVE  /\ EntryFor(n, k) \in DOMAIN es
         /\ es[1].key <= k => es[EntryFor(n, k)].key <= k
         /\ ~(es[1].key <= k) => EntryFor(n, k) = 1
         /\ EntryFor(n, k) < Len(es) => k < es[EntryFor(n, k) + 1].key
         /\ \A i \in DOMAIN es : es[i].key <= k => i <= EntryFor(n, k)
<1> DEFINE Fits(i) == /\ \A j \in 2 .. i : es[j].key <= k
                      /\ i < Len(es) => k < es[i + 1].key
           e == EntryFor(n, k)
<1>1. e = CHOOSE i \in DOMAIN es : Fits(i)
  BY Zenon DEF EntryFor
<1>2. \E i \in DOMAIN es : Fits(i)
  BY EntryExists
<1>3. e \in DOMAIN es /\ Fits(e)
  <2> HIDE DEF Fits, e
  <2>1. QED
    BY <1>1, <1>2
<1> HIDE DEF e
<1>4. Len(es) \in Nat /\ DOMAIN es = 1 .. Len(es) /\ \A i \in DOMAIN es : es[i].key \in Nat
  BY EntryFacts
<1>5. e \in 1 .. Len(es) /\ (e = 1 \/ e \in 2 .. e)
  BY <1>3, <1>4
<1>6. es[1].key <= k => es[e].key <= k
  BY <1>3, <1>5
<1>7. ~(es[1].key <= k) => e = 1
  <2>1. ASSUME ~(es[1].key <= k), e \in 2 .. e PROVE FALSE
    <3>1. es[e].key <= k
      BY <1>3, <2>1
    <3>2. 1 \in DOMAIN es /\ 1 < e
      BY <1>4, <1>5, <2>1
    <3>3. es[1].key < es[e].key
      BY <1>3, <3>2
    <3>4. es[1].key \in Nat /\ es[e].key \in Nat
      BY <1>3, <1>4, <3>2
    <3>5. QED
      BY <2>1, <3>1, <3>3, <3>4
  <2>2. QED
    BY <1>5, <2>1
<1>8. ASSUME NEW i \in DOMAIN es, es[i].key <= k, ~(i <= e) PROVE FALSE
  <2>1. e < Len(es) /\ e + 1 \in DOMAIN es /\ (e + 1 < i \/ e + 1 = i)
    BY <1>4, <1>5, <1>8
  <2>2. k < es[e + 1].key
    BY <1>3, <2>1
  <2>3. e + 1 < i => es[e + 1].key < es[i].key
    BY <2>1
  <2>4. es[i].key \in Nat /\ es[e + 1].key \in Nat
    BY <1>4, <2>1
  <2>5. QED
    BY <1>8, <2>1, <2>2, <2>3, <2>4
<1>9. QED
  BY <1>3, <1>6, <1>7, <1>8 DEF e

\* The node of a level whose range holds a key.
Cov(l, x) == CHOOSE n \in Inn(node) : node[n].level = l /\ Covers(node, n, x)

\* There is one, and no other.
LEMMA CovIs ==
  ASSUME NEW T \in Nat, Heap(node), NodesOK(node, T), OrderOK(node), FirstOK(node, T),
         NEW l \in 1 .. T, NEW x \in Keys
  PROVE  /\ Cov(l, x) \in Inn(node) /\ node[Cov(l, x)].level = l /\ Covers(node, Cov(l, x), x)
         /\ \A n \in Inn(node) : node[n].level = l /\ Covers(node, n, x) => n = Cov(l, x)
<1>1. \E n \in Inn(node) : node[n].level = l /\ Covers(node, n, x)
  BY CoverExists
<1>2. Cov(l, x) \in Inn(node) /\ node[Cov(l, x)].level = l /\ Covers(node, Cov(l, x), x)
  BY <1>1 DEF Cov
<1>3. x \in Nat
  BY KeyFacts
<1>4. QED
  BY <1>2, <1>3, CoverOnce

\* One step of the walk along a level, at a node that is to the left of the key.
LEMMA WalkStep ==
  ASSUME NEW T \in Nat, Heap(node), NodesOK(node, T), OrderOK(node), FirstOK(node, T),
         NEW k \in Keys, NEW m \in Inn(node), Right(m, k)
  PROVE  /\ node[m].next \in Inn(node) /\ node[node[m].next].level = node[m].level
         /\ node[m].min_key < node[node[m].next].min_key
         /\ ~Right(node[m].next, k) => node[m].next = Cov(node[m].level, k)
<1> DEFINE q == node[m].next
<1>1. k >= Right1(node, m) /\ k \in Nat /\ k <= MaxKey /\ MaxKey \in Nat
  BY KeyFacts DEF Right, Right1
<1>2. /\ Right1(node, m) \in Nat /\ node[m].min_key < Right1(node, m)
      /\ node[q].level = node[m].level /\ node[m].level \in 1 .. T
      /\ q \notin Inn(node) => Right1(node, m) = MaxKey + 1
  BY InnFacts
<1>3. q \in Inn(node)
  BY <1>1, <1>2
<1>4. node[q].min_key = Right1(node, m)
  BY DEF Right1
<1>5. Right1(node, q) \in Nat
  BY <1>3, InnFacts
<1>6. ASSUME ~Right(q, k) PROVE Covers(node, q, k)
  BY <1>1, <1>4, <1>5, <1>6 DEF Covers, Right, Right1
<1>7. QED
  BY <1>2, <1>3, <1>4, <1>6, CovIs

\* A walk along a level ends at the node whose range holds the key, and does not
\* begin if the key is not to the right.
LEMMA NodeForIs ==
  ASSUME NEW T \in Nat, Heap(node), NodesOK(node, T), OrderOK(node), FirstOK(node, T),
         NEW k \in Keys, NEW n \in Inn(node)
  PROVE  NodeFor(n, k) = IF Right(n, k) THEN Cov(node[n].level, k) ELSE n
<1> DEFINE Step(w) == [m \in Inners |-> IF Right(m, k) THEN w[node[m].next] ELSE m]
           End(m) == IF Right(m, k) THEN Cov(node[m].level, k) ELSE m
           W == [m \in Inners |-> End(m)]
           v == CHOOSE w : w = Step(w)
<1>0. Inners = Inn(node)
  BY DEF Inners, Inn
<1>1. NodeFor(n, k) = v[n]
  BY Zenon DEF NodeFor
<1>2. W = Step(W)
  <2>1. ASSUME NEW m \in Inners
        PROVE  W[m] = IF Right(m, k) THEN W[node[m].next] ELSE m
    <3>1. CASE Right(m, k)
      <4>1. node[m].next \in Inners /\ node[node[m].next].level = node[m].level
            /\ (~Right(node[m].next, k) => node[m].next = Cov(node[m].level, k))
        BY <1>0, <2>1, <3>1, WalkStep
      <4>2. W[node[m].next] = End(node[m].next) /\ W[m] = Cov(node[m].level, k)
        BY <2>1, <3>1, <4>1
      <4>3. QED
        BY <3>1, <4>1, <4>2
    <3>2. CASE ~Right(m, k)
      BY <2>1, <3>2
    <3>3. QED
      BY <3>1, <3>2
  <2> HIDE DEF End
  <2>2. QED
    BY <2>1
<1>3. v = Step(v)
  <2> HIDE DEF W, Step
  <2>1. QED
    BY <1>2
<1>4. ASSUME NEW w, w = Step(w) PROVE \A m \in Inners : w[m] = End(m)
  <2> DEFINE S == {x \in Nat : \E m \in Inners : w[m] # End(m) /\ x = node[m].min_key}
  <2>1. ASSUME NEW m \in Inners, w[m] # End(m) PROVE FALSE
    <3>1. S \in SUBSET Nat /\ S # {}
      BY <1>0, <2>1, InnFacts
    <3>2. MaxKey \in Nat /\ \A x \in S : x <= MaxKey
      BY <1>0, InnFacts, KeyFacts
    <3>3. PICK x \in S : \A y \in S : y <= x
      BY <3>1, <3>2, Greatest
    <3>4. PICK a \in Inners : w[a] # End(a) /\ x = node[a].min_key
      BY <3>3
    <3>5. w[a] = IF Right(a, k) THEN w[node[a].next] ELSE a
      BY <1>4, <3>4
    <3>6. Right(a, k)
      BY <3>4, <3>5
    <3> DEFINE q == node[a].next
    <3>7. /\ q \in Inners /\ node[q].level = node[a].level /\ node[a].min_key < node[q].min_key
          /\ ~Right(q, k) => q = Cov(node[a].level, k)
      BY <1>0, <3>4, <3>6, WalkStep
    <3>8. w[q] # End(q)
      BY <3>4, <3>5, <3>6, <3>7
    <3>9. node[q].min_key \in S
      BY <1>0, <3>7, <3>8, InnFacts
    <3>10. node[q].min_key <= node[a].min_key /\ node[q].min_key \in Nat /\ node[a].min_key \in Nat
      BY <1>0, <3>3, <3>4, <3>7, <3>9, InnFacts
    <3>11. QED
      BY <3>7, <3>10
  <2>2. QED
    BY <2>1
<1>5. v[n] = End(n)
  <2> HIDE DEF v, Step, End
  <2>1. QED
    BY <1>0, <1>3, <1>4
<1>6. QED
  BY <1>1, <1>5

\* What a descent for k from node n is after: k, or the first key it can reach.
Goal(n, k) == IF k < node[n].min_key THEN node[n].min_key ELSE k

\* A walk that begins to the right of a key stays; others end at the key.
LEMMA NodeForCovers ==
  ASSUME NEW T \in Nat, Heap(node), NodesOK(node, T), OrderOK(node), FirstOK(node, T),
         NEW k \in Keys, NEW n \in Inn(node)
  PROVE  /\ NodeFor(n, k) \in Inn(node) /\ node[NodeFor(n, k)].level = node[n].level
         /\ Goal(n, k) \in Keys /\ Covers(node, NodeFor(n, k), Goal(n, k))
         /\ NodeFor(n, k) = Cov(node[n].level, Goal(n, k))
         /\ k < node[n].min_key => NodeFor(n, k) = n
<1>1. NodeFor(n, k) = IF Right(n, k) THEN Cov(node[n].level, k) ELSE n
  BY NodeForIs
<1>2. /\ k \in Nat /\ node[n].min_key \in Nat /\ node[n].min_key \in Keys
      /\ Right1(node, n) \in Nat /\ node[n].min_key < Right1(node, n)
      /\ node[n].level \in 1 .. T
  BY InnFacts, KeyFacts
<1>3. Right(n, k) <=> k >= Right1(node, n)
  BY DEF Right, Right1
<1>4. Goal(n, k) \in Keys
  BY <1>2 DEF Goal
<1>5. CASE Right(n, k)
  <2>1. Goal(n, k) = k /\ ~(k < node[n].min_key)
    BY <1>2, <1>3, <1>5 DEF Goal
  <2>2. QED
    BY <1>1, <1>2, <1>5, <2>1, CovIs
<1>6. CASE ~Right(n, k)
  <2>1. Covers(node, n, Goal(n, k))
    BY <1>2, <1>3, <1>6 DEF Goal, Covers
  <2>2. n = Cov(node[n].level, Goal(n, k))
    BY <1>2, <1>4, <2>1, CovIs
  <2>3. QED
    BY <1>1, <1>4, <1>6, <2>1, <2>2
<1>7. QED
  BY <1>5, <1>6

\* The child a descent goes on with.
Down(n, k) == node[NodeFor(n, k)].entries[EntryFor(NodeFor(n, k), k)].child

\* One step down keeps what the descent is after.
LEMMA DescendStep ==
  ASSUME NEW r, NEW H, NEW U, Tree(node, r, H, U),
         NEW k \in Keys, NEW n \in Inn(node), node[n].level > 1
  PROVE  /\ Down(n, k) \in Inn(node) /\ node[Down(n, k)].level = node[n].level - 1
         /\ Goal(Down(n, k), k) = Goal(n, k)
<1> DEFINE m == NodeFor(n, k)
           e == EntryFor(m, k)
           c == node[m].entries[e].child
           T == node[r].level
<1>1. /\ Heap(node) /\ NodesOK(node, T) /\ OrderOK(node) /\ FirstOK(node, T)
      /\ ChildOK(node, H, U) /\ r \in Inn(node)
  BY DEF Tree, TopOK
<1>2. T \in Nat
  BY <1>1, HeapFacts DEF Inn
<1>3. /\ m \in Inn(node) /\ node[m].level = node[n].level
      /\ Covers(node, m, Goal(n, k)) /\ (k < node[n].min_key => m = n)
  BY <1>1, <1>2, NodeForCovers
<1> HIDE DEF m
<1>4. /\ node[m].level \in Nat /\ node[m].min_key \in Nat /\ node[n].min_key \in Nat
      /\ node[m].entries \in Seq(EntryRecord) /\ Len(node[m].entries) > 0
      /\ 1 \in DOMAIN node[m].entries /\ node[m].entries[1].key = node[m].min_key
      /\ \A a, b \in DOMAIN node[m].entries :
            a < b => node[m].entries[a].key < node[m].entries[b].key
  BY <1>1, <1>2, <1>3, InnFacts
<1>5. k \in Nat
  BY KeyFacts
<1>6. /\ e \in DOMAIN node[m].entries
      /\ node[m].entries[1].key <= k => node[m].entries[e].key <= k
      /\ ~(node[m].entries[1].key <= k) => e = 1
  BY <1>4, <1>5, EntryForIs
<1> HIDE DEF e
<1>7. /\ c \in Lev(node, H, node[m].level - 1)
      /\ node[m].entries[e].key = Key(node, node[m].level - 1, c)
  BY <1>1, <1>3, <1>6 DEF ChildOK
<1>8. node[m].level - 1 # 0
  BY <1>3, <1>4
<1>9. /\ c \in Inn(node) /\ node[c].level = node[n].level - 1
      /\ node[m].entries[e].key = node[c].min_key
  BY <1>3, <1>7, <1>8 DEF Lev, Key
<1> HIDE DEF c
<1>10. node[c].min_key \in Nat
  BY <1>1, <1>2, <1>9, InnFacts
<1>11. Goal(c, k) = Goal(n, k)
  <2>1. CASE k < node[n].min_key
    <3>1. e = 1 /\ node[c].min_key = node[n].min_key
      BY <1>3, <1>4, <1>5, <1>6, <1>9, <2>1
    <3>2. QED
      BY <3>1 DEF Goal
  <2>2. CASE ~(k < node[n].min_key)
    <3>1. Goal(n, k) = k /\ node[m].min_key <= k
      BY <1>3, <2>2 DEF Goal, Covers
    <3>2. node[c].min_key <= k
      BY <1>4, <1>6, <1>9, <3>1
    <3>3. QED
      BY <1>5, <1>10, <3>1, <3>2 DEF Goal
  <2>3. QED
    BY <2>1, <2>2
<1>12. Down(n, k) = c
  BY DEF Down, c, e, m
<1>13. QED
  BY <1>9, <1>11, <1>12

\* A descent to a level of the tree ends at the node of the level whose range
\* holds the key.
LEMMA DescendToIs ==
  ASSUME NEW H, NEW U, Tree(node, root, H, U),
         NEW l \in 1 .. node[root].level, NEW k \in Keys
  PROVE  DescendTo(l, k) = Cov(l, Goal(root, k))
<1> DEFINE Step(w) == [n \in Inners |->
                         IF node[NodeFor(n, k)].level > l THEN w[Down(n, k)] ELSE NodeFor(n, k)]
           End(n) == IF node[n].level > l THEN Cov(l, Goal(n, k)) ELSE NodeFor(n, k)
           W == [n \in Inners |-> End(n)]
           v == CHOOSE w : w = Step(w)
           T == node[root].level
<1>0. Inners = Inn(node)
  BY DEF Inners, Inn
<1>1. /\ Heap(node) /\ NodesOK(node, T) /\ OrderOK(node) /\ FirstOK(node, T)
      /\ root \in Inn(node)
  BY DEF Tree, TopOK
<1>2. T \in Nat
  BY <1>1, HeapFacts DEF Inn
<1>3. DescendTo(l, k) = v[root]
  BY Zenon DEF DescendTo, Down
<1>4. ASSUME NEW n \in Inners
      PROVE  /\ node[n].level \in Nat /\ node[NodeFor(n, k)].level = node[n].level
             /\ node[n].level = l => NodeFor(n, k) = Cov(l, Goal(n, k))
             /\ node[n].level > l =>
                  /\ Down(n, k) \in Inners /\ node[Down(n, k)].level = node[n].level - 1
                  /\ Goal(Down(n, k), k) = Goal(n, k)
  <2>1. node[n].level \in Nat
    BY <1>0, <1>1, <1>2, <1>4, InnFacts
  <2>2. /\ node[NodeFor(n, k)].level = node[n].level
        /\ NodeFor(n, k) = Cov(node[n].level, Goal(n, k))
    BY <1>0, <1>1, <1>2, <1>4, NodeForCovers
  <2>3. ASSUME node[n].level > l
        PROVE  /\ Down(n, k) \in Inners /\ node[Down(n, k)].level = node[n].level - 1
               /\ Goal(Down(n, k), k) = Goal(n, k)
    <3>1. node[n].level > 1
      BY <1>2, <2>1, <2>3
    <3>2. QED
      BY <1>0, <1>4, <3>1, DescendStep
  <2>4. QED
    BY <2>1, <2>2, <2>3
<1>5. ASSUME NEW n \in Inners
      PROVE  /\ node[n].level \in Nat
             /\ node[n].level > l => Down(n, k) \in Inners /\ node[Down(n, k)].level = node[n].level - 1
                                     /\ End(Down(n, k)) = End(n)
  <2>1. ASSUME node[n].level > l PROVE End(Down(n, k)) = End(n)
    <3> DEFINE c == Down(n, k)
    <3>1. /\ c \in Inners /\ node[c].level = node[n].level - 1 /\ Goal(c, k) = Goal(n, k)
          /\ node[n].level \in Nat /\ l \in Nat
      BY <1>2, <1>4, <2>1
    <3>2. node[c].level = l => NodeFor(c, k) = Cov(l, Goal(c, k))
      BY <1>4, <3>1
    <3> HIDE DEF c
    <3>3. End(n) = Cov(l, Goal(n, k))
      BY <2>1
    <3>4. node[c].level > l \/ node[c].level = l
      BY <2>1, <3>1
    <3>5. End(c) = Cov(l, Goal(c, k))
      BY <3>1, <3>2, <3>4
    <3>6. QED
      BY <3>1, <3>3, <3>5 DEF c
  <2>2. QED
    BY <1>4, <2>1
<1>6. W = Step(W)
  <2>1. ASSUME NEW n \in Inners
        PROVE  W[n] = IF node[NodeFor(n, k)].level > l THEN W[Down(n, k)] ELSE NodeFor(n, k)
    <3>1. CASE node[n].level > l
      <4>1. Down(n, k) \in Inners /\ End(Down(n, k)) = End(n)
            /\ node[NodeFor(n, k)].level > l
        BY <1>4, <1>5, <3>1
      <4> HIDE DEF End
      <4>2. QED
        BY <4>1
    <3>2. CASE ~(node[n].level > l)
      BY <1>4, <3>2
    <3>3. QED
      BY <3>1, <3>2
  <2> HIDE DEF End
  <2>2. QED
    BY <2>1
<1>7. v = Step(v)
  <2> HIDE DEF W, Step
  <2>1. QED
    BY <1>6
<1>8. ASSUME NEW w, w = Step(w) PROVE \A n \in Inners : w[n] = End(n)
  <2> DEFINE S == {x \in Nat : \E n \in Inners : w[n] # End(n) /\ x = node[n].level}
  <2>1. ASSUME NEW n \in Inners, w[n] # End(n) PROVE FALSE
    <3>1. S \in SUBSET Nat /\ S # {}
      BY <1>5, <2>1
    <3>2. PICK x \in S : \A y \in S : x <= y
      BY <3>1, Least
    <3>3. PICK a \in Inners : w[a] # End(a) /\ x = node[a].level
      BY <3>2
    <3>4. w[a] = IF node[NodeFor(a, k)].level > l THEN w[Down(a, k)] ELSE NodeFor(a, k)
      BY <1>8, <3>3
    <3>5. node[a].level > l
      <4>1. node[NodeFor(a, k)].level = node[a].level
        BY <1>4, <3>3
      <4>2. QED
        BY <3>3, <3>4, <4>1
    <3>6. /\ Down(a, k) \in Inners /\ node[Down(a, k)].level = node[a].level - 1
          /\ End(Down(a, k)) = End(a) /\ w[a] = w[Down(a, k)] /\ node[a].level \in Nat
      BY <1>4, <1>5, <3>3, <3>4, <3>5
    <3> HIDE DEF End
    <3>7. w[Down(a, k)] # End(Down(a, k))
      BY <3>3, <3>6
    <3>8. node[a].level - 1 \in S
      BY <1>5, <3>6, <3>7
    <3>9. QED
      BY <3>2, <3>3, <3>6, <3>8
  <2>2. QED
    BY <2>1
<1>9. v[root] = End(root)
  <2> HIDE DEF v, Step, End
  <2>1. QED
    BY <1>0, <1>1, <1>7, <1>8
<1>10. End(root) = Cov(l, Goal(root, k))
  <2>1. T > l \/ T = l
    BY <1>2
  <2>2. T = l => NodeFor(root, k) = Cov(l, Goal(root, k))
    BY <1>0, <1>1, <1>4
  <2>3. QED
    BY <1>2, <2>1, <2>2
<1>11. QED
  BY <1>3, <1>9, <1>10

\* The parts of a tree, and its levels.
LEMMA TreeFacts ==
  ASSUME NEW h, NEW r, NEW H, NEW U, Tree(h, r, H, U)
  PROVE  /\ Heap(h) /\ h[r].level \in Nat /\ h[r].level >= 1
         /\ NodesOK(h, h[r].level) /\ OrderOK(h) /\ FirstOK(h, h[r].level)
         /\ r \in Inn(h) /\ r \notin U[h[r].level] /\ h[r].min_key = 0
         /\ H \in SUBSET Nat
         /\ \A l \in Nat : \A c \in Lev(h, H, l) :
              /\ c \in Nat /\ Key(h, l, c) \in Keys /\ Key(h, l, c) \in Nat
              /\ l # 0 => c \in Inn(h) /\ h[c].level = l /\ l \in 1 .. h[r].level
<1>1. /\ Heap(h) /\ NodesOK(h, h[r].level) /\ OrderOK(h) /\ FirstOK(h, h[r].level)
      /\ r \in Inn(h) /\ r \notin U[h[r].level] /\ h[r].min_key = 0 /\ H \subseteq Keys
  BY DEF Tree, TopOK
<1>2. h[r].level \in Nat
  BY <1>1, HeapFacts DEF Inn
<1>3. h[r].level >= 1
  BY <1>1, <1>2, InnFacts
<1>4. H \in SUBSET Nat
  BY <1>1, KeyFacts
<1>5. ASSUME NEW l \in Nat, NEW c \in Lev(h, H, l)
      PROVE  /\ c \in Nat /\ Key(h, l, c) \in Keys /\ Key(h, l, c) \in Nat
             /\ l # 0 => c \in Inn(h) /\ h[c].level = l /\ l \in 1 .. h[r].level
  <2>1. CASE l = 0
    BY <1>1, <1>4, <1>5, <2>1, KeyFacts DEF Lev, Key
  <2>2. CASE l # 0
    <3>1. c \in Inn(h) /\ h[c].level = l
      BY <1>5, <2>2 DEF Lev
    <3>2. c \in Nat /\ h[c].min_key \in Keys /\ h[c].min_key \in Nat /\ h[c].level \in 1 .. h[r].level
      BY <1>1, <1>2, <3>1, InnFacts
    <3>3. QED
      BY <2>2, <3>1, <3>2 DEF Key
  <2>3. QED
    BY <2>1, <2>2
<1>6. QED
  BY <1>1, <1>2, <1>3, <1>4, <1>5

\* A descent ends at the node whose range holds its key, and so do all others.
LEMMA Routing ==
  ASSUME NEW H, NEW U, Tree(node, root, H, U),
         NEW l \in 1 .. node[root].level, NEW k \in Keys
  PROVE  /\ DescendTo(l, k) \in Inn(node) /\ node[DescendTo(l, k)].level = l
         /\ Covers(node, DescendTo(l, k), k)
         /\ \A n \in Inn(node) : node[n].level = l /\ Covers(node, n, k) => n = DescendTo(l, k)
<1>1. DescendTo(l, k) = Cov(l, Goal(root, k))
  BY DescendToIs
<1>2. /\ Heap(node) /\ NodesOK(node, node[root].level) /\ OrderOK(node)
      /\ FirstOK(node, node[root].level) /\ node[root].min_key = 0 /\ node[root].level \in Nat
  BY TreeFacts
<1>3. Goal(root, k) = k
  BY <1>2, KeyFacts DEF Goal
<1>4. QED
  BY <1>1, <1>2, <1>3, CovIs

\* The node, and its range, that a listed key is in.
LEMMA EntryInRange ==
  ASSUME NEW h, NEW T \in Nat, Heap(h), NodesOK(h, T), NEW n \in Inn(h),
         NEW i \in DOMAIN h[n].entries
  PROVE  Covers(h, n, h[n].entries[i].key)
  BY InnFacts DEF Covers

\* No child, and no key, is listed twice on a level.
LEMMA ListedOnce ==
  ASSUME NEW h, NEW r, NEW H, NEW U, Tree(h, r, H, U),
         NEW m \in Inn(h), NEW n \in Inn(h), h[m].level = h[n].level,
         NEW i \in DOMAIN h[m].entries, NEW j \in DOMAIN h[n].entries,
         h[m].entries[i].child = h[n].entries[j].child \/ h[m].entries[i].key = h[n].entries[j].key
  PROVE  m = n /\ i = j
<1> DEFINE T == h[r].level
<1>1. /\ Heap(h) /\ NodesOK(h, T) /\ OrderOK(h) /\ T \in Nat /\ ChildOK(h, H, U)
  BY TreeFacts DEF Tree
<1>2. h[m].entries[i].key = h[n].entries[j].key
  BY <1>1 DEF ChildOK
<1>3. Covers(h, m, h[m].entries[i].key) /\ Covers(h, n, h[m].entries[i].key)
  BY <1>1, <1>2, EntryInRange
<1>4. h[m].entries[i].key \in Nat
  BY <1>1, InnFacts
<1>5. m = n
  BY <1>1, <1>3, <1>4, CoverOnce
<1>6. /\ DOMAIN h[m].entries = 1 .. Len(h[m].entries) /\ Len(h[m].entries) \in Nat
      /\ \A d, e \in DOMAIN h[m].entries : d < e => h[m].entries[d].key < h[m].entries[e].key
      /\ \A e \in DOMAIN h[m].entries : h[m].entries[e].key \in Nat
  BY <1>1, InnFacts
<1>7. i \in Nat /\ j \in Nat /\ i \in DOMAIN h[m].entries /\ j \in DOMAIN h[m].entries
  BY <1>5, <1>6
<1>8. ~(i < j) /\ ~(j < i)
  BY <1>2, <1>5, <1>6, <1>7
<1>9. QED
  BY <1>5, <1>7, <1>8

\* A descent for the key of a listed child ends at the entry of that child.
LEMMA FindsEntry ==
  ASSUME NEW H, NEW U, Tree(node, root, H, U),
         NEW l \in 1 .. node[root].level, NEW c \in Lev(node, H, l - 1), c \notin U[l - 1]
  PROVE  LET k == Key(node, l - 1, c)
             p == DescendTo(l, k)
         IN  /\ p \in Inn(node) /\ node[p].level = l
             /\ EntryFor(p, k) \in DOMAIN node[p].entries
             /\ node[p].entries[EntryFor(p, k)].child = c
             /\ node[p].entries[EntryFor(p, k)].key = k
<1> DEFINE k == Key(node, l - 1, c)
           p == DescendTo(l, k)
           T == node[root].level
<1>1. /\ Heap(node) /\ NodesOK(node, T) /\ OrderOK(node) /\ T \in Nat /\ ChildOK(node, H, U)
      /\ ParentOK(node, T, H, U)
  BY TreeFacts DEF Tree
<1>2. l - 1 \in Nat /\ l - 1 \in 0 .. T - 1 /\ (l - 1) + 1 = l
  BY <1>1
<1>3. k \in Keys /\ k \in Nat
  BY <1>2, TreeFacts
<1>4. PICK n \in Inn(node) : node[n].level = l /\ Lists(node, n, c)
  <2>1. \E n \in Inn(node) : node[n].level = (l - 1) + 1 /\ Lists(node, n, c)
    BY <1>1, <1>2 DEF ParentOK
  <2>2. QED
    BY <1>2, <2>1
<1>5. PICK i \in DOMAIN node[n].entries : node[n].entries[i].child = c
  BY <1>4 DEF Lists
<1>6. node[n].entries[i].key = k
  BY <1>1, <1>4, <1>5 DEF ChildOK
<1>7. Covers(node, n, k)
  BY <1>1, <1>4, <1>6, EntryInRange
<1>8. n = p
  BY <1>3, <1>4, <1>7, Routing
<1> HIDE DEF k, p
<1>9. /\ node[n].entries \in Seq(EntryRecord) /\ Len(node[n].entries) > 0
      /\ 1 \in DOMAIN node[n].entries
      /\ \A a, b \in DOMAIN node[n].entries :
           a < b => node[n].entries[a].key < node[n].entries[b].key
      /\ DOMAIN node[n].entries = 1 .. Len(node[n].entries)
      /\ \A a \in DOMAIN node[n].entries : node[n].entries[a].key \in Nat
      /\ node[n].entries[1].key <= node[n].entries[i].key
  BY <1>1, <1>4, <1>5, InnFacts
<1>10. node[n].entries[1].key <= k
  BY <1>6, <1>9
<1> DEFINE e == EntryFor(n, k)
<1>11. /\ e \in DOMAIN node[n].entries /\ node[n].entries[e].key <= k /\ i <= e
  <2>1. /\ e \in DOMAIN node[n].entries /\ node[n].entries[e].key <= k
        /\ \A a \in DOMAIN node[n].entries : node[n].entries[a].key <= k => a <= e
    BY <1>3, <1>9, <1>10, EntryForIs
  <2>2. node[n].entries[i].key <= k
    BY <1>3, <1>6
  <2> HIDE DEF e
  <2>3. QED
    BY <1>5, <2>1, <2>2
<1> HIDE DEF e
<1>12. i = e
  <2>1. i \in Nat /\ e \in Nat /\ node[n].entries[e].key \in Nat
    BY <1>5, <1>9, <1>11
  <2>2. ASSUME i < e PROVE FALSE
    <3>1. node[n].entries[i].key < node[n].entries[e].key
      BY <1>5, <1>9, <1>11, <2>2
    <3>2. QED
      BY <1>3, <1>6, <1>11, <2>1, <3>1
  <2>3. QED
    BY <1>11, <2>1, <2>2
<1>13. QED
  BY <1>4, <1>5, <1>6, <1>8, <1>12 DEF e, k, p

------------------------------------------------------------------------------
(* What is done to the entries of a node.                                  *)

\* Keys go up.
Increasing(es) == \A d, e \in DOMAIN es : d < e => es[d].key < es[e].key

\* The entries of fs are entries of es.
Within(fs, es) == \A j \in DOMAIN fs : \E x \in DOMAIN es : fs[j] = es[x]

\* The keys at two places.
LEMMA IncreasingKeys ==
  ASSUME NEW es \in Seq(EntryRecord), Increasing(es), NEW i \in DOMAIN es, NEW j \in DOMAIN es, i <= j
  PROVE  es[i].key <= es[j].key
<1>1. i \in Nat /\ j \in Nat /\ es[i].key \in Nat /\ es[j].key \in Nat
  BY EntryFacts
<1>2. i = j \/ i < j
  BY <1>1
<1>3. i < j => es[i].key < es[j].key
  BY DEF Increasing
<1>4. QED
  BY <1>1, <1>2, <1>3

\* A removal keeps the first entry, the order and the other entries.
LEMMA RemovedIs ==
  ASSUME NEW es \in Seq(EntryRecord), Increasing(es), NEW i \in DOMAIN es, i # 1,
         NEW fs, fs = RemoveEntry(es, i)
  PROVE  /\ fs \in Seq(EntryRecord) /\ Increasing(fs) /\ 1 \in DOMAIN fs /\ fs[1] = es[1]
         /\ \A j \in DOMAIN fs : \E x \in DOMAIN es : x # i /\ fs[j] = es[x]
         /\ \A x \in DOMAIN es : x # i => \E j \in DOMAIN fs : fs[j] = es[x]
<1> DEFINE n == Len(es)
           a == SubSeq(es, 1, i - 1)
           b == SubSeq(es, i + 1, n)
<1>1. n \in Nat /\ DOMAIN es = 1 .. n /\ i \in 2 .. n /\ \A j \in 1 .. n : es[j] \in EntryRecord
  BY EntryFacts
<1>2. /\ a \in Seq(EntryRecord) /\ Len(a) = i - 1
      /\ \A j \in 1 .. i - 1 : a[j] = es[j]
  <2>1. \A j \in 1 .. i - 1 : es[j] \in EntryRecord
    BY <1>1
  <2>2. /\ a \in Seq(EntryRecord) /\ Len(a) = IF 1 <= i - 1 THEN i - 1 - 1 + 1 ELSE 0
        /\ \A j \in 1 .. i - 1 - 1 + 1 : a[j] = es[1 + j - 1]
    BY <1>1, <2>1, SubSeqProperties
  <2> HIDE DEF a
  <2>3. QED
    BY <1>1, <2>2
<1>3. /\ b \in Seq(EntryRecord) /\ Len(b) = n - i
      /\ \A j \in 1 .. n - i : b[j] = es[i + j]
  <2>1. \A j \in i + 1 .. n : es[j] \in EntryRecord
    BY <1>1
  <2>2. /\ b \in Seq(EntryRecord) /\ Len(b) = IF i + 1 <= n THEN n - (i + 1) + 1 ELSE 0
        /\ \A j \in 1 .. n - (i + 1) + 1 : b[j] = es[i + 1 + j - 1]
    BY <1>1, <2>1, SubSeqProperties, SMTT(30)
  <2> HIDE DEF b
  <2>3. \A j \in 1 .. n - i : j \in 1 .. n - (i + 1) + 1 /\ i + 1 + j - 1 = i + j
    BY <1>1
  <2>4. Len(b) = n - i
    BY <1>1, <2>2
  <2>5. QED
    BY <2>2, <2>3, <2>4
<1>4. fs = a \o b
  BY DEF RemoveEntry, RemoveAt
<1> HIDE DEF a, b
<1>5. /\ fs \in Seq(EntryRecord) /\ Len(fs) = (i - 1) + (n - i)
      /\ \A j \in 1 .. (i - 1) + (n - i) : fs[j] = IF j <= i - 1 THEN a[j] ELSE b[j - (i - 1)]
  BY <1>2, <1>3, <1>4, ConcatProperties
<1> HIDE DEF n
<1>6. Len(fs) = n - 1 /\ DOMAIN fs = 1 .. n - 1
  BY <1>1, <1>5
<1>7. ASSUME NEW j \in 1 .. n - 1 PROVE fs[j] = IF j < i THEN es[j] ELSE es[j + 1]
  <2>1. j \in 1 .. (i - 1) + (n - i)
    BY <1>1
  <2>2. CASE j < i
    <3>1. j \in 1 .. i - 1 /\ j <= i - 1
      BY <1>1, <2>2
    <3>2. QED
      BY <1>2, <1>5, <2>1, <2>2, <3>1
  <2>3. CASE ~(j < i)
    <3>1. j - (i - 1) \in 1 .. n - i /\ i + (j - (i - 1)) = j + 1 /\ ~(j <= i - 1)
      BY <1>1, <2>3
    <3>2. b[j - (i - 1)] = es[j + 1]
      BY <1>3, <3>1
    <3>3. QED
      BY <1>5, <2>1, <2>3, <3>1, <3>2
  <2>4. QED
    BY <2>2, <2>3
<1> DEFINE at(j) == IF j < i THEN j ELSE j + 1
<1>8. ASSUME NEW j \in 1 .. n - 1 PROVE at(j) \in 1 .. n /\ at(j) # i /\ fs[j] = es[at(j)]
  BY <1>1, <1>7
<1>9. \A c, d \in 1 .. n - 1 : c < d => at(c) < at(d)
  BY <1>1
<1>10. Increasing(fs)
  <2>1. ASSUME NEW c \in 1 .. n - 1, NEW d \in 1 .. n - 1, c < d PROVE fs[c].key < fs[d].key
    <3>1. at(c) < at(d) /\ at(c) \in DOMAIN es /\ at(d) \in DOMAIN es
      BY <1>1, <1>8, <1>9, <2>1
    <3> HIDE DEF at
    <3>2. es[at(c)].key < es[at(d)].key
      BY <3>1 DEF Increasing
    <3>3. QED
      BY <1>8, <3>2
  <2>2. QED
    BY <1>6, <2>1 DEF Increasing
<1>11. ASSUME NEW x \in DOMAIN es, x # i PROVE \E j \in DOMAIN fs : fs[j] = es[x]
  <2>1. CASE x < i
    <3>1. x \in 1 .. n - 1 /\ fs[x] = es[x]
      BY <1>1, <1>7, <2>1
    <3>2. QED
      BY <1>6, <3>1
  <2>2. CASE ~(x < i)
    <3>1. x - 1 \in 1 .. n - 1 /\ ~(x - 1 < i) /\ x - 1 + 1 = x
      BY <1>1, <1>11, <2>2
    <3>2. fs[x - 1] = es[x]
      BY <1>7, <3>1
    <3>3. QED
      BY <1>6, <3>1, <3>2
  <2>3. QED
    BY <2>1, <2>2
<1>12. ASSUME NEW j \in DOMAIN fs PROVE \E x \in DOMAIN es : x # i /\ fs[j] = es[x]
  <2>1. at(j) \in DOMAIN es /\ at(j) # i /\ fs[j] = es[at(j)]
    BY <1>1, <1>6, <1>8, <1>12
  <2>2. QED
    BY <2>1
<1>13. 1 \in DOMAIN fs /\ fs[1] = es[1]
  BY <1>1, <1>6, <1>7
<1>14. QED
  BY <1>5, <1>10, <1>11, <1>12, <1>13

\* An insertion behind entry i keeps the first entry, the order and all entries.
LEMMA InsertedIs ==
  ASSUME NEW es \in Seq(EntryRecord), Increasing(es), NEW i \in DOMAIN es, NEW new \in EntryRecord,
         es[i].key < new.key, i < Len(es) => new.key < es[i + 1].key,
         NEW fs, fs = InsertAt(es, i + 1, new)
  PROVE  /\ fs \in Seq(EntryRecord) /\ Increasing(fs) /\ 1 \in DOMAIN fs /\ fs[1] = es[1]
         /\ \A j \in DOMAIN fs : fs[j] = new \/ \E x \in DOMAIN es : fs[j] = es[x]
         /\ \A x \in DOMAIN es : \E j \in DOMAIN fs : fs[j] = es[x]
         /\ \E j \in DOMAIN fs : fs[j] = new
<1> DEFINE n == Len(es)
           a == SubSeq(es, 1, i)
           b == SubSeq(es, i + 1, n)
           ab == a \o <<new>>
<1>1. /\ n \in Nat /\ DOMAIN es = 1 .. n /\ i \in 1 .. n /\ \A j \in 1 .. n : es[j] \in EntryRecord
      /\ \A j \in 1 .. n : es[j].key \in Nat
      /\ new.key \in Nat
  <2>1. new.key \in Nat
    BY KeyFacts DEF EntryRecord
  <2>2. QED
    BY <2>1, EntryFacts
<1>2. /\ a \in Seq(EntryRecord) /\ Len(a) = i
      /\ \A j \in 1 .. i : a[j] = es[j]
  <2>1. \A j \in 1 .. i : es[j] \in EntryRecord
    BY <1>1
  <2>2. /\ a \in Seq(EntryRecord) /\ Len(a) = IF 1 <= i THEN i - 1 + 1 ELSE 0
        /\ \A j \in 1 .. i - 1 + 1 : a[j] = es[1 + j - 1]
    BY <1>1, <2>1, SubSeqProperties
  <2> HIDE DEF a
  <2>3. QED
    BY <1>1, <2>2
<1>3. /\ b \in Seq(EntryRecord) /\ Len(b) = n - i
      /\ \A j \in 1 .. n - i : b[j] = es[i + j]
  <2>1. \A j \in i + 1 .. n : es[j] \in EntryRecord
    BY <1>1
  <2>2. /\ b \in Seq(EntryRecord) /\ Len(b) = IF i + 1 <= n THEN n - (i + 1) + 1 ELSE 0
        /\ \A j \in 1 .. n - (i + 1) + 1 : b[j] = es[i + 1 + j - 1]
    BY <1>1, <2>1, SubSeqProperties, SMTT(30)
  <2> HIDE DEF b
  <2>3. \A j \in 1 .. n - i : j \in 1 .. n - (i + 1) + 1 /\ i + 1 + j - 1 = i + j
    BY <1>1
  <2>4. Len(b) = n - i
    BY <1>1, <2>2
  <2>5. QED
    BY <2>2, <2>3, <2>4
<1>4. fs = ab \o b
  <2>1. (i + 1) - 1 = i
    BY <1>1
  <2>2. fs = (SubSeq(es, 1, (i + 1) - 1) \o <<new>>) \o SubSeq(es, i + 1, Len(es))
    BY DEF InsertAt
  <2>3. SubSeq(es, 1, (i + 1) - 1) = a
    BY ONLY <2>1, Zenon DEF a
  <2>4. QED
    BY ONLY <2>2, <2>3, Zenon DEF ab, b, n
<1>5. <<new>> \in Seq(EntryRecord) /\ Len(<<new>>) = 1 /\ <<new>>[1] = new
  OBVIOUS
<1> HIDE DEF a, b
<1>6. /\ ab \in Seq(EntryRecord) /\ Len(ab) = i + 1
      /\ \A j \in 1 .. i + 1 : ab[j] = IF j <= i THEN a[j] ELSE <<new>>[j - i]
  BY <1>2, <1>5, ConcatProperties
<1> HIDE DEF ab
<1>7. /\ fs \in Seq(EntryRecord) /\ Len(fs) = (i + 1) + (n - i)
      /\ \A j \in 1 .. (i + 1) + (n - i) : fs[j] = IF j <= i + 1 THEN ab[j] ELSE b[j - (i + 1)]
  <2>1. /\ fs \in Seq(EntryRecord) /\ Len(fs) = Len(ab) + Len(b)
        /\ \A j \in 1 .. Len(ab) + Len(b) : fs[j] = IF j <= Len(ab) THEN ab[j] ELSE b[j - Len(ab)]
    <3>1. ab \in Seq(EntryRecord) /\ b \in Seq(EntryRecord)
      BY <1>3, <1>6
    <3>2. QED
      BY ONLY <1>4, <3>1, ConcatProperties
  <2> HIDE DEF n
  <2>2. QED
    BY <1>3, <1>6, <2>1
<1> HIDE DEF n
<1>0. n \in Nat /\ i \in 1 .. n
  BY <1>1
<1>8. Len(fs) = n + 1 /\ DOMAIN fs = 1 .. n + 1
  BY <1>1, <1>7
<1>9. ASSUME NEW j \in 1 .. n + 1
      PROVE  /\ j <= i => j \in 1 .. n /\ fs[j] = es[j]
             /\ j = i + 1 => fs[j] = new
             /\ j > i + 1 => j - 1 \in 1 .. n /\ fs[j] = es[j - 1]
  <2>1. j \in 1 .. (i + 1) + (n - i)
    BY <1>1
  <2>2. CASE j <= i
    <3>1. j \in 1 .. i /\ j \in 1 .. i + 1 /\ j <= i + 1 /\ j \in 1 .. n /\ ~(j > i + 1) /\ j # i + 1
      BY <1>1, <2>2
    <3>2. QED
      BY <1>2, <1>6, <1>7, <2>1, <2>2, <3>1
  <2>3. CASE j = i + 1
    <3>1. j \in 1 .. i + 1 /\ j <= i + 1 /\ j - i = 1 /\ ~(j > i + 1) /\ ~(j <= i)
      BY <1>1, <2>3
    <3>2. QED
      BY <1>5, <1>6, <1>7, <2>1, <3>1
  <2>4. CASE j > i + 1
    <3>1. j - (i + 1) \in 1 .. n - i /\ i + (j - (i + 1)) = j - 1 /\ ~(j <= i + 1) /\ ~(j <= i)
          /\ j # i + 1 /\ j - 1 \in 1 .. n
      BY ONLY j \in 1 .. n + 1, <1>0, <2>4
    <3>2. b[j - (i + 1)] = es[j - 1]
      BY <1>3, <3>1
    <3>3. QED
      BY <1>7, <2>1, <2>4, <3>1, <3>2
  <2>5. QED
    BY <1>1, <2>2, <2>3, <2>4
<1>10. Increasing(fs)
  <2>1. ASSUME NEW c \in 1 .. n + 1, NEW d \in 1 .. n + 1, c < d PROVE fs[c].key < fs[d].key
    <3>1. c \in Nat /\ d \in Nat
      BY <1>1
    <3>2. CASE c <= i /\ d <= i
      BY <1>1, <1>9, <2>1, <3>2 DEF Increasing
    <3>3. CASE c <= i /\ d = i + 1
      <4>1. es[c].key <= es[i].key /\ es[c].key \in Nat /\ es[i].key \in Nat
        BY <1>1, <1>9, <3>3, IncreasingKeys
      <4>2. QED
        BY <1>1, <1>9, <3>3, <4>1
    <3>4. CASE c <= i /\ d > i + 1
      <4>1. c < d - 1 /\ c \in DOMAIN es /\ d - 1 \in DOMAIN es
        BY <1>1, <1>9, <3>1, <3>4
      <4>2. es[c].key < es[d - 1].key
        BY <4>1 DEF Increasing
      <4>3. QED
        BY <1>9, <3>4, <4>2
    <3>5. CASE c = i + 1 /\ d > i + 1
      <4>1. i < Len(es) /\ i + 1 \in DOMAIN es /\ d - 1 \in DOMAIN es /\ i + 1 <= d - 1
        BY <1>1, <1>9, <3>1, <3>5 DEF n
      <4>2. es[i + 1].key <= es[d - 1].key /\ new.key < es[i + 1].key
            /\ es[i + 1].key \in Nat /\ es[d - 1].key \in Nat
        BY <1>1, <4>1, IncreasingKeys
      <4>3. QED
        BY <1>1, <1>9, <3>5, <4>2, SMTT(30)
    <3>6. CASE c > i + 1
      <4>1. c - 1 < d - 1 /\ d > i + 1 /\ c - 1 \in DOMAIN es /\ d - 1 \in DOMAIN es
        BY <1>1, <1>9, <2>1, <3>1, <3>6
      <4>2. es[c - 1].key < es[d - 1].key
        BY <4>1 DEF Increasing
      <4>3. QED
        BY <1>9, <3>6, <4>1, <4>2
    <3>7. QED
      BY <1>1, <2>1, <3>1, <3>2, <3>3, <3>4, <3>5, <3>6
  <2>2. QED
    BY <1>8, <2>1 DEF Increasing
<1>11. ASSUME NEW x \in DOMAIN es PROVE \E j \in DOMAIN fs : fs[j] = es[x]
  <2>1. CASE x <= i
    <3>1. x \in DOMAIN fs /\ fs[x] = es[x]
      BY <1>1, <1>8, <1>9, <2>1
    <3>2. QED
      BY <3>1
  <2>2. CASE ~(x <= i)
    <3>1. x + 1 \in 1 .. n + 1 /\ x + 1 > i + 1 /\ x + 1 - 1 = x
      BY <1>1, <2>2
    <3>2. fs[x + 1] = es[x]
      BY <1>9, <3>1
    <3>3. QED
      BY <1>8, <3>1, <3>2
  <2>3. QED
    BY <2>1, <2>2
<1>12. ASSUME NEW j \in DOMAIN fs PROVE fs[j] = new \/ \E x \in DOMAIN es : fs[j] = es[x]
  <2>1. j \in 1 .. n + 1 /\ (j <= i \/ j = i + 1 \/ j > i + 1)
    BY <1>1, <1>8, <1>12
  <2>2. QED
    BY <1>1, <1>9, <2>1
<1>13. 1 \in DOMAIN fs /\ fs[1] = es[1] /\ i + 1 \in DOMAIN fs /\ fs[i + 1] = new
  BY <1>1, <1>8, <1>9
<1>14. QED
  BY <1>7, <1>10, <1>11, <1>12, <1>13

\* The rows a and b of the entries up to, and behind, the k-th.
CutFacts(es, k, a, b) ==
  /\ a \in Seq(EntryRecord) /\ Increasing(a) /\ 1 \in DOMAIN a /\ a[1] = es[1]
  /\ b \in Seq(EntryRecord) /\ Increasing(b) /\ 1 \in DOMAIN b /\ b[1] = es[k + 1]
  /\ k + 1 \in DOMAIN es /\ es[1].key < es[k + 1].key
  /\ \A j \in DOMAIN a : a[j].key < b[1].key
  /\ Within(a, es) /\ Within(b, es)
  /\ \A x \in DOMAIN es : \/ \E j \in DOMAIN a : a[j] = es[x]
                          \/ \E j \in DOMAIN b : b[j] = es[x]

\* A cut leaves two rows of entries, the second behind the first.
LEMMA CutIs ==
  ASSUME NEW es \in Seq(EntryRecord), Increasing(es), NEW k \in Nat, 1 <= k, k < Len(es),
         NEW a, a = SubSeq(es, 1, k), NEW b, b = SubSeq(es, k + 1, Len(es))
  PROVE  CutFacts(es, k, a, b)
<1> DEFINE n == Len(es)
<1>1. /\ n \in Nat /\ DOMAIN es = 1 .. n /\ \A j \in 1 .. n : es[j] \in EntryRecord
  BY EntryFacts
<1>2. /\ a \in Seq(EntryRecord) /\ Len(a) = k /\ DOMAIN a = 1 .. k
      /\ \A j \in 1 .. k : a[j] = es[j]
  <2>1. \A j \in 1 .. k : es[j] \in EntryRecord
    BY <1>1
  <2>2. /\ a \in Seq(EntryRecord) /\ Len(a) = IF 1 <= k THEN k - 1 + 1 ELSE 0
        /\ \A j \in 1 .. k - 1 + 1 : a[j] = es[1 + j - 1]
    BY <1>1, <2>1, SubSeqProperties
  <2>3. k - 1 + 1 = k /\ \A j \in 1 .. k : 1 + j - 1 = j
    OBVIOUS
  <2>4. QED
    BY <1>1, <2>2, <2>3
<1>3. /\ b \in Seq(EntryRecord) /\ Len(b) = n - k /\ DOMAIN b = 1 .. n - k
      /\ \A j \in 1 .. n - k : b[j] = es[k + j]
  <2>1. \A j \in k + 1 .. n : es[j] \in EntryRecord
    BY <1>1
  <2>2. /\ b \in Seq(EntryRecord) /\ Len(b) = IF k + 1 <= n THEN n - (k + 1) + 1 ELSE 0
        /\ \A j \in 1 .. n - (k + 1) + 1 : b[j] = es[k + 1 + j - 1]
    BY <1>1, <2>1, SubSeqProperties
  <2>3. \A j \in 1 .. n - k : j \in 1 .. n - (k + 1) + 1 /\ k + 1 + j - 1 = k + j
    BY <1>1
  <2>4. Len(b) = n - k
    <3> HIDE DEF n
    <3>1. n \in Nat /\ k + 1 <= n
      BY <1>1 DEF n
    <3>2. n - (k + 1) + 1 = n - k
      BY <3>1
    <3>3. QED
      BY ONLY <2>2, <3>1, <3>2
  <2>5. QED
    BY <2>2, <2>3, <2>4
<1> HIDE DEF n
<1>4. n = Len(es) /\ k < n
  BY DEF n
<1>5. 1 \in DOMAIN a /\ a[1] = es[1] /\ 1 \in DOMAIN b /\ b[1] = es[k + 1] /\ k + 1 \in DOMAIN es
  BY <1>1, <1>2, <1>3, <1>4
<1>6. es[1].key < es[k + 1].key
  <2>1. 1 \in DOMAIN es /\ 1 < k + 1
    BY <1>1, <1>4
  <2>2. QED
    BY <1>5, <2>1 DEF Increasing
<1>7. Increasing(a) /\ Within(a, es)
  <2>1. \A j \in 1 .. k : j \in DOMAIN es
    BY <1>1, <1>4
  <2>2. QED
    BY <1>2, <2>1 DEF Increasing, Within
<1>8. Within(b, es) /\ Increasing(b)
  <2>1. \A j \in 1 .. n - k : k + j \in DOMAIN es
    BY <1>1, <1>4
  <2>2. Within(b, es)
    BY <1>3, <2>1 DEF Within
  <2>3. ASSUME NEW c \in 1 .. n - k, NEW d \in 1 .. n - k, c < d PROVE b[c].key < b[d].key
    <3>1. k + c < k + d
      BY <2>3
    <3>2. es[k + c].key < es[k + d].key
      BY <2>1, <3>1 DEF Increasing
    <3>3. QED
      BY <1>3, <3>2
  <2>4. QED
    BY <1>3, <2>2, <2>3 DEF Increasing
<1>9. ASSUME NEW j \in DOMAIN a PROVE a[j].key < b[1].key
  <2>1. j < k + 1 /\ j \in DOMAIN es /\ a[j] = es[j]
    BY <1>1, <1>2, <1>4
  <2>2. QED
    BY <1>5, <2>1 DEF Increasing
<1>10. ASSUME NEW x \in DOMAIN es
       PROVE  \/ \E j \in DOMAIN a : a[j] = es[x]
              \/ \E j \in DOMAIN b : b[j] = es[x]
  <2>1. CASE x <= k
    BY <1>1, <1>2, <2>1
  <2>2. CASE ~(x <= k)
    <3>1. x - k \in 1 .. n - k /\ k + (x - k) = x
      <4>1. x \in 1 .. n /\ n \in Nat
        BY <1>1
      <4>2. QED
        BY ONLY <4>1, <2>2, k \in Nat
    <3>2. b[x - k] = es[x]
      BY <1>3, <3>1
    <3>3. QED
      BY <1>3, <3>1, <3>2
  <2>3. QED
    BY <2>1, <2>2
<1>11. QED
  BY <1>2, <1>3, <1>5, <1>6, <1>7, <1>8, <1>9, <1>10 DEF CutFacts

\* The row fs of the entries of a and b.
JoinFacts(a, b, fs) ==
  /\ fs \in Seq(EntryRecord) /\ Increasing(fs) /\ 1 \in DOMAIN fs /\ fs[1] = a[1]
  /\ Within(a, fs) /\ Within(b, fs)
  /\ \A x \in DOMAIN fs : \/ \E j \in DOMAIN a : a[j] = fs[x]
                          \/ \E j \in DOMAIN b : b[j] = fs[x]

\* Two rows of entries, one behind the other, make one.
LEMMA JoinIs ==
  ASSUME NEW a \in Seq(EntryRecord), Increasing(a), 1 \in DOMAIN a,
         NEW b \in Seq(EntryRecord), Increasing(b), 1 \in DOMAIN b,
         \A j \in DOMAIN a : a[j].key < b[1].key,
         NEW fs, fs = a \o b
  PROVE  JoinFacts(a, b, fs)
<1> DEFINE m == Len(a)
           n == Len(b)
<1>1. /\ m \in Nat /\ DOMAIN a = 1 .. m /\ n \in Nat /\ DOMAIN b = 1 .. n
      /\ \A j \in 1 .. m : a[j].key \in Nat
      /\ \A j \in 1 .. n : b[j].key \in Nat
  BY EntryFacts
<1>2. /\ fs \in Seq(EntryRecord) /\ Len(fs) = m + n
      /\ \A j \in 1 .. m + n : fs[j] = IF j <= m THEN a[j] ELSE b[j - m]
  BY ConcatProperties
<1> HIDE DEF m, n
<1>3. DOMAIN fs = 1 .. m + n
  BY <1>2
<1>4. ASSUME NEW j \in 1 .. m + n
      PROVE  /\ j <= m => j \in DOMAIN a /\ fs[j] = a[j]
             /\ j > m => j - m \in DOMAIN b /\ fs[j] = b[j - m]
  <2>1. j <= m => j \in 1 .. m
    BY <1>1
  <2>2. j > m => j - m \in 1 .. n /\ ~(j <= m)
    BY <1>1
  <2>3. QED
    BY <1>1, <1>2, <2>1, <2>2
<1>5. Increasing(fs)
  <2>1. ASSUME NEW c \in 1 .. m + n, NEW d \in 1 .. m + n, c < d PROVE fs[c].key < fs[d].key
    <3>1. CASE d <= m
      <4>1. c <= m
        BY <1>1, <2>1, <3>1
      <4>2. QED
        BY <1>4, <2>1, <3>1, <4>1 DEF Increasing
    <3>2. CASE c <= m /\ d > m
      <4>1. a[c].key < b[1].key /\ c \in DOMAIN a /\ d - m \in DOMAIN b
        BY <1>4, <3>2
      <4>2. b[1].key <= b[d - m].key
        <5>1. 1 <= d - m
          BY <1>1, <3>2
        <5>2. QED
          BY <4>1, <5>1, IncreasingKeys
      <4>3. a[c].key \in Nat /\ b[1].key \in Nat /\ b[d - m].key \in Nat
        BY <1>1, <4>1
      <4>4. a[c].key < b[d - m].key
        BY <4>1, <4>2, <4>3
      <4>5. QED
        BY <1>4, <3>2, <4>4
    <3>3. CASE c > m
      <4>1. d > m /\ c - m < d - m
        BY <1>1, <2>1, <3>3
      <4>2. c - m \in DOMAIN b /\ d - m \in DOMAIN b /\ fs[c] = b[c - m] /\ fs[d] = b[d - m]
        BY <1>4, <3>3, <4>1
      <4>3. QED
        BY <4>1, <4>2 DEF Increasing
    <3>4. QED
      BY <1>1, <3>1, <3>2, <3>3
  <2>2. QED
    BY <1>3, <2>1 DEF Increasing
<1>6. Within(a, fs)
  <2>1. ASSUME NEW j \in DOMAIN a PROVE j \in DOMAIN fs /\ a[j] = fs[j]
    <3>1. j \in 1 .. m + n /\ j <= m
      BY <1>1
    <3>2. QED
      BY <1>3, <1>4, <3>1
  <2>2. QED
    BY <2>1 DEF Within
<1>7. Within(b, fs)
  <2>1. ASSUME NEW j \in DOMAIN b PROVE m + j \in DOMAIN fs /\ b[j] = fs[m + j]
    <3>1. m + j \in 1 .. m + n /\ m + j > m /\ (m + j) - m = j
      BY <1>1
    <3>2. QED
      BY <1>3, <1>4, <3>1
  <2>2. QED
    BY <2>1 DEF Within
<1>8. 1 \in DOMAIN fs /\ fs[1] = a[1]
  <2>1. 1 \in 1 .. m + n /\ 1 <= m
    BY <1>1
  <2>2. QED
    BY <1>3, <1>4, <2>1
<1>9. ASSUME NEW x \in DOMAIN fs
      PROVE  \/ \E j \in DOMAIN a : a[j] = fs[x]
             \/ \E j \in DOMAIN b : b[j] = fs[x]
  <2>1. x \in 1 .. m + n /\ (x <= m \/ x > m)
    BY <1>1, <1>3
  <2>2. QED
    BY <1>4, <2>1
<1>10. QED
  BY <1>2, <1>5, <1>6, <1>7, <1>8, <1>9 DEF JoinFacts

------------------------------------------------------------------------------
(* What the writes do to the shape of a tree.                              *)

\* The nodes of g are where those of h are.
Shape(g, h) ==
  /\ DOMAIN g = DOMAIN h
  /\ \A n \in DOMAIN h : /\ g[n].level = h[n].level /\ g[n].min_key = h[n].min_key
                         /\ g[n].next = h[n].next

\* With nodes where they were, levels, keys and ranges are what they were.
LEMMA ShapeKept ==
  ASSUME NEW g, NEW h, Heap(h), Shape(g, h)
  PROVE  /\ Inn(g) = Inn(h)
         /\ \A H, l : Lev(g, H, l) = Lev(h, H, l)
         /\ \A H, l : \A c \in Lev(h, H, l) : Key(g, l, c) = Key(h, l, c)
         /\ \A n \in Inn(h) : /\ Right1(g, n) = Right1(h, n)
                              /\ g[g[n].next].level = h[h[n].next].level
                              /\ g[g[n].next].next = h[h[n].next].next
         /\ OrderOK(h) => OrderOK(g)
         /\ \A T : FirstOK(h, T) => FirstOK(g, T)
<1>1. Inn(g) = Inn(h)
  BY DEF Inn, Shape
<1>2. \A n \in Inn(h) : n \in DOMAIN h /\ h[n].next \in DOMAIN h
  BY HeapFacts DEF Inn
<1>3. ASSUME NEW H, NEW l PROVE Lev(g, H, l) = Lev(h, H, l)
  BY <1>1, <1>2 DEF Lev, Shape
<1>4. ASSUME NEW H, NEW l, NEW c \in Lev(h, H, l) PROVE Key(g, l, c) = Key(h, l, c)
  <2>1. CASE l = 0
    BY <2>1 DEF Key
  <2>2. CASE l # 0
    <3>1. c \in DOMAIN h
      BY <1>2, <2>2 DEF Lev
    <3>2. QED
      BY <2>2, <3>1 DEF Key, Shape
  <2>3. QED
    BY <2>1, <2>2
<1>5. ASSUME NEW n \in Inn(h)
      PROVE  /\ Right1(g, n) = Right1(h, n)
             /\ g[g[n].next].level = h[h[n].next].level
             /\ g[g[n].next].next = h[h[n].next].next
  BY <1>2 DEF Right1, Shape
<1>6. ASSUME OrderOK(h) PROVE OrderOK(g)
  BY <1>1, <1>2, <1>5, <1>6 DEF OrderOK, Shape
<1>7. ASSUME NEW T, FirstOK(h, T) PROVE FirstOK(g, T)
  BY <1>1, <1>2, <1>7 DEF FirstOK, Shape
<1>8. QED
  BY <1>1, <1>3, <1>4, <1>5, <1>6, <1>7

\* A write to the states of nodes, or to other memory.
LEMMA SameTree ==
  ASSUME NEW g, NEW h, NEW r, NEW H, NEW U, Tree(h, r, H, U), Heap(g), Shape(g, h),
         \A n \in DOMAIN h : g[n].entries = h[n].entries
  PROVE  Tree(g, r, H, U)
<1> DEFINE T == h[r].level
<1>1. /\ Heap(h) /\ T \in Nat /\ NodesOK(h, T) /\ OrderOK(h) /\ FirstOK(h, T)
      /\ TopOK(h, r, U) /\ ChildOK(h, H, U) /\ ParentOK(h, T, H, U) /\ H \subseteq Keys
      /\ r \in Inn(h)
  BY TreeFacts DEF Tree
<1>2. /\ Inn(g) = Inn(h)
      /\ \A l : Lev(g, H, l) = Lev(h, H, l)
      /\ \A l : \A c \in Lev(h, H, l) : Key(g, l, c) = Key(h, l, c)
      /\ \A n \in Inn(h) : /\ Right1(g, n) = Right1(h, n)
                           /\ g[g[n].next].level = h[h[n].next].level
                           /\ g[g[n].next].next = h[h[n].next].next
      /\ OrderOK(g) /\ FirstOK(g, T)
  BY <1>1, ShapeKept
<1>3. \A n \in Inn(h) : /\ n \in DOMAIN h /\ g[n].level = h[n].level /\ g[n].min_key = h[n].min_key
                        /\ g[n].entries = h[n].entries
  BY DEF Inn, Shape
<1>4. g[r].level = T /\ g[r].min_key = h[r].min_key
  BY <1>1, <1>3
<1> HIDE DEF T
<1>5. NodesOK(g, T)
  BY <1>1, <1>2, <1>3 DEF NodesOK, Range1
<1>6. TopOK(g, r, U)
  BY <1>1, <1>2, <1>3, <1>4 DEF TopOK, T
<1>7. ChildOK(g, H, U)
  BY <1>1, <1>2, <1>3 DEF ChildOK
<1>8. ParentOK(g, T, H, U)
  BY <1>1, <1>2, <1>3 DEF ParentOK, Lists
<1>9. QED
  BY <1>1, <1>2, <1>4, <1>5, <1>6, <1>7, <1>8 DEF Tree

\* A write to the entries of one node.
LEMMA EntriesChanged ==
  ASSUME NEW g, NEW h, NEW r, NEW H, NEW U, NEW V, Tree(h, r, H, U), Heap(g), Shape(g, h),
         NEW p \in Inn(h), \A n \in DOMAIN h : n # p => g[n].entries = h[n].entries,
         Increasing(g[p].entries), 1 \in DOMAIN g[p].entries,
         g[p].entries[1] = h[p].entries[1],
         \A i \in DOMAIN g[p].entries : g[p].entries[i].key < Right1(h, p),
         \A l \in Nat : l # h[p].level - 1 => V[l] = U[l],
         ChildOK(g, H, V),
         \A c \in Lev(h, H, h[p].level - 1) :
           c \notin V[h[p].level - 1] => Lists(g, p, c)
             \/ \E n \in Inn(h) : n # p /\ h[n].level = h[p].level /\ Lists(h, n, c)
  PROVE  Tree(g, r, H, V)
<1> DEFINE T == h[r].level
           L == h[p].level
<1>1. /\ Heap(h) /\ T \in Nat /\ NodesOK(h, T) /\ OrderOK(h) /\ FirstOK(h, T)
      /\ TopOK(h, r, U) /\ ParentOK(h, T, H, U) /\ H \subseteq Keys /\ ChildOK(h, H, U)
      /\ r \in Inn(h) /\ r \notin U[T]
  BY TreeFacts DEF Tree
<1>2. /\ Inn(g) = Inn(h)
      /\ \A l : Lev(g, H, l) = Lev(h, H, l)
      /\ \A l : \A c \in Lev(h, H, l) : Key(g, l, c) = Key(h, l, c)
      /\ \A n \in Inn(h) : /\ Right1(g, n) = Right1(h, n)
                           /\ g[g[n].next].level = h[h[n].next].level
                           /\ g[g[n].next].next = h[h[n].next].next
      /\ OrderOK(g) /\ FirstOK(g, T)
  BY <1>1, ShapeKept
<1>3. \A n \in Inn(h) : /\ n \in DOMAIN h /\ g[n].level = h[n].level /\ g[n].min_key = h[n].min_key
                        /\ n # p => g[n].entries = h[n].entries
  BY DEF Inn, Shape
<1>4. g[r].level = T /\ g[r].min_key = h[r].min_key
  BY <1>1, <1>3
<1>5. L \in 1 .. T /\ L \in Nat
  BY <1>1, InnFacts
<1> HIDE DEF T, L
<1>6. NodesOK(g, T)
  <2>1. ASSUME NEW n \in Inn(h) PROVE g[n].level \in 1 .. T /\ Range1(g, n)
    <3>1. CASE n # p
      BY <1>1, <1>2, <1>3, <3>1 DEF NodesOK, Range1
    <3>2. CASE n = p
      <4>1. h[p].level \in 1 .. T /\ Range1(h, p)
        BY <1>1 DEF NodesOK
      <4>2. g[p].entries # <<>>
        OBVIOUS
      <4>3. QED
        BY <1>2, <1>3, <3>2, <4>1, <4>2 DEF Range1, Increasing
    <3>3. QED
      BY <3>1, <3>2
  <2>2. QED
    BY <1>2, <2>1 DEF NodesOK
<1>7. TopOK(g, r, V)
  <2>1. V[T] = U[T]
    BY <1>1, <1>5 DEF L
  <2>2. QED
    BY <1>1, <1>2, <1>3, <1>4, <2>1 DEF TopOK, T
<1>8. ParentOK(g, T, H, V)
  <2>1. ASSUME NEW l \in 0 .. T - 1, NEW c \in Lev(h, H, l), c \notin V[l]
        PROVE  \E n \in Inn(h) : g[n].level = l + 1 /\ Lists(g, n, c)
    <3>1. CASE l = L - 1
      <4>1. l + 1 = L
        BY <1>5, <3>1
      <4>2. Lists(g, p, c) \/ \E n \in Inn(h) : n # p /\ h[n].level = L /\ Lists(h, n, c)
        BY <2>1, <3>1 DEF L
      <4>3. QED
        BY <1>3, <4>1, <4>2 DEF Lists, L
    <3>2. CASE l # L - 1
      <4>1. l \in Nat /\ V[l] = U[l]
        BY <3>2 DEF L
      <4>2. PICK n \in Inn(h) : h[n].level = l + 1 /\ Lists(h, n, c)
        BY <1>1, <2>1, <4>1 DEF ParentOK
      <4>3. n # p
        BY <1>5, <3>2, <4>1, <4>2 DEF L
      <4>4. QED
        BY <1>3, <4>2, <4>3 DEF Lists
    <3>3. QED
      BY <3>1, <3>2
  <2>2. QED
    BY <1>2, <2>1 DEF ParentOK
<1>9. QED
  BY <1>1, <1>2, <1>4, <1>6, <1>7, <1>8 DEF Tree

\* The entry of a child goes: the child is not listed any more.
LEMMA EntryRemoved ==
  ASSUME NEW g, NEW h, NEW r, NEW H, NEW U, NEW V, Tree(h, r, H, U), Heap(g), Shape(g, h),
         NEW p \in Inn(h), NEW i \in DOMAIN h[p].entries, i # 1,
         \A n \in DOMAIN h : n # p => g[n].entries = h[n].entries,
         g[p].entries = RemoveEntry(h[p].entries, i),
         \A l \in Nat : V[l] = IF l = h[p].level - 1 THEN U[l] \union {h[p].entries[i].child} ELSE U[l]
  PROVE  Tree(g, r, H, V)
<1> DEFINE T == h[r].level
           es == h[p].entries
           fs == g[p].entries
           L == h[p].level - 1
           c == es[i].child
<1>1. /\ Heap(h) /\ T \in Nat /\ NodesOK(h, T) /\ ParentOK(h, T, H, U) /\ ChildOK(h, H, U)
  BY TreeFacts DEF Tree
<1>2. /\ es \in Seq(EntryRecord) /\ Increasing(es) /\ h[p].level \in 1 .. T
      /\ \A e \in DOMAIN es : es[e].key < Right1(h, p)
  BY <1>1, InnFacts DEF Increasing
<1>3. /\ Increasing(fs) /\ 1 \in DOMAIN fs /\ fs[1] = es[1]
      /\ \A j \in DOMAIN fs : \E x \in DOMAIN es : x # i /\ fs[j] = es[x]
      /\ \A x \in DOMAIN es : x # i => \E j \in DOMAIN fs : fs[j] = es[x]
  BY <1>2, RemovedIs, SMTT(30)
<1>4. \A j \in DOMAIN fs : fs[j].key < Right1(h, p)
  <2> HIDE DEF es, fs
  <2>1. QED
    BY ONLY <1>2, <1>3
<1>5. L \in Nat /\ L + 1 = h[p].level /\ L \in 0 .. T - 1
  BY <1>1, <1>2
<1>6. /\ Inn(g) = Inn(h)
      /\ \A l : Lev(g, H, l) = Lev(h, H, l)
      /\ \A l : \A d \in Lev(h, H, l) : Key(g, l, d) = Key(h, l, d)
  BY <1>1, ShapeKept
<1>7. ASSUME NEW n \in Inn(h)
      PROVE  /\ n \in DOMAIN h /\ g[n].level = h[n].level /\ h[n].level - 1 \in Nat
             /\ n # p => g[n].entries = h[n].entries
  <2>1. n \in DOMAIN h /\ g[n].level = h[n].level
    BY DEF Inn, Shape
  <2>2. h[n].level \in 1 .. T
    BY <1>1, InnFacts
  <2>3. QED
    BY <1>1, <2>1, <2>2
<1>8. ASSUME NEW n \in Inn(h), NEW x \in DOMAIN h[n].entries, n # p \/ x # i
      PROVE  LET d == h[n].entries[x].child
                 l == h[n].level - 1
             IN  d \in Lev(h, H, l) /\ d \notin V[l] /\ h[n].entries[x].key = Key(h, l, d)
  <2> DEFINE d == h[n].entries[x].child
             l == h[n].level - 1
  <2>1. d \in Lev(h, H, l) /\ d \notin U[l] /\ h[n].entries[x].key = Key(h, l, d)
    BY <1>1 DEF ChildOK
  <2>2. CASE l = L
    <3>1. h[n].level = h[p].level
      <4>1. h[n].level \in Nat /\ h[p].level \in Nat
        BY <1>1, InnFacts
      <4>2. QED
        BY <2>2, <4>1
    <3>2. d # c
      BY <1>8, <3>1, ListedOnce
    <3>3. V[l] = U[l] \union {c} /\ l \in Nat
      BY <1>7, <2>2
    <3>4. QED
      BY <2>1, <3>2, <3>3
  <2>3. CASE l # L
    <3>1. V[l] = U[l]
      BY <1>7, <2>3
    <3>2. QED
      BY <2>1, <3>1
  <2>4. QED
    BY <2>2, <2>3
<1>9. ChildOK(g, H, V)
  <2>1. ASSUME NEW n \in Inn(h), NEW j \in DOMAIN g[n].entries
        PROVE  LET d == g[n].entries[j].child
                   l == g[n].level - 1
               IN  d \in Lev(g, H, l) /\ d \notin V[l] /\ g[n].entries[j].key = Key(g, l, d)
    <3>1. PICK x \in DOMAIN h[n].entries : (n # p \/ x # i) /\ g[n].entries[j] = h[n].entries[x]
      <4>1. CASE n = p
        BY <1>3, <4>1
      <4>2. CASE n # p
        BY <1>7, <4>2
      <4>3. QED
        BY <4>1, <4>2
    <3>2. LET d == h[n].entries[x].child
              l == h[n].level - 1
          IN  d \in Lev(h, H, l) /\ d \notin V[l] /\ h[n].entries[x].key = Key(h, l, d)
      BY <1>8, <3>1
    <3>3. g[n].level = h[n].level
      BY <1>7
    <3>4. QED
      BY <1>6, <3>1, <3>2, <3>3
  <2>2. QED
    BY <1>6, <2>1 DEF ChildOK
<1>10. ASSUME NEW d \in Lev(h, H, L), d \notin V[L]
       PROVE  Lists(g, p, d) \/ \E n \in Inn(h) : n # p /\ h[n].level = h[p].level /\ Lists(h, n, d)
  <2>1. d \notin U[L] /\ d # c
    BY <1>5, <1>10
  <2>2. PICK n \in Inn(h) : h[n].level = L + 1 /\ Lists(h, n, d)
    BY <1>1, <1>5, <2>1 DEF ParentOK
  <2>3. CASE n # p
    BY <1>5, <2>2, <2>3
  <2>4. CASE n = p
    <3>1. PICK x \in DOMAIN es : es[x].child = d
      BY <2>2, <2>4 DEF Lists
    <3>2. PICK j \in DOMAIN fs : fs[j] = es[x]
      BY <1>3, <2>1, <3>1
    <3>3. QED
      BY <3>1, <3>2 DEF Lists
  <2>5. QED
    BY <2>3, <2>4
<1>11. \A l \in Nat : l # L => V[l] = U[l]
  OBVIOUS
<1>12. QED
  BY <1>3, <1>4, <1>9, <1>10, <1>11, EntriesChanged

\* Child c of key k has its place behind entry i of p.
PlaceIs(h, H, p, i, k, c) ==
  /\ i \in DOMAIN h[p].entries /\ Entry(k, c) \in EntryRecord
  /\ h[p].entries[i].key < k /\ k < Right1(h, p)
  /\ i < Len(h[p].entries) => k < h[p].entries[i + 1].key
  /\ c \in Lev(h, H, h[p].level - 1) /\ k = Key(h, h[p].level - 1, c)

\* A child that was not listed gets an entry behind its left neighbour's.
LEMMA EntryInserted ==
  ASSUME NEW g, NEW h, NEW r, NEW H, NEW U, NEW V, Tree(h, r, H, U), Heap(g), Shape(g, h),
         NEW p \in Inn(h), NEW i, NEW k, NEW c, PlaceIs(h, H, p, i, k, c),
         \A n \in DOMAIN h : n # p => g[n].entries = h[n].entries,
         g[p].entries = InsertAt(h[p].entries, i + 1, Entry(k, c)),
         \A l \in Nat : V[l] = IF l = h[p].level - 1 THEN U[l] \ {c} ELSE U[l]
  PROVE  Tree(g, r, H, V)
<1>a. /\ i \in DOMAIN h[p].entries /\ Entry(k, c) \in EntryRecord
      /\ h[p].entries[i].key < k /\ k < Right1(h, p)
      /\ i < Len(h[p].entries) => k < h[p].entries[i + 1].key
      /\ c \in Lev(h, H, h[p].level - 1) /\ k = Key(h, h[p].level - 1, c)
  BY DEF PlaceIs
<1> DEFINE T == h[r].level
           es == h[p].entries
           fs == g[p].entries
           L == h[p].level - 1
           new == Entry(k, c)
<1>0. new.key = k /\ new.child = c
  BY DEF Entry
<1>1. /\ Heap(h) /\ T \in Nat /\ NodesOK(h, T) /\ ParentOK(h, T, H, U) /\ ChildOK(h, H, U)
  BY TreeFacts DEF Tree
<1>2. /\ es \in Seq(EntryRecord) /\ Increasing(es) /\ h[p].level \in 1 .. T
      /\ \A e \in DOMAIN es : es[e].key < Right1(h, p)
  BY <1>1, InnFacts DEF Increasing
<1>3. /\ Increasing(fs) /\ 1 \in DOMAIN fs /\ fs[1] = es[1]
      /\ \A j \in DOMAIN fs : fs[j] = new \/ \E x \in DOMAIN es : fs[j] = es[x]
      /\ \A x \in DOMAIN es : \E j \in DOMAIN fs : fs[j] = es[x]
      /\ \E j \in DOMAIN fs : fs[j] = new
  BY <1>a, <1>0, <1>2, InsertedIs, SMTT(30)
<1> HIDE DEF new
<1>4. \A j \in DOMAIN fs : fs[j].key < Right1(h, p)
  BY <1>a, <1>0, <1>2, <1>3
<1>5. L \in Nat /\ L + 1 = h[p].level /\ L \in 0 .. T - 1
  BY <1>1, <1>2
<1>6. /\ Inn(g) = Inn(h)
      /\ \A l : Lev(g, H, l) = Lev(h, H, l)
      /\ \A l : \A d \in Lev(h, H, l) : Key(g, l, d) = Key(h, l, d)
  BY <1>1, ShapeKept
<1>7. ASSUME NEW n \in Inn(h)
      PROVE  /\ n \in DOMAIN h /\ g[n].level = h[n].level /\ h[n].level - 1 \in Nat
             /\ n # p => g[n].entries = h[n].entries
  <2>1. n \in DOMAIN h /\ g[n].level = h[n].level
    BY DEF Inn, Shape
  <2>2. h[n].level \in 1 .. T
    BY <1>1, InnFacts
  <2>3. QED
    BY <1>1, <2>1, <2>2
<1>8. ASSUME NEW n \in Inn(h), NEW x \in DOMAIN h[n].entries
      PROVE  LET d == h[n].entries[x].child
                 l == h[n].level - 1
             IN  d \in Lev(h, H, l) /\ d \notin V[l] /\ h[n].entries[x].key = Key(h, l, d)
  <2> DEFINE d == h[n].entries[x].child
             l == h[n].level - 1
  <2>1. d \in Lev(h, H, l) /\ d \notin U[l] /\ h[n].entries[x].key = Key(h, l, d)
    BY <1>1 DEF ChildOK
  <2>2. V[l] \subseteq U[l]
    BY <1>7
  <2>3. QED
    BY <2>1, <2>2
<1>9. ChildOK(g, H, V)
  <2>1. ASSUME NEW n \in Inn(h), NEW j \in DOMAIN g[n].entries
        PROVE  LET d == g[n].entries[j].child
                   l == g[n].level - 1
               IN  d \in Lev(g, H, l) /\ d \notin V[l] /\ g[n].entries[j].key = Key(g, l, d)
    <3>0. g[n].level = h[n].level
      BY <1>7
    <3>1. CASE \E x \in DOMAIN h[n].entries : g[n].entries[j] = h[n].entries[x]
      <4>1. PICK x \in DOMAIN h[n].entries : g[n].entries[j] = h[n].entries[x]
        BY <3>1
      <4>2. LET d == h[n].entries[x].child
                l == h[n].level - 1
            IN  d \in Lev(h, H, l) /\ d \notin V[l] /\ h[n].entries[x].key = Key(h, l, d)
        BY <1>8
      <4>3. QED
        BY <1>6, <3>0, <4>1, <4>2
    <3>2. CASE n = p /\ g[n].entries[j] = new
      <4>1. V[L] = U[L] \ {c}
        BY <1>5
      <4>2. c \in Lev(h, H, L) /\ c \notin V[L] /\ new.key = Key(h, L, c) /\ new.child = c
        BY <1>a, <1>0, <4>1
      <4>3. QED
        BY <1>6, <3>0, <3>2, <4>2
    <3>3. QED
      BY <1>3, <1>7, <3>1, <3>2
  <2>2. QED
    BY <1>6, <2>1 DEF ChildOK
<1>10. ASSUME NEW d \in Lev(h, H, L), d \notin V[L]
       PROVE  Lists(g, p, d) \/ \E n \in Inn(h) : n # p /\ h[n].level = h[p].level /\ Lists(h, n, d)
  <2>0. V[L] = U[L] \ {c}
    BY <1>5
  <2>1. CASE d = c
    BY <1>0, <1>3, <2>1 DEF Lists
  <2>2. CASE d # c
    <3>1. d \notin U[L]
      BY <1>10, <2>0, <2>2
    <3>2. PICK n \in Inn(h) : h[n].level = L + 1 /\ Lists(h, n, d)
      BY <1>1, <1>5, <3>1 DEF ParentOK
    <3>3. CASE n # p
      BY <1>5, <3>2, <3>3
    <3>4. CASE n = p
      <4>1. PICK x \in DOMAIN es : es[x].child = d
        BY <3>2, <3>4 DEF Lists
      <4>2. PICK j \in DOMAIN fs : fs[j] = es[x]
        BY <1>3, <4>1
      <4>3. QED
        BY <4>1, <4>2 DEF Lists
    <3>5. QED
      BY <3>3, <3>4
  <2>3. QED
    BY <2>1, <2>2
<1>11. \A l \in Nat : l # L => V[l] = U[l]
  OBVIOUS
<1>12. QED
  BY <1>3, <1>4, <1>9, <1>10, <1>11, EntriesChanged

\* A new header that no parent lists yet.
LEMMA HeaderAdded ==
  ASSUME NEW h, NEW r, NEW H, NEW U, NEW V, Tree(h, r, H, U), NEW s \in Keys, s \notin H,
         \A l \in Nat : V[l] = IF l = 0 THEN U[l] \union {s} ELSE U[l]
  PROVE  Tree(h, r, H \union {s}, V)
<1> DEFINE T == h[r].level
           G == H \union {s}
<1>1. /\ Heap(h) /\ T \in Nat /\ T >= 1 /\ NodesOK(h, T) /\ OrderOK(h) /\ FirstOK(h, T)
      /\ TopOK(h, r, U) /\ ChildOK(h, H, U) /\ ParentOK(h, T, H, U) /\ H \subseteq Keys
  BY TreeFacts DEF Tree
<1>2. \A l : l # 0 => Lev(h, G, l) = Lev(h, H, l)
  BY DEF Lev
<1>3. Lev(h, G, 0) = H \union {s} /\ Lev(h, H, 0) = H
  BY DEF Lev
<1>4. \A n \in Inn(h) : h[n].level - 1 \in Nat
  <2>1. \A n \in Inn(h) : h[n].level \in 1 .. T
    BY <1>1, InnFacts
  <2>2. QED
    BY <1>1, <2>1
<1>5. V[0] = U[0] \union {s} /\ \A l \in Nat : l # 0 => V[l] = U[l]
  OBVIOUS
<1>6. TopOK(h, r, V)
  <2>1. V[T] = U[T]
    BY <1>1, <1>5
  <2>2. QED
    BY <1>1, <2>1 DEF TopOK
<1>7. ChildOK(h, G, V)
  <2>1. ASSUME NEW n \in Inn(h), NEW i \in DOMAIN h[n].entries
        PROVE  LET c == h[n].entries[i].child
                   l == h[n].level - 1
               IN  c \in Lev(h, G, l) /\ c \notin V[l] /\ h[n].entries[i].key = Key(h, l, c)
    <3> DEFINE c == h[n].entries[i].child
               l == h[n].level - 1
    <3>1. c \in Lev(h, H, l) /\ c \notin U[l] /\ h[n].entries[i].key = Key(h, l, c) /\ l \in Nat
      BY <1>1, <1>4 DEF ChildOK
    <3> HIDE DEF c, l
    <3>2. l = 0 => c \in G /\ c # s
      BY <1>3, <3>1
    <3>3. QED
      BY <1>2, <1>3, <1>5, <3>1, <3>2 DEF c, l
  <2>2. QED
    BY <2>1 DEF ChildOK
<1>8. ParentOK(h, T, G, V)
  <2>1. ASSUME NEW l \in 0 .. T - 1, NEW c \in Lev(h, G, l), c \notin V[l]
        PROVE  c \in Lev(h, H, l) /\ c \notin U[l]
    BY <1>2, <1>3, <1>5, <2>1
  <2>2. QED
    BY <1>1, <2>1 DEF ParentOK
<1>9. QED
  BY <1>1, <1>6, <1>7, <1>8 DEF Tree

\* A header that no parent lists goes.
LEMMA HeaderRemoved ==
  ASSUME NEW h, NEW r, NEW H, NEW U, NEW V, Tree(h, r, H, U), NEW s, s \in U[0],
         \A l \in Nat : V[l] = IF l = 0 THEN U[l] \ {s} ELSE U[l]
  PROVE  Tree(h, r, H \ {s}, V)
<1> DEFINE T == h[r].level
           G == H \ {s}
<1>1. /\ Heap(h) /\ T \in Nat /\ T >= 1 /\ NodesOK(h, T) /\ OrderOK(h) /\ FirstOK(h, T)
      /\ TopOK(h, r, U) /\ ChildOK(h, H, U) /\ ParentOK(h, T, H, U) /\ H \subseteq Keys
  BY TreeFacts DEF Tree
<1>2. \A l : l # 0 => Lev(h, G, l) = Lev(h, H, l)
  BY DEF Lev
<1>3. Lev(h, G, 0) = H \ {s} /\ Lev(h, H, 0) = H
  BY DEF Lev
<1>4. \A n \in Inn(h) : h[n].level - 1 \in Nat
  <2>1. \A n \in Inn(h) : h[n].level \in 1 .. T
    BY <1>1, InnFacts
  <2>2. QED
    BY <1>1, <2>1
<1>5. V[0] = U[0] \ {s} /\ \A l \in Nat : l # 0 => V[l] = U[l]
  OBVIOUS
<1>6. TopOK(h, r, V)
  <2>1. V[T] = U[T]
    BY <1>1, <1>5
  <2>2. QED
    BY <1>1, <2>1 DEF TopOK
<1>7. ChildOK(h, G, V)
  <2>1. ASSUME NEW n \in Inn(h), NEW i \in DOMAIN h[n].entries
        PROVE  LET c == h[n].entries[i].child
                   l == h[n].level - 1
               IN  c \in Lev(h, G, l) /\ c \notin V[l] /\ h[n].entries[i].key = Key(h, l, c)
    <3> DEFINE c == h[n].entries[i].child
               l == h[n].level - 1
    <3>1. c \in Lev(h, H, l) /\ c \notin U[l] /\ h[n].entries[i].key = Key(h, l, c) /\ l \in Nat
      BY <1>1, <1>4 DEF ChildOK
    <3> HIDE DEF c, l
    <3>2. l = 0 => c \in G /\ c # s
      BY <1>3, <3>1
    <3>3. QED
      BY <1>2, <1>3, <1>5, <3>1, <3>2 DEF c, l
  <2>2. QED
    BY <2>1 DEF ChildOK
<1>8. ParentOK(h, T, G, V)
  <2>1. ASSUME NEW l \in 0 .. T - 1, NEW c \in Lev(h, G, l), c \notin V[l]
        PROVE  c \in Lev(h, H, l) /\ c \notin U[l]
    BY <1>2, <1>3, <1>5, <2>1
  <2>2. QED
    BY <1>1, <2>1 DEF ParentOK
<1>9. QED
  BY <1>1, <1>6, <1>7, <1>8 DEF Tree

\* Hid of one more child.
HidPlus(V, U, l, c) == \A j \in Nat : V[j] = IF j = l THEN U[j] \union {c} ELSE U[j]

\* CutAt(h, m, k, l): node m of level l can be cut behind its k-th entry.
CutAt(h, m, k, l) ==
  m \in Inn(h) /\ k \in Nat /\ 1 <= k /\ k < Len(h[m].entries) /\ l = h[m].level

\* CutDone(g, h, m, k, N): the entries of m behind the k-th are in N, a new node behind it.
CutDone(g, h, m, k, N) ==
  /\ Heap(g) /\ N = Len(h) + 1 /\ DOMAIN g = DOMAIN h \union {N}
  /\ \A n \in DOMAIN h : /\ g[n].level = h[n].level /\ g[n].min_key = h[n].min_key
                         /\ g[n].state = h[n].state
                         /\ n # m => g[n].next = h[n].next /\ g[n].entries = h[n].entries
  /\ g[m].next = N /\ g[m].entries = SubSeq(h[m].entries, 1, k)
  /\ g[N].level = h[m].level /\ g[N].next = h[m].next /\ g[N].state = SPLIT_REGIST
  /\ g[N].entries = SubSeq(h[m].entries, k + 1, Len(h[m].entries))
  /\ g[N].min_key = g[N].entries[1].key

\* A node is cut: its last entries go to a new node, which no parent lists yet.
LEMMA NodeSplit ==
  ASSUME NEW g, NEW h, NEW r, NEW H, NEW U, NEW V, Tree(h, r, H, U),
         NEW m, NEW k, NEW d, CutAt(h, m, k, d),
         NEW N, CutDone(g, h, m, k, N), HidPlus(V, U, d, N)
  PROVE  /\ Tree(g, r, H, V) /\ N \in Inn(g) /\ N \notin DOMAIN h
         /\ Inn(g) = Inn(h) \union {N}
         /\ h[m].min_key < g[N].min_key /\ g[N].min_key < Right1(h, m)
<1> m \in Inn(h) /\ k \in Nat /\ 1 <= k /\ k < Len(h[m].entries) /\ d = h[m].level
  BY DEF CutAt
<1> /\ Heap(g) /\ N = Len(h) + 1 /\ DOMAIN g = DOMAIN h \union {N}
    /\ \A n \in DOMAIN h : /\ g[n].level = h[n].level /\ g[n].min_key = h[n].min_key
                           /\ n # m => g[n].next = h[n].next /\ g[n].entries = h[n].entries
    /\ g[m].next = N /\ g[m].entries = SubSeq(h[m].entries, 1, k)
    /\ g[N].level = h[m].level /\ g[N].next = h[m].next
    /\ g[N].entries = SubSeq(h[m].entries, k + 1, Len(h[m].entries))
    /\ g[N].min_key = g[N].entries[1].key
  BY DEF CutDone
<1> \A l \in Nat : V[l] = IF l = h[m].level THEN U[l] \union {N} ELSE U[l]
  BY DEF HidPlus
<1> DEFINE T == h[r].level
           L == h[m].level
           es == h[m].entries
           a == g[m].entries
           b == g[N].entries
<1>1. /\ Heap(h) /\ T \in Nat /\ NodesOK(h, T) /\ OrderOK(h) /\ FirstOK(h, T)
      /\ TopOK(h, r, U) /\ ChildOK(h, H, U) /\ ParentOK(h, T, H, U) /\ H \subseteq Keys
      /\ r \in Inn(h)
  BY TreeFacts DEF Tree
<1>2. Len(h) \in Nat /\ DOMAIN h = 1 .. Len(h)
  BY <1>1, HeapFacts
<1>3. N \notin DOMAIN h /\ N # NoNode
  BY <1>2 DEF NoNode
<1>4. ASSUME NEW n \in Inn(h)
      PROVE  /\ n \in DOMAIN h /\ n # N /\ h[n].next \in DOMAIN h /\ h[n].next # N
             /\ h[n].next # NoNode
             /\ g[n].level = h[n].level /\ g[n].min_key = h[n].min_key
             /\ n # m => g[n].next = h[n].next /\ g[n].entries = h[n].entries
             /\ h[n].level \in 1 .. T /\ h[n].level \in Nat /\ Range1(h, n)
             /\ h[n].min_key \in Nat /\ Right1(h, n) \in Nat /\ h[n].min_key < Right1(h, n)
  <2>1. n \in DOMAIN h /\ h[n].next \in DOMAIN h /\ h[n].next # NoNode
    BY <1>1, HeapFacts DEF Inn
  <2>2. /\ h[n].level \in 1 .. T /\ h[n].level \in Nat
        /\ h[n].min_key \in Nat /\ Right1(h, n) \in Nat /\ h[n].min_key < Right1(h, n)
    BY <1>1, InnFacts
  <2>3. Range1(h, n)
    BY <1>1 DEF NodesOK
  <2>4. QED
    BY <1>3, <2>1, <2>2, <2>3
<1>5. Inn(g) = Inn(h) \union {N}
  <2>1. \A n \in DOMAIN h : g[n].next # NoNode <=> h[n].next # NoNode
    BY <1>3, <1>4
  <2>2. g[N].next # NoNode
    BY <1>4
  <2>3. QED
    BY <2>1, <2>2 DEF Inn
<1>6. es \in Seq(EntryRecord) /\ Increasing(es) /\ es[1].key = h[m].min_key
  BY <1>1, InnFacts DEF Increasing
<1>7. /\ a \in Seq(EntryRecord) /\ Increasing(a) /\ 1 \in DOMAIN a /\ a[1] = es[1]
      /\ b \in Seq(EntryRecord) /\ Increasing(b) /\ 1 \in DOMAIN b /\ b[1] = es[k + 1]
      /\ k + 1 \in DOMAIN es /\ es[1].key < es[k + 1].key
      /\ \A j \in DOMAIN a : a[j].key < b[1].key
      /\ Within(a, es) /\ Within(b, es)
      /\ \A x \in DOMAIN es : \/ \E j \in DOMAIN a : a[j] = es[x]
                              \/ \E j \in DOMAIN b : b[j] = es[x]
  <2>1. a = SubSeq(es, 1, k) /\ b = SubSeq(es, k + 1, Len(es)) /\ k < Len(es)
    OBVIOUS
  <2> HIDE DEF a, b, es
  <2>2. QED
    <3>1. CutFacts(es, k, a, b)
      BY ONLY <1>6, <2>1, k \in Nat, 1 <= k, CutIs
    <3>2. QED
      BY ONLY <3>1, Zenon DEF CutFacts
<1>8. \A x \in DOMAIN es : es[x].key < Right1(h, m)
  BY <1>4 DEF Range1
<1>9. /\ h[m].min_key < g[N].min_key /\ g[N].min_key < Right1(h, m) /\ g[N].min_key \in Nat
      /\ a # <<>> /\ b # <<>>
  <2>1. h[m].min_key < g[N].min_key /\ g[N].min_key < Right1(h, m)
    BY <1>6, <1>7, <1>8
  <2>2. g[N].min_key \in Nat
    BY <1>7, EntryFacts
  <2> HIDE DEF a, b
  <2>3. a # <<>> /\ b # <<>>
    <3>1. a \in Seq(EntryRecord) /\ 1 \in DOMAIN a /\ b \in Seq(EntryRecord) /\ 1 \in DOMAIN b
      BY ONLY <1>7, Zenon
    <3>2. QED
      BY ONLY <3>1
  <2>4. QED
    BY <2>1, <2>2, <2>3
<1> HIDE DEF a, b, es
<1>10. /\ Right1(g, m) = g[N].min_key /\ Right1(g, N) = Right1(h, m)
       /\ \A n \in Inn(h) : n # m => Right1(g, n) = Right1(h, n)
  BY <1>4 DEF Right1
<1>11. \A n \in DOMAIN h : g[n].next = NoNode <=> h[n].next = NoNode
  BY <1>3, <1>4
<1>12. NodesOK(g, T)
  <2>1. ASSUME NEW n \in Inn(h), n # m PROVE g[n].level \in 1 .. T /\ Range1(g, n)
    <3>1. h[n].next \in DOMAIN h /\ Range1(h, n) /\ g[n].next = h[n].next /\ g[n].entries = h[n].entries
      BY <1>4, <2>1
    <3>2. /\ g[h[n].next].level = h[h[n].next].level
          /\ g[h[n].next].next = NoNode <=> h[h[n].next].next = NoNode
      BY <1>11, <3>1
    <3>3. Right1(g, n) = Right1(h, n) /\ g[n].level = h[n].level /\ g[n].min_key = h[n].min_key
          /\ h[n].level \in 1 .. T
      BY <1>4, <1>10, <2>1
    <3>4. QED
      BY <3>1, <3>2, <3>3 DEF Range1
  <2>2. g[m].level \in 1 .. T /\ Range1(g, m)
    <3>1. g[m].level \in 1 .. T /\ g[N].level = g[m].level /\ g[N].next # NoNode
      BY <1>4
    <3>2. a[1].key = g[m].min_key
      BY <1>4, <1>6, <1>7
    <3>3. \A j \in DOMAIN a : a[j].key < Right1(g, m)
      BY <1>7, <1>10, SMTT(30) DEF b
    <3>4. QED
      BY <1>7, <1>9, <3>1, <3>2, <3>3 DEF Range1, Increasing, a
  <2>3. g[N].level \in 1 .. T /\ Range1(g, N)
    <3>1. g[N].level \in 1 .. T /\ Range1(h, m) /\ h[m].next \in DOMAIN h
      BY <1>4
    <3>2. /\ g[h[m].next].level = h[h[m].next].level
          /\ g[h[m].next].next = NoNode <=> h[h[m].next].next = NoNode
      BY <1>11, <3>1
    <3>3. \A j \in DOMAIN b : b[j].key < Right1(g, N)
      BY <1>7, <1>8, <1>10 DEF Within
    <3>4. QED
      BY <1>7, <1>9, <1>10, <3>1, <3>2, <3>3 DEF Range1, Increasing, b
  <2>4. QED
    BY <1>5, <2>1, <2>2, <2>3 DEF NodesOK
<1>13. OrderOK(g)
  <2>1. ASSUME NEW x \in Inn(h), NEW y \in Inn(h), x # y, h[x].level = h[y].level
        PROVE  g[x].min_key < g[y].min_key \/ Right1(g, y) <= g[x].min_key
    <3>1. h[x].min_key < h[y].min_key \/ Right1(h, y) <= h[x].min_key
      BY <1>1, <2>1 DEF OrderOK
    <3>2. CASE y # m
      BY ONLY <1>4, <1>10, <3>1, <3>2, x \in Inn(h), y \in Inn(h)
    <3>3. CASE y = m
      BY ONLY <1>4, <1>9, <1>10, <3>1, <3>3, x \in Inn(h), y \in Inn(h)
    <3>4. QED
      BY <3>2, <3>3
  <2>2. ASSUME NEW y \in Inn(h), h[y].level = L
        PROVE  g[N].min_key < g[y].min_key \/ Right1(g, y) <= g[N].min_key
    <3>1. CASE y = m
      BY <1>9, <1>10, <3>1
    <3>2. CASE y # m
      <4>1. h[m].min_key < h[y].min_key \/ Right1(h, y) <= h[m].min_key
        BY <1>1, <2>2, <3>2 DEF OrderOK
      <4>2. h[y].min_key < h[m].min_key \/ Right1(h, m) <= h[y].min_key
        BY <1>1, <2>2, <3>2 DEF OrderOK
      <4>3. /\ h[m].min_key \in Nat /\ h[y].min_key \in Nat /\ Right1(h, y) \in Nat
            /\ Right1(h, m) \in Nat /\ g[y].min_key = h[y].min_key /\ Right1(g, y) = Right1(h, y)
        BY <1>4, <1>10, <3>2
      <4>4. QED
        BY ONLY <1>9, <4>1, <4>2, <4>3
    <3>3. QED
      BY <3>1, <3>2
  <2>3. ASSUME NEW x \in Inn(h), h[x].level = L
        PROVE  g[x].min_key < g[N].min_key \/ Right1(g, N) <= g[x].min_key
    <3>1. h[x].min_key \in Nat /\ h[m].min_key \in Nat /\ g[x].min_key = h[x].min_key
          /\ Right1(g, N) = Right1(h, m)
      BY <1>4, <1>10
    <3>2. x # m => h[x].min_key < h[m].min_key \/ Right1(h, m) <= h[x].min_key
      BY <1>1, <2>3 DEF OrderOK
    <3>3. QED
      BY ONLY <1>9, <3>1, <3>2
  <2>4. \A n \in Inn(h) : g[n].level = h[n].level
    BY <1>4
  <2>5. ASSUME NEW x \in Inn(g), NEW y \in Inn(g), x # y, g[x].level = g[y].level
        PROVE  g[x].min_key < g[y].min_key \/ Right1(g, y) <= g[x].min_key
    <3>1. CASE x = N
      BY <1>5, <2>2, <2>4, <2>5, <3>1
    <3>2. CASE y = N
      BY <1>5, <2>3, <2>4, <2>5, <3>2
    <3>3. CASE x # N /\ y # N
      BY <1>5, <2>1, <2>4, <2>5, <3>3
    <3>4. QED
      BY <3>1, <3>2, <3>3
  <2>6. QED
    BY ONLY <2>5, Zenon DEF OrderOK
<1>14. FirstOK(g, T)
  <2>1. ASSUME NEW l \in 1 .. T PROVE \E n \in Inn(g) : g[n].level = l /\ g[n].min_key = 0
    <3>1. PICK n \in Inn(h) : h[n].level = l /\ h[n].min_key = 0
      BY <1>1 DEF FirstOK
    <3>2. n \in Inn(g) /\ g[n].level = l /\ g[n].min_key = 0
      BY <1>4, <1>5, <3>1
    <3>3. QED
      BY <3>2
  <2>2. QED
    BY ONLY <2>1 DEF FirstOK
<1>15. g[r].level = T /\ g[r].min_key = h[r].min_key /\ r # N
  BY <1>1, <1>4
<1>16. TopOK(g, r, V)
  <2>1. V[T] = IF T = L THEN U[T] \union {N} ELSE U[T]
    BY <1>1
  <2>2. \A n \in Inn(g) : g[n].level = T => n = r \/ n \in V[T]
    BY <1>1, <1>4, <1>5, <2>1 DEF TopOK
  <2>3. QED
    BY <1>1, <1>5, <1>15, <2>1, <2>2 DEF TopOK
<1>17. L \in Nat /\ L # 0 /\ L \in 1 .. T
  BY <1>1, <1>4
<1>18. ASSUME NEW l \in Nat, NEW c \in Lev(h, H, l)
       PROVE  /\ c \in Lev(g, H, l) /\ Key(g, l, c) = Key(h, l, c)
              /\ c \notin U[l] => c \notin V[l]
  <2>1. CASE l = 0
    BY <1>17, <1>18, <2>1 DEF Lev, Key
  <2>2. CASE l # 0
    <3>1. c \in Inn(h) /\ h[c].level = l
      BY <1>18, <2>2 DEF Lev
    <3>2. c # N /\ g[c].level = l /\ g[c].min_key = h[c].min_key /\ c \in Inn(g)
      BY <1>4, <1>5, <3>1
    <3>3. c \notin U[l] => c \notin V[l]
      <4>1. V[l] \subseteq U[l] \union {N}
        OBVIOUS
      <4>2. QED
        BY ONLY <3>2, <4>1
    <3>4. c \in Lev(g, H, l) /\ Key(g, l, c) = Key(h, l, c)
      BY ONLY <2>2, <3>2 DEF Lev, Key
    <3>5. QED
      BY <3>3, <3>4
  <2>3. QED
    BY <2>1, <2>2
<1>19. ASSUME NEW l \in Nat, NEW c \in Lev(g, H, l), c \notin V[l]
       PROVE  c \in Lev(h, H, l) /\ c \notin U[l]
  <2>1. CASE l = 0
    BY <1>17, <1>19, <2>1 DEF Lev
  <2>2. CASE l # 0
    <3>1. c \in Inn(g) /\ g[c].level = l
      BY <1>19, <2>2 DEF Lev
    <3>2. c # N
      BY <1>19, <3>1 
    <3>3. c \in Inn(h) /\ h[c].level = l
      BY <1>4, <1>5, <3>1, <3>2
    <3>4. QED
      BY <1>19, <2>2, <3>3 DEF Lev
  <2>3. QED
    BY <2>1, <2>2
<1>20. ChildOK(g, H, V)
  <2>1. ASSUME NEW n \in Inn(h), NEW e, \E i \in DOMAIN h[n].entries : e = h[n].entries[i]
        PROVE  /\ e.child \in Lev(g, H, h[n].level - 1) /\ e.child \notin V[h[n].level - 1]
               /\ e.key = Key(g, h[n].level - 1, e.child)
    <3>1. PICK i \in DOMAIN h[n].entries : e = h[n].entries[i]
      BY <2>1
    <3>2. /\ e.child \in Lev(h, H, h[n].level - 1) /\ e.child \notin U[h[n].level - 1]
          /\ e.key = Key(h, h[n].level - 1, e.child)
      BY <1>1, <3>1 DEF ChildOK
    <3>3. h[n].level - 1 \in Nat
      BY <1>1, <1>4
    <3>4. QED
      BY <1>18, <3>2, <3>3
  <2>2. ASSUME NEW n \in Inn(h), NEW i \in DOMAIN g[n].entries
        PROVE  /\ \E j \in DOMAIN h[n].entries : g[n].entries[i] = h[n].entries[j]
               /\ g[n].level = h[n].level
    <3>1. CASE n = m
      BY <1>4, <1>7, <3>1 DEF Within, a, es
    <3>2. CASE n # m
      BY <1>4, <3>2
    <3>3. QED
      BY <3>1, <3>2
  <2>3. ASSUME NEW i \in DOMAIN g[N].entries
        PROVE  \E j \in DOMAIN h[m].entries : g[N].entries[i] = h[m].entries[j]
    BY <1>7 DEF Within, b, es
  <2>4. ASSUME NEW n \in Inn(g), NEW i \in DOMAIN g[n].entries
        PROVE  \E x \in Inn(h) : /\ g[n].level = h[x].level
                                  /\ \E j \in DOMAIN h[x].entries : g[n].entries[i] = h[x].entries[j]
    <3>1. CASE n = N
      BY <2>3, <2>4, <3>1
    <3>2. CASE n # N
      <4>1. n \in Inn(h)
        BY <1>5, <3>2
      <4>2. QED
        BY <2>2, <2>4, <4>1
    <3>3. QED
      BY <3>1, <3>2
  <2>5. ASSUME NEW n \in Inn(g), NEW i \in DOMAIN g[n].entries
        PROVE  LET c == g[n].entries[i].child
                   l == g[n].level - 1
               IN  c \in Lev(g, H, l) /\ c \notin V[l] /\ g[n].entries[i].key = Key(g, l, c)
    <3>1. PICK x \in Inn(h) : /\ g[n].level = h[x].level
                              /\ \E j \in DOMAIN h[x].entries : g[n].entries[i] = h[x].entries[j]
      BY <2>4
    <3> DEFINE e == g[n].entries[i]
    <3>2. \E j \in DOMAIN h[x].entries : e = h[x].entries[j]
      BY <3>1
    <3> HIDE DEF e
    <3>3. /\ e.child \in Lev(g, H, h[x].level - 1) /\ e.child \notin V[h[x].level - 1]
          /\ e.key = Key(g, h[x].level - 1, e.child)
      BY <2>1, <3>2
    <3>4. QED
      BY <3>1, <3>3 DEF e
  <2>6. QED
    BY ONLY <2>5 DEF ChildOK
<1>21. ParentOK(g, T, H, V)
  <2>1. ASSUME NEW l \in 0 .. T - 1, NEW c \in Lev(g, H, l), c \notin V[l]
        PROVE  \E n \in Inn(g) : g[n].level = l + 1 /\ Lists(g, n, c)
    <3>1. l \in Nat /\ c \in Lev(h, H, l) /\ c \notin U[l]
      BY <1>19, <2>1
    <3>2. PICK n \in Inn(h) : h[n].level = l + 1 /\ Lists(h, n, c)
      BY <1>1, <3>1 DEF ParentOK
    <3>3. CASE n # m
      <4>1. g[n].entries = h[n].entries /\ g[n].level = l + 1 /\ n \in Inn(g)
        BY <1>4, <1>5, <3>2, <3>3
      <4>2. Lists(g, n, c)
        BY ONLY <3>2, <4>1 DEF Lists
      <4>3. QED
        BY <4>1, <4>2
    <3>4. CASE n = m
      <4>1. PICK x \in DOMAIN es : es[x].child = c
        BY <3>2, <3>4 DEF Lists, es
      <4>2. Lists(g, m, c) \/ Lists(g, N, c)
        BY <1>7, <4>1 DEF Lists, a, b
      <4>3. g[m].level = l + 1 /\ g[N].level = l + 1 /\ m \in Inn(g) /\ N \in Inn(g)
        BY <1>4, <1>5, <3>2, <3>4
      <4>4. QED
        BY <4>2, <4>3
    <3>5. QED
      BY <3>3, <3>4
  <2>2. QED
    BY <2>1 DEF ParentOK
<1>22. QED
  BY <1>1, <1>3, <1>5, <1>9, <1>12, <1>13, <1>14, <1>15, <1>16, <1>20, <1>21 DEF Tree

\* What the neighbour of a node has to do with it.
LEMMA NextFacts ==
  ASSUME NEW h, NEW T \in Nat, Heap(h), NodesOK(h, T), OrderOK(h),
         NEW m \in Inn(h), h[m].next \in Inn(h)
  PROVE  /\ h[h[m].next].min_key = Right1(h, m) /\ h[m].min_key < h[h[m].next].min_key
         /\ h[h[m].next].level = h[m].level
         /\ h[m].next # m /\ h[h[m].next].next # h[m].next
         /\ \A n \in Inn(h) : h[n].next = h[m].next => n = m
<1> DEFINE s == h[m].next
<1>1. /\ h[s].min_key = Right1(h, m) /\ h[s].level = h[m].level
      /\ h[m].min_key < Right1(h, m) /\ h[m].min_key \in Nat /\ h[s].min_key \in Nat
      /\ h[s].min_key < Right1(h, s)
  BY InnFacts DEF Right1
<1>2. h[s].next # s
  BY <1>1 DEF Right1
<1>3. ASSUME NEW n \in Inn(h), h[n].next = s, n # m PROVE FALSE
  <2>1. Right1(h, n) = Right1(h, m)
    BY <1>3 DEF Right1
  <2>2. h[n].level = h[m].level /\ h[n].min_key < Right1(h, n) /\ h[n].min_key \in Nat
    BY <1>1, <1>3, InnFacts
  <2>3. h[m].min_key < h[n].min_key \/ Right1(h, n) <= h[m].min_key
    BY <1>3, <2>2 DEF OrderOK
  <2>4. h[n].min_key < h[m].min_key \/ Right1(h, m) <= h[n].min_key
    BY <1>3, <2>2 DEF OrderOK
  <2>5. QED
    BY <1>1, <2>1, <2>2, <2>3, <2>4
<1>4. QED
  BY <1>1, <1>2, <1>3

\* Hid of one child less.
HidMinus(V, U, l, c) == \A j \in Nat : V[j] = IF j = l THEN U[j] \ {c} ELSE U[j]

\* MergeAt(h, m, s, l): m and its neighbour s are nodes of level l.
MergeAt(h, m, s, l) == m \in Inn(h) /\ s \in Inn(h) /\ h[m].next = s /\ l = h[m].level

\* MergeDone(g, h, m, s): m has the entries of s, its neighbour, which is freed.
MergeDone(g, h, m, s) ==
  /\ Heap(g) /\ DOMAIN g = DOMAIN h
  /\ \A n \in DOMAIN h : n # s => /\ g[n].level = h[n].level /\ g[n].min_key = h[n].min_key
                                  /\ g[n].state = h[n].state
                                  /\ n # m => g[n].next = h[n].next /\ g[n].entries = h[n].entries
  /\ g[m].next = h[s].next /\ g[m].entries = h[m].entries \o h[s].entries
  /\ g[s].next = NoNode /\ g[s].level = 0 /\ g[s].state = FREE

\* A node takes the entries of its right neighbour, which no parent lists.
LEMMA NodesMerged ==
  ASSUME NEW g, NEW h, NEW r, NEW H, NEW U, NEW V, Tree(h, r, H, U),
         NEW m, NEW s, NEW d, MergeAt(h, m, s, d), s \in U[d],
         MergeDone(g, h, m, s), HidMinus(V, U, d, s)
  PROVE  Tree(g, r, H, V) /\ Inn(g) = Inn(h) \ {s}
<1> m \in Inn(h) /\ s \in Inn(h) /\ h[m].next = s /\ d = h[m].level
  BY DEF MergeAt
<1> /\ Heap(g) /\ DOMAIN g = DOMAIN h
    /\ \A n \in DOMAIN h : n # s => /\ g[n].level = h[n].level /\ g[n].min_key = h[n].min_key
                                    /\ n # m => g[n].next = h[n].next /\ g[n].entries = h[n].entries
    /\ g[m].next = h[s].next /\ g[m].entries = h[m].entries \o h[s].entries
    /\ g[s].next = NoNode
  BY DEF MergeDone
<1> \A l \in Nat : V[l] = IF l = h[m].level THEN U[l] \ {s} ELSE U[l]
  BY DEF HidMinus
<1> DEFINE T == h[r].level
           L == h[m].level
           a == h[m].entries
           b == h[s].entries
           fs == g[m].entries
<1>1. /\ Heap(h) /\ T \in Nat /\ NodesOK(h, T) /\ OrderOK(h) /\ FirstOK(h, T)
      /\ TopOK(h, r, U) /\ ChildOK(h, H, U) /\ ParentOK(h, T, H, U) /\ H \subseteq Keys
      /\ r \in Inn(h) /\ r \notin U[T]
  BY TreeFacts DEF Tree
<1>2. /\ h[s].min_key = Right1(h, m) /\ h[m].min_key < h[s].min_key
      /\ h[s].level = L /\ s # m /\ h[s].next # s
      /\ \A n \in Inn(h) : h[n].next = s => n = m
  BY <1>1, NextFacts
<1>3. ASSUME NEW n \in Inn(h)
      PROVE  /\ n \in DOMAIN h /\ h[n].next \in DOMAIN h /\ h[n].next # NoNode
             /\ h[n].level \in 1 .. T /\ h[n].level \in Nat /\ Range1(h, n)
             /\ h[n].min_key \in Nat /\ Right1(h, n) \in Nat /\ h[n].min_key < Right1(h, n)
  <2>1. n \in DOMAIN h /\ h[n].next \in DOMAIN h /\ h[n].next # NoNode
    BY <1>1, HeapFacts DEF Inn
  <2>2. /\ h[n].level \in 1 .. T /\ h[n].level \in Nat
        /\ h[n].min_key \in Nat /\ Right1(h, n) \in Nat /\ h[n].min_key < Right1(h, n)
    BY <1>1, InnFacts
  <2>3. Range1(h, n)
    BY <1>1 DEF NodesOK
  <2>4. QED
    BY <2>1, <2>2, <2>3
<1>4. ASSUME NEW n \in Inn(h), n # s
      PROVE  /\ g[n].level = h[n].level /\ g[n].min_key = h[n].min_key
             /\ n # m => g[n].next = h[n].next /\ g[n].entries = h[n].entries /\ h[n].next # s
  BY <1>2, <1>3, <1>4
<1>5. \A n \in DOMAIN h : n # s =>
        /\ g[n].next = NoNode <=> h[n].next = NoNode
        /\ g[n].level = h[n].level /\ g[n].min_key = h[n].min_key
  BY <1>3
<1>6. Inn(g) = Inn(h) \ {s}
  BY <1>5 DEF Inn
<1>7. /\ a \in Seq(EntryRecord) /\ Increasing(a) /\ 1 \in DOMAIN a /\ a[1].key = h[m].min_key
      /\ b \in Seq(EntryRecord) /\ Increasing(b) /\ 1 \in DOMAIN b /\ b[1].key = h[s].min_key
      /\ \A j \in DOMAIN a : a[j].key < Right1(h, m) /\ a[j].key \in Nat
      /\ \A j \in DOMAIN b : b[j].key < Right1(h, s)
  BY <1>1, InnFacts, SMTT(30) DEF Increasing
<1>8. /\ Increasing(fs) /\ 1 \in DOMAIN fs /\ fs[1] = a[1] /\ fs \in Seq(EntryRecord)
      /\ Within(a, fs) /\ Within(b, fs)
      /\ \A x \in DOMAIN fs : \/ \E j \in DOMAIN a : a[j] = fs[x]
                              \/ \E j \in DOMAIN b : b[j] = fs[x]
  <2>1. fs = a \o b
    OBVIOUS
  <2>2. \A j \in DOMAIN a : a[j].key < b[1].key
    BY <1>2, <1>7
  <2> HIDE DEF a, b, fs
  <2>3. QED
    <3>1. JoinFacts(a, b, fs)
      BY ONLY <1>7, <2>1, <2>2, JoinIs
    <3>2. QED
      BY ONLY <3>1, Zenon DEF JoinFacts
<1> HIDE DEF a, b, fs
<1>9. fs # <<>>
  BY <1>8
<1>10. /\ Right1(g, m) = Right1(h, s)
       /\ \A n \in Inn(h) : n # m /\ n # s => Right1(g, n) = Right1(h, n)
  <2>1. Right1(g, m) = Right1(h, s)
    BY <1>2, <1>3, <1>5 DEF Right1
  <2>2. ASSUME NEW n \in Inn(h), n # m, n # s PROVE Right1(g, n) = Right1(h, n)
    <3>1. g[n].next = h[n].next /\ h[n].next # s /\ h[n].next \in DOMAIN h
      BY <1>3, <1>4, <2>2
    <3>2. QED
      BY <1>5, <3>1 DEF Right1
  <2>3. QED
    BY <2>1, <2>2
<1>11. NodesOK(g, T)
  <2>1. ASSUME NEW n \in Inn(h), n # m, n # s PROVE g[n].level \in 1 .. T /\ Range1(g, n)
    <3>1. /\ h[n].next \in DOMAIN h /\ Range1(h, n) /\ g[n].next = h[n].next
          /\ g[n].entries = h[n].entries /\ h[n].next # s
      BY <1>3, <1>4, <2>1
    <3>2. /\ g[h[n].next].level = h[h[n].next].level
          /\ g[h[n].next].next = NoNode <=> h[h[n].next].next = NoNode
      BY <1>5, <3>1
    <3>3. Right1(g, n) = Right1(h, n) /\ g[n].level = h[n].level /\ g[n].min_key = h[n].min_key
          /\ h[n].level \in 1 .. T
      BY <1>3, <1>4, <1>10, <2>1
    <3>4. QED
      BY ONLY <3>1, <3>2, <3>3 DEF Range1
  <2>2. g[m].level \in 1 .. T /\ Range1(g, m)
    <3>1. /\ h[s].next \in DOMAIN h /\ Range1(h, s) /\ g[m].next = h[s].next /\ h[s].next # s
          /\ g[m].level = L /\ g[m].min_key = h[m].min_key /\ L \in 1 .. T
      BY <1>2, <1>3, <1>4
    <3>2. /\ g[h[s].next].level = h[h[s].next].level
          /\ g[h[s].next].next = NoNode <=> h[h[s].next].next = NoNode
      BY <1>5, <3>1
    <3>3. /\ h[h[s].next].level = L
          /\ h[h[s].next].next = NoNode => Right1(h, s) = MaxKey + 1
      BY <1>2, <3>1 DEF Range1
    <3>4. ASSUME NEW x \in DOMAIN fs PROVE fs[x].key < Right1(h, s)
      <4>1. h[s].min_key < Right1(h, s) /\ h[s].min_key \in Nat /\ Right1(h, s) \in Nat
        BY <1>3
      <4>2. CASE \E j \in DOMAIN a : a[j] = fs[x]
        <5>1. fs[x].key < h[s].min_key /\ fs[x].key \in Nat
          BY <1>2, <1>7, <4>2
        <5>2. QED
          BY <4>1, <5>1
      <4>3. CASE \E j \in DOMAIN b : b[j] = fs[x]
        BY <1>7, <4>3
      <4>4. QED
        BY <1>8, <4>2, <4>3
    <3>5. fs[1].key = g[m].min_key
      BY <1>7, <1>8, <3>1
    <3>6. fs = g[m].entries
      BY DEF fs
    <3>7. /\ fs # <<>> /\ fs[1].key = g[m].min_key /\ Right1(g, m) = Right1(h, s)
          /\ \A x, y \in DOMAIN fs : x < y => fs[x].key < fs[y].key
      BY <1>8, <1>9, <1>10, <3>5 DEF Increasing
    <3>8. g[g[m].next].level = g[m].level /\ (g[g[m].next].next = NoNode => Right1(g, m) = MaxKey + 1)
      BY ONLY <3>1, <3>2, <3>3, <3>7
    <3>9. Range1(g, m)
      BY ONLY <3>4, <3>6, <3>7, <3>8 DEF Range1
    <3>10. QED
      BY ONLY <3>1, <3>9
  <2>3. QED
    BY <1>6, <2>1, <2>2 DEF NodesOK
<1>12. OrderOK(g)
  <2>1. ASSUME NEW x \in Inn(h), NEW y \in Inn(h), x # y, h[x].level = h[y].level, x # s, y # s
        PROVE  g[x].min_key < g[y].min_key \/ Right1(g, y) <= g[x].min_key
    <3>1. h[x].min_key < h[y].min_key \/ Right1(h, y) <= h[x].min_key
      BY <1>1, <2>1 DEF OrderOK
    <3>2. g[x].min_key = h[x].min_key /\ g[y].min_key = h[y].min_key
      BY <1>4, <2>1
    <3>3. CASE y # m
      BY <1>10, <2>1, <3>1, <3>2, <3>3
    <3>4. CASE y = m
      <4>1. h[x].min_key < h[s].min_key \/ Right1(h, s) <= h[x].min_key
        BY <1>1, <1>2, <2>1, <3>4 DEF OrderOK
      <4>2. h[x].min_key \in Nat /\ h[s].min_key \in Nat
        BY <1>3
      <4>3. h[x].min_key < h[m].min_key \/ Right1(h, s) <= h[x].min_key
        BY <1>2, <3>1, <3>4, <4>1, <4>2
      <4>4. QED
        BY <1>10, <3>2, <3>4, <4>3
    <3>5. QED
      BY <3>3, <3>4
  <2>2. ASSUME NEW x \in Inn(g), NEW y \in Inn(g), x # y, g[x].level = g[y].level
        PROVE  g[x].min_key < g[y].min_key \/ Right1(g, y) <= g[x].min_key
    BY <1>4, <1>6, <2>1, <2>2
  <2>3. QED
    BY ONLY <2>2, Zenon DEF OrderOK
<1>13. FirstOK(g, T)
  <2>1. ASSUME NEW l \in 1 .. T PROVE \E n \in Inn(g) : g[n].level = l /\ g[n].min_key = 0
    <3>1. PICK n \in Inn(h) : h[n].level = l /\ h[n].min_key = 0
      BY <1>1 DEF FirstOK
    <3>2. n # s
      BY <1>2, <1>3, <3>1
    <3>3. n \in Inn(g) /\ g[n].level = l /\ g[n].min_key = 0
      BY <1>4, <1>6, <3>1, <3>2
    <3>4. QED
      BY <3>3
  <2>2. QED
    BY ONLY <2>1 DEF FirstOK
<1>14. r # s
  BY <1>1, <1>2
<1>15. g[r].level = T /\ g[r].min_key = h[r].min_key /\ r \in Inn(g)
  BY <1>1, <1>4, <1>6, <1>14
<1>16. /\ \A l \in Nat : V[l] \subseteq U[l] /\ U[l] \subseteq V[l] \union {s}
       /\ \A l \in Nat : l # L => V[l] = U[l]
  OBVIOUS
<1>17. TopOK(g, r, V)
  <2>1. r \notin V[T]
    BY <1>1, <1>16
  <2>2. ASSUME NEW n \in Inn(g), g[n].level = T PROVE n = r \/ n \in V[T]
    <3>1. n # s /\ n \in Inn(h) /\ h[n].level = T
      BY <1>4, <1>6, <2>2
    <3>2. n = r \/ n \in U[T]
      BY <1>1, <3>1 DEF TopOK
    <3>3. QED
      BY <1>1, <1>16, <3>1, <3>2
  <2>3. QED
    BY <1>1, <1>15, <2>1, <2>2 DEF TopOK
<1>18. L \in Nat /\ L # 0 /\ L \in 1 .. T
  BY <1>1, <1>3
<1>19. ASSUME NEW l \in Nat, NEW c \in Lev(h, H, l), c \notin U[l]
       PROVE  c \in Lev(g, H, l) /\ Key(g, l, c) = Key(h, l, c) /\ c \notin V[l]
  <2>0. c \notin V[l]
    BY <1>16, <1>19
  <2>1. CASE l = 0
    BY <1>19, <2>0, <2>1 DEF Lev, Key
  <2>2. CASE l # 0
    <3>1. c \in Inn(h) /\ h[c].level = l
      BY <1>19, <2>2 DEF Lev
    <3>2. c # s
      BY <1>2, <1>19, <3>1
    <3>3. g[c].level = l /\ g[c].min_key = h[c].min_key /\ c \in Inn(g)
      BY <1>4, <1>6, <3>1, <3>2
    <3>4. QED
      BY <2>0, <2>2, <3>3 DEF Lev, Key
  <2>3. QED
    BY <2>1, <2>2
<1>20. ASSUME NEW l \in Nat, NEW c \in Lev(g, H, l), c \notin V[l]
       PROVE  c \in Lev(h, H, l) /\ c \notin U[l]
  <2>1. CASE l = 0
    BY <1>16, <1>18, <1>20, <2>1 DEF Lev
  <2>2. CASE l # 0
    <3>1. c \in Inn(g) /\ g[c].level = l
      BY <1>20, <2>2 DEF Lev
    <3>2. c # s /\ c \in Inn(h) /\ h[c].level = l
      BY <1>4, <1>6, <3>1
    <3>3. c \notin U[l]
      BY <1>16, <1>20, <3>2
    <3>4. QED
      BY <2>2, <3>2, <3>3 DEF Lev
  <2>3. QED
    BY <2>1, <2>2
<1>21. ChildOK(g, H, V)
  <2>1. ASSUME NEW n \in Inn(h), NEW e, \E i \in DOMAIN h[n].entries : e = h[n].entries[i]
        PROVE  /\ e.child \in Lev(g, H, h[n].level - 1) /\ e.child \notin V[h[n].level - 1]
               /\ e.key = Key(g, h[n].level - 1, e.child)
    <3>1. PICK i \in DOMAIN h[n].entries : e = h[n].entries[i]
      BY <2>1
    <3>2. /\ e.child \in Lev(h, H, h[n].level - 1) /\ e.child \notin U[h[n].level - 1]
          /\ e.key = Key(h, h[n].level - 1, e.child)
      BY <1>1, <3>1 DEF ChildOK
    <3>3. h[n].level - 1 \in Nat
      BY <1>1, <1>3
    <3>4. QED
      BY <1>19, <3>2, <3>3
  <2>2. ASSUME NEW n \in Inn(g), NEW i \in DOMAIN g[n].entries
        PROVE  \E x \in Inn(h) : /\ g[n].level = h[x].level
                                 /\ \E j \in DOMAIN h[x].entries : g[n].entries[i] = h[x].entries[j]
    <3>0. n \in Inn(h) /\ n # s
      BY <1>6
    <3>1. CASE n = m
      <4>1. g[m].level = h[m].level /\ g[m].level = h[s].level
        BY <1>2, <1>4
      <4>2. \/ \E j \in DOMAIN h[m].entries : g[n].entries[i] = h[m].entries[j]
            \/ \E j \in DOMAIN h[s].entries : g[n].entries[i] = h[s].entries[j]
        BY <1>8, <3>1 DEF a, b, fs
      <4>3. QED
        BY <3>1, <4>1, <4>2
    <3>2. CASE n # m
      BY <1>4, <3>0, <3>2
    <3>3. QED
      BY <3>1, <3>2
  <2>3. ASSUME NEW n \in Inn(g), NEW i \in DOMAIN g[n].entries
        PROVE  LET c == g[n].entries[i].child
                   l == g[n].level - 1
               IN  c \in Lev(g, H, l) /\ c \notin V[l] /\ g[n].entries[i].key = Key(g, l, c)
    <3>1. PICK x \in Inn(h) : /\ g[n].level = h[x].level
                              /\ \E j \in DOMAIN h[x].entries : g[n].entries[i] = h[x].entries[j]
      BY <2>2
    <3> DEFINE e == g[n].entries[i]
    <3>2. \E j \in DOMAIN h[x].entries : e = h[x].entries[j]
      BY <3>1
    <3> HIDE DEF e
    <3>3. /\ e.child \in Lev(g, H, h[x].level - 1) /\ e.child \notin V[h[x].level - 1]
          /\ e.key = Key(g, h[x].level - 1, e.child)
      BY <2>1, <3>2
    <3>4. QED
      BY <3>1, <3>3 DEF e
  <2>4. QED
    BY ONLY <2>3 DEF ChildOK
<1>22. ParentOK(g, T, H, V)
  <2>1. ASSUME NEW l \in 0 .. T - 1, NEW c \in Lev(g, H, l), c \notin V[l]
        PROVE  \E n \in Inn(g) : g[n].level = l + 1 /\ Lists(g, n, c)
    <3>1. l \in Nat /\ c \in Lev(h, H, l) /\ c \notin U[l]
      BY <1>20, <2>1
    <3>2. PICK n \in Inn(h) : h[n].level = l + 1 /\ Lists(h, n, c)
      BY <1>1, <3>1 DEF ParentOK
    <3>3. CASE n # m /\ n # s
      <4>1. g[n].entries = h[n].entries /\ g[n].level = l + 1 /\ n \in Inn(g)
        BY <1>4, <1>6, <3>2, <3>3
      <4>2. Lists(g, n, c)
        BY ONLY <3>2, <4>1 DEF Lists
      <4>3. QED
        BY <4>1, <4>2
    <3>4. CASE n = m \/ n = s
      <4>1. PICK x \in DOMAIN h[n].entries : h[n].entries[x].child = c
        BY <3>2 DEF Lists
      <4>2. \E j \in DOMAIN fs : fs[j] = h[n].entries[x]
        BY <1>8, <3>4, <4>1 DEF Within, a, b
      <4>3. Lists(g, m, c)
        BY <4>1, <4>2 DEF Lists, fs
      <4>4. m \in Inn(g) /\ g[m].level = l + 1
        BY <1>2, <1>4, <1>6, <3>2, <3>4
      <4>5. QED
        BY <4>3, <4>4
    <3>5. QED
      BY <3>3, <3>4
  <2>2. QED
    BY <2>1 DEF ParentOK
<1>23. QED
  BY <1>1, <1>6, <1>11, <1>12, <1>13, <1>15, <1>17, <1>21, <1>22 DEF Tree

\* LevelDone(g, h, r, N): N is a new root with r as its only child.
LevelDone(g, h, r, N) ==
  /\ Heap(g) /\ N = Len(h) + 1 /\ DOMAIN g = DOMAIN h \union {N, N + 1}
  /\ \A n \in DOMAIN h : g[n] = h[n]
  /\ g[N].level = h[r].level + 1 /\ g[N].min_key = 0 /\ g[N].next = N + 1
  /\ g[N].entries = <<Entry(0, r)>> /\ g[N].state = FREE
  /\ g[N + 1].level = h[r].level + 1 /\ g[N + 1].min_key = MaxKey + 1 /\ g[N + 1].next = NoNode
  /\ g[N + 1].state = FREE

\* Another level on top: a root with one entry, and its tail.
LEMMA LevelAdded ==
  ASSUME NEW g, NEW h, NEW r, NEW H, NEW U, Tree(h, r, H, U),
         NEW N, LevelDone(g, h, r, N), N \notin U[h[r].level + 1]
  PROVE  Tree(g, N, H, U) /\ Inn(g) = Inn(h) \union {N} /\ N \notin DOMAIN h
<1> /\ Heap(g) /\ N = Len(h) + 1 /\ DOMAIN g = DOMAIN h \union {N, N + 1}
    /\ \A n \in DOMAIN h : g[n] = h[n]
    /\ g[N].level = h[r].level + 1 /\ g[N].min_key = 0 /\ g[N].next = N + 1
    /\ g[N].entries = <<Entry(0, r)>>
    /\ g[N + 1].level = h[r].level + 1 /\ g[N + 1].min_key = MaxKey + 1 /\ g[N + 1].next = NoNode
  BY DEF LevelDone
<1> DEFINE T == h[r].level
<1>1. /\ Heap(h) /\ T \in Nat /\ NodesOK(h, T) /\ OrderOK(h) /\ FirstOK(h, T)
      /\ TopOK(h, r, U) /\ ChildOK(h, H, U) /\ ParentOK(h, T, H, U) /\ H \subseteq Keys
      /\ r \in Inn(h) /\ r \notin U[T] /\ h[r].min_key = 0 /\ T >= 1
  BY TreeFacts DEF Tree
<1>2. Len(h) \in Nat /\ DOMAIN h = 1 .. Len(h)
  BY <1>1, HeapFacts
<1>3. N \notin DOMAIN h /\ N # NoNode /\ N + 1 # NoNode /\ N + 1 \notin DOMAIN h /\ N # N + 1
  BY <1>2 DEF NoNode
<1>4. ASSUME NEW n \in Inn(h)
      PROVE  /\ n \in DOMAIN h /\ n # N /\ h[n].next \in DOMAIN h /\ h[n].next # NoNode
             /\ g[n] = h[n] /\ g[h[n].next] = h[h[n].next]
             /\ h[n].level \in 1 .. T /\ h[n].level \in Nat /\ Range1(h, n)
             /\ h[n].level # T + 1
  <2>1. n \in DOMAIN h /\ h[n].next \in DOMAIN h /\ h[n].next # NoNode
    BY <1>1, HeapFacts DEF Inn
  <2>2. /\ h[n].level \in 1 .. T /\ h[n].level \in Nat
    BY <1>1, InnFacts
  <2>3. Range1(h, n)
    BY <1>1 DEF NodesOK
  <2>4. h[n].level # T + 1
    BY <1>1, <2>2
  <2>5. QED
    BY <1>3, <2>1, <2>2, <2>3, <2>4
<1>5. Inn(g) = Inn(h) \union {N}
  <2>1. ASSUME NEW n \in DOMAIN g PROVE n \in Inn(g) <=> n \in Inn(h) \/ n = N
    <3>1. CASE n \in DOMAIN h
      BY <1>3, <3>1 DEF Inn
    <3>2. CASE n = N
      BY <1>3, <3>2 DEF Inn
    <3>3. CASE n = N + 1
      BY <1>3, <1>4, <3>3 DEF Inn
    <3>4. QED
      BY <3>1, <3>2, <3>3
  <2>2. \A n \in Inn(g) : n \in DOMAIN g
    BY DEF Inn
  <2>3. \A n \in Inn(h) : n \in DOMAIN g
    BY <1>4
  <2>4. QED
    BY <2>1, <2>2, <2>3
<1>6. \A n \in Inn(h) : Right1(g, n) = Right1(h, n)
  BY <1>4 DEF Right1
<1>7. /\ g[N].level = T + 1 /\ g[N].min_key = 0 /\ Right1(g, N) = MaxKey + 1
      /\ g[N].entries # <<>> /\ DOMAIN g[N].entries = {1}
      /\ g[N].entries[1].key = 0 /\ g[N].entries[1].child = r
  <2>1. Entry(0, r).key = 0 /\ Entry(0, r).child = r
    BY DEF Entry
  <2>2. QED
    BY <2>1 DEF Right1
<1> HIDE DEF T
<1>8. NodesOK(g, T + 1)
  <2>1. ASSUME NEW n \in Inn(h) PROVE g[n].level \in 1 .. T + 1 /\ Range1(g, n)
    <3>1. g[n] = h[n] /\ g[h[n].next] = h[h[n].next] /\ Range1(h, n) /\ h[n].level \in 1 .. T
      BY <1>4
    <3>2. Right1(g, n) = Right1(h, n)
      BY <1>6
    <3>3. g[n].level \in 1 .. T + 1
      BY <1>1, <3>1
    <3>4. Range1(g, n)
      BY ONLY <3>1, <3>2 DEF Range1
    <3>5. QED
      BY <3>3, <3>4
  <2>2. g[N].level \in 1 .. T + 1 /\ Range1(g, N)
    <3>1. g[N].level \in 1 .. T + 1
      BY <1>1, <1>7
    <3>2. 0 < MaxKey + 1
      BY KeyFacts
    <3>3. g[g[N].next].level = g[N].level
      BY DEF T
    <3>4. QED
      BY <1>7, <3>1, <3>2, <3>3 DEF Range1
  <2>3. QED
    BY <1>5, <2>1, <2>2 DEF NodesOK
<1>9. OrderOK(g)
  <2>1. ASSUME NEW x \in Inn(g), NEW y \in Inn(g), x # y, g[x].level = g[y].level
        PROVE  g[x].min_key < g[y].min_key \/ Right1(g, y) <= g[x].min_key
    <3>1. x \in Inn(h) /\ y \in Inn(h)
      BY <1>4, <1>5, <1>7, <2>1
    <3>2. QED
      BY <1>1, <1>4, <1>6, <2>1, <3>1 DEF OrderOK
  <2>2. QED
    BY ONLY <2>1, Zenon DEF OrderOK
<1>10. FirstOK(g, T + 1)
  <2>1. ASSUME NEW l \in 1 .. T + 1 PROVE \E n \in Inn(g) : g[n].level = l /\ g[n].min_key = 0
    <3>1. CASE l = T + 1
      BY <1>5, <1>7, <3>1
    <3>2. CASE l # T + 1
      <4>1. l \in 1 .. T
        BY <1>1, <3>2
      <4>2. PICK n \in Inn(h) : h[n].level = l /\ h[n].min_key = 0
        BY <1>1, <4>1 DEF FirstOK
      <4>3. QED
        BY <1>4, <1>5, <4>2
    <3>3. QED
      BY <3>1, <3>2
  <2>2. QED
    BY ONLY <2>1 DEF FirstOK
<1>11. TopOK(g, N, U)
  <2>1. N \notin U[T + 1]
    BY DEF T
  <2>2. QED
    BY <1>4, <1>5, <1>7, <2>1 DEF TopOK
<1>12. ASSUME NEW l \in Nat, l # T + 1 
       PROVE  Lev(g, H, l) = Lev(h, H, l)
  <2>1. ASSUME NEW n PROVE n \in Inn(g) /\ g[n].level = l <=> n \in Inn(h) /\ h[n].level = l
    BY <1>4, <1>5, <1>7, <1>12
  <2>2. QED
    BY <2>1 DEF Lev
<1>13. ASSUME NEW l \in Nat, NEW c \in Lev(h, H, l) PROVE Key(g, l, c) = Key(h, l, c)
  BY <1>4, <1>13 DEF Lev, Key
<1>14. ChildOK(g, H, U)
  <2>1. ASSUME NEW n \in Inn(h), NEW i \in DOMAIN g[n].entries
        PROVE  LET c == g[n].entries[i].child
                   l == g[n].level - 1
               IN  c \in Lev(g, H, l) /\ c \notin U[l] /\ g[n].entries[i].key = Key(g, l, c)
    <3>1. g[n] = h[n] /\ h[n].level \in 1 .. T
      BY <1>4
    <3>2. h[n].level - 1 \in Nat /\ h[n].level - 1 # T + 1
      BY <1>1, <3>1
    <3>3. LET c == h[n].entries[i].child
              l == h[n].level - 1
          IN  c \in Lev(h, H, l) /\ c \notin U[l] /\ h[n].entries[i].key = Key(h, l, c)
      BY <1>1, <2>1, <3>1 DEF ChildOK
    <3>4. QED
      BY <1>12, <1>13, <3>1, <3>2, <3>3
  <2>2. ASSUME NEW i \in DOMAIN g[N].entries
        PROVE  LET c == g[N].entries[i].child
                   l == g[N].level - 1
               IN  c \in Lev(g, H, l) /\ c \notin U[l] /\ g[N].entries[i].key = Key(g, l, c)
    <3>1. i = 1 /\ g[N].level - 1 = T
      BY <1>1, <1>7, <2>2
    <3>2. r \in Lev(h, H, T) /\ Key(h, T, r) = 0 /\ T # T + 1
      BY <1>1 DEF Lev, Key, T
    <3>3. r \in Lev(g, H, T) /\ Key(g, T, r) = 0
      BY <1>1, <1>12, <1>13, <3>2
    <3>4. QED
      BY <1>1, <1>7, <3>1, <3>3
  <2>3. QED
    BY <1>5, <2>1, <2>2 DEF ChildOK
<1>15. ParentOK(g, T + 1, H, U)
  <2>1. ASSUME NEW l \in 0 .. (T + 1) - 1, NEW c \in Lev(g, H, l), c \notin U[l]
        PROVE  \E n \in Inn(g) : g[n].level = l + 1 /\ Lists(g, n, c)
    <3>1. l \in Nat /\ l # T + 1 /\ l \in 0 .. T
      BY <1>1
    <3>2. c \in Lev(h, H, l)
      BY <1>12, <3>1
    <3>3. CASE l = T
      <4>1. c = r
        BY <1>1, <2>1, <3>2, <3>3 DEF Lev, TopOK, T
      <4>2. Lists(g, N, c)
        BY <1>7, <4>1 DEF Lists
      <4>3. QED
        BY <1>5, <1>7, <3>3, <4>2
    <3>4. CASE l # T
      <4>1. l \in 0 .. T - 1
        BY <1>1, <3>1, <3>4
      <4>2. PICK n \in Inn(h) : h[n].level = l + 1 /\ Lists(h, n, c)
        BY <1>1, <2>1, <3>2, <4>1 DEF ParentOK
      <4>3. g[n] = h[n] /\ n \in Inn(g)
        BY <1>4, <1>5
      <4>4. QED
        BY <4>2, <4>3 DEF Lists
    <3>5. QED
      BY <3>3, <3>4
  <2>2. QED
    BY <2>1 DEF ParentOK
<1>16. g[N].level = T + 1
  BY <1>7
<1>17. QED
  BY <1>1, <1>3, <1>5, <1>8, <1>9, <1>10, <1>11, <1>14, <1>15, <1>16 DEF Tree

\* The root has one entry and no neighbour: it is the only node of its level, and
\* its child has no neighbour that is listed.
LEMMA RootAlone ==
  ASSUME NEW h, NEW r, NEW H, NEW U, Tree(h, r, H, U), Right1(h, r) = MaxKey + 1
  PROVE  /\ h[r].next \in DOMAIN h /\ h[r].next \notin Inn(h)
         /\ \A n \in Inn(h) : h[n].level = h[r].level => n = r
         /\ \A n \in Inn(h) : h[n].next = h[r].next => n = r
         /\ \A n \in Inn(h) : h[n].next # r
<1> DEFINE T == h[r].level
           q == h[r].next
<1>1. /\ Heap(h) /\ T \in Nat /\ NodesOK(h, T) /\ OrderOK(h) /\ r \in Inn(h) /\ h[r].min_key = 0
      /\ MaxKey \in Nat
  BY TreeFacts, KeyFacts
<1>2. q \in DOMAIN h /\ h[q].level = T /\ h[q].min_key = MaxKey + 1
  BY <1>1, InnFacts DEF Right1
<1>3. q \notin Inn(h)
  <2>1. ASSUME q \in Inn(h) PROVE FALSE
    <3>1. h[q].min_key < Right1(h, q) /\ Right1(h, q) <= MaxKey + 1 /\ Right1(h, q) \in Nat
      BY <1>1, <2>1, InnFacts
    <3>2. QED
      BY <1>1, <1>2, <3>1
  <2>2. QED
    BY <2>1
<1>4. ASSUME NEW n \in Inn(h), h[n].level = T, n # r PROVE FALSE
  <2>1. h[n].min_key < 0 \/ MaxKey + 1 <= h[n].min_key
    BY <1>1, <1>4 DEF OrderOK
  <2>2. h[n].min_key \in Nat /\ h[n].min_key < Right1(h, n) /\ Right1(h, n) <= MaxKey + 1
        /\ Right1(h, n) \in Nat
    BY <1>1, InnFacts
  <2>3. QED
    BY <1>1, <2>1, <2>2
<1>5. ASSUME NEW n \in Inn(h), h[n].next = q PROVE n = r
  <2>1. h[n].level = T
    BY <1>1, <1>2, <1>5, InnFacts
  <2>2. QED
    BY <1>4, <2>1
<1>6. ASSUME NEW n \in Inn(h), h[n].next = r PROVE FALSE
  <2>1. h[n].level = T /\ Right1(h, n) = 0
    BY <1>1, <1>6, InnFacts DEF Right1
  <2>2. h[n].min_key < Right1(h, n) /\ h[n].min_key \in Nat
    BY <1>1, InnFacts
  <2>3. QED
    BY <2>1, <2>2
<1>7. QED
  BY <1>2, <1>3, <1>4, <1>5, <1>6

\* LevelGone(g, h, r): the root r and the tail of its level are freed.
LevelGone(g, h, r) ==
  /\ Heap(g) /\ DOMAIN g = DOMAIN h
  /\ \A n \in DOMAIN h : n # r /\ n # h[r].next => g[n] = h[n]
  /\ g[r].next = NoNode /\ g[h[r].next].next = NoNode
  /\ g[r].level = 0 /\ g[h[r].next].level = 0 /\ g[r].state = FREE /\ g[h[r].next].state = FREE

\* The root's only child takes its place.
LEMMA LevelRemoved ==
  ASSUME NEW g, NEW h, NEW r, NEW H, NEW U, Tree(h, r, H, U),
         Right1(h, r) = MaxKey + 1, Len(h[r].entries) = 1, h[r].level # 1,
         NEW c, c = h[r].entries[1].child, LevelGone(g, h, r)
  PROVE  Tree(g, c, H, U) /\ Inn(g) = Inn(h) \ {r}
<1> /\ Heap(g) /\ DOMAIN g = DOMAIN h
    /\ \A n \in DOMAIN h : n # r /\ n # h[r].next => g[n] = h[n]
    /\ g[r].next = NoNode /\ g[h[r].next].next = NoNode
  BY DEF LevelGone
<1> DEFINE T == h[r].level
           q == h[r].next
<1>1. /\ Heap(h) /\ T \in Nat /\ NodesOK(h, T) /\ OrderOK(h) /\ FirstOK(h, T)
      /\ TopOK(h, r, U) /\ ChildOK(h, H, U) /\ ParentOK(h, T, H, U) /\ H \subseteq Keys
      /\ r \in Inn(h) /\ r \notin U[T] /\ h[r].min_key = 0 /\ T >= 1
  BY TreeFacts DEF Tree
<1>2. /\ q \in DOMAIN h /\ q \notin Inn(h)
      /\ \A n \in Inn(h) : h[n].level = T => n = r
      /\ \A n \in Inn(h) : h[n].next = q => n = r
      /\ \A n \in Inn(h) : h[n].next # r
  BY RootAlone
<1>3. ASSUME NEW n \in Inn(h), n # r
      PROVE  /\ n \in DOMAIN h /\ g[n] = h[n] /\ g[h[n].next] = h[h[n].next]
             /\ h[n].level \in 1 .. T /\ h[n].level \in 1 .. T - 1 /\ Range1(h, n)
  <2>1. n \in DOMAIN h /\ h[n].next \in DOMAIN h
    BY <1>1, HeapFacts DEF Inn
  <2>2. h[n].level \in 1 .. T /\ h[n].level # T
    BY <1>1, <1>2, <1>3, InnFacts
  <2>3. n # q /\ h[n].next # q /\ h[n].next # r
    BY <1>2, <1>3
  <2>4. h[n].level \in 1 .. T - 1
    BY <1>1, <2>2
  <2>5. Range1(h, n)
    BY <1>1 DEF NodesOK
  <2>6. QED
    BY <1>3, <2>1, <2>2, <2>3, <2>4, <2>5
<1>4. Inn(g) = Inn(h) \ {r}
  <2>1. ASSUME NEW n \in DOMAIN h PROVE n \in Inn(g) <=> n \in Inn(h) /\ n # r
    <3>1. CASE n = r \/ n = q
      BY <1>2, <3>1 DEF Inn
    <3>2. CASE n # r /\ n # q
      BY <3>2 DEF Inn
    <3>3. QED
      BY <3>1, <3>2
  <2>2. \A n \in Inn(g) : n \in DOMAIN h
    BY DEF Inn
  <2>3. \A n \in Inn(h) : n \in DOMAIN h
    BY DEF Inn
  <2>4. QED
    BY <2>1, <2>2, <2>3
<1>5. \A n \in Inn(h) : n # r => Right1(g, n) = Right1(h, n)
  BY <1>3 DEF Right1
<1>6. /\ h[r].entries[1].key = 0 /\ DOMAIN h[r].entries = {1} /\ 1 \in DOMAIN h[r].entries
  <2>1. h[r].entries[1].key = h[r].min_key /\ DOMAIN h[r].entries = 1 .. Len(h[r].entries)
    BY <1>1, InnFacts
  <2>2. QED
    BY <1>1, <2>1
<1>7. T - 1 \in Nat /\ T - 1 # 0 /\ T - 1 # T
  BY <1>1
<1>8. c \in Inn(h) /\ h[c].level = T - 1 /\ c \notin U[T - 1] /\ h[c].min_key = 0 /\ c # r
  <2>1. /\ c \in Lev(h, H, T - 1) /\ c \notin U[T - 1] /\ h[r].entries[1].key = Key(h, T - 1, c)
    BY <1>1, <1>6 DEF ChildOK
  <2>2. QED
    BY <1>6, <1>7, <2>1 DEF Lev, Key
<1>9. g[c] = h[c] /\ c \in Inn(g)
  BY <1>3, <1>4, <1>8
<1> HIDE DEF T
<1>10. NodesOK(g, T - 1)
  <2>1. ASSUME NEW n \in Inn(g) PROVE g[n].level \in 1 .. T - 1 /\ Range1(g, n)
    <3>1. n \in Inn(h) /\ n # r
      BY <1>4
    <3>2. /\ g[n] = h[n] /\ g[h[n].next] = h[h[n].next] /\ Range1(h, n) /\ h[n].level \in 1 .. T - 1
          /\ Right1(g, n) = Right1(h, n)
      BY <1>3, <1>5, <3>1
    <3>3. Range1(g, n)
      BY ONLY <3>2 DEF Range1
    <3>4. QED
      BY <3>2, <3>3
  <2>2. QED
    BY <2>1 DEF NodesOK
<1>11. OrderOK(g)
  <2>1. ASSUME NEW x \in Inn(g), NEW y \in Inn(g), x # y, g[x].level = g[y].level
        PROVE  g[x].min_key < g[y].min_key \/ Right1(g, y) <= g[x].min_key
    <3>1. x \in Inn(h) /\ y \in Inn(h) /\ x # r /\ y # r
      BY <1>4
    <3>2. g[x] = h[x] /\ g[y] = h[y] /\ Right1(g, y) = Right1(h, y)
      BY <1>3, <1>5, <3>1
    <3>3. QED
      BY ONLY <1>1, <2>1, <3>1, <3>2 DEF OrderOK
  <2>2. QED
    BY ONLY <2>1, Zenon DEF OrderOK
<1>12. FirstOK(g, T - 1)
  <2>1. ASSUME NEW l \in 1 .. T - 1 PROVE \E n \in Inn(g) : g[n].level = l /\ g[n].min_key = 0
    <3>1. T \in Nat
      BY ONLY <1>1
    <3>2. l \in 1 .. T /\ l # T
      BY ONLY <3>1, l \in 1 .. T - 1
    <3>3. PICK n \in Inn(h) : h[n].level = l /\ h[n].min_key = 0
      BY ONLY <1>1, <3>2 DEF FirstOK
    <3>4. n # r
      BY ONLY <3>2, <3>3 DEF T
    <3>5. g[n] = h[n] /\ n \in Inn(g)
      BY <1>3, <1>4, <3>4, SMTT(30)
    <3>6. QED
      BY <3>3, <3>5
  <2>2. QED
    BY ONLY <2>1 DEF FirstOK
<1>13. TopOK(g, c, U)
  <2>1. ASSUME NEW n \in Inn(g), g[n].level = T - 1, n \notin U[T - 1] PROVE n = c
    <3>1. n \in Inn(h) /\ n # r /\ g[n] = h[n]
      BY <1>3, <1>4
    <3>2. n \in Lev(h, H, T - 1) /\ T - 1 \in 0 .. T - 1 /\ (T - 1) + 1 = T
      BY <1>1, <1>7, <2>1, <3>1 DEF Lev
    <3>3. PICK p \in Inn(h) : h[p].level = T /\ Lists(h, p, n)
      BY <1>1, <2>1, <3>2 DEF ParentOK
    <3>4. p = r
      BY <1>2, <3>3 DEF T
    <3>5. QED
      BY <1>6, <3>3, <3>4 DEF Lists
  <2>2. QED
    BY <1>8, <1>9, <2>1 DEF TopOK
<1>14. ASSUME NEW l \in Nat, l # T PROVE Lev(g, H, l) = Lev(h, H, l)
  <2>1. ASSUME NEW n PROVE n \in Inn(g) /\ g[n].level = l <=> n \in Inn(h) /\ h[n].level = l
    <3>1. CASE n \in Inn(h) /\ n # r
      BY <1>3, <1>4, <3>1
    <3>2. CASE n = r
      BY <1>4, <1>14, <3>2 DEF T
    <3>3. QED
      BY <1>4, <3>1, <3>2
  <2>2. QED
    BY <2>1 DEF Lev
<1>15. ASSUME NEW l \in Nat, l # T, NEW d \in Lev(h, H, l) PROVE Key(g, l, d) = Key(h, l, d)
  <2>1. CASE l = 0
    BY <2>1 DEF Key
  <2>2. CASE l # 0
    <3>1. d \in Inn(h) /\ d # r
      BY <1>15, <2>2 DEF Lev, T
    <3>2. QED
      BY <1>3, <2>2, <3>1 DEF Key
  <2>3. QED
    BY <2>1, <2>2
<1>16. ChildOK(g, H, U)
  <2>1. ASSUME NEW n \in Inn(g), NEW i \in DOMAIN g[n].entries
        PROVE  LET d == g[n].entries[i].child
                   l == g[n].level - 1
               IN  d \in Lev(g, H, l) /\ d \notin U[l] /\ g[n].entries[i].key = Key(g, l, d)
    <3>1. n \in Inn(h) /\ g[n] = h[n] /\ h[n].level \in 1 .. T - 1
      BY <1>3, <1>4
    <3>2. h[n].level - 1 \in Nat /\ h[n].level - 1 # T
      BY <1>1, <3>1
    <3>3. LET d == h[n].entries[i].child
              l == h[n].level - 1
          IN  d \in Lev(h, H, l) /\ d \notin U[l] /\ h[n].entries[i].key = Key(h, l, d)
      BY <1>1, <2>1, <3>1 DEF ChildOK
    <3>4. QED
      BY <1>14, <1>15, <3>1, <3>2, <3>3
  <2>2. QED
    BY <2>1 DEF ChildOK
<1>17. ParentOK(g, T - 1, H, U)
  <2>1. ASSUME NEW l \in 0 .. (T - 1) - 1, NEW d \in Lev(g, H, l), d \notin U[l]
        PROVE  \E n \in Inn(g) : g[n].level = l + 1 /\ Lists(g, n, d)
    <3>1. l \in Nat /\ l # T /\ l \in 0 .. T - 1 /\ l + 1 # T
      BY <1>1
    <3>2. d \in Lev(h, H, l)
      BY <1>14, <3>1
    <3>3. PICK n \in Inn(h) : h[n].level = l + 1 /\ Lists(h, n, d)
      BY <1>1, <2>1, <3>1, <3>2 DEF ParentOK
    <3>4. n # r
      BY <3>1, <3>3 DEF T
    <3>5. g[n] = h[n] /\ n \in Inn(g)
      BY <1>3, <1>4, <3>4
    <3>6. QED
      BY <3>3, <3>5 DEF Lists
  <2>2. QED
    BY <2>1 DEF ParentOK
<1>18. g[c].level = T - 1
  BY <1>8, <1>9
<1>19. QED
  BY <1>1, <1>4, <1>10, <1>11, <1>12, <1>13, <1>16, <1>17, <1>18 DEF Tree

------------------------------------------------------------------------------
(* The inductive invariant.                                                *)

\* The type of p_smo; its operators: none, split or merge at a level.
SmoRecord == [operator : Int, master : Nat, slave : Nat]
Operators == {0} \union {10 + l : l \in 0 .. 9} \union {-10 - l : l \in 0 .. 9}

\* The sections of a split between its first and the release, and of a merge up
\* to its end: the parents do not list the slave.
SplitLocs == {"find_parent", "level_up", "up_written", "update"}
MergeLocs == {"header_merge", "inner_merge"}
HideLocs == SplitLocs \union MergeLocs
EndLocs == {"check_split", "level_down", "down_written", "check_merge"}
Locs == {"idle", "release", "release_master"} \union HideLocs \union EndLocs

\* child_level of a p_smo.
Lv(op) == (IF op < 0 THEN -op ELSE op) % 10

\* The nodes, or headers, that are registered for the sake of a thread.
Own(loc, s) ==
  IF loc \in HideLocs \union {"release"} THEN {s.master, s.slave}
  ELSE IF loc = "release_master" \/ (loc = "idle" /\ s.operator # 0) THEN {s.master}
  ELSE {}

\* How one is registered.
Reg(h, R, l, c, op) ==
  IF l = 0 THEN c \in R ELSE h[c].state = IF op > 0 THEN SPLIT_REGIST ELSE MERGE_REGIST

\* Nothing of the level is between a and b.
Near(h, H, l, a, b) ==
  /\ Key(h, l, a) < Key(h, l, b)
  /\ \A c \in Lev(h, H, l) : Key(h, l, c) <= Key(h, l, a) \/ Key(h, l, b) <= Key(h, l, c)

\* What a thread owns is there, and registered.
OwnOK(h, H, R, loc, s) ==
  \A c \in Own(loc, s) :
    c \in Lev(h, H, Lv(s.operator)) /\ Reg(h, R, Lv(s.operator), c, s.operator)

\* Where a thread is with its split or merge.
SmoOK(h, H, r, loc, s, i) ==
  /\ loc = "idle" => s.slave = 0 /\ i = NoNode
  /\ loc \in SplitLocs \union {"release"} => s.operator > 0
  /\ loc = "header_merge" => s.operator = -10
  /\ loc \in {"inner_merge", "release_master"} => s.operator < -10
  /\ loc \in HideLocs => Near(h, H, Lv(s.operator), s.master, s.slave)
  /\ loc = "release_master" => s.slave \in DOMAIN h /\ h[s.slave].level = 0
  /\ loc = "level_up" => s.master = r /\ Lv(s.operator) = h[r].level

\* The parent it holds.
ParOK(h, loc, s, i) ==
  /\ i \in {NoNode} \union Inn(h)
  /\ loc \notin {"idle", "find_parent", "level_up"} => i # NoNode
  /\ loc \in {"up_written", "update", "release"} \union MergeLocs => h[i].level = Lv(s.operator) + 1

\* What a thread's place says about its registration and its parent.
ThreadOK(h, H, R, r, loc, s, i) ==
  /\ loc \in Locs /\ s \in SmoRecord /\ s.operator \in Operators
  /\ OwnOK(h, H, R, loc, s) /\ SmoOK(h, H, r, loc, s, i) /\ ParOK(h, loc, s, i)

\* The slaves that parents do not list, by level.
Hid(P, S) ==
  [l \in Nat |-> {c \in Nat : \E u \in Threads :
                    P[u] \in HideLocs /\ Lv(S[u].operator) = l /\ S[u].slave = c}]

\* No two threads own the same; nothing is registered for nobody.
Apart(P, S) ==
  \A t, u \in Threads :
    t # u /\ Lv(S[t].operator) = Lv(S[u].operator) =>
      \A c \in Own(P[t], S[t]) : c \notin Own(P[u], S[u])
OwnerOK(h, P, S) ==
  \A n \in Inn(h) :
    h[n].state # FREE => \E t \in Threads : Lv(S[t].operator) > 0 /\ n \in Own(P[t], S[t])

\* Freed nodes and tails are not registered.
DeadOK(h) == \A n \in DOMAIN h : h[n].next = NoNode => h[n].state = FREE

\* f is a function of threads.
OfThreads(f) == f = [u \in Threads |-> f[u]]

\* The invariant: the tree has its shape up to the slaves of splits and merges
\* under way, the threads' places fit it, and each registration has one owner.
TreeInv ==
  /\ registered \subseteq headers /\ master_root \in DOMAIN node
  /\ OfThreads(pc) /\ OfThreads(smo) /\ OfThreads(p_inner)
  /\ Tree(node, root, headers, Hid(pc, smo))
  /\ DeadOK(node)
  /\ \A t \in Threads : ThreadOK(node, headers, registered, root, pc[t], smo[t], p_inner[t])
  /\ Apart(pc, smo)
  /\ OwnerOK(node, pc, smo)

\* What operators say.
LEMMA Levels ==
  ASSUME NEW op \in Operators
  PROVE  /\ op \in Int /\ Lv(op) \in 0 .. 9 /\ Lv(op) \in Nat
         /\ op = 0 => Lv(op) = 0
         /\ op > 0 => op = 10 + Lv(op)
         /\ op < 0 => op = -10 - Lv(op)
<1>1. CASE op = 0
  BY <1>1 DEF Lv
<1>2. CASE op \in {10 + l : l \in 0 .. 9}
  BY <1>2 DEF Lv
<1>3. CASE op \in {-10 - l : l \in 0 .. 9}
  BY <1>3 DEF Lv
<1>4. QED
  BY <1>1, <1>2, <1>3 DEF Operators

\* And the operators of levels.
LEMMA OperatorOf ==
  ASSUME NEW l \in Nat, l < 10
  PROVE  /\ 10 + l \in Operators /\ -10 - l \in Operators /\ 0 \in Operators
         /\ Lv(10 + l) = l /\ Lv(-10 - l) = l /\ Lv(10) = 0 /\ Lv(-10) = 0 /\ Lv(0) = 0
         /\ 10 \in Operators /\ -10 \in Operators
<1>1. l \in 0 .. 9
  OBVIOUS
<1>2. 10 + l \in Operators /\ -10 - l \in Operators /\ 0 \in Operators
  BY <1>1 DEF Operators
<1>3. 10 + 0 \in Operators /\ -10 - 0 \in Operators
  BY DEF Operators
<1>4. Lv(10 + l) = l /\ Lv(-10 - l) = l /\ Lv(10) = 0 /\ Lv(-10) = 0 /\ Lv(0) = 0
  BY <1>1 DEF Lv
<1>5. QED
  BY <1>2, <1>3, <1>4

\* child_level is that of the operator.
LEMMA ChildLevel == \A t : child_level(t) = Lv(smo[t].operator)
  BY DEF child_level, Lv

\* The slaves of a level that are not listed.
LEMMA HidIs ==
  ASSUME NEW P, NEW S, NEW l \in Nat, NEW c
  PROVE  c \in Hid(P, S)[l] <=>
           c \in Nat /\ \E u \in Threads : P[u] \in HideLocs /\ Lv(S[u].operator) = l /\ S[u].slave = c
  BY DEF Hid

\* The invariant of one thread, of the others and of the heap.
LEMMA InvFacts ==
  ASSUME TreeInv
  PROVE  /\ registered \subseteq headers /\ master_root \in DOMAIN node
         /\ OfThreads(pc) /\ OfThreads(smo) /\ OfThreads(p_inner)
         /\ Tree(node, root, headers, Hid(pc, smo)) /\ DeadOK(node)
         /\ \A t \in Threads : ThreadOK(node, headers, registered, root, pc[t], smo[t], p_inner[t])
         /\ Apart(pc, smo) /\ OwnerOK(node, pc, smo)
  BY DEF TreeInv

\* What a thread's place says of it.
LEMMA ThreadFacts ==
  ASSUME NEW h, NEW H, NEW R, NEW r, NEW loc, NEW s, NEW i, ThreadOK(h, H, R, r, loc, s, i)
  PROVE  /\ loc \in Locs /\ s \in SmoRecord /\ s.operator \in Operators
         /\ s = [operator |-> s.operator, master |-> s.master, slave |-> s.slave]
         /\ s.operator \in Int /\ s.master \in Nat /\ s.slave \in Nat
         /\ Lv(s.operator) \in 0 .. 9 /\ Lv(s.operator) \in Nat
         /\ s.operator = 0 => Lv(s.operator) = 0
         /\ s.operator > 0 => s.operator = 10 + Lv(s.operator)
         /\ s.operator < 0 => s.operator = -10 - Lv(s.operator)
         /\ i \in {NoNode} \union Inn(h)
         /\ loc = "idle" => s.slave = 0 /\ i = NoNode
         /\ loc \in SplitLocs \union {"release"} => s.operator > 0
         /\ loc = "header_merge" => s.operator = -10
         /\ loc \in {"inner_merge", "release_master"} => s.operator < -10
         /\ loc \in HideLocs => Near(h, H, Lv(s.operator), s.master, s.slave)
         /\ loc = "release_master" => s.slave \in DOMAIN h /\ h[s.slave].level = 0
         /\ loc = "level_up" => s.master = r /\ Lv(s.operator) = h[r].level
         /\ loc \notin {"idle", "find_parent", "level_up"} => i # NoNode
         /\ loc \in {"up_written", "update", "release"} \union MergeLocs => h[i].level = Lv(s.operator) + 1
         /\ \A c \in Own(loc, s) : c \in Lev(h, H, Lv(s.operator)) /\ Reg(h, R, Lv(s.operator), c, s.operator)
<1>1. /\ loc \in Locs /\ s \in SmoRecord /\ s.operator \in Operators
      /\ OwnOK(h, H, R, loc, s) /\ SmoOK(h, H, r, loc, s, i) /\ ParOK(h, loc, s, i)
  BY DEF ThreadOK
<1>2. /\ s = [operator |-> s.operator, master |-> s.master, slave |-> s.slave]
      /\ s.operator \in Int /\ s.master \in Nat /\ s.slave \in Nat
  BY <1>1 DEF SmoRecord
<1> HIDE DEF Lv
<1>3. /\ Lv(s.operator) \in 0 .. 9 /\ Lv(s.operator) \in Nat
      /\ s.operator = 0 => Lv(s.operator) = 0
      /\ s.operator > 0 => s.operator = 10 + Lv(s.operator)
      /\ s.operator < 0 => s.operator = -10 - Lv(s.operator)
  BY <1>1, Levels
<1>4. /\ loc = "idle" => s.slave = 0 /\ i = NoNode
      /\ loc \in SplitLocs \union {"release"} => s.operator > 0
      /\ loc = "header_merge" => s.operator = -10
      /\ loc \in {"inner_merge", "release_master"} => s.operator < -10
      /\ loc \in HideLocs => Near(h, H, Lv(s.operator), s.master, s.slave)
      /\ loc = "release_master" => s.slave \in DOMAIN h /\ h[s.slave].level = 0
      /\ loc = "level_up" => s.master = r /\ Lv(s.operator) = h[r].level
  BY ONLY <1>1 DEF SmoOK
<1>5. /\ i \in {NoNode} \union Inn(h)
      /\ loc \notin {"idle", "find_parent", "level_up"} => i # NoNode
      /\ loc \in {"up_written", "update", "release"} \union MergeLocs => h[i].level = Lv(s.operator) + 1
  BY ONLY <1>1 DEF ParOK
<1>6. \A c \in Own(loc, s) : c \in Lev(h, H, Lv(s.operator)) /\ Reg(h, R, Lv(s.operator), c, s.operator)
  BY ONLY <1>1 DEF OwnOK
<1>7. QED
  BY <1>1, <1>2, <1>3, <1>4, <1>5, <1>6

\* A thread that does nothing, while others write the heap.
LEMMA OtherThread ==
  ASSUME NEW h, NEW H, NEW R, NEW r, NEW loc, NEW s, NEW i, ThreadOK(h, H, R, r, loc, s, i),
         NEW g, NEW G, NEW Q, NEW q,
         \A n \in Inn(h) : (n \in Inn(g) /\ g[n].level = h[n].level) \/ g[n].level = 0,
         \A n \in DOMAIN h : n \in DOMAIN g /\ (h[n].level = 0 => g[n].level = 0),
         i # NoNode => g[i].level > 0,
         loc \in HideLocs => Near(g, G, Lv(s.operator), s.master, s.slave),
         loc = "level_up" => s.master = q /\ Lv(s.operator) = g[q].level,
         \A c \in Own(loc, s) :
           IF Lv(s.operator) = 0 THEN c \in G /\ c \in Q
           ELSE c \in Inn(g) /\ g[c].level = h[c].level /\ g[c].state = h[c].state
  PROVE  ThreadOK(g, G, Q, q, loc, s, i)
<1>1. /\ loc \in Locs /\ s \in SmoRecord /\ s.operator \in Operators
      /\ OwnOK(h, H, R, loc, s) /\ SmoOK(h, H, r, loc, s, i) /\ ParOK(h, loc, s, i)
  BY DEF ThreadOK
<1>2. Lv(s.operator) \in Nat
  BY <1>1, Levels
<1>3. OwnOK(g, G, Q, loc, s)
  <2>1. ASSUME NEW c \in Own(loc, s)
        PROVE  c \in Lev(g, G, Lv(s.operator)) /\ Reg(g, Q, Lv(s.operator), c, s.operator)
    <3>1. c \in Lev(h, H, Lv(s.operator)) /\ Reg(h, R, Lv(s.operator), c, s.operator)
      BY <1>1 DEF OwnOK
    <3>2. CASE Lv(s.operator) = 0
      BY <3>2 DEF Lev, Reg
    <3>3. CASE Lv(s.operator) # 0
      BY <3>1, <3>3 DEF Lev, Reg
    <3>4. QED
      BY <3>2, <3>3
  <2>2. QED
    BY <2>1 DEF OwnOK
<1>4. i # NoNode => i \in Inn(g) /\ g[i].level = h[i].level
  BY <1>1 DEF ParOK
<1>5. ParOK(g, loc, s, i)
  <2>1. /\ loc \notin {"idle", "find_parent", "level_up"} => i # NoNode
        /\ loc \in {"up_written", "update", "release"} \union MergeLocs => h[i].level = Lv(s.operator) + 1
    BY <1>1 DEF ParOK
  <2>2. loc \in {"up_written", "update", "release"} \union MergeLocs => i # NoNode
    BY <2>1 DEF MergeLocs
  <2>3. QED
    BY <1>4, <2>1, <2>2 DEF ParOK
<1>6. SmoOK(g, G, q, loc, s, i)
  BY <1>1 DEF SmoOK
<1>7. QED
  BY <1>1, <1>3, <1>5, <1>6 DEF ThreadOK

\* The other threads stay where they are.
Others(t) ==
  /\ OfThreads(pc') /\ OfThreads(smo') /\ OfThreads(p_inner')
  /\ \A u \in Threads : u # t => pc'[u] = pc[u] /\ smo'[u] = smo[u] /\ p_inner'[u] = p_inner[u]

\* A step of thread t keeps the invariant, if it keeps the tree and the others.
LEMMA Step ==
  ASSUME TreeInv, NEW t \in Threads, Others(t),
         registered' \subseteq headers', master_root' \in DOMAIN node',
         Tree(node', root', headers', Hid(pc', smo')), DeadOK(node'),
         ThreadOK(node', headers', registered', root', pc'[t], smo'[t], p_inner'[t]),
         \A u \in Threads : u # t =>
           ThreadOK(node', headers', registered', root', pc[u], smo[u], p_inner[u]),
         \A u \in Threads : u # t /\ Lv(smo[u].operator) = Lv(smo'[t].operator) =>
           \A c \in Own(pc'[t], smo'[t]) : c \notin Own(pc[u], smo[u]),
         \A n \in Inn(node') : node'[n].state # FREE =>
           \/ Lv(smo'[t].operator) > 0 /\ n \in Own(pc'[t], smo'[t])
           \/ /\ n \in Inn(node) /\ node[n].state # FREE
              /\ ~(Lv(smo[t].operator) > 0 /\ n \in Own(pc[t], smo[t]))
  PROVE  TreeInv'
<1>1. Apart(pc', smo')
  <2>1. \A u, v \in Threads : u # v /\ Lv(smo[u].operator) = Lv(smo[v].operator) =>
          \A c \in Own(pc[u], smo[u]) : c \notin Own(pc[v], smo[v])
    BY DEF TreeInv, Apart
  <2>2. ASSUME NEW u \in Threads, NEW v \in Threads, u # v,
               Lv(smo'[u].operator) = Lv(smo'[v].operator),
               NEW c \in Own(pc'[u], smo'[u]), c \in Own(pc'[v], smo'[v])
        PROVE  FALSE
    <3>1. CASE u # t /\ v # t
      BY <2>1, <2>2, <3>1 DEF Others
    <3>2. CASE u = t
      BY <2>2, <3>2 DEF Others
    <3>3. CASE v = t
      BY <2>2, <3>3 DEF Others
    <3>4. QED
      BY <3>1, <3>2, <3>3
  <2>3. QED
    BY <2>2 DEF Apart
<1>2. OwnerOK(node', pc', smo')
  <2>1. ASSUME NEW n \in Inn(node'), node'[n].state # FREE
        PROVE  \E u \in Threads : Lv(smo'[u].operator) > 0 /\ n \in Own(pc'[u], smo'[u])
    <3>1. CASE Lv(smo'[t].operator) > 0 /\ n \in Own(pc'[t], smo'[t])
      BY <3>1
    <3>2. CASE /\ n \in Inn(node) /\ node[n].state # FREE
               /\ ~(Lv(smo[t].operator) > 0 /\ n \in Own(pc[t], smo[t]))
      <4>1. PICK u \in Threads : Lv(smo[u].operator) > 0 /\ n \in Own(pc[u], smo[u])
        BY <3>2 DEF TreeInv, OwnerOK
      <4>2. u # t
        BY <3>2, <4>1
      <4>3. QED
        BY <4>1, <4>2 DEF Others
    <3>3. QED
      BY <2>1, <3>1, <3>2
  <2>2. QED
    BY <2>1 DEF OwnerOK
<1>3. \A u \in Threads : ThreadOK(node', headers', registered', root', pc'[u], smo'[u], p_inner'[u])
  BY DEF Others
<1>4. OfThreads(pc') /\ OfThreads(smo') /\ OfThreads(p_inner')
  BY DEF Others
<1>5. QED
  BY <1>1, <1>2, <1>3, <1>4 DEF TreeInv, OfThreads

\* The same thread may own the same; others do not.
LEMMA NotShared ==
  ASSUME TreeInv, NEW t \in Threads, NEW u \in Threads, t # u,
         Lv(smo[t].operator) = Lv(smo[u].operator), NEW c \in Own(pc[t], smo[t])
  PROVE  c \notin Own(pc[u], smo[u])
  BY DEF TreeInv, Apart

\* The slaves that are not listed are owned, and come behind their masters.
LEMMA HidOwned ==
  ASSUME TreeInv, NEW l \in Nat, NEW c \in Hid(pc, smo)[l]
  PROVE  /\ c \in Lev(node, headers, l)
         /\ \E u \in Threads :
              /\ pc[u] \in HideLocs /\ Lv(smo[u].operator) = l /\ smo[u].slave = c
              /\ c \in Own(pc[u], smo[u]) /\ smo[u].master \in Own(pc[u], smo[u])
              /\ Near(node, headers, l, smo[u].master, c) /\ smo[u].master # c
<1>1. PICK u \in Threads : pc[u] \in HideLocs /\ Lv(smo[u].operator) = l /\ smo[u].slave = c
  BY HidIs
<1>2. ThreadOK(node, headers, registered, root, pc[u], smo[u], p_inner[u])
  BY InvFacts
<1>3. Near(node, headers, l, smo[u].master, c)
  BY <1>1, <1>2, ThreadFacts
<1>4. c \in Own(pc[u], smo[u]) /\ smo[u].master \in Own(pc[u], smo[u])
  BY <1>1 DEF Own
<1>5. c \in Lev(node, headers, l) /\ smo[u].master \in Lev(node, headers, l)
  BY <1>1, <1>2, <1>4, ThreadFacts
<1>6. Tree(node, root, headers, Hid(pc, smo))
  BY InvFacts
<1>7. Key(node, l, c) \in Nat /\ Key(node, l, smo[u].master) \in Nat
  BY <1>5, <1>6, TreeFacts
<1>8. smo[u].master # c
  BY <1>3, <1>7 DEF Near
<1>9. QED
  BY <1>1, <1>3, <1>4, <1>5, <1>8

\* What a thread owns is listed, apart from its own slave before the release.
LEMMA OwnedListed ==
  ASSUME TreeInv, NEW t \in Threads, NEW c \in Own(pc[t], smo[t]),
         pc[t] \in HideLocs => c = smo[t].master
  PROVE  /\ c \in Lev(node, headers, Lv(smo[t].operator))
         /\ c \notin Hid(pc, smo)[Lv(smo[t].operator)]
<1>1. ThreadOK(node, headers, registered, root, pc[t], smo[t], p_inner[t])
  BY InvFacts
<1>2. Lv(smo[t].operator) \in Nat /\ c \in Lev(node, headers, Lv(smo[t].operator))
  BY <1>1, ThreadFacts
<1>3. ASSUME c \in Hid(pc, smo)[Lv(smo[t].operator)] PROVE FALSE
  <2>1. PICK u \in Threads : /\ pc[u] \in HideLocs /\ Lv(smo[u].operator) = Lv(smo[t].operator)
                             /\ c \in Own(pc[u], smo[u]) /\ smo[u].master # c
    BY <1>2, <1>3, HidOwned
  <2>2. u = t
    BY <2>1, NotShared
  <2>3. QED
    BY <2>1, <2>2
<1>4. QED
  BY <1>2, <1>3

\* What a write at t's place does to a function of the threads.
LEMMA WriteAt ==
  ASSUME NEW f, OfThreads(f), NEW t \in Threads, NEW x
  PROVE  /\ OfThreads([f EXCEPT ![t] = x]) /\ [f EXCEPT ![t] = x][t] = x
         /\ \A u \in Threads : u # t => [f EXCEPT ![t] = x][u] = f[u]
  BY DEF OfThreads

\* The slaves that are not listed do not change.
LEMMA HidSame ==
  ASSUME NEW t \in Threads, Others(t), pc[t] \in HideLocs <=> pc'[t] \in HideLocs,
         pc[t] \in HideLocs => smo'[t] = smo[t]
  PROVE  Hid(pc', smo') = Hid(pc, smo)
<1>1. \A u \in Threads : pc'[u] \in HideLocs <=> pc[u] \in HideLocs
  BY DEF Others
<1>2. \A u \in Threads : pc[u] \in HideLocs => smo'[u] = smo[u]
  BY DEF Others
<1>3. ASSUME NEW l \in Nat, NEW c \in Nat
      PROVE  (\E u \in Threads : pc'[u] \in HideLocs /\ Lv(smo'[u].operator) = l /\ smo'[u].slave = c)
         <=> (\E u \in Threads : pc[u] \in HideLocs /\ Lv(smo[u].operator) = l /\ smo[u].slave = c)
  BY <1>1, <1>2
<1>4. QED
  BY <1>3 DEF Hid

\* The slave of t is not listed any more, or not yet.
LEMMA HidAdd ==
  ASSUME NEW t \in Threads, Others(t), pc[t] \notin HideLocs, pc'[t] \in HideLocs,
         smo'[t].slave \in Nat
  PROVE  \A l \in Nat : Hid(pc', smo')[l] = IF l = Lv(smo'[t].operator)
                                             THEN Hid(pc, smo)[l] \union {smo'[t].slave}
                                             ELSE Hid(pc, smo)[l]
<1>1. \A u \in Threads : u # t => pc'[u] = pc[u] /\ smo'[u] = smo[u]
  BY DEF Others
<1>2. ASSUME NEW l \in Nat, NEW c
      PROVE  c \in Hid(pc', smo')[l] <=>
               c \in Hid(pc, smo)[l] \/ (l = Lv(smo'[t].operator) /\ c = smo'[t].slave)
  <2>1. c \in Hid(pc', smo')[l] <=>
          c \in Nat /\ \E u \in Threads :
            pc'[u] \in HideLocs /\ Lv(smo'[u].operator) = l /\ smo'[u].slave = c
    BY HidIs
  <2>2. c \in Hid(pc, smo)[l] <=>
          c \in Nat /\ \E u \in Threads :
            pc[u] \in HideLocs /\ Lv(smo[u].operator) = l /\ smo[u].slave = c
    BY HidIs
  <2>3. QED
    BY <1>1, <2>1, <2>2
<1>3. QED
  BY <1>2

\* The slave of t is listed, or gone.
LEMMA HidDrop ==
  ASSUME TreeInv, NEW t \in Threads, Others(t), pc[t] \in HideLocs, pc'[t] \notin HideLocs
  PROVE  \A l \in Nat : Hid(pc', smo')[l] = IF l = Lv(smo[t].operator)
                                             THEN Hid(pc, smo)[l] \ {smo[t].slave}
                                             ELSE Hid(pc, smo)[l]
<1>1. \A u \in Threads : u # t => pc'[u] = pc[u] /\ smo'[u] = smo[u]
  BY DEF Others
<1>2. ASSUME NEW u \in Threads, u # t, pc[u] \in HideLocs, Lv(smo[u].operator) = Lv(smo[t].operator)
      PROVE  smo[u].slave # smo[t].slave
  <2>1. smo[u].slave \in Own(pc[u], smo[u]) /\ smo[t].slave \in Own(pc[t], smo[t])
    BY <1>2 DEF Own
  <2>2. QED
    BY <1>2, <2>1, NotShared
<1>3. ASSUME NEW l \in Nat, NEW c
      PROVE  c \in Hid(pc', smo')[l] <=>
               c \in Hid(pc, smo)[l] /\ ~(l = Lv(smo[t].operator) /\ c = smo[t].slave)
  <2>1. c \in Hid(pc', smo')[l] <=>
          c \in Nat /\ \E u \in Threads :
            pc'[u] \in HideLocs /\ Lv(smo'[u].operator) = l /\ smo'[u].slave = c
    BY HidIs
  <2>2. c \in Hid(pc, smo)[l] <=>
          c \in Nat /\ \E u \in Threads :
            pc[u] \in HideLocs /\ Lv(smo[u].operator) = l /\ smo[u].slave = c
    BY HidIs
  <2>3. ASSUME c \in Hid(pc', smo')[l]
        PROVE  c \in Hid(pc, smo)[l] /\ ~(l = Lv(smo[t].operator) /\ c = smo[t].slave)
    <3>1. c \in Nat /\ \E u \in Threads :
            pc'[u] \in HideLocs /\ Lv(smo'[u].operator) = l /\ smo'[u].slave = c
      BY <2>1, <2>3
    <3>2. PICK u \in Threads : pc'[u] \in HideLocs /\ Lv(smo'[u].operator) = l /\ smo'[u].slave = c
      BY <3>1
    <3>3. u # t
      BY <3>2
    <3>4. pc[u] \in HideLocs /\ Lv(smo[u].operator) = l /\ smo[u].slave = c
      BY <1>1, <3>2, <3>3
    <3>5. QED
      BY <1>2, <2>2, <3>1, <3>3, <3>4
  <2>4. ASSUME c \in Hid(pc, smo)[l], ~(l = Lv(smo[t].operator) /\ c = smo[t].slave)
        PROVE  c \in Hid(pc', smo')[l]
    <3>1. c \in Nat /\ \E u \in Threads :
            pc[u] \in HideLocs /\ Lv(smo[u].operator) = l /\ smo[u].slave = c
      BY <2>2, <2>4
    <3>2. PICK u \in Threads : pc[u] \in HideLocs /\ Lv(smo[u].operator) = l /\ smo[u].slave = c
      BY <3>1
    <3>3. u # t
      BY <2>4, <3>2
    <3>4. pc'[u] \in HideLocs /\ Lv(smo'[u].operator) = l /\ smo'[u].slave = c
      BY <1>1, <3>2, <3>3
    <3>5. QED
      BY <2>1, <3>1, <3>4
  <2>5. QED
    BY <2>3, <2>4
<1>4. QED
  BY <1>3

\* Nodes stay where they are: a thread that does nothing keeps its place, with
\* what it owns still registered.
LEMMA SteadyOther ==
  ASSUME TreeInv, NEW u \in Threads, Shape(node', node), headers' = headers, root' = root,
         \A c \in Own(pc[u], smo[u]) :
           IF Lv(smo[u].operator) = 0 THEN c \in registered' ELSE node'[c].state = node[c].state
  PROVE  ThreadOK(node', headers', registered', root', pc[u], smo[u], p_inner[u])
<1>1. ThreadOK(node, headers, registered, root, pc[u], smo[u], p_inner[u])
  BY InvFacts
<1>2. Tree(node, root, headers, Hid(pc, smo))
  BY InvFacts
<1>3. /\ Heap(node) /\ node[root].level \in Nat /\ NodesOK(node, node[root].level)
      /\ root \in Inn(node)
  BY <1>2, TreeFacts
<1>4. /\ Inn(node') = Inn(node)
      /\ \A l : Lev(node', headers, l) = Lev(node, headers, l)
      /\ \A l : \A c \in Lev(node, headers, l) : Key(node', l, c) = Key(node, l, c)
  BY <1>3, ShapeKept
<1>5. \A n \in DOMAIN node : n \in DOMAIN node' /\ node'[n].level = node[n].level
  BY DEF Shape
<1>6. \A n \in Inn(node) : n \in DOMAIN node /\ node[n].level > 0
  <2>1. \A n \in Inn(node) : n \in DOMAIN node /\ node[n].level \in 1 .. node[root].level
    BY <1>3, InnFacts
  <2>2. QED
    BY <1>3, <2>1
<1> DEFINE l == Lv(smo[u].operator)
<1>7. pc[u] \in HideLocs => Near(node', headers', l, smo[u].master, smo[u].slave)
  <2>1. ASSUME pc[u] \in HideLocs PROVE Near(node', headers', l, smo[u].master, smo[u].slave)
    <3>1. smo[u].master \in Own(pc[u], smo[u]) /\ smo[u].slave \in Own(pc[u], smo[u])
      BY <2>1 DEF Own
    <3>2. /\ smo[u].master \in Lev(node, headers, l) /\ smo[u].slave \in Lev(node, headers, l)
          /\ Near(node, headers, l, smo[u].master, smo[u].slave)
      BY <1>1, <2>1, <3>1, ThreadFacts
    <3> HIDE DEF l
    <3>3. QED
      BY <1>4, <3>2 DEF Near
  <2>2. QED
    BY <2>1
<1>8. /\ p_inner[u] \in {NoNode} \union Inn(node)
      /\ pc[u] = "level_up" => smo[u].master = root /\ l = node[root].level
      /\ \A c \in Own(pc[u], smo[u]) : c \in Lev(node, headers, l) /\ Reg(node, registered, l, c, smo[u].operator)
  BY <1>1, ThreadFacts
<1>9. p_inner[u] # NoNode => node'[p_inner[u]].level > 0
  BY <1>5, <1>6, <1>8
<1>10. pc[u] = "level_up" => smo[u].master = root' /\ l = node'[root'].level
  BY <1>3, <1>5, <1>6, <1>8
<1>11. ASSUME NEW c \in Own(pc[u], smo[u])
       PROVE  IF l = 0 THEN c \in headers' /\ c \in registered'
              ELSE c \in Inn(node') /\ node'[c].level = node[c].level /\ node'[c].state = node[c].state
  <2>1. c \in Lev(node, headers, l)
    BY <1>8
  <2>2. CASE l = 0
    BY <2>1, <2>2 DEF Lev
  <2>3. CASE l # 0
    BY <1>4, <1>5, <1>6, <2>1, <2>3 DEF Lev
  <2>4. QED
    BY <2>2, <2>3
<1> HIDE DEF l
<1>12. \A n \in Inn(node) : (n \in Inn(node') /\ node'[n].level = node[n].level) \/ node'[n].level = 0
  BY <1>4, <1>5, <1>6
<1>13. \A n \in DOMAIN node : n \in DOMAIN node' /\ (node[n].level = 0 => node'[n].level = 0)
  BY <1>5
<1>14. QED
  BY <1>1, <1>7, <1>9, <1>10, <1>11, <1>12, <1>13, OtherThread DEF l

\* Heap g is h with the states st.
WithStates(g, h, st) == g = [n \in DOMAIN h |-> [h[n] EXCEPT !.state = st[n]]]

\* The heap of a tree with states written.
LEMMA StatesWritten ==
  ASSUME NEW h, Heap(h), NEW g, NEW st, WithStates(g, h, st),
         \A n \in DOMAIN h : st[n] \in {MERGE_REGIST, FREE, SPLIT_REGIST}
  PROVE  /\ Heap(g) /\ Shape(g, h)
         /\ \A n \in DOMAIN h : g[n].entries = h[n].entries /\ g[n].state = st[n]
<1>1. Len(h) \in Nat /\ DOMAIN h = 1 .. Len(h) /\ \A n \in DOMAIN h : h[n] \in NodeRecord
  BY HeapFacts
<1>2. ASSUME NEW n \in DOMAIN h
      PROVE  /\ g[n] \in NodeRecord /\ g[n].entries = h[n].entries /\ g[n].state = st[n]
             /\ g[n].level = h[n].level /\ g[n].min_key = h[n].min_key /\ g[n].next = h[n].next
  BY <1>1 DEF NodeRecord, WithStates
<1>3. DOMAIN g = DOMAIN h
  BY DEF WithStates
<1>4. g \in Seq(NodeRecord)
  <2>1. \A n \in 1 .. Len(h) : g[n] \in NodeRecord
    BY <1>1, <1>2
  <2>2. g \in [1 .. Len(h) -> NodeRecord]
    BY <1>1, <1>3, <2>1 DEF WithStates
  <2>3. QED
    BY <1>1, <2>2
<1>5. Shape(g, h)
  BY <1>2, <1>3 DEF Shape
<1>6. Heap(g)
  BY <1>2, <1>3, <1>4 DEF Heap
<1>7. QED
  BY <1>2, <1>5, <1>6

\* A step that leaves nodes and headers where they are keeps the others' places:
\* what it registers was free, what it releases was its own.
LEMMA SteadyStep ==
  ASSUME TreeInv, NEW t \in Threads, Others(t), Shape(node', node),
         headers' = headers, root' = root, master_root' \in DOMAIN node,
         registered' \subseteq headers,
         \A c \in registered : c \in registered' \/ (Lv(smo[t].operator) = 0 /\ c \in Own(pc[t], smo[t])),
         \A n \in DOMAIN node : node'[n].state # node[n].state =>
           \/ Lv(smo[t].operator) > 0 /\ n \in Own(pc[t], smo[t])
           \/ n \in Inn(node) /\ node[n].state = FREE,
         Tree(node', root', headers', Hid(pc', smo')),
         ThreadOK(node', headers', registered', root', pc'[t], smo'[t], p_inner'[t]),
         \A c \in Own(pc'[t], smo'[t]) :
           \/ Lv(smo'[t].operator) = Lv(smo[t].operator) /\ c \in Own(pc[t], smo[t])
           \/ Lv(smo'[t].operator) = 0 /\ c \notin registered
           \/ Lv(smo'[t].operator) > 0 /\ node[c].state = FREE,
         \A n \in Inn(node) : node'[n].state # FREE =>
           \/ Lv(smo'[t].operator) > 0 /\ n \in Own(pc'[t], smo'[t])
           \/ node[n].state # FREE /\ ~(Lv(smo[t].operator) > 0 /\ n \in Own(pc[t], smo[t]))
  PROVE  TreeInv'
<1>1. \A u \in Threads : ThreadOK(node, headers, registered, root, pc[u], smo[u], p_inner[u])
  BY InvFacts
<1>2. \A u \in Threads : Lv(smo[u].operator) \in Nat
  BY <1>1, ThreadFacts
<1>3. Tree(node, root, headers, Hid(pc, smo)) /\ DeadOK(node)
  BY InvFacts
<1>4. Heap(node)
  BY <1>3, TreeFacts
<1>5. Inn(node') = Inn(node) /\ DOMAIN node' = DOMAIN node
  BY <1>4, ShapeKept DEF Shape
<1>6. ASSUME NEW u \in Threads, u # t, NEW c \in Own(pc[u], smo[u])
      PROVE  /\ c \in Lev(node, headers, Lv(smo[u].operator))
             /\ Lv(smo[u].operator) = Lv(smo[t].operator) => c \notin Own(pc[t], smo[t])
             /\ Lv(smo[u].operator) = 0 => c \in registered
             /\ Lv(smo[u].operator) > 0 => /\ c \in Inn(node) /\ node[c].level = Lv(smo[u].operator)
                                           /\ node[c].state # FREE
  <2>1. c \in Lev(node, headers, Lv(smo[u].operator)) /\ Reg(node, registered, Lv(smo[u].operator), c, smo[u].operator)
    BY <1>1, ThreadFacts
  <2>2. Lv(smo[u].operator) = Lv(smo[t].operator) => c \notin Own(pc[t], smo[t])
    BY <1>6, NotShared
  <2>3. Lv(smo[u].operator) = 0 => c \in registered
    BY <2>1 DEF Reg
  <2>4. Lv(smo[u].operator) > 0 => node[c].state # FREE
    BY <2>1, <1>2 DEF Reg, FREE, SPLIT_REGIST, MERGE_REGIST
  <2>5. Lv(smo[u].operator) > 0 => c \in Inn(node) /\ node[c].level = Lv(smo[u].operator)
    BY <2>1, <1>2, <1>3, TreeFacts
  <2>6. QED
    BY <2>1, <2>2, <2>3, <2>4, <2>5
<1>7. ASSUME NEW c \in Own(pc[t], smo[t]), Lv(smo[t].operator) > 0
      PROVE  c \in Inn(node) /\ node[c].level = Lv(smo[t].operator)
  <2>1. c \in Lev(node, headers, Lv(smo[t].operator))
    BY <1>1, ThreadFacts
  <2>2. QED
    BY <1>2, <1>3, <1>7, <2>1, TreeFacts
<1>8. ASSUME NEW u \in Threads, u # t
      PROVE  ThreadOK(node', headers', registered', root', pc[u], smo[u], p_inner[u])
  <2>1. ASSUME NEW c \in Own(pc[u], smo[u])
        PROVE  IF Lv(smo[u].operator) = 0 THEN c \in registered' ELSE node'[c].state = node[c].state
    <3>1. CASE Lv(smo[u].operator) = 0
      BY <1>6, <1>8, <3>1
    <3>2. CASE Lv(smo[u].operator) # 0
      <4>1. Lv(smo[u].operator) > 0
        BY <1>2, <3>2
      <4>2. c \in Inn(node) /\ node[c].level = Lv(smo[u].operator) /\ node[c].state # FREE
        BY <1>6, <1>8, <4>1
      <4>3. c \in DOMAIN node
        BY <4>2 DEF Inn
      <4>4. ~(Lv(smo[t].operator) > 0 /\ c \in Own(pc[t], smo[t]))
        BY <1>6, <1>7, <1>8, <4>2
      <4>5. QED
        BY <3>2, <4>2, <4>3, <4>4
    <3>3. QED
      BY <3>1, <3>2
  <2>2. QED
    BY <2>1, SteadyOther
<1>9. DeadOK(node')
  <2>1. ASSUME NEW n \in DOMAIN node, node'[n].next = NoNode PROVE node'[n].state = FREE
    <3>1. node[n].next = NoNode
      BY <2>1 DEF Shape
    <3>2. n \notin Inn(node) /\ node[n].state = FREE
      BY <1>3, <3>1 DEF Inn, DeadOK
    <3>3. QED
      BY <1>7, <3>2
  <2>2. QED
    BY <1>5, <2>1 DEF DeadOK
<1>10. ASSUME NEW u \in Threads, u # t, Lv(smo[u].operator) = Lv(smo'[t].operator),
              NEW c \in Own(pc'[t], smo'[t])
       PROVE  c \notin Own(pc[u], smo[u])
  BY <1>6, <1>10
<1>11. \A n \in Inn(node') : node'[n].state # FREE =>
         \/ Lv(smo'[t].operator) > 0 /\ n \in Own(pc'[t], smo'[t])
         \/ /\ n \in Inn(node) /\ node[n].state # FREE
            /\ ~(Lv(smo[t].operator) > 0 /\ n \in Own(pc[t], smo[t]))
  BY <1>5
<1>12. registered' \subseteq headers' /\ master_root' \in DOMAIN node'
  BY <1>5
<1>13. \A u \in Threads : u # t =>
         ThreadOK(node', headers', registered', root', pc[u], smo[u], p_inner[u])
  BY <1>8
<1>14. \A u \in Threads : u # t /\ Lv(smo[u].operator) = Lv(smo'[t].operator) =>
         \A c \in Own(pc'[t], smo'[t]) : c \notin Own(pc[u], smo[u])
  BY <1>10
<1>15. QED
  BY <1>9, <1>11, <1>12, <1>13, <1>14, Step

\* With the nodes as they are, and no change of what is not listed, only the
\* step's own place is to be shown.
LEMMA QuietStep ==
  ASSUME TreeInv, NEW t \in Threads, Others(t), node' = node,
         headers' = headers, root' = root, master_root' \in DOMAIN node,
         pc[t] \in HideLocs <=> pc'[t] \in HideLocs, pc[t] \in HideLocs => smo'[t] = smo[t],
         registered' \subseteq headers,
         \A c \in registered : c \in registered' \/ (Lv(smo[t].operator) = 0 /\ c \in Own(pc[t], smo[t])),
         ThreadOK(node, headers, registered', root, pc'[t], smo'[t], p_inner'[t]),
         \A c \in Own(pc'[t], smo'[t]) :
           \/ Lv(smo'[t].operator) = Lv(smo[t].operator) /\ c \in Own(pc[t], smo[t])
           \/ Lv(smo'[t].operator) = 0 /\ c \notin registered,
         Lv(smo[t].operator) > 0 /\ Own(pc[t], smo[t]) # {} =>
           Lv(smo'[t].operator) > 0 /\ Own(pc'[t], smo'[t]) = Own(pc[t], smo[t])
  PROVE  TreeInv'
<1>1. Hid(pc', smo') = Hid(pc, smo)
  BY HidSame
<1>2. Tree(node', root', headers', Hid(pc', smo'))
  BY <1>1, InvFacts
<1>3. Shape(node', node)
  BY DEF Shape
<1>4. ThreadOK(node', headers', registered', root', pc'[t], smo'[t], p_inner'[t])
  OBVIOUS
<1>5. \A n \in DOMAIN node : node'[n].state = node[n].state
  OBVIOUS
<1>6. \A n \in Inn(node) : node'[n].state # FREE =>
        \/ Lv(smo'[t].operator) > 0 /\ n \in Own(pc'[t], smo'[t])
        \/ node[n].state # FREE /\ ~(Lv(smo[t].operator) > 0 /\ n \in Own(pc[t], smo[t]))
  <2>1. ASSUME NEW n \in Own(pc[t], smo[t]), Lv(smo[t].operator) > 0
        PROVE  Lv(smo'[t].operator) > 0 /\ n \in Own(pc'[t], smo'[t])
    BY <2>1
  <2>2. QED
    BY <2>1
<1>7. \A n \in DOMAIN node : node'[n].state # node[n].state =>
        \/ Lv(smo[t].operator) > 0 /\ n \in Own(pc[t], smo[t])
        \/ n \in Inn(node) /\ node[n].state = FREE
  BY <1>5
<1>8. \A c \in Own(pc'[t], smo'[t]) :
        \/ Lv(smo'[t].operator) = Lv(smo[t].operator) /\ c \in Own(pc[t], smo[t])
        \/ Lv(smo'[t].operator) = 0 /\ c \notin registered
        \/ Lv(smo'[t].operator) > 0 /\ node[c].state = FREE
  OBVIOUS
<1>9. QED
  BY <1>2, <1>3, <1>4, <1>6, <1>7, <1>8, SteadyStep

------------------------------------------------------------------------------
(* The steps that leave the nodes alone.                                   *)

\* What a step writes at its thread's place only.
LEMMA OthersIs ==
  ASSUME TreeInv, NEW t \in Threads,
         \/ pc' = pc
         \/ \E x : pc' = [pc EXCEPT ![t] = x],
         \/ smo' = smo
         \/ \E x : smo' = [smo EXCEPT ![t] = x],
         \/ p_inner' = p_inner
         \/ \E x : p_inner' = [p_inner EXCEPT ![t] = x]
  PROVE  Others(t)
<1>1. OfThreads(pc) /\ OfThreads(smo) /\ OfThreads(p_inner)
  BY InvFacts
<1>2. OfThreads(pc') /\ \A u \in Threads : u # t => pc'[u] = pc[u]
  <2>1. CASE pc' = pc
    BY ONLY <1>1, <2>1
  <2>2. ASSUME NEW x, pc' = [pc EXCEPT ![t] = x]
        PROVE  OfThreads(pc') /\ \A u \in Threads : u # t => pc'[u] = pc[u]
    BY ONLY <1>1, <2>2, t \in Threads DEF OfThreads
  <2>3. QED
    BY <2>1, <2>2
<1>3. OfThreads(smo') /\ \A u \in Threads : u # t => smo'[u] = smo[u]
  <2>1. CASE smo' = smo
    BY ONLY <1>1, <2>1
  <2>2. ASSUME NEW x, smo' = [smo EXCEPT ![t] = x]
        PROVE  OfThreads(smo') /\ \A u \in Threads : u # t => smo'[u] = smo[u]
    BY ONLY <1>1, <2>2, t \in Threads DEF OfThreads
  <2>3. QED
    BY <2>1, <2>2
<1>4. OfThreads(p_inner') /\ \A u \in Threads : u # t => p_inner'[u] = p_inner[u]
  <2>1. CASE p_inner' = p_inner
    BY ONLY <1>1, <2>1
  <2>2. ASSUME NEW x, p_inner' = [p_inner EXCEPT ![t] = x]
        PROVE  OfThreads(p_inner') /\ \A u \in Threads : u # t => p_inner'[u] = p_inner[u]
    BY ONLY <1>1, <2>2, t \in Threads DEF OfThreads
  <2>3. QED
    BY <2>1, <2>2
<1>5. QED
  BY <1>2, <1>3, <1>4 DEF Others

\* What a write at t's place gives t.
LEMMA Wrote ==
  ASSUME TreeInv, NEW t \in Threads, NEW x
  PROVE  /\ pc' = [pc EXCEPT ![t] = x] => pc'[t] = x
         /\ smo' = [smo EXCEPT ![t] = x] => smo'[t] = x
         /\ p_inner' = [p_inner EXCEPT ![t] = x] => p_inner'[t] = x
<1>1. OfThreads(pc) /\ OfThreads(smo) /\ OfThreads(p_inner)
  BY InvFacts
<1>2. QED
  BY <1>1 DEF OfThreads

\* A thread between two sections of rlu_test.
LEMMA IdleOK ==
  ASSUME NEW h, NEW H, NEW R, NEW r, NEW op \in Operators, NEW m \in Nat,
         op # 0 => m \in Lev(h, H, Lv(op)) /\ Reg(h, R, Lv(op), m, op),
         NEW s, s = [operator |-> op, master |-> m, slave |-> 0]
  PROVE  /\ ThreadOK(h, H, R, r, "idle", s, NoNode)
         /\ Own("idle", s) = IF op # 0 THEN {m} ELSE {}
<1>1. s.operator = op /\ s.master = m /\ s.slave = 0 /\ s \in SmoRecord
  BY Levels DEF SmoRecord
<1>2. Own("idle", s) = IF op # 0 THEN {m} ELSE {}
  BY <1>1 DEF Own, HideLocs, SplitLocs, MergeLocs
<1>3. OwnOK(h, H, R, "idle", s)
  BY <1>1, <1>2 DEF OwnOK
<1>4. SmoOK(h, H, r, "idle", s, NoNode) /\ ParOK(h, "idle", s, NoNode) /\ "idle" \in Locs
  BY <1>1 DEF SmoOK, ParOK, Locs, HideLocs, SplitLocs, MergeLocs
<1>5. QED
  BY <1>1, <1>2, <1>3, <1>4 DEF ThreadOK

\* A step that ends what its thread has registered, or finds nothing to do.
LEMMA NothingLeft ==
  ASSUME NEW h, NEW H, NEW R, NEW r
  PROVE  ThreadOK(h, H, R, r, "idle", NoSmo, NoNode) /\ Own("idle", NoSmo) = {}
<1>1. 0 \in Operators
  BY OperatorOf
<1>2. NoSmo = [operator |-> 0, master |-> 0, slave |-> 0]
  BY Zenon DEF NoSmo
<1>3. 0 \in Nat
  OBVIOUS
<1>4. QED
  BY ONLY <1>1, <1>2, <1>3, IdleOK

\* A partition is registered: nobody has it.
LEMMA RegisterHeaderKeeps ==
  ASSUME TreeInv, NEW t \in Threads, RegisterHeader(t)
  PROVE  TreeInv'
<1>1. PICK m \in headers \ registered :
        /\ \/ smo' = [smo EXCEPT ![t] = [NoSmo EXCEPT !.operator = 10, !.master = m]]
           \/ smo' = [smo EXCEPT ![t] = [NoSmo EXCEPT !.operator = -10, !.master = m]]
        /\ registered' = registered \union {m}
  BY DEF RegisterHeader
<1>2. /\ pc[t] = "idle" /\ smo[t].operator = 0 /\ node' = node /\ root' = root /\ headers' = headers
      /\ master_root' = master_root /\ pc' = pc /\ p_inner' = p_inner
  BY DEF RegisterHeader, tree
<1>3. ThreadOK(node, headers, registered, root, pc[t], smo[t], p_inner[t])
  BY InvFacts
<1>4. Tree(node, root, headers, Hid(pc, smo)) /\ registered \subseteq headers /\ master_root \in DOMAIN node
  BY InvFacts
<1>5. PICK op \in {10, -10} : smo' = [smo EXCEPT ![t] = [NoSmo EXCEPT !.operator = op, !.master = m]]
  BY <1>1
<1>6. smo'[t] = [operator |-> op, master |-> m, slave |-> 0]
  <2>1. smo'[t] = [NoSmo EXCEPT !.operator = op, !.master = m]
    BY <1>5, InvFacts DEF OfThreads
  <2>2. QED
    BY <2>1 DEF NoSmo
<1>7. op \in Operators /\ Lv(op) = 0 /\ op # 0
  BY OperatorOf
<1>8. Others(t)
  BY <1>2, <1>5, OthersIs
<1>9. p_inner[t] = NoNode /\ Own(pc[t], smo[t]) = {}
  BY <1>2, <1>3, ThreadFacts DEF Own, HideLocs, SplitLocs, MergeLocs
<1>10. m \in Nat
  BY <1>4, TreeFacts
<1>11. m \in Lev(node, headers, Lv(op)) /\ Reg(node, registered', Lv(op), m, op)
  BY <1>1, <1>7 DEF Lev, Reg
<1>12. /\ ThreadOK(node, headers, registered', root, pc'[t], smo'[t], p_inner'[t])
       /\ Own(pc'[t], smo'[t]) = {m}
  BY ONLY <1>2, <1>6, <1>7, <1>9, <1>10, <1>11, IdleOK
<1>13. Lv(smo'[t].operator) = 0 /\ m \notin registered
  BY <1>6, <1>7
<1>14. pc'[t] = "idle" /\ "idle" \notin HideLocs
  BY <1>2 DEF HideLocs, SplitLocs, MergeLocs
<1>15. registered' \subseteq headers /\ \A c \in registered : c \in registered'
  BY <1>1, <1>4
<1>16. \A c \in Own(pc'[t], smo'[t]) : Lv(smo'[t].operator) = 0 /\ c \notin registered
  BY <1>12, <1>13
<1>17. QED
  BY ONLY TreeInv, t \in Threads, <1>2, <1>4, <1>8, <1>9, <1>12, <1>14, <1>15, <1>16, QuietStep

\* A registration of a partition is given back.
LEMMA GiveBack ==
  ASSUME TreeInv, NEW t \in Threads, pc[t] = "idle", Lv(smo[t].operator) = 0, smo[t].operator # 0,
         registered' = registered \ {smo[t].master}, smo' = [smo EXCEPT ![t] = NoSmo],
         UNCHANGED <<tree, headers, pc, p_inner>>
  PROVE  TreeInv'
<1>1. /\ node' = node /\ root' = root /\ headers' = headers /\ master_root' = master_root
      /\ pc' = pc /\ p_inner' = p_inner
  BY DEF tree
<1>2. ThreadOK(node, headers, registered, root, pc[t], smo[t], p_inner[t])
  BY InvFacts
<1>3. registered \subseteq headers /\ master_root \in DOMAIN node
  BY InvFacts
<1>4. smo'[t] = NoSmo
  BY Wrote
<1>5. Others(t)
  BY <1>1, OthersIs
<1>6. p_inner[t] = NoNode /\ Own(pc[t], smo[t]) = {smo[t].master}
  BY <1>2, ThreadFacts DEF Own, HideLocs, SplitLocs, MergeLocs
<1>7. /\ ThreadOK(node, headers, registered', root, pc'[t], smo'[t], p_inner'[t])
      /\ Own(pc'[t], smo'[t]) = {}
  BY <1>1, <1>4, <1>6, NothingLeft
<1>8. pc'[t] = "idle" /\ "idle" \notin HideLocs
  BY <1>1 DEF HideLocs, SplitLocs, MergeLocs
<1>9. /\ registered' \subseteq headers
      /\ \A c \in registered : c \in registered' \/ (Lv(smo[t].operator) = 0 /\ c \in Own(pc[t], smo[t]))
  BY <1>3, <1>6
<1>10. ~(Lv(smo[t].operator) > 0)
  OBVIOUS
<1>11. \A c \in Own(pc'[t], smo'[t]) : FALSE
  BY <1>7
<1>12. QED
  BY <1>1, <1>3, <1>5, <1>7, <1>8, <1>9, <1>10, <1>11, QuietStep

\* A partition that is not full.
LEMMA HeaderNotFullKeeps ==
  ASSUME TreeInv, NEW t \in Threads, HeaderNotFull(t)
  PROVE  TreeInv'
<1>1. /\ pc[t] = "idle" /\ smo[t].operator = 10
      /\ registered' = registered \ {smo[t].master} /\ smo' = [smo EXCEPT ![t] = NoSmo]
      /\ UNCHANGED <<tree, headers, pc, p_inner>>
  BY DEF HeaderNotFull
<1>2. Lv(smo[t].operator) = 0 /\ smo[t].operator # 0
  BY <1>1, OperatorOf
<1>3. QED
  BY <1>1, <1>2, GiveBack

\* A partition without a neighbour under its parent.
LEMMA NoPartnerKeeps ==
  ASSUME TreeInv, NEW t \in Threads, NoPartner(t)
  PROVE  TreeInv'
<1>1. /\ pc[t] = "idle" /\ smo[t].operator = -10
      /\ registered' = registered \ {smo[t].master} /\ smo' = [smo EXCEPT ![t] = NoSmo]
      /\ UNCHANGED <<tree, headers, pc, p_inner>>
  BY DEF NoPartner
<1>2. Lv(smo[t].operator) = 0 /\ smo[t].operator # 0
  BY <1>1, OperatorOf
<1>3. QED
  BY <1>1, <1>2, GiveBack

\* The keys of a split or merge, by level.
LEMMA SmoKeys ==
  ASSUME NEW t, NEW l, l = Lv(smo[t].operator)
  PROVE  /\ parent_level(t) = l + 1 /\ child_level(t) = l
         /\ master_key(t) = Key(node, l, smo[t].master)
         /\ slave_key(t) = Key(node, l, smo[t].slave)
  BY ChildLevel DEF parent_level, master_key, slave_key, Key

\* Places of which the master and the slave are owned.
LEMMA OwnBoth ==
  ASSUME NEW loc, loc \in HideLocs \union {"release"}, NEW s
  PROVE  Own(loc, s) = {s.master, s.slave}
  BY DEF Own

\* Where nothing is owned any more.
LEMMA OwnNone ==
  ASSUME NEW loc, loc \in EndLocs, NEW s
  PROVE  Own(loc, s) = {} /\ loc \notin HideLocs \union {"release"} /\ loc \in Locs
  BY DEF Own, HideLocs, SplitLocs, MergeLocs, EndLocs, Locs

\* What is left to do when nothing is owned any more: the parent's own check.
LEMMA EndOK ==
  ASSUME NEW h, NEW H, NEW R, NEW r, NEW loc, loc \in EndLocs, NEW s \in SmoRecord, s.operator \in Operators,
         NEW i \in Inn(h), i # NoNode
  PROVE  ThreadOK(h, H, R, r, loc, s, i)
<1>1. Own(loc, s) = {} /\ loc \in Locs /\ loc \notin HideLocs \union {"release"}
  BY OwnNone
<1>2. loc \notin {"idle", "release", "release_master", "header_merge", "inner_merge", "level_up"}
  BY DEF EndLocs
<1>3. OwnOK(h, H, R, loc, s)
  BY <1>1 DEF OwnOK
<1>4. SmoOK(h, H, r, loc, s, i)
  BY <1>1, <1>2 DEF SmoOK, HideLocs
<1>5. ParOK(h, loc, s, i)
  BY <1>1, <1>2 DEF ParOK, HideLocs, SplitLocs
<1>6. QED
  BY <1>1, <1>3, <1>4, <1>5 DEF ThreadOK

\* The master of a split is the root, if the tree has no level for its parent;
\* else the descent for its key ends at a node of that level.
LEMMA SplitParent ==
  ASSUME TreeInv, NEW t \in Threads, pc[t] \in HideLocs, NEW l, l = Lv(smo[t].operator)
  PROVE  /\ node[root].level < l + 1 => smo[t].master = root /\ l = node[root].level
         /\ ~(node[root].level < l + 1) =>
              LET p == DescendTo(l + 1, Key(node, l, smo[t].master))
              IN  /\ p \in Inn(node) /\ node[p].level = l + 1
                  /\ EntryFor(p, Key(node, l, smo[t].master)) \in DOMAIN node[p].entries
                  /\ node[p].entries[EntryFor(p, Key(node, l, smo[t].master))].child = smo[t].master
                  /\ node[p].entries[EntryFor(p, Key(node, l, smo[t].master))].key
                       = Key(node, l, smo[t].master)
<1> DEFINE m == smo[t].master
           U == Hid(pc, smo)
<1>1. ThreadOK(node, headers, registered, root, pc[t], smo[t], p_inner[t])
  BY InvFacts
<1>2. Tree(node, root, headers, U)
  BY InvFacts
<1>3. l \in Nat
  BY <1>1, ThreadFacts
<1>4. m \in Own(pc[t], smo[t])
  BY OwnBoth
<1>5. m \in Lev(node, headers, l) /\ m \notin U[l]
  BY <1>4, OwnedListed
<1>6. node[root].level \in Nat /\ node[root].level >= 1
  BY <1>2, TreeFacts
<1>7. l # 0 => m \in Inn(node) /\ node[m].level = l /\ l \in 1 .. node[root].level
  BY <1>2, <1>3, <1>5, TreeFacts
<1> HIDE DEF m, U
<1>8. ASSUME node[root].level < l + 1 PROVE m = root /\ l = node[root].level
  <2>1. l = node[root].level
    BY <1>3, <1>6, <1>7, <1>8
  <2>2. m \in Inn(node) /\ node[m].level = node[root].level
    BY <1>6, <1>7, <2>1
  <2>3. m = root \/ m \in U[node[root].level]
    BY <1>2, <2>2 DEF Tree, TopOK
  <2>4. QED
    BY <1>5, <2>1, <2>3
<1>9. ASSUME ~(node[root].level < l + 1)
      PROVE  l + 1 \in 1 .. node[root].level /\ m \in Lev(node, headers, (l + 1) - 1)
             /\ m \notin U[(l + 1) - 1] /\ (l + 1) - 1 = l
  <2>1. l + 1 \in 1 .. node[root].level /\ (l + 1) - 1 = l
    BY <1>3, <1>6, <1>9
  <2>2. QED
    BY <1>5, <2>1
<1>10. ASSUME ~(node[root].level < l + 1)
       PROVE  LET p == DescendTo(l + 1, Key(node, l, m))
              IN  /\ p \in Inn(node) /\ node[p].level = l + 1
                  /\ EntryFor(p, Key(node, l, m)) \in DOMAIN node[p].entries
                  /\ node[p].entries[EntryFor(p, Key(node, l, m))].child = m
                  /\ node[p].entries[EntryFor(p, Key(node, l, m))].key = Key(node, l, m)
  <2>1. /\ l + 1 \in 1 .. node[root].level /\ m \in Lev(node, headers, (l + 1) - 1)
        /\ m \notin U[(l + 1) - 1] /\ (l + 1) - 1 = l
    BY <1>9, <1>10
  <2> DEFINE L == l + 1
  <2>2. /\ L \in 1 .. node[root].level /\ m \in Lev(node, headers, L - 1)
        /\ m \notin U[L - 1] /\ L - 1 = l
    BY <2>1
  <2> HIDE DEF L
  <2>3. LET p == DescendTo(L, Key(node, L - 1, m))
        IN  /\ p \in Inn(node) /\ node[p].level = L
            /\ EntryFor(p, Key(node, L - 1, m)) \in DOMAIN node[p].entries
            /\ node[p].entries[EntryFor(p, Key(node, L - 1, m))].child = m
            /\ node[p].entries[EntryFor(p, Key(node, L - 1, m))].key = Key(node, L - 1, m)
    BY <1>2, <2>2, FindsEntry
  <2>4. QED
    BY ONLY <2>2, <2>3 DEF L
<1>11. QED
  BY <1>8, <1>10 DEF m

\* A split finds the parent of its master, or the root as its master.
LEMMA FindParentKeeps ==
  ASSUME TreeInv, NEW t \in Threads, FindParent(t)
  PROVE  TreeInv'
<1> DEFINE l == Lv(smo[t].operator)
<1>1. /\ pc[t] = "find_parent" /\ node' = node /\ root' = root /\ headers' = headers
      /\ master_root' = master_root /\ registered' = registered /\ smo' = smo
  BY DEF FindParent, tree, leaves
<1>2. ThreadOK(node, headers, registered, root, pc[t], smo[t], p_inner[t])
  BY InvFacts
<1>3. registered \subseteq headers /\ master_root \in DOMAIN node
  BY InvFacts
<1>4. \/ /\ node[root].level < l + 1 /\ pc' = [pc EXCEPT ![t] = "level_up"] /\ p_inner' = p_inner
      \/ /\ ~(node[root].level < l + 1) /\ pc' = [pc EXCEPT ![t] = "update"]
         /\ p_inner' = [p_inner EXCEPT ![t] = DescendTo(l + 1, Key(node, l, smo[t].master))]
  BY SmoKeys DEF FindParent, Goto
<1>5. Others(t)
  BY <1>1, <1>4, OthersIs
<1>6. pc[t] \in HideLocs /\ pc[t] \in SplitLocs
  BY <1>1 DEF HideLocs, SplitLocs
<1>7. /\ smo[t] \in SmoRecord /\ smo[t].operator \in Operators /\ smo[t].operator > 0
      /\ OwnOK(node, headers, registered, pc[t], smo[t])
      /\ Near(node, headers, l, smo[t].master, smo[t].slave)
      /\ p_inner[t] \in {NoNode} \union Inn(node)
  BY <1>2, <1>6, ThreadFacts DEF ThreadOK
<1>8. CASE /\ node[root].level < l + 1 /\ pc' = [pc EXCEPT ![t] = "level_up"] /\ p_inner' = p_inner
  <2>1. pc'[t] = "level_up"
    BY <1>8, Wrote
  <2>2. smo[t].master = root /\ l = node[root].level
    BY <1>6, <1>8, SplitParent
  <2>3. "level_up" \in HideLocs /\ "level_up" \in Locs
    BY DEF HideLocs, SplitLocs, Locs
  <2>4. Own("level_up", smo[t]) = Own(pc[t], smo[t])
    BY <1>6, <2>3, OwnBoth
  <2>5. SmoOK(node, headers, root, "level_up", smo[t], p_inner[t])
    BY <1>7, <2>2 DEF SmoOK
  <2>6. ParOK(node, "level_up", smo[t], p_inner[t])
    BY <1>7 DEF ParOK, MergeLocs
  <2>7. ThreadOK(node, headers, registered', root, pc'[t], smo'[t], p_inner'[t])
    BY <1>1, <1>7, <1>8, <2>1, <2>3, <2>4, <2>5, <2>6 DEF ThreadOK, OwnOK
  <2>8. Own(pc'[t], smo'[t]) = Own(pc[t], smo[t]) /\ pc'[t] \in HideLocs
    BY <1>1, <2>1, <2>3, <2>4
  <2>9. \A c \in Own(pc'[t], smo'[t]) : Lv(smo'[t].operator) = Lv(smo[t].operator) /\ c \in Own(pc[t], smo[t])
    BY <1>1, <2>8
  <2>10. QED
    BY <1>1, <1>3, <1>5, <1>6, <2>7, <2>8, <2>9, QuietStep
<1>9. CASE /\ ~(node[root].level < l + 1) /\ pc' = [pc EXCEPT ![t] = "update"]
           /\ p_inner' = [p_inner EXCEPT ![t] = DescendTo(l + 1, Key(node, l, smo[t].master))]
  <2> DEFINE p == DescendTo(l + 1, Key(node, l, smo[t].master))
  <2>1. pc'[t] = "update" /\ p_inner'[t] = p
    BY <1>9, Wrote
  <2>2. p \in Inn(node) /\ node[p].level = l + 1
    BY <1>6, <1>9, SplitParent
  <2> HIDE DEF p
  <2>3. "update" \in HideLocs /\ "update" \in Locs
    BY DEF HideLocs, SplitLocs, Locs
  <2>4. Own("update", smo[t]) = Own(pc[t], smo[t])
    BY <1>6, <2>3, OwnBoth
  <2>5. SmoOK(node, headers, root, "update", smo[t], p)
    BY <1>7 DEF SmoOK
  <2>6. p # NoNode
    BY <2>2, HeapFacts, InvFacts, TreeFacts DEF Inn, NoNode
  <2>7. ParOK(node, "update", smo[t], p)
    BY <2>2, <2>6 DEF ParOK
  <2>8. ThreadOK(node, headers, registered', root, pc'[t], smo'[t], p_inner'[t])
    BY <1>1, <1>7, <2>1, <2>3, <2>4, <2>5, <2>7 DEF ThreadOK, OwnOK
  <2>9. Own(pc'[t], smo'[t]) = Own(pc[t], smo[t]) /\ pc'[t] \in HideLocs
    BY <1>1, <2>1, <2>3, <2>4
  <2>10. \A c \in Own(pc'[t], smo'[t]) : Lv(smo'[t].operator) = Lv(smo[t].operator) /\ c \in Own(pc[t], smo[t])
    BY <1>1, <2>9
  <2>11. QED
    BY <1>1, <1>3, <1>5, <1>6, <2>8, <2>9, <2>10, QuietStep
<1>10. QED
  BY <1>4, <1>8, <1>9

\* A search for the parent begins again.
LEMMA SplitUpdateFailsKeeps ==
  ASSUME TreeInv, NEW t \in Threads, SplitUpdateFails(t)
  PROVE  TreeInv'
<1> DEFINE l == Lv(smo[t].operator)
<1>1. /\ pc[t] = "update" /\ node' = node /\ root' = root /\ headers' = headers
      /\ master_root' = master_root /\ registered' = registered /\ smo' = smo /\ p_inner' = p_inner
      /\ pc' = [pc EXCEPT ![t] = "find_parent"]
  BY DEF SplitUpdateFails, tree, leaves, Goto
<1>2. ThreadOK(node, headers, registered, root, pc[t], smo[t], p_inner[t])
  BY InvFacts
<1>3. registered \subseteq headers /\ master_root \in DOMAIN node
  BY InvFacts
<1>4. Others(t)
  BY <1>1, OthersIs
<1>5. pc'[t] = "find_parent"
  BY <1>1, Wrote
<1>6. pc[t] \in HideLocs /\ pc[t] \in SplitLocs
  BY <1>1 DEF HideLocs, SplitLocs
<1>7. /\ smo[t] \in SmoRecord /\ smo[t].operator \in Operators /\ smo[t].operator > 0
      /\ OwnOK(node, headers, registered, pc[t], smo[t])
      /\ Near(node, headers, l, smo[t].master, smo[t].slave)
      /\ p_inner[t] \in {NoNode} \union Inn(node)
  BY <1>2, <1>6, ThreadFacts DEF ThreadOK
<1>8. "find_parent" \in HideLocs /\ "find_parent" \in Locs
  BY DEF HideLocs, SplitLocs, Locs
<1>9. Own("find_parent", smo[t]) = Own(pc[t], smo[t])
  BY <1>6, <1>8, OwnBoth
<1>10. SmoOK(node, headers, root, "find_parent", smo[t], p_inner[t])
  BY <1>7 DEF SmoOK
<1>11. ParOK(node, "find_parent", smo[t], p_inner[t])
  BY <1>7 DEF ParOK, MergeLocs
<1>12. ThreadOK(node, headers, registered', root, pc'[t], smo'[t], p_inner'[t])
  BY <1>1, <1>5, <1>7, <1>8, <1>9, <1>10, <1>11 DEF ThreadOK, OwnOK
<1>13. Own(pc'[t], smo'[t]) = Own(pc[t], smo[t]) /\ pc'[t] \in HideLocs
  BY <1>1, <1>5, <1>8, <1>9
<1>14. \A c \in Own(pc'[t], smo'[t]) : Lv(smo'[t].operator) = Lv(smo[t].operator) /\ c \in Own(pc[t], smo[t])
  BY <1>1, <1>13
<1>15. QED
  BY <1>1, <1>3, <1>4, <1>6, <1>12, <1>13, <1>14, QuietStep

\* The new root reaches the root's own memory.
LEMMA RootWritebackKeeps ==
  ASSUME TreeInv, NEW t \in Threads, RootWriteback(t)
  PROVE  TreeInv'
<1> DEFINE l == Lv(smo[t].operator)
           loc == IF pc[t] = "up_written" THEN "update" ELSE "check_merge"
<1>1. /\ pc[t] \in {"up_written", "down_written"} /\ node' = node /\ root' = root /\ headers' = headers
      /\ master_root' = root /\ registered' = registered /\ smo' = smo /\ p_inner' = p_inner
      /\ pc' = [pc EXCEPT ![t] = loc]
  BY DEF RootWriteback, leaves, Goto
<1>2. ThreadOK(node, headers, registered, root, pc[t], smo[t], p_inner[t])
  BY InvFacts
<1>3. registered \subseteq headers /\ Tree(node, root, headers, Hid(pc, smo))
  BY InvFacts
<1>4. root \in Inn(node)
  BY <1>3, TreeFacts
<1>5. master_root' \in DOMAIN node
  BY <1>1, <1>4 DEF Inn
<1>6. pc'[t] = loc
  BY <1>1, InvFacts DEF OfThreads
<1>7. Others(t)
  BY <1>1, OthersIs
<1>8. /\ smo[t] \in SmoRecord /\ smo[t].operator \in Operators
      /\ OwnOK(node, headers, registered, pc[t], smo[t])
      /\ p_inner[t] \in {NoNode} \union Inn(node)
      /\ pc[t] \notin {"idle", "find_parent", "level_up"} => p_inner[t] # NoNode
  BY <1>2, ThreadFacts DEF ThreadOK
<1>9. p_inner[t] # NoNode /\ p_inner[t] \in Inn(node)
  BY <1>1, <1>8
<1>10. CASE pc[t] = "up_written"
  <2>1. pc[t] \in HideLocs /\ pc[t] \in SplitLocs /\ "update" \in HideLocs /\ "update" \in Locs
    BY <1>10 DEF HideLocs, SplitLocs, Locs
  <2>2. /\ smo[t].operator > 0 /\ Near(node, headers, l, smo[t].master, smo[t].slave)
        /\ node[p_inner[t]].level = l + 1
    BY <1>2, <1>10, <2>1, ThreadFacts
  <2>3. pc'[t] = "update"
    BY <1>6, <1>10
  <2>4. Own("update", smo[t]) = Own(pc[t], smo[t])
    BY <2>1, OwnBoth
  <2>5. SmoOK(node, headers, root, "update", smo[t], p_inner[t])
    BY <2>2 DEF SmoOK
  <2>6. ParOK(node, "update", smo[t], p_inner[t])
    BY <1>9, <2>2 DEF ParOK
  <2>7. ThreadOK(node, headers, registered', root, pc'[t], smo'[t], p_inner'[t])
    BY <1>1, <1>8, <2>1, <2>3, <2>4, <2>5, <2>6 DEF ThreadOK, OwnOK
  <2>8. Own(pc'[t], smo'[t]) = Own(pc[t], smo[t]) /\ pc'[t] \in HideLocs
    BY <1>1, <2>1, <2>3, <2>4
  <2>9. \A c \in Own(pc'[t], smo'[t]) : Lv(smo'[t].operator) = Lv(smo[t].operator) /\ c \in Own(pc[t], smo[t])
    BY <1>1, <2>8
  <2>10. QED
    BY <1>1, <1>3, <1>5, <1>7, <2>1, <2>7, <2>8, <2>9, QuietStep
<1>11. CASE pc[t] = "down_written"
  <2>1. pc'[t] = "check_merge" /\ "check_merge" \in EndLocs /\ pc[t] \in EndLocs
    BY <1>6, <1>11 DEF EndLocs
  <2>2. Own(pc[t], smo[t]) = {} /\ Own(pc'[t], smo'[t]) = {} /\ pc[t] \notin HideLocs /\ pc'[t] \notin HideLocs
    BY <2>1, OwnNone
  <2>3. ThreadOK(node, headers, registered', root, pc'[t], smo'[t], p_inner'[t])
    BY <1>1, <1>8, <1>9, <2>1, EndOK
  <2>4. \A c \in Own(pc'[t], smo'[t]) : FALSE
    BY <2>2
  <2>5. QED
    BY <1>1, <1>3, <1>5, <1>7, <2>2, <2>3, <2>4, QuietStep
<1>12. QED
  BY <1>1, <1>10, <1>11

\* Both partitions of a split are released.
LEMMA ReleaseHeadersKeeps ==
  ASSUME TreeInv, NEW t \in Threads, ReleaseHeaders(t)
  PROVE  TreeInv'
<1>1. /\ pc[t] = "release" /\ Lv(smo[t].operator) = 0
      /\ node' = node /\ root' = root /\ headers' = headers
      /\ master_root' = master_root /\ registered' = registered \ {smo[t].master, smo[t].slave}
      /\ smo' = smo /\ p_inner' = p_inner /\ pc' = [pc EXCEPT ![t] = "check_split"]
  BY ChildLevel DEF ReleaseHeaders, tree, Goto
<1>2. ThreadOK(node, headers, registered, root, pc[t], smo[t], p_inner[t])
  BY InvFacts
<1>3. registered \subseteq headers /\ master_root \in DOMAIN node
  BY InvFacts
<1>4. Others(t)
  BY <1>1, OthersIs
<1>5. pc'[t] = "check_split" /\ "check_split" \in EndLocs
  BY <1>1, Wrote DEF EndLocs
<1>6. /\ smo[t] \in SmoRecord /\ smo[t].operator \in Operators
      /\ p_inner[t] # NoNode /\ p_inner[t] \in Inn(node)
  BY <1>1, <1>2, ThreadFacts
<1>7. ThreadOK(node, headers, registered', root, pc'[t], smo'[t], p_inner'[t])
  BY <1>1, <1>5, <1>6, EndOK
<1>8. Own(pc'[t], smo'[t]) = {} /\ pc'[t] \notin HideLocs
  BY <1>5, OwnNone
<1>9. Own(pc[t], smo[t]) = {smo[t].master, smo[t].slave} /\ pc[t] \notin HideLocs
  BY <1>1, OwnBoth DEF HideLocs, SplitLocs, MergeLocs
<1>10. /\ registered' \subseteq headers
       /\ \A c \in registered : c \in registered' \/ (Lv(smo[t].operator) = 0 /\ c \in Own(pc[t], smo[t]))
  BY <1>1, <1>3, <1>9
<1>11. ~(Lv(smo[t].operator) > 0)
  BY <1>1
<1>12. \A c \in Own(pc'[t], smo'[t]) : FALSE
  BY <1>8
<1>13. QED
  BY <1>1, <1>3, <1>4, <1>7, <1>8, <1>9, <1>10, <1>11, <1>12, QuietStep

\* A level that goes on.
LEMMA LevelStaysKeeps ==
  ASSUME TreeInv, NEW t \in Threads, pc[t] = "level_down", pc' = [pc EXCEPT ![t] = "check_merge"],
         UNCHANGED <<tree, leaves, smo, p_inner>>
  PROVE  TreeInv'
<1>1. /\ node' = node /\ root' = root /\ headers' = headers /\ master_root' = master_root
      /\ registered' = registered /\ smo' = smo /\ p_inner' = p_inner
  BY DEF tree, leaves
<1>2. ThreadOK(node, headers, registered, root, pc[t], smo[t], p_inner[t])
  BY InvFacts
<1>3. registered \subseteq headers /\ master_root \in DOMAIN node
  BY InvFacts
<1>4. Others(t)
  BY <1>1, OthersIs
<1>5. pc'[t] = "check_merge" /\ "check_merge" \in EndLocs /\ pc[t] \in EndLocs
  BY Wrote DEF EndLocs
<1>6. /\ smo[t] \in SmoRecord /\ smo[t].operator \in Operators
      /\ p_inner[t] # NoNode /\ p_inner[t] \in Inn(node)
  BY <1>2, ThreadFacts
<1>7. ThreadOK(node, headers, registered', root, pc'[t], smo'[t], p_inner'[t])
  BY <1>1, <1>5, <1>6, EndOK
<1>8. Own(pc[t], smo[t]) = {} /\ Own(pc'[t], smo'[t]) = {} /\ pc[t] \notin HideLocs /\ pc'[t] \notin HideLocs
  BY <1>5, OwnNone
<1>9. \A c \in Own(pc'[t], smo'[t]) : FALSE
  BY <1>8
<1>10. QED
  BY <1>1, <1>3, <1>4, <1>7, <1>8, <1>9, QuietStep

------------------------------------------------------------------------------
(* Partitions that come and go.                                            *)

\* What a thread holds is live; what it owns is registered as it expects.
LEMMA Holds ==
  ASSUME TreeInv, NEW u \in Threads
  PROVE  /\ p_inner[u] \in {NoNode} \union Inn(node)
         /\ p_inner[u] # NoNode => node[p_inner[u]].level > 0
         /\ smo[u] \in SmoRecord /\ smo[u].operator \in Operators /\ Lv(smo[u].operator) \in Nat
         /\ \A c \in Own(pc[u], smo[u]) :
              /\ c \in Lev(node, headers, Lv(smo[u].operator)) /\ c \in Nat
              /\ Lv(smo[u].operator) = 0 => c \in headers /\ c \in registered
              /\ Lv(smo[u].operator) # 0 =>
                   /\ c \in Inn(node) /\ c \in DOMAIN node
                   /\ node[c].level = Lv(smo[u].operator) /\ node[c].level > 0
                   /\ node[c].state # FREE
                   /\ node[c].state = IF smo[u].operator > 0 THEN SPLIT_REGIST ELSE MERGE_REGIST
<1>1. ThreadOK(node, headers, registered, root, pc[u], smo[u], p_inner[u])
  BY InvFacts
<1>2. Tree(node, root, headers, Hid(pc, smo))
  BY InvFacts
<1>3. /\ p_inner[u] \in {NoNode} \union Inn(node)
      /\ smo[u] \in SmoRecord /\ smo[u].operator \in Operators /\ Lv(smo[u].operator) \in Nat
  BY <1>1, ThreadFacts
<1>4. ASSUME NEW n \in Inn(node) PROVE node[n].level > 0 /\ n \in DOMAIN node
  <2>1. Heap(node) /\ node[root].level \in Nat /\ NodesOK(node, node[root].level)
    BY <1>2, TreeFacts
  <2>2. node[n].level \in 1 .. node[root].level /\ n \in DOMAIN node
    BY <2>1, InnFacts
  <2>3. QED
    BY <2>1, <2>2
<1>5. ASSUME NEW c \in Own(pc[u], smo[u])
      PROVE  /\ c \in Lev(node, headers, Lv(smo[u].operator)) /\ c \in Nat
             /\ Lv(smo[u].operator) = 0 => c \in headers /\ c \in registered
             /\ Lv(smo[u].operator) # 0 =>
                  /\ c \in Inn(node) /\ c \in DOMAIN node
                  /\ node[c].level = Lv(smo[u].operator) /\ node[c].level > 0
                  /\ node[c].state # FREE
                  /\ node[c].state = IF smo[u].operator > 0 THEN SPLIT_REGIST ELSE MERGE_REGIST
  <2>1. c \in Lev(node, headers, Lv(smo[u].operator)) /\ Reg(node, registered, Lv(smo[u].operator), c, smo[u].operator)
    BY <1>1, ThreadFacts
  <2>2. c \in Nat
    BY <1>2, <1>3, <2>1, TreeFacts
  <2>3. Lv(smo[u].operator) = 0 => c \in headers /\ c \in registered
    BY <2>1 DEF Reg, Lev
  <2>4. Lv(smo[u].operator) # 0 => node[c].state = IF smo[u].operator > 0 THEN SPLIT_REGIST ELSE MERGE_REGIST
    BY <2>1 DEF Reg
  <2>5. SPLIT_REGIST # FREE /\ MERGE_REGIST # FREE
    BY DEF SPLIT_REGIST, MERGE_REGIST, FREE
  <2>6. Lv(smo[u].operator) # 0 => c \in Inn(node) /\ node[c].level = Lv(smo[u].operator)
    BY <1>2, <1>3, <2>1, TreeFacts
  <2>7. QED
    BY <1>4, <2>1, <2>2, <2>3, <2>4, <2>5, <2>6
<1>6. QED
  BY <1>3, <1>4, <1>5

\* A partition is cut: the new header comes behind the master, before the next.
LEMMA HeaderSplitKeeps ==
  ASSUME TreeInv, NEW t \in Threads, rlu_header_split(t)
  PROVE  TreeInv'
<1> DEFINE m == smo[t].master
<1>1. /\ pc[t] = "idle" /\ smo[t].operator = 10 /\ node' = node /\ root' = root
      /\ master_root' = master_root /\ p_inner' = p_inner
      /\ pc' = [pc EXCEPT ![t] = "find_parent"]
  BY DEF rlu_header_split, tree, Goto
<1>2. PICK s \in NewKeys(t) :
        /\ headers' = headers \union {s} /\ registered' = registered \union {s}
        /\ smo' = [smo EXCEPT ![t].slave = s]
  BY DEF rlu_header_split
<1>3. s \in Keys /\ s \notin headers /\ m < s /\ \A h \in headers : h <= m \/ s < h
  BY DEF NewKeys
<1>4. ThreadOK(node, headers, registered, root, pc[t], smo[t], p_inner[t])
  BY InvFacts
<1>5. /\ registered \subseteq headers /\ master_root \in DOMAIN node
      /\ Tree(node, root, headers, Hid(pc, smo)) /\ DeadOK(node)
  BY InvFacts
<1>6. smo' = [smo EXCEPT ![t] = [smo[t] EXCEPT !.slave = s]]
  BY <1>2
<1>7. Others(t)
  BY <1>1, <1>6, OthersIs
<1>8. smo[t] = [operator |-> 10, master |-> m, slave |-> smo[t].slave]
  BY <1>1, <1>4, ThreadFacts
<1>9. smo'[t] = [smo[t] EXCEPT !.slave = s] /\ pc'[t] = "find_parent"
  BY <1>1, <1>6, InvFacts DEF OfThreads
<1>10. smo'[t].operator = 10 /\ smo'[t].master = m /\ smo'[t].slave = s
  BY ONLY <1>8, <1>9
<1>11. Lv(10) = 0 /\ 10 \in Operators
  BY OperatorOf
<1>12. s \in Nat /\ m \in Nat /\ headers \in SUBSET Nat
  <2>1. m \in Nat
    BY <1>4, ThreadFacts
  <2>2. QED
    BY <1>3, <1>5, <2>1, KeyFacts, TreeFacts
<1>13. "find_parent" \in HideLocs /\ "find_parent" \in Locs /\ pc[t] \notin HideLocs
  BY <1>1 DEF HideLocs, SplitLocs, MergeLocs, Locs
<1>14. Own(pc[t], smo[t]) = {m} /\ Own(pc'[t], smo'[t]) = {m, s}
  <2>1. Own(pc'[t], smo'[t]) = {m, s}
    BY <1>9, <1>10, <1>13, OwnBoth
  <2>2. Own(pc[t], smo[t]) = {m}
    BY <1>1 DEF Own, HideLocs, SplitLocs, MergeLocs
  <2>3. QED
    BY <2>1, <2>2
<1>15. m \in headers /\ m \in registered
  BY <1>1, <1>11, <1>14, Holds
<1>16. Tree(node', root', headers', Hid(pc', smo'))
  <2>1. \A l \in Nat : Hid(pc', smo')[l] = IF l = 0 THEN Hid(pc, smo)[l] \union {s} ELSE Hid(pc, smo)[l]
    <3>1. pc'[t] \in HideLocs /\ smo'[t].slave \in Nat
      BY ONLY <1>9, <1>10, <1>12, <1>13
    <3>2. \A l \in Nat : Hid(pc', smo')[l] = IF l = Lv(smo'[t].operator)
                                             THEN Hid(pc, smo)[l] \union {smo'[t].slave}
                                             ELSE Hid(pc, smo)[l]
      BY ONLY <1>7, <1>13, <3>1, t \in Threads, HidAdd
    <3>3. Lv(smo'[t].operator) = 0
      BY ONLY <1>10, <1>11
    <3>4. QED
      BY ONLY <1>10, <3>2, <3>3
  <2> DEFINE V == Hid(pc', smo')
             U == Hid(pc, smo)
  <2>2. \A l \in Nat : V[l] = IF l = 0 THEN U[l] \union {s} ELSE U[l]
    BY <2>1
  <2>3. Tree(node, root, headers, U)
    BY <1>5
  <2> HIDE DEF U, V
  <2>4. Tree(node, root, headers \union {s}, V)
    BY <1>3, <2>2, <2>3, HeaderAdded
  <2>5. QED
    BY <1>1, <1>2, <2>4 DEF V
<1>17. ThreadOK(node', headers', registered', root', pc'[t], smo'[t], p_inner'[t])
  <2>1. smo'[t] \in SmoRecord /\ smo'[t].operator \in Operators
    BY <1>8, <1>9, <1>11, <1>12 DEF SmoRecord
  <2>2. OwnOK(node', headers', registered', pc'[t], smo'[t])
    BY <1>2, <1>10, <1>11, <1>14, <1>15 DEF OwnOK, Lev, Reg
  <2>3. Near(node', headers', 0, m, s)
    BY <1>2, <1>3, <1>12 DEF Near, Lev, Key
  <2>4. SmoOK(node', headers', root', pc'[t], smo'[t], p_inner'[t])
    BY <1>9, <1>10, <1>11, <2>3 DEF SmoOK
  <2>5. ParOK(node', pc'[t], smo'[t], p_inner'[t])
    BY <1>1, <1>9, Holds DEF ParOK, MergeLocs
  <2>6. QED
    BY <1>9, <1>13, <2>1, <2>2, <2>4, <2>5 DEF ThreadOK
<1>18. ASSUME NEW u \in Threads, u # t
       PROVE  ThreadOK(node', headers', registered', root', pc[u], smo[u], p_inner[u])
  <2> DEFINE l == Lv(smo[u].operator)
             a == smo[u].master
             b == smo[u].slave
  <2>1. ThreadOK(node, headers, registered, root, pc[u], smo[u], p_inner[u])
    BY InvFacts
  <2>2. ASSUME pc[u] \in HideLocs PROVE Near(node, headers', l, a, b)
    <3>1. Near(node, headers, l, a, b) /\ Own(pc[u], smo[u]) = {a, b}
      BY <2>1, <2>2, ThreadFacts, OwnBoth
    <3>2. CASE l # 0
      BY <3>1, <3>2 DEF Near, Lev
    <3>3. CASE l = 0
      <4>1. a \in headers /\ b \in headers
        BY <3>1, <3>3, Holds
      <4>2. a # m /\ b # m
        BY <1>1, <1>11, <1>14, <1>18, <3>1, <3>3, NotShared
      <4>3. a < b /\ \A c \in headers : c <= a \/ b <= c
        BY <3>1, <3>3 DEF Near, Lev, Key
      <4>4. a \in Nat /\ b \in Nat
        BY <1>12, <4>1
      <4> HIDE DEF a, b, m
      <4>5. s <= a \/ b <= s
        <5>1. a <= m \/ s < a
          BY <1>3, <4>1
        <5>2. m <= a \/ b <= m
          BY <1>15, <4>3
        <5>3. QED
          BY <1>3, <1>12, <4>2, <4>4, <5>1, <5>2
      <4>6. QED
        BY <1>2, <3>3, <4>3, <4>5 DEF Near, Lev, Key
    <3>4. QED
      BY <3>2, <3>3
  <2>3. /\ p_inner[u] # NoNode => node[p_inner[u]].level > 0
        /\ pc[u] = "level_up" => smo[u].master = root /\ Lv(smo[u].operator) = node[root].level
    BY <2>1, Holds, ThreadFacts
  <2>4. \A c \in Own(pc[u], smo[u]) :
          IF Lv(smo[u].operator) = 0 THEN c \in headers' /\ c \in registered'
          ELSE c \in Inn(node) /\ node[c].level = node[c].level /\ node[c].state = node[c].state
    BY <1>2, Holds
  <2>5. ThreadOK(node, headers', registered', root, pc[u], smo[u], p_inner[u])
    BY <2>1, <2>2, <2>3, <2>4, OtherThread
  <2>6. QED
    BY <1>1, <2>5
<1>19. ASSUME NEW u \in Threads, u # t, Lv(smo[u].operator) = Lv(smo'[t].operator),
              NEW c \in Own(pc'[t], smo'[t])
       PROVE  c \notin Own(pc[u], smo[u])
  <2>1. Lv(smo[u].operator) = Lv(smo[t].operator) /\ Lv(smo[u].operator) = 0
    BY <1>1, <1>10, <1>11, <1>19
  <2>2. CASE c = m
    BY <1>14, <1>19, <2>1, <2>2, NotShared
  <2>3. CASE c = s
    BY <1>3, <2>1, <2>3, Holds
  <2>4. QED
    BY <1>14, <1>19, <2>2, <2>3
<1>20. \A n \in Inn(node') : node'[n].state # FREE =>
         \/ Lv(smo'[t].operator) > 0 /\ n \in Own(pc'[t], smo'[t])
         \/ /\ n \in Inn(node) /\ node[n].state # FREE
            /\ ~(Lv(smo[t].operator) > 0 /\ n \in Own(pc[t], smo[t]))
  BY <1>1, <1>11
<1>21. registered' \subseteq headers' /\ master_root' \in DOMAIN node' /\ DeadOK(node')
  BY <1>1, <1>2, <1>5
<1>22. QED
  BY <1>7, <1>16, <1>17, <1>18, <1>19, <1>20, <1>21, Step

\* A partition joins its left neighbour.
LEMMA HeaderMergeKeeps ==
  ASSUME TreeInv, NEW t \in Threads, rlu_header_merge(t)
  PROVE  TreeInv'
<1> DEFINE m == smo[t].master
           s == smo[t].slave
<1>1. /\ pc[t] = "header_merge" /\ headers' = headers \ {s} /\ registered' = registered \ {m, s}
      /\ pc' = [pc EXCEPT ![t] = "level_down"] /\ node' = node /\ root' = root
      /\ master_root' = master_root /\ smo' = smo /\ p_inner' = p_inner
  BY DEF rlu_header_merge, tree, Goto
<1>2. ThreadOK(node, headers, registered, root, pc[t], smo[t], p_inner[t])
  BY InvFacts
<1>3. /\ registered \subseteq headers /\ master_root \in DOMAIN node
      /\ Tree(node, root, headers, Hid(pc, smo)) /\ DeadOK(node)
  BY InvFacts
<1>4. Others(t)
  BY <1>1, OthersIs
<1>5. pc'[t] = "level_down" /\ "level_down" \in EndLocs /\ pc[t] \in HideLocs
  BY <1>1, Wrote DEF EndLocs, HideLocs, MergeLocs
<1>6. /\ smo[t] \in SmoRecord /\ smo[t].operator \in Operators /\ smo[t].operator = -10
      /\ p_inner[t] # NoNode /\ p_inner[t] \in Inn(node)
  BY <1>1, <1>2, ThreadFacts
<1>7. Lv(smo[t].operator) = 0
  BY <1>6, OperatorOf
<1>8. Own(pc[t], smo[t]) = {m, s} /\ Own(pc'[t], smo'[t]) = {} /\ pc'[t] \notin HideLocs
  BY <1>5, OwnBoth, OwnNone
<1>9. ThreadOK(node', headers', registered', root', pc'[t], smo'[t], p_inner'[t])
  BY <1>1, <1>5, <1>6, EndOK
<1>10. Tree(node', root', headers', Hid(pc', smo'))
  <2>1. \A l \in Nat : Hid(pc', smo')[l] = IF l = 0 THEN Hid(pc, smo)[l] \ {s} ELSE Hid(pc, smo)[l]
    BY <1>4, <1>5, <1>7, <1>8, HidDrop
  <2>2. s \in Nat
    BY <1>2, ThreadFacts
  <2>3. s \in Hid(pc, smo)[0]
    BY <1>5, <1>7, <2>2, HidIs
  <2> DEFINE V == Hid(pc', smo')
             U == Hid(pc, smo)
  <2>4. Tree(node, root, headers, U) /\ s \in U[0]
    BY <1>3, <2>3
  <2>5. \A l \in Nat : V[l] = IF l = 0 THEN U[l] \ {s} ELSE U[l]
    BY <2>1
  <2> HIDE DEF U, V
  <2>6. Tree(node, root, headers \ {s}, V)
    BY <2>4, <2>5, HeaderRemoved
  <2>7. QED
    BY <1>1, <2>6 DEF V
<1>11. ASSUME NEW u \in Threads, u # t
       PROVE  ThreadOK(node', headers', registered', root', pc[u], smo[u], p_inner[u])
  <2>1. ThreadOK(node, headers, registered, root, pc[u], smo[u], p_inner[u])
    BY InvFacts
  <2>2. ASSUME pc[u] \in HideLocs
        PROVE  Near(node, headers', Lv(smo[u].operator), smo[u].master, smo[u].slave)
    <3>1. Near(node, headers, Lv(smo[u].operator), smo[u].master, smo[u].slave)
      BY <2>1, <2>2, ThreadFacts
    <3>2. QED
      BY <1>1, <3>1 DEF Near, Lev
  <2>3. /\ p_inner[u] # NoNode => node[p_inner[u]].level > 0
        /\ pc[u] = "level_up" => smo[u].master = root /\ Lv(smo[u].operator) = node[root].level
    BY <2>1, Holds, ThreadFacts
  <2>4. \A c \in Own(pc[u], smo[u]) : Lv(smo[u].operator) = 0 => c \notin {m, s}
    BY <1>7, <1>8, <1>11, NotShared
  <2>5. \A c \in Own(pc[u], smo[u]) :
          IF Lv(smo[u].operator) = 0 THEN c \in headers' /\ c \in registered'
          ELSE c \in Inn(node) /\ node[c].level = node[c].level /\ node[c].state = node[c].state
    BY <1>1, <2>4, Holds
  <2>6. ThreadOK(node, headers', registered', root, pc[u], smo[u], p_inner[u])
    BY <2>1, <2>2, <2>3, <2>5, OtherThread
  <2>7. QED
    BY <1>1, <2>6
<1>12. \A u \in Threads : u # t /\ Lv(smo[u].operator) = Lv(smo'[t].operator) =>
         \A c \in Own(pc'[t], smo'[t]) : c \notin Own(pc[u], smo[u])
  BY <1>8
<1>13. \A n \in Inn(node') : node'[n].state # FREE =>
         \/ Lv(smo'[t].operator) > 0 /\ n \in Own(pc'[t], smo'[t])
         \/ /\ n \in Inn(node) /\ node[n].state # FREE
            /\ ~(Lv(smo[t].operator) > 0 /\ n \in Own(pc[t], smo[t]))
  BY <1>1, <1>7
<1>14. registered' \subseteq headers' /\ master_root' \in DOMAIN node' /\ DeadOK(node')
  BY <1>1, <1>3
<1>15. QED
  BY <1>4, <1>9, <1>10, <1>11, <1>12, <1>13, <1>14, Step

------------------------------------------------------------------------------
(* Partners of a merge.                                                    *)

\* Between two children that are next to each other in a node there is no other
\* that is listed.
LEMMA NoneListedBetween ==
  ASSUME NEW h, NEW r, NEW H, NEW U, Tree(h, r, H, U), NEW p \in Inn(h),
         NEW l \in Nat, h[p].level = l + 1,
         NEW i \in DOMAIN h[p].entries, i + 1 \in DOMAIN h[p].entries,
         NEW c \in Lev(h, H, l), c \notin U[l]
  PROVE  Key(h, l, c) <= h[p].entries[i].key \/ h[p].entries[i + 1].key <= Key(h, l, c)
<1> DEFINE T == h[r].level
           k == Key(h, l, c)
<1>1. /\ Heap(h) /\ T \in Nat /\ NodesOK(h, T) /\ OrderOK(h) /\ k \in Nat
  BY TreeFacts
<1>2. ChildOK(h, H, U) /\ ParentOK(h, T, H, U)
  BY DEF Tree
<1>3. h[p].level \in 1 .. T /\ DOMAIN h[p].entries = 1 .. Len(h[p].entries) /\ Len(h[p].entries) \in Nat
  BY <1>1, InnFacts
<1>4. l \in 0 .. T - 1
  BY <1>1, <1>3
<1>5. PICK n \in Inn(h) : h[n].level = l + 1 /\ Lists(h, n, c)
  BY <1>2, <1>4 DEF ParentOK
<1>6. PICK j \in DOMAIN h[n].entries : h[n].entries[j].child = c
  BY <1>5 DEF Lists
<1>7. h[n].entries[j].key = k
  <2>1. (l + 1) - 1 = l
    OBVIOUS
  <2>2. h[n].entries[j].key = Key(h, h[n].level - 1, h[n].entries[j].child)
    BY <1>2 DEF ChildOK
  <2>3. QED
    BY <1>5, <1>6, <2>1, <2>2
<1>8. Covers(h, n, k)
  BY <1>1, <1>7, EntryInRange
<1>9. Covers(h, p, h[p].entries[i].key) /\ Covers(h, p, h[p].entries[i + 1].key)
  BY <1>1, EntryInRange
<1>10. /\ h[p].min_key \in Nat /\ Right1(h, p) \in Nat
       /\ \A x \in DOMAIN h[p].entries : h[p].entries[x].key \in Nat
       /\ \A d, e \in DOMAIN h[p].entries : d < e => h[p].entries[d].key < h[p].entries[e].key
  BY <1>1, InnFacts
<1>11. ASSUME h[p].entries[i].key < k, k < h[p].entries[i + 1].key PROVE FALSE
  <2>1. h[p].entries[i].key \in Nat /\ h[p].entries[i + 1].key \in Nat
    BY <1>10
  <2> HIDE DEF k
  <2>2. Covers(h, p, k)
    BY <1>1, <1>9, <1>10, <1>11, <2>1 DEF Covers
  <2>3. n = p
    BY <1>1, <1>5, <1>8, <2>2, CoverOnce
  <2>4. j \in DOMAIN h[p].entries /\ h[p].entries[j].key = k
    BY <1>7, <2>3
  <2>5. j <= i \/ i + 1 <= j
    BY <1>3, <2>4
  <2>6. j <= i => h[p].entries[j].key <= h[p].entries[i].key
    <3>1. j < i => h[p].entries[j].key < h[p].entries[i].key
      BY ONLY <1>10, <2>4
    <3>2. j <= i => j < i \/ j = i
      BY ONLY <1>3, <2>4
    <3>3. QED
      BY <1>1, <2>1, <2>4, <3>1, <3>2
  <2>7. i + 1 <= j => h[p].entries[i + 1].key <= h[p].entries[j].key
    <3>1. i + 1 < j => h[p].entries[i + 1].key < h[p].entries[j].key
      BY ONLY <1>10, <2>4, i + 1 \in DOMAIN h[p].entries, SMTT(30)
    <3>2. i + 1 <= j => i + 1 < j \/ i + 1 = j
      BY ONLY <1>3, <2>4, SMTT(30)
    <3>3. QED
      BY <1>1, <2>1, <2>4, <3>1, <3>2
  <2>8. QED
    BY <1>1, <1>11, <2>1, <2>4, <2>5, <2>6, <2>7
<1>12. QED
  BY <1>1, <1>10, <1>11

\* Where a merge finds its partner: an entry next to the master's.
LEMMA PartnerEntry ==
  ASSUME TreeInv, NEW t \in Threads, pc[t] = "idle", smo[t].operator < 0,
         NEW l, l = Lv(smo[t].operator), NEW L, L = l + 1, L <= node[root].level,
         NEW k, k = Key(node, l, smo[t].master),
         NEW p, p = DescendTo(L, k), NEW e, e = EntryFor(p, k), count(p) > 1,
         NEW q, q = PartnerOf(p, e), NEW i, i = Lesser(e, q),
         NEW es, es = node[p].entries
  PROVE  /\ l \in Nat /\ p \in Inn(node) /\ node[p].level = l + 1
         /\ i \in DOMAIN es /\ i + 1 \in DOMAIN es /\ i + 1 # 1 /\ q \in DOMAIN es
         /\ es[e].child = smo[t].master /\ ((i = e /\ i + 1 = q) \/ (i = q /\ i + 1 = e))
         /\ smo[t].master \in Own(pc[t], smo[t])
<1>1. ThreadOK(node, headers, registered, root, pc[t], smo[t], p_inner[t])
  BY InvFacts
<1>2. Tree(node, root, headers, Hid(pc, smo))
  BY InvFacts
<1>3. l \in Nat /\ smo[t].operator # 0
  <2>1. /\ Lv(smo[t].operator) \in Nat /\ smo[t].operator \in Int
        /\ smo[t].operator = 0 => Lv(smo[t].operator) = 0
    BY ONLY <1>1, ThreadFacts
  <2>2. QED
    BY <2>1
<1>4. pc[t] \notin HideLocs /\ smo[t].master \in Own(pc[t], smo[t])
  BY <1>3 DEF Own, HideLocs, SplitLocs, MergeLocs
<1>5. smo[t].master \in Lev(node, headers, l) /\ smo[t].master \notin Hid(pc, smo)[l]
  BY <1>4, OwnedListed
<1>6. node[root].level \in Nat
  BY ONLY <1>2, TreeFacts
<1>7. L \in 1 .. node[root].level /\ L - 1 = l
  BY ONLY <1>3, <1>6, L = l + 1, L <= node[root].level, SMTT(30)
<1>8. /\ p \in Inn(node) /\ node[p].level = L /\ e \in DOMAIN es /\ es[e].child = smo[t].master
  <2>1. LET kk == Key(node, L - 1, smo[t].master)
            pp == DescendTo(L, kk)
        IN  /\ pp \in Inn(node) /\ node[pp].level = L
            /\ EntryFor(pp, kk) \in DOMAIN node[pp].entries
            /\ node[pp].entries[EntryFor(pp, kk)].child = smo[t].master
            /\ node[pp].entries[EntryFor(pp, kk)].key = kk
    BY <1>2, <1>5, <1>7, FindsEntry
  <2>2. QED
    BY ONLY <1>7, <2>1, k = Key(node, l, smo[t].master), p = DescendTo(L, k),
            e = EntryFor(p, k), es = node[p].entries
<1>9. Heap(node)
  BY <1>2, TreeFacts
<1>10. DOMAIN es = 1 .. Len(es) /\ Len(es) \in Nat
  <2>1. p \in DOMAIN node
    BY <1>8 DEF Inn
  <2>2. QED
    BY <1>9, <2>1, HeapFacts
<1>11. Len(es) > 1 /\ q = (IF e < Len(es) THEN e + 1 ELSE e - 1) /\ i = (IF e < q THEN e ELSE q)
  BY ONLY es = node[p].entries, count(p) > 1, q = PartnerOf(p, e), i = Lesser(e, q)
     DEF count, PartnerOf, Lesser
<1>12. /\ q \in DOMAIN es /\ i \in DOMAIN es /\ i + 1 \in DOMAIN es /\ i + 1 # 1
       /\ ((i = e /\ i + 1 = q) \/ (i = q /\ i + 1 = e))
  <2>1. /\ e \in 1 .. Len(es) /\ Len(es) \in Nat /\ Len(es) > 1
        /\ q = (IF e < Len(es) THEN e + 1 ELSE e - 1) /\ i = (IF e < q THEN e ELSE q)
    BY ONLY <1>8, <1>10, <1>11
  <2> DEFINE n == Len(es)
  <2>2. /\ e \in 1 .. n /\ n \in Nat /\ n > 1
        /\ q = (IF e < n THEN e + 1 ELSE e - 1) /\ i = (IF e < q THEN e ELSE q)
    BY ONLY <2>1
  <2> HIDE DEF n
  <2>3. q \in 1 .. n /\ i \in 1 .. n /\ i + 1 \in 1 .. n /\ i + 1 # 1
        /\ ((i = e /\ i + 1 = q) \/ (i = q /\ i + 1 = e))
    BY ONLY <2>2
  <2>4. QED
    BY ONLY <1>10, <2>3 DEF n
<1>13. QED
  BY <1>3, <1>4, <1>8, <1>12

\* Neighbours in a parent are neighbours on their level, when nobody else has one
\* of them.
LEMMA PartnersNear ==
  ASSUME TreeInv, NEW l \in Nat, NEW p \in Inn(node), node[p].level = l + 1,
         NEW i \in DOMAIN node[p].entries, i + 1 \in DOMAIN node[p].entries,
         NEW a, a = node[p].entries[i].child, NEW b, b = node[p].entries[i + 1].child,
         \A u \in Threads : pc[u] \in HideLocs /\ Lv(smo[u].operator) = l =>
           a \notin Own(pc[u], smo[u])
  PROVE  /\ Near(node, headers, l, a, b) /\ a # b
         /\ a \in Lev(node, headers, l) /\ b \in Lev(node, headers, l)
<1> DEFINE U == Hid(pc, smo)
           T == node[root].level
           ka == Key(node, l, a)
           kb == Key(node, l, b)
<1>1. Tree(node, root, headers, U)
  BY InvFacts
<1>2. Heap(node) /\ T \in Nat /\ NodesOK(node, T)
  BY <1>1, TreeFacts
<1>3. /\ DOMAIN node[p].entries = 1 .. Len(node[p].entries) /\ Len(node[p].entries) \in Nat
      /\ \A d, e \in DOMAIN node[p].entries : d < e => node[p].entries[d].key < node[p].entries[e].key
  BY <1>2, InnFacts
<1>4. ASSUME NEW j \in DOMAIN node[p].entries
      PROVE  /\ node[p].entries[j].child \in Lev(node, headers, l)
             /\ node[p].entries[j].child \notin U[l]
             /\ node[p].entries[j].key = Key(node, l, node[p].entries[j].child)
  <2>1. ChildOK(node, headers, U)
    BY <1>1 DEF Tree
  <2>2. (l + 1) - 1 = l
    OBVIOUS
  <2>3. LET c == node[p].entries[j].child
            x == node[p].level - 1
        IN  c \in Lev(node, headers, x) /\ c \notin U[x] /\ node[p].entries[j].key = Key(node, x, c)
    BY <2>1 DEF ChildOK
  <2>4. QED
    BY <2>2, <2>3
<1>5. /\ a \in Lev(node, headers, l) /\ b \in Lev(node, headers, l) /\ a \notin U[l]
      /\ node[p].entries[i].key = ka /\ node[p].entries[i + 1].key = kb
  BY <1>4
<1>6. i < i + 1
  BY <1>3
<1>7. ka < kb
  BY <1>3, <1>5, <1>6
<1>8. ka \in Nat /\ kb \in Nat
  BY <1>1, <1>5, TreeFacts
<1> HIDE DEF ka, kb
<1>9. ASSUME NEW c \in Lev(node, headers, l), c \notin U[l]
      PROVE  Key(node, l, c) <= ka \/ kb <= Key(node, l, c)
  BY <1>1, <1>5, <1>9, NoneListedBetween
<1>10. ASSUME NEW c \in Lev(node, headers, l), c \in U[l]
       PROVE  Key(node, l, c) <= ka \/ kb <= Key(node, l, c)
  <2> DEFINE k == Key(node, l, c)
  <2>1. PICK u \in Threads :
          /\ pc[u] \in HideLocs /\ Lv(smo[u].operator) = l /\ smo[u].slave = c
          /\ smo[u].master \in Own(pc[u], smo[u])
          /\ Near(node, headers, l, smo[u].master, c)
    BY <1>10, HidOwned
  <2> DEFINE x == smo[u].master
             kx == Key(node, l, x)
  <2>2. x \in Lev(node, headers, l) /\ x \notin U[l]
    BY <2>1, OwnedListed
  <2>3. kx < k /\ (ka <= kx \/ k <= ka)
    BY <1>5, <2>1 DEF Near, ka
  <2>4. kx <= ka \/ kb <= kx
    BY <1>9, <2>2
  <2>5. kx \in Nat /\ k \in Nat
    BY <1>1, <2>2, TreeFacts
  <2> HIDE DEF kx, k
  <2>6. ASSUME ka < k, k < kb PROVE FALSE
    <3>1. kx = ka
      BY <1>8, <2>3, <2>4, <2>5, <2>6
    <3>2. PICK n \in Inn(node) : node[n].level = l + 1 /\ Lists(node, n, x)
      <4>1. ParentOK(node, T, headers, U)
        BY <1>1 DEF Tree
      <4>2. l \in 0 .. T - 1
        BY <1>2, InnFacts
      <4>3. QED
        BY <2>2, <4>1, <4>2 DEF ParentOK
    <3>3. PICK j \in DOMAIN node[n].entries : node[n].entries[j].child = x
      BY <3>2 DEF Lists
    <3>4. node[n].entries[j].key = kx
      <4>1. ChildOK(node, headers, U)
        BY <1>1 DEF Tree
      <4>2. (l + 1) - 1 = l
        OBVIOUS
      <4>3. node[n].entries[j].key = Key(node, node[n].level - 1, node[n].entries[j].child)
        BY <4>1 DEF ChildOK
      <4>4. QED
        BY <3>2, <3>3, <4>2, <4>3 DEF kx
    <3>5. node[n].entries[j].key = node[p].entries[i].key
      BY <1>5, <3>1, <3>4
    <3>6. n = p /\ j = i
      BY <1>1, <3>2, <3>5, ListedOnce
    <3>7. x = a
      BY <3>3, <3>6
    <3>8. QED
      BY <2>1, <3>7
  <2>7. QED
    BY <1>8, <2>5, <2>6 DEF k
<1>11. a # b
  BY <1>7, <1>8 DEF ka, kb
<1>12. Near(node, headers, l, a, b)
  BY <1>7, <1>9, <1>10 DEF Near, ka, kb
<1>13. QED
  BY <1>5, <1>11, <1>12

\* Heap g is h with other entries, or another state, of node p.
WithEntries(g, h, p, es) == g = [h EXCEPT ![p].entries = es]
WithState(g, h, p, st) == g = [h EXCEPT ![p].state = st]

\* A node's entries are written.
LEMMA EntriesWritten ==
  ASSUME NEW h, Heap(h), NEW p \in DOMAIN h, NEW es \in Seq(EntryRecord),
         NEW g, WithEntries(g, h, p, es)
  PROVE  /\ Heap(g) /\ Shape(g, h) /\ g[p].entries = es
         /\ \A n \in DOMAIN h : g[n].state = h[n].state
         /\ \A n \in DOMAIN h : n # p => g[n].entries = h[n].entries
<1>1. Len(h) \in Nat /\ DOMAIN h = 1 .. Len(h) /\ \A n \in DOMAIN h : h[n] \in NodeRecord
  BY HeapFacts
<1>2. DOMAIN g = DOMAIN h /\ \A n \in DOMAIN h : n # p => g[n] = h[n]
  BY <1>1 DEF WithEntries
<1>3. g[p] = [h[p] EXCEPT !.entries = es]
  BY <1>1 DEF WithEntries
<1>4. /\ g[p] \in NodeRecord /\ g[p].entries = es /\ g[p].state = h[p].state
      /\ g[p].level = h[p].level /\ g[p].min_key = h[p].min_key /\ g[p].next = h[p].next
  BY <1>1, <1>3 DEF NodeRecord
<1>5. \A n \in DOMAIN h :
        /\ g[n] \in NodeRecord /\ g[n].state = h[n].state
        /\ g[n].level = h[n].level /\ g[n].min_key = h[n].min_key /\ g[n].next = h[n].next
  BY <1>1, <1>2, <1>4
<1>6. g \in Seq(NodeRecord)
  <2>1. g = [n \in 1 .. Len(h) |-> g[n]]
    BY <1>1, <1>2 DEF WithEntries
  <2>2. g \in [1 .. Len(h) -> NodeRecord]
    BY <1>1, <1>5, <2>1
  <2>3. QED
    BY <1>1, <2>2
<1>7. Shape(g, h)
  BY <1>2, <1>5 DEF Shape
<1>8. Heap(g)
  BY <1>2, <1>5, <1>6 DEF Heap
<1>9. QED
  BY <1>2, <1>4, <1>5, <1>7, <1>8

\* A node's state is written.
LEMMA StateWritten ==
  ASSUME NEW h, Heap(h), NEW p \in DOMAIN h, NEW st \in {MERGE_REGIST, FREE, SPLIT_REGIST},
         NEW g, WithState(g, h, p, st)
  PROVE  /\ Heap(g) /\ Shape(g, h) /\ g[p].state = st
         /\ \A n \in DOMAIN h : g[n].entries = h[n].entries
         /\ \A n \in DOMAIN h : n # p => g[n].state = h[n].state
<1>1. Len(h) \in Nat /\ DOMAIN h = 1 .. Len(h) /\ \A n \in DOMAIN h : h[n] \in NodeRecord
  BY HeapFacts
<1>2. DOMAIN g = DOMAIN h /\ \A n \in DOMAIN h : n # p => g[n] = h[n]
  BY <1>1 DEF WithState
<1>3. g[p] = [h[p] EXCEPT !.state = st]
  BY <1>1 DEF WithState
<1>4. /\ g[p] \in NodeRecord /\ g[p].entries = h[p].entries /\ g[p].state = st
      /\ g[p].level = h[p].level /\ g[p].min_key = h[p].min_key /\ g[p].next = h[p].next
  BY <1>1, <1>3 DEF NodeRecord
<1>5. \A n \in DOMAIN h :
        /\ g[n] \in NodeRecord /\ g[n].entries = h[n].entries
        /\ g[n].level = h[n].level /\ g[n].min_key = h[n].min_key /\ g[n].next = h[n].next
  BY <1>1, <1>2, <1>4
<1>6. g \in Seq(NodeRecord)
  <2>1. g = [n \in 1 .. Len(h) |-> g[n]]
    BY <1>1, <1>2 DEF WithState
  <2>2. g \in [1 .. Len(h) -> NodeRecord]
    BY <1>1, <1>5, <2>1
  <2>3. QED
    BY <1>1, <2>2
<1>7. Shape(g, h)
  BY <1>2, <1>5 DEF Shape
<1>8. Heap(g)
  BY <1>2, <1>5, <1>6 DEF Heap
<1>9. QED
  BY <1>2, <1>4, <1>5, <1>7, <1>8

\* Entries i and i + 1 of p are the master of t's merge and its partner x, which
\* is nobody else's.
Found(t, l, p, i, x, a, b) ==
  /\ pc[t] = "idle" /\ smo[t].operator < 0 /\ l = Lv(smo[t].operator) /\ l \in Nat
  /\ p \in Inn(node) /\ node[p].level = l + 1
  /\ i \in DOMAIN node[p].entries /\ i + 1 \in DOMAIN node[p].entries /\ i + 1 # 1
  /\ a = node[p].entries[i].child /\ b = node[p].entries[i + 1].child
  /\ \/ a = smo[t].master /\ b = x
     \/ a = x /\ b = smo[t].master
  /\ smo[t].master \in Own(pc[t], smo[t])
  /\ \A u \in Threads : u # t /\ Lv(smo[u].operator) = l => x \notin Own(pc[u], smo[u])

\* The partner is registered, and the right one of the two leaves the parent.
Taken(l, p, i, x) ==
  /\ Shape(node', node) /\ Heap(node') /\ node'[p].entries = RemoveEntry(node[p].entries, i + 1)
  /\ \A n \in DOMAIN node : n # p => node'[n].entries = node[n].entries
  /\ root' = root /\ master_root' = master_root /\ headers' = headers
  /\ registered' \subseteq headers /\ registered \subseteq registered'
  /\ l = 0 => x \in registered' /\ x \notin registered
  /\ l > 0 => node'[x].state = MERGE_REGIST /\ node[x].state = FREE
  /\ \A n \in DOMAIN node : node'[n].state # node[n].state => l > 0 /\ n = x

\* The thread goes on with the two of them.
GoesOn(t, l, p, a, b) ==
  /\ smo' = [smo EXCEPT ![t] = [operator |-> smo[t].operator, master |-> a, slave |-> b]]
  /\ p_inner' = [p_inner EXCEPT ![t] = p]
  /\ pc' = [pc EXCEPT ![t] = IF l = 0 THEN "header_merge" ELSE "inner_merge"]

\* A merge begins: the two are neighbours, and nobody else has one of them.
LEMMA MergeBegins ==
  ASSUME TreeInv, NEW t \in Threads, NEW l, NEW p, NEW i, NEW x, NEW a, NEW b,
         Found(t, l, p, i, x, a, b), Taken(l, p, i, x), GoesOn(t, l, p, a, b)
  PROVE  TreeInv'
<1> DEFINE m == smo[t].master
           op == smo[t].operator
           loc == IF l = 0 THEN "header_merge" ELSE "inner_merge"
<1>1. /\ l \in Nat /\ p \in Inn(node) /\ node[p].level = l + 1
      /\ i \in DOMAIN node[p].entries /\ i + 1 \in DOMAIN node[p].entries /\ i + 1 # 1
      /\ a = node[p].entries[i].child /\ b = node[p].entries[i + 1].child
  BY DEF Found
<1>2. (a = m /\ b = x) \/ (a = x /\ b = m)
  BY DEF Found
<1>3. "idle" \notin HideLocs /\ pc[t] \notin HideLocs /\ pc[t] = "idle" /\ op < 0 /\ l = Lv(op)
  BY DEF HideLocs, SplitLocs, MergeLocs, Found
<1>4. m \in Own(pc[t], smo[t]) /\ \A u \in Threads : u # t /\ Lv(smo[u].operator) = l =>
                                    m \notin Own(pc[u], smo[u]) /\ x \notin Own(pc[u], smo[u])
  BY <1>3, NotShared DEF Found
<1>5. \A u \in Threads : pc[u] \in HideLocs /\ Lv(smo[u].operator) = l => a \notin Own(pc[u], smo[u])
  BY ONLY <1>2, <1>3, <1>4
<1>6. /\ Near(node, headers, l, a, b) /\ a # b
      /\ a \in Lev(node, headers, l) /\ b \in Lev(node, headers, l)
  BY ONLY TreeInv, <1>1, <1>5, PartnersNear
<1>7. Tree(node, root, headers, Hid(pc, smo)) /\ registered \subseteq headers /\ master_root \in DOMAIN node
  BY ONLY TreeInv, InvFacts
<1>8. ThreadOK(node, headers, registered, root, pc[t], smo[t], p_inner[t])
  BY ONLY TreeInv, t \in Threads, InvFacts
<1>9. op \in Operators /\ op \in Int /\ (op < 0 => op = -10 - l)
  BY ONLY <1>3, <1>8, ThreadFacts
<1>10. a \in Nat /\ b \in Nat
  BY ONLY <1>1, <1>6, <1>7, TreeFacts
<1>11. smo'[t] = [operator |-> op, master |-> a, slave |-> b] /\ pc'[t] = loc /\ p_inner'[t] = p
  BY InvFacts DEF OfThreads, GoesOn
<1>12. Others(t)
  BY OthersIs DEF GoesOn
<1>13. loc \in HideLocs /\ loc \in Locs /\ loc \in MergeLocs
  BY DEF HideLocs, MergeLocs, Locs
<1>14. smo'[t].operator = op /\ smo'[t].master = a /\ smo'[t].slave = b
  BY ONLY <1>11
<1>15. Own(pc'[t], smo'[t]) = {a, b} /\ Own(loc, smo'[t]) = {a, b}
  BY ONLY <1>11, <1>13, <1>14, OwnBoth
<1>16. Heap(node) /\ p \in DOMAIN node
  BY <1>1, <1>7, TreeFacts DEF Inn
<1>17. /\ Shape(node', node) /\ Heap(node') /\ node'[p].entries = RemoveEntry(node[p].entries, i + 1)
       /\ \A n \in DOMAIN node : n # p => node'[n].entries = node[n].entries
       /\ root' = root /\ master_root' = master_root /\ headers' = headers
       /\ registered' \subseteq headers /\ registered \subseteq registered'
  BY DEF Taken
<1>18. /\ l = 0 => x \in registered' /\ x \notin registered
       /\ l > 0 => node'[x].state = MERGE_REGIST /\ node[x].state = FREE
       /\ \A n \in DOMAIN node : node'[n].state # node[n].state => l > 0 /\ n = x
  BY DEF Taken
<1>19. /\ Inn(node') = Inn(node)
       /\ Lev(node', headers, l) = Lev(node, headers, l)
       /\ \A c \in Lev(node, headers, l) : Key(node', l, c) = Key(node, l, c)
  BY ONLY <1>16, <1>17, ShapeKept
<1>20. node'[p].level = node[p].level
  BY ONLY <1>16, <1>17 DEF Shape
<1>21. x \in Lev(node, headers, l) /\ m \in Lev(node, headers, l)
  BY ONLY <1>2, <1>6
<1>22. l > 0 => x \in Inn(node) /\ x \in DOMAIN node
  BY <1>1, <1>7, <1>21, TreeFacts DEF Inn
<1> HIDE DEF m, op, loc
<1>23. Tree(node', root', headers', Hid(pc', smo'))
  <2>1. pc'[t] \in HideLocs /\ smo'[t].slave \in Nat /\ Lv(smo'[t].operator) = l
    BY ONLY <1>3, <1>10, <1>11, <1>13, <1>14
  <2>2. \A j \in Nat : Hid(pc', smo')[j] = IF j = Lv(smo'[t].operator)
                                             THEN Hid(pc, smo)[j] \union {smo'[t].slave}
                                             ELSE Hid(pc, smo)[j]
    BY ONLY <1>3, <1>12, <2>1, t \in Threads, HidAdd
  <2>3. (l + 1) - 1 = l
    BY ONLY <1>1
  <2>4. \A j \in Nat : Hid(pc', smo')[j] = IF j = node[p].level - 1
                                             THEN Hid(pc, smo)[j] \union {node[p].entries[i + 1].child}
                                             ELSE Hid(pc, smo)[j]
    BY ONLY <1>1, <1>14, <2>1, <2>2, <2>3
  <2> DEFINE V == Hid(pc', smo')
             U == Hid(pc, smo)
             ii == i + 1
  <2>5. \A j \in Nat : V[j] = IF j = node[p].level - 1 THEN U[j] \union {node[p].entries[ii].child} ELSE U[j]
    BY ONLY <2>4
  <2>6. Tree(node, root, headers, U) /\ ii \in DOMAIN node[p].entries /\ ii # 1
    BY ONLY <1>1, <1>7
  <2>7. node'[p].entries = RemoveEntry(node[p].entries, ii)
    BY ONLY <1>17
  <2> HIDE DEF U, V, ii
  <2>8. Tree(node', root, headers, V)
    <3>1. p \in Inn(node) /\ Heap(node') /\ Shape(node', node)
      BY ONLY <1>1, <1>17
    <3>2. \A n \in DOMAIN node : n # p => node'[n].entries = node[n].entries
      BY ONLY <1>17
    <3>3. QED
      BY ONLY <2>5, <2>6, <2>7, <3>1, <3>2, EntryRemoved
  <2>9. QED
    BY ONLY <1>17, <2>8 DEF V
<1>24. ThreadOK(node', headers', registered', root', pc'[t], smo'[t], p_inner'[t])
  <2>1. smo'[t] \in SmoRecord /\ smo'[t].operator \in Operators
    BY ONLY <1>9, <1>10, <1>11 DEF SmoRecord
  <2>2. Reg(node', registered', l, x, op)
    BY ONLY <1>1, <1>3, <1>9, <1>18 DEF Reg
  <2>3. Reg(node', registered', l, m, op)
    <3>1. l = 0 => m \in registered
      BY ONLY <1>3, <1>4, TreeInv, t \in Threads, Holds DEF m, op
    <3>2. l # 0 => m \in DOMAIN node /\ node[m].state = IF op > 0 THEN SPLIT_REGIST ELSE MERGE_REGIST
      BY ONLY <1>3, <1>4, TreeInv, t \in Threads, Holds DEF m, op
    <3>3. l # 0 => node'[m].state = MERGE_REGIST
      BY ONLY <1>1, <1>3, <1>9, <1>18, <3>2
    <3>4. QED
      BY ONLY <1>3, <1>9, <1>17, <3>1, <3>3 DEF Reg
  <2>4. \A c \in {a, b} : Reg(node', registered', l, c, op)
    BY ONLY <1>2, <2>2, <2>3
  <2>5. OwnOK(node', headers', registered', pc'[t], smo'[t])
    BY ONLY <1>3, <1>6, <1>14, <1>15, <1>17, <1>19, <2>4 DEF OwnOK
  <2>6. Near(node', headers', l, a, b)
    BY ONLY <1>6, <1>17, <1>19 DEF Near
  <2>7. (loc = "header_merge" => op = -10) /\ (loc = "inner_merge" => op < -10)
    BY ONLY <1>1, <1>3, <1>9 DEF loc
  <2>8. loc \notin SplitLocs \union {"release"} /\ loc \notin {"idle", "release_master", "level_up"}
    BY ONLY DEF SplitLocs, loc
  <2>9. SmoOK(node', headers', root', loc, smo'[t], p)
    BY ONLY <1>3, <1>14, <2>6, <2>7, <2>8 DEF SmoOK
  <2>10. ParOK(node', loc, smo'[t], p)
    <3>1. p # NoNode
      BY ONLY <1>16, HeapFacts DEF NoNode
    <3>2. QED
      BY ONLY <1>1, <1>3, <1>14, <1>19, <1>20, <3>1 DEF ParOK
  <2>11. QED
    BY ONLY <1>11, <1>13, <2>1, <2>5, <2>9, <2>10 DEF ThreadOK
<1>25. m \in Own(pc'[t], smo'[t]) /\ x \in Own(pc'[t], smo'[t]) /\ Lv(smo'[t].operator) = l
       /\ (\A c \in Own(pc'[t], smo'[t]) : c = m \/ c = x) /\ (l = 0 \/ l > 0)
  BY ONLY <1>1, <1>2, <1>3, <1>14, <1>15
<1>26. \A c \in Own(pc'[t], smo'[t]) :
         \/ Lv(smo'[t].operator) = Lv(smo[t].operator) /\ c \in Own(pc[t], smo[t])
         \/ Lv(smo'[t].operator) = 0 /\ c \notin registered
         \/ Lv(smo'[t].operator) > 0 /\ node[c].state = FREE
  BY ONLY <1>3, <1>4, <1>18, <1>25 DEF op
<1>27. Own(pc[t], smo[t]) \subseteq {m}
  BY ONLY <1>3 DEF Own, HideLocs, SplitLocs, MergeLocs, m
<1>28. \A n \in Inn(node) : node'[n].state # FREE =>
         \/ Lv(smo'[t].operator) > 0 /\ n \in Own(pc'[t], smo'[t])
         \/ node[n].state # FREE /\ ~(Lv(smo[t].operator) > 0 /\ n \in Own(pc[t], smo[t]))
  <2>1. \A n \in Inn(node) : n \in DOMAIN node
    BY DEF Inn
  <2>2. QED
    BY ONLY <1>3, <1>18, <1>25, <1>27, <2>1 DEF op
<1>29. \A n \in DOMAIN node : node'[n].state # node[n].state =>
         \/ Lv(smo[t].operator) > 0 /\ n \in Own(pc[t], smo[t])
         \/ n \in Inn(node) /\ node[n].state = FREE
  BY ONLY <1>18, <1>22
<1>30. \A c \in registered : c \in registered' \/ (Lv(smo[t].operator) = 0 /\ c \in Own(pc[t], smo[t]))
  BY ONLY <1>17
<1>31. master_root' \in DOMAIN node
  BY ONLY <1>7, <1>17
<1>32. QED
  BY ONLY <1>12, <1>17, <1>23, <1>24, <1>26, <1>28, <1>29, <1>30, <1>31, TreeInv, t \in Threads, SteadyStep

\* A p_smo with another master and slave.
WithPair(f, t, a, b) == f = [smo EXCEPT ![t].master = a, ![t].slave = b]
LEMMA PairWritten ==
  ASSUME TreeInv, NEW t \in Threads, NEW a, NEW b, NEW F, WithPair(F, t, a, b)
  PROVE  F = [smo EXCEPT ![t] = [operator |-> smo[t].operator, master |-> a, slave |-> b]]
<1> DEFINE g == [smo EXCEPT ![t].master = a, ![t].slave = b]
           f == [smo EXCEPT ![t] = [operator |-> smo[t].operator, master |-> a, slave |-> b]]
<1>1. OfThreads(smo)
  BY InvFacts
<1>2. DOMAIN smo = Threads
  BY ONLY <1>1 DEF OfThreads
<1>3. DOMAIN g = Threads /\ DOMAIN f = Threads
  BY ONLY <1>2
<1>4. \A u \in Threads : u # t => g[u] = f[u]
  BY ONLY <1>2
<1>5. smo[t] \in SmoRecord
  BY Holds
<1>6. g[t] = [[smo[t] EXCEPT !.master = a] EXCEPT !.slave = b]
  BY ONLY <1>2, t \in Threads
<1>7. f[t] = [operator |-> smo[t].operator, master |-> a, slave |-> b]
  BY ONLY <1>2, t \in Threads
<1>8. g[t] = f[t]
  BY ONLY <1>5, <1>6, <1>7 DEF SmoRecord
<1>9. \A u \in Threads : g[u] = f[u]
  BY ONLY <1>4, <1>8
<1>10. g = [u \in Threads |-> g[u]] /\ f = [u \in Threads |-> f[u]]
  BY ONLY <1>3
<1> HIDE DEF f, g
<1>11. f = g
  BY ONLY <1>9, <1>10
<1>12. QED
  BY ONLY <1>11, WithPair(F, t, a, b) DEF f, g, WithPair

\* The entries left are entries.
LEMMA RemainingEntries ==
  ASSUME TreeInv, NEW p \in Inn(node), NEW i \in DOMAIN node[p].entries, i # 1
  PROVE  /\ RemoveEntry(node[p].entries, i) \in Seq(EntryRecord)
         /\ Heap(node) /\ p \in DOMAIN node
<1>1. Tree(node, root, headers, Hid(pc, smo))
  BY InvFacts
<1>2. Heap(node) /\ node[root].level \in Nat /\ NodesOK(node, node[root].level)
  BY <1>1, TreeFacts
<1>3. node[p].entries \in Seq(EntryRecord) /\ Increasing(node[p].entries)
  BY <1>2, InnFacts DEF Increasing
<1>4. QED
  BY <1>2, <1>3, RemovedIs DEF Inn

\* A merge of partitions begins.
LEMMA HeaderPartnerSearchKeeps ==
  ASSUME TreeInv, NEW t \in Threads, rlu_header_partner_search(t)
  PROVE  TreeInv'
<1> DEFINE p == HeaderParent(t)
           e == EntryFor(p, smo[t].master)
           q == PartnerOf(p, e)
           i == Lesser(e, q)
           x == node[p].entries[q].child
           a == node[p].entries[i].child
           b == node[p].entries[i + 1].child
<1>1. /\ pc[t] = "idle" /\ smo[t].operator = -10 /\ count(p) > 1 /\ x \notin registered
      /\ registered' = registered \union {x}
      /\ smo' = [smo EXCEPT ![t].master = a, ![t].slave = b]
      /\ node' = [node EXCEPT ![p].entries = RemoveEntry(node[p].entries, i + 1)]
      /\ p_inner' = [p_inner EXCEPT ![t] = p]
      /\ pc' = [pc EXCEPT ![t] = "header_merge"]
      /\ root' = root /\ master_root' = master_root /\ headers' = headers
  BY DEF rlu_header_partner_search, Goto
<1>2. p = DescendTo(1, smo[t].master)
  BY DEF HeaderParent
<1>3. Lv(smo[t].operator) = 0 /\ smo[t].operator < 0
  BY <1>1, OperatorOf
<1>4. Tree(node, root, headers, Hid(pc, smo)) /\ registered \subseteq headers
  BY InvFacts
<1>5. 1 <= node[root].level
  BY <1>4, TreeFacts
<1>6. Key(node, 0, smo[t].master) = smo[t].master
  BY DEF Key
<1>7. e = EntryFor(p, smo[t].master) /\ q = PartnerOf(p, e) /\ i = Lesser(e, q) /\ 1 = 0 + 1
  OBVIOUS
<1>8. x = node[p].entries[q].child /\ a = node[p].entries[i].child /\ b = node[p].entries[i + 1].child
  OBVIOUS
<1> HIDE DEF p, e, q, i, x, a, b
<1>9. /\ p \in Inn(node) /\ node[p].level = 0 + 1
      /\ i \in DOMAIN node[p].entries /\ i + 1 \in DOMAIN node[p].entries /\ i + 1 # 1
      /\ node[p].entries[e].child = smo[t].master /\ ((i = e /\ i + 1 = q) \/ (i = q /\ i + 1 = e))
      /\ smo[t].master \in Own(pc[t], smo[t])
  BY ONLY TreeInv, t \in Threads, <1>1, <1>2, <1>3, <1>5, <1>6, <1>7, PartnerEntry
<1>10. (a = smo[t].master /\ b = x) \/ (a = x /\ b = smo[t].master)
  BY ONLY <1>8, <1>9
<1>11. \A u \in Threads : u # t /\ Lv(smo[u].operator) = 0 => x \notin Own(pc[u], smo[u])
  BY <1>1, Holds
<1>12. Found(t, 0, p, i, x, a, b)
  BY ONLY <1>1, <1>3, <1>8, <1>9, <1>10, <1>11 DEF Found
<1>13. RemoveEntry(node[p].entries, i + 1) \in Seq(EntryRecord) /\ Heap(node) /\ p \in DOMAIN node
  BY ONLY TreeInv, <1>9, RemainingEntries
<1>14. /\ Heap(node') /\ Shape(node', node) /\ node'[p].entries = RemoveEntry(node[p].entries, i + 1)
       /\ \A n \in DOMAIN node : node'[n].state = node[n].state
       /\ \A n \in DOMAIN node : n # p => node'[n].entries = node[n].entries
  <2>1. WithEntries(node', node, p, RemoveEntry(node[p].entries, i + 1))
    BY ONLY <1>1 DEF WithEntries
  <2>2. QED
    BY ONLY <1>13, <2>1, EntriesWritten
<1>15. x \in headers
  <2>1. Near(node, headers, 0, a, b) \/ TRUE
    OBVIOUS
  <2>2. ChildOK(node, headers, Hid(pc, smo))
    BY ONLY <1>4 DEF Tree
  <2>3. q \in DOMAIN node[p].entries
    BY ONLY <1>9
  <2>4. x \in Lev(node, headers, node[p].level - 1)
    BY ONLY <1>8, <1>9, <2>2, <2>3 DEF ChildOK
  <2>5. node[p].level - 1 = 0
    BY ONLY <1>9
  <2>6. QED
    BY ONLY <2>4, <2>5 DEF Lev
<1>16. Taken(0, p, i, x)
  BY ONLY <1>1, <1>4, <1>14, <1>15 DEF Taken
<1>17. smo' = [smo EXCEPT ![t] = [operator |-> smo[t].operator, master |-> a, slave |-> b]]
  <2>1. WithPair(smo', t, a, b)
    BY ONLY <1>1 DEF WithPair
  <2>2. QED
    BY ONLY <2>1, TreeInv, t \in Threads, PairWritten
<1>18. GoesOn(t, 0, p, a, b)
  BY ONLY <1>1, <1>17 DEF GoesOn
<1>19. QED
  BY ONLY TreeInv, t \in Threads, <1>12, <1>16, <1>18, MergeBegins

\* A merge of inner nodes begins.
LEMMA InnerPartnerSearchKeeps ==
  ASSUME TreeInv, NEW t \in Threads, rlu_inner_partner_search(t)
  PROVE  TreeInv'
<1> DEFINE l == Lv(smo[t].operator)
           k == Key(node, l, smo[t].master)
           p == MergeParent(t)
           e == EntryFor(p, k)
           q == PartnerOf(p, e)
           i == Lesser(e, q)
           x == node[p].entries[q].child
           a == node[p].entries[i].child
           b == node[p].entries[i + 1].child
           h == [node EXCEPT ![x].state = MERGE_REGIST]
<1>1. master_key(t) = k /\ parent_level(t) = l + 1
  BY SmoKeys
<1>2. p = DescendTo(l + 1, k) /\ MergePartner(t) = x
  BY ONLY <1>1, ZenonT(40) DEF MergeParent, MergePartner
<1>3. /\ pc[t] = "idle" /\ smo[t].operator < -10 /\ node[root].level >= l + 1
      /\ count(p) > 1 /\ node[x].state = FREE
  BY ONLY rlu_inner_partner_search(t), <1>1, <1>2, ZenonT(40)
     DEF rlu_inner_partner_search, HasMergeParent, PartnerFree
<1>4. /\ node' = [node EXCEPT ![MergePartner(t)].state = MERGE_REGIST,
                              ![MergeParent(t)].entries = RemoveEntry(@, Lesser(EntryFor(MergeParent(t), master_key(t)), PartnerOf(MergeParent(t), EntryFor(MergeParent(t), master_key(t)))) + 1)]
      /\ smo' = [smo EXCEPT ![t].master = a, ![t].slave = b]
      /\ p_inner' = [p_inner EXCEPT ![t] = p]
      /\ pc' = [pc EXCEPT ![t] = "inner_merge"]
      /\ root' = root /\ master_root' = master_root /\ headers' = headers /\ registered' = registered
  BY ONLY rlu_inner_partner_search(t), <1>1, SMTT(30) DEF rlu_inner_partner_search, Goto, leaves
<1>5. node' = [h EXCEPT ![p].entries = RemoveEntry(@, i + 1)]
  BY ONLY <1>1, <1>2, <1>4
<1>6. Tree(node, root, headers, Hid(pc, smo)) /\ registered \subseteq headers
  BY InvFacts
<1>7. ThreadOK(node, headers, registered, root, pc[t], smo[t], p_inner[t])
  BY InvFacts
<1>8. /\ l \in Nat /\ smo[t].operator \in Int /\ (smo[t].operator < 0 => smo[t].operator = -10 - l)
      /\ node[root].level \in Nat
  BY <1>6, <1>7, ThreadFacts, TreeFacts
<1>9. e = EntryFor(p, k) /\ q = PartnerOf(p, e) /\ i = Lesser(e, q)
  OBVIOUS
<1>10. x = node[p].entries[q].child /\ a = node[p].entries[i].child /\ b = node[p].entries[i + 1].child
  BY ONLY Zenon
<1>11. l = Lv(smo[t].operator) /\ k = Key(node, l, smo[t].master) /\ h = [node EXCEPT ![x].state = MERGE_REGIST]
  BY ONLY Zenon
<1> HIDE DEF l, k, p, e, q, i, x, a, b, h
<1>12. l > 0 /\ smo[t].operator < 0 /\ l + 1 <= node[root].level
  BY ONLY <1>3, <1>8, SMTT(30)
<1>13. /\ p \in Inn(node) /\ node[p].level = l + 1
       /\ i \in DOMAIN node[p].entries /\ i + 1 \in DOMAIN node[p].entries /\ i + 1 # 1
       /\ node[p].entries[e].child = smo[t].master /\ ((i = e /\ i + 1 = q) \/ (i = q /\ i + 1 = e))
       /\ smo[t].master \in Own(pc[t], smo[t])
  BY ONLY TreeInv, t \in Threads, <1>2, <1>3, <1>9, <1>11, <1>12, PartnerEntry
<1>14. (a = smo[t].master /\ b = x) \/ (a = x /\ b = smo[t].master)
  BY ONLY <1>10, <1>13
<1>15. \A u \in Threads : u # t /\ Lv(smo[u].operator) = l => x \notin Own(pc[u], smo[u])
  BY ONLY TreeInv, <1>3, <1>12, Holds
<1>16. Found(t, l, p, i, x, a, b)
  BY ONLY <1>3, <1>8, <1>10, <1>11, <1>12, <1>13, <1>14, <1>15 DEF Found
<1>17. x \in Inn(node) /\ x \in DOMAIN node /\ x # p
  <2>1. ChildOK(node, headers, Hid(pc, smo))
    BY ONLY <1>6 DEF Tree
  <2>2. q \in DOMAIN node[p].entries
    BY ONLY <1>13
  <2>3. x \in Lev(node, headers, node[p].level - 1)
    BY ONLY <1>10, <1>13, <2>1, <2>2 DEF ChildOK
  <2>4. node[p].level - 1 = l
    BY ONLY <1>8, <1>13
  <2>5. x \in Inn(node) /\ node[x].level = l
    BY ONLY <1>12, <2>3, <2>4 DEF Lev
  <2>6. QED
    BY <1>8, <1>13, <2>5 DEF Inn
<1>18. RemoveEntry(node[p].entries, i + 1) \in Seq(EntryRecord) /\ Heap(node) /\ p \in DOMAIN node
  BY ONLY TreeInv, <1>13, RemainingEntries
<1>19. /\ Heap(h) /\ Shape(h, node) /\ h[x].state = MERGE_REGIST
       /\ \A n \in DOMAIN node : h[n].entries = node[n].entries
       /\ \A n \in DOMAIN node : n # x => h[n].state = node[n].state
  <2>1. WithState(h, node, x, MERGE_REGIST)
    BY ONLY <1>11 DEF WithState
  <2>2. QED
    BY ONLY <1>17, <1>18, <2>1, MERGE_REGIST \in {MERGE_REGIST, FREE, SPLIT_REGIST}, StateWritten
<1>20. DOMAIN h = DOMAIN node
  BY ONLY <1>19 DEF Shape
<1>21. WithEntries(node', h, p, RemoveEntry(node[p].entries, i + 1))
  BY ONLY <1>5, <1>18, <1>19 DEF WithEntries
<1>22. /\ Heap(node') /\ Shape(node', h) /\ node'[p].entries = RemoveEntry(node[p].entries, i + 1)
       /\ \A n \in DOMAIN h : node'[n].state = h[n].state
       /\ \A n \in DOMAIN h : n # p => node'[n].entries = h[n].entries
  BY ONLY <1>18, <1>19, <1>20, <1>21, EntriesWritten
<1>23. Shape(node', node)
  BY ONLY <1>19, <1>22 DEF Shape
<1>24. /\ node'[x].state = MERGE_REGIST
       /\ \A n \in DOMAIN node : n # x => node'[n].state = node[n].state
       /\ \A n \in DOMAIN node : n # p => node'[n].entries = node[n].entries
  BY ONLY <1>17, <1>19, <1>20, <1>22
<1>25. Taken(l, p, i, x)
  BY ONLY <1>3, <1>4, <1>6, <1>12, <1>22, <1>23, <1>24 DEF Taken
<1>26. smo' = [smo EXCEPT ![t] = [operator |-> smo[t].operator, master |-> a, slave |-> b]]
  <2>1. WithPair(smo', t, a, b)
    BY ONLY <1>4 DEF WithPair
  <2>2. QED
    BY ONLY <2>1, TreeInv, t \in Threads, PairWritten
<1>27. GoesOn(t, l, p, a, b)
  <2>1. l # 0
    BY ONLY <1>8, <1>12
  <2>2. QED
    BY ONLY <1>4, <1>26, <2>1 DEF GoesOn
<1>28. QED
  BY ONLY TreeInv, t \in Threads, <1>16, <1>25, <1>27, MergeBegins

------------------------------------------------------------------------------
(* The parent of a split, releases and the check of the parent.            *)

\* Two of a level do not share a key.
LEMMA KeyOnce ==
  ASSUME NEW h, NEW r, NEW H, NEW U, Tree(h, r, H, U), NEW l \in Nat,
         NEW c \in Lev(h, H, l), NEW d \in Lev(h, H, l), Key(h, l, c) = Key(h, l, d)
  PROVE  c = d
<1>1. CASE l = 0
  BY <1>1 DEF Key
<1>2. CASE l # 0
  <2>1. /\ Heap(h) /\ h[r].level \in Nat /\ NodesOK(h, h[r].level) /\ OrderOK(h)
        /\ c \in Inn(h) /\ d \in Inn(h) /\ h[c].level = l /\ h[d].level = l
    BY <1>2, TreeFacts
  <2>2. h[c].min_key = h[d].min_key
    BY <1>2 DEF Key
  <2>3. /\ h[c].min_key \in Nat /\ Right1(h, c) \in Nat /\ h[c].min_key < Right1(h, c)
        /\ h[d].min_key \in Nat /\ Right1(h, d) \in Nat /\ h[d].min_key < Right1(h, d)
    BY <2>1, InnFacts
  <2>4. Covers(h, c, h[c].min_key) /\ Covers(h, d, h[c].min_key)
    BY <2>2, <2>3 DEF Covers
  <2>5. QED
    BY <2>1, <2>3, <2>4, CoverOnce
<1>3. QED
  BY <1>1, <1>2

\* The slave's key goes between the master's entry and the next, in the range of
\* the node.
LEMMA SlaveFits ==
  ASSUME NEW h, NEW r, NEW H, NEW U, Tree(h, r, H, U), NEW l \in Nat,
         NEW p \in Inn(h), h[p].level = l + 1, NEW i \in DOMAIN h[p].entries,
         NEW m \in Lev(h, H, l), NEW s \in Lev(h, H, l), Near(h, H, l, m, s),
         h[p].entries[i].key = Key(h, l, m), s \in U[l]
  PROVE  /\ h[p].entries[i].key < Key(h, l, s) /\ Key(h, l, s) < Right1(h, p)
         /\ i < Len(h[p].entries) => Key(h, l, s) < h[p].entries[i + 1].key
<1> DEFINE T == h[r].level
           ks == Key(h, l, s)
           km == Key(h, l, m)
<1>1. /\ Heap(h) /\ T \in Nat /\ NodesOK(h, T) /\ OrderOK(h) /\ ks \in Nat /\ km \in Nat /\ ks \in Keys
  BY TreeFacts
<1>2. km < ks /\ \A c \in Lev(h, H, l) : Key(h, l, c) <= km \/ ks <= Key(h, l, c)
  BY DEF Near
<1>3. ASSUME NEW c \in Lev(h, H, l), c \notin U[l], km < Key(h, l, c) PROVE ks < Key(h, l, c)
  <2>1. Key(h, l, c) \in Nat
    BY TreeFacts
  <2>2. Key(h, l, c) # ks
    BY <1>3, KeyOnce
  <2> HIDE DEF ks, km
  <2>3. QED
    BY <1>1, <1>2, <1>3, <2>1, <2>2
<1>4. ASSUME NEW n \in Inn(h), h[n].level = l + 1, NEW j \in DOMAIN h[n].entries, km < h[n].entries[j].key
      PROVE  ks < h[n].entries[j].key
  <2>1. ChildOK(h, H, U)
    BY DEF Tree
  <2>2. (l + 1) - 1 = l
    OBVIOUS
  <2>3. LET c == h[n].entries[j].child
            x == h[n].level - 1
        IN  c \in Lev(h, H, x) /\ c \notin U[x] /\ h[n].entries[j].key = Key(h, x, c)
    BY <2>1 DEF ChildOK
  <2>4. QED
    BY <1>3, <1>4, <2>2, <2>3
<1>5. /\ DOMAIN h[p].entries = 1 .. Len(h[p].entries) /\ Len(h[p].entries) \in Nat
      /\ \A d, e \in DOMAIN h[p].entries : d < e => h[p].entries[d].key < h[p].entries[e].key
      /\ h[p].entries[i].key < Right1(h, p)
      /\ h[p].next \notin Inn(h) => Right1(h, p) = MaxKey + 1
      /\ h[h[p].next].level = h[p].level
  BY <1>1, InnFacts, SMTT(30)
<1>6. i < Len(h[p].entries) => i + 1 \in DOMAIN h[p].entries /\ i < i + 1
  BY <1>5
<1>7. i < Len(h[p].entries) => km < h[p].entries[i + 1].key
  BY <1>5, <1>6
<1>8. i < Len(h[p].entries) => ks < h[p].entries[i + 1].key
  BY <1>4, <1>6, <1>7
<1>9. CASE h[p].next \in Inn(h)
  <2> DEFINE n == h[p].next
  <2>1. 1 \in DOMAIN h[n].entries /\ h[n].entries[1].key = h[n].min_key
    BY ONLY <1>1, <1>9, InnFacts
  <2>2. h[n].entries[1].key = Right1(h, p)
    BY <2>1 DEF Right1
  <2>3. km < h[n].entries[1].key /\ h[n].level = l + 1
    BY <1>5, <2>2
  <2>4. ks < Right1(h, p)
    BY <1>4, <1>9, <2>1, <2>2, <2>3
  <2>5. QED
    BY <1>2, <1>8, <2>4
<1>10. CASE h[p].next \notin Inn(h)
  <2>1. ks < Right1(h, p)
    BY <1>1, <1>5, <1>10, KeyFacts
  <2>2. QED
    BY <1>2, <1>8, <2>1
<1>11. QED
  BY <1>9, <1>10

\* The new child gets its entry: it is listed from now on.
LEMMA SplitUpdateKeeps ==
  ASSUME TreeInv, NEW t \in Threads, rlu_inner_split_update(t)
  PROVE  TreeInv'
<1> DEFINE l == Lv(smo[t].operator)
           m == smo[t].master
           s == smo[t].slave
           p == p_inner[t]
           ks == Key(node, l, s)
           U == Hid(pc, smo)
           V == Hid(pc', smo')
<1>1. /\ pc[t] = "update" /\ pc' = [pc EXCEPT ![t] = "release"]
      /\ root' = root /\ master_root' = master_root /\ headers' = headers
      /\ registered' = registered /\ smo' = smo /\ p_inner' = p_inner
  BY DEF rlu_inner_split_update, leaves, Goto
<1>2. master_key(t) = Key(node, l, m) /\ slave_key(t) = ks
  BY SmoKeys
<1>3. PICK i \in MasterEntries(t) :
        node' = [node EXCEPT ![p_inner[t]].entries =
                   InsertAt(@, i + 1, Entry(slave_key(t), smo[t].slave))]
  BY DEF rlu_inner_split_update
<1>4. i \in DOMAIN node[p].entries /\ node[p].entries[i].key = Key(node, l, m)
  BY <1>2, <1>3 DEF MasterEntries
<1>5. ThreadOK(node, headers, registered, root, pc[t], smo[t], p_inner[t])
  BY InvFacts
<1>6. /\ registered \subseteq headers /\ master_root \in DOMAIN node
      /\ Tree(node, root, headers, U)
  BY InvFacts
<1>7. pc[t] \in HideLocs /\ pc[t] \in SplitLocs /\ "release" \notin HideLocs /\ "release" \in Locs
  BY <1>1 DEF HideLocs, SplitLocs, MergeLocs, Locs
<1>8. /\ smo[t] \in SmoRecord /\ smo[t].operator \in Operators /\ smo[t].operator > 0 /\ l \in Nat
      /\ s \in Nat /\ Near(node, headers, l, m, s)
      /\ p \in Inn(node) /\ p # NoNode /\ node[p].level = l + 1
  BY <1>1, <1>5, <1>7, ThreadFacts
<1>9. OwnOK(node, headers, registered, pc[t], smo[t])
  BY <1>5 DEF ThreadOK
<1>10. Own(pc[t], smo[t]) = {m, s} /\ Own("release", smo[t]) = {m, s}
  BY <1>7, OwnBoth
<1>11. m \in Lev(node, headers, l) /\ s \in Lev(node, headers, l)
  BY <1>10, Holds
<1>12. s \in U[l]
  BY <1>7, <1>8, HidIs
<1>13. Others(t) /\ pc'[t] = "release"
  BY <1>1, OthersIs, Wrote
<1>14. \A j \in Nat : V[j] = IF j = l THEN U[j] \ {s} ELSE U[j]
  BY <1>7, <1>13, HidDrop
<1>15. WithEntries(node', node, p, InsertAt(node[p].entries, i + 1, Entry(ks, s)))
  BY ONLY <1>2, <1>3 DEF WithEntries
<1> HIDE DEF l, m, s, p, ks, U, V
<1>16. /\ node[p].entries[i].key < ks /\ ks < Right1(node, p)
       /\ i < Len(node[p].entries) => ks < node[p].entries[i + 1].key
  BY ONLY <1>4, <1>6, <1>8, <1>11, <1>12, SlaveFits DEF ks
<1>17. ks \in Keys
  BY ONLY <1>6, <1>8, <1>11, TreeFacts DEF ks
<1>18. Entry(ks, s) \in EntryRecord /\ Entry(ks, s).key = ks
  BY ONLY <1>8, <1>17 DEF Entry, EntryRecord
<1>19. Heap(node) /\ node[root].level \in Nat /\ NodesOK(node, node[root].level)
  BY ONLY <1>6, TreeFacts
<1>20. node[p].entries \in Seq(EntryRecord) /\ Increasing(node[p].entries) /\ p \in DOMAIN node
  BY ONLY <1>8, <1>19, InnFacts DEF Increasing
<1>21. InsertAt(node[p].entries, i + 1, Entry(ks, s)) \in Seq(EntryRecord)
  BY ONLY <1>4, <1>16, <1>18, <1>20, InsertedIs, SMTT(30)
<1>22. /\ Heap(node') /\ Shape(node', node)
       /\ node'[p].entries = InsertAt(node[p].entries, i + 1, Entry(ks, s))
       /\ \A n \in DOMAIN node : node'[n].state = node[n].state
       /\ \A n \in DOMAIN node : n # p => node'[n].entries = node[n].entries
  BY ONLY <1>15, <1>19, <1>20, <1>21, EntriesWritten
<1>23. Tree(node', root', headers', Hid(pc', smo'))
  <2>1. node[p].level - 1 = l
    BY ONLY <1>8
  <2>2. \A j \in Nat : V[j] = IF j = node[p].level - 1 THEN U[j] \ {s} ELSE U[j]
    BY ONLY <1>14, <2>1
  <2>3. s \in Lev(node, headers, node[p].level - 1) /\ ks = Key(node, node[p].level - 1, s)
    BY ONLY <1>11, <2>1 DEF ks
  <2>4. Tree(node', root, headers, V)
    <3>1. PlaceIs(node, headers, p, i, ks, s)
      BY ONLY <1>4, <1>16, <1>18, <2>3 DEF PlaceIs
    <3>2. Tree(node, root, headers, U) /\ Heap(node') /\ Shape(node', node) /\ p \in Inn(node)
      BY ONLY <1>6, <1>8, <1>22
    <3>3. node'[p].entries = InsertAt(node[p].entries, i + 1, Entry(ks, s))
      BY ONLY <1>22
    <3>4. \A n \in DOMAIN node : n # p => node'[n].entries = node[n].entries
      BY ONLY <1>22
    <3>5. QED
      BY ONLY <2>2, <3>1, <3>2, <3>3, <3>4, EntryInserted
  <2>5. QED
    BY ONLY <1>1, <2>4 DEF V
<1>24. /\ Inn(node') = Inn(node)
       /\ \A j : Lev(node', headers, j) = Lev(node, headers, j)
       /\ node'[p].level = node[p].level
  BY ONLY <1>19, <1>20, <1>22, ShapeKept DEF Shape
<1>25. ThreadOK(node', headers', registered', root', pc'[t], smo'[t], p_inner'[t])
  <2>1. OwnOK(node', headers', registered', "release", smo[t])
    <3>1. ASSUME NEW c \in Own("release", smo[t])
          PROVE  /\ c \in Lev(node', headers', Lv(smo[t].operator))
                 /\ Reg(node', registered', Lv(smo[t].operator), c, smo[t].operator)
      <4>1. c \in Lev(node, headers, l) /\ Reg(node, registered, l, c, smo[t].operator)
        BY ONLY <1>9, <1>10, <3>1 DEF OwnOK, l
      <4>2. l # 0 => c \in DOMAIN node
        BY ONLY <4>1 DEF Lev, Inn
      <4>3. QED
        BY ONLY <1>1, <1>22, <1>24, <4>1, <4>2 DEF Reg, l
    <3>2. QED
      BY ONLY <3>1 DEF OwnOK
  <2>2. SmoOK(node', headers', root', "release", smo[t], p)
    BY ONLY <1>7, <1>8 DEF SmoOK
  <2>3. ParOK(node', "release", smo[t], p)
    BY ONLY <1>8, <1>24 DEF ParOK, l
  <2>4. QED
    BY ONLY <1>1, <1>7, <1>8, <1>13, <2>1, <2>2, <2>3 DEF ThreadOK, p
<1>26. Own(pc'[t], smo'[t]) = Own(pc[t], smo[t]) /\ smo'[t] = smo[t]
  BY ONLY <1>1, <1>10, <1>13
<1>27. \A c \in Own(pc'[t], smo'[t]) :
         \/ Lv(smo'[t].operator) = Lv(smo[t].operator) /\ c \in Own(pc[t], smo[t])
         \/ Lv(smo'[t].operator) = 0 /\ c \notin registered
         \/ Lv(smo'[t].operator) > 0 /\ node[c].state = FREE
  BY ONLY <1>26
<1>28. \A n \in Inn(node) : node'[n].state # FREE =>
         \/ Lv(smo'[t].operator) > 0 /\ n \in Own(pc'[t], smo'[t])
         \/ node[n].state # FREE /\ ~(Lv(smo[t].operator) > 0 /\ n \in Own(pc[t], smo[t]))
  <2>1. \A n \in Inn(node) : n \in DOMAIN node
    BY DEF Inn
  <2>2. QED
    BY ONLY <1>22, <1>26, <2>1
<1>29. QED
  BY ONLY <1>1, <1>6, <1>13, <1>22, <1>23, <1>25, <1>27, <1>28, TreeInv, t \in Threads, SteadyStep

\* What a release writes.
Released(ns) == [n \in DOMAIN node |-> IF n \in ns THEN [node[n] EXCEPT !.state = FREE] ELSE node[n]]

\* A release ends its section: the states are those it expects.
LEMMA NodesReleased ==
  ASSUME TreeInv, NEW t \in Threads, NEW ns, ns = Own(pc[t], smo[t]),
         pc[t] \in {"release", "release_master"}, NEW l, l = Lv(smo[t].operator), l > 0,
         NEW st, st = (IF smo[t].operator > 0 THEN SPLIT_REGIST ELSE MERGE_REGIST),
         NEW loc, loc \in {"check_split", "level_down"},
         ReleaseNodes(t, ns, st, loc)
  PROVE  TreeInv'
<1>1. \A n \in ns : n \in Inn(node) /\ n \in DOMAIN node /\ node[n].level = l /\ node[n].state = st
  BY Holds
<1>2. /\ node' = Released(ns) /\ pc' = [pc EXCEPT ![t] = loc]
      /\ root' = root /\ master_root' = master_root /\ headers' = headers
      /\ registered' = registered /\ smo' = smo /\ p_inner' = p_inner
  BY ONLY <1>1, ReleaseNodes(t, ns, st, loc) DEF ReleaseNodes, leaves, Goto, Released
<1>3. ThreadOK(node, headers, registered, root, pc[t], smo[t], p_inner[t])
  BY ONLY TreeInv, t \in Threads, InvFacts
<1>4. /\ registered \subseteq headers /\ master_root \in DOMAIN node
      /\ Tree(node, root, headers, Hid(pc, smo))
  BY ONLY TreeInv, InvFacts
<1>5. Heap(node)
  BY ONLY <1>4, TreeFacts
<1>6. \A n \in DOMAIN node : node[n] \in NodeRecord
  BY ONLY <1>5, HeapFacts
<1> DEFINE f == [n \in DOMAIN node |-> IF n \in ns THEN FREE ELSE node[n].state]
<1>7. \A n \in DOMAIN node : f[n] \in {MERGE_REGIST, FREE, SPLIT_REGIST}
  BY ONLY <1>6 DEF NodeRecord
<1>8. WithStates(node', node, f)
  <2>1. ASSUME NEW n \in DOMAIN node PROVE node[n] = [node[n] EXCEPT !.state = node[n].state]
    BY ONLY <1>6, <2>1 DEF NodeRecord
  <2>2. \A n \in DOMAIN node : (IF n \in ns THEN [node[n] EXCEPT !.state = FREE] ELSE node[n])
                                 = [node[n] EXCEPT !.state = f[n]]
    BY ONLY <2>1
  <2>3. QED
    BY ONLY <1>2, <2>2 DEF Released, WithStates
<1>9. \A n \in DOMAIN node : f[n] = IF n \in ns THEN FREE ELSE node[n].state
  OBVIOUS
<1> HIDE DEF f
<1>10. /\ Heap(node') /\ Shape(node', node)
       /\ \A n \in DOMAIN node : node'[n].entries = node[n].entries /\ node'[n].state = f[n]
  BY ONLY <1>5, <1>7, <1>8, StatesWritten
<1>11. Others(t) /\ pc'[t] = loc
  BY ONLY TreeInv, t \in Threads, <1>2, OthersIs, Wrote
<1>12. loc \in EndLocs /\ pc[t] \notin HideLocs
  BY DEF EndLocs, HideLocs, SplitLocs, MergeLocs
<1>13. Own(pc'[t], smo'[t]) = {} /\ pc'[t] \notin HideLocs
  BY ONLY <1>11, <1>12, OwnNone
<1>14. Hid(pc', smo') = Hid(pc, smo)
  BY ONLY <1>11, <1>12, <1>13, t \in Threads, HidSame
<1>15. Tree(node', root', headers', Hid(pc', smo'))
  <2>1. Tree(node', root, headers, Hid(pc, smo))
    BY ONLY <1>4, <1>10, SameTree
  <2>2. QED
    BY ONLY <1>2, <1>14, <2>1
<1>16. Inn(node') = Inn(node)
  BY ONLY <1>5, <1>10, ShapeKept
<1>17. ThreadOK(node', headers', registered', root', pc'[t], smo'[t], p_inner'[t])
  <2>1. /\ smo[t] \in SmoRecord /\ smo[t].operator \in Operators
        /\ p_inner[t] # NoNode /\ p_inner[t] \in Inn(node)
    BY <1>3, ThreadFacts
  <2>2. QED
    BY ONLY <1>2, <1>11, <1>12, <1>16, <2>1, EndOK
<1>18. \A n \in DOMAIN node : node'[n].state # node[n].state =>
         \/ Lv(smo[t].operator) > 0 /\ n \in Own(pc[t], smo[t])
         \/ n \in Inn(node) /\ node[n].state = FREE
  BY <1>9, <1>10
<1>19. \A n \in Inn(node) : node'[n].state # FREE =>
         \/ Lv(smo'[t].operator) > 0 /\ n \in Own(pc'[t], smo'[t])
         \/ node[n].state # FREE /\ ~(Lv(smo[t].operator) > 0 /\ n \in Own(pc[t], smo[t]))
  <2>1. \A n \in Inn(node) : n \in DOMAIN node
    BY DEF Inn
  <2>2. QED
    BY <1>9, <1>10, <2>1
<1>20. \A c \in Own(pc'[t], smo'[t]) : FALSE
  BY ONLY <1>13
<1>21. QED
  BY ONLY <1>2, <1>4, <1>10, <1>11, <1>15, <1>17, <1>18, <1>19, <1>20, TreeInv, t \in Threads, SteadyStep

\* Both nodes of a split, or the master of a merge, are released.
LEMMA InnerReleaseKeeps ==
  ASSUME TreeInv, NEW t \in Threads, rlu_inner_release(t)
  PROVE  TreeInv'
<1> DEFINE l == Lv(smo[t].operator)
<1>1. ThreadOK(node, headers, registered, root, pc[t], smo[t], p_inner[t])
  BY InvFacts
<1>2. l \in Nat /\ smo[t].operator \in Int /\ (smo[t].operator < 0 => smo[t].operator = -10 - l)
  BY <1>1, ThreadFacts
<1>3. CASE /\ pc[t] = "release" /\ child_level(t) > 0
           /\ ReleaseNodes(t, {smo[t].master, smo[t].slave}, SPLIT_REGIST, "check_split")
  <2>1. l > 0
    BY ONLY <1>3, ChildLevel
  <2>2. smo[t].operator > 0
    BY <1>1, <1>3, ThreadFacts
  <2>3. Own(pc[t], smo[t]) = {smo[t].master, smo[t].slave}
    BY <1>3, OwnBoth
  <2>4. QED
    BY <1>3, <2>1, <2>2, <2>3, NodesReleased
<1>4. CASE /\ pc[t] = "release_master"
           /\ ReleaseNodes(t, {smo[t].master}, MERGE_REGIST, "level_down")
  <2>1. smo[t].operator < -10
    BY <1>1, <1>4, ThreadFacts
  <2>2. l > 0 /\ ~(smo[t].operator > 0)
    BY <1>2, <2>1
  <2>3. Own(pc[t], smo[t]) = {smo[t].master}
    BY <1>4 DEF Own, HideLocs, SplitLocs, MergeLocs
  <2>4. QED
    BY <1>4, <2>2, <2>3, NodesReleased
<1>5. QED
  BY <1>3, <1>4 DEF rlu_inner_release

\* A node that nobody has is registered.
LEMMA NodeRegistered ==
  ASSUME TreeInv, LevelsFit, NEW t \in Threads, pc[t] \in EndLocs,
         NEW n, n = p_inner[t], node[n].state = FREE,
         NEW op, NEW st,
         \/ op = 10 + node[n].level /\ st = SPLIT_REGIST
         \/ op = -10 - node[n].level /\ st = MERGE_REGIST,
         node' = [node EXCEPT ![n].state = st],
         smo' = [smo EXCEPT ![t] = [NoSmo EXCEPT !.operator = op, !.master = n]],
         p_inner' = [p_inner EXCEPT ![t] = NoNode], pc' = [pc EXCEPT ![t] = "idle"],
         root' = root, master_root' = master_root, headers' = headers, registered' = registered
  PROVE  TreeInv'
<1> DEFINE l == node[n].level
           s == [operator |-> op, master |-> n, slave |-> 0]
<1>1. ThreadOK(node, headers, registered, root, pc[t], smo[t], p_inner[t])
  BY ONLY TreeInv, t \in Threads, InvFacts
<1>2. /\ registered \subseteq headers /\ master_root \in DOMAIN node
      /\ Tree(node, root, headers, Hid(pc, smo))
  BY ONLY TreeInv, InvFacts
<1>3. Heap(node) /\ node[root].level \in Nat /\ NodesOK(node, node[root].level)
  BY ONLY <1>2, TreeFacts
<1>4. pc[t] \notin {"idle", "find_parent", "level_up"}
  BY DEF EndLocs
<1>5. n \in Inn(node)
  BY ONLY <1>1, <1>4, n = p_inner[t], ThreadFacts
<1>6. n \in DOMAIN node /\ n \in Nat /\ l \in 1 .. node[root].level
  BY ONLY <1>3, <1>5, InnFacts
<1>7. l \in Nat /\ l > 0 /\ l < 10
  <2>1. l < 10
    BY ONLY LevelsFit, <1>6 DEF LevelsFit
  <2>2. QED
    BY ONLY <1>3, <1>6, <2>1
<1> HIDE DEF l
<1>8. (op = 10 + l /\ st = SPLIT_REGIST) \/ (op = -10 - l /\ st = MERGE_REGIST)
  BY DEF l
<1>9. op \in Operators /\ Lv(op) = l /\ op # 0
  <2>1. 10 + l \in Operators /\ -10 - l \in Operators /\ Lv(10 + l) = l /\ Lv(-10 - l) = l
    BY ONLY <1>7, OperatorOf
  <2>2. QED
    BY ONLY <1>7, <1>8, <2>1
<1>10. st \in {MERGE_REGIST, FREE, SPLIT_REGIST} /\ st = (IF op > 0 THEN SPLIT_REGIST ELSE MERGE_REGIST)
  BY ONLY <1>7, <1>8
<1>11. WithState(node', node, n, st)
  BY DEF WithState
<1>12. /\ Heap(node') /\ Shape(node', node) /\ node'[n].state = st
       /\ \A m \in DOMAIN node : node'[m].entries = node[m].entries
       /\ \A m \in DOMAIN node : m # n => node'[m].state = node[m].state
  BY ONLY <1>3, <1>6, <1>10, <1>11, StateWritten
<1>13. Others(t) /\ pc'[t] = "idle" /\ p_inner'[t] = NoNode
  BY ONLY TreeInv, t \in Threads, pc' = [pc EXCEPT ![t] = "idle"],
          p_inner' = [p_inner EXCEPT ![t] = NoNode],
          smo' = [smo EXCEPT ![t] = [NoSmo EXCEPT !.operator = op, !.master = n]], OthersIs, Wrote
<1>14. smo'[t] = s
  <2>1. smo'[t] = [NoSmo EXCEPT !.operator = op, !.master = n]
    BY InvFacts DEF OfThreads
  <2>2. QED
    BY ONLY <2>1 DEF NoSmo
<1>15. "idle" \notin HideLocs /\ pc[t] \notin HideLocs /\ Own(pc[t], smo[t]) = {}
  BY OwnNone DEF HideLocs, SplitLocs, MergeLocs
<1>16. Hid(pc', smo') = Hid(pc, smo)
  BY ONLY <1>13, <1>15, t \in Threads, HidSame
<1>17. Tree(node', root', headers', Hid(pc', smo'))
  <2>1. Tree(node', root, headers, Hid(pc, smo))
    BY ONLY <1>2, <1>12, SameTree
  <2>2. QED
    BY ONLY root' = root, headers' = headers, <1>16, <2>1
<1>18. Inn(node') = Inn(node) /\ node'[n].level = l
  BY ONLY <1>3, <1>6, <1>12, ShapeKept DEF Shape, l
<1>19. n \in Lev(node', headers', l) /\ Reg(node', registered', l, n, op)
  BY ONLY <1>5, <1>7, <1>10, <1>12, <1>18 DEF Lev, Reg
<1>20. /\ ThreadOK(node', headers', registered', root', "idle", s, NoNode)
       /\ Own("idle", s) = {n}
  BY ONLY <1>6, <1>9, <1>19, IdleOK
<1> HIDE DEF s
<1>21. ThreadOK(node', headers', registered', root', pc'[t], smo'[t], p_inner'[t])
  BY ONLY <1>13, <1>14, <1>20
<1>22. Own(pc'[t], smo'[t]) = {n} /\ Lv(smo'[t].operator) = l
  BY ONLY <1>9, <1>13, <1>14, <1>20 DEF s
<1>23. \A m \in DOMAIN node : node'[m].state # node[m].state =>
         \/ Lv(smo[t].operator) > 0 /\ m \in Own(pc[t], smo[t])
         \/ m \in Inn(node) /\ node[m].state = FREE
  BY ONLY <1>5, <1>12, node[n].state = FREE
<1>24. \A m \in Inn(node) : node'[m].state # FREE =>
         \/ Lv(smo'[t].operator) > 0 /\ m \in Own(pc'[t], smo'[t])
         \/ node[m].state # FREE /\ ~(Lv(smo[t].operator) > 0 /\ m \in Own(pc[t], smo[t]))
  <2>1. \A m \in Inn(node) : m \in DOMAIN node
    BY DEF Inn
  <2>2. QED
    BY ONLY <1>7, <1>12, <1>15, <1>22, <2>1
<1>25. \A c \in Own(pc'[t], smo'[t]) : Lv(smo'[t].operator) > 0 /\ node[c].state = FREE
  BY ONLY <1>7, <1>22, node[n].state = FREE
<1>26. /\ root' = root /\ headers' = headers /\ master_root' \in DOMAIN node /\ registered' \subseteq headers
       /\ \A c \in registered : c \in registered'
  BY <1>2
<1>27. QED
  BY ONLY <1>12, <1>13, <1>17, <1>21, <1>23, <1>24, <1>25, <1>26, TreeInv, t \in Threads, SteadyStep

\* The parent is checked: registered, or left alone.
LEMMA InnerSmoCheckKeeps ==
  ASSUME TreeInv, LevelsFit, NEW t \in Threads, rlu_inner_smo_check(t)
  PROVE  TreeInv'
<1> DEFINE n == p_inner[t]
<1>1. /\ pc[t] \in {"check_split", "check_merge"}
      /\ p_inner' = [p_inner EXCEPT ![t] = NoNode] /\ pc' = [pc EXCEPT ![t] = "idle"]
      /\ root' = root /\ master_root' = master_root /\ headers' = headers /\ registered' = registered
  BY DEF rlu_inner_smo_check, leaves, Goto
<1>2. \/ /\ node' = [node EXCEPT ![n].state = SPLIT_REGIST] /\ node[n].state = FREE
         /\ smo' = [smo EXCEPT ![t] = [NoSmo EXCEPT !.operator = 10 + node[n].level, !.master = n]]
      \/ /\ node' = [node EXCEPT ![n].state = MERGE_REGIST] /\ node[n].state = FREE
         /\ smo' = [smo EXCEPT ![t] = [NoSmo EXCEPT !.operator = -10 - node[n].level, !.master = n]]
      \/ smo' = [smo EXCEPT ![t] = NoSmo] /\ node' = node
  BY DEF rlu_inner_smo_check, NeedsSplit, NeedsMerge
<1>3. pc[t] \in EndLocs
  BY <1>1 DEF EndLocs
<1>4. CASE /\ node' = [node EXCEPT ![n].state = SPLIT_REGIST] /\ node[n].state = FREE
           /\ smo' = [smo EXCEPT ![t] = [NoSmo EXCEPT !.operator = 10 + node[n].level, !.master = n]]
  BY ONLY TreeInv, LevelsFit, t \in Threads, <1>1, <1>3, <1>4, NodeRegistered
<1>5. CASE /\ node' = [node EXCEPT ![n].state = MERGE_REGIST] /\ node[n].state = FREE
           /\ smo' = [smo EXCEPT ![t] = [NoSmo EXCEPT !.operator = -10 - node[n].level, !.master = n]]
  BY ONLY TreeInv, LevelsFit, t \in Threads, <1>1, <1>3, <1>5, NodeRegistered
<1>6. CASE smo' = [smo EXCEPT ![t] = NoSmo] /\ node' = node
  <2>1. registered \subseteq headers /\ master_root \in DOMAIN node
    BY InvFacts
  <2>2. smo'[t] = NoSmo /\ pc'[t] = "idle" /\ p_inner'[t] = NoNode
    BY <1>1, <1>6, Wrote
  <2>3. Others(t)
    BY <1>1, <1>6, OthersIs
  <2>4. "idle" \notin HideLocs /\ pc[t] \notin HideLocs /\ Own(pc[t], smo[t]) = {}
    BY <1>3, OwnNone DEF HideLocs, SplitLocs, MergeLocs
  <2>5. /\ ThreadOK(node, headers, registered', root, pc'[t], smo'[t], p_inner'[t])
        /\ Own(pc'[t], smo'[t]) = {}
    BY <2>2, NothingLeft
  <2>6. \A c \in Own(pc'[t], smo'[t]) : FALSE
    BY <2>5
  <2>7. QED
    BY <1>1, <1>6, <2>1, <2>2, <2>3, <2>4, <2>5, <2>6, QuietStep
<1>7. QED
  BY <1>2, <1>4, <1>5, <1>6

------------------------------------------------------------------------------
(* Nodes and levels that come and go.                                      *)

\* The nodes that are allocated.
LEMMA NewNode ==
  ASSUME NEW l \in Nat, NEW st \in {MERGE_REGIST, FREE, SPLIT_REGIST}, NEW x \in Nat,
         NEW es \in Seq(EntryRecord), 1 \in DOMAIN es
  PROVE  /\ Inner(l, st, es, x) \in NodeRecord
         /\ Inner(l, st, es, x).level = l /\ Inner(l, st, es, x).state = st
         /\ Inner(l, st, es, x).min_key = es[1].key /\ Inner(l, st, es, x).entries = es
         /\ Inner(l, st, es, x).next = x
<1>1. es[1].key \in Nat
  BY EntryFacts
<1>2. QED
  BY <1>1 DEF Inner, NodeRecord

\* The tail of a level, and what is left of a freed node.
LEMMA NewTail ==
  ASSUME NEW l \in Nat
  PROVE  /\ TailNode(l) \in NodeRecord /\ TailNode(l).level = l /\ TailNode(l).state = FREE
         /\ TailNode(l).min_key = MaxKey + 1 /\ TailNode(l).next = NoNode
         /\ Freed \in NodeRecord /\ Freed.level = 0 /\ Freed.state = FREE /\ Freed.next = NoNode
<1>1. MaxKey + 1 \in Nat /\ <<>> \in Seq(EntryRecord) /\ NoNode \in Nat
  BY KeyFacts DEF NoNode
<1>2. /\ TailNode(l) \in NodeRecord /\ TailNode(l).level = l /\ TailNode(l).state = FREE
      /\ TailNode(l).min_key = MaxKey + 1 /\ TailNode(l).next = NoNode
  BY <1>1 DEF TailNode, NodeRecord
<1>3. Freed \in NodeRecord /\ Freed.level = 0 /\ Freed.state = FREE /\ Freed.next = NoNode
  BY <1>1 DEF Freed, TailNode, NodeRecord
<1>4. QED
  BY <1>2, <1>3

\* Cut(g, h, m, k): the entries of m behind the k-th move to a new node.
Cut(g, h, m, k) ==
  g = Append([h EXCEPT ![m].entries = SubSeq(h[m].entries, 1, k), ![m].next = Len(h) + 1],
             Inner(h[m].level, SPLIT_REGIST, SubSeq(h[m].entries, k + 1, Len(h[m].entries)), h[m].next))

\* What a cut writes.
LEMMA CutWrites ==
  ASSUME NEW h, Heap(h), NEW m \in Inn(h), NEW k \in Nat, 1 <= k, k < Len(h[m].entries),
         Increasing(h[m].entries), NEW g, Cut(g, h, m, k), NEW N, N = Len(h) + 1
  PROVE  CutDone(g, h, m, k, N)
<1> DEFINE es == h[m].entries
           a == SubSeq(es, 1, k)
           b == SubSeq(es, k + 1, Len(es))
           new == Inner(h[m].level, SPLIT_REGIST, b, h[m].next)
           f == [h EXCEPT ![m].entries = a, ![m].next = N]
<1>1. Len(h) \in Nat /\ DOMAIN h = 1 .. Len(h) /\ \A n \in DOMAIN h : h[n] \in NodeRecord
  BY HeapFacts
<1>2. m \in DOMAIN h /\ es \in Seq(EntryRecord) /\ h[m].level \in Nat /\ h[m].next \in Nat
  BY HeapFacts DEF Inn
<1>3. CutFacts(es, k, a, b)
  BY <1>2, CutIs
<1>4. a \in Seq(EntryRecord) /\ b \in Seq(EntryRecord) /\ 1 \in DOMAIN b
  BY <1>3 DEF CutFacts
<1>5. g = Append(f, new)
  BY DEF Cut
<1> HIDE DEF a, b
<1>6. /\ new \in NodeRecord /\ new.level = h[m].level /\ new.state = SPLIT_REGIST
      /\ new.min_key = b[1].key /\ new.entries = b /\ new.next = h[m].next
  <2>1. new = Inner(h[m].level, SPLIT_REGIST, b, h[m].next)
    OBVIOUS
  <2>2. SPLIT_REGIST \in {MERGE_REGIST, FREE, SPLIT_REGIST}
    OBVIOUS
  <2>3. ASSUME NEW l \in Nat, NEW x \in Nat, l = h[m].level, x = h[m].next
        PROVE  LET i == Inner(l, SPLIT_REGIST, b, x)
               IN  /\ i \in NodeRecord /\ i.level = l /\ i.state = SPLIT_REGIST
                   /\ i.min_key = b[1].key /\ i.entries = b /\ i.next = x
    BY ONLY <1>4, <2>2, l \in Nat, x \in Nat, NewNode
  <2>4. QED
    BY ONLY <1>2, <2>1, <2>3
<1> HIDE DEF new
<1>7. DOMAIN f = DOMAIN h /\ \A n \in DOMAIN h : n # m => f[n] = h[n]
  BY <1>1
<1>8. f[m] = [[h[m] EXCEPT !.entries = a] EXCEPT !.next = N]
  BY <1>1, <1>2
<1>9. N \in Nat
  BY <1>1
<1>10. /\ f[m] \in NodeRecord /\ f[m].level = h[m].level /\ f[m].min_key = h[m].min_key
       /\ f[m].state = h[m].state /\ f[m].next = N /\ f[m].entries = a
  BY <1>1, <1>2, <1>4, <1>8, <1>9 DEF NodeRecord
<1>11. f = [n \in 1 .. Len(h) |-> f[n]]
  BY <1>1, <1>7
<1> HIDE DEF f
<1>12. f \in Seq(NodeRecord) /\ Len(f) = Len(h)
  <2>1. \A n \in 1 .. Len(h) : f[n] \in NodeRecord
    BY <1>1, <1>7, <1>10
  <2>2. f \in [1 .. Len(h) -> NodeRecord]
    BY <1>11, <2>1
  <2>3. QED
    BY <1>1, <2>2
<1>13. /\ g \in Seq(NodeRecord) /\ Len(g) = N /\ g[N] = new /\ DOMAIN g = 1 .. N
       /\ \A n \in 1 .. Len(h) : g[n] = f[n]
  BY ONLY <1>1, <1>5, <1>6, <1>12, N = Len(h) + 1
<1>14. DOMAIN g = DOMAIN h \union {N} /\ N \notin DOMAIN h
  BY ONLY <1>1, <1>13, N = Len(h) + 1
<1>15. \A n \in DOMAIN h : h[n].next \in {NoNode} \union DOMAIN h
  BY HeapFacts
<1>16. \A n \in DOMAIN g : g[n].next \in {NoNode} \union DOMAIN g
  BY ONLY <1>1, <1>2, <1>6, <1>7, <1>10, <1>13, <1>14, <1>15, ZenonT(60)
<1>17. Heap(g)
  BY ONLY <1>13, <1>16 DEF Heap
<1>18. \A n \in DOMAIN h : /\ g[n].level = h[n].level /\ g[n].min_key = h[n].min_key
                           /\ g[n].state = h[n].state
                           /\ n # m => g[n].next = h[n].next /\ g[n].entries = h[n].entries
  BY ONLY <1>1, <1>7, <1>10, <1>13
<1>19. g[m].next = N /\ g[m].entries = a
  BY ONLY <1>1, <1>2, <1>10, <1>13
<1>20. /\ g[N].level = h[m].level /\ g[N].next = h[m].next /\ g[N].state = SPLIT_REGIST
       /\ g[N].entries = b /\ g[N].min_key = g[N].entries[1].key
  BY ONLY <1>6, <1>13
<1>21. a = SubSeq(h[m].entries, 1, k) /\ b = SubSeq(h[m].entries, k + 1, Len(h[m].entries))
  BY DEF a, b
<1>22. QED
  BY ONLY <1>14, <1>17, <1>18, <1>19, <1>20, <1>21, N = Len(h) + 1 DEF CutDone


\* A node is cut: the new one comes behind it, registered for the same thread.
LEMMA InnerSplitKeeps ==
  ASSUME TreeInv, SplitLeavesTwo, NEW t \in Threads, rlu_inner_split(t)
  PROVE  TreeInv'
<1> DEFINE l == Lv(smo[t].operator)
           m == smo[t].master
           op == smo[t].operator
           k == count(m) - split_point(m)
           N == Len(node) + 1
           U == Hid(pc, smo)
           V == Hid(pc', smo')
<1>1. /\ pc[t] = "idle" /\ op > 10 /\ pc' = [pc EXCEPT ![t] = "find_parent"]
      /\ root' = root /\ master_root' = master_root /\ headers' = headers
      /\ registered' = registered /\ p_inner' = p_inner
      /\ smo' = [smo EXCEPT ![t].slave = N]
  BY DEF rlu_inner_split, leaves, Goto
<1>2. Cut(node', node, m, k)
  BY DEF rlu_inner_split, Cut, count
<1>3. ThreadOK(node, headers, registered, root, pc[t], smo[t], p_inner[t])
  BY InvFacts
<1>4. /\ registered \subseteq headers /\ master_root \in DOMAIN node
      /\ Tree(node, root, headers, U) /\ DeadOK(node)
  BY InvFacts
<1>5. /\ op \in Operators /\ op \in Int /\ l \in Nat /\ (op > 0 => op = 10 + l)
      /\ smo[t] = [operator |-> op, master |-> m, slave |-> smo[t].slave] /\ m \in Nat
  BY <1>3, ThreadFacts
<1>6. l > 0 /\ op > 0
  BY <1>1, <1>5
<1>7. "idle" \notin HideLocs /\ "find_parent" \in HideLocs /\ "find_parent" \in Locs /\ "find_parent" \in SplitLocs
  BY DEF HideLocs, SplitLocs, MergeLocs, Locs
<1>8. Own(pc[t], smo[t]) = {m}
  BY <1>1 DEF Own, HideLocs, SplitLocs, MergeLocs
<1>9. /\ m \in Inn(node) /\ m \in DOMAIN node /\ node[m].level = l
      /\ node[m].state = SPLIT_REGIST
  BY <1>6, <1>8, Holds
<1>10. /\ Heap(node) /\ node[root].level \in Nat /\ NodesOK(node, node[root].level) /\ OrderOK(node)
  BY <1>4, TreeFacts
<1>11. k \in Nat /\ 1 <= k /\ k < Len(node[m].entries) /\ Increasing(node[m].entries)
  <2>1. split_point(m) \in 1 .. count(m) - 1
    BY <1>1 DEF SplitLeavesTwo
  <2>2. Len(node[m].entries) \in Nat /\ Increasing(node[m].entries)
    BY <1>9, <1>10, InnFacts DEF Increasing
  <2>3. count(m) = Len(node[m].entries)
    BY DEF count
  <2>4. k = count(m) - split_point(m)
    OBVIOUS
  <2> HIDE DEF m, k
  <2>5. QED
    BY ONLY <2>1, <2>2, <2>3, <2>4
<1>12. smo' = [smo EXCEPT ![t] = [smo[t] EXCEPT !.slave = N]]
  BY <1>1
<1>13. Others(t) /\ pc'[t] = "find_parent" /\ smo'[t] = [smo[t] EXCEPT !.slave = N]
  <2>1. smo'[t] = [smo[t] EXCEPT !.slave = N]
    BY <1>12, InvFacts DEF OfThreads
  <2>2. QED
    BY <1>1, <1>12, <2>1, OthersIs, Wrote
<1>14. N = Len(node) + 1
  OBVIOUS
<1>15. Len(node) \in Nat /\ DOMAIN node = 1 .. Len(node)
  BY <1>10, HeapFacts
<1>16. smo'[t] = [operator |-> op, master |-> m, slave |-> N] /\ N \in Nat
  BY ONLY <1>5, <1>13, <1>14, <1>15
<1> HIDE DEF l, m, op, k, N, U, V
<1>17. CutDone(node', node, m, k, N)
  BY ONLY <1>2, <1>9, <1>10, <1>11, <1>14, CutWrites
<1> DEFINE Same(n) == /\ node'[n].level = node[n].level /\ node'[n].min_key = node[n].min_key
                      /\ node'[n].state = node[n].state
                      /\ n # m => node'[n].next = node[n].next /\ node'[n].entries = node[n].entries
<1>30. /\ Heap(node') /\ DOMAIN node' = DOMAIN node \union {N} /\ N \notin DOMAIN node
       /\ \A n \in DOMAIN node : Same(n)
  <2>1. Heap(node') /\ DOMAIN node' = DOMAIN node \union {N} /\ \A n \in DOMAIN node : Same(n)
    BY ONLY <1>17 DEF CutDone
  <2>2. N \notin DOMAIN node
    BY ONLY <1>14, <1>15
  <2>3. QED
    BY ONLY <2>1, <2>2
<1>31. /\ node'[N].level = node[m].level /\ node'[N].state = SPLIT_REGIST
       /\ node'[m].level = node[m].level /\ node'[m].state = node[m].state
       /\ node'[m].min_key = node[m].min_key
  BY ONLY <1>9, <1>17 DEF CutDone
<1> HIDE DEF Same
<1>18. HidPlus(V, U, l, N)
  <2>1. pc'[t] \in HideLocs /\ pc[t] \notin HideLocs /\ smo'[t].slave \in Nat
        /\ Lv(smo'[t].operator) = l /\ smo'[t].slave = N
    BY ONLY <1>1, <1>7, <1>13, <1>16 DEF l, op
  <2>2. \A j \in Nat : V[j] = IF j = Lv(smo'[t].operator) THEN U[j] \union {smo'[t].slave} ELSE U[j]
    BY ONLY <1>13, <2>1, t \in Threads, HidAdd DEF U, V
  <2>3. QED
    BY ONLY <1>9, <2>1, <2>2 DEF HidPlus
<1>19. /\ Tree(node', root, headers, V) /\ N \in Inn(node')
       /\ Inn(node') = Inn(node) \union {N}
       /\ node[m].min_key < node'[N].min_key /\ node'[N].min_key < Right1(node, m)
  <2>1. Tree(node, root, headers, U)
    BY ONLY <1>4 DEF U
  <2>2. QED
    <3>1. CutAt(node, m, k, l)
      BY ONLY <1>9, <1>11 DEF CutAt
    <3>2. QED
      BY ONLY <2>1, <3>1, <1>17, <1>18, NodeSplit
<1>20. /\ \A n \in Inn(node) : n \in DOMAIN node /\ n # N /\ node[n].level > 0
                              /\ node[n].min_key \in Nat /\ Right1(node, n) \in Nat
       /\ node'[N].min_key \in Nat
  <2>1. \A n \in Inn(node) : n \in DOMAIN node /\ n # N
    BY ONLY <1>30 DEF Inn
  <2>2. \A n \in Inn(node) : /\ node[n].level \in 1 .. node[root].level
                             /\ node[n].min_key \in Nat /\ Right1(node, n) \in Nat
    BY <1>10, InnFacts
  <2>3. node'[N].min_key \in Nat
    <3>1. N \in DOMAIN node'
      BY ONLY <1>30
    <3>2. QED
      BY ONLY <1>30, <3>1, HeapFacts
  <2>4. QED
    BY ONLY <1>10, <2>1, <2>2, <2>3
<1>32. \A n \in Inn(node) : n \in DOMAIN node /\ n # N /\ Same(n)
  BY ONLY <1>20, <1>30
<1>33. \A n \in Inn(node) : node'[n].level = node[n].level /\ node'[n].min_key = node[n].min_key
                            /\ node'[n].state = node[n].state
  BY ONLY <1>32 DEF Same
<1>34. node'[N].level = l /\ l # 0
  BY ONLY <1>6, <1>5, <1>9, <1>31
<1>21. /\ \A c \in Lev(node', headers, l) : c = N \/ (c \in Lev(node, headers, l) /\ c \in Inn(node))
       /\ N \in Lev(node', headers, l)
       /\ \A j \in Nat : j # l => Lev(node', headers, j) = Lev(node, headers, j)
       /\ \A j \in Nat : \A c \in Lev(node, headers, j) :
            c \in Lev(node', headers, j) /\ Key(node', j, c) = Key(node, j, c)
  <2>1. \A c \in Lev(node', headers, l) : c = N \/ (c \in Lev(node, headers, l) /\ c \in Inn(node))
    BY ONLY <1>19, <1>33, <1>34 DEF Lev
  <2>2. N \in Lev(node', headers, l)
    BY ONLY <1>19, <1>34 DEF Lev
  <2>3. ASSUME NEW j \in Nat, j # l PROVE Lev(node', headers, j) = Lev(node, headers, j)
    <3>1. ASSUME NEW n PROVE n \in Inn(node') /\ node'[n].level = j <=> n \in Inn(node) /\ node[n].level = j
      BY ONLY <1>19, <1>33, <1>34, <2>3
    <3>2. QED
      BY ONLY <3>1 DEF Lev
  <2>4. ASSUME NEW j \in Nat, NEW c \in Lev(node, headers, j)
        PROVE  c \in Lev(node', headers, j) /\ Key(node', j, c) = Key(node, j, c)
    <3>1. CASE j = 0
      BY ONLY <2>4, <3>1 DEF Lev, Key
    <3>2. CASE j # 0
      <4>1. c \in Inn(node) /\ node[c].level = j
        BY ONLY <2>4, <3>2 DEF Lev
      <4>2. QED
        BY ONLY <1>19, <1>33, <3>2, <4>1 DEF Lev, Key
    <3>3. QED
      BY ONLY <3>1, <3>2
  <2>5. QED
    BY ONLY <2>1, <2>2, <2>3, <2>4
<1>22. ThreadOK(node', headers', registered', root', pc'[t], smo'[t], p_inner'[t])
  <2>1. smo'[t] \in SmoRecord /\ smo'[t].operator \in Operators
    BY ONLY <1>5, <1>16 DEF SmoRecord
  <2>2. Own("find_parent", smo'[t]) = {m, N}
    BY ONLY <1>7, <1>16, OwnBoth
  <2>3. OwnOK(node', headers', registered', "find_parent", smo'[t])
    <3>1. Lv(smo'[t].operator) = l /\ smo'[t].operator > 0
      BY ONLY <1>6, <1>16 DEF l, op
    <3>2. m \in Lev(node', headers', l) /\ Reg(node', registered', l, m, op)
      BY ONLY <1>1, <1>6, <1>9, <1>19, <1>31, <1>34 DEF Lev, Reg
    <3>3. N \in Lev(node', headers', l) /\ Reg(node', registered', l, N, op)
      BY ONLY <1>1, <1>6, <1>21, <1>31, <1>34 DEF Reg
    <3>4. smo'[t].operator = op
      BY ONLY <1>16
    <3>5. QED
      BY ONLY <2>2, <3>1, <3>2, <3>3, <3>4 DEF OwnOK
  <2>4. Near(node', headers', l, m, N)
    <3>1. ASSUME NEW c \in Inn(node), node[c].level = l
          PROVE  node[c].min_key <= node[m].min_key \/ node'[N].min_key <= node[c].min_key
      <4>1. c = m \/ node[c].min_key < node[m].min_key \/ Right1(node, m) <= node[c].min_key
        <5>1. m \in Inn(node) /\ c \in Inn(node) /\ node[m].level = node[c].level
          BY ONLY <1>9, c \in Inn(node), <3>1
        <5>2. QED
          BY ONLY <1>10, <5>1 DEF OrderOK
      <4>2. /\ node[c].min_key \in Nat /\ node[m].min_key \in Nat /\ Right1(node, m) \in Nat
            /\ node'[N].min_key \in Nat
        BY ONLY <1>9, <1>20, c \in Inn(node)
      <4>3. QED
        BY ONLY <1>19, <4>1, <4>2
    <3>2. Key(node', l, m) = node[m].min_key /\ Key(node', l, N) = node'[N].min_key
      BY ONLY <1>31, <1>34 DEF Key
    <3>3. ASSUME NEW c \in Lev(node', headers', l)
          PROVE  Key(node', l, c) <= Key(node', l, m) \/ Key(node', l, N) <= Key(node', l, c)
      <4>1. CASE c = N
        BY ONLY <1>20, <3>2, <4>1
      <4>2. CASE c # N
        <5>1. c \in Inn(node) /\ node[c].level = l
          BY ONLY <1>1, <1>21, <1>34, <3>3, <4>2 DEF Lev
        <5>2. Key(node', l, c) = node[c].min_key
          BY ONLY <1>33, <1>34, <5>1 DEF Key
        <5>3. QED
          BY ONLY <3>1, <3>2, <5>1, <5>2
      <4>3. QED
        BY ONLY <4>1, <4>2
    <3>4. Key(node', l, m) < Key(node', l, N)
      BY ONLY <1>19, <3>2
    <3>5. QED
      BY ONLY <3>3, <3>4 DEF Near
  <2>5. SmoOK(node', headers', root', "find_parent", smo'[t], p_inner[t])
    <3>1. /\ smo'[t].operator = op /\ smo'[t].master = m /\ smo'[t].slave = N
          /\ Lv(smo'[t].operator) = l
      BY ONLY <1>16 DEF l, op
    <3>2. /\ "find_parent" \notin {"idle", "header_merge", "inner_merge", "release_master", "level_up"}
      OBVIOUS
    <3>3. QED
      BY ONLY <1>6, <1>7, <2>4, <3>1, <3>2 DEF SmoOK
  <2>6. p_inner[t] = NoNode
    BY <1>1, <1>3, ThreadFacts
  <2>7. ParOK(node', "find_parent", smo'[t], p_inner[t])
    BY ONLY <2>6 DEF ParOK, MergeLocs
  <2>8. QED
    BY ONLY <1>1, <1>7, <1>13, <2>1, <2>3, <2>5, <2>7 DEF ThreadOK
<1>23. ASSUME NEW u \in Threads, u # t
       PROVE  ThreadOK(node', headers', registered', root', pc[u], smo[u], p_inner[u])
  <2> DEFINE j == Lv(smo[u].operator)
             a == smo[u].master
             b == smo[u].slave
  <2>1. ThreadOK(node, headers, registered, root, pc[u], smo[u], p_inner[u])
    BY InvFacts
  <2>2. ASSUME pc[u] \in HideLocs PROVE Near(node', headers', j, a, b)
    <3>1. Near(node, headers, j, a, b) /\ Own(pc[u], smo[u]) = {a, b}
      BY <2>1, <2>2, ThreadFacts, OwnBoth
    <3>2. a \in Lev(node, headers, j) /\ b \in Lev(node, headers, j) /\ j \in Nat
      BY <3>1, Holds
    <3>3. j = l => a # m
      BY <1>8, <1>23, <3>1, NotShared DEF l
    <3> HIDE DEF j, a, b
    <3>4. CASE j # l
      BY ONLY <1>1, <1>21, <3>1, <3>2, <3>4 DEF Near
    <3>5. CASE j = l
      <4>1. a \in Inn(node) /\ b \in Inn(node) /\ node[a].level = l /\ node[b].level = l
        BY ONLY <1>6, <3>2, <3>5 DEF Lev
      <4>2. /\ node[a].min_key < node[b].min_key
            /\ node[m].min_key <= node[a].min_key \/ node[b].min_key <= node[m].min_key
        BY ONLY <1>6, <1>9, <3>1, <3>5 DEF Near, Lev, Key
      <4>3. node[a].min_key < node[m].min_key \/ Right1(node, m) <= node[a].min_key
        BY ONLY <1>9, <1>10, <3>3, <3>5, <4>1 DEF OrderOK
      <4>4. node'[N].min_key <= node[a].min_key \/ node[b].min_key <= node'[N].min_key
        <5>1. /\ node[a].min_key \in Nat /\ node[b].min_key \in Nat /\ node[m].min_key \in Nat
              /\ Right1(node, m) \in Nat /\ node'[N].min_key \in Nat
          BY ONLY <1>9, <1>20, <4>1
        <5>2. QED
          BY ONLY <1>19, <4>2, <4>3, <5>1
      <4>5. Key(node', l, N) = node'[N].min_key /\ Key(node, l, a) = node[a].min_key /\ Key(node, l, b) = node[b].min_key
        BY ONLY <1>6 DEF Key
      <4>6. QED
        BY ONLY <1>1, <1>21, <3>1, <3>2, <3>5, <4>4, <4>5 DEF Near
    <3>6. QED
      BY ONLY <3>4, <3>5
  <2>3. /\ p_inner[u] # NoNode => p_inner[u] \in Inn(node)
        /\ pc[u] = "level_up" => smo[u].master = root /\ Lv(smo[u].operator) = node[root].level
    BY <2>1, Holds, ThreadFacts
  <2>4. root \in Inn(node)
    BY ONLY <1>4, TreeFacts
  <2>5. /\ p_inner[u] # NoNode => node'[p_inner[u]].level > 0
        /\ pc[u] = "level_up" => smo[u].master = root' /\ Lv(smo[u].operator) = node'[root'].level
    BY ONLY <1>1, <1>20, <1>33, <2>3, <2>4
  <2>6. ASSUME NEW c \in Own(pc[u], smo[u])
        PROVE  IF Lv(smo[u].operator) = 0 THEN c \in headers' /\ c \in registered'
               ELSE c \in Inn(node') /\ node'[c].level = node[c].level /\ node'[c].state = node[c].state
    <3>1. /\ Lv(smo[u].operator) = 0 => c \in headers /\ c \in registered
          /\ Lv(smo[u].operator) # 0 => c \in Inn(node) /\ c \in DOMAIN node
      BY Holds
    <3>2. QED
      BY ONLY <1>1, <1>19, <1>33, <3>1
  <2>7. /\ \A n \in Inn(node) : (n \in Inn(node') /\ node'[n].level = node[n].level) \/ node'[n].level = 0
        /\ \A n \in DOMAIN node : n \in DOMAIN node' /\ (node[n].level = 0 => node'[n].level = 0)
    BY ONLY <1>19, <1>30, <1>33 DEF Same
  <2>8. pc[u] \in HideLocs => Near(node', headers', Lv(smo[u].operator), smo[u].master, smo[u].slave)
    BY ONLY <2>2
  <2>9. QED
    BY ONLY <2>1, <2>5, <2>6, <2>7, <2>8, OtherThread
<1>24. Own(pc'[t], smo'[t]) = {m, N} /\ Lv(smo'[t].operator) = l
  BY ONLY <1>7, <1>13, <1>16, OwnBoth DEF l, op
<1>25. \A u \in Threads : u # t /\ Lv(smo[u].operator) = Lv(smo'[t].operator) =>
         \A c \in Own(pc'[t], smo'[t]) : c \notin Own(pc[u], smo[u])
  <2>1. ASSUME NEW u \in Threads, u # t, Lv(smo[u].operator) = l, NEW c \in {m, N}
        PROVE  c \notin Own(pc[u], smo[u])
    <3>1. N \notin Own(pc[u], smo[u])
      BY <1>6, <1>30, <2>1, Holds
    <3>2. m \notin Own(pc[u], smo[u])
      BY <1>8, <2>1, NotShared DEF l
    <3>3. QED
      BY <2>1, <3>1, <3>2
  <2>2. QED
    BY ONLY <1>24, <2>1
<1>26. \A n \in Inn(node') : node'[n].state # FREE =>
         \/ Lv(smo'[t].operator) > 0 /\ n \in Own(pc'[t], smo'[t])
         \/ /\ n \in Inn(node) /\ node[n].state # FREE
            /\ ~(Lv(smo[t].operator) > 0 /\ n \in Own(pc[t], smo[t]))
  BY ONLY <1>6, <1>8, <1>19, <1>24, <1>33
<1>27. DeadOK(node')
  <2>1. \A n \in Inn(node) : node[n].next # NoNode
    BY DEF Inn
  <2>2. \A n \in Inn(node') : node'[n].next # NoNode
    BY DEF Inn
  <2>3. ASSUME NEW n \in DOMAIN node', node'[n].next = NoNode PROVE node'[n].state = FREE
    <3>1. n \in DOMAIN node /\ n # m
      <4>1. n # N
        BY ONLY <1>19, <2>2, <2>3
      <4>2. n \in DOMAIN node
        BY ONLY <1>30, <2>3, <4>1
      <4>3. m \in Inn(node')
        BY ONLY <1>9, <1>19
      <4>4. QED
        BY ONLY <2>2, <2>3, <4>2, <4>3
    <3>2. QED
      BY ONLY <1>4, <1>30, <2>3, <3>1 DEF DeadOK, Same
  <2>4. QED
    BY ONLY <2>3 DEF DeadOK
<1>28. registered' \subseteq headers' /\ master_root' \in DOMAIN node' /\ Tree(node', root', headers', Hid(pc', smo'))
  BY ONLY <1>1, <1>4, <1>19, <1>30 DEF V
<1>29. QED
  BY ONLY TreeInv, t \in Threads, <1>13, <1>22, <1>23, <1>25, <1>26, <1>27, <1>28, Step

\* Grown(g, h, r, L): a node of level L with r as its only child, and its tail.
Grown(g, h, r, L) ==
  g = h \o <<Inner(L, FREE, <<Entry(h[r].min_key, r)>>, Len(h) + 2), TailNode(L)>>

\* What another level writes.
LEMMA LevelWrites ==
  ASSUME NEW h, Heap(h), NEW r \in DOMAIN h, h[r].min_key = 0, NEW L, L = h[r].level + 1,
         NEW g, Grown(g, h, r, L), NEW N, N = Len(h) + 1
  PROVE  LevelDone(g, h, r, N)
<1> DEFINE es == <<Entry(0, r)>>
           x == Inner(L, FREE, es, N + 1)
           y == TailNode(L)
<1>1. /\ Len(h) \in Nat /\ DOMAIN h = 1 .. Len(h) /\ h \in Seq(NodeRecord)
      /\ \A n \in DOMAIN h : h[n].next \in {NoNode} \union DOMAIN h
      /\ r \in Nat /\ h[r].level \in Nat
  BY HeapFacts DEF Heap
<1>2. L \in Nat /\ N \in Nat /\ N + 1 \in Nat /\ Len(h) + 2 = N + 1 /\ N # NoNode /\ N + 1 # NoNode
  BY <1>1 DEF NoNode
<1>3. es \in Seq(EntryRecord) /\ 1 \in DOMAIN es
  <2>1. 0 \in Keys
    BY KeyFacts
  <2>2. Entry(0, r) \in EntryRecord
    BY <1>1, <2>1 DEF Entry, EntryRecord
  <2>3. QED
    BY <2>2
<1>4. g = h \o <<x, y>>
  BY ONLY <1>2, h[r].min_key = 0, Grown(g, h, r, L) DEF Grown
<1> HIDE DEF es
<1>5. /\ x \in NodeRecord /\ x.level = L /\ x.state = FREE /\ x.min_key = es[1].key
      /\ x.entries = es /\ x.next = N + 1
  BY ONLY <1>2, <1>3, FREE \in {MERGE_REGIST, FREE, SPLIT_REGIST}, NewNode, SMTT(40)
<1>6. /\ y \in NodeRecord /\ y.level = L /\ y.state = FREE /\ y.min_key = MaxKey + 1 /\ y.next = NoNode
  BY ONLY <1>2, NewTail
<1> HIDE DEF x, y
<1>7. <<x, y>> \in Seq(NodeRecord) /\ Len(<<x, y>>) = 2 /\ <<x, y>>[1] = x /\ <<x, y>>[2] = y
  BY ONLY <1>5, <1>6
<1>8. /\ g \in Seq(NodeRecord) /\ Len(g) = Len(h) + 2
      /\ \A i \in 1 .. Len(h) + 2 : g[i] = IF i <= Len(h) THEN h[i] ELSE <<x, y>>[i - Len(h)]
  BY ONLY <1>1, <1>4, <1>7, ConcatProperties
<1>9. DOMAIN g = 1 .. Len(h) + 2
  BY ONLY <1>8
<1>10. DOMAIN g = DOMAIN h \union {N, N + 1}
  BY ONLY <1>1, <1>9, N = Len(h) + 1
<1>11. \A n \in DOMAIN h : g[n] = h[n]
  BY ONLY <1>1, <1>8
<1>12. g[N] = x /\ g[N + 1] = y
  <2>1. /\ N \in 1 .. Len(h) + 2 /\ ~(N <= Len(h)) /\ N - Len(h) = 1
        /\ N + 1 \in 1 .. Len(h) + 2 /\ ~(N + 1 <= Len(h)) /\ N + 1 - Len(h) = 2
    BY ONLY <1>1, N = Len(h) + 1
  <2>2. QED
    BY ONLY <1>7, <1>8, <2>1
<1>13. Heap(g)
  <2>1. \A n \in DOMAIN g : g[n].next \in {NoNode} \union DOMAIN g
    BY ONLY <1>1, <1>5, <1>6, <1>10, <1>11, <1>12
  <2>2. QED
    BY ONLY <1>8, <2>1 DEF Heap
<1>14. es[1].key = 0 /\ es = <<Entry(0, r)>>
  BY DEF es, Entry
<1>15. QED
  BY ONLY <1>5, <1>6, <1>10, <1>11, <1>12, <1>13, <1>14, N = Len(h) + 1, L = h[r].level + 1 DEF LevelDone

\* The tree gets another level, with its old root as the only child of the new one.
LEMMA LevelUpKeeps ==
  ASSUME TreeInv, NEW t \in Threads, rlu_root_level_up(t)
  PROVE  TreeInv'
<1> DEFINE l == Lv(smo[t].operator)
           N == Len(node) + 1
           U == Hid(pc, smo)
<1>1. /\ pc[t] = "level_up" /\ pc' = [pc EXCEPT ![t] = "up_written"]
      /\ p_inner' = [p_inner EXCEPT ![t] = N]
      /\ root' = N /\ master_root' = master_root /\ headers' = headers
      /\ registered' = registered /\ smo' = smo
  BY DEF rlu_root_level_up, leaves, Goto
<1>2. Grown(node', node, root, l + 1)
  <2>1. parent_level(t) = l + 1
    BY SmoKeys
  <2>2. N + 1 = Len(node) + 2
    <3>1. Len(node) \in Nat
      BY InvFacts, TreeFacts, HeapFacts
    <3>2. QED
      BY <3>1
  <2>3. QED
    BY <2>1, <2>2 DEF rlu_root_level_up, Grown
<1>3. ThreadOK(node, headers, registered, root, pc[t], smo[t], p_inner[t])
  BY InvFacts
<1>4. /\ registered \subseteq headers /\ master_root \in DOMAIN node
      /\ Tree(node, root, headers, U) /\ DeadOK(node)
  BY InvFacts
<1>5. /\ "level_up" \in HideLocs /\ "up_written" \in HideLocs /\ "up_written" \in Locs
      /\ "up_written" \in SplitLocs /\ "level_up" \in SplitLocs
      /\ "up_written" \notin {"idle", "header_merge", "inner_merge", "release_master", "level_up"}
  BY DEF HideLocs, SplitLocs, MergeLocs, Locs
<1>6. /\ smo[t].master = root /\ l = node[root].level /\ smo[t].operator > 0
      /\ smo[t] \in SmoRecord /\ smo[t].operator \in Operators /\ l \in Nat
      /\ Near(node, headers, l, smo[t].master, smo[t].slave)
  BY <1>1, <1>3, <1>5, ThreadFacts
<1>7. /\ Heap(node) /\ l >= 1 /\ NodesOK(node, l) /\ root \in Inn(node) /\ node[root].min_key = 0
  BY <1>4, <1>6, TreeFacts
<1>8. root \in DOMAIN node
  BY <1>7 DEF Inn
<1>9. LevelDone(node', node, root, N)
  <2>1. N = Len(node) + 1
    OBVIOUS
  <2> HIDE DEF N, l
  <2>2. QED
    BY ONLY <1>2, <1>6, <1>7, <1>8, <2>1, LevelWrites
<1>10. Len(node) \in Nat /\ DOMAIN node = 1 .. Len(node)
  BY <1>7, HeapFacts
<1>11. N \notin DOMAIN node /\ N + 1 \notin DOMAIN node /\ N # N + 1
  BY <1>10
<1>12. N \notin U[l + 1]
  <2>1. ASSUME N \in U[l + 1] PROVE FALSE
    <3>1. l + 1 \in Nat /\ l + 1 # 0
      BY <1>6
    <3>2. N \in Lev(node, headers, l + 1)
      BY <2>1, <3>1, HidOwned
    <3>3. N \in DOMAIN node
      BY <3>1, <3>2 DEF Lev, Inn
    <3>4. QED
      BY <1>11, <3>3
  <2>2. QED
    BY <2>1
<1>13. Others(t) /\ pc'[t] = "up_written" /\ p_inner'[t] = N /\ smo'[t] = smo[t]
  BY <1>1, OthersIs, Wrote
<1>14. Hid(pc', smo') = U
  BY <1>1, <1>5, <1>13, HidSame
<1> HIDE DEF l, N, U
<1>15. Tree(node', N, headers, U) /\ Inn(node') = Inn(node) \union {N}
  <2>1. N \notin U[node[root].level + 1]
    BY ONLY <1>6, <1>12
  <2>2. QED
    BY ONLY <1>4, <1>9, <2>1, LevelAdded
<1>16. /\ \A n \in DOMAIN node : node'[n] = node[n]
       /\ DOMAIN node' = DOMAIN node \union {N, N + 1}
       /\ node'[N].level = l + 1 /\ node'[N].state = FREE /\ node'[N + 1].state = FREE
  BY ONLY <1>6, <1>9 DEF LevelDone
<1>17. \A n \in Inn(node) : n \in DOMAIN node /\ node'[n] = node[n] /\ node[n].level \in 1 .. l
  <2>1. \A n \in Inn(node) : n \in DOMAIN node /\ node[n].level \in 1 .. l
    BY ONLY <1>6, <1>7, InnFacts
  <2>2. QED
    BY ONLY <1>16, <2>1
<1>18. ASSUME NEW j \in Nat, NEW a \in Lev(node, headers, j), NEW b, Near(node, headers, j, a, b),
              b \in Lev(node, headers, j)
       PROVE  Near(node', headers', j, a, b)
  <2>1. CASE j = 0
    BY ONLY <1>1, <1>18, <2>1 DEF Near, Lev, Key
  <2>2. CASE j # 0
    <3>1. a \in Inn(node) /\ b \in Inn(node) /\ node[a].level = j
      BY ONLY <1>18, a \in Lev(node, headers, j), <2>2 DEF Lev
    <3>2. j \in 1 .. l /\ j # l + 1
      BY ONLY <1>6, <1>17, <3>1
    <3>3. ASSUME NEW n PROVE n \in Inn(node') /\ node'[n].level = j <=> n \in Inn(node) /\ node[n].level = j
      BY ONLY <1>15, <1>16, <1>17, <3>2
    <3>4. Lev(node', headers', j) = Lev(node, headers, j)
      BY ONLY <1>1, <2>2, <3>3 DEF Lev
    <3>5. \A c \in Lev(node, headers, j) : Key(node', j, c) = Key(node, j, c)
      BY ONLY <1>17, <2>2 DEF Lev, Key
    <3>6. QED
      BY ONLY <1>18, a \in Lev(node, headers, j), <3>4, <3>5 DEF Near
  <2>3. QED
    BY ONLY <2>1, <2>2
<1>19. /\ \A n \in Inn(node) : (n \in Inn(node') /\ node'[n].level = node[n].level) \/ node'[n].level = 0
       /\ \A n \in DOMAIN node : n \in DOMAIN node' /\ (node[n].level = 0 => node'[n].level = 0)
  BY ONLY <1>15, <1>16, <1>17
<1>20. Own(pc[t], smo[t]) = {smo[t].master, smo[t].slave} /\ Own(pc'[t], smo'[t]) = Own(pc[t], smo[t])
  BY <1>1, <1>5, <1>13, OwnBoth
<1>21. ThreadOK(node', headers', registered', root', pc'[t], smo'[t], p_inner'[t])
  <2>1. ASSUME NEW c \in Own(pc[t], smo[t])
        PROVE  c \in Lev(node', headers', l) /\ Reg(node', registered', l, c, smo[t].operator)
    <3>1. c \in Inn(node) /\ node[c].level = l /\ Reg(node, registered, l, c, smo[t].operator)
      BY <1>3, <1>7, <2>1, ThreadFacts DEF Lev, l
    <3>2. c \in Inn(node') /\ node'[c] = node[c] /\ l # 0
      BY ONLY <1>6, <1>7, <1>15, <1>17, <3>1
    <3>3. QED
      BY ONLY <1>1, <3>1, <3>2 DEF Lev, Reg
  <2>2. OwnOK(node', headers', registered', "up_written", smo[t])
    <3>1. Own("up_written", smo[t]) = Own(pc[t], smo[t])
      BY ONLY <1>13, <1>20
    <3>2. QED
      BY ONLY <2>1, <3>1 DEF OwnOK, l
  <2>3. Near(node', headers', l, smo[t].master, smo[t].slave)
    <3>1. smo[t].master \in Lev(node, headers, l) /\ smo[t].slave \in Lev(node, headers, l)
      BY <1>20, Holds DEF l
    <3>2. QED
      BY ONLY <1>6, <1>18, <3>1
  <2>4. SmoOK(node', headers', root', "up_written", smo[t], N)
    BY ONLY <1>5, <1>6, <2>3 DEF SmoOK, l
  <2>5. N # NoNode
    BY <1>10 DEF N, NoNode
  <2>6. ParOK(node', "up_written", smo[t], N)
    BY ONLY <1>5, <1>15, <1>16, <2>5 DEF ParOK, l
  <2>7. QED
    BY ONLY <1>5, <1>6, <1>13, <2>2, <2>4, <2>6 DEF ThreadOK
<1>22. ASSUME NEW u \in Threads, u # t
       PROVE  ThreadOK(node', headers', registered', root', pc[u], smo[u], p_inner[u])
  <2>1. ThreadOK(node, headers, registered, root, pc[u], smo[u], p_inner[u])
    BY InvFacts
  <2>2. ASSUME pc[u] \in HideLocs
        PROVE  Near(node', headers', Lv(smo[u].operator), smo[u].master, smo[u].slave)
    <3>1. /\ Near(node, headers, Lv(smo[u].operator), smo[u].master, smo[u].slave)
          /\ Own(pc[u], smo[u]) = {smo[u].master, smo[u].slave} /\ Lv(smo[u].operator) \in Nat
      BY <2>1, <2>2, ThreadFacts, OwnBoth
    <3>2. /\ smo[u].master \in Lev(node, headers, Lv(smo[u].operator))
          /\ smo[u].slave \in Lev(node, headers, Lv(smo[u].operator))
      BY <3>1, Holds
    <3>3. QED
      BY ONLY <1>18, <3>1, <3>2
  <2>3. pc[u] # "level_up"
    <3>1. ASSUME pc[u] = "level_up" PROVE FALSE
      <4>1. smo[u].master = root /\ Lv(smo[u].operator) = node[root].level
        BY <2>1, <3>1, ThreadFacts
      <4>2. root \in Own(pc[u], smo[u])
        BY <1>5, <3>1, <4>1, OwnBoth
      <4>3. root \in Own(pc[t], smo[t]) /\ Lv(smo[t].operator) = Lv(smo[u].operator)
        BY <1>6, <1>20, <4>1 DEF l
      <4>4. QED
        BY ONLY TreeInv, t \in Threads, u \in Threads, <1>22, <4>2, <4>3, NotShared
    <3>2. QED
      BY <3>1
  <2>4. p_inner[u] # NoNode => node'[p_inner[u]].level > 0
    <3>1. p_inner[u] # NoNode => p_inner[u] \in Inn(node) /\ node[p_inner[u]].level > 0
      BY Holds
    <3>2. QED
      BY ONLY <1>17, <3>1
  <2>5. ASSUME NEW c \in Own(pc[u], smo[u])
        PROVE  IF Lv(smo[u].operator) = 0 THEN c \in headers' /\ c \in registered'
               ELSE c \in Inn(node') /\ node'[c].level = node[c].level /\ node'[c].state = node[c].state
    <3>1. /\ Lv(smo[u].operator) = 0 => c \in headers /\ c \in registered
          /\ Lv(smo[u].operator) # 0 => c \in Inn(node)
      BY Holds
    <3>2. QED
      BY ONLY <1>1, <1>15, <1>17, <3>1
  <2>6. pc[u] = "level_up" => smo[u].master = root' /\ Lv(smo[u].operator) = node'[root'].level
    BY ONLY <2>3
  <2>7. QED
    BY ONLY <1>19, <2>1, <2>2, <2>4, <2>5, <2>6, OtherThread
<1>23. \A u \in Threads : u # t /\ Lv(smo[u].operator) = Lv(smo'[t].operator) =>
         \A c \in Own(pc'[t], smo'[t]) : c \notin Own(pc[u], smo[u])
  BY <1>13, <1>20, NotShared
<1>24. \A n \in Inn(node') : node'[n].state # FREE =>
         \/ Lv(smo'[t].operator) > 0 /\ n \in Own(pc'[t], smo'[t])
         \/ /\ n \in Inn(node) /\ node[n].state # FREE
            /\ ~(Lv(smo[t].operator) > 0 /\ n \in Own(pc[t], smo[t]))
  BY ONLY <1>13, <1>15, <1>16, <1>17, <1>20
<1>25. DeadOK(node')
  <2>1. N \in Inn(node')
    BY ONLY <1>15
  <2>2. node'[N].next # NoNode
    BY <2>1 DEF Inn
  <2>3. QED
    BY ONLY <1>4, <1>16, <2>2 DEF DeadOK
<1>26. registered' \subseteq headers' /\ master_root' \in DOMAIN node' /\ Tree(node', root', headers', Hid(pc', smo'))
  BY ONLY <1>1, <1>4, <1>14, <1>15, <1>16 DEF N
<1>27. QED
  BY ONLY TreeInv, t \in Threads, <1>13, <1>21, <1>22, <1>23, <1>24, <1>25, <1>26, Step

\* Joined(g, h, m, s): the entries of s go to m, and s is freed.
Joined(g, h, m, s) ==
  g = [h EXCEPT ![m].entries = @ \o h[s].entries, ![m].next = h[s].next, ![s] = Freed]

\* A node with other entries and another neighbour.
NodeWith(x, r, es, n) == x = [[r EXCEPT !.entries = es] EXCEPT !.next = n]

\* What is written, and what is left alone.
LEMMA NodeWritten ==
  ASSUME NEW r \in NodeRecord, NEW es \in Seq(EntryRecord), NEW n \in Nat, NEW x, NodeWith(x, r, es, n)
  PROVE  /\ x \in NodeRecord /\ x.level = r.level /\ x.state = r.state
         /\ x.min_key = r.min_key /\ x.entries = es /\ x.next = n
  BY DEF NodeWith, NodeRecord

\* What a merge writes.
LEMMA MergeWrites ==
  ASSUME NEW h, Heap(h), NEW m \in DOMAIN h, NEW s \in DOMAIN h, m # s,
         NEW g, Joined(g, h, m, s)
  PROVE  MergeDone(g, h, m, s)
<1> DEFINE es == h[m].entries \o h[s].entries
           x == [[h[m] EXCEPT !.entries = es] EXCEPT !.next = h[s].next]
<1>1. /\ Len(h) \in Nat /\ DOMAIN h = 1 .. Len(h) /\ h \in Seq(NodeRecord)
      /\ \A n \in DOMAIN h : h[n] \in NodeRecord /\ h[n].next \in {NoNode} \union DOMAIN h
  BY HeapFacts DEF Heap
<1>2. /\ h[m].entries \in Seq(EntryRecord) /\ h[s].entries \in Seq(EntryRecord)
      /\ h[s].next \in Nat /\ h[s].next \in {NoNode} \union DOMAIN h
  BY HeapFacts
<1>3. es \in Seq(EntryRecord)
  BY ONLY <1>2, ConcatProperties
<1>4. /\ Freed \in NodeRecord /\ Freed.level = 0 /\ Freed.state = FREE /\ Freed.next = NoNode
  BY ONLY 0 \in Nat, NewTail
<1>5. g = [h EXCEPT ![m].entries = es, ![m].next = h[s].next, ![s] = Freed]
  BY Zenon DEF Joined
<1> HIDE DEF es
<1>6. /\ x \in NodeRecord /\ x.level = h[m].level /\ x.state = h[m].state
      /\ x.min_key = h[m].min_key /\ x.entries = es /\ x.next = h[s].next
  <2>1. NodeWith(x, h[m], es, h[s].next)
    BY DEF NodeWith
  <2> HIDE DEF x
  <2>2. h[m] \in NodeRecord
    BY ONLY <1>1, m \in DOMAIN h
  <2>3. QED
    BY ONLY <1>2, <1>3, <2>1, <2>2, NodeWritten
<1>7. /\ DOMAIN g = DOMAIN h /\ g[m] = x /\ g[s] = Freed
      /\ \A n \in DOMAIN h : n # m /\ n # s => g[n] = h[n]
  BY ONLY <1>1, <1>5, m # s, m \in DOMAIN h, s \in DOMAIN h
<1>8. g = [n \in 1 .. Len(h) |-> g[n]]
  BY ONLY <1>1, <1>5
<1> HIDE DEF x
<1>9. \A n \in 1 .. Len(h) : g[n] \in NodeRecord
  BY ONLY <1>1, <1>4, <1>6, <1>7
<1>10. g \in Seq(NodeRecord)
  <2>1. g \in [1 .. Len(h) -> NodeRecord]
    BY ONLY <1>8, <1>9
  <2>2. QED
    BY ONLY <1>1, <2>1
<1>11. \A n \in DOMAIN g : g[n].next \in {NoNode} \union DOMAIN g
  BY ONLY <1>1, <1>2, <1>4, <1>6, <1>7
<1>12. Heap(g)
  BY ONLY <1>10, <1>11 DEF Heap
<1>13. \A n \in DOMAIN h : n # s =>
         /\ g[n].level = h[n].level /\ g[n].min_key = h[n].min_key
         /\ g[n].state = h[n].state
         /\ n # m => g[n].next = h[n].next /\ g[n].entries = h[n].entries
  BY ONLY <1>6, <1>7
<1>14. es = h[m].entries \o h[s].entries
  BY DEF es
<1>15. QED
  BY ONLY <1>4, <1>6, <1>7, <1>12, <1>13, <1>14 DEF MergeDone

\* The slave of a merge is its master's neighbour.
LEMMA SlaveIsNext ==
  ASSUME NEW h, NEW r, NEW H, NEW U, Tree(h, r, H, U), NEW l \in Nat, l # 0,
         NEW m \in Lev(h, H, l), NEW s \in Lev(h, H, l), Near(h, H, l, m, s)
  PROVE  h[m].next = s /\ m # s
<1> DEFINE q == h[m].next
<1>1. /\ Heap(h) /\ h[r].level \in Nat /\ NodesOK(h, h[r].level) /\ OrderOK(h)
  BY TreeFacts
<1>2. /\ m \in Inn(h) /\ h[m].level = l /\ s \in Inn(h) /\ h[s].level = l
  BY DEF Lev
<1>3. /\ h[m].min_key < h[s].min_key
      /\ \A c \in Inn(h) : h[c].level = l => h[c].min_key <= h[m].min_key \/ h[s].min_key <= h[c].min_key
  BY DEF Near, Lev, Key
<1>4. /\ h[m].min_key \in Nat /\ h[s].min_key \in Nat /\ Right1(h, m) \in Nat
      /\ h[s].min_key \in Keys /\ h[m].min_key < Right1(h, m)
      /\ q \notin Inn(h) => Right1(h, m) = MaxKey + 1
  BY <1>1, <1>2, InnFacts
<1>5. m # s
  BY ONLY <1>3, <1>4
<1>6. Right1(h, m) <= h[s].min_key
  <2>1. h[s].min_key < h[m].min_key \/ Right1(h, m) <= h[s].min_key
    BY <1>1, <1>2, <1>5 DEF OrderOK
  <2>2. QED
    BY ONLY <1>3, <1>4, <2>1
<1>7. q \in Inn(h)
  <2>1. h[s].min_key <= MaxKey /\ MaxKey \in Nat
    BY <1>4, KeyFacts
  <2>2. QED
    BY ONLY <1>4, <1>6, <2>1
<1>8. h[q].min_key = Right1(h, m) /\ h[q].level = l
  BY <1>1, <1>2, <1>7, NextFacts
<1>9. h[q].min_key = h[s].min_key
  <2>1. h[q].min_key <= h[m].min_key \/ h[s].min_key <= h[q].min_key
    BY <1>3, <1>7, <1>8
  <2> HIDE DEF q
  <2>2. QED
    BY ONLY <1>4, <1>6, <1>8, <2>1
<1>10. q \in Lev(h, H, l) /\ Key(h, l, q) = Key(h, l, s)
  BY <1>7, <1>8, <1>9 DEF Lev, Key
<1>11. q = s
  BY <1>10, KeyOnce
<1>12. QED
  BY <1>5, <1>11

\* Two inner nodes are merged: the parent has let go of the slave before.
LEMMA InnerMergeKeeps ==
  ASSUME TreeInv, HeldNodesLive', NEW t \in Threads, rlu_inner_merge(t)
  PROVE  TreeInv'
<1> DEFINE l == Lv(smo[t].operator)
           m == smo[t].master
           s == smo[t].slave
           op == smo[t].operator
           U == Hid(pc, smo)
           V == Hid(pc', smo')
<1>1. /\ pc[t] = "inner_merge" /\ pc' = [pc EXCEPT ![t] = "release_master"]
      /\ p_inner' = p_inner /\ root' = root /\ master_root' = master_root /\ headers' = headers
      /\ registered' = registered /\ smo' = smo
  BY ONLY rlu_inner_merge(t) DEF rlu_inner_merge, leaves, Goto
<1>2. Joined(node', node, m, s)
  BY DEF rlu_inner_merge, Joined
<1>3. ThreadOK(node, headers, registered, root, pc[t], smo[t], p_inner[t])
  BY InvFacts
<1>4. /\ registered \subseteq headers /\ master_root \in DOMAIN node
      /\ Tree(node, root, headers, U) /\ DeadOK(node)
  BY InvFacts
<1>5. /\ "inner_merge" \in HideLocs /\ "inner_merge" \in MergeLocs
      /\ "release_master" \notin HideLocs /\ "release_master" \in Locs
      /\ "release_master" \notin {"idle", "release", "header_merge", "inner_merge", "level_up",
                                  "up_written", "update"}
      /\ "release_master" \notin SplitLocs
  BY DEF HideLocs, SplitLocs, MergeLocs, Locs
<1>6. /\ op < -10 /\ smo[t] \in SmoRecord /\ op \in Operators /\ l \in Nat /\ op \in Int
      /\ op < 0 => op = -10 - l
      /\ Near(node, headers, l, m, s) /\ p_inner[t] \in {NoNode} \union Inn(node)
      /\ p_inner[t] # NoNode /\ node[p_inner[t]].level = l + 1
      /\ m \in Nat /\ s \in Nat
  BY <1>1, <1>3, <1>5, ThreadFacts
<1>7. l # 0 /\ op < 0 /\ ~(op > 0)
  BY ONLY <1>6
<1>8. Own(pc[t], smo[t]) = {m, s} /\ Own("release_master", smo[t]) = {m}
  <2>1. Own("release_master", smo[t]) = {m}
    BY <1>5 DEF Own
  <2>2. QED
    BY <1>1, <1>5, <2>1, OwnBoth
<1>9. /\ m \in Inn(node) /\ m \in DOMAIN node /\ node[m].level = l /\ m \in Lev(node, headers, l)
      /\ s \in Inn(node) /\ s \in DOMAIN node /\ node[s].level = l /\ s \in Lev(node, headers, l)
      /\ node[m].state = MERGE_REGIST
  BY <1>7, <1>8, Holds
<1>10. Others(t) /\ pc'[t] = "release_master" /\ smo'[t] = smo[t] /\ p_inner'[t] = p_inner[t]
  BY <1>1, OthersIs, Wrote
<1>11. s \in U[l]
  BY <1>1, <1>5, <1>6, HidIs
<1>12. HidMinus(V, U, l, s)
  <2>1. \A j \in Nat : V[j] = IF j = Lv(smo[t].operator) THEN U[j] \ {smo[t].slave} ELSE U[j]
    BY ONLY TreeInv, t \in Threads, <1>1, <1>5, <1>10, HidDrop
  <2>2. QED
    BY ONLY <2>1 DEF HidMinus
<1> HIDE DEF l, m, s, op, U, V
<1>13. node[m].next = s /\ m # s
  BY ONLY <1>4, <1>6, <1>7, <1>9, SlaveIsNext
<1>14. Heap(node) /\ node[root].level \in Nat /\ NodesOK(node, node[root].level)
       /\ root \in Inn(node) /\ root \notin U[node[root].level]
  BY ONLY <1>4, TreeFacts
<1>15. MergeDone(node', node, m, s)
  BY ONLY <1>2, <1>9, <1>13, <1>14, MergeWrites
<1>16. Tree(node', root, headers, V) /\ Inn(node') = Inn(node) \ {s}
  <2>1. MergeAt(node, m, s, l)
    BY ONLY <1>9, <1>13 DEF MergeAt
  <2>2. QED
    BY ONLY <1>4, <1>11, <1>12, <1>15, <2>1, NodesMerged
<1>17. /\ Heap(node') /\ DOMAIN node' = DOMAIN node
       /\ \A n \in DOMAIN node : n # s =>
            /\ node'[n].level = node[n].level /\ node'[n].min_key = node[n].min_key
            /\ node'[n].state = node[n].state
            /\ n # m => node'[n].next = node[n].next
       /\ node'[s].next = NoNode /\ node'[s].level = 0 /\ node'[s].state = FREE
  BY ONLY <1>15 DEF MergeDone
<1>18. \A n \in Inn(node) : n \in DOMAIN node /\ (n # s => n \in Inn(node'))
  <2>1. \A n \in Inn(node) : n \in DOMAIN node
    BY DEF Inn
  <2>2. QED
    BY ONLY <1>16, <2>1
<1>19. root # s
  BY ONLY <1>9, <1>11, <1>14
<1>20. ASSUME NEW j \in Nat, NEW a \in Lev(node, headers, j), NEW b \in Lev(node, headers, j),
              Near(node, headers, j, a, b), j = l => a # s /\ b # s
       PROVE  Near(node', headers', j, a, b)
  <2>1. CASE j = 0
    BY ONLY <1>1, <1>20, <2>1 DEF Near, Lev, Key
  <2>2. CASE j # 0
    <3>1. /\ a \in Inn(node) /\ b \in Inn(node) /\ node[a].level = j /\ node[b].level = j
      BY ONLY a \in Lev(node, headers, j), b \in Lev(node, headers, j), <2>2 DEF Lev
    <3>2. a # s /\ b # s
      BY ONLY <1>9, <1>20, <3>1
    <3>3. \A n \in Inn(node') : n \in Inn(node) /\ node'[n].level = node[n].level /\ node'[n].min_key = node[n].min_key
      BY ONLY <1>16, <1>17, <1>18
    <3>4. node'[a].min_key = node[a].min_key /\ node'[b].min_key = node[b].min_key
      BY ONLY <1>17, <1>18, <3>1, <3>2
    <3>5. \A c \in Lev(node', headers, j) : c \in Lev(node, headers, j) /\ Key(node', j, c) = Key(node, j, c)
      BY ONLY <2>2, <3>3 DEF Lev, Key
    <3>6. Key(node', j, a) = Key(node, j, a) /\ Key(node', j, b) = Key(node, j, b)
      BY ONLY <2>2, <3>4 DEF Key
    <3>7. QED
      BY ONLY <1>1, <1>20, <3>5, <3>6 DEF Near
  <2>3. QED
    BY ONLY <2>1, <2>2
<1>21. /\ \A n \in Inn(node) : (n \in Inn(node') /\ node'[n].level = node[n].level) \/ node'[n].level = 0
       /\ \A n \in DOMAIN node : n \in DOMAIN node' /\ (node[n].level = 0 => node'[n].level = 0)
  BY ONLY <1>17, <1>18
<1>22. ThreadOK(node', headers', registered', root', pc'[t], smo'[t], p_inner'[t])
  <2>1. OwnOK(node', headers', registered', "release_master", smo[t])
    <3>1. m \in Lev(node', headers', l) /\ Reg(node', registered', l, m, op)
      BY ONLY <1>7, <1>9, <1>13, <1>17, <1>18 DEF Lev, Reg
    <3>2. QED
      BY ONLY <1>8, <3>1 DEF OwnOK, l, op
  <2>2. SmoOK(node', headers', root', "release_master", smo[t], p_inner[t])
    <3>1. s \in DOMAIN node' /\ node'[s].level = 0
      BY ONLY <1>9, <1>17
    <3>2. QED
      BY ONLY <1>5, <1>6, <3>1 DEF SmoOK, s, op
  <2>3. ParOK(node', "release_master", smo[t], p_inner[t])
    <3>1. p_inner[t] \in Inn(node) /\ p_inner[t] # s
      BY ONLY <1>6, <1>9
    <3>2. "release_master" \notin {"up_written", "update", "release"} \union MergeLocs
      BY ONLY <1>5 DEF HideLocs
    <3>3. QED
      BY ONLY <1>6, <1>18, <3>1, <3>2 DEF ParOK
  <2>4. QED
    BY ONLY <1>5, <1>6, <1>10, <2>1, <2>2, <2>3 DEF ThreadOK, op
<1>23. ASSUME NEW u \in Threads, u # t
       PROVE  /\ ThreadOK(node', headers', registered', root', pc[u], smo[u], p_inner[u])
              /\ s \notin Own(pc[u], smo[u]) \/ Lv(smo[u].operator) = 0
  <2>1. ThreadOK(node, headers, registered, root, pc[u], smo[u], p_inner[u])
    BY InvFacts
  <2>2. Lv(smo[u].operator) \in Nat /\ \A c \in Own(pc[u], smo[u]) : c \in Lev(node, headers, Lv(smo[u].operator))
    BY Holds
  <2>3. Lv(smo[u].operator) # 0 => s \notin Own(pc[u], smo[u])
    <3>1. CASE Lv(smo[u].operator) = l
      BY <1>8, <1>23, <3>1, NotShared DEF l
    <3>2. CASE Lv(smo[u].operator) # l
      BY ONLY <1>9, <2>2, <3>2 DEF Lev
    <3>3. QED
      BY <3>1, <3>2
  <2>4. ASSUME pc[u] \in HideLocs
        PROVE  Near(node', headers', Lv(smo[u].operator), smo[u].master, smo[u].slave)
    <3>1. /\ Near(node, headers, Lv(smo[u].operator), smo[u].master, smo[u].slave)
          /\ Own(pc[u], smo[u]) = {smo[u].master, smo[u].slave}
      BY <2>1, <2>4, ThreadFacts, OwnBoth
    <3>2. /\ smo[u].master \in Lev(node, headers, Lv(smo[u].operator))
          /\ smo[u].slave \in Lev(node, headers, Lv(smo[u].operator))
      BY ONLY <2>2, <3>1
    <3>3. Lv(smo[u].operator) = l => smo[u].master # s /\ smo[u].slave # s
      BY ONLY <1>7, <2>3, <3>1
    <3>4. QED
      BY ONLY <1>20, <2>2, <3>1, <3>2, <3>3
  <2>5. p_inner[u] # NoNode => node'[p_inner[u]].level > 0
    <3>1. p_inner'[u] # NoNode => node'[p_inner'[u]].level > 0
      BY DEF HeldNodesLive, live
    <3>2. QED
      BY ONLY <1>1, <3>1
  <2>6. ASSUME NEW c \in Own(pc[u], smo[u])
        PROVE  IF Lv(smo[u].operator) = 0 THEN c \in headers' /\ c \in registered'
               ELSE c \in Inn(node') /\ node'[c].level = node[c].level /\ node'[c].state = node[c].state
    <3>1. /\ Lv(smo[u].operator) = 0 => c \in headers /\ c \in registered
          /\ Lv(smo[u].operator) # 0 => c \in Inn(node)
      BY Holds
    <3>2. QED
      BY ONLY <1>1, <1>17, <1>18, <2>3, <3>1, c \in Own(pc[u], smo[u])
  <2>7. pc[u] = "level_up" => smo[u].master = root' /\ Lv(smo[u].operator) = node'[root'].level
    <3>1. pc[u] = "level_up" => smo[u].master = root /\ Lv(smo[u].operator) = node[root].level
      BY ONLY <2>1, ThreadFacts
    <3>2. QED
      BY ONLY <1>1, <1>14, <1>17, <1>18, <1>19, <3>1
  <2>8. ThreadOK(node', headers', registered', root', pc[u], smo[u], p_inner[u])
    BY ONLY <1>21, <2>1, <2>4, <2>5, <2>6, <2>7, OtherThread
  <2>9. QED
    BY ONLY <2>3, <2>8
<1>24. \A u \in Threads : u # t /\ Lv(smo[u].operator) = Lv(smo'[t].operator) =>
         \A c \in Own(pc'[t], smo'[t]) : c \notin Own(pc[u], smo[u])
  BY <1>8, <1>10, NotShared
<1>25. \A n \in Inn(node') : node'[n].state # FREE =>
         \/ Lv(smo'[t].operator) > 0 /\ n \in Own(pc'[t], smo'[t])
         \/ /\ n \in Inn(node) /\ node[n].state # FREE
            /\ ~(Lv(smo[t].operator) > 0 /\ n \in Own(pc[t], smo[t]))
  <2>1. Own(pc'[t], smo'[t]) = {m} /\ Own(pc[t], smo[t]) = {m, s} /\ Lv(smo'[t].operator) = Lv(smo[t].operator)
    BY ONLY <1>8, <1>10
  <2>2. \A n \in Inn(node') : n \in Inn(node) /\ n # s /\ node'[n].state = node[n].state
    BY ONLY <1>16, <1>17, <1>18
  <2>3. QED
    BY ONLY <2>1, <2>2
<1>26. DeadOK(node')
  <2>1. ASSUME NEW n \in DOMAIN node', node'[n].next = NoNode PROVE node'[n].state = FREE
    <3>1. CASE n = s
      BY ONLY <1>17, <3>1
    <3>2. CASE n # s
      <4>1. m \in Inn(node')
        BY ONLY <1>9, <1>13, <1>18
      <4>2. n # m
        BY <2>1, <4>1 DEF Inn
      <4>3. n \in DOMAIN node /\ node[n].next = NoNode /\ node'[n].state = node[n].state
        BY ONLY <1>17, <2>1, n \in DOMAIN node', <3>2, <4>2
      <4>4. QED
        BY ONLY <1>4, <4>3 DEF DeadOK
    <3>3. QED
      BY ONLY <3>1, <3>2
  <2>2. QED
    BY ONLY <2>1 DEF DeadOK
<1>27. registered' \subseteq headers' /\ master_root' \in DOMAIN node' /\ Tree(node', root', headers', Hid(pc', smo'))
  BY ONLY <1>1, <1>4, <1>16, <1>17 DEF V
<1>28. QED
  <2>1. \A u \in Threads : u # t =>
          ThreadOK(node', headers', registered', root', pc[u], smo[u], p_inner[u])
    BY ONLY <1>23, Zenon
  <2>2. QED
    BY ONLY TreeInv, t \in Threads, <1>10, <1>22, <2>1, <1>24, <1>25, <1>26, <1>27, Step

\* Dropped(g, h, r): the node r and its neighbour are freed.
Dropped(g, h, r) == g = [h EXCEPT ![r] = Freed, ![h[r].next] = Freed]

\* What the end of a level writes.
LEMMA DropWrites ==
  ASSUME NEW h, Heap(h), NEW r \in Inn(h), NEW g, Dropped(g, h, r)
  PROVE  LevelGone(g, h, r)
<1> DEFINE q == h[r].next
<1>1. /\ Len(h) \in Nat /\ DOMAIN h = 1 .. Len(h) /\ h \in Seq(NodeRecord)
      /\ \A n \in DOMAIN h : h[n] \in NodeRecord /\ h[n].next \in {NoNode} \union DOMAIN h
  BY HeapFacts DEF Heap
<1>2. r \in DOMAIN h /\ q \in DOMAIN h
  BY <1>1 DEF Inn
<1>3. /\ Freed \in NodeRecord /\ Freed.level = 0 /\ Freed.state = FREE /\ Freed.next = NoNode
  BY ONLY 0 \in Nat, NewTail
<1>4. g = [h EXCEPT ![r] = Freed, ![q] = Freed]
  BY Zenon DEF Dropped
<1> HIDE DEF q
<1>5. /\ DOMAIN g = DOMAIN h /\ g[r] = Freed /\ g[q] = Freed
      /\ \A n \in DOMAIN h : n # r /\ n # q => g[n] = h[n]
  BY ONLY <1>1, <1>2, <1>4
<1>6. g = [n \in 1 .. Len(h) |-> g[n]]
  BY ONLY <1>1, <1>4
<1>7. \A n \in 1 .. Len(h) : g[n] \in NodeRecord
  BY ONLY <1>1, <1>3, <1>5
<1>8. g \in Seq(NodeRecord)
  <2>1. g \in [1 .. Len(h) -> NodeRecord]
    BY ONLY <1>6, <1>7
  <2>2. QED
    BY ONLY <1>1, <2>1
<1>9. \A n \in DOMAIN g : g[n].next \in {NoNode} \union DOMAIN g
  BY ONLY <1>1, <1>3, <1>5
<1>10. Heap(g)
  BY ONLY <1>8, <1>9 DEF Heap
<1>11. q = h[r].next
  BY DEF q
<1>12. QED
  BY ONLY <1>3, <1>5, <1>10, <1>11 DEF LevelGone

\* The last node of the top level is dropped for its only child.
LEMMA LevelDropped ==
  ASSUME TreeInv, HeldNodesLive', RootStays', NEW t \in Threads, rlu_root_level_down(t),
         p_inner[t] = root, LevelEnds(root)
  PROVE  TreeInv'
<1> DEFINE T == node[root].level
           r == root
           c == node[root].entries[1].child
           U == Hid(pc, smo)
<1>1. /\ pc[t] = "level_down" /\ pc' = [pc EXCEPT ![t] = "down_written"]
      /\ p_inner' = [p_inner EXCEPT ![t] = root']
      /\ root' = IF T = 1 THEN NoNode ELSE c
      /\ master_root' = master_root /\ headers' = headers
      /\ registered' = registered /\ smo' = smo
  BY DEF rlu_root_level_down, leaves, Goto
<1>2. Dropped(node', node, r)
  BY DEF rlu_root_level_down, Dropped
<1>3. T # 1 /\ root' = c
  BY <1>1 DEF RootStays
<1>4. /\ registered \subseteq headers /\ master_root \in DOMAIN node
      /\ Tree(node, root, headers, U) /\ DeadOK(node)
  BY InvFacts
<1>5. /\ Heap(node) /\ T \in Nat /\ NodesOK(node, T) /\ r \in Inn(node) /\ r \notin U[T] /\ T >= 1
  BY <1>4, TreeFacts
<1>6. Right1(node, r) = MaxKey + 1 /\ count(r) <= 1
  BY DEF LevelEnds, Right1
<1>7. Len(node[r].entries) = 1
  <2>1. Len(node[r].entries) \in Nat \ {0}
    BY <1>5, InnFacts
  <2>2. Len(node[r].entries) <= 1
    BY ONLY <1>6 DEF count
  <2>3. \A x \in Nat \ {0} : x <= 1 => x = 1
    OBVIOUS
  <2>4. QED
    BY ONLY <2>1, <2>2, <2>3
<1>8. Others(t) /\ pc'[t] = "down_written" /\ smo'[t] = smo[t] /\ p_inner'[t] = c
  BY <1>1, <1>3, OthersIs, Wrote
<1>9. "level_down" \in EndLocs /\ "down_written" \in EndLocs
  BY DEF EndLocs
<1>10. /\ Own(pc[t], smo[t]) = {} /\ Own(pc'[t], smo'[t]) = {}
       /\ pc[t] \notin HideLocs /\ pc'[t] \notin HideLocs
  BY <1>1, <1>8, <1>9, OwnNone
<1>11. Hid(pc', smo') = U
  BY <1>8, <1>10, HidSame
<1>12. root = r /\ c = node[r].entries[1].child /\ T = node[r].level
  OBVIOUS
<1>13. smo[t] \in SmoRecord /\ smo[t].operator \in Operators
  BY Holds
<1> HIDE DEF T, r, c, U
<1>14. LevelGone(node', node, r)
  BY ONLY <1>2, <1>5, DropWrites
<1>15. Tree(node', c, headers, U) /\ Inn(node') = Inn(node) \ {r}
  <2>1. Tree(node, r, headers, U) /\ node[r].level # 1
    BY ONLY <1>3, <1>4, <1>12
  <2>2. QED
    BY ONLY <1>6, <1>7, <1>12, <1>14, <2>1, LevelRemoved
<1>16. /\ DOMAIN node' = DOMAIN node
       /\ \A n \in DOMAIN node : n # r /\ n # node[r].next => node'[n] = node[n]
       /\ node'[r].level = 0 /\ node'[node[r].next].level = 0
       /\ node'[r].state = FREE /\ node'[node[r].next].state = FREE
  BY ONLY <1>14 DEF LevelGone
<1>17. /\ node[r].next \notin Inn(node)
       /\ \A n \in Inn(node) : node[n].level = T => n = r
  <2>1. Tree(node, r, headers, U)
    BY ONLY <1>4, <1>12
  <2>2. QED
    BY ONLY <1>6, <1>12, <2>1, RootAlone
<1>18. \A n \in Inn(node) : n \in DOMAIN node /\ node[n].level \in 1 .. T
                            /\ (n # r => n \in Inn(node') /\ node'[n] = node[n])
  <2>1. \A n \in Inn(node) : n \in DOMAIN node /\ node[n].level \in 1 .. T
    BY ONLY <1>5, InnFacts
  <2>2. QED
    BY ONLY <1>15, <1>16, <1>17, <2>1
<1>19. c \in Inn(node') /\ c # NoNode /\ Heap(node')
  <2>1. c \in Inn(node') /\ Heap(node')
    BY ONLY <1>15, TreeFacts
  <2>2. c \in DOMAIN node'
    BY <2>1 DEF Inn
  <2>3. QED
    BY <2>1, <2>2, HeapFacts DEF NoNode
<1>20. ThreadOK(node', headers', registered', root', pc'[t], smo'[t], p_inner'[t])
  BY ONLY <1>8, <1>9, <1>13, <1>19, EndOK
<1>21. ASSUME NEW u \in Threads, NEW d \in Own(pc[u], smo[u]), Lv(smo[u].operator) # 0
       PROVE  d # r
  <2>1. ThreadOK(node, headers, registered, root, pc[u], smo[u], p_inner[u])
    BY InvFacts
  <2>2. d \in Inn(node) /\ node[d].level = Lv(smo[u].operator) /\ Lv(smo[u].operator) \in Nat
        /\ Lv(smo[u].operator) > 0
    BY <1>21, Holds
  <2>3. smo[u].master # r
    <3>1. child_level(u)' > 0 => node'[smo'[u].master].level > 0
      BY DEF HeldNodesLive, live
    <3>2. child_level(u)' = Lv(smo'[u].operator)
      BY DEF child_level, Lv
    <3>3. QED
      BY ONLY <1>1, <1>16, <2>2, <3>1, <3>2
  <2>4. CASE d = smo[u].master
    BY ONLY <2>3, <2>4
  <2>5. CASE d # smo[u].master /\ pc[u] \in HideLocs
    <3>1. d = smo[u].slave
      BY <1>21, <2>5, OwnBoth
    <3>2. d \in U[Lv(smo[u].operator)]
      <4>1. smo[u].slave \in Nat
        BY <2>1, ThreadFacts
      <4>2. QED
        BY <2>2, <2>5, <3>1, <4>1, HidIs DEF U
    <3>3. d = r => Lv(smo[u].operator) = T
      BY ONLY <1>12, <2>2
    <3>4. QED
      BY ONLY <1>5, <3>2, <3>3
  <2>6. CASE d # smo[u].master /\ pc[u] \notin HideLocs
    <3>1. pc[u] = "release"
      BY <1>21, <2>6 DEF Own
    <3>2. p_inner[u] \in Inn(node) /\ node[p_inner[u]].level = Lv(smo[u].operator) + 1
      BY <2>1, <3>1, ThreadFacts
    <3>3. Lv(smo[u].operator) + 1 <= T
      BY ONLY <1>5, <1>18, <3>2
    <3>4. d = r => Lv(smo[u].operator) = T
      BY ONLY <1>12, <2>2
    <3>5. QED
      BY ONLY <1>5, <2>2, <3>3, <3>4
  <2>7. QED
    BY ONLY <2>4, <2>5, <2>6
<1>22. ASSUME NEW j \in Nat, NEW a \in Lev(node, headers, j), NEW b \in Lev(node, headers, j),
              Near(node, headers, j, a, b), j # 0 => a # r /\ b # r
       PROVE  Near(node', headers', j, a, b)
  <2>1. CASE j = 0
    BY ONLY <1>1, <1>22, <2>1 DEF Near, Lev, Key
  <2>2. CASE j # 0
    <3>1. a \in Inn(node) /\ b \in Inn(node)
      BY ONLY a \in Lev(node, headers, j), b \in Lev(node, headers, j), <2>2 DEF Lev
    <3>2. node'[a] = node[a] /\ node'[b] = node[b]
      BY ONLY <1>18, <1>22, <2>2, <3>1
    <3>3. \A n \in Inn(node') : n \in Inn(node) /\ node'[n] = node[n]
      BY ONLY <1>15, <1>18
    <3>4. \A d \in Lev(node', headers, j) : d \in Lev(node, headers, j) /\ Key(node', j, d) = Key(node, j, d)
      BY ONLY <2>2, <3>3 DEF Lev, Key
    <3>5. Key(node', j, a) = Key(node, j, a) /\ Key(node', j, b) = Key(node, j, b)
      BY ONLY <3>2 DEF Key
    <3>6. QED
      BY ONLY <1>1, <1>22, <3>4, <3>5 DEF Near
  <2>3. QED
    BY ONLY <2>1, <2>2
<1>23. /\ \A n \in Inn(node) : (n \in Inn(node') /\ node'[n].level = node[n].level) \/ node'[n].level = 0
       /\ \A n \in DOMAIN node : n \in DOMAIN node' /\ (node[n].level = 0 => node'[n].level = 0)
  <2>1. \A n \in Inn(node) : (n \in Inn(node') /\ node'[n].level = node[n].level) \/ node'[n].level = 0
    BY ONLY <1>16, <1>18
  <2>2. \A n \in DOMAIN node : n \in DOMAIN node' /\ (node[n].level = 0 => node'[n].level = 0)
    BY ONLY <1>16
  <2>3. QED
    BY ONLY <2>1, <2>2
<1>24. ASSUME NEW u \in Threads, u # t
       PROVE  ThreadOK(node', headers', registered', root', pc[u], smo[u], p_inner[u])
  <2>1. ThreadOK(node, headers, registered, root, pc[u], smo[u], p_inner[u])
    BY InvFacts
  <2>2. Lv(smo[u].operator) \in Nat /\ \A d \in Own(pc[u], smo[u]) : d \in Lev(node, headers, Lv(smo[u].operator))
    BY Holds
  <2>3. ASSUME pc[u] \in HideLocs
        PROVE  Near(node', headers', Lv(smo[u].operator), smo[u].master, smo[u].slave)
    <3>1. /\ Near(node, headers, Lv(smo[u].operator), smo[u].master, smo[u].slave)
          /\ Own(pc[u], smo[u]) = {smo[u].master, smo[u].slave}
      BY <2>1, <2>3, ThreadFacts, OwnBoth
    <3>2. /\ smo[u].master \in Lev(node, headers, Lv(smo[u].operator))
          /\ smo[u].slave \in Lev(node, headers, Lv(smo[u].operator))
      BY ONLY <2>2, <3>1
    <3>3. Lv(smo[u].operator) # 0 => smo[u].master # r /\ smo[u].slave # r
      BY ONLY <1>21, u \in Threads, <3>1
    <3>4. QED
      BY ONLY <1>22, <2>2, <3>1, <3>2, <3>3
  <2>4. p_inner[u] # NoNode => node'[p_inner[u]].level > 0
    <3>1. p_inner'[u] # NoNode => node'[p_inner'[u]].level > 0
      BY DEF HeldNodesLive, live
    <3>2. p_inner'[u] = p_inner[u]
      BY <1>8, <1>24 DEF Others
    <3>3. QED
      BY ONLY <3>1, <3>2
  <2>5. ASSUME NEW d \in Own(pc[u], smo[u])
        PROVE  IF Lv(smo[u].operator) = 0 THEN d \in headers' /\ d \in registered'
               ELSE d \in Inn(node') /\ node'[d].level = node[d].level /\ node'[d].state = node[d].state
    <3>1. /\ Lv(smo[u].operator) = 0 => d \in headers /\ d \in registered
          /\ Lv(smo[u].operator) # 0 => d \in Inn(node) /\ d # r
      BY <1>21, Holds
    <3>2. QED
      BY ONLY <1>1, <1>18, <3>1
  <2>6. pc[u] # "level_up"
    <3>1. ASSUME pc[u] = "level_up" PROVE FALSE
      <4>1. "level_up" \in HideLocs
        BY DEF HideLocs, SplitLocs
      <4>2. smo[u].master = r /\ Lv(smo[u].operator) # 0
        BY <1>5, <1>12, <2>1, <3>1, ThreadFacts
      <4>3. r \in Own(pc[u], smo[u])
        BY <3>1, <4>1, <4>2, OwnBoth
      <4>4. QED
        BY <1>21, <4>2, <4>3
    <3>2. QED
      BY <3>1
  <2>7. pc[u] = "level_up" => smo[u].master = root' /\ Lv(smo[u].operator) = node'[root'].level
    BY ONLY <2>6
  <2>8. QED
    BY ONLY <1>23, <2>1, <2>3, <2>4, <2>5, <2>7, OtherThread
<1>25. \A u \in Threads : u # t /\ Lv(smo[u].operator) = Lv(smo'[t].operator) =>
         \A d \in Own(pc'[t], smo'[t]) : d \notin Own(pc[u], smo[u])
  BY ONLY <1>10
<1>26. \A n \in Inn(node') : node'[n].state # FREE =>
         \/ Lv(smo'[t].operator) > 0 /\ n \in Own(pc'[t], smo'[t])
         \/ /\ n \in Inn(node) /\ node[n].state # FREE
            /\ ~(Lv(smo[t].operator) > 0 /\ n \in Own(pc[t], smo[t]))
  BY ONLY <1>10, <1>15, <1>18
<1>27. DeadOK(node')
  <2>1. ASSUME NEW n \in DOMAIN node', node'[n].next = NoNode PROVE node'[n].state = FREE
    <3>1. CASE n = r \/ n = node[r].next
      BY ONLY <1>16, <3>1
    <3>2. CASE n # r /\ n # node[r].next
      BY ONLY <1>4, <1>16, n \in DOMAIN node', <2>1, <3>2 DEF DeadOK
    <3>3. QED
      BY ONLY <3>1, <3>2
  <2>2. QED
    BY ONLY <2>1 DEF DeadOK
<1>28. registered' \subseteq headers' /\ master_root' \in DOMAIN node' /\ Tree(node', root', headers', Hid(pc', smo'))
  BY ONLY <1>1, <1>3, <1>4, <1>11, <1>15, <1>16
<1>29. QED
  BY ONLY TreeInv, t \in Threads, <1>8, <1>20, <1>24, <1>25, <1>26, <1>27, <1>28, Step

\* The tree loses its top level when it has one node, with one child.
LEMMA LevelDownKeeps ==
  ASSUME TreeInv, HeldNodesLive', RootStays', NEW t \in Threads, rlu_root_level_down(t)
  PROVE  TreeInv'
<1>1. CASE p_inner[t] = root /\ LevelEnds(root)
  BY <1>1, LevelDropped
<1>2. CASE ~(p_inner[t] = root /\ LevelEnds(root))
  <2>1. pc[t] = "level_down" /\ pc' = [pc EXCEPT ![t] = "check_merge"]
        /\ UNCHANGED <<tree, leaves, smo, p_inner>>
    BY <1>2 DEF rlu_root_level_down, Goto, tree
  <2>2. QED
    BY <2>1, LevelStaysKeeps
<1>3. QED
  BY <1>1, <1>2

------------------------------------------------------------------------------
(* The invariant of the specification.                                     *)

\* FirstRow(hs, ks, es): the entries of the headers of a new tree.
FirstRow(hs, ks, es) ==
  /\ ks \in [1 .. Cardinality(hs) -> hs] /\ Range(ks) = hs
  /\ \A i, j \in DOMAIN ks : i < j => ks[i] < ks[j]
  /\ es = [i \in DOMAIN ks |-> Entry(ks[i], ks[i])]

\* The entries are in order, from key 0 on, and list every header.
LEMMA FirstEntries ==
  ASSUME NEW hs \in Trees, NEW ks, NEW es, FirstRow(hs, ks, es)
  PROVE  /\ hs \subseteq Keys
         /\ es \in Seq(EntryRecord) /\ Increasing(es) /\ 1 \in DOMAIN es /\ es[1].key = 0
         /\ \A i \in DOMAIN es : es[i].child \in hs /\ es[i].key = es[i].child /\ es[i].key \in Keys
         /\ \A c \in hs : \E i \in DOMAIN es : es[i].child = c
<1> DEFINE n == Cardinality(hs)
<1>1. hs \subseteq Keys /\ 0 \in hs
  BY TreesAssumption
<1>2. n \in Nat
  <2>1. MaxKey \in Int /\ 0 \in Int
    BY KeyFacts
  <2>2. IsFiniteSet(Keys)
    BY <2>1, FS_Interval DEF Keys
  <2>3. QED
    BY <1>1, <2>2, FS_Subset, FS_CardinalityType
<1> HIDE DEF n
<1>3. /\ ks \in [1 .. n -> hs] /\ Range(ks) = hs /\ DOMAIN ks = 1 .. n
      /\ \A i, j \in 1 .. n : i < j => ks[i] < ks[j]
  BY DEF FirstRow, n
<1>4. /\ es = [i \in 1 .. n |-> Entry(ks[i], ks[i])]
  BY <1>3 DEF FirstRow
<1>5. \A i \in 1 .. n : ks[i] \in hs /\ ks[i] \in Keys /\ ks[i] \in Nat
  BY <1>1, <1>3, KeyFacts
<1>6. \A i \in 1 .. n : /\ es[i] = Entry(ks[i], ks[i]) /\ es[i] \in EntryRecord
                        /\ es[i].key = ks[i] /\ es[i].child = ks[i]
  BY <1>4, <1>5 DEF Entry, EntryRecord
<1>7. es \in Seq(EntryRecord) /\ DOMAIN es = 1 .. n
  <2>1. es \in [1 .. n -> EntryRecord]
    BY <1>4, <1>6
  <2>2. QED
    BY <1>2, <2>1
<1>8. \A c \in hs : \E i \in 1 .. n : ks[i] = c
  BY ONLY <1>3 DEF Range
<1>9. PICK z \in 1 .. n : ks[z] = 0
  BY <1>1, <1>8
<1>10. 1 \in 1 .. n
  BY <1>2, <1>9
<1>11. ks[1] = 0
  <2>1. ASSUME z # 1 PROVE FALSE
    <3>1. 1 < z
      BY <1>2, <1>9, <2>1
    <3>2. ks[1] < 0
      BY <1>3, <1>9, <1>10, <3>1
    <3>3. QED
      BY <1>5, <1>10, <3>2
  <2>2. QED
    BY <1>9, <2>1
<1>12. Increasing(es)
  BY <1>3, <1>6, <1>7 DEF Increasing
<1>13. QED
  BY <1>1, <1>5, <1>6, <1>7, <1>8, <1>10, <1>11, <1>12

\* A tree of one inner node, and nothing registered.
LEMMA InitTree ==
  ASSUME Init
  PROVE  TreeInv
<1>1. PICK hs \in Trees : \E ks \in [1 .. Cardinality(hs) -> hs] :
        /\ headers = hs
        /\ Range(ks) = hs /\ \A i, j \in DOMAIN ks : i < j => ks[i] < ks[j]
        /\ node = <<Inner(1, FREE, [i \in DOMAIN ks |-> Entry(ks[i], ks[i])], 2), TailNode(1)>>
  BY DEF Init
<1>0. PICK ks \in [1 .. Cardinality(hs) -> hs] :
        /\ headers = hs
        /\ Range(ks) = hs /\ \A i, j \in DOMAIN ks : i < j => ks[i] < ks[j]
        /\ node = <<Inner(1, FREE, [i \in DOMAIN ks |-> Entry(ks[i], ks[i])], 2), TailNode(1)>>
  BY <1>1
<1> DEFINE es == [i \in DOMAIN ks |-> Entry(ks[i], ks[i])]
           U == Hid(pc, smo)
           x == Inner(1, FREE, es, 2)
           y == TailNode(1)
<1>2. /\ root = 1 /\ master_root = 1 /\ registered = {}
      /\ pc = [t \in Threads |-> "idle"] /\ smo = [t \in Threads |-> NoSmo]
      /\ p_inner = [t \in Threads |-> NoNode]
  BY DEF Init
<1>3. FirstRow(hs, ks, es)
  BY <1>0 DEF FirstRow
<1>4. node = <<x, y>>
  BY <1>0
<1> HIDE DEF es
<1>5. /\ headers \subseteq Keys
      /\ es \in Seq(EntryRecord) /\ Increasing(es) /\ 1 \in DOMAIN es /\ es[1].key = 0
      /\ \A i \in DOMAIN es : es[i].child \in headers /\ es[i].key = es[i].child /\ es[i].key \in Keys
      /\ \A c \in headers : \E i \in DOMAIN es : es[i].child = c
  BY <1>0, <1>3, FirstEntries
<1>6. /\ x \in NodeRecord /\ x.level = 1 /\ x.state = FREE /\ x.min_key = 0
      /\ x.entries = es /\ x.next = 2
  <2>1. 1 \in Nat /\ 2 \in Nat /\ FREE \in {MERGE_REGIST, FREE, SPLIT_REGIST}
    OBVIOUS
  <2>2. QED
    BY ONLY <1>5, <2>1, NewNode
<1>7. /\ y \in NodeRecord /\ y.level = 1 /\ y.state = FREE /\ y.min_key = MaxKey + 1 /\ y.next = NoNode
  BY ONLY 1 \in Nat, NewTail
<1> HIDE DEF x, y
<1>8. node \in Seq(NodeRecord) /\ DOMAIN node = {1, 2} /\ node[1] = x /\ node[2] = y
  BY ONLY <1>4, <1>6, <1>7
<1>9. Heap(node) /\ Inn(node) = {1}
  BY ONLY <1>6, <1>7, <1>8 DEF Heap, Inn, NoNode
<1>10. \A u \in Threads : pc[u] = "idle" /\ smo[u] = NoSmo /\ p_inner[u] = NoNode
  BY <1>2
<1>11. \A l \in Nat : \A c : c \notin U[l]
  BY <1>10 DEF Hid, HideLocs, SplitLocs, MergeLocs
<1> HIDE DEF U
<1>12. Right1(node, 1) = MaxKey + 1
  BY ONLY <1>6, <1>7, <1>8 DEF Right1
<1>13. NodesOK(node, 1)
  <2>1. es # <<>>
    BY ONLY <1>5
  <2>2. \A i \in DOMAIN es : es[i].key < MaxKey + 1
    BY <1>5, KeyFacts
  <2>3. Range1(node, 1)
    BY ONLY <1>5, <1>6, <1>7, <1>8, <1>12, <2>1, <2>2 DEF Range1, Increasing
  <2>4. QED
    BY ONLY <1>6, <1>8, <1>9, <2>3 DEF NodesOK
<1>14. OrderOK(node)
  BY ONLY <1>9 DEF OrderOK
<1>15. FirstOK(node, 1)
  BY ONLY <1>6, <1>8, <1>9 DEF FirstOK
<1>16. TopOK(node, 1, U)
  BY ONLY <1>6, <1>8, <1>9, <1>11 DEF TopOK
<1>17. ChildOK(node, headers, U)
  BY ONLY <1>5, <1>6, <1>8, <1>9, <1>11 DEF ChildOK, Lev, Key
<1>18. ParentOK(node, 1, headers, U)
  BY ONLY <1>5, <1>6, <1>8, <1>9 DEF ParentOK, Lev, Lists
<1>19. Tree(node, root, headers, Hid(pc, smo))
  BY ONLY <1>2, <1>5, <1>6, <1>8, <1>9, <1>13, <1>14, <1>15, <1>16, <1>17, <1>18 DEF Tree, U
<1>20. OfThreads(pc) /\ OfThreads(smo) /\ OfThreads(p_inner)
  BY <1>2 DEF OfThreads
<1>21. DeadOK(node) /\ master_root \in DOMAIN node
  BY ONLY <1>2, <1>6, <1>7, <1>8 DEF DeadOK
<1>22. \A u \in Threads : /\ ThreadOK(node, headers, registered, root, pc[u], smo[u], p_inner[u])
                          /\ Own(pc[u], smo[u]) = {}
  BY ONLY <1>10, NothingLeft
<1>23. Apart(pc, smo)
  BY ONLY <1>22 DEF Apart
<1>24. OwnerOK(node, pc, smo)
  BY ONLY <1>6, <1>8, <1>9 DEF OwnerOK
<1>25. QED
  BY ONLY <1>2, <1>19, <1>20, <1>21, <1>22, <1>23, <1>24 DEF TreeInv

\* Nothing changes.
LEMMA NothingChanges ==
  ASSUME TreeInv, UNCHANGED vars
  PROVE  TreeInv'
<1>1. UNCHANGED <<node, root, master_root, headers, registered, pc, smo, p_inner>>
  BY DEF vars, tree, leaves
<1>2. QED
  BY ONLY TreeInv, <1>1 DEF TreeInv

\* The parts of Followed that the invariant needs: it holds as well where a parent
\* goes before its child's merge, and where a node outgrows its array.
CanGoOn == RootStays /\ HeldNodesLive /\ SplitLeavesTwo /\ LevelsFit

\* Every step of a thread keeps the invariant, as long as the code can go on.
LEMMA ThreadStepKeeps ==
  ASSUME TreeInv, CanGoOn, CanGoOn', NEW t \in Threads, ThreadStep(t)
  PROVE  TreeInv'
<1>1. SplitLeavesTwo /\ LevelsFit /\ HeldNodesLive' /\ RootStays'
  BY DEF CanGoOn
<1>2. CASE RegisterHeader(t)
  BY <1>2, RegisterHeaderKeeps
<1>3. CASE Split(t)
  BY <1>1, <1>3, HeaderSplitKeeps, HeaderNotFullKeeps, InnerSplitKeeps, FindParentKeeps, LevelUpKeeps,
     SplitUpdateKeeps, SplitUpdateFailsKeeps, ReleaseHeadersKeeps DEF Split
<1>4. CASE Merge(t)
  BY <1>1, <1>4, HeaderPartnerSearchKeeps, NoPartnerKeeps, HeaderMergeKeeps, InnerPartnerSearchKeeps,
     InnerMergeKeeps, LevelDownKeeps, NothingChanges DEF Merge, PartnerSearchRestart
<1>5. CASE RootWriteback(t)
  BY <1>5, RootWritebackKeeps
<1>6. CASE rlu_inner_release(t)
  BY <1>6, InnerReleaseKeeps
<1>7. CASE rlu_inner_smo_check(t)
  BY <1>1, <1>7, InnerSmoCheckKeeps
<1>8. QED
  BY <1>2, <1>3, <1>4, <1>5, <1>6, <1>7 DEF ThreadStep

\* So does every step of the specification.
LEMMA StepKeeps ==
  ASSUME TreeInv, CanGoOn, CanGoOn', [Next]_vars
  PROVE  TreeInv'
  BY ThreadStepKeeps, NothingChanges DEF Next

\* As long as no root is lost, held nodes stay, splits leave entries on both sides
\* and levels stay below 10, the invariant holds.
THEOREM TreeKept == Spec /\ []CanGoOn => []TreeInv
<1>1. Init => TreeInv
  BY InitTree
<1>2. TreeInv /\ CanGoOn /\ CanGoOn' /\ [Next]_vars => TreeInv'
  BY StepKeeps
<1>3. QED
  BY <1>1, <1>2, PTL DEF Spec

\* So it holds in followed behaviours.
COROLLARY FollowedKept == Spec /\ []Followed => []TreeInv
<1>1. Followed => CanGoOn
  BY DEF Followed, CanGoOn
<1>2. QED
  BY <1>1, TreeKept, PTL

------------------------------------------------------------------------------
(* What the invariant says in the words of the specification.  A followed  *)
(* behaviour is one whose states all satisfy Followed; every finite part   *)
(* of one that stutters from then on is a followed behaviour, too.         *)

\* The slaves that are not listed are those of splits and merges under way.
LEMMA UnlistedIs ==
  ASSUME TreeInv, NEW l \in Nat
  PROVE  Unlisted(l) = Hid(pc, smo)[l]
<1>1. ASSUME NEW u \in Threads
      PROVE  /\ Splitting(u) \/ Merging(u) <=> pc[u] \in HideLocs
             /\ smo[u].slave \in Nat
  <2>1. ThreadOK(node, headers, registered, root, pc[u], smo[u], p_inner[u])
    BY InvFacts
  <2>2. /\ pc[u] \in SplitLocs => smo[u].operator > 0
        /\ pc[u] \in MergeLocs => smo[u].operator < 0
        /\ smo[u].slave \in Nat
    <3>1. pc[u] \in SplitLocs => smo[u].operator > 0
      BY <2>1, ThreadFacts
    <3>2. pc[u] = "header_merge" => smo[u].operator = -10
      BY <2>1, ThreadFacts
    <3>3. pc[u] = "inner_merge" => smo[u].operator < -10
      BY <2>1, ThreadFacts
    <3>4. smo[u].operator \in Int /\ smo[u].slave \in Nat
      BY <2>1, ThreadFacts
    <3>5. QED
      BY ONLY <3>1, <3>2, <3>3, <3>4 DEF MergeLocs
  <2>3. /\ Splitting(u) <=> smo[u].operator > 0 /\ pc[u] \in SplitLocs
        /\ Merging(u) <=> smo[u].operator < 0 /\ pc[u] \in MergeLocs
    BY DEF Splitting, Merging, SplitLocs, MergeLocs
  <2>4. QED
    BY ONLY <2>2, <2>3 DEF HideLocs
<1>2. ASSUME NEW c
      PROVE  c \in Unlisted(l) <=> c \in Hid(pc, smo)[l]
  <2>1. c \in Unlisted(l) <=> \E u \in Threads : /\ child_level(u) = l /\ (Splitting(u) \/ Merging(u))
                                                /\ c = smo[u].slave
    BY DEF Unlisted
  <2>2. c \in Unlisted(l) <=> \E u \in Threads : /\ Lv(smo[u].operator) = l /\ pc[u] \in HideLocs
                                                /\ c = smo[u].slave /\ c \in Nat
    BY ONLY <1>1, <2>1, ChildLevel
  <2>3. QED
    BY ONLY <2>2, l \in Nat, HidIs
<1>3. QED
  BY <1>2

\* Levels are sorted.
LEMMA SortedIs ==
  ASSUME TreeInv
  PROVE  Sorted
<1>1. /\ NodesOK(node, top) /\ OrderOK(node) /\ FirstOK(node, top)
  BY InvFacts, TreeFacts DEF top
<1>2. Inners = Inn(node)
  BY DEF Inners, Inn
<1>3. ASSUME NEW n \in Inners PROVE node[n].level \in 1 .. top /\ RangeSorted(n)
  <2>1. node[n].level \in 1 .. top /\ Range1(node, n)
    BY ONLY n \in Inners, <1>1, <1>2 DEF NodesOK
  <2>2. RangeSorted(n)
    BY ONLY <2>1 DEF Range1, RangeSorted, Right1
  <2>3. QED
    BY ONLY <2>1, <2>2
<1>4. \A m, n \in Inners :
        m # n /\ node[m].level = node[n].level =>
          \/ node[m].min_key < node[n].min_key
          \/ node[node[n].next].min_key <= node[m].min_key
  BY ONLY <1>1, <1>2 DEF OrderOK, Right1
<1>5. ASSUME NEW l \in 1 .. top PROVE \E n \in Level(l) : node[n].min_key = 0
  <2>1. PICK n \in Inn(node) : node[n].level = l /\ node[n].min_key = 0
    BY ONLY <1>1, l \in 1 .. top DEF FirstOK
  <2>2. l # 0
    OBVIOUS
  <2>3. n \in Level(l)
    BY ONLY <1>2, <2>1, <2>2, n \in Inn(node) DEF Level
  <2>4. QED
    BY ONLY <2>1, <2>3
<1>6. QED
  BY ONLY <1>3, <1>4, <1>5 DEF Sorted

\* Parents list their children.
LEMMA ListedIs ==
  ASSUME TreeInv
  PROVE  Listed
<1> DEFINE U == Hid(pc, smo)
           T == node[root].level
<1>1. /\ TopOK(node, root, U) /\ ChildOK(node, headers, U) /\ ParentOK(node, T, headers, U)
  BY InvFacts DEF Tree
<1>2. /\ T \in Nat /\ T >= 1 /\ NodesOK(node, T)
  BY InvFacts, TreeFacts
<1>3. /\ top = T /\ \A l \in Nat : Unlisted(l) = U[l]
      /\ \A l : Level(l) = Lev(node, headers, l)
      /\ \A l, c : KeyOf(l, c) = Key(node, l, c)
  <2>1. \A l : Level(l) = Lev(node, headers, l)
    BY DEF Level, Lev, Inners, Inn
  <2>2. \A l, c : KeyOf(l, c) = Key(node, l, c)
    BY DEF KeyOf, Key
  <2>3. QED
    BY <2>1, <2>2, UnlistedIs DEF top
<1> HIDE DEF U
<1>4. Level(top) \ Unlisted(top) = {root}
  <2>1. Level(top) = {n \in Inn(node) : node[n].level = T}
    BY ONLY <1>2, <1>3 DEF Lev
  <2>2. Unlisted(top) = U[T]
    BY ONLY <1>2, <1>3
  <2>3. QED
    BY ONLY <1>1, <2>1, <2>2 DEF TopOK
<1> HIDE DEF T
<1>5. ASSUME NEW l \in 0 .. T - 1
      PROVE  /\ {e.child : e \in EntriesOf(l + 1)} = Level(l) \ Unlisted(l)
             /\ \A e \in EntriesOf(l + 1) : e.key = KeyOf(l, e.child)
  <2>1. l \in Nat /\ l + 1 # 0 /\ (l + 1) - 1 = l
    BY <1>2
  <2>2. Level(l + 1) = {n \in Inn(node) : node[n].level = l + 1}
    BY ONLY <1>3, <2>1 DEF Lev
  <2>3. ASSUME NEW e PROVE e \in EntriesOf(l + 1) <=>
          \E n \in Inn(node) : node[n].level = l + 1 /\ \E i \in DOMAIN node[n].entries : e = node[n].entries[i]
    BY ONLY <2>2 DEF EntriesOf, Range
  <2>4. ASSUME NEW e \in EntriesOf(l + 1)
        PROVE  e.child \in Level(l) \ Unlisted(l) /\ e.key = KeyOf(l, e.child)
    <3>1. PICK n \in Inn(node) : node[n].level = l + 1 /\ \E i \in DOMAIN node[n].entries : e = node[n].entries[i]
      BY ONLY e \in EntriesOf(l + 1), <2>3
    <3>2. PICK i \in DOMAIN node[n].entries : e = node[n].entries[i]
      BY ONLY <3>1
    <3>3. node[n].level - 1 = l
      BY ONLY <2>1, <3>1
    <3>4. /\ node[n].entries[i].child \in Lev(node, headers, l) /\ node[n].entries[i].child \notin U[l]
          /\ node[n].entries[i].key = Key(node, l, node[n].entries[i].child)
      BY ONLY <1>1, <3>3, n \in Inn(node), i \in DOMAIN node[n].entries DEF ChildOK
    <3>5. QED
      BY ONLY <1>3, <2>1, <3>2, <3>4
  <2>5. ASSUME NEW c \in Level(l) \ Unlisted(l)
        PROVE  \E e \in EntriesOf(l + 1) : c = e.child
    <3>1. c \in Lev(node, headers, l) /\ c \notin U[l]
      BY ONLY <1>3, <2>1, c \in Level(l) \ Unlisted(l)
    <3>2. PICK n \in Inn(node) : node[n].level = l + 1 /\ Lists(node, n, c)
      BY ONLY <1>1, <3>1, l \in 0 .. T - 1 DEF ParentOK
    <3>3. PICK i \in DOMAIN node[n].entries : node[n].entries[i].child = c
      BY ONLY <3>2 DEF Lists
    <3>4. node[n].entries[i] \in EntriesOf(l + 1)
      BY ONLY <2>3, <3>2, n \in Inn(node), i \in DOMAIN node[n].entries
    <3>5. QED
      BY ONLY <3>3, <3>4
  <2>6. {e.child : e \in EntriesOf(l + 1)} = Level(l) \ Unlisted(l)
    BY ONLY <2>4, <2>5
  <2>7. QED
    BY ONLY <2>4, <2>6
<1>6. QED
  BY ONLY <1>3, <1>4, <1>5 DEF Listed

\* A descent ends at the last header not above the key that is listed.
LEMMA RoutesIs ==
  ASSUME TreeInv, NEW k \in Keys,
         NEW p, p = DescendTo(1, k), NEW h, h = node[p].entries[EntryFor(p, k)].child
  PROVE  /\ h \in headers /\ h <= k
         /\ \A g \in headers : h < g /\ g <= k => g \in Unlisted(0)
<1> DEFINE U == Hid(pc, smo)
           T == node[root].level
           es == node[p].entries
           e == EntryFor(p, k)
<1>1. Tree(node, root, headers, U)
  BY InvFacts
<1>2. Heap(node) /\ T \in Nat /\ T >= 1 /\ NodesOK(node, T) /\ headers \in SUBSET Nat
  BY <1>1, TreeFacts
<1>3. headers \subseteq Keys /\ ChildOK(node, headers, U)
  BY <1>1 DEF Tree
<1>4. 1 \in 1 .. T /\ k \in Nat
  BY <1>2, KeyFacts
<1>5. p \in Inn(node) /\ node[p].level = 1 /\ Covers(node, p, k)
  BY <1>1, <1>4, Routing
<1> HIDE DEF U, T
<1>6. /\ es \in Seq(EntryRecord) /\ Len(es) > 0 /\ es[1].key = node[p].min_key
      /\ \A d, f \in DOMAIN es : d < f => es[d].key < es[f].key
      /\ \A i \in DOMAIN es : es[i].key \in Nat /\ node[p].min_key <= es[i].key
      /\ node[p].min_key \in Nat /\ Right1(node, p) \in Nat /\ DOMAIN es \subseteq Nat
  <2>1. /\ es \in Seq(EntryRecord) /\ Len(es) \in Nat \ {0} /\ es[1].key = node[p].min_key
        /\ \A d, f \in DOMAIN es : d < f => es[d].key < es[f].key
        /\ \A i \in DOMAIN es : es[i].key \in Nat /\ node[p].min_key <= es[i].key
        /\ node[p].min_key \in Nat /\ Right1(node, p) \in Nat /\ DOMAIN es = 1 .. Len(es)
    BY ONLY <1>2, <1>5, InnFacts
  <2> HIDE DEF es
  <2>2. QED
    BY ONLY <2>1
<1>7. es[1].key <= k /\ k < Right1(node, p)
  BY ONLY <1>5, <1>6 DEF Covers
<1>8. /\ e \in DOMAIN es /\ es[e].key <= k
      /\ \A i \in DOMAIN es : es[i].key <= k => i <= e
  <2>1. es = node[p].entries
    OBVIOUS
  <2> HIDE DEF es
  <2>2. QED
    BY ONLY <1>4, <1>6, <1>7, <2>1, EntryForIs
<1>9. h = es[e].child
  OBVIOUS
<1> HIDE DEF e
<1>10. h \in headers /\ es[e].key = h
  <2>1. node[p].level - 1 = 0
    BY ONLY <1>5
  <2>2. es[e].child \in Lev(node, headers, 0) /\ es[e].key = Key(node, 0, es[e].child)
    BY ONLY <1>3, <1>5, <1>8, <2>1 DEF ChildOK
  <2>3. QED
    BY ONLY <1>9, <2>2 DEF Lev, Key
<1>11. ASSUME NEW g \in headers, h < g, g <= k, g \notin U[0] PROVE FALSE
  <2>1. g \in Keys /\ g \in Nat /\ h \in Nat
    BY ONLY <1>2, <1>3, <1>10, g \in headers
  <2>2. Covers(node, p, g)
    <3>1. node[p].min_key <= h
      BY ONLY <1>6, <1>8, <1>10
    <3>2. QED
      BY ONLY <1>4, <1>6, <1>7, <1>11, <2>1, <3>1 DEF Covers
  <2>3. p = DescendTo(1, g)
    BY ONLY <1>1, <1>4, <1>5, <2>1, <2>2, Routing DEF T
  <2>4. g \in Lev(node, headers, 1 - 1) /\ Key(node, 1 - 1, g) = g /\ g \notin U[1 - 1]
    BY ONLY g \in headers, <1>11 DEF Lev, Key
  <2>5. EntryFor(p, g) \in DOMAIN es /\ es[EntryFor(p, g)].key = g
    BY ONLY <1>1, <1>4, <2>3, <2>4, FindsEntry DEF T
  <2>6. PICK i \in DOMAIN es : es[i].key = g
    BY ONLY <2>5
  <2>7. i <= e /\ i \in Nat /\ e \in Nat
    BY ONLY <1>6, <1>8, <1>11, <2>6, i \in DOMAIN es
  <2>8. es[i].key <= es[e].key
    <3>1. CASE i = e
      BY ONLY <1>6, <1>8, <3>1
    <3>2. CASE i # e
      <4>1. i < e
        BY ONLY <2>7, <3>2
      <4>2. QED
        BY ONLY <1>6, <1>8, <4>1, i \in DOMAIN es
    <3>3. QED
      BY ONLY <3>1, <3>2
  <2>9. QED
    BY ONLY <1>10, <1>11, <2>1, <2>6, <2>8
<1>12. \A g \in headers : h < g /\ g <= k => g \in Unlisted(0)
  <2>1. Unlisted(0) = U[0]
    BY UnlistedIs DEF U
  <2>2. QED
    BY ONLY <1>11, <2>1
<1>13. QED
  BY ONLY <1>8, <1>10, <1>12

\* A registered node has one owner.
LEMMA OwnersIs ==
  ASSUME TreeInv, NEW n \in DOMAIN node, live(n)
  PROVE  /\ Cardinality(Owners(n)) = (IF node[n].state = FREE THEN 0 ELSE 1)
         /\ \A t \in Owners(n) :
              node[n].state = (IF smo[t].operator > 0 THEN SPLIT_REGIST ELSE MERGE_REGIST)
<1>1. Heap(node) /\ DeadOK(node) /\ OwnerOK(node, pc, smo) /\ Apart(pc, smo)
  BY InvFacts, TreeFacts
<1>2. n \in Nat /\ n # NoNode /\ node[n].level \in Nat /\ node[n].level > 0
  BY <1>1, HeapFacts DEF live, NoNode
<1>3. ASSUME NEW t \in Threads
      PROVE  t \in Owners(n) <=> Lv(smo[t].operator) > 0 /\ n \in Own(pc[t], smo[t])
  <2>1. ThreadOK(node, headers, registered, root, pc[t], smo[t], p_inner[t])
    BY InvFacts
  <2>2. /\ pc[t] \in Locs
        /\ pc[t] = "idle" => smo[t].slave = 0
        /\ pc[t] = "release_master" => node[smo[t].slave].level = 0
        /\ smo[t].operator = 0 => Lv(smo[t].operator) = 0
        /\ Lv(smo[t].operator) \in Nat
    BY <2>1, ThreadFacts
  <2>3. t \in Owners(n) <=> /\ Lv(smo[t].operator) > 0 /\ n \in {smo[t].master, smo[t].slave}
                            /\ pc[t] \notin EndLocs
    BY ChildLevel DEF Owners, EndLocs
  <2>4. CASE pc[t] \in HideLocs \union {"release"}
    <3>1. Own(pc[t], smo[t]) = {smo[t].master, smo[t].slave}
      BY ONLY <2>4, OwnBoth
    <3>2. pc[t] \notin EndLocs
      BY ONLY <2>4, OwnNone
    <3>3. QED
      BY ONLY <2>3, <3>1, <3>2
  <2>5. CASE pc[t] \in EndLocs
    <3>1. Own(pc[t], smo[t]) = {}
      BY ONLY <2>5, OwnNone
    <3>2. QED
      BY ONLY <2>3, <2>5, <3>1
  <2>6. CASE pc[t] = "release_master" \/ pc[t] = "idle"
    <3>1. n # smo[t].slave
      <4>1. CASE pc[t] = "release_master"
        BY ONLY <1>2, <2>2, <4>1
      <4>2. CASE pc[t] = "idle"
        BY ONLY <1>2, <2>2, <4>2 DEF NoNode
      <4>3. QED
        BY ONLY <2>6, <4>1, <4>2
    <3>2. Lv(smo[t].operator) > 0 => smo[t].operator # 0
      BY ONLY <2>2
    <3>3. pc[t] \notin HideLocs \union {"release"} /\ pc[t] \notin EndLocs
      BY ONLY <2>6 DEF HideLocs, SplitLocs, MergeLocs, EndLocs
    <3>4. Lv(smo[t].operator) > 0 => Own(pc[t], smo[t]) = {smo[t].master}
      BY ONLY <2>6, <3>2, <3>3 DEF Own
    <3>5. QED
      BY ONLY <2>3, <3>1, <3>3, <3>4
  <2>7. QED
    <3>1. pc[t] \in HideLocs \union {"release"} \union EndLocs \union {"release_master", "idle"}
      BY ONLY <2>2 DEF Locs
    <3>2. QED
      BY ONLY <2>4, <2>5, <2>6, <3>1
<1>4. ASSUME NEW t \in Owners(n)
      PROVE  /\ t \in Threads /\ Lv(smo[t].operator) > 0 /\ n \in Own(pc[t], smo[t])
             /\ node[n].level = Lv(smo[t].operator) /\ node[n].state # FREE
             /\ node[n].state = IF smo[t].operator > 0 THEN SPLIT_REGIST ELSE MERGE_REGIST
  <2>1. t \in Threads
    BY DEF Owners
  <2>2. Lv(smo[t].operator) > 0 /\ n \in Own(pc[t], smo[t])
    BY ONLY <1>3, <2>1, t \in Owners(n)
  <2>3. QED
    BY <2>1, <2>2, Holds
<1>5. CASE node[n].state = FREE
  <2>1. Owners(n) = {}
    BY ONLY <1>4, <1>5
  <2>2. QED
    BY <1>5, <2>1, FS_EmptySet
<1>6. CASE node[n].state # FREE
  <2>1. n \in Inn(node)
    BY <1>1, <1>6 DEF DeadOK, Inn
  <2>2. PICK t \in Threads : Lv(smo[t].operator) > 0 /\ n \in Own(pc[t], smo[t])
    BY <1>1, <1>6, <2>1 DEF OwnerOK
  <2>3. t \in Owners(n)
    BY ONLY <1>3, <2>2, t \in Threads
  <2>4. ASSUME NEW u \in Owners(n) PROVE u = t
    <3>1. u \in Threads /\ n \in Own(pc[u], smo[u]) /\ Lv(smo[u].operator) = Lv(smo[t].operator)
      BY ONLY <1>4, <2>3, u \in Owners(n)
    <3>2. QED
      BY ONLY <1>1, <2>2, t \in Threads, <3>1 DEF Apart
  <2>5. Owners(n) = {t}
    BY ONLY <2>3, <2>4
  <2>6. Cardinality(Owners(n)) = 1
    BY ONLY <2>5, FS_Singleton
  <2>7. QED
    BY ONLY <1>4, <1>6, <2>6
<1>7. QED
  BY ONLY <1>5, <1>6

\* The parent of a master has its entry.
LEMMA MasterIs ==
  ASSUME TreeInv, NEW t \in Threads, Splitting(t)
  PROVE  IF node[root].level < parent_level(t)
         THEN child_level(t) = node[root].level /\ smo[t].master = root
         ELSE LET p == DescendTo(parent_level(t), master_key(t))
              IN  node[p].entries[EntryFor(p, master_key(t))].key = master_key(t)
<1> DEFINE l == Lv(smo[t].operator)
<1>1. pc[t] \in HideLocs
  BY DEF Splitting, HideLocs, SplitLocs
<1>2. /\ parent_level(t) = l + 1 /\ child_level(t) = l
      /\ master_key(t) = Key(node, l, smo[t].master)
  BY SmoKeys
<1>3. /\ node[root].level < l + 1 => smo[t].master = root /\ l = node[root].level
      /\ ~(node[root].level < l + 1) =>
           LET p == DescendTo(l + 1, Key(node, l, smo[t].master))
           IN  node[p].entries[EntryFor(p, Key(node, l, smo[t].master))].key
                 = Key(node, l, smo[t].master)
  BY <1>1, SplitParent
<1> HIDE DEF l
<1>4. QED
  BY ONLY <1>2, <1>3

\* The types.
LEMMA TypesIs ==
  ASSUME TreeInv
  PROVE  TypeOK
<1>1. /\ registered \subseteq headers /\ master_root \in DOMAIN node
      /\ Tree(node, root, headers, Hid(pc, smo))
  BY InvFacts
<1>2. Heap(node) /\ root \in Inn(node) /\ headers \subseteq Keys
  BY <1>1, TreeFacts DEF Tree
<1>3. ASSUME NEW n \in DOMAIN node
      PROVE  /\ node[n].level \in Nat /\ node[n].state \in {MERGE_REGIST, FREE, SPLIT_REGIST}
             /\ node[n].next \in {NoNode} \union DOMAIN node
             /\ \A i \in DOMAIN node[n].entries : node[n].entries[i].key \in Keys
  <2>1. /\ node[n].level \in Nat /\ node[n].state \in {MERGE_REGIST, FREE, SPLIT_REGIST}
        /\ node[n].next \in {NoNode} \union DOMAIN node
        /\ node[n].entries \in Seq(EntryRecord)
    BY <1>2, HeapFacts
  <2>2. QED
    BY ONLY <2>1, EntryFacts
<1>4. {root, master_root} \subseteq {NoNode} \union DOMAIN node
  BY <1>1, <1>2 DEF Inn
<1>5. ASSUME NEW t \in Threads
      PROVE  /\ p_inner[t] \in {NoNode} \union DOMAIN node
             /\ pc[t] \in {"update", "up_written", "release", "check_split", "header_merge",
                           "inner_merge", "release_master", "level_down"} => p_inner[t] # NoNode
  <2>1. ThreadOK(node, headers, registered, root, pc[t], smo[t], p_inner[t])
    BY InvFacts
  <2>2. /\ p_inner[t] \in {NoNode} \union Inn(node)
        /\ pc[t] \notin {"idle", "find_parent", "level_up"} => p_inner[t] # NoNode
    BY <2>1, ThreadFacts
  <2>3. Inn(node) \subseteq DOMAIN node
    BY DEF Inn
  <2>4. QED
    BY ONLY <2>2, <2>3
<1>6. QED
  BY ONLY <1>1, <1>2, <1>3, <1>4, <1>5 DEF TypeOK

\* In a followed behaviour nodes, entries and headers have their types, and whoever
\* works on a parent holds one.
THEOREM TypesKept == Spec /\ []Followed => []TypeOK
<1>1. TreeInv => TypeOK
  BY TypesIs
<1>2. QED
  BY <1>1, FollowedKept, PTL

\* Whatever rlu_inner_split, rlu_inner_merge and the levels that come and go do,
\* each level is a list of nodes with ascending ranges that leave no key out.
THEOREM LevelsSorted == Spec /\ []Followed => []LevelsAreSorted
<1>1. TreeInv => LevelsAreSorted
  BY SortedIs DEF LevelsAreSorted
<1>2. QED
  BY <1>1, FollowedKept, PTL

\* A level lists the nodes below it under their first keys, all but the slaves of
\* splits and merges on their way: the partners of a merge are neighbours.
THEOREM ParentsList == Spec /\ []Followed => []ParentsListChildren
<1>1. TreeInv => ParentsListChildren
  BY ListedIs DEF ParentsListChildren
<1>2. QED
  BY <1>1, FollowedKept, PTL

\* A descent reaches the last listed header that is not above its key.
THEOREM DescentsArrive == Spec /\ []Followed => []RoutesToHeaders
<1>1. TreeInv => RoutesToHeaders
  <2>1. ASSUME TreeInv, NEW k \in Keys
        PROVE  LET p == DescendTo(1, k)
                   h == node[p].entries[EntryFor(p, k)].child
               IN  /\ h \in headers /\ h <= k
                   /\ \A g \in headers : h < g /\ g <= k => g \in Unlisted(0)
    BY ONLY <2>1, k \in Keys, RoutesIs
  <2>2. QED
    BY ONLY <2>1 DEF RoutesToHeaders
<1>2. QED
  BY <1>1, FollowedKept, PTL

\* A registration of an inner node belongs to one split or merge, and says which of
\* the two it is: no two threads restructure the same node.
THEOREM OneOwner == Spec /\ []Followed => []RegisteredByOne
<1>1. TreeInv => RegisteredByOne
  BY OwnersIs DEF RegisteredByOne
<1>2. QED
  BY <1>1, FollowedKept, PTL

\* rlu_inner_release never returns without RLU_READER_UNLOCK.
THEOREM NoLeak == Spec /\ []Followed => []NoSectionLeaked
<1>1. TreeInv => NoSectionLeaked
  <2>1. ASSUME TreeInv, NEW t \in Threads PROVE pc[t] # "leaked"
    <3>1. pc[t] \in Locs
      BY <2>1, InvFacts, ThreadFacts
    <3>2. QED
      BY ONLY <3>1 DEF Locs, HideLocs, SplitLocs, MergeLocs, EndLocs
  <2>2. QED
    BY ONLY <2>1 DEF NoSectionLeaked
<1>2. QED
  BY <1>1, FollowedKept, PTL

\* The search for a split's parent that comes back with LOST finds the master's
\* entry when it is made again, or the split makes the level above.
THEOREM MasterListed == Spec /\ []Followed => []MasterHasEntry
<1>1. TreeInv => MasterHasEntry
  BY MasterIs DEF MasterHasEntry
<1>2. QED
  BY <1>1, FollowedKept, PTL
==============================================================================
