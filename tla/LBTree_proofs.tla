---------------------------- MODULE LBTree_proofs ----------------------------
(***************************************************************************)
(* Theorems about LBTree, for every number of threads, operations, keys    *)
(* and partitions and every ratio of the options: the list of leaf nodes   *)
(* stays sorted and counted, no key is lost, the parent knows the          *)
(* partitions, each registration has one owner, and no section is leaked.  *)
(* All under FreshPointers and DistinctHeaders, as in the runs.            *)
(***************************************************************************)
EXTENDS LBList_proofs

------------------------------------------------------------------------------
States == {MERGE_REGIST, FREE, SPLIT_REGIST}

Records(g) == \A n \in DOMAIN g : g[n] \in LeafNode

\* f is g with another successor, count or state in one node.
NextSet(g, f, a, x) ==
  DOMAIN f = DOMAIN g /\ Records(f) /\ \A n \in DOMAIN g :
    /\ f[n].type = g[n].type /\ f[n].key = g[n].key /\ f[n].count = g[n].count
    /\ f[n].state = g[n].state /\ f[n].next = IF n = a THEN x ELSE g[n].next
    /\ n # a => f[n] = g[n]

CountSet(g, f, a, x) ==
  DOMAIN f = DOMAIN g /\ Records(f) /\ \A n \in DOMAIN g :
    /\ f[n].type = g[n].type /\ f[n].key = g[n].key /\ f[n].next = g[n].next
    /\ f[n].state = g[n].state /\ f[n].count = IF n = a THEN x ELSE g[n].count
    /\ n # a => f[n] = g[n]

StateSet(g, f, a, x) ==
  DOMAIN f = DOMAIN g /\ Records(f) /\ \A n \in DOMAIN g :
    /\ f[n].type = g[n].type /\ f[n].key = g[n].key /\ f[n].next = g[n].next
    /\ f[n].count = g[n].count /\ f[n].state = IF n = a THEN x ELSE g[n].state
    /\ n # a => f[n] = g[n]

\* f is g with x as the successor of node a, and the count c and state s in b.
Rewritten(g, f, a, x, b, c, s) ==
  DOMAIN f = DOMAIN g /\ Records(f) /\ \A n \in DOMAIN g :
    /\ f[n].type = g[n].type /\ f[n].key = g[n].key
    /\ f[n].next = IF n = a THEN x ELSE g[n].next
    /\ f[n].count = IF n = b THEN c ELSE g[n].count
    /\ f[n].state = IF n = b THEN s ELSE g[n].state
    /\ n # a /\ n # b => f[n] = g[n]

\* One field of one node of a heap written.
LEMMA SetField ==
  ASSUME NEW g, Records(g), NEW a \in DOMAIN g, NEW x
  PROVE  /\ x \in Nat => NextSet(g, [g EXCEPT ![a].next = x], a, x)
         /\ x \in Nat => CountSet(g, [g EXCEPT ![a].count = x], a, x)
         /\ x \in States => StateSet(g, [g EXCEPT ![a].state = x], a, x)
<1>1. ASSUME x \in Nat PROVE NextSet(g, [g EXCEPT ![a].next = x], a, x)
  BY <1>1 DEF NextSet, Records, LeafNode
<1>2. ASSUME x \in Nat PROVE CountSet(g, [g EXCEPT ![a].count = x], a, x)
  BY <1>2 DEF CountSet, Records, LeafNode
<1>3. ASSUME x \in States PROVE StateSet(g, [g EXCEPT ![a].state = x], a, x)
  BY <1>3 DEF StateSet, Records, LeafNode, States
<1>4. QED
  BY <1>1, <1>2, <1>3

\* What the operations and SMOs write to leaf nodes.
LEMMA Rewrites ==
  ASSUME NEW g, Records(g), NEW a \in DOMAIN g, NEW b \in DOMAIN g,
         NEW x \in Nat, NEW c \in Nat, NEW s \in States
  PROVE  /\ Rewritten(g, [g EXCEPT ![a].next = x, ![b].count = c, ![b].state = s], a, x, b, c, s)
         /\ Rewritten(g, [g EXCEPT ![a].next = x, ![b].count = c], a, x, b, c, g[b].state)
         /\ Rewritten(g, [g EXCEPT ![b].count = c, ![a].next = x], a, x, b, c, g[b].state)
<1> DEFINE g1 == [g EXCEPT ![a].next = x]
           g2 == [g1 EXCEPT ![b].count = c]
           g3 == [g2 EXCEPT ![b].state = s]
           k1 == [g EXCEPT ![b].count = c]
           k2 == [k1 EXCEPT ![a].next = x]
<1>1. NextSet(g, g1, a, x)
  BY SetField, Zenon
<1>2. CountSet(g, k1, b, c)
  BY SetField, Zenon
<1>3. CountSet(g1, g2, b, c)
  <2> HIDE DEF g1
  <2>1. Records(g1) /\ b \in DOMAIN g1
    BY <1>1 DEF NextSet
  <2>2. QED
    BY <2>1, SetField, Zenon
<1>4. NextSet(k1, k2, a, x)
  <2> HIDE DEF k1
  <2>1. Records(k1) /\ a \in DOMAIN k1
    BY <1>2 DEF CountSet
  <2>2. QED
    BY <2>1, SetField, Zenon
<1>5. StateSet(g2, g3, b, s)
  <2> HIDE DEF g1, g2
  <2>1. Records(g2) /\ b \in DOMAIN g2
    BY <1>1, <1>3 DEF NextSet, CountSet
  <2>2. QED
    BY <2>1, SetField, Zenon
<1>7. Rewritten(g, g2, a, x, b, c, g[b].state)
  <2> HIDE DEF g1, g2
  <2>1. DOMAIN g1 = DOMAIN g /\ DOMAIN g2 = DOMAIN g /\ Records(g2)
    BY ONLY <1>1, <1>3 DEF NextSet, CountSet
  <2>2. ASSUME NEW n \in DOMAIN g
        PROVE  /\ g2[n].type = g[n].type /\ g2[n].key = g[n].key /\ g2[n].state = g[n].state
               /\ g2[n].next = IF n = a THEN x ELSE g[n].next
               /\ g2[n].count = IF n = b THEN c ELSE g[n].count
               /\ n # a /\ n # b => g2[n] = g[n]
    <3>1. /\ g1[n].type = g[n].type /\ g1[n].key = g[n].key /\ g1[n].count = g[n].count
          /\ g1[n].state = g[n].state /\ g1[n].next = IF n = a THEN x ELSE g[n].next
          /\ n # a => g1[n] = g[n]
      BY ONLY <1>1, <2>2 DEF NextSet
    <3>2. /\ g2[n].type = g1[n].type /\ g2[n].key = g1[n].key /\ g2[n].next = g1[n].next
          /\ g2[n].state = g1[n].state /\ g2[n].count = IF n = b THEN c ELSE g1[n].count
          /\ n # b => g2[n] = g1[n]
      BY ONLY <1>3, <2>1, <2>2 DEF CountSet
    <3>3. QED
      BY ONLY <3>1, <3>2
  <2>3. g2[b].state = g[b].state
    BY ONLY <2>2, b \in DOMAIN g
  <2>4. ASSUME NEW n \in DOMAIN g
        PROVE  g2[n].state = IF n = b THEN g[b].state ELSE g[n].state
    BY ONLY <2>2, <2>3, <2>4
  <2>5. QED
    BY ONLY <2>1, <2>2, <2>4, Zenon DEF Rewritten
<1>6. Rewritten(g, g3, a, x, b, c, s)
  <2> HIDE DEF g1, g2, g3
  <2>1. DOMAIN g3 = DOMAIN g /\ Records(g3)
    BY <1>5, <1>7 DEF Rewritten, StateSet
  <2>2. ASSUME NEW n \in DOMAIN g
        PROVE  /\ g3[n].type = g[n].type /\ g3[n].key = g[n].key
               /\ g3[n].next = IF n = a THEN x ELSE g[n].next
               /\ g3[n].count = IF n = b THEN c ELSE g[n].count
               /\ g3[n].state = IF n = b THEN s ELSE g[n].state
               /\ n # a /\ n # b => g3[n] = g[n]
    <3>1. CASE n = b
      BY <1>5, <1>7, <3>1, ZenonT(40) DEF Rewritten, StateSet
    <3>2. CASE n # b
      BY <1>5, <1>7, <3>2, ZenonT(40) DEF Rewritten, StateSet
    <3>3. QED
      BY <3>1, <3>2
  <2>3. QED
    BY <2>1, <2>2, Zenon DEF Rewritten
<1>8. Rewritten(g, k2, a, x, b, c, g[b].state)
  <2> HIDE DEF k1, k2
  <2>1. QED
    BY <1>2, <1>4, ZenonT(40) DEF Rewritten, NextSet, CountSet
<1>9. QED
  BY <1>6, <1>7, <1>8

\* Sequences of leaf nodes.
LEMMA RecordsSeq ==
  ASSUME NEW g \in Seq(LeafNode)
  PROVE  Records(g) /\ DOMAIN g = 1 .. Len(g) /\ Len(g) \in Nat
<1> DEFINE R == LeafNode
<1> HIDE DEF R
<1>1. ASSUME g \in Seq(R) PROVE (\A n \in DOMAIN g : g[n] \in R) /\ DOMAIN g = 1 .. Len(g) /\ Len(g) \in Nat
  BY <1>1
<1>2. QED
  BY <1>1 DEF R, Records

\* Nodes numbered from 1 to m are a sequence of nodes.
LEMMA SeqRecords ==
  ASSUME NEW f, NEW m \in Nat, DOMAIN f = 1 .. m, Records(f), f = [n \in DOMAIN f |-> f[n]]
  PROVE  f \in Seq(LeafNode) /\ Len(f) = m
<1> DEFINE R == LeafNode
<1>1. \A n \in DOMAIN f : f[n] \in R
  BY DEF Records
<1> HIDE DEF R
<1>2. f = [n \in 1 .. m |-> f[n]] /\ \A n \in 1 .. m : f[n] \in R
  BY <1>1
<1>3. f \in [1 .. m -> R]
  BY <1>2
<1>4. f \in Seq(R) /\ Len(f) = m
  BY <1>3
<1>5. QED
  BY <1>4 DEF R

\* Partitions that stay outside of S stay outside of a larger set.
LEMMA StaysMore ==
  ASSUME NEW h, NEW g, NEW S, NEW U, Stays(h, g, S), S \subseteq U
  PROVE  Stays(h, g, U)
BY DEF Stays, PartsStay

\* What a section's snapshot says, still or for the longer list.
LEMMA SnapshotCompose ==
  ASSUME NEW h, NEW g, NEW f, NEW S, NEW T, NEW U, Snapshot(h, g, S), Snapshot(g, f, T),
         S \subseteq U, T \subseteq U
  PROVE  Snapshot(h, f, U)
<1>1. /\ Good(h) /\ Good(g) /\ Good(f) /\ Grown(h, g, S) /\ Grown(g, f, T)
      /\ Stays(h, g, S) /\ Stays(g, f, T)
  BY DEF Snapshot
<1>2. Grown(h, f, U)
  BY <1>1, GrownCompose DEF Good
<1>3. \A n \in DOMAIN h : g[n].type = h[n].type
  BY <1>1 DEF Grown
<1>4. Stays(h, f, U)
  BY <1>1, <1>3, PartsCompose DEF Good, Stays
<1>5. QED
  BY <1>1, <1>2, <1>4 DEF Snapshot

\* A heap is a snapshot of itself.
LEMMA SnapshotNow ==
  ASSUME NEW h, Good(h), NEW S
  PROVE  Snapshot(h, h, S)
<1>1. Len(h) \in Nat /\ DOMAIN h = 1 .. Len(h) /\ Nodes(h)
  BY LenFacts
<1>2. Stays(h, h, S)
  BY <1>1, ShapeEffect
<1>3. Grown(h, h, S)
  BY <1>1 DEF Grown
<1>4. QED
  BY <1>2, <1>3 DEF Snapshot

\* The nodes of a place.
LEMMA PlaceFacts ==
  ASSUME NEW h, NEW g, NEW S, Snapshot(h, g, S), NEW k \in Keys, NEW w,
         NEW p \in 0 .. Last(h) - 1, NEW q \in 0 .. Last(h), PlaceAt(h, w, k, q, p)
  PROVE  /\ w.prev \in DOMAIN h /\ w.at \in DOMAIN h /\ w.header.node \in DOMAIN h
         /\ w.prev # TAIL /\ DOMAIN h \subseteq DOMAIN g
         /\ HeaderOn(h, w.header.node)
         /\ w.header.node \notin S => HeaderOn(g, w.header.node) /\ g[w.header.node] = h[w.header.node]
         /\ w.found /\ w.header.node \notin S => g[w.header.node].count >= 1
<1> DEFINE L == Chain(h)
           N == Last(h)
           c == h[L[q]].count
<1>1. /\ q \in 0 .. p /\ h[L[q]].type = HEADER_TYPE /\ p <= q + c
      /\ w.prev = L[p] /\ w.at = L[p + 1] /\ w.header.node = L[q]
      /\ Stops(h[w.at], k) /\ w.found = (h[w.at].key = k)
  BY DEF PlaceAt
<1>2. Nodes(h) /\ Nodes(g) /\ IsList(h, L, N) /\ Good(h) /\ Good(g) /\ Stays(h, g, S)
      /\ \A n \in DOMAIN h : g[n].type = h[n].type /\ (n \notin S => g[n] = h[n])
  BY DEF Snapshot, Good, Grown
<1>3. /\ N \in Nat /\ \A i \in 0 .. N : L[i] \in DOMAIN h /\ h[L[i]].count \in Nat
      /\ \A i \in 0 .. N - 1 : L[i] # TAIL
  BY <1>2, ListFacts
<1> HIDE DEF N
<1>4. p \in 0 .. N /\ p + 1 \in 0 .. N /\ q \in 0 .. N /\ p \in 0 .. N - 1
  BY <1>1, <1>3 DEF N
<1>5. w.prev \in DOMAIN h /\ w.at \in DOMAIN h /\ w.header.node \in DOMAIN h /\ w.prev # TAIL
  BY <1>1, <1>3, <1>4
<1>6. DOMAIN h \subseteq DOMAIN g
  <2>1. Len(h) <= Len(g)
    BY DEF Snapshot, Grown
  <2>2. Len(h) \in Nat /\ Len(g) \in Nat /\ DOMAIN h = 1 .. Len(h) /\ DOMAIN g = 1 .. Len(g)
    BY <1>2, LenFacts
  <2>3. QED
    BY <2>1, <2>2
<1>7. HeaderOn(h, w.header.node)
  BY <1>1, <1>4 DEF HeaderOn, OnList, N
<1>8. w.header.node \notin S => HeaderOn(g, w.header.node) /\ g[w.header.node] = h[w.header.node]
  BY <1>2, <1>5, <1>7, StaysHeader
<1>9. ASSUME w.found PROVE h[w.header.node].count >= 1
  <2>1. h[L[q + c + 1]].type # NORMAL
    BY <1>1, <1>2, <1>4 DEF IsList, Counted, CountedAt, N
  <2>2. h[L[p + 1]].type = NORMAL
    <3>1. k \in Int
      BY DEF Keys
    <3>2. h[w.at].key = k
      BY <1>1, <1>9, Zenon
    <3>3. h[w.at].type = NORMAL
      BY <1>1, <3>1, <3>2 DEF Stops
    <3>4. QED
      BY <1>1, <3>3
  <2>3. c \in Nat
    BY <1>3, <1>4
  <2> HIDE DEF c
  <2>4. p # q + c
    BY <2>1, <2>2
  <2>5. c >= 1
    BY <1>1, <1>4, <2>3, <2>4, <1>3
  <2>6. QED
    BY <1>1, <2>5 DEF c
<1>10. QED
  BY <1>5, <1>6, <1>7, <1>8, <1>9

\* Leaf nodes rewritten, and a new one.
RewrittenTo(g, f, a, x, b, c, s) ==
  /\ Nodes(g) /\ a # TAIL /\ x \in DOMAIN g
  /\ Rewritten(g, f, a, x, b, c, s) /\ f = [n \in DOMAIN f |-> f[n]]

\* A heap with a successor, a count and a state rewritten is a heap.
LEMMA NodesRewritten ==
  ASSUME NEW g, NEW f, NEW a, NEW x, NEW b, NEW c, NEW s, RewrittenTo(g, f, a, x, b, c, s)
  PROVE  Nodes(f) /\ Len(f) = Len(g) /\ Edit(g, f, a, x, b, c)
<1>0. /\ Nodes(g) /\ a # TAIL /\ x \in DOMAIN g
      /\ Rewritten(g, f, a, x, b, c, s) /\ f = [n \in DOMAIN f |-> f[n]]
  BY DEF RewrittenTo
<1> USE <1>0
<1>1. /\ DOMAIN f = DOMAIN g /\ Records(f)
      /\ \A n \in DOMAIN g : /\ f[n].type = g[n].type /\ f[n].key = g[n].key
                             /\ f[n].next = IF n = a THEN x ELSE g[n].next
                             /\ f[n].count = IF n = b THEN c ELSE g[n].count
  BY DEF Rewritten
<1>2. /\ g \in Seq(LeafNode) /\ Len(g) >= 2
      /\ \A n \in DOMAIN g : g[n].next \in DOMAIN g
      /\ g[HEAD].type = HEADER_TYPE /\ g[HEAD].key = 0
      /\ g[TAIL].type = TAIL_TYPE /\ g[TAIL].key = MaxKey + 1 /\ g[TAIL].next = TAIL
      /\ \A n \in DOMAIN g :
           /\ n # TAIL => g[n].type # TAIL_TYPE
           /\ g[n].type = NORMAL => g[n].key <= MaxKey
  BY DEF Nodes
<1>3. Len(g) \in Nat /\ DOMAIN g = 1 .. Len(g) /\ HEAD \in DOMAIN g /\ TAIL \in DOMAIN g
  BY NodeFacts
<1>4. f \in Seq(LeafNode) /\ Len(f) = Len(g)
  BY <1>1, <1>3, SeqRecords, Zenon
<1>5. Edit(g, f, a, x, b, c)
  BY <1>1 DEF Edit
<1>6. Nodes(f)
  BY <1>1, <1>2, <1>3, <1>4 DEF Nodes
<1>7. QED
  BY <1>4, <1>5, <1>6

\* f is r with a new node, and r is g rewritten.
AppendedTo(g, r, f, a, x, b, c, s, new) ==
  /\ Nodes(g) /\ a # TAIL /\ x = Len(g) + 1
  /\ Rewritten(g, r, a, x, b, c, s) /\ r = [n \in DOMAIN r |-> r[n]]
  /\ new \in LeafNode /\ new.next \in DOMAIN g /\ new.type # TAIL_TYPE
  /\ new.type = NORMAL => new.key <= MaxKey
  /\ f = Append(r, new)

\* The same with a new node at its end.
LEMMA NodesAppended ==
  ASSUME NEW g, NEW r, NEW f, NEW a, NEW x, NEW b, NEW c, NEW s, NEW new,
         AppendedTo(g, r, f, a, x, b, c, s, new)
  PROVE  /\ Nodes(f) /\ Len(f) = Len(g) + 1 /\ Edit(g, f, a, x, b, c)
         /\ f[x] = new /\ \A n \in DOMAIN g : f[n] = r[n]
<1>0. /\ Nodes(g) /\ a # TAIL /\ x = Len(g) + 1
      /\ Rewritten(g, r, a, x, b, c, s) /\ r = [n \in DOMAIN r |-> r[n]]
      /\ new \in LeafNode /\ new.next \in DOMAIN g /\ new.type # TAIL_TYPE
      /\ new.type = NORMAL => new.key <= MaxKey
      /\ f = Append(r, new)
  BY DEF AppendedTo
<1> USE <1>0
<1>1. /\ DOMAIN r = DOMAIN g /\ Records(r)
      /\ \A n \in DOMAIN g : /\ r[n].type = g[n].type /\ r[n].key = g[n].key
                             /\ r[n].next = IF n = a THEN x ELSE g[n].next
                             /\ r[n].count = IF n = b THEN c ELSE g[n].count
  BY DEF Rewritten
<1>2. /\ g \in Seq(LeafNode) /\ Len(g) >= 2
      /\ \A n \in DOMAIN g : g[n].next \in DOMAIN g
      /\ g[HEAD].type = HEADER_TYPE /\ g[HEAD].key = 0
      /\ g[TAIL].type = TAIL_TYPE /\ g[TAIL].key = MaxKey + 1 /\ g[TAIL].next = TAIL
      /\ \A n \in DOMAIN g :
           /\ n # TAIL => g[n].type # TAIL_TYPE
           /\ g[n].type = NORMAL => g[n].key <= MaxKey
  BY DEF Nodes
<1>3. Len(g) \in Nat /\ DOMAIN g = 1 .. Len(g) /\ HEAD \in DOMAIN g /\ TAIL \in DOMAIN g
  BY NodeFacts
<1>4. r \in Seq(LeafNode) /\ Len(r) = Len(g)
  BY <1>1, <1>3, SeqRecords, Zenon
<1>5. /\ f \in Seq(LeafNode) /\ Len(f) = Len(g) + 1 /\ f[Len(g) + 1] = new
      /\ \A n \in 1 .. Len(g) : f[n] = r[n]
  <2> DEFINE R == LeafNode
  <2> HIDE DEF R
  <2>1. r \in Seq(R) /\ new \in R
    BY <1>4 DEF R
  <2>2. /\ f \in Seq(R) /\ Len(f) = Len(r) + 1 /\ f[Len(r) + 1] = new
        /\ \A n \in 1 .. Len(r) : f[n] = r[n]
    BY <2>1
  <2>3. QED
    BY <1>4, <2>2 DEF R
<1>6. DOMAIN f = 1 .. Len(g) + 1 /\ DOMAIN g \subseteq DOMAIN f /\ x \in DOMAIN f
  <2>1. DOMAIN f = 1 .. Len(f)
    BY <1>5, RecordsSeq
  <2>2. QED
    BY <1>3, <1>5, <2>1
<1>7. \A n \in DOMAIN f : n \in DOMAIN g \/ n = x
  BY <1>3, <1>6
<1>8. \A n \in DOMAIN g : f[n] = r[n]
  BY <1>3, <1>5
<1>9. Edit(g, f, a, x, b, c)
  BY <1>1, <1>8 DEF Edit
<1>10. x # TAIL /\ x # HEAD /\ Len(f) >= 2
  BY <1>2, <1>3, <1>5 DEF HEAD, TAIL
<1>11. \A n \in DOMAIN f : f[n].next \in DOMAIN f
  <2>1. ASSUME NEW n \in DOMAIN f PROVE f[n].next \in DOMAIN f
    <3>1. CASE n = x
      BY <1>5, <1>6, <3>1
    <3>2. CASE n \in DOMAIN g
      <4>1. f[n].next = x \/ f[n].next = g[n].next
        BY <1>1, <1>8, <3>2, Zenon
      <4>2. g[n].next \in DOMAIN f
        BY <1>2, <1>6, <3>2
      <4>3. QED
        BY <1>6, <4>1, <4>2
    <3>3. QED
      BY <1>7, <3>1, <3>2
  <2>2. QED
    BY <2>1
<1>12. /\ f[HEAD].type = HEADER_TYPE /\ f[HEAD].key = 0
       /\ f[TAIL].type = TAIL_TYPE /\ f[TAIL].key = MaxKey + 1 /\ f[TAIL].next = TAIL
  BY <1>1, <1>2, <1>3, <1>8
<1>13. \A n \in DOMAIN f : /\ n # TAIL => f[n].type # TAIL_TYPE
                           /\ f[n].type = NORMAL => f[n].key <= MaxKey
  <2>1. ASSUME NEW n \in DOMAIN f
        PROVE  (n # TAIL => f[n].type # TAIL_TYPE) /\ (f[n].type = NORMAL => f[n].key <= MaxKey)
    <3>1. CASE n = x
      BY <1>5, <3>1
    <3>2. CASE n \in DOMAIN g
      <4>1. f[n].type = g[n].type /\ f[n].key = g[n].key
        BY <1>1, <1>8, <3>2, Zenon
      <4>2. QED
        BY <1>2, <3>2, <4>1
    <3>3. QED
      BY <1>7, <3>1, <3>2
  <2>2. QED
    BY <2>1
<1>14. Nodes(f)
  BY <1>5, <1>10, <1>11, <1>12, <1>13 DEF Nodes
<1>15. QED
  BY <1>5, <1>8, <1>9, <1>14

------------------------------------------------------------------------------
(***************************************************************************)
(* What the sections' ends write                                           *)
(***************************************************************************)
\* The items on the list and the keys added and not removed.
Items(g, P) ==
  /\ P \subseteq Keys
  /\ \A k : k \in P <=> \E n : OnList(g, n) /\ g[n].type = NORMAL /\ g[n].key = k

PlacedIn(h, g, S, k, w) == \E p, q : PlacedAt(h, g, S, k, w, q, p)

\* The header of the place, now.
LEMMA PlacedHeader ==
  ASSUME NEW h, NEW g, NEW S, NEW k, NEW w, PlacedIn(h, g, S, k, w)
  PROVE  /\ HeaderOn(g, w.header.node) /\ w.prev # TAIL
         /\ {w.header.node, w.prev, w.at} \subseteq DOMAIN g
         /\ w.at \in DOMAIN h /\ h[w.at].next \in DOMAIN g
         /\ g[w.header.node].count \in Nat
         /\ w.found => g[w.header.node].count - 1 \in Nat
<1>0. PICK p, q : PlacedAt(h, g, S, k, w, q, p)
  BY DEF PlacedIn
<1>1. p \in 0 .. Last(h) - 1 /\ q \in 0 .. Last(h) /\ PlaceAt(h, w, k, q, p)
  BY <1>0 DEF PlacedAt
<1>2. Snapshot(h, g, S) /\ k \in Keys /\ w.header.node \notin S
  BY <1>0 DEF PlacedAt
<1>3. /\ w.prev \in DOMAIN h /\ w.at \in DOMAIN h /\ w.header.node \in DOMAIN h
      /\ w.prev # TAIL /\ DOMAIN h \subseteq DOMAIN g
      /\ HeaderOn(g, w.header.node)
      /\ w.found => g[w.header.node].count >= 1
  BY <1>1, <1>2, PlaceFacts
<1>4. h[w.at].next \in DOMAIN h
  BY <1>2, <1>3, NodeFacts DEF Snapshot, Good
<1>5. g[w.header.node].count \in Nat
  BY <1>2, <1>3, NodeFacts DEF Snapshot, Good
<1>6. QED
  BY <1>3, <1>4, <1>5

\* An add: the new item is on the list, and nothing else changes for others.
WritesAdd(g, f, k, w, s) ==
  \E r, new :
    /\ Rewritten(g, r, w.prev, Len(g) + 1, w.header.node, g[w.header.node].count + 1, s)
    /\ r = [n \in DOMAIN r |-> r[n]]
    /\ new \in LeafNode /\ new.type = NORMAL /\ new.key = k /\ new.next = w.at
    /\ f = Append(r, new)

\* The new list, the new node in it, and the old nodes.
LEMMA AddNodes ==
  ASSUME NEW h, NEW g, NEW S, NEW k, NEW w, PlacedIn(h, g, S, k, w), NEW f, NEW s,
         WritesAdd(g, f, k, w, s)
  PROVE  /\ AddedAt(g, f, k, w)
         /\ \A n \in DOMAIN g :
              /\ f[n].type = g[n].type /\ f[n].key = g[n].key
              /\ f[n].state = IF n = w.header.node THEN s ELSE g[n].state
              /\ n # w.prev /\ n # w.header.node => f[n] = g[n]
<1>1. PICK r, new :
        /\ Rewritten(g, r, w.prev, Len(g) + 1, w.header.node, g[w.header.node].count + 1, s)
        /\ r = [n \in DOMAIN r |-> r[n]]
        /\ new \in LeafNode /\ new.type = NORMAL /\ new.key = k /\ new.next = w.at
        /\ f = Append(r, new)
  BY DEF WritesAdd
<1>2. Nodes(g) /\ k <= MaxKey
  <2>1. Snapshot(h, g, S) /\ k \in Keys
    BY DEF PlacedIn, PlacedAt
  <2>2. QED
    BY <2>1, OptionAssumption DEF Keys, Snapshot, Good
<1>3. w.at \in DOMAIN g /\ w.prev # TAIL
  BY PlacedHeader
<1>4. \E x, c : /\ x = Len(g) + 1 /\ c = g[w.header.node].count + 1
                /\ AppendedTo(g, r, f, w.prev, x, w.header.node, c, s, new)
  BY <1>1, <1>2, <1>3 DEF AppendedTo, NORMAL, TAIL_TYPE
<1>5. PICK x, c : /\ x = Len(g) + 1 /\ c = g[w.header.node].count + 1
                  /\ AppendedTo(g, r, f, w.prev, x, w.header.node, c, s, new)
  BY <1>4
<1>6. /\ Nodes(f) /\ Len(f) = Len(g) + 1 /\ Edit(g, f, w.prev, x, w.header.node, c)
      /\ f[x] = new /\ \A n \in DOMAIN g : f[n] = r[n]
  BY ONLY <1>5, NodesAppended
<1>7. AddedAt(g, f, k, w)
  BY <1>1, <1>5, <1>6 DEF AddedAt
<1>8. \A n \in DOMAIN g :
        /\ f[n].type = g[n].type /\ f[n].key = g[n].key
        /\ f[n].state = IF n = w.header.node THEN s ELSE g[n].state
        /\ n # w.prev /\ n # w.header.node => f[n] = g[n]
  BY <1>1, <1>6 DEF Rewritten
<1>9. QED
  BY <1>7, <1>8

\* What rlu_leaf_add writes, from a place found in its snapshot: the list of before
\* is a snapshot of the list after but for the three locked nodes, no header comes
\* or goes, and the items are those of before and k.
LEMMA AddWrites ==
  ASSUME NEW h, NEW g, NEW S, NEW k, NEW w, PlacedIn(h, g, S, k, w), ~w.found,
         NEW f, NEW s, WritesAdd(g, f, k, w, s),
         NEW W, W \subseteq {w.header.node}, s = g[w.header.node].state \/ w.header.node \in W
  PROVE  /\ Snapshot(g, f, {w.header.node, w.prev, w.at})
         /\ Changed(g, f, {}, {}, {}, W)
         /\ \A P : Items(g, P) => Items(f, P \union {k})
         /\ f[w.header.node].state = s
<1>1. PICK p, q : PlacedAt(h, g, S, k, w, q, p)
  BY DEF PlacedIn
<1>2. Snapshot(h, g, S) /\ k \in Keys /\ {w.header.node, w.prev, w.at} \intersect S = {}
  BY <1>1 DEF PlacedAt
<1>3. /\ {w.header.node, w.prev, w.at} \subseteq DOMAIN g
      /\ w.prev # TAIL /\ HeaderOn(g, w.header.node)
  BY PlacedHeader
<1>4. Good(g) /\ Nodes(g)
  BY <1>2 DEF Snapshot, Good
<1> DEFINE x == Len(g) + 1
<1>6. /\ AddedAt(g, f, k, w)
      /\ Nodes(f) /\ Len(f) = Len(g) + 1
      /\ f[x].type = NORMAL /\ f[x].key = k
  BY AddNodes DEF AddedAt
<1>7. PICK a, b : AddsItem(g, Chain(g), Last(g), a, b, f) /\ Chain(g)[a] = w.header.node
  BY <1>1, <1>6, AddStep
<1>8. /\ Good(f) /\ Stays(g, f, {w.header.node})
      /\ \A n : OnList(f, n) <=> OnList(g, n) \/ n = x
      /\ \A m, n : NextHeader(g, m, n) => NextHeader(f, m, n)
  BY <1>4, <1>7, AddEffect
<1>9. \A n \in DOMAIN g :
        /\ f[n].type = g[n].type /\ f[n].key = g[n].key
        /\ f[n].state = IF n = w.header.node THEN s ELSE g[n].state
        /\ n # w.prev /\ n # w.header.node => f[n] = g[n]
  BY AddNodes
<1>10. Len(g) \in Nat /\ DOMAIN g = 1 .. Len(g) /\ Len(g) <= Len(f) /\ x \notin DOMAIN g
       /\ x \notin 0 .. Len(g)
  BY <1>4, <1>6, LenFacts
<1>11. \A n : OnList(g, n) => n \in DOMAIN g
  BY <1>4, HeaderFacts
<1>12. Snapshot(g, f, {w.header.node, w.prev, w.at})
  <2>1. Grown(g, f, {w.header.node, w.prev, w.at})
    BY <1>9, <1>10 DEF Grown
  <2>2. Stays(g, f, {w.header.node, w.prev, w.at})
    BY <1>8, StaysMore
  <2>3. QED
    BY <1>4, <1>8, <2>1, <2>2 DEF Snapshot
<1>13. Changed(g, f, {}, {}, {}, W)
  <2>1. \A n \in DOMAIN g : n \notin W => f[n].state = g[n].state
    BY <1>9
  <2>2. ASSUME NEW n PROVE HeaderOn(f, n) <=> HeaderOn(g, n)
    <3>1. CASE n = x
      <4>1. ~HeaderOn(f, n) /\ ~HeaderOn(g, n)
        BY <1>6, <1>10, <1>11, <3>1 DEF HeaderOn, NORMAL, HEADER_TYPE
      <4>2. QED
        BY <4>1
    <3>2. CASE n # x
      BY <1>8, <1>9, <1>11, <3>2 DEF HeaderOn
    <3>3. QED
      BY <3>1, <3>2
  <2>3. \A n \in 0 .. Len(g) : OnList(f, n) => OnList(g, n)
    BY <1>8, <1>10
  <2>4. QED
    BY <1>4, <1>8, <1>9, <1>10, <2>1, <2>2, <2>3 DEF Changed
<1>14. ASSUME NEW P, Items(g, P) PROVE Items(f, P \union {k})
  <2>1. P \union {k} \subseteq Keys
    BY <1>2, <1>14 DEF Items
  <2>2. ASSUME NEW j
        PROVE  j \in P \union {k} <=> \E n : OnList(f, n) /\ f[n].type = NORMAL /\ f[n].key = j
    <3>1. j \in P <=> \E n : OnList(g, n) /\ g[n].type = NORMAL /\ g[n].key = j
      BY <1>14 DEF Items
    <3>2. ASSUME NEW n, OnList(g, n)
          PROVE  OnList(f, n) /\ f[n].type = g[n].type /\ f[n].key = g[n].key
      BY <1>8, <1>9, <1>11, <3>2
    <3>3. OnList(f, x) /\ f[x].type = NORMAL /\ f[x].key = k
      BY <1>6, <1>8
    <3>4. ASSUME NEW n, OnList(f, n), f[n].type = NORMAL, f[n].key = j PROVE j \in P \union {k}
      <4>1. CASE n = x
        BY <3>3, <3>4, <4>1
      <4>2. CASE OnList(g, n)
        BY <3>1, <3>2, <3>4, <4>2
      <4>3. QED
        BY <1>8, <3>4, <4>1, <4>2
    <3>5. ASSUME j \in P PROVE \E n : OnList(f, n) /\ f[n].type = NORMAL /\ f[n].key = j
      BY <3>1, <3>2, <3>5
    <3>6. QED
      BY <3>3, <3>4, <3>5
  <2>3. QED
    BY <2>1, <2>2 DEF Items
<1>15. QED
  BY <1>3, <1>9, <1>12, <1>13, <1>14

\* An item is the only one with its key.
LEMMA OneItem ==
  ASSUME NEW g, Good(g), NEW m, NEW n, OnList(g, m), OnList(g, n),
         g[m].type = NORMAL, g[n].type = NORMAL, g[m].key = g[n].key
  PROVE  m = n
<1> DEFINE L == Chain(g)
           N == Last(g)
<1>1. Nodes(g) /\ IsList(g, L, N)
  BY DEF Good
<1>2. N \in Nat /\ \A i \in 0 .. N : L[i] \in DOMAIN g /\ g[L[i]].key \in 0 .. MaxKey + 1
  BY <1>1, ListFacts
<1>3. \A i, j \in 0 .. N : i < j /\ g[L[i]].type # HEADER_TYPE => g[L[i]].key < g[L[j]].key
  BY <1>1 DEF IsList, Ordered
<1>4. PICK i \in 0 .. N : L[i] = m
  BY DEF OnList
<1>5. PICK j \in 0 .. N : L[j] = n
  BY DEF OnList
<1>6. g[m].key \in 0 .. MaxKey + 1 /\ g[n].key \in 0 .. MaxKey + 1
  BY <1>2, <1>4, <1>5
<1>7. ~(g[m].key < g[n].key) /\ ~(g[n].key < g[m].key)
  BY <1>6, OptionAssumption
<1>8. ~(i < j) /\ ~(j < i)
  BY <1>3, <1>4, <1>5, <1>7 DEF NORMAL, HEADER_TYPE
<1>9. i = j
  BY <1>2, <1>8
<1>10. QED
  BY <1>4, <1>5, <1>9

WritesRemove(h, g, f, w, s) ==
  /\ Rewritten(g, f, w.prev, h[w.at].next, w.header.node, g[w.header.node].count - 1, s)
  /\ f = [n \in DOMAIN f |-> f[n]]

\* What rlu_leaf_remove writes to each node.
LEMMA RemoveNodes ==
  ASSUME NEW h, NEW g, NEW S, NEW k, NEW w, PlacedIn(h, g, S, k, w), NEW f, NEW s,
         WritesRemove(h, g, f, w, s)
  PROVE  /\ RemovedAt(h, g, f, w)
         /\ \A n \in DOMAIN g :
              /\ f[n].type = g[n].type /\ f[n].key = g[n].key
              /\ f[n].state = IF n = w.header.node THEN s ELSE g[n].state
              /\ n # w.prev /\ n # w.header.node => f[n] = g[n]
<1>1. /\ Rewritten(g, f, w.prev, h[w.at].next, w.header.node, g[w.header.node].count - 1, s)
      /\ f = [n \in DOMAIN f |-> f[n]]
  BY DEF WritesRemove
<1>2. Nodes(g)
  BY DEF PlacedIn, PlacedAt, Snapshot, Good
<1>3. w.prev # TAIL /\ h[w.at].next \in DOMAIN g
  BY PlacedHeader
<1>4. RewrittenTo(g, f, w.prev, h[w.at].next, w.header.node, g[w.header.node].count - 1, s)
  BY <1>1, <1>2, <1>3 DEF RewrittenTo
<1>5. RemovedAt(h, g, f, w)
  <2>1. /\ Nodes(f) /\ Len(f) = Len(g)
        /\ Edit(g, f, w.prev, h[w.at].next, w.header.node, g[w.header.node].count - 1)
    BY ONLY <1>4, NodesRewritten
  <2>2. QED
    BY <2>1 DEF RemovedAt
<1>6. \A n \in DOMAIN g :
        /\ f[n].type = g[n].type /\ f[n].key = g[n].key
        /\ f[n].state = IF n = w.header.node THEN s ELSE g[n].state
        /\ n # w.prev /\ n # w.header.node => f[n] = g[n]
  BY <1>1, Zenon DEF Rewritten
<1>7. QED
  BY <1>5, <1>6

\* A remove: the item is gone, and nothing else changes for others.
LEMMA RemoveWrites ==
  ASSUME NEW h, NEW g, NEW S, NEW k, NEW w, PlacedIn(h, g, S, k, w), w.found,
         NEW f, NEW s, WritesRemove(h, g, f, w, s),
         NEW W, W \subseteq {w.header.node}, s = g[w.header.node].state \/ w.header.node \in W
  PROVE  /\ Snapshot(g, f, {w.header.node, w.prev, w.at})
         /\ Changed(g, f, {}, {}, {}, W)
         /\ \A P : Items(g, P) => Items(f, P \ {k})
         /\ f[w.header.node].state = s
<1>1. PICK p, q : PlacedAt(h, g, S, k, w, q, p)
  BY DEF PlacedIn
<1>2. Snapshot(h, g, S) /\ k \in Keys
  BY <1>1 DEF PlacedAt
<1>3. /\ {w.header.node, w.prev, w.at} \subseteq DOMAIN g
      /\ HeaderOn(g, w.header.node)
  BY PlacedHeader
<1>4. Good(g) /\ Nodes(g)
  BY <1>2 DEF Snapshot, Good
<1>6. RemovedAt(h, g, f, w) /\ Len(f) = Len(g)
  BY RemoveNodes DEF RemovedAt
<1>7. /\ \E a, b : /\ RemovesItem(g, Chain(g), Last(g), a, b, f)
                   /\ Chain(g)[a] = w.header.node /\ Chain(g)[b + 1] = w.at
      /\ g[w.at].key = k
  BY <1>1, <1>6, RemoveStep
<1>7a. PICK a, b : /\ RemovesItem(g, Chain(g), Last(g), a, b, f)
                   /\ Chain(g)[a] = w.header.node /\ Chain(g)[b + 1] = w.at
  BY <1>7
<1>8. /\ Good(f) /\ Stays(g, f, {w.header.node})
      /\ \A n : OnList(f, n) <=> OnList(g, n) /\ n # w.at
      /\ g[w.at].type = NORMAL
      /\ \A m, n : NextHeader(g, m, n) => NextHeader(f, m, n)
  <2>1. /\ Good(f) /\ Stays(g, f, {Chain(g)[a]})
        /\ \A n : OnList(f, n) <=> OnList(g, n) /\ n # Chain(g)[b + 1]
        /\ g[Chain(g)[b + 1]].type = NORMAL
        /\ \A m, n : NextHeader(g, m, n) => NextHeader(f, m, n)
    BY ONLY <1>4, <1>7a, RemoveEffect
  <2>2. Chain(g)[a] = w.header.node /\ Chain(g)[b + 1] = w.at
    BY <1>7a
  <2>3. QED
    BY ONLY <2>1, <2>2, Zenon
<1>9. \A n \in DOMAIN g :
        /\ f[n].type = g[n].type /\ f[n].key = g[n].key
        /\ f[n].state = IF n = w.header.node THEN s ELSE g[n].state
        /\ n # w.prev /\ n # w.header.node => f[n] = g[n]
  BY RemoveNodes
<1>10. Len(g) \in Nat /\ DOMAIN g = 1 .. Len(g) /\ Len(g) <= Len(f)
  BY <1>4, <1>6, LenFacts
<1>11. \A n : OnList(g, n) => n \in DOMAIN g
  BY <1>4, HeaderFacts
<1>12. Snapshot(g, f, {w.header.node, w.prev, w.at})
  <2>1. Grown(g, f, {w.header.node, w.prev, w.at})
    BY <1>9, <1>10 DEF Grown
  <2>2. Stays(g, f, {w.header.node, w.prev, w.at})
    BY <1>8, StaysMore
  <2>3. QED
    BY <1>4, <1>8, <2>1, <2>2 DEF Snapshot
<1>13. Changed(g, f, {}, {}, {}, W)
  <2>1. \A n \in DOMAIN g : n \notin W => f[n].state = g[n].state
    BY <1>9
  <2>2. ASSUME NEW n PROVE HeaderOn(f, n) <=> HeaderOn(g, n)
    <3>1. CASE n = w.at
      BY <1>8, <3>1 DEF HeaderOn, NORMAL, HEADER_TYPE
    <3>2. CASE n # w.at
      BY <1>8, <1>9, <1>11, <3>2 DEF HeaderOn
    <3>3. QED
      BY <3>1, <3>2
  <2>4. QED
    BY <1>4, <1>8, <1>9, <1>10, <2>1, <2>2 DEF Changed
<1>14. ASSUME NEW P, Items(g, P) PROVE Items(f, P \ {k})
  <2>1. P \ {k} \subseteq Keys
    BY <1>14 DEF Items
  <2>2. ASSUME NEW j
        PROVE  j \in P \ {k} <=> \E n : OnList(f, n) /\ f[n].type = NORMAL /\ f[n].key = j
    <3>1. j \in P <=> \E n : OnList(g, n) /\ g[n].type = NORMAL /\ g[n].key = j
      BY <1>14 DEF Items
    <3>2. ASSUME NEW n, OnList(f, n)
          PROVE  OnList(g, n) /\ n # w.at /\ f[n].type = g[n].type /\ f[n].key = g[n].key
      BY <1>8, <1>9, <1>11, <3>2
    <3>3. ASSUME NEW n, OnList(f, n), f[n].type = NORMAL, f[n].key = j PROVE j \in P \ {k}
      <4>1. OnList(g, n) /\ n # w.at /\ g[n].type = NORMAL /\ g[n].key = j
        BY <3>2, <3>3
      <4>2. j # k
        <5>1. b \in 0 .. Last(g) - 2 /\ Last(g) \in Nat
          BY <1>4, <1>7a, ListFacts DEF RemovesItem, Removal, Good
        <5>1a. b + 1 \in 0 .. Last(g)
          BY <5>1
        <5>2. OnList(g, w.at)
          BY <1>7a, <5>1a DEF OnList
        <5>3. QED
          BY <1>4, <1>7, <1>8, <4>1, <5>2, OneItem
      <4>3. QED
        BY <3>1, <4>1, <4>2
    <3>4. ASSUME j \in P \ {k} PROVE \E n : OnList(f, n) /\ f[n].type = NORMAL /\ f[n].key = j
      <4>1. PICK n : OnList(g, n) /\ g[n].type = NORMAL /\ g[n].key = j
        BY <3>1, <3>4
      <4>2. n # w.at
        BY <1>7, <3>4, <4>1
      <4>3. QED
        BY <1>8, <1>9, <1>11, <4>1, <4>2
    <3>5. QED
      BY <3>3, <3>4
  <2>3. QED
    BY <2>1, <2>2 DEF Items
<1>15. QED
  BY <1>3, <1>9, <1>12, <1>13, <1>14

\* The nodes of a split.
LEMMA SplitFacts ==
  ASSUME NEW h, NEW g, NEW S, NEW m, NEW keep, NEW curr, NEW next,
         SplitIn(h, g, S, m, keep, curr, next)
  PROVE  /\ curr \in DOMAIN g /\ next \in DOMAIN g /\ m \in DOMAIN g /\ curr # TAIL
         /\ next \in DOMAIN h /\ m \in DOMAIN h
         /\ HeaderOn(g, m) /\ g[m] = h[m] /\ Good(g) /\ h[m].count - keep \in Nat /\ keep \in Nat
<1> DEFINE L == Chain(h)
           N == Last(h)
           c == h[m].count
<1>1. /\ Snapshot(h, g, S) /\ HeaderOn(h, m) /\ keep \in 0 .. c
      /\ curr = Path(h, [node |-> m, copy |-> <<>>])[keep]
      /\ next = Path(h, [node |-> m, copy |-> <<>>])[keep + 1]
      /\ {m, curr, next} \intersect S = {}
  BY Zenon DEF SplitIn
<1>2. Good(h) /\ Good(g) /\ Nodes(h) /\ IsList(h, L, N) /\ Stays(h, g, S)
      /\ \A n \in DOMAIN h : g[n].type = h[n].type /\ (n \notin S => g[n] = h[n])
  BY <1>1 DEF Snapshot, Good, Grown
<1>3. PICK q \in 0 .. N : L[q] = m
  BY <1>1 DEF HeaderOn, OnList
<1>4. N \in Nat /\ (\A i \in 0 .. N : L[i] \in DOMAIN h /\ h[L[i]].count \in Nat)
      /\ \A i \in 0 .. N - 1 : L[i] # TAIL
  BY <1>2, ListFacts
<1>5. c \in Nat /\ q + c + 1 <= N /\ m \in DOMAIN h
  BY <1>1, <1>2, <1>3, <1>4 DEF HeaderOn, IsList, Counted, CountedAt
<1>6. \A j \in 0 .. N - q : Path(h, [node |-> m, copy |-> <<>>])[j] = L[q + j]
  <2>1. q \in 0 .. Last(h) /\ Chain(h)[q] = m /\ Good(h)
    BY <1>2, <1>3
  <2>2. QED
    BY ONLY <2>1, WalkFrom
<1> HIDE DEF N, c
<1>7. /\ keep \in 0 .. N - q /\ keep + 1 \in 0 .. N - q /\ q + keep \in 0 .. N - 1 /\ q + keep \in 0 .. N
      /\ q + (keep + 1) \in 0 .. N /\ c - keep \in Nat /\ keep \in Nat
  BY <1>1, <1>3, <1>4, <1>5
<1>8. curr = L[q + keep] /\ next = L[q + (keep + 1)]
  BY <1>1, <1>6, <1>7
<1>9. curr \in DOMAIN h /\ next \in DOMAIN h /\ curr # TAIL
  BY <1>4, <1>7, <1>8
<1>10. DOMAIN h \subseteq DOMAIN g
  <2>1. Len(h) <= Len(g)
    BY <1>1 DEF Snapshot, Grown
  <2>2. Len(h) \in Nat /\ Len(g) \in Nat /\ DOMAIN h = 1 .. Len(h) /\ DOMAIN g = 1 .. Len(g)
    BY <1>2, LenFacts
  <2>3. QED
    BY <2>1, <2>2
<1>11. HeaderOn(g, m) /\ g[m] = h[m]
  <2>1. m \notin S
    BY <1>1
  <2>2. QED
    BY <1>1, <1>2, <1>5, <2>1, StaysHeader
<1>12. QED
  BY <1>2, <1>5, <1>7, <1>9, <1>10, <1>11 DEF c

WritesSplit(h, g, f, m, keep, curr, next) ==
  \E r, new :
    /\ Rewritten(g, r, curr, Len(g) + 1, m, keep, g[m].state)
    /\ r = [n \in DOMAIN r |-> r[n]]
    /\ new \in LeafNode /\ new.type = HEADER_TYPE /\ new.state = SPLIT_REGIST
    /\ new.count = h[m].count - keep /\ new.key = h[next].key /\ new.next = next
    /\ f = Append(r, new)

\* What rlu_header_split writes to each node.
LEMMA SplitNodes ==
  ASSUME NEW h, NEW g, NEW S, NEW m, NEW keep, NEW curr, NEW next,
         SplitIn(h, g, S, m, keep, curr, next), NEW f, WritesSplit(h, g, f, m, keep, curr, next)
  PROVE  /\ SplitTo(h, g, f, m, keep, curr, next)
         /\ f[Len(g) + 1].state = SPLIT_REGIST
         /\ \A n \in DOMAIN g :
              /\ f[n].type = g[n].type /\ f[n].key = g[n].key /\ f[n].state = g[n].state
              /\ n # m /\ n # curr => f[n] = g[n]
<1>1. PICK r, new :
        /\ Rewritten(g, r, curr, Len(g) + 1, m, keep, g[m].state)
        /\ r = [n \in DOMAIN r |-> r[n]]
        /\ new \in LeafNode /\ new.type = HEADER_TYPE /\ new.state = SPLIT_REGIST
        /\ new.count = h[m].count - keep /\ new.key = h[next].key /\ new.next = next
        /\ f = Append(r, new)
  BY DEF WritesSplit
<1>2. Nodes(g) /\ next \in DOMAIN g /\ curr # TAIL
  BY SplitFacts DEF Good
<1>4. \E x : /\ x = Len(g) + 1
             /\ AppendedTo(g, r, f, curr, x, m, keep, g[m].state, new)
  BY <1>1, <1>2 DEF AppendedTo, NORMAL, HEADER_TYPE, TAIL_TYPE
<1>5. PICK x : /\ x = Len(g) + 1
               /\ AppendedTo(g, r, f, curr, x, m, keep, g[m].state, new)
  BY <1>4
<1>6. /\ Nodes(f) /\ Len(f) = Len(g) + 1 /\ Edit(g, f, curr, x, m, keep)
      /\ f[x] = new /\ \A n \in DOMAIN g : f[n] = r[n]
  BY ONLY <1>5, NodesAppended
<1>7. SplitTo(h, g, f, m, keep, curr, next)
  BY <1>1, <1>5, <1>6 DEF SplitTo
<1>8. \A n \in DOMAIN g :
        /\ f[n].type = g[n].type /\ f[n].key = g[n].key /\ f[n].state = g[n].state
        /\ n # m /\ n # curr => f[n] = g[n]
  BY <1>1, <1>6, ZenonT(40) DEF Rewritten
<1>9. QED
  BY <1>1, <1>5, <1>6, <1>7, <1>8

\* A split: the new header is behind m.
LEMMA SplitWrites ==
  ASSUME NEW h, NEW g, NEW S, NEW m, NEW keep, NEW curr, NEW next,
         SplitIn(h, g, S, m, keep, curr, next), NEW f, WritesSplit(h, g, f, m, keep, curr, next)
  PROVE  /\ Snapshot(g, f, {m, curr, next})
         /\ Changed(g, f, {Len(g) + 1}, {}, {m}, {})
         /\ \A P : Items(g, P) => Items(f, P)
         /\ f[Len(g) + 1].state = SPLIT_REGIST
         /\ NextHeader(f, m, Len(g) + 1)
<1> DEFINE x == Len(g) + 1
<1>1. Good(g) /\ m \in DOMAIN g
  BY SplitFacts
<1>2. /\ SplitTo(h, g, f, m, keep, curr, next)
      /\ f[x].state = SPLIT_REGIST /\ f[x].type = HEADER_TYPE /\ Len(f) = Len(g) + 1
      /\ \A n \in DOMAIN g :
              /\ f[n].type = g[n].type /\ f[n].key = g[n].key /\ f[n].state = g[n].state
              /\ n # m /\ n # curr => f[n] = g[n]
  BY SplitNodes DEF SplitTo
<1>3. PICK a, b : AddsHeader(g, Chain(g), Last(g), a, b, f) /\ Chain(g)[a] = m
  BY <1>2, SplitStep
<1>4. /\ Good(f) /\ Stays(g, f, {m})
      /\ \A n : OnList(f, n) <=> OnList(g, n) \/ n = x
      /\ \A y, n : NextHeader(g, y, n) /\ y # m => NextHeader(f, y, n)
      /\ NextHeader(f, m, x)
  <2>1. /\ Good(f) /\ Stays(g, f, {Chain(g)[a]})
        /\ \A n : OnList(f, n) <=> OnList(g, n) \/ n = x
        /\ \A y, n : NextHeader(g, y, n) /\ y # Chain(g)[a] => NextHeader(f, y, n)
        /\ NextHeader(f, Chain(g)[a], x)
    BY ONLY <1>1, <1>3, SplitEffect
  <2>2. Chain(g)[a] = m
    BY <1>3
  <2>3. QED
    BY ONLY <2>1, <2>2, Zenon
<1>5. Len(g) \in Nat /\ DOMAIN g = 1 .. Len(g) /\ Len(g) <= Len(f) /\ x \notin DOMAIN g
      /\ x \notin 0 .. Len(g)
  BY <1>1, <1>2, LenFacts
<1>6. \A n : OnList(g, n) => n \in DOMAIN g
  BY <1>1, HeaderFacts
<1> HIDE DEF x
<1>7. Snapshot(g, f, {m, curr, next})
  <2>1. Grown(g, f, {m, curr, next})
    BY <1>2, <1>5 DEF Grown
  <2>2. Stays(g, f, {m, curr, next})
    BY <1>4, StaysMore
  <2>3. QED
    BY <1>1, <1>4, <2>1, <2>2 DEF Snapshot
<1>8. Changed(g, f, {x}, {}, {m}, {})
  <2>1. ASSUME NEW n PROVE HeaderOn(f, n) <=> HeaderOn(g, n) \/ n = x
    <3>1. CASE n = x
      BY <1>2, <1>4, <3>1 DEF HeaderOn
    <3>2. CASE n # x
      BY <1>2, <1>4, <1>6, <3>2 DEF HeaderOn
    <3>3. QED
      BY <3>1, <3>2
  <2>2. \A n \in 0 .. Len(g) : OnList(f, n) => OnList(g, n)
    BY <1>4, <1>5
  <2>3. QED
    BY <1>1, <1>2, <1>4, <1>5, <2>1, <2>2 DEF Changed
<1>9. ASSUME NEW P, Items(g, P) PROVE Items(f, P)
  <2>1. ASSUME NEW j
        PROVE  (\E n : OnList(g, n) /\ g[n].type = NORMAL /\ g[n].key = j)
               <=> \E n : OnList(f, n) /\ f[n].type = NORMAL /\ f[n].key = j
    <3>1. ASSUME NEW n, OnList(g, n)
          PROVE  OnList(f, n) /\ f[n].type = g[n].type /\ f[n].key = g[n].key
      BY <1>2, <1>4, <1>6, <3>1
    <3>2. ASSUME NEW n, OnList(f, n), f[n].type = NORMAL PROVE OnList(g, n)
      BY <1>2, <1>4, <3>2 DEF NORMAL, HEADER_TYPE
    <3>3. QED
      BY <3>1, <3>2
  <2>2. QED
    BY <1>9, <2>1 DEF Items
<1>10. QED
  BY <1>2, <1>4, <1>7, <1>8, <1>9 DEF x

\* The nodes of a merge.
LEMMA MergeFacts ==
  ASSUME NEW h, NEW g, NEW S, NEW m, NEW s, NEW q, NEW prev, MergeIn(h, g, S, m, s, q, prev)
  PROVE  /\ prev \in DOMAIN g /\ s \in DOMAIN g /\ m \in DOMAIN g /\ prev # TAIL
         /\ s \in DOMAIN h /\ h[s].next \in DOMAIN g
         /\ g[m].count + g[s].count \in Nat /\ g[s].type = HEADER_TYPE /\ Good(g)
<1> DEFINE L == Chain(h)
           N == Last(h)
           c == h[m].count
<1>1. /\ Snapshot(h, g, S) /\ q \in 0 .. N /\ NextAt(h, m, s, q)
      /\ prev = L[q + c] /\ {m, prev, s} \intersect S = {}
  BY Zenon DEF MergeIn
<1>2. Good(h) /\ Good(g) /\ Nodes(h) /\ Nodes(g) /\ IsList(h, L, N)
      /\ \A n \in DOMAIN h : g[n].type = h[n].type
  BY <1>1 DEF Snapshot, Good, Grown
<1>3. L[q] = m /\ h[m].type = HEADER_TYPE /\ L[q + c + 1] = s /\ h[s].type = HEADER_TYPE
  BY <1>1 DEF NextAt
<1>4. N \in Nat /\ (\A i \in 0 .. N : L[i] \in DOMAIN h /\ h[L[i]].count \in Nat)
      /\ \A i \in 0 .. N - 1 : L[i] # TAIL
  BY <1>2, ListFacts
<1>5. c \in Nat /\ q + c + 1 <= N /\ m \in DOMAIN h
  BY <1>1, <1>2, <1>3, <1>4 DEF IsList, Counted, CountedAt
<1> HIDE DEF N, c
<1>6. q + c \in 0 .. N - 1 /\ q + c \in 0 .. N /\ q + c + 1 \in 0 .. N
  BY <1>1, <1>4, <1>5
<1>7. prev \in DOMAIN h /\ s \in DOMAIN h /\ prev # TAIL
  BY <1>1, <1>3, <1>4, <1>6
<1>8. DOMAIN h \subseteq DOMAIN g
  <2>1. Len(h) <= Len(g)
    BY <1>1 DEF Snapshot, Grown
  <2>2. Len(h) \in Nat /\ Len(g) \in Nat /\ DOMAIN h = 1 .. Len(h) /\ DOMAIN g = 1 .. Len(g)
    BY <1>2, LenFacts
  <2>3. QED
    BY <2>1, <2>2
<1>9. h[s].next \in DOMAIN h
  BY <1>2, <1>7, NodeFacts
<1>10. g[m].count \in Nat /\ g[s].count \in Nat
  BY <1>2, <1>5, <1>7, <1>8, NodeFacts
<1>11. QED
  BY <1>2, <1>3, <1>5, <1>7, <1>8, <1>9, <1>10

WritesMerge(h, g, f, m, s, prev) ==
  /\ Rewritten(g, f, prev, h[s].next, m, g[m].count + g[s].count, g[m].state)
  /\ f = [n \in DOMAIN f |-> f[n]]

\* What rlu_header_merge writes to each node.
LEMMA MergeNodes ==
  ASSUME NEW h, NEW g, NEW S, NEW m, NEW s, NEW q, NEW prev, MergeIn(h, g, S, m, s, q, prev),
         NEW f, WritesMerge(h, g, f, m, s, prev)
  PROVE  /\ MergeTo(h, g, f, m, s, prev)
         /\ \A n \in DOMAIN g :
              /\ f[n].type = g[n].type /\ f[n].key = g[n].key /\ f[n].state = g[n].state
              /\ n # m /\ n # prev => f[n] = g[n]
<1>1. /\ Rewritten(g, f, prev, h[s].next, m, g[m].count + g[s].count, g[m].state)
      /\ f = [n \in DOMAIN f |-> f[n]]
  BY DEF WritesMerge
<1>2. Nodes(g) /\ h[s].next \in DOMAIN g /\ prev # TAIL
  BY MergeFacts DEF Good
<1>3. RewrittenTo(g, f, prev, h[s].next, m, g[m].count + g[s].count, g[m].state)
  BY <1>1, <1>2 DEF RewrittenTo
<1>4. MergeTo(h, g, f, m, s, prev)
  <2>1. /\ Nodes(f) /\ Len(f) = Len(g)
        /\ Edit(g, f, prev, h[s].next, m, g[m].count + g[s].count)
    BY ONLY <1>3, NodesRewritten
  <2>2. QED
    BY <2>1 DEF MergeTo
<1>5. \A n \in DOMAIN g :
        /\ f[n].type = g[n].type /\ f[n].key = g[n].key /\ f[n].state = g[n].state
        /\ n # m /\ n # prev => f[n] = g[n]
  BY <1>1, Zenon DEF Rewritten
<1>6. QED
  BY <1>4, <1>5

\* A merge: the header s is gone, its items are m's.
LEMMA MergeWrites ==
  ASSUME NEW h, NEW g, NEW S, NEW m, NEW s, NEW q, NEW prev, MergeIn(h, g, S, m, s, q, prev),
         NEW f, WritesMerge(h, g, f, m, s, prev)
  PROVE  /\ Snapshot(g, f, {m, prev, s})
         /\ Changed(g, f, {}, {s}, {m, s}, {})
         /\ \A P : Items(g, P) => Items(f, P)
<1>1. Good(g) /\ m \in DOMAIN g /\ s \in DOMAIN g /\ g[s].type = HEADER_TYPE
  BY MergeFacts
<1>2. /\ MergeTo(h, g, f, m, s, prev) /\ Len(f) = Len(g)
      /\ \A n \in DOMAIN g :
              /\ f[n].type = g[n].type /\ f[n].key = g[n].key /\ f[n].state = g[n].state
              /\ n # m /\ n # prev => f[n] = g[n]
  BY MergeNodes DEF MergeTo
<1>3. PICK a : /\ RemovesHeader(g, Chain(g), Last(g), a, f)
               /\ Chain(g)[a] = m /\ Chain(g)[a + g[m].count + 1] = s
  BY <1>2, MergeStep
<1>4. /\ Good(f) /\ Stays(g, f, {m, s})
      /\ \A n : OnList(f, n) <=> OnList(g, n) /\ n # s
      /\ \A y, n : NextHeader(g, y, n) /\ y \notin {m, s} => NextHeader(f, y, n)
  <2>1. s = Chain(g)[a + g[Chain(g)[a]].count + 1]
    BY <1>3
  <2>2. /\ Good(f) /\ Stays(g, f, {Chain(g)[a], s})
        /\ \A n : OnList(f, n) <=> OnList(g, n) /\ n # s
        /\ \A y, n : NextHeader(g, y, n) /\ y \notin {Chain(g)[a], s} => NextHeader(f, y, n)
    BY ONLY <1>1, <1>3, <2>1, MergeEffect
  <2>3. Chain(g)[a] = m
    BY <1>3
  <2>4. QED
    BY ONLY <2>2, <2>3, Zenon
<1>5. Len(g) \in Nat /\ DOMAIN g = 1 .. Len(g) /\ Len(g) <= Len(f)
  BY <1>1, <1>2, LenFacts
<1>6. \A n : OnList(g, n) => n \in DOMAIN g
  BY <1>1, HeaderFacts
<1>7. Snapshot(g, f, {m, prev, s})
  <2>1. Grown(g, f, {m, prev, s})
    BY <1>2, <1>5 DEF Grown
  <2>2. Stays(g, f, {m, prev, s})
    BY <1>4, StaysMore
  <2>3. QED
    BY <1>1, <1>4, <2>1, <2>2 DEF Snapshot
<1>8. Changed(g, f, {}, {s}, {m, s}, {})
  <2>1. \A n : HeaderOn(f, n) <=> HeaderOn(g, n) /\ n # s
    BY <1>2, <1>4, <1>6 DEF HeaderOn
  <2>2. QED
    BY <1>1, <1>2, <1>4, <1>5, <2>1 DEF Changed
<1>9. ASSUME NEW P, Items(g, P) PROVE Items(f, P)
  <2>1. ASSUME NEW j
        PROVE  (\E n : OnList(g, n) /\ g[n].type = NORMAL /\ g[n].key = j)
               <=> \E n : OnList(f, n) /\ f[n].type = NORMAL /\ f[n].key = j
    <3>1. ASSUME NEW n, OnList(f, n)
          PROVE  OnList(g, n) /\ f[n].type = g[n].type /\ f[n].key = g[n].key
      BY <1>2, <1>4, <1>6, <3>1
    <3>2. ASSUME NEW n, OnList(g, n), g[n].type = NORMAL PROVE OnList(f, n)
      BY <1>1, <1>4, <3>2 DEF NORMAL, HEADER_TYPE
    <3>3. QED
      BY <1>2, <1>6, <3>1, <3>2
  <2>2. QED
    BY <1>9, <2>1 DEF Items
<1>10. QED
  BY <1>7, <1>8, <1>9

\* The headers W get the state x, and nothing else changes.
WritesState(g, f, W, x) ==
  /\ DOMAIN f = DOMAIN g /\ Records(f) /\ f = [n \in DOMAIN f |-> f[n]]
  /\ \A n \in DOMAIN g :
       /\ f[n].type = g[n].type /\ f[n].key = g[n].key /\ f[n].next = g[n].next
       /\ f[n].count = g[n].count /\ f[n].state = IF n \in W THEN x ELSE g[n].state
       /\ n \notin W => f[n] = g[n]

\* Writing states only changes neither list nor items.
LEMMA StateWrites ==
  ASSUME NEW g, Good(g), NEW f, NEW W, NEW x, WritesState(g, f, W, x)
  PROVE  /\ Snapshot(g, f, W)
         /\ Changed(g, f, {}, {}, {}, W)
         /\ \A P : Items(g, P) => Items(f, P)
         /\ \A n \in W \intersect DOMAIN g : f[n].state = x
<1>1. Nodes(g) /\ Len(g) \in Nat /\ DOMAIN g = 1 .. Len(g)
  BY LenFacts
<1>2. /\ DOMAIN f = DOMAIN g /\ Records(f) /\ f = [n \in DOMAIN f |-> f[n]]
      /\ \A n \in DOMAIN g :
           /\ f[n].type = g[n].type /\ f[n].key = g[n].key /\ f[n].next = g[n].next
           /\ f[n].count = g[n].count /\ f[n].state = IF n \in W THEN x ELSE g[n].state
           /\ n \notin W => f[n] = g[n]
  BY DEF WritesState
<1>3. f \in Seq(LeafNode) /\ Len(f) = Len(g)
  <2>1. DOMAIN f = 1 .. Len(g)
    BY <1>1, <1>2
  <2>2. QED
    BY <1>1, <1>2, <2>1, SeqRecords
<1>4. Nodes(f)
  <2>1. /\ Len(g) >= 2
        /\ \A n \in DOMAIN g : g[n].next \in DOMAIN g
        /\ g[HEAD].type = HEADER_TYPE /\ g[HEAD].key = 0
        /\ g[TAIL].type = TAIL_TYPE /\ g[TAIL].key = MaxKey + 1 /\ g[TAIL].next = TAIL
        /\ \A n \in DOMAIN g :
             /\ n # TAIL => g[n].type # TAIL_TYPE
             /\ g[n].type = NORMAL => g[n].key <= MaxKey
    BY <1>1 DEF Nodes
  <2>2. HEAD \in DOMAIN g /\ TAIL \in DOMAIN g
    BY <1>1, NodeFacts
  <2>3. QED
    BY <1>2, <1>3, <2>1, <2>2 DEF Nodes
<1>5. /\ Good(f) /\ \A S : Stays(g, f, S)
      /\ \A n : OnList(f, n) <=> OnList(g, n)
      /\ \A m, n : NextHeader(g, m, n) => NextHeader(f, m, n)
  BY <1>2, <1>3, <1>4, ShapeEffect
<1>6. \A n : OnList(g, n) => n \in DOMAIN g
  BY HeaderFacts
<1>7. Snapshot(g, f, W)
  <2>1. Grown(g, f, W)
    BY <1>1, <1>2, <1>3 DEF Grown
  <2>2. QED
    BY <1>5, <2>1 DEF Snapshot
<1>8. Changed(g, f, {}, {}, {}, W)
  <2>1. \A n : HeaderOn(f, n) <=> HeaderOn(g, n)
    BY <1>2, <1>5, <1>6 DEF HeaderOn
  <2>2. QED
    BY <1>1, <1>2, <1>3, <1>5, <2>1 DEF Changed
<1>9. ASSUME NEW P, Items(g, P) PROVE Items(f, P)
  <2>1. ASSUME NEW j
        PROVE  (\E n : OnList(g, n) /\ g[n].type = NORMAL /\ g[n].key = j)
               <=> \E n : OnList(f, n) /\ f[n].type = NORMAL /\ f[n].key = j
    BY <1>2, <1>5, <1>6
  <2>2. QED
    BY <1>9, <2>1 DEF Items
<1>10. QED
  BY <1>2, <1>7, <1>8, <1>9

\* The two forms in which the code writes states.
LEMMA StateSets ==
  ASSUME NEW g, Good(g), NEW m \in DOMAIN g, NEW s \in DOMAIN g, NEW x \in States
  PROVE  /\ WritesState(g, [g EXCEPT ![m].state = x], {m}, x)
         /\ WritesState(g, [g EXCEPT ![m].state = x, ![s].state = x], {m, s}, x)
<1> DEFINE g1 == [g EXCEPT ![m].state = x]
           g2 == [g1 EXCEPT ![s].state = x]
<1>1. Records(g)
  BY NodeFacts DEF Good, Records
<1>2. StateSet(g, g1, m, x)
  BY <1>1, SetField
<1>3. StateSet(g1, g2, s, x)
  <2> HIDE DEF g1
  <2>1. Records(g1) /\ s \in DOMAIN g1
    BY <1>2 DEF StateSet
  <2>2. QED
    BY <2>1, SetField, Zenon
<1>4. g1 = [n \in DOMAIN g1 |-> g1[n]]
  OBVIOUS
<1>5. g2 = [n \in DOMAIN g2 |-> g2[n]]
  OBVIOUS
<1> HIDE DEF g1, g2
<1>6. WritesState(g, g1, {m}, x)
  BY <1>2, <1>4 DEF WritesState, StateSet
<1>7. WritesState(g, g2, {m, s}, x)
  <2>1. DOMAIN g2 = DOMAIN g /\ Records(g2)
    BY <1>2, <1>3 DEF StateSet
  <2>2. ASSUME NEW n \in DOMAIN g
        PROVE  /\ g2[n].type = g[n].type /\ g2[n].key = g[n].key /\ g2[n].next = g[n].next
               /\ g2[n].count = g[n].count
               /\ g2[n].state = IF n \in {m, s} THEN x ELSE g[n].state
               /\ n \notin {m, s} => g2[n] = g[n]
    BY <1>2, <1>3, <2>2 DEF StateSet
  <2>3. QED
    BY <1>5, <2>1, <2>2 DEF WritesState
<1>8. QED
  BY <1>6, <1>7 DEF g1, g2

------------------------------------------------------------------------------
(***************************************************************************)
(* The changes as the actions write them                                   *)
(***************************************************************************)
LEMMA Fields ==
  ASSUME NEW g, Nodes(g)
  PROVE  /\ Records(g) /\ Len(g) \in Nat /\ Len(g) + 1 \in Nat
         /\ \A n \in DOMAIN g : g[n].state \in States /\ g[n].count \in Nat /\ n \in Nat
                                /\ g[n].key \in 0 .. MaxKey + 1 /\ g[n].next \in Nat
<1>1. /\ Len(g) \in Nat /\ DOMAIN g = 1 .. Len(g)
      /\ \A n \in DOMAIN g :
           /\ g[n] \in LeafNode
           /\ g[n].state \in {MERGE_REGIST, FREE, SPLIT_REGIST}
           /\ g[n].count \in Nat /\ g[n].key \in 0 .. MaxKey + 1
           /\ g[n].next \in DOMAIN g
  BY NodeFacts
<1>2. Len(g) + 1 \in Nat /\ \A n \in DOMAIN g : n \in Nat
  BY <1>1
<1>3. QED
  BY <1>1, <1>2 DEF Records, States

\* The assignment of rlu_leaf_add to leaf is WritesAdd.
LEMMA AddForm ==
  ASSUME NEW g, Nodes(g), NEW w, w.prev \in DOMAIN g, w.header.node \in DOMAIN g,
         w.at \in DOMAIN g, NEW k \in Keys, NEW Q, NEW s,
         s = IF Q THEN SPLIT_REGIST ELSE g[w.header.node].state, NEW new,
         new = [type |-> NORMAL, state |-> FREE, count |-> 0, key |-> k, next |-> w.at]
  PROVE  WritesAdd(g, Append([g EXCEPT ![w.prev].next = Len(g) + 1,
                                       ![w.header.node].count = @ + 1,
                                       ![w.header.node].state = IF Q THEN SPLIT_REGIST ELSE @], new),
                   k, w, s)
<1> DEFINE a == w.prev
           b == w.header.node
           x == Len(g) + 1
           c == g[b].count + 1
           r == [g EXCEPT ![a].next = x, ![b].count = @ + 1,
                          ![b].state = IF Q THEN SPLIT_REGIST ELSE @]
           r2 == [g EXCEPT ![a].next = x, ![b].count = c, ![b].state = s]
<1>1. Records(g) /\ x \in Nat /\ c \in Nat /\ a \in DOMAIN g /\ b \in DOMAIN g /\ s \in States
  BY Fields DEF States
<1>2. r = r2
  BY <1>1 DEF Records, LeafNode
<1>3. Rewritten(g, r2, a, x, b, c, s)
  <2> HIDE DEF a, b, x, c
  <2>1. QED
    BY <1>1, Rewrites
<1>4. r = [n \in DOMAIN r |-> r[n]]
  OBVIOUS
<1>5. new \in LeafNode
  BY Fields, OptionAssumption DEF LeafNode, Keys
<1>6. new.type = NORMAL /\ new.key = k /\ new.next = w.at
  OBVIOUS
<1>7. Rewritten(g, r, w.prev, Len(g) + 1, w.header.node, g[w.header.node].count + 1, s)
  BY <1>2, <1>3, Zenon
<1> HIDE DEF r, r2
<1>8. WritesAdd(g, Append(r, new), k, w, s)
  BY <1>4, <1>5, <1>6, <1>7, Zenon DEF WritesAdd
<1>9. QED
  BY <1>8 DEF r, a, b, x

\* The assignment of rlu_leaf_remove to leaf is WritesRemove.
LEMMA RemoveForm ==
  ASSUME NEW g, Nodes(g), NEW h, NEW w, w.prev \in DOMAIN g, w.header.node \in DOMAIN g,
         h[w.at].next \in DOMAIN g, g[w.header.node].count - 1 \in Nat, NEW Q, NEW s,
         s = IF Q THEN MERGE_REGIST ELSE g[w.header.node].state
  PROVE  WritesRemove(h, g, [g EXCEPT ![w.prev].next = h[w.at].next,
                                      ![w.header.node].count = @ - 1,
                                      ![w.header.node].state = IF Q THEN MERGE_REGIST ELSE @], w, s)
<1> DEFINE a == w.prev
           b == w.header.node
           x == h[w.at].next
           c == g[b].count - 1
           r == [g EXCEPT ![a].next = x, ![b].count = @ - 1,
                          ![b].state = IF Q THEN MERGE_REGIST ELSE @]
           r2 == [g EXCEPT ![a].next = x, ![b].count = c, ![b].state = s]
<1>1. Records(g) /\ x \in Nat /\ c \in Nat /\ a \in DOMAIN g /\ b \in DOMAIN g /\ s \in States
  BY Fields DEF States
<1>2. r = r2
  BY <1>1 DEF Records, LeafNode
<1>3. Rewritten(g, r2, a, x, b, c, s)
  <2> HIDE DEF a, b, x, c
  <2>1. QED
    BY <1>1, Rewrites
<1>4. r = [n \in DOMAIN r |-> r[n]]
  OBVIOUS
<1>7. Rewritten(g, r, w.prev, h[w.at].next, w.header.node, g[w.header.node].count - 1, s)
  BY <1>2, <1>3, Zenon
<1> HIDE DEF r, r2
<1>8. WritesRemove(h, g, r, w, s)
  BY <1>4, <1>7, Zenon DEF WritesRemove
<1>9. QED
  BY <1>8 DEF r, a, b, x

\* The assignment of rlu_header_split to leaf is WritesSplit.
LEMMA SplitForm ==
  ASSUME NEW g, Nodes(g), NEW h, NEW m \in DOMAIN g, NEW curr \in DOMAIN g, NEW next \in DOMAIN g,
         next \in DOMAIN h, Nodes(h), NEW keep \in Nat, NEW p, p = h[m].count - keep, p \in Nat, NEW new,
         new = [type |-> HEADER_TYPE, state |-> SPLIT_REGIST, count |-> p, key |-> h[next].key,
                next |-> next]
  PROVE  WritesSplit(h, g, Append([g EXCEPT ![curr].next = Len(g) + 1, ![m].count = keep], new),
                     m, keep, curr, next)
<1> DEFINE x == Len(g) + 1
           r == [g EXCEPT ![curr].next = x, ![m].count = keep]
<1>1. Records(g) /\ x \in Nat /\ g[m].state \in States /\ next \in Nat
  BY Fields
<1>2. h[next].key \in 0 .. MaxKey + 1
  BY Fields
<1>3. Rewritten(g, r, curr, x, m, keep, g[m].state)
  <2> HIDE DEF x
  <2>1. QED
    BY <1>1, Rewrites
<1>4. r = [n \in DOMAIN r |-> r[n]]
  OBVIOUS
<1>5. new \in LeafNode
  BY <1>1, <1>2 DEF LeafNode, States
<1>6. /\ new.type = HEADER_TYPE /\ new.state = SPLIT_REGIST
      /\ new.count = h[m].count - keep /\ new.key = h[next].key /\ new.next = next
  OBVIOUS
<1> HIDE DEF r
<1>8. WritesSplit(h, g, Append(r, new), m, keep, curr, next)
  BY <1>3, <1>4, <1>5, <1>6, Zenon DEF WritesSplit
<1>9. QED
  BY <1>8 DEF r

\* The assignment of rlu_header_merge to leaf is WritesMerge.
LEMMA MergeForm ==
  ASSUME NEW g, Nodes(g), NEW h, NEW m \in DOMAIN g, NEW prev \in DOMAIN g, NEW s,
         h[s].next \in DOMAIN g, g[m].count + g[s].count \in Nat
  PROVE  WritesMerge(h, g, [g EXCEPT ![m].count = @ + g[s].count, ![prev].next = h[s].next],
                     m, s, prev)
<1> DEFINE x == h[s].next
           c == g[m].count + g[s].count
           r == [g EXCEPT ![m].count = @ + g[s].count, ![prev].next = x]
           r2 == [g EXCEPT ![m].count = c, ![prev].next = x]
<1>1. Records(g) /\ x \in Nat /\ c \in Nat /\ g[m].state \in States
  BY Fields
<1>2. r = r2
  BY <1>1 DEF Records, LeafNode
<1>3. Rewritten(g, r2, prev, x, m, c, g[m].state)
  <2> HIDE DEF x, c
  <2>1. QED
    BY <1>1, Rewrites
<1>4. r = [n \in DOMAIN r |-> r[n]]
  OBVIOUS
<1>7. Rewritten(g, r, prev, h[s].next, m, g[m].count + g[s].count, g[m].state)
  BY <1>2, <1>3, Zenon
<1> HIDE DEF r, r2
<1>8. WritesMerge(h, g, r, m, s, prev)
  BY <1>4, <1>7, Zenon DEF WritesMerge
<1>9. QED
  BY <1>8 DEF r, x

------------------------------------------------------------------------------
(***************************************************************************)
(* The inductive invariant                                                 *)
(***************************************************************************)
\* Where t is in the code, its pending synchronisation left out.
Loc(t) == IF pc[t] = "sync" THEN after[t] ELSE pc[t]

LocOf == [t \in Threads |-> Loc(t)]

\* What other threads committed since t's open section began.
Since(t) == UNION {wrote[u] : u \in {v \in Threads \ {t} : t \in older[v]}}

SmoRecord == [operator : {-10, 0, 10}, master : Nat, slave : Nat]

\* Where a thread goes when its commit is written back.
AfterLocs == {"idle", "find_parent", "release", "merge", "release_master", "level_down"}

TypeInv ==
  /\ pc \in [Threads -> Locs] /\ after \in [Threads -> AfterLocs]
  /\ smo \in [Threads -> SmoRecord]
  /\ older \in [Threads -> SUBSET Threads]
  /\ DOMAIN op = Threads /\ DOMAIN p_header = Threads
  /\ DOMAIN snap = Threads /\ DOMAIN wrote = Threads
  /\ root_null \in BOOLEAN /\ stop \in BOOLEAN /\ crashed \in BOOLEAN

\* A commit waits for open sections of other threads, and only in sync.
SectionOk(t) ==
  /\ t \notin older[t]
  /\ older[t] # {} => pc[t] = "sync"
  /\ \A u \in older[t] : snap[u] # <<>>
  /\ snap[t] # <<>> => pc[t] \in WriteSections

\* In the snapshot h of t's section only what was committed since is old.
SnapFits(t) ==
  LET h == snap[t][1].leaf IN
  snap[t] # <<>> =>
    /\ Snapshot(h, leaf, Since(t))
    /\ INNER \notin Since(t) => snap[t][1].entry = entry
    /\ \A i \in DOMAIN snap[t][1].entry : snap[t][1].entry[i].child \in DOMAIN h
    /\ pc[t] = "leaf" => /\ HeaderOn(h, p_header[t].node)
                         /\ p_header[t].copy \in {<<>>, <<h[p_header[t].node]>>}
    /\ pc[t] = "split" => HeaderOn(h, smo[t].master)
    /\ pc[t] = "merge" => NextHeader(h, smo[t].master, smo[t].slave)

\* The header t's operation holds was one and is not behind the key.
Held(t) ==
  /\ pc[t] \in {"descend", "leaf", "search"} => op[t].key \in Keys
  /\ pc[t] \in {"leaf", "search"} =>
       /\ p_header[t].node \in DOMAIN leaf
       /\ leaf[p_header[t].node].type = HEADER_TYPE
       /\ leaf[p_header[t].node].key <= op[t].key

SectionInv == \A t \in Threads : SectionOk(t)
SnapInv    == \A t \in Threads : SnapFits(t)
HeldInv    == \A t \in Threads : Held(t)

TreeInv ==
  /\ TypeInv /\ SectionInv /\ SnapInv /\ HeldInv
  /\ Proto(leaf, entry, smo, LocOf)
  /\ Items(leaf, present)

------------------------------------------------------------------------------
(***************************************************************************)
(* Steps, by what they do to sections                                      *)
(***************************************************************************)
LEMMA SinceIs ==
  \A t, x : x \in Since(t) <=> \E v \in Threads \ {t} : t \in older[v] /\ x \in wrote[v]
BY DEF Since

\* Thread t's step leaves the other threads' own state alone.
Alone(t) ==
  /\ \A u \in Threads \ {t} :
       /\ snap'[u] = snap[u] /\ pc'[u] = pc[u] /\ after'[u] = after[u]
       /\ p_header'[u] = p_header[u] /\ smo'[u] = smo[u] /\ op'[u] = op[u]

\* What t wrote counts as changed since for every other open section.
Counts(t, objs) ==
  \A u \in Threads \ {t} : snap[u] # <<>> => Since(u) \union objs \subseteq Since(u)'

\* A commit of objs keeps every open section's snapshot old in nothing but what was
\* committed since the section began, as the commit itself becomes part of that.
LEMMA SnapStays ==
  ASSUME NEW t \in Threads, NEW objs, SnapInv, Alone(t), Counts(t, objs),
         Snapshot(leaf, leaf', objs), INNER \notin objs => entry' = entry, SnapFits(t)'
  PROVE  SnapInv'
<1>1. ASSUME NEW u \in Threads \ {t}, snap[u] # <<>> PROVE SnapFits(u)'
  <2> DEFINE h == snap[u][1].leaf
  <2>1. /\ snap'[u] = snap[u] /\ pc'[u] = pc[u] /\ p_header'[u] = p_header[u] /\ smo'[u] = smo[u]
    BY DEF Alone
  <2>2. Since(u) \subseteq Since(u)' /\ objs \subseteq Since(u)'
    BY <1>1 DEF Counts
  <2>3. /\ Snapshot(h, leaf, Since(u))
        /\ INNER \notin Since(u) => snap[u][1].entry = entry
        /\ \A i \in DOMAIN snap[u][1].entry : snap[u][1].entry[i].child \in DOMAIN h
        /\ pc[u] = "leaf" => /\ HeaderOn(h, p_header[u].node)
                             /\ p_header[u].copy \in {<<>>, <<h[p_header[u].node]>>}
        /\ pc[u] = "split" => HeaderOn(h, smo[u].master)
        /\ pc[u] = "merge" => NextHeader(h, smo[u].master, smo[u].slave)
    BY <1>1 DEF SnapInv, SnapFits
  <2>4. Snapshot(h, leaf', Since(u)')
    BY <2>2, <2>3, SnapshotCompose
  <2>5. INNER \notin Since(u)' => snap[u][1].entry = entry'
    BY <2>2, <2>3
  <2>6. QED
    BY <2>1, <2>3, <2>4, <2>5, Zenon DEF SnapFits
<1>2. ASSUME NEW u \in Threads \ {t}, snap[u] = <<>> PROVE SnapFits(u)'
  BY <1>2 DEF SnapFits, Alone
<1>3. QED
  BY <1>1, <1>2, Zenon DEF SnapInv

\* A commit keeps the headers held by other threads fit for their next search.
LEMMA HeldStays ==
  ASSUME NEW t \in Threads, NEW objs, HeldInv, Alone(t), Snapshot(leaf, leaf', objs), Held(t)'
  PROVE  HeldInv'
<1>1. /\ DOMAIN leaf \subseteq DOMAIN leaf'
      /\ \A n \in DOMAIN leaf : leaf'[n].type = leaf[n].type /\ leaf'[n].key = leaf[n].key
  <2>1. /\ Len(leaf) <= Len(leaf')
        /\ \A n \in DOMAIN leaf : leaf'[n].type = leaf[n].type /\ leaf'[n].key = leaf[n].key
    BY DEF Snapshot, Grown
  <2>2. Len(leaf) \in Nat /\ Len(leaf') \in Nat /\ DOMAIN leaf = 1 .. Len(leaf) /\ DOMAIN leaf' = 1 .. Len(leaf')
    BY LenFacts DEF Snapshot
  <2>3. QED
    BY <2>1, <2>2
<1>2. ASSUME NEW u \in Threads \ {t} PROVE Held(u)'
  <2>1. pc'[u] = pc[u] /\ p_header'[u] = p_header[u] /\ op'[u] = op[u]
    BY DEF Alone
  <2>2. Held(u)
    BY DEF HeldInv
  <2>3. QED
    BY <1>1, <2>1, <2>2 DEF Held
<1>3. QED
  BY <1>2 DEF HeldInv

\* The invariant after a step of t.
LEMMA Assemble ==
  ASSUME TreeInv, NEW t \in Threads, NEW objs, TypeInv', SectionInv', Alone(t), Counts(t, objs),
         Snapshot(leaf, leaf', objs), INNER \notin objs => entry' = entry,
         SnapFits(t)', Held(t)', Proto(leaf, entry, smo, LocOf)', Items(leaf, present)'
  PROVE  TreeInv'
<1>1. SnapInv' /\ HeldInv'
  BY SnapStays, HeldStays DEF TreeInv
<1>2. QED
  BY <1>1 DEF TreeInv

\* Places in the code: only t moves.
LEMMA LocMoves ==
  ASSUME NEW t \in Threads, Alone(t)
  PROVE  /\ Others(t, smo, LocOf, smo', LocOf')
         /\ LocOf'[t] = Loc(t)' /\ LocOf[t] = Loc(t)
<1>1. \A u \in Threads \ {t} : Loc(u)' = Loc(u) /\ smo'[u] = smo[u]
  BY DEF Alone, Loc
<1>2. \A u \in Threads : LocOf[u] = Loc(u) /\ LocOf'[u] = Loc(u)'
  BY DEF LocOf
<1>3. QED
  BY <1>1, <1>2 DEF Others

\* A step outside sections: the heap stays.
LocalStep(t, loc) ==
  /\ snap[t] = <<>> /\ pc[t] # "sync" /\ loc \in Locs \ {"sync"}
  /\ Goto(t, loc)
  /\ UNCHANGED <<heap, rlu, present, smo>>
  /\ DOMAIN op' = Threads /\ DOMAIN p_header' = Threads
  /\ \A u \in Threads \ {t} : op'[u] = op[u] /\ p_header'[u] = p_header[u]
  /\ stop' \in BOOLEAN /\ crashed' \in BOOLEAN

\* A step that changes only t's location keeps the invariant.
LEMMA LocalStays ==
  ASSUME TreeInv, NEW t \in Threads, NEW loc, LocalStep(t, loc), Held(t)',
         Moves(smo[t], pc[t], loc)
  PROVE  TreeInv'
<1>1. /\ snap[t] = <<>> /\ pc[t] # "sync" /\ loc \in Locs \ {"sync"}
      /\ pc' = [pc EXCEPT ![t] = loc]
      /\ leaf' = leaf /\ entry' = entry /\ root_null' = root_null
      /\ snap' = snap /\ wrote' = wrote /\ older' = older /\ after' = after
      /\ present' = present /\ smo' = smo
      /\ DOMAIN op' = Threads /\ DOMAIN p_header' = Threads
      /\ \A u \in Threads \ {t} : op'[u] = op[u] /\ p_header'[u] = p_header[u]
      /\ stop' \in BOOLEAN /\ crashed' \in BOOLEAN
  BY DEF LocalStep, heap, rlu, Goto
<1>2. TypeInv /\ SectionInv /\ Proto(leaf, entry, smo, LocOf) /\ Items(leaf, present)
  BY DEF TreeInv
<1>3. pc'[t] = loc /\ \A u \in Threads \ {t} : pc'[u] = pc[u]
  BY <1>1, <1>2 DEF TypeInv
<1>4. Alone(t)
  BY <1>1, <1>3 DEF Alone
<1>5. TypeInv'
  BY <1>1, <1>2 DEF TypeInv
<1>6. SectionInv'
  <2>1. ASSUME NEW u \in Threads PROVE SectionOk(u)'
    <3>1. SectionOk(u) /\ SectionOk(t)
      BY <1>2 DEF SectionInv
    <3>2. CASE u = t
      <4>1. older[t] = {} /\ t \notin older[t] /\ \A v \in older[t] : snap[v] # <<>>
        BY <1>1, <3>1 DEF SectionOk
      <4>2. QED
        BY <1>1, <3>2, <4>1 DEF SectionOk
    <3>3. CASE u # t
      <4>1. pc'[u] = pc[u]
        BY <1>3, <3>3
      <4>2. QED
        BY <1>1, <3>1, <4>1 DEF SectionOk
    <3>4. QED
      BY <3>2, <3>3
  <2>2. QED
    BY <2>1 DEF SectionInv
<1>7. Counts(t, {})
  BY <1>1 DEF Counts, Since
<1>8. Good(leaf)
  BY <1>2 DEF Proto
<1>9. Snapshot(leaf, leaf', {})
  BY <1>1, <1>8, SnapshotNow
<1>10. SnapFits(t)'
  BY <1>1 DEF SnapFits
<1>11. Proto(leaf, entry, smo, LocOf)'
  <2>1. Changed(leaf, leaf', {}, {}, {}, {})
    BY <1>1, <1>8, SameHeap
  <2>2. Others(t, smo, LocOf, smo', LocOf') /\ LocOf'[t] = loc /\ LocOf[t] = pc[t]
    BY <1>1, <1>3, <1>4, LocMoves DEF Loc
  <2>3. smo'[t] = smo[t] /\ Moves(smo[t], LocOf[t], LocOf'[t])
    BY <1>1, <2>2
  <2>4. Proto(leaf', entry, smo', LocOf')
    BY <1>2, <2>1, <2>2, <2>3, ProtoCalm
  <2>5. QED
    BY <1>1, <2>4
<1>12. Items(leaf, present)'
  BY <1>1, <1>2
<1>13. QED
  BY <1>1, <1>4, <1>5, <1>6, <1>7, <1>9, <1>10, <1>11, <1>12, Assemble

\* The end of a section that changed nothing.
LeaveStep(t, loc) ==
  /\ loc \in Locs \ {"sync"}
  /\ LeaveTo(t, loc)
  /\ op' = op /\ DOMAIN p_header' = Threads /\ smo' \in [Threads -> SmoRecord]
  /\ \A u \in Threads \ {t} : smo'[u] = smo[u] /\ p_header'[u] = p_header[u]

\* A step by which t leaves its section without a commit keeps the invariant.
LEMMA LeaveStays ==
  ASSUME TreeInv, NEW t \in Threads, NEW loc, LeaveStep(t, loc), pc[t] # "sync", Held(t)',
         (smo' = smo /\ Moves(smo[t], pc[t], loc)) \/ Proto(leaf, entry, smo', LocOf')
  PROVE  TreeInv'
<1>1. /\ loc \in Locs \ {"sync"}
      /\ snap' = [snap EXCEPT ![t] = <<>>]
      /\ older' = [u \in Threads |-> older[u] \ {t}]
      /\ pc' = [pc EXCEPT ![t] = loc]
      /\ leaf' = leaf /\ entry' = entry /\ root_null' = root_null
      /\ wrote' = wrote /\ after' = after
      /\ present' = present /\ stop' = stop /\ crashed' = crashed
      /\ op' = op /\ DOMAIN p_header' = Threads /\ smo' \in [Threads -> SmoRecord]
      /\ \A u \in Threads \ {t} : smo'[u] = smo[u] /\ p_header'[u] = p_header[u]
  BY DEF LeaveStep, LeaveTo, Leave, heap, process, Goto
<1>2. TypeInv /\ SectionInv /\ Proto(leaf, entry, smo, LocOf) /\ Items(leaf, present)
  BY DEF TreeInv
<1>3. /\ pc'[t] = loc /\ snap'[t] = <<>>
      /\ \A u \in Threads \ {t} : pc'[u] = pc[u] /\ snap'[u] = snap[u]
      /\ \A u \in Threads : older'[u] = older[u] \ {t}
  BY <1>1, <1>2 DEF TypeInv
<1>4. Alone(t)
  BY <1>1, <1>3 DEF Alone
<1>5. TypeInv'
  <2>1. DOMAIN snap' = Threads /\ pc' \in [Threads -> Locs] /\ older' \in [Threads -> SUBSET Threads]
    BY <1>1, <1>2 DEF TypeInv
  <2>2. QED
    BY <1>1, <1>2, <2>1 DEF TypeInv
<1>6. SectionInv'
  <2>1. ASSUME NEW u \in Threads PROVE SectionOk(u)'
    <3>1. SectionOk(u) /\ SectionOk(t)
      BY <1>2 DEF SectionInv
    <3>2. \A v \in older'[u] : v \in older[u] /\ v # t /\ v \in Threads
      BY <1>2, <1>3 DEF TypeInv
    <3>3. \A v \in older'[u] : snap'[v] # <<>>
      BY <1>3, <3>1, <3>2 DEF SectionOk
    <3>4. u \notin older'[u] /\ (older'[u] # {} => older[u] # {})
      BY <3>1, <3>2 DEF SectionOk
    <3>5. CASE u = t
      <4>1. older[t] = {}
        BY <3>1 DEF SectionOk
      <4>2. QED
        BY <1>3, <3>3, <3>4, <3>5, <4>1 DEF SectionOk
    <3>6. CASE u # t
      BY <1>3, <3>1, <3>3, <3>4, <3>6 DEF SectionOk
    <3>7. QED
      BY <3>5, <3>6
  <2>2. QED
    BY <2>1 DEF SectionInv
<1>7. Counts(t, {})
  <2>1. \A u \in Threads \ {t} : \A v \in Threads : u \in older'[v] <=> u \in older[v]
    BY <1>3
  <2>2. QED
    BY <1>1, <2>1 DEF Counts, Since
<1>8. Good(leaf)
  BY <1>2 DEF Proto
<1>9. Snapshot(leaf, leaf', {})
  BY <1>1, <1>8, SnapshotNow
<1>10. SnapFits(t)'
  BY <1>3 DEF SnapFits
<1>11. Proto(leaf, entry, smo, LocOf)'
  <2>1. CASE smo' = smo /\ Moves(smo[t], pc[t], loc)
    <3>1. Changed(leaf, leaf', {}, {}, {}, {})
      BY <1>1, <1>8, SameHeap
    <3>2. Others(t, smo, LocOf, smo', LocOf') /\ LocOf'[t] = loc /\ LocOf[t] = pc[t]
      BY <1>1, <1>3, <1>4, LocMoves DEF Loc
    <3>3. smo'[t] = smo[t] /\ Moves(smo[t], LocOf[t], LocOf'[t])
      BY <2>1, <3>2
    <3>4. Proto(leaf', entry, smo', LocOf')
      BY <1>2, <3>1, <3>2, <3>3, ProtoCalm
    <3>5. QED
      BY <1>1, <3>4
  <2>2. CASE Proto(leaf, entry, smo', LocOf')
    BY <1>1, <2>2
  <2>3. QED
    BY <2>1, <2>2
<1>12. Items(leaf, present)'
  BY <1>1, <1>2
<1>13. QED
  BY <1>1, <1>4, <1>5, <1>6, <1>7, <1>9, <1>10, <1>11, <1>12, Assemble

\* The end of a section that changed objs.
CommitStep(t, objs, loc) ==
  /\ loc \in AfterLocs /\ snap[t] # <<>>
  /\ Commit(t, objs, loc)
  /\ op' = op /\ DOMAIN p_header' = Threads /\ smo' \in [Threads -> SmoRecord]
  /\ \A u \in Threads \ {t} : smo'[u] = smo[u] /\ p_header'[u] = p_header[u]
  /\ root_null' \in BOOLEAN

\* Locked objects did not change since the section began.
LEMMA LockedSince ==
  ASSUME NEW t \in Threads, NEW objs, objs \intersect Locked(t) = {}
  PROVE  objs \intersect Since(t) = {}
BY DEF Locked, Since

\* What a commit changes of the threads' control.
LEMMA CommitMoves ==
  ASSUME TypeInv, NEW t \in Threads, NEW objs, NEW loc, CommitStep(t, objs, loc)
  PROVE  /\ pc'[t] = "sync" /\ after'[t] = loc /\ snap'[t] = <<>> /\ wrote'[t] = objs
         /\ older'[t] = Sections(t)
         /\ \A u \in Threads \ {t} : /\ pc'[u] = pc[u] /\ after'[u] = after[u] /\ snap'[u] = snap[u]
                                     /\ wrote'[u] = wrote[u] /\ older'[u] = older[u] \ {t}
         /\ Alone(t) /\ TypeInv'
         /\ Others(t, smo, LocOf, smo', LocOf') /\ LocOf'[t] = loc
<1>1. /\ loc \in AfterLocs
      /\ snap' = [snap EXCEPT ![t] = <<>>]
      /\ wrote' = [wrote EXCEPT ![t] = objs]
      /\ older' = [u \in Threads |-> IF u = t THEN Sections(t) ELSE older[u] \ {t}]
      /\ after' = [after EXCEPT ![t] = loc]
      /\ pc' = [pc EXCEPT ![t] = "sync"]
      /\ stop' = stop /\ crashed' = crashed
      /\ op' = op /\ DOMAIN p_header' = Threads /\ smo' \in [Threads -> SmoRecord]
      /\ \A u \in Threads \ {t} : smo'[u] = smo[u] /\ p_header'[u] = p_header[u]
      /\ root_null' \in BOOLEAN
  BY DEF CommitStep, Commit, process, Goto
<1>2. /\ pc'[t] = "sync" /\ after'[t] = loc /\ snap'[t] = <<>> /\ wrote'[t] = objs
      /\ older'[t] = Sections(t)
      /\ \A u \in Threads \ {t} : /\ pc'[u] = pc[u] /\ after'[u] = after[u] /\ snap'[u] = snap[u]
                                  /\ wrote'[u] = wrote[u] /\ older'[u] = older[u] \ {t}
  BY <1>1 DEF TypeInv
<1>3. Alone(t)
  BY <1>1, <1>2 DEF Alone
<1>4. TypeInv'
  <2>1. "sync" \in Locs
    BY DEF Locs
  <2>2. DOMAIN snap' = Threads /\ DOMAIN wrote' = Threads /\ pc' \in [Threads -> Locs]
        /\ after' \in [Threads -> AfterLocs]
    BY <1>1, <2>1 DEF TypeInv
  <2>3. Sections(t) \subseteq Threads
    BY DEF Sections
  <2>4. older' \in [Threads -> SUBSET Threads]
    BY <1>1, <2>3 DEF TypeInv
  <2>5. QED
    BY <1>1, <2>2, <2>4 DEF TypeInv
<1>5. Others(t, smo, LocOf, smo', LocOf') /\ LocOf'[t] = loc
  BY <1>2, <1>3, LocMoves DEF Loc
<1>6. QED
  BY <1>2, <1>3, <1>4, <1>5

\* A commit keeps the invariant if the heap, the parent and the SMOs it leaves do.
LEMMA CommitStays ==
  ASSUME TreeInv, NEW t \in Threads, NEW objs, NEW loc, CommitStep(t, objs, loc),
         Snapshot(leaf, leaf', objs), INNER \notin objs => entry' = entry,
         Proto(leaf', entry', smo', LocOf'), Items(leaf', present')
  PROVE  TreeInv'
<1>1. TypeInv /\ SectionInv
  BY DEF TreeInv
<1>2. /\ pc'[t] = "sync" /\ after'[t] = loc /\ snap'[t] = <<>> /\ wrote'[t] = objs
      /\ older'[t] = Sections(t)
      /\ \A u \in Threads \ {t} : /\ pc'[u] = pc[u] /\ after'[u] = after[u] /\ snap'[u] = snap[u]
                                  /\ wrote'[u] = wrote[u] /\ older'[u] = older[u] \ {t}
      /\ Alone(t) /\ TypeInv'
  BY <1>1, CommitMoves
<1>3. pc[t] # "sync" /\ older[t] = {}
  <2>1. snap[t] # <<>> /\ SectionOk(t)
    BY <1>1 DEF CommitStep, SectionInv
  <2>2. QED
    BY <2>1 DEF SectionOk, WriteSections
<1>4. SectionInv'
  <2>1. ASSUME NEW u \in Threads PROVE SectionOk(u)'
    <3>1. SectionOk(u)
      BY <1>1 DEF SectionInv
    <3>2. CASE u = t
      <4>1. \A v \in older'[t] : v \in Threads \ {t} /\ snap'[v] # <<>>
        BY <1>2 DEF Sections
      <4>2. QED
        BY <1>2, <3>2, <4>1 DEF SectionOk
    <3>3. CASE u # t
      <4>1. \A v \in older'[u] : v \in older[u] /\ v \in Threads \ {t} /\ snap'[v] # <<>>
        <5>1. \A v \in older'[u] : v \in older[u] /\ v \in Threads \ {t}
          BY <1>1, <1>2, <3>3 DEF TypeInv
        <5>2. QED
          BY <1>2, <3>1, <5>1 DEF SectionOk
      <4>2. u \notin older'[u] /\ (older'[u] # {} => older[u] # {})
        BY <3>1, <4>1 DEF SectionOk
      <4>3. pc'[u] = pc[u] /\ snap'[u] = snap[u]
        BY <1>2, <3>3
      <4>4. QED
        BY <3>1, <4>1, <4>2, <4>3 DEF SectionOk
    <3>4. QED
      BY <3>2, <3>3
  <2>2. QED
    BY <2>1 DEF SectionInv
<1>5. Counts(t, objs)
  <2>1. ASSUME NEW u \in Threads \ {t}, snap[u] # <<>>, NEW x \in Since(u) \union objs
        PROVE  x \in Since(u)'
    <3>1. \E v \in Threads \ {u} : u \in older'[v] /\ x \in wrote'[v]
      <4>1. CASE x \in objs
        BY <1>2, <2>1, <4>1 DEF Sections
      <4>2. CASE x \in Since(u)
        <5>1. PICK v \in Threads \ {u} : u \in older[v] /\ x \in wrote[v]
          BY <4>2, SinceIs
        <5>2. v # t
          BY <1>3, <5>1
        <5>3. QED
          BY <1>2, <5>1, <5>2
      <4>3. QED
        BY <2>1, <4>1, <4>2
    <3>2. QED
      BY <3>1 DEF Since
  <2>2. QED
    BY <2>1 DEF Counts
<1>6. SnapFits(t)'
  BY <1>2 DEF SnapFits
<1>7. Held(t)'
  BY <1>2 DEF Held
<1>8. Proto(leaf, entry, smo, LocOf)' /\ Items(leaf, present)'
  OBVIOUS
<1>9. QED
  BY <1>2, <1>4, <1>5, <1>6, <1>7, <1>8, Assemble

\* The objects are written back.
LEMMA WritebackStays ==
  ASSUME TreeInv, NEW t \in Threads, SyncAndWriteback(t)
  PROVE  TreeInv'
<1>1. /\ pc[t] = "sync" /\ older[t] = {}
      /\ wrote' = [wrote EXCEPT ![t] = {}]
      /\ pc' = [pc EXCEPT ![t] = after[t]]
      /\ leaf' = leaf /\ entry' = entry /\ root_null' = root_null
      /\ snap' = snap /\ older' = older /\ after' = after
      /\ present' = present /\ smo' = smo /\ op' = op /\ p_header' = p_header
      /\ stop' = stop /\ crashed' = crashed
  BY DEF SyncAndWriteback, heap, process, Goto
<1>2. TypeInv /\ SectionInv /\ Proto(leaf, entry, smo, LocOf) /\ Items(leaf, present)
  BY DEF TreeInv
<1>3. /\ pc'[t] = after[t] /\ after[t] \in AfterLocs /\ wrote'[t] = {}
      /\ \A u \in Threads \ {t} : pc'[u] = pc[u] /\ wrote'[u] = wrote[u]
  BY <1>1, <1>2 DEF TypeInv
<1>4. Alone(t)
  BY <1>1, <1>3 DEF Alone
<1>5. TypeInv'
  <2>1. after[t] \in Locs
    BY <1>3 DEF AfterLocs, Locs, WriteSections, FromRoot
  <2>2. QED
    BY <1>1, <1>2, <1>3, <2>1 DEF TypeInv
<1>6. snap[t] = <<>>
  BY <1>1, <1>2 DEF SectionInv, SectionOk, WriteSections
<1>7. SectionInv'
  <2>1. ASSUME NEW u \in Threads PROVE SectionOk(u)'
    <3>1. SectionOk(u)
      BY <1>2 DEF SectionInv
    <3>2. CASE u = t
      BY <1>1, <1>6, <3>2 DEF SectionOk
    <3>3. CASE u # t
      <4>1. pc'[u] = pc[u]
        BY <1>3, <3>3
      <4>2. QED
        BY <1>1, <3>1, <4>1 DEF SectionOk
    <3>4. QED
      BY <3>2, <3>3
  <2>2. QED
    BY <2>1 DEF SectionInv
<1>8. Counts(t, {})
  <2>1. ASSUME NEW u \in Threads \ {t}, NEW x \in Since(u) PROVE x \in Since(u)'
    <3>1. PICK v \in Threads \ {u} : u \in older[v] /\ x \in wrote[v]
      BY <2>1, SinceIs
    <3>2. v # t
      BY <1>1, <3>1
    <3>3. u \in older'[v] /\ x \in wrote'[v]
      BY <1>1, <1>3, <3>1, <3>2
    <3>4. QED
      BY <3>3 DEF Since
  <2>2. QED
    BY <2>1 DEF Counts
<1>9. Good(leaf)
  BY <1>2 DEF Proto
<1>10. Snapshot(leaf, leaf', {})
  BY <1>1, <1>9, SnapshotNow
<1>11. SnapFits(t)'
  BY <1>1, <1>6 DEF SnapFits
<1>12. Proto(leaf, entry, smo, LocOf)'
  <2>1. LocOf' = LocOf
    BY <1>1, <1>3, Zenon DEF LocOf, Loc
  <2>2. QED
    BY <1>1, <1>2, <2>1
<1>13. Items(leaf, present)'
  BY <1>1, <1>2
<1>14. Held(t)'
  BY <1>3 DEF Held, AfterLocs
<1>15. QED
  BY <1>1, <1>4, <1>5, <1>7, <1>8, <1>10, <1>11, <1>12, <1>13, <1>14, Assemble

------------------------------------------------------------------------------
(***************************************************************************)
(* Sections begin                                                          *)
(***************************************************************************)
\* The list as the properties walk it.
LEMMA ListIs ==
  ASSUME Good(leaf)
  PROVE  /\ \A i \in 0 .. Len(leaf) : List[i] = IF i <= Last(leaf) THEN Chain(leaf)[i] ELSE TAIL
         /\ \A n : n \in InList <=> OnList(leaf, n)
<1> DEFINE L == Chain(leaf)
           N == Last(leaf)
<1>1. Nodes(leaf) /\ IsList(leaf, L, N) /\ Linked(leaf, L, N)
  BY DEF Good, IsList
<1>2. N \in Nat /\ N < Len(leaf) /\ Len(leaf) \in Nat /\ L[0] = HEAD /\ L[N] = TAIL
  BY <1>1, ListFacts
<1> DEFINE p == [node |-> HEAD, copy |-> <<>>]
<1>3. \A i \in 0 .. Len(leaf) :
        /\ 0 + i <= N => Path(leaf, p)[i] = L[0 + i]
        /\ 0 + i > N => Path(leaf, p)[i] = TAIL
  <2>1. p.node = L[0] /\ p.copy = <<>> /\ 0 \in 0 .. N
    BY <1>2
  <2> HIDE DEF p, L, N
  <2>2. QED
    BY <1>1, <2>1, PathAlong
<1>4. List = Path(leaf, p)
  BY DEF List
<1> HIDE DEF p, L, N
<1>5. \A i \in 0 .. Len(leaf) : List[i] = IF i <= N THEN L[i] ELSE TAIL
  BY <1>2, <1>3, <1>4
<1>6. ASSUME NEW n PROVE n \in InList <=> \E i \in 0 .. N : L[i] = n
  <2>1. ASSUME NEW i \in 0 .. N PROVE i \in 0 .. Len(leaf) /\ List[i] = L[i]
    BY <1>2, <1>5
  <2>2. ASSUME NEW i \in 0 .. Len(leaf) PROVE \E j \in 0 .. N : L[j] = List[i]
    <3>1. CASE i <= N
      BY <1>2, <1>5, <3>1
    <3>2. CASE ~(i <= N)
      BY <1>2, <1>5, <3>2
    <3>3. QED
      BY <3>1, <3>2
  <2>3. QED
    BY <2>1, <2>2 DEF InList
<1>7. QED
  BY <1>5, <1>6 DEF L, N, OnList

\* What the registrations say of t.
LEMMA SmoNow ==
  ASSUME TreeInv, NEW t \in Threads
  PROVE  /\ Good(leaf) /\ Entries(leaf, entry)
         /\ SmoFits(leaf, entry, smo[t], Loc(t))
         /\ smo[t].operator \in {-10, 0, 10} /\ smo[t].master \in Nat /\ smo[t].slave \in Nat
         /\ snap[t] # <<>> => Loc(t) = pc[t] /\ pc[t] \in WriteSections
         /\ pc[t] # "sync" => Loc(t) = pc[t]
         /\ SectionOk(t) /\ SnapFits(t) /\ Held(t)
         /\ LocOf[t] = Loc(t)
<1>1. Proto(leaf, entry, smo, LocOf) /\ TypeInv /\ SectionInv /\ SnapInv /\ HeldInv
  BY DEF TreeInv
<1>2. LocOf[t] = Loc(t)
  BY DEF LocOf
<1>3. SectionOk(t) /\ SnapFits(t) /\ Held(t)
  BY <1>1 DEF SectionInv, SnapInv, HeldInv
<1>4. snap[t] # <<>> => Loc(t) = pc[t] /\ pc[t] \in WriteSections
  BY <1>3 DEF SectionOk, Loc, WriteSections
<1>5. pc[t] # "sync" => Loc(t) = pc[t]
  BY DEF Loc
<1>6. smo[t].operator \in {-10, 0, 10} /\ smo[t].master \in Nat /\ smo[t].slave \in Nat
  BY <1>1 DEF TypeInv, SmoRecord
<1>7. QED
  BY <1>1, <1>2, <1>3, <1>4, <1>5, <1>6 DEF Proto

\* RLU_READER_LOCK and the section's snapshot.
LEMMA BeginStays ==
  ASSUME TreeInv, FreshPointers, NEW t \in Threads, Begin(t)
  PROVE  TreeInv'
<1>1. /\ pc[t] \in WriteSections /\ snap[t] = <<>>
      /\ snap' = [snap EXCEPT ![t] = <<[leaf |-> leaf, entry |-> entry, locked |-> Locked(t)]>>]
      /\ leaf' = leaf /\ entry' = entry /\ root_null' = root_null /\ pc' = pc
      /\ wrote' = wrote /\ older' = older /\ after' = after
      /\ present' = present /\ smo' = smo /\ op' = op /\ p_header' = p_header
      /\ stop' = stop /\ crashed' = crashed
  BY DEF Begin, heap, process
<1>2. TypeInv /\ SectionInv /\ Proto(leaf, entry, smo, LocOf) /\ Items(leaf, present)
  BY DEF TreeInv
<1>3. /\ \A u \in Threads \ {t} : snap'[u] = snap[u]
      /\ snap'[t] = <<[leaf |-> leaf, entry |-> entry, locked |-> Locked(t)]>>
      /\ DOMAIN snap' = Threads
  BY <1>1, <1>2 DEF TypeInv
<1>4. snap'[t] # <<>> /\ snap'[t][1].leaf = leaf /\ snap'[t][1].entry = entry
  BY <1>3
<1>5. Alone(t)
  BY <1>1, <1>3 DEF Alone
<1>6. TypeInv'
  BY <1>1, <1>2, <1>3 DEF TypeInv
<1>7. SectionInv'
  <2>1. ASSUME NEW u \in Threads PROVE SectionOk(u)'
    <3>1. SectionOk(u)
      BY <1>2 DEF SectionInv
    <3>2. \A v \in older[u] : snap'[v] # <<>>
      <4>1. \A v \in older[u] : v \in Threads
        BY <1>2 DEF TypeInv
      <4>2. QED
        BY <1>3, <1>4, <3>1, <4>1 DEF SectionOk
    <3>3. snap'[u] # <<>> => pc[u] \in WriteSections
      BY <1>1, <1>3, <3>1 DEF SectionOk
    <3>4. QED
      BY <1>1, <3>1, <3>2, <3>3 DEF SectionOk
  <2>2. QED
    BY <2>1 DEF SectionInv
<1>8. Counts(t, {})
  BY <1>1 DEF Counts, Since
<1>9. /\ Good(leaf) /\ SmoFits(leaf, entry, smo[t], pc[t]) /\ Held(t)
  BY <1>1, SmoNow DEF WriteSections
<1>10. Snapshot(leaf, leaf', {}) /\ Snapshot(leaf, leaf', Since(t)')
  BY <1>1, <1>9, SnapshotNow
<1>11. SnapFits(t)'
  <2>1. ASSUME pc[t] = "leaf"
        PROVE  HeaderOn(leaf, p_header[t].node) /\ p_header[t].copy \in {<<>>, <<leaf[p_header[t].node]>>}
    <3>1. p_header[t].node \in DOMAIN leaf /\ leaf[p_header[t].node].type = HEADER_TYPE
      BY <1>9, <2>1 DEF Held
    <3>2. p_header[t] # NoPtr
      <4>1. 0 \notin DOMAIN leaf
        BY <1>9, LenFacts
      <4>2. QED
        BY <3>1, <4>1 DEF NoPtr
    <3>3. FreshHeader(t)
      BY <3>2 DEF FreshPointers
    <3>4. OnList(leaf, p_header[t].node)
      BY <1>9, <3>3, ListIs DEF FreshHeader
    <3>5. QED
      BY <3>1, <3>3, <3>4 DEF FreshHeader, HeaderOn
  <2>2. ASSUME pc[t] = "split" PROVE HeaderOn(leaf, smo[t].master)
    BY <1>9, <2>2 DEF SmoFits, Owe, OpLocs
  <2>3. ASSUME pc[t] = "merge" PROVE NextHeader(leaf, smo[t].master, smo[t].slave)
    BY <1>9, <2>3 DEF SmoFits, OrphanLocs
  <2>4. \A i \in DOMAIN entry : entry[i].child \in DOMAIN leaf
    BY <1>2, <1>9, HeaderFacts DEF Proto, Entries
  <2>5. QED
    BY <1>1, <1>4, <1>10, <2>1, <2>2, <2>3, <2>4, Zenon DEF SnapFits
<1>12. Held(t)'
  BY <1>1, <1>9 DEF Held
<1>13. Proto(leaf, entry, smo, LocOf)'
  <2>1. LocOf' = LocOf
    BY <1>1, Zenon DEF LocOf, Loc
  <2>2. QED
    BY <1>1, <1>2, <2>1
<1>14. Items(leaf, present)'
  BY <1>1, <1>2
<1>15. QED
  BY <1>1, <1>5, <1>6, <1>7, <1>8, <1>10, <1>11, <1>12, <1>13, <1>14, Assemble

------------------------------------------------------------------------------
(***************************************************************************)
(* Operations                                                              *)
(***************************************************************************)
LEMMA StartStays ==
  ASSUME TreeInv, NEW t \in Threads, StartOperation(t)
  PROVE  TreeInv'
<1>1. PICK kind \in Ops, k \in Keys :
        /\ pc[t] = "idle" /\ smo[t].operator = 0
        /\ op' = [op EXCEPT ![t] = [kind |-> kind, key |-> k]]
        /\ pc' = [pc EXCEPT ![t] = "descend"]
        /\ leaf' = leaf /\ entry' = entry /\ root_null' = root_null
        /\ snap' = snap /\ wrote' = wrote /\ older' = older /\ after' = after
        /\ present' = present /\ smo' = smo /\ p_header' = p_header
        /\ stop' = stop /\ crashed' = crashed
  BY DEF StartOperation, heap, rlu, process, Goto
<1>2. TypeInv /\ SectionOk(t)
  BY SmoNow DEF TreeInv
<1>3. snap[t] = <<>>
  BY <1>1, <1>2 DEF SectionOk, WriteSections
<1>4. DOMAIN op' = Threads /\ op'[t].key = k /\ pc'[t] = "descend"
      /\ \A u \in Threads \ {t} : op'[u] = op[u] /\ p_header'[u] = p_header[u]
  BY <1>1, <1>2 DEF TypeInv
<1>5. LocalStep(t, "descend")
  BY <1>1, <1>2, <1>3, <1>4 DEF LocalStep, heap, rlu, Goto, TypeInv, Locs, FromRoot
<1>6. Held(t)'
  BY <1>4 DEF Held
<1>7. Moves(smo[t], pc[t], "descend")
  BY <1>1 DEF Moves, OpLocs
<1>8. QED
  BY <1>5, <1>6, <1>7, LocalStays

\* An operation has no split or merge pending.
LEMMA NoSmoPending ==
  ASSUME TreeInv, NEW t \in Threads, pc[t] \in {"descend", "search", "leaf"}
  PROVE  smo[t].operator = 0
<1>1. SmoFits(leaf, entry, smo[t], pc[t]) /\ smo[t].operator \in {-10, 0, 10}
  BY SmoNow
<1>2. QED
  BY <1>1 DEF SmoFits, SplitLocs, MergeLocs

\* The descent through the parent finds a header whose key is at most the key.
LEMMA DescendStays ==
  ASSUME TreeInv, NEW t \in Threads, Descend(t)
  PROVE  TreeInv'
<1> DEFINE child == entry[EntrySearch(entry, op[t].key)].child
           copy == IF child \in Locked(t) THEN <<leaf[child]>> ELSE <<>>
           loc == IF op[t].kind = "search" THEN "search" ELSE "leaf"
<1>1. /\ pc[t] = "descend"
      /\ p_header' = [p_header EXCEPT ![t] = [node |-> child, copy |-> copy]]
      /\ pc' = [pc EXCEPT ![t] = loc]
      /\ leaf' = leaf /\ entry' = entry /\ root_null' = root_null
      /\ snap' = snap /\ wrote' = wrote /\ older' = older /\ after' = after
      /\ present' = present /\ smo' = smo /\ op' = op
      /\ stop' = stop /\ crashed' = crashed
  BY DEF Descend, heap, rlu, process, Goto
<1>2. /\ TypeInv /\ SectionOk(t) /\ Held(t) /\ Good(leaf) /\ Entries(leaf, entry)
  BY SmoNow DEF TreeInv
<1>3. snap[t] = <<>> /\ op[t].key \in Keys
  BY <1>1, <1>2 DEF SectionOk, WriteSections, Held
<1>4. op[t].key \in Nat
  BY <1>3 DEF Keys
<1>5. /\ child \in DOMAIN leaf /\ leaf[child].type = HEADER_TYPE /\ leaf[child].key <= op[t].key
  <2> DEFINE i == EntrySearch(entry, op[t].key)
  <2>1. i \in DOMAIN entry /\ entry[i].key <= op[t].key
    BY <1>2, <1>4, EntryFound
  <2>2. HeaderOn(leaf, entry[i].child) /\ entry[i].key = leaf[entry[i].child].key
    BY <1>2, <2>1 DEF Entries
  <2>3. entry[i].child \in DOMAIN leaf
    BY <1>2, <2>2, HeaderFacts
  <2> HIDE DEF i
  <2>4. QED
    BY <2>1, <2>2, <2>3 DEF HeaderOn, i
<1> HIDE DEF child, copy
<1>6. DOMAIN p_header' = Threads /\ p_header'[t].node = child /\ pc'[t] = loc
      /\ \A u \in Threads \ {t} : op'[u] = op[u] /\ p_header'[u] = p_header[u]
  BY <1>1, <1>2 DEF TypeInv
<1>7. loc \in {"search", "leaf"}
  OBVIOUS
<1> HIDE DEF loc
<1>8. LocalStep(t, loc)
  BY <1>1, <1>2, <1>3, <1>6, <1>7 DEF LocalStep, heap, rlu, Goto, TypeInv, Locs, WriteSections
<1>9. Held(t)'
  BY <1>1, <1>3, <1>5, <1>6 DEF Held
<1>10. Moves(smo[t], pc[t], loc)
  BY <1>1, <1>7, NoSmoPending DEF Moves, OpLocs
<1>11. QED
  BY <1>8, <1>9, <1>10, LocalStays

\* rlu_leaf_search.
LEMMA SearchStays ==
  ASSUME TreeInv, NEW t \in Threads, Search(t)
  PROVE  TreeInv'
<1>1. /\ pc[t] = "search"
      /\ p_header' = [p_header EXCEPT ![t] = NoPtr]
      /\ pc' = [pc EXCEPT ![t] = "idle"]
      /\ leaf' = leaf /\ entry' = entry /\ root_null' = root_null
      /\ snap' = snap /\ wrote' = wrote /\ older' = older /\ after' = after
      /\ present' = present /\ smo' = smo /\ op' = op
      /\ stop' = stop /\ crashed' = crashed
  BY DEF Search, heap, rlu, process, Goto
<1>2. TypeInv /\ SectionOk(t)
  BY SmoNow DEF TreeInv
<1>3. snap[t] = <<>>
  BY <1>1, <1>2 DEF SectionOk, WriteSections
<1>4. DOMAIN p_header' = Threads /\ pc'[t] = "idle"
      /\ \A u \in Threads \ {t} : op'[u] = op[u] /\ p_header'[u] = p_header[u]
  BY <1>1, <1>2 DEF TypeInv
<1>5. LocalStep(t, "idle")
  BY <1>1, <1>2, <1>3, <1>4 DEF LocalStep, heap, rlu, Goto, TypeInv, Locs
<1>6. Held(t)'
  BY <1>4 DEF Held
<1>7. Moves(smo[t], pc[t], "idle")
  BY <1>1, NoSmoPending DEF Moves, OpLocs
<1>8. QED
  BY <1>5, <1>6, <1>7, LocalStays

\* The place an operation's section finds in its snapshot.
LEMMA PlaceNow ==
  ASSUME TreeInv, NEW t \in Threads, InSection(t, "leaf"), NEW w, w = Place(t)
  PROVE  /\ Snapshot(snap[t][1].leaf, leaf, Since(t)) /\ op[t].key \in Keys
         /\ \E p \in 0 .. Last(snap[t][1].leaf) - 1, q \in 0 .. Last(snap[t][1].leaf) :
              PlaceAt(snap[t][1].leaf, w, op[t].key, q, p)
<1> DEFINE h == snap[t][1].leaf
           k == op[t].key
           ptr == Deref(p_header[t], snap[t][1])
<1>1. snap[t] # <<>> /\ pc[t] = "leaf" /\ SnapFits(t) /\ Held(t)
  BY SmoNow DEF InSection
<1>2. /\ Snapshot(h, leaf, Since(t)) /\ HeaderOn(h, p_header[t].node)
      /\ p_header[t].copy \in {<<>>, <<h[p_header[t].node]>>}
  BY <1>1 DEF SnapFits
<1>3. k \in Keys /\ leaf[p_header[t].node].key <= k
  BY <1>1 DEF Held
<1>4. Good(h) /\ p_header[t].node \in DOMAIN h
  BY <1>2, HeaderFacts DEF Snapshot
<1>5. h[p_header[t].node].key <= k
  BY <1>2, <1>3, <1>4 DEF Snapshot, Grown
<1>6. w = Locate(h, ptr, k)
  BY DEF Place
<1>7. ptr.node = p_header[t].node /\ (ptr.copy = <<>> \/ ptr.copy = <<h[ptr.node]>>)
  <2>1. CASE p_header[t].copy # <<>> \/ p_header[t].node \notin snap[t][1].locked
    BY <1>2, <2>1 DEF Deref
  <2>2. CASE ~(p_header[t].copy # <<>> \/ p_header[t].node \notin snap[t][1].locked)
    <3>1. ptr = [p_header[t] EXCEPT !.copy = <<h[p_header[t].node]>>]
      BY <2>2 DEF Deref
    <3>2. QED
      BY <3>1
  <2>3. QED
    BY <2>1, <2>2
<1> HIDE DEF h, k, ptr
<1>8. HeaderOn(h, ptr.node) /\ h[ptr.node].key <= k
  BY <1>2, <1>5, <1>7
<1>9. \E p \in 0 .. Last(h) - 1, q \in 0 .. Last(h) : PlaceAt(h, w, k, q, p)
  BY <1>3, <1>4, <1>6, <1>7, <1>8, PlaceFound
<1>10. QED
  BY <1>2, <1>3, <1>9 DEF h, k

\* An operation that finds nothing to do.
LEMMA NothingStays ==
  ASSUME TreeInv, NEW t \in Threads, LeafNothing(t)
  PROVE  TreeInv'
<1>1. /\ pc[t] = "leaf" /\ LeaveTo(t, "idle") /\ pc' = [pc EXCEPT ![t] = "idle"]
      /\ p_header' = [p_header EXCEPT ![t] = NoPtr] /\ op' = op /\ smo' = smo
  BY DEF LeafNothing, InSection, LeaveTo, Goto
<1>2. TypeInv
  BY DEF TreeInv
<1>3. /\ DOMAIN p_header' = Threads /\ smo' \in [Threads -> SmoRecord] /\ pc'[t] = "idle"
      /\ \A u \in Threads \ {t} : smo'[u] = smo[u] /\ p_header'[u] = p_header[u]
  BY <1>1, <1>2 DEF TypeInv
<1>4. LeaveStep(t, "idle")
  BY <1>1, <1>3 DEF LeaveStep, Locs
<1>5. Held(t)'
  BY <1>3 DEF Held
<1>6. Moves(smo[t], pc[t], "idle")
  BY <1>1, NoSmoPending DEF Moves, OpLocs
<1>7. QED
  BY <1>1, <1>4, <1>5, <1>6, LeaveStays

\* An operation that loses a lock and aborts.
LEMMA RestartStays ==
  ASSUME TreeInv, NEW t \in Threads, LeafRestart(t)
  PROVE  TreeInv'
<1> DEFINE w == Place(t)
           n == w.header.node
           h == snap[t][1].leaf
<1>1. /\ InSection(t, "leaf") /\ LeaveTo(t, "leaf") /\ pc' = [pc EXCEPT ![t] = "leaf"]
      /\ p_header' = [p_header EXCEPT ![t] =
           IF op[t].kind = "update" THEN p_header[t]
           ELSE IF n \in Locked(t) THEN Deref(w.header, snap[t][1])
           ELSE [node |-> n, copy |-> <<leaf[n]>>]]
      /\ op' = op /\ smo' = smo /\ leaf' = leaf
  BY DEF LeafRestart, LeaveTo, Goto, heap
<1>2. TypeInv /\ Held(t) /\ pc[t] = "leaf"
  BY <1>1, SmoNow DEF TreeInv, InSection
<1>3. /\ DOMAIN p_header' = Threads /\ smo' \in [Threads -> SmoRecord] /\ pc'[t] = "leaf"
      /\ \A u \in Threads \ {t} : smo'[u] = smo[u] /\ p_header'[u] = p_header[u]
      /\ p_header'[t].node = p_header[t].node \/ p_header'[t].node = n
  <2>1. /\ DOMAIN p_header' = Threads /\ smo' \in [Threads -> SmoRecord] /\ pc'[t] = "leaf"
        /\ \A u \in Threads \ {t} : smo'[u] = smo[u] /\ p_header'[u] = p_header[u]
        /\ p_header'[t] = IF op[t].kind = "update" THEN p_header[t]
                          ELSE IF n \in Locked(t) THEN Deref(w.header, snap[t][1])
                          ELSE [node |-> n, copy |-> <<leaf[n]>>]
    BY <1>1, <1>2 DEF TypeInv
  <2>2. Deref(w.header, snap[t][1]).node = n
    BY DEF Deref
  <2>3. QED
    BY <2>1, <2>2
<1>4. LeaveStep(t, "leaf")
  BY <1>1, <1>3 DEF LeaveStep, Locs, WriteSections
<1>5. n \in DOMAIN leaf /\ leaf[n].type = HEADER_TYPE /\ leaf[n].key <= op[t].key
  <2> HIDE DEF w
  <2>1. PICK p \in 0 .. Last(h) - 1, q \in 0 .. Last(h) : PlaceAt(h, w, op[t].key, q, p)
    BY <1>1, PlaceNow DEF w
  <2>2. Snapshot(h, leaf, Since(t)) /\ op[t].key \in Keys
    BY <1>1, PlaceNow
  <2> HIDE DEF h
  <2>3. /\ n \in DOMAIN h /\ DOMAIN h \subseteq DOMAIN leaf /\ HeaderOn(h, n)
    BY <2>1, <2>2, PlaceFacts
  <2>4. h[n].key <= op[t].key
    BY <2>1 DEF PlaceAt
  <2>5. leaf[n].type = h[n].type /\ leaf[n].key = h[n].key
    BY <2>2, <2>3 DEF Snapshot, Grown
  <2>6. QED
    BY <2>3, <2>4, <2>5 DEF HeaderOn
<1> HIDE DEF n
<1>6. Held(t)'
  BY <1>1, <1>2, <1>3, <1>5 DEF Held
<1>7. Moves(smo[t], pc[t], "leaf")
  BY <1>2 DEF Moves
<1>8. QED
  BY <1>1, <1>2, <1>4, <1>6, <1>7, LeaveStays

\* Nothing a section locks was committed by others since it began.
LEMMA PlaceLocked ==
  ASSUME TreeInv, NEW t \in Threads, InSection(t, "leaf"), op[t].kind # "update",
         LeafLocks(t) \intersect Locked(t) = {}
  PROVE  PlacedIn(snap[t][1].leaf, leaf, Since(t), op[t].key, Place(t))
<1> DEFINE w == Place(t)
           h == snap[t][1].leaf
<1>1. {w.header.node, w.prev, w.at} \intersect Since(t) = {}
  <2>1. LeafLocks(t) = {w.header.node, w.prev, w.at}
    BY DEF LeafLocks
  <2> HIDE DEF w
  <2>2. QED
    BY <2>1, LockedSince
<1> HIDE DEF w
<1>2. PICK p \in 0 .. Last(h) - 1, q \in 0 .. Last(h) : PlaceAt(h, w, op[t].key, q, p)
  BY PlaceNow DEF w
<1>3. Snapshot(h, leaf, Since(t)) /\ op[t].key \in Keys
  BY PlaceNow
<1> HIDE DEF h
<1>4. PlacedAt(h, leaf, Since(t), op[t].key, w, q, p)
  BY <1>1, <1>2, <1>3 DEF PlacedAt
<1>5. PlacedIn(h, leaf, Since(t), op[t].key, w)
  BY <1>4 DEF PlacedIn
<1>6. QED
  BY <1>5 DEF h, w

\* rlu_leaf_update, which locks its nodes and changes neither keys nor pointers.
LEMMA UpdateStays ==
  ASSUME TreeInv, NEW t \in Threads, rlu_leaf_update(t)
  PROVE  TreeInv'
<1> DEFINE objs == LeafLocks(t)
<1>1. /\ InSection(t, "leaf") /\ Commit(t, objs, "idle")
      /\ p_header' = [p_header EXCEPT ![t] = NoPtr] /\ op' = op /\ smo' = smo
      /\ leaf' = leaf /\ entry' = entry /\ root_null' = root_null /\ present' = present
  BY DEF rlu_leaf_update, heap
<1>2. /\ TypeInv /\ pc[t] = "leaf" /\ snap[t] # <<>> /\ Proto(leaf, entry, smo, LocOf)
      /\ Items(leaf, present)
  BY <1>1 DEF TreeInv, InSection
<1>3. /\ DOMAIN p_header' = Threads /\ smo' \in [Threads -> SmoRecord]
      /\ \A u \in Threads \ {t} : smo'[u] = smo[u] /\ p_header'[u] = p_header[u]
      /\ root_null' \in BOOLEAN
  BY <1>1, <1>2 DEF TypeInv
<1> HIDE DEF objs
<1>4. CommitStep(t, objs, "idle")
  BY <1>1, <1>2, <1>3 DEF CommitStep, AfterLocs
<1>5. Good(leaf) /\ LocOf[t] = "leaf"
  BY <1>2, SmoNow
<1>6. Snapshot(leaf, leaf', objs) /\ Changed(leaf, leaf', {}, {}, {}, {})
  BY <1>1, <1>5, SnapshotNow, SameHeap
<1>7. Others(t, smo, LocOf, smo', LocOf') /\ LocOf'[t] = "idle"
  BY <1>2, <1>4, CommitMoves
<1>8. Moves(smo[t], LocOf[t], LocOf'[t])
  BY <1>2, <1>7, NoSmoPending DEF Moves, OpLocs
<1>9. Proto(leaf', entry, smo', LocOf')
  <2>1. smo'[t] = smo[t]
    BY <1>1
  <2>2. QED
    BY <1>2, <1>6, <1>7, <1>8, <2>1, ProtoCalm
<1>10. Proto(leaf', entry', smo', LocOf') /\ Items(leaf', present')
  BY <1>1, <1>2, <1>9
<1>11. QED
  BY <1>1, <1>4, <1>6, <1>10, CommitStays

\* A section that ends registers a split or merge of partition n, or does not.
LEMMA Registers ==
  ASSUME TypeInv, NEW t \in Threads, NEW n \in Nat, NEW x \in {-10, 10}, NEW Q,
         IF Q THEN Register(t, n, x) ELSE UNCHANGED smo
  PROVE  /\ smo' \in [Threads -> SmoRecord]
         /\ \A u \in Threads \ {t} : smo'[u] = smo[u]
         /\ ~Q => smo' = smo
         /\ Q => smo'[t].operator = x /\ smo'[t].master = n /\ smo'[t].slave = 0
<1>1. CASE Q
  <2>1. smo' = [smo EXCEPT ![t] = [operator |-> x, master |-> n, slave |-> 0]]
    BY <1>1 DEF Register
  <2>2. [operator |-> x, master |-> n, slave |-> 0] \in SmoRecord
    BY DEF SmoRecord
  <2>3. QED
    BY <1>1, <2>1, <2>2 DEF TypeInv
<1>2. CASE ~Q
  BY <1>2 DEF TypeInv
<1>3. QED
  BY <1>1, <1>2

\* After an add or remove: the list, and a registration if there is one.
LEMMA OperationEnds ==
  ASSUME TreeInv, NEW t \in Threads, NEW objs, CommitStep(t, objs, "idle"), pc[t] = "leaf",
         Snapshot(leaf, leaf', objs), NEW n, HeaderOn(leaf, n), NEW W, NEW Q, NEW x \in {-10, 10},
         W = IF Q THEN {n} ELSE {}, Changed(leaf, leaf', {}, {}, {}, W),
         ~Q => smo' = smo,
         Q => /\ smo'[t].operator = x /\ smo'[t].master = n /\ smo'[t].slave = 0
              /\ leaf[n].state = FREE
              /\ leaf'[n].state = IF x = 10 THEN SPLIT_REGIST ELSE MERGE_REGIST,
         entry' = entry, Items(leaf', present')
  PROVE  TreeInv'
<1>1. TypeInv /\ Proto(leaf, entry, smo, LocOf)
  BY DEF TreeInv
<1>2. Others(t, smo, LocOf, smo', LocOf') /\ LocOf'[t] = "idle"
  BY <1>1, CommitMoves
<1>3. smo[t].operator = 0 /\ LocOf[t] = "leaf"
  <2>1. snap[t] # <<>>
    BY DEF CommitStep
  <2>2. QED
    BY <2>1, NoSmoPending, SmoNow
<1>4. Proto(leaf', entry, smo', LocOf')
  <2>1. CASE Q
    <3>1. leaf'[n].state = Wanted(smo'[t])
      BY <2>1 DEF Wanted
    <3>2. Changed(leaf, leaf', {}, {}, {}, {n})
      BY <2>1
    <3>3. QED
      BY <1>1, <1>2, <1>3, <2>1, <3>1, <3>2, ProtoRegister
  <2>2. CASE ~Q
    <3>1. Moves(smo[t], LocOf[t], LocOf'[t])
      BY <1>2, <1>3 DEF Moves, OpLocs
    <3>2. smo'[t] = smo[t] /\ Changed(leaf, leaf', {}, {}, {}, {})
      BY <2>2
    <3>3. QED
      BY <1>1, <1>2, <3>1, <3>2, ProtoCalm
  <2>3. QED
    BY <2>1, <2>2
<1>5. Proto(leaf', entry', smo', LocOf')
  BY <1>4
<1>6. QED
  BY <1>5, CommitStays

\* rlu_leaf_add, which may register a split of the partition.
LEMMA AddStays ==
  ASSUME TreeInv, NEW t \in Threads, rlu_leaf_add(t)
  PROVE  TreeInv'
<1> DEFINE w == Place(t)
           n == w.header.node
           objs == LeafLocks(t)
           k == op[t].key
           new == [type |-> NORMAL, state |-> FREE, count |-> 0, key |-> k, next |-> w.at]
           h == snap[t][1].leaf
           S == Since(t)
           s == IF NeedsSplit(n) THEN SPLIT_REGIST ELSE leaf[n].state
           W == IF NeedsSplit(n) THEN {n} ELSE {}
<1>1. /\ InSection(t, "leaf") /\ op[t].kind = "add" /\ HasWork(t)
      /\ leaf' = Append([leaf EXCEPT ![w.prev].next = Len(leaf) + 1,
                                     ![w.header.node].count = @ + 1,
                                     ![w.header.node].state =
                                        IF NeedsSplit(n) THEN SPLIT_REGIST ELSE @], new)
      /\ IF NeedsSplit(n) THEN Register(t, n, 10) ELSE UNCHANGED smo
      /\ present' = present \union {k}
      /\ p_header' = [p_header EXCEPT ![t] = NoPtr]
      /\ Commit(t, objs, "idle")
      /\ entry' = entry /\ root_null' = root_null /\ op' = op
  BY DEF rlu_leaf_add
<1>2. objs = {w.header.node, w.prev, w.at} /\ objs \intersect Locked(t) = {}
  BY <1>1 DEF LeafLocks, Commit
<1>3. PlacedIn(h, leaf, S, k, w) /\ ~w.found /\ k \in Keys
  <2>1. PlacedIn(h, leaf, S, k, w)
    BY <1>1, <1>2, PlaceLocked
  <2>2. ~w.found
    BY <1>1 DEF HasWork
  <2>3. k \in Keys
    BY <1>1, PlaceNow
  <2>4. QED
    BY <2>1, <2>2, <2>3
<1>4. TypeInv /\ pc[t] = "leaf" /\ snap[t] # <<>> /\ Items(leaf, present) /\ Nodes(leaf)
  BY <1>1, SmoNow DEF TreeInv, InSection, Good
<1> HIDE DEF w, k, h, S, objs
<1>5. /\ HeaderOn(leaf, n) /\ {n, w.prev, w.at} \subseteq DOMAIN leaf
  BY <1>3, PlacedHeader
<1>6. WritesAdd(leaf, leaf', k, w, s)
  <2>1. w.prev \in DOMAIN leaf /\ w.header.node \in DOMAIN leaf /\ w.at \in DOMAIN leaf
    BY <1>5
  <2> DEFINE Q == NeedsSplit(n)
             r == Append([leaf EXCEPT ![w.prev].next = Len(leaf) + 1,
                                     ![w.header.node].count = @ + 1,
                                     ![w.header.node].state = IF Q THEN SPLIT_REGIST ELSE @], new)
  <2> HIDE DEF Q, new
  <2>2. WritesAdd(leaf, r, k, w, IF Q THEN SPLIT_REGIST ELSE leaf[w.header.node].state)
    BY <1>3, <1>4, <2>1, AddForm DEF new
  <2>3. leaf' = r
    BY <1>1 DEF Q
  <2> HIDE DEF r
  <2>4. QED
    BY <2>2, <2>3 DEF Q
<1>7. W \subseteq {n} /\ (s = leaf[n].state \/ n \in W)
  OBVIOUS
<1> HIDE DEF new
<1>8. /\ Snapshot(leaf, leaf', {n, w.prev, w.at})
      /\ Changed(leaf, leaf', {}, {}, {}, W)
      /\ \A P : Items(leaf, P) => Items(leaf', P \union {k})
      /\ leaf'[n].state = s
  <2> HIDE DEF W, s
  <2>1. QED
    BY ONLY <1>3, <1>6, <1>7, AddWrites, SMTT(40)
<1>9. n \in Nat
  BY <1>4, <1>5, Fields
<1>10. /\ smo' \in [Threads -> SmoRecord]
       /\ \A u \in Threads \ {t} : smo'[u] = smo[u]
       /\ ~NeedsSplit(n) => smo' = smo
       /\ NeedsSplit(n) => smo'[t].operator = 10 /\ smo'[t].master = n /\ smo'[t].slave = 0
  <2> HIDE DEF n
  <2>1. IF NeedsSplit(n) THEN Register(t, n, 10) ELSE UNCHANGED smo
    BY <1>1
  <2>2. QED
    BY ONLY <1>4, <1>9, <2>1, Registers
<1>11. DOMAIN p_header' = Threads /\ root_null' \in BOOLEAN
       /\ \A u \in Threads \ {t} : p_header'[u] = p_header[u]
  BY <1>1, <1>4 DEF TypeInv
<1>12. CommitStep(t, objs, "idle")
  BY <1>1, <1>4, <1>10, <1>11 DEF CommitStep, AfterLocs
<1>13. NeedsSplit(n) => leaf[n].state = FREE /\ leaf'[n].state = SPLIT_REGIST
  BY <1>8 DEF NeedsSplit
<1>14. Items(leaf', present')
  BY <1>1, <1>4, <1>8, ZenonT(40)
<1>15. QED
  <2> HIDE DEF n, W
  <2>1. Snapshot(leaf, leaf', objs)
    BY <1>2, <1>8 DEF n
  <2>2. W = IF NeedsSplit(n) THEN {n} ELSE {}
    BY DEF W
  <2>3. QED
    BY <1>1, <1>4, <1>5, <1>8, <1>10, <1>12, <1>13, <1>14, <2>1, <2>2, OperationEnds,
       ZenonT(40)

\* rlu_leaf_remove, which may register a merge of the partition.
LEMMA RemoveStays ==
  ASSUME TreeInv, NEW t \in Threads, rlu_leaf_remove(t)
  PROVE  TreeInv'
<1> DEFINE w == Place(t)
           n == w.header.node
           objs == LeafLocks(t)
           k == op[t].key
           h == snap[t][1].leaf
           S == Since(t)
           s == IF NeedsMerge(n) THEN MERGE_REGIST ELSE leaf[n].state
           W == IF NeedsMerge(n) THEN {n} ELSE {}
<1>1. /\ InSection(t, "leaf") /\ op[t].kind = "remove" /\ HasWork(t)
      /\ leaf' = [leaf EXCEPT ![w.prev].next = h[w.at].next,
                              ![w.header.node].count = @ - 1,
                              ![w.header.node].state =
                                 IF NeedsMerge(n) THEN MERGE_REGIST ELSE @]
      /\ IF NeedsMerge(n) THEN Register(t, n, -10) ELSE UNCHANGED smo
      /\ present' = present \ {k}
      /\ p_header' = [p_header EXCEPT ![t] = NoPtr]
      /\ Commit(t, objs, "idle")
      /\ entry' = entry /\ root_null' = root_null /\ op' = op
  BY ZenonT(40) DEF rlu_leaf_remove
<1>2. objs = {w.header.node, w.prev, w.at} /\ objs \intersect Locked(t) = {}
  BY <1>1, ZenonT(40) DEF LeafLocks, Commit
<1>3. PlacedIn(h, leaf, S, k, w) /\ w.found /\ k \in Keys
  <2>1. PlacedIn(h, leaf, S, k, w)
    BY <1>1, <1>2, PlaceLocked, ZenonT(40)
  <2>2. w.found
    BY <1>1, ZenonT(40) DEF HasWork
  <2>3. k \in Keys
    BY <1>1, PlaceNow, ZenonT(40)
  <2>4. QED
    BY <2>1, <2>2, <2>3
<1>4. TypeInv /\ pc[t] = "leaf" /\ snap[t] # <<>> /\ Items(leaf, present) /\ Nodes(leaf)
  BY <1>1, SmoNow, ZenonT(40) DEF TreeInv, InSection, Good
<1> HIDE DEF w, k, h, S, objs
<1>5. /\ HeaderOn(leaf, n) /\ {n, w.prev, w.at} \subseteq DOMAIN leaf
      /\ h[w.at].next \in DOMAIN leaf /\ leaf[n].count - 1 \in Nat
  BY <1>3, PlacedHeader
<1>6. WritesRemove(h, leaf, leaf', w, s)
  <2>1. /\ w.prev \in DOMAIN leaf /\ w.header.node \in DOMAIN leaf
        /\ h[w.at].next \in DOMAIN leaf /\ leaf[w.header.node].count - 1 \in Nat
    BY <1>5
  <2> DEFINE Q == NeedsMerge(n)
             r == [leaf EXCEPT ![w.prev].next = h[w.at].next,
                               ![w.header.node].count = @ - 1,
                               ![w.header.node].state = IF Q THEN MERGE_REGIST ELSE @]
  <2> HIDE DEF Q
  <2>2. WritesRemove(h, leaf, r, w, IF Q THEN MERGE_REGIST ELSE leaf[w.header.node].state)
    BY <1>4, <2>1, RemoveForm, ZenonT(40)
  <2>3. leaf' = r
    BY <1>1 DEF Q
  <2> HIDE DEF r
  <2>4. QED
    BY <2>2, <2>3 DEF Q
<1>7. W \subseteq {n} /\ (s = leaf[n].state \/ n \in W)
  OBVIOUS
<1>8. /\ Snapshot(leaf, leaf', {n, w.prev, w.at})
      /\ Changed(leaf, leaf', {}, {}, {}, W)
      /\ \A P : Items(leaf, P) => Items(leaf', P \ {k})
      /\ leaf'[n].state = s
  <2> HIDE DEF W, s
  <2>1. QED
    BY ONLY <1>3, <1>6, <1>7, RemoveWrites, ZenonT(40)
<1>9. n \in Nat
  BY <1>4, <1>5, Fields
<1>10. /\ smo' \in [Threads -> SmoRecord]
       /\ \A u \in Threads \ {t} : smo'[u] = smo[u]
       /\ ~NeedsMerge(n) => smo' = smo
       /\ NeedsMerge(n) => smo'[t].operator = -10 /\ smo'[t].master = n /\ smo'[t].slave = 0
  <2> HIDE DEF n
  <2>1. IF NeedsMerge(n) THEN Register(t, n, -10) ELSE UNCHANGED smo
    BY <1>1
  <2>2. QED
    BY ONLY <1>4, <1>9, <2>1, Registers
<1>11. DOMAIN p_header' = Threads /\ root_null' \in BOOLEAN
       /\ \A u \in Threads \ {t} : p_header'[u] = p_header[u]
  BY <1>1, <1>4 DEF TypeInv
<1>12. CommitStep(t, objs, "idle")
  BY <1>1, <1>4, <1>10, <1>11 DEF CommitStep, AfterLocs
<1>13. NeedsMerge(n) => leaf[n].state = FREE /\ leaf'[n].state = MERGE_REGIST
  BY <1>8 DEF NeedsMerge
<1>14. Items(leaf', present')
  BY <1>1, <1>4, <1>8, ZenonT(40)
<1>15. QED
  <2> HIDE DEF n, W
  <2>1. Snapshot(leaf, leaf', objs)
    BY <1>2, <1>8 DEF n
  <2>2. W = IF NeedsMerge(n) THEN {n} ELSE {}
    BY DEF W
  <2> DEFINE Q == NeedsMerge(n)
             x == -10
  <2>3. /\ x \in {-10, 10} /\ W = IF Q THEN {n} ELSE {}
        /\ ~Q => smo' = smo
        /\ Q => /\ smo'[t].operator = x /\ smo'[t].master = n /\ smo'[t].slave = 0
                /\ leaf[n].state = FREE
                /\ leaf'[n].state = IF x = 10 THEN SPLIT_REGIST ELSE MERGE_REGIST
    BY <1>10, <1>13, <2>2
  <2>4. entry' = entry
    BY <1>1
  <2> HIDE DEF Q, x
  <2>5. QED
    BY <1>4, <1>5, <1>8, <1>12, <1>14, <2>1, <2>3, <2>4, OperationEnds

------------------------------------------------------------------------------
(***************************************************************************)
(* Splits and merges: steps that change no node                            *)
(***************************************************************************)
LEMMA StartSmoStays ==
  ASSUME TreeInv, NEW t \in Threads, StartSmo(t)
  PROVE  TreeInv'
<1> DEFINE loc == IF smo[t].operator > 0 THEN "split" ELSE "partner"
<1>1. /\ pc[t] = "idle" /\ smo[t].operator # 0
      /\ Goto(t, loc) /\ UNCHANGED <<heap, rlu, present, smo>>
      /\ op' = op /\ p_header' = p_header /\ stop' = stop /\ crashed' = crashed
  BY DEF StartSmo, process
<1>2. TypeInv /\ SectionOk(t) /\ smo[t].operator \in {-10, 0, 10}
  BY SmoNow DEF TreeInv
<1>3. snap[t] = <<>>
  BY <1>1, <1>2 DEF SectionOk, WriteSections
<1>4. loc \in {"split", "partner"} /\ (loc = "split" <=> smo[t].operator = 10)
      /\ (loc = "partner" <=> smo[t].operator = -10)
  BY <1>1, <1>2
<1> HIDE DEF loc
<1>5. pc'[t] = loc
  BY <1>1, <1>2 DEF Goto, TypeInv
<1>6. LocalStep(t, loc)
  <2>1. loc \in Locs \ {"sync"}
    BY <1>4 DEF Locs, WriteSections, FromRoot
  <2>2. DOMAIN op' = Threads /\ DOMAIN p_header' = Threads /\ stop' \in BOOLEAN /\ crashed' \in BOOLEAN
    BY <1>1, <1>2 DEF TypeInv
  <2>3. QED
    BY <1>1, <1>3, <2>1, <2>2 DEF LocalStep
<1>7. Held(t)'
  BY <1>4, <1>5 DEF Held
<1>8. Moves(smo[t], pc[t], loc)
  BY <1>1, <1>2, <1>4 DEF Moves
<1>9. QED
  BY <1>6, <1>7, <1>8, LocalStays

\* A thread returns.
LEMMA ReturnStays ==
  ASSUME TreeInv, NEW t \in Threads, Return(t)
  PROVE  TreeInv'
<1>1. /\ pc[t] = "idle"
      /\ Goto(t, "returned") /\ UNCHANGED <<heap, rlu, present, smo>>
      /\ op' = op /\ p_header' = p_header /\ stop' = stop /\ crashed' = crashed
  BY DEF Return, process
<1>2. TypeInv /\ SectionOk(t) /\ smo[t].operator \in {-10, 0, 10}
  BY SmoNow DEF TreeInv
<1>3. snap[t] = <<>>
  BY <1>1, <1>2 DEF SectionOk, WriteSections
<1>4. pc'[t] = "returned"
  BY <1>1, <1>2 DEF Goto, TypeInv
<1>5. LocalStep(t, "returned")
  BY <1>1, <1>2, <1>3 DEF LocalStep, TypeInv, Locs
<1>6. Held(t)'
  BY <1>4 DEF Held
<1>7. Moves(smo[t], pc[t], "returned")
  BY <1>1, <1>2 DEF Moves, OpLocs
<1>8. QED
  BY <1>5, <1>6, <1>7, LocalStays

\* The search of the new header's parent.
LEMMA FindParentStays ==
  ASSUME TreeInv, NEW t \in Threads, FindParent(t)
  PROVE  TreeInv'
<1>1. /\ pc[t] = "find_parent"
      /\ Goto(t, "update") /\ UNCHANGED <<heap, rlu, present, smo>>
      /\ op' = op /\ p_header' = p_header /\ stop' = stop /\ crashed' = crashed
  BY DEF FindParent, process
<1>2. TypeInv /\ SectionOk(t)
  BY SmoNow DEF TreeInv
<1>3. snap[t] = <<>>
  BY <1>1, <1>2 DEF SectionOk, WriteSections
<1>4. pc'[t] = "update"
  BY <1>1, <1>2 DEF Goto, TypeInv
<1>5. LocalStep(t, "update")
  BY <1>1, <1>2, <1>3 DEF LocalStep, TypeInv, Locs, WriteSections
<1>6. Held(t)'
  BY <1>4 DEF Held
<1>7. Moves(smo[t], pc[t], "update")
  BY <1>1 DEF Moves
<1>8. QED
  BY <1>5, <1>6, <1>7, LocalStays

\* A step that changes the process alone: the end of the duration, a thread
\* that follows the NULL, a stutter.
LEMMA ProcessStays ==
  ASSUME TreeInv, UNCHANGED <<heap, pc, op, p_header, smo, rlu, present>>,
         stop' \in BOOLEAN, crashed' \in BOOLEAN
  PROVE  TreeInv'
<1>1. /\ leaf' = leaf /\ entry' = entry /\ root_null' = root_null
      /\ pc' = pc /\ op' = op /\ p_header' = p_header /\ smo' = smo
      /\ snap' = snap /\ wrote' = wrote /\ older' = older /\ after' = after
      /\ present' = present
  BY DEF heap, rlu
<1>2. TypeInv'
  BY <1>1 DEF TreeInv, TypeInv
<1>3. SectionInv'
  BY <1>1 DEF TreeInv, SectionInv, SectionOk
<1>4. \A u : Since(u)' = Since(u)
  BY <1>1 DEF Since
<1>5. SnapInv'
  <2>1. ASSUME NEW u \in Threads PROVE SnapFits(u)'
    <3>1. SnapFits(u)
      BY DEF TreeInv, SnapInv
    <3>2. Since(u)' = Since(u)
      BY <1>4
    <3>3. QED
      BY <1>1, <3>1, <3>2 DEF SnapFits
  <2>2. QED
    BY <2>1 DEF SnapInv
<1>6. HeldInv'
  BY <1>1 DEF TreeInv, HeldInv, Held
<1>7. LocOf' = LocOf
  BY <1>1, Zenon DEF LocOf, Loc
<1>8. Proto(leaf, entry, smo, LocOf)' /\ Items(leaf, present)'
  BY <1>1, <1>7 DEF TreeInv
<1>9. QED
  BY <1>2, <1>3, <1>5, <1>6, <1>8 DEF TreeInv

\* A section of a split or merge ends and changed nothing.
LEMMA LeavesCalmly ==
  ASSUME TreeInv, NEW t \in Threads, NEW loc \in Locs \ {"sync", "descend", "leaf", "search"},
         LeaveTo(t, loc), op' = op, p_header' = p_header, smo' = smo, pc[t] # "sync",
         Moves(smo[t], pc[t], loc)
  PROVE  TreeInv'
<1>1. TypeInv
  BY DEF TreeInv
<1>2. pc'[t] = loc
  BY <1>1 DEF LeaveTo, Goto, TypeInv
<1>3. LeaveStep(t, loc)
  BY <1>1 DEF LeaveStep, TypeInv
<1>4. Held(t)'
  BY <1>2 DEF Held
<1>5. QED
  BY <1>3, <1>4, LeaveStays

\* An SMO that loses a lock and aborts.
LEMMA SmoRestartStays ==
  ASSUME TreeInv, NEW t \in Threads, SmoRestart(t)
  PROVE  TreeInv'
<1>1. /\ LeaveTo(t, pc[t]) /\ op' = op /\ p_header' = p_header /\ smo' = smo
      /\ pc[t] \in {"split", "release", "partner", "merge", "release_master", "level_down"}
  BY DEF SmoRestart, MustRestart
<1>2. pc[t] \in Locs \ {"sync", "descend", "leaf", "search"}
  BY <1>1 DEF Locs, WriteSections
<1>3. Moves(smo[t], pc[t], pc[t])
  BY DEF Moves
<1>4. pc[t] # "sync"
  BY <1>1
<1>5. QED
  BY <1>1, <1>2, <1>3, <1>4, LeavesCalmly

\* An update of the parent that loses its lock and aborts.
LEMMA UpdateRestartStays ==
  ASSUME TreeInv, NEW t \in Threads, SplitUpdateRestart(t)
  PROVE  TreeInv'
<1>1. /\ LeaveTo(t, "update") /\ op' = op /\ p_header' = p_header /\ smo' = smo
      /\ pc[t] = "update"
  BY DEF SplitUpdateRestart, InSection
<1>2. "update" \in Locs \ {"sync", "descend", "leaf", "search"}
  BY DEF Locs, WriteSections
<1>3. Moves(smo[t], pc[t], "update") /\ pc[t] # "sync"
  BY <1>1 DEF Moves
<1>4. QED
  BY <1>1, <1>2, <1>3, LeavesCalmly

\* A merge that finds no partner and releases its header.
LEMMA NoPartnerStays ==
  ASSUME TreeInv, NEW t \in Threads, NoPartner(t)
  PROVE  TreeInv'
<1>1. /\ LeaveTo(t, "release_master") /\ op' = op /\ p_header' = p_header /\ smo' = smo
      /\ pc[t] = "partner"
  BY DEF NoPartner, InSection
<1>2. "release_master" \in Locs \ {"sync", "descend", "leaf", "search"}
  BY DEF Locs, WriteSections
<1>3. Moves(smo[t], pc[t], "release_master") /\ pc[t] # "sync"
  BY <1>1 DEF Moves
<1>4. QED
  BY <1>1, <1>2, <1>3, LeavesCalmly

------------------------------------------------------------------------------
(***************************************************************************)
(* Splits and merges: releases and the root                                *)
(***************************************************************************)
\* Nothing is pending any more.
LEMMA DoneIs ==
  ASSUME TypeInv, NEW t \in Threads, Done(t)
  PROVE  /\ smo'[t] = NoSmo /\ smo' \in [Threads -> SmoRecord]
         /\ \A u \in Threads \ {t} : smo'[u] = smo[u]
<1>1. NoSmo \in SmoRecord
  BY DEF NoSmo, SmoRecord
<1>2. QED
  BY <1>1 DEF Done, TypeInv

\* No SMO, or a merge that released its headers, fits any heap.
LEMMA NoSmoFits ==
  ASSUME NEW h, NEW es, NEW s, s = NoSmo \/ (s.operator = -10 /\ s.master \in DOMAIN h), NEW l,
         l = IF s = NoSmo THEN "idle" ELSE "level_down"
  PROVE  SmoFits(h, es, s, l) /\ ~Owe(s, l)
<1>1. CASE s = NoSmo
  BY <1>1 DEF NoSmo, SmoFits, Owe, OpLocs, OrphanLocs
<1>2. CASE s # NoSmo
  BY <1>2 DEF SmoFits, Owe, MergeLocs, OrphanLocs
<1>3. QED
  BY <1>1, <1>2

\* A section of a split or merge ends with a commit.
LEMMA SmoCommits ==
  ASSUME TypeInv, NEW t \in Threads, NEW objs, NEW loc \in AfterLocs, Commit(t, objs, loc),
         snap[t] # <<>>, op' = op, p_header' = p_header, root_null' \in BOOLEAN,
         smo' \in [Threads -> SmoRecord], \A u \in Threads \ {t} : smo'[u] = smo[u]
  PROVE  /\ CommitStep(t, objs, loc)
         /\ Others(t, smo, LocOf, smo', LocOf') /\ LocOf'[t] = loc
<1>1. CommitStep(t, objs, loc)
  BY DEF CommitStep, TypeInv
<1>2. QED
  BY <1>1, CommitMoves

\* The release of a split's two headers.
LEMMA ReleaseBothStays ==
  ASSUME TreeInv, NEW t \in Threads, ReleaseBoth(t)
  PROVE  TreeInv'
<1> DEFINE m == smo[t].master
           s == smo[t].slave
<1>1. /\ pc[t] = "release" /\ snap[t] # <<>> /\ op' = op /\ p_header' = p_header
      /\ entry' = entry /\ root_null' = root_null /\ present' = present
      /\ IF leaf[m].state = SPLIT_REGIST /\ leaf[s].state = SPLIT_REGIST
         THEN /\ leaf' = [leaf EXCEPT ![m].state = FREE, ![s].state = FREE]
              /\ Done(t)
              /\ Commit(t, {m, s}, "idle")
         ELSE ReturnInSection(t)
  BY DEF ReleaseBoth, InSection
<1>2. TypeInv /\ Good(leaf) /\ Proto(leaf, entry, smo, LocOf) /\ Items(leaf, present)
  BY SmoNow DEF TreeInv
<1>3. SmoFits(leaf, entry, smo[t], "release") /\ LocOf[t] = "release"
  BY <1>1, SmoNow
<1>4. /\ smo[t].operator = 10 /\ Owe(smo[t], "release")
      /\ HeaderOn(leaf, m) /\ HeaderOn(leaf, s)
  BY <1>2, <1>3, SmoFacts
<1>5. \A n : Own(smo[t], LocOf[t], n) <=> n \in {m, s}
  BY <1>3, <1>4 DEF Own
<1>6. leaf[m].state = SPLIT_REGIST /\ leaf[s].state = SPLIT_REGIST
  BY <1>2, <1>4, <1>5 DEF Proto, Owners, Wanted
<1>7. /\ leaf' = [leaf EXCEPT ![m].state = FREE, ![s].state = FREE]
      /\ Done(t) /\ Commit(t, {m, s}, "idle")
  BY <1>1, <1>6
<1>8. m \in DOMAIN leaf /\ s \in DOMAIN leaf
  BY <1>2, <1>4, HeaderFacts
<1>9. WritesState(leaf, leaf', {m, s}, FREE)
  <2>1. FREE \in States
    BY DEF States
  <2>2. WritesState(leaf, [leaf EXCEPT ![m].state = FREE, ![s].state = FREE], {m, s}, FREE)
    BY <1>2, <1>8, <2>1, StateSets
  <2>3. QED
    BY <1>7, <2>2, Zenon
<1>10. /\ Snapshot(leaf, leaf', {m, s}) /\ Changed(leaf, leaf', {}, {}, {}, {m, s})
       /\ \A P : Items(leaf, P) => Items(leaf', P)
       /\ \A n \in {m, s} \intersect DOMAIN leaf : leaf'[n].state = FREE
  BY <1>2, <1>9, StateWrites
<1>11. smo'[t] = NoSmo /\ smo' \in [Threads -> SmoRecord]
       /\ \A u \in Threads \ {t} : smo'[u] = smo[u]
  BY <1>2, <1>7, DoneIs
<1>12. /\ CommitStep(t, {m, s}, "idle")
       /\ Others(t, smo, LocOf, smo', LocOf') /\ LocOf'[t] = "idle"
  <2>1. "idle" \in AfterLocs /\ root_null' \in BOOLEAN
    BY <1>1, <1>2 DEF AfterLocs, TypeInv
  <2>2. QED
    BY <1>1, <1>2, <1>7, <1>11, <2>1, SmoCommits
<1>13. SmoFits(leaf', entry, smo'[t], LocOf'[t]) /\ ~Owe(smo'[t], LocOf'[t])
  BY <1>11, <1>12, NoSmoFits
<1>14. Proto(leaf', entry, smo', LocOf')
  <2>1. \A n \in {m, s} : HeaderOn(leaf, n) /\ Own(smo[t], LocOf[t], n) /\ leaf'[n].state = FREE
    BY <1>4, <1>5, <1>8, <1>10
  <2>2. \A n : HeaderOn(leaf, n) /\ Own(smo[t], LocOf[t], n) => n \in {m, s}
    BY <1>5
  <2>3. LocOf[t] \notin OrphanLocs /\ LocOf'[t] \notin OrphanLocs
    BY <1>3, <1>12 DEF OrphanLocs
  <2>4. QED
    BY ONLY <1>2, <1>10, <1>12, <1>13, <2>1, <2>2, <2>3, ProtoRelease
<1>15. Proto(leaf', entry', smo', LocOf') /\ Items(leaf', present')
  BY <1>1, <1>2, <1>10, <1>14
<1>16. QED
  BY <1>1, <1>10, <1>12, <1>15, CommitStays

\* The release of a merge's master.
LEMMA ReleaseMasterStays ==
  ASSUME TreeInv, NEW t \in Threads, ReleaseMaster(t)
  PROVE  TreeInv'
<1> DEFINE m == smo[t].master
           loc == IF smo[t].slave # 0 THEN "level_down" ELSE "idle"
<1>1. /\ pc[t] = "release_master" /\ snap[t] # <<>> /\ op' = op /\ p_header' = p_header
      /\ entry' = entry /\ root_null' = root_null /\ present' = present
      /\ IF leaf[m].state # MERGE_REGIST THEN ReturnInSection(t)
         ELSE /\ leaf' = [leaf EXCEPT ![m].state = FREE]
              /\ IF smo[t].slave # 0
                 THEN Commit(t, {m}, "level_down") /\ UNCHANGED smo
                 ELSE Commit(t, {m}, "idle") /\ Done(t)
  BY DEF ReleaseMaster, InSection
<1>2. TypeInv /\ Good(leaf) /\ Proto(leaf, entry, smo, LocOf) /\ Items(leaf, present)
  BY SmoNow DEF TreeInv
<1>3. SmoFits(leaf, entry, smo[t], "release_master") /\ LocOf[t] = "release_master"
  BY <1>1, SmoNow
<1>4. /\ smo[t].operator = -10 /\ Owe(smo[t], "release_master") /\ HeaderOn(leaf, m)
      /\ ~OnList(leaf, smo[t].slave)
  <2>1. ~OnList(leaf, smo[t].slave)
    BY <1>3 DEF SmoFits
  <2>2. QED
    BY <1>2, <1>3, <2>1, SmoFacts
<1>5. \A n : HeaderOn(leaf, n) /\ Own(smo[t], LocOf[t], n) <=> n = m
  BY <1>3, <1>4 DEF Own, HeaderOn
<1>6. leaf[m].state = MERGE_REGIST
  BY <1>2, <1>4, <1>5 DEF Proto, Owners, Wanted
<1>7. /\ leaf' = [leaf EXCEPT ![m].state = FREE]
      /\ Commit(t, {m}, loc) /\ IF smo[t].slave # 0 THEN smo' = smo ELSE Done(t)
  BY <1>1, <1>6
<1>8. m \in DOMAIN leaf
  BY <1>2, <1>4, HeaderFacts
<1>9. WritesState(leaf, leaf', {m}, FREE)
  <2>1. FREE \in States
    BY DEF States
  <2>2. WritesState(leaf, [leaf EXCEPT ![m].state = FREE], {m}, FREE)
    BY <1>2, <1>8, <2>1, StateSets
  <2>3. QED
    BY <1>7, <2>2, Zenon
<1>10. /\ Snapshot(leaf, leaf', {m}) /\ Changed(leaf, leaf', {}, {}, {}, {m})
       /\ \A P : Items(leaf, P) => Items(leaf', P)
       /\ \A n \in {m} \intersect DOMAIN leaf : leaf'[n].state = FREE
  BY <1>2, <1>9, StateWrites
<1>11. /\ smo' \in [Threads -> SmoRecord] /\ \A u \in Threads \ {t} : smo'[u] = smo[u]
       /\ smo'[t] = IF smo[t].slave # 0 THEN smo[t] ELSE NoSmo
  BY <1>2, <1>7, DoneIs DEF TypeInv
<1>12. /\ CommitStep(t, {m}, loc)
       /\ Others(t, smo, LocOf, smo', LocOf') /\ LocOf'[t] = loc
  <2>1. loc \in AfterLocs /\ root_null' \in BOOLEAN
    BY <1>1, <1>2 DEF AfterLocs, TypeInv
  <2>2. QED
    BY <1>1, <1>2, <1>7, <1>11, <2>1, SmoCommits
<1>13. SmoFits(leaf', entry, smo'[t], LocOf'[t]) /\ ~Owe(smo'[t], LocOf'[t])
  <2>1. m \in DOMAIN leaf'
    BY <1>8, <1>9 DEF WritesState
  <2>2. smo[t] # NoSmo
    BY <1>4 DEF NoSmo
  <2>3. smo'[t] = NoSmo \/ (smo'[t].operator = -10 /\ smo'[t].master \in DOMAIN leaf')
    BY <1>4, <1>11, <2>1
  <2>4. LocOf'[t] = IF smo'[t] = NoSmo THEN "idle" ELSE "level_down"
    BY <1>11, <1>12, <2>2
  <2>5. QED
    BY <2>3, <2>4, NoSmoFits
<1>14. Proto(leaf', entry, smo', LocOf')
  <2>1. \A n \in {m} : HeaderOn(leaf, n) /\ Own(smo[t], LocOf[t], n) /\ leaf'[n].state = FREE
    BY <1>5, <1>8, <1>10
  <2>2. \A n : HeaderOn(leaf, n) /\ Own(smo[t], LocOf[t], n) => n \in {m}
    BY <1>5
  <2>3. LocOf[t] \notin OrphanLocs /\ LocOf'[t] \notin OrphanLocs
    BY <1>3, <1>12 DEF OrphanLocs
  <2>4. QED
    BY ONLY <1>2, <1>10, <1>12, <1>13, <2>1, <2>2, <2>3, ProtoRelease
<1>15. Proto(leaf', entry', smo', LocOf') /\ Items(leaf', present')
  BY <1>1, <1>2, <1>10, <1>14
<1> HIDE DEF loc
<1>16. QED
  BY <1>1, <1>10, <1>12, <1>15, CommitStays

\* The end of a merge: what t owned is released, and nothing is pending.
LEMMA MergeOver ==
  ASSUME TreeInv, NEW t \in Threads, pc[t] = "level_down", snap[t] # <<>>,
         Others(t, smo, LocOf, smo', LocOf'), LocOf'[t] = "idle", smo'[t] = NoSmo
  PROVE  Proto(leaf, entry, smo', LocOf')
<1>1. Good(leaf) /\ Proto(leaf, entry, smo, LocOf) /\ LocOf[t] = "level_down"
  BY SmoNow DEF TreeInv
<1>2. Changed(leaf, leaf, {}, {}, {}, {})
  BY <1>1, SameHeap
<1>3. \A n : ~Own(smo[t], LocOf[t], n)
  BY <1>1 DEF Own, Owe
<1>4. SmoFits(leaf, entry, smo'[t], LocOf'[t]) /\ ~Owe(smo'[t], LocOf'[t])
  BY NoSmoFits
<1>5. LocOf[t] \notin OrphanLocs /\ LocOf'[t] \notin OrphanLocs
  BY <1>1 DEF OrphanLocs
<1>6. QED
  BY <1>1, <1>2, <1>3, <1>4, <1>5, ProtoRelease

\* The root goes one level down.
LEMMA LevelDownStays ==
  ASSUME TreeInv, NEW t \in Threads, rlu_root_level_down(t)
  PROVE  TreeInv'
<1>1. /\ pc[t] = "level_down" /\ snap[t] # <<>> /\ op' = op /\ p_header' = p_header
      /\ entry' = entry /\ leaf' = leaf /\ root_null' = TRUE /\ present' = present
      /\ Done(t) /\ Commit(t, {ROOT, INNER}, "idle")
  BY DEF rlu_root_level_down, InSection
<1>2. TypeInv /\ Good(leaf) /\ Items(leaf, present)
  BY SmoNow DEF TreeInv
<1>3. smo'[t] = NoSmo /\ smo' \in [Threads -> SmoRecord]
      /\ \A u \in Threads \ {t} : smo'[u] = smo[u]
  BY <1>1, <1>2, DoneIs
<1>4. /\ CommitStep(t, {ROOT, INNER}, "idle")
      /\ Others(t, smo, LocOf, smo', LocOf') /\ LocOf'[t] = "idle"
  <2>1. "idle" \in AfterLocs /\ root_null' \in BOOLEAN
    BY <1>1 DEF AfterLocs
  <2>2. QED
    BY <1>1, <1>2, <1>3, <2>1, SmoCommits
<1>5. Proto(leaf, entry, smo', LocOf')
  BY <1>1, <1>3, <1>4, MergeOver
<1>6. Snapshot(leaf, leaf', {ROOT, INNER})
  BY <1>1, <1>2, SnapshotNow
<1>7. Proto(leaf', entry', smo', LocOf') /\ Items(leaf', present')
  BY <1>1, <1>2, <1>5
<1>8. QED
  BY <1>1, <1>4, <1>6, <1>7, CommitStays

\* The root stays.
LEMMA LevelStaysStays ==
  ASSUME TreeInv, NEW t \in Threads, LevelStays(t)
  PROVE  TreeInv'
<1>1. /\ pc[t] = "level_down" /\ snap[t] # <<>> /\ op' = op /\ p_header' = p_header
      /\ Done(t) /\ LeaveTo(t, "idle")
      /\ pc' = [pc EXCEPT ![t] = "idle"] /\ after' = after /\ snap' = [snap EXCEPT ![t] = <<>>]
  BY DEF LevelStays, InSection, LeaveTo, Leave, Goto
<1>2. TypeInv
  BY DEF TreeInv
<1>3. smo'[t] = NoSmo /\ smo' \in [Threads -> SmoRecord]
      /\ \A u \in Threads \ {t} : smo'[u] = smo[u]
  BY <1>1, <1>2, DoneIs
<1>4. LeaveStep(t, "idle")
  BY <1>1, <1>2, <1>3 DEF LeaveStep, TypeInv, Locs
<1>5. pc'[t] = "idle" /\ Alone(t)
  BY <1>1, <1>2, <1>3 DEF Alone, TypeInv
<1>6. Others(t, smo, LocOf, smo', LocOf') /\ LocOf'[t] = "idle"
  BY <1>5, LocMoves DEF Loc
<1>7. Proto(leaf, entry, smo', LocOf')
  BY <1>1, <1>3, <1>6, MergeOver
<1>8. Held(t)'
  BY <1>5 DEF Held
<1>9. pc[t] # "sync"
  BY <1>1
<1>10. QED
  BY <1>4, <1>7, <1>8, <1>9, LeaveStays

------------------------------------------------------------------------------
(***************************************************************************)
(* Splits                                                                  *)
(***************************************************************************)
\* A split moves no more items than there are.
LEMMA SplitPointFits ==
  ASSUME NEW c \in Nat
  PROVE  (c * distri_r) \div 100 \in 0 .. c
<1>1. distri_r \in 1 .. 100
  BY OptionAssumption
<1>2. c * distri_r \in Nat /\ c * distri_r <= c * 100
  BY <1>1
<1> DEFINE x == c * distri_r
<1> HIDE DEF x
<1>3. x \in Nat /\ x <= 100 * c
  BY <1>2 DEF x
<1>4. x \div 100 \in 0 .. c
  BY <1>3
<1>5. QED
  BY <1>4 DEF x

\* rlu_header_split, which registers the new header for itself.
LEMMA SplitStays ==
  ASSUME TreeInv, NEW t \in Threads, rlu_header_split(t)
  PROVE  TreeInv'
<1> DEFINE h == snap[t][1].leaf
           m == smo[t].master
           w == SplitPlace(t)
           keep == w.keep
           curr == w.curr
           next == w.next
           new == [type |-> HEADER_TYPE, state |-> SPLIT_REGIST, count |-> split_point(h, m),
                   key |-> h[next].key, next |-> next]
           x == Len(leaf) + 1
<1>1. /\ pc[t] = "split" /\ snap[t] # <<>> /\ op' = op /\ p_header' = p_header
      /\ entry' = entry /\ root_null' = root_null /\ present' = present
      /\ leaf' = Append([leaf EXCEPT ![curr].next = Len(leaf) + 1, ![m].count = keep], new)
      /\ smo' = [smo EXCEPT ![t].slave = x]
      /\ Commit(t, {m, curr, next}, "find_parent")
  BY DEF rlu_header_split, InSection, SplitLocks
<1>2. TypeInv /\ Good(leaf) /\ Proto(leaf, entry, smo, LocOf) /\ Items(leaf, present)
      /\ LocOf[t] = "split"
  BY <1>1, SmoNow DEF TreeInv
<1>3. Snapshot(h, leaf, Since(t)) /\ HeaderOn(h, m)
  BY <1>1, SmoNow DEF SnapFits
<1>4. keep = h[m].count - split_point(h, m)
      /\ curr = Path(h, [node |-> m, copy |-> <<>>])[keep]
      /\ next = Path(h, [node |-> m, copy |-> <<>>])[keep + 1]
  BY DEF SplitPlace
<1> HIDE DEF h, m, w
<1>5. Good(h) /\ Nodes(h) /\ Nodes(leaf) /\ m \in DOMAIN h
  BY <1>2, <1>3, HeaderFacts DEF Snapshot, Good
<1>6. h[m].count \in Nat
  BY <1>5, Fields
<1>7. split_point(h, m) \in 0 .. h[m].count
  BY <1>6, SplitPointFits DEF split_point
<1>8. keep \in 0 .. h[m].count /\ split_point(h, m) = h[m].count - keep /\ split_point(h, m) \in Nat
  <2> DEFINE c == h[m].count
             d == split_point(h, m)
  <2>1. c \in Nat /\ d \in 0 .. c /\ keep = c - d
    BY <1>4, <1>6, <1>7
  <2> HIDE DEF c, d, keep
  <2>2. keep \in 0 .. c /\ d = c - keep /\ d \in Nat
    BY <2>1
  <2>3. QED
    BY <2>2 DEF c, d
<1>9. {m, curr, next} \intersect Since(t) = {}
  BY <1>1, LockedSince DEF Commit
<1>10. SplitIn(h, leaf, Since(t), m, keep, curr, next)
  BY <1>3, <1>4, <1>8, <1>9 DEF SplitIn
<1> HIDE DEF keep, curr, next
<1>11. WritesSplit(h, leaf, leaf', m, keep, curr, next)
  <2>1. /\ curr \in DOMAIN leaf /\ next \in DOMAIN leaf /\ m \in DOMAIN leaf /\ next \in DOMAIN h
        /\ keep \in Nat
    BY <1>10, SplitFacts
  <2> DEFINE p == split_point(h, m)
             r == Append([leaf EXCEPT ![curr].next = Len(leaf) + 1, ![m].count = keep], new)
  <2>2. p = h[m].count - keep /\ p \in Nat
    BY <1>8
  <2>3. new = [type |-> HEADER_TYPE, state |-> SPLIT_REGIST, count |-> p, key |-> h[next].key,
               next |-> next]
    OBVIOUS
  <2> HIDE DEF p, new
  <2>4. WritesSplit(h, leaf, r, m, keep, curr, next)
    BY <1>5, <2>1, <2>2, <2>3, SplitForm
  <2>5. leaf' = r
    BY <1>1
  <2> HIDE DEF r
  <2>6. QED
    BY <2>4, <2>5
<1> HIDE DEF new
<1>12. /\ Snapshot(leaf, leaf', {m, curr, next})
       /\ Changed(leaf, leaf', {x}, {}, {m}, {})
       /\ \A P : Items(leaf, P) => Items(leaf', P)
       /\ leaf'[x].state = SPLIT_REGIST
       /\ NextHeader(leaf', m, x)
  BY ONLY <1>10, <1>11, SplitWrites
<1>13. /\ smo' \in [Threads -> SmoRecord] /\ \A u \in Threads \ {t} : smo'[u] = smo[u]
       /\ smo'[t].operator = smo[t].operator /\ smo'[t].master = m /\ smo'[t].slave = x
  <2>1. x \in Nat
    BY <1>5, Fields
  <2> HIDE DEF x
  <2>2. smo \in [Threads -> SmoRecord]
    BY <1>2 DEF TypeInv
  <2>3. QED
    BY <1>1, <2>1, <2>2 DEF SmoRecord, m
<1>14. /\ CommitStep(t, {m, curr, next}, "find_parent")
       /\ Others(t, smo, LocOf, smo', LocOf') /\ LocOf'[t] = "find_parent"
  <2>1. "find_parent" \in AfterLocs /\ root_null' \in BOOLEAN
    BY <1>1, <1>2 DEF AfterLocs, TypeInv
  <2>2. QED
    BY <1>1, <1>2, <1>13, <2>1, SmoCommits
<1>15. Proto(leaf', entry, smo', LocOf')
  <2>1. m = smo[t].master
    BY DEF m
  <2>2. QED
    BY <1>2, <1>12, <1>13, <1>14, <2>1, ProtoSplit
<1>16. Proto(leaf', entry', smo', LocOf') /\ Items(leaf', present')
  BY <1>1, <1>2, <1>12, <1>15
<1>17. INNER \notin {m, curr, next} => entry' = entry
  BY <1>1
<1>18. QED
  BY <1>12, <1>14, <1>16, <1>17, CommitStays

------------------------------------------------------------------------------
(***************************************************************************)
(* Merges                                                                  *)
(***************************************************************************)
\* The walk for the slave's header stops at it, behind the master's items.
LEMMA MergePlaceIs ==
  ASSUME NEW t, NEW h, h = snap[t][1].leaf, Good(h), NEW q \in 0 .. Last(h),
         NextAt(h, smo[t].master, smo[t].slave, q), h[smo[t].slave].key = leaf[smo[t].slave].key
  PROVE  /\ SlavePositions(t) # {}
         /\ MergePlace(t).prev = Chain(h)[q + h[smo[t].master].count]
         /\ MergePlace(t).at = smo[t].slave
<1> DEFINE m == smo[t].master
           s == smo[t].slave
           c == Path(h, [node |-> m, copy |-> <<>>])
           P == {i \in 1 .. Len(h) : h[c[i]].type = HEADER_TYPE /\ h[c[i]].key = h[s].key}
           i == CHOOSE j \in P : \A k \in P : j <= k
           n == h[m].count
<1>1. SlavePositions(t) = P
  BY DEF SlavePositions
<1>2. MergePlace(t).prev = c[i - 1] /\ MergePlace(t).at = c[i]
  BY <1>1, ZenonT(40) DEF MergePlace
<1>3. SlaveSearch(h, m, s, q, c, P)
  BY ZenonT(40) DEF SlaveSearch
<1> HIDE DEF c, P, n
<1>4. /\ n \in Nat /\ n + 1 \in P /\ \A j \in P : n + 1 <= j
      /\ c[n] = Chain(h)[q + n] /\ c[n + 1] = s
  <2> HIDE DEF m, s
  <2>1. QED
    BY ONLY <1>3, SlaveFound DEF n
<1>5. P \subseteq Nat
  <2>1. \A j \in P : j \in 1 .. Len(h)
    BY Zenon DEF P
  <2>2. QED
    BY ONLY <2>1
<1>6. i = n + 1
  <2>1. n + 1 \in P /\ \A k \in P : n + 1 <= k
    BY <1>4
  <2>2. i \in P /\ \A k \in P : i <= k
    BY <2>1, Zenon
  <2> HIDE DEF i
  <2>3. i \in Nat /\ n \in Nat /\ i <= n + 1 /\ n + 1 <= i
    BY <1>4, <1>5, <2>2
  <2>4. QED
    BY <2>3
<1> HIDE DEF i
<1>7. i - 1 = n
  BY <1>4, <1>6
<1>8. QED
  BY <1>1, <1>2, <1>4, <1>6, <1>7, ZenonT(40) DEF n

\* rlu_header_merge, which takes the slave's header and entry away.
LEMMA MergeStays ==
  ASSUME TreeInv, NEW t \in Threads, rlu_header_merge(t)
  PROVE  TreeInv'
<1> DEFINE h == snap[t][1].leaf
           m == smo[t].master
           s == smo[t].slave
           w == MergePlace(t)
           prev == w.prev
<1>1. /\ pc[t] = "merge" /\ snap[t] # <<>> /\ op' = op /\ p_header' = p_header
      /\ SlavePositions(t) # {} =>
           /\ leaf' = [leaf EXCEPT ![m].count = @ + leaf[w.at].count, ![prev].next = h[w.at].next]
           /\ Commit(t, {m, prev, w.at}, "release_master")
           /\ entry' = entry /\ root_null' = root_null /\ smo' = smo /\ present' = present
  BY DEF rlu_header_merge, InSection, MergeLocks
<1>2. TypeInv /\ Good(leaf) /\ Proto(leaf, entry, smo, LocOf) /\ Items(leaf, present)
      /\ LocOf[t] = "merge"
  BY <1>1, SmoNow DEF TreeInv
<1>3. Snapshot(h, leaf, Since(t)) /\ NextHeader(h, m, s)
  BY <1>1, SmoNow DEF SnapFits
<1>4. Good(h) /\ s \in DOMAIN h
  BY <1>3, NextFacts, HeaderFacts DEF Snapshot
<1>5. h[s].key = leaf[s].key
  BY <1>3, <1>4 DEF Snapshot, Grown
<1>6. PICK q \in 0 .. Last(h) : NextAt(h, m, s, q)
  BY <1>3 DEF NextHeader
<1>7. SlavePositions(t) # {} /\ prev = Chain(h)[q + h[m].count] /\ w.at = s
  BY <1>4, <1>5, <1>6, MergePlaceIs, ZenonT(40)
<1>8. /\ leaf' = [leaf EXCEPT ![m].count = @ + leaf[s].count, ![prev].next = h[s].next]
      /\ Commit(t, {m, prev, s}, "release_master")
      /\ entry' = entry /\ root_null' = root_null /\ smo' = smo /\ present' = present
  BY <1>1, <1>7, ZenonT(40)
<1>9. {m, prev, s} \intersect Since(t) = {}
  BY <1>8, LockedSince DEF Commit
<1> HIDE DEF h, m, s, w, prev
<1>10. MergeIn(h, leaf, Since(t), m, s, q, prev)
  BY <1>3, <1>6, <1>7, <1>9 DEF MergeIn
<1>11. WritesMerge(h, leaf, leaf', m, s, prev)
  <2>1. /\ prev \in DOMAIN leaf /\ m \in DOMAIN leaf /\ h[s].next \in DOMAIN leaf
        /\ leaf[m].count + leaf[s].count \in Nat /\ Nodes(leaf)
    BY <1>2, <1>10, MergeFacts DEF Good
  <2> DEFINE r == [leaf EXCEPT ![m].count = @ + leaf[s].count, ![prev].next = h[s].next]
  <2>2. WritesMerge(h, leaf, r, m, s, prev)
    BY <2>1, MergeForm
  <2>3. leaf' = r
    BY <1>8
  <2> HIDE DEF r
  <2>4. QED
    BY <2>2, <2>3
<1>12. /\ Snapshot(leaf, leaf', {m, prev, s})
       /\ Changed(leaf, leaf', {}, {s}, {m, s}, {})
       /\ \A P : Items(leaf, P) => Items(leaf', P)
  BY ONLY <1>10, <1>11, MergeWrites
<1>13. /\ CommitStep(t, {m, prev, s}, "release_master")
       /\ Others(t, smo, LocOf, smo', LocOf') /\ LocOf'[t] = "release_master"
  <2>1. "release_master" \in AfterLocs /\ root_null' \in BOOLEAN
        /\ smo' \in [Threads -> SmoRecord] /\ \A u \in Threads \ {t} : smo'[u] = smo[u]
    BY <1>2, <1>8 DEF AfterLocs, TypeInv
  <2>2. QED
    BY <1>1, <1>2, <1>8, <2>1, SmoCommits
<1>14. Proto(leaf', entry, smo', LocOf')
  <2>1. m = smo[t].master /\ s = smo[t].slave
    BY DEF m, s
  <2>2. smo'[t] = smo[t]
    BY <1>8
  <2>3. QED
    BY <1>2, <1>12, <1>13, <2>1, <2>2, ProtoMerge
<1>15. Proto(leaf', entry', smo', LocOf') /\ Items(leaf', present')
  BY <1>2, <1>8, <1>12, <1>14
<1>16. QED
  BY <1>8, <1>12, <1>13, <1>15, CommitStays

------------------------------------------------------------------------------
(***************************************************************************)
(* Splits and merges: the parent                                           *)
(***************************************************************************)
LEMMA DistinctNow ==
  ASSUME Good(leaf), DistinctHeaders
  PROVE  Distinct(leaf)
<1>1. \A n \in InList : TRUE
  OBVIOUS
<1>2. \A n : n \in InList <=> OnList(leaf, n)
  BY ListIs
<1>3. QED
  BY <1>2 DEF DistinctHeaders, Distinct, HeaderOn, IsHeader

\* A section that holds the parent sees its entries.
LEMMA EntriesSeen ==
  ASSUME TreeInv, NEW t \in Threads, snap[t] # <<>>, INNER \notin Locked(t)
  PROVE  snap[t][1].entry = entry
<1>1. {INNER} \intersect Since(t) = {}
  BY LockedSince
<1>2. QED
  BY <1>1, SmoNow DEF SnapFits

\* Keys are those of one entry.
LEMMA EntryOfKey ==
  ASSUME NEW h, NEW es, Good(h), Entries(h, es), NEW j \in DOMAIN es, NEW k, k = es[j].key
  PROVE  /\ {i \in DOMAIN es : es[i].key = k} = {j}
         /\ EntrySearch(es, k) = j
<1>1. es \in Seq(EntryRecord) /\ DOMAIN es = 1 .. Len(es) /\ Len(es) \in Nat
  BY DEF Entries, EntryRecord
<1>2. \A i \in DOMAIN es : es[i].key \in Nat
  BY <1>1, EntryKeys
<1>3. ASSUME NEW i \in DOMAIN es, es[i].key = k PROVE i = j
  <2>1. \A a, b \in DOMAIN es : a < b => es[a].key < es[b].key
    BY DEF Entries
  <2>2. es[i].key \in Nat /\ es[j].key \in Nat /\ es[i].key = es[j].key
    BY <1>2, <1>3
  <2>3. ~(i < j) /\ ~(j < i)
    BY <2>1, <2>2
  <2>4. i \in 1 .. Len(es) /\ j \in 1 .. Len(es)
    BY <1>1
  <2>5. QED
    BY <1>1, <2>3, <2>4
<1>4. EntrySearch(es, k) = j
  BY <1>2, EntryFound
<1>5. QED
  BY <1>3, <1>4

\* rlu_inner_split_update puts the new header's entry behind its master's.
LEMMA ParentUpdateStays ==
  ASSUME TreeInv, FreshPointers, DistinctHeaders, NEW t \in Threads, rlu_inner_split_update(t)
  PROVE  TreeInv'
<1> DEFINE s == smo[t].slave
           m == m_point(t)
           new == [key |-> leaf[s].key, child |-> s]
<1>1. /\ pc[t] = "update" /\ snap[t] # <<>> /\ op' = op /\ p_header' = p_header /\ smo' = smo
      /\ IF MasterEntries(t) = {} THEN LeaveTo(t, "find_parent")
         ELSE /\ entry' = SubSeq(entry, 1, m) \o <<new>> \o SubSeq(entry, m + 1, Len(entry))
              /\ Commit(t, {INNER}, "release")
              /\ leaf' = leaf /\ root_null' = root_null /\ present' = present
  BY DEF rlu_inner_split_update, InSection
<1>2. CASE MasterEntries(t) = {}
  <2>1. LeaveTo(t, "find_parent") /\ pc[t] # "sync"
    BY <1>1, <1>2
  <2>2. "find_parent" \in Locs \ {"sync", "descend", "leaf", "search"}
    BY DEF Locs, FromRoot
  <2>3. Moves(smo[t], pc[t], "find_parent")
    BY <1>1 DEF Moves
  <2>4. QED
    BY <1>1, <2>1, <2>2, <2>3, LeavesCalmly
<1>3. CASE MasterEntries(t) # {}
  <2>1. /\ entry' = SubSeq(entry, 1, m) \o <<new>> \o SubSeq(entry, m + 1, Len(entry))
        /\ Commit(t, {INNER}, "release")
        /\ leaf' = leaf /\ root_null' = root_null /\ present' = present
    BY <1>1, <1>3
  <2>2. /\ TypeInv /\ Good(leaf) /\ Proto(leaf, entry, smo, LocOf) /\ Items(leaf, present)
        /\ Entries(leaf, entry) /\ LocOf[t] = "update" /\ SmoFits(leaf, entry, smo[t], "update")
    BY <1>1, SmoNow DEF TreeInv
  <2>3. snap[t][1].entry = entry
    BY <1>1, <2>1, EntriesSeen DEF Commit
  <2>4. SeenEntries(t) = entry
    BY <2>3 DEF SeenEntries, FreshPointers
  <2>5. /\ HeaderOn(leaf, smo[t].master) /\ HeaderOn(leaf, s)
        /\ HasEntry(entry, smo[t].master)
    <3>1. Owe(smo[t], "update") /\ HeaderOn(leaf, smo[t].master) /\ HeaderOn(leaf, s)
      BY <2>2, SmoFacts
    <3>2. QED
      BY <2>2, <3>1 DEF SmoFits
  <2>6. PICK j \in DOMAIN entry : entry[j].child = smo[t].master
    BY <2>5 DEF HasEntry
  <2>7. entry[j].key = leaf[smo[t].master].key
    BY <2>2, <2>6 DEF Entries
  <2>8. MasterEntries(t) = {j}
    <3>1. {i \in DOMAIN entry : entry[i].key = leaf[smo[t].master].key} = {j}
      BY <2>2, <2>7, EntryOfKey
    <3>2. QED
      BY <2>4, <3>1 DEF MasterEntries
  <2>9. m = j
    <3>1. entry \in Seq(EntryRecord) /\ j \in Nat
      BY <2>2 DEF Entries, EntryRecord
    <3>2. QED
      BY <2>8, <3>1 DEF m_point
  <2> HIDE DEF m
  <2>10. AddsEntry(leaf, entry, j, s, entry')
    <3>1. leaf[s].key \in 0 .. MaxKey + 1 /\ s \in Nat
      <4>1. s \in DOMAIN leaf /\ Nodes(leaf)
        BY <2>2, <2>5, HeaderFacts DEF Good
      <4>2. QED
        BY <4>1, Fields
    <3>2. entry \in Seq(EntryRecord) /\ j \in 1 .. Len(entry)
      BY <2>2 DEF Entries, EntryRecord
    <3>3. entry' = SubSeq(entry, 1, j) \o <<[key |-> leaf[s].key, child |-> s]>>
                   \o SubSeq(entry, j + 1, Len(entry))
      BY <2>1, <2>9
    <3> HIDE DEF s
    <3>4. QED
      BY <3>1, <3>2, <3>3, EntrySplices
  <2>11. /\ CommitStep(t, {INNER}, "release")
         /\ Others(t, smo, LocOf, smo', LocOf') /\ LocOf'[t] = "release"
    <3>1. "release" \in AfterLocs /\ root_null' \in BOOLEAN
          /\ smo' \in [Threads -> SmoRecord] /\ \A u \in Threads \ {t} : smo'[u] = smo[u]
      BY <1>1, <2>1, <2>2 DEF AfterLocs, TypeInv
    <3>2. QED
      BY <1>1, <2>1, <2>2, <3>1, SmoCommits
  <2>12. Proto(leaf, entry', smo', LocOf')
    <3>1. Distinct(leaf)
      BY <2>2, DistinctNow
    <3>2. smo'[t] = smo[t]
      BY <1>1
    <3>3. QED
      BY <2>2, <2>6, <2>10, <2>11, <3>1, <3>2, ProtoUpdate
  <2>13. Snapshot(leaf, leaf', {INNER})
    BY <2>1, <2>2, SnapshotNow
  <2>14. Proto(leaf', entry', smo', LocOf') /\ Items(leaf', present')
    BY <2>1, <2>2, <2>12
  <2>15. QED
    BY <2>11, <2>13, <2>14, CommitStays
<1>4. QED
  BY <1>2, <1>3

\* The partner a section finds, and the position i of the left one of the two.
LEMMA PartnerIs ==
  ASSUME NEW t, NEW es, es = snap[t][1].entry, Good(leaf), Entries(leaf, es), Len(es) > 1,
         HasEntry(es, smo[t].master), NEW e, e = EntrySearch(es, leaf[smo[t].master].key),
         NEW m, m = IF PartnerEntry(t) > e THEN e ELSE PartnerEntry(t)
  PROVE  /\ m \in DOMAIN es /\ m + 1 \in DOMAIN es
         /\ {es[m].child, es[m + 1].child} = {smo[t].master, Partner(t)}
         /\ HasEntry(es, Partner(t))
<1>1. PICK j \in DOMAIN es : es[j].child = smo[t].master
  BY DEF HasEntry
<1>2. es[j].key = leaf[smo[t].master].key
  BY <1>1 DEF Entries
<1>3. e = j
  BY <1>2, EntryOfKey
<1>4. DOMAIN es = 1 .. Len(es) /\ Len(es) \in Nat
  BY SMTT(40) DEF Entries
<1>5. PartnerEntry(t) = IF e < Len(es) THEN e + 1 ELSE e - 1
  BY DEF PartnerEntry
<1>6. Partner(t) = es[PartnerEntry(t)].child
  BY DEF Partner
<1>7. CASE e < Len(es)
  <2>1. PartnerEntry(t) = e + 1 /\ m = e /\ m \in DOMAIN es /\ m + 1 \in DOMAIN es
    BY <1>3, <1>4, <1>5, <1>7
  <2>2. QED
    BY <1>1, <1>3, <1>6, <2>1 DEF HasEntry
<1>8. CASE ~(e < Len(es))
  <2>1. PartnerEntry(t) = e - 1 /\ m = e - 1 /\ m \in DOMAIN es /\ m + 1 \in DOMAIN es /\ m + 1 = e
    BY <1>3, <1>4, <1>5, <1>8
  <2>2. QED
    BY <1>1, <1>3, <1>6, <2>1 DEF HasEntry
<1>9. QED
  BY <1>7, <1>8, ZenonT(40)

\* rlu_header_partner_search registers the neighbour in the parent that is free;
\* the neighbour in the parent is the neighbour in the list.
LEMMA PartnerStays ==
  ASSUME TreeInv, DistinctHeaders, NEW t \in Threads, rlu_header_partner_search(t)
  PROVE  TreeInv'
<1> DEFINE es == snap[t][1].entry
           h  == snap[t][1].leaf
           e  == EntrySearch(es, leaf[smo[t].master].key)
           m  == IF PartnerEntry(t) > e THEN e ELSE PartnerEntry(t)
           p  == Partner(t)
           a  == es[m].child
           b  == es[m + 1].child
<1>1. /\ pc[t] = "partner" /\ snap[t] # <<>> /\ op' = op /\ p_header' = p_header
      /\ Len(es) > 1 /\ PartnerFree(t)
      /\ leaf' = [leaf EXCEPT ![p].state = MERGE_REGIST]
      /\ smo' = [smo EXCEPT ![t].master = a, ![t].slave = b]
      /\ entry' = RemoveEntry(es, m + 1)
      /\ Commit(t, {p, INNER}, "merge")
      /\ root_null' = root_null /\ present' = present
  BY ZenonT(40) DEF rlu_header_partner_search, InSection
<1>2. /\ TypeInv /\ Good(leaf) /\ Proto(leaf, entry, smo, LocOf) /\ Items(leaf, present)
      /\ Entries(leaf, entry) /\ LocOf[t] = "partner" /\ SmoFits(leaf, entry, smo[t], "partner")
  BY <1>1, SmoNow, ZenonT(40) DEF TreeInv
<1>3. {p, INNER} \intersect Locked(t) = {} /\ {p, INNER} \intersect Since(t) = {}
  BY <1>1, LockedSince, ZenonT(40) DEF Commit
<1>4. es = entry
  BY <1>1, <1>3, EntriesSeen, ZenonT(40)
<1>5. HasEntry(entry, smo[t].master)
  <2>1. smo[t].operator = -10
    BY <1>2 DEF SmoFits, OpLocs, SplitLocs
  <2>2. Owe(smo[t], "partner")
    BY <2>1 DEF Owe
  <2>3. QED
    BY <1>2, <2>2 DEF SmoFits
<1>6. /\ m \in DOMAIN es /\ m + 1 \in DOMAIN es
      /\ {a, b} = {smo[t].master, p} /\ HasEntry(es, p)
  <2>1. Entries(leaf, es) /\ HasEntry(es, smo[t].master)
    BY <1>2, <1>4, <1>5
  <2>2. QED
    BY <1>1, <1>2, <2>1, PartnerIs, ZenonT(40)
<1>7. HeaderOn(leaf, p) /\ p \in DOMAIN leaf /\ leaf[p].state = FREE
  <2>1. HeaderOn(leaf, p)
    BY <1>2, <1>4, <1>6 DEF Entries, HasEntry
  <2>2. p \in DOMAIN h /\ Snapshot(h, leaf, Since(t))
    <3>1. SnapFits(t)
      BY SmoNow
    <3>2. QED
      BY <1>1, <1>6, <3>1, ZenonT(40) DEF SnapFits, HasEntry
  <2>3. leaf[p] = h[p]
    BY <1>3, <2>2 DEF Snapshot, Grown
  <2>4. h[p].state = FREE
    BY <1>1, ZenonT(40) DEF PartnerFree
  <2>5. QED
    BY <1>2, <2>1, <2>3, <2>4, HeaderFacts
<1> HIDE DEF p, m, h
<1>8. WritesState(leaf, leaf', {p}, MERGE_REGIST)
  <2>1. MERGE_REGIST \in States
    BY DEF States
  <2>2. WritesState(leaf, [leaf EXCEPT ![p].state = MERGE_REGIST], {p}, MERGE_REGIST)
    BY <1>2, <1>7, <2>1, StateSets
  <2>3. QED
    BY <1>1, <2>2, Zenon
<1>9. /\ Snapshot(leaf, leaf', {p}) /\ Changed(leaf, leaf', {}, {}, {}, {p})
      /\ \A P : Items(leaf, P) => Items(leaf', P)
      /\ \A n \in {p} \intersect DOMAIN leaf : leaf'[n].state = MERGE_REGIST
  BY <1>2, <1>8, StateWrites
<1>10. a \in Nat /\ b \in Nat
  <2>1. \A i \in 1 .. Len(entry) : entry[i].child \in Nat
    BY <1>2, EntryKeys
  <2>2. DOMAIN entry = 1 .. Len(entry)
    BY <1>2 DEF Entries
  <2>3. QED
    BY <1>4, <1>6, <2>1, <2>2
<1>11. DropsEntry(entry, m + 1, entry')
  <2>1. entry \in Seq(EntryRecord) /\ m + 1 \in 1 .. Len(entry)
    BY <1>2, <1>4, <1>6 DEF Entries, EntryRecord
  <2>2. entry' = RemoveEntry(entry, m + 1)
    BY <1>1, <1>4
  <2>3. QED
    BY ONLY <2>1, <2>2, EntrySplices
<1>12. /\ smo' \in [Threads -> SmoRecord] /\ \A u \in Threads \ {t} : smo'[u] = smo[u]
       /\ smo'[t].operator = smo[t].operator /\ smo'[t].master = a /\ smo'[t].slave = b
  <2>1. smo \in [Threads -> SmoRecord]
    BY <1>2 DEF TypeInv
  <2> HIDE DEF a, b
  <2>2. smo'[t] = [operator |-> smo[t].operator, master |-> a, slave |-> b]
    BY <1>1, <2>1 DEF SmoRecord
  <2>3. QED
    BY <1>1, <1>10, <2>1, <2>2 DEF SmoRecord
<1>13. /\ CommitStep(t, {p, INNER}, "merge")
       /\ Others(t, smo, LocOf, smo', LocOf') /\ LocOf'[t] = "merge"
  <2>1. "merge" \in AfterLocs /\ root_null' \in BOOLEAN
    BY <1>1, <1>2 DEF AfterLocs, TypeInv
  <2>2. QED
    BY <1>1, <1>2, <1>12, <2>1, SmoCommits, ZenonT(40)
<1>14. Proto(leaf', entry', smo', LocOf')
  <2>1. Distinct(leaf)
    BY <1>2, DistinctNow
  <2>2. m \in DOMAIN entry /\ m + 1 \in DOMAIN entry /\ a = entry[m].child /\ b = entry[m + 1].child
        /\ leaf'[p].state = MERGE_REGIST
    BY <1>4, <1>6, <1>7, <1>9
  <2> HIDE DEF a, b, es
  <2>3. QED
    BY ONLY <1>2, <1>6, <1>7, <1>9, <1>11, <1>12, <1>13, <2>1, <2>2, ProtoPartner, SMTT(40)
<1>15. Snapshot(leaf, leaf', {p, INNER})
  <2>1. Snapshot(leaf, leaf, {})
    BY <1>2, SnapshotNow
  <2>2. QED
    BY <1>9, <2>1, SnapshotCompose
<1>16. Items(leaf', present')
  BY <1>1, <1>2, <1>9
<1>17. QED
  BY <1>13, <1>14, <1>15, <1>16, CommitStays

------------------------------------------------------------------------------
(***************************************************************************)
(* The invariant holds in every state                                      *)
(***************************************************************************)
LEMMA InitList ==
  ASSUME Init
  PROVE  /\ Good(leaf) /\ Last(leaf) = 1
         /\ Chain(leaf)[0] = HEAD /\ Chain(leaf)[1] = TAIL
<1> DEFINE L == [i \in 0 .. 1 |-> IF i = 0 THEN HEAD ELSE TAIL]
           a == [type |-> HEADER_TYPE, state |-> FREE, count |-> 0, key |-> 0, next |-> TAIL]
           b == [type |-> TAIL_TYPE, state |-> FREE, count |-> 0, key |-> MaxKey + 1, next |-> TAIL]
<1>1. leaf = <<a, b>>
  BY DEF Init
<1>2. a \in LeafNode /\ b \in LeafNode /\ MaxKey \in Nat
  BY OptionAssumption DEF LeafNode, HEADER_TYPE, TAIL_TYPE, NORMAL, FREE, TAIL, MERGE_REGIST,
                          SPLIT_REGIST
<1>3. leaf \in Seq(LeafNode) /\ Len(leaf) = 2 /\ DOMAIN leaf = {1, 2}
      /\ leaf[1] = a /\ leaf[2] = b
  <2> HIDE DEF a, b
  <2>1. leaf \in Seq(LeafNode) /\ Len(leaf) = 2 /\ leaf[1] = a /\ leaf[2] = b
    BY <1>1, <1>2
  <2>2. DOMAIN leaf = 1 .. 2
    BY <2>1
  <2>3. QED
    BY <2>1, <2>2
<1>4. Nodes(leaf)
  BY <1>2, <1>3 DEF Nodes, HEADER_TYPE, TAIL_TYPE, NORMAL, TAIL, HEAD
<1>5. Linked(leaf, L, 1)
  <2>1. L \in [0 .. 1 -> DOMAIN leaf] /\ L[0] = HEAD /\ L[1] = TAIL
    BY <1>3 DEF HEAD, TAIL
  <2>2. \A i \in 0 .. 0 : i = 0
    OBVIOUS
  <2>3. leaf[HEAD].next = TAIL /\ HEAD # TAIL
    BY <1>3 DEF HEAD, TAIL
  <2> HIDE DEF L
  <2>4. QED
    BY <1>3, <2>1, <2>2, <2>3 DEF Linked
<1>6. Ordered(leaf, L, 1)
  <2>1. \A i, j \in 0 .. 1 : i < j => i = 0 /\ j = 1
    OBVIOUS
  <2>2. L[0] = HEAD /\ L[1] = TAIL
    OBVIOUS
  <2>3. HEAD # TAIL /\ leaf[HEAD].key <= leaf[TAIL].key /\ leaf[HEAD].type = HEADER_TYPE
    BY <1>2, <1>3 DEF HEAD, TAIL
  <2> HIDE DEF L
  <2>4. QED
    BY <2>1, <2>2, <2>3 DEF Ordered
<1>7. Counted(leaf, L, 1)
  <2>1. \A i \in 0 .. 1 : i = 0 \/ i = 1
    OBVIOUS
  <2>2. L[0] = HEAD /\ L[1] = TAIL
    OBVIOUS
  <2>3. leaf[HEAD].count = 0 /\ leaf[TAIL].type = TAIL_TYPE
    BY <1>3 DEF HEAD, TAIL
  <2>4. CountedAt(leaf, L, 1, 0)
    BY <2>2, <2>3 DEF CountedAt, TAIL_TYPE, NORMAL
  <2> HIDE DEF L
  <2>5. QED
    BY <2>1, <2>2, <2>3, <2>4 DEF Counted, HEADER_TYPE, TAIL_TYPE
<1>8. IsList(leaf, L, 1)
  BY <1>5, <1>6, <1>7 DEF IsList
<1>9. Chain(leaf) = L /\ Last(leaf) = 1 /\ Good(leaf)
  BY <1>4, <1>8, ChainIs
<1>10. QED
  BY <1>9

\* The tree rlu_new_root builds.
LEMMA InitProto ==
  ASSUME Init
  PROVE  Proto(leaf, entry, smo, LocOf) /\ Items(leaf, present)
<1>1. Good(leaf) /\ Last(leaf) = 1 /\ Chain(leaf)[0] = HEAD /\ Chain(leaf)[1] = TAIL
  BY InitList
<1>2. leaf[HEAD].type = HEADER_TYPE /\ leaf[HEAD].state = FREE /\ leaf[HEAD].key = 0
      /\ leaf[TAIL].type = TAIL_TYPE
  BY DEF Init, HEAD, TAIL
<1>3. \A n : OnList(leaf, n) => n = HEAD \/ n = TAIL
  <2>1. \A i \in 0 .. 1 : i = 0 \/ i = 1
    OBVIOUS
  <2>2. QED
    BY <1>1, <2>1 DEF OnList
<1>4. HeaderOn(leaf, HEAD)
  BY <1>1, HeaderFacts
<1>5. \A n : HeaderOn(leaf, n) => n = HEAD
  BY <1>2, <1>3 DEF HeaderOn, HEADER_TYPE, TAIL_TYPE
<1>6. ASSUME NEW t \in Threads PROVE smo[t].operator = 0 /\ LocOf[t] = "idle"
  BY <1>6 DEF Init, LocOf, Loc, NoSmo
<1>7. \A t \in Threads : SmoFits(leaf, entry, smo[t], LocOf[t])
  BY <1>6 DEF SmoFits, OpLocs, OrphanLocs, Owe
<1>8. Owners(leaf, smo, LocOf)
  BY <1>2, <1>5, <1>6 DEF Owners, Own, Owe
<1>9. Entries(leaf, entry)
  <2>1. entry = <<[key |-> 0, child |-> HEAD]>>
    BY DEF Init
  <2>2. [key |-> 0, child |-> HEAD] \in [key : 0 .. MaxKey + 1, child : Nat]
    BY OptionAssumption DEF HEAD
  <2>3. /\ entry \in Seq([key : 0 .. MaxKey + 1, child : Nat]) /\ Len(entry) = 1
        /\ DOMAIN entry = 1 .. 1 /\ entry[1].child = HEAD /\ entry[1].key = 0
    BY <2>1, <2>2
  <2>4. \A i \in 1 .. 1 : i = 1
    OBVIOUS
  <2>5. \A i \in DOMAIN entry : i = 1
    BY <2>3, <2>4
  <2>6. QED
    BY <1>2, <1>4, <2>3, <2>5 DEF Entries
<1>10. Orphans(leaf, entry, smo, LocOf)
  <2>1. entry[1].child = HEAD /\ 1 \in DOMAIN entry
    BY DEF Init
  <2>2. HasEntry(entry, HEAD)
    BY <2>1 DEF HasEntry
  <2>3. QED
    BY <1>5, <1>6, <2>2 DEF Orphans, OrphanLocs
<1>11. Items(leaf, present)
  <2>1. present = {}
    BY DEF Init
  <2>2. \A n : OnList(leaf, n) => leaf[n].type # NORMAL
    BY <1>2, <1>3 DEF HEADER_TYPE, TAIL_TYPE, NORMAL
  <2>3. QED
    BY <2>1, <2>2 DEF Items
<1>12. QED
  BY <1>1, <1>7, <1>8, <1>9, <1>10, <1>11 DEF Proto

\* The invariant holds at first.
LEMMA TreeInit ==
  Init => TreeInv
<1> SUFFICES ASSUME Init PROVE TreeInv
  OBVIOUS
<1>1. TypeInv
  <2>1. NoSmo \in SmoRecord
    BY DEF NoSmo, SmoRecord
  <2>2. "idle" \in Locs /\ "idle" \in AfterLocs
    BY DEF Locs, AfterLocs
  <2>3. QED
    BY <2>1, <2>2 DEF Init, TypeInv
<1>2. SectionInv
  BY DEF Init, SectionInv, SectionOk
<1>3. SnapInv
  BY DEF Init, SnapInv, SnapFits
<1>4. HeldInv
  BY DEF Init, HeldInv, Held
<1>5. QED
  BY <1>1, <1>2, <1>3, <1>4, InitProto DEF TreeInv

\* Every step keeps the invariant.
LEMMA TreeNext ==
  TreeInv /\ FreshPointers /\ DistinctHeaders /\ [Next]_vars => TreeInv'
<1> SUFFICES ASSUME TreeInv, FreshPointers, DistinctHeaders, [Next]_vars PROVE TreeInv'
  OBVIOUS
<1>1. stop \in BOOLEAN /\ crashed \in BOOLEAN
  BY DEF TreeInv, TypeInv
<1>2. ASSUME NEW t \in Threads, Operate(t) PROVE TreeInv'
  BY <1>2, StartStays, DescendStays, SearchStays, AddStays, RemoveStays, UpdateStays, NothingStays,
     RestartStays DEF Operate
<1>3. ASSUME NEW t \in Threads, Split(t) PROVE TreeInv'
  BY <1>3, SplitStays, FindParentStays, ParentUpdateStays, UpdateRestartStays, ReleaseBothStays
     DEF Split
<1>4. ASSUME NEW t \in Threads, Merge(t) PROVE TreeInv'
  BY <1>4, PartnerStays, NoPartnerStays, MergeStays, ReleaseMasterStays, LevelDownStays,
     LevelStaysStays DEF Merge
<1>5. ASSUME NEW t \in Threads, NullRoot(t) PROVE TreeInv'
  BY <1>1, <1>5, ProcessStays DEF NullRoot
<1>6. ASSUME NEW t \in Threads, ThreadStep(t) PROVE TreeInv'
  BY <1>2, <1>3, <1>4, <1>5, <1>6, BeginStays, WritebackStays, StartSmoStays, SmoRestartStays,
     ReturnStays DEF ThreadStep
<1>7. CASE StopThreads
  BY <1>1, <1>7, ProcessStays DEF StopThreads
<1>8. CASE UNCHANGED vars
  BY <1>1, <1>8, ProcessStays DEF vars, process
<1>9. QED
  BY <1>6, <1>7, <1>8 DEF Next

\* The inductive invariant of the leaf list and its parent: types, sections,
\* snapshots, held headers, pending SMOs and items.
THEOREM TreeInvHolds ==
  Spec /\ []FreshPointers /\ []DistinctHeaders => []TreeInv
<1>1. Init => TreeInv
  BY TreeInit
<1>2. TreeInv /\ FreshPointers /\ DistinctHeaders /\ [Next]_vars => TreeInv'
  BY TreeNext
<1>3. QED
  BY <1>1, <1>2, PTL DEF Spec

------------------------------------------------------------------------------
(***************************************************************************)
(* What the invariant says                                                 *)
(***************************************************************************)
LEMMA TreeNow ==
  ASSUME TreeInv
  PROVE  /\ Good(leaf) /\ Nodes(leaf) /\ IsList(leaf, Chain(leaf), Last(leaf))
         /\ Entries(leaf, entry) /\ Owners(leaf, smo, LocOf) /\ Orphans(leaf, entry, smo, LocOf)
         /\ Items(leaf, present) /\ TypeInv
         /\ \A n : n \in InList <=> OnList(leaf, n)
<1>1. Good(leaf)
  BY DEF TreeInv, Proto
<1>2. \A n : n \in InList <=> OnList(leaf, n)
  BY <1>1, ListIs
<1>3. QED
  BY <1>1, <1>2 DEF TreeInv, Proto, Good

\* Entries lead to nodes.
LEMMA SeqInto ==
  ASSUME NEW R, NEW S, NEW s \in Seq(R), \A i \in DOMAIN s : s[i] \in S
  PROVE  s \in Seq(S)
<1>1. DOMAIN s = 1 .. Len(s) /\ Len(s) \in Nat /\ s = [i \in 1 .. Len(s) |-> s[i]]
  OBVIOUS
<1> DEFINE n == Len(s)
<1>2. n \in Nat /\ s = [i \in 1 .. n |-> s[i]] /\ \A i \in 1 .. n : s[i] \in S
  BY <1>1
<1> HIDE DEF n
<1>3. s \in [1 .. n -> S]
  BY <1>2
<1>4. QED
  BY <1>2, <1>3

\* The invariant gives the types.
LEMMA TypesFollow ==
  ASSUME TreeInv
  PROVE  TypeOK
<1>1. LeafTypes
  BY TreeNow DEF LeafTypes, Nodes, LeafNode
<1>2. entry \in Seq([key : 0 .. MaxKey + 1, child : DOMAIN leaf]) /\ entry # <<>>
  <2>1. /\ entry \in Seq([key : 0 .. MaxKey + 1, child : Nat]) /\ Len(entry) >= 1
        /\ \A i \in DOMAIN entry : HeaderOn(leaf, entry[i].child)
    BY TreeNow DEF Entries
  <2>2. \A i \in DOMAIN entry : entry[i].child \in DOMAIN leaf
    BY <2>1, TreeNow, HeaderFacts
  <2>3. \A i \in DOMAIN entry : entry[i] \in [key : 0 .. MaxKey + 1, child : DOMAIN leaf]
    <3> DEFINE R == [key : 0 .. MaxKey + 1, child : Nat]
    <3>1. \A i \in DOMAIN entry : entry[i] \in R
      <4>1. entry \in Seq(R)
        BY <2>1
      <4> HIDE DEF R
      <4>2. QED
        BY <4>1
    <3>2. ASSUME NEW i \in DOMAIN entry, NEW e, e = entry[i]
          PROVE  e \in [key : 0 .. MaxKey + 1, child : DOMAIN leaf]
      <4>1. e \in [key : 0 .. MaxKey + 1, child : Nat] /\ e.child \in DOMAIN leaf
        BY <2>2, <3>1, <3>2
      <4>2. QED
        BY <4>1
    <3>3. QED
      BY <3>2
  <2>4. entry \in Seq([key : 0 .. MaxKey + 1, child : DOMAIN leaf])
    BY <2>1, <2>3, SeqInto
  <2>5. entry # <<>>
    BY <2>1
  <2>6. QED
    BY <2>4, <2>5
<1>3. ASSUME NEW t \in Threads
      PROVE  /\ smo[t].operator \in {-10, 0, 10}
             /\ smo[t].operator # 0 => smo[t].master \in DOMAIN leaf
             /\ pc[t] \in {"find_parent", "update", "release", "merge"} => smo[t].slave \in DOMAIN leaf
  <2>1. Good(leaf) /\ SmoFits(leaf, entry, smo[t], Loc(t)) /\ (pc[t] # "sync" => Loc(t) = pc[t])
    BY SmoNow
  <2>2. ASSUME pc[t] \in {"find_parent", "update", "release", "merge"}
        PROVE  smo[t].slave \in DOMAIN leaf
    <3>1. HeaderOn(leaf, smo[t].slave)
      BY <2>1, <2>2, SmoFacts
    <3>2. QED
      BY <2>1, <3>1, HeaderFacts
  <2>3. QED
    BY <2>1, <2>2 DEF SmoFits
<1>4. after \in [Threads -> Locs]
  <2>1. AfterLocs \subseteq Locs
    BY DEF AfterLocs, Locs, WriteSections, FromRoot
  <2>2. QED
    BY <2>1 DEF TreeInv, TypeInv
<1>5. present \subseteq Keys /\ root_null \in BOOLEAN /\ stop \in BOOLEAN /\ crashed \in BOOLEAN
      /\ pc \in [Threads -> Locs]
  BY TreeNow DEF TypeInv, Items
<1>6. QED
  BY <1>1, <1>2, <1>3, <1>4, <1>5 DEF TypeOK

\* The invariant gives the order of the list.
LEMMA OrderFollows ==
  ASSUME TreeInv
  PROVE  ListSorted
<1> DEFINE L == Chain(leaf)
           N == Last(leaf)
<1>1. /\ \A i \in 0 .. Len(leaf) : List[i] = IF i <= N THEN L[i] ELSE TAIL
      /\ IsList(leaf, L, N) /\ Nodes(leaf)
  BY TreeNow, ListIs
<1>2. /\ N \in Nat /\ N < Len(leaf) /\ Len(leaf) \in Nat /\ L[N] = TAIL
      /\ \A i \in 0 .. N : leaf[L[i]].key \in 0 .. MaxKey + 1
  BY <1>1, ListFacts
<1> HIDE DEF L, N
<1>3. ASSUME NEW i \in 0 .. Len(leaf) - 1, List[i] # TAIL
      PROVE  \/ leaf[List[i]].key < leaf[List[i + 1]].key
             \/ IsHeader(List[i]) /\ leaf[List[i]].key = leaf[List[i + 1]].key
  <2>1. i \in 0 .. N /\ i # N
    <3>1. i \in 0 .. Len(leaf)
      BY <1>2
    <3>2. List[i] = IF i <= N THEN L[i] ELSE TAIL
      BY <1>1, <3>1
    <3>3. QED
      BY <1>2, <1>3, <3>2
  <2>2. i + 1 \in 0 .. N /\ i < i + 1 /\ i + 1 \in 0 .. Len(leaf) /\ i \in 0 .. Len(leaf)
    BY <1>2, <2>1
  <2>3. List[i] = L[i] /\ List[i + 1] = L[i + 1]
    BY <1>1, <2>1, <2>2
  <2>4. /\ leaf[L[i]].key <= leaf[L[i + 1]].key
        /\ leaf[L[i]].type # HEADER_TYPE => leaf[L[i]].key < leaf[L[i + 1]].key
    BY <1>1, <2>1, <2>2 DEF IsList, Ordered
  <2>5. leaf[L[i]].key \in Int /\ leaf[L[i + 1]].key \in Int
    BY <1>2, <2>1, <2>2
  <2>6. QED
    BY <2>3, <2>4, <2>5 DEF IsHeader
<1>4. QED
  BY <1>3 DEF ListSorted

\* The invariant gives the counts.
LEMMA CountsFollow ==
  ASSUME TreeInv
  PROVE  CountsMatch
<1> DEFINE L == Chain(leaf)
           N == Last(leaf)
<1>1. /\ \A i \in 0 .. Len(leaf) : List[i] = IF i <= N THEN L[i] ELSE TAIL
      /\ IsList(leaf, L, N) /\ Nodes(leaf)
  BY TreeNow, ListIs
<1>2. /\ N \in Nat /\ N < Len(leaf) /\ Len(leaf) \in Nat
      /\ \A i \in 0 .. N : leaf[L[i]].count \in Nat
  BY <1>1, ListFacts
<1>3. leaf[TAIL].type = TAIL_TYPE
  BY <1>1 DEF Nodes
<1> HIDE DEF L, N
<1>4. ASSUME NEW i \in 0 .. Len(leaf), IsHeader(List[i])
      PROVE  leaf[List[i]].count = Cardinality(ItemsBehind(i))
  <2> DEFINE c == leaf[L[i]].count
  <2>1. i \in 0 .. N /\ List[i] = L[i] /\ leaf[L[i]].type = HEADER_TYPE
    <3>1. List[i] # TAIL
      BY <1>3, <1>4 DEF IsHeader, HEADER_TYPE, TAIL_TYPE
    <3>2. i <= N
      BY <1>1, <3>1
    <3>3. QED
      BY <1>1, <1>2, <1>4, <3>2 DEF IsHeader
  <2>2. CountedAt(leaf, L, N, i)
    BY <1>1, <2>1 DEF IsList, Counted
  <2>3. /\ c \in Nat /\ i + c + 1 <= N
        /\ \A j \in i + 1 .. i + c : leaf[L[j]].type = NORMAL
        /\ leaf[L[i + c + 1]].type # NORMAL
    BY <1>2, <2>1, <2>2 DEF CountedAt
  <2> HIDE DEF c
  <2>4. \A j \in i + 1 .. i + c + 1 : j \in 0 .. N /\ j \in 0 .. Len(leaf) /\ List[j] = L[j]
    BY <1>1, <1>2, <2>1, <2>3
  <2>5. ASSUME NEW j \in i + 1 .. i + c PROVE j \in ItemsBehind(i)
    <3>1. j \in i + 1 .. Len(leaf)
      BY <1>2, <2>1, <2>3, <2>5
    <3>2. ASSUME NEW m \in i + 1 .. j PROVE leaf[List[m]].type = NORMAL
      <4>1. m \in i + 1 .. i + c /\ m \in i + 1 .. i + c + 1
        BY <2>1, <2>3, <2>5, <3>2
      <4>2. QED
        BY <2>3, <2>4, <4>1
    <3>3. QED
      BY <3>1, <3>2 DEF ItemsBehind
  <2>6. ASSUME NEW j \in ItemsBehind(i) PROVE j \in i + 1 .. i + c
    <3>1. j \in i + 1 .. Len(leaf) /\ \A m \in i + 1 .. j : leaf[List[m]].type = NORMAL
      BY <2>6 DEF ItemsBehind
    <3>2. SUFFICES ASSUME ~(j <= i + c) PROVE FALSE
      BY <2>1, <2>3, <3>1
    <3>3. i + c + 1 \in i + 1 .. j /\ i + c + 1 \in i + 1 .. i + c + 1
      BY <2>1, <2>3, <3>1, <3>2
    <3>4. QED
      BY <2>3, <2>4, <3>1, <3>3
  <2>7. ItemsBehind(i) = i + 1 .. i + c
    BY <2>5, <2>6
  <2>8. Cardinality(i + 1 .. i + c) = c
    <3> DEFINE a == i + 1
               b == i + c
    <3>1. a \in Int /\ b \in Int /\ (IF a > b THEN 0 ELSE b - a + 1) = c
      BY <2>1, <2>3
    <3> HIDE DEF a, b
    <3>2. Cardinality(a .. b) = IF a > b THEN 0 ELSE b - a + 1
      BY <3>1, FS_Interval
    <3>3. Cardinality(a .. b) = c
      BY <3>1, <3>2
    <3>4. QED
      BY <3>3 DEF a, b
  <2>9. QED
    BY <2>1, <2>7, <2>8 DEF c
<1>5. QED
  BY <1>4 DEF CountsMatch

\* The invariant gives the keys of the items.
LEMMA ItemsFollow ==
  ASSUME TreeInv
  PROVE  NothingLost
<1>1. /\ \A k : k \in present <=> \E n : OnList(leaf, n) /\ leaf[n].type = NORMAL /\ leaf[n].key = k
      /\ \A n : n \in InList <=> OnList(leaf, n)
  BY TreeNow DEF Items
<1>2. QED
  BY <1>1 DEF NothingLost

\* A place of a key is where an item with the key is.
LEMMA FoundAt ==
  ASSUME NEW h, Good(h), NEW P, Items(h, P), NEW k \in Keys, NEW w, NEW q, NEW p,
         PlaceAt(h, w, k, q, p)
  PROVE  w.found <=> k \in P
<1> DEFINE L == Chain(h)
           N == Last(h)
<1>1. /\ p \in 0 .. N - 1 /\ w.prev = L[p] /\ w.at = L[p + 1]
      /\ h[w.prev].key <= k /\ (h[w.prev].type # HEADER_TYPE => h[w.prev].key < k)
      /\ Stops(h[w.at], k)
  BY DEF PlaceAt
<1>12. w.found <=> h[w.at].key = k
  BY Zenon DEF PlaceAt
<1>2. IsList(h, L, N) /\ Nodes(h)
  BY DEF Good
<1>3. N \in Nat /\ \A i \in 0 .. N : h[L[i]].key \in 0 .. MaxKey + 1
  BY <1>2, ListFacts
<1>4. \A i, j \in 0 .. N : i < j => /\ h[L[i]].key <= h[L[j]].key
                                    /\ h[L[i]].type # HEADER_TYPE => h[L[i]].key < h[L[j]].key
  BY <1>2 DEF IsList, Ordered
<1>5. \A x : x \in P <=> \E n : OnList(h, n) /\ h[n].type = NORMAL /\ h[n].key = x
  BY DEF Items
<1>6. k \in Int
  BY DEF Keys
<1>7. \A n : OnList(h, n) <=> \E i \in 0 .. N : L[i] = n
  BY DEF OnList
<1> HIDE DEF L, N
<1>8. p \in 0 .. N /\ p + 1 \in 0 .. N
  BY <1>1, <1>3
<1>9. ASSUME w.found PROVE k \in P
  <2>1. h[w.at].key = k /\ h[w.at].type = NORMAL
    BY <1>1, <1>3, <1>6, <1>8, <1>9, <1>12 DEF Stops
  <2>2. OnList(h, w.at)
    BY <1>1, <1>7, <1>8
  <2>3. QED
    BY <1>5, <2>1, <2>2
<1>10. ASSUME k \in P PROVE w.found
  <2>1. PICK j \in 0 .. N : h[L[j]].type = NORMAL /\ h[L[j]].key = k
    BY <1>5, <1>7, <1>10
  <2>2. h[L[j]].type # HEADER_TYPE
    BY <2>1 DEF NORMAL, HEADER_TYPE
  <2>3. CASE j < p
    <3>1. k < h[L[p]].key
      BY <1>4, <1>8, <2>1, <2>2, <2>3
    <3>2. QED
      BY <1>1, <1>3, <1>6, <1>8, <3>1
  <2>4. CASE j = p
    BY <1>1, <1>6, <2>1, <2>2, <2>4
  <2>5. CASE j = p + 1
    BY <1>1, <1>12, <2>1, <2>5
  <2>6. CASE j > p + 1
    <3>1. h[L[p + 1]].key <= k
      BY <1>4, <1>8, <2>1, <2>6
    <3>2. h[L[p + 1]].key \in Int
      BY <1>3, <1>8
    <3>3. QED
      BY <1>1, <1>6, <1>12, <3>1, <3>2 DEF Stops
  <2>7. QED
    BY <1>3, <1>8, <2>1, <2>3, <2>4, <2>5, <2>6
<1>11. QED
  BY <1>1, <1>9, <1>10

\* The invariant gives what a search from a held header finds.
LEMMA HeldFollows ==
  ASSUME TreeInv
  PROVE  HeldHeaderSuffices
<1>1. ASSUME NEW t \in Threads, pc[t] \in {"leaf", "search"}, FreshHeader(t)
      PROVE  Locate(leaf, p_header[t], op[t].key).found <=> op[t].key \in present
  <2> DEFINE k == op[t].key
             w == Locate(leaf, p_header[t], k)
  <2>1. Held(t) /\ Good(leaf)
    BY SmoNow
  <2>2. /\ k \in Keys /\ leaf[p_header[t].node].type = HEADER_TYPE
        /\ leaf[p_header[t].node].key <= k
    BY <1>1, <2>1 DEF Held
  <2>3. HeaderOn(leaf, p_header[t].node)
        /\ (p_header[t].copy = <<>> \/ p_header[t].copy = <<leaf[p_header[t].node]>>)
    BY <1>1, <2>2, TreeNow DEF FreshHeader, HeaderOn
  <2> HIDE DEF k
  <2>4. PICK p \in 0 .. Last(leaf) - 1, q \in 0 .. Last(leaf) : PlaceAt(leaf, w, k, q, p)
    BY <2>1, <2>2, <2>3, PlaceFound
  <2> HIDE DEF w
  <2>5. w.found <=> k \in present
    BY <2>1, <2>2, <2>4, TreeNow, FoundAt
  <2>6. QED
    BY <2>5 DEF w, k
<1>2. QED
  BY <1>1 DEF HeldHeaderSuffices

\* The invariant gives the parent's entries.
LEMMA ParentFollows ==
  ASSUME TreeInv
  PROVE  ParentKnowsPartitions
<1>1. /\ Entries(leaf, entry) /\ Owners(leaf, smo, LocOf) /\ Orphans(leaf, entry, smo, LocOf)
      /\ \A n : n \in InList <=> OnList(leaf, n)
  BY TreeNow
<1>2. ASSUME NEW i \in DOMAIN entry
      PROVE  /\ entry[i].child \in InList /\ IsHeader(entry[i].child)
             /\ entry[i].key = leaf[entry[i].child].key
             /\ i > 1 => entry[i - 1].key <= entry[i].key
  <2>1. HeaderOn(leaf, entry[i].child) /\ entry[i].key = leaf[entry[i].child].key
    BY <1>1 DEF Entries
  <2>2. ASSUME i > 1 PROVE entry[i - 1].key <= entry[i].key
    <3>1. DOMAIN entry = 1 .. Len(entry) /\ Len(entry) \in Nat
      BY <1>1 DEF Entries
    <3>2. i - 1 \in DOMAIN entry /\ i - 1 < i
      BY <2>2, <3>1
    <3>3. entry[i - 1].key < entry[i].key
      <4>1. \A x, y \in DOMAIN entry : x < y => entry[x].key < entry[y].key
        BY <1>1 DEF Entries
      <4>2. QED
        BY <3>2, <4>1
    <3>4. entry[i - 1].key \in Nat /\ entry[i].key \in Nat
      BY <1>1, <3>1, <3>2, EntryKeys
    <3>5. QED
      BY <3>3, <3>4
  <2>3. QED
    BY <1>1, <2>1, <2>2 DEF HeaderOn, IsHeader
<1>3. ASSUME NEW n \in InList, IsHeader(n), leaf[n].state = FREE
      PROVE  \E i \in DOMAIN entry : entry[i].child = n
  <2>1. HeaderOn(leaf, n)
    BY <1>1, <1>3 DEF HeaderOn, IsHeader
  <2>2. ASSUME NEW t \in Threads, LocOf[t] \in OrphanLocs, smo[t].slave = n PROVE FALSE
    <3>1. Good(leaf) /\ SmoFits(leaf, entry, smo[t], LocOf[t])
      BY SmoNow
    <3>2. Own(smo[t], LocOf[t], n)
      BY <2>2, <3>1, SmoFacts DEF OrphanLocs, Own
    <3>3. leaf[n].state = Wanted(smo[t])
      BY <1>1, <2>1, <3>2 DEF Owners
    <3>4. QED
      BY <1>3, <3>3 DEF Wanted, FREE, SPLIT_REGIST, MERGE_REGIST
  <2>3. QED
    BY <1>1, <2>1, <2>2 DEF Orphans, HasEntry
<1>4. QED
  BY <1>2, <1>3 DEF ParentKnowsPartitions

\* The invariant gives the owners of the registered headers.
LEMMA OwnersFollow ==
  ASSUME TreeInv
  PROVE  RegisteredByOne
<1>1. Owners(leaf, smo, LocOf) /\ \A n : n \in InList <=> OnList(leaf, n)
  BY TreeNow
<1>2. ASSUME NEW u \in Threads, NEW n
      PROVE  Own(smo[u], LocOf[u], n) <=> Owes(u) /\ n \in {smo[u].master, smo[u].slave}
  <2>1. LocOf[u] = Loc(u)
    BY DEF LocOf
  <2>2. Owes(u) <=> Owe(smo[u], Loc(u))
    BY DEF Owes, Owe, Loc
  <2>3. QED
    BY <2>1, <2>2 DEF Own
<1>3. ASSUME NEW n \in InList, IsHeader(n), leaf[n].state # FREE
      PROVE  \E t \in Threads : \A u \in Threads :
               u = t <=> Owes(u) /\ n \in {smo[u].master, smo[u].slave}
  <2>1. HeaderOn(leaf, n)
    BY <1>1, <1>3 DEF HeaderOn, IsHeader
  <2>2. PICK t \in Threads : Own(smo[t], LocOf[t], n)
    BY <1>1, <1>3, <2>1 DEF Owners
  <2>3. \A u \in Threads : Own(smo[u], LocOf[u], n) => u = t
    BY <1>1, <2>1, <2>2 DEF Owners
  <2>4. \A u \in Threads : u = t <=> Own(smo[u], LocOf[u], n)
    BY <2>2, <2>3
  <2>5. QED
    BY <1>2, <2>4
<1>4. QED
  BY <1>3 DEF RegisteredByOne

\* The invariant gives the states the releases find.
LEMMA ReleasesFollow ==
  ASSUME TreeInv
  PROVE  NoSectionLeaked
<1>1. ASSUME NEW t \in Threads, pc[t] = "leaked" PROVE FALSE
  <2>1. SmoFits(leaf, entry, smo[t], "leaked")
    BY <1>1, SmoNow
  <2>2. QED
    BY <2>1 DEF SmoFits, OpLocs, SplitLocs, MergeLocs
<1>2. QED
  BY <1>1 DEF NoSectionLeaked

------------------------------------------------------------------------------
(***************************************************************************)
(* The properties                                                          *)
(***************************************************************************)
\* TypeOK: nodes, entries and pending SMOs name what exists.
THEOREM TypeCorrect ==
  Spec /\ []FreshPointers /\ []DistinctHeaders => []TypeOK
<1>1. TreeInv => TypeOK
  BY TypesFollow
<1>2. QED
  BY <1>1, TreeInvHolds, PTL

\* ListSorted: under concurrent adds, removes, splits and merges, which write at
\* places they found in their snapshots and lock three nodes at most, headers and
\* items stay in key order.
THEOREM StaysSorted ==
  Spec /\ []FreshPointers /\ []DistinctHeaders => []ListSorted
<1>1. TreeInv => ListSorted
  BY OrderFollows
<1>2. QED
  BY <1>1, TreeInvHolds, PTL

\* CountsMatch: rlu_leaf_add, rlu_leaf_remove, rlu_header_split and
\* rlu_header_merge keep each header's count equal to the number of items behind it.
THEOREM StaysCounted ==
  Spec /\ []FreshPointers /\ []DistinctHeaders => []CountsMatch
<1>1. TreeInv => CountsMatch
  BY CountsFollow
<1>2. QED
  BY <1>1, TreeInvHolds, PTL

\* NothingLost: the list holds the keys added and not removed, so no committed
\* add or remove is lost to another one, to a split or to a merge.
THEOREM KeysKept ==
  Spec /\ []FreshPointers /\ []DistinctHeaders => []NothingLost
<1>1. TreeInv => NothingLost
  BY ItemsFollow
<1>2. QED
  BY <1>1, TreeInvHolds, PTL

\* HeldHeaderSuffices: from the header an operation carries from its first section
\* to its second, which may have been split or refilled in between, the key is
\* found exactly if it is in the tree.
THEOREM KeyIsFound ==
  Spec /\ []FreshPointers /\ []DistinctHeaders => []HeldHeaderSuffices
<1>1. TreeInv => HeldHeaderSuffices
  BY HeldFollows
<1>2. QED
  BY <1>1, TreeInvHolds, PTL

\* ParentKnowsPartitions: the parent's entries are headers of the list in key
\* order, and a partition that no split or merge is registered for has one, after
\* every rlu_inner_split_update and rlu_header_merge.
THEOREM ParentComplete ==
  Spec /\ []FreshPointers /\ []DistinctHeaders => []ParentKnowsPartitions
<1>1. TreeInv => ParentKnowsPartitions
  BY ParentFollows
<1>2. QED
  BY <1>1, TreeInvHolds, PTL

\* RegisteredByOne: a header in state SPLIT_REGIST or MERGE_REGIST belongs to one
\* thread's pending SMO, and no two threads ever work on one partition.
THEOREM OneOwner ==
  Spec /\ []FreshPointers /\ []DistinctHeaders => []RegisteredByOne
<1>1. TreeInv => RegisteredByOne
  BY OwnersFollow
<1>2. QED
  BY <1>1, TreeInvHolds, PTL

\* NoSectionLeaked: the release functions find the states they release, so that
\* no thread takes the return without RLU_READER_UNLOCK (lb_tree.c:866).
THEOREM NothingLeaked ==
  Spec /\ []FreshPointers /\ []DistinctHeaders => []NoSectionLeaked
<1>1. TreeInv => NoSectionLeaked
  BY ReleasesFollow
<1>2. QED
  BY <1>1, TreeInvHolds, PTL
==============================================================================
