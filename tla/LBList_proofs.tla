---------------------------- MODULE LBList_proofs ----------------------------
(***************************************************************************)
(* Lemmas about the leaf list of LBTree: a heap of nodes whose pointers    *)
(* lead from the head to the tail is a sequence of positions, and each     *)
(* write of lb_tree.c, to a copy of the heap as it was when the section    *)
(* began, is an insertion, a removal or a change of one field of that      *)
(* sequence.  Nothing here is about the steps of the threads.              *)
(***************************************************************************)
EXTENDS LBTree, TLAPS, FiniteSetTheorems, SequenceTheorems, WellFoundedInduction

------------------------------------------------------------------------------
(***************************************************************************)
(* The leaf list as a sequence of positions                                *)
(***************************************************************************)
LeafNode == [type : {NORMAL, HEADER_TYPE, TAIL_TYPE},
             state : {MERGE_REGIST, FREE, SPLIT_REGIST},
             count : Nat, key : 0 .. MaxKey + 1, next : Nat]

\* The nodes of a heap: one head, one tail, every pointer leads to a node.
Nodes(h) ==
  /\ h \in Seq(LeafNode) /\ Len(h) >= 2
  /\ \A n \in DOMAIN h : h[n].next \in DOMAIN h
  /\ h[HEAD].type = HEADER_TYPE /\ h[HEAD].key = 0
  /\ h[TAIL].type = TAIL_TYPE /\ h[TAIL].key = MaxKey + 1 /\ h[TAIL].next = TAIL
  /\ \A n \in DOMAIN h :
       /\ n # TAIL => h[n].type # TAIL_TYPE
       /\ h[n].type = NORMAL => h[n].key <= MaxKey

\* L numbers the nodes from the head to the tail.
Linked(h, L, N) ==
  /\ N \in Nat /\ N < Len(h) /\ L \in [0 .. N -> DOMAIN h]
  /\ L[0] = HEAD /\ L[N] = TAIL
  /\ \A i \in 0 .. N - 1 : L[i] # TAIL /\ h[L[i]].next = L[i + 1]

\* Keys grow along L; only behind a header may the same key follow.
Ordered(h, L, N) ==
  \A i, j \in 0 .. N : i < j =>
    /\ L[i] # L[j]
    /\ h[L[i]].key <= h[L[j]].key
    /\ h[L[i]].type # HEADER_TYPE => h[L[i]].key < h[L[j]].key

\* Behind a header come as many items as it counts, and no further one.
CountedAt(h, L, N, i) ==
  /\ i + h[L[i]].count + 1 <= N
  /\ \A j \in i + 1 .. i + h[L[i]].count : h[L[j]].type = NORMAL
  /\ h[L[i + h[L[i]].count + 1]].type # NORMAL

Counted(h, L, N) == \A i \in 0 .. N : h[L[i]].type = HEADER_TYPE => CountedAt(h, L, N, i)

IsList(h, L, N) == Linked(h, L, N) /\ Ordered(h, L, N) /\ Counted(h, L, N)

\* The partition at position i of L is at position k of M, node for node.
SamePart(h, L, i, g, M, K, k) ==
  /\ k \in 0 .. K /\ k + h[L[i]].count + 1 <= K
  /\ g[M[k]].count = h[L[i]].count
  /\ \A j \in 0 .. h[L[i]].count + 1 : M[k + j] = L[i + j]

\* So are all partitions but those of the headers in S.
PartsStay(h, L, N, g, M, K, S) ==
  \A i \in 0 .. N : h[L[i]].type = HEADER_TYPE /\ L[i] \notin S =>
    \E k \in 0 .. K : SamePart(h, L, i, g, M, K, k)

\* Nodes keep their type and key, and all of them if they are not in S.
Grown(h, g, S) ==
  /\ Len(h) <= Len(g)
  /\ \A n \in DOMAIN h : /\ g[n].type = h[n].type /\ g[n].key = h[n].key
                         /\ n \notin S => g[n] = h[n]

HeadPtr == [node |-> HEAD, copy |-> <<>>]

\* Any property of naturals that holds somewhere holds first somewhere.
LEMMA Least ==
  ASSUME NEW S \in SUBSET Nat, S # {}
  PROVE  \E n \in S : \A m \in S : n <= m
<1>1. IsWellFoundedOn(OpToRel(<, Nat), Nat)
  BY NatLessThanWellFounded
<1>2. PICK n \in S : \A m \in S : <<m, n>> \notin OpToRel(<, Nat)
  BY <1>1, WFMin
<1>3. \A m \in S : ~(m < n)
  BY <1>2 DEF OpToRel
<1>4. QED
  BY <1>3

\* Two functions with the recursive equation of a path are equal: at the first
\* place where they differed the places before would differ.
LEMMA PathEq ==
  ASSUME NEW h, NEW p, NEW w, Len(h) \in Nat,
         NEW first, first = IF p.copy = <<>> THEN h[p.node] ELSE p.copy[1],
         w = [i \in 0 .. Len(h) |-> w[i]],
         \A i \in 0 .. Len(h) :
           /\ i = 0 => w[i] = p.node
           /\ i = 1 => w[i] = first.next
           /\ i > 1 => w[i] = h[w[i - 1]].next
  PROVE  Path(h, p) = w
<1> DEFINE Steps(c) == [i \in 0 .. Len(h) |->
                          IF i = 0 THEN p.node ELSE IF i = 1 THEN first.next ELSE h[c[i - 1]].next]
<1>1. Path(h, p) = CHOOSE c : c = Steps(c)
  BY DEF Path
<1>2. w = Steps(w)
  <2>1. \A i \in 0 .. Len(h) :
          w[i] = IF i = 0 THEN p.node ELSE IF i = 1 THEN first.next ELSE h[w[i - 1]].next
    <3>1. TAKE i \in 0 .. Len(h)
    <3>2. i = 0 \/ i = 1 \/ (i > 1 /\ i # 0 /\ i # 1)
      OBVIOUS
    <3>3. QED
      BY <3>2, Zenon
  <2>2. QED
    BY <2>1, Zenon
<1>3. ASSUME NEW c, c = Steps(c) PROVE c = w
  <2>1. ASSUME NEW f, NEW g, f = Steps(g)
        PROVE  /\ f = [i \in 0 .. Len(h) |-> f[i]]
               /\ \A i \in 0 .. Len(h) : i = 0 => f[i] = p.node
               /\ \A i \in 0 .. Len(h) : i = 1 => f[i] = first.next
               /\ \A i \in 0 .. Len(h) : i > 1 => f[i] = h[g[i - 1]].next
    BY <2>1
  <2> HIDE DEF Steps
  <2>2. c = [i \in 0 .. Len(h) |-> c[i]] /\ w = [i \in 0 .. Len(h) |-> w[i]]
    BY <1>2, <1>3, <2>1
  <2>3. \A i \in 0 .. Len(h) : i = 0 \/ i = 1 => c[i] = w[i]
    BY <1>2, <1>3, <2>1
  <2>4. \A i \in 0 .. Len(h) : i > 1 => c[i] = h[c[i - 1]].next /\ w[i] = h[w[i - 1]].next
    BY <1>2, <1>3, <2>1
  <2>5. ASSUME NEW j \in 0 .. Len(h), c[j] # w[j] PROVE FALSE
    <3> DEFINE S == {i \in 0 .. Len(h) : c[i] # w[i]}
    <3>1. S \in SUBSET Nat /\ S # {}
      <4>1. S \subseteq 0 .. Len(h) /\ 0 .. Len(h) \subseteq Nat
        OBVIOUS
      <4>2. j \in S
        BY <2>5
      <4>3. QED
        BY <4>1, <4>2
    <3>2. PICK i \in S : \A m \in S : i <= m
      BY <3>1, Least
    <3>3. i \in 0 .. Len(h) /\ c[i] # w[i]
      OBVIOUS
    <3>4. i > 1
      BY <2>3, <3>3
    <3>5. i - 1 \in 0 .. Len(h) /\ i - 1 \notin S
      BY <3>2, <3>3, <3>4
    <3>6. c[i - 1] = w[i - 1]
      BY <3>5
    <3>7. c[i] = h[c[i - 1]].next /\ w[i] = h[w[i - 1]].next
      BY <2>4, <3>3, <3>4, Zenon
    <3>8. QED
      BY <3>3, <3>6, <3>7
  <2>6. \A i \in 0 .. Len(h) : c[i] = w[i]
    BY <2>5
  <2>7. QED
    BY <2>2, <2>6
<1>4. (CHOOSE c : c = Steps(c)) = w
  <2> HIDE DEF Steps
  <2>1. QED
    BY <1>2, <1>3
<1>5. QED
  BY <1>1, <1>4

\* The types of a heap's nodes and of their fields.
LEMMA NodeFacts ==
  ASSUME NEW h, Nodes(h)
  PROVE  /\ Len(h) \in Nat /\ DOMAIN h = 1 .. Len(h) /\ HEAD \in DOMAIN h /\ TAIL \in DOMAIN h
         /\ \A n \in DOMAIN h :
              /\ h[n] \in LeafNode
              /\ h[n].type \in {NORMAL, HEADER_TYPE, TAIL_TYPE}
              /\ h[n].state \in {MERGE_REGIST, FREE, SPLIT_REGIST}
              /\ h[n].count \in Nat /\ h[n].key \in 0 .. MaxKey + 1
              /\ h[n].next \in DOMAIN h
<1>1. h \in Seq(LeafNode) /\ Len(h) >= 2 /\ \A n \in DOMAIN h : h[n].next \in DOMAIN h
  BY DEF Nodes
<1>2. Len(h) \in Nat /\ DOMAIN h = 1 .. Len(h) /\ \A n \in DOMAIN h : h[n] \in LeafNode
  BY <1>1
<1>3. HEAD \in DOMAIN h /\ TAIL \in DOMAIN h
  BY <1>1, <1>2 DEF HEAD, TAIL
<1>4. ASSUME NEW r \in LeafNode
      PROVE  /\ r.type \in {NORMAL, HEADER_TYPE, TAIL_TYPE}
             /\ r.state \in {MERGE_REGIST, FREE, SPLIT_REGIST}
             /\ r.count \in Nat /\ r.key \in 0 .. MaxKey + 1
  BY DEF LeafNode
<1>5. QED
  BY <1>1, <1>2, <1>3, <1>4

\* A walk from a position of the list follows the list and stays at the tail.
LEMMA PathAlong ==
  ASSUME NEW h, NEW L, NEW N, Nodes(h), Linked(h, L, N),
         NEW g \in 0 .. N, NEW p, p.node = L[g],
         p.copy = <<>> \/ p.copy = <<h[p.node]>>
  PROVE  \A i \in 0 .. Len(h) :
           /\ g + i <= N => Path(h, p)[i] = L[g + i]
           /\ g + i > N => Path(h, p)[i] = TAIL
<1> DEFINE w == [i \in 0 .. Len(h) |-> IF g + i <= N THEN L[g + i] ELSE TAIL]
           first == IF p.copy = <<>> THEN h[p.node] ELSE p.copy[1]
<1>1. first = h[p.node]
  <2>1. CASE p.copy = <<>>
    BY <2>1
  <2>2. CASE p.copy # <<>>
    BY <2>2
  <2>3. QED
    BY <2>1, <2>2
<1>2. Len(h) \in Nat /\ Len(h) >= 2 /\ N \in Nat /\ g \in Nat /\ g <= N
  BY NodeFacts DEF Nodes, Linked
<1>3. \A i \in 0 .. N - 1 : h[L[i]].next = L[i + 1]
  BY DEF Linked
<1>4. L[N] = TAIL /\ h[TAIL].next = TAIL
  BY DEF Linked, Nodes
<1>5. ASSUME NEW i \in 0 .. Len(h), i > 0
      PROVE  w[i] = h[w[i - 1]].next
  <2>1. w[i] = (IF g + i <= N THEN L[g + i] ELSE TAIL)
    BY Zenon
  <2>2. i - 1 \in 0 .. Len(h) /\ w[i - 1] = (IF g + (i - 1) <= N THEN L[g + (i - 1)] ELSE TAIL)
    BY <1>2, <1>5
  <2> HIDE DEF w
  <2>3. CASE g + i <= N
    <3>1. g + (i - 1) \in 0 .. N - 1 /\ (g + (i - 1)) + 1 = g + i /\ g + (i - 1) <= N
      BY <1>2, <1>5, <2>3
    <3>2. QED
      BY <1>3, <2>1, <2>2, <2>3, <3>1
  <2>4. CASE ~(g + i <= N)
    <3>1. w[i] = TAIL
      BY <2>1, <2>4
    <3>2. CASE g + (i - 1) <= N
      <4>1. g + (i - 1) = N
        BY <1>2, <1>5, <2>4, <3>2
      <4>2. QED
        BY <1>4, <2>2, <3>1, <3>2, <4>1
    <3>3. CASE ~(g + (i - 1) <= N)
      BY <1>4, <2>2, <3>1, <3>3
    <3>4. QED
      BY <3>2, <3>3
  <2>5. QED
    BY <2>3, <2>4
<1>6. 0 \in 0 .. Len(h) /\ 1 \in 0 .. Len(h) /\ g + 0 = g
  BY <1>2
<1>7. w[0] = p.node
  BY <1>2, <1>6
<1>8. w[1] = first.next
  <2> HIDE DEF w
  <2>1. 1 - 1 = 0 /\ 1 > 0
    OBVIOUS
  <2>2. w[1] = h[w[1 - 1]].next
    BY <1>5, <1>6, <2>1
  <2>3. QED
    BY <1>1, <1>7, <2>1, <2>2
<1>9. w = [i \in 0 .. Len(h) |-> w[i]]
  OBVIOUS
<1>10. \A i \in 0 .. Len(h) : w[i] = IF g + i <= N THEN L[g + i] ELSE TAIL
  OBVIOUS
<1> HIDE DEF w
<1>11. \A i \in 0 .. Len(h) : /\ i = 0 => w[i] = p.node
                              /\ i = 1 => w[i] = first.next
                              /\ i > 1 => w[i] = h[w[i - 1]].next
  <2> HIDE DEF first
  <2>1. QED
    BY <1>5, <1>7, <1>8
<1>12. Path(h, p) = w
  BY <1>2, <1>9, <1>11, PathEq
<1>13. QED
  BY <1>2, <1>10, <1>12

\* So a heap has one list.
LEMMA OneList ==
  ASSUME NEW h, NEW L, NEW N, NEW M, NEW K, Nodes(h), Linked(h, L, N), Linked(h, M, K)
  PROVE  L = M /\ N = K
<1>1. N \in Nat /\ K \in Nat /\ N < Len(h) /\ K < Len(h) /\ Len(h) \in Nat
      /\ L = [i \in 0 .. N |-> L[i]] /\ M = [i \in 0 .. K |-> M[i]]
      /\ L[0] = HEAD /\ M[0] = HEAD
  BY NodeFacts DEF Linked
<1>2. HeadPtr.node = HEAD /\ HeadPtr.copy = <<>>
  BY DEF HeadPtr
<1>3. \A i \in 0 .. Len(h) : /\ 0 + i <= N => Path(h, HeadPtr)[i] = L[0 + i]
                             /\ 0 + i > N => Path(h, HeadPtr)[i] = TAIL
  <2>1. 0 \in 0 .. N
    BY <1>1
  <2>2. QED
    BY <1>1, <1>2, <2>1, PathAlong, SMTT(40)
<1>4. \A i \in 0 .. Len(h) : /\ 0 + i <= K => Path(h, HeadPtr)[i] = M[0 + i]
                             /\ 0 + i > K => Path(h, HeadPtr)[i] = TAIL
  <2>1. 0 \in 0 .. K
    BY <1>1
  <2>2. QED
    BY <1>1, <1>2, <2>1, PathAlong
<1>5. \A i \in 0 .. Len(h) : /\ i <= N /\ i <= K => L[i] = M[i]
                             /\ i <= N /\ i > K => L[i] = TAIL
                             /\ i > N /\ i <= K => M[i] = TAIL
  <2> DEFINE P == Path(h, HeadPtr)
  <2> HIDE DEF P
  <2>1. \A i \in 0 .. Len(h) : 0 + i = i
    BY <1>1
  <2>2. QED
    BY <1>1, <1>3, <1>4, <2>1 DEF P
<1>6. (\A i \in 0 .. N - 1 : L[i] # TAIL) /\ (\A i \in 0 .. K - 1 : M[i] # TAIL)
      /\ L[N] = TAIL /\ M[K] = TAIL
  BY DEF Linked
<1>7. ~(N < K)
  <2>1. SUFFICES ASSUME N < K PROVE FALSE
    OBVIOUS
  <2>2. N \in 0 .. Len(h) /\ N \in 0 .. K - 1 /\ 0 + N = N /\ N <= K
    BY <1>1, <2>1
  <2>3. QED
    BY <1>5, <1>6, <2>2
<1>8. ~(K < N)
  <2>1. SUFFICES ASSUME K < N PROVE FALSE
    OBVIOUS
  <2>2. K \in 0 .. Len(h) /\ K \in 0 .. N - 1 /\ 0 + K = K /\ K <= N
    BY <1>1, <2>1
  <2>3. QED
    BY <1>5, <1>6, <2>2
<1>9. N = K
  BY <1>1, <1>7, <1>8
<1>10. \A i \in 0 .. N : L[i] = M[i]
  <2>1. ASSUME NEW i \in 0 .. N PROVE i \in 0 .. Len(h) /\ 0 + i = i /\ i <= N
    BY <1>1
  <2>2. QED
    BY <1>5, <1>9, <2>1
<1>11. QED
  BY <1>1, <1>9, <1>10, Zenon

\* What a list of positions says of each of its nodes and of the next.
LEMMA ListFacts ==
  ASSUME NEW h, NEW L, NEW N, Nodes(h), IsList(h, L, N)
  PROVE  /\ N \in Nat /\ N >= 1 /\ N < Len(h) /\ Len(h) \in Nat
         /\ L = [i \in 0 .. N |-> L[i]] /\ L[0] = HEAD /\ L[N] = TAIL
         /\ \A i \in 0 .. N :
              /\ L[i] \in DOMAIN h /\ L[i] \in 1 .. Len(h)
              /\ h[L[i]].count \in Nat /\ h[L[i]].key \in 0 .. MaxKey + 1
              /\ h[L[i]].type = TAIL_TYPE <=> i = N
              /\ h[L[i]].type \in {NORMAL, HEADER_TYPE, TAIL_TYPE}
         /\ \A i \in 0 .. N - 1 : L[i] # TAIL /\ h[L[i]].next = L[i + 1]
         /\ \A i, j \in 0 .. N : L[i] = L[j] => i = j
<1>1. N \in Nat /\ N < Len(h) /\ L \in [0 .. N -> DOMAIN h] /\ L[0] = HEAD /\ L[N] = TAIL
      /\ \A i \in 0 .. N - 1 : L[i] # TAIL /\ h[L[i]].next = L[i + 1]
  BY DEF IsList, Linked
<1>2. Len(h) \in Nat /\ DOMAIN h = 1 .. Len(h)
      /\ \A n \in DOMAIN h : /\ h[n].count \in Nat /\ h[n].key \in 0 .. MaxKey + 1
                             /\ h[n].type \in {NORMAL, HEADER_TYPE, TAIL_TYPE}
  BY NodeFacts
<1>3. N # 0
  BY <1>1 DEF HEAD, TAIL
<1>4. L = [i \in 0 .. N |-> L[i]] /\ \A i \in 0 .. N : L[i] \in DOMAIN h
  BY <1>1
<1>5. \A i \in 0 .. N : h[L[i]].type = TAIL_TYPE <=> i = N
  <2>1. h[TAIL].type = TAIL_TYPE /\ \A n \in DOMAIN h : n # TAIL => h[n].type # TAIL_TYPE
    BY DEF Nodes
  <2>2. \A i \in 0 .. N : i # N => i \in 0 .. N - 1
    BY <1>1
  <2>3. QED
    BY <1>1, <1>4, <2>1, <2>2
<1>6. \A i, j \in 0 .. N : L[i] = L[j] => i = j
  <2>1. \A i, j \in 0 .. N : i < j => L[i] # L[j]
    BY DEF IsList, Ordered
  <2>2. \A i, j \in 0 .. N : i < j \/ j < i \/ i = j
    BY <1>1
  <2>3. QED
    BY <2>1, <2>2
<1>7. \A i \in 0 .. N :
        /\ L[i] \in DOMAIN h /\ L[i] \in 1 .. Len(h)
        /\ h[L[i]].count \in Nat /\ h[L[i]].key \in 0 .. MaxKey + 1
        /\ h[L[i]].type \in {NORMAL, HEADER_TYPE, TAIL_TYPE}
  BY <1>2, <1>4, Zenon
<1>8. N >= 1
  BY <1>1, <1>3
<1>9. QED
  BY <1>1, <1>2, <1>4, <1>5, <1>6, <1>7, <1>8, Zenon

\* Every position before the tail is in the partition of a header.
LEMMA PartitionOf ==
  ASSUME NEW h, NEW L, NEW N, Nodes(h), IsList(h, L, N), NEW p \in 0 .. N - 1
  PROVE  \E q \in 0 .. p :
           /\ h[L[q]].type = HEADER_TYPE
           /\ p <= q + h[L[q]].count
           /\ \A j \in q + 1 .. p : h[L[j]].type = NORMAL
<1>0. /\ N \in Nat /\ N >= 1
      /\ \A i \in 0 .. N : /\ h[L[i]].type = TAIL_TYPE <=> i = N
                           /\ h[L[i]].type \in {NORMAL, HEADER_TYPE, TAIL_TYPE}
                           /\ h[L[i]].count \in Nat
  BY ListFacts
<1> DEFINE S == {d \in 0 .. p : h[L[p - d]].type = HEADER_TYPE}
<1>1. p \in S /\ S \in SUBSET Nat
  <2>1. p - p = 0 /\ p \in 0 .. p
    BY <1>0
  <2>2. h[L[0]].type = HEADER_TYPE
    BY DEF IsList, Linked, Nodes
  <2>3. QED
    BY <2>1, <2>2
<1>2. PICK d \in S : \A m \in S : d <= m
  BY <1>1, Least
<1> DEFINE q == p - d
<1>3. d \in 0 .. p /\ q \in 0 .. p /\ q \in 0 .. N /\ h[L[q]].type = HEADER_TYPE
  BY <1>0
<1>4. \A j \in q + 1 .. p : h[L[j]].type = NORMAL
  <2>1. SUFFICES ASSUME NEW j \in q + 1 .. p PROVE h[L[j]].type = NORMAL
    OBVIOUS
  <2>2. p - j \in 0 .. p /\ p - (p - j) = j /\ p - j < d /\ j \in 0 .. N /\ j # N
    BY <1>0, <1>3
  <2>3. p - j \notin S
    BY <1>2, <2>2
  <2>4. h[L[j]].type # HEADER_TYPE
    BY <2>2, <2>3
  <2>5. QED
    BY <1>0, <2>2, <2>4
<1> HIDE DEF q, S
<1>5. p <= q + h[L[q]].count
  <2>1. SUFFICES ASSUME ~(p <= q + h[L[q]].count) PROVE FALSE
    OBVIOUS
  <2>2. h[L[q]].count \in Nat
    BY <1>0, <1>3
  <2>3. q + h[L[q]].count + 1 \in q + 1 .. p
    BY <1>0, <1>3, <2>1, <2>2
  <2>4. h[L[q + h[L[q]].count + 1]].type # NORMAL
    BY <1>3 DEF IsList, Counted, CountedAt
  <2>5. QED
    BY <1>4, <2>3, <2>4
<1>6. QED
  BY <1>3, <1>4, <1>5

\* Locate from the header at position g: the positions p and p + 1 around the
\* key's place, and the header at position q whose partition p is in.
Located(h, L, N, ptr, k, g, p, q) ==
  /\ p \in g .. N - 1 /\ q \in g .. p
  /\ Stops(h[L[p + 1]], k)
  /\ \A m \in g + 1 .. p : ~Stops(h[L[m]], k)
  /\ h[L[q]].type = HEADER_TYPE
  /\ p <= q + h[L[q]].count
  /\ \A m \in q + 1 .. p : h[L[m]].type = NORMAL
  /\ Locate(h, ptr, k).prev = L[p]
  /\ Locate(h, ptr, k).at = L[p + 1]
  /\ Locate(h, ptr, k).found = (h[L[p + 1]].key = k)
  /\ Locate(h, ptr, k).header = IF q = g THEN ptr ELSE [node |-> L[q], copy |-> <<>>]

\* Locate: from any header of a sorted and counted list, however far behind, the
\* walk of rlu_leaf_search, rlu_leaf_add, rlu_leaf_remove and rlu_leaf_update stops at
\* the first node that ends it for the key, with that node's predecessor and with the
\* header whose partition the place is in, and the key is found exactly if it is there.
THEOREM LocateFinds ==
  ASSUME NEW h, NEW L, NEW N, Nodes(h), IsList(h, L, N),
         NEW g \in 0 .. N - 1, h[L[g]].type = HEADER_TYPE,
         NEW ptr, ptr.node = L[g], ptr.copy = <<>> \/ ptr.copy = <<h[ptr.node]>>,
         NEW k \in Keys
  PROVE  \E p \in g .. N - 1, q \in 0 .. N : Located(h, L, N, ptr, k, g, p, q)
<1>0. /\ N \in Nat /\ N >= 1 /\ N < Len(h) /\ Len(h) \in Nat /\ g \in Nat /\ g < N
      /\ \A i \in 0 .. N :
           /\ h[L[i]].type = TAIL_TYPE <=> i = N
           /\ h[L[i]].type \in {NORMAL, HEADER_TYPE, TAIL_TYPE}
           /\ h[L[i]].count \in Nat /\ h[L[i]].key \in 0 .. MaxKey + 1
      /\ L[N] = TAIL
  BY ListFacts
<1>1. k \in 1 .. MaxKey /\ MaxKey \in Nat
  BY OptionAssumption DEF Keys
<1> DEFINE c == Path(h, ptr)
<1>2. \A i \in 0 .. Len(h) : (g + i <= N => c[i] = L[g + i]) /\ (g + i > N => c[i] = TAIL)
  <2>1. Linked(h, L, N) /\ g \in 0 .. N
    BY <1>0 DEF IsList
  <2>2. QED
    BY <2>1, PathAlong
<1> HIDE DEF c
<1> DEFINE S == {j \in 1 .. N - g : Stops(h[L[g + j]], k)}
<1>3. N - g \in S /\ S \in SUBSET Nat
  <2>1. h[TAIL].key = MaxKey + 1
    BY DEF Nodes
  <2>2. Stops(h[TAIL], k)
    BY <1>1, <2>1 DEF Stops
  <2>3. N - g \in 1 .. N - g /\ g + (N - g) = N
    BY <1>0
  <2>4. QED
    BY <1>0, <2>2, <2>3
<1>4. PICK i \in S : \A m \in S : i <= m
  BY <1>3, Least
<1>5. i \in 1 .. N - g /\ Stops(h[L[g + i]], k) /\ \A m \in 1 .. i - 1 : ~Stops(h[L[g + m]], k)
  <2>1. \A m \in 1 .. i - 1 : m \in 1 .. N - g /\ ~(i <= m)
    BY <1>0
  <2>2. QED
    BY <1>4, <2>1
<1> HIDE DEF S
<1>6. \A m \in 1 .. i : m \in 1 .. Len(h) /\ g + m <= N /\ c[m] = L[g + m]
  BY <1>0, <1>2, <1>5
<1> DEFINE P(j) == Stops(h[c[j]], k) /\ \A m \in 1 .. j - 1 : ~Stops(h[c[m]], k)
<1>7. i \in 1 .. Len(h) /\ P(i)
  <2>1. i \in 1 .. i /\ \A m \in 1 .. i - 1 : m \in 1 .. i
    BY <1>5
  <2>2. QED
    BY <1>5, <1>6, <2>1
<1>8. \A j \in 1 .. Len(h) : P(j) => j = i
  <2>1. SUFFICES ASSUME NEW j \in 1 .. Len(h), P(j), j # i PROVE FALSE
    OBVIOUS
  <2>2. CASE j < i
    BY <1>7, <2>1, <2>2
  <2>3. CASE i < j
    <3>1. i \in 1 .. j - 1
      BY <1>5, <2>3
    <3>2. QED
      BY <1>7, <2>1, <3>1
  <2>4. QED
    BY <1>5, <2>1, <2>2, <2>3
<1>9. (CHOOSE j \in 1 .. Len(h) : P(j)) = i
  <2> HIDE DEF P
  <2>1. QED
    BY <1>7, <1>8
<1> DEFINE p == g + i - 1
<1>10. p \in g .. N - 1 /\ p \in 0 .. N - 1 /\ p + 1 = g + i /\ i = p + 1 - g
  BY <1>0, <1>5, SMTT(40)
<1>11. PICK q \in 0 .. p : /\ h[L[q]].type = HEADER_TYPE
                           /\ p <= q + h[L[q]].count
                           /\ \A j \in q + 1 .. p : h[L[j]].type = NORMAL
  BY <1>10, PartitionOf
<1> HIDE DEF p
<1>12. q >= g
  <2>1. SUFFICES ASSUME q < g PROVE FALSE
    BY <1>0
  <2>2. g \in q + 1 .. p
    BY <1>0, <1>10, <2>1
  <2>3. QED
    BY <1>11, <2>2 DEF NORMAL, HEADER_TYPE
<1> DEFINE G(j) == /\ j = 0 \/ h[c[j]].type = HEADER_TYPE
                   /\ \A m \in j + 1 .. i - 1 : h[c[m]].type # HEADER_TYPE
<1>13. q - g \in 0 .. i - 1 /\ G(q - g)
  <2>1. q - g \in 0 .. i - 1
    BY <1>0, <1>5, <1>10, <1>12
  <2>2. q - g = 0 \/ h[c[q - g]].type = HEADER_TYPE
    <3>1. SUFFICES ASSUME q - g # 0 PROVE h[c[q - g]].type = HEADER_TYPE
      OBVIOUS
    <3>2. q - g \in 1 .. i /\ g + (q - g) = q
      BY <1>0, <1>10, <2>1, <3>1
    <3>3. QED
      BY <1>6, <1>11, <3>2
  <2>3. ASSUME NEW m \in (q - g) + 1 .. i - 1 PROVE h[c[m]].type # HEADER_TYPE
    <3>1. m \in 1 .. i /\ g + m \in q + 1 .. p
      BY <1>0, <1>5, <1>10, <1>12
    <3>2. QED
      BY <1>6, <1>11, <3>1 DEF NORMAL, HEADER_TYPE
  <2>4. QED
    BY <2>1, <2>2, <2>3
<1>14. \A j \in 0 .. i - 1 : G(j) => j = q - g
  <2>1. SUFFICES ASSUME NEW j \in 0 .. i - 1, G(j), j # q - g PROVE FALSE
    OBVIOUS
  <2>2. CASE j < q - g
    <3>1. q - g \in j + 1 .. i - 1 /\ q - g # 0
      BY <1>5, <1>13, <2>2
    <3>2. QED
      BY <1>13, <2>1, <3>1
  <2>3. CASE q - g < j
    <3>1. j \in (q - g) + 1 .. i - 1 /\ j # 0
      BY <1>5, <1>13, <2>3
    <3>2. QED
      BY <1>13, <2>1, <3>1
  <2>4. QED
    BY <1>5, <1>13, <2>1, <2>2, <2>3
<1>15. (CHOOSE j \in 0 .. i - 1 : G(j)) = q - g
  <2> HIDE DEF G
  <2>1. QED
    BY <1>13, <1>14
<1> DEFINE w == Locate(h, ptr, k)
<1>16. w = [prev |-> c[i - 1], at |-> c[i], found |-> h[c[i]].key = k,
            header |-> IF q - g = 0 THEN ptr ELSE [node |-> c[q - g], copy |-> <<>>]]
  BY <1>9, <1>15, Zenon DEF Locate, c
<1>17. c[i - 1] = L[p] /\ c[i] = L[p + 1]
  <2>1. i - 1 \in 0 .. Len(h) /\ g + (i - 1) = p /\ p <= N /\ i \in 1 .. i
    BY <1>0, <1>5, <1>10
  <2>2. QED
    BY <1>2, <1>6, <1>10, <2>1
<1>18. c[q - g] = L[q] \/ q - g = 0
  <2>1. SUFFICES ASSUME q - g # 0 PROVE c[q - g] = L[q]
    OBVIOUS
  <2>2. q - g \in 1 .. i /\ g + (q - g) = q
    BY <1>0, <1>10, <1>13, <2>1
  <2>3. QED
    BY <1>6, <2>2
<1>19. \A m \in g + 1 .. p : ~Stops(h[L[m]], k)
  <2>1. SUFFICES ASSUME NEW m \in g + 1 .. p PROVE ~Stops(h[L[m]], k)
    OBVIOUS
  <2>2. m - g \in 1 .. i - 1 /\ g + (m - g) = m
    BY <1>0, <1>5, <1>10
  <2>3. QED
    BY <1>5, <2>2
<1>20. q \in g .. p /\ q \in 0 .. N /\ (q - g = 0 <=> q = g)
  BY <1>0, <1>10, <1>12
<1>21. /\ w.prev = L[p] /\ w.at = L[p + 1] /\ w.found = (h[L[p + 1]].key = k)
       /\ w.header = IF q = g THEN ptr ELSE [node |-> L[q], copy |-> <<>>]
  <2>0. ASSUME NEW a, NEW b, NEW f, NEW d, w = [prev |-> a, at |-> b, found |-> f, header |-> d]
        PROVE  w.prev = a /\ w.at = b /\ w.found = f /\ w.header = d
    BY <2>0
  <2> HIDE DEF w
  <2>1. /\ w.prev = c[i - 1] /\ w.at = c[i] /\ w.found = (h[c[i]].key = k)
        /\ w.header = IF q - g = 0 THEN ptr ELSE [node |-> c[q - g], copy |-> <<>>]
    BY <1>16, <2>0, Zenon
  <2>2. QED
    BY <1>17, <1>18, <1>20, <2>1
<1> HIDE DEF w
<1>22. Located(h, L, N, ptr, k, g, p, q)
  <2>1. Stops(h[L[p + 1]], k)
    BY <1>5, <1>10
  <2>2. QED
    BY <1>10, <1>11, <1>19, <1>20, <1>21, <2>1 DEF Located, w
<1>23. QED
  BY <1>10, <1>20, <1>22

------------------------------------------------------------------------------
(***************************************************************************)
(* Changes of the list                                                     *)
(***************************************************************************)
\* Partitions do not overlap.
LEMMA PartsApart ==
  ASSUME NEW h, NEW L, NEW N, Nodes(h), IsList(h, L, N), NEW q \in 0 .. N, NEW i \in 0 .. N,
         h[L[q]].type = HEADER_TYPE, h[L[i]].type = HEADER_TYPE, i # q
  PROVE  (i < q /\ i + h[L[i]].count + 1 <= q) \/ (q < i /\ q + h[L[q]].count + 1 <= i)
<1>1. N \in Nat /\ h[L[i]].count \in Nat /\ h[L[q]].count \in Nat
  BY ListFacts
<1>2. /\ \A j \in i + 1 .. i + h[L[i]].count : h[L[j]].type = NORMAL
      /\ \A j \in q + 1 .. q + h[L[q]].count : h[L[j]].type = NORMAL
  BY DEF IsList, Counted, CountedAt
<1>3. CASE i < q
  <2>1. q \notin i + 1 .. i + h[L[i]].count
    BY <1>2 DEF NORMAL, HEADER_TYPE
  <2>2. QED
    BY <1>1, <1>3, <2>1
<1>4. CASE q < i
  <2>1. i \notin q + 1 .. q + h[L[q]].count
    BY <1>2 DEF NORMAL, HEADER_TYPE
  <2>2. QED
    BY <1>1, <1>4, <2>1
<1>5. QED
  BY <1>1, <1>3, <1>4

\* A partition that stays is counted as before.
LEMMA SamePartCounted ==
  ASSUME NEW h, NEW L, NEW N, NEW g, NEW M, NEW K, NEW i \in 0 .. N, NEW k,
         Nodes(h), IsList(h, L, N), h[L[i]].type = HEADER_TYPE, K \in Nat,
         \A n \in DOMAIN h : g[n].type = h[n].type,
         SamePart(h, L, i, g, M, K, k)
  PROVE  CountedAt(g, M, K, k)
<1> DEFINE c == h[L[i]].count
<1>1. N \in Nat /\ c \in Nat /\ \A j \in 0 .. N : L[j] \in DOMAIN h
  BY ListFacts
<1>2. /\ i + c + 1 <= N
      /\ \A j \in i + 1 .. i + c : h[L[j]].type = NORMAL
      /\ h[L[i + c + 1]].type # NORMAL
  BY DEF IsList, Counted, CountedAt
<1>3. /\ k \in 0 .. K /\ k + c + 1 <= K /\ g[M[k]].count = c
      /\ \A j \in 0 .. c + 1 : M[k + j] = L[i + j]
  BY DEF SamePart
<1> HIDE DEF c
<1>4. ASSUME NEW j \in 0 .. c + 1
      PROVE  M[k + j] = L[i + j] /\ g[M[k + j]].type = h[L[i + j]].type
  <2>1. i + j \in 0 .. N
    BY <1>1, <1>2
  <2>2. QED
    BY <1>1, <1>3, <2>1
<1>5. ASSUME NEW j \in k + 1 .. k + c PROVE g[M[j]].type = NORMAL
  <2>1. j - k \in 0 .. c + 1 /\ k + (j - k) = j /\ i + (j - k) \in i + 1 .. i + c
    BY <1>1, <1>3
  <2>2. QED
    BY <1>2, <1>4, <2>1
<1>6. g[M[k + c + 1]].type # NORMAL
  <2>1. c + 1 \in 0 .. c + 1 /\ k + (c + 1) = k + c + 1 /\ i + (c + 1) = i + c + 1
    BY <1>1, <1>3
  <2>2. QED
    BY <1>2, <1>4, <2>1
<1>7. QED
  BY <1>3, <1>5, <1>6 DEF CountedAt

\* Partitions that stay through one change and through a second stay through both.
LEMMA PartsCompose ==
  ASSUME NEW h, NEW L, NEW N, NEW g, NEW M, NEW K, NEW f, NEW Q, NEW R, NEW S, NEW T, NEW U,
         Nodes(h), IsList(h, L, N), \A n \in DOMAIN h : g[n].type = h[n].type,
         PartsStay(h, L, N, g, M, K, S), PartsStay(g, M, K, f, Q, R, T),
         S \subseteq U, T \subseteq U
  PROVE  PartsStay(h, L, N, f, Q, R, U)
<1>1. SUFFICES ASSUME NEW i \in 0 .. N, h[L[i]].type = HEADER_TYPE, L[i] \notin U
               PROVE  \E k \in 0 .. R : SamePart(h, L, i, f, Q, R, k)
  BY DEF PartsStay
<1> DEFINE c == h[L[i]].count
<1>2. c \in Nat /\ L[i] \in DOMAIN h /\ N \in Nat
  BY ListFacts
<1>3. PICK k \in 0 .. K : SamePart(h, L, i, g, M, K, k)
  BY <1>1 DEF PartsStay
<1>4. g[M[k]].count = c /\ \A j \in 0 .. c + 1 : M[k + j] = L[i + j]
  BY <1>3 DEF SamePart
<1>5. M[k] = L[i]
  <2>1. 0 \in 0 .. c + 1 /\ k + 0 = k /\ i + 0 = i
    BY <1>2, <1>3 DEF SamePart
  <2>2. QED
    BY <1>4, <2>1
<1>6. PICK r \in 0 .. R : SamePart(g, M, k, f, Q, R, r)
  <2>1. g[M[k]].type = HEADER_TYPE /\ M[k] \notin T
    BY <1>1, <1>2, <1>5
  <2>2. QED
    BY <2>1 DEF PartsStay
<1>7. SamePart(h, L, i, f, Q, R, r)
  BY <1>4, <1>6 DEF SamePart
<1>8. QED
  BY <1>7

\* Lists that only grow outside of S and then of T grow outside of both.
LEMMA GrownCompose ==
  ASSUME NEW h, NEW g, NEW f, NEW S, NEW T, NEW U, Nodes(h), Nodes(g), Nodes(f),
         Grown(h, g, S), Grown(g, f, T), S \subseteq U, T \subseteq U
  PROVE  Grown(h, f, U)
<1>1. Len(h) \in Nat /\ Len(g) \in Nat /\ Len(f) \in Nat
      /\ DOMAIN h = 1 .. Len(h) /\ DOMAIN g = 1 .. Len(g)
  BY NodeFacts
<1>2. Len(h) <= Len(g) /\ Len(g) <= Len(f) /\ \A n \in DOMAIN h : n \in DOMAIN g
  BY <1>1 DEF Grown
<1>3. QED
  BY <1>1, <1>2 DEF Grown

\* Nothing the list depends on changes.
LEMMA SameShape ==
  ASSUME NEW h, NEW L, NEW N, NEW g, Nodes(h), IsList(h, L, N), Nodes(g), Len(g) = Len(h),
         \A n \in DOMAIN h : /\ g[n].type = h[n].type /\ g[n].key = h[n].key
                             /\ g[n].next = h[n].next /\ g[n].count = h[n].count
  PROVE  IsList(g, L, N) /\ \A S : PartsStay(h, L, N, g, L, N, S)
<1>1. N \in Nat /\ \A i \in 0 .. N : L[i] \in DOMAIN h /\ h[L[i]].count \in Nat
  BY ListFacts
<1>2. DOMAIN g = DOMAIN h
  BY NodeFacts
<1>3. Linked(g, L, N)
  <2>1. \A i \in 0 .. N - 1 : i \in 0 .. N
    BY <1>1
  <2>2. QED
    BY <1>1, <1>2, <2>1 DEF IsList, Linked
<1>4. Ordered(g, L, N)
  BY <1>1 DEF IsList, Ordered
<1>5. ASSUME NEW i \in 0 .. N, h[L[i]].type = HEADER_TYPE
      PROVE  SamePart(h, L, i, g, L, N, i)
  <2>1. i + h[L[i]].count + 1 <= N
    BY <1>5 DEF IsList, Counted, CountedAt
  <2>2. QED
    BY <1>1, <2>1 DEF SamePart
<1>6. Counted(g, L, N)
  <2>1. SUFFICES ASSUME NEW i \in 0 .. N, g[L[i]].type = HEADER_TYPE
                 PROVE  CountedAt(g, L, N, i)
    BY DEF Counted
  <2>2. h[L[i]].type = HEADER_TYPE
    BY <1>1, <2>1
  <2>3. QED
    BY <1>1, <1>5, <2>2, SamePartCounted
<1>7. QED
  BY <1>3, <1>4, <1>5, <1>6 DEF IsList, PartsStay

\* The counts of a changed list, from the partitions that stayed and the ones
\* that did not.
LEMMA CountedFromParts ==
  ASSUME NEW h, NEW L, NEW N, NEW g, NEW M, NEW K, NEW S,
         Nodes(h), IsList(h, L, N), K \in Nat,
         \A n \in DOMAIN h : g[n].type = h[n].type,
         PartsStay(h, L, N, g, M, K, S),
         \A i, j \in 0 .. K : M[i] = M[j] => i = j,
         \A k \in 0 .. K : \/ \E i \in 0 .. N : M[k] = L[i] /\ L[i] \notin S
                           \/ g[M[k]].type # HEADER_TYPE
                           \/ CountedAt(g, M, K, k)
  PROVE  Counted(g, M, K)
<1>1. SUFFICES ASSUME NEW k \in 0 .. K, g[M[k]].type = HEADER_TYPE,
                      NEW i \in 0 .. N, M[k] = L[i], L[i] \notin S
               PROVE  CountedAt(g, M, K, k)
  BY DEF Counted
<1>2. h[L[i]].type = HEADER_TYPE /\ h[L[i]].count \in Nat
  <2>1. L[i] \in DOMAIN h /\ h[L[i]].count \in Nat
    BY ListFacts
  <2>2. QED
    BY <1>1, <2>1
<1>3. PICK r \in 0 .. K : SamePart(h, L, i, g, M, K, r)
  BY <1>1, <1>2 DEF PartsStay
<1>4. M[r] = L[i]
  <2>1. 0 \in 0 .. h[L[i]].count + 1 /\ r + 0 = r /\ i + 0 = i
    BY <1>2
  <2>2. QED
    BY <1>3, <2>1 DEF SamePart
<1>5. r = k
  BY <1>1, <1>4
<1>6. QED
  BY <1>2, <1>3, <1>5, SamePartCounted

\* The list with a node put behind position p, and without the one behind p.
Inserted(L, N, p, new) ==
  [i \in 0 .. N + 1 |-> IF i <= p THEN L[i] ELSE IF i = p + 1 THEN new ELSE L[i - 1]]

Dropped(L, N, p) == [i \in 0 .. N - 1 |-> IF i <= p THEN L[i] ELSE L[i + 1]]

\* A node is linked in behind position p.
Insertion(h, L, N, p, g) ==
  LET new == Len(h) + 1 IN
  /\ Nodes(h) /\ IsList(h, L, N) /\ Nodes(g) /\ p \in 0 .. N - 1
  /\ Len(g) = new
  /\ \A n \in DOMAIN h :
       /\ g[n].type = h[n].type /\ g[n].key = h[n].key
       /\ g[n].next = IF n = L[p] THEN new ELSE h[n].next
  /\ g[new].next = L[p + 1]
  /\ h[L[p]].key <= g[new].key
  /\ h[L[p]].type # HEADER_TYPE => h[L[p]].key < g[new].key
  /\ g[new].key <= h[L[p + 1]].key
  /\ g[new].type # HEADER_TYPE => g[new].key < h[L[p + 1]].key

\* The positions of a list after one node was inserted.
LEMMA InsertedAt ==
  ASSUME NEW L, NEW N \in Nat, NEW p \in 0 .. N - 1, NEW new
  PROVE  /\ \A i \in 0 .. p : Inserted(L, N, p, new)[i] = L[i]
         /\ \A i \in p + 1 .. N : Inserted(L, N, p, new)[i + 1] = L[i]
<1> DEFINE M == Inserted(L, N, p, new)
<1>1. M = [i \in 0 .. N + 1 |-> IF i <= p THEN L[i] ELSE IF i = p + 1 THEN new ELSE L[i - 1]]
  BY DEF Inserted
<1> HIDE DEF M
<1>3. \A i \in 0 .. p : M[i] = L[i]
  BY <1>1
<1>5. \A i \in p + 1 .. N : M[i + 1] = L[i]
  <2>1. SUFFICES ASSUME NEW i \in p + 1 .. N PROVE M[i + 1] = L[i]
    OBVIOUS
  <2>2. i + 1 \in 0 .. N + 1 /\ ~(i + 1 <= p) /\ i + 1 # p + 1 /\ (i + 1) - 1 = i
    OBVIOUS
  <2>3. QED
    BY <1>1, <2>2
<1>6. QED
  BY <1>3, <1>5, Zenon DEF M

\* A node put between two neighbours whose keys surround its own: the list stays
\* linked and ordered.
LEMMA InsertedList ==
  ASSUME NEW h, NEW L, NEW N, NEW p, NEW g, Insertion(h, L, N, p, g),
         NEW M, M = Inserted(L, N, p, Len(h) + 1)
  PROVE  Linked(g, M, N + 1) /\ Ordered(g, M, N + 1)
<1> DEFINE new == Len(h) + 1
<1>1. /\ Nodes(h) /\ IsList(h, L, N) /\ Nodes(g) /\ p \in 0 .. N - 1 /\ Len(g) = new
      /\ \A n \in DOMAIN h :
           /\ g[n].type = h[n].type /\ g[n].key = h[n].key
           /\ g[n].next = IF n = L[p] THEN new ELSE h[n].next
      /\ g[new].next = L[p + 1]
      /\ h[L[p]].key <= g[new].key
      /\ h[L[p]].type # HEADER_TYPE => h[L[p]].key < g[new].key
      /\ g[new].key <= h[L[p + 1]].key
      /\ g[new].type # HEADER_TYPE => g[new].key < h[L[p + 1]].key
  BY DEF Insertion
<1>2. /\ N \in Nat /\ N >= 1 /\ N < Len(h) /\ Len(h) \in Nat
      /\ L[0] = HEAD /\ L[N] = TAIL
      /\ \A i \in 0 .. N : /\ L[i] \in DOMAIN h /\ L[i] \in 1 .. Len(h)
                           /\ h[L[i]].key \in 0 .. MaxKey + 1
      /\ \A i \in 0 .. N - 1 : L[i] # TAIL /\ h[L[i]].next = L[i + 1]
      /\ \A i, j \in 0 .. N : L[i] = L[j] => i = j
  BY <1>1, ListFacts
<1>0. N \in Nat /\ p \in 0 .. N - 1 /\ Len(h) \in Nat
  BY <1>1, <1>2
<1>3. DOMAIN g = 1 .. new /\ DOMAIN h = 1 .. Len(h) /\ g[new].key \in 0 .. MaxKey + 1 /\ new # TAIL
  <2>1. DOMAIN g = 1 .. new /\ DOMAIN h = 1 .. Len(h) /\ new \in DOMAIN g
    BY <1>1, <1>2, NodeFacts
  <2>2. TAIL \in 1 .. Len(h)
    BY <1>1, <1>2, NodeFacts
  <2>3. new # TAIL
    BY <1>0, <2>2
  <2>4. g[new].key \in 0 .. MaxKey + 1
    <3>1. \A n \in DOMAIN g : g[n].key \in 0 .. MaxKey + 1
      BY <1>1, NodeFacts
    <3>2. QED
      BY <2>1, <3>1
  <2>5. QED
    BY <2>1, <2>3, <2>4
<1>4. MaxKey \in Nat
  BY OptionAssumption
<1>5. /\ \A i \in 0 .. p : M[i] = L[i]
      /\ M[p + 1] = new
      /\ \A i \in p + 1 .. N : M[i + 1] = L[i]
      /\ \A k \in 0 .. N + 1 : \/ k \in 0 .. p \/ k = p + 1
                               \/ k - 1 \in p + 1 .. N /\ (k - 1) + 1 = k
  <2> HIDE DEF new
  <2>1. M = Inserted(L, N, p, new)
    BY DEF new
  <2>7. /\ \A i \in 0 .. p : Inserted(L, N, p, new)[i] = L[i]
        /\ \A i \in p + 1 .. N : Inserted(L, N, p, new)[i + 1] = L[i]
    BY ONLY <1>0, InsertedAt
  <2>2. \A i \in 0 .. p : M[i] = L[i]
    BY ONLY <2>1, <2>7, Zenon
  <2>4. \A i \in p + 1 .. N : M[i + 1] = L[i]
    BY ONLY <2>1, <2>7, Zenon
  <2>5. M[p + 1] = new
    BY <1>0, <2>1, SMTT(40) DEF Inserted
  <2>3. \A k \in 0 .. N + 1 : \/ k \in 0 .. p \/ k = p + 1
                              \/ k - 1 \in p + 1 .. N /\ (k - 1) + 1 = k
    BY <1>0
  <2>6. QED
    BY <2>2, <2>3, <2>4, <2>5, Zenon
<1>51. \A i \in 0 .. p : i \in 0 .. N /\ M[i] = L[i]
  BY <1>0, <1>5
<1>52. M[p + 1] = new
  BY <1>5
<1>53. \A i \in p + 1 .. N : i \in 0 .. N /\ M[i + 1] = L[i]
  BY <1>0, <1>5
<1>54. 0 \in 0 .. p /\ p \in 0 .. p /\ N \in p + 1 .. N /\ p + 1 \in p + 1 .. N
  BY <1>0
<1> HIDE DEF new
<1>6. Linked(g, M, N + 1)
  <2>1. ASSUME NEW k \in 0 .. N + 1 PROVE M[k] \in DOMAIN g
    <3>1. CASE k \in 0 .. p
      BY <1>2, <1>3, <1>51, <3>1 DEF new
    <3>2. CASE k = p + 1
      BY <1>2, <1>3, <1>5, <3>2 DEF new
    <3>3. CASE k - 1 \in p + 1 .. N /\ (k - 1) + 1 = k
      <4>1. M[k] = L[k - 1] /\ k - 1 \in 0 .. N
        BY <1>1, <1>5, <3>3
      <4>2. QED
        BY <1>2, <1>3, <4>1 DEF new
    <3>4. QED
      BY <1>5, <3>1, <3>2, <3>3
  <2>2. N + 1 \in Nat /\ N + 1 < Len(g)
    BY <1>1, <1>2 DEF new
  <2>3. M[0] = HEAD /\ M[N + 1] = TAIL
    BY <1>2, <1>51, <1>53, <1>54
  <2>4. ASSUME NEW k \in 0 .. N PROVE M[k] # TAIL /\ g[M[k]].next = M[k + 1]
    <3>1. CASE k \in 0 .. p - 1
      <4>0. k \in 0 .. p /\ k + 1 \in 0 .. p /\ k \in 0 .. N - 1 /\ k # p /\ p \in 0 .. N /\ k \in 0 .. N
        BY <1>0, <3>1
      <4>1. M[k] = L[k] /\ M[k + 1] = L[k + 1] /\ k \in 0 .. N - 1 /\ k # p /\ p \in 0 .. N /\ k \in 0 .. N
        BY <1>51, <4>0
      <4>2. L[k] # L[p] /\ L[k] # TAIL /\ h[L[k]].next = L[k + 1] /\ L[k] \in DOMAIN h
        BY <1>2, <4>1
      <4>3. QED
        BY <1>1, <4>1, <4>2
    <3>2. CASE k = p
      <4>1. M[k] = L[p] /\ M[k + 1] = new /\ p \in 0 .. N /\ p \in 0 .. N - 1
        BY <1>1, <1>2, <1>5, <3>2, SMTT(40)
      <4>2. QED
        BY <1>1, <1>2, <4>1
    <3>3. CASE k = p + 1
      <4>1. M[k] = new /\ M[k + 1] = L[p + 1]
        BY <1>52, <1>53, <1>54, <3>3
      <4>2. QED
        BY <1>1, <1>3, <4>1
    <3>4. CASE k - 1 \in p + 1 .. N - 1
      <4>1. M[k] = L[k - 1] /\ M[k + 1] = L[k]
        <5>1. k - 1 \in p + 1 .. N /\ k \in p + 1 .. N /\ (k - 1) + 1 = k
          BY <1>1, <1>2, <3>4
        <5>2. QED
          BY <1>5, <5>1
      <4>2. k - 1 # p /\ k - 1 \in 0 .. N - 1 /\ p \in 0 .. N /\ k - 1 \in 0 .. N /\ (k - 1) + 1 = k
        BY <1>1, <1>2, <3>4
      <4>3. L[k - 1] # L[p] /\ L[k - 1] # TAIL /\ h[L[k - 1]].next = L[k] /\ L[k - 1] \in DOMAIN h
        BY <1>2, <4>2
      <4>4. QED
        BY <1>1, <4>1, <4>3
    <3>5. QED
      BY <1>1, <1>2, <3>1, <3>2, <3>3, <3>4
  <2>5. (N + 1) - 1 = N
    BY <1>2
  <2>6. M \in [0 .. N + 1 -> DOMAIN g]
    <3>1. M = [i \in 0 .. N + 1 |-> M[i]]
      BY DEF Inserted
    <3>2. QED
      BY <2>1, <3>1, Zenon
  <2>7. QED
    BY <2>2, <2>3, <2>4, <2>5, <2>6 DEF Linked
<1>7. Ordered(g, M, N + 1)
  <2>0. \A i, j \in 0 .. N : i < j =>
          /\ L[i] # L[j]
          /\ h[L[i]].key <= h[L[j]].key
          /\ h[L[i]].type # HEADER_TYPE => h[L[i]].key < h[L[j]].key
    BY <1>1 DEF IsList, Ordered
  <2>1. \A i \in 0 .. N : /\ L[i] \in 1 .. Len(h) /\ L[i] # new
                          /\ g[L[i]].type = h[L[i]].type /\ g[L[i]].key = h[L[i]].key
    <3>1. TAKE i \in 0 .. N
    <3>2. L[i] \in 1 .. Len(h) /\ L[i] \in DOMAIN h
      BY <1>2
    <3>3. L[i] # new
      BY <1>0, <3>2 DEF new
    <3>4. QED
      BY <1>1, <3>2, <3>3
  <2>2. ASSUME NEW i \in 0 .. p
        PROVE  /\ h[L[i]].key <= g[new].key
               /\ h[L[i]].type # HEADER_TYPE => h[L[i]].key < g[new].key
    <3>1. CASE i = p
      BY <1>1, <3>1
    <3>2. CASE i < p
      <4>1. i \in 0 .. N /\ p \in 0 .. N
        BY <1>1, <1>2
      <4>2. h[L[i]].key \in Int /\ h[L[p]].key \in Int /\ g[new].key \in Int
        BY <1>2, <1>3, <1>4, <4>1
      <4>3. /\ h[L[i]].key <= h[L[p]].key
            /\ h[L[i]].type # HEADER_TYPE => h[L[i]].key < h[L[p]].key
        BY <2>0, <3>2, <4>1
      <4>4. h[L[p]].key <= g[new].key
        BY <1>1
      <4>5. QED
        BY <4>2, <4>3, <4>4
    <3>3. QED
      BY <1>1, <1>2, <3>1, <3>2
  <2>3. ASSUME NEW j \in p + 1 .. N
        PROVE  /\ g[new].key <= h[L[j]].key
               /\ g[new].type # HEADER_TYPE => g[new].key < h[L[j]].key
    <3>1. CASE j = p + 1
      BY <1>1, <3>1
    <3>2. CASE p + 1 < j
      <4>1. j \in 0 .. N /\ p + 1 \in 0 .. N
        BY <1>1, <1>2
      <4>2. h[L[j]].key \in Int /\ h[L[p + 1]].key \in Int /\ g[new].key \in Int
        BY <1>2, <1>3, <1>4, <4>1, SMTT(40)
      <4>3. h[L[p + 1]].key <= h[L[j]].key
        BY <2>0, <3>2, <4>1
      <4>4. /\ g[new].key <= h[L[p + 1]].key
            /\ g[new].type # HEADER_TYPE => g[new].key < h[L[p + 1]].key
        BY <1>1
      <4>5. QED
        BY <4>2, <4>3, <4>4
    <3>3. QED
      BY <1>1, <1>2, <3>1, <3>2
  <2>4. SUFFICES ASSUME NEW a \in 0 .. N + 1, NEW b \in 0 .. N + 1, a < b
                 PROVE  /\ M[a] # M[b]
                        /\ g[M[a]].key <= g[M[b]].key
                        /\ g[M[a]].type # HEADER_TYPE => g[M[a]].key < g[M[b]].key
    BY DEF Ordered
  <2>5. CASE b \in 0 .. p
    <3>0. a \in 0 .. p
      BY <1>0, <2>4, <2>5
    <3>1. M[a] = L[a] /\ M[b] = L[b] /\ a \in 0 .. N /\ b \in 0 .. N
      BY <1>51, <2>5, <3>0
    <3>2. QED
      BY <2>0, <2>1, <2>4, <3>1
  <2>6. CASE b = p + 1
    <3>0. a \in 0 .. p
      BY <1>0, <2>4, <2>6
    <3>1. M[a] = L[a] /\ M[b] = new /\ a \in 0 .. N /\ a \in 0 .. p
      BY <1>51, <1>52, <2>6, <3>0
    <3>2. QED
      BY <2>1, <2>2, <3>1
  <2>7. CASE b - 1 \in p + 1 .. N /\ (b - 1) + 1 = b
    <3>1. M[b] = L[b - 1] /\ b - 1 \in 0 .. N
      BY <1>1, <1>5, <2>7
    <3>2. CASE a \in 0 .. p
      <4>0. a < b - 1
        BY <1>0, <2>7, <3>2
      <4>1. M[a] = L[a] /\ a \in 0 .. N /\ a < b - 1
        BY <1>51, <3>2, <4>0
      <4>2. QED
        BY <2>0, <2>1, <3>1, <4>1, SMTT(40)
    <3>3. CASE a = p + 1
      <4>1. M[a] = new
        BY <1>5, <3>3
      <4>2. QED
        BY <2>1, <2>3, <2>7, <3>1, <4>1
    <3>4. CASE a - 1 \in p + 1 .. N /\ (a - 1) + 1 = a
      <4>1. M[a] = L[a - 1] /\ a - 1 \in 0 .. N /\ a - 1 < b - 1
        BY <1>1, <1>5, <2>4, <3>4
      <4>2. QED
        BY <2>0, <2>1, <3>1, <4>1, SMTT(40)
    <3>5. QED
      BY <1>5, <3>2, <3>3, <3>4
  <2>8. QED
    BY <1>5, <2>5, <2>6, <2>7
<1>8. QED
  BY <1>6, <1>7

\* The partitions whose counts stay and that do not reach over p.
LEMMA InsertedParts ==
  ASSUME NEW h, NEW L, NEW N, NEW p, NEW g, Insertion(h, L, N, p, g),
         NEW M, M = Inserted(L, N, p, Len(h) + 1), NEW S,
         \A i \in 0 .. N : h[L[i]].type = HEADER_TYPE /\ L[i] \notin S =>
           /\ g[L[i]].count = h[L[i]].count
           /\ i + h[L[i]].count + 1 <= p \/ p < i
  PROVE  PartsStay(h, L, N, g, M, N + 1, S)
<1>1. /\ Nodes(h) /\ IsList(h, L, N) /\ p \in 0 .. N - 1
  BY DEF Insertion
<1>2. N \in Nat /\ \A i \in 0 .. N : h[L[i]].count \in Nat
  BY <1>1, ListFacts
<1>3. /\ \A i \in 0 .. p : M[i] = L[i]
      /\ \A i \in p + 1 .. N : M[i + 1] = L[i]
  <2>1. M = Inserted(L, N, p, Len(h) + 1)
    OBVIOUS
  <2>2. N \in Nat /\ p \in 0 .. N - 1
    BY ONLY <1>1, <1>2
  <2>3. /\ \A i \in 0 .. p : Inserted(L, N, p, Len(h) + 1)[i] = L[i]
        /\ \A i \in p + 1 .. N : Inserted(L, N, p, Len(h) + 1)[i + 1] = L[i]
    BY ONLY <2>2, InsertedAt, Zenon
  <2>4. QED
    BY ONLY <2>1, <2>3, Zenon
<1>4. SUFFICES ASSUME NEW i \in 0 .. N, h[L[i]].type = HEADER_TYPE, L[i] \notin S
               PROVE  \E k \in 0 .. N + 1 : SamePart(h, L, i, g, M, N + 1, k)
  BY DEF PartsStay
<1> DEFINE c == h[L[i]].count
<1>5. c \in Nat /\ i + c + 1 <= N /\ g[L[i]].count = c /\ (i + c + 1 <= p \/ p < i)
  BY <1>1, <1>2, <1>4 DEF IsList, Counted, CountedAt
<1>6. CASE i + c + 1 <= p
  <2>1. ASSUME NEW j \in 0 .. c + 1 PROVE M[i + j] = L[i + j]
    <3>1. i + j \in 0 .. p
      BY <1>1, <1>2, <1>5, <1>6
    <3>2. QED
      BY <1>3, <3>1
  <2>2. M[i] = L[i] /\ i \in 0 .. N + 1
    BY <1>1, <1>2, <1>3, <1>5, <1>6
  <2>3. SamePart(h, L, i, g, M, N + 1, i)
    <3>1. i + c + 1 <= N + 1
      BY <1>2, <1>5
    <3>2. QED
      BY <1>5, <2>1, <2>2, <3>1 DEF SamePart
  <2>4. QED
    BY <2>2, <2>3
<1>7. CASE p < i
  <2>1. ASSUME NEW j \in 0 .. c + 1 PROVE M[(i + 1) + j] = L[i + j]
    <3>1. i + j \in p + 1 .. N /\ (i + 1) + j = (i + j) + 1
      BY <1>1, <1>2, <1>5, <1>7
    <3>2. QED
      BY <1>3, <3>1
  <2>2. M[i + 1] = L[i] /\ i + 1 \in 0 .. N + 1
    BY <1>1, <1>2, <1>3, <1>7, SMTT(40)
  <2>3. SamePart(h, L, i, g, M, N + 1, i + 1)
    <3>1. (i + 1) + c + 1 <= N + 1
      BY <1>2, <1>5
    <3>2. QED
      BY <1>5, <2>1, <2>2, <3>1 DEF SamePart
  <2>4. QED
    BY <2>2, <2>3
<1>8. QED
  BY <1>5, <1>6, <1>7

\* A node behind position p of the partition at position q, as an item or as
\* the header of the items behind it.
AddsItem(h, L, N, q, p, g) ==
  /\ Insertion(h, L, N, p, g)
  /\ q \in 0 .. p /\ h[L[q]].type = HEADER_TYPE /\ p <= q + h[L[q]].count
  /\ g[Len(h) + 1].type = NORMAL
  /\ \A n \in DOMAIN h : g[n].count = IF n = L[q] THEN h[n].count + 1 ELSE h[n].count

AddsHeader(h, L, N, q, p, g) ==
  /\ Insertion(h, L, N, p, g)
  /\ q \in 0 .. p /\ h[L[q]].type = HEADER_TYPE /\ p <= q + h[L[q]].count
  /\ g[Len(h) + 1].type = HEADER_TYPE /\ g[Len(h) + 1].count = q + h[L[q]].count - p
  /\ \A n \in DOMAIN h : g[n].count = IF n = L[q] THEN p - q ELSE h[n].count

\* rlu_leaf_add: an item behind position p, counted in the header at q, leaves a
\* list, and all partitions but that header's stay.
LEMMA AddList ==
  ASSUME NEW h, NEW L, NEW N, NEW p, NEW q, NEW g, AddsItem(h, L, N, q, p, g),
         NEW M, M = Inserted(L, N, p, Len(h) + 1)
  PROVE  IsList(g, M, N + 1) /\ PartsStay(h, L, N, g, M, N + 1, {L[q]})
<1> DEFINE c == h[L[q]].count
<1>1. Nodes(h) /\ IsList(h, L, N) /\ Nodes(g) /\ p \in 0 .. N - 1 /\ Insertion(h, L, N, p, g)
  BY DEF Insertion, AddsItem
<1>2. /\ \A i \in 0 .. N : L[i] \in DOMAIN h /\ h[L[i]].count \in Nat
      /\ \A i, j \in 0 .. N : L[i] = L[j] => i = j
  BY <1>1, ListFacts
<1>3. q \in 0 .. N /\ q \in 0 .. p /\ h[L[q]].type = HEADER_TYPE
  <2>1. N \in Nat
    BY <1>1, ListFacts
  <2>2. q \in 0 .. p /\ h[L[q]].type = HEADER_TYPE
    BY DEF AddsItem
  <2>3. QED
    BY <1>1, <2>1, <2>2
<1>4. Linked(g, M, N + 1) /\ Ordered(g, M, N + 1)
  BY <1>1, InsertedList
<1>9. /\ q + c + 1 <= N
      /\ \A j \in q + 1 .. q + c : h[L[j]].type = NORMAL
      /\ h[L[q + c + 1]].type # NORMAL
  BY <1>1, <1>3 DEF IsList, Counted, CountedAt
<1>0. /\ N \in Nat /\ N >= 1 /\ p \in Nat /\ q \in Nat /\ c \in Nat
      /\ p <= N - 1 /\ q <= p /\ p <= q + c /\ q + c + 1 <= N
  <2>1. N \in Nat /\ N >= 1 /\ c \in Nat
    BY <1>1, <1>2, <1>3, ListFacts
  <2>2. p <= q + c
    BY DEF AddsItem
  <2>3. QED
    BY <1>1, <1>3, <1>9, <2>1, <2>2
<1>5. ASSUME NEW i \in 0 .. N, h[L[i]].type = HEADER_TYPE, L[i] \notin {L[q]}
      PROVE  /\ g[L[i]].count = h[L[i]].count
             /\ i + h[L[i]].count + 1 <= p \/ p < i
  <2>1. (i < q /\ i + h[L[i]].count + 1 <= q) \/ (q < i /\ q + h[L[q]].count + 1 <= i)
    BY <1>1, <1>3, <1>5, PartsApart
  <2>2. h[L[i]].count \in Nat /\ L[i] \in DOMAIN h
    BY <1>2
  <2>3. i + h[L[i]].count + 1 <= p \/ p < i
    BY <1>0, <2>1, <2>2, SMTT(40)
  <2>4. g[L[i]].count = h[L[i]].count
    BY <1>5, <2>2 DEF AddsItem
  <2>5. QED
    BY <2>3, <2>4
<1>6. PartsStay(h, L, N, g, M, N + 1, {L[q]})
  BY <1>1, <1>5, InsertedParts
<1>70. \A n \in DOMAIN h : g[n].type = h[n].type
  BY <1>1 DEF Insertion
<1>71. ASSUME NEW i \in 0 .. p
       PROVE  i \in 0 .. N /\ M[i] = L[i] /\ g[M[i]].type = h[L[i]].type
  <2>1. M[i] = L[i]
    BY <1>0, <1>1, InsertedAt
  <2>2. i \in 0 .. N
    BY <1>0
  <2>3. QED
    BY <1>2, <1>70, <2>1, <2>2
<1>72. ASSUME NEW i \in p + 1 .. N
       PROVE  i \in 0 .. N /\ M[i + 1] = L[i] /\ g[M[i + 1]].type = h[L[i]].type
  <2>1. M[i + 1] = L[i]
    BY <1>0, <1>1, InsertedAt
  <2>2. i \in 0 .. N
    BY <1>0
  <2>3. QED
    BY <1>2, <1>70, <2>1, <2>2
<1>8. M[p + 1] = Len(h) + 1
  BY <1>0 DEF Inserted
<1>10. M[q] = L[q] /\ g[M[q]].count = c + 1 /\ g[M[p + 1]].type = NORMAL
  BY <1>2, <1>3, <1>71, <1>8 DEF AddsItem
<1> HIDE DEF c
<1>11. CountedAt(g, M, N + 1, q)
  <2>1. q + (c + 1) + 1 <= N + 1
    BY <1>0
  <2>2. ASSUME NEW j \in q + 1 .. q + (c + 1) PROVE g[M[j]].type = NORMAL
    <3>1. CASE j <= p
      <4>1. j \in 0 .. p /\ j \in q + 1 .. q + c
        BY <1>0, <3>1
      <4>2. QED
        BY <1>71, <1>9, <4>1
    <3>2. CASE j = p + 1
      BY <1>10, <3>2
    <3>3. CASE j > p + 1
      <4>1. j - 1 \in p + 1 .. N /\ (j - 1) + 1 = j /\ j - 1 \in q + 1 .. q + c
        BY <1>0, <3>3
      <4>2. h[L[j - 1]].type = NORMAL
        BY <1>9, <4>1
      <4>3. g[M[j]].type = h[L[j - 1]].type
        BY <1>72, <4>1
      <4>4. QED
        BY <4>2, <4>3
    <3>4. QED
      BY <1>0, <3>1, <3>2, <3>3
  <2>3. g[M[q + (c + 1) + 1]].type # NORMAL
    <3>1. q + c + 1 \in p + 1 .. N /\ (q + c + 1) + 1 = q + (c + 1) + 1
      BY <1>0
    <3>2. g[M[(q + c + 1) + 1]].type = h[L[q + c + 1]].type
      BY <1>72, <3>1
    <3>3. QED
      BY <1>9, <3>1, <3>2
  <2>4. QED
    BY <1>10, <2>1, <2>2, <2>3 DEF CountedAt
<1>12. Counted(g, M, N + 1)
  <2>1. ASSUME NEW i \in 0 .. N + 1, NEW j \in 0 .. N + 1, M[i] = M[j] PROVE i = j
    <3>1. \A a, b \in 0 .. N + 1 : a < b => M[a] # M[b]
      BY <1>4 DEF Ordered
    <3>2. i < j \/ j < i \/ i = j
      BY <1>0
    <3>3. QED
      BY <2>1, <3>1, <3>2
  <2>2. ASSUME NEW k \in 0 .. N + 1
        PROVE  \/ \E i \in 0 .. N : M[k] = L[i] /\ L[i] \notin {L[q]}
               \/ g[M[k]].type # HEADER_TYPE
               \/ CountedAt(g, M, N + 1, k)
    <3>1. CASE k = q
      BY <1>11, <3>1
    <3>2. CASE k = p + 1
      BY <1>10, <3>2 DEF NORMAL, HEADER_TYPE
    <3>3. CASE k <= p /\ k # q
      <4>1. k \in 0 .. p
        BY <1>0, <3>3
      <4>2. M[k] = L[k] /\ L[k] # L[q] /\ k \in 0 .. N
        BY <1>2, <1>3, <1>71, <3>3, <4>1
      <4>3. QED
        BY <4>2
    <3>4. CASE k > p + 1
      <4>1. k - 1 \in p + 1 .. N /\ (k - 1) + 1 = k /\ k - 1 # q
        BY <1>0, <3>4
      <4>2. M[k] = L[k - 1] /\ k - 1 \in 0 .. N
        BY <1>72, <4>1
      <4>3. L[k - 1] # L[q]
        BY <1>2, <1>3, <4>1, <4>2
      <4>4. QED
        BY <4>2, <4>3
    <3>5. QED
      BY <1>0, <3>1, <3>2, <3>3, <3>4
  <2>3. N + 1 \in Nat
    BY <1>0
  <2>4. QED
    BY <1>1, <1>6, <1>70, <2>1, <2>2, <2>3, CountedFromParts, SMTT(40)
<1>13. QED
  BY <1>4, <1>6, <1>12 DEF IsList

\* rlu_header_split: a header behind position p that takes over the rest of q's
\* items leaves a list, and all partitions but q's stay.
LEMMA SplitList ==
  ASSUME NEW h, NEW L, NEW N, NEW p, NEW q, NEW g, AddsHeader(h, L, N, q, p, g),
         NEW M, M = Inserted(L, N, p, Len(h) + 1)
  PROVE  IsList(g, M, N + 1) /\ PartsStay(h, L, N, g, M, N + 1, {L[q]})
<1> DEFINE c == h[L[q]].count
<1>1. Nodes(h) /\ IsList(h, L, N) /\ Nodes(g) /\ p \in 0 .. N - 1 /\ Insertion(h, L, N, p, g)
  BY DEF Insertion, AddsHeader
<1>2. /\ \A i \in 0 .. N : L[i] \in DOMAIN h /\ h[L[i]].count \in Nat
      /\ \A i, j \in 0 .. N : L[i] = L[j] => i = j
  BY <1>1, ListFacts
<1>3. q \in 0 .. N /\ q \in 0 .. p /\ h[L[q]].type = HEADER_TYPE
  <2>1. N \in Nat
    BY <1>1, ListFacts
  <2>2. q \in 0 .. p /\ h[L[q]].type = HEADER_TYPE
    BY DEF AddsHeader
  <2>3. QED
    BY <1>1, <2>1, <2>2
<1>4. Linked(g, M, N + 1) /\ Ordered(g, M, N + 1)
  BY <1>1, InsertedList
<1>9. /\ q + c + 1 <= N
      /\ \A j \in q + 1 .. q + c : h[L[j]].type = NORMAL
      /\ h[L[q + c + 1]].type # NORMAL
  BY <1>1, <1>3 DEF IsList, Counted, CountedAt
<1>0. /\ N \in Nat /\ N >= 1 /\ p \in Nat /\ q \in Nat /\ c \in Nat
      /\ p <= N - 1 /\ q <= p /\ p <= q + c /\ q + c + 1 <= N
  <2>1. N \in Nat /\ N >= 1 /\ c \in Nat
    BY <1>1, <1>2, <1>3, ListFacts
  <2>2. p <= q + c
    BY DEF AddsHeader
  <2>3. QED
    BY <1>1, <1>3, <1>9, <2>1, <2>2
<1>5. ASSUME NEW i \in 0 .. N, h[L[i]].type = HEADER_TYPE, L[i] \notin {L[q]}
      PROVE  /\ g[L[i]].count = h[L[i]].count
             /\ i + h[L[i]].count + 1 <= p \/ p < i
  <2>1. (i < q /\ i + h[L[i]].count + 1 <= q) \/ (q < i /\ q + h[L[q]].count + 1 <= i)
    BY <1>1, <1>3, <1>5, PartsApart
  <2>2. h[L[i]].count \in Nat /\ L[i] \in DOMAIN h
    BY <1>2
  <2>3. i + h[L[i]].count + 1 <= p \/ p < i
    BY <1>0, <2>1, <2>2, SMTT(40)
  <2>4. g[L[i]].count = h[L[i]].count
    BY <1>5, <2>2 DEF AddsHeader
  <2>5. QED
    BY <2>3, <2>4
<1>6. PartsStay(h, L, N, g, M, N + 1, {L[q]})
  BY <1>1, <1>5, InsertedParts
<1>70. \A n \in DOMAIN h : g[n].type = h[n].type
  BY <1>1 DEF Insertion
<1>71. ASSUME NEW i \in 0 .. p
       PROVE  i \in 0 .. N /\ M[i] = L[i] /\ g[M[i]].type = h[L[i]].type
  <2>1. M[i] = L[i]
    BY <1>0, <1>1, InsertedAt
  <2>2. i \in 0 .. N
    BY <1>0
  <2>3. QED
    BY <1>2, <1>70, <2>1, <2>2
<1>72. ASSUME NEW i \in p + 1 .. N
       PROVE  i \in 0 .. N /\ M[i + 1] = L[i] /\ g[M[i + 1]].type = h[L[i]].type
  <2>1. M[i + 1] = L[i]
    BY <1>0, <1>1, InsertedAt
  <2>2. i \in 0 .. N
    BY <1>0
  <2>3. QED
    BY <1>2, <1>70, <2>1, <2>2
<1>8. M[p + 1] = Len(h) + 1
  BY <1>0 DEF Inserted
<1>10. /\ M[q] = L[q] /\ g[M[q]].count = p - q /\ g[M[p + 1]].type = HEADER_TYPE
       /\ g[M[p + 1]].count = q + c - p
  BY <1>2, <1>3, <1>71, <1>8 DEF AddsHeader
<1> HIDE DEF c
<1>11. CountedAt(g, M, N + 1, q)
  <2>1. q + (p - q) + 1 <= N + 1 /\ q + (p - q) + 1 = p + 1
    BY <1>0
  <2>2. ASSUME NEW j \in q + 1 .. q + (p - q) PROVE g[M[j]].type = NORMAL
    <3>1. j \in 0 .. p /\ j \in q + 1 .. q + c
      BY <1>0
    <3>2. QED
      BY <1>71, <1>9, <3>1
  <2>3. g[M[q + (p - q) + 1]].type # NORMAL
    BY <1>10, <2>1 DEF NORMAL, HEADER_TYPE
  <2>4. QED
    BY <1>10, <2>1, <2>2, <2>3 DEF CountedAt
<1>14. CountedAt(g, M, N + 1, p + 1)
  <2>1. (p + 1) + (q + c - p) + 1 <= N + 1
    BY <1>0
  <2>2. ASSUME NEW j \in (p + 1) + 1 .. (p + 1) + (q + c - p) PROVE g[M[j]].type = NORMAL
    <3>1. j - 1 \in p + 1 .. N /\ (j - 1) + 1 = j /\ j - 1 \in q + 1 .. q + c
      BY <1>0
    <3>2. h[L[j - 1]].type = NORMAL
      BY <1>9, <3>1
    <3>3. g[M[j]].type = h[L[j - 1]].type
      BY <1>72, <3>1
    <3>4. QED
      BY <3>2, <3>3
  <2>3. g[M[(p + 1) + (q + c - p) + 1]].type # NORMAL
    <3>1. q + c + 1 \in p + 1 .. N /\ (q + c + 1) + 1 = (p + 1) + (q + c - p) + 1
      BY <1>0
    <3>2. g[M[(q + c + 1) + 1]].type = h[L[q + c + 1]].type
      BY <1>72, <3>1
    <3>3. QED
      BY <1>9, <3>1, <3>2
  <2>4. QED
    BY <1>10, <2>1, <2>2, <2>3 DEF CountedAt
<1>12. Counted(g, M, N + 1)
  <2>1. ASSUME NEW i \in 0 .. N + 1, NEW j \in 0 .. N + 1, M[i] = M[j] PROVE i = j
    <3>1. \A a, b \in 0 .. N + 1 : a < b => M[a] # M[b]
      BY <1>4 DEF Ordered
    <3>2. i < j \/ j < i \/ i = j
      BY <1>0
    <3>3. QED
      BY <2>1, <3>1, <3>2
  <2>2. ASSUME NEW k \in 0 .. N + 1
        PROVE  \/ \E i \in 0 .. N : M[k] = L[i] /\ L[i] \notin {L[q]}
               \/ g[M[k]].type # HEADER_TYPE
               \/ CountedAt(g, M, N + 1, k)
    <3>1. CASE k = q
      BY <1>11, <3>1
    <3>2. CASE k = p + 1
      BY <1>14, <3>2 DEF NORMAL, HEADER_TYPE
    <3>3. CASE k <= p /\ k # q
      <4>1. k \in 0 .. p
        BY <1>0, <3>3
      <4>2. M[k] = L[k] /\ L[k] # L[q] /\ k \in 0 .. N
        BY <1>2, <1>3, <1>71, <3>3, <4>1
      <4>3. QED
        BY <4>2
    <3>4. CASE k > p + 1
      <4>1. k - 1 \in p + 1 .. N /\ (k - 1) + 1 = k /\ k - 1 # q
        BY <1>0, <3>4
      <4>2. M[k] = L[k - 1] /\ k - 1 \in 0 .. N
        BY <1>72, <4>1
      <4>3. L[k - 1] # L[q]
        BY <1>2, <1>3, <4>1, <4>2
      <4>4. QED
        BY <4>2, <4>3
    <3>5. QED
      BY <1>0, <3>1, <3>2, <3>3, <3>4
  <2>3. N + 1 \in Nat
    BY <1>0
  <2>4. QED
    BY <1>1, <1>6, <1>70, <2>1, <2>2, <2>3, CountedFromParts, SMTT(40)
<1>13. QED
  BY <1>4, <1>6, <1>12 DEF IsList

\* The node behind position p is taken out.
Removal(h, L, N, p, g) ==
  /\ Nodes(h) /\ IsList(h, L, N) /\ Nodes(g) /\ p \in 0 .. N - 2
  /\ Len(g) = Len(h)
  /\ \A n \in DOMAIN h :
       /\ g[n].type = h[n].type /\ g[n].key = h[n].key
       /\ g[n].next = IF n = L[p] THEN L[p + 2] ELSE h[n].next

\* The positions of a list after one node was taken out.
LEMMA DroppedAt ==
  ASSUME NEW L, NEW N \in Nat, NEW p \in 0 .. N - 2
  PROVE  /\ \A i \in 0 .. p : Dropped(L, N, p)[i] = L[i]
         /\ \A i \in p + 2 .. N : Dropped(L, N, p)[i - 1] = L[i]
<1> DEFINE M == Dropped(L, N, p)
<1>1. M = [i \in 0 .. N - 1 |-> IF i <= p THEN L[i] ELSE L[i + 1]]
  BY DEF Dropped
<1> HIDE DEF M
<1>2. \A i \in 0 .. p : M[i] = L[i]
  BY <1>1
<1>3. \A i \in p + 2 .. N : M[i - 1] = L[i]
  <2>1. SUFFICES ASSUME NEW i \in p + 2 .. N PROVE M[i - 1] = L[i]
    OBVIOUS
  <2>2. i - 1 \in 0 .. N - 1 /\ ~(i - 1 <= p) /\ (i - 1) + 1 = i
    OBVIOUS
  <2>3. QED
    BY <1>1, <2>2
<1>4. QED
  BY <1>2, <1>3 DEF M

\* A node's predecessor points to its successor: the list stays linked and ordered.
LEMMA DroppedList ==
  ASSUME NEW h, NEW L, NEW N, NEW p, NEW g, Removal(h, L, N, p, g),
         NEW M, M = Dropped(L, N, p)
  PROVE  Linked(g, M, N - 1) /\ Ordered(g, M, N - 1)
<1>1. /\ Nodes(h) /\ IsList(h, L, N) /\ Nodes(g) /\ p \in 0 .. N - 2 /\ Len(g) = Len(h)
      /\ \A n \in DOMAIN h :
           /\ g[n].type = h[n].type /\ g[n].key = h[n].key
           /\ g[n].next = IF n = L[p] THEN L[p + 2] ELSE h[n].next
  BY DEF Removal
<1>2. /\ N \in Nat /\ N >= 1 /\ N < Len(h) /\ Len(h) \in Nat
      /\ L[0] = HEAD /\ L[N] = TAIL
      /\ \A i \in 0 .. N : L[i] \in DOMAIN h
      /\ \A i \in 0 .. N - 1 : L[i] # TAIL /\ h[L[i]].next = L[i + 1]
      /\ \A i, j \in 0 .. N : L[i] = L[j] => i = j
  <2>1. Nodes(h) /\ IsList(h, L, N)
    BY <1>1
  <2>2. QED
    BY ONLY <2>1, ListFacts
<1>0. N \in Nat /\ p \in 0 .. N - 2 /\ N >= 2 /\ p \in Nat
  BY <1>1, <1>2
<1>3. DOMAIN g = DOMAIN h
  BY <1>1, NodeFacts
<1>4. /\ \A i \in 0 .. p : M[i] = L[i]
      /\ \A i \in p + 2 .. N : M[i - 1] = L[i]
  BY <1>0, DroppedAt
<1>5. ASSUME NEW k \in 0 .. N - 1
      PROVE  \/ k \in 0 .. p /\ k \in 0 .. N /\ M[k] = L[k]
             \/ k > p /\ k + 1 \in p + 2 .. N /\ k + 1 \in 0 .. N /\ M[k] = L[k + 1]
  <2>1. CASE k <= p
    <3>1. k \in 0 .. p /\ k \in 0 .. N
      BY <1>0, <2>1
    <3>2. QED
      BY <1>4, <3>1
  <2>2. CASE k > p
    <3>1. k + 1 \in p + 2 .. N /\ k + 1 \in 0 .. N /\ (k + 1) - 1 = k
      BY <1>0, <2>2
    <3>2. QED
      BY <1>4, <2>2, <3>1
  <2>3. QED
    BY <1>0, <2>1, <2>2
<1>6. Linked(g, M, N - 1)
  <2>1. \A k \in 0 .. N - 1 : M[k] \in DOMAIN g
    BY <1>2, <1>3, <1>5
  <2>2. N - 1 \in Nat /\ N - 1 < Len(g)
    BY <1>0, <1>1, <1>2
  <2>3. M[0] = HEAD /\ M[N - 1] = TAIL
    <3>1. 0 \in 0 .. p /\ N \in p + 2 .. N
      BY <1>0
    <3>2. QED
      BY <1>2, <1>4, <3>1
  <2>4. ASSUME NEW k \in 0 .. (N - 1) - 1 PROVE M[k] # TAIL /\ g[M[k]].next = M[k + 1]
    <3>1. CASE k <= p - 1
      <4>1. k \in 0 .. p /\ k + 1 \in 0 .. p /\ k \in 0 .. N - 1 /\ k \in 0 .. N /\ p \in 0 .. N /\ k # p
        BY <1>0, <3>1
      <4>2. L[k] # L[p] /\ L[k] # TAIL /\ h[L[k]].next = L[k + 1] /\ L[k] \in DOMAIN h
        BY <1>2, <4>1
      <4>3. M[k] = L[k] /\ M[k + 1] = L[k + 1]
        BY <1>4, <4>1
      <4>4. QED
        BY <1>1, <4>2, <4>3
    <3>2. CASE k = p
      <4>1. /\ p \in 0 .. p /\ p + 2 \in p + 2 .. N /\ (p + 2) - 1 = k + 1
            /\ p \in 0 .. N - 1 /\ p \in 0 .. N
        BY <1>0, <3>2
      <4>2. M[k] = L[p] /\ M[k + 1] = L[p + 2]
        BY <1>4, <3>2, <4>1
      <4>3. QED
        BY <1>1, <1>2, <4>1, <4>2
    <3>3. CASE k > p
      <4>1. /\ k + 1 \in p + 2 .. N /\ k + 2 \in p + 2 .. N /\ (k + 1) - 1 = k
            /\ (k + 2) - 1 = k + 1 /\ k + 1 \in 0 .. N - 1 /\ k + 1 \in 0 .. N /\ p \in 0 .. N
            /\ k + 1 # p /\ (k + 1) + 1 = k + 2
        BY <1>0, <3>3
      <4>2. M[k] = L[k + 1] /\ M[k + 1] = L[k + 2]
        BY <1>4, <4>1
      <4>3. L[k + 1] # L[p] /\ L[k + 1] # TAIL /\ h[L[k + 1]].next = L[k + 2] /\ L[k + 1] \in DOMAIN h
        BY <1>2, <4>1
      <4>4. QED
        BY <1>1, <4>2, <4>3
    <3>4. QED
      BY <1>0, <3>1, <3>2, <3>3
  <2>5. M \in [0 .. N - 1 -> DOMAIN g]
    <3>1. M = [i \in 0 .. N - 1 |-> M[i]]
      BY DEF Dropped
    <3>2. QED
      BY <2>1, <3>1, Zenon
  <2>6. QED
    BY <2>2, <2>3, <2>4, <2>5 DEF Linked
<1>7. Ordered(g, M, N - 1)
  <2>0. \A i, j \in 0 .. N : i < j =>
          /\ L[i] # L[j]
          /\ h[L[i]].key <= h[L[j]].key
          /\ h[L[i]].type # HEADER_TYPE => h[L[i]].key < h[L[j]].key
    BY <1>1 DEF IsList, Ordered
  <2>1. SUFFICES ASSUME NEW a \in 0 .. N - 1, NEW b \in 0 .. N - 1, a < b
                 PROVE  /\ M[a] # M[b]
                        /\ g[M[a]].key <= g[M[b]].key
                        /\ g[M[a]].type # HEADER_TYPE => g[M[a]].key < g[M[b]].key
    BY DEF Ordered
  <2>7. ASSUME NEW k \in 0 .. N - 1
        PROVE  \E i \in 0 .. N : M[k] = L[i] /\ ((i = k /\ k <= p) \/ (i = k + 1 /\ k > p))
    <3>1. k \in 0 .. p => k <= p
      BY <1>0
    <3>2. QED
      BY <1>5, <3>1
  <2>2. PICK i \in 0 .. N : M[a] = L[i] /\ ((i = a /\ a <= p) \/ (i = a + 1 /\ a > p))
    BY <2>7
  <2>3. PICK j \in 0 .. N : M[b] = L[j] /\ ((j = b /\ b <= p) \/ (j = b + 1 /\ b > p))
    BY <2>7
  <2>4. i < j
    BY <1>0, <2>1, <2>2, <2>3
  <2>5. L[i] \in DOMAIN h /\ L[j] \in DOMAIN h
    BY <1>2
  <2>6. QED
    BY <1>1, <2>0, <2>2, <2>3, <2>4, <2>5, SMTT(40)
<1>8. QED
  BY <1>6, <1>7

\* Partitions that do not reach the node taken out stay.
LEMMA DroppedParts ==
  ASSUME NEW h, NEW L, NEW N, NEW p, NEW g, Removal(h, L, N, p, g),
         NEW M, M = Dropped(L, N, p), NEW S,
         \A i \in 0 .. N : h[L[i]].type = HEADER_TYPE /\ L[i] \notin S =>
           /\ g[L[i]].count = h[L[i]].count
           /\ i + h[L[i]].count + 1 <= p \/ p + 1 < i
  PROVE  PartsStay(h, L, N, g, M, N - 1, S)
<1>1. /\ Nodes(h) /\ IsList(h, L, N) /\ p \in 0 .. N - 2
  BY DEF Removal
<1>2. N \in Nat /\ \A i \in 0 .. N : h[L[i]].count \in Nat
  BY <1>1, ListFacts
<1>3. /\ \A i \in 0 .. p : M[i] = L[i]
      /\ \A i \in p + 2 .. N : M[i - 1] = L[i]
  BY <1>1, <1>2, DroppedAt
<1>4. SUFFICES ASSUME NEW i \in 0 .. N, h[L[i]].type = HEADER_TYPE, L[i] \notin S
               PROVE  \E k \in 0 .. N - 1 : SamePart(h, L, i, g, M, N - 1, k)
  BY DEF PartsStay
<1> DEFINE c == h[L[i]].count
<1>5. c \in Nat /\ i + c + 1 <= N /\ g[L[i]].count = c /\ (i + c + 1 <= p \/ p + 1 < i)
  BY <1>1, <1>2, <1>4 DEF IsList, Counted, CountedAt
<1>6. CASE i + c + 1 <= p
  <2>1. ASSUME NEW j \in 0 .. c + 1 PROVE M[i + j] = L[i + j]
    <3>1. i + j \in 0 .. p
      BY <1>1, <1>2, <1>5, <1>6
    <3>2. QED
      BY <1>3, <3>1
  <2>2. M[i] = L[i] /\ i \in 0 .. N - 1
    BY <1>1, <1>2, <1>3, <1>5, <1>6
  <2>3. SamePart(h, L, i, g, M, N - 1, i)
    <3>1. i + c + 1 <= N - 1
      BY <1>1, <1>2, <1>5, <1>6
    <3>2. QED
      BY <1>5, <2>1, <2>2, <3>1 DEF SamePart
  <2>4. QED
    BY <2>2, <2>3
<1>7. CASE p + 1 < i
  <2>1. ASSUME NEW j \in 0 .. c + 1 PROVE M[(i - 1) + j] = L[i + j]
    <3>1. i + j \in p + 2 .. N /\ (i - 1) + j = (i + j) - 1
      BY <1>1, <1>2, <1>5, <1>7
    <3>2. QED
      BY <1>3, <3>1
  <2>2. M[i - 1] = L[i] /\ i - 1 \in 0 .. N - 1
    <3>1. i \in p + 2 .. N /\ i - 1 \in 0 .. N - 1
      BY <1>1, <1>2, <1>7
    <3>2. QED
      BY <1>3, <3>1
  <2>3. SamePart(h, L, i, g, M, N - 1, i - 1)
    <3>1. (i - 1) + c + 1 <= N - 1
      BY <1>2, <1>5
    <3>2. QED
      BY <1>5, <2>1, <2>2, <3>1 DEF SamePart
  <2>4. QED
    BY <2>2, <2>3
<1>8. QED
  BY <1>5, <1>6, <1>7

\* The node behind position p is an item of the partition at position q, or the
\* header behind it.
RemovesItem(h, L, N, q, p, g) ==
  /\ Removal(h, L, N, p, g)
  /\ q \in 0 .. p /\ h[L[q]].type = HEADER_TYPE /\ p < q + h[L[q]].count
  /\ \A n \in DOMAIN h : g[n].count = IF n = L[q] THEN h[n].count - 1 ELSE h[n].count

RemovesHeader(h, L, N, q, g) ==
  LET p == q + h[L[q]].count IN
  /\ Removal(h, L, N, p, g)
  /\ q \in 0 .. N /\ h[L[q]].type = HEADER_TYPE /\ h[L[p + 1]].type = HEADER_TYPE
  /\ \A n \in DOMAIN h :
       g[n].count = IF n = L[q] THEN h[n].count + h[L[p + 1]].count ELSE h[n].count

\* rlu_leaf_remove: an item taken out and counted down in its header at q leaves a
\* list, and all partitions but that header's stay.
LEMMA RemoveList ==
  ASSUME NEW h, NEW L, NEW N, NEW p, NEW q, NEW g, RemovesItem(h, L, N, q, p, g),
         NEW M, M = Dropped(L, N, p)
  PROVE  IsList(g, M, N - 1) /\ PartsStay(h, L, N, g, M, N - 1, {L[q]})
<1> DEFINE c == h[L[q]].count
<1>1. Nodes(h) /\ IsList(h, L, N) /\ Nodes(g) /\ p \in 0 .. N - 2 /\ Removal(h, L, N, p, g)
  BY DEF Removal, RemovesItem
<1>2. /\ \A i \in 0 .. N : L[i] \in DOMAIN h /\ h[L[i]].count \in Nat
      /\ \A i, j \in 0 .. N : L[i] = L[j] => i = j
  BY <1>1, ListFacts
<1>3. q \in 0 .. N /\ q \in 0 .. p /\ h[L[q]].type = HEADER_TYPE
  <2>1. N \in Nat
    BY <1>1, ListFacts
  <2>2. q \in 0 .. p /\ h[L[q]].type = HEADER_TYPE
    BY DEF RemovesItem
  <2>3. QED
    BY <1>1, <2>1, <2>2
<1>4. Linked(g, M, N - 1) /\ Ordered(g, M, N - 1)
  BY <1>1, DroppedList
<1>9. /\ q + c + 1 <= N
      /\ \A j \in q + 1 .. q + c : h[L[j]].type = NORMAL
      /\ h[L[q + c + 1]].type # NORMAL
  BY <1>1, <1>3 DEF IsList, Counted, CountedAt
<1>0. /\ N \in Nat /\ N >= 2 /\ p \in Nat /\ q \in Nat /\ c \in Nat
      /\ p <= N - 2 /\ q <= p /\ p < q + c /\ q + c + 1 <= N
  <2>1. N \in Nat /\ c \in Nat
    BY <1>1, <1>2, <1>3, ListFacts
  <2>2. p < q + c
    BY DEF RemovesItem
  <2>3. QED
    BY <1>1, <1>3, <1>9, <2>1, <2>2
<1>5. ASSUME NEW i \in 0 .. N, h[L[i]].type = HEADER_TYPE, L[i] \notin {L[q]}
      PROVE  /\ g[L[i]].count = h[L[i]].count
             /\ i + h[L[i]].count + 1 <= p \/ p + 1 < i
  <2>1. (i < q /\ i + h[L[i]].count + 1 <= q) \/ (q < i /\ q + h[L[q]].count + 1 <= i)
    BY <1>1, <1>3, <1>5, PartsApart
  <2>2. h[L[i]].count \in Nat /\ L[i] \in DOMAIN h
    BY <1>2
  <2>3. i + h[L[i]].count + 1 <= p \/ p + 1 < i
    BY <1>0, <2>1, <2>2
  <2>4. g[L[i]].count = h[L[i]].count
    BY <1>5, <2>2 DEF RemovesItem
  <2>5. QED
    BY <2>3, <2>4
<1>6. PartsStay(h, L, N, g, M, N - 1, {L[q]})
  BY <1>1, <1>5, DroppedParts
<1>70. \A n \in DOMAIN h : g[n].type = h[n].type
  BY <1>1 DEF Removal
<1>71. ASSUME NEW i \in 0 .. p
       PROVE  i \in 0 .. N /\ M[i] = L[i] /\ g[M[i]].type = h[L[i]].type
  <2>1. M[i] = L[i]
    BY <1>0, <1>1, DroppedAt
  <2>2. i \in 0 .. N
    BY <1>0
  <2>3. QED
    BY <1>2, <1>70, <2>1, <2>2
<1>72. ASSUME NEW i \in p + 2 .. N
       PROVE  i \in 0 .. N /\ M[i - 1] = L[i] /\ g[M[i - 1]].type = h[L[i]].type
  <2>1. M[i - 1] = L[i]
    BY <1>0, <1>1, DroppedAt
  <2>2. i \in 0 .. N
    BY <1>0
  <2>3. QED
    BY <1>2, <1>70, <2>1, <2>2
<1>10. M[q] = L[q] /\ g[M[q]].count = c - 1
  BY <1>2, <1>3, <1>71 DEF RemovesItem
<1> HIDE DEF c
<1>11. CountedAt(g, M, N - 1, q)
  <2>1. q + (c - 1) + 1 <= N - 1
    BY <1>0
  <2>2. ASSUME NEW j \in q + 1 .. q + (c - 1) PROVE g[M[j]].type = NORMAL
    <3>1. CASE j <= p
      <4>1. j \in 0 .. p /\ j \in q + 1 .. q + c
        BY <1>0, <3>1
      <4>2. QED
        BY <1>71, <1>9, <4>1
    <3>2. CASE j > p
      <4>1. j + 1 \in p + 2 .. N /\ (j + 1) - 1 = j /\ j + 1 \in q + 1 .. q + c
        BY <1>0, <3>2
      <4>2. h[L[j + 1]].type = NORMAL
        BY <1>9, <4>1
      <4>3. g[M[j]].type = h[L[j + 1]].type
        BY <1>72, <4>1
      <4>4. QED
        BY <4>2, <4>3
    <3>3. QED
      BY <1>0, <3>1, <3>2
  <2>3. g[M[q + (c - 1) + 1]].type # NORMAL
    <3>1. q + c + 1 \in p + 2 .. N /\ (q + c + 1) - 1 = q + (c - 1) + 1
      BY <1>0
    <3>2. g[M[(q + c + 1) - 1]].type = h[L[q + c + 1]].type
      BY <1>72, <3>1
    <3>3. QED
      BY <1>9, <3>1, <3>2
  <2>4. QED
    BY <1>10, <2>1, <2>2, <2>3 DEF CountedAt
<1>12. Counted(g, M, N - 1)
  <2>1. ASSUME NEW i \in 0 .. N - 1, NEW j \in 0 .. N - 1, M[i] = M[j] PROVE i = j
    <3>1. \A a, b \in 0 .. N - 1 : a < b => M[a] # M[b]
      BY <1>4 DEF Ordered
    <3>2. i < j \/ j < i \/ i = j
      BY <1>0
    <3>3. QED
      BY <2>1, <3>1, <3>2
  <2>2. ASSUME NEW k \in 0 .. N - 1
        PROVE  \/ \E i \in 0 .. N : M[k] = L[i] /\ L[i] \notin {L[q]}
               \/ g[M[k]].type # HEADER_TYPE
               \/ CountedAt(g, M, N - 1, k)
    <3>1. CASE k = q
      BY <1>11, <3>1
    <3>2. CASE k <= p /\ k # q
      <4>1. k \in 0 .. p
        BY <1>0, <3>2
      <4>2. M[k] = L[k] /\ L[k] # L[q] /\ k \in 0 .. N
        BY <1>2, <1>3, <1>71, <3>2, <4>1
      <4>3. QED
        BY <4>2
    <3>3. CASE k > p
      <4>1. k + 1 \in p + 2 .. N /\ (k + 1) - 1 = k /\ k + 1 # q
        BY <1>0, <3>3
      <4>2. M[k] = L[k + 1] /\ k + 1 \in 0 .. N
        BY <1>72, <4>1
      <4>3. L[k + 1] # L[q]
        BY <1>2, <1>3, <4>1, <4>2
      <4>4. QED
        BY <4>2, <4>3
    <3>4. QED
      BY <1>0, <3>1, <3>2, <3>3
  <2>3. N - 1 \in Nat
    BY <1>0
  <2>4. QED
    BY <1>1, <1>6, <1>70, <2>1, <2>2, <2>3, CountedFromParts, SMTT(40)
<1>13. QED
  BY <1>4, <1>6, <1>12 DEF IsList

\* rlu_header_merge: a header taken out, with its count added to the header before
\* it, leaves a list, and all partitions but these two stay.
LEMMA MergeList ==
  ASSUME NEW h, NEW L, NEW N, NEW q, NEW g, RemovesHeader(h, L, N, q, g),
         NEW p, p = q + h[L[q]].count, NEW M, M = Dropped(L, N, p)
  PROVE  IsList(g, M, N - 1) /\ PartsStay(h, L, N, g, M, N - 1, {L[q], L[p + 1]})
<1> DEFINE c == h[L[q]].count
           d == h[L[p + 1]].count
<1>1. Nodes(h) /\ IsList(h, L, N) /\ Nodes(g) /\ p \in 0 .. N - 2 /\ Removal(h, L, N, p, g)
  BY DEF Removal, RemovesHeader
<1>2. /\ N \in Nat
      /\ \A i \in 0 .. N : L[i] \in DOMAIN h /\ h[L[i]].count \in Nat
      /\ \A i, j \in 0 .. N : L[i] = L[j] => i = j
  BY <1>1, ListFacts
<1>3. q \in 0 .. N /\ h[L[q]].type = HEADER_TYPE /\ h[L[p + 1]].type = HEADER_TYPE
  BY DEF RemovesHeader
<1>30. p + 1 \in 0 .. N
  BY <1>1, <1>2
<1>4. Linked(g, M, N - 1) /\ Ordered(g, M, N - 1)
  BY <1>1, DroppedList
<1>9. /\ q + c + 1 <= N
      /\ \A j \in q + 1 .. q + c : h[L[j]].type = NORMAL
  BY <1>1, <1>3 DEF IsList, Counted, CountedAt
<1>90. /\ (p + 1) + d + 1 <= N
       /\ \A j \in (p + 1) + 1 .. (p + 1) + d : h[L[j]].type = NORMAL
       /\ h[L[(p + 1) + d + 1]].type # NORMAL
  BY <1>1, <1>3, <1>30, ZenonT(40) DEF IsList, Counted, CountedAt
<1>0. /\ N \in Nat /\ N >= 2 /\ p \in Nat /\ q \in Nat /\ c \in Nat /\ d \in Nat
      /\ p <= N - 2 /\ q <= p /\ p = q + c /\ (p + 1) + d + 1 <= N
  <2>1. c \in Nat /\ d \in Nat
    BY <1>2, <1>3, <1>30
  <2>2. p \in 0 .. N - 2 /\ q \in 0 .. N /\ N \in Nat /\ (p + 1) + d + 1 <= N /\ p = q + c
    BY <1>1, <1>2, <1>3, <1>90, ZenonT(40)
  <2>3. QED
    BY <2>1, <2>2
<1>5. ASSUME NEW i \in 0 .. N, h[L[i]].type = HEADER_TYPE, L[i] \notin {L[q], L[p + 1]}
      PROVE  /\ g[L[i]].count = h[L[i]].count
             /\ i + h[L[i]].count + 1 <= p \/ p + 1 < i
  <2>1. (i < q /\ i + h[L[i]].count + 1 <= q) \/ (q < i /\ q + h[L[q]].count + 1 <= i)
    BY <1>1, <1>3, <1>5, PartsApart
  <2>2. h[L[i]].count \in Nat /\ L[i] \in DOMAIN h /\ i # p + 1
    BY <1>2, <1>5
  <2>3. i + h[L[i]].count + 1 <= p \/ p + 1 < i
    BY <1>0, <2>1, <2>2
  <2>4. g[L[i]].count = h[L[i]].count
    BY <1>5, <2>2 DEF RemovesHeader
  <2>5. QED
    BY <2>3, <2>4
<1>6. PartsStay(h, L, N, g, M, N - 1, {L[q], L[p + 1]})
  BY <1>1, <1>5, DroppedParts
<1>70. \A n \in DOMAIN h : g[n].type = h[n].type
  BY <1>1 DEF Removal
<1>71. ASSUME NEW i \in 0 .. p
       PROVE  i \in 0 .. N /\ M[i] = L[i] /\ g[M[i]].type = h[L[i]].type
  <2>1. M[i] = L[i]
    BY <1>0, <1>1, DroppedAt
  <2>2. i \in 0 .. N
    BY <1>0
  <2>3. QED
    BY <1>2, <1>70, <2>1, <2>2
<1>72. ASSUME NEW i \in p + 2 .. N
       PROVE  i \in 0 .. N /\ M[i - 1] = L[i] /\ g[M[i - 1]].type = h[L[i]].type
  <2>1. M[i - 1] = L[i]
    BY <1>0, <1>1, DroppedAt
  <2>2. i \in 0 .. N
    BY <1>0
  <2>3. QED
    BY <1>2, <1>70, <2>1, <2>2
<1>10. M[q] = L[q] /\ g[M[q]].count = c + d
  <2>1. q \in 0 .. p
    BY <1>0
  <2>2. QED
    BY <1>2, <1>3, <1>71, <2>1 DEF RemovesHeader
<1> HIDE DEF c, d
<1>11. CountedAt(g, M, N - 1, q)
  <2>1. q + (c + d) + 1 <= N - 1
    BY <1>0
  <2>2. ASSUME NEW j \in q + 1 .. q + (c + d) PROVE g[M[j]].type = NORMAL
    <3>1. CASE j <= p
      <4>1. j \in 0 .. p /\ j \in q + 1 .. q + c
        BY <1>0, <3>1
      <4>2. QED
        BY <1>71, <1>9, <4>1
    <3>2. CASE j > p
      <4>1. j + 1 \in p + 2 .. N /\ (j + 1) - 1 = j /\ j + 1 \in (p + 1) + 1 .. (p + 1) + d
        BY <1>0, <3>2
      <4>2. h[L[j + 1]].type = NORMAL
        BY <1>90, <4>1
      <4>3. g[M[j]].type = h[L[j + 1]].type
        BY <1>72, <4>1
      <4>4. QED
        BY <4>2, <4>3
    <3>3. QED
      BY <1>0, <3>1, <3>2
  <2>3. g[M[q + (c + d) + 1]].type # NORMAL
    <3>1. (p + 1) + d + 1 \in p + 2 .. N /\ ((p + 1) + d + 1) - 1 = q + (c + d) + 1
      BY <1>0
    <3>2. g[M[((p + 1) + d + 1) - 1]].type = h[L[(p + 1) + d + 1]].type
      BY <1>72, <3>1
    <3>3. QED
      BY <1>90, <3>1, <3>2
  <2>4. QED
    BY <1>10, <2>1, <2>2, <2>3, ZenonT(40) DEF CountedAt
<1>12. Counted(g, M, N - 1)
  <2>1. ASSUME NEW i \in 0 .. N - 1, NEW j \in 0 .. N - 1, M[i] = M[j] PROVE i = j
    <3>1. \A a, b \in 0 .. N - 1 : a < b => M[a] # M[b]
      BY <1>4 DEF Ordered
    <3>2. i < j \/ j < i \/ i = j
      BY <1>0
    <3>3. QED
      BY <2>1, <3>1, <3>2
  <2>2. ASSUME NEW k \in 0 .. N - 1
        PROVE  \/ \E i \in 0 .. N : M[k] = L[i] /\ L[i] \notin {L[q], L[p + 1]}
               \/ g[M[k]].type # HEADER_TYPE
               \/ CountedAt(g, M, N - 1, k)
    <3>1. CASE k = q
      BY <1>11, <3>1
    <3>2. CASE k <= p /\ k # q
      <4>1. k \in 0 .. p /\ k # p + 1
        BY <1>0, <3>2
      <4>2. M[k] = L[k] /\ k \in 0 .. N
        BY <1>71, <4>1
      <4>3. L[k] # L[q] /\ L[k] # L[p + 1]
        BY <1>2, <1>3, <1>30, <3>2, <4>1, <4>2
      <4>4. QED
        BY <4>2, <4>3
    <3>3. CASE k > p
      <4>1. k + 1 \in p + 2 .. N /\ (k + 1) - 1 = k /\ k + 1 # q /\ k + 1 # p + 1
        BY <1>0, <3>3
      <4>2. M[k] = L[k + 1] /\ k + 1 \in 0 .. N
        BY <1>72, <4>1
      <4>3. L[k + 1] # L[q] /\ L[k + 1] # L[p + 1]
        BY <1>2, <1>3, <1>30, <4>1, <4>2
      <4>4. QED
        BY <4>2, <4>3
    <3>4. QED
      BY <1>0, <3>1, <3>2, <3>3, SMTT(40)
  <2>3. N - 1 \in Nat
    BY <1>0
  <2>4. QED
    BY <1>1, <1>6, <1>70, <2>1, <2>2, <2>3, CountedFromParts, SMTT(40)
<1>13. QED
  BY <1>4, <1>6, <1>12 DEF IsList

------------------------------------------------------------------------------
(***************************************************************************)
(* The list of a heap                                                      *)
(***************************************************************************)
Last(h)  == CHOOSE N : \E L : IsList(h, L, N)
Chain(h) == CHOOSE L : IsList(h, L, Last(h))

Good(h) == Nodes(h) /\ IsList(h, Chain(h), Last(h))

OnList(h, n) == \E i \in 0 .. Last(h) : Chain(h)[i] = n

HeaderOn(h, n) == OnList(h, n) /\ h[n].type = HEADER_TYPE

\* The partition of header m ends at header n.
NextAt(h, m, n, i) ==
  /\ Chain(h)[i] = m /\ h[m].type = HEADER_TYPE
  /\ Chain(h)[i + h[m].count + 1] = n /\ h[n].type = HEADER_TYPE

NextHeader(h, m, n) == \E i \in 0 .. Last(h) : NextAt(h, m, n, i)

Stays(h, g, S) == PartsStay(h, Chain(h), Last(h), g, Chain(g), Last(g), S)

\* A heap has one list.
LEMMA ChainIs ==
  ASSUME NEW h, NEW L, NEW N, Nodes(h), IsList(h, L, N)
  PROVE  Chain(h) = L /\ Last(h) = N /\ Good(h)
<1>1. \E M : IsList(h, M, Last(h))
  BY DEF Last
<1>2. IsList(h, Chain(h), Last(h))
  BY <1>1 DEF Chain
<1>3. Linked(h, L, N) /\ Linked(h, Chain(h), Last(h))
  BY <1>2 DEF IsList
<1>4. QED
  BY <1>2, <1>3, OneList DEF Good

\* The facts about a good heap that do not speak of positions.
LEMMA HeaderFacts ==
  ASSUME NEW h, Good(h)
  PROVE  /\ HeaderOn(h, HEAD)
         /\ \A n : OnList(h, n) => n \in DOMAIN h /\ n \in Nat \ {0}
         /\ \A n : HeaderOn(h, n) => OnList(h, n) /\ n \in DOMAIN h /\ n # TAIL
<1> DEFINE L == Chain(h)
           N == Last(h)
<1>1. Nodes(h) /\ IsList(h, L, N)
  BY DEF Good
<1>2. N \in Nat /\ L[0] = HEAD /\ \A i \in 0 .. N : L[i] \in DOMAIN h /\ L[i] \in 1 .. Len(h)
  BY <1>1, ListFacts
<1>3. h[HEAD].type = HEADER_TYPE /\ h[TAIL].type = TAIL_TYPE /\ HEADER_TYPE # TAIL_TYPE
  BY <1>1 DEF Nodes, HEADER_TYPE, TAIL_TYPE
<1>4. 0 \in 0 .. N /\ \A k \in 1 .. Len(h) : k \in Nat \ {0}
  BY <1>2
<1>5. QED
  BY <1>2, <1>3, <1>4 DEF OnList, HeaderOn

\* No third header's key is between the keys of two neighbours.
LEMMA NextFacts ==
  ASSUME NEW h, Good(h), NEW m, NEW n, NextHeader(h, m, n)
  PROVE  /\ HeaderOn(h, m) /\ HeaderOn(h, n) /\ m # n /\ h[m].key <= h[n].key
         /\ \A x : HeaderOn(h, x) /\ x # m /\ x # n =>
              h[x].key <= h[m].key \/ h[n].key <= h[x].key
<1> DEFINE L == Chain(h)
           N == Last(h)
<1>1. Nodes(h) /\ IsList(h, L, N)
  BY DEF Good
<1>2. PICK i \in 0 .. N : NextAt(h, m, n, i)
  BY DEF NextHeader
<1>3. L[i] = m /\ h[m].type = HEADER_TYPE /\ L[i + h[m].count + 1] = n /\ h[n].type = HEADER_TYPE
  BY <1>2 DEF NextAt
<1>4. N \in Nat /\ \A j \in 0 .. N : h[L[j]].count \in Nat /\ h[L[j]].key \in 0 .. MaxKey + 1
  BY <1>1, ListFacts
<1> DEFINE e == i + h[m].count + 1
<1>5. e <= N /\ h[m].count \in Nat /\ e \in 0 .. N /\ i < e
  <2>1. CountedAt(h, L, N, i)
    BY <1>1, <1>3 DEF IsList, Counted
  <2>2. e <= N /\ h[m].count \in Nat
    BY <1>3, <1>4, <2>1 DEF CountedAt
  <2>3. QED
    BY <1>4, <2>2
<1> HIDE DEF e, L, N
<1>6. \A a, b \in 0 .. N : a < b => L[a] # L[b] /\ h[L[a]].key <= h[L[b]].key
  BY <1>1 DEF IsList, Ordered
<1>7. L[e] = n
  BY <1>3 DEF e
<1>8. HeaderOn(h, m) /\ HeaderOn(h, n) /\ m # n /\ h[m].key <= h[n].key
  <2>1. m # n /\ h[m].key <= h[n].key
    BY <1>3, <1>5, <1>6, <1>7
  <2>2. QED
    BY <1>3, <1>5, <1>7, <2>1 DEF HeaderOn, OnList, L, N
<1>9. ASSUME NEW x, HeaderOn(h, x), x # m, x # n
      PROVE  h[x].key <= h[m].key \/ h[n].key <= h[x].key
  <2>1. PICK j \in 0 .. N : L[j] = x
    BY <1>9 DEF HeaderOn, OnList, L, N
  <2>2. h[L[j]].type = HEADER_TYPE /\ h[L[i]].type = HEADER_TYPE /\ i # j /\ j # e
    BY <1>3, <1>7, <1>9, <2>1 DEF HeaderOn
  <2>3. (j < i /\ j + h[L[j]].count + 1 <= i) \/ (i < j /\ i + h[L[i]].count + 1 <= j)
    BY <1>1, <2>2, PartsApart
  <2>4. j < i \/ e < j
    BY <1>3, <1>4, <1>5, <2>1, <2>2, <2>3 DEF e
  <2>5. QED
    BY <1>3, <1>5, <1>6, <1>7, <2>1, <2>4
<1>10. QED
  BY <1>8, <1>9

\* A header is behind one header only.
LEMMA NextUnique ==
  ASSUME NEW h, Good(h), NEW m, NEW x, NEW n, NextHeader(h, m, n), NextHeader(h, x, n)
  PROVE  m = x
<1> DEFINE L == Chain(h)
           N == Last(h)
<1>1. Nodes(h) /\ IsList(h, L, N)
  BY DEF Good
<1>2. PICK i \in 0 .. N : NextAt(h, m, n, i)
  BY DEF NextHeader
<1>3. PICK j \in 0 .. N : NextAt(h, x, n, j)
  BY DEF NextHeader
<1>4. L[i] = m /\ h[m].type = HEADER_TYPE /\ L[i + h[m].count + 1] = n
  BY <1>2 DEF NextAt
<1>5. L[j] = x /\ h[x].type = HEADER_TYPE /\ L[j + h[x].count + 1] = n
  BY <1>3 DEF NextAt
<1>6. /\ N \in Nat /\ \A a \in 0 .. N : h[L[a]].count \in Nat
      /\ \A a, b \in 0 .. N : L[a] = L[b] => a = b
  BY <1>1, ListFacts
<1>7. CountedAt(h, L, N, i) /\ CountedAt(h, L, N, j)
  BY <1>1, <1>4, <1>5 DEF IsList, Counted
<1>8. h[m].count \in Nat /\ h[x].count \in Nat /\ i + h[m].count + 1 <= N /\ j + h[x].count + 1 <= N
  BY <1>4, <1>5, <1>6, <1>7 DEF CountedAt
<1>9. i + h[m].count + 1 \in 0 .. N /\ j + h[x].count + 1 \in 0 .. N
  BY <1>6, <1>8
<1>10. i + h[m].count + 1 = j + h[x].count + 1
  BY <1>4, <1>5, <1>6, <1>9
<1>11. i = j
  <2>1. SUFFICES ASSUME i # j PROVE FALSE
    OBVIOUS
  <2>2. (j < i /\ j + h[L[j]].count + 1 <= i) \/ (i < j /\ i + h[L[i]].count + 1 <= j)
    BY <1>1, <1>4, <1>5, <2>1, PartsApart
  <2>3. (j < i /\ j + h[x].count + 1 <= i) \/ (i < j /\ i + h[m].count + 1 <= j)
    BY <1>4, <1>5, <2>2
  <2>4. QED
    BY <1>8, <1>10, <2>3
<1>12. QED
  BY <1>4, <1>5, <1>11

\* A header with one of a greater key has a header behind its partition.
LEMMA NextExists ==
  ASSUME NEW h, Good(h), NEW m, NEW x, HeaderOn(h, m), HeaderOn(h, x), h[m].key < h[x].key
  PROVE  \E n : NextHeader(h, m, n)
<1> DEFINE L == Chain(h)
           N == Last(h)
<1>1. Nodes(h) /\ IsList(h, L, N)
  BY DEF Good
<1>2. PICK i \in 0 .. N : L[i] = m
  BY DEF HeaderOn, OnList
<1>3. PICK j \in 0 .. N : L[j] = x
  BY DEF HeaderOn, OnList
<1>4. h[L[i]].type = HEADER_TYPE /\ h[L[j]].type = HEADER_TYPE
  BY <1>2, <1>3 DEF HeaderOn
<1>5. /\ N \in Nat
      /\ \A a \in 0 .. N : /\ h[L[a]].count \in Nat /\ h[L[a]].key \in 0 .. MaxKey + 1
                           /\ h[L[a]].type = TAIL_TYPE <=> a = N
                           /\ h[L[a]].type \in {NORMAL, HEADER_TYPE, TAIL_TYPE}
  BY <1>1, ListFacts
<1>6. \A a, b \in 0 .. N : a < b => h[L[a]].key <= h[L[b]].key
  BY <1>1 DEF IsList, Ordered
<1>7. h[m].count \in Nat /\ h[m].key \in 0 .. MaxKey + 1 /\ h[x].key \in 0 .. MaxKey + 1 /\ h[x].count \in Nat
  BY <1>2, <1>3, <1>5
<1>8. i < j
  <2>1. ~(j < i)
    <3>1. SUFFICES ASSUME j < i PROVE FALSE
      OBVIOUS
    <3>2. h[x].key <= h[m].key
      BY <1>2, <1>3, <1>6, <3>1
    <3>3. QED
      BY <1>7, <3>2, OptionAssumption
  <2>2. i # j
    BY <1>2, <1>3, <1>7, OptionAssumption
  <2>3. QED
    BY <2>1, <2>2
<1>9. i + h[m].count + 1 <= j
  <2>1. (j < i /\ j + h[L[j]].count + 1 <= i) \/ (i < j /\ i + h[L[i]].count + 1 <= j)
    BY <1>1, <1>4, <1>8, PartsApart
  <2>2. QED
    BY <1>2, <1>8, <2>1
<1>10. j # N
  BY <1>4, <1>5 DEF HEADER_TYPE, TAIL_TYPE
<1>11. i + h[m].count + 1 \in 0 .. N /\ i + h[m].count + 1 # N
  BY <1>5, <1>7, <1>9, <1>10
<1>12. h[L[i + h[m].count + 1]].type = HEADER_TYPE
  <2>1. h[L[i + h[m].count + 1]].type # NORMAL
    BY <1>1, <1>2, <1>4 DEF IsList, Counted, CountedAt
  <2>2. QED
    BY <1>5, <1>11, <2>1
<1>13. NextAt(h, m, L[i + h[m].count + 1], i)
  BY <1>2, <1>4, <1>12 DEF NextAt
<1>14. QED
  BY <1>13 DEF NextHeader

\* Partitions that stay keep their place before their neighbours.
LEMMA StaysHeader ==
  ASSUME NEW h, NEW g, NEW S, Good(h), Good(g), \A n \in DOMAIN h : g[n].type = h[n].type,
         Stays(h, g, S), NEW m, m \notin S
  PROVE  /\ HeaderOn(h, m) => HeaderOn(g, m)
         /\ \A n : NextHeader(h, m, n) => NextHeader(g, m, n)
<1> DEFINE L == Chain(h)
           N == Last(h)
           M == Chain(g)
           K == Last(g)
<1>1. Nodes(h) /\ IsList(h, L, N) /\ PartsStay(h, L, N, g, M, K, S)
  BY DEF Good, Stays
<1>2. /\ N \in Nat
      /\ \A a \in 0 .. N : L[a] \in DOMAIN h /\ h[L[a]].count \in Nat
  BY <1>1, ListFacts
<1>3. ASSUME NEW i \in 0 .. N, L[i] = m, h[m].type = HEADER_TYPE
      PROVE  \E k \in 0 .. K : /\ M[k] = m /\ g[m].count = h[m].count
                               /\ M[k + h[m].count + 1] = L[i + h[m].count + 1]
  <2>1. PICK k \in 0 .. K : SamePart(h, L, i, g, M, K, k)
    BY <1>1, <1>3 DEF PartsStay
  <2>2. h[m].count \in Nat
    BY <1>2, <1>3
  <2>3. k \in 0 .. K /\ g[M[k]].count = h[m].count /\ \A j \in 0 .. h[m].count + 1 : M[k + j] = L[i + j]
    BY <1>3, <2>1 DEF SamePart
  <2>4. 0 \in 0 .. h[m].count + 1 /\ k + 0 = k /\ i + 0 = i
        /\ h[m].count + 1 \in 0 .. h[m].count + 1
        /\ k + (h[m].count + 1) = k + h[m].count + 1 /\ i + (h[m].count + 1) = i + h[m].count + 1
    BY <1>2, <2>2
  <2>5. M[k] = m
    BY <1>3, <2>3, <2>4
  <2>6. M[k + h[m].count + 1] = L[i + h[m].count + 1]
    BY <2>3, <2>4
  <2>7. QED
    BY <2>3, <2>5, <2>6
<1>4. ASSUME HeaderOn(h, m) PROVE HeaderOn(g, m)
  <2>1. PICK i \in 0 .. N : L[i] = m
    BY <1>4 DEF HeaderOn, OnList
  <2>2. h[m].type = HEADER_TYPE /\ m \in DOMAIN h
    BY <1>2, <1>4, <2>1 DEF HeaderOn
  <2>3. PICK k \in 0 .. K : M[k] = m
    BY <1>3, <2>1, <2>2
  <2>4. QED
    BY <2>2, <2>3 DEF HeaderOn, OnList
<1>5. ASSUME NEW n, NextHeader(h, m, n) PROVE NextHeader(g, m, n)
  <2>1. PICK i \in 0 .. N : NextAt(h, m, n, i)
    BY <1>5 DEF NextHeader
  <2>2. L[i] = m /\ h[m].type = HEADER_TYPE /\ L[i + h[m].count + 1] = n /\ h[n].type = HEADER_TYPE
    BY <2>1 DEF NextAt
  <2>3. PICK k \in 0 .. K : /\ M[k] = m /\ g[m].count = h[m].count
                            /\ M[k + h[m].count + 1] = L[i + h[m].count + 1]
    BY <1>3, <2>2
  <2>4. m \in DOMAIN h /\ n \in DOMAIN h
    BY <1>5, NextFacts, HeaderFacts
  <2>5. g[m].type = HEADER_TYPE /\ g[n].type = HEADER_TYPE
    BY <2>2, <2>4
  <2>6. NextAt(g, m, n, k)
    BY <2>2, <2>3, <2>5 DEF NextAt
  <2>7. QED
    BY <2>6 DEF NextHeader
<1>6. QED
  BY <1>4, <1>5

\* What the five kinds of change do to the list of a heap.
LEMMA ShapeEffect ==
  ASSUME NEW h, NEW g, Good(h), Nodes(g), Len(g) = Len(h),
         \A n \in DOMAIN h : /\ g[n].type = h[n].type /\ g[n].key = h[n].key
                             /\ g[n].next = h[n].next /\ g[n].count = h[n].count
  PROVE  /\ Good(g) /\ \A S : Stays(h, g, S)
         /\ \A n : OnList(g, n) <=> OnList(h, n)
         /\ \A m, n : NextHeader(h, m, n) => NextHeader(g, m, n)
<1> DEFINE L == Chain(h)
           N == Last(h)
<1>1. Nodes(h) /\ IsList(h, L, N)
  BY DEF Good
<1>2. IsList(g, L, N) /\ \A S : PartsStay(h, L, N, g, L, N, S)
  BY <1>1, SameShape
<1>3. Chain(g) = L /\ Last(g) = N /\ Good(g)
  BY <1>2, ChainIs
<1>4. \A S : Stays(h, g, S)
  BY <1>2, <1>3 DEF Stays
<1>5. \A m, n : NextHeader(h, m, n) => NextHeader(g, m, n)
  <2>1. Stays(h, g, {})
    BY <1>4
  <2>2. QED
    BY <1>3, <2>1, StaysHeader
<1>6. \A n : OnList(g, n) <=> OnList(h, n)
  BY <1>3 DEF OnList
<1>7. QED
  BY <1>3, <1>4, <1>5, <1>6

\* An insertion puts one node on the list.
LEMMA InsertedOnList ==
  ASSUME NEW h, NEW g, NEW p, Good(h), Good(g), p \in 0 .. Last(h) - 1,
         Chain(g) = Inserted(Chain(h), Last(h), p, Len(h) + 1), Last(g) = Last(h) + 1
  PROVE  \A n : OnList(g, n) <=> OnList(h, n) \/ n = Len(h) + 1
<1> DEFINE L == Chain(h)
           N == Last(h)
           M == Chain(g)
           new == Len(h) + 1
<1>1. Nodes(h) /\ IsList(h, L, N) /\ M = Inserted(L, N, p, new)
  BY DEF Good
<1>2. N \in Nat
  BY <1>1, ListFacts
<1>3. /\ \A i \in 0 .. p : M[i] = L[i]
      /\ \A i \in p + 1 .. N : M[i + 1] = L[i]
      /\ M[p + 1] = new
  <2>1. M[p + 1] = new
    <3>1. p + 1 \in 0 .. N + 1 /\ ~(p + 1 <= p)
      BY <1>2
    <3>2. QED
      BY <1>1, <3>1 DEF Inserted
  <2>2. QED
    BY <1>1, <1>2, <2>1, InsertedAt
<1> HIDE DEF L, N, M, new
<1>4. ASSUME NEW i \in 0 .. N PROVE \E j \in 0 .. N + 1 : M[j] = L[i]
  <2>1. CASE i <= p
    <3>1. i \in 0 .. p /\ i \in 0 .. N + 1
      BY <1>2, <2>1 DEF N
    <3>2. QED
      BY <1>3, <3>1
  <2>2. CASE ~(i <= p)
    <3>1. i \in p + 1 .. N /\ i + 1 \in 0 .. N + 1
      BY <1>2, <2>2 DEF N
    <3>2. QED
      BY <1>3, <3>1
  <2>3. QED
    BY <2>1, <2>2
<1>5. ASSUME NEW j \in 0 .. N + 1 PROVE M[j] = new \/ \E i \in 0 .. N : M[j] = L[i]
  <2>1. CASE j <= p
    <3>1. j \in 0 .. p /\ j \in 0 .. N
      BY <1>2, <2>1 DEF N
    <3>2. QED
      BY <1>3, <3>1
  <2>2. CASE j = p + 1
    BY <1>3, <2>2
  <2>3. CASE j > p + 1
    <3>1. j - 1 \in p + 1 .. N /\ (j - 1) + 1 = j /\ j - 1 \in 0 .. N
      BY <1>2, <2>3 DEF N
    <3>2. M[(j - 1) + 1] = L[j - 1]
      BY <1>3, <3>1
    <3>3. QED
      BY <3>1, <3>2
  <2>4. p \in Int
    BY <1>2 DEF N
  <2>5. QED
    BY <1>2, <2>1, <2>2, <2>3, <2>4
<1>6. p + 1 \in 0 .. N + 1
  BY <1>2 DEF N
<1>7. Last(g) = N + 1 /\ Chain(g) = M /\ Last(h) = N /\ Chain(h) = L
  BY DEF N, M, L
<1>8. \A n : OnList(g, n) <=> OnList(h, n) \/ n = new
  BY <1>3, <1>4, <1>5, <1>6, <1>7 DEF OnList
<1>9. QED
  BY <1>8 DEF new

\* A removal takes one node off the list.
LEMMA DroppedOnList ==
  ASSUME NEW h, NEW g, NEW p, Good(h), Good(g), p \in 0 .. Last(h) - 2,
         Chain(g) = Dropped(Chain(h), Last(h), p), Last(g) = Last(h) - 1
  PROVE  \A n : OnList(g, n) <=> OnList(h, n) /\ n # Chain(h)[p + 1]
<1> DEFINE L == Chain(h)
           N == Last(h)
           M == Chain(g)
<1>1. Nodes(h) /\ IsList(h, L, N) /\ M = Dropped(L, N, p)
  BY DEF Good
<1>2. N \in Nat /\ \A i, j \in 0 .. N : L[i] = L[j] => i = j
  BY <1>1, ListFacts
<1>0. N \in Nat /\ p \in Nat /\ p <= N - 2 /\ p \in 0 .. N - 2
  BY <1>2
<1> HIDE DEF L, N, M
<1>3. /\ \A i \in 0 .. p : M[i] = L[i]
      /\ \A i \in p + 2 .. N : M[i - 1] = L[i]
  BY <1>0, <1>1, DroppedAt
<1>4. ASSUME NEW i \in 0 .. N, L[i] # L[p + 1] PROVE \E j \in 0 .. N - 1 : M[j] = L[i]
  <2>1. CASE i <= p
    <3>1. i \in 0 .. p /\ i \in 0 .. N - 1
      BY <1>0, <2>1
    <3>2. QED
      BY <1>3, <3>1
  <2>2. CASE ~(i <= p)
    <3>1. i # p + 1
      BY <1>4
    <3>2. i \in p + 2 .. N /\ i - 1 \in 0 .. N - 1
      BY <1>0, <2>2, <3>1
    <3>3. QED
      BY <1>3, <3>2
  <2>3. QED
    BY <2>1, <2>2
<1>5. ASSUME NEW j \in 0 .. N - 1 PROVE M[j] # L[p + 1] /\ \E i \in 0 .. N : M[j] = L[i]
  <2>0. p + 1 \in 0 .. N
    BY <1>0
  <2>1. CASE j <= p
    <3>1. j \in 0 .. p /\ j \in 0 .. N /\ j # p + 1
      BY <1>0, <2>1
    <3>2. M[j] = L[j]
      BY <1>3, <3>1
    <3>3. QED
      BY <1>2, <2>0, <3>1, <3>2
  <2>2. CASE ~(j <= p)
    <3>1. j + 1 \in p + 2 .. N /\ (j + 1) - 1 = j /\ j + 1 \in 0 .. N /\ j + 1 # p + 1
      BY <1>0, <2>2
    <3>2. M[(j + 1) - 1] = L[j + 1]
      BY <1>3, <3>1
    <3>3. M[j] = L[j + 1]
      BY <3>1, <3>2
    <3>4. QED
      BY <1>2, <2>0, <3>1, <3>3
  <2>3. QED
    BY <2>1, <2>2
<1>6. Last(g) = N - 1 /\ Chain(g) = M /\ Last(h) = N /\ Chain(h) = L
  BY DEF N, M, L
<1>7. \A n : OnList(g, n) <=> OnList(h, n) /\ n # L[p + 1]
  BY <1>4, <1>5, <1>6 DEF OnList
<1>8. QED
  BY <1>6, <1>7

\* A new item: every header keeps the header behind it.
LEMMA AddEffect ==
  ASSUME NEW h, NEW g, NEW q, NEW p, Good(h), AddsItem(h, Chain(h), Last(h), q, p, g)
  PROVE  /\ Good(g) /\ Stays(h, g, {Chain(h)[q]})
         /\ \A n : OnList(g, n) <=> OnList(h, n) \/ n = Len(h) + 1
         /\ \A m, n : NextHeader(h, m, n) => NextHeader(g, m, n)
<1> DEFINE L == Chain(h)
           N == Last(h)
           M == Inserted(L, N, p, Len(h) + 1)
<1>1. Nodes(h) /\ IsList(h, L, N)
  BY DEF Good
<1>2. IsList(g, M, N + 1) /\ PartsStay(h, L, N, g, M, N + 1, {L[q]})
  BY AddList
<1>3. /\ Insertion(h, L, N, p, g) /\ q \in 0 .. p /\ h[L[q]].type = HEADER_TYPE
      /\ p <= q + h[L[q]].count
      /\ \A n \in DOMAIN h : g[n].count = IF n = L[q] THEN h[n].count + 1 ELSE h[n].count
  BY DEF AddsItem
<1>4. Nodes(g) /\ p \in 0 .. N - 1 /\ \A n \in DOMAIN h : g[n].type = h[n].type
  BY <1>3 DEF Insertion
<1>5. Chain(g) = M /\ Last(g) = N + 1 /\ Good(g)
  BY <1>2, <1>4, ChainIs
<1>6. Stays(h, g, {L[q]})
  BY <1>2, <1>5 DEF Stays
<1>7. \A n : OnList(g, n) <=> OnList(h, n) \/ n = Len(h) + 1
  BY <1>4, <1>5, InsertedOnList
<1> HIDE DEF L, N, M
<1>8. /\ N \in Nat
      /\ \A i \in 0 .. N : L[i] \in DOMAIN h /\ h[L[i]].count \in Nat
      /\ \A i, j \in 0 .. N : L[i] = L[j] => i = j
  BY <1>1, ListFacts
<1>9. ASSUME NEW m, NEW n, NextHeader(h, m, n) PROVE NextHeader(g, m, n)
  <2>1. CASE m # L[q]
    BY <1>4, <1>5, <1>6, <1>9, <2>1, StaysHeader
  <2>2. CASE m = L[q]
    <3>1. PICK i \in 0 .. N : NextAt(h, m, n, i)
      BY <1>9 DEF NextHeader, N
    <3>2. L[i] = m /\ h[m].type = HEADER_TYPE /\ L[i + h[m].count + 1] = n /\ h[n].type = HEADER_TYPE
      BY <3>1 DEF NextAt, L
    <3>3. q \in 0 .. N /\ i = q
      BY <1>3, <1>4, <1>8, <2>2, <3>2
    <3>4. h[m].count \in Nat /\ m \in DOMAIN h /\ n \in DOMAIN h /\ g[m].count = h[m].count + 1
      BY <1>3, <1>8, <1>9, <2>2, <3>2, NextFacts, HeaderFacts
    <3>5. CountedAt(h, L, N, q)
      BY <1>1, <1>3, <3>3 DEF IsList, Counted
    <3>6. q + h[m].count + 1 <= N
      BY <2>2, <3>5 DEF CountedAt
    <3>7. q + h[m].count + 1 \in p + 1 .. N
      BY <1>3, <1>4, <1>8, <2>2, <3>4, <3>6
    <3>8. M[(q + h[m].count + 1) + 1] = L[q + h[m].count + 1]
      BY <1>4, <1>8, <3>7, InsertedAt DEF M
    <3>9. M[q] = L[q]
      BY <1>3, <1>4, <1>8, InsertedAt DEF M
    <3>10. (q + h[m].count + 1) + 1 = q + g[m].count + 1
      BY <1>3, <3>3, <3>4
    <3>11. q \in 0 .. N + 1 /\ g[m].type = HEADER_TYPE /\ g[n].type = HEADER_TYPE
      BY <1>4, <1>8, <3>2, <3>3, <3>4
    <3>12. NextAt(g, m, n, q)
      BY <1>5, <2>2, <3>2, <3>3, <3>8, <3>9, <3>10, <3>11 DEF NextAt
    <3>13. QED
      BY <1>5, <3>11, <3>12 DEF NextHeader
  <2>3. QED
    BY <2>1, <2>2
<1>10. QED
  BY <1>5, <1>6, <1>7, <1>9 DEF L

\* A new header: it is behind the one whose partition was split.
LEMMA SplitEffect ==
  ASSUME NEW h, NEW g, NEW q, NEW p, Good(h), AddsHeader(h, Chain(h), Last(h), q, p, g)
  PROVE  /\ Good(g) /\ Stays(h, g, {Chain(h)[q]})
         /\ \A n : OnList(g, n) <=> OnList(h, n) \/ n = Len(h) + 1
         /\ \A m, n : NextHeader(h, m, n) /\ m # Chain(h)[q] => NextHeader(g, m, n)
         /\ NextHeader(g, Chain(h)[q], Len(h) + 1)
<1> DEFINE L == Chain(h)
           N == Last(h)
           M == Inserted(L, N, p, Len(h) + 1)
<1>1. Nodes(h) /\ IsList(h, L, N)
  BY DEF Good
<1>2. IsList(g, M, N + 1) /\ PartsStay(h, L, N, g, M, N + 1, {L[q]})
  BY SplitList
<1>3. /\ Insertion(h, L, N, p, g) /\ q \in 0 .. p /\ h[L[q]].type = HEADER_TYPE
      /\ g[Len(h) + 1].type = HEADER_TYPE
      /\ \A n \in DOMAIN h : g[n].count = IF n = L[q] THEN p - q ELSE h[n].count
  BY DEF AddsHeader
<1>4. Nodes(g) /\ p \in 0 .. N - 1 /\ \A n \in DOMAIN h : g[n].type = h[n].type
  BY <1>3 DEF Insertion
<1>5. Chain(g) = M /\ Last(g) = N + 1 /\ Good(g)
  BY <1>2, <1>4, ChainIs
<1>6. Stays(h, g, {L[q]})
  BY <1>2, <1>5 DEF Stays
<1>7. \A n : OnList(g, n) <=> OnList(h, n) \/ n = Len(h) + 1
  BY <1>4, <1>5, InsertedOnList
<1>8. \A m, n : NextHeader(h, m, n) /\ m # L[q] => NextHeader(g, m, n)
  BY <1>4, <1>5, <1>6, StaysHeader
<1> HIDE DEF L, N, M
<1>9. NextHeader(g, L[q], Len(h) + 1)
  <2>1. N \in Nat /\ q \in 0 .. N /\ q \in 0 .. N + 1 /\ p + 1 \in 0 .. N + 1
        /\ \A i \in 0 .. N : L[i] \in DOMAIN h
    BY ONLY <1>1, <1>3, <1>4, ListFacts
  <2>2. M[q] = L[q]
    BY <1>3, <1>4, <2>1, InsertedAt DEF M
  <2>3. M[p + 1] = Len(h) + 1
    BY <1>4, <2>1 DEF M, Inserted
  <2>4. L[q] \in DOMAIN h /\ g[L[q]].count = p - q /\ g[L[q]].type = HEADER_TYPE
    BY <1>3, <1>4, <2>1
  <2>5. q + (p - q) + 1 = p + 1
    BY <1>3, <1>4
  <2>6. NextAt(g, L[q], Len(h) + 1, q)
    BY <1>3, <1>5, <2>2, <2>3, <2>4, <2>5 DEF NextAt
  <2>7. QED
    BY <1>5, <2>1, <2>6 DEF NextHeader
<1>10. QED
  BY <1>5, <1>6, <1>7, <1>8, <1>9 DEF L

\* An item less.
LEMMA RemoveEffect ==
  ASSUME NEW h, NEW g, NEW q, NEW p, Good(h), RemovesItem(h, Chain(h), Last(h), q, p, g)
  PROVE  /\ Good(g) /\ Stays(h, g, {Chain(h)[q]})
         /\ \A n : OnList(g, n) <=> OnList(h, n) /\ n # Chain(h)[p + 1]
         /\ h[Chain(h)[p + 1]].type = NORMAL
         /\ \A m, n : NextHeader(h, m, n) => NextHeader(g, m, n)
<1> DEFINE L == Chain(h)
           N == Last(h)
           M == Dropped(L, N, p)
<1>1. Nodes(h) /\ IsList(h, L, N)
  BY DEF Good
<1>2. IsList(g, M, N - 1) /\ PartsStay(h, L, N, g, M, N - 1, {L[q]})
  BY RemoveList
<1>3. /\ Removal(h, L, N, p, g) /\ q \in 0 .. p /\ h[L[q]].type = HEADER_TYPE
      /\ p < q + h[L[q]].count
      /\ \A n \in DOMAIN h : g[n].count = IF n = L[q] THEN h[n].count - 1 ELSE h[n].count
  BY DEF RemovesItem
<1>4. Nodes(g) /\ p \in 0 .. N - 2 /\ \A n \in DOMAIN h : g[n].type = h[n].type
  BY <1>3 DEF Removal
<1>5. Chain(g) = M /\ Last(g) = N - 1 /\ Good(g)
  BY <1>2, <1>4, ChainIs
<1>6. Stays(h, g, {L[q]})
  BY <1>2, <1>5 DEF Stays
<1>7. \A n : OnList(g, n) <=> OnList(h, n) /\ n # L[p + 1]
  BY <1>4, <1>5, DroppedOnList
<1> HIDE DEF L, N, M
<1>8. /\ N \in Nat
      /\ \A i \in 0 .. N : L[i] \in DOMAIN h /\ h[L[i]].count \in Nat
      /\ \A i, j \in 0 .. N : L[i] = L[j] => i = j
  BY <1>1, ListFacts
<1>80. q \in 0 .. N /\ q \in 0 .. N - 1
  BY <1>3, <1>4, <1>8
<1>81. CountedAt(h, L, N, q) /\ h[L[q]].count \in Nat
  BY <1>1, <1>3, <1>8, <1>80 DEF IsList, Counted
<1>82. h[L[p + 1]].type = NORMAL
  <2>1. p + 1 \in q + 1 .. q + h[L[q]].count
    BY <1>3, <1>4, <1>81
  <2>2. QED
    BY <1>81, <2>1 DEF CountedAt
<1>9. ASSUME NEW m, NEW n, NextHeader(h, m, n) PROVE NextHeader(g, m, n)
  <2>1. CASE m # L[q]
    BY <1>4, <1>5, <1>6, <1>9, <2>1, StaysHeader
  <2>2. CASE m = L[q]
    <3>1. PICK i \in 0 .. N : NextAt(h, m, n, i)
      BY <1>9 DEF NextHeader, N
    <3>2. L[i] = m /\ h[m].type = HEADER_TYPE /\ L[i + h[m].count + 1] = n /\ h[n].type = HEADER_TYPE
      BY <3>1 DEF NextAt, L
    <3>3. i = q
      BY <1>8, <1>80, <2>2, <3>2
    <3>4. h[m].count \in Nat /\ m \in DOMAIN h /\ n \in DOMAIN h /\ g[m].count = h[m].count - 1
      BY <1>3, <1>8, <1>9, <2>2, <3>2, NextFacts, HeaderFacts
    <3>6. q + h[m].count + 1 <= N
      BY <2>2, <1>81 DEF CountedAt
    <3>7. q + h[m].count + 1 \in p + 2 .. N
      BY <1>3, <1>4, <1>8, <2>2, <3>4, <3>6
    <3>8. M[(q + h[m].count + 1) - 1] = L[q + h[m].count + 1]
      BY <1>4, <1>8, <3>7, DroppedAt DEF M
    <3>9. M[q] = L[q]
      BY <1>3, <1>4, <1>8, DroppedAt DEF M
    <3>10. (q + h[m].count + 1) - 1 = q + g[m].count + 1
      BY <1>80, <3>4
    <3>11. g[m].type = HEADER_TYPE /\ g[n].type = HEADER_TYPE
      BY <1>4, <3>2, <3>4
    <3>12. NextAt(g, m, n, q)
      BY <1>5, <2>2, <3>2, <3>3, <3>8, <3>9, <3>10, <3>11 DEF NextAt
    <3>13. QED
      BY <1>5, <1>80, <3>12 DEF NextHeader
  <2>3. QED
    BY <2>1, <2>2
<1>10. QED
  BY <1>5, <1>6, <1>7, <1>82, <1>9 DEF L

\* A header less.
LEMMA MergeEffect ==
  ASSUME NEW h, NEW g, NEW q, Good(h), RemovesHeader(h, Chain(h), Last(h), q, g),
         NEW x, x = Chain(h)[q + h[Chain(h)[q]].count + 1]
  PROVE  /\ Good(g) /\ Stays(h, g, {Chain(h)[q], x})
         /\ \A n : OnList(g, n) <=> OnList(h, n) /\ n # x
         /\ \A m, n : NextHeader(h, m, n) /\ m \notin {Chain(h)[q], x} => NextHeader(g, m, n)
<1> DEFINE L == Chain(h)
           N == Last(h)
           p == q + h[L[q]].count
           M == Dropped(L, N, p)
<1>1. Nodes(h) /\ IsList(h, L, N)
  BY DEF Good
<1>2. IsList(g, M, N - 1) /\ PartsStay(h, L, N, g, M, N - 1, {L[q], x})
  BY MergeList
<1>3. Removal(h, L, N, p, g)
  BY DEF RemovesHeader
<1>4. Nodes(g) /\ p \in 0 .. N - 2 /\ \A n \in DOMAIN h : g[n].type = h[n].type
  BY <1>3 DEF Removal
<1>5. Chain(g) = M /\ Last(g) = N - 1 /\ Good(g)
  BY <1>2, <1>4, ChainIs
<1>6. Stays(h, g, {L[q], x})
  BY <1>2, <1>5 DEF Stays
<1>7. \A n : OnList(g, n) <=> OnList(h, n) /\ n # L[p + 1]
  BY <1>4, <1>5, DroppedOnList
<1>8. \A m, n : NextHeader(h, m, n) /\ m \notin {L[q], x} => NextHeader(g, m, n)
  BY <1>4, <1>5, <1>6, StaysHeader
<1>9. QED
  BY <1>5, <1>6, <1>7, <1>8

------------------------------------------------------------------------------
(***************************************************************************)
(* Changes found in a snapshot                                             *)
(***************************************************************************)
\* The result w of Locate for k: the item's place is behind position p, in the
\* partition of the header at position q.
PlaceAt(h, w, k, q, p) ==
  /\ p \in 0 .. Last(h) - 1 /\ q \in 0 .. p
  /\ h[Chain(h)[q]].type = HEADER_TYPE /\ p <= q + h[Chain(h)[q]].count
  /\ w.prev = Chain(h)[p] /\ w.at = Chain(h)[p + 1] /\ w.header.node = Chain(h)[q]
  /\ w.header.copy = <<>> \/ w.header.copy = <<h[w.header.node]>>
  /\ h[w.header.node].key <= k
  /\ h[w.prev].key <= k /\ (h[w.prev].type # HEADER_TYPE => h[w.prev].key < k)
  /\ Stops(h[w.at], k)
  /\ w.found = (h[w.at].key = k)

\* LocateFinds with the list of the heap: the header, the place and their keys.
LEMMA PlaceFound ==
  ASSUME NEW h, Good(h), NEW ptr, HeaderOn(h, ptr.node),
         ptr.copy = <<>> \/ ptr.copy = <<h[ptr.node]>>,
         NEW k \in Keys, h[ptr.node].key <= k
  PROVE  \E p \in 0 .. Last(h) - 1, q \in 0 .. Last(h) : PlaceAt(h, Locate(h, ptr, k), k, q, p)
<1> DEFINE L == Chain(h)
           N == Last(h)
           w == Locate(h, ptr, k)
<1>1. Nodes(h) /\ IsList(h, L, N)
  BY DEF Good
<1>2. /\ N \in Nat
      /\ \A i \in 0 .. N : /\ h[L[i]].type = TAIL_TYPE <=> i = N
                           /\ h[L[i]].type \in {NORMAL, HEADER_TYPE, TAIL_TYPE}
                           /\ h[L[i]].key \in 0 .. MaxKey + 1
  BY <1>1, ListFacts
<1>3. k \in Int /\ MaxKey \in Nat
  BY OptionAssumption DEF Keys
<1>4. PICK g \in 0 .. N : L[g] = ptr.node
  BY DEF HeaderOn, OnList
<1>5. h[L[g]].type = HEADER_TYPE /\ h[L[g]].key <= k
  BY <1>4 DEF HeaderOn
<1>6. g \in 0 .. N - 1
  <2>1. g # N
    BY <1>2, <1>5 DEF HEADER_TYPE, TAIL_TYPE
  <2>2. QED
    BY <1>2, <2>1
<1> HIDE DEF L, N, w
<1>7. PICK p \in g .. N - 1, q \in 0 .. N : Located(h, L, N, ptr, k, g, p, q)
  BY <1>1, <1>4, <1>5, <1>6, LocateFinds
<1>8. /\ p \in g .. N - 1 /\ q \in g .. p
      /\ Stops(h[L[p + 1]], k)
      /\ \A m \in g + 1 .. p : ~Stops(h[L[m]], k)
      /\ h[L[q]].type = HEADER_TYPE
      /\ p <= q + h[L[q]].count
      /\ w.prev = L[p] /\ w.at = L[p + 1]
      /\ w.found = (h[L[p + 1]].key = k)
      /\ w.header = IF q = g THEN ptr ELSE [node |-> L[q], copy |-> <<>>]
  BY <1>7 DEF Located, w
<1>9. p \in 0 .. N - 1 /\ q \in 0 .. p /\ p \in 0 .. N /\ q \in 0 .. N
  BY <1>2, <1>8
<1>10. ASSUME NEW m \in g .. p
       PROVE  h[L[m]].key <= k /\ (h[L[m]].type # HEADER_TYPE => h[L[m]].key < k)
  <2>1. CASE m = g
    BY <1>5, <2>1
  <2>2. CASE m # g
    <3>1. m \in g + 1 .. p /\ m \in 0 .. N /\ m # N
      BY <1>2, <1>8, <2>2
    <3>2. ~Stops(h[L[m]], k) /\ h[L[m]].type # TAIL_TYPE
          /\ h[L[m]].type \in {NORMAL, HEADER_TYPE, TAIL_TYPE} /\ h[L[m]].key \in 0 .. MaxKey + 1
      BY <1>2, <1>8, <3>1
    <3>3. QED
      BY <1>3, <3>2 DEF Stops
  <2>3. QED
    BY <2>1, <2>2
<1>11. h[L[p]].key <= k /\ (h[L[p]].type # HEADER_TYPE => h[L[p]].key < k) /\ h[L[q]].key <= k
  <2>1. p \in g .. p /\ q \in g .. p
    BY <1>2, <1>8
  <2>2. QED
    BY <1>10, <2>1
<1>12. w.header.node = L[q] /\ (w.header.copy = <<>> \/ w.header.copy = <<h[L[q]]>>)
  <2>1. CASE q = g
    BY <1>4, <1>8, <2>1
  <2>2. CASE q # g
    BY <1>8, <2>2
  <2>3. QED
    BY <2>1, <2>2
<1>13. PlaceAt(h, w, k, q, p)
  BY <1>8, <1>9, <1>11, <1>12 DEF PlaceAt, L, N
<1>14. QED
  BY <1>9, <1>13 DEF w, N

\* A node's successor and a node's count are changed.
Edit(g, f, a, x, b, c) ==
  \A n \in DOMAIN g :
    /\ f[n].type = g[n].type /\ f[n].key = g[n].key
    /\ f[n].next = IF n = a THEN x ELSE g[n].next
    /\ f[n].count = IF n = b THEN c ELSE g[n].count

\* h is a snapshot of a heap that is g by now, and only nodes in S changed.
Snapshot(h, g, S) == Good(h) /\ Good(g) /\ Grown(h, g, S) /\ Stays(h, g, S)

\* The partition of an unchanged header, in the snapshot and now.
PartAt(h, g, i, c, k) ==
  /\ c \in Nat /\ k + c + 1 <= Last(g) /\ i + c + 1 <= Last(h)
  /\ Chain(g)[k] = Chain(h)[i]
  /\ g[Chain(g)[k]].type = HEADER_TYPE /\ g[Chain(g)[k]].count = c
  /\ \A j \in 0 .. c + 1 : Chain(g)[k + j] = Chain(h)[i + j]

\* A partition the section's snapshot shows and nobody wrote since is still there,
\* with the same nodes.
LEMMA PartNow ==
  ASSUME NEW h, NEW g, NEW S, Snapshot(h, g, S), NEW i \in 0 .. Last(h),
         h[Chain(h)[i]].type = HEADER_TYPE, Chain(h)[i] \notin S,
         NEW c, c = h[Chain(h)[i]].count
  PROVE  \E k \in 0 .. Last(g) : PartAt(h, g, i, c, k)
<1> DEFINE L == Chain(h)
           N == Last(h)
           M == Chain(g)
           K == Last(g)
<1>1. Nodes(h) /\ IsList(h, L, N) /\ PartsStay(h, L, N, g, M, K, S)
  BY DEF Snapshot, Good, Stays
<1>2. \A n \in DOMAIN h : g[n].type = h[n].type
  BY DEF Snapshot, Grown
<1>3. N \in Nat /\ \A a \in 0 .. N : L[a] \in DOMAIN h /\ h[L[a]].count \in Nat
  BY <1>1, ListFacts
<1> HIDE DEF L, N, M, K
<1>4. PICK k \in 0 .. K : SamePart(h, L, i, g, M, K, k)
  BY <1>1 DEF PartsStay, L, N
<1>5. i \in 0 .. N /\ c = h[L[i]].count /\ c \in Nat /\ h[L[i]].type = HEADER_TYPE /\ L[i] \in DOMAIN h
  BY <1>3 DEF L, N
<1>6. k + c + 1 <= K /\ g[M[k]].count = c /\ \A j \in 0 .. c + 1 : M[k + j] = L[i + j]
  BY <1>4, <1>5 DEF SamePart
<1>7. M[k] = L[i]
  <2>1. 0 \in 0 .. c + 1 /\ i + 0 = i
    BY <1>3, <1>5
  <2>2. k + 0 = k
    OBVIOUS
  <2>3. QED
    BY <1>6, <2>1, <2>2
<1>8. i + c + 1 <= N
  BY <1>1, <1>5 DEF IsList, Counted, CountedAt
<1>9. g[M[k]].type = HEADER_TYPE
  BY <1>2, <1>5, <1>7
<1>10. QED
  BY <1>5, <1>6, <1>7, <1>8, <1>9 DEF PartAt, L, N, M, K

\* A section at place w of its snapshot h writes f; the list was g.
PlacedAt(h, g, S, k, w, q, p) ==
  /\ Snapshot(h, g, S) /\ k \in Keys
  /\ {w.header.node, w.prev, w.at} \intersect S = {}
  /\ p \in 0 .. Last(h) - 1 /\ q \in 0 .. Last(h) /\ PlaceAt(h, w, k, q, p)

\* f is g with a new item at the place w, and without the item there.
AddedAt(g, f, k, w) ==
  /\ Nodes(f) /\ Len(f) = Len(g) + 1
  /\ Edit(g, f, w.prev, Len(g) + 1, w.header.node, g[w.header.node].count + 1)
  /\ f[Len(g) + 1].type = NORMAL /\ f[Len(g) + 1].key = k /\ f[Len(g) + 1].next = w.at

RemovedAt(h, g, f, w) ==
  /\ Nodes(f) /\ Len(f) = Len(g)
  /\ Edit(g, f, w.prev, h[w.at].next, w.header.node, g[w.header.node].count - 1)

\* The place an add found in its snapshot is a place to insert at in the list of now.
LEMMA AddStep ==
  ASSUME NEW h, NEW g, NEW S, NEW k, NEW w, NEW q, NEW p, PlacedAt(h, g, S, k, w, q, p),
         ~w.found, NEW f, AddedAt(g, f, k, w)
  PROVE  \E a, b : AddsItem(g, Chain(g), Last(g), a, b, f) /\ Chain(g)[a] = w.header.node
<1>0. /\ Snapshot(h, g, S) /\ k \in Keys
      /\ {w.header.node, w.prev, w.at} \intersect S = {}
      /\ p \in 0 .. Last(h) - 1 /\ q \in 0 .. Last(h) /\ PlaceAt(h, w, k, q, p)
      /\ Nodes(f) /\ Len(f) = Len(g) + 1
      /\ Edit(g, f, w.prev, Len(g) + 1, w.header.node, g[w.header.node].count + 1)
      /\ f[Len(g) + 1].type = NORMAL /\ f[Len(g) + 1].key = k /\ f[Len(g) + 1].next = w.at
  BY DEF PlacedAt, AddedAt
<1> USE <1>0
<1> DEFINE L == Chain(h)
           N == Last(h)
           M == Chain(g)
           K == Last(g)
           c == h[L[q]].count
<1>1. /\ q \in 0 .. p /\ h[L[q]].type = HEADER_TYPE /\ p <= q + c
      /\ w.prev = L[p] /\ w.at = L[p + 1] /\ w.header.node = L[q]
      /\ h[w.prev].key <= k /\ (h[w.prev].type # HEADER_TYPE => h[w.prev].key < k)
      /\ Stops(h[w.at], k) /\ h[w.at].key # k
  BY DEF PlaceAt
<1>2. L[q] \notin S /\ L[p] \notin S /\ L[p + 1] \notin S
  BY <1>1
<1>3. Nodes(h) /\ Nodes(g) /\ IsList(h, L, N) /\ IsList(g, M, K)
      /\ \A n \in DOMAIN h : n \notin S => g[n] = h[n]
  BY DEF Snapshot, Good, Grown
<1>4. N \in Nat /\ K \in Nat /\ \A i \in 0 .. N : L[i] \in DOMAIN h /\ h[L[i]].key \in 0 .. MaxKey + 1
  BY <1>3, ListFacts
<1>4a. PICK a \in 0 .. K : PartAt(h, g, q, c, a)
  BY <1>1, <1>2, PartNow
<1>5. /\ a \in 0 .. K
      /\ c \in Nat /\ a + c + 1 <= K /\ q + c + 1 <= N
      /\ M[a] = L[q]
      /\ g[M[a]].type = HEADER_TYPE /\ g[M[a]].count = c
      /\ \A j \in 0 .. c + 1 : M[a + j] = L[q + j]
  BY <1>4a DEF PartAt
<1> DEFINE b == a + (p - q)
<1> HIDE DEF L, N, M, K, c
<1>6. /\ p \in Nat /\ q \in Nat /\ a \in Nat /\ q <= p /\ p <= q + c /\ p <= N - 1
      /\ c \in Nat /\ a + c + 1 <= K /\ N \in Nat /\ K \in Nat
  BY <1>1, <1>4, <1>5 DEF N
<1>7. /\ p - q \in 0 .. c + 1 /\ p - q + 1 \in 0 .. c + 1
      /\ q + (p - q) = p /\ q + (p - q + 1) = p + 1 /\ a + (p - q + 1) = (a + (p - q)) + 1
  <2> HIDE <1>0
  <2>1. QED
    BY <1>6
<1>8. M[b] = L[p] /\ M[b + 1] = L[p + 1]
  <2>1. M[a + (p - q)] = L[q + (p - q)]
    BY <1>5, <1>7
  <2>2. M[a + (p - q + 1)] = L[q + (p - q + 1)]
    BY <1>5, <1>7
  <2>3. QED
    BY <1>7, <2>1, <2>2
<1>9. b \in 0 .. K - 1 /\ a \in 0 .. b /\ b <= a + c /\ b \in 0 .. K
  <2> HIDE <1>0
  <2>1. QED
    BY <1>6
<1>10. p \in 0 .. N /\ p + 1 \in 0 .. N
  BY <1>6
<1>11. g[L[p]] = h[L[p]] /\ g[L[p + 1]] = h[L[p + 1]]
  BY <1>2, <1>3, <1>4, <1>10
<1>12. k < g[w.at].key
  <2>1. k \in Int /\ h[w.at].key \in Int
    BY <1>1, <1>4, <1>10 DEF Keys
  <2>2. QED
    BY <1>1, <1>11, <2>1 DEF Stops
<1>13. Insertion(g, M, K, b, f)
  <2> DEFINE new == Len(g) + 1
  <2>1. \A n \in DOMAIN g : /\ f[n].type = g[n].type /\ f[n].key = g[n].key
                            /\ f[n].next = IF n = M[b] THEN new ELSE g[n].next
    BY <1>1, <1>8 DEF Edit
  <2>2. f[new].next = M[b + 1] /\ f[new].key = k
    BY <1>1, <1>8
  <2>3. /\ g[M[b]].key <= f[new].key
        /\ g[M[b]].type # HEADER_TYPE => g[M[b]].key < f[new].key
    BY <1>1, <1>8, <1>11, <2>2
  <2>4. f[new].key <= g[M[b + 1]].key /\ f[new].key < g[M[b + 1]].key
    <3>1. k \in Int /\ g[w.at].key \in Int
      BY <1>1, <1>4, <1>10, <1>11 DEF Keys
    <3>2. QED
      BY <1>1, <1>8, <1>12, <2>2, <3>1
  <2>5. QED
    BY <1>3, <1>9, <2>1, <2>2, <2>3, <2>4 DEF Insertion
<1>14. AddsItem(g, M, K, a, b, f)
  <2>1. \A n \in DOMAIN g : f[n].count = IF n = M[a] THEN g[n].count + 1 ELSE g[n].count
    BY <1>1, <1>5 DEF Edit
  <2>2. QED
    BY <1>5, <1>9, <1>13, <2>1 DEF AddsItem
<1>15. QED
  BY <1>1, <1>5, <1>9, <1>14 DEF M, K

\* The item a remove found in its snapshot is an item of the same partition now.
LEMMA RemoveStep ==
  ASSUME NEW h, NEW g, NEW S, NEW k, NEW w, NEW q, NEW p, PlacedAt(h, g, S, k, w, q, p),
         w.found, NEW f, RemovedAt(h, g, f, w)
  PROVE  /\ \E a, b : /\ RemovesItem(g, Chain(g), Last(g), a, b, f)
                      /\ Chain(g)[a] = w.header.node /\ Chain(g)[b + 1] = w.at
         /\ g[w.at].key = k /\ g[w.header.node].count >= 1
<1>0. /\ Snapshot(h, g, S) /\ k \in Keys
      /\ {w.header.node, w.prev, w.at} \intersect S = {}
      /\ p \in 0 .. Last(h) - 1 /\ q \in 0 .. Last(h) /\ PlaceAt(h, w, k, q, p)
      /\ Nodes(f) /\ Len(f) = Len(g)
      /\ Edit(g, f, w.prev, h[w.at].next, w.header.node, g[w.header.node].count - 1)
  BY DEF PlacedAt, RemovedAt
<1> USE <1>0
<1> DEFINE L == Chain(h)
           N == Last(h)
           M == Chain(g)
           K == Last(g)
           c == h[L[q]].count
<1>1. /\ q \in 0 .. p /\ h[L[q]].type = HEADER_TYPE /\ p <= q + c
      /\ w.prev = L[p] /\ w.at = L[p + 1] /\ w.header.node = L[q]
      /\ Stops(h[w.at], k) /\ h[w.at].key = k
  BY DEF PlaceAt
<1>2. L[q] \notin S /\ L[p] \notin S /\ L[p + 1] \notin S
  BY <1>1
<1>3. Nodes(h) /\ Nodes(g) /\ IsList(h, L, N) /\ IsList(g, M, K)
      /\ \A n \in DOMAIN h : n \notin S => g[n] = h[n]
  BY DEF Snapshot, Good, Grown
<1>4. /\ N \in Nat /\ K \in Nat
      /\ \A i \in 0 .. N : L[i] \in DOMAIN h /\ (h[L[i]].type = TAIL_TYPE <=> i = N)
      /\ \A i \in 0 .. N - 1 : h[L[i]].next = L[i + 1]
      /\ \A i \in 0 .. K - 1 : g[M[i]].next = M[i + 1]
      /\ \A i \in 0 .. K : g[M[i]].type = TAIL_TYPE <=> i = K
  <2>0. Nodes(h) /\ Nodes(g) /\ IsList(h, L, N) /\ IsList(g, M, K)
    BY <1>3
  <2> HIDE DEF L, N, M, K
  <2>1. /\ N \in Nat
        /\ \A i \in 0 .. N : L[i] \in DOMAIN h /\ (h[L[i]].type = TAIL_TYPE <=> i = N)
        /\ \A i \in 0 .. N - 1 : h[L[i]].next = L[i + 1]
    BY ONLY <2>0, ListFacts
  <2>2. /\ K \in Nat
        /\ \A i \in 0 .. K - 1 : g[M[i]].next = M[i + 1]
        /\ \A i \in 0 .. K : g[M[i]].type = TAIL_TYPE <=> i = K
    BY ONLY <2>0, ListFacts
  <2>3. QED
    BY <2>1, <2>2
<1>4a. PICK a \in 0 .. K : PartAt(h, g, q, c, a)
  BY <1>1, <1>2, PartNow
<1>5. /\ a \in 0 .. K
      /\ c \in Nat /\ a + c + 1 <= K /\ q + c + 1 <= N
      /\ M[a] = L[q]
      /\ g[M[a]].type = HEADER_TYPE /\ g[M[a]].count = c
      /\ \A j \in 0 .. c + 1 : M[a + j] = L[q + j]
  BY <1>4a DEF PartAt
<1>50. h[L[q + c + 1]].type # NORMAL
  BY <1>1, <1>3, ZenonT(40) DEF IsList, Counted, CountedAt
<1> DEFINE b == a + (p - q)
<1> HIDE DEF L, N, M, K, c
<1>6. /\ p \in Nat /\ q \in Nat /\ a \in Nat /\ q <= p /\ p <= q + c /\ p <= N - 1
      /\ c \in Nat /\ a + c + 1 <= K /\ N \in Nat /\ K \in Nat
  BY <1>1, <1>4, <1>5 DEF N
<1>60. h[w.at].type = NORMAL
  <2>1. k \in Int
    BY DEF Keys
  <2>2. QED
    BY <1>1, <2>1 DEF Stops
<1>61. p < q + c
  <2>1. p # q + c
    BY <1>1, <1>50, <1>60
  <2>2. QED
    BY <1>6, <2>1
<1>7. /\ p - q \in 0 .. c + 1 /\ p - q + 1 \in 0 .. c + 1
      /\ q + (p - q) = p /\ q + (p - q + 1) = p + 1 /\ a + (p - q + 1) = (a + (p - q)) + 1
  BY <1>6
<1>8. M[b] = L[p] /\ M[b + 1] = L[p + 1]
  <2>1. M[a + (p - q)] = L[q + (p - q)]
    BY <1>5, <1>7
  <2>2. M[a + (p - q + 1)] = L[q + (p - q + 1)]
    BY <1>5, <1>7
  <2>3. QED
    BY <1>7, <2>1, <2>2
<1>9. b \in 0 .. K - 1 /\ a \in 0 .. b /\ b < a + c /\ b \in 0 .. K /\ b + 1 \in 0 .. K
      /\ p + 1 \in 0 .. N
  BY ONLY <1>6, <1>61, SMTT(40)
<1>10. g[L[p + 1]] = h[L[p + 1]]
  BY <1>2, <1>3, <1>4, <1>9
<1>11. b + 1 # K
  BY <1>1, <1>4, <1>8, <1>9, <1>10, <1>60 DEF NORMAL, TAIL_TYPE
<1>12. b \in 0 .. K - 2 /\ b + 1 \in 0 .. K - 1 /\ (b + 1) + 1 = b + 2
  <2>1. K \in Nat /\ b \in 0 .. K - 1 /\ b + 1 # K
    BY <1>6, <1>9, <1>11
  <2> HIDE DEF b
  <2>2. QED
    BY <2>1
<1>13. h[w.at].next = M[b + 2]
  <2>1. g[M[b + 1]].next = M[(b + 1) + 1]
    BY <1>4, <1>12
  <2>2. QED
    BY <1>1, <1>8, <1>10, <1>12, <2>1
<1>14. Removal(g, M, K, b, f)
  <2>1. \A n \in DOMAIN g : /\ f[n].type = g[n].type /\ f[n].key = g[n].key
                            /\ f[n].next = IF n = M[b] THEN M[b + 2] ELSE g[n].next
    BY <1>1, <1>8, <1>13 DEF Edit
  <2>2. QED
    BY <1>3, <1>12, <2>1 DEF Removal
<1>15. RemovesItem(g, M, K, a, b, f)
  <2>1. \A n \in DOMAIN g : f[n].count = IF n = M[a] THEN g[n].count - 1 ELSE g[n].count
    BY <1>1, <1>5 DEF Edit
  <2>2. QED
    BY <1>5, <1>9, <1>14, <2>1 DEF RemovesItem
<1>16. g[w.at].key = k /\ g[w.header.node].count >= 1
  <2>1. c >= 1
    BY <1>6, <1>61
  <2>2. QED
    BY <1>1, <1>5, <1>10, <2>1
<1>17. QED
  BY <1>1, <1>5, <1>8, <1>9, <1>15, <1>16 DEF M, K

\* The walk from a header.
LEMMA WalkFrom ==
  ASSUME NEW h, Good(h), NEW i \in 0 .. Last(h), NEW m, m = Chain(h)[i]
  PROVE  \A j \in 0 .. Last(h) - i :
           j \in 0 .. Len(h) /\ Path(h, [node |-> m, copy |-> <<>>])[j] = Chain(h)[i + j]
<1> DEFINE L == Chain(h)
           N == Last(h)
           p == [node |-> m, copy |-> <<>>]
<1>1. Nodes(h) /\ IsList(h, L, N)
  BY DEF Good
<1>2. N \in Nat /\ N < Len(h) /\ Len(h) \in Nat
  BY <1>1, ListFacts
<1>3. p.node = L[i] /\ p.copy = <<>> /\ Linked(h, L, N)
  BY <1>1 DEF IsList
<1> HIDE DEF L, N, p
<1>4. i \in 0 .. N
  BY DEF N
<1>5. \A j \in 0 .. Len(h) : i + j <= N => Path(h, p)[j] = L[i + j]
  BY <1>1, <1>3, <1>4, PathAlong
<1>6. \A j \in 0 .. N - i : j \in 0 .. Len(h) /\ i + j <= N
  BY <1>2, <1>4
<1>7. QED
  BY <1>5, <1>6 DEF L, N, p

\* The split of m in its snapshot h, behind keep items, and what it makes of g.
SplitIn(h, g, S, m, keep, curr, next) ==
  /\ Snapshot(h, g, S) /\ HeaderOn(h, m) /\ keep \in 0 .. h[m].count
  /\ curr = Path(h, [node |-> m, copy |-> <<>>])[keep]
  /\ next = Path(h, [node |-> m, copy |-> <<>>])[keep + 1]
  /\ {m, curr, next} \intersect S = {}

SplitTo(h, g, f, m, keep, curr, next) ==
  /\ Nodes(f) /\ Len(f) = Len(g) + 1 /\ Edit(g, f, curr, Len(g) + 1, m, keep)
  /\ f[Len(g) + 1].type = HEADER_TYPE /\ f[Len(g) + 1].key = h[next].key
  /\ f[Len(g) + 1].next = next /\ f[Len(g) + 1].count = h[m].count - keep

\* The split point found in a snapshot splits the partition of now.
LEMMA SplitStep ==
  ASSUME NEW h, NEW g, NEW S, NEW m, NEW keep, NEW curr, NEW next,
         SplitIn(h, g, S, m, keep, curr, next), NEW f, SplitTo(h, g, f, m, keep, curr, next)
  PROVE  \E a, b : AddsHeader(g, Chain(g), Last(g), a, b, f) /\ Chain(g)[a] = m
<1>0. /\ Snapshot(h, g, S) /\ HeaderOn(h, m) /\ keep \in 0 .. h[m].count
      /\ curr = Path(h, [node |-> m, copy |-> <<>>])[keep]
      /\ next = Path(h, [node |-> m, copy |-> <<>>])[keep + 1]
      /\ {m, curr, next} \intersect S = {}
      /\ Nodes(f) /\ Len(f) = Len(g) + 1 /\ Edit(g, f, curr, Len(g) + 1, m, keep)
      /\ f[Len(g) + 1].type = HEADER_TYPE /\ f[Len(g) + 1].key = h[next].key
      /\ f[Len(g) + 1].next = next /\ f[Len(g) + 1].count = h[m].count - keep
  BY Zenon DEF SplitIn, SplitTo
<1> SUFFICES ASSUME Snapshot(h, g, S), HeaderOn(h, m), keep \in 0 .. h[m].count,
                    curr = Path(h, [node |-> m, copy |-> <<>>])[keep],
                    next = Path(h, [node |-> m, copy |-> <<>>])[keep + 1],
                    {m, curr, next} \intersect S = {},
                    Nodes(f), Len(f) = Len(g) + 1, Edit(g, f, curr, Len(g) + 1, m, keep),
                    f[Len(g) + 1].type = HEADER_TYPE, f[Len(g) + 1].key = h[next].key,
                    f[Len(g) + 1].next = next, f[Len(g) + 1].count = h[m].count - keep
             PROVE  \E a, b : AddsHeader(g, Chain(g), Last(g), a, b, f) /\ Chain(g)[a] = m
  BY <1>0, Zenon
<1> DEFINE L == Chain(h)
           N == Last(h)
           M == Chain(g)
           K == Last(g)
<1>1. PICK q \in 0 .. N : L[q] = m
  BY DEF HeaderOn, OnList
<1> DEFINE c == h[L[q]].count
<1>2. h[L[q]].type = HEADER_TYPE /\ L[q] \notin S /\ curr \notin S /\ next \notin S
  BY <1>1 DEF HeaderOn
<1>3. Nodes(h) /\ Nodes(g) /\ IsList(h, L, N) /\ IsList(g, M, K) /\ Good(h)
      /\ \A n \in DOMAIN h : n \notin S => g[n] = h[n]
  BY DEF Snapshot, Good, Grown
<1>4. /\ N \in Nat /\ K \in Nat /\ \A i \in 0 .. N : L[i] \in DOMAIN h /\ h[L[i]].key \in 0 .. MaxKey + 1
      /\ \A i \in 0 .. K : g[M[i]].key \in 0 .. MaxKey + 1
  BY <1>3, ListFacts, SMTT(40)
<1>4a. PICK a \in 0 .. K : PartAt(h, g, q, c, a)
  BY <1>2, PartNow
<1>5. /\ a \in 0 .. K
      /\ c \in Nat /\ a + c + 1 <= K /\ q + c + 1 <= N
      /\ M[a] = L[q]
      /\ g[M[a]].type = HEADER_TYPE /\ g[M[a]].count = c
      /\ \A j \in 0 .. c + 1 : M[a + j] = L[q + j]
  BY <1>4a DEF PartAt
<1>50. \A j \in 0 .. N - q : Path(h, [node |-> m, copy |-> <<>>])[j] = L[q + j]
  <2>1. q \in 0 .. Last(h) /\ Chain(h)[q] = m /\ Good(h)
    BY <1>1, <1>3
  <2>2. QED
    BY ONLY <2>1, WalkFrom
<1>51. \A i, j \in 0 .. K : i < j => /\ g[M[i]].key <= g[M[j]].key
                                     /\ g[M[i]].type # HEADER_TYPE => g[M[i]].key < g[M[j]].key
  BY <1>3 DEF IsList, Ordered
<1> DEFINE b == a + keep
<1> HIDE DEF L, N, M, K
<1>52. c = h[m].count /\ keep \in 0 .. c
  BY <1>1
<1> HIDE DEF c
<1>6. /\ q \in Nat /\ a \in Nat /\ keep \in Nat /\ keep <= c
      /\ c \in Nat /\ a + c + 1 <= K /\ q + c + 1 <= N /\ N \in Nat /\ K \in Nat
  BY <1>4, <1>5, <1>52
<1>7. /\ keep \in 0 .. c + 1 /\ keep + 1 \in 0 .. c + 1 /\ keep \in 0 .. N - q /\ keep + 1 \in 0 .. N - q
      /\ a + (keep + 1) = (a + keep) + 1 /\ q + keep + 1 \in 0 .. N /\ q + (keep + 1) = q + keep + 1
      /\ b \in 0 .. K - 1 /\ b \in 0 .. K /\ b + 1 \in 0 .. K /\ a \in 0 .. b /\ b <= a + c /\ b < b + 1
      /\ a + c - b = c - keep /\ b - a = keep
  BY <1>6
<1>8. M[b] = curr /\ M[b + 1] = next /\ next = L[q + (keep + 1)]
  BY <1>5, <1>7, <1>50
<1>10. g[next] = h[next]
  BY <1>2, <1>3, <1>4, <1>7, <1>8
<1>13. Insertion(g, M, K, b, f)
  <2> DEFINE new == Len(g) + 1
  <2>1. \A n \in DOMAIN g : /\ f[n].type = g[n].type /\ f[n].key = g[n].key
                            /\ f[n].next = IF n = M[b] THEN new ELSE g[n].next
    BY <1>8 DEF Edit
  <2>2. f[new].next = M[b + 1] /\ f[new].key = g[M[b + 1]].key /\ f[new].type = HEADER_TYPE
    BY <1>8, <1>10
  <2>3. /\ g[M[b]].key <= f[new].key
        /\ g[M[b]].type # HEADER_TYPE => g[M[b]].key < f[new].key
    BY <1>7, <1>51, <2>2
  <2>4. f[new].key <= g[M[b + 1]].key
    <3>1. g[M[b + 1]].key \in Int
      BY <1>4, <1>7
    <3>2. QED
      BY <2>2, <3>1
  <2>5. QED
    BY <1>3, <1>7, <2>1, <2>2, <2>3, <2>4 DEF Insertion
<1>14. AddsHeader(g, M, K, a, b, f)
  <2>1. \A n \in DOMAIN g : f[n].count = IF n = M[a] THEN b - a ELSE g[n].count
    BY <1>1, <1>5, <1>7 DEF Edit
  <2>2. f[Len(g) + 1].count = a + c - b
    BY <1>7, <1>52
  <2>3. QED
    BY <1>5, <1>7, <1>13, <2>1, <2>2 DEF AddsHeader
<1>15. QED
  BY <1>1, <1>5, <1>7, <1>14 DEF M, K

\* The merge of s into m, which is at position q of the snapshot h.
MergeIn(h, g, S, m, s, q, prev) ==
  /\ Snapshot(h, g, S) /\ q \in 0 .. Last(h) /\ NextAt(h, m, s, q)
  /\ prev = Chain(h)[q + h[m].count] /\ {m, prev, s} \intersect S = {}

MergeTo(h, g, f, m, s, prev) ==
  /\ Nodes(f) /\ Len(f) = Len(g)
  /\ Edit(g, f, prev, h[s].next, m, g[m].count + g[s].count)

\* The two neighbours found in a snapshot are neighbours now, so the merge takes the
\* slave's header out of the list and counts right.
LEMMA MergeStep ==
  ASSUME NEW h, NEW g, NEW S, NEW m, NEW s, NEW q, NEW prev, MergeIn(h, g, S, m, s, q, prev),
         NEW f, MergeTo(h, g, f, m, s, prev)
  PROVE  \E a : /\ RemovesHeader(g, Chain(g), Last(g), a, f)
                /\ Chain(g)[a] = m /\ Chain(g)[a + g[m].count + 1] = s
<1>0. /\ Snapshot(h, g, S) /\ q \in 0 .. Last(h) /\ NextAt(h, m, s, q)
      /\ prev = Chain(h)[q + h[m].count] /\ {m, prev, s} \intersect S = {}
      /\ Nodes(f) /\ Len(f) = Len(g)
      /\ Edit(g, f, prev, h[s].next, m, g[m].count + g[s].count)
  BY Zenon DEF MergeIn, MergeTo
<1> SUFFICES ASSUME Snapshot(h, g, S), q \in 0 .. Last(h), NextAt(h, m, s, q),
                    prev = Chain(h)[q + h[m].count], {m, prev, s} \intersect S = {},
                    Nodes(f), Len(f) = Len(g),
                    Edit(g, f, prev, h[s].next, m, g[m].count + g[s].count)
             PROVE  \E a : /\ RemovesHeader(g, Chain(g), Last(g), a, f)
                           /\ Chain(g)[a] = m /\ Chain(g)[a + g[m].count + 1] = s
  BY <1>0, Zenon
<1> DEFINE L == Chain(h)
           N == Last(h)
           M == Chain(g)
           K == Last(g)
           c == h[L[q]].count
<1>1. L[q] = m /\ h[L[q]].type = HEADER_TYPE /\ L[q + c + 1] = s /\ h[s].type = HEADER_TYPE
      /\ prev = L[q + c]
  BY DEF NextAt
<1>2. L[q] \notin S /\ s \notin S
  BY <1>1
<1>3. Nodes(h) /\ Nodes(g) /\ IsList(h, L, N) /\ IsList(g, M, K)
      /\ \A n \in DOMAIN h : n \notin S => g[n] = h[n]
  BY DEF Snapshot, Good, Grown
<1>4. /\ N \in Nat /\ K \in Nat
      /\ \A i \in 0 .. N : L[i] \in DOMAIN h
      /\ \A i \in 0 .. K - 1 : g[M[i]].next = M[i + 1]
      /\ \A i \in 0 .. K : g[M[i]].type = TAIL_TYPE <=> i = K
  BY <1>3, ListFacts, SMTT(40)
<1>4a. PICK a \in 0 .. K : PartAt(h, g, q, c, a)
  BY <1>1, <1>2, PartNow
<1>5. /\ a \in 0 .. K
      /\ c \in Nat /\ a + c + 1 <= K /\ q + c + 1 <= N
      /\ M[a] = L[q]
      /\ g[M[a]].type = HEADER_TYPE /\ g[M[a]].count = c
      /\ \A j \in 0 .. c + 1 : M[a + j] = L[q + j]
  BY <1>4a DEF PartAt
<1> DEFINE b == a + c
<1> HIDE DEF L, N, M, K, c
<1>6. /\ q \in Nat /\ a \in Nat /\ c \in Nat /\ a + c + 1 <= K /\ q + c + 1 <= N
      /\ N \in Nat /\ K \in Nat
  BY <1>4, <1>5
<1>7. /\ c \in 0 .. c + 1 /\ c + 1 \in 0 .. c + 1 /\ q + (c + 1) = q + c + 1
      /\ a + (c + 1) = (a + c) + 1 /\ q + c + 1 \in 0 .. N /\ b + 1 \in 0 .. K /\ b + 1 = a + c + 1
  BY <1>6
<1>8. M[b] = prev /\ M[b + 1] = s
  <2>1. M[a + c] = L[q + c] /\ M[a + (c + 1)] = L[q + (c + 1)]
    BY <1>5, <1>7
  <2>2. QED
    BY <1>1, <1>7, <2>1
<1>10. g[s] = h[s]
  BY <1>1, <1>2, <1>3, <1>4, <1>7
<1>11. b + 1 # K
  <2>1. g[M[b + 1]].type = HEADER_TYPE
    BY <1>1, <1>8, <1>10
  <2>2. g[M[b + 1]].type = TAIL_TYPE <=> b + 1 = K
    BY <1>4, <1>7
  <2>3. QED
    BY ONLY <2>1, <2>2 DEF HEADER_TYPE, TAIL_TYPE
<1>12. b \in 0 .. K - 2 /\ b + 1 \in 0 .. K - 1 /\ (b + 1) + 1 = b + 2
  BY <1>6, <1>7, <1>11
<1>13. h[s].next = M[b + 2]
  <2>1. g[M[b + 1]].next = M[(b + 1) + 1]
    BY <1>4, <1>12
  <2>2. QED
    BY <1>8, <1>10, <1>12, <2>1
<1>14. Removal(g, M, K, b, f)
  <2>1. \A n \in DOMAIN g : /\ f[n].type = g[n].type /\ f[n].key = g[n].key
                            /\ f[n].next = IF n = M[b] THEN M[b + 2] ELSE g[n].next
    BY <1>8, <1>13 DEF Edit
  <2>2. QED
    BY <1>3, <1>12, <2>1 DEF Removal
<1>15. RemovesHeader(g, M, K, a, f)
  <2>1. \A n \in DOMAIN g : f[n].count = IF n = m THEN g[m].count + g[s].count ELSE g[n].count
    BY DEF Edit
  <2>2. M[a] = m /\ g[M[a]].count = c /\ a + g[M[a]].count = b /\ g[M[b + 1]].type = HEADER_TYPE
    BY <1>1, <1>5, <1>8, <1>10
  <2>3. \A n \in DOMAIN g :
          f[n].count = IF n = M[a] THEN g[n].count + g[M[b + 1]].count ELSE g[n].count
    BY <1>8, <2>1, <2>2
  <2>4. QED
    BY <1>5, <1>14, <2>2, <2>3 DEF RemovesHeader
<1>16. QED
  BY <1>1, <1>5, <1>7, <1>8, <1>15 DEF M, K

\* The walk c from the master m finds the slave's key in headers at positions P.
SlaveSearch(h, m, s, q, c, P) ==
  /\ Good(h) /\ q \in 0 .. Last(h) /\ NextAt(h, m, s, q)
  /\ c = Path(h, [node |-> m, copy |-> <<>>])
  /\ \A i : i \in P <=> i \in 1 .. Len(h) /\ h[c[i]].type = HEADER_TYPE /\ h[c[i]].key = h[s].key

\* The first one is the slave, right behind the master's items.
LEMMA SlaveFound ==
  ASSUME NEW h, NEW m, NEW s, NEW q, NEW c, NEW P, SlaveSearch(h, m, s, q, c, P)
  PROVE  /\ h[m].count \in Nat /\ h[m].count + 1 \in P
         /\ \A i \in P : h[m].count + 1 <= i
         /\ c[h[m].count] = Chain(h)[q + h[m].count] /\ c[h[m].count + 1] = s
<1>0. /\ Good(h) /\ q \in 0 .. Last(h) /\ NextAt(h, m, s, q)
      /\ c = Path(h, [node |-> m, copy |-> <<>>])
      /\ \A i : i \in P <=> i \in 1 .. Len(h) /\ h[c[i]].type = HEADER_TYPE /\ h[c[i]].key = h[s].key
  BY DEF SlaveSearch
<1> SUFFICES ASSUME Good(h), q \in 0 .. Last(h), NextAt(h, m, s, q)
             PROVE  /\ h[m].count \in Nat /\ h[m].count + 1 \in P
                    /\ \A i \in P : h[m].count + 1 <= i
                    /\ c[h[m].count] = Chain(h)[q + h[m].count] /\ c[h[m].count + 1] = s
  BY <1>0
<1> DEFINE L == Chain(h)
           N == Last(h)
           n == h[m].count
<1>1. L[q] = m /\ h[m].type = HEADER_TYPE /\ L[q + n + 1] = s /\ h[s].type = HEADER_TYPE
  BY DEF NextAt
<1>2. Nodes(h) /\ IsList(h, L, N)
  BY DEF Good
<1>3. N \in Nat /\ Len(h) \in Nat /\ N < Len(h) /\ \A i \in 0 .. N : h[L[i]].count \in Nat
  BY <1>2, ListFacts
<1>4. n \in Nat /\ q + n + 1 <= N /\ \A j \in q + 1 .. q + n : h[L[j]].type = NORMAL
  <2>1. CountedAt(h, L, N, q)
    BY <1>1, <1>2 DEF IsList, Counted
  <2>2. QED
    BY <1>1, <1>3, <2>1 DEF CountedAt
<1>5. \A j \in 0 .. N - q : c[j] = L[q + j]
  BY <1>0, <1>1, WalkFrom
<1> HIDE DEF L, N, n
<1>6. /\ n \in 0 .. N - q /\ n + 1 \in 0 .. N - q /\ q + (n + 1) = q + n + 1
      /\ n + 1 \in 1 .. Len(h)
  BY <1>3, <1>4 DEF N
<1>7. c[n] = L[q + n] /\ c[n + 1] = s
  BY <1>1, <1>5, <1>6
<1>8. n + 1 \in P
  BY <1>0, <1>1, <1>6, <1>7
<1>9. ASSUME NEW i \in P PROVE n + 1 <= i
  <2>1. SUFFICES ASSUME ~(n + 1 <= i) PROVE FALSE
    OBVIOUS
  <2>2. i \in 1 .. Len(h) /\ h[c[i]].type = HEADER_TYPE
    BY <1>0, <1>9
  <2>3. i \in 0 .. N - q /\ q + i \in q + 1 .. q + n
    BY <1>3, <1>4, <2>1, <2>2 DEF N
  <2>4. h[c[i]].type = NORMAL
    BY <1>4, <1>5, <2>3
  <2>5. QED
    BY <2>2, <2>4 DEF NORMAL, HEADER_TYPE
<1>10. QED
  BY <1>4, <1>7, <1>8, <1>9 DEF n, L

------------------------------------------------------------------------------
(***************************************************************************)
(* Registrations, entries and the list: what a thread's pending split or   *)
(* merge s says at the place l of its code, about the heap h and the       *)
(* parent's entries es                                                     *)
(***************************************************************************)
OpLocs     == {"idle", "descend", "search", "leaf", "returned"}
SplitLocs  == {"idle", "split", "find_parent", "update", "release", "returned"}
MergeLocs  == {"idle", "partner", "merge", "release_master", "level_down", "returned"}
OrphanLocs == {"find_parent", "update", "merge"}

HasEntry(es, n) == \E i \in DOMAIN es : es[i].child = n

Owe(s, l) == s.operator # 0 /\ l # "level_down"

Own(s, l, n) == Owe(s, l) /\ n \in {s.master, s.slave}

Wanted(s) == IF s.operator = 10 THEN SPLIT_REGIST ELSE MERGE_REGIST

SmoFits(h, es, s, l) ==
  /\ s.operator \in {-10, 0, 10}
  /\ s.operator = 0 => l \in OpLocs
  /\ s.operator = 10 => l \in SplitLocs
  /\ s.operator = -10 => l \in MergeLocs
  /\ s.operator # 0 => s.master \in DOMAIN h
  /\ Owe(s, l) => HeaderOn(h, s.master) /\ HasEntry(es, s.master)
  /\ l \in OrphanLocs => NextHeader(h, s.master, s.slave)
  /\ l = "release" => HeaderOn(h, s.slave)
  /\ s.operator # 0 /\ l \in {"idle", "split", "partner", "returned"} => s.slave = 0
  /\ l = "release_master" => s.slave \in 0 .. Len(h) /\ ~OnList(h, s.slave)

\* Each header that is not FREE has one owner, who expects its state.
Owners(h, sm, lc) ==
  /\ \A n : HeaderOn(h, n) /\ h[n].state # FREE => \E t \in Threads : Own(sm[t], lc[t], n)
  /\ \A t, u \in Threads : \A n :
       HeaderOn(h, n) /\ Own(sm[t], lc[t], n) /\ Own(sm[u], lc[u], n) => t = u
  /\ \A t \in Threads : \A n :
       HeaderOn(h, n) /\ Own(sm[t], lc[t], n) => h[n].state = Wanted(sm[t])

\* The entries are headers, in the strict order of their keys.
Entries(h, es) ==
  /\ es \in Seq([key : 0 .. MaxKey + 1, child : Nat]) /\ Len(es) >= 1
  /\ es[1].child = HEAD
  /\ \A i \in DOMAIN es : HeaderOn(h, es[i].child) /\ es[i].key = h[es[i].child].key
  /\ \A i, j \in DOMAIN es : i < j => es[i].key < es[j].key

\* The headers without an entry are the slaves on their way in or out.
Orphans(h, es, sm, lc) ==
  /\ \A n : HeaderOn(h, n) =>
       HasEntry(es, n) \/ \E t \in Threads : lc[t] \in OrphanLocs /\ sm[t].slave = n
  /\ \A t \in Threads : lc[t] \in OrphanLocs => ~HasEntry(es, sm[t].slave)

Proto(h, es, sm, lc) ==
  /\ Good(h)
  /\ \A t \in Threads : SmoFits(h, es, sm[t], lc[t])
  /\ Owners(h, sm, lc)
  /\ Entries(h, es)
  /\ Orphans(h, es, sm, lc)

\* The heap h becomes g: the headers New come, the headers Gone go, headers
\* not in T keep the one behind them, nodes not in W keep their state.
Changed(h, g, New, Gone, T, W) ==
  /\ Good(h) /\ Good(g) /\ Len(h) <= Len(g)
  /\ \A n \in DOMAIN h : /\ g[n].type = h[n].type /\ g[n].key = h[n].key
                         /\ n \notin W => g[n].state = h[n].state
  /\ \A n : HeaderOn(g, n) <=> (HeaderOn(h, n) /\ n \notin Gone) \/ n \in New
  /\ \A n \in 0 .. Len(h) : OnList(g, n) => OnList(h, n)
  /\ \A m, n : NextHeader(h, m, n) /\ m \notin T => NextHeader(g, m, n)

\* Only thread t's split or merge moves.
Others(t, sm, lc, sm2, lc2) == \A u \in Threads \ {t} : sm2[u] = sm[u] /\ lc2[u] = lc[u]

Moves(s, l, l2) ==
  \/ s.operator = 0 /\ l2 \in OpLocs
  \/ l = "idle" /\ s.operator = 10 /\ l2 \in {"split", "returned"}
  \/ l = "idle" /\ s.operator = -10 /\ l2 \in {"partner", "returned"}
  \/ l \in {"find_parent", "update"} /\ l2 \in {"find_parent", "update"}
  \/ l = "partner" /\ l2 = "release_master"
  \/ l2 = l

\* The domain of a heap.
LEMMA LenFacts ==
  ASSUME NEW h, Good(h)
  PROVE  Len(h) \in Nat /\ DOMAIN h = 1 .. Len(h) /\ Nodes(h)
BY NodeFacts DEF Good

\* What a pending SMO that fits says about its operator, its locations and its nodes.
LEMMA SmoFacts ==
  ASSUME NEW h, NEW es, NEW s, NEW l, Good(h), SmoFits(h, es, s, l)
  PROVE  /\ l \in {"find_parent", "update", "release"} => s.operator = 10
         /\ l \in {"merge", "release_master", "level_down"} => s.operator = -10
         /\ l \in {"find_parent", "update", "release", "merge", "release_master"} => Owe(s, l)
         /\ l \in {"find_parent", "update", "release", "merge"} => HeaderOn(h, s.slave)
         /\ Owe(s, l) => HeaderOn(h, s.master)
         /\ \A n : Own(s, l, n) => n \in 0 .. Len(h)
<1>1. /\ s.operator \in {-10, 0, 10}
      /\ s.operator = 0 => l \in {"idle", "descend", "search", "leaf", "returned"}
      /\ s.operator = 10 => l \in {"idle", "split", "find_parent", "update", "release", "returned"}
      /\ s.operator = -10 =>
           l \in {"idle", "partner", "merge", "release_master", "level_down", "returned"}
  BY DEF SmoFits, OpLocs, SplitLocs, MergeLocs
<1>2. /\ l \in {"find_parent", "update", "release"} => s.operator = 10
      /\ l \in {"merge", "release_master", "level_down"} => s.operator = -10
  BY <1>1
<1>3. l \in {"find_parent", "update", "release", "merge", "release_master"} => Owe(s, l)
  BY <1>2 DEF Owe
<1>4. l \in {"find_parent", "update", "merge"} => HeaderOn(h, s.slave)
  BY NextFacts DEF SmoFits, OrphanLocs
<1>5. l = "release" => HeaderOn(h, s.slave)
  BY DEF SmoFits
<1>6. Owe(s, l) => HeaderOn(h, s.master)
  BY DEF SmoFits
<1>7. \A n : HeaderOn(h, n) => n \in 0 .. Len(h)
  <2>1. Len(h) \in Nat /\ DOMAIN h = 1 .. Len(h)
    BY LenFacts
  <2>2. \A n : HeaderOn(h, n) => n \in DOMAIN h
    BY HeaderFacts
  <2>3. QED
    BY <2>1, <2>2
<1>8. Owe(s, l) => s.slave \in 0 .. Len(h)
  <2>1. SUFFICES ASSUME Owe(s, l) PROVE s.slave \in 0 .. Len(h)
    OBVIOUS
  <2>2. CASE l \in {"find_parent", "update", "merge", "release"}
    BY <1>4, <1>5, <1>7, <2>2
  <2>3. CASE l = "release_master"
    BY <2>3 DEF SmoFits
  <2>4. CASE l \in {"idle", "split", "partner", "returned"}
    <3>1. s.slave = 0 /\ Len(h) \in Nat
      BY <2>1, <2>4, LenFacts DEF SmoFits, Owe
    <3>2. QED
      BY <3>1
  <2>5. QED
    BY <1>1, <2>1, <2>2, <2>3, <2>4 DEF Owe
<1>9. ASSUME NEW n, Own(s, l, n) PROVE n \in 0 .. Len(h)
  BY <1>6, <1>7, <1>8, <1>9 DEF Own
<1>10. QED
  BY <1>2, <1>3, <1>4, <1>5, <1>6, <1>9

\* A step from a location to another of the same SMO keeps the SMO fitting.
LEMMA SmoMoves ==
  ASSUME NEW h, NEW es, NEW s, NEW l, NEW l2, Good(h), SmoFits(h, es, s, l), Moves(s, l, l2)
  PROVE  SmoFits(h, es, s, l2) /\ (Owe(s, l2) <=> Owe(s, l))
         /\ (l2 \in OrphanLocs <=> l \in OrphanLocs)
<1>1. 0 \in 0 .. Len(h) /\ ~OnList(h, 0)
  BY HeaderFacts, LenFacts
<1>2. QED
  BY <1>1 DEF SmoFits, Moves, Owe, OrphanLocs, OpLocs, SplitLocs, MergeLocs

\* Another thread's change of heap and entries keeps a pending SMO fitting, unless it
\* takes away the SMO's headers or entry.
LEMMA SmoStays ==
  ASSUME NEW h, NEW g, NEW es, NEW es2, NEW s, NEW l, NEW New, NEW Gone, NEW T, NEW W,
         Changed(h, g, New, Gone, T, W), SmoFits(h, es, s, l),
         Owe(s, l) => s.master \notin Gone,
         l \in OrphanLocs => s.master \notin T,
         l = "release" => s.slave \notin Gone,
         Owe(s, l) => (HasEntry(es, s.master) => HasEntry(es2, s.master))
  PROVE  SmoFits(g, es2, s, l)
<1>1. DOMAIN h \subseteq DOMAIN g /\ 0 .. Len(h) \subseteq 0 .. Len(g)
  BY LenFacts DEF Changed
<1>2. /\ \A n : HeaderOn(h, n) /\ n \notin Gone => HeaderOn(g, n)
      /\ \A n \in 0 .. Len(h) : OnList(g, n) => OnList(h, n)
      /\ \A m, n : NextHeader(h, m, n) /\ m \notin T => NextHeader(g, m, n)
  BY DEF Changed
<1>3. Owe(s, l) => HeaderOn(g, s.master) /\ HasEntry(es2, s.master)
  BY <1>2 DEF SmoFits
<1>4. l \in OrphanLocs => NextHeader(g, s.master, s.slave)
  BY <1>2 DEF SmoFits
<1>5. l = "release" => HeaderOn(g, s.slave)
  BY <1>2 DEF SmoFits
<1>6. l = "release_master" => s.slave \in 0 .. Len(g) /\ ~OnList(g, s.slave)
  BY <1>1, <1>2 DEF SmoFits
<1>7. s.operator # 0 => s.master \in DOMAIN g
  BY <1>1 DEF SmoFits
<1>8. QED
  BY <1>3, <1>4, <1>5, <1>6, <1>7 DEF SmoFits

\* An old node that is a header of the changed list was one before.
LEMMA HeaderBack ==
  ASSUME NEW h, NEW g, NEW New, NEW Gone, NEW T, NEW W, Changed(h, g, New, Gone, T, W),
         NEW n \in 0 .. Len(h), HeaderOn(g, n)
  PROVE  HeaderOn(h, n) /\ (n \notin W => g[n].state = h[n].state)
<1>1. OnList(h, n)
  BY DEF Changed, HeaderOn
<1>2. n \in DOMAIN h
  BY <1>1, HeaderFacts DEF Changed
<1>3. QED
  BY <1>1, <1>2 DEF Changed, HeaderOn

\* Owners after thread t's split or merge moved.
LEMMA OwnersStay ==
  ASSUME NEW h, NEW g, NEW es, NEW sm, NEW lc, NEW sm2, NEW lc2, NEW t \in Threads,
         NEW New, NEW Gone, NEW T, NEW W,
         Proto(h, es, sm, lc), Changed(h, g, New, Gone, T, W), Others(t, sm, lc, sm2, lc2),
         \A n : HeaderOn(g, n) /\ Own(sm2[t], lc2[t], n) =>
           g[n].state = Wanted(sm2[t]) /\ \A u \in Threads \ {t} : ~Own(sm[u], lc[u], n),
         \A n : HeaderOn(g, n) /\ g[n].state # FREE /\ ~Own(sm2[t], lc2[t], n) =>
           HeaderOn(h, n) /\ h[n].state # FREE /\ ~Own(sm[t], lc[t], n),
         \A n \in W : \A u \in Threads \ {t} : ~Own(sm[u], lc[u], n)
  PROVE  Owners(g, sm2, lc2)
<1>1. Good(h) /\ \A u \in Threads : SmoFits(h, es, sm[u], lc[u])
  BY DEF Proto
<1>2. /\ \A n : HeaderOn(h, n) /\ h[n].state # FREE => \E u \in Threads : Own(sm[u], lc[u], n)
      /\ \A x, u \in Threads : \A n :
           HeaderOn(h, n) /\ Own(sm[x], lc[x], n) /\ Own(sm[u], lc[u], n) => x = u
      /\ \A u \in Threads : \A n :
           HeaderOn(h, n) /\ Own(sm[u], lc[u], n) => h[n].state = Wanted(sm[u])
  BY DEF Proto, Owners
<1>3. ASSUME NEW u \in Threads \ {t}, NEW n, HeaderOn(g, n), Own(sm[u], lc[u], n)
      PROVE  HeaderOn(h, n) /\ g[n].state = h[n].state
  <2>1. n \in 0 .. Len(h)
    BY <1>1, <1>3, SmoFacts
  <2>2. n \notin W
    BY <1>3
  <2>3. QED
    BY <1>3, <2>1, <2>2, HeaderBack
<1>4. \A u \in Threads \ {t} : sm2[u] = sm[u] /\ lc2[u] = lc[u]
  BY DEF Others
<1>5. ASSUME NEW n, HeaderOn(g, n), g[n].state # FREE
      PROVE  \E u \in Threads : Own(sm2[u], lc2[u], n)
  <2>1. SUFFICES ASSUME ~Own(sm2[t], lc2[t], n) PROVE \E u \in Threads : Own(sm2[u], lc2[u], n)
    OBVIOUS
  <2>2. HeaderOn(h, n) /\ h[n].state # FREE /\ ~Own(sm[t], lc[t], n)
    BY <1>5, <2>1
  <2>3. PICK u \in Threads : Own(sm[u], lc[u], n)
    BY <1>2, <2>2
  <2>4. u \in Threads \ {t}
    BY <2>2, <2>3
  <2>5. QED
    BY <1>4, <2>3, <2>4
<1>6. ASSUME NEW x \in Threads, NEW u \in Threads, NEW n, HeaderOn(g, n),
             Own(sm2[x], lc2[x], n), Own(sm2[u], lc2[u], n)
      PROVE  x = u
  <2>1. CASE x = t
    BY <1>4, <1>6, <2>1
  <2>2. CASE u = t
    BY <1>4, <1>6, <2>2
  <2>3. CASE x # t /\ u # t
    <3>1. Own(sm[x], lc[x], n) /\ Own(sm[u], lc[u], n)
      BY <1>4, <1>6, <2>3
    <3>2. HeaderOn(h, n)
      BY <1>3, <1>6, <2>3, <3>1
    <3>3. QED
      BY <1>2, <3>1, <3>2
  <2>4. QED
    BY <2>1, <2>2, <2>3
<1>7. ASSUME NEW u \in Threads, NEW n, HeaderOn(g, n), Own(sm2[u], lc2[u], n)
      PROVE  g[n].state = Wanted(sm2[u])
  <2>1. CASE u = t
    BY <1>7, <2>1
  <2>2. CASE u # t
    <3>1. Own(sm[u], lc[u], n) /\ sm2[u] = sm[u]
      BY <1>4, <1>7, <2>2
    <3>2. HeaderOn(h, n) /\ g[n].state = h[n].state
      BY <1>3, <1>7, <2>2, <3>1
    <3>3. QED
      BY <1>2, <3>1, <3>2
  <2>3. QED
    BY <2>1, <2>2
<1>8. QED
  BY <1>5, <1>6, <1>7 DEF Owners

\* Entries whose headers stay.
LEMMA EntriesStay ==
  ASSUME NEW h, NEW g, NEW es, NEW New, NEW Gone, NEW T, NEW W,
         Entries(h, es), Changed(h, g, New, Gone, T, W), \A n \in Gone : ~HasEntry(es, n)
  PROVE  Entries(g, es)
<1>1. ASSUME NEW i \in DOMAIN es
      PROVE  HeaderOn(g, es[i].child) /\ es[i].key = g[es[i].child].key
  <2>1. HeaderOn(h, es[i].child) /\ es[i].key = h[es[i].child].key /\ es[i].child \notin Gone
    BY DEF Entries, HasEntry
  <2>2. es[i].child \in DOMAIN h
    BY <2>1, HeaderFacts DEF Changed
  <2>3. QED
    BY <2>1, <2>2 DEF Changed
<1>2. QED
  BY <1>1 DEF Entries

\* Nothing about thread t's split or merge changes but its place in the code.
LEMMA ProtoCalm ==
  ASSUME NEW h, NEW g, NEW es, NEW sm, NEW lc, NEW sm2, NEW lc2, NEW t \in Threads,
         Proto(h, es, sm, lc), Changed(h, g, {}, {}, {}, {}), Others(t, sm, lc, sm2, lc2),
         sm2[t] = sm[t], Moves(sm[t], lc[t], lc2[t])
  PROVE  Proto(g, es, sm2, lc2)
<1>1. Good(h) /\ Good(g) /\ \A u \in Threads : SmoFits(h, es, sm[u], lc[u])
  BY DEF Proto, Changed
<1>2. \A u \in Threads \ {t} : sm2[u] = sm[u] /\ lc2[u] = lc[u]
  BY DEF Others
<1>3. SmoFits(h, es, sm2[t], lc2[t]) /\ (Owe(sm2[t], lc2[t]) <=> Owe(sm[t], lc[t]))
      /\ (lc2[t] \in OrphanLocs <=> lc[t] \in OrphanLocs)
  BY <1>1, SmoMoves
<1>4. \A u \in Threads : SmoFits(h, es, sm2[u], lc2[u])
  BY <1>1, <1>2, <1>3
<1>5. \A u \in Threads : SmoFits(g, es, sm2[u], lc2[u])
  BY <1>4, SmoStays
<1>6. \A n : HeaderOn(g, n) <=> HeaderOn(h, n)
  BY DEF Changed
<1>7. \A n : HeaderOn(h, n) => g[n].state = h[n].state
  BY <1>1, HeaderFacts DEF Changed
<1>8. \A n : Own(sm2[t], lc2[t], n) <=> Own(sm[t], lc[t], n)
  BY <1>3 DEF Own
<1>9. Owners(g, sm2, lc2)
  <2>1. ASSUME NEW n, HeaderOn(g, n), Own(sm2[t], lc2[t], n)
        PROVE  g[n].state = Wanted(sm2[t]) /\ \A u \in Threads \ {t} : ~Own(sm[u], lc[u], n)
    BY <1>6, <1>7, <1>8, <2>1 DEF Proto, Owners
  <2>2. ASSUME NEW n, HeaderOn(g, n), g[n].state # FREE, ~Own(sm2[t], lc2[t], n)
        PROVE  HeaderOn(h, n) /\ h[n].state # FREE /\ ~Own(sm[t], lc[t], n)
    BY <1>6, <1>7, <1>8, <2>2
  <2>3. QED
    BY <2>1, <2>2, OwnersStay
<1>10. Entries(g, es)
  BY EntriesStay DEF Proto
<1>11. Orphans(g, es, sm2, lc2)
  <2>1. \A u \in Threads : sm2[u] = sm[u] /\ (lc2[u] \in OrphanLocs <=> lc[u] \in OrphanLocs)
    BY <1>2, <1>3
  <2>2. QED
    BY <1>6, <2>1 DEF Proto, Orphans
<1>12. QED
  BY <1>1, <1>5, <1>9, <1>10, <1>11 DEF Proto

\* An operation registers a split or merge of a partition that is FREE.
LEMMA ProtoRegister ==
  ASSUME NEW h, NEW g, NEW es, NEW sm, NEW lc, NEW sm2, NEW lc2, NEW t \in Threads, NEW x,
         Proto(h, es, sm, lc), Changed(h, g, {}, {}, {}, {x}), Others(t, sm, lc, sm2, lc2),
         sm[t].operator = 0, HeaderOn(h, x), h[x].state = FREE,
         sm2[t].operator \in {-10, 10}, sm2[t].master = x, sm2[t].slave = 0,
         g[x].state = Wanted(sm2[t]), lc2[t] = "idle"
  PROVE  Proto(g, es, sm2, lc2)
<1>1. Good(h) /\ Good(g) /\ \A u \in Threads : SmoFits(h, es, sm[u], lc[u])
  BY DEF Proto, Changed
<1>2. \A u \in Threads \ {t} : sm2[u] = sm[u] /\ lc2[u] = lc[u]
  BY DEF Others
<1>3. \A u \in Threads : ~Own(sm[u], lc[u], x)
  <2>1. SUFFICES ASSUME NEW u \in Threads, Own(sm[u], lc[u], x) PROVE FALSE
    OBVIOUS
  <2>2. h[x].state = Wanted(sm[u])
    BY <2>1 DEF Proto, Owners
  <2>3. QED
    BY <2>2 DEF Wanted, FREE, SPLIT_REGIST, MERGE_REGIST
<1>4. lc[t] \in OpLocs
  BY <1>1 DEF SmoFits
<1>5. HasEntry(es, x)
  <2>1. SUFFICES ASSUME ~HasEntry(es, x) PROVE FALSE
    OBVIOUS
  <2>2. PICK u \in Threads : lc[u] \in OrphanLocs /\ sm[u].slave = x
    BY <2>1 DEF Proto, Orphans
  <2>3. Owe(sm[u], lc[u])
    BY <1>1, <2>2, SmoFacts DEF OrphanLocs
  <2>4. QED
    BY <1>3, <2>2, <2>3 DEF Own
<1>6. \A n : HeaderOn(g, n) <=> HeaderOn(h, n)
  BY DEF Changed
<1>7. x \in DOMAIN h /\ DOMAIN h \subseteq DOMAIN g
  BY <1>1, HeaderFacts, LenFacts DEF Changed
<1>8. SmoFits(g, es, sm2[t], lc2[t])
  BY <1>5, <1>6, <1>7 DEF SmoFits, OrphanLocs, SplitLocs, MergeLocs
<1>9. \A u \in Threads \ {t} : SmoFits(g, es, sm2[u], lc2[u])
  BY <1>1, <1>2, SmoStays
<1>10. \A n : HeaderOn(h, n) /\ n # x => g[n].state = h[n].state
  BY <1>1, HeaderFacts DEF Changed
<1>11. /\ \A n : HeaderOn(h, n) => n # 0
       /\ \A n : ~Own(sm[t], lc[t], n)
       /\ \A n : HeaderOn(h, n) => (Own(sm2[t], lc2[t], n) <=> n = x)
  <2>1. \A n : HeaderOn(h, n) => n # 0
    BY <1>1, HeaderFacts
  <2>2. Owe(sm2[t], lc2[t]) /\ ~Owe(sm[t], lc[t])
    BY DEF Owe
  <2>3. QED
    BY <2>1, <2>2 DEF Own
<1>12. Owners(g, sm2, lc2)
  <2>1. ASSUME NEW n, HeaderOn(g, n), Own(sm2[t], lc2[t], n)
        PROVE  g[n].state = Wanted(sm2[t]) /\ \A u \in Threads \ {t} : ~Own(sm[u], lc[u], n)
    BY <1>3, <1>6, <1>11, <2>1
  <2>2. ASSUME NEW n, HeaderOn(g, n), g[n].state # FREE, ~Own(sm2[t], lc2[t], n)
        PROVE  HeaderOn(h, n) /\ h[n].state # FREE /\ ~Own(sm[t], lc[t], n)
    BY <1>6, <1>10, <1>11, <2>2
  <2>3. QED
    BY <1>3, <2>1, <2>2, OwnersStay
<1>13. Entries(g, es)
  BY EntriesStay DEF Proto
<1>14. Orphans(g, es, sm2, lc2)
  <2>1. lc[t] \notin OrphanLocs /\ lc2[t] \notin OrphanLocs
    BY <1>4 DEF OpLocs, OrphanLocs
  <2>2. QED
    BY <1>2, <1>6, <2>1 DEF Proto, Orphans
<1>15. QED
  BY <1>1, <1>8, <1>9, <1>12, <1>13, <1>14 DEF Proto

\* A step that leaves the heap alone changes nothing.
LEMMA SameHeap ==
  ASSUME NEW h, Good(h)
  PROVE  Changed(h, h, {}, {}, {}, {})
<1>1. Len(h) \in Nat
  BY LenFacts
<1>2. QED
  BY <1>1 DEF Changed

\* A split puts header x behind the master.
LEMMA ProtoSplit ==
  ASSUME NEW h, NEW g, NEW es, NEW sm, NEW lc, NEW sm2, NEW lc2, NEW t \in Threads, NEW m, NEW x,
         m = sm[t].master, x = Len(h) + 1,
         Proto(h, es, sm, lc), Changed(h, g, {x}, {}, {m}, {}), Others(t, sm, lc, sm2, lc2),
         lc[t] = "split", lc2[t] = "find_parent",
         sm2[t].operator = sm[t].operator, sm2[t].master = m, sm2[t].slave = x,
         g[x].state = SPLIT_REGIST, NextHeader(g, m, x)
  PROVE  Proto(g, es, sm2, lc2)
<1>1. Good(h) /\ Good(g) /\ \A u \in Threads : SmoFits(h, es, sm[u], lc[u])
  BY DEF Proto, Changed
<1>2. \A u \in Threads \ {t} : sm2[u] = sm[u] /\ lc2[u] = lc[u]
  BY DEF Others
<1>3. sm[t].operator = 10 /\ sm[t].slave = 0
  <2>1. SmoFits(h, es, sm[t], lc[t])
    BY <1>1
  <2>2. sm[t].operator = 10
    BY <2>1 DEF SmoFits, OpLocs, MergeLocs
  <2>3. QED
    BY <2>1, <2>2 DEF SmoFits
<1>4. Owe(sm[t], lc[t]) /\ Owe(sm2[t], lc2[t])
  BY <1>3 DEF Owe
<1>5. HeaderOn(h, m) /\ HasEntry(es, m) /\ m \in DOMAIN h
  <2>1. SmoFits(h, es, sm[t], lc[t])
    BY <1>1
  <2>2. QED
    BY <1>3, <1>4, <2>1 DEF SmoFits
<1>6. Len(h) \in Nat /\ DOMAIN h = 1 .. Len(h) /\ DOMAIN h \subseteq DOMAIN g /\ x \notin 0 .. Len(h)
  BY <1>1, LenFacts DEF Changed
<1>7. \A n : HeaderOn(g, n) <=> HeaderOn(h, n) \/ n = x
  BY DEF Changed
<1>8. /\ \A n : HeaderOn(h, n) => n # x /\ n # 0 /\ g[n].state = h[n].state
      /\ \A u \in Threads \ {t} : ~Own(sm[u], lc[u], m) /\ ~Own(sm[u], lc[u], x)
  <2>1. \A n : HeaderOn(h, n) => n # x /\ n # 0 /\ g[n].state = h[n].state
    BY <1>1, <1>6, HeaderFacts DEF Changed
  <2>2. Own(sm[t], lc[t], m)
    BY <1>4 DEF Own
  <2>3. \A u \in Threads \ {t} : ~Own(sm[u], lc[u], m)
    BY <1>5, <2>2 DEF Proto, Owners
  <2>4. \A u \in Threads \ {t} : ~Own(sm[u], lc[u], x)
    BY <1>1, <1>6, SmoFacts
  <2>5. QED
    BY <2>1, <2>3, <2>4
<1>9. ASSUME NEW u \in Threads \ {t} PROVE SmoFits(g, es, sm2[u], lc2[u])
  <2>1. lc[u] \in OrphanLocs => sm[u].master # m
    <3>1. lc[u] \in OrphanLocs => Owe(sm[u], lc[u])
      BY <1>1, SmoFacts DEF OrphanLocs
    <3>2. QED
      BY <1>8, <3>1 DEF Own
  <2>2. SmoFits(g, es, sm[u], lc[u])
    BY <1>1, <2>1, SmoStays
  <2>3. QED
    BY <1>2, <2>2
<1>10. SmoFits(g, es, sm2[t], lc2[t])
  <2>1. m \in DOMAIN g /\ HeaderOn(g, m)
    BY <1>5, <1>6, <1>7
  <2>2. QED
    BY <1>3, <1>5, <2>1 DEF SmoFits, OrphanLocs, SplitLocs
<1>11. \A n : HeaderOn(g, n) => /\ Own(sm2[t], lc2[t], n) <=> n = m \/ n = x
                                /\ n # x => (Own(sm[t], lc[t], n) <=> n = m)
  BY <1>3, <1>4, <1>7, <1>8 DEF Own
<1>12. Owners(g, sm2, lc2)
  <2>1. ASSUME NEW n, HeaderOn(g, n), Own(sm2[t], lc2[t], n)
        PROVE  g[n].state = Wanted(sm2[t]) /\ \A u \in Threads \ {t} : ~Own(sm[u], lc[u], n)
    <3>1. CASE n = x
      BY <1>3, <1>8, <3>1 DEF Wanted
    <3>2. CASE n = m
      <4>1. h[m].state = Wanted(sm[t])
        BY <1>4, <1>5 DEF Proto, Owners, Own
      <4>2. QED
        BY <1>5, <1>8, <3>2, <4>1 DEF Wanted
    <3>3. QED
      BY <1>11, <2>1, <3>1, <3>2
  <2>2. ASSUME NEW n, HeaderOn(g, n), g[n].state # FREE, ~Own(sm2[t], lc2[t], n)
        PROVE  HeaderOn(h, n) /\ h[n].state # FREE /\ ~Own(sm[t], lc[t], n)
    <3>1. n # x /\ n # m
      BY <1>11, <2>2
    <3>2. QED
      BY <1>7, <1>8, <1>11, <2>2, <3>1
  <2>3. QED
    BY <2>1, <2>2, OwnersStay
<1>13. Entries(g, es)
  BY EntriesStay DEF Proto
<1>14. Orphans(g, es, sm2, lc2)
  <2>1. lc[t] \notin OrphanLocs /\ lc2[t] \in OrphanLocs
    BY DEF OrphanLocs
  <2>2. ~HasEntry(es, x)
    BY <1>8 DEF Proto, Entries, HasEntry
  <2>3. ASSUME NEW n, HeaderOn(g, n)
        PROVE  HasEntry(es, n) \/ \E u \in Threads : lc2[u] \in OrphanLocs /\ sm2[u].slave = n
    <3>1. CASE n = x
      BY <2>1, <3>1
    <3>2. CASE HeaderOn(h, n)
      BY <1>2, <2>1, <3>2 DEF Proto, Orphans
    <3>3. QED
      BY <1>7, <2>3, <3>1, <3>2
  <2>4. ASSUME NEW u \in Threads, lc2[u] \in OrphanLocs PROVE ~HasEntry(es, sm2[u].slave)
    <3>1. CASE u = t
      BY <2>2, <3>1
    <3>2. CASE u # t
      BY <1>2, <2>4, <3>2 DEF Proto, Orphans
    <3>3. QED
      BY <3>1, <3>2
  <2>5. QED
    BY <2>3, <2>4 DEF Orphans
<1>15. QED
  BY <1>1, <1>9, <1>10, <1>12, <1>13, <1>14 DEF Proto

\* Thread t gives up the headers W, all it owns.
LEMMA ProtoRelease ==
  ASSUME NEW h, NEW g, NEW es, NEW sm, NEW lc, NEW sm2, NEW lc2, NEW t \in Threads, NEW W,
         Proto(h, es, sm, lc), Changed(h, g, {}, {}, {}, W), Others(t, sm, lc, sm2, lc2),
         \A n \in W : HeaderOn(h, n) /\ Own(sm[t], lc[t], n) /\ g[n].state = FREE,
         \A n : HeaderOn(h, n) /\ Own(sm[t], lc[t], n) => n \in W,
         lc[t] \notin OrphanLocs, lc2[t] \notin OrphanLocs,
         ~Owe(sm2[t], lc2[t]), SmoFits(g, es, sm2[t], lc2[t])
  PROVE  Proto(g, es, sm2, lc2)
<1>1. Good(h) /\ Good(g) /\ \A u \in Threads : SmoFits(h, es, sm[u], lc[u])
  BY DEF Proto, Changed
<1>2. \A u \in Threads \ {t} : sm2[u] = sm[u] /\ lc2[u] = lc[u]
  BY DEF Others
<1>3. \A n : HeaderOn(g, n) <=> HeaderOn(h, n)
  BY DEF Changed
<1>4. \A u \in Threads \ {t} : SmoFits(g, es, sm2[u], lc2[u])
  BY <1>1, <1>2, SmoStays
<1>5. \A n : HeaderOn(h, n) /\ n \notin W => g[n].state = h[n].state
  BY <1>1, HeaderFacts DEF Changed
<1>6. \A n \in W : \A u \in Threads \ {t} : ~Own(sm[u], lc[u], n)
  BY DEF Proto, Owners
<1>7. Owners(g, sm2, lc2)
  <2>1. ASSUME NEW n, HeaderOn(g, n), Own(sm2[t], lc2[t], n)
        PROVE  g[n].state = Wanted(sm2[t]) /\ \A u \in Threads \ {t} : ~Own(sm[u], lc[u], n)
    BY <2>1 DEF Own
  <2>2. ASSUME NEW n, HeaderOn(g, n), g[n].state # FREE, ~Own(sm2[t], lc2[t], n)
        PROVE  HeaderOn(h, n) /\ h[n].state # FREE /\ ~Own(sm[t], lc[t], n)
    <3>1. n \notin W
      BY <2>2
    <3>2. QED
      BY <1>3, <1>5, <2>2, <3>1
  <2>3. QED
    BY <1>6, <2>1, <2>2, OwnersStay
<1>8. Entries(g, es)
  BY EntriesStay DEF Proto
<1>9. Orphans(g, es, sm2, lc2)
  BY <1>2, <1>3 DEF Proto, Orphans
<1>10. QED
  BY <1>1, <1>4, <1>7, <1>8, <1>9 DEF Proto

\* A merge takes the slave x out of the list.
LEMMA ProtoMerge ==
  ASSUME NEW h, NEW g, NEW es, NEW sm, NEW lc, NEW sm2, NEW lc2, NEW t \in Threads, NEW m, NEW x,
         m = sm[t].master, x = sm[t].slave,
         Proto(h, es, sm, lc), Changed(h, g, {}, {x}, {m, x}, {}), Others(t, sm, lc, sm2, lc2),
         lc[t] = "merge", lc2[t] = "release_master", sm2[t] = sm[t]
  PROVE  Proto(g, es, sm2, lc2)
<1>1. Good(h) /\ Good(g) /\ \A u \in Threads : SmoFits(h, es, sm[u], lc[u])
  BY DEF Proto, Changed
<1>2. \A u \in Threads \ {t} : sm2[u] = sm[u] /\ lc2[u] = lc[u]
  BY DEF Others
<1>3. sm[t].operator = -10 /\ Owe(sm[t], lc[t]) /\ HeaderOn(h, x) /\ HeaderOn(h, m)
  BY <1>1, SmoFacts
<1>4. NextHeader(h, m, x) /\ m # x /\ HasEntry(es, m) /\ m \in DOMAIN h
  <2>1. NextHeader(h, m, x) /\ HasEntry(es, m) /\ m \in DOMAIN h
    BY <1>1, <1>3 DEF SmoFits, OrphanLocs
  <2>2. QED
    BY <1>1, <2>1, NextFacts
<1>5. \A n : HeaderOn(g, n) <=> HeaderOn(h, n) /\ n # x
  BY DEF Changed
<1>6. \A n : HeaderOn(h, n) => g[n].state = h[n].state /\ n \in DOMAIN h /\ g[n].type = h[n].type
  BY <1>1, HeaderFacts DEF Changed
<1>7. Own(sm[t], lc[t], m) /\ Own(sm[t], lc[t], x) /\ Owe(sm2[t], lc2[t])
  BY <1>3 DEF Own, Owe
<1>8. \A u \in Threads \ {t} : ~Own(sm[u], lc[u], m) /\ ~Own(sm[u], lc[u], x)
  BY <1>3, <1>7 DEF Proto, Owners
<1>9. ASSUME NEW u \in Threads \ {t} PROVE SmoFits(g, es, sm2[u], lc2[u])
  <2>1. Owe(sm[u], lc[u]) => sm[u].master # m /\ sm[u].master # x /\ sm[u].slave # x
    BY <1>8 DEF Own
  <2>2. lc[u] \in OrphanLocs \/ lc[u] = "release" => Owe(sm[u], lc[u])
    BY <1>1, SmoFacts DEF OrphanLocs
  <2>3. SmoFits(h, es, sm[u], lc[u])
    BY <1>1
  <2>4. SmoFits(g, es, sm[u], lc[u])
    BY <2>1, <2>2, <2>3, SmoStays
  <2>5. QED
    BY <1>2, <2>4
<1>10. SmoFits(g, es, sm2[t], lc2[t])
  <2>1. Len(g) \in Nat /\ DOMAIN h \subseteq DOMAIN g /\ x \in 0 .. Len(g) /\ DOMAIN h \subseteq 0 .. Len(g)
    BY <1>1, <1>3, <1>6, LenFacts DEF Changed
  <2>2. ~OnList(g, x)
    BY <1>3, <1>5, <1>6 DEF HeaderOn
  <2>3. HeaderOn(g, m)
    BY <1>3, <1>4, <1>5
  <2>4. QED
    BY <1>3, <1>4, <2>1, <2>2, <2>3 DEF SmoFits, MergeLocs, OrphanLocs
<1>11. \A n : Own(sm2[t], lc2[t], n) <=> Own(sm[t], lc[t], n)
  BY <1>3, <1>7 DEF Own
<1>12. Owners(g, sm2, lc2)
  <2>1. ASSUME NEW n, HeaderOn(g, n), Own(sm2[t], lc2[t], n)
        PROVE  g[n].state = Wanted(sm2[t]) /\ \A u \in Threads \ {t} : ~Own(sm[u], lc[u], n)
    <3>1. HeaderOn(h, n) /\ Own(sm[t], lc[t], n) /\ g[n].state = h[n].state
      BY <1>5, <1>6, <1>11, <2>1
    <3>2. QED
      BY <3>1 DEF Proto, Owners
  <2>2. ASSUME NEW n, HeaderOn(g, n), g[n].state # FREE, ~Own(sm2[t], lc2[t], n)
        PROVE  HeaderOn(h, n) /\ h[n].state # FREE /\ ~Own(sm[t], lc[t], n)
    BY <1>5, <1>6, <1>11, <2>2
  <2>3. QED
    BY <2>1, <2>2, OwnersStay
<1>13. ~HasEntry(es, x)
  BY DEF Proto, Orphans, OrphanLocs
<1>14. Entries(g, es)
  BY <1>13, EntriesStay DEF Proto
<1>15. Orphans(g, es, sm2, lc2)
  <2>1. lc[t] \in OrphanLocs /\ lc2[t] \notin OrphanLocs
    BY DEF OrphanLocs
  <2>2. ASSUME NEW n, HeaderOn(g, n)
        PROVE  HasEntry(es, n) \/ \E u \in Threads : lc2[u] \in OrphanLocs /\ sm2[u].slave = n
    <3>1. HeaderOn(h, n) /\ n # x
      BY <1>5, <2>2
    <3>2. HasEntry(es, n) \/ \E u \in Threads : lc[u] \in OrphanLocs /\ sm[u].slave = n
      BY <3>1 DEF Proto, Orphans
    <3>3. QED
      BY <1>2, <3>1, <3>2
  <2>3. \A u \in Threads : lc2[u] \in OrphanLocs => ~HasEntry(es, sm2[u].slave)
    BY <1>2, <2>1 DEF Proto, Orphans
  <2>4. QED
    BY <2>2, <2>3 DEF Orphans
<1>16. QED
  BY <1>1, <1>9, <1>10, <1>12, <1>14, <1>15 DEF Proto

------------------------------------------------------------------------------
(***************************************************************************)
(* The parent's entries                                                    *)
(***************************************************************************)
\* fs is es with mid between its places i and j.
Joins(R, es, i, j, mid, fs) ==
  /\ es \in Seq(R) /\ mid \in Seq(R) /\ i \in Int /\ j \in Int
  /\ 0 <= i /\ i < j /\ i <= Len(es) /\ j <= Len(es) + 1
  /\ fs = (SubSeq(es, 1, i) \o mid) \o SubSeq(es, j, Len(es))

Joined(R, es, i, j, mid, k, fs) ==
  /\ fs \in Seq(R) /\ Len(fs) = (i + k) + (Len(es) + 1 - j) /\ DOMAIN fs = 1 .. Len(fs)
  /\ \A m \in 1 .. i : fs[m] = es[m]
  /\ \A m \in 1 .. k : fs[i + m] = mid[m]
  /\ \A m \in j .. Len(es) : fs[(i + k) + (m + 1 - j)] = es[m]

\* Where the entries of two joined parts are.
LEMMA JoinParts ==
  ASSUME NEW R, NEW es, NEW i, NEW j, NEW mid, NEW fs, Joins(R, es, i, j, mid, fs)
  PROVE  Joined(R, es, i, j, mid, Len(mid), fs)
<1>00. /\ es \in Seq(R) /\ mid \in Seq(R) /\ i \in Int /\ j \in Int
       /\ 0 <= i /\ i < j /\ i <= Len(es) /\ j <= Len(es) + 1
       /\ fs = (SubSeq(es, 1, i) \o mid) \o SubSeq(es, j, Len(es))
  BY DEF Joins
<1> DEFINE a == SubSeq(es, 1, i)
           b == SubSeq(es, j, Len(es))
           c == a \o mid
           n == Len(es)
           k == Len(mid)
<1>1. n \in Nat /\ k \in Nat /\ \A m \in 1 .. n : es[m] \in R
  BY <1>00
<1>2. a \in Seq(R) /\ Len(a) = i /\ \A m \in 1 .. i : a[m] = es[m]
  <2>1. \A m \in 1 .. i : es[m] \in R
    BY <1>00, <1>1
  <2>2. /\ a \in Seq(R) /\ Len(a) = IF 1 <= i THEN i - 1 + 1 ELSE 0
        /\ \A m \in 1 .. i - 1 + 1 : a[m] = es[1 + m - 1]
    BY <1>00, <2>1, SubSeqProperties
  <2> HIDE DEF a
  <2>3. \A m \in 1 .. i : m \in 1 .. i - 1 + 1 /\ 1 + m - 1 = m
    BY <1>00
  <2>4. Len(a) = i
    BY <1>00, <2>2
  <2>5. QED
    BY <2>2, <2>3, <2>4
<1>3. b \in Seq(R) /\ Len(b) = n + 1 - j /\ \A m \in 1 .. n + 1 - j : b[m] = es[j + m - 1]
  <2>1. \A m \in j .. n : es[m] \in R
    BY <1>00, <1>1
  <2>2. /\ b \in Seq(R) /\ Len(b) = IF j <= n THEN n - j + 1 ELSE 0
        /\ \A m \in 1 .. n - j + 1 : b[m] = es[j + m - 1]
    BY <1>00, <1>1, <2>1, SubSeqProperties
  <2> HIDE DEF b, n
  <2>3. n - j + 1 = n + 1 - j
    BY <1>00, <1>1
  <2>4. Len(b) = n + 1 - j
    BY <1>00, <1>1, <2>2 DEF n
  <2>5. QED
    BY <2>2, <2>3, <2>4
<1> HIDE DEF a, b
<1>4. c \in Seq(R) /\ Len(c) = i + k
      /\ \A m \in 1 .. i + k : c[m] = IF m <= i THEN a[m] ELSE mid[m - i]
  <2>1. a \in Seq(R) /\ mid \in Seq(R)
    BY <1>00, <1>2
  <2>2. c \in Seq(R) /\ Len(c) = Len(a) + Len(mid)
        /\ \A m \in 1 .. Len(a) + Len(mid) : c[m] = IF m <= Len(a) THEN a[m] ELSE mid[m - Len(a)]
    BY <2>1, ConcatProperties
  <2> HIDE DEF c
  <2>3. QED
    BY <1>2, <2>2
<1> HIDE DEF c
<1>5. fs = c \o b
  BY <1>00 DEF a, b, c
<1>6. fs \in Seq(R) /\ Len(fs) = (i + k) + (n + 1 - j)
      /\ \A m \in 1 .. (i + k) + (n + 1 - j) :
           fs[m] = IF m <= i + k THEN c[m] ELSE b[m - (i + k)]
  <2>1. c \in Seq(R) /\ b \in Seq(R)
    BY <1>3, <1>4
  <2>2. fs \in Seq(R) /\ Len(fs) = Len(c) + Len(b)
        /\ \A m \in 1 .. Len(c) + Len(b) : fs[m] = IF m <= Len(c) THEN c[m] ELSE b[m - Len(c)]
    BY <1>5, <2>1, ConcatProperties
  <2>3. QED
    BY <1>3, <1>4, <2>2
<1> HIDE DEF n, k
<1>0. n \in Nat /\ k \in Nat /\ i \in Nat /\ j \in Nat /\ j <= n + 1 /\ i < j /\ i <= n
  BY <1>00, <1>1 DEF n
<1>7. ASSUME NEW m \in 1 .. i PROVE fs[m] = es[m]
  <2>1. m \in 1 .. i + k /\ m \in 1 .. (i + k) + (n + 1 - j) /\ m <= i /\ m <= i + k
    BY <1>0
  <2>2. QED
    BY <1>2, <1>4, <1>6, <2>1
<1>8. ASSUME NEW m \in 1 .. k PROVE fs[i + m] = mid[m]
  <2>1. i + m \in 1 .. i + k /\ i + m \in 1 .. (i + k) + (n + 1 - j) /\ ~(i + m <= i)
        /\ i + m <= i + k /\ (i + m) - i = m
    BY <1>0
  <2>2. QED
    BY <1>4, <1>6, <2>1
<1>9. ASSUME NEW m \in j .. n PROVE fs[(i + k) + (m + 1 - j)] = es[m]
  <2>1. /\ (i + k) + (m + 1 - j) \in 1 .. (i + k) + (n + 1 - j)
        /\ ~((i + k) + (m + 1 - j) <= i + k)
        /\ ((i + k) + (m + 1 - j)) - (i + k) = m + 1 - j
        /\ m + 1 - j \in 1 .. n + 1 - j /\ j + (m + 1 - j) - 1 = m
    BY <1>0
  <2>2. fs[(i + k) + (m + 1 - j)] = b[m + 1 - j]
    BY <1>6, <2>1
  <2>3. QED
    BY <1>3, <2>1, <2>2
<1>10. DOMAIN fs = 1 .. Len(fs)
  BY <1>6
<1>11. QED
  BY <1>6, <1>7, <1>8, <1>9, <1>10 DEF Joined, n, k

\* fs is es with new put behind position i.
InsertsAt(R, es, i, new, fs) ==
  /\ fs \in Seq(R) /\ Len(fs) = Len(es) + 1 /\ DOMAIN fs = 1 .. Len(es) + 1
  /\ \A j \in 1 .. i : fs[j] = es[j]
  /\ fs[i + 1] = new
  /\ \A j \in i + 1 .. Len(es) : fs[j + 1] = es[j]

\* Where the entries are after an insertion into the parent.
LEMMA InsertAt ==
  ASSUME NEW R, NEW es \in Seq(R), NEW new \in R, NEW i \in 1 .. Len(es),
         NEW fs, fs = SubSeq(es, 1, i) \o <<new>> \o SubSeq(es, i + 1, Len(es))
  PROVE  InsertsAt(R, es, i, new, fs)
<1>0. Len(es) \in Nat
  OBVIOUS
<1>1. <<new>> \in Seq(R) /\ Len(<<new>>) = 1 /\ <<new>>[1] = new
  OBVIOUS
<1>2. i \in Int /\ i + 1 \in Int /\ 0 <= i /\ i < i + 1 /\ i <= Len(es) /\ i + 1 <= Len(es) + 1
  BY <1>0
<1>3. /\ fs \in Seq(R) /\ Len(fs) = (i + 1) + (Len(es) + 1 - (i + 1)) /\ DOMAIN fs = 1 .. Len(fs)
      /\ \A m \in 1 .. i : fs[m] = es[m]
      /\ \A m \in 1 .. 1 : fs[i + m] = <<new>>[m]
      /\ \A m \in i + 1 .. Len(es) : fs[(i + 1) + (m + 1 - (i + 1))] = es[m]
  <2>1. Joins(R, es, i, i + 1, <<new>>, fs)
    BY <1>1, <1>2 DEF Joins
  <2>2. Joined(R, es, i, i + 1, <<new>>, 1, fs)
    BY <1>1, <2>1, JoinParts
  <2>3. QED
    BY <2>2 DEF Joined
<1>4. Len(fs) = Len(es) + 1 /\ fs[i + 1] = new
  <2>1. (i + 1) + (Len(es) + 1 - (i + 1)) = Len(es) + 1 /\ 1 \in 1 .. 1
    BY <1>0
  <2>2. QED
    BY <1>1, <1>3, <2>1
<1>5. \A j \in i + 1 .. Len(es) : (i + 1) + (j + 1 - (i + 1)) = j + 1
  OBVIOUS
<1>6. \A j \in i + 1 .. Len(es) : fs[j + 1] = es[j]
  BY <1>3, <1>5
<1>7. QED
  BY <1>3, <1>4, <1>6 DEF InsertsAt

\* Where the entries are after one was removed from the parent.
LEMMA RemoveAt ==
  ASSUME NEW R, NEW es \in Seq(R), NEW i \in 1 .. Len(es), NEW fs, fs = RemoveEntry(es, i)
  PROVE  /\ fs \in Seq(R) /\ Len(fs) = Len(es) - 1 /\ DOMAIN fs = 1 .. Len(es) - 1
         /\ \A j \in 1 .. i - 1 : fs[j] = es[j]
         /\ \A j \in i + 1 .. Len(es) : fs[j - 1] = es[j]
<1>0. Len(es) \in Nat
  OBVIOUS
<1>1. <<>> \in Seq(R) /\ Len(<<>>) = 0
  OBVIOUS
<1>2. i - 1 \in Int /\ i + 1 \in Int /\ 0 <= i - 1 /\ i - 1 < i + 1 /\ i - 1 <= Len(es)
      /\ i + 1 <= Len(es) + 1
  BY <1>0
<1>3. fs = (SubSeq(es, 1, i - 1) \o <<>>) \o SubSeq(es, i + 1, Len(es))
  <2>1. \A m \in 1 .. i - 1 : es[m] \in R
    BY <1>0
  <2>2. SubSeq(es, 1, i - 1) \in Seq(R)
    BY <1>2, <2>1, SubSeqProperties
  <2>3. SubSeq(es, 1, i - 1) \o <<>> = SubSeq(es, 1, i - 1)
    BY <2>2, ConcatEmptySeq
  <2>4. QED
    BY <2>3 DEF RemoveEntry
<1>4. /\ fs \in Seq(R) /\ Len(fs) = (i - 1) + (Len(es) + 1 - (i + 1)) /\ DOMAIN fs = 1 .. Len(fs)
      /\ \A m \in 1 .. i - 1 : fs[m] = es[m]
      /\ \A m \in i + 1 .. Len(es) : fs[(i - 1) + (m + 1 - (i + 1))] = es[m]
  <2>1. Joins(R, es, i - 1, i + 1, <<>>, fs)
    BY <1>1, <1>2, <1>3 DEF Joins
  <2>2. Joined(R, es, i - 1, i + 1, <<>>, 0, fs)
    BY <1>1, <2>1, JoinParts
  <2>3. (i - 1) + 0 = i - 1
    OBVIOUS
  <2>4. QED
    BY <2>2, <2>3 DEF Joined
<1>5. (i - 1) + (Len(es) + 1 - (i + 1)) = Len(es) - 1
      /\ \A j \in i + 1 .. Len(es) : (i - 1) + (j + 1 - (i + 1)) = j - 1
  BY <1>0
<1>6. QED
  BY <1>4, <1>5

\* Keys and children of entries are numbers.
LEMMA EntryKeys ==
  ASSUME NEW h, NEW es, Entries(h, es)
  PROVE  \A i \in 1 .. Len(es) : es[i].key \in Nat /\ es[i].child \in Nat
<1>1. \A r \in [key : 0 .. MaxKey + 1, child : Nat] : r.key \in 0 .. MaxKey + 1 /\ r.child \in Nat
  OBVIOUS
<1>2. es \in Seq([key : 0 .. MaxKey + 1, child : Nat])
  BY DEF Entries
<1>3. \A i \in 1 .. Len(es) : es[i] \in [key : 0 .. MaxKey + 1, child : Nat]
  <2> DEFINE R == [key : 0 .. MaxKey + 1, child : Nat]
  <2>1. es \in Seq(R)
    BY <1>2
  <2> HIDE DEF R
  <2>2. \A i \in 1 .. Len(es) : es[i] \in R
    BY <2>1
  <2>3. QED
    BY <2>2 DEF R
<1>4. \A k \in 0 .. MaxKey + 1 : k \in Nat
  BY OptionAssumption
<1>5. QED
  BY <1>1, <1>3, <1>4

\* The search in the parent: the last entry whose key is not greater.
LEMMA EntryFound ==
  ASSUME NEW h, NEW es, Good(h), Entries(h, es), NEW k \in Nat
  PROVE  /\ EntrySearch(es, k) \in DOMAIN es
         /\ es[EntrySearch(es, k)].key <= k
         /\ \A i \in DOMAIN es : es[i].key = k => EntrySearch(es, k) = i
<1> DEFINE n == Len(es)
           Fits(i) == /\ \A j \in 2 .. i : es[j].key <= k
                      /\ i < n => k < es[i + 1].key
           e == EntrySearch(es, k)
<1>1. /\ es \in Seq([key : 0 .. MaxKey + 1, child : Nat]) /\ n \in Nat /\ n >= 1
      /\ DOMAIN es = 1 .. n /\ es[1].key = h[HEAD].key
      /\ \A i, j \in DOMAIN es : i < j => es[i].key < es[j].key
  BY DEF Entries
<1>2. \A i \in 1 .. n : es[i].key \in Nat
  BY EntryKeys
<1>3. h[HEAD].key = 0
  BY DEF Good, Nodes
<1>4. \E i \in 1 .. n : Fits(i)
  <2> DEFINE S == {j \in 2 .. n : k < es[j].key}
  <2>1. CASE S = {}
    <3>1. ASSUME NEW j \in 2 .. n PROVE es[j].key <= k
      <4>1. ~(k < es[j].key) /\ es[j].key \in Nat
        BY <1>1, <1>2, <2>1
      <4>2. QED
        BY <4>1
    <3>2. Fits(n) /\ n \in 1 .. n
      BY <1>1, <3>1
    <3>3. QED
      BY <3>2
  <2>2. CASE S # {}
    <3>1. S \in SUBSET Nat
      BY <1>1
    <3>2. PICK i \in S : \A m \in S : i <= m
      BY <2>2, <3>1, Least
    <3>3. i \in 2 .. n /\ k < es[i].key
      OBVIOUS
    <3>4. ASSUME NEW j \in 2 .. i - 1 PROVE es[j].key <= k
      <4>1. j \in 2 .. n /\ j \notin S /\ j \in 1 .. n
        BY <1>1, <3>2, <3>3
      <4>2. ~(k < es[j].key) /\ es[j].key \in Nat
        BY <1>2, <4>1
      <4>3. QED
        BY <4>2
    <3>5. (i - 1) + 1 = i /\ i - 1 \in 1 .. n
      BY <1>1, <3>3
    <3>6. Fits(i - 1)
      BY <3>3, <3>4, <3>5
    <3>7. QED
      BY <3>5, <3>6
  <2>3. QED
    BY <2>1, <2>2
<1>5. e \in 1 .. n /\ Fits(e)
  <2>1. e = CHOOSE i \in 1 .. n : Fits(i)
    BY DEF EntrySearch
  <2> HIDE DEF Fits, e
  <2>2. QED
    BY <1>4, <2>1
<1> HIDE DEF e
<1>6. es[e].key <= k
  <2>1. CASE e = 1
    BY <1>1, <1>3, <2>1
  <2>2. CASE e # 1
    <3>1. e \in 2 .. e
      BY <1>5, <2>2
    <3>2. QED
      BY <1>5, <3>1
  <2>3. QED
    BY <2>1, <2>2
<1>7. ASSUME NEW i \in DOMAIN es, es[i].key = k PROVE e = i
  <2>1. ~(i < e)
    <3>1. SUFFICES ASSUME i < e PROVE FALSE
      OBVIOUS
    <3>2. es[i].key < es[e].key /\ es[e].key \in Nat
      BY <1>1, <1>2, <1>5, <3>1
    <3>3. QED
      BY <1>6, <1>7, <3>2
  <2>2. ~(e < i)
    <3>1. SUFFICES ASSUME e < i PROVE FALSE
      OBVIOUS
    <3>2. e + 1 \in 1 .. n /\ e < n /\ (e + 1 < i \/ e + 1 = i)
      BY <1>1, <1>5, <3>1, SMTT(40)
    <3>3. k < es[e + 1].key
      BY <1>5, <3>2
    <3>4. es[e + 1].key <= es[i].key
      <4>1. e + 1 \in DOMAIN es /\ es[e + 1].key \in Nat /\ es[i].key \in Nat
        BY <1>1, <1>2, <3>2
      <4>2. e + 1 < i => es[e + 1].key < es[i].key
        BY <1>1, <4>1
      <4>3. QED
        BY <3>2, <4>1, <4>2
    <3>5. es[e + 1].key \in Nat
      BY <1>2, <3>2
    <3>6. QED
      BY <1>7, <3>3, <3>4, <3>5
  <2>3. QED
    BY <1>1, <1>5, <2>1, <2>2
<1>8. QED
  BY <1>1, <1>5, <1>6, <1>7 DEF e

\* No two headers of the list have one key.
Distinct(h) == \A n, m : HeaderOn(h, n) /\ HeaderOn(h, m) /\ h[n].key = h[m].key => n = m

\* Keys of headers are numbers.
LEMMA HeaderKeys ==
  ASSUME NEW h, Good(h)
  PROVE  \A n : HeaderOn(h, n) => h[n].key \in Nat
<1>1. Nodes(h) /\ \A n : HeaderOn(h, n) => n \in DOMAIN h
  BY HeaderFacts DEF Good
<1>2. \A n \in DOMAIN h : h[n].key \in 0 .. MaxKey + 1
  BY <1>1, NodeFacts
<1>3. \A k \in 0 .. MaxKey + 1 : k \in Nat
  BY OptionAssumption
<1>4. QED
  BY <1>1, <1>2, <1>3

EntryRecord == [key : 0 .. MaxKey + 1, child : Nat]

\* es2 is es with an entry of header s put behind its entry i.
AddsEntry(h, es, i, s, es2) ==
  /\ es2 \in Seq(EntryRecord) /\ Len(es2) = Len(es) + 1 /\ DOMAIN es2 = 1 .. Len(es) + 1
  /\ \A j \in 1 .. i : es2[j] = es[j]
  /\ es2[i + 1].key = h[s].key /\ es2[i + 1].child = s
  /\ \A j \in i + 1 .. Len(es) : es2[j + 1] = es[j]

\* es2 is es without its entry i.
DropsEntry(es, i, es2) ==
  /\ es2 \in Seq(EntryRecord) /\ Len(es2) = Len(es) - 1 /\ DOMAIN es2 = 1 .. Len(es) - 1
  /\ \A j \in 1 .. i - 1 : es2[j] = es[j]
  /\ \A j \in i + 1 .. Len(es) : es2[j - 1] = es[j]

\* The entries rlu_inner_split_update and rlu_header_partner_search write.
LEMMA EntrySplices ==
  ASSUME NEW es \in Seq(EntryRecord), NEW i \in 1 .. Len(es), NEW es2
  PROVE  /\ es2 = RemoveEntry(es, i) => DropsEntry(es, i, es2)
         /\ \A h, s : /\ h[s].key \in 0 .. MaxKey + 1 /\ s \in Nat
                      /\ es2 = SubSeq(es, 1, i) \o <<[key |-> h[s].key, child |-> s]>>
                               \o SubSeq(es, i + 1, Len(es))
                      => AddsEntry(h, es, i, s, es2)
<1>1. ASSUME es2 = RemoveEntry(es, i) PROVE DropsEntry(es, i, es2)
  BY <1>1, RemoveAt, ZenonT(40) DEF DropsEntry
<1>2. ASSUME NEW h, NEW s, h[s].key \in 0 .. MaxKey + 1, s \in Nat,
             NEW new, new = [key |-> h[s].key, child |-> s],
             es2 = SubSeq(es, 1, i) \o <<new>> \o SubSeq(es, i + 1, Len(es))
      PROVE  AddsEntry(h, es, i, s, es2)
  <2>1. new \in EntryRecord /\ new.key = h[s].key /\ new.child = s
    BY <1>2 DEF EntryRecord
  <2>2. es2 = SubSeq(es, 1, i) \o <<new>> \o SubSeq(es, i + 1, Len(es))
    BY <1>2
  <2>3. InsertsAt(EntryRecord, es, i, new, es2)
    BY ONLY <2>1, <2>2, es \in Seq(EntryRecord), i \in 1 .. Len(es), InsertAt, Zenon
  <2>4. QED
    BY <2>1, <2>3, Zenon DEF AddsEntry, InsertsAt
<1>3. QED
  BY <1>1, <1>2, Zenon

\* The slave's entry is put behind the master's, at position i.
LEMMA EntriesInsert ==
  ASSUME NEW h, NEW es, NEW es2, NEW m, NEW s, NEW i \in DOMAIN es,
         Good(h), Distinct(h), Entries(h, es), NextHeader(h, m, s), es[i].child = m,
         ~HasEntry(es, s), AddsEntry(h, es, i, s, es2)
  PROVE  Entries(h, es2) /\ \A n : HasEntry(es2, n) <=> HasEntry(es, n) \/ n = s
<1> DEFINE R == EntryRecord
           n == Len(es)
<1>0. /\ es \in Seq(R) /\ n >= 1 /\ es[1].child = HEAD
      /\ \A j \in DOMAIN es : HeaderOn(h, es[j].child) /\ es[j].key = h[es[j].child].key
      /\ \A j, k \in DOMAIN es : j < k => es[j].key < es[k].key
  BY DEF Entries, EntryRecord
<1>2. HeaderOn(h, s) /\ HeaderOn(h, m) /\ m # s /\ h[m].key <= h[s].key
      /\ \A x : HeaderOn(h, x) /\ x # m /\ x # s => h[x].key <= h[m].key \/ h[s].key <= h[x].key
  BY NextFacts
<1>3. \A x : HeaderOn(h, x) => x \in DOMAIN h /\ x \in Nat /\ h[x].key \in Nat /\ h[x].key \in 0 .. MaxKey + 1
  <2>1. \A x : HeaderOn(h, x) => x \in DOMAIN h /\ x \in Nat
    BY HeaderFacts
  <2>2. \A x \in DOMAIN h : h[x].key \in 0 .. MaxKey + 1
    BY NodeFacts DEF Good
  <2>3. QED
    BY <2>1, <2>2, HeaderKeys
<1> HIDE DEF R
<1>1. /\ es \in Seq(R) /\ n \in Nat /\ n >= 1 /\ DOMAIN es = 1 .. n /\ es[1].child = HEAD
      /\ \A j \in DOMAIN es : HeaderOn(h, es[j].child) /\ es[j].key = h[es[j].child].key
      /\ \A j, k \in DOMAIN es : j < k => es[j].key < es[k].key
  <2>1. n \in Nat /\ DOMAIN es = 1 .. n
    BY <1>0
  <2>2. QED
    BY <1>0, <2>1
<1>5. i \in 1 .. n /\ n \in Nat /\ i \in Nat
  BY <1>1
<1>6. /\ es2 \in Seq(R) /\ Len(es2) = n + 1 /\ DOMAIN es2 = 1 .. n + 1
      /\ \A j \in 1 .. i : es2[j] = es[j]
      /\ es2[i + 1].key = h[s].key /\ es2[i + 1].child = s
      /\ \A j \in i + 1 .. n : es2[j + 1] = es[j]
  BY DEF AddsEntry, R
<1> HIDE DEF n
<1>7. es[i].key < h[s].key
  <2>1. es[i].key = h[m].key /\ h[m].key # h[s].key /\ h[m].key \in Nat /\ h[s].key \in Nat
    BY <1>1, <1>2, <1>3 DEF Distinct
  <2>2. QED
    BY <1>2, <2>1
<1>8. ASSUME NEW j \in i + 1 .. n PROVE h[s].key < es[j].key
  <2>1. j \in DOMAIN es /\ i < j
    BY <1>1, <1>5
  <2>2. es[i].key < es[j].key /\ HeaderOn(h, es[j].child) /\ es[j].key = h[es[j].child].key
        /\ es[i].key = h[m].key
    BY <1>1, <2>1
  <2>3. es[j].child # s
    BY <2>1 DEF HasEntry
  <2>4. h[m].key \in Nat /\ h[s].key \in Nat /\ es[j].key \in Nat
    BY <1>2, <1>3, <2>2
  <2>5. es[j].child # m
    BY <2>2, <2>4
  <2>6. h[s].key <= es[j].key
    <3>1. h[es[j].child].key <= h[m].key \/ h[s].key <= h[es[j].child].key
      BY <1>2, <2>2, <2>3, <2>5, Zenon
    <3>2. QED
      BY <2>2, <2>4, <3>1
  <2>7. h[s].key # es[j].key
    BY <1>2, <2>2, <2>3 DEF Distinct
  <2>8. QED
    BY <2>4, <2>6, <2>7
<1>9. ASSUME NEW j \in 1 .. n + 1
      PROVE  \/ j \in 1 .. i /\ j \in 1 .. n /\ es2[j] = es[j]
             \/ j = i + 1
             \/ j > i + 1 /\ j - 1 \in i + 1 .. n /\ j - 1 \in 1 .. n /\ es2[j] = es[j - 1]
  <2>1. CASE j <= i
    <3>1. j \in 1 .. i /\ j \in 1 .. n
      BY <1>5, <2>1
    <3>2. QED
      BY <1>6, <3>1
  <2>2. CASE j = i + 1
    BY <1>6, <2>2
  <2>3. CASE j > i + 1
    <3>1. j - 1 \in i + 1 .. n /\ j - 1 \in 1 .. n /\ (j - 1) + 1 = j
      BY <1>5, <2>3
    <3>2. es2[(j - 1) + 1] = es[j - 1]
      BY <1>6, <3>1
    <3>3. QED
      BY <2>3, <3>1, <3>2
  <2>4. QED
    BY <1>5, <2>1, <2>2, <2>3
<1>10. es2[i + 1].key = h[s].key /\ es2[i + 1].child = s
  BY <1>6
<1>11. ASSUME NEW j \in DOMAIN es2
       PROVE  HeaderOn(h, es2[j].child) /\ es2[j].key = h[es2[j].child].key
  <2>0. j \in 1 .. n + 1
    BY <1>6
  <2>1. CASE j = i + 1
    BY <1>2, <1>10, <2>1
  <2>2. CASE j \in 1 .. n /\ es2[j] = es[j]
    BY <1>1, <2>2
  <2>3. CASE j - 1 \in 1 .. n /\ es2[j] = es[j - 1]
    BY <1>1, <2>3
  <2>4. QED
    BY <1>9, <2>0, <2>1, <2>2, <2>3
<1>12. ASSUME NEW j \in DOMAIN es2, NEW k \in DOMAIN es2, j < k
       PROVE  es2[j].key < es2[k].key
  <2>0. j \in 1 .. n + 1 /\ k \in 1 .. n + 1
    BY <1>6
  <2>1. CASE j \in 1 .. i /\ es2[j] = es[j]
    <3>1. j \in DOMAIN es /\ j \in 1 .. n
      BY <1>1, <1>5, <2>1
    <3>2. es[j].key <= es[i].key
      BY <1>1, <1>3, <1>5, <2>1, <3>1
    <3>3. CASE k \in 1 .. i /\ es2[k] = es[k]
      BY <1>1, <1>5, <1>12, <2>1, <3>1, <3>3, SMTT(40)
    <3>4. CASE k = i + 1
      <4>1. es[j].key \in Nat /\ es[i].key \in Nat /\ h[s].key \in Nat
        BY <1>1, <1>2, <1>3, <1>5, <3>1
      <4>2. QED
        BY <1>7, <1>10, <2>1, <3>2, <3>4, <4>1
    <3>5. CASE k > i + 1 /\ k - 1 \in i + 1 .. n /\ es2[k] = es[k - 1]
      <4>1. k - 1 \in DOMAIN es /\ j < k - 1
        BY <1>1, <1>5, <2>1, <3>1, <3>5
      <4>2. QED
        BY <1>1, <2>1, <3>1, <3>5, <4>1
    <3>6. QED
      BY <1>9, <2>0, <3>3, <3>4, <3>5
  <2>2. CASE j = i + 1
    <3>1. k > i + 1 /\ k - 1 \in i + 1 .. n /\ es2[k] = es[k - 1]
      BY <1>5, <1>9, <1>12, <2>0, <2>2
    <3>2. QED
      BY <1>8, <1>10, <2>2, <3>1
  <2>3. CASE j > i + 1 /\ j - 1 \in 1 .. n /\ es2[j] = es[j - 1]
    <3>1. k > i + 1 /\ k - 1 \in 1 .. n /\ es2[k] = es[k - 1]
      BY <1>5, <1>9, <1>12, <2>0, <2>3
    <3>2. j - 1 < k - 1
      BY <1>12, <2>0
    <3>3. QED
      BY <1>1, <2>3, <3>1, <3>2
  <2>4. QED
    BY <1>9, <2>0, <2>1, <2>2, <2>3
<1>13. ASSUME NEW x PROVE HasEntry(es2, x) <=> HasEntry(es, x) \/ x = s
  <2>1. ASSUME HasEntry(es2, x) PROVE HasEntry(es, x) \/ x = s
    <3>1. PICK j \in 1 .. n + 1 : es2[j].child = x
      BY <1>6, <2>1 DEF HasEntry
    <3>2. QED
      BY <1>1, <1>9, <1>10, <3>1 DEF HasEntry
  <2>2. ASSUME HasEntry(es, x) PROVE HasEntry(es2, x)
    <3>1. PICK j \in 1 .. n : es[j].child = x
      BY <1>1, <2>2 DEF HasEntry
    <3>2. CASE j <= i
      <4>1. j \in 1 .. i /\ j \in 1 .. n + 1
        BY <1>5, <3>2
      <4>2. QED
        BY <1>6, <3>1, <4>1 DEF HasEntry
    <3>3. CASE ~(j <= i)
      <4>1. j \in i + 1 .. n /\ j + 1 \in 1 .. n + 1
        BY <1>5, <3>3
      <4>2. es2[j + 1] = es[j]
        BY <1>6, <4>1
      <4>3. QED
        BY <1>6, <3>1, <4>1, <4>2 DEF HasEntry
    <3>4. QED
      BY <3>2, <3>3
  <2>3. HasEntry(es2, s)
    <3>1. i + 1 \in 1 .. n + 1
      BY <1>5
    <3>2. QED
      BY <1>6, <1>10, <3>1 DEF HasEntry
  <2>4. QED
    BY <2>1, <2>2, <2>3
<1>14. es2[1].child = HEAD /\ Len(es2) >= 1
  <2>1. 1 \in 1 .. i
    BY <1>5
  <2>2. QED
    BY <1>1, <1>6, <2>1
<1>15. QED
  BY <1>6, <1>11, <1>12, <1>13, <1>14 DEF Entries, R, EntryRecord

\* The entry at position i is taken out.
LEMMA EntriesRemove ==
  ASSUME NEW h, NEW es, NEW es2, NEW i \in DOMAIN es, i > 1,
         Good(h), Entries(h, es), DropsEntry(es, i, es2)
  PROVE  Entries(h, es2) /\ \A n : HasEntry(es2, n) <=> HasEntry(es, n) /\ n # es[i].child
<1> DEFINE R == EntryRecord
           n == Len(es)
<1>0. /\ es \in Seq(R) /\ n >= 1 /\ es[1].child = HEAD
      /\ \A j \in DOMAIN es : HeaderOn(h, es[j].child) /\ es[j].key = h[es[j].child].key
      /\ \A j, k \in DOMAIN es : j < k => es[j].key < es[k].key
  BY DEF Entries, EntryRecord
<1> HIDE DEF R
<1>1. /\ es \in Seq(R) /\ n \in Nat /\ n >= 1 /\ DOMAIN es = 1 .. n /\ es[1].child = HEAD
      /\ \A j \in DOMAIN es : HeaderOn(h, es[j].child) /\ es[j].key = h[es[j].child].key
      /\ \A j, k \in DOMAIN es : j < k => es[j].key < es[k].key
  <2>1. n \in Nat /\ DOMAIN es = 1 .. n
    BY <1>0
  <2>2. QED
    BY <1>0, <2>1
<1>5. i \in 1 .. n /\ n \in Nat /\ i \in Nat
  BY <1>1
<1>6. /\ es2 \in Seq(R) /\ Len(es2) = n - 1 /\ DOMAIN es2 = 1 .. n - 1
      /\ \A j \in 1 .. i - 1 : es2[j] = es[j]
      /\ \A j \in i + 1 .. n : es2[j - 1] = es[j]
  BY DEF DropsEntry, R
<1> HIDE DEF n
<1>7. \A j \in 1 .. n : es[j].key \in Nat
  BY EntryKeys DEF n
<1>9. ASSUME NEW j \in 1 .. n - 1
      PROVE  \/ j < i /\ j \in 1 .. n /\ es2[j] = es[j]
             \/ j >= i /\ j + 1 \in 1 .. n /\ es2[j] = es[j + 1]
  <2>1. CASE j < i
    <3>1. j \in 1 .. i - 1 /\ j \in 1 .. n
      BY <1>5, <2>1
    <3>2. QED
      BY <1>6, <2>1, <3>1
  <2>2. CASE j >= i
    <3>1. j + 1 \in i + 1 .. n /\ j + 1 \in 1 .. n /\ (j + 1) - 1 = j
      BY <1>1, <1>5, <2>2
    <3>2. es2[(j + 1) - 1] = es[j + 1]
      BY <1>6, <3>1
    <3>3. QED
      BY <2>2, <3>1, <3>2
  <2>3. QED
    BY <1>5, <2>1, <2>2
<1>11. ASSUME NEW j \in DOMAIN es2
       PROVE  HeaderOn(h, es2[j].child) /\ es2[j].key = h[es2[j].child].key
  <2>0. j \in 1 .. n - 1
    BY <1>6
  <2>1. CASE j \in 1 .. n /\ es2[j] = es[j]
    BY <1>1, <2>1
  <2>2. CASE j + 1 \in 1 .. n /\ es2[j] = es[j + 1]
    BY <1>1, <2>2
  <2>3. QED
    BY <1>9, <2>0, <2>1, <2>2
<1>12. ASSUME NEW j \in DOMAIN es2, NEW k \in DOMAIN es2, j < k
       PROVE  es2[j].key < es2[k].key
  <2>0. j \in 1 .. n - 1 /\ k \in 1 .. n - 1
    BY <1>6
  <2>1. CASE j < i /\ j \in 1 .. n /\ es2[j] = es[j]
    <3>1. CASE k < i /\ k \in 1 .. n /\ es2[k] = es[k]
      BY <1>1, <1>12, <2>1, <3>1
    <3>2. CASE k >= i /\ k + 1 \in 1 .. n /\ es2[k] = es[k + 1]
      <4>1. j < k + 1
        BY <1>12, <2>0
      <4>2. QED
        BY <1>1, <2>1, <3>2, <4>1
    <3>3. QED
      BY <1>9, <2>0, <3>1, <3>2
  <2>2. CASE j >= i /\ j + 1 \in 1 .. n /\ es2[j] = es[j + 1]
    <3>1. k >= i /\ k + 1 \in 1 .. n /\ es2[k] = es[k + 1]
      BY <1>5, <1>9, <1>12, <2>0, <2>2
    <3>2. j + 1 < k + 1
      BY <1>12, <2>0
    <3>3. QED
      BY <1>1, <2>2, <3>1, <3>2
  <2>4. QED
    BY <1>9, <2>0, <2>1, <2>2
<1>13. ASSUME NEW x PROVE HasEntry(es2, x) <=> HasEntry(es, x) /\ x # es[i].child
  <2>0. \A j \in 1 .. n : j # i => es[j].child # es[i].child
    <3>1. SUFFICES ASSUME NEW j \in 1 .. n, j # i, es[j].child = es[i].child PROVE FALSE
      OBVIOUS
    <3>2. es[j].key = es[i].key /\ es[j].key \in Nat
      BY <1>1, <1>5, <1>7, <3>1
    <3>3. j < i \/ i < j
      BY <1>5, <3>1
    <3>4. es[j].key < es[i].key \/ es[i].key < es[j].key
      BY <1>1, <1>5, <3>3
    <3>5. QED
      BY <3>2, <3>4
  <2>1. ASSUME HasEntry(es2, x) PROVE HasEntry(es, x) /\ x # es[i].child
    <3>1. PICK j \in 1 .. n - 1 : es2[j].child = x
      BY <1>6, <2>1 DEF HasEntry
    <3>2. CASE j < i /\ j \in 1 .. n /\ es2[j] = es[j]
      <4>1. j # i
        BY <1>5, <3>2
      <4>2. QED
        BY <1>1, <2>0, <3>1, <3>2, <4>1 DEF HasEntry
    <3>3. CASE j >= i /\ j + 1 \in 1 .. n /\ es2[j] = es[j + 1]
      <4>1. j + 1 # i
        BY <1>5, <3>3
      <4>2. QED
        BY <1>1, <2>0, <3>1, <3>3, <4>1 DEF HasEntry
    <3>4. QED
      BY <1>9, <3>2, <3>3
  <2>2. ASSUME HasEntry(es, x), x # es[i].child PROVE HasEntry(es2, x)
    <3>1. PICK j \in 1 .. n : es[j].child = x
      BY <1>1, <2>2 DEF HasEntry
    <3>2. CASE j < i
      <4>1. j \in 1 .. i - 1 /\ j \in 1 .. n - 1
        BY <1>5, <3>2
      <4>2. QED
        BY <1>6, <3>1, <4>1 DEF HasEntry
    <3>3. CASE ~(j < i)
      <4>1. j # i
        BY <2>2, <3>1
      <4>2. j \in i + 1 .. n /\ j - 1 \in 1 .. n - 1
        BY <1>5, <3>3, <4>1
      <4>3. es2[j - 1] = es[j]
        BY <1>6, <4>2
      <4>4. QED
        BY <1>6, <3>1, <4>2, <4>3 DEF HasEntry
    <3>4. QED
      BY <3>2, <3>3
  <2>4. QED
    BY <2>1, <2>2
<1>14. es2[1].child = HEAD /\ Len(es2) >= 1
  <2>1. 1 \in 1 .. i - 1 /\ n - 1 >= 1
    BY <1>5
  <2>2. QED
    BY <1>1, <1>6, <2>1
<1>15. QED
  BY <1>6, <1>11, <1>12, <1>13, <1>14 DEF Entries, R, EntryRecord

------------------------------------------------------------------------------
(***************************************************************************)
(* Splits and merges that change the parent                                *)
(***************************************************************************)
\* The slave of a split gets its entry.
LEMMA ProtoUpdate ==
  ASSUME NEW h, NEW es, NEW es2, NEW sm, NEW lc, NEW sm2, NEW lc2, NEW t \in Threads,
         NEW i \in DOMAIN es, NEW s, s = sm[t].slave,
         Proto(h, es, sm, lc), Distinct(h), Others(t, sm, lc, sm2, lc2),
         lc[t] = "update", lc2[t] = "release", sm2[t] = sm[t],
         es[i].child = sm[t].master, AddsEntry(h, es, i, s, es2)
  PROVE  Proto(h, es2, sm2, lc2)
<1>1. Good(h) /\ Changed(h, h, {}, {}, {}, {}) /\ Entries(h, es)
      /\ \A u \in Threads : SmoFits(h, es, sm[u], lc[u])
  BY SameHeap DEF Proto
<1>2. \A u \in Threads \ {t} : sm2[u] = sm[u] /\ lc2[u] = lc[u]
  BY DEF Others
<1>3. sm[t].operator = 10 /\ Owe(sm[t], lc[t]) /\ HeaderOn(h, s) /\ HeaderOn(h, sm[t].master)
  BY <1>1, SmoFacts
<1>4. NextHeader(h, sm[t].master, s) /\ HasEntry(es, sm[t].master) /\ sm[t].master \in DOMAIN h
  <2>1. SmoFits(h, es, sm[t], lc[t])
    BY <1>1
  <2>2. QED
    BY <1>3, <2>1 DEF SmoFits, OrphanLocs
<1>5. ~HasEntry(es, s)
  BY DEF Proto, Orphans, OrphanLocs
<1>6. Entries(h, es2) /\ \A n : HasEntry(es2, n) <=> HasEntry(es, n) \/ n = s
  BY <1>1, <1>4, <1>5, EntriesInsert
<1>7. ASSUME NEW u \in Threads \ {t} PROVE SmoFits(h, es2, sm2[u], lc2[u])
  <2>1. SmoFits(h, es2, sm[u], lc[u])
    BY <1>1, <1>6, SmoStays
  <2>2. QED
    BY <1>2, <2>1
<1>8. SmoFits(h, es2, sm2[t], lc2[t])
  BY <1>3, <1>4, <1>6 DEF SmoFits, SplitLocs, OrphanLocs
<1>9. \A n : Own(sm2[t], lc2[t], n) <=> Own(sm[t], lc[t], n)
  BY <1>3 DEF Own, Owe
<1>10. Owners(h, sm2, lc2)
  <2>1. ASSUME NEW n, HeaderOn(h, n), Own(sm2[t], lc2[t], n)
        PROVE  h[n].state = Wanted(sm2[t]) /\ \A u \in Threads \ {t} : ~Own(sm[u], lc[u], n)
    BY <1>9, <2>1 DEF Proto, Owners
  <2>2. ASSUME NEW n, HeaderOn(h, n), h[n].state # FREE, ~Own(sm2[t], lc2[t], n)
        PROVE  HeaderOn(h, n) /\ h[n].state # FREE /\ ~Own(sm[t], lc[t], n)
    BY <1>9, <2>2
  <2>3. QED
    BY <1>1, <2>1, <2>2, OwnersStay
<1>11. Orphans(h, es2, sm2, lc2)
  <2>1. lc2[t] \notin OrphanLocs
    BY DEF OrphanLocs
  <2>2. ASSUME NEW n, HeaderOn(h, n)
        PROVE  HasEntry(es2, n) \/ \E u \in Threads : lc2[u] \in OrphanLocs /\ sm2[u].slave = n
    <3>1. HasEntry(es, n) \/ \E u \in Threads : lc[u] \in OrphanLocs /\ sm[u].slave = n
      BY <2>2 DEF Proto, Orphans
    <3>2. QED
      BY <1>2, <1>6, <3>1
  <2>3. ASSUME NEW u \in Threads, lc2[u] \in OrphanLocs PROVE ~HasEntry(es2, sm2[u].slave)
    <3>1. u # t /\ sm2[u] = sm[u] /\ lc2[u] = lc[u]
      BY <1>2, <2>1, <2>3
    <3>2. ~HasEntry(es, sm[u].slave)
      BY <2>3, <3>1 DEF Proto, Orphans
    <3>3. sm[u].slave # s
      <4>1. Owe(sm[u], lc[u])
        BY <1>1, <2>3, <3>1, SmoFacts DEF OrphanLocs
      <4>2. Own(sm[t], lc[t], s)
        BY <1>3 DEF Own
      <4>3. QED
        BY <1>3, <3>1, <4>1, <4>2 DEF Proto, Owners, Own
    <3>4. QED
      BY <1>6, <3>1, <3>2, <3>3
  <2>4. QED
    BY <2>2, <2>3 DEF Orphans
<1>12. QED
  BY <1>1, <1>6, <1>7, <1>8, <1>10, <1>11 DEF Proto

\* Neighbours in the parent are neighbours in the list, unless one of them is
\* the master of a split or merge of another thread.
LEMMA EntriesNext ==
  ASSUME NEW h, NEW es, NEW sm, NEW lc, Proto(h, es, sm, lc), Distinct(h),
         NEW i \in DOMAIN es, i + 1 \in DOMAIN es,
         \A u \in Threads : lc[u] \in OrphanLocs => ~Own(sm[u], lc[u], es[i].child)
  PROVE  NextHeader(h, es[i].child, es[i + 1].child)
<1> DEFINE a == es[i].child
           b == es[i + 1].child
<1>1. Good(h) /\ Entries(h, es) /\ \A u \in Threads : SmoFits(h, es, sm[u], lc[u])
  BY DEF Proto
<1>2. /\ \A j \in DOMAIN es : HeaderOn(h, es[j].child) /\ es[j].key = h[es[j].child].key
      /\ \A j, k \in DOMAIN es : j < k => es[j].key < es[k].key
  BY <1>1 DEF Entries
<1>3. Len(es) \in Nat /\ DOMAIN es = 1 .. Len(es)
  <2>1. es \in Seq([key : 0 .. MaxKey + 1, child : Nat])
    BY <1>1 DEF Entries
  <2>2. QED
    BY <2>1
<1>4. i \in Nat /\ i < i + 1
  BY <1>3
<1>5. HeaderOn(h, a) /\ HeaderOn(h, b) /\ h[a].key < h[b].key
  BY <1>2, <1>4
<1> HIDE DEF a, b
<1>6. PICK n : NextHeader(h, a, n)
  BY <1>1, <1>5, NextExists
<1>7. /\ HeaderOn(h, n) /\ a # n /\ h[a].key <= h[n].key
      /\ \A x : HeaderOn(h, x) /\ x # a /\ x # n => h[x].key <= h[a].key \/ h[n].key <= h[x].key
  BY <1>1, <1>6, NextFacts
<1>8. h[a].key \in Nat /\ h[b].key \in Nat /\ h[n].key \in Nat
  BY <1>1, <1>5, <1>7, HeaderKeys
<1>9. SUFFICES ASSUME n # b PROVE FALSE
  BY <1>6 DEF a, b
<1>10. h[a].key < h[n].key /\ h[n].key < h[b].key
  <2>1. b # a
    BY <1>5, <1>8
  <2>2. h[b].key <= h[a].key \/ h[n].key <= h[b].key
    BY <1>5, <1>7, <1>9, <2>1
  <2>3. h[n].key # h[a].key /\ h[n].key # h[b].key
    BY <1>5, <1>7, <1>9 DEF Distinct
  <2>4. QED
    BY <1>5, <1>7, <1>8, <2>2, <2>3
<1>11. ~HasEntry(es, n)
  <2>1. SUFFICES ASSUME NEW j \in DOMAIN es, es[j].child = n PROVE FALSE
    BY DEF HasEntry
  <2>2. es[j].key = h[n].key /\ es[i].key = h[a].key /\ es[i + 1].key = h[b].key
    BY <1>2, <2>1 DEF a, b
  <2>3. j < i \/ j = i \/ j = i + 1 \/ i + 1 < j
    BY <1>3
  <2>4. CASE j < i
    <3>1. es[j].key < es[i].key
      BY <1>2, <2>4
    <3>2. QED
      BY <1>8, <1>10, <2>2, <3>1
  <2>5. CASE i + 1 < j
    <3>1. es[i + 1].key < es[j].key
      BY <1>2, <2>5
    <3>2. QED
      BY <1>8, <1>10, <2>2, <3>1
  <2>6. QED
    BY <1>7, <1>9, <2>1, <2>3, <2>4, <2>5 DEF a, b
<1>12. PICK u \in Threads : lc[u] \in OrphanLocs /\ sm[u].slave = n
  BY <1>7, <1>11 DEF Proto, Orphans
<1>13. NextHeader(h, sm[u].master, n) /\ Owe(sm[u], lc[u])
  <2>1. SmoFits(h, es, sm[u], lc[u])
    BY <1>1
  <2>2. NextHeader(h, sm[u].master, n)
    BY <1>12, <2>1 DEF SmoFits
  <2>3. Owe(sm[u], lc[u])
    BY <1>1, <1>12, <2>1, SmoFacts DEF OrphanLocs
  <2>4. QED
    BY <2>2, <2>3
<1>14. sm[u].master = a
  BY <1>1, <1>6, <1>13, NextUnique
<1>15. QED
  BY <1>12, <1>13, <1>14 DEF Own, a

\* A merge finds its partner p: the left one of the two becomes the master,
\* the entry of the other one goes.
LEMMA ProtoPartner ==
  ASSUME NEW h, NEW g, NEW es, NEW es2, NEW sm, NEW lc, NEW sm2, NEW lc2, NEW t \in Threads,
         NEW i \in DOMAIN es, i + 1 \in DOMAIN es, NEW a, NEW b, NEW p,
         a = es[i].child, b = es[i + 1].child,
         Proto(h, es, sm, lc), Distinct(h), Changed(h, g, {}, {}, {}, {p}),
         Others(t, sm, lc, sm2, lc2),
         lc[t] = "partner", lc2[t] = "merge", {a, b} = {sm[t].master, p},
         h[p].state = FREE, g[p].state = MERGE_REGIST,
         sm2[t].operator = sm[t].operator, sm2[t].master = a, sm2[t].slave = b,
         DropsEntry(es, i + 1, es2)
  PROVE  Proto(g, es2, sm2, lc2)
<1> DEFINE m == sm[t].master
<1>1. Good(h) /\ Good(g) /\ Entries(h, es) /\ \A u \in Threads : SmoFits(h, es, sm[u], lc[u])
  BY DEF Proto, Changed
<1>2. \A u \in Threads \ {t} : sm2[u] = sm[u] /\ lc2[u] = lc[u]
  BY DEF Others
<1>3. sm[t].operator = -10 /\ sm[t].slave = 0
  <2>1. SmoFits(h, es, sm[t], lc[t])
    BY <1>1
  <2>2. sm[t].operator = -10
    BY <2>1 DEF SmoFits, OpLocs, SplitLocs
  <2>3. QED
    BY <2>1, <2>2 DEF SmoFits
<1>4. Owe(sm[t], lc[t]) /\ Owe(sm2[t], lc2[t]) /\ Own(sm[t], lc[t], m)
      /\ Wanted(sm[t]) = MERGE_REGIST /\ Wanted(sm2[t]) = MERGE_REGIST
  BY <1>3 DEF Owe, Own, Wanted
<1>5. HeaderOn(h, a) /\ HeaderOn(h, b) /\ a # b
  <2>1. Len(es) \in Nat /\ DOMAIN es = 1 .. Len(es)
    <3>1. es \in Seq([key : 0 .. MaxKey + 1, child : Nat])
      BY <1>1 DEF Entries
    <3>2. QED
      BY <3>1
  <2>2. i < i + 1 /\ i \in 1 .. Len(es)
    BY <2>1
  <2>3. es[i].key < es[i + 1].key /\ es[i].key \in Nat
    BY <1>1, <2>1, <2>2, EntryKeys DEF Entries
  <2>4. HeaderOn(h, a) /\ HeaderOn(h, b) /\ es[i].key = h[a].key /\ es[i + 1].key = h[b].key
    BY <1>1 DEF Entries
  <2>5. QED
    BY <2>3, <2>4
<1>6. HeaderOn(h, m) /\ HeaderOn(h, p)
  BY <1>5
<1>7. h[m].state = MERGE_REGIST /\ m # p
  <2>1. h[m].state = MERGE_REGIST
    BY <1>4, <1>6 DEF Proto, Owners
  <2>2. QED
    BY <2>1 DEF MERGE_REGIST, FREE
<1>8. ASSUME NEW u \in Threads \ {t}
      PROVE  ~Own(sm[u], lc[u], a) /\ ~Own(sm[u], lc[u], b) /\ ~Own(sm[u], lc[u], p)
  <2>1. ~Own(sm[u], lc[u], m)
    BY <1>4, <1>6 DEF Proto, Owners
  <2>2. ~Own(sm[u], lc[u], p)
    <3>1. SUFFICES ASSUME Own(sm[u], lc[u], p) PROVE FALSE
      OBVIOUS
    <3>2. h[p].state = Wanted(sm[u])
      BY <1>6, <3>1 DEF Proto, Owners
    <3>3. QED
      BY <3>2 DEF Wanted, FREE, SPLIT_REGIST, MERGE_REGIST
  <2>3. QED
    BY <2>1, <2>2
<1>9. lc[t] \notin OrphanLocs /\ lc2[t] \in OrphanLocs
  BY DEF OrphanLocs
<1>10. NextHeader(h, a, b)
  <2>1. \A u \in Threads : lc[u] \in OrphanLocs => ~Own(sm[u], lc[u], es[i].child)
    BY <1>8, <1>9
  <2>2. QED
    BY <2>1, EntriesNext
<1>11. NextHeader(g, a, b) /\ \A n : HeaderOn(g, n) <=> HeaderOn(h, n)
  BY <1>10 DEF Changed
<1>12. Entries(h, es2) /\ \A n : HasEntry(es2, n) <=> HasEntry(es, n) /\ n # b
  <2>1. i + 1 > 1
    <3>1. es \in Seq([key : 0 .. MaxKey + 1, child : Nat])
      BY <1>1 DEF Entries
    <3>2. DOMAIN es = 1 .. Len(es) /\ Len(es) \in Nat
      BY <3>1
    <3>3. QED
      BY <3>2
  <2>2. QED
    BY <1>1, <2>1, EntriesRemove
<1>13. Entries(g, es2)
  BY <1>12, EntriesStay
<1>14. ASSUME NEW u \in Threads \ {t} PROVE SmoFits(g, es2, sm2[u], lc2[u])
  <2>1. Owe(sm[u], lc[u]) => sm[u].master # b
    BY <1>8 DEF Own
  <2>2. SmoFits(h, es, sm[u], lc[u])
    BY <1>1
  <2>3. SmoFits(g, es2, sm[u], lc[u])
    BY <1>12, <2>1, <2>2, SmoStays
  <2>4. QED
    BY <1>2, <2>3
<1>15. SmoFits(g, es2, sm2[t], lc2[t])
  <2>1. a \in DOMAIN g
    BY <1>1, <1>5, <1>11, HeaderFacts
  <2>2. HasEntry(es2, a)
    BY <1>5, <1>12 DEF HasEntry
  <2>3. QED
    BY <1>3, <1>5, <1>11, <2>1, <2>2 DEF SmoFits, MergeLocs, OrphanLocs
<1>16. \A n : HeaderOn(h, n) => n \in DOMAIN h /\ n # 0
  BY <1>1, HeaderFacts
<1>17. \A n : HeaderOn(h, n) => /\ Own(sm2[t], lc2[t], n) <=> n = a \/ n = b
                                /\ Own(sm[t], lc[t], n) <=> n = m
  BY <1>3, <1>4, <1>16 DEF Own
<1>18. \A n : HeaderOn(h, n) /\ n # p => g[n].state = h[n].state
  BY <1>16 DEF Changed
<1>19. Owners(g, sm2, lc2)
  <2>1. ASSUME NEW n, HeaderOn(g, n), Own(sm2[t], lc2[t], n)
        PROVE  g[n].state = Wanted(sm2[t]) /\ \A u \in Threads \ {t} : ~Own(sm[u], lc[u], n)
    <3>1. HeaderOn(h, n) /\ (n = a \/ n = b)
      BY <1>11, <1>17, <2>1
    <3>2. g[n].state = MERGE_REGIST
      BY <1>6, <1>7, <1>18, <3>1
    <3>3. QED
      BY <1>4, <1>8, <3>1, <3>2
  <2>2. ASSUME NEW n, HeaderOn(g, n), g[n].state # FREE, ~Own(sm2[t], lc2[t], n)
        PROVE  HeaderOn(h, n) /\ h[n].state # FREE /\ ~Own(sm[t], lc[t], n)
    <3>1. HeaderOn(h, n) /\ n # a /\ n # b
      BY <1>11, <1>17, <2>2
    <3>2. n # m /\ n # p
      BY <3>1
    <3>3. QED
      BY <1>17, <1>18, <2>2, <3>1, <3>2
  <2>3. \A n \in {p} : \A u \in Threads \ {t} : ~Own(sm[u], lc[u], n)
    BY <1>8
  <2>4. QED
    BY <2>1, <2>2, <2>3, OwnersStay
<1>20. Orphans(g, es2, sm2, lc2)
  <2>1. ASSUME NEW n, HeaderOn(g, n)
        PROVE  HasEntry(es2, n) \/ \E u \in Threads : lc2[u] \in OrphanLocs /\ sm2[u].slave = n
    <3>1. HasEntry(es, n) \/ \E u \in Threads : lc[u] \in OrphanLocs /\ sm[u].slave = n
      BY <1>11, <2>1 DEF Proto, Orphans
    <3>2. CASE n = b
      BY <1>9, <3>2
    <3>3. CASE n # b
      BY <1>2, <1>9, <1>12, <3>1, <3>3
    <3>4. QED
      BY <3>2, <3>3
  <2>2. ASSUME NEW u \in Threads, lc2[u] \in OrphanLocs PROVE ~HasEntry(es2, sm2[u].slave)
    <3>1. CASE u = t
      BY <1>12, <3>1
    <3>2. CASE u # t
      <4>1. ~HasEntry(es, sm[u].slave) /\ sm2[u] = sm[u]
        BY <1>2, <2>2, <3>2 DEF Proto, Orphans
      <4>2. QED
        BY <1>12, <4>1
    <3>3. QED
      BY <3>1, <3>2
  <2>3. QED
    BY <2>1, <2>2 DEF Orphans
<1>21. QED
  BY <1>1, <1>13, <1>14, <1>15, <1>19, <1>20 DEF Proto
==============================================================================
