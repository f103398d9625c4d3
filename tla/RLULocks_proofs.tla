--------------------------- MODULE RLULocks_proofs ---------------------------
(***************************************************************************)
(* Headers and logs of RLU agree, no committed change is lost, and stolen  *)
(* copies stay, for every number of threads, objects, write sets, ring     *)
(* size and number of sections.                                            *)
(*                                                                         *)
(* An entry is named by its thread, the counter of its write set and its   *)
(* index, so that it keeps its name while the ring goes round; RingInv     *)
(* turns different counters into different slots.                          *)
(***************************************************************************)
EXTENDS RLU_proofs

\* Entry i of t's write set c is not written back yet, nor discarded.
Owned(t, c, i) ==
  /\ c \in ws_wb_counter[t] .. ws_tail_counter[t]
  /\ i \in DOMAIN write_set[t][WS_INDEX(c)]
  /\ OwnedEntry(t, c, i)

EntryAt(t, c, i) == write_set[t][WS_INDEX(c)][i]
Address(t, c, i) == [thread |-> t, ws |-> WS_INDEX(c), idx |-> i]

\* LocksMatchLogs says of a header only that it names an entry of its object;
\* to be inductive it has to be an entry that is still owned.
HeadersNameOwned ==
  \A o \in Objects : lock[o] # NULL =>
    \E t \in Threads, c \in Nat, i \in Nat :
      Owned(t, c, i) /\ EntryAt(t, c, i).obj = o /\ lock[o] = Address(t, c, i)

OwnedAreLocked ==
  \A t \in Threads, c \in Nat, i \in Nat :
    Owned(t, c, i) => lock[EntryAt(t, c, i).obj] = Address(t, c, i)

WritebackLoop == \A t \in Threads : pc[t] = "writeback" => ws_wb_counter[t] <= ws_counter[t]

LockInv == HeadersNameOwned /\ OwnedAreLocked /\ WritebackLoop

(***************************************************************************)
(* Facts about one state.                                                  *)
(***************************************************************************)

\* What the proofs below need of the types.
LEMMA Types ==
  ASSUME TypeOK
  PROVE  /\ ws_head_counter \in [Threads -> Nat] /\ ws_wb_counter \in [Threads -> Nat]
         /\ ws_tail_counter \in [Threads -> Nat]
         /\ write_set \in [Threads -> [Slots -> Seq(Entry)]]
         /\ lock \in [Objects -> LogPtrs \union {NULL}]
         /\ actual \in [Objects -> Nat] /\ commits \in [Objects -> Nat]
         /\ ws_counter \in [Threads -> Nat] /\ iter \in [Threads -> Nat]
         /\ run_counter \in [Threads -> Nat]
         /\ is_write_detected \in [Threads -> BOOLEAN]
         /\ pc \in [Threads -> Locs]
  BY DEF TypeOK, MemoryTypes, ThreadTypes, LogTypes, ControlTypes

\* An entry is one of its log's, and its address is not NULL.
LEMMA OwnedTypes ==
  ASSUME TypeOK, NEW t \in Threads, NEW c, NEW i, Owned(t, c, i)
  PROVE  /\ c \in Nat /\ i \in Nat /\ i >= 1
         /\ WS_INDEX(c) \in Slots
         /\ EntryAt(t, c, i) \in Entry
         /\ Address(t, c, i) # NULL
<1>1. c \in Nat
  BY Types DEF Owned
<1>2. WS_INDEX(c) \in Slots
  BY <1>1, IndexInRing
<1>3. write_set[t][WS_INDEX(c)] \in Seq(Entry)
  BY <1>2, Types
<1>4. i \in 1 .. Len(write_set[t][WS_INDEX(c)]) /\ Len(write_set[t][WS_INDEX(c)]) \in Nat
  BY <1>3 DEF Owned
<1>5. EntryAt(t, c, i) \in Entry /\ i \in Nat /\ i >= 1
  BY <1>3, <1>4 DEF EntryAt
<1>6. Address(t, c, i) \in LogPtrs
  BY <1>2, <1>5 DEF Address, LogPtrs
<1>7. QED
  BY <1>1, <1>2, <1>5, <1>6, MarkerAssumption

\* The write sets between the write-back counter and the tail have a slot each.
LEMMA OneCounterPerSlot ==
  ASSUME TypeOK, RingInv, NEW t \in Threads,
         NEW c \in ws_wb_counter[t] .. ws_tail_counter[t],
         NEW d \in ws_wb_counter[t] .. ws_tail_counter[t],
         WS_INDEX(c) = WS_INDEX(d)
  PROVE  c = d
<1>1. ws_wb_counter[t] \in Nat /\ ws_tail_counter[t] \in Nat
  BY Types
<1>2. ws_tail_counter[t] - ws_wb_counter[t] <= MaxWriteSets
  BY DEF RingInv, RingCounters
<1>3. MaxWriteSets < RingSize /\ RingSize \in Nat /\ MaxWriteSets \in Nat
  BY RingAssumption
<1>4. c \in Nat /\ d \in Nat /\ c - d < RingSize /\ d - c < RingSize
  BY <1>1, <1>2, <1>3
<1>5. ~(c < d) /\ ~(d < c)
  BY <1>4, DifferentSlots
<1>6. QED
  BY <1>4, <1>5

\* Two owned entries with one address are the same.
LEMMA OneEntryPerAddress ==
  ASSUME TypeOK, RingInv, NEW t \in Threads, NEW u \in Threads,
         NEW c, NEW d, NEW i, NEW j,
         Owned(t, c, i), Owned(u, d, j), Address(t, c, i) = Address(u, d, j)
  PROVE  t = u /\ c = d /\ i = j
<1>1. t = u /\ WS_INDEX(c) = WS_INDEX(d) /\ i = j
  BY DEF Address
<1>2. QED
  BY <1>1, OneCounterPerSlot DEF Owned

\* An object is locked by one entry.
LEMMA OneEntryPerObject ==
  ASSUME TypeOK, RingInv, LockInv, NEW t \in Threads, NEW u \in Threads,
         NEW c, NEW d, NEW i, NEW j,
         Owned(t, c, i), Owned(u, d, j), EntryAt(t, c, i).obj = EntryAt(u, d, j).obj
  PROVE  t = u /\ c = d /\ i = j
<1>1. Address(t, c, i) = Address(u, d, j)
  BY OwnedTypes DEF LockInv, OwnedAreLocked
<1>2. QED
  BY <1>1, OneEntryPerAddress

\* LockInv is stronger than the property.
LEMMA LockInvImpliesLocksMatchLogs == TypeOK /\ LockInv => LocksMatchLogs
<1> SUFFICES ASSUME TypeOK, LockInv PROVE LocksMatchLogs
  OBVIOUS
<1>1. ASSUME NEW o \in Objects, lock[o] # NULL PROVE Names(o, lock[o])
  <2>1. PICK t \in Threads, c \in Nat, i \in Nat :
          Owned(t, c, i) /\ EntryAt(t, c, i).obj = o /\ lock[o] = Address(t, c, i)
    BY <1>1 DEF LockInv, HeadersNameOwned
  <2>2. lock[o].thread = t /\ lock[o].ws = WS_INDEX(c) /\ lock[o].idx = i
    BY <2>1 DEF Address
  <2>3. QED
    BY <2>1, <2>2 DEF Owned, EntryAt, Names, LogEntry
<1>2. ASSUME NEW t \in Threads, NEW c \in ws_wb_counter[t] .. ws_tail_counter[t],
             NEW i \in DOMAIN write_set[t][WS_INDEX(c)], OwnedEntry(t, c, i)
      PROVE  lock[write_set[t][WS_INDEX(c)][i].obj] =
               [thread |-> t, ws |-> WS_INDEX(c), idx |-> i]
  <2>1. Owned(t, c, i)
    BY <1>2 DEF Owned
  <2>2. QED
    BY <2>1, OwnedTypes DEF LockInv, OwnedAreLocked, EntryAt, Address
<1>3. QED
  BY <1>1, <1>2 DEF LocksMatchLogs

\* All logs are empty and nothing is locked.
LEMMA InitLockInv == Init => LockInv
<1> SUFFICES ASSUME Init PROVE LockInv
  OBVIOUS
<1>1. HeadersNameOwned
  BY DEF Init, HeadersNameOwned
<1>2. WritebackLoop
  BY DEF Init, WritebackLoop
<1>3. ASSUME NEW t \in Threads, NEW c \in Nat, NEW i \in Nat PROVE ~Owned(t, c, i)
  BY IndexInRing DEF Init, Owned
<1>4. QED
  BY <1>1, <1>2, <1>3 DEF LockInv, OwnedAreLocked

(***************************************************************************)
(* Three kinds of steps.                                                   *)
(***************************************************************************)

\* A step that unlocks the objects of R, where the entries for R are those that
\* are no longer owned.  With R = {} it locks and unlocks nothing.
LEMMA ReleaseLocks ==
  ASSUME TypeOK, LockInv, NEW R, WritebackLoop',
         lock' = [o \in Objects |-> IF o \in R THEN NULL ELSE lock[o]],
         \A t \in Threads, c \in Nat, i \in Nat :
           /\ Owned(t, c, i)' => Owned(t, c, i) /\ EntryAt(t, c, i).obj \notin R
           /\ Owned(t, c, i) /\ EntryAt(t, c, i).obj \notin R =>
                Owned(t, c, i)' /\ EntryAt(t, c, i)' = EntryAt(t, c, i)
  PROVE  LockInv'
<1>1. HeadersNameOwned'
  <2>1. SUFFICES ASSUME NEW o \in Objects, lock'[o] # NULL
                 PROVE  \E t \in Threads, c \in Nat, i \in Nat :
                          /\ Owned(t, c, i)' /\ EntryAt(t, c, i)'.obj = o
                          /\ lock'[o] = Address(t, c, i)'
    BY DEF HeadersNameOwned
  <2>2. o \notin R /\ lock'[o] = lock[o]
    BY <2>1
  <2>3. PICK t \in Threads, c \in Nat, i \in Nat :
          Owned(t, c, i) /\ EntryAt(t, c, i).obj = o /\ lock[o] = Address(t, c, i)
    BY <2>1, <2>2 DEF LockInv, HeadersNameOwned
  <2>4. Address(t, c, i)' = Address(t, c, i)
    BY DEF Address
  <2>5. Owned(t, c, i)' /\ EntryAt(t, c, i)' = EntryAt(t, c, i)
    BY <2>2, <2>3
  <2>6. QED
    BY <2>2, <2>3, <2>4, <2>5
<1>2. OwnedAreLocked'
  <2>1. SUFFICES ASSUME NEW t \in Threads, NEW c \in Nat, NEW i \in Nat, Owned(t, c, i)'
                 PROVE  lock'[EntryAt(t, c, i)'.obj] = Address(t, c, i)'
    BY DEF OwnedAreLocked
  <2>2. Owned(t, c, i) /\ EntryAt(t, c, i).obj \notin R /\ EntryAt(t, c, i)' = EntryAt(t, c, i)
    BY <2>1
  <2>3. EntryAt(t, c, i).obj \in Objects
    BY <2>2, OwnedTypes DEF Entry
  <2>4. lock[EntryAt(t, c, i).obj] = Address(t, c, i) /\ Address(t, c, i)' = Address(t, c, i)
    BY <2>2 DEF LockInv, OwnedAreLocked, Address
  <2>5. QED
    BY <2>2, <2>3, <2>4
<1>3. QED
  BY <1>1, <1>2 DEF LockInv

\* A step that neither locks nor unlocks, and changes neither what the logs own
\* nor what their entries say.
LEMMA KeepLocks ==
  ASSUME TypeOK, LockInv, WritebackLoop', UNCHANGED lock,
         \A t \in Threads, c \in Nat, i \in Nat :
           /\ Owned(t, c, i)' <=> Owned(t, c, i)
           /\ Owned(t, c, i) => EntryAt(t, c, i)' = EntryAt(t, c, i)
  PROVE  LockInv'
<1> DEFINE R == {}
<1>1. lock' = [o \in Objects |-> IF o \in R THEN NULL ELSE lock[o]]
  BY Types
<1>2. \A t \in Threads, c \in Nat, i \in Nat :
        /\ Owned(t, c, i)' => Owned(t, c, i) /\ EntryAt(t, c, i).obj \notin R
        /\ Owned(t, c, i) /\ EntryAt(t, c, i).obj \notin R =>
             Owned(t, c, i)' /\ EntryAt(t, c, i)' = EntryAt(t, c, i)
  OBVIOUS
<1> HIDE DEF R
<1>3. QED
  BY <1>1, <1>2, ReleaseLocks

\* A step that leaves logs and the write-back loop alone changes no entry.
LEMMA SameEntries ==
  ASSUME UNCHANGED <<ws_wb_counter, ws_tail_counter, write_set, is_write_detected>>,
         \A u \in Threads : /\ pc'[u] = "writeback" <=> pc[u] = "writeback"
                            /\ pc[u] = "writeback" =>
                                 ws_counter'[u] = ws_counter[u] /\ iter'[u] = iter[u]
  PROVE  /\ \A t \in Threads, c \in Nat, i \in Nat :
              /\ Owned(t, c, i)' <=> Owned(t, c, i)
              /\ EntryAt(t, c, i)' = EntryAt(t, c, i)
         /\ WritebackLoop => WritebackLoop'
<1>1. ASSUME NEW t \in Threads, NEW c \in Nat, NEW i \in Nat
      PROVE  (Owned(t, c, i)' <=> Owned(t, c, i)) /\ EntryAt(t, c, i)' = EntryAt(t, c, i)
  BY DEF Owned, OwnedEntry, EntryAt
<1>2. WritebackLoop => WritebackLoop'
  BY DEF WritebackLoop
<1>3. QED
  BY <1>1, <1>2

LEMMA FrameLocks ==
  ASSUME TypeOK, LockInv,
         UNCHANGED <<lock, ws_wb_counter, ws_tail_counter, write_set, is_write_detected>>,
         \A u \in Threads : /\ pc'[u] = "writeback" <=> pc[u] = "writeback"
                            /\ pc[u] = "writeback" =>
                                 ws_counter'[u] = ws_counter[u] /\ iter'[u] = iter[u]
  PROVE  LockInv'
<1>1. WritebackLoop
  BY DEF LockInv
<1>2. QED
  BY <1>1, SameEntries, KeepLocks

\* rlu_try_lock of a section's first object: its log is empty.
LEMMA TryLockFreeEntries ==
  ASSUME TypeOK, RingInv, NEW t \in Threads, NEW o \in Objects, TryLockFree(t, o)
  PROVE  /\ \A u \in Threads, c \in Nat, i \in Nat :
              /\ Owned(u, c, i)' <=> Owned(u, c, i)
              /\ EntryAt(u, c, i)' = EntryAt(u, c, i)
         /\ WritebackLoop => WritebackLoop'
<1>0. /\ UNCHANGED <<lock, ws_wb_counter, ws_tail_counter, write_set, ws_counter, iter>>
      /\ pc[t] = "section" /\ pc' = [pc EXCEPT ![t] = "cas"]
      /\ is_write_detected' = [is_write_detected EXCEPT ![t] = TRUE]
  BY DEF TryLockFree, Goto, memory, logs, loops
<1>1. \A u \in Threads : (pc'[u] = "writeback" <=> pc[u] = "writeback")
  BY <1>0, Types
<1>2. WritebackLoop => WritebackLoop'
  BY <1>0, <1>1 DEF WritebackLoop
<1>3. ASSUME NEW u \in Threads, NEW c \in Nat, NEW i \in Nat
      PROVE  (Owned(u, c, i)' <=> Owned(u, c, i)) /\ EntryAt(u, c, i)' = EntryAt(u, c, i)
  <2>1. EntryAt(u, c, i)' = EntryAt(u, c, i)
    BY <1>0 DEF EntryAt
  <2>2. CASE u # t \/ is_write_detected[t]
    <3>1. is_write_detected'[u] = is_write_detected[u]
      BY <1>0, <2>2, Types
    <3>2. QED
      BY <1>0, <1>1, <2>1, <3>1 DEF Owned, OwnedEntry
  <2>3. CASE u = t /\ ~is_write_detected[t]
    <3>1. write_set[t][CurrentSlot(t)] = <<>>
      BY <1>0, <2>3, RingInvImpliesFreshLog DEF FreshLog, SyncLocs
    <3>2. ASSUME c = ws_tail_counter[t] PROVE ~Owned(t, c, i) /\ ~Owned(t, c, i)'
      BY <1>0, <3>1, <3>2 DEF Owned, CurrentSlot
    <3>3. ASSUME c # ws_tail_counter[t] PROVE Owned(t, c, i)' <=> Owned(t, c, i)
      <4>1. c \in ws_wb_counter[t] .. ws_tail_counter[t] => c < ws_tail_counter[t]
        BY <3>3, Types
      <4>2. QED
        BY <1>0, <1>1, <4>1 DEF Owned, OwnedEntry
    <3>4. QED
      BY <2>1, <2>3, <3>2, <3>3
  <2>4. QED
    BY <2>2, <2>3
<1>4. QED
  BY <1>2, <1>3

\* The end of a section that wrote: its log keeps its entries as a committed one.
LEMMA UnlockWriterEntries ==
  ASSUME TypeOK, RingInv, NEW t \in Threads, UnlockWriter(t)
  PROVE  /\ \A u \in Threads, c \in Nat, i \in Nat :
              /\ Owned(u, c, i)' <=> Owned(u, c, i)
              /\ EntryAt(u, c, i)' = EntryAt(u, c, i)
         /\ WritebackLoop => WritebackLoop'
<1>0. /\ UNCHANGED <<lock, ws_wb_counter, write_set, ws_counter, iter>>
      /\ pc[t] = "section" /\ is_write_detected[t]
      /\ ws_tail_counter' = [ws_tail_counter EXCEPT ![t] = @ + 1]
      /\ is_write_detected' = [is_write_detected EXCEPT ![t] = FALSE]
  BY DEF UnlockWriter, Unregister, memory, loops
<1>1. \A u \in Threads : /\ pc'[u] = "writeback" <=> pc[u] = "writeback"
                         /\ u # t => pc'[u] = pc[u]
  BY <1>0, Types DEF UnlockWriter, Goto
<1>2. WritebackLoop => WritebackLoop'
  BY <1>0, <1>1 DEF WritebackLoop
<1>3. ASSUME NEW u \in Threads, NEW c \in Nat, NEW i \in Nat
      PROVE  (Owned(u, c, i)' <=> Owned(u, c, i)) /\ EntryAt(u, c, i)' = EntryAt(u, c, i)
  <2>1. EntryAt(u, c, i)' = EntryAt(u, c, i)
    BY <1>0 DEF EntryAt
  <2>2. CASE u # t
    <3>1. is_write_detected'[u] = is_write_detected[u] /\ ws_tail_counter'[u] = ws_tail_counter[u]
      BY <1>0, <2>2, Types
    <3>2. QED
      BY <1>0, <1>1, <2>1, <3>1 DEF Owned, OwnedEntry
  <2>3. CASE u = t
    <3>1. /\ ws_tail_counter'[t] = ws_tail_counter[t] + 1
          /\ ~is_write_detected'[t] /\ pc[t] # "writeback" /\ pc'[t] # "writeback"
          /\ ws_wb_counter[t] \in Nat /\ ws_tail_counter[t] \in Nat
      BY <1>0, <1>1, Types
    <3>2. OwnedEntry(t, c, i)' <=> c <= ws_tail_counter[t]
      BY <3>1 DEF OwnedEntry
    <3>3. OwnedEntry(t, c, i)
      BY <1>0, <3>1 DEF OwnedEntry
    <3>4. QED
      BY <1>0, <2>1, <2>3, <3>1, <3>2, <3>3 DEF Owned
  <2>4. QED
    BY <2>2, <2>3
<1>4. QED
  BY <1>2, <1>3

\* rlu_reset_write_set empties only write sets that are written back.
LEMMA ResetKeepsCommitted ==
  ASSUME TypeOK, RingInv, NEW t \in Threads, ResetWriteSets(t),
         NEW c \in ws_wb_counter[t] .. ws_tail_counter[t] - 1
  PROVE  write_set'[t][WS_INDEX(c)] = write_set[t][WS_INDEX(c)]
<1>1. ws_wb_counter[t] \in Nat /\ ws_tail_counter[t] \in Nat /\ ws_head_counter[t] \in Nat
  BY Types
<1>2. write_set' = [write_set EXCEPT ![t] = [s \in Slots |->
        IF \E d \in ReusableSets(t) : s = WS_INDEX(d) THEN <<>> ELSE @[s]]]
  BY DEF ResetWriteSets
<1>3. ASSUME NEW d \in ReusableSets(t) PROVE WS_INDEX(d) # WS_INDEX(c)
  <2>1. d \in Nat /\ c \in Nat /\ d < c
    BY <1>1 DEF ReusableSets
  <2>2. c - d < RingSize
    <3>1. /\ ws_wb_counter[t] - ws_head_counter[t] <= MaxWriteSets
          /\ ws_tail_counter[t] - ws_wb_counter[t] <= MaxWriteSets
      BY DEF RingInv, RingCounters
    <3>2. d >= ws_head_counter[t] /\ c < ws_tail_counter[t]
      BY <1>1 DEF ReusableSets
    <3>3. QED
      BY <1>1, <2>1, <3>1, <3>2, RingAssumption
  <2>3. QED
    BY <2>1, <2>2, DifferentSlots
<1>4. WS_INDEX(c) \in Slots
  BY <1>1, IndexInRing
<1>5. QED
  BY <1>2, <1>3, <1>4, Types

\* It changes no entry that is owned.
LEMMA ResetEntries ==
  ASSUME TypeOK, RingInv, NEW t \in Threads, ResetWriteSets(t)
  PROVE  /\ \A u \in Threads, c \in Nat, i \in Nat :
              /\ Owned(u, c, i)' <=> Owned(u, c, i)
              /\ Owned(u, c, i) => EntryAt(u, c, i)' = EntryAt(u, c, i)
         /\ WritebackLoop => WritebackLoop'
<1>0. /\ UNCHANGED <<lock, ws_wb_counter, ws_tail_counter, is_write_detected>>
      /\ pc[t] = "reset_logs" /\ pc' = [pc EXCEPT ![t] = "writeback"]
      /\ ws_counter' = [ws_counter EXCEPT ![t] = ws_wb_counter[t]]
      /\ iter' = [iter EXCEPT ![t] = 1]
      /\ write_set' = [write_set EXCEPT ![t] = [s \in Slots |->
           IF \E c \in ReusableSets(t) : s = WS_INDEX(c) THEN <<>> ELSE @[s]]]
  BY DEF ResetWriteSets, Goto, memory, flags
<1>1. \A u \in Threads : u # t =>
        /\ pc'[u] = pc[u] /\ ws_counter'[u] = ws_counter[u] /\ iter'[u] = iter[u]
        /\ write_set'[u] = write_set[u]
  BY <1>0, Types
<1>2. /\ pc'[t] = "writeback" /\ ws_counter'[t] = ws_wb_counter[t] /\ iter'[t] = 1
      /\ ws_wb_counter[t] \in Nat /\ ws_tail_counter[t] \in Nat /\ ws_head_counter[t] \in Nat
  BY <1>0, Types
<1>3. WritebackLoop => WritebackLoop'
  BY <1>0, <1>1, <1>2 DEF WritebackLoop
<1>4. ~is_write_detected[t]
  BY <1>0 DEF RingInv, OpenLog, SectionLocs
<1>5. ASSUME NEW c \in ws_wb_counter[t] .. ws_tail_counter[t] - 1
      PROVE  write_set'[t][WS_INDEX(c)] = write_set[t][WS_INDEX(c)]
  BY ResetKeepsCommitted
<1>6. ASSUME NEW u \in Threads, NEW c \in Nat, NEW i \in Nat
      PROVE  /\ Owned(u, c, i)' <=> Owned(u, c, i)
             /\ Owned(u, c, i) => EntryAt(u, c, i)' = EntryAt(u, c, i)
  <2>1. CASE u # t
    BY <1>0, <1>1, <2>1 DEF Owned, OwnedEntry, EntryAt
  <2>2. CASE u = t
    <3>1. ASSUME ~(c \in ws_wb_counter[t] .. ws_tail_counter[t] - 1)
          PROVE  ~Owned(t, c, i) /\ ~Owned(t, c, i)'
      BY <1>0, <1>2, <1>4, <3>1 DEF Owned, OwnedEntry
    <3>2. ASSUME c \in ws_wb_counter[t] .. ws_tail_counter[t] - 1
          PROVE  /\ Owned(t, c, i)' <=> Owned(t, c, i)
                 /\ EntryAt(t, c, i)' = EntryAt(t, c, i)
      <4>1. write_set'[t][WS_INDEX(c)] = write_set[t][WS_INDEX(c)]
        BY <1>5, <3>2
      <4>2. i \in DOMAIN write_set[t][WS_INDEX(c)] => i >= 1
        <5>1. write_set[t][WS_INDEX(c)] \in Seq(Entry)
          BY Types, IndexInRing
        <5>2. QED
          BY <5>1
      <4>3. c < ws_tail_counter[t] /\ c >= ws_wb_counter[t]
        BY <1>2, <3>2
      <4>4. QED
        BY <1>0, <1>2, <4>1, <4>2, <4>3 DEF Owned, OwnedEntry, EntryAt
    <3>3. QED
      BY <2>2, <3>1, <3>2
  <2>3. QED
    BY <2>1, <2>2
<1>7. QED
  BY <1>3, <1>6

\* The end of the write-back: it left no entry.
LEMMA WritebackDoneEntries ==
  ASSUME TypeOK, RingInv, NEW t \in Threads, WritebackDone(t)
  PROVE  /\ \A u \in Threads, c \in Nat, i \in Nat :
              /\ Owned(u, c, i)' <=> Owned(u, c, i)
              /\ EntryAt(u, c, i)' = EntryAt(u, c, i)
         /\ WritebackLoop => WritebackLoop'
<1>0. /\ UNCHANGED <<lock, ws_tail_counter, write_set, is_write_detected>>
      /\ pc[t] = "writeback" /\ pc' = [pc EXCEPT ![t] = "commit"]
      /\ ws_counter[t] = ws_tail_counter[t]
      /\ ws_wb_counter' = [ws_wb_counter EXCEPT ![t] = ws_tail_counter[t]]
      /\ ws_counter' = [ws_counter EXCEPT ![t] = 0] /\ iter' = [iter EXCEPT ![t] = 0]
  BY DEF WritebackDone, Goto, memory, flags
<1>1. \A u \in Threads : u # t =>
        /\ pc'[u] = pc[u] /\ ws_counter'[u] = ws_counter[u] /\ iter'[u] = iter[u]
        /\ ws_wb_counter'[u] = ws_wb_counter[u]
  BY <1>0, Types
<1>2. /\ pc'[t] = "commit" /\ ws_wb_counter'[t] = ws_tail_counter[t]
      /\ ws_wb_counter[t] \in Nat /\ ws_tail_counter[t] \in Nat
  BY <1>0, Types
<1>3. WritebackLoop => WritebackLoop'
  BY <1>0, <1>1, <1>2 DEF WritebackLoop
<1>4. ~is_write_detected[t]
  BY <1>0 DEF RingInv, OpenLog, SectionLocs
<1>5. ASSUME NEW c \in Nat, NEW i \in Nat PROVE ~Owned(t, c, i) /\ ~Owned(t, c, i)'
  BY <1>0, <1>2, <1>4 DEF Owned, OwnedEntry
<1>6. ASSUME NEW u \in Threads, NEW c \in Nat, NEW i \in Nat
      PROVE  (Owned(u, c, i)' <=> Owned(u, c, i)) /\ EntryAt(u, c, i)' = EntryAt(u, c, i)
  <2>1. EntryAt(u, c, i)' = EntryAt(u, c, i)
    BY <1>0 DEF EntryAt
  <2>2. CASE u # t
    BY <1>0, <1>1, <2>1, <2>2 DEF Owned, OwnedEntry
  <2>3. QED
    BY <1>5, <2>1, <2>2
<1>7. QED
  BY <1>3, <1>6

\* The write-back of one object takes the entry that locked it.
LEMMA WritebackEntries ==
  ASSUME TypeOK, RingInv, LockInv, NEW t \in Threads, WritebackObject(t)
  PROVE  /\ Owned(t, ws_counter[t], iter[t])
         /\ WritebackLog(t)[iter[t]] = EntryAt(t, ws_counter[t], iter[t])
         /\ \A u \in Threads, c \in Nat, i \in Nat :
              /\ EntryAt(u, c, i)' = EntryAt(u, c, i)
              /\ Owned(u, c, i)' <=>
                   Owned(u, c, i) /\ ~(u = t /\ c = ws_counter[t] /\ i = iter[t])
         /\ WritebackLoop'
<1> DEFINE log == WritebackLog(t)
           last == iter[t] = Len(log)
<1>0. /\ UNCHANGED <<ws_wb_counter, ws_tail_counter, write_set, is_write_detected, pc>>
      /\ pc[t] = "writeback" /\ ws_counter[t] < ws_tail_counter[t] /\ iter[t] \in DOMAIN log
      /\ iter' = [iter EXCEPT ![t] = IF last THEN 1 ELSE @ + 1]
      /\ ws_counter' = [ws_counter EXCEPT ![t] = IF last THEN @ + 1 ELSE @]
  BY DEF WritebackObject, logs, flags
<1>1. /\ ws_wb_counter[t] \in Nat /\ ws_tail_counter[t] \in Nat /\ ws_counter[t] \in Nat
      /\ iter[t] \in Nat /\ ws_wb_counter[t] <= ws_counter[t] /\ ~is_write_detected[t]
  BY <1>0, Types DEF LockInv, WritebackLoop, RingInv, OpenLog, SectionLocs
<1>2. /\ iter'[t] = (IF last THEN 1 ELSE iter[t] + 1)
      /\ ws_counter'[t] = (IF last THEN ws_counter[t] + 1 ELSE ws_counter[t])
      /\ \A u \in Threads : u # t => ws_counter'[u] = ws_counter[u] /\ iter'[u] = iter[u]
  BY <1>0, Types
<1>3. log \in Seq(Entry) /\ log = write_set[t][WS_INDEX(ws_counter[t])]
  BY <1>1, Types, IndexInRing DEF WritebackLog
<1>4. iter[t] \in 1 .. Len(log) /\ Len(log) \in Nat
  BY <1>0, <1>3
<1>5. Owned(t, ws_counter[t], iter[t]) /\ log[iter[t]] = EntryAt(t, ws_counter[t], iter[t])
  BY <1>0, <1>1, <1>3 DEF Owned, OwnedEntry, EntryAt
<1>6. WritebackLoop'
  BY <1>0, <1>1, <1>2 DEF LockInv, WritebackLoop
<1>7. ASSUME NEW u \in Threads, NEW c \in Nat, NEW i \in Nat
      PROVE  /\ EntryAt(u, c, i)' = EntryAt(u, c, i)
             /\ Owned(u, c, i)' <=>
                  Owned(u, c, i) /\ ~(u = t /\ c = ws_counter[t] /\ i = iter[t])
  <2>1. EntryAt(u, c, i)' = EntryAt(u, c, i)
    BY <1>0 DEF EntryAt
  <2>2. CASE u # t
    BY <1>0, <1>2, <2>1, <2>2 DEF Owned, OwnedEntry
  <2>3. CASE u = t /\ c # ws_counter[t]
    <3>1. i \in DOMAIN write_set[t][WS_INDEX(c)] => i >= 1
      <4>1. write_set[t][WS_INDEX(c)] \in Seq(Entry)
        BY Types, IndexInRing
      <4>2. QED
        BY <4>1
    <3>2. QED
      BY <1>0, <1>1, <1>2, <2>1, <2>3, <3>1 DEF Owned, OwnedEntry
  <2>4. CASE u = t /\ c = ws_counter[t]
    <3>1. i \in DOMAIN write_set[t][WS_INDEX(c)] <=> i \in 1 .. Len(log)
      BY <1>3, <2>4
    <3>2. Owned(t, c, i) <=> i \in 1 .. Len(log) /\ i >= iter[t]
      BY <1>0, <1>1, <2>4, <3>1 DEF Owned, OwnedEntry
    <3>3. Owned(t, c, i)' <=> i \in 1 .. Len(log) /\ ~last /\ i >= iter[t] + 1
      BY <1>0, <1>1, <1>2, <2>4, <3>1 DEF Owned, OwnedEntry
    <3>4. QED
      BY <1>1, <1>4, <2>1, <2>4, <3>2, <3>3
  <2>5. QED
    BY <2>2, <2>3, <2>4
<1>8. QED
  BY <1>5, <1>6, <1>7

\* An object of the open log is one that an owned entry at the tail has locked.
LEMMA LogObjectsOwned ==
  ASSUME TypeOK, RingInv, LockInv, NEW t \in Threads, is_write_detected[t],
         NEW u \in Threads, NEW c \in Nat, NEW i \in Nat, Owned(u, c, i)
  PROVE  EntryAt(u, c, i).obj \in LogObjects(t) <=> u = t /\ c = ws_tail_counter[t]
<1>0. /\ ws_tail_counter[t] \in Nat /\ ws_wb_counter[t] \in Nat
      /\ ws_wb_counter[t] <= ws_tail_counter[t] /\ pc[t] # "writeback"
  BY Types DEF RingInv, RingCounters, OpenLog, SectionLocs
<1>1. ASSUME EntryAt(u, c, i).obj \in LogObjects(t)
      PROVE  u = t /\ c = ws_tail_counter[t]
  <2>1. PICK j \in DOMAIN write_set[t][CurrentSlot(t)] :
          write_set[t][CurrentSlot(t)][j].obj = EntryAt(u, c, i).obj
    BY <1>1 DEF LogObjects
  <2>2. Owned(t, ws_tail_counter[t], j) /\ EntryAt(t, ws_tail_counter[t], j).obj = EntryAt(u, c, i).obj
    BY <1>0, <2>1 DEF Owned, OwnedEntry, CurrentSlot, EntryAt
  <2>3. QED
    BY <2>2, OneEntryPerObject
<1>2. ASSUME u = t, c = ws_tail_counter[t]
      PROVE  EntryAt(u, c, i).obj \in LogObjects(t)
  BY <1>2 DEF LogObjects, Owned, EntryAt, CurrentSlot
<1>3. QED
  BY <1>1, <1>2

\* rlu_abort of a section that wrote: the open log's entries go.
LEMMA AbortEntries ==
  ASSUME TypeOK, RingInv, LockInv, NEW t \in Threads, rlu_abort(t), is_write_detected[t]
  PROVE  /\ \A u \in Threads, c \in Nat, i \in Nat :
              /\ Owned(u, c, i)' => Owned(u, c, i) /\ EntryAt(u, c, i).obj \notin LogObjects(t)
              /\ Owned(u, c, i) /\ EntryAt(u, c, i).obj \notin LogObjects(t) =>
                   Owned(u, c, i)' /\ EntryAt(u, c, i)' = EntryAt(u, c, i)
         /\ WritebackLoop'
<1>0. /\ UNCHANGED <<ws_wb_counter, ws_tail_counter, ws_counter, iter>>
      /\ pc[t] \in {"section", "failed"} /\ pc' = [pc EXCEPT ![t] = "checkpoint"]
      /\ is_write_detected' = [is_write_detected EXCEPT ![t] = FALSE]
      /\ write_set' = [write_set EXCEPT ![t][CurrentSlot(t)] = <<>>]
  BY DEF rlu_abort, Unregister, DiscardLog, Goto, loops
<1>1. \A u \in Threads : /\ pc'[u] = "writeback" <=> pc[u] = "writeback"
                         /\ u # t => /\ is_write_detected'[u] = is_write_detected[u]
                                     /\ write_set'[u] = write_set[u]
  BY <1>0, Types
<1>2. WritebackLoop'
  BY <1>0, <1>1 DEF LockInv, WritebackLoop
<1>3. ws_tail_counter[t] \in Nat /\ CurrentSlot(t) \in Slots
  BY Types, IndexInRing DEF CurrentSlot
<1>4. \A s \in Slots : write_set'[t][s] = IF s = CurrentSlot(t) THEN <<>> ELSE write_set[t][s]
  BY <1>0, <1>3, Types
<1>5. ASSUME NEW u \in Threads, NEW c \in Nat, NEW i \in Nat
      PROVE  IF u = t /\ c = ws_tail_counter[t] THEN ~Owned(u, c, i)'
             ELSE /\ Owned(u, c, i)' <=> Owned(u, c, i)
                  /\ Owned(u, c, i) => EntryAt(u, c, i)' = EntryAt(u, c, i)
  <2>1. CASE u # t
    BY <1>0, <1>1, <2>1 DEF Owned, OwnedEntry, EntryAt
  <2>2. CASE u = t /\ c = ws_tail_counter[t]
    BY <1>0, <1>3, <1>4, <2>2 DEF Owned, CurrentSlot
  <2>3. CASE u = t /\ c # ws_tail_counter[t]
    <3>1. CASE c \in ws_wb_counter[t] .. ws_tail_counter[t]
      <4>1. c < ws_tail_counter[t] /\ ws_tail_counter[t] \in ws_wb_counter[t] .. ws_tail_counter[t]
        BY <1>3, <2>3, <3>1, Types
      <4>2. WS_INDEX(c) # CurrentSlot(t)
        BY <2>3, <3>1, <4>1, OneCounterPerSlot DEF CurrentSlot
      <4>3. write_set'[t][WS_INDEX(c)] = write_set[t][WS_INDEX(c)]
        BY <1>4, <4>2, IndexInRing
      <4>4. QED
        BY <1>0, <1>1, <2>3, <4>1, <4>3 DEF Owned, OwnedEntry, EntryAt
    <3>2. CASE ~(c \in ws_wb_counter[t] .. ws_tail_counter[t])
      BY <1>0, <2>3, <3>2 DEF Owned
    <3>3. QED
      BY <3>1, <3>2
  <2>4. QED
    BY <2>1, <2>2, <2>3
<1>6. ASSUME NEW u \in Threads, NEW c \in Nat, NEW i \in Nat
      PROVE  /\ Owned(u, c, i)' => Owned(u, c, i) /\ EntryAt(u, c, i).obj \notin LogObjects(t)
             /\ Owned(u, c, i) /\ EntryAt(u, c, i).obj \notin LogObjects(t) =>
                  Owned(u, c, i)' /\ EntryAt(u, c, i)' = EntryAt(u, c, i)
  BY <1>5, LogObjectsOwned
<1>7. QED
  BY <1>2, <1>6

\* What the CAS appends: one entry of t's open log, for an object that was not
\* locked.
LEMMA CasEntries ==
  ASSUME TypeOK, RingInv, LockInv, NEW t \in Threads, CasSucceeds(t),
         NEW o, NEW n, NEW k, o = p_obj[t].obj, n = ws_tail_counter[t],
         k = Len(write_set[t][CurrentSlot(t)]) + 1
  PROVE  /\ o \in Objects /\ lock[o] = NULL /\ n \in Nat /\ k \in Nat \ {0}
         /\ is_write_detected[t] /\ Owned(t, n, k)'
         /\ EntryAt(t, n, k)' =
              [obj |-> o, run_counter |-> run_counter[t], val |-> actual[o] + 1]
         /\ lock' = [lock EXCEPT ![o] = Address(t, n, k)]
         /\ \A u \in Threads, c \in Nat, i \in Nat :
              /\ Owned(u, c, i)' <=> Owned(u, c, i) \/ (u = t /\ c = n /\ i = k)
              /\ Owned(u, c, i) => /\ ~(u = t /\ c = n /\ i = k)
                                   /\ EntryAt(u, c, i)' = EntryAt(u, c, i)
                                   /\ EntryAt(u, c, i).obj # o
         /\ WritebackLoop'
<1> DEFINE log == write_set[t][CurrentSlot(t)]
           e == [obj |-> o, run_counter |-> run_counter[t], val |-> actual[o] + 1]
<1>0. /\ UNCHANGED <<ws_wb_counter, ws_tail_counter, ws_counter, iter, is_write_detected>>
      /\ pc[t] = "cas" /\ pc' = [pc EXCEPT ![t] = "section"]
      /\ lock[o] = NULL /\ lock' = [lock EXCEPT ![o] = NewCopyPtr(t)]
      /\ write_set' = [write_set EXCEPT ![t][CurrentSlot(t)] = Append(@, e)]
  BY DEF CasSucceeds, Goto, loops, flags
<1>1. /\ n \in Nat /\ CurrentSlot(t) \in Slots /\ log \in Seq(Entry)
      /\ ws_wb_counter[t] \in Nat /\ ws_wb_counter[t] <= n
      /\ is_write_detected[t] /\ o \in Objects
  BY <1>0, Types, IndexInRing
     DEF CurrentSlot, RingInv, OpenLog, RingCounters, TypeOK, ControlTypes, Pointers
<1>2. k \in Nat \ {0} /\ Len(log) \in Nat
  BY <1>1
<1>3. \A u \in Threads : /\ pc'[u] = "writeback" <=> pc[u] = "writeback"
                         /\ u # t => write_set'[u] = write_set[u]
  BY <1>0, Types
<1>4. WritebackLoop'
  BY <1>0, <1>3 DEF LockInv, WritebackLoop
<1>5. NewCopyPtr(t) = Address(t, n, k)
  BY DEF NewCopyPtr, Address, CurrentSlot
<1>6. \A s \in Slots : write_set'[t][s] = IF s = CurrentSlot(t) THEN Append(log, e) ELSE write_set[t][s]
  BY <1>0, <1>1, Types
<1>7. /\ DOMAIN Append(log, e) = DOMAIN log \union {k} /\ k \notin DOMAIN log
      /\ Append(log, e)[k] = e
      /\ \A i \in DOMAIN log : Append(log, e)[i] = log[i]
  <2>1. e \in Entry
    BY <1>1, Types DEF Entry
  <2>2. QED
    BY <1>1, <1>2, <2>1
<1>8. pc'[t] # "writeback" /\ pc[t] # "writeback"
  BY <1>0, <1>3
<1>9. Owned(t, n, k)' /\ EntryAt(t, n, k)' = e
  <2>1. /\ WS_INDEX(n) = CurrentSlot(t) /\ n \in ws_wb_counter'[t] .. ws_tail_counter'[t]
        /\ is_write_detected'[t]
    BY <1>0, <1>1 DEF CurrentSlot
  <2>2. write_set'[t][WS_INDEX(n)] = Append(log, e)
    BY <1>1, <1>6, <2>1
  <2>3. k \in DOMAIN write_set'[t][WS_INDEX(n)] /\ write_set'[t][WS_INDEX(n)][k] = e
    BY <1>7, <2>2
  <2>4. OwnedEntry(t, n, k)'
    BY <1>8, <2>1 DEF OwnedEntry
  <2>5. QED
    BY <2>1, <2>3, <2>4 DEF Owned, EntryAt
<1>10. ASSUME NEW u \in Threads, NEW c \in Nat, NEW i \in Nat
       PROVE  /\ Owned(u, c, i)' <=> Owned(u, c, i) \/ (u = t /\ c = n /\ i = k)
              /\ Owned(u, c, i) => /\ ~(u = t /\ c = n /\ i = k)
                                   /\ EntryAt(u, c, i)' = EntryAt(u, c, i)
  <2>1. CASE u # t
    BY <1>0, <1>3, <2>1 DEF Owned, OwnedEntry, EntryAt
  <2>2. CASE u = t /\ c = n
    <3>1. WS_INDEX(c) = CurrentSlot(t) /\ c \in ws_wb_counter[t] .. n
      BY <1>1, <2>2 DEF CurrentSlot
    <3>2. write_set'[t][WS_INDEX(c)] = Append(log, e) /\ write_set[t][WS_INDEX(c)] = log
      BY <1>1, <1>6, <3>1
    <3>3. (Owned(t, c, i) <=> i \in DOMAIN log) /\ (Owned(t, c, i)' <=> i \in DOMAIN Append(log, e))
      BY <1>0, <1>1, <1>8, <2>2, <3>1, <3>2 DEF Owned, OwnedEntry
    <3>4. i \in DOMAIN log => EntryAt(t, c, i)' = EntryAt(t, c, i)
      BY <1>7, <3>2 DEF EntryAt
    <3>5. QED
      BY <1>7, <2>2, <3>3, <3>4
  <2>3. CASE u = t /\ c # n
    <3>1. CASE c \in ws_wb_counter[t] .. n
      <4>1. n \in ws_wb_counter[t] .. n
        BY <1>1
      <4>2. WS_INDEX(c) # CurrentSlot(t)
        BY <2>3, <3>1, <4>1, OneCounterPerSlot DEF CurrentSlot
      <4>3. write_set'[t][WS_INDEX(c)] = write_set[t][WS_INDEX(c)]
        BY <1>6, <4>2, IndexInRing
      <4>4. QED
        BY <1>0, <1>3, <2>3, <4>3 DEF Owned, OwnedEntry, EntryAt
    <3>2. CASE ~(c \in ws_wb_counter[t] .. n)
      BY <1>0, <2>3, <3>2 DEF Owned
    <3>3. QED
      BY <3>1, <3>2
  <2>4. QED
    BY <2>1, <2>2, <2>3
<1>11. ASSUME NEW u \in Threads, NEW c \in Nat, NEW i \in Nat, Owned(u, c, i)
       PROVE  EntryAt(u, c, i).obj # o
  BY <1>0, <1>11, OwnedTypes DEF LockInv, OwnedAreLocked
<1>12. QED
  BY <1>0, <1>1, <1>2, <1>4, <1>5, <1>9, <1>10, <1>11

LEMMA CasLockInv ==
  ASSUME TypeOK, RingInv, LockInv, NEW t \in Threads, CasSucceeds(t)
  PROVE  LockInv'
<1>0. PICK o, n, k : /\ o = p_obj[t].obj /\ n = ws_tail_counter[t]
                     /\ k = Len(write_set[t][CurrentSlot(t)]) + 1
  OBVIOUS
<1>1. /\ o \in Objects /\ lock[o] = NULL /\ n \in Nat /\ k \in Nat \ {0}
      /\ Owned(t, n, k)' /\ EntryAt(t, n, k)'.obj = o
      /\ lock' = [lock EXCEPT ![o] = Address(t, n, k)]
      /\ WritebackLoop'
  BY <1>0, CasEntries
<1>2. \A u \in Threads, c \in Nat, i \in Nat :
        /\ Owned(u, c, i)' <=> Owned(u, c, i) \/ (u = t /\ c = n /\ i = k)
        /\ Owned(u, c, i) => EntryAt(u, c, i)' = EntryAt(u, c, i) /\ EntryAt(u, c, i).obj # o
  BY <1>0, CasEntries
<1>3. \A u, c, i : Address(u, c, i)' = Address(u, c, i)
  BY DEF Address
<1>4. HeadersNameOwned'
  <2>1. SUFFICES ASSUME NEW x \in Objects, lock'[x] # NULL
                 PROVE  \E u \in Threads, c \in Nat, i \in Nat :
                          /\ Owned(u, c, i)' /\ EntryAt(u, c, i)'.obj = x
                          /\ lock'[x] = Address(u, c, i)'
    BY DEF HeadersNameOwned
  <2>2. CASE x = o
    <3>1. lock'[o] = Address(t, n, k)'
      BY <1>1, <1>3, Types
    <3>2. QED
      BY <1>1, <2>2, <3>1
  <2>3. CASE x # o
    <3>1. lock'[x] = lock[x]
      BY <1>1, <2>3, Types
    <3>2. PICK u \in Threads, c \in Nat, i \in Nat :
            Owned(u, c, i) /\ EntryAt(u, c, i).obj = x /\ lock[x] = Address(u, c, i)
      BY <2>1, <3>1 DEF LockInv, HeadersNameOwned
    <3>3. Owned(u, c, i)' /\ EntryAt(u, c, i)'.obj = x /\ lock'[x] = Address(u, c, i)'
      BY <1>2, <1>3, <3>1, <3>2
    <3>4. QED
      BY <3>3
  <2>4. QED
    BY <2>2, <2>3
<1>5. OwnedAreLocked'
  <2>1. SUFFICES ASSUME NEW u \in Threads, NEW c \in Nat, NEW i \in Nat, Owned(u, c, i)'
                 PROVE  lock'[EntryAt(u, c, i)'.obj] = Address(u, c, i)'
    BY DEF OwnedAreLocked
  <2>2. CASE u = t /\ c = n /\ i = k
    BY <1>1, <1>3, <2>2, Types
  <2>3. CASE Owned(u, c, i)
    <3>1. EntryAt(u, c, i)' = EntryAt(u, c, i) /\ EntryAt(u, c, i).obj # o
      BY <1>2, <2>3
    <3>2. EntryAt(u, c, i).obj \in Objects /\ lock[EntryAt(u, c, i).obj] = Address(u, c, i)
      BY <2>3, OwnedTypes DEF Entry, LockInv, OwnedAreLocked
    <3>3. lock'[EntryAt(u, c, i).obj] = lock[EntryAt(u, c, i).obj]
      BY <1>1, <3>1, <3>2, Types
    <3>4. QED
      BY <1>3, <3>1, <3>2, <3>3
  <2>4. QED
    BY <1>2, <2>1, <2>2, <2>3
<1>6. QED
  BY <1>1, <1>4, <1>5 DEF LockInv

\* Every step keeps headers and logs in agreement.  Most leave both alone.
LEMMA StepLockInv == TypeOK /\ RingInv /\ LockInv /\ [Next]_vars => LockInv'
<1> SUFFICES ASSUME TypeOK, RingInv, LockInv, [Next]_vars PROVE LockInv'
  OBVIOUS
<1>0. /\ pc \in [Threads -> Locs] /\ ret \in [Threads -> ReturnLocs]
      /\ ws_counter \in [Threads -> Nat] /\ iter \in [Threads -> Nat]
      /\ is_write_detected \in [Threads -> BOOLEAN]
      /\ lock \in [Objects -> LogPtrs \union {NULL}]
      /\ WritebackLoop
  BY Types DEF TypeOK, ControlTypes, LockInv
<1>1. ASSUME NEW t \in Threads, EnterSection(t) PROVE LockInv'
  <2>1. CASE rlu_reader_lock(t)
    BY <1>0, <2>1, FrameLocks
       DEF rlu_reader_lock, rlu_sync_checkpoint, StartSync, Goto, memory, flags, logs, loops
  <2>2. CASE RegisterThread(t)
    BY <1>0, <2>2, FrameLocks DEF RegisterThread, Goto, memory, flags, logs, loops
  <2>3. CASE ReadWriterVersion(t)
    BY <1>0, <2>3, FrameLocks DEF ReadWriterVersion, Goto, memory, flags, logs, loops
  <2>4. CASE ReadCommitVersion(t)
    BY <1>0, <2>4, FrameLocks DEF ReadCommitVersion, Goto, memory, flags, logs, loops
  <2>5. QED
    BY <1>1, <2>1, <2>2, <2>3, <2>4 DEF EnterSection
<1>2. ASSUME NEW t \in Threads, NEW o \in Objects, Deref(t, o) PROVE LockInv'
  BY <1>0, <1>2, FrameLocks
     DEF Deref, DerefActual, DerefOwnCopy, DerefLocked, Goto, memory, flags, logs, loops
<1>3. ASSUME NEW t \in Threads, NEW o \in Objects, TryLock(t, o) PROVE LockInv'
  <2>1. CASE TryLockOwn(t, o)
    BY <1>0, <2>1, FrameLocks DEF TryLockOwn, Goto, memory, flags, logs, loops
  <2>2. CASE TryLockBusy(t, o)
    BY <1>0, <2>2, FrameLocks DEF TryLockBusy, Goto, memory, flags, logs, loops
  <2>3. CASE TryLockFree(t, o)
    <3>1. UNCHANGED lock
      BY <2>3 DEF TryLockFree, memory
    <3>2. QED
      BY <1>0, <2>3, <3>1, TryLockFreeEntries, KeepLocks
  <2>4. QED
    BY <1>3, <2>1, <2>2, <2>3 DEF TryLock
<1>4. ASSUME NEW t \in Threads, DerefSteal(t) PROVE LockInv'
  BY <1>0, <1>4, FrameLocks DEF DerefSteal, Goto, memory, flags, logs, loops
<1>5. ASSUME NEW t \in Threads, CasSucceeds(t) PROVE LockInv'
  BY <1>5, CasLockInv
<1>6. ASSUME NEW t \in Threads, CasFails(t) PROVE LockInv'
  BY <1>0, <1>6, FrameLocks DEF CasFails, Goto, memory, flags, logs, loops
<1>7. ASSUME NEW t \in Threads, UnlockReader(t) PROVE LockInv'
  <2>1. UNCHANGED is_write_detected
    BY <1>0, <1>7 DEF UnlockReader, Unregister
  <2>2. QED
    BY <1>0, <1>7, <2>1, FrameLocks DEF UnlockReader, Goto, memory, logs, loops
<1>8. ASSUME NEW t \in Threads, UnlockWriter(t) PROVE LockInv'
  <2>1. UNCHANGED lock
    BY <1>8 DEF UnlockWriter, memory
  <2>2. QED
    BY <1>0, <1>8, <2>1, UnlockWriterEntries, KeepLocks
<1>9. ASSUME NEW t \in Threads, rlu_abort(t) PROVE LockInv'
  <2>1. CASE is_write_detected[t]
    <3> DEFINE R == LogObjects(t)
    <3>1. PICK S : S = R
      OBVIOUS
    <3>2. lock' = [o \in Objects |-> IF o \in S THEN NULL ELSE lock[o]]
      BY <1>9, <2>1, <3>1 DEF rlu_abort, DiscardLog
    <3>3. /\ WritebackLoop'
          /\ \A u \in Threads, c \in Nat, i \in Nat :
               /\ Owned(u, c, i)' => Owned(u, c, i) /\ EntryAt(u, c, i).obj \notin S
               /\ Owned(u, c, i) /\ EntryAt(u, c, i).obj \notin S =>
                    Owned(u, c, i)' /\ EntryAt(u, c, i)' = EntryAt(u, c, i)
      BY <1>9, <2>1, <3>1, AbortEntries
    <3>4. QED
      BY <3>2, <3>3, ReleaseLocks
  <2>2. CASE ~is_write_detected[t]
    <3>1. UNCHANGED is_write_detected
      BY <1>0, <1>9, <2>2 DEF rlu_abort, Unregister
    <3>2. QED
      BY <1>0, <1>9, <2>2, <3>1, FrameLocks DEF rlu_abort, Goto, loops
  <2>3. QED
    BY <2>1, <2>2
<1>10. ASSUME NEW t \in Threads, Checkpoint(t) PROVE LockInv'
  BY <1>0, <1>10, FrameLocks
     DEF Checkpoint, rlu_sync_checkpoint, StartSync, Goto, memory, flags, logs, loops
<1>11. ASSUME NEW t \in Threads, SyncLoadVersion(t) PROVE LockInv'
  BY <1>0, <1>11, FrameLocks DEF SyncLoadVersion, Goto, memory, flags, logs
<1>12. ASSUME NEW t \in Threads, SyncStoreVersion(t) PROVE LockInv'
  BY <1>0, <1>12, FrameLocks DEF SyncStoreVersion, Goto, memory, flags, logs, loops
<1>13. ASSUME NEW t \in Threads, SyncAdvanceGlobal(t) PROVE LockInv'
  BY <1>0, <1>13, FrameLocks DEF SyncAdvanceGlobal, Goto, memory, flags, logs
<1>14. ASSUME NEW t \in Threads, rlu_init_quiescence(t) PROVE LockInv'
  BY <1>0, <1>14, FrameLocks DEF rlu_init_quiescence, NextOther, Goto, memory, flags, logs
<1>15. ASSUME NEW t \in Threads, rlu_wait_for_quiescence(t) PROVE LockInv'
  BY <1>0, <1>15, FrameLocks DEF rlu_wait_for_quiescence, NextOther, Goto, memory, flags, logs
<1>16. ASSUME NEW t \in Threads, ResetWriteSets(t) PROVE LockInv'
  <2>1. UNCHANGED lock
    BY <1>16 DEF ResetWriteSets, memory
  <2>2. QED
    BY <1>0, <1>16, <2>1, ResetEntries, KeepLocks
<1>17. ASSUME NEW t \in Threads, WritebackObject(t) PROVE LockInv'
  <2>1. PICK R : R = {WritebackLog(t)[iter[t]].obj}
    OBVIOUS
  <2>2. lock' = [o \in Objects |-> IF o \in R THEN NULL ELSE lock[o]]
    BY <1>0, <1>17, <2>1 DEF WritebackObject
  <2>3. /\ Owned(t, ws_counter[t], iter[t])
        /\ R = {EntryAt(t, ws_counter[t], iter[t]).obj}
    BY <1>17, <2>1, WritebackEntries
  <2>4. ASSUME NEW u \in Threads, NEW c \in Nat, NEW i \in Nat
        PROVE  /\ Owned(u, c, i)' => Owned(u, c, i) /\ EntryAt(u, c, i).obj \notin R
               /\ Owned(u, c, i) /\ EntryAt(u, c, i).obj \notin R =>
                    Owned(u, c, i)' /\ EntryAt(u, c, i)' = EntryAt(u, c, i)
    <3>1. Owned(u, c, i) => (EntryAt(u, c, i).obj \in R <=>
                               u = t /\ c = ws_counter[t] /\ i = iter[t])
      BY <2>3, OneEntryPerObject
    <3>2. QED
      BY <1>17, <3>1, WritebackEntries
  <2>5. WritebackLoop'
    BY <1>17, WritebackEntries
  <2>6. QED
    BY <2>2, <2>4, <2>5, ReleaseLocks
<1>18. ASSUME NEW t \in Threads, WritebackDone(t) PROVE LockInv'
  <2>1. UNCHANGED lock
    BY <1>18 DEF WritebackDone, memory
  <2>2. QED
    BY <1>0, <1>18, <2>1, WritebackDoneEntries, KeepLocks
<1>19. ASSUME NEW t \in Threads, SyncCommit(t) PROVE LockInv'
  BY <1>0, <1>19, FrameLocks DEF SyncCommit, Goto, memory, flags, logs, loops, ReturnLocs
<1>20. ASSUME NEW t \in Threads, rlu_thread_finish(t) PROVE LockInv'
  BY <1>0, <1>20, FrameLocks
     DEF rlu_thread_finish, StartSync, AfterFinishSync, Goto, memory, flags, logs, loops
<1>21. CASE UNCHANGED vars
  BY <1>21, FrameLocks DEF vars, memory, flags, logs, loops
<1>22. QED
  BY <1>1, <1>2, <1>3, <1>4, <1>5, <1>6, <1>7, <1>8, <1>9, <1>10, <1>11, <1>12,
     <1>13, <1>14, <1>15, <1>16, <1>17, <1>18, <1>19, <1>20, <1>21
     DEF Next, Terminated, ThreadStep, LeaveSection, Sync

\* Whatever the number of threads, objects and write sets: a locked object's
\* header names its entry in the owner's log, and every entry that is not
\* written back yet has its object locked by it (rlu.c:345, rlu.c:405).
THEOREM HeadersAgreeWithLogs == Spec => []LocksMatchLogs
<1>1. Init => TypeOK /\ RingInv /\ LockInv
  BY InitTypeOK, InitRingInv, InitLockInv
<1>2. TypeOK /\ RingInv /\ LockInv /\ [Next]_vars => (TypeOK /\ RingInv /\ LockInv)'
  BY StepTypeOK, StepRingInv, StepLockInv
<1>3. TypeOK /\ RingInv /\ LockInv => LocksMatchLogs
  BY LockInvImpliesLocksMatchLogs
<1>4. QED
  BY <1>1, <1>2, <1>3, PTL DEF Spec

------------------------------------------------------------------------------
(***************************************************************************)
(* No committed change is lost.  NoLostUpdate speaks of the locked objects *)
(* only through their headers; the invariant says it of every owned entry: *)
(* an object has one, and its contents are one change behind it.  An owned *)
(* entry at the tail belongs to the open section, the others to committed  *)
(* write sets, and the run counters tell the two apart.                    *)
(***************************************************************************)
EntryValue(t, c, i) ==
  LET e == EntryAt(t, c, i) IN
  /\ e.val = actual[e.obj] + 1
  /\ c = ws_tail_counter[t] =>
       commits[e.obj] = actual[e.obj] /\ e.run_counter = run_counter[t]
  /\ c # ws_tail_counter[t] =>
       commits[e.obj] = actual[e.obj] + 1 /\ e.run_counter < run_counter[t]

OwnedValues ==
  \A t \in Threads, c \in Nat, i \in Nat : Owned(t, c, i) => EntryValue(t, c, i)

UnlockedValues == \A o \in Objects : lock[o] = NULL => commits[o] = actual[o]

ValueInv == OwnedValues /\ UnlockedValues

\* The entries at the tail are those of an open section.
LEMMA OpenEntries ==
  ASSUME TypeOK, RingInv, NEW t \in Threads, NEW c \in Nat, NEW i \in Nat, Owned(t, c, i)
  PROVE  /\ c = ws_tail_counter[t] => is_write_detected[t] /\ InSection(t)
         /\ c # ws_tail_counter[t] => c < ws_tail_counter[t]
         /\ InCurrentLog(t, Address(t, c, i)) <=> c = ws_tail_counter[t]
<1>1. c \in ws_wb_counter[t] .. ws_tail_counter[t]
  BY DEF Owned
<1>2. c = ws_tail_counter[t] => is_write_detected[t]
  BY <1>1, Types DEF Owned, OwnedEntry
<1>3. is_write_detected[t] => InSection(t)
  BY DEF RingInv, OpenLog, InSection
<1>4. c # ws_tail_counter[t] => c < ws_tail_counter[t]
  BY <1>1, Types
<1>5. ws_tail_counter[t] \in ws_wb_counter[t] .. ws_tail_counter[t]
  BY <1>1, Types
<1>6. WS_INDEX(c) = CurrentSlot(t) <=> c = ws_tail_counter[t]
  BY <1>1, <1>5, OneCounterPerSlot DEF CurrentSlot
<1>7. QED
  BY <1>2, <1>3, <1>4, <1>6 DEF InCurrentLog, Address

\* What a locked object's header leads to.
LEMMA HeaderEntry ==
  ASSUME TypeOK, LockInv, NEW o \in Objects, lock[o] # NULL
  PROVE  \E t \in Threads, c \in Nat, i \in Nat :
           /\ Owned(t, c, i) /\ EntryAt(t, c, i).obj = o
           /\ lock[o] = Address(t, c, i) /\ lock[o].thread = t
           /\ LogEntry(lock[o]) = EntryAt(t, c, i)
<1>1. PICK t \in Threads, c \in Nat, i \in Nat :
        Owned(t, c, i) /\ EntryAt(t, c, i).obj = o /\ lock[o] = Address(t, c, i)
  BY DEF LockInv, HeadersNameOwned
<1>2. lock[o].thread = t /\ LogEntry(lock[o]) = EntryAt(t, c, i)
  BY <1>1 DEF Address, LogEntry, EntryAt
<1>3. QED
  BY <1>1, <1>2

LEMMA ValueInvImpliesNoLostUpdate ==
  TypeOK /\ RingInv /\ LockInv /\ ValueInv => NoLostUpdate
<1> SUFFICES ASSUME TypeOK, RingInv, LockInv, ValueInv, NEW o \in Objects
             PROVE  Committed(o) = commits[o]
  BY DEF NoLostUpdate
<1>1. CASE lock[o] = NULL
  BY <1>1 DEF ValueInv, UnlockedValues, Committed
<1>2. CASE lock[o] # NULL
  <2>1. PICK t \in Threads, c \in Nat, i \in Nat :
          /\ Owned(t, c, i) /\ EntryAt(t, c, i).obj = o
          /\ lock[o] = Address(t, c, i) /\ lock[o].thread = t
          /\ LogEntry(lock[o]) = EntryAt(t, c, i)
    BY <1>2, HeaderEntry
  <2>2. InCurrentLog(t, lock[o]) <=> c = ws_tail_counter[t]
    BY <2>1, OpenEntries
  <2>3. EntryValue(t, c, i)
    BY <2>1 DEF ValueInv, OwnedValues
  <2>4. actual[o] \in Nat
    BY Types
  <2>5. QED
    BY <1>2, <2>1, <2>2, <2>3, <2>4 DEF EntryValue, Committed
<1>3. QED
  BY <1>1, <1>2

LEMMA ValueInvImpliesRunCounters ==
  TypeOK /\ RingInv /\ LockInv /\ ValueInv => RunCounterTellsSections
<1> SUFFICES ASSUME TypeOK, RingInv, LockInv, ValueInv,
                    NEW t \in Threads, NEW o \in Objects, lock[o] # NULL, lock[o].thread = t
             PROVE  LogEntry(lock[o]).run_counter = run_counter[t] <=>
                      InCurrentLog(t, lock[o])
  BY DEF RunCounterTellsSections
<1>1. PICK u \in Threads, c \in Nat, i \in Nat :
        /\ Owned(u, c, i) /\ EntryAt(u, c, i).obj = o
        /\ lock[o] = Address(u, c, i) /\ lock[o].thread = u
        /\ LogEntry(lock[o]) = EntryAt(u, c, i)
  BY HeaderEntry
<1>2. u = t /\ EntryValue(t, c, i)
  BY <1>1 DEF ValueInv, OwnedValues
<1>3. InCurrentLog(t, lock[o]) <=> c = ws_tail_counter[t]
  BY <1>1, <1>2, OpenEntries
<1>4. EntryAt(t, c, i).run_counter \in Nat /\ run_counter[t] \in Nat
  BY <1>1, <1>2, OwnedTypes, Types DEF Entry
<1>5. QED
  BY <1>1, <1>2, <1>3, <1>4 DEF EntryValue

LEMMA InitValueInv == Init => ValueInv
<1> SUFFICES ASSUME Init PROVE ValueInv
  OBVIOUS
<1>1. UnlockedValues
  BY DEF Init, UnlockedValues
<1>2. ASSUME NEW t \in Threads, NEW c \in Nat, NEW i \in Nat PROVE ~Owned(t, c, i)
  BY IndexInRing DEF Init, Owned
<1>3. QED
  BY <1>1, <1>2 DEF ValueInv, OwnedValues

\* A step that changes no contents and no lock.  It may end or begin sections
\* of threads that own no entry at the tail.
LEMMA KeepValues ==
  ASSUME TypeOK, ValueInv, UNCHANGED <<lock, actual, commits>>,
         \A t \in Threads : run_counter'[t] \in Nat,
         \A t \in Threads, c \in Nat, i \in Nat : Owned(t, c, i)' =>
           /\ Owned(t, c, i) /\ EntryAt(t, c, i)' = EntryAt(t, c, i)
           /\ c = ws_tail_counter'[t] <=> c = ws_tail_counter[t]
           /\ c = ws_tail_counter[t] => run_counter'[t] = run_counter[t]
           /\ run_counter[t] <= run_counter'[t]
  PROVE  ValueInv'
<1>1. UnlockedValues'
  BY DEF ValueInv, UnlockedValues
<1>2. ASSUME NEW t \in Threads, NEW c \in Nat, NEW i \in Nat, Owned(t, c, i)'
      PROVE  EntryValue(t, c, i)'
  <2>1. Owned(t, c, i) /\ EntryValue(t, c, i) /\ EntryAt(t, c, i)' = EntryAt(t, c, i)
    BY <1>2 DEF ValueInv, OwnedValues
  <2>2. EntryAt(t, c, i).run_counter \in Nat /\ run_counter[t] \in Nat
    BY <2>1, OwnedTypes, Types DEF Entry
  <2>3. QED
    BY <1>2, <2>1, <2>2 DEF EntryValue
<1>3. QED
  BY <1>1, <1>2 DEF ValueInv, OwnedValues

LEMMA FrameValues ==
  ASSUME TypeOK, ValueInv,
         UNCHANGED <<lock, actual, commits, run_counter, ws_wb_counter, ws_tail_counter,
                     write_set, is_write_detected>>,
         \A u \in Threads : /\ pc'[u] = "writeback" <=> pc[u] = "writeback"
                            /\ pc[u] = "writeback" =>
                                 ws_counter'[u] = ws_counter[u] /\ iter'[u] = iter[u]
  PROVE  ValueInv'
<1>1. \A t \in Threads, c \in Nat, i \in Nat :
        /\ Owned(t, c, i)' <=> Owned(t, c, i)
        /\ EntryAt(t, c, i)' = EntryAt(t, c, i)
  BY SameEntries
<1>2. \A t \in Threads : run_counter[t] \in Nat
  BY Types
<1>3. QED
  BY <1>1, <1>2, KeepValues

\* The objects of the open log are locked, by its entries.
LEMMA LogObjectsLocked ==
  ASSUME TypeOK, RingInv, LockInv, NEW t \in Threads, is_write_detected[t],
         NEW o \in LogObjects(t)
  PROVE  /\ \E j \in Nat : /\ Owned(t, ws_tail_counter[t], j)
                           /\ EntryAt(t, ws_tail_counter[t], j).obj = o
         /\ lock[o] # NULL
<1>0. /\ ws_tail_counter[t] \in Nat /\ ws_wb_counter[t] \in Nat
      /\ ws_wb_counter[t] <= ws_tail_counter[t] /\ pc[t] # "writeback"
  BY Types DEF RingInv, RingCounters, OpenLog, SectionLocs
<1>1. PICK j \in DOMAIN write_set[t][CurrentSlot(t)] :
        write_set[t][CurrentSlot(t)][j].obj = o
  BY DEF LogObjects
<1>2. Owned(t, ws_tail_counter[t], j) /\ EntryAt(t, ws_tail_counter[t], j).obj = o
  BY <1>0, <1>1 DEF Owned, OwnedEntry, CurrentSlot, EntryAt
<1>3. /\ j \in Nat /\ Address(t, ws_tail_counter[t], j) # NULL
      /\ lock[o] = Address(t, ws_tail_counter[t], j)
  BY <1>0, <1>2, OwnedTypes DEF LockInv, OwnedAreLocked
<1>4. QED
  BY <1>2, <1>3

\* rlu_commit_write_set: the entries at the tail become committed, one change
\* ahead of their objects.
LEMMA UnlockWriterValues ==
  ASSUME TypeOK, RingInv, LockInv, ValueInv, NEW t \in Threads, UnlockWriter(t)
  PROVE  ValueInv'
<1>0. /\ UNCHANGED <<lock, actual>> /\ is_write_detected[t]
      /\ ws_tail_counter' = [ws_tail_counter EXCEPT ![t] = @ + 1]
      /\ run_counter' = [run_counter EXCEPT ![t] = @ + 1]
      /\ commits' = [o \in Objects |-> IF o \in LogObjects(t) THEN commits[o] + 1 ELSE commits[o]]
  BY DEF UnlockWriter, Unregister, UnregisteredCounter, memory
<1>1. ASSUME NEW u \in Threads, NEW c \in Nat, NEW i \in Nat, Owned(u, c, i)'
      PROVE  EntryValue(u, c, i)'
  <2>1. Owned(u, c, i) /\ EntryAt(u, c, i)' = EntryAt(u, c, i) /\ EntryValue(u, c, i)
    BY <1>1, UnlockWriterEntries DEF ValueInv, OwnedValues
  <2>2. /\ EntryAt(u, c, i).obj \in Objects /\ EntryAt(u, c, i).run_counter \in Nat
        /\ run_counter[u] \in Nat /\ ws_tail_counter[u] \in Nat
        /\ commits[EntryAt(u, c, i).obj] \in Nat /\ actual[EntryAt(u, c, i).obj] \in Nat
    BY <2>1, OwnedTypes, Types DEF Entry
  <2>3. c # ws_tail_counter[u] => c < ws_tail_counter[u]
    BY <2>1, OpenEntries
  <2>4. EntryAt(u, c, i).obj \in LogObjects(t) <=> u = t /\ c = ws_tail_counter[t]
    BY <1>0, <2>1, LogObjectsOwned
  <2>5. commits'[EntryAt(u, c, i).obj] =
          IF EntryAt(u, c, i).obj \in LogObjects(t)
          THEN commits[EntryAt(u, c, i).obj] + 1 ELSE commits[EntryAt(u, c, i).obj]
    BY <1>0, <2>2
  <2>6. CASE u = t
    <3>1. ws_tail_counter'[t] = ws_tail_counter[t] + 1 /\ run_counter'[t] = run_counter[t] + 1
      BY <1>0, Types
    <3>2. QED
      BY <1>0, <2>1, <2>2, <2>3, <2>4, <2>5, <2>6, <3>1 DEF EntryValue
  <2>7. CASE u # t
    <3>1. ws_tail_counter'[u] = ws_tail_counter[u] /\ run_counter'[u] = run_counter[u]
      BY <1>0, <2>7, Types
    <3>2. QED
      BY <1>0, <2>1, <2>4, <2>5, <2>7, <3>1 DEF EntryValue
  <2>8. QED
    BY <2>6, <2>7
<1>2. ASSUME NEW o \in Objects, lock'[o] = NULL PROVE commits'[o] = actual'[o]
  <2>1. o \notin LogObjects(t)
    BY <1>0, <1>2, LogObjectsLocked
  <2>2. QED
    BY <1>0, <1>2, <2>1 DEF ValueInv, UnlockedValues
<1>3. QED
  BY <1>1, <1>2 DEF ValueInv, OwnedValues, UnlockedValues

\* rlu_abort: the objects are unlocked with the contents they had.
LEMMA AbortValues ==
  ASSUME TypeOK, RingInv, LockInv, ValueInv, NEW t \in Threads, rlu_abort(t),
         is_write_detected[t]
  PROVE  ValueInv'
<1>0. /\ UNCHANGED <<actual, commits, ws_tail_counter>>
      /\ run_counter' = [run_counter EXCEPT ![t] = @ + 1]
      /\ lock' = [o \in Objects |-> IF o \in LogObjects(t) THEN NULL ELSE lock[o]]
  BY DEF rlu_abort, Unregister, UnregisteredCounter, DiscardLog
<1>1. ASSUME NEW u \in Threads, NEW c \in Nat, NEW i \in Nat, Owned(u, c, i)'
      PROVE  EntryValue(u, c, i)'
  <2>1. Owned(u, c, i) /\ EntryAt(u, c, i).obj \notin LogObjects(t)
    BY <1>1, AbortEntries
  <2>2. EntryAt(u, c, i)' = EntryAt(u, c, i) /\ EntryValue(u, c, i)
    BY <2>1, AbortEntries DEF ValueInv, OwnedValues
  <2>3. ~(u = t /\ c = ws_tail_counter[t])
    BY <2>1, LogObjectsOwned
  <2>4. EntryAt(u, c, i).run_counter \in Nat /\ run_counter[u] \in Nat
    BY <2>1, OwnedTypes, Types DEF Entry
  <2>5. run_counter'[u] = IF u = t THEN run_counter[u] + 1 ELSE run_counter[u]
    BY <1>0, Types
  <2>6. QED
    BY <1>0, <2>2, <2>3, <2>4, <2>5 DEF EntryValue
<1>2. ASSUME NEW o \in Objects, lock'[o] = NULL PROVE commits'[o] = actual'[o]
  <2>1. CASE o \in LogObjects(t)
    <3>1. PICK j \in Nat : /\ Owned(t, ws_tail_counter[t], j)
                           /\ EntryAt(t, ws_tail_counter[t], j).obj = o
      BY <2>1, LogObjectsLocked
    <3>2. EntryValue(t, ws_tail_counter[t], j)
      BY <3>1, Types DEF ValueInv, OwnedValues
    <3>3. QED
      BY <1>0, <3>1, <3>2 DEF EntryValue
  <2>2. CASE o \notin LogObjects(t)
    BY <1>0, <1>2, <2>2 DEF ValueInv, UnlockedValues
  <2>3. QED
    BY <2>1, <2>2
<1>3. QED
  BY <1>1, <1>2 DEF ValueInv, OwnedValues, UnlockedValues

\* The write-back of an object catches up with the committed change.
LEMMA WritebackValues ==
  ASSUME TypeOK, RingInv, LockInv, ValueInv, NEW t \in Threads, WritebackObject(t)
  PROVE  ValueInv'
<1>1. PICK n, k, e : n = ws_counter[t] /\ k = iter[t] /\ e = WritebackLog(t)[iter[t]]
  OBVIOUS
<1>2. /\ n \in Nat /\ k \in Nat /\ n < ws_tail_counter[t]
      /\ ws_tail_counter \in [Threads -> Nat]
      /\ UNCHANGED <<commits, ws_tail_counter, run_counter>>
      /\ actual' = [actual EXCEPT ![e.obj] = e.val]
      /\ lock' = [lock EXCEPT ![e.obj] = NULL]
  BY <1>1, Types DEF WritebackObject, logs, versions, history
<1>3. Owned(t, n, k) /\ e = EntryAt(t, n, k)
  BY <1>1, WritebackEntries
<1>4. EntryValue(t, n, k) /\ n # ws_tail_counter[t] /\ e.obj \in Objects
  BY <1>2, <1>3, OwnedTypes DEF ValueInv, OwnedValues, Entry
<1>5. e.val = commits[e.obj]
  BY <1>3, <1>4 DEF EntryValue
<1>6. ASSUME NEW u \in Threads, NEW c \in Nat, NEW i \in Nat, Owned(u, c, i)'
      PROVE  EntryValue(u, c, i)'
  <2>1. Owned(u, c, i) /\ ~(u = t /\ c = n /\ i = k) /\ EntryAt(u, c, i)' = EntryAt(u, c, i)
    BY <1>1, <1>6, WritebackEntries
  <2>2. EntryValue(u, c, i) /\ EntryAt(u, c, i).obj # e.obj
    BY <1>3, <2>1, OneEntryPerObject DEF ValueInv, OwnedValues
  <2>3. actual'[EntryAt(u, c, i).obj] = actual[EntryAt(u, c, i).obj]
    BY <1>2, <2>2, Types
  <2>4. QED
    BY <1>2, <2>1, <2>2, <2>3 DEF EntryValue
<1>7. ASSUME NEW o \in Objects, lock'[o] = NULL PROVE commits'[o] = actual'[o]
  <2>1. CASE o = e.obj
    BY <1>2, <1>4, <1>5, <2>1, Types
  <2>2. CASE o # e.obj
    BY <1>2, <1>7, <2>2, Types DEF ValueInv, UnlockedValues
  <2>3. QED
    BY <2>1, <2>2
<1>8. QED
  BY <1>6, <1>7 DEF ValueInv, OwnedValues, UnlockedValues

LEMMA AddressNotNull ==
  ASSUME NEW t \in Threads, NEW c \in Nat, NEW i \in Nat \ {0}
  PROVE  Address(t, c, i) # NULL
<1>1. Address(t, c, i) \in LogPtrs
  BY IndexInRing DEF Address, LogPtrs
<1>2. QED
  BY <1>1, MarkerAssumption

\* The CAS locks an object whose contents are up to date.
LEMMA CasValues ==
  ASSUME TypeOK, RingInv, LockInv, ValueInv, NEW t \in Threads, CasSucceeds(t)
  PROVE  ValueInv'
<1>0. PICK o, n, k : /\ o = p_obj[t].obj /\ n = ws_tail_counter[t]
                     /\ k = Len(write_set[t][CurrentSlot(t)]) + 1
  OBVIOUS
<1>1. UNCHANGED <<actual, commits, ws_tail_counter, run_counter>>
  BY DEF CasSucceeds, versions, history
<1>2. /\ o \in Objects /\ lock[o] = NULL /\ n \in Nat /\ k \in Nat \ {0}
      /\ EntryAt(t, n, k)' = [obj |-> o, run_counter |-> run_counter[t], val |-> actual[o] + 1]
      /\ lock' = [lock EXCEPT ![o] = Address(t, n, k)]
  BY <1>0, CasEntries
<1>3. \A u \in Threads, c \in Nat, i \in Nat :
        /\ Owned(u, c, i)' <=> Owned(u, c, i) \/ (u = t /\ c = n /\ i = k)
        /\ Owned(u, c, i) => EntryAt(u, c, i)' = EntryAt(u, c, i)
  BY <1>0, CasEntries
<1>4. EntryValue(t, n, k)'
  <2>1. commits[o] = actual[o]
    BY <1>2 DEF ValueInv, UnlockedValues
  <2>2. QED
    BY <1>0, <1>1, <1>2, <2>1 DEF EntryValue
<1>5. ASSUME NEW u \in Threads, NEW c \in Nat, NEW i \in Nat, Owned(u, c, i)
      PROVE  EntryValue(u, c, i)'
  <2>1. EntryValue(u, c, i) /\ EntryAt(u, c, i)' = EntryAt(u, c, i)
    BY <1>3, <1>5 DEF ValueInv, OwnedValues
  <2>2. QED
    BY <1>1, <2>1 DEF EntryValue
<1>6. ASSUME NEW x \in Objects, lock'[x] = NULL PROVE commits'[x] = actual'[x]
  <2>1. x # o
    BY <1>2, <1>6, AddressNotNull, Types
  <2>2. QED
    BY <1>1, <1>2, <1>6, <2>1, Types DEF ValueInv, UnlockedValues
<1>7. QED
  BY <1>3, <1>4, <1>5, <1>6 DEF ValueInv, OwnedValues, UnlockedValues

\* Every step keeps the entries' values: those of UnlockWriter, rlu_abort,
\* WritebackObject and the CAS change contents, the others none.
LEMMA StepValueInv ==
  TypeOK /\ RingInv /\ LockInv /\ ValueInv /\ [Next]_vars => ValueInv'
<1> SUFFICES ASSUME TypeOK, RingInv, LockInv, ValueInv, [Next]_vars PROVE ValueInv'
  OBVIOUS
<1>0. /\ pc \in [Threads -> Locs] /\ ret \in [Threads -> ReturnLocs]
      /\ ws_counter \in [Threads -> Nat] /\ iter \in [Threads -> Nat]
      /\ is_write_detected \in [Threads -> BOOLEAN]
      /\ run_counter \in [Threads -> Nat]
  BY Types DEF TypeOK, ControlTypes
<1>1. ASSUME NEW t \in Threads, EnterSection(t) PROVE ValueInv'
  <2>1. CASE rlu_reader_lock(t)
    BY <1>0, <2>1, FrameValues
       DEF rlu_reader_lock, rlu_sync_checkpoint, StartSync, Goto, memory, versions, flags, logs, loops, history
  <2>2. CASE RegisterThread(t)
    <3>1. /\ UNCHANGED <<lock, actual, commits, ws_tail_counter>>
          /\ pc[t] = "register" /\ run_counter' = [run_counter EXCEPT ![t] = @ + 1]
      BY <2>2 DEF RegisterThread, memory, logs, history
    <3>2. \A u \in Threads, c \in Nat, i \in Nat :
            (Owned(u, c, i)' <=> Owned(u, c, i)) /\ EntryAt(u, c, i)' = EntryAt(u, c, i)
      BY <1>0, <2>2, SameEntries DEF RegisterThread, Goto, flags, logs, loops
    <3>3. \A u \in Threads, c \in Nat, i \in Nat :
            Owned(u, c, i) /\ c = ws_tail_counter[u] => u # t
      BY <3>1, OpenEntries DEF InSection, SectionLocs
    <3>4. \A u \in Threads : /\ run_counter'[u] \in Nat /\ run_counter[u] <= run_counter'[u]
                             /\ u # t => run_counter'[u] = run_counter[u]
      BY <1>0, <3>1
    <3>5. QED
      BY <3>1, <3>2, <3>3, <3>4, KeepValues
  <2>3. CASE ReadWriterVersion(t)
    BY <1>0, <2>3, FrameValues DEF ReadWriterVersion, Goto, memory, flags, logs, loops
  <2>4. CASE ReadCommitVersion(t)
    BY <1>0, <2>4, FrameValues DEF ReadCommitVersion, Goto, memory, versions, flags, logs, loops, history
  <2>5. QED
    BY <1>1, <2>1, <2>2, <2>3, <2>4 DEF EnterSection
<1>2. ASSUME NEW t \in Threads, NEW o \in Objects, Deref(t, o) PROVE ValueInv'
  BY <1>0, <1>2, FrameValues
     DEF Deref, DerefActual, DerefOwnCopy, DerefLocked, Goto, memory, versions, flags, logs, loops, history
<1>3. ASSUME NEW t \in Threads, NEW o \in Objects, TryLock(t, o) PROVE ValueInv'
  <2>1. CASE TryLockOwn(t, o)
    BY <1>0, <2>1, FrameValues DEF TryLockOwn, Goto, memory, versions, flags, logs, loops, history
  <2>2. CASE TryLockBusy(t, o)
    BY <1>0, <2>2, FrameValues DEF TryLockBusy, Goto, memory, versions, flags, logs, loops, history
  <2>3. CASE TryLockFree(t, o)
    <3>1. UNCHANGED <<lock, actual, commits, run_counter, ws_tail_counter>>
      BY <2>3 DEF TryLockFree, memory, versions, logs, history
    <3>2. QED
      BY <1>0, <2>3, <3>1, TryLockFreeEntries, KeepValues
  <2>4. QED
    BY <1>3, <2>1, <2>2, <2>3 DEF TryLock
<1>4. ASSUME NEW t \in Threads, DerefSteal(t) PROVE ValueInv'
  BY <1>0, <1>4, FrameValues DEF DerefSteal, Goto, memory, versions, flags, logs, loops, history
<1>5. ASSUME NEW t \in Threads, CasSucceeds(t) PROVE ValueInv'
  BY <1>5, CasValues
<1>6. ASSUME NEW t \in Threads, CasFails(t) PROVE ValueInv'
  BY <1>0, <1>6, FrameValues DEF CasFails, Goto, memory, versions, flags, logs, loops, history
<1>7. ASSUME NEW t \in Threads, UnlockReader(t) \/ (rlu_abort(t) /\ ~is_write_detected[t])
      PROVE  ValueInv'
  <2>1. /\ UNCHANGED <<lock, actual, commits, ws_tail_counter, is_write_detected>>
        /\ ~is_write_detected[t]
        /\ run_counter' = [run_counter EXCEPT ![t] = @ + 1]
    <3>1. /\ ~is_write_detected[t]
          /\ is_write_detected' = [is_write_detected EXCEPT ![t] = FALSE]
          /\ run_counter' = [run_counter EXCEPT ![t] = @ + 1]
      BY <1>7 DEF UnlockReader, rlu_abort, Unregister, UnregisteredCounter
    <3>2. UNCHANGED <<lock, actual, commits, ws_tail_counter>>
      BY <1>7 DEF UnlockReader, rlu_abort, memory, logs
    <3>3. QED
      BY <1>0, <3>1, <3>2
  <2>2. \A u \in Threads, c \in Nat, i \in Nat :
          (Owned(u, c, i)' <=> Owned(u, c, i)) /\ EntryAt(u, c, i)' = EntryAt(u, c, i)
    BY <1>0, <1>7, <2>1, SameEntries DEF UnlockReader, rlu_abort, Goto, logs, loops
  <2>3. \A u \in Threads, c \in Nat, i \in Nat :
          Owned(u, c, i) /\ c = ws_tail_counter[u] => u # t
    BY <2>1, OpenEntries
  <2>4. \A u \in Threads : /\ run_counter'[u] \in Nat /\ run_counter[u] <= run_counter'[u]
                           /\ u # t => run_counter'[u] = run_counter[u]
    BY <1>0, <2>1
  <2>5. QED
    BY <2>1, <2>2, <2>3, <2>4, KeepValues
<1>8. ASSUME NEW t \in Threads, UnlockWriter(t) PROVE ValueInv'
  BY <1>8, UnlockWriterValues
<1>9. ASSUME NEW t \in Threads, rlu_abort(t), is_write_detected[t] PROVE ValueInv'
  BY <1>9, AbortValues
<1>10. ASSUME NEW t \in Threads, Checkpoint(t) PROVE ValueInv'
  BY <1>0, <1>10, FrameValues
     DEF Checkpoint, rlu_sync_checkpoint, StartSync, Goto, memory, versions, flags, logs, loops, history
<1>11. ASSUME NEW t \in Threads, SyncLoadVersion(t) PROVE ValueInv'
  BY <1>0, <1>11, FrameValues DEF SyncLoadVersion, Goto, memory, versions, flags, logs, history
<1>12. ASSUME NEW t \in Threads, SyncStoreVersion(t) PROVE ValueInv'
  BY <1>0, <1>12, FrameValues DEF SyncStoreVersion, Goto, memory, versions, flags, logs, loops, history
<1>13. ASSUME NEW t \in Threads, SyncAdvanceGlobal(t) PROVE ValueInv'
  BY <1>0, <1>13, FrameValues DEF SyncAdvanceGlobal, Goto, memory, versions, flags, logs
<1>14. ASSUME NEW t \in Threads, rlu_init_quiescence(t) PROVE ValueInv'
  BY <1>0, <1>14, FrameValues
     DEF rlu_init_quiescence, NextOther, Goto, memory, versions, flags, logs, history
<1>15. ASSUME NEW t \in Threads, rlu_wait_for_quiescence(t) PROVE ValueInv'
  BY <1>0, <1>15, FrameValues
     DEF rlu_wait_for_quiescence, NextOther, Goto, memory, versions, flags, logs, history
<1>16. ASSUME NEW t \in Threads, ResetWriteSets(t) PROVE ValueInv'
  <2>1. UNCHANGED <<lock, actual, commits, run_counter, ws_tail_counter>>
    BY <1>16 DEF ResetWriteSets, memory, versions, history
  <2>2. QED
    BY <1>0, <1>16, <2>1, ResetEntries, KeepValues
<1>17. ASSUME NEW t \in Threads, WritebackObject(t) PROVE ValueInv'
  BY <1>17, WritebackValues
<1>18. ASSUME NEW t \in Threads, WritebackDone(t) PROVE ValueInv'
  <2>1. UNCHANGED <<lock, actual, commits, run_counter, ws_tail_counter>>
    BY <1>18 DEF WritebackDone, memory, versions, history
  <2>2. QED
    BY <1>0, <1>18, <2>1, WritebackDoneEntries, KeepValues
<1>19. ASSUME NEW t \in Threads, SyncCommit(t) PROVE ValueInv'
  BY <1>0, <1>19, FrameValues
     DEF SyncCommit, Goto, memory, versions, flags, logs, loops, history, ReturnLocs
<1>20. ASSUME NEW t \in Threads, rlu_thread_finish(t) PROVE ValueInv'
  BY <1>0, <1>20, FrameValues
     DEF rlu_thread_finish, StartSync, AfterFinishSync, Goto, memory, versions, flags, logs, loops, history
<1>21. CASE UNCHANGED vars
  BY <1>21, FrameValues DEF vars, memory, versions, flags, logs, loops, history
<1>22. QED
  BY <1>1, <1>2, <1>3, <1>4, <1>5, <1>6, <1>7, <1>8, <1>9, <1>10, <1>11, <1>12,
     <1>13, <1>14, <1>15, <1>16, <1>17, <1>18, <1>19, <1>20, <1>21
     DEF Next, Terminated, ThreadStep, LeaveSection, Sync

\* The three invariants together are inductive.
THEOREM LogsInvariant == Spec => [](TypeOK /\ RingInv /\ LockInv /\ ValueInv)
<1>1. Init => TypeOK /\ RingInv /\ LockInv /\ ValueInv
  BY InitTypeOK, InitRingInv, InitLockInv, InitValueInv
<1>2. /\ TypeOK /\ RingInv /\ LockInv /\ ValueInv
      /\ [Next]_vars
      => (TypeOK /\ RingInv /\ LockInv /\ ValueInv)'
  BY StepTypeOK, StepRingInv, StepLockInv, StepValueInv
<1>3. QED
  BY <1>1, <1>2, PTL DEF Spec

\* In every execution the newest committed contents of an object, wherever
\* they are, count exactly the sections that committed a change of it: no
\* commit is lost in a write-back, an abort or a reused log.
THEOREM CommitsAreKept == Spec => []NoLostUpdate
<1>1. TypeOK /\ RingInv /\ LockInv /\ ValueInv => NoLostUpdate
  BY ValueInvImpliesNoLostUpdate
<1>2. QED
  BY <1>1, LogsInvariant, PTL

\* In every execution rlu_try_lock tells a copy of the open section from one
\* of an earlier, unpublished section by the run counter (rlu.c:878).
THEOREM RunCountersSuffice == Spec => []RunCounterTellsSections
<1>1. TypeOK /\ RingInv /\ LockInv /\ ValueInv => RunCounterTellsSections
  BY ValueInvImpliesRunCounters
<1>2. QED
  BY <1>1, LogsInvariant, PTL

------------------------------------------------------------------------------
(***************************************************************************)
(* rlu_thread_finish leaves nothing behind.  Its first sync writes back    *)
(* all the thread committed, its second empties the logs: between the two, *)
(* and through the second, nothing is committed.                           *)
(***************************************************************************)
FinishPhase(t) ==
  /\ pc[t] = "finish" => ws_wb_counter[t] = ws_tail_counter[t]
  /\ pc[t] \in SyncLocs /\ ret[t] = "finished" =>
       /\ ws_wb_counter[t] = ws_tail_counter[t]
       /\ pc[t] = "commit" => ws_head_counter[t] = ws_wb_counter[t]
  /\ pc[t] = "finished" => ws_head_counter[t] = ws_tail_counter[t]

FinishInv == \A t \in Threads : FinishPhase(t)

\* With an empty ring and no open section, the logs are empty; then no header
\* can lead into them.
LEMMA FinishInvImpliesFinishedIsClean ==
  TypeOK /\ RingInv /\ LockInv /\ FinishInv => FinishedIsClean
<1> SUFFICES ASSUME TypeOK, RingInv, LockInv, FinishInv, NEW t \in Threads, pc[t] = "finished"
             PROVE  /\ \A o \in Objects : lock[o] # NULL => lock[o].thread # t
                    /\ \A s \in Slots : write_set[t][s] = <<>>
  BY DEF FinishedIsClean
<1>1. ws_head_counter[t] = ws_tail_counter[t] /\ ws_tail_counter[t] \in Nat
  BY Types DEF FinishInv, FinishPhase
<1>2. ~is_write_detected[t]
  BY DEF RingInv, OpenLog, SectionLocs
<1>3. ASSUME NEW s \in Slots PROVE write_set[t][s] = <<>>
  <2>1. ~InUse(t, s)
    BY <1>1, <1>2 DEF InUse
  <2>2. QED
    BY <2>1 DEF RingInv, UsedSlots
<1>4. ASSUME NEW o \in Objects, lock[o] # NULL PROVE lock[o].thread # t
  <2>1. PICK u \in Threads, c \in Nat, i \in Nat : Owned(u, c, i) /\ lock[o].thread = u
    BY <1>4, HeaderEntry
  <2>2. WS_INDEX(c) \in Slots /\ i \in DOMAIN write_set[u][WS_INDEX(c)]
    BY <2>1, IndexInRing DEF Owned
  <2>3. QED
    BY <1>3, <2>1, <2>2
<1>5. QED
  BY <1>3, <1>4

LEMMA InitFinishInv == Init => FinishInv
  BY DEF Init, FinishInv, FinishPhase, SyncLocs

LEMMA FrameFinish ==
  ASSUME FinishInv, NEW t \in Threads, FinishPhase(t)',
         \A u \in Threads \ {t} :
           /\ pc'[u] = pc[u] /\ ret'[u] = ret[u]
           /\ ws_head_counter'[u] = ws_head_counter[u]
           /\ ws_wb_counter'[u] = ws_wb_counter[u]
           /\ ws_tail_counter'[u] = ws_tail_counter[u]
  PROVE  FinishInv'
<1>1. ASSUME NEW u \in Threads \ {t} PROVE FinishPhase(u)'
  BY DEF FinishInv, FinishPhase
<1>2. QED
  BY <1>1 DEF FinishInv

\* A step that moves no counter, and neither reaches the end of a sync nor
\* begins one of rlu_thread_finish.
LEMMA FinishStays ==
  ASSUME FinishInv, NEW t \in Threads, UNCHANGED logs,
         pc \in [Threads -> Locs], ret \in [Threads -> ReturnLocs],
         NEW loc, pc' = [pc EXCEPT ![t] = loc],
         loc \notin {"finish", "finished", "commit"},
         loc \in SyncLocs => ret'[t] # "finished" \/ (pc[t] \in SyncLocs /\ ret' = ret),
         \A u \in Threads \ {t} : ret'[u] = ret[u]
  PROVE  FinishInv'
<1>1. FinishPhase(t)'
  BY DEF FinishInv, FinishPhase, logs
<1>2. QED
  BY <1>1, FrameFinish DEF logs

LEMMA StepFinishInv == TypeOK /\ RingInv /\ FinishInv /\ [Next]_vars => FinishInv'
<1> SUFFICES ASSUME TypeOK, RingInv, FinishInv, [Next]_vars PROVE FinishInv'
  OBVIOUS
<1>0. /\ pc \in [Threads -> Locs] /\ ret \in [Threads -> ReturnLocs]
      /\ ws_head_counter \in [Threads -> Nat] /\ ws_wb_counter \in [Threads -> Nat]
      /\ ws_tail_counter \in [Threads -> Nat]
      /\ \A u \in Threads : RingCounters(u) /\ FinishPhase(u)
  BY Types DEF TypeOK, ControlTypes, RingInv, FinishInv
<1>1. ASSUME NEW t \in Threads, rlu_reader_lock(t) \/ Checkpoint(t) PROVE FinishInv'
  BY <1>0, <1>1, FinishStays
     DEF rlu_reader_lock, Checkpoint, rlu_sync_checkpoint, StartSync, Goto, SyncLocs
<1>2. ASSUME NEW t \in Threads,
             \/ RegisterThread(t) \/ ReadWriterVersion(t) \/ ReadCommitVersion(t)
             \/ DerefSteal(t) \/ CasFails(t) \/ UnlockReader(t)
      PROVE  FinishInv'
  BY <1>0, <1>2, FinishStays
     DEF RegisterThread, ReadWriterVersion, ReadCommitVersion, DerefSteal, CasFails,
         UnlockReader, Goto, SyncLocs
<1>3. ASSUME NEW t \in Threads, NEW o \in Objects, DerefActual(t, o) \/ DerefOwnCopy(t, o)
      PROVE  FinishInv'
  <2>1. UNCHANGED <<pc, ret, logs>>
    BY <1>3 DEF DerefActual, DerefOwnCopy
  <2>2. QED
    BY <2>1 DEF FinishInv, FinishPhase, logs
<1>4. ASSUME NEW t \in Threads, NEW o \in Objects, DerefLocked(t, o) \/ TryLock(t, o)
      PROVE  FinishInv'
  <2>1. CASE UNCHANGED pc
    <3>1. UNCHANGED <<pc, ret, logs>>
      BY <1>4, <2>1 DEF DerefLocked, TryLock, TryLockOwn, TryLockBusy, TryLockFree
    <3>2. QED
      BY <3>1 DEF FinishInv, FinishPhase, logs
  <2>2. CASE pc' # pc
    BY <1>0, <1>4, <2>2, FinishStays
       DEF DerefLocked, TryLock, TryLockOwn, TryLockBusy, TryLockFree, Goto, SyncLocs
  <2>3. QED
    BY <2>1, <2>2
<1>5. ASSUME NEW t \in Threads, CasSucceeds(t) \/ rlu_abort(t) PROVE FinishInv'
  <2>1. /\ UNCHANGED <<ret, ws_head_counter, ws_wb_counter, ws_tail_counter>>
        /\ \E loc \in {"section", "checkpoint"} : pc' = [pc EXCEPT ![t] = loc]
    BY <1>5 DEF CasSucceeds, rlu_abort, Goto
  <2>2. FinishPhase(t)'
    BY <1>0, <2>1 DEF FinishPhase, SyncLocs
  <2>3. QED
    BY <1>0, <2>1, <2>2, FrameFinish
<1>6. ASSUME NEW t \in Threads, UnlockWriter(t) PROVE FinishInv'
  <2>1. /\ UNCHANGED <<ws_head_counter, ws_wb_counter>>
        /\ ws_tail_counter' = [ws_tail_counter EXCEPT ![t] = @ + 1]
        /\ \/ pc' = [pc EXCEPT ![t] = "checkpoint"] /\ ret' = ret
           \/ pc' = [pc EXCEPT ![t] = "sync_load"] /\ ret' = [ret EXCEPT ![t] = "checkpoint"]
    BY <1>6 DEF UnlockWriter, Goto
  <2>2. FinishPhase(t)'
    BY <1>0, <2>1 DEF FinishPhase, SyncLocs
  <2>3. QED
    BY <1>0, <2>1, <2>2, FrameFinish
<1>7. ASSUME NEW t \in Threads, SyncLoadVersion(t) \/ SyncStoreVersion(t) \/ SyncAdvanceGlobal(t)
      PROVE  FinishInv'
  BY <1>0, <1>7, FinishStays
     DEF SyncLoadVersion, SyncStoreVersion, SyncAdvanceGlobal, Goto, SyncLocs
<1>8. ASSUME NEW t \in Threads, rlu_init_quiescence(t) \/ rlu_wait_for_quiescence(t)
      PROVE  FinishInv'
  BY <1>0, <1>8, FinishStays
     DEF rlu_init_quiescence, rlu_wait_for_quiescence, NextOther, Goto, SyncLocs
<1>9. ASSUME NEW t \in Threads, ResetWriteSets(t) PROVE FinishInv'
  <2>1. /\ UNCHANGED <<ret, ws_wb_counter, ws_tail_counter>>
        /\ ws_head_counter' = [ws_head_counter EXCEPT ![t] = ws_wb_counter[t]]
        /\ pc[t] = "reset_logs" /\ pc' = [pc EXCEPT ![t] = "writeback"]
    BY <1>9 DEF ResetWriteSets, NewHead, Goto
  <2>2. FinishPhase(t)'
    BY <1>0, <2>1 DEF FinishPhase, SyncLocs
  <2>3. QED
    BY <1>0, <2>1, <2>2, FrameFinish
<1>10. ASSUME NEW t \in Threads, WritebackObject(t) PROVE FinishInv'
  <2>1. UNCHANGED <<pc, ret, logs>>
    BY <1>10 DEF WritebackObject
  <2>2. QED
    BY <2>1 DEF FinishInv, FinishPhase, logs
<1>11. ASSUME NEW t \in Threads, WritebackDone(t) PROVE FinishInv'
  <2>1. /\ UNCHANGED <<ret, ws_head_counter, ws_tail_counter>>
        /\ ws_wb_counter' = [ws_wb_counter EXCEPT ![t] = ws_tail_counter[t]]
        /\ pc[t] = "writeback" /\ pc' = [pc EXCEPT ![t] = "commit"]
    BY <1>11 DEF WritebackDone, Goto
  <2>2. FinishPhase(t)'
    BY <1>0, <2>1 DEF FinishPhase, SyncLocs, RingCounters
  <2>3. QED
    BY <1>0, <2>1, <2>2, FrameFinish
<1>12. ASSUME NEW t \in Threads, SyncCommit(t) PROVE FinishInv'
  <2>1. /\ UNCHANGED logs /\ pc[t] = "commit"
        /\ pc' = [pc EXCEPT ![t] = ret[t]] /\ ret' = [ret EXCEPT ![t] = "idle"]
    BY <1>12 DEF SyncCommit, Goto
  <2>2. FinishPhase(t)'
    BY <1>0, <2>1 DEF FinishPhase, SyncLocs, ReturnLocs, RingCounters, logs
  <2>3. QED
    BY <1>0, <2>1, <2>2, FrameFinish DEF logs
<1>13. ASSUME NEW t \in Threads, rlu_thread_finish(t) PROVE FinishInv'
  <2>1. /\ UNCHANGED logs /\ pc[t] \in {"idle", "finish"}
        /\ IF ws_tail_counter[t] = ws_head_counter[t]
           THEN pc' = [pc EXCEPT ![t] = AfterFinishSync(t)] /\ ret' = ret
           ELSE /\ pc' = [pc EXCEPT ![t] = "sync_load"]
                /\ ret' = [ret EXCEPT ![t] = AfterFinishSync(t)]
    BY <1>13 DEF rlu_thread_finish, StartSync, Goto
  <2>2. FinishPhase(t)'
    BY <1>0, <2>1 DEF AfterFinishSync, FinishPhase, SyncLocs, RingCounters, logs
  <2>3. QED
    BY <1>0, <2>1, <2>2, FrameFinish DEF logs
<1>14. CASE UNCHANGED vars
  BY <1>14 DEF vars, logs, FinishInv, FinishPhase
<1>15. QED
  BY <1>1, <1>2, <1>3, <1>4, <1>5, <1>6, <1>7, <1>8, <1>9, <1>10, <1>11, <1>12,
     <1>13, <1>14
     DEF Next, Terminated, ThreadStep, EnterSection, Deref, LeaveSection, Sync

\* A finished thread has written back and unlocked all it committed, and its
\* logs are empty: the two syncs of rlu_thread_finish are enough.
THEOREM TwoSyncsSuffice == Spec => []FinishedIsClean
<1>1. Init => FinishInv
  BY InitFinishInv
<1>2. (TypeOK /\ RingInv /\ LockInv /\ ValueInv) /\ FinishInv /\ [Next]_vars => FinishInv'
  BY StepFinishInv
<1>3. (TypeOK /\ RingInv /\ LockInv /\ ValueInv) /\ FinishInv => FinishedIsClean
  BY FinishInvImpliesFinishedIsClean
<1>4. QED
  BY <1>1, <1>2, <1>3, LogsInvariant, PTL DEF Spec

------------------------------------------------------------------------------
(* Stolen copies: a log that a section stole a copy from is not reset      *)
(* while the section is open, as long as versions do not reach MAX_VERSION.*)
(* The argument of rlu.c:839 is that the owner's next sync waits for the   *)
(* section.  It needs the versions: the copy is taken at a version the     *)
(* section's is not behind, the next sync draws one it is behind.          *)

\* writer_version holds a version drawn, and the copies can be stolen.
Publishing == {"sync_faa", "q_init", "q_wait", "reset_logs", "writeback"}

\* t's section is not behind the version u has drawn in its current sync: u's
\* committed copies are, or will be, what t's section reads.
MayBeStolen(u, t) ==
  \/ pc[u] = "sync_store" /\ new_version[u] <= local_version[t]
  \/ pc[u] \in Publishing /\ writer_version[u] <= local_version[t]

Version(t) ==
  /\ local_version[t] <= g_rlu_writer_version
  /\ pc[t] \notin Publishing => writer_version[t] = MAX_VERSION

\* A pointer rlu_deref_slow_path has read but not decided on.  Its owner may
\* have aborted since: only if it can still be stolen it names a committed copy
\* that is not written back.
PendingCopy(t) ==
  pc[t] = "deref" =>
    LET p == p_obj[t].ptr IN
    /\ p \in LogPtrs /\ p.thread # t
    /\ MayBeStolen(p.thread, t) =>
         /\ Names(p_obj[t].obj, p)
         /\ \E c \in ws_wb_counter[p.thread] .. ws_tail_counter[p.thread] - 1 :
              p.ws = WS_INDEX(c)

\* A copy the section holds.  Another thread's is in a write set that was not
\* reset, and if it was written back, then by a sync before the current one.
HeldCopy(t, h) ==
  h.ptr # ACTUAL =>
    LET u == h.ptr.thread IN
    /\ Names(h.obj, h.ptr)
    /\ u # t => \E c \in ws_head_counter[u] .. ws_tail_counter[u] - 1 :
                  /\ h.ptr.ws = WS_INDEX(c)
                  /\ c < ws_wb_counter[u] => ~MayBeStolen(u, t)

StealInv ==
  \A t \in Threads :
    /\ Version(t) /\ PendingCopy(t)
    /\ held[t] # {} => InSection(t)
    /\ \A h \in held[t] : HeldCopy(t, h)

\* The version counter has not reached the version of a thread that is not
\* syncing (LONG_MAX in rlu.h).
VersionsFit == g_rlu_writer_version < MAX_VERSION

LEMMA StealInvImpliesStolenLogNotReused == StealInv => StolenLogNotReused
  BY DEF StealInv, HeldCopy, StolenLogNotReused

LEMMA InitStealInv == Init => StealInv
  BY DEF Init, StealInv, Version, PendingCopy, Publishing

\* The remaining types.
LEMMA VersionTypes ==
  ASSUME TypeOK
  PROVE  /\ local_version \in [Threads -> Nat] /\ writer_version \in [Threads -> Nat]
         /\ new_version \in [Threads -> Nat] /\ g_rlu_writer_version \in Nat
         /\ held \in [Threads -> SUBSET Pointers]
         /\ p_obj \in [Threads -> Pointers \union {NULL}]
         /\ \A t \in Threads : pc[t] \in {"deref", "cas"} => p_obj[t] \in Pointers
         /\ ret \in [Threads -> ReturnLocs]
  BY DEF TypeOK, MemoryTypes, ThreadTypes, ControlTypes

\* A step of thread a leaves the other threads' variables alone, but for their
\* headers and is_sync.
Others(a) ==
  \A u \in Threads \ {a} :
    /\ pc'[u] = pc[u] /\ local_version'[u] = local_version[u]
    /\ writer_version'[u] = writer_version[u] /\ new_version'[u] = new_version[u]
    /\ ws_head_counter'[u] = ws_head_counter[u] /\ ws_wb_counter'[u] = ws_wb_counter[u]
    /\ ws_tail_counter'[u] = ws_tail_counter[u] /\ write_set'[u] = write_set[u]
    /\ held'[u] = held[u] /\ p_obj'[u] = p_obj[u]
    /\ is_write_detected'[u] = is_write_detected[u]
    /\ is_steal'[u] = is_steal[u] /\ is_check_locks'[u] = is_check_locks[u]

LEMMA OthersStay == ASSUME TypeOK, NEW a \in Threads, ThreadStep(a) PROVE Others(a)
<1>0. /\ pc \in [Threads -> Locs] /\ ws_head_counter \in [Threads -> Nat]
      /\ ws_wb_counter \in [Threads -> Nat] /\ ws_tail_counter \in [Threads -> Nat]
      /\ write_set \in [Threads -> [Slots -> Seq(Entry)]]
      /\ local_version \in [Threads -> Nat] /\ writer_version \in [Threads -> Nat]
      /\ new_version \in [Threads -> Nat]
      /\ held \in [Threads -> SUBSET Pointers]
      /\ p_obj \in [Threads -> Pointers \union {NULL}]
      /\ is_write_detected \in [Threads -> BOOLEAN] /\ is_steal \in [Threads -> BOOLEAN]
      /\ is_check_locks \in [Threads -> BOOLEAN]
  BY Types, VersionTypes DEF TypeOK, ThreadTypes
<1>1. ASSUME EnterSection(a) PROVE Others(a)
  BY <1>0, <1>1
     DEF EnterSection, rlu_reader_lock, RegisterThread, ReadWriterVersion, ReadCommitVersion,
         rlu_sync_checkpoint, StartSync, Goto, versions, flags, logs, loops, section, Others
<1>2. ASSUME NEW o \in Objects, Deref(a, o) PROVE Others(a)
  BY <1>0, <1>2
     DEF Deref, DerefActual, DerefOwnCopy, DerefLocked, Hold, Goto, versions, flags, logs, loops, Others
<1>3. ASSUME NEW o \in Objects, TryLock(a, o) PROVE Others(a)
  BY <1>0, <1>3
     DEF TryLock, TryLockOwn, TryLockBusy, TryLockFree, Goto, versions, flags, logs, loops, section, Others
<1>4. ASSUME DerefSteal(a) \/ CasFails(a) PROVE Others(a)
  BY <1>0, <1>4 DEF DerefSteal, CasFails, Hold, Goto, versions, flags, logs, loops, Others
<1>5. ASSUME CasSucceeds(a) PROVE Others(a)
  BY <1>0, <1>5 DEF CasSucceeds, Goto, versions, flags, loops, Others
<1>6. ASSUME UnlockReader(a) \/ UnlockWriter(a) PROVE Others(a)
  BY <1>0, <1>6 DEF UnlockReader, UnlockWriter, Unregister, Goto, logs, loops, Others
<1>7. ASSUME rlu_abort(a) PROVE Others(a)
  BY <1>0, <1>7 DEF rlu_abort, Unregister, DiscardLog, Goto, loops, Others
<1>8. ASSUME Checkpoint(a) \/ rlu_thread_finish(a) PROVE Others(a)
  BY <1>0, <1>8
     DEF Checkpoint, rlu_thread_finish, rlu_sync_checkpoint, StartSync, Goto, versions, flags, logs,
         loops, section, Others
<1>9. ASSUME SyncLoadVersion(a) \/ SyncStoreVersion(a) \/ SyncAdvanceGlobal(a) PROVE Others(a)
  BY <1>0, <1>9
     DEF SyncLoadVersion, SyncStoreVersion, SyncAdvanceGlobal, Goto, versions, flags, logs, loops,
         section, Others
<1>10. ASSUME rlu_init_quiescence(a) \/ rlu_wait_for_quiescence(a) PROVE Others(a)
  BY <1>0, <1>10
     DEF rlu_init_quiescence, rlu_wait_for_quiescence, NextOther, Goto, versions, flags, logs,
         section, Others
<1>11. ASSUME ResetWriteSets(a) PROVE Others(a)
  BY <1>0, <1>11 DEF ResetWriteSets, Goto, versions, flags, section, Others
<1>12. ASSUME WritebackObject(a) \/ WritebackDone(a) \/ SyncCommit(a) PROVE Others(a)
  BY <1>0, <1>12
     DEF WritebackObject, WritebackDone, SyncCommit, Goto, versions, flags, logs, loops, section, Others
<1>13. QED
  BY <1>1, <1>2, <1>3, <1>4, <1>5, <1>6, <1>7, <1>8, <1>9, <1>10, <1>11, <1>12
     DEF ThreadStep, LeaveSection, Sync

(***************************************************************************)
(* What a step of thread a does to the copies it owns.                     *)
(***************************************************************************)

\* Its write sets between head and tail, of which only those written back are
\* ever emptied, and only by ResetWriteSets.
CommittedStay(a) ==
  \A c \in ws_head_counter[a] .. ws_tail_counter[a] - 1 :
    /\ c < ws_tail_counter'[a]
    /\ c < ws_wb_counter'[a] => c < ws_wb_counter[a] \/ pc'[a] = "commit"
    /\ \/ pc[a] = "reset_logs" /\ c < ws_wb_counter[a]
       \/ /\ c >= ws_head_counter'[a]
          /\ write_set'[a][WS_INDEX(c)] = write_set[a][WS_INDEX(c)]

LEMMA CommittedCopiesStay ==
  ASSUME TypeOK, RingInv, NEW a \in Threads, ThreadStep(a)
  PROVE  CommittedStay(a)
<1>0. /\ ws_head_counter \in [Threads -> Nat] /\ ws_wb_counter \in [Threads -> Nat]
      /\ ws_tail_counter \in [Threads -> Nat]
      /\ write_set \in [Threads -> [Slots -> Seq(Entry)]]
  BY Types
<1>1. \A c \in ws_head_counter[a] .. ws_tail_counter[a] - 1 :
        c \in Nat /\ WS_INDEX(c) \in Slots
  BY <1>0, IndexInRing
<1>2. ASSUME UNCHANGED logs PROVE CommittedStay(a)
  BY <1>0, <1>2 DEF CommittedStay, logs
<1>3. CASE UnlockWriter(a)
  <2>1. /\ UNCHANGED <<ws_head_counter, ws_wb_counter, write_set>>
        /\ ws_tail_counter' = [ws_tail_counter EXCEPT ![a] = @ + 1]
    BY <1>3 DEF UnlockWriter
  <2>2. QED
    BY <1>0, <2>1 DEF CommittedStay
<1>4. CASE CasSucceeds(a) \/ rlu_abort(a)
  <2>1. /\ UNCHANGED <<ws_head_counter, ws_wb_counter, ws_tail_counter>>
        /\ pc[a] \notin SyncLocs
    BY <1>4 DEF CasSucceeds, rlu_abort, SyncLocs
  <2>2. \A s \in Slots : s # CurrentSlot(a) => write_set'[a][s] = write_set[a][s]
    BY <1>0, <1>4 DEF CasSucceeds, rlu_abort, DiscardLog
  <2>3. \A c \in ws_head_counter[a] .. ws_tail_counter[a] - 1 : WS_INDEX(c) # CurrentSlot(a)
    BY <2>1, RingInvImpliesFreshLog DEF FreshLog
  <2>4. QED
    BY <1>0, <1>1, <2>1, <2>2, <2>3 DEF CommittedStay
<1>5. CASE ResetWriteSets(a)
  <2>1. /\ UNCHANGED <<ws_wb_counter, ws_tail_counter>> /\ pc[a] = "reset_logs"
        /\ ws_head_counter' = [ws_head_counter EXCEPT ![a] = ws_wb_counter[a]]
    BY <1>5 DEF ResetWriteSets, NewHead
  <2>2. ASSUME NEW c \in ws_wb_counter[a] .. ws_tail_counter[a] - 1
        PROVE  write_set'[a][WS_INDEX(c)] = write_set[a][WS_INDEX(c)]
    BY <1>5, ResetKeepsCommitted
  <2>3. QED
    BY <1>0, <2>1, <2>2 DEF CommittedStay
<1>6. CASE WritebackDone(a)
  <2>1. /\ UNCHANGED <<ws_head_counter, ws_tail_counter, write_set>>
        /\ pc' = [pc EXCEPT ![a] = "commit"]
    BY <1>6 DEF WritebackDone, Goto
  <2>2. QED
    BY <1>0, <2>1, Types DEF CommittedStay
<1>7. UNCHANGED logs \/ UnlockWriter(a) \/ CasSucceeds(a) \/ rlu_abort(a)
        \/ ResetWriteSets(a) \/ WritebackDone(a)
  <2>1. ASSUME EnterSection(a) PROVE UNCHANGED logs
    BY <2>1 DEF EnterSection, rlu_reader_lock, RegisterThread, ReadWriterVersion, ReadCommitVersion
  <2>2. ASSUME NEW o \in Objects, Deref(a, o) \/ TryLock(a, o) PROVE UNCHANGED logs
    BY <2>2 DEF Deref, DerefActual, DerefOwnCopy, DerefLocked,
                TryLock, TryLockOwn, TryLockBusy, TryLockFree
  <2>3. ASSUME DerefSteal(a) \/ CasFails(a) \/ UnlockReader(a) \/ Checkpoint(a)
               \/ rlu_thread_finish(a)
        PROVE  UNCHANGED logs
    BY <2>3 DEF DerefSteal, CasFails, UnlockReader, Checkpoint, rlu_thread_finish
  <2>4. ASSUME \/ SyncLoadVersion(a) \/ SyncStoreVersion(a) \/ SyncAdvanceGlobal(a)
               \/ rlu_init_quiescence(a) \/ rlu_wait_for_quiescence(a)
               \/ WritebackObject(a) \/ SyncCommit(a)
        PROVE  UNCHANGED logs
    BY <2>4 DEF SyncLoadVersion, SyncStoreVersion, SyncAdvanceGlobal, rlu_init_quiescence,
                rlu_wait_for_quiescence, WritebackObject, SyncCommit
  <2>5. QED
    BY <2>1, <2>2, <2>3, <2>4 DEF ThreadStep, LeaveSection, Sync
<1>8. QED
  BY <1>2, <1>3, <1>4, <1>5, <1>6, <1>7

\* While a section is open, the thread's own logs only get longer.
LEMMA OwnLogsGrow ==
  ASSUME TypeOK, NEW a \in Threads, ThreadStep(a), InSection(a), InSection(a)',
         NEW s \in Slots, NEW i \in DOMAIN write_set[a][s]
  PROVE  i \in DOMAIN write_set'[a][s] /\ write_set'[a][s][i] = write_set[a][s][i]
<1>0. /\ pc \in [Threads -> Locs] /\ write_set \in [Threads -> [Slots -> Seq(Entry)]]
      /\ write_set[a][s] \in Seq(Entry)
  BY Types
<1>1. pc[a] \in SectionLocs /\ pc'[a] \in SectionLocs
  BY DEF InSection
<1>2. CASE CasSucceeds(a)
  <2>1. PICK e : write_set' = [write_set EXCEPT ![a][CurrentSlot(a)] = Append(@, e)]
    BY <1>2 DEF CasSucceeds
  <2>2. write_set'[a][s] = write_set[a][s] \/ write_set'[a][s] = Append(write_set[a][s], e)
    BY <1>0, <2>1
  <2>3. i \in 1 .. Len(write_set[a][s]) /\ Len(write_set[a][s]) \in Nat
    BY <1>0
  <2>4. /\ i \in DOMAIN Append(write_set[a][s], e)
        /\ Append(write_set[a][s], e)[i] = write_set[a][s][i]
    BY <1>0, <2>3
  <2>5. QED
    BY <2>2, <2>4
<1>3. CASE \E o \in Objects : Deref(a, o) \/ TryLock(a, o)
  BY <1>3 DEF Deref, DerefActual, DerefOwnCopy, DerefLocked, logs,
              TryLock, TryLockOwn, TryLockBusy, TryLockFree
<1>4. CASE DerefSteal(a) \/ CasFails(a)
  BY <1>4 DEF DerefSteal, CasFails, logs
<1>5. \/ CasSucceeds(a) \/ DerefSteal(a) \/ CasFails(a)
      \/ \E o \in Objects : Deref(a, o) \/ TryLock(a, o)
  <2>1. ~EnterSection(a) /\ ~Checkpoint(a) /\ ~rlu_thread_finish(a)
    BY <1>1 DEF EnterSection, rlu_reader_lock, RegisterThread, ReadWriterVersion,
                ReadCommitVersion, Checkpoint, rlu_thread_finish, SectionLocs
  <2>2. ~LeaveSection(a)
    BY <1>0, <1>1 DEF LeaveSection, UnlockReader, UnlockWriter, rlu_abort, Goto, SectionLocs
  <2>3. ~Sync(a)
    BY <1>1 DEF Sync, SyncLoadVersion, SyncStoreVersion, SyncAdvanceGlobal, rlu_init_quiescence,
                rlu_wait_for_quiescence, ResetWriteSets, WritebackObject, WritebackDone,
                SyncCommit, SectionLocs
  <2>4. QED
    BY <2>1, <2>2, <2>3 DEF ThreadStep
<1>6. QED
  BY <1>2, <1>3, <1>4, <1>5

\* A section comes to hold the object, a copy of its own, or a copy it may
\* steal; its version is read before it opens.
LEMMA SectionStep ==
  ASSUME TypeOK, StealInv, NEW a \in Threads, ThreadStep(a)
  PROVE  /\ InSection(a) /\ InSection(a)' => local_version'[a] = local_version[a]
         /\ held'[a] # {} => InSection(a)'
         /\ \A h \in held'[a] :
              \/ h \in held[a] \/ h.ptr = ACTUAL
              \/ \E o \in Objects : DerefOwnCopy(a, o) /\ h = [obj |-> o, ptr |-> lock[o]]
              \/ DerefSteal(a) /\ CanSteal(a) /\ h = [obj |-> p_obj[a].obj, ptr |-> p_obj[a].ptr]
         /\ pc'[a] = "deref" => \E o \in Objects : DerefLocked(a, o)
<1>0. /\ pc \in [Threads -> Locs] /\ ret \in [Threads -> ReturnLocs]
      /\ local_version \in [Threads -> Nat] /\ held \in [Threads -> SUBSET Pointers]
      /\ held[a] # {} => pc[a] \in SectionLocs
      /\ pc[a] \in Locs
  BY Types, VersionTypes DEF StealInv, InSection
<1> DEFINE Goal ==
      /\ InSection(a) /\ InSection(a)' => local_version'[a] = local_version[a]
      /\ held'[a] # {} => InSection(a)'
      /\ \A h \in held'[a] :
           \/ h \in held[a] \/ h.ptr = ACTUAL
           \/ \E o \in Objects : DerefOwnCopy(a, o) /\ h = [obj |-> o, ptr |-> lock[o]]
           \/ DerefSteal(a) /\ CanSteal(a) /\ h = [obj |-> p_obj[a].obj, ptr |-> p_obj[a].ptr]
      /\ pc'[a] = "deref" => \E o \in Objects : DerefLocked(a, o)
<1>1. ASSUME EnterSection(a) PROVE Goal
  BY <1>0, <1>1
     DEF EnterSection, rlu_reader_lock, RegisterThread, ReadWriterVersion, ReadCommitVersion,
         rlu_sync_checkpoint, StartSync, Goto, versions, section, InSection, SectionLocs
<1>2. ASSUME NEW o \in Objects, DerefActual(a, o) PROVE Goal
  BY <1>0, <1>2 DEF DerefActual, Hold, versions, InSection, SectionLocs
<1>3. ASSUME NEW o \in Objects, DerefOwnCopy(a, o) PROVE Goal
  <2>1. UNCHANGED <<pc, local_version>> /\ held'[a] = held[a] \union {[obj |-> o, ptr |-> lock[o]]}
        /\ pc[a] = "section"
    BY <1>0, <1>3 DEF DerefOwnCopy, Hold, versions
  <2>2. QED
    BY <1>0, <1>3, <2>1 DEF InSection, SectionLocs
<1>4. ASSUME NEW o \in Objects, DerefLocked(a, o) PROVE Goal
  <2>1. UNCHANGED <<held, local_version>> /\ pc'[a] = "deref"
    BY <1>0, <1>4 DEF DerefLocked, Goto, versions
  <2>2. QED
    BY <1>0, <1>4, <2>1 DEF InSection, SectionLocs
<1>5. ASSUME NEW o \in Objects, TryLock(a, o) PROVE Goal
  <2>1. UNCHANGED <<held, local_version>> /\ pc'[a] \in {"section", "failed", "cas"}
    BY <1>0, <1>5 DEF TryLock, TryLockOwn, TryLockBusy, TryLockFree, Goto, versions, section
  <2>2. QED
    BY <1>0, <2>1 DEF InSection, SectionLocs
<1>6. ASSUME DerefSteal(a) PROVE Goal
  <2>1. /\ UNCHANGED local_version /\ pc'[a] = "section"
        /\ held'[a] = held[a] \union
             {[obj |-> p_obj[a].obj, ptr |-> IF CanSteal(a) THEN p_obj[a].ptr ELSE ACTUAL]}
    BY <1>0, <1>6 DEF DerefSteal, Hold, Goto, versions
  <2>2. QED
    BY <1>0, <1>6, <2>1 DEF InSection, SectionLocs
<1>7. ASSUME CasSucceeds(a) \/ CasFails(a) PROVE Goal
  <2>1. UNCHANGED <<held, local_version>> /\ pc'[a] \in {"section", "failed"}
    BY <1>0, <1>7 DEF CasSucceeds, CasFails, Goto, versions
  <2>2. QED
    BY <1>0, <2>1 DEF InSection, SectionLocs
<1>8. ASSUME LeaveSection(a) PROVE Goal
  <2>1. held'[a] = {} /\ pc'[a] \in {"checkpoint", "sync_load"}
    BY <1>0, <1>8 DEF LeaveSection, UnlockReader, UnlockWriter, rlu_abort, Unregister, Goto
  <2>2. QED
    BY <2>1 DEF InSection, SectionLocs
<1>9. ASSUME Checkpoint(a) \/ Sync(a) \/ rlu_thread_finish(a) PROVE Goal
  <2>1. UNCHANGED held /\ pc[a] \notin SectionLocs
    BY <1>9
       DEF Checkpoint, Sync, rlu_thread_finish, SyncLoadVersion, SyncStoreVersion,
           SyncAdvanceGlobal, rlu_init_quiescence, rlu_wait_for_quiescence, ResetWriteSets,
           WritebackObject, WritebackDone, SyncCommit, section, SectionLocs
  <2>2. held'[a] = {}
    BY <1>0, <2>1
  <2>3. pc'[a] # "deref"
    BY <1>0, <1>9
       DEF Checkpoint, Sync, rlu_thread_finish, rlu_sync_checkpoint, StartSync, AfterFinishSync,
           SyncLoadVersion, SyncStoreVersion, SyncAdvanceGlobal, rlu_init_quiescence,
           rlu_wait_for_quiescence, NextOther, ResetWriteSets, WritebackObject, WritebackDone,
           SyncCommit, Goto, ReturnLocs
  <2>4. QED
    BY <2>1, <2>2, <2>3 DEF InSection
<1>10. QED
  BY <1>1, <1>2, <1>3, <1>4, <1>5, <1>6, <1>7, <1>8, <1>9 DEF ThreadStep, Deref

\* Versions only grow, and a version is drawn ahead of every open section: a
\* step opens no copy of a to a section that could not steal it before.
LEMMA VersionStep ==
  ASSUME TypeOK, StealInv, NEW a \in Threads, ThreadStep(a)
  PROVE  /\ \A t \in Threads : Version(t)'
         /\ \A t \in Threads :
              local_version'[t] = local_version[t] /\ MayBeStolen(a, t)' => MayBeStolen(a, t)
<1>0. /\ pc \in [Threads -> Locs] /\ ret \in [Threads -> ReturnLocs]
      /\ local_version \in [Threads -> Nat] /\ writer_version \in [Threads -> Nat]
      /\ new_version \in [Threads -> Nat] /\ g_rlu_writer_version \in Nat
      /\ \A t \in Threads : /\ local_version[t] <= g_rlu_writer_version
                            /\ pc[t] \notin Publishing => writer_version[t] = MAX_VERSION
  BY Types, VersionTypes DEF StealInv, Version
<1> DEFINE Goal ==
      /\ \A t \in Threads : Version(t)'
      /\ \A t \in Threads :
           local_version'[t] = local_version[t] /\ MayBeStolen(a, t)' => MayBeStolen(a, t)
\* Steps outside the publication of a version.
<1>1. ASSUME UNCHANGED <<g_rlu_writer_version, local_version, writer_version, new_version>>,
             NEW loc, pc' = [pc EXCEPT ![a] = loc],
             \/ pc[a] \notin Publishing /\ loc \notin Publishing \union {"sync_store"}
             \/ pc[a] \in Publishing /\ loc \in Publishing
             \/ loc = pc[a]
      PROVE  Goal
  BY <1>0, <1>1 DEF Version, MayBeStolen, Publishing
<1>2. ASSUME rlu_reader_lock(a) \/ Checkpoint(a) \/ rlu_thread_finish(a) PROVE Goal
  <2>1. /\ UNCHANGED <<g_rlu_writer_version, local_version, writer_version, new_version>>
        /\ pc[a] \notin Publishing
        /\ \E loc \in {"register", "idle", "sync_load", "finish", "finished"} :
             pc' = [pc EXCEPT ![a] = loc]
    BY <1>2 DEF rlu_reader_lock, Checkpoint, rlu_thread_finish, rlu_sync_checkpoint, StartSync,
                AfterFinishSync, Goto, globals, versions, loops, Publishing
  <2>2. QED
    BY <1>1, <2>1 DEF Publishing
<1>3. ASSUME RegisterThread(a) \/ ReadCommitVersion(a) PROVE Goal
  <2>1. /\ UNCHANGED <<g_rlu_writer_version, local_version, writer_version, new_version>>
        /\ pc[a] \notin Publishing
        /\ \E loc \in {"read_version", "section"} : pc' = [pc EXCEPT ![a] = loc]
    BY <1>3 DEF RegisterThread, ReadCommitVersion, Goto, globals, versions, loops, Publishing
  <2>2. QED
    BY <1>1, <2>1 DEF Publishing
<1>4. ASSUME ReadWriterVersion(a) PROVE Goal
  <2>1. /\ UNCHANGED <<g_rlu_writer_version, writer_version, new_version>>
        /\ local_version' = [local_version EXCEPT ![a] = g_rlu_writer_version]
        /\ pc[a] = "read_version" /\ pc' = [pc EXCEPT ![a] = "read_commit"]
    BY <1>4 DEF ReadWriterVersion, Goto, globals, loops
  <2>2. QED
    BY <1>0, <2>1 DEF Version, MayBeStolen, Publishing
<1>5. ASSUME NEW o \in Objects, Deref(a, o) \/ TryLock(a, o) PROVE Goal
  <2>1. /\ UNCHANGED <<g_rlu_writer_version, local_version, writer_version, new_version>>
        /\ pc[a] = "section"
    BY <1>5 DEF Deref, DerefActual, DerefOwnCopy, DerefLocked, TryLock, TryLockOwn, TryLockBusy,
                TryLockFree, globals, versions, loops
  <2>2. \E loc \in {"section", "deref", "failed", "cas"} : pc' = [pc EXCEPT ![a] = loc]
    BY <1>0, <1>5, <2>1
       DEF Deref, DerefActual, DerefOwnCopy, DerefLocked, TryLock, TryLockOwn, TryLockBusy,
           TryLockFree, Goto
  <2>3. QED
    BY <1>1, <2>1, <2>2 DEF Publishing
<1>6. ASSUME DerefSteal(a) \/ CasSucceeds(a) \/ CasFails(a) PROVE Goal
  <2>1. /\ UNCHANGED <<g_rlu_writer_version, local_version, writer_version, new_version>>
        /\ pc[a] \notin Publishing
        /\ \E loc \in {"section", "failed"} : pc' = [pc EXCEPT ![a] = loc]
    BY <1>6 DEF DerefSteal, CasSucceeds, CasFails, Goto, globals, versions, loops, Publishing
  <2>2. QED
    BY <1>1, <2>1 DEF Publishing
<1>7. ASSUME LeaveSection(a) PROVE Goal
  <2>1. /\ UNCHANGED <<g_rlu_writer_version, local_version, writer_version, new_version>>
        /\ pc[a] \notin Publishing
        /\ \E loc \in {"checkpoint", "sync_load"} : pc' = [pc EXCEPT ![a] = loc]
    BY <1>7 DEF LeaveSection, UnlockReader, UnlockWriter, rlu_abort, Goto, globals, loops,
                Publishing
  <2>2. QED
    BY <1>1, <2>1 DEF Publishing
<1>8. ASSUME SyncLoadVersion(a) PROVE Goal
  <2>1. /\ UNCHANGED <<g_rlu_writer_version, local_version, writer_version>>
        /\ new_version' = [new_version EXCEPT ![a] = g_rlu_writer_version + 1]
        /\ pc[a] = "sync_load" /\ pc' = [pc EXCEPT ![a] = "sync_store"]
    BY <1>8 DEF SyncLoadVersion, Goto, globals, versions
  <2>2. QED
    BY <1>0, <2>1 DEF Version, MayBeStolen, Publishing
<1>9. ASSUME SyncStoreVersion(a) PROVE Goal
  <2>1. /\ UNCHANGED <<g_rlu_writer_version, local_version, new_version>>
        /\ writer_version' = [writer_version EXCEPT ![a] = new_version[a]]
        /\ pc[a] = "sync_store" /\ pc' = [pc EXCEPT ![a] = "sync_faa"]
    BY <1>9 DEF SyncStoreVersion, Goto, globals, versions, loops
  <2>2. QED
    BY <1>0, <2>1 DEF Version, MayBeStolen, Publishing
<1>10. ASSUME SyncAdvanceGlobal(a) PROVE Goal
  <2>1. /\ UNCHANGED <<local_version, writer_version>>
        /\ g_rlu_writer_version' = g_rlu_writer_version + 1
        /\ pc[a] = "sync_faa" /\ pc' = [pc EXCEPT ![a] = "q_init"]
    BY <1>10 DEF SyncAdvanceGlobal, Goto, versions
  <2>2. QED
    BY <1>0, <2>1 DEF Version, MayBeStolen, Publishing
<1>11. ASSUME \/ rlu_init_quiescence(a) \/ rlu_wait_for_quiescence(a) \/ ResetWriteSets(a)
              \/ WritebackObject(a)
       PROVE  Goal
  <2>1. /\ UNCHANGED <<g_rlu_writer_version, local_version, writer_version, new_version>>
        /\ pc[a] \in Publishing
    BY <1>11 DEF rlu_init_quiescence, rlu_wait_for_quiescence, ResetWriteSets, WritebackObject,
                 globals, versions, Publishing
  <2>2. \E loc \in Publishing : pc' = [pc EXCEPT ![a] = loc]
    BY <1>0, <1>11
       DEF rlu_init_quiescence, rlu_wait_for_quiescence, NextOther, ResetWriteSets,
           WritebackObject, Goto, Publishing
  <2>3. QED
    BY <1>1, <2>1, <2>2
<1>12. ASSUME WritebackDone(a) PROVE Goal
  <2>1. /\ UNCHANGED <<g_rlu_writer_version, local_version, new_version>>
        /\ writer_version' = [writer_version EXCEPT ![a] = MAX_VERSION]
        /\ pc[a] = "writeback" /\ pc' = [pc EXCEPT ![a] = "commit"]
    BY <1>12 DEF WritebackDone, Goto, globals, versions
  <2>2. QED
    BY <1>0, <2>1 DEF Version, MayBeStolen, Publishing
<1>13. ASSUME SyncCommit(a) PROVE Goal
  <2>1. /\ UNCHANGED <<g_rlu_writer_version, local_version, writer_version, new_version>>
        /\ pc[a] = "commit" /\ pc' = [pc EXCEPT ![a] = ret[a]] /\ ret[a] \in ReturnLocs
    BY <1>0, <1>13 DEF SyncCommit, Goto, versions, loops
  <2>2. QED
    BY <1>1, <2>1 DEF Publishing, ReturnLocs
<1>14. QED
  BY <1>2, <1>3, <1>4, <1>5, <1>6, <1>7, <1>8, <1>9, <1>10, <1>11, <1>12, <1>13
     DEF ThreadStep, EnterSection, Sync

\* What a section holds stays: of its own logs because they only grow, of
\* another thread's because a reset of the write set has waited for the section.
LEMMA HeldCopyStays ==
  ASSUME TypeOK, RingInv, GraceInv, StealInv, NEW a \in Threads, ThreadStep(a),
         NEW t \in Threads, InSection(t), InSection(t)',
         local_version'[t] = local_version[t],
         NEW h \in held[t]
  PROVE  /\ HeldCopy(t, h)'
         /\ h.ptr # ACTUAL => LogEntry(h.ptr)' = LogEntry(h.ptr)
<1> SUFFICES ASSUME h.ptr # ACTUAL
             PROVE  HeldCopy(t, h)' /\ LogEntry(h.ptr)' = LogEntry(h.ptr)
  BY DEF HeldCopy
<1>0. PICK u, s, i : u = h.ptr.thread /\ s = h.ptr.ws /\ i = h.ptr.idx
  OBVIOUS
<1>1. u \in Threads /\ s \in Slots
  <2>1. h \in Pointers
    BY VersionTypes
  <2>2. h.ptr \in LogPtrs
    BY <2>1 DEF Pointers
  <2>3. QED
    BY <1>0, <2>2 DEF LogPtrs
<1>2. i \in DOMAIN write_set[u][s] /\ write_set[u][s][i].obj = h.obj
  BY <1>0 DEF StealInv, HeldCopy, Names, LogEntry
<1>3. ASSUME i \in DOMAIN write_set'[u][s], write_set'[u][s][i] = write_set[u][s][i]
      PROVE  Names(h.obj, h.ptr)' /\ LogEntry(h.ptr)' = LogEntry(h.ptr)
  BY <1>0, <1>2, <1>3 DEF Names, LogEntry
<1>4. CASE u = t
  <2>1. i \in DOMAIN write_set'[u][s] /\ write_set'[u][s][i] = write_set[u][s][i]
    BY <1>1, <1>2, <1>4, OwnLogsGrow, OthersStay DEF Others
  <2>2. QED
    BY <1>0, <1>2, <1>3, <1>4, <2>1 DEF HeldCopy
<1>5. CASE u # t
  <2>1. PICK c \in ws_head_counter[u] .. ws_tail_counter[u] - 1 :
          s = WS_INDEX(c) /\ (c < ws_wb_counter[u] => ~MayBeStolen(u, t))
    BY <1>0, <1>5 DEF StealInv, HeldCopy
  <2>2. /\ c \in ws_head_counter'[u] .. ws_tail_counter'[u] - 1
        /\ write_set'[u][s] = write_set[u][s]
        /\ c < ws_wb_counter'[u] => ~MayBeStolen(u, t)'
    <3>1. CASE u # a
      <4>1. /\ pc'[u] = pc[u] /\ writer_version'[u] = writer_version[u]
            /\ new_version'[u] = new_version[u] /\ write_set'[u] = write_set[u]
            /\ ws_head_counter'[u] = ws_head_counter[u] /\ ws_wb_counter'[u] = ws_wb_counter[u]
            /\ ws_tail_counter'[u] = ws_tail_counter[u]
        BY <1>1, <3>1, OthersStay DEF Others
      <4>2. MayBeStolen(u, t)' <=> MayBeStolen(u, t)
        BY <4>1 DEF MayBeStolen
      <4>3. QED
        BY <2>1, <4>1, <4>2
    <3>2. CASE u = a
      <4>1. ~(pc[a] = "reset_logs" /\ c < ws_wb_counter[a])
        <5>1. SUFFICES ASSUME pc[a] = "reset_logs", c < ws_wb_counter[a] PROVE FALSE
          OBVIOUS
        <5>2. local_version[t] >= writer_version[a]
          BY <1>5, <3>2, <5>1, GraceInvImpliesGracePeriod DEF GracePeriod
        <5>3. MayBeStolen(a, t)
          BY <5>1, <5>2, VersionTypes DEF MayBeStolen, Publishing
        <5>4. QED
          BY <2>1, <3>2, <5>1, <5>3
      <4>2. /\ c < ws_tail_counter'[a] /\ c >= ws_head_counter'[a]
            /\ c < ws_wb_counter'[a] => c < ws_wb_counter[a] \/ pc'[a] = "commit"
            /\ write_set'[a][s] = write_set[a][s]
        BY <2>1, <3>2, <4>1, CommittedCopiesStay DEF CommittedStay
      <4>3. MayBeStolen(a, t)' => MayBeStolen(a, t) /\ pc'[a] # "commit"
        BY VersionStep DEF MayBeStolen, Publishing
      <4>4. /\ c \in Int /\ ws_tail_counter'[a] \in Int /\ ws_head_counter'[a] \in Int
        <5>1. TypeOK'
          BY StepTypeOK DEF Next
        <5>2. QED
          BY <2>1, <3>2, <5>1, Types DEF TypeOK, LogTypes
      <4>5. QED
        BY <2>1, <3>2, <4>2, <4>3, <4>4
    <3>3. QED
      BY <3>1, <3>2
  <2>3. QED
    BY <1>0, <1>2, <1>3, <2>1, <2>2 DEF HeldCopy
<1>6. QED
  BY <1>4, <1>5

\* A copy of an earlier section of its own.
LEMMA OwnCopyHeld ==
  ASSUME TypeOK, LockInv, NEW t \in Threads, NEW o \in Objects, DerefOwnCopy(t, o),
         NEW h, h = [obj |-> o, ptr |-> lock[o]]
  PROVE  HeldCopy(t, h)'
<1>1. lock[o] # NULL /\ lock[o].thread = t /\ UNCHANGED write_set
  BY DEF DerefOwnCopy, logs
<1>2. Names(o, lock[o])
  BY <1>1, LockInvImpliesLocksMatchLogs DEF LocksMatchLogs
<1>3. h.obj = o /\ h.ptr = lock[o]
  OBVIOUS
<1>4. Names(h.obj, h.ptr)'
  BY <1>1, <1>2, <1>3 DEF Names, LogEntry
<1>5. QED
  BY <1>1, <1>3, <1>4 DEF HeldCopy

\* A stolen copy: its owner has drawn its version and not finished writing back.
LEMMA StolenCopyHeld ==
  ASSUME TypeOK, RingInv, StealInv, VersionsFit, NEW t \in Threads, DerefSteal(t), CanSteal(t),
         NEW h, h = [obj |-> p_obj[t].obj, ptr |-> p_obj[t].ptr]
  PROVE  HeldCopy(t, h)'
<1>0. PICK p, u : p = p_obj[t].ptr /\ u = p.thread
  OBVIOUS
<1>1. pc[t] = "deref" /\ UNCHANGED logs
  BY DEF DerefSteal
<1>2. p \in LogPtrs /\ u \in Threads /\ u # t
  BY <1>0, <1>1 DEF StealInv, PendingCopy, LogPtrs
<1>3. MayBeStolen(u, t)
  <2>1. writer_version[u] <= local_version[t] /\ local_version[t] <= g_rlu_writer_version
    BY <1>0 DEF CanSteal, StealInv, Version
  <2>2. writer_version[u] # MAX_VERSION
    BY <1>2, <2>1, VersionTypes, BoundAssumption DEF VersionsFit
  <2>3. pc[u] \in Publishing
    BY <1>2, <2>2 DEF StealInv, Version
  <2>4. QED
    BY <2>1, <2>3 DEF MayBeStolen
<1>4. /\ \E c \in ws_wb_counter[u] .. ws_tail_counter[u] - 1 : p.ws = WS_INDEX(c)
      /\ Names(p_obj[t].obj, p)
  <2>1. PendingCopy(t)
    BY DEF StealInv
  <2>2. QED
    BY <1>0, <1>1, <1>3, <2>1 DEF PendingCopy
<1>5. PICK c \in ws_wb_counter[u] .. ws_tail_counter[u] - 1 : p.ws = WS_INDEX(c)
  BY <1>4
<1>6. h.obj = p_obj[t].obj /\ h.ptr = p /\ Names(h.obj, h.ptr)'
  BY <1>0, <1>1, <1>4 DEF Names, LogEntry, logs
<1>7. /\ c \in ws_head_counter'[u] .. ws_tail_counter'[u] - 1 /\ ~(c < ws_wb_counter'[u])
  <2>1. ws_head_counter[u] <= ws_wb_counter[u]
    BY <1>2 DEF RingInv, RingCounters
  <2>2. /\ ws_head_counter[u] \in Nat /\ ws_wb_counter[u] \in Nat /\ ws_tail_counter[u] \in Nat
    BY <1>2, Types
  <2>3. c \in ws_head_counter[u] .. ws_tail_counter[u] - 1 /\ ~(c < ws_wb_counter[u])
    BY <1>5, <2>1, <2>2
  <2>4. QED
    BY <1>1, <2>3 DEF logs
<1>8. QED
  BY <1>0, <1>5, <1>6, <1>7 DEF HeldCopy

\* The header found locked is an owned entry; a committed one if its owner is
\* publishing.
LEMMA LockedCopyPending ==
  ASSUME TypeOK, RingInv, LockInv, NEW t \in Threads, NEW o \in Objects, DerefLocked(t, o)
  PROVE  PendingCopy(t)'
<1>1. /\ lock[o] # NULL /\ lock[o].thread # t /\ pc[t] = "section"
      /\ p_obj' = [p_obj EXCEPT ![t] = [obj |-> o, ptr |-> lock[o]]]
      /\ pc' = [pc EXCEPT ![t] = "deref"]
      /\ UNCHANGED <<lock, logs, writer_version, new_version, local_version>>
  BY DEF DerefLocked, Goto, memory, versions, loops
<1>2. p_obj'[t].obj = o /\ p_obj'[t].ptr = lock[o]
  BY <1>1, VersionTypes
<1>3. PICK u \in Threads, c \in Nat, i \in Nat :
        /\ Owned(u, c, i) /\ EntryAt(u, c, i).obj = o
        /\ lock[o] = Address(u, c, i) /\ lock[o].thread = u
        /\ LogEntry(lock[o]) = EntryAt(u, c, i)
  BY <1>1, HeaderEntry
<1>4. lock[o] \in LogPtrs /\ lock[o].ws = WS_INDEX(c)
  BY <1>1, <1>3, Types DEF Address
<1>5. Names(o, lock[o])'
  <2>1. Names(o, lock[o])
    BY <1>1, LockInvImpliesLocksMatchLogs DEF LocksMatchLogs
  <2>2. lock'[o] = lock[o] /\ write_set' = write_set
    BY <1>1 DEF logs
  <2>3. QED
    BY <2>1, <2>2 DEF Names, LogEntry
<1>6. ASSUME MayBeStolen(u, t)'
      PROVE  c \in ws_wb_counter'[u] .. ws_tail_counter'[u] - 1
  <2>1. pc[u] \in SyncLocs
    BY <1>1, <1>3, <1>6, Types DEF MayBeStolen, Publishing, SyncLocs
  <2>2. c # ws_tail_counter[u]
    <3>1. Owned(u, c, i)
      BY <1>3
    <3>2. ~InSection(u)
      BY <2>1, Zenon DEF InSection, SyncLocs, SectionLocs
    <3>3. QED
      BY <3>1, <3>2, OpenEntries
  <2>3. /\ ws_wb_counter[u] \in Nat /\ ws_tail_counter[u] \in Nat
        /\ c \in ws_wb_counter[u] .. ws_tail_counter[u]
    <3>1. Owned(u, c, i)
      BY <1>3
    <3>2. QED
      BY <3>1, Types DEF Owned
  <2>4. c \in ws_wb_counter[u] .. ws_tail_counter[u] - 1
    BY <2>2, <2>3
  <2>5. QED
    BY <1>1, <2>4 DEF logs
<1>7. lock'[o] = lock[o]
  BY <1>1
<1>8. QED
  BY <1>1, <1>2, <1>3, <1>4, <1>5, <1>6, <1>7 DEF PendingCopy, Names, LogEntry

\* Between reading a locked header and deciding on it.
LEMMA PendingCopyStays ==
  ASSUME TypeOK, RingInv, StealInv, NEW a \in Threads, ThreadStep(a),
         NEW t \in Threads \ {a}, pc[t] = "deref",
         NEW p, p = p_obj[t].ptr
  PROVE  /\ PendingCopy(t)'
         /\ MayBeStolen(p.thread, t)' =>
              MayBeStolen(p.thread, t) /\ LogEntry(p)' = LogEntry(p)
<1>0. /\ pc'[t] = pc[t] /\ p_obj'[t] = p_obj[t] /\ local_version'[t] = local_version[t]
  BY OthersStay DEF Others
<1>1. PICK u, s, i, o : /\ u = p.thread /\ s = p.ws /\ i = p.idx
                        /\ o = p_obj[t].obj
  OBVIOUS
<1>2. p \in LogPtrs /\ u \in Threads /\ u # t
  BY <1>1 DEF StealInv, PendingCopy, LogPtrs
<1>3. ASSUME MayBeStolen(u, t)'
      PROVE  /\ MayBeStolen(u, t)
             /\ i \in DOMAIN write_set'[u][s] /\ write_set'[u][s][i].obj = o
             /\ write_set'[u][s][i] = write_set[u][s][i]
             /\ \E c \in ws_wb_counter'[u] .. ws_tail_counter'[u] - 1 : s = WS_INDEX(c)
  <2>1. MayBeStolen(u, t)
    <3>1. CASE u = a
      BY <1>0, <1>3, <3>1, VersionStep
    <3>2. CASE u # a
      <4>1. /\ pc'[u] = pc[u] /\ writer_version'[u] = writer_version[u]
            /\ new_version'[u] = new_version[u]
        <5>1. Others(a)
          BY OthersStay
        <5>2. QED
          BY <1>2, <3>2, <5>1 DEF Others
      <4>2. QED
        BY <1>0, <1>3, <4>1 DEF MayBeStolen
    <3>3. QED
      BY <3>1, <3>2
  <2>2. i \in DOMAIN write_set[u][s] /\ write_set[u][s][i].obj = o
    BY <1>1, <2>1 DEF StealInv, PendingCopy, Names, LogEntry
  <2>3. PICK c \in ws_wb_counter[u] .. ws_tail_counter[u] - 1 : s = WS_INDEX(c)
    BY <1>1, <2>1 DEF StealInv, PendingCopy
  <2>4. CASE u # a
    <3>1. /\ ws_wb_counter'[u] = ws_wb_counter[u] /\ ws_tail_counter'[u] = ws_tail_counter[u]
          /\ write_set'[u] = write_set[u]
      BY <1>2, <2>4, OthersStay DEF Others
    <3>2. QED
      BY <2>1, <2>2, <2>3, <3>1
  <2>5. CASE u = a
    <3>0. /\ ws_head_counter[a] \in Nat /\ ws_wb_counter[a] \in Nat /\ ws_tail_counter[a] \in Nat
          /\ ws_head_counter[a] <= ws_wb_counter[a]
          /\ c \in ws_wb_counter[a] .. ws_tail_counter[a] - 1
      BY <2>3, <2>5, Types DEF RingInv, RingCounters
    <3>1. c \in ws_head_counter[a] .. ws_tail_counter[a] - 1 /\ ~(c < ws_wb_counter[a])
      BY <3>0
    <3>2. pc'[a] # "commit"
      BY <1>3, <2>5 DEF MayBeStolen, Publishing
    <3>3. /\ c < ws_tail_counter'[a] /\ ~(c < ws_wb_counter'[a])
          /\ write_set'[a][s] = write_set[a][s]
      BY <2>3, <3>1, <3>2, CommittedCopiesStay DEF CommittedStay
    <3>4. TypeOK'
      BY StepTypeOK DEF Next
    <3>5. ws_wb_counter'[a] \in Nat /\ ws_tail_counter'[a] \in Nat
      BY <3>4 DEF TypeOK, LogTypes
    <3>6. c \in ws_wb_counter'[a] .. ws_tail_counter'[a] - 1
      BY <3>0, <3>3, <3>5
    <3>7. QED
      BY <2>1, <2>2, <2>3, <2>5, <3>3, <3>6
  <2>6. QED
    BY <2>4, <2>5
<1>4. p_obj'[t].ptr = p /\ p_obj'[t].obj = o
  BY <1>0, <1>1
<1>5. LogEntry(p) = write_set[u][s][i] /\ LogEntry(p)' = write_set'[u][s][i]
  BY <1>1, Zenon DEF LogEntry
<1>6. MayBeStolen(u, t)' => Names(o, p)'
  BY <1>1, <1>3, <1>5, Zenon DEF Names
<1>7. PendingCopy(t)'
  BY <1>1, <1>2, <1>3, <1>4, <1>6, Zenon DEF PendingCopy, MayBeStolen, Names, LogEntry
<1>8. QED
  BY <1>1, <1>3, <1>5, <1>7, Zenon

LEMMA StepStealInv ==
  /\ TypeOK /\ RingInv /\ LockInv /\ GraceInv /\ StealInv
  /\ VersionsFit /\ [Next]_vars
  => StealInv'
<1> SUFFICES ASSUME TypeOK, RingInv, LockInv, GraceInv, StealInv, VersionsFit, [Next]_vars
             PROVE  StealInv'
  OBVIOUS
<1>1. ASSUME NEW a \in Threads, ThreadStep(a) PROVE StealInv'
  <2>1. ASSUME NEW t \in Threads PROVE Version(t)'
    BY <1>1, VersionStep
  <2>2. ASSUME NEW t \in Threads PROVE PendingCopy(t)'
    <3>1. CASE t # a
      <4>1. CASE pc[t] = "deref"
        BY <1>1, <3>1, <4>1, PendingCopyStays
      <4>2. CASE pc[t] # "deref"
        BY <1>1, <3>1, <4>2, OthersStay DEF Others, PendingCopy
      <4>3. QED
        BY <4>1, <4>2
    <3>2. CASE t = a /\ pc'[a] = "deref"
      BY <1>1, <3>2, SectionStep, LockedCopyPending
    <3>3. CASE t = a /\ pc'[a] # "deref"
      BY <3>3 DEF PendingCopy
    <3>4. QED
      BY <3>1, <3>2, <3>3
  <2>3. ASSUME NEW t \in Threads, NEW h \in held'[t]
        PROVE  InSection(t)' /\ HeldCopy(t, h)'
    <3>1. CASE t # a
      <4>1. /\ pc'[t] = pc[t] /\ held'[t] = held[t] /\ local_version'[t] = local_version[t]
        BY <1>1, <3>1, OthersStay DEF Others
      <4>2. h \in held[t] /\ InSection(t) /\ InSection(t)'
        BY <2>3, <4>1 DEF StealInv, InSection
      <4>3. QED
        BY <1>1, <4>1, <4>2, HeldCopyStays
    <3>2. CASE t = a
      <4>1. InSection(a)'
        BY <1>1, <2>3, <3>2, SectionStep
      <4>2. CASE h \in held[a]
        <5>1. InSection(a) /\ local_version'[a] = local_version[a]
          BY <1>1, <4>1, <4>2, SectionStep DEF StealInv
        <5>2. QED
          BY <1>1, <3>2, <4>1, <4>2, <5>1, HeldCopyStays
      <4>3. CASE h.ptr = ACTUAL
        BY <3>2, <4>1, <4>3 DEF HeldCopy
      <4>4. CASE \E o \in Objects : DerefOwnCopy(a, o) /\ h = [obj |-> o, ptr |-> lock[o]]
        BY <3>2, <4>1, <4>4, OwnCopyHeld
      <4>5. CASE DerefSteal(a) /\ CanSteal(a) /\ h = [obj |-> p_obj[a].obj, ptr |-> p_obj[a].ptr]
        BY <3>2, <4>1, <4>5, StolenCopyHeld
      <4>6. QED
        BY <1>1, <2>3, <3>2, <4>2, <4>3, <4>4, <4>5, SectionStep
    <3>3. QED
      BY <3>1, <3>2
  <2>4. QED
    BY <2>1, <2>2, <2>3 DEF StealInv
<1>2. CASE UNCHANGED vars
  <2>1. UNCHANGED <<pc, lock, held, p_obj, g_rlu_writer_version, local_version, writer_version,
                    new_version, ws_head_counter, ws_wb_counter, ws_tail_counter, write_set>>
    BY <1>2 DEF vars, globals, memory, versions, logs, loops, section
  <2>2. \A t \in Threads : \A u : MayBeStolen(u, t)' <=> MayBeStolen(u, t)
    BY <2>1, Zenon DEF MayBeStolen
  <2>3. \A t \in Threads : /\ Version(t)' /\ PendingCopy(t)'
                           /\ held'[t] # {} => InSection(t)'
    BY <2>1, <2>2 DEF StealInv, Version, PendingCopy, InSection, Names, LogEntry
  <2>4. ASSUME NEW t \in Threads, NEW h \in held'[t] PROVE HeldCopy(t, h)'
    BY <2>1, <2>2, <2>4 DEF StealInv, HeldCopy, Names, LogEntry
  <2>5. QED
    BY <2>3, <2>4 DEF StealInv
<1>3. QED
  BY <1>1, <1>2 DEF Next, Terminated

\* In every execution in which versions fit, the log a section stole a copy
\* from still describes the object for as long as the section is open: "The
\* other thread is going to wait for this thread to finish before reusing the
\* write-set log" (rlu.c:839).
THEOREM StolenLogsStay == Spec /\ []VersionsFit => []StolenLogNotReused
<1> DEFINE Inv == TypeOK /\ RingInv /\ LockInv /\ GraceInv /\ StealInv
<1>1. Init => Inv
  BY InitTypeOK, InitRingInv, InitLockInv, InitGraceInv, InitStealInv
<1>2. Inv /\ VersionsFit /\ [Next]_vars => Inv'
  BY StepTypeOK, StepRingInv, StepLockInv, StepGraceInv, StepStealInv
<1>3. Inv => StolenLogNotReused
  BY StealInvImpliesStolenLogNotReused
<1>4. QED
  BY <1>1, <1>2, <1>3, PTL DEF Spec
==============================================================================
