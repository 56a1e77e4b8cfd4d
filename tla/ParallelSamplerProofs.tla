----------------------- MODULE ParallelSamplerProofs -----------------------
(***************************************************************************)
(* ParallelSampler for every graph, every list of batches, every number of *)
(* threads and of layers: the pointers, and what a batch finds, which is   *)
(* for every root its own latest neighbours, under its own number.         *)
(***************************************************************************)
EXTENDS ParallelSampler, FiniteSetTheorems, TLAPS

----------------------------------------------------------------------------
(* The static schedule *)

\* Quotient and remainder.
LEMMA DivMod ==
  ASSUME NEW x \in Nat, NEW c \in Nat \ {0}
  PROVE  /\ x \div c \in Nat /\ x % c \in 0 .. c - 1
         /\ c * (x \div c) <= x /\ x < c * (x \div c) + c
  OBVIOUS

\* The chunk of a loop is never empty.
LEMMA ChunkPositive ==
  ASSUME NEW n \in Nat \ {0}
  PROVE  Chunk(n) \in Nat \ {0}
  <1> DEFINE x == Float(n) + NumThreads - 1
  <1>1. Float(n) \in Nat \ {0}
    BY SamplerAssumption DEF Float
  <1>2. x \in Nat /\ x >= NumThreads
    BY <1>1, SamplerAssumption
  <1>3. x \div NumThreads \in Nat /\ x < NumThreads * (x \div NumThreads) + NumThreads
    BY <1>2, DivMod, SamplerAssumption
  <1>4. x \div NumThreads # 0
    BY <1>2, <1>3, SamplerAssumption
  <1> QED
    BY <1>3, <1>4 DEF Chunk

\* Every iteration is some thread's, also when the chunk is too small.
LEMMA ShareCovers ==
  ASSUME NEW n \in Nat
  PROVE  /\ Share(n) \in [Threads -> SUBSET (1 .. n)]
         /\ \A i \in 1 .. n : \E t \in Threads : i \in Share(n)[t]
  <1>1. Share(n) \in [Threads -> SUBSET (1 .. n)]
    BY DEF Share
  <1>2. ASSUME NEW i \in 1 .. n
        PROVE  \E t \in Threads : i \in Share(n)[t]
    <2> DEFINE q == (i - 1) \div Chunk(n)
    <2>1. n \in Nat \ {0} /\ i - 1 \in Nat
      OBVIOUS
    <2>2. q \in Nat
      BY <2>1, ChunkPositive, DivMod
    <2>3. q % NumThreads \in Threads
      BY <2>2, DivMod, SamplerAssumption DEF Threads
    <2> HIDE DEF q
    <2>4. i \in Share(n)[q % NumThreads]
      BY <2>3 DEF Share, q
    <2> QED
      BY <2>3, <2>4
  <1> QED
    BY <1>1, <1>2

----------------------------------------------------------------------------
(* The graph *)

\* What the assumption says of the input.
LEMMA InputType ==
  ASSUME input \in Inputs
  PROVE  /\ IsGraph(graph) /\ input.batches \in Seq(Seq(Root))
         /\ graph.indptr \in [0 .. NumNodes -> Nat]
         /\ graph.ts \in [DOMAIN graph.ts -> Nat]
         /\ graph.indices \in [DOMAIN graph.ts -> Nodes]
         /\ \A n \in Nodes :
              /\ graph.indptr[n] \in Nat /\ graph.indptr[n + 1] \in Nat
              /\ graph.indptr[n] <= graph.indptr[n + 1]
              /\ Slice(graph, n) \subseteq DOMAIN graph.ts
              /\ \A k \in Slice(graph, n) : graph.ts[k] \in Nat
              /\ \A j, k \in Slice(graph, n) : j <= k => graph.ts[j] <= graph.ts[k]
  <1>1. IsGraph(graph) /\ input.batches \in Seq(Seq(Root))
    BY SamplerAssumption DEF graph
  <1>2. \A n \in Nodes : n \in 0 .. NumNodes /\ n + 1 \in 0 .. NumNodes
    BY SamplerAssumption DEF Nodes
  <1>3. /\ graph.indptr \in [0 .. NumNodes -> Nat]
        /\ graph.ts \in [DOMAIN graph.ts -> Nat]
        /\ graph.indices \in [DOMAIN graph.ts -> Nodes]
    BY <1>1 DEF IsGraph
  <1>4. ASSUME NEW n \in Nodes
        PROVE  /\ graph.indptr[n] \in Nat /\ graph.indptr[n + 1] \in Nat
               /\ graph.indptr[n] <= graph.indptr[n + 1]
               /\ Slice(graph, n) \subseteq DOMAIN graph.ts
               /\ \A j, k \in Slice(graph, n) : j <= k => graph.ts[j] <= graph.ts[k]
    <2>1. graph.indptr[n] \in Nat /\ graph.indptr[n + 1] \in Nat
      BY <1>2, <1>3
    <2> QED
      BY <1>1, <2>1 DEF IsGraph
  <1> QED
    BY <1>1, <1>3, <1>4

\* No entry beyond pointer p of node n is before time t.
CoversFrom(p, n, t) == \A k \in Slice(graph, n) : k > p => graph.ts[k] >= t

\* What the loop under the lock does to a pointer: it moves forward, stays among
\* the entries and leaves behind it all that are before t.
LEMMA AdvancedCovers ==
  ASSUME input \in Inputs, NEW n \in Nodes, NEW t \in Nat, NEW p \in Nat,
         p \in Slice(graph, n) \/ p = graph.indptr[n],
         NEW q \in p .. graph.indptr[n + 1], Advanced(n, t, p, q)
  PROVE  /\ q \in Nat /\ p <= q
         /\ q \in Slice(graph, n) \/ q = graph.indptr[n]
         /\ CoversFrom(q, n, t)
  <1> DEFINE S == Slice(graph, n)
             l == graph.indptr[n]
             r == graph.indptr[n + 1]
  <1>1. /\ l \in Nat /\ r \in Nat /\ l <= r /\ S = l .. r - 1
        /\ \A k \in S : graph.ts[k] \in Nat
        /\ \A j, k \in S : j <= k => graph.ts[j] <= graph.ts[k]
    BY InputType DEF Slice
  <1>2. p \in S \/ p = l
    OBVIOUS
  <1>3. q \in p .. r
    OBVIOUS
  <1>4. \A k \in S : Beyond(k, t) => graph.ts[k] >= t
    BY <1>1, SamplerAssumption DEF Beyond
  <1>5. \/ q = p /\ (p \in S => Beyond(p, t))
        \/ q \in p .. r - 1 /\ (q + 1 < r => Beyond(q + 1, t))
    BY DEF Advanced
  <1> HIDE DEF S, l, r
  <1>6. q \in Nat /\ p <= q /\ p >= l
    BY <1>1, <1>2, <1>3
  <1>7. q \in S \/ q = l
    BY <1>1, <1>2, <1>3, <1>5
  <1>8. ASSUME NEW k \in S, k > q PROVE graph.ts[k] >= t
    <2>1. CASE q = p /\ p \in S /\ Beyond(p, t)
      BY <1>1, <1>4, <1>8, <2>1
    <2>2. CASE q = p /\ p \notin S
      BY <1>1, <1>2, <1>8, <2>2
    <2>3. CASE q \in p .. r - 1 /\ (q + 1 < r => Beyond(q + 1, t))
      <3>1. q + 1 \in S /\ q + 1 <= k /\ q + 1 < r
        BY <1>1, <1>6, <1>8, <2>3
      <3>2. graph.ts[q + 1] >= t
        BY <1>4, <2>3, <3>1
      <3> QED
        BY <1>1, <3>1, <3>2
    <2> QED
      BY <1>5, <2>1, <2>2, <2>3
  <1> QED
    BY <1>6, <1>7, <1>8 DEF CoversFrom, S, l

----------------------------------------------------------------------------
(* The inductive invariant of the pointers *)

Node(i) == roots[i].node

\* The parts of SamplerTypeOK, by what changes together.
Entry == [row : Nat, entry : DOMAIN graph.ts]
ControlType ==
  /\ calls \in 0 .. Len(input.batches) /\ layer \in 0 .. Layers
  /\ loop \in {"none", "pointers", "sample"}
PointerType ==
  /\ tsPtr \in [Nodes -> Nat]
  /\ \A n \in Nodes : tsPtr[n] \in Slice(graph, n) \/ tsPtr[n] = graph.indptr[n]
LoopType == roots \in Seq(Root) /\ todo \in [Threads -> SUBSET (1 .. Len(roots))]
HeldType == held \in [Threads -> [root : Nat, from : Nat]]
PartsType ==
  /\ rows \in [Threads -> Seq(Entry)] /\ outs \in [Threads -> Nat]
  /\ joined \in 0 .. NumThreads /\ base \in Nat /\ found \in Seq(Entry)

\* A thread that holds a lock works on its own root, and the pointer is still the
\* one it has read; no two threads hold the lock of one node.
LockInv ==
  /\ \A t \in Threads : held[t] # None =>
       /\ loop = "pointers" /\ held[t].root \in todo[t]
       /\ held[t].from = tsPtr[Node(held[t].root)]
  /\ \A s, t \in Threads : s # t /\ held[s] # None /\ held[t] # None =>
       Node(held[s].root) # Node(held[t].root)

\* A root that no thread has before it any more is served by its pointer.
DoneInv ==
  loop = "pointers" =>
    \A i \in 1 .. Len(roots) :
      (\E t \in Threads : i \in todo[t]) \/ CoversFrom(tsPtr[Node(i)], Node(i), roots[i].ts)

PInv ==
  /\ input \in Inputs /\ ControlType /\ PointerType /\ LoopType /\ HeldType /\ PartsType
  /\ LockInv /\ DoneInv /\ PointersCover

\* The parts together.
LEMMA TypeIs ==
  SamplerTypeOK <=> ControlType /\ PointerType /\ LoopType /\ HeldType /\ PartsType
  BY DEF SamplerTypeOK, ControlType, PointerType, LoopType, HeldType, PartsType, Entry

\* A step that leaves the pointers alone keeps their type.
LEMMA KeepPointers == ASSUME PointerType, UNCHANGED <<input, tsPtr>> PROVE PointerType'
  BY DEF PointerType, Slice, graph

\* A step that leaves roots and iterations alone keeps their types.
LEMMA KeepLoop == ASSUME LoopType, UNCHANGED <<roots, todo>> PROVE LoopType'
  BY DEF LoopType

\* A step that leaves the threads' results alone keeps their types.
LEMMA KeepParts == ASSUME PartsType, UNCHANGED <<input, parts>> PROVE PartsType'
  BY DEF PartsType, Entry, graph, parts

\* Roots and their pointers.
LEMMA RootType ==
  ASSUME LoopType, PointerType, NEW i \in 1 .. Len(roots)
  PROVE  /\ i \in Nat \ {0} /\ roots[i] \in Root /\ Node(i) \in Nodes /\ roots[i].ts \in Nat
         /\ tsPtr[Node(i)] \in Nat
         /\ tsPtr[Node(i)] \in Slice(graph, Node(i)) \/ tsPtr[Node(i)] = graph.indptr[Node(i)]
  <1>1. roots \in Seq(Root) /\ i \in Nat \ {0}
    BY DEF LoopType
  <1>2. roots[i] \in Root
    BY <1>1
  <1> QED
    BY <1>1, <1>2 DEF Root, Node, PointerType

\* Initially nobody works.
LEMMA InitPInv == Init => PInv
  <1> SUFFICES ASSUME Init PROVE PInv
    OBVIOUS
  <1>1. input \in Inputs
    BY DEF Init
  <1>2. tsPtr \in [Nodes -> Nat] /\ \A n \in Nodes : tsPtr[n] = graph.indptr[n]
    BY <1>1, InputType DEF Init
  <1>3. Len(input.batches) \in Nat
    BY <1>1, InputType
  <1>4. ControlType /\ LoopType /\ HeldType
    BY <1>3, SamplerAssumption DEF Init, ControlType, LoopType, HeldType, None
  <1>5. PartsType
    BY SamplerAssumption DEF Init, PartsType
  <1>6. PointerType
    BY <1>2 DEF PointerType
  <1>7. LockInv /\ DoneInv /\ PointersCover
    BY DEF Init, LockInv, DoneInv, PointersCover
  <1> QED
    BY <1>1, <1>4, <1>5, <1>6, <1>7 DEF PInv

\* A batch is a list of roots.
LEMMA BatchType ==
  ASSUME input \in Inputs, NEW b \in 1 .. Len(input.batches)
  PROVE  input.batches[b] \in Seq(Root)
  BY InputType

\* A loop over new roots begins: every root is before some thread.
LEMMA SharedOut ==
  ASSUME roots' \in Seq(Root), todo' = Share(Len(roots'))
  PROVE  /\ LoopType'
         /\ \A i \in 1 .. Len(roots') : \E t \in Threads : i \in todo'[t]
  <1>1. Len(roots') \in Nat
    OBVIOUS
  <1> QED
    BY <1>1, ShareCovers DEF LoopType

\* Call keeps the invariant.
LEMMA CallPInv == ASSUME PInv, Call PROVE PInv'
  <1> USE DEF PInv
  <1>1. /\ loop = "none" /\ loop' = "pointers" /\ todo' = Share(Len(roots'))
        /\ calls < Len(input.batches) /\ calls' = calls + 1 /\ layer' = 1
        /\ roots' = input.batches[calls + 1] /\ UNCHANGED <<input, tsPtr, held, parts>>
    BY DEF Call
  <1>2. calls \in Nat /\ Len(input.batches) \in Nat
    BY InputType DEF ControlType
  <1>3. roots' \in Seq(Root)
    BY <1>1, <1>2, BatchType
  <1>4. LoopType' /\ \A i \in 1 .. Len(roots') : \E t \in Threads : i \in todo'[t]
    BY <1>1, <1>3, SharedOut
  <1>5. ControlType'
    BY <1>1, <1>2, SamplerAssumption DEF ControlType
  <1>6. \A t \in Threads : held[t] = None
    BY <1>1 DEF LockInv
  <1>7. LockInv' /\ DoneInv' /\ PointersCover'
    BY <1>1, <1>4, <1>6 DEF LockInv, DoneInv, PointersCover
  <1> QED
    BY <1>1, <1>4, <1>5, <1>7, KeepPointers, KeepParts DEF HeldType

\* Reset keeps the invariant.
LEMMA ResetPInv == ASSUME PInv, Reset PROVE PInv'
  <1> USE DEF PInv
  <1>1. /\ loop = "none" /\ tsPtr' = [n \in Nodes |-> graph.indptr[n]] /\ calls' = 0
        /\ UNCHANGED <<input, layer, loop, roots, todo, held, parts, ret>>
    BY DEF Reset
  <1>2. tsPtr' \in [Nodes -> Nat] /\ \A n \in Nodes : tsPtr'[n] = graph.indptr[n]
    BY <1>1, InputType
  <1>3. PointerType'
    BY <1>1, <1>2 DEF PointerType, graph
  <1>4. ControlType'
    BY <1>1, InputType DEF ControlType
  <1>5. LockInv' /\ DoneInv' /\ PointersCover'
    BY <1>1 DEF LockInv, DoneInv, PointersCover
  <1> QED
    BY <1>1, <1>3, <1>4, <1>5, KeepLoop, KeepParts DEF HeldType

\* Lock keeps the invariant.
LEMMA LockPInv == ASSUME PInv, NEW t \in Threads, Lock(t) PROVE PInv'
  <1> USE DEF PInv
  <1>1. PICK i \in todo[t] :
          /\ ~Locked(Node(i))
          /\ held' = [held EXCEPT ![t] = [root |-> i, from |-> tsPtr[Node(i)]]]
    BY DEF Lock, Node
  <1>2. /\ loop = "pointers" /\ held[t] = None
        /\ UNCHANGED <<input, calls, layer, loop, roots, tsPtr, todo, parts, ret>>
    BY DEF Lock
  <1>3. i \in 1 .. Len(roots)
    BY DEF LoopType
  <1>4. i \in Nat \ {0} /\ tsPtr[Node(i)] \in Nat
    BY <1>3, RootType
  <1>5. HeldType'
    BY <1>1, <1>4 DEF HeldType
  <1>6. /\ held'[t] = [root |-> i, from |-> tsPtr[Node(i)]]
        /\ \A s \in Threads : s # t => held'[s] = held[s]
    BY <1>1 DEF HeldType
  <1>7. ASSUME NEW s \in Threads, held'[s] # None
        PROVE  /\ loop = "pointers" /\ held'[s].root \in todo[s]
               /\ held'[s].from = tsPtr[Node(held'[s].root)]
    BY <1>2, <1>6, <1>7 DEF LockInv
  <1>8. ASSUME NEW s \in Threads, s # t, held[s] # None
        PROVE  Node(held[s].root) # Node(i)
    BY <1>1, <1>8 DEF Locked, Node
  <1>9. LockInv'
    BY <1>2, <1>6, <1>7, <1>8 DEF LockInv, Node
  <1>10. DoneInv' /\ PointersCover'
    BY <1>2 DEF DoneInv, PointersCover, CoversFrom, Node, Slice, graph
  <1> QED
    BY <1>2, <1>5, <1>9, <1>10, KeepPointers, KeepLoop, KeepParts DEF ControlType

\* Unlock keeps the invariant, and moves its pointer forward.
LEMMA UnlockPInv ==
  ASSUME PInv, NEW t \in Threads, Unlock(t)
  PROVE  PInv' /\ \A n \in Nodes : tsPtr'[n] >= tsPtr[n]
  <1> USE DEF PInv
  <1> DEFINE i == held[t].root
             n == Node(i)
             p == tsPtr[n]
             ts == roots[i].ts
  <1>1. /\ loop = "pointers" /\ i \in todo[t] /\ held[t].from = p
    BY DEF Unlock, LockInv
  <1>2. i \in 1 .. Len(roots)
    BY <1>1 DEF LoopType
  <1>3. PICK q \in p .. graph.indptr[n + 1] :
          Advanced(n, ts, p, q) /\ tsPtr' = [tsPtr EXCEPT ![n] = q]
    BY <1>1 DEF Unlock, Node
  <1>4. /\ todo' = [todo EXCEPT ![t] = @ \ {i}] /\ held' = [held EXCEPT ![t] = None]
        /\ UNCHANGED <<input, calls, layer, loop, roots, parts, ret>>
    BY DEF Unlock
  <1>5. n \in Nodes /\ p \in Nat /\ ts \in Nat /\ (p \in Slice(graph, n) \/ p = graph.indptr[n])
    BY <1>2, RootType
  <1> HIDE DEF i, n, p, ts
  <1>6. /\ q \in Nat /\ p <= q
        /\ q \in Slice(graph, n) \/ q = graph.indptr[n]
        /\ CoversFrom(q, n, ts)
    BY <1>3, <1>5, AdvancedCovers
  <1>7. /\ tsPtr'[n] = q /\ \A k \in Nodes : k # n => tsPtr'[k] = tsPtr[k]
        /\ tsPtr[n] = p
    BY <1>3, <1>5 DEF PointerType, p
  <1>8. \A k \in Nodes : tsPtr[k] \in Nat /\ tsPtr'[k] \in Nat /\ tsPtr'[k] >= tsPtr[k]
    BY <1>5, <1>6, <1>7 DEF PointerType
  <1>9. PointerType'
    BY <1>3, <1>4, <1>6, <1>7 DEF PointerType, Slice, graph
  <1>10. /\ LoopType' /\ todo'[t] = todo[t] \ {i}
         /\ \A s \in Threads : s # t => todo'[s] = todo[s]
    BY <1>4 DEF LoopType
  <1>11. /\ HeldType' /\ held'[t] = None /\ \A s \in Threads : s # t => held'[s] = held[s]
    BY <1>4 DEF HeldType, None
  <1>12. LockInv'
    <2>1. ASSUME NEW s \in Threads, held'[s] # None
          PROVE  /\ s # t /\ held'[s] = held[s] /\ held[s] # None
                 /\ held[s].root \in todo[s] /\ held[s].from = tsPtr[Node(held[s].root)]
                 /\ Node(held[s].root) # n
      BY <1>11, <2>1 DEF LockInv, Unlock, n, i
    <2>2. ASSUME NEW s \in Threads, held'[s] # None
          PROVE  /\ loop' = "pointers" /\ held'[s].root \in todo'[s]
                 /\ held'[s].from = tsPtr'[Node(held'[s].root)]
      <3>1. held[s].root \in 1 .. Len(roots)
        BY <2>1, <2>2 DEF LoopType
      <3>2. Node(held[s].root) \in Nodes
        BY <3>1, RootType
      <3> QED
        BY <1>1, <1>4, <1>7, <1>10, <2>1, <2>2, <3>2
    <2> QED
      BY <1>4, <2>1, <2>2 DEF LockInv, Node
  <1>13. DoneInv'
    <2>1. ASSUME NEW j \in 1 .. Len(roots)
          PROVE  (\E s \in Threads : j \in todo'[s]) \/ CoversFrom(tsPtr'[Node(j)], Node(j), roots[j].ts)
      <3>1. Node(j) \in Nodes
        BY RootType
      <3>2. CASE j = i
        BY <1>6, <1>7, <3>2 DEF n, ts
      <3>3. CASE j # i /\ \E s \in Threads : j \in todo[s]
        BY <1>10, <3>3
      <3>4. CASE CoversFrom(tsPtr[Node(j)], Node(j), roots[j].ts)
        <4>1. ASSUME NEW k \in Slice(graph, Node(j)), k > tsPtr'[Node(j)]
              PROVE  k > tsPtr[Node(j)]
          BY <1>8, <3>1, <4>1, InputType DEF Slice
        <4> QED
          BY <3>4, <4>1 DEF CoversFrom
      <3> QED
        BY <1>1, <3>2, <3>3, <3>4 DEF DoneInv
    <2> QED
      BY <1>4, <2>1 DEF DoneInv, CoversFrom, Node, Slice, graph
  <1>14. PointersCover'
    BY <1>1, <1>4 DEF PointersCover
  <1> QED
    BY <1>4, <1>8, <1>9, <1>10, <1>11, <1>12, <1>13, <1>14, KeepParts DEF ControlType

\* Barrier keeps the invariant: with no root left, every pointer covers its roots.
LEMMA BarrierPInv == ASSUME PInv, Barrier PROVE PInv'
  <1> USE DEF PInv
  <1>1. /\ loop = "pointers" /\ \A t \in Threads : todo[t] = {}
        /\ loop' = "sample" /\ todo' = Share(Len(roots))
        /\ rows' = [t \in Threads |-> <<>>] /\ outs' = [t \in Threads |-> 0]
        /\ joined' = 0 /\ base' = 0 /\ found' = <<>>
        /\ UNCHANGED <<input, calls, layer, roots, tsPtr, held, ret>>
    BY DEF Barrier
  <1>2. LoopType'
    BY <1>1, SharedOut DEF LoopType
  <1>3. PartsType'
    BY <1>1, SamplerAssumption DEF PartsType
  <1>4. LockInv' /\ DoneInv'
    BY <1>1 DEF LockInv, DoneInv
  <1>5. PointersCover'
    BY <1>1 DEF DoneInv, PointersCover, CoversFrom, Node, Slice, graph
  <1> QED
    BY <1>1, <1>2, <1>3, <1>4, <1>5, KeepPointers DEF ControlType, HeldType

\* Entries a pointer allows are entries.
LEMMA SearchedType ==
  ASSUME PInv, NEW n \in Nodes
  PROVE  Searched(n) \subseteq Slice(graph, n) /\ Searched(n) \subseteq DOMAIN graph.ts
  <1> DEFINE l == graph.indptr[n]
             r == graph.indptr[n + 1]
             p == tsPtr[n]
  <1>1. /\ l \in Nat /\ r \in Nat /\ l <= r /\ Slice(graph, n) = l .. r - 1
        /\ Slice(graph, n) \subseteq DOMAIN graph.ts
    BY InputType DEF PInv, Slice
  <1>2. p \in Nat /\ (p \in Slice(graph, n) \/ p = l)
    BY DEF PInv, PointerType
  <1>3. Searched(n) = IF p = l /\ p = r THEN {} ELSE l .. p
    BY DEF Searched
  <1> HIDE DEF l, r, p
  <1>4. Searched(n) \subseteq Slice(graph, n)
    BY <1>1, <1>2, <1>3
  <1> QED
    BY <1>1, <1>4

\* Sample keeps the invariant.
LEMMA SamplePInv == ASSUME PInv, NEW t \in Threads, Sample(t) PROVE PInv'
  <1> USE DEF PInv
  <1>1. PICK i \in todo[t] :
          /\ \E m \in 0 .. FanOut : \E P \in [1 .. m -> Searched(Node(i))] :
               rows' = [rows EXCEPT ![t] = @ \o [k \in 1 .. m |-> [row |-> outs[t], entry |-> P[k]]]]
          /\ todo' = [todo EXCEPT ![t] = @ \ {i}]
    BY DEF Sample, Node
  <1>2. /\ loop = "sample" /\ outs' = [outs EXCEPT ![t] = @ + 1]
        /\ UNCHANGED <<input, calls, layer, loop, roots, tsPtr, held, joined, base, found, ret>>
    BY DEF Sample
  <1>3. i \in 1 .. Len(roots)
    BY DEF LoopType
  <1>4. Searched(Node(i)) \subseteq DOMAIN graph.ts
    BY <1>3, RootType, SearchedType
  <1>5. PICK m \in 0 .. FanOut :
          \E P \in [1 .. m -> Searched(Node(i))] :
            rows' = [rows EXCEPT ![t] = @ \o [k \in 1 .. m |-> [row |-> outs[t], entry |-> P[k]]]]
    BY <1>1
  <1>6. m \in Nat
    BY SamplerAssumption
  <1>14. PICK P \in [1 .. m -> Searched(Node(i))] :
          rows' = [rows EXCEPT ![t] = @ \o [k \in 1 .. m |-> [row |-> outs[t], entry |-> P[k]]]]
    BY <1>5
  <1>7. [k \in 1 .. m |-> [row |-> outs[t], entry |-> P[k]]] \in Seq(Entry)
    <2>1. \A k \in 1 .. m : [row |-> outs[t], entry |-> P[k]] \in Entry
      BY <1>4 DEF Entry, PartsType
    <2> QED
      BY <1>6, <2>1
  <1>8. rows[t] \o [k \in 1 .. m |-> [row |-> outs[t], entry |-> P[k]]] \in Seq(Entry)
    BY <1>7 DEF PartsType
  <1>9. rows' \in [Threads -> Seq(Entry)]
    BY <1>8, <1>14 DEF PartsType
  <1>10. outs' \in [Threads -> Nat]
    BY <1>2 DEF PartsType
  <1>11. PartsType'
    BY <1>2, <1>9, <1>10 DEF PartsType, Entry, graph
  <1>12. LoopType'
    BY <1>1, <1>2 DEF LoopType
  <1>13. LockInv' /\ DoneInv' /\ PointersCover'
    BY <1>2 DEF LockInv, DoneInv, PointersCover, Slice, graph
  <1> QED
    BY <1>2, <1>11, <1>12, <1>13, KeepPointers DEF ControlType, HeldType

\* CombineCoo keeps the invariant.
LEMMA CombineCooPInv == ASSUME PInv, CombineCoo PROVE PInv'
  <1> USE DEF PInv
  <1> DEFINE part == [k \in 1 .. Len(rows[joined]) |->
                       [row |-> base + rows[joined][k].row, entry |-> rows[joined][k].entry]]
  <1>1. /\ loop = "sample" /\ joined < NumThreads /\ joined' = joined + 1
        /\ found' = found \o part /\ base' = base + outs[joined]
        /\ UNCHANGED <<input, calls, layer, loop, roots, tsPtr, todo, held, rows, outs, ret>>
    BY DEF CombineCoo
  <1>2. joined \in Threads /\ joined' \in 0 .. NumThreads
    BY <1>1, SamplerAssumption DEF PartsType, Threads
  <1>3. rows[joined] \in Seq(Entry) /\ outs[joined] \in Nat /\ base \in Nat
    BY <1>2 DEF PartsType
  <1>4. part \in Seq(Entry)
    <2>1. \A k \in 1 .. Len(rows[joined]) : rows[joined][k] \in Entry
      BY <1>3
    <2>2. \A k \in 1 .. Len(rows[joined]) :
            [row |-> base + rows[joined][k].row, entry |-> rows[joined][k].entry] \in Entry
      BY <1>3, <2>1 DEF Entry
    <2>3. Len(rows[joined]) \in Nat
      BY <1>3
    <2> QED
      BY <2>2, <2>3
  <1> HIDE DEF part
  <1>5. found' \in Seq(Entry) /\ base' \in Nat
    BY <1>1, <1>3, <1>4 DEF PartsType
  <1>6. PartsType'
    BY <1>1, <1>2, <1>5 DEF PartsType, Entry, graph
  <1>7. LockInv' /\ DoneInv' /\ PointersCover'
    BY <1>1 DEF LockInv, DoneInv, PointersCover, Slice, graph
  <1> QED
    BY <1>1, <1>6, <1>7, KeepPointers, KeepLoop DEF ControlType, HeldType

\* The roots of the next layer are roots.
LEMMA NextRootsType == ASSUME PInv PROVE NextRoots \in Seq(Root)
  <1> DEFINE new == [k \in 1 .. Len(found) |-> [node |-> graph.indices[found[k].entry],
                                               ts |-> graph.ts[found[k].entry]]]
  <1>1. found \in Seq(Entry) /\ roots \in Seq(Root) /\ Len(found) \in Nat
    BY DEF PInv, PartsType, LoopType
  <1>2. \A e \in DOMAIN graph.ts : graph.indices[e] \in Nodes /\ graph.ts[e] \in Nat
    BY InputType DEF PInv
  <1>3. ASSUME NEW k \in 1 .. Len(found)
        PROVE  [node |-> graph.indices[found[k].entry], ts |-> graph.ts[found[k].entry]] \in Root
    <2>1. found[k] \in Entry
      BY <1>1
    <2>2. found[k].entry \in DOMAIN graph.ts
      BY <2>1 DEF Entry
    <2> QED
      BY <1>2, <2>2 DEF Root
  <1>4. new \in Seq(Root)
    BY <1>1, <1>3
  <1> HIDE DEF new
  <1>5. NextRoots = roots \o new
    BY DEF NextRoots, new
  <1> QED
    BY <1>1, <1>4, <1>5

\* EndLayer keeps the invariant.
LEMMA EndLayerPInv == ASSUME PInv, EndLayer PROVE PInv'
  <1> USE DEF PInv
  <1>1. loop = "sample" /\ UNCHANGED <<input, calls, tsPtr, held, parts>>
    BY DEF EndLayer
  <1>2. \A t \in Threads : held[t] = None
    BY <1>1 DEF LockInv
  <1>3. CASE layer < Layers
    <2>1. /\ roots' = NextRoots /\ layer' = layer + 1 /\ loop' = "pointers"
          /\ todo' = Share(Len(roots'))
      BY <1>3 DEF EndLayer
    <2>2. LoopType' /\ \A i \in 1 .. Len(roots') : \E t \in Threads : i \in todo'[t]
      BY <2>1, NextRootsType, SharedOut
    <2>3. ControlType'
      BY <1>1, <1>3, <2>1, SamplerAssumption DEF ControlType
    <2>4. LockInv' /\ DoneInv' /\ PointersCover'
      BY <1>1, <1>2, <2>1, <2>2 DEF LockInv, DoneInv, PointersCover
    <2> QED
      BY <1>1, <2>2, <2>3, <2>4, KeepPointers, KeepParts DEF HeldType
  <1>4. CASE ~(layer < Layers)
    <2>1. layer' = 0 /\ loop' = "none" /\ UNCHANGED <<roots, todo>>
      BY <1>4 DEF EndLayer
    <2>2. ControlType'
      BY <1>1, <2>1, SamplerAssumption DEF ControlType
    <2>3. LockInv' /\ DoneInv' /\ PointersCover'
      BY <1>1, <1>2, <2>1 DEF LockInv, DoneInv, PointersCover
    <2> QED
      BY <1>1, <2>1, <2>2, <2>3, KeepPointers, KeepParts, KeepLoop DEF HeldType
  <1> QED
    BY <1>3, <1>4

\* A step that changes nothing keeps the invariant.
LEMMA StutterPInv == ASSUME PInv, UNCHANGED vars PROVE PInv'
  <1>1. LockInv' /\ DoneInv' /\ PointersCover'
    BY DEF PInv, vars, parts, LockInv, DoneInv, PointersCover, CoversFrom, Node, Slice, graph
  <1> QED
    BY <1>1, KeepPointers, KeepLoop, KeepParts DEF PInv, vars, parts, ControlType, HeldType

\* The pointers' invariant holds in every reachable state.
THEOREM PointersInductive == Spec => []PInv
  <1>1. PInv /\ [Next]_vars => PInv'
    BY CallPInv, ResetPInv, LockPInv, UnlockPInv, BarrierPInv, SamplePInv, CombineCooPInv,
       EndLayerPInv, StutterPInv DEF Next
  <1> QED
    BY <1>1, InitPInv, PTL DEF Spec

\* The types of the sampler, in every reachable state.
THEOREM SamplerTypeCorrect == Spec => []SamplerTypeOK
  <1>1. PInv => SamplerTypeOK
    BY TypeIs DEF PInv
  <1> QED
    BY <1>1, PointersInductive, PTL

\* Once sampling begins no entry a root may use lies beyond the pointer of its
\* node, whatever the order in which the threads have taken the locks.
THEOREM Cover == Spec => []PointersCover
  <1>1. PInv => PointersCover
    BY DEF PInv
  <1> QED
    BY <1>1, PointersInductive, PTL

\* No pointer moves back but by reset.
THEOREM Forward == Spec => PointersForward
  <1>1. ASSUME PInv, [Next]_vars
        PROVE  calls' >= calls => \A n \in Nodes : tsPtr'[n] >= tsPtr[n]
    <2>1. \A n \in Nodes : tsPtr[n] \in Nat
      BY <1>1 DEF PInv, PointerType
    <2>2. CASE UNCHANGED tsPtr
      BY <2>1, <2>2
    <2>3. CASE Reset
      <3>1. calls' = 0 /\ calls \in Nat /\ calls > 0
        BY <1>1, <2>3, InputType DEF Reset, PInv, ControlType
      <3> QED
        BY <3>1
    <2>4. CASE \E t \in Threads : Unlock(t)
      BY <1>1, <2>4, UnlockPInv
    <2> QED
      BY <1>1, <2>2, <2>3, <2>4
      DEF Next, Call, Barrier, CombineCoo, EndLayer, Lock, Sample, vars
  <1> QED
    BY <1>1, PointersInductive, PTL DEF Spec, PointersForward

----------------------------------------------------------------------------
(* Thread t has the iterations after Upto(n, t), up to Upto(n, t + 1) *)

Upto(n, t) == IF t * Chunk(n) < n THEN t * Chunk(n) ELSE n

\* A quotient is below m when the number is below m times the divisor.
LEMMA QuotientBelow ==
  ASSUME NEW x \in Nat, NEW c \in Nat \ {0}, NEW m \in Nat, x < m * c
  PROVE  x \div c < m
  <1> DEFINE q == x \div c
  <1>1. q \in Nat /\ c * q <= x
    BY DivMod
  <1> HIDE DEF q
  <1>2. ASSUME q >= m PROVE FALSE
    <2>1. PICK d \in Nat : q = m + d
      BY <1>1, <1>2
    <2>2. c * q = m * c + c * d
      BY <2>1
    <2>3. c * d \in Nat
      BY <2>1
    <2>4. m * c \in Nat /\ c * q \in Nat
      BY <1>1
    <2> QED
      BY <1>1, <2>2, <2>3, <2>4
  <1> QED
    BY <1>1, <1>2 DEF q

\* A quotient is t exactly between t and t + 1 times the divisor.
LEMMA QuotientIs ==
  ASSUME NEW x \in Nat, NEW c \in Nat \ {0}, NEW t \in Nat
  PROVE  x \div c = t <=> t * c <= x /\ x < (t + 1) * c
  <1> DEFINE q == x \div c
  <1>1. q \in Nat /\ c * q <= x /\ x < c * q + c
    BY DivMod
  <1>2. t * c \in Nat /\ (t + 1) * c = t * c + c
    OBVIOUS
  <1>3. x < (t + 1) * c => q < t + 1
    BY QuotientBelow
  <1>4. x < t * c => q < t
    BY QuotientBelow
  <1>5. q < t => x < t * c
    <2>1. SUFFICES ASSUME q < t PROVE x < t * c
      OBVIOUS
    <2> DEFINE d == t - (q + 1)
    <2>2. d \in Nat /\ t = q + 1 + d
      BY <1>1, <2>1
    <2> HIDE DEF d
    <2>3. t * c = (q + 1 + d) * c
      BY <2>2
    <2>4. \A u, v \in Nat : (u + 1 + v) * c = c * u + c + v * c /\ v * c \in Nat /\ c * u \in Nat
      OBVIOUS
    <2> QED
      BY <1>1, <2>2, <2>3, <2>4
  <1>6. q = t => t * c <= x /\ x < (t + 1) * c
    <2>1. ASSUME q = t PROVE c * q = t * c
      BY <2>1
    <2> QED
      BY <1>1, <1>2, <2>1
  <1> HIDE DEF q
  <1>7. q = t <=> t * c <= x /\ x < (t + 1) * c
    BY <1>1, <1>2, <1>3, <1>4, <1>5, <1>6
  <1> QED
    BY <1>7 DEF q

\* The chunks of all threads reach the end of the loop.
LEMMA ChunksReach ==
  ASSUME NEW n \in Nat, n <= FloatExact
  PROVE  Chunk(n) \in Nat /\ NumThreads * Chunk(n) >= n
  <1>1. NumThreads \in Nat \ {0}
    BY SamplerAssumption
  <1>2. Chunk(n) = (n + NumThreads - 1) \div NumThreads
    BY DEF Chunk, Float
  <1>3. n + NumThreads - 1 \in Nat
    BY <1>1
  <1> DEFINE c == (n + NumThreads - 1) \div NumThreads
  <1>4. c \in Nat /\ n + NumThreads - 1 < NumThreads * c + NumThreads
    BY <1>1, <1>3, DivMod
  <1>5. NumThreads * c \in Nat
    BY <1>1, <1>4
  <1> HIDE DEF c
  <1>6. NumThreads * c >= n
    BY <1>1, <1>4, <1>5
  <1> QED
    BY <1>2, <1>4, <1>6 DEF c

\* The threads' bounds follow each other, from 0 to the number of iterations.
LEMMA UptoBounds ==
  ASSUME NEW n \in Nat, n <= FloatExact
  PROVE  /\ \A t \in 0 .. NumThreads : Upto(n, t) \in 0 .. n
         /\ Upto(n, 0) = 0 /\ Upto(n, NumThreads) = n
         /\ \A t \in Threads : Upto(n, t) <= Upto(n, t + 1)
  <1> DEFINE c == Chunk(n)
  <1>1. c \in Nat /\ NumThreads * c >= n /\ NumThreads \in Nat
    BY ChunksReach, SamplerAssumption
  <1>2. \A t \in Nat : t * c \in Nat /\ (t + 1) * c = t * c + c
    BY <1>1
  <1>3. \A t \in Nat : Upto(n, t) = IF t * c < n THEN t * c ELSE n
    BY DEF Upto
  <1> HIDE DEF c
  <1>4. 0 * c = 0
    BY <1>1
  <1>5. \A t \in 0 .. NumThreads : t \in Nat
    BY <1>1
  <1>6. \A t \in Threads : t \in Nat /\ t + 1 \in Nat
    BY <1>1 DEF Threads
  <1>7. \A t \in Nat : Upto(n, t) \in 0 .. n /\ Upto(n, t) <= Upto(n, t + 1)
    BY <1>1, <1>2, <1>3
  <1>8. Upto(n, 0) = 0
    BY <1>3, <1>4
  <1>9. Upto(n, NumThreads) = n
    <2>1. NumThreads * c \in Nat
      BY <1>1, <1>2
    <2> QED
      BY <1>1, <1>3, <2>1
  <1> QED
    BY <1>5, <1>6, <1>7, <1>8, <1>9

\* The bounds of one thread.
LEMMA UptoType ==
  ASSUME NEW n \in Nat, n <= FloatExact, NEW t \in Threads
  PROVE  /\ Upto(n, t) \in Nat /\ Upto(n, t + 1) \in Nat
         /\ Upto(n, t) <= Upto(n, t + 1) /\ Upto(n, t + 1) <= n
  <1>1. t \in 0 .. NumThreads /\ t + 1 \in 0 .. NumThreads
    BY SamplerAssumption DEF Threads
  <1>2. Upto(n, t) \in 0 .. n /\ Upto(n, t + 1) \in 0 .. n
    BY <1>1, UptoBounds
  <1> QED
    BY <1>2, UptoBounds

\* The share of a thread is one interval.
LEMMA ShareIs ==
  ASSUME NEW n \in Nat, n <= FloatExact, NEW t \in Threads
  PROVE  Share(n)[t] = Upto(n, t) + 1 .. Upto(n, t + 1)
  <1> DEFINE c == Chunk(n)
             a == Upto(n, t)
             b == Upto(n, t + 1)
  <1>1. t \in Nat /\ t < NumThreads /\ NumThreads \in Nat \ {0}
    BY SamplerAssumption DEF Threads
  <1>2. c \in Nat /\ NumThreads * c >= n
    BY ChunksReach
  <1>3. Share(n)[t] = { i \in 1 .. n : ((i - 1) \div c) % NumThreads = t }
    BY DEF Share
  <1>4. a = (IF t * c < n THEN t * c ELSE n) /\ b = IF (t + 1) * c < n THEN (t + 1) * c ELSE n
    BY DEF Upto
  <1>5. t * c \in Nat /\ (t + 1) * c \in Nat
    BY <1>1, <1>2
  <1>6. ASSUME NEW i \in 1 .. n
        PROVE  ((i - 1) \div c) % NumThreads = t <=> t * c < i /\ i <= (t + 1) * c
    <2> DEFINE q == (i - 1) \div c
    <2>1. n \in Nat \ {0} /\ i - 1 \in Nat
      OBVIOUS
    <2>2. c \in Nat \ {0}
      BY <2>1, ChunkPositive
    <2>3. i - 1 < NumThreads * c
      <3>1. NumThreads * c \in Nat
        BY <1>1, <1>2
      <3> QED
        BY <1>2, <3>1
    <2>4. q \in Nat
      BY <2>1, <2>2, DivMod
    <2>5. q < NumThreads
      BY <1>1, <2>1, <2>2, <2>3, QuotientBelow
    <2>6. q = t <=> t * c <= i - 1 /\ i - 1 < (t + 1) * c
      BY <1>1, <2>1, <2>2, QuotientIs
    <2> HIDE DEF q
    <2>7. q % NumThreads = q
      BY <1>1, <2>4, <2>5
    <2>8. q % NumThreads = t <=> t * c < i /\ i <= (t + 1) * c
      BY <1>5, <2>6, <2>7
    <2> QED
      BY <2>8 DEF q
  <1> HIDE DEF c, a, b
  <1>7. Share(n)[t] = { i \in 1 .. n : t * c < i /\ i <= (t + 1) * c }
    BY <1>3, <1>6
  <1>8. Share(n)[t] = a + 1 .. b
    BY <1>4, <1>5, <1>7
  <1> QED
    BY <1>8 DEF a, b

----------------------------------------------------------------------------
(* What one root is given *)

\* A set whose members all stand before place p of a sequence has fewer than p.
LEMMA FewLarger ==
  ASSUME NEW m \in Nat, NEW S, NEW P \in [1 .. m -> S], NEW p \in 1 .. m, NEW D,
         \A j \in D : \E q \in 1 .. p - 1 : P[q] = j
  PROVE  IsFiniteSet(D) /\ Cardinality(D) \in Nat /\ Cardinality(D) < p
  <1> DEFINE I == 1 .. p - 1
             J == { q \in I : P[q] \in D }
             f == [q \in J |-> P[q]]
  <1>1. IsFiniteSet(I) /\ Cardinality(I) = p - 1
    BY FS_Interval
  <1>2. IsFiniteSet(J) /\ Cardinality(J) <= p - 1
    BY <1>1, FS_Subset
  <1>3. f \in Surjection(J, D)
    BY DEF Surjection
  <1> HIDE DEF I, J, f
  <1>4. IsFiniteSet(D) /\ Cardinality(D) <= Cardinality(J)
    BY <1>2, <1>3, FS_Surjection
  <1>5. Cardinality(D) \in Nat /\ Cardinality(J) \in Nat
    BY <1>2, <1>4, FS_CardinalityType
  <1> QED
    BY <1>2, <1>4, <1>5

\* A set that holds a falling sequence of m numbers has m members at least.
LEMMA ManyLarger ==
  ASSUME NEW m \in Nat, NEW D, IsFiniteSet(D), NEW P \in [1 .. m -> D], D \subseteq Nat,
         \A p, q \in 1 .. m : p < q => P[q] < P[p]
  PROVE  Cardinality(D) \in Nat /\ Cardinality(D) >= m
  <1>1. \A p \in 1 .. m : P[p] \in Nat
    OBVIOUS
  <1>2. \A p, q \in 1 .. m : P[p] = P[q] => p = q
    BY <1>1
  <1>3. P \in Injection(1 .. m, D)
    BY <1>2 DEF Injection, IsInjective
  <1>4. IsFiniteSet(1 .. m) /\ Cardinality(1 .. m) = m
    BY FS_Interval
  <1>5. Cardinality(1 .. m) <= Cardinality(D)
    BY <1>3, FS_Injection
  <1> QED
    BY <1>4, <1>5, FS_CardinalityType

\* The entries before the time of a root that its pointer allows are all there are.
LEMMA BeforeIs ==
  ASSUME PInv, loop = "sample", NEW i \in 1 .. Len(roots)
  PROVE  Before(Node(i), roots[i].ts) =
           { k \in Slice(graph, Node(i)) : graph.ts[k] < roots[i].ts }
  <1> DEFINE n == Node(i)
             t == roots[i].ts
             l == graph.indptr[n]
             r == graph.indptr[n + 1]
             S == Slice(graph, n)
  <1>1. n \in Nodes /\ t \in Nat /\ tsPtr[n] \in Nat /\ (tsPtr[n] \in S \/ tsPtr[n] = l)
    BY RootType DEF PInv
  <1>2. l \in Nat /\ r \in Nat /\ l <= r /\ S = l .. r - 1 /\ \A k \in S : graph.ts[k] \in Nat
    BY <1>1, InputType DEF PInv, Slice
  <1>3. \A k \in S : k > tsPtr[n] => graph.ts[k] >= t
    BY DEF PInv, PointersCover, Node
  <1>4. Searched(n) = IF tsPtr[n] = l /\ tsPtr[n] = r THEN {} ELSE l .. tsPtr[n]
    BY DEF Searched
  <1>5. Searched(n) \subseteq S
    BY <1>1, SearchedType
  <1>6. Before(n, t) = { k \in Searched(n) : graph.ts[k] < t }
    BY DEF Before
  <1> HIDE DEF n, t, l, r, S
  <1>7. ASSUME NEW k \in S, graph.ts[k] < t PROVE k \in Searched(n)
    <2>1. k \in Nat /\ l <= k /\ k <= r - 1 /\ graph.ts[k] \in Nat
      BY <1>2
    <2>2. k <= tsPtr[n]
      BY <1>1, <1>3, <1>7, <2>1
    <2> QED
      BY <1>1, <1>2, <1>4, <2>1, <2>2
  <1>8. Before(n, t) = { k \in S : graph.ts[k] < t }
    BY <1>5, <1>6, <1>7
  <1> QED
    BY <1>8 DEF n, t, S

\* What the sampling loop picks for a root are its latest neighbours.
LEMMA PickIsLatest ==
  ASSUME PInv, loop = "sample", NEW i \in 1 .. Len(roots),
         NEW m \in 0 .. FanOut, NEW P \in [1 .. m -> Searched(Node(i))],
         IsPick(P, Node(i), roots[i].ts)
  PROVE  { P[p] : p \in 1 .. m } = Latest(Node(i), roots[i].ts)
  <1> DEFINE n == Node(i)
             t == roots[i].ts
             B == Before(n, t)
             L(k) == { j \in B : j > k }
  <1>1. n \in Nodes /\ t \in Nat
    BY RootType DEF PInv
  <1>2. B = { k \in Slice(graph, n) : graph.ts[k] < t }
    BY BeforeIs
  <1>3. Latest(n, t) = { k \in B : Cardinality(L(k)) < FanOut }
    BY <1>2 DEF Latest
  <1>4. /\ graph.indptr[n] \in Int /\ graph.indptr[n + 1] - 1 \in Int
        /\ Slice(graph, n) \subseteq Nat
    BY <1>1, InputType DEF PInv, Slice
  <1>5. IsFiniteSet(Slice(graph, n))
    BY <1>4, FS_Interval DEF Slice
  <1>6. IsFiniteSet(B) /\ B \subseteq Nat
    BY <1>2, <1>4, <1>5, FS_Subset
  <1>7. FanOut \in Nat /\ m \in Nat /\ m <= FanOut
    BY SamplerAssumption
  <1>8. DOMAIN P = 1 .. m /\ Len(P) = m
    BY <1>7
  <1>9. /\ \A p \in 1 .. m : P[p] \in B
        /\ \A p, q \in 1 .. m : p < q => P[q] < P[p]
        /\ \A k \in B : (\E p \in 1 .. m : P[p] = k) \/ (m = FanOut /\ \A p \in 1 .. m : k < P[p])
    BY <1>8 DEF IsPick
  <1> HIDE DEF n, t, B
  <1>10. ASSUME NEW p \in 1 .. m PROVE P[p] \in Latest(n, t)
    <2>1. ASSUME NEW j \in L(P[p]) PROVE \E q \in 1 .. p - 1 : P[q] = j
      <3>1. j \in B /\ j > P[p] /\ j \in Nat /\ P[p] \in Nat
        BY <1>6, <1>9
      <3>2. PICK q \in 1 .. m : P[q] = j
        BY <1>9, <3>1
      <3>3. q # p /\ ~(p < q)
        BY <1>9, <3>1, <3>2
      <3> QED
        BY <1>7, <3>2, <3>3
    <2>2. Cardinality(L(P[p])) \in Nat /\ Cardinality(L(P[p])) < p
      <3> HIDE DEF L
      <3> QED
        BY <1>7, <2>1, FewLarger
    <2>3. p \in Nat /\ p <= FanOut
      BY <1>7
    <2>4. Cardinality(L(P[p])) < FanOut
      <3> HIDE DEF L
      <3> QED
        BY <1>7, <2>2, <2>3
    <2> QED
      BY <1>3, <1>9, <2>4
  <1>11. ASSUME NEW k \in Latest(n, t) PROVE \E p \in 1 .. m : P[p] = k
    <2>1. SUFFICES ASSUME m = FanOut, \A p \in 1 .. m : k < P[p] PROVE FALSE
      BY <1>3, <1>9
    <2>2. k \in B /\ Cardinality(L(k)) < FanOut
      BY <1>3
    <2>3. IsFiniteSet(L(k)) /\ L(k) \subseteq Nat
      BY <1>6, FS_Subset
    <2>4. P \in [1 .. m -> L(k)]
      BY <1>9, <2>1, <2>2
    <2>5. Cardinality(L(k)) \in Nat /\ Cardinality(L(k)) >= m
      <3> HIDE DEF L
      <3> QED
        BY <1>7, <1>9, <2>3, <2>4, ManyLarger
    <2> HIDE DEF L
    <2> QED
      BY <1>7, <2>1, <2>2, <2>5
  <1>12. \A p \in 1 .. m : P[p] \in Latest(n, t)
    BY <1>10
  <1>13. { P[p] : p \in 1 .. m } = Latest(n, t)
    BY <1>11, <1>12
  <1> QED
    BY <1>13 DEF n, t

----------------------------------------------------------------------------
(* Lists of neighbours *)

\* rs gives the m roots of rts after the first off their latest neighbours,
\* numbered from 0.
Listed(rs, rts, m, off) ==
  /\ \A p \in 1 .. Len(rs) : rs[p].row < m
  /\ \A i \in 1 .. m : Neighbours(rs, i - 1) = Latest(rts[off + i].node, rts[off + i].ts)

\* The entries of two lists, one behind the other.
LEMMA NeighboursConcat ==
  ASSUME NEW rs \in Seq(Entry), NEW new \in Seq(Entry), NEW i
  PROVE  /\ rs \o new \in Seq(Entry)
         /\ Neighbours(rs \o new, i) = Neighbours(rs, i) \cup Neighbours(new, i)
         /\ \A p \in 1 .. Len(rs \o new) :
              \/ \E q \in 1 .. Len(rs) : (rs \o new)[p] = rs[q]
              \/ \E q \in 1 .. Len(new) : (rs \o new)[p] = new[q]
  <1> DEFINE a == Len(rs)
             b == Len(new)
             c == rs \o new
  <1>1. a \in Nat /\ b \in Nat /\ c \in Seq(Entry) /\ Len(c) = a + b
    OBVIOUS
  <1>2. \A p \in 1 .. a : c[p] = rs[p]
    OBVIOUS
  <1>3. \A p \in 1 .. b : c[a + p] = new[p]
    OBVIOUS
  <1> HIDE DEF a, b, c
  <1>4. \A p \in 1 .. a + b : p \in 1 .. a \/ (p - a \in 1 .. b /\ a + (p - a) = p)
    BY <1>1
  <1>5. \A p \in 1 .. a : p \in 1 .. a + b
    BY <1>1
  <1>6. \A p \in 1 .. b : a + p \in 1 .. a + b
    BY <1>1
  <1>7. Neighbours(c, i) = { c[p].entry : p \in { p \in 1 .. a + b : c[p].row = i } }
    BY <1>1 DEF Neighbours
  <1>8. Neighbours(rs, i) = { rs[p].entry : p \in { p \in 1 .. a : rs[p].row = i } }
    BY DEF Neighbours, a
  <1>9. Neighbours(new, i) = { new[p].entry : p \in { p \in 1 .. b : new[p].row = i } }
    BY DEF Neighbours, b
  <1>10. ASSUME NEW x \in Neighbours(c, i) PROVE x \in Neighbours(rs, i) \cup Neighbours(new, i)
    <2>1. PICK p \in 1 .. a + b : c[p].row = i /\ x = c[p].entry
      BY <1>7
    <2>2. CASE p \in 1 .. a
      BY <1>2, <1>8, <2>1, <2>2
    <2>3. CASE p - a \in 1 .. b /\ a + (p - a) = p
      <3>1. c[p] = new[p - a]
        BY <1>3, <2>3
      <3> QED
        BY <1>9, <2>1, <2>3, <3>1
    <2> QED
      BY <1>4, <2>2, <2>3
  <1>11. ASSUME NEW x \in Neighbours(rs, i) PROVE x \in Neighbours(c, i)
    <2>1. PICK p \in 1 .. a : rs[p].row = i /\ x = rs[p].entry
      BY <1>8
    <2> QED
      BY <1>2, <1>5, <1>7, <2>1
  <1>12. ASSUME NEW x \in Neighbours(new, i) PROVE x \in Neighbours(c, i)
    <2>1. PICK p \in 1 .. b : new[p].row = i /\ x = new[p].entry
      BY <1>9
    <2> QED
      BY <1>3, <1>6, <1>7, <2>1
  <1>13. \A p \in 1 .. a + b :
           (\E q \in 1 .. a : c[p] = rs[q]) \/ (\E q \in 1 .. b : c[p] = new[q])
    <2> TAKE p \in 1 .. a + b
    <2>1. CASE p \in 1 .. a
      BY <1>2, <2>1
    <2>2. CASE p - a \in 1 .. b /\ a + (p - a) = p
      BY <1>3, <2>2
    <2> QED
      BY <1>4, <2>1, <2>2
  <1> QED
    BY <1>1, <1>10, <1>11, <1>12, <1>13 DEF a, b, c

\* No neighbours are listed under a number beyond the roots served.
LEMMA NobodyBeyond ==
  ASSUME NEW rs \in Seq(Entry), NEW m \in Nat, \A p \in 1 .. Len(rs) : rs[p].row < m,
         NEW i \in Nat, i >= m
  PROVE  Neighbours(rs, i) = {}
  <1>1. \A p \in 1 .. Len(rs) : rs[p].row \in Nat
    <2>1. \A p \in 1 .. Len(rs) : rs[p] \in Entry
      OBVIOUS
    <2> QED
      BY <2>1 DEF Entry
  <1> QED
    BY <1>1 DEF Neighbours

\* Listing the neighbours of the next m2 roots behind those of m1, under the
\* numbers from m1 on.
LEMMA ListedConcat ==
  ASSUME NEW rs \in Seq(Entry), NEW new \in Seq(Entry), NEW rts,
         NEW m1 \in Nat, NEW m2 \in Nat, NEW off \in Nat,
         Listed(rs, rts, m1, off),
         \A p \in 1 .. Len(new) : new[p].row >= m1 /\ new[p].row < m1 + m2,
         \A i \in 1 .. m2 :
           Neighbours(new, m1 + i - 1) = Latest(rts[off + m1 + i].node, rts[off + m1 + i].ts)
  PROVE  Listed(rs \o new, rts, m1 + m2, off)
  <1>1. \A p \in 1 .. Len(rs) : rs[p].row \in Nat /\ rs[p].row < m1
    <2>1. \A p \in 1 .. Len(rs) : rs[p] \in Entry
      OBVIOUS
    <2>2. \A p \in 1 .. Len(rs) : rs[p].row < m1
      BY DEF Listed
    <2> QED
      BY <2>1, <2>2 DEF Entry
  <1>2. \A p \in 1 .. Len(new) : new[p] \in Entry
    OBVIOUS
  <1>3. ASSUME NEW p \in 1 .. Len(rs \o new) PROVE (rs \o new)[p].row < m1 + m2
    <2>1. CASE \E q \in 1 .. Len(rs) : (rs \o new)[p] = rs[q]
      BY <1>1, <2>1
    <2>2. CASE \E q \in 1 .. Len(new) : (rs \o new)[p] = new[q]
      BY <2>2
    <2> QED
      BY <2>1, <2>2, NeighboursConcat
  <1>4. ASSUME NEW i \in 1 .. m1 + m2
        PROVE  Neighbours(rs \o new, i - 1) = Latest(rts[off + i].node, rts[off + i].ts)
    <2>1. Neighbours(rs \o new, i - 1) = Neighbours(rs, i - 1) \cup Neighbours(new, i - 1)
      BY NeighboursConcat
    <2>2. CASE i <= m1
      <3>1. \A p \in 1 .. Len(new) : new[p].row # i - 1
        BY <1>2, <2>2 DEF Entry
      <3>3. Neighbours(new, i - 1) = {}
        BY <3>1 DEF Neighbours
      <3>2. Neighbours(rs, i - 1) = Latest(rts[off + i].node, rts[off + i].ts)
        BY <2>2 DEF Listed
      <3> QED
        BY <2>1, <3>2, <3>3
    <2>3. CASE i > m1
      <3> DEFINE j == i - m1
      <3>1. j \in 1 .. m2 /\ i - 1 = m1 + j - 1 /\ off + i = off + m1 + j /\ i - 1 \in Nat /\ i - 1 >= m1
        BY <2>3
      <3> HIDE DEF j
      <3>2. Neighbours(rs, i - 1) = {}
        BY <1>1, <3>1, NobodyBeyond
      <3>3. Neighbours(new, i - 1) = Latest(rts[off + i].node, rts[off + i].ts)
        BY <3>1
      <3> QED
        BY <2>1, <3>2, <3>3
    <2> QED
      BY <2>2, <2>3
  <1> QED
    BY <1>3, <1>4 DEF Listed

----------------------------------------------------------------------------
(* The inductive invariant of sampling *)

\* Thread t has served the first outs[t] roots of its interval.
ThreadInv(t) ==
  /\ outs[t] <= Upto(Len(roots), t + 1) - Upto(Len(roots), t)
  /\ todo[t] = Upto(Len(roots), t) + outs[t] + 1 .. Upto(Len(roots), t + 1)
  /\ Listed(rows[t], roots, outs[t], Upto(Len(roots), t))

\* combine_coo has put together the roots of the threads it is done with.
JoinInv ==
  /\ joined # 0 => \A t \in Threads : todo[t] = {}
  /\ base = Upto(Len(roots), joined)
  /\ Listed(found, roots, base, 0)

WorkInv ==
  loop = "sample" /\ Len(roots) <= FloatExact => (\A t \in Threads : ThreadInv(t)) /\ JoinInv

RetType == ret \in Seq([roots : Seq(Root), found : Seq(Entry)])
SInv == RetType /\ SampleRight /\ WorkInv

\* A step that leaves the result alone keeps what is known of it.
LEMMA KeepRet == ASSUME RetType, SampleRight, UNCHANGED <<input, ret>> PROVE RetType' /\ SampleRight'
  <1>1. RetType'
    BY DEF RetType, Entry, graph
  <1>2. /\ \A n, t : Latest(n, t)' = Latest(n, t)
        /\ \A i, l : Neighbours(ret[l].found, i)' = Neighbours(ret[l].found, i)
    BY DEF Neighbours, Latest, Slice, graph
  <1>3. SampleRight'
    BY <1>2 DEF SampleRight
  <1> QED
    BY <1>1, <1>3

\* A step outside the second loop keeps the invariant.
LEMMA OtherSInv ==
  ASSUME PInv, SInv, Call \/ Reset \/ \E t \in Threads : Lock(t) \/ Unlock(t)
  PROVE  SInv'
  <1>1. loop' # "sample"
    <2>1. CASE Call \/ Reset
      BY <2>1 DEF Call, Reset
    <2>2. CASE \E t \in Threads : Lock(t) \/ Unlock(t)
      BY <2>2 DEF Lock, Unlock, PInv, LockInv
    <2> QED
      BY <2>1, <2>2
  <1>2. WorkInv'
    BY <1>1 DEF WorkInv
  <1>3. CASE Call
    <2>1. ret' = <<>> /\ input' = input
      BY <1>3 DEF Call
    <2>2. RetType' /\ SampleRight'
      BY <2>1 DEF RetType, SampleRight
    <2> QED
      BY <1>2, <2>2 DEF SInv
  <1>4. CASE UNCHANGED <<input, ret>>
    BY <1>2, <1>4, KeepRet DEF SInv
  <1> QED
    BY <1>3, <1>4 DEF Reset, Lock, Unlock

\* Barrier establishes the invariant of the second loop.
LEMMA BarrierSInv == ASSUME PInv, SInv, Barrier PROVE SInv'
  <1>1. /\ todo' = Share(Len(roots)) /\ UNCHANGED <<input, roots, ret>>
        /\ rows' = [t \in Threads |-> <<>>] /\ outs' = [t \in Threads |-> 0]
        /\ joined' = 0 /\ base' = 0 /\ found' = <<>>
    BY DEF Barrier
  <1>2. SUFFICES ASSUME Len(roots) <= FloatExact
                 PROVE  (\A t \in Threads : ThreadInv(t)') /\ JoinInv'
    BY <1>1, KeepRet DEF SInv, WorkInv
  <1>3. Len(roots) \in Nat
    BY DEF PInv, LoopType
  <1>4. ASSUME NEW t \in Threads PROVE ThreadInv(t)'
    <2>1. rows'[t] = <<>> /\ outs'[t] = 0
      BY <1>1
    <2>2. /\ Upto(Len(roots), t) <= Upto(Len(roots), t + 1)
          /\ Upto(Len(roots), t) \in Nat /\ Upto(Len(roots), t + 1) \in Nat
      BY <1>2, <1>3, UptoType
    <2>3. todo'[t] = Upto(Len(roots), t) + 1 .. Upto(Len(roots), t + 1)
      BY <1>1, <1>2, <1>3, ShareIs
    <2>4. Listed(<<>>, roots, 0, Upto(Len(roots), t))'
      BY DEF Listed
    <2> QED
      BY <1>1, <2>1, <2>2, <2>3, <2>4 DEF ThreadInv
  <1>5. JoinInv'
    <2>1. Upto(Len(roots), 0) = 0
      BY <1>2, <1>3, UptoBounds
    <2>2. Listed(<<>>, roots, 0, 0)'
      BY DEF Listed
    <2> QED
      BY <1>1, <2>1, <2>2 DEF JoinInv
  <1> QED
    BY <1>4, <1>5

\* Sample keeps the invariant: the next root is given its latest neighbours.
LEMMA SampleSInv == ASSUME PInv, SInv, NEW t \in Threads, Sample(t) PROVE SInv'
  <1> DEFINE a == Upto(Len(roots), t)
             b == Upto(Len(roots), t + 1)
             o == outs[t]
  <1>1. PICK i \in todo[t] :
          /\ \A j \in todo[t] : i <= j
          /\ \E m \in 0 .. FanOut : \E P \in [1 .. m -> Searched(Node(i))] :
               /\ IsPick(P, Node(i), roots[i].ts)
               /\ rows' = [rows EXCEPT ![t] = @ \o [k \in 1 .. m |-> [row |-> o, entry |-> P[k]]]]
          /\ todo' = [todo EXCEPT ![t] = @ \ {i}]
    BY DEF Sample, IsNext, Node
  <1>2. /\ loop = "sample" /\ outs' = [outs EXCEPT ![t] = @ + 1]
        /\ UNCHANGED <<input, loop, roots, joined, base, found, ret>>
    BY DEF Sample
  <1>3. SUFFICES ASSUME Len(roots) <= FloatExact
                 PROVE  (\A s \in Threads : ThreadInv(s)') /\ JoinInv'
    BY <1>2, KeepRet DEF SInv, WorkInv
  <1>4. ThreadInv(t) /\ JoinInv /\ \A s \in Threads : ThreadInv(s)
    BY <1>2, <1>3 DEF SInv, WorkInv
  <1>5. /\ Len(roots) \in Nat /\ i \in 1 .. Len(roots) /\ o \in Nat /\ rows[t] \in Seq(Entry)
        /\ todo \in [Threads -> SUBSET (1 .. Len(roots))] /\ outs \in [Threads -> Nat]
        /\ rows \in [Threads -> Seq(Entry)] /\ joined \in Nat
    BY DEF PInv, LoopType, PartsType
  <1>6. a \in Nat /\ b \in Nat
    BY <1>3, <1>5, UptoType
  <1>7. todo[t] = a + o + 1 .. b /\ o <= b - a /\ Listed(rows[t], roots, o, a)
    BY <1>4 DEF ThreadInv
  <1> HIDE DEF a, b, o
  <1>8. i = a + o + 1 /\ i <= b
    <2>1. i \in todo[t] /\ \A j \in todo[t] : i <= j
      BY <1>1
    <2>2. i \in Nat /\ o \in Nat
      BY <1>5
    <2>3. a + o + 1 <= i /\ i <= b
      BY <1>6, <1>7, <2>1, <2>2
    <2>4. a + o + 1 \in todo[t]
      BY <1>6, <1>7, <2>2, <2>3
    <2> QED
      BY <1>6, <2>1, <2>2, <2>3, <2>4
  <1>9. PICK m \in 0 .. FanOut : \E P \in [1 .. m -> Searched(Node(i))] :
               /\ IsPick(P, Node(i), roots[i].ts)
               /\ rows' = [rows EXCEPT ![t] = @ \o [k \in 1 .. m |-> [row |-> o, entry |-> P[k]]]]
    BY <1>1
  <1>10. PICK P \in [1 .. m -> Searched(Node(i))] :
               /\ IsPick(P, Node(i), roots[i].ts)
               /\ rows' = [rows EXCEPT ![t] = @ \o [k \in 1 .. m |-> [row |-> o, entry |-> P[k]]]]
    BY <1>9
  <1>11. m \in Nat
    BY SamplerAssumption
  <1> DEFINE new == [k \in 1 .. m |-> [row |-> o, entry |-> P[k]]]
  <1>12. \A k \in 1 .. m : P[k] \in DOMAIN graph.ts
    <2>1. Node(i) \in Nodes
      BY <1>5, RootType DEF PInv
    <2>2. Searched(Node(i)) \subseteq DOMAIN graph.ts
      BY <2>1, SearchedType
    <2> QED
      BY <2>2
  <1>13. new \in Seq(Entry) /\ Len(new) = m
    <2>1. \A k \in 1 .. m : [row |-> o, entry |-> P[k]] \in Entry
      BY <1>5, <1>12 DEF Entry, o
    <2> QED
      BY <1>11, <2>1
  <1>14. \A k \in 1 .. m : new[k].row = o /\ new[k].entry = P[k]
    OBVIOUS
  <1>15. { P[k] : k \in 1 .. m } = Latest(roots[i].node, roots[i].ts)
    BY <1>2, <1>5, <1>10, PickIsLatest DEF Node
  <1> HIDE DEF new
  <1>16. Neighbours(new, o) = Latest(roots[i].node, roots[i].ts)
    BY <1>13, <1>14, <1>15 DEF Neighbours
  <1>17. Listed(rows[t] \o new, roots, o + 1, a)
    <2>1. o \in Nat
      BY <1>5 DEF o
    <2>2. \A p \in 1 .. Len(new) : new[p].row >= o /\ new[p].row < o + 1
      BY <1>13, <1>14, <2>1
    <2>3. \A j \in 1 .. 1 :
            Neighbours(new, o + j - 1) = Latest(roots[a + o + j].node, roots[a + o + j].ts)
      <3>1. o + 1 - 1 = o /\ \A j \in 1 .. 1 : j = 1
        BY <2>1
      <3> QED
        BY <1>8, <1>16, <3>1
    <2> QED
      BY <1>5, <1>6, <1>7, <1>13, <2>1, <2>2, <2>3, ListedConcat
  <1>18. /\ rows'[t] = rows[t] \o new /\ outs'[t] = o + 1 /\ todo'[t] = todo[t] \ {i}
         /\ \A s \in Threads : s # t => rows'[s] = rows[s] /\ outs'[s] = outs[s] /\ todo'[s] = todo[s]
    BY <1>1, <1>2, <1>5, <1>10 DEF new, o
  <1>19. /\ \A n, u : Latest(n, u)' = Latest(n, u)
         /\ \A s \in Threads : \A j : Neighbours(rows[s], j)' = Neighbours(rows'[s], j)
         /\ \A j : Neighbours(found, j)' = Neighbours(found, j)
    BY <1>2 DEF Neighbours, Latest, Slice, graph
  <1>20. ThreadInv(t)'
    <2>1. Listed(rows[t], roots, outs[t], Upto(Len(roots), t))'
      BY <1>2, <1>17, <1>18, <1>19 DEF Listed, a
    <2>2. todo'[t] = a + (o + 1) + 1 .. b /\ o + 1 <= b - a
      BY <1>5, <1>6, <1>7, <1>8, <1>18 DEF o
    <2> QED
      BY <1>2, <1>18, <2>1, <2>2 DEF ThreadInv, a, b
  <1>21. ASSUME NEW s \in Threads, s # t PROVE ThreadInv(s)'
    <2>1. Listed(rows[s], roots, outs[s], Upto(Len(roots), s))
      BY <1>4 DEF ThreadInv
    <2>2. Listed(rows[s], roots, outs[s], Upto(Len(roots), s))'
      BY <1>2, <1>18, <1>19, <1>21, <2>1 DEF Listed
    <2> QED
      BY <1>2, <1>4, <1>18, <1>21, <2>2 DEF ThreadInv
  <1>22. JoinInv'
    <2>1. joined = 0
      BY <1>1, <1>4 DEF JoinInv
    <2>2. Listed(found, roots, base, 0)'
      BY <1>2, <1>4, <1>19 DEF Listed, JoinInv
    <2> QED
      BY <1>2, <1>4, <2>1, <2>2 DEF JoinInv
  <1> QED
    BY <1>20, <1>21, <1>22

\* CombineCoo keeps the invariant: the roots of the next thread follow those of
\* the threads before it.
LEMMA CombineCooSInv == ASSUME PInv, SInv, CombineCoo PROVE SInv'
  <1> DEFINE t == joined
             a == Upto(Len(roots), t)
             b == Upto(Len(roots), t + 1)
             o == outs[t]
             new == [k \in 1 .. Len(rows[t]) |->
                       [row |-> base + rows[t][k].row, entry |-> rows[t][k].entry]]
  <1>1. /\ loop = "sample" /\ \A s \in Threads : todo[s] = {}
        /\ joined < NumThreads /\ joined' = t + 1
        /\ found' = found \o new /\ base' = base + o
        /\ UNCHANGED <<input, loop, roots, todo, rows, outs, ret>>
    BY DEF CombineCoo
  <1>2. SUFFICES ASSUME Len(roots) <= FloatExact
                 PROVE  (\A s \in Threads : ThreadInv(s)') /\ JoinInv'
    BY <1>1, KeepRet DEF SInv, WorkInv
  <1>3. t \in Threads
    BY <1>1, SamplerAssumption DEF PInv, PartsType, Threads
  <1>4. ThreadInv(t) /\ JoinInv /\ \A s \in Threads : ThreadInv(s)
    BY <1>1, <1>2, <1>3 DEF SInv, WorkInv
  <1>5. /\ Len(roots) \in Nat /\ o \in Nat /\ rows[t] \in Seq(Entry) /\ found \in Seq(Entry)
        /\ base \in Nat
    BY <1>3 DEF PInv, LoopType, PartsType
  <1>6. a \in Nat /\ b \in Nat
    BY <1>2, <1>3, <1>5, UptoType
  <1>7. /\ a + o + 1 .. b = {} /\ o <= b - a /\ Listed(rows[t], roots, o, a)
        /\ base = a /\ Listed(found, roots, base, 0)
    BY <1>1, <1>3, <1>4 DEF ThreadInv, JoinInv
  <1>8. \A k \in 1 .. Len(rows[t]) : rows[t][k] \in Entry
    BY <1>5
  <1>9. \A k \in 1 .. Len(rows[t]) : rows[t][k].row \in Nat /\ rows[t][k].entry \in DOMAIN graph.ts
    BY <1>8 DEF Entry
  <1>10. new \in Seq(Entry) /\ Len(new) = Len(rows[t])
    <2>1. \A k \in 1 .. Len(rows[t]) :
            [row |-> base + rows[t][k].row, entry |-> rows[t][k].entry] \in Entry
      BY <1>5, <1>9 DEF Entry
    <2>2. Len(rows[t]) \in Nat
      BY <1>5
    <2> HIDE DEF o, a, b, t
    <2> QED
      BY <2>1, <2>2
  <1>11. \A k \in 1 .. Len(rows[t]) : new[k].row = base + rows[t][k].row /\ new[k].entry = rows[t][k].entry
    OBVIOUS
  <1> HIDE DEF t, a, b, o, new
  <1>12. o = b - a
    BY <1>5, <1>6, <1>7
  <1>13. Listed(found \o new, roots, base + o, 0)
    <2>1. \A k \in 1 .. Len(rows[t]) : rows[t][k].row < o
      BY <1>7 DEF Listed
    <2>2. \A k \in 1 .. Len(new) : new[k].row >= base /\ new[k].row < base + o
      BY <1>5, <1>9, <1>10, <1>11, <2>1
    <2>3. ASSUME NEW i \in 1 .. o
          PROVE  Neighbours(new, base + i - 1) = Latest(roots[0 + base + i].node, roots[0 + base + i].ts)
      <3>1. \A k \in 1 .. Len(rows[t]) : new[k].row = base + i - 1 <=> rows[t][k].row = i - 1
        <4> TAKE k \in 1 .. Len(rows[t])
        <4>1. new[k].row = base + rows[t][k].row /\ rows[t][k].row \in Nat
          BY <1>9, <1>11
        <4>2. i \in Nat /\ base \in Nat
          BY <1>5
        <4>3. \A x \in Nat : base + x = base + i - 1 <=> x = i - 1
          BY <4>2
        <4> QED
          BY <4>1, <4>3
      <3>4. 0 + base + i = a + i
        BY <1>5, <1>7
      <3>2. Neighbours(new, base + i - 1) = Neighbours(rows[t], i - 1)
        BY <1>10, <1>11, <3>1 DEF Neighbours
      <3>3. Neighbours(rows[t], i - 1) = Latest(roots[a + i].node, roots[a + i].ts)
        BY <1>7 DEF Listed
      <3> QED
        BY <3>2, <3>3, <3>4
    <2> QED
      BY <1>5, <1>7, <1>10, <2>2, <2>3, ListedConcat
  <1>14. \A n, u : Latest(n, u)' = Latest(n, u)
    BY <1>1 DEF Latest, Slice, graph
  <1>15. ASSUME NEW s \in Threads PROVE ThreadInv(s)'
    <2>1. \A j : Neighbours(rows[s], j)' = Neighbours(rows[s], j)
      BY <1>1 DEF Neighbours
    <2>2. Listed(rows[s], roots, outs[s], Upto(Len(roots), s))
      BY <1>4 DEF ThreadInv
    <2>3. Listed(rows[s], roots, outs[s], Upto(Len(roots), s))'
      BY <1>1, <1>14, <2>1, <2>2 DEF Listed
    <2> QED
      BY <1>1, <1>4, <2>3 DEF ThreadInv
  <1>16. JoinInv'
    <2>1. \A j : Neighbours(found, j)' = Neighbours(found', j)
      BY DEF Neighbours
    <2>2. Listed(found, roots, base, 0)'
      BY <1>1, <1>13, <1>14, <2>1 DEF Listed
    <2>3. base' = Upto(Len(roots), t + 1)
      BY <1>1, <1>5, <1>6, <1>7, <1>12 DEF b
    <2> QED
      BY <1>1, <2>2, <2>3 DEF JoinInv
  <1> QED
    BY <1>15, <1>16

\* EndLayer keeps the invariant: what is complete becomes the result of the layer.
LEMMA EndLayerSInv == ASSUME PInv, SInv, EndLayer PROVE SInv'
  <1> DEFINE r == [roots |-> roots, found |-> found]
             T == [roots : Seq(Root), found : Seq(Entry)]
  <1>1. /\ loop = "sample" /\ loop' # "sample" /\ joined = NumThreads
        /\ ret' = Append(ret, r) /\ input' = input
    BY DEF EndLayer
  <1>2. ret \in Seq(T) /\ r \in T
    BY DEF SInv, RetType, PInv, LoopType, PartsType
  <1>3. RetType'
    <2>1. ret' \in Seq(T)
      <3> HIDE DEF T, r
      <3> QED
        BY <1>1, <1>2
    <2> QED
      BY <1>1, <2>1 DEF RetType, Entry, graph
  <1>4. /\ Len(ret) \in Nat /\ Len(ret') = Len(ret) + 1 /\ ret'[Len(ret) + 1] = r
        /\ \A l \in 1 .. Len(ret) : ret'[l] = ret[l]
    <2> HIDE DEF T, r
    <2> QED
      BY <1>1, <1>2
  <1>5. Len(roots) <= FloatExact => Listed(found, roots, Len(roots), 0)
    <2>1. SUFFICES ASSUME Len(roots) <= FloatExact PROVE Listed(found, roots, Len(roots), 0)
      OBVIOUS
    <2>2. Len(roots) \in Nat
      BY DEF PInv, LoopType
    <2>3. Upto(Len(roots), NumThreads) = Len(roots)
      BY <2>1, <2>2, UptoBounds
    <2> QED
      BY <1>1, <2>1, <2>3 DEF SInv, WorkInv, JoinInv
  <1>6. /\ \A n, u : Latest(n, u)' = Latest(n, u)
        /\ \A l, i : Neighbours(ret[l].found, i)' = Neighbours(ret'[l].found, i)
    BY <1>1 DEF Neighbours, Latest, Slice, graph
  <1>7. ASSUME NEW l \in 1 .. Len(ret'), Len(ret'[l].roots) <= FloatExact
        PROVE  /\ \A p \in 1 .. Len(ret'[l].found) : ret'[l].found[p].row < Len(ret'[l].roots)
               /\ \A i \in 1 .. Len(ret'[l].roots) :
                    Neighbours(ret'[l].found, i - 1) = Latest(ret'[l].roots[i].node, ret'[l].roots[i].ts)
    <2>1. CASE l \in 1 .. Len(ret)
      <3>1. ret'[l] = ret[l]
        BY <1>4, <2>1
      <3> QED
        BY <1>7, <2>1, <3>1 DEF SInv, SampleRight
    <2>2. CASE l = Len(ret) + 1
      <3>1. ret'[l].roots = roots /\ ret'[l].found = found
        BY <1>4, <2>2
      <3>2. Listed(found, roots, Len(roots), 0)
        BY <1>5, <1>7, <3>1
      <3>3. \A i \in 1 .. Len(roots) : 0 + i = i
        OBVIOUS
      <3> QED
        BY <3>1, <3>2, <3>3 DEF Listed
    <2> QED
      BY <1>4, <2>1, <2>2
  <1>8. SampleRight'
    BY <1>6, <1>7 DEF SampleRight
  <1> QED
    BY <1>1, <1>3, <1>8 DEF SInv, WorkInv

\* Nothing is found before the first call.
LEMMA InitSInv == Init => SInv
  BY DEF Init, SInv, RetType, SampleRight, WorkInv

\* A step that changes nothing keeps the invariant.
LEMMA StutterSInv == ASSUME SInv, UNCHANGED vars PROVE SInv'
  <1>1. RetType' /\ SampleRight'
    BY KeepRet DEF SInv, vars
  <1>2. /\ \A n, u : Latest(n, u)' = Latest(n, u)
        /\ \A s \in Threads : \A j : Neighbours(rows[s], j)' = Neighbours(rows[s], j)
        /\ \A j : Neighbours(found, j)' = Neighbours(found, j)
    BY DEF vars, parts, Neighbours, Latest, Slice, graph
  <1>3. /\ \A s \in Threads : ThreadInv(s) => ThreadInv(s)'
        /\ JoinInv => JoinInv'
    BY <1>2 DEF vars, parts, ThreadInv, JoinInv, Listed
  <1>4. WorkInv'
    BY <1>3 DEF SInv, WorkInv, vars
  <1> QED
    BY <1>1, <1>4 DEF SInv

\* Every root of every layer gets its own latest neighbours, under its own
\* number, whatever the order in which threads take locks and roots, as long as
\* a count of roots is exact as a float.
THEOREM Sampled == Spec => []SampleRight
  <1>1. PInv /\ SInv /\ [Next]_vars => SInv'
    BY OtherSInv, BarrierSInv, SampleSInv, CombineCooSInv, EndLayerSInv, StutterSInv DEF Next
  <1>2. SInv => SampleRight
    BY DEF SInv
  <1> QED
    BY <1>1, <1>2, InitSInv, PointersInductive, PTL DEF Spec
=============================================================================
