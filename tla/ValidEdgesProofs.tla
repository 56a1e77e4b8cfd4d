-------------------------- MODULE ValidEdgesProofs --------------------------
(***************************************************************************)
(* Proofs about the valid-edge cache: every edge that may still be sampled *)
(* has one slot, no slot is lost or given away twice, the array is as      *)
(* small as it can be, and with a sampler of one layer a block finds the   *)
(* features it asks for when the prefetch process replays the plan.        *)
(*                                                                         *)
(* First the stream, its blocks and what is dead when a block is reached;  *)
(* then the invariant, the slots each of the three ways gives a block,     *)
(* one block of the plan, one block of training, and what follows.         *)
(***************************************************************************)
EXTENDS ValidEdges, DataLemmas

----------------------------------------------------------------------------
(* The stream and its blocks *)

\* The sampler's operators, of a stream st that is given.
EntriesOf(st) == { p \in 0 .. 2 * NEdges - 1 : p % 2 = 0 \/ st.reverse }
BeforeOf(st, n, t) ==
  { p \in EntriesOf(st) :
      (IF p % 2 = 0 THEN st.src[EdgeOf(p)] ELSE st.dst[EdgeOf(p)]) = n /\ st.time[EdgeOf(p)] < t }
NewerOf(st, n, t, p) == { q \in BeforeOf(st, n, t) : p < q }
TooOldOf(st, n, t) == { p \in BeforeOf(st, n, t) : Cardinality(NewerOf(st, n, t, p)) >= FanOut }
DeadOf(st, X) == { e \in Edges : \A p \in EntriesOf(st) : EdgeOf(p) = e => p \in X }

\* What the roots of these edges make too old.
ExpiredBy(st, E) ==
  UNION { TooOldOf(st, st.src[e], st.time[e]) \cup TooOldOf(st, st.dst[e], st.time[e]) : e \in E }

\* The edges before a block, what their roots have made too old, and what is dead then.
EdgesBefore(b) == { e \in Edges : e < First(b) }
ExpiredAt(st, b) == ExpiredBy(st, EdgesBefore(b))
DeadAt(st, b) == DeadOf(st, ExpiredAt(st, b))

\* The block of an edge.
BlockOf(e) == e \div BlockSize

\* These are the operators of the model.
LEMMA SameOperators ==
  /\ Entries = EntriesOf(stream)
  /\ \A n, t : TooOld(n, t) = TooOldOf(stream, n, t)
  /\ \A X : Dead(X) = DeadOf(stream, X)
  <1>1. Entries = EntriesOf(stream)
    BY DEF Entries, EntriesOf
  <1>2. ASSUME NEW n, NEW t
        PROVE  TooOld(n, t) = TooOldOf(stream, n, t) /\ Before(n, t) = BeforeOf(stream, n, t)
    <2>1. Before(n, t) = BeforeOf(stream, n, t)
      BY <1>1 DEF Before, BeforeOf, RowOf
    <2>2. TooOld(n, t) = TooOldOf(stream, n, t)
      BY <2>1, Zenon DEF TooOld, TooOldOf, NewerOf
    <2> QED
      BY <2>1, <2>2
  <1>3. ASSUME NEW X PROVE Dead(X) = DeadOf(stream, X)
    BY <1>1 DEF Dead, DeadOf
  <1> QED
    BY <1>1, <1>2, <1>3

\* Where blocks begin, and what is in them.
LEMMA BlockFacts ==
  ASSUME NEW b \in Nat
  PROVE  /\ First(b) \in Nat /\ First(b + 1) = First(b) + BlockSize
         /\ b < NBlocks <=> First(b) < NEdges
         /\ IsFiniteSet(BlockEdges(b)) /\ BlockEdges(b) \subseteq Edges
         /\ b < NBlocks => Size(b) \in 1 .. BlockSize
                           /\ BlockEdges(b) = First(b) .. First(b) + Size(b) - 1
         /\ EdgesBefore(b + 1) = EdgesBefore(b) \cup BlockEdges(b)
         /\ EdgesBefore(b) \cap BlockEdges(b) = {}
         /\ IsFiniteSet(EdgesBefore(b)) /\ EdgesBefore(b) \subseteq Edges
  <1>1. PICK B \in Nat \ {0}, E \in Nat \ {0} : B = BlockSize /\ E = NEdges
    BY EdgeAssumption
  <1>2. PICK f \in Nat : f = b * B /\ f = First(b)
    BY <1>1 DEF First
  <1>3. First(b + 1) = f + B
    <2>1. (b + 1) * B = b * B + B
      OBVIOUS
    <2> QED
      BY <1>1, <1>2, <2>1 DEF First
  <1>4. b < NBlocks <=> f < E
    BY <1>1, <1>2 DEF NBlocks
  <1>5. \A e : e \in Edges <=> e \in Nat /\ e < E
    BY <1>1 DEF Edges
  <1>6. \A e : e \in BlockEdges(b) <=> e \in Nat /\ e < E /\ f <= e /\ e < f + B
    BY <1>2, <1>3, <1>5 DEF BlockEdges
  <1>7. IsFiniteSet(Edges)
    BY <1>1, FS_Interval DEF Edges
  <1>8. IsFiniteSet(BlockEdges(b)) /\ BlockEdges(b) \subseteq Edges
        /\ IsFiniteSet(EdgesBefore(b)) /\ EdgesBefore(b) \subseteq Edges
    <2>1. BlockEdges(b) \subseteq Edges /\ EdgesBefore(b) \subseteq Edges
      BY DEF BlockEdges, EdgesBefore
    <2> QED
      BY <1>7, <2>1, FS_Subset
  <1>9. ASSUME b < NBlocks
        PROVE  Size(b) \in 1 .. B /\ BlockEdges(b) = f .. f + Size(b) - 1
    <2>1. PICK m \in 1 .. B : (m = B \/ f + m = E) /\ f + m <= E
      <3>1. CASE f + B <= E
        <4>1. B \in 1 .. B
          OBVIOUS
        <4> QED
          BY <3>1, <4>1
      <3>2. CASE ~(f + B <= E)
        <4>1. E - f \in 1 .. B /\ f + (E - f) = E
          BY <1>4, <1>9, <3>2
        <4>2. f + (E - f) <= E
          BY <4>1
        <4> QED
          BY <4>1, <4>2
      <3> QED
        BY <3>1, <3>2
    <2>2. BlockEdges(b) = f .. f + m - 1
      BY <1>6, <2>1
    <2>3. Size(b) = m
      <3>1. Cardinality(f .. f + m - 1) = IF f > f + m - 1 THEN 0 ELSE f + m - 1 - f + 1
        BY FS_Interval
      <3> QED
        BY <2>2, <3>1 DEF Size
    <2> QED
      BY <2>2, <2>3
  <1>10. EdgesBefore(b + 1) = EdgesBefore(b) \cup BlockEdges(b)
    BY <1>1, <1>2, <1>3, <1>5, <1>6 DEF EdgesBefore
  <1>11. EdgesBefore(b) \cap BlockEdges(b) = {}
    BY <1>2, <1>5, <1>6 DEF EdgesBefore
  <1> QED
    BY <1>1, <1>2, <1>3, <1>4, <1>8, <1>9, <1>10, <1>11

\* The size of a block.
LEMMA BlockSizes ==
  ASSUME NEW b \in Nat, b < NBlocks
  PROVE  Size(b) \in Nat /\ First(b) \in Nat
  <1>1. PICK B \in Nat : B = BlockSize
    BY EdgeAssumption
  <1>2. Size(b) \in 1 .. B /\ First(b) \in Nat
    BY <1>1, BlockFacts
  <1> QED
    BY <1>2

\* The edges before a block and those of it are those before the next.
LEMMA BlocksSplit ==
  ASSUME NEW b \in Nat
  PROVE  /\ EdgesBefore(b + 1) = EdgesBefore(b) \cup BlockEdges(b)
         /\ EdgesBefore(b) \cap BlockEdges(b) = {}
         /\ IsFiniteSet(BlockEdges(b)) /\ BlockEdges(b) \subseteq Edges
         /\ IsFiniteSet(EdgesBefore(b)) /\ EdgesBefore(b) \subseteq Edges
  BY BlockFacts

\* Blocks follow one another.
LEMMA BlockOrder ==
  ASSUME NEW b \in Nat, NEW c \in Nat, b < c
  PROVE  First(b + 1) <= First(c) /\ EdgesBefore(b + 1) \subseteq EdgesBefore(c)
  <1>1. PICK B \in Nat \ {0} : B = BlockSize
    BY EdgeAssumption
  <1>2. PICK d \in Nat : c = b + 1 + d
    <2>1. c - (b + 1) \in Nat /\ c = b + 1 + (c - (b + 1))
      OBVIOUS
    <2> QED
      BY <2>1
  <1>3. c * B = (b + 1) * B + d * B /\ d * B \in Nat /\ (b + 1) * B \in Nat
    BY <1>2
  <1>4. First(b + 1) \in Nat /\ First(c) \in Nat /\ First(b + 1) <= First(c)
    BY <1>1, <1>3 DEF First
  <1>5. \A e \in Edges : e \in Nat
    BY EdgeAssumption DEF Edges
  <1> QED
    BY <1>4, <1>5 DEF EdgesBefore

\* Every edge is in its block.
LEMMA EdgeInBlock ==
  ASSUME NEW e \in Edges
  PROVE  /\ BlockOf(e) \in Nat /\ BlockOf(e) < NBlocks /\ e \in BlockEdges(BlockOf(e))
         /\ \A b \in Nat : e \in BlockEdges(b) => BlockOf(e) = b
         /\ \A b \in Nat : e < First(b) <=> BlockOf(e) < b
  <1>1. PICK B \in Nat \ {0}, E \in Nat \ {0} : B = BlockSize /\ E = NEdges /\ e \in Nat /\ e < E
    BY EdgeAssumption DEF Edges
  <1>2. PICK q \in Nat, r \in 0 .. B - 1 : q = BlockOf(e) /\ e = q * B + r
    <2>1. e \div B \in Nat /\ e % B \in 0 .. B - 1 /\ e = (e \div B) * B + (e % B)
      BY <1>1, Division
    <2> QED
      BY <1>1, <2>1 DEF BlockOf
  <1>3. First(q) = q * B /\ First(q + 1) = q * B + B /\ q * B \in Nat
    <2>1. (q + 1) * B = q * B + B
      OBVIOUS
    <2> QED
      BY <1>1, <2>1 DEF First
  <1>4. First(q) <= e /\ e < First(q + 1) /\ First(q) \in Nat
    BY <1>1, <1>2, <1>3
  <1>5. q < NBlocks
    BY <1>1, <1>4, BlockFacts
  <1>6. ASSUME NEW b \in Nat
        PROVE  e < First(b) <=> q < b
    <2>1. First(b) \in Nat
      BY BlockFacts
    <2>2. ASSUME q < b PROVE e < First(b)
      BY <1>1, <1>3, <1>4, <2>1, <2>2, BlockOrder
    <2>3. ASSUME b < q PROVE ~(e < First(b))
      <3>1. First(b + 1) <= First(q) /\ First(b + 1) = First(b) + B
        BY <1>1, <2>3, BlockOrder, BlockFacts
      <3> QED
        BY <1>1, <1>4, <2>1, <3>1
    <2>4. ASSUME b = q PROVE ~(e < First(b))
      BY <1>1, <1>4, <2>4
    <2> QED
      BY <2>2, <2>3, <2>4
  <1>7. ASSUME NEW b \in Nat, e \in BlockEdges(b)
        PROVE  q = b
    <2>1. First(b) <= e /\ e < First(b + 1) /\ First(b) \in Nat
      BY <1>7, BlockFacts DEF BlockEdges
    <2>2. ~(q < b) /\ q < b + 1
      BY <1>1, <1>6, <2>1
    <2> QED
      BY <2>2
  <1>8. e \in BlockEdges(q)
    BY <1>4 DEF BlockEdges
  <1> QED
    BY <1>2, <1>5, <1>6, <1>7, <1>8

\* Entries are those of edges, and every edge has one; times rise with the edges.
LEMMA StreamFacts ==
  ASSUME NEW st \in Stream
  PROVE  /\ \A p \in EntriesOf(st) : p \in Nat /\ EdgeOf(p) \in Edges
         /\ \A e \in Edges : \E p \in EntriesOf(st) : EdgeOf(p) = e
         /\ \A e \in Edges : st.time[e] \in Nat /\ st.src[e] \in Nodes /\ st.dst[e] \in Nodes
         /\ \A e, f \in Edges : st.time[e] < st.time[f] => e < f
         /\ IsFiniteSet(EntriesOf(st)) /\ \A e \in Edges : e \in Nat
  <1>1. PICK E \in Nat \ {0} : E = NEdges
    BY EdgeAssumption
  <1>2. \A e : e \in Edges <=> e \in 0 .. E - 1
    BY <1>1 DEF Edges
  <1>3. ASSUME NEW p \in EntriesOf(st) PROVE p \in Nat /\ EdgeOf(p) \in Edges
    <2>1. p \in 0 .. 2 * E - 1
      BY <1>1 DEF EntriesOf
    <2>2. p \div 2 \in 0 .. E - 1
      BY <2>1
    <2> QED
      BY <1>2, <2>1, <2>2 DEF EdgeOf
  <1>4. ASSUME NEW e \in Edges PROVE \E p \in EntriesOf(st) : EdgeOf(p) = e
    <2>1. e \in 0 .. E - 1
      BY <1>2
    <2>2. 2 * e \in 0 .. 2 * E - 1 /\ (2 * e) % 2 = 0 /\ (2 * e) \div 2 = e
      BY <2>1
    <2> QED
      BY <1>1, <2>2 DEF EntriesOf, EdgeOf
  <1>5. \A e \in Edges : st.time[e] \in Nat /\ st.src[e] \in Nodes /\ st.dst[e] \in Nodes
    BY DEF Stream
  <1>6. ASSUME NEW e \in Edges, NEW f \in Edges, st.time[e] < st.time[f]
        PROVE  e < f
    <2>1. \A a, c \in Edges : a < c => st.time[a] <= st.time[c]
      BY DEF Stream
    <2>2. PICK a \in Nat, c \in Nat : a = e /\ c = f
      BY <1>2
    <2>3. PICK x \in Nat, y \in Nat : x = st.time[e] /\ y = st.time[f]
      BY <1>5
    <2>4. ~(c < a)
      BY <1>6, <2>1, <2>2, <2>3
    <2>5. c # a
      BY <1>6, <2>2, <2>3
    <2> QED
      BY <2>2, <2>4, <2>5
  <1>7. IsFiniteSet(EntriesOf(st))
    <2>1. IsFiniteSet(0 .. 2 * NEdges - 1)
      BY <1>1, FS_Interval
    <2>2. EntriesOf(st) \in SUBSET (0 .. 2 * NEdges - 1)
      BY DEF EntriesOf
    <2> QED
      BY <2>1, <2>2, FS_Subset
  <1>8. \A e \in Edges : e \in Nat
    BY <1>2
  <1> QED
    BY <1>3, <1>4, <1>5, <1>6, <1>7, <1>8

\* What is expired is of edges before.
LEMMA ExpiredFacts ==
  ASSUME NEW st \in Stream, NEW b \in Nat
  PROVE  /\ \A p \in ExpiredAt(st, b) : p \in EntriesOf(st) /\ EdgeOf(p) \in EdgesBefore(b)
         /\ DeadAt(st, b) \subseteq EdgesBefore(b)
         /\ ExpiredAt(st, b + 1) = ExpiredAt(st, b) \cup ExpiredBy(st, BlockEdges(b))
         /\ DeadAt(st, b) \subseteq DeadAt(st, b + 1)
  <1>1. ASSUME NEW p \in ExpiredAt(st, b)
        PROVE  p \in EntriesOf(st) /\ EdgeOf(p) \in EdgesBefore(b)
    <2>0. PICK e \in EdgesBefore(b) : \E n : p \in TooOldOf(st, n, st.time[e])
      BY <1>1 DEF ExpiredAt, ExpiredBy
    <2>1. PICK n : p \in TooOldOf(st, n, st.time[e])
      BY <2>0
    <2>2. p \in EntriesOf(st) /\ st.time[EdgeOf(p)] < st.time[e]
      BY <2>1 DEF TooOldOf, BeforeOf
    <2>3. e \in Edges /\ e < First(b)
      BY DEF EdgesBefore
    <2>4. EdgeOf(p) \in Edges /\ EdgeOf(p) < e
      BY <2>2, <2>3, StreamFacts
    <2>5. PICK x \in Nat, y \in Nat, f \in Nat : x = EdgeOf(p) /\ y = e /\ f = First(b)
      BY <2>3, <2>4, StreamFacts, BlockFacts
    <2>6. x < f
      BY <2>3, <2>4, <2>5
    <2> QED
      BY <2>2, <2>4, <2>5, <2>6 DEF EdgesBefore
  <1>2. ASSUME NEW e \in DeadAt(st, b) PROVE e \in EdgesBefore(b)
    <2>1. e \in Edges /\ \A p \in EntriesOf(st) : EdgeOf(p) = e => p \in ExpiredAt(st, b)
      BY <1>2 DEF DeadAt, DeadOf
    <2> QED
      BY <1>1, <2>1, StreamFacts
  <1>3. ExpiredAt(st, b + 1) = ExpiredAt(st, b) \cup ExpiredBy(st, BlockEdges(b))
    BY BlockFacts DEF ExpiredAt, ExpiredBy
  <1>4. DeadAt(st, b) \subseteq DeadAt(st, b + 1)
    BY <1>3 DEF DeadAt, DeadOf
  <1> QED
    BY <1>1, <1>2, <1>3, <1>4

\* What is dead stays dead.
LEMMA DeadMonotone ==
  ASSUME NEW st \in Stream, NEW b \in Nat, NEW c \in Nat, b <= c
  PROVE  DeadAt(st, b) \subseteq DeadAt(st, c)
  <1>1. CASE b = c
    BY <1>1
  <1>2. CASE b < c
    <2>1. EdgesBefore(b + 1) \subseteq EdgesBefore(c)
      BY <1>2, BlockOrder
    <2>2. EdgesBefore(b) \subseteq EdgesBefore(c)
      BY <2>1, BlockFacts
    <2>3. ExpiredAt(st, b) \subseteq ExpiredAt(st, c)
      BY <2>2 DEF ExpiredAt, ExpiredBy
    <2> QED
      BY <2>3 DEF DeadAt, DeadOf
  <1> QED
    BY <1>1, <1>2

\* What a root of block b can reach is not expired by the blocks before: an entry
\* with FanOut newer ones has them for every later root.
LEMMA ReachedAlive ==
  ASSUME NEW st \in Stream, NEW b \in Nat, NEW e \in BlockEdges(b), NEW n,
         NEW p \in BeforeOf(st, n, st.time[e]),
         ~(Cardinality(NewerOf(st, n, st.time[e], p)) >= FanOut)
  PROVE  EdgeOf(p) \in EdgesBefore(b + 1) /\ EdgeOf(p) \notin DeadAt(st, b)
  <1>1. e \in Edges /\ First(b) <= e /\ e < First(b + 1)
    BY DEF BlockEdges
  <1>2. p \in EntriesOf(st) /\ st.time[EdgeOf(p)] < st.time[e] /\ EdgeOf(p) \in Edges
    BY StreamFacts DEF BeforeOf
  <1>3. PICK x \in Nat, y \in Nat, f \in Nat, g \in Nat :
           x = EdgeOf(p) /\ y = e /\ f = First(b) /\ g = First(b + 1)
    <2>1. b + 1 \in Nat
      OBVIOUS
    <2>2. First(b) \in Nat /\ First(b + 1) \in Nat
      BY <2>1, BlockFacts
    <2>3. EdgeOf(p) \in Nat /\ e \in Nat
      BY <1>1, <1>2, StreamFacts
    <2> QED
      BY <2>2, <2>3
  <1>4. EdgeOf(p) \in EdgesBefore(b + 1)
    <2>1. x < y
      BY <1>1, <1>2, <1>3, StreamFacts
    <2>2. x < g
      BY <1>1, <1>3, <2>1
    <2> QED
      BY <1>2, <1>3, <2>2 DEF EdgesBefore
  <1>5. ASSUME p \in ExpiredAt(st, b) PROVE FALSE
    <2>0. PICK r \in EdgesBefore(b) : \E m : p \in TooOldOf(st, m, st.time[r])
      BY <1>5 DEF ExpiredAt, ExpiredBy
    <2>1. PICK m : p \in TooOldOf(st, m, st.time[r])
      BY <2>0
    <2>2. p \in BeforeOf(st, m, st.time[r]) /\ Cardinality(NewerOf(st, m, st.time[r], p)) >= FanOut
      BY <2>1 DEF TooOldOf
    <2>3. m = n
      BY <2>2 DEF BeforeOf
    <2>4. r \in Edges /\ r < First(b)
      BY DEF EdgesBefore
    <2>5. PICK tr \in Nat, te \in Nat, z \in Nat : tr = st.time[r] /\ te = st.time[e] /\ z = r
      BY <1>1, <2>4, StreamFacts
    <2>6. tr <= te
      <3>1. z < y
        BY <1>1, <1>3, <2>4, <2>5
      <3>2. ~(te < tr)
        <4>1. te < tr => y < z
          BY <1>1, <1>3, <2>4, <2>5, StreamFacts
        <4> QED
          BY <3>1, <4>1
      <3> QED
        BY <3>2
    <2>7. BeforeOf(st, n, tr) \subseteq BeforeOf(st, n, te)
      <3> SUFFICES ASSUME NEW q \in BeforeOf(st, n, tr) PROVE q \in BeforeOf(st, n, te)
        OBVIOUS
      <3>1. q \in EntriesOf(st) /\ st.time[EdgeOf(q)] < tr
        BY DEF BeforeOf
      <3>2. st.time[EdgeOf(q)] \in Nat
        BY <3>1, StreamFacts
      <3>3. st.time[EdgeOf(q)] < te
        BY <2>6, <3>1, <3>2
      <3> QED
        BY <3>3 DEF BeforeOf
    <2>8. PICK A, B : A = NewerOf(st, n, tr, p) /\ B = NewerOf(st, n, te, p)
      OBVIOUS
    <2>9. A \subseteq B /\ B \subseteq EntriesOf(st)
      BY <2>7, <2>8 DEF NewerOf, BeforeOf
    <2>10. IsFiniteSet(B)
      BY <2>9, StreamFacts, FS_Subset
    <2>11. PICK ca \in Nat, cb \in Nat : ca = Cardinality(A) /\ cb = Cardinality(B) /\ ca <= cb
      BY <2>9, <2>10, FS_Subset, FS_CardinalityType
    <2>12. PICK k \in Nat : k = FanOut
      BY EdgeAssumption
    <2>13. ca >= k /\ ~(cb >= k)
      BY <2>2, <2>3, <2>5, <2>8, <2>11, <2>12
    <2> QED
      BY <2>11, <2>12, <2>13
  <1>6. EdgeOf(p) \notin DeadAt(st, b)
    BY <1>2, <1>5 DEF DeadAt, DeadOf
  <1> QED
    BY <1>4, <1>6

----------------------------------------------------------------------------
(* The inductive invariant *)

\* The slot given to edge e.
SlotAt(rep, e) == rep[BlockOf(e)][e - First(BlockOf(e)) + 1]

\* The edges that own a slot: those before block nb that are not dead, and those whose
\* slots are taken back with block nb.
Held(st, nb, ex) == (EdgesBefore(nb) \ DeadAt(st, nb)) \cup ex

\* The slots 0 .. N - 1: those in the list are of no held edge; a held edge owns the slot
\* it was given, and no other.
OwnInv(st, nb, ex, own, fr, rep, N) ==
  /\ DOMAIN own = 0 .. N - 1
  /\ \A s \in 0 .. N - 1 : own[s] \in EdgesBefore(nb)
  /\ fr \in Seq(0 .. N - 1) /\ Distinct(fr)
  /\ \A s \in 0 .. N - 1 : own[s] \in Held(st, nb, ex) <=> s \notin Elems(fr)
  /\ \A e \in Held(st, nb, ex) :
       /\ SlotAt(rep, e) \in 0 .. N - 1 /\ own[SlotAt(rep, e)] = e
       /\ \A s \in 0 .. N - 1 : own[s] = e => s = SlotAt(rep, e)

\* The plan: a block does not give away the slot of an edge that was not dead when the
\* blocks before it had been gone through.
RepInv(st, nb, rep, N) ==
  /\ rep \in [Blocks -> Seq(0 .. N - 1)]
  /\ \A b \in Blocks : b < nb => Len(rep[b]) = Size(b) /\ Distinct(rep[b])
  /\ \A c \in Blocks : c < nb =>
       \A e \in EdgesBefore(c) : e \notin DeadAt(st, c) => SlotAt(rep, e) \notin Elems(rep[c])

\* The counts: the slots are those of the edges alive, of those to take back and of the
\* list, and no more than were needed at one time.
CountInv(st, nb, ex, fr, N, cal, max) ==
  /\ cal = Cardinality(EdgesBefore(nb) \ DeadAt(st, nb))
  /\ N = cal + Cardinality(ex) + Len(fr)
  /\ max = N /\ max \in 0 .. NEdges

\* The invariant of the plan.
PlanInv ==
  /\ stream \in Stream /\ nextBlock \in 0 .. NBlocks
  /\ expired = ExpiredAt(stream, nextBlock) /\ expEids \subseteq DeadAt(stream, nextBlock)
  /\ endPtr \in Nat
  /\ OwnInv(stream, nextBlock, expEids, owner, free, replace, endPtr)
  /\ RepInv(stream, nextBlock, replace, endPtr)
  /\ CountInv(stream, nextBlock, expEids, free, endPtr, calEdges, calMax)

\* The prefetch process replays the plan: an edge of a block up to the one prepared that
\* was not dead before that block has its feature where valid_map says.
TrainInv ==
  /\ validMap \in [Edges -> Nat] /\ validBlock \in Blocks /\ epoch \in 0 .. Epochs
  /\ \A s \in DOMAIN validEf : validEf[s] \in Edges \cup {Zeros}
  /\ epoch > 0 =>
       /\ nextBlock = NBlocks /\ DOMAIN validEf = DOMAIN owner
       /\ \A e \in EdgesBefore(validBlock + 1) :
            /\ validMap[e] = SlotAt(replace, e)
            /\ e \notin DeadAt(stream, validBlock) => validEf[SlotAt(replace, e)] = e

\* The inductive invariant.
Inv == PlanInv /\ TrainInv

----------------------------------------------------------------------------
(* The slots of a block *)

\* The slots that are taken back are those of the expired edges.
LEMMA ReturnedFacts ==
  ASSUME PlanInv
  PROVE  /\ Returned \in Seq(0 .. endPtr - 1) /\ Len(Returned) = Cardinality(expEids)
         /\ Distinct(Returned) /\ IsFiniteSet(expEids) /\ Cardinality(expEids) \in Nat
         /\ Elems(Returned) = { s \in 0 .. endPtr - 1 : owner[s] \in expEids }
  <1>1. PICK N \in Nat, b \in Nat : N = endPtr /\ b = nextBlock
    BY EdgeAssumption DEF PlanInv
  <1>2. /\ DOMAIN owner = 0 .. N - 1
        /\ \A e \in expEids : /\ SlotAt(replace, e) \in 0 .. N - 1
                              /\ owner[SlotAt(replace, e)] = e
                              /\ \A s \in 0 .. N - 1 : owner[s] = e => s = SlotAt(replace, e)
    BY <1>1 DEF PlanInv, OwnInv, Held
  <1>3. ASSUME NEW e \in expEids
        PROVE  /\ SlotOf(e) = SlotAt(replace, e) /\ SlotOf(e) \in 0 .. N - 1 /\ owner[SlotOf(e)] = e
               /\ \A s \in 0 .. N - 1 : owner[s] = e => s = SlotOf(e)
    BY <1>2 DEF SlotOf
  <1>4. expEids \in SUBSET Nat /\ IsFiniteSet(expEids)
    <2>1. expEids \subseteq EdgesBefore(b)
      BY <1>1, ExpiredFacts DEF PlanInv
    <2>2. EdgesBefore(b) \subseteq Nat
      BY StreamFacts DEF EdgesBefore, PlanInv
    <2>3. IsFiniteSet(EdgesBefore(b))
      BY BlockFacts
    <2> QED
      BY <2>1, <2>2, <2>3, FS_Subset
  <1>5. PICK m \in Nat : m = Cardinality(expEids)
    BY <1>4, FS_CardinalityType
  <1>6. /\ \A e, g \in expEids : Rank(expEids, e) = Rank(expEids, g) => e = g
        /\ \A i \in 0 .. m - 1 : \E e \in expEids : Rank(expEids, e) = i
        /\ \A e \in expEids : Rank(expEids, e) \in 0 .. m - 1
    BY <1>4, <1>5, RankFacts
  <1>7. ASSUME NEW i \in 1 .. m
        PROVE  Nth(i) \in expEids /\ Rank(expEids, Nth(i)) = i - 1
    <2>1. i - 1 \in 0 .. m - 1
      OBVIOUS
    <2>2. \E e \in expEids : Rank(expEids, e) = i - 1
      BY <1>6, <2>1
    <2> QED
      BY <2>2, Zenon DEF Nth, Rank
  <1>8. ASSUME NEW e \in expEids
        PROVE  \E i \in 1 .. m : Nth(i) = e
    <2>1. PICK r \in 0 .. m - 1 : r = Rank(expEids, e)
      BY <1>6
    <2>2. r + 1 \in 1 .. m /\ (r + 1) - 1 = r
      OBVIOUS
    <2>3. Nth(r + 1) = e
      BY <1>6, <1>7, <2>1, <2>2
    <2> QED
      BY <2>2, <2>3
  <1> DEFINE t == Returned
  <1>9. t \in [1 .. m -> 0 .. N - 1] /\ \A i \in 1 .. m : t[i] = SlotOf(Nth(i))
    BY <1>3, <1>5, <1>7 DEF Returned
  <1> HIDE DEF t
  <1>10. t \in Seq(0 .. N - 1) /\ Len(t) = m /\ DOMAIN t = 1 .. m
    BY <1>9, FunctionIsSeq
  <1>11. Distinct(t)
    <2> SUFFICES ASSUME NEW i \in 1 .. m, NEW j \in 1 .. m, t[i] = t[j] PROVE i = j
      BY <1>10 DEF Distinct
    <2>1. Nth(i) = Nth(j)
      BY <1>3, <1>7, <1>9
    <2>2. i - 1 = j - 1
      BY <1>7, <2>1
    <2> QED
      BY <2>2
  <1>12. Elems(t) = { s \in 0 .. N - 1 : owner[s] \in expEids }
    <2>1. ASSUME NEW s \in Elems(t) PROVE s \in 0 .. N - 1 /\ owner[s] \in expEids
      BY <1>3, <1>7, <1>9, <1>10, <2>1 DEF Elems
    <2>2. ASSUME NEW s \in 0 .. N - 1, owner[s] \in expEids PROVE s \in Elems(t)
      <3>1. s = SlotOf(owner[s])
        BY <1>3, <2>2
      <3>2. PICK i \in 1 .. m : Nth(i) = owner[s]
        BY <1>8, <2>2
      <3> QED
        BY <1>9, <1>10, <3>1, <3>2 DEF Elems
    <2> QED
      BY <2>1, <2>2
  <1> QED
    BY <1>1, <1>4, <1>5, <1>10, <1>11, <1>12 DEF t

\* A block of k edges gets the slots of this list; fr2 is the list of slots that are left
\* of those taken back, those of the list and those that are new.
Handout(slots, fr2, M, own, fr, ex, N, k) ==
  /\ M \in Nat /\ N <= M
  /\ slots \in Seq(0 .. M - 1) /\ Len(slots) = k /\ Distinct(slots)
  /\ fr2 \in Seq(0 .. M - 1) /\ Distinct(fr2) /\ Elems(slots) \cap Elems(fr2) = {}
  /\ Elems(slots) \cup Elems(fr2) =
       { s \in 0 .. N - 1 : own[s] \in ex } \cup Elems(fr) \cup N .. M - 1
  /\ Len(fr2) = Cardinality(ex) + Len(fr) + (M - N) - k
  /\ N < M => fr2 = <<>>

\* Slots that are new.
LEMMA FreshFacts ==
  ASSUME endPtr \in Nat, NEW k \in Nat
  PROVE  /\ Fresh(k) \in Seq(0 .. endPtr + k - 1) /\ Len(Fresh(k)) = k /\ Distinct(Fresh(k))
         /\ Elems(Fresh(k)) = endPtr .. endPtr + k - 1
  <1>1. PICK N \in Nat : N = endPtr
    OBVIOUS
  <1> DEFINE t == Fresh(k)
  <1>2. t = [i \in 1 .. k |-> N + i - 1]
    BY <1>1 DEF Fresh
  <1>3. \A i \in 1 .. k : t[i] = N + i - 1 /\ N + i - 1 \in 0 .. N + k - 1
    BY <1>2
  <1>4. t \in [1 .. k -> 0 .. N + k - 1]
    BY <1>2, <1>3
  <1> HIDE DEF t
  <1>5. t \in Seq(0 .. N + k - 1) /\ Len(t) = k /\ DOMAIN t = 1 .. k
    BY <1>4, FunctionIsSeq
  <1>6. Distinct(t)
    BY <1>3, <1>5 DEF Distinct
  <1>7. Elems(t) = N .. N + k - 1
    <2>1. ASSUME NEW x \in Elems(t) PROVE x \in N .. N + k - 1
      <3>1. PICK i \in 1 .. k : x = t[i]
        BY <1>5, <2>1 DEF Elems
      <3> QED
        BY <1>3, <3>1
    <2>2. ASSUME NEW x \in N .. N + k - 1 PROVE x \in Elems(t)
      <3>1. x - N + 1 \in 1 .. k /\ N + (x - N + 1) - 1 = x
        OBVIOUS
      <3>2. t[x - N + 1] = x
        BY <1>3, <3>1
      <3> QED
        BY <1>5, <3>1, <3>2 DEF Elems
    <2> QED
      BY <2>1, <2>2
  <1> QED
    BY <1>1, <1>5, <1>6, <1>7 DEF t

\* Each of the three ways gives the block slots that no one holds.
LEMMA GiveHandout ==
  ASSUME PlanInv, GiveReturned \/ GiveKept \/ GiveNew
  PROVE  /\ nextBlock < NBlocks /\ Expire
         /\ \E slots, M :
              /\ Handout(slots, free', M, owner, free, expEids, endPtr, Size(nextBlock))
              /\ Give(slots)
  <1>1. PICK N \in Nat, b \in Nat : N = endPtr /\ b = nextBlock
    BY EdgeAssumption DEF PlanInv
  <1>2. nextBlock < NBlocks /\ Expire
    BY DEF GiveReturned, GiveKept, GiveNew
  <1>3. PICK k \in Nat : k = Size(nextBlock)
    BY <1>1, <1>2, BlockFacts, EdgeAssumption
  <1>4. PICK h \in Nat, t \in Seq(0 .. N - 1) :
                            /\ t = Returned /\ t \in Seq(0 .. N - 1) /\ Len(t) = h /\ Distinct(t)
                            /\ h = Cardinality(expEids)
                            /\ Elems(t) = { s \in 0 .. N - 1 : owner[s] \in expEids }
    <2>1. PICK h \in Nat : h = Cardinality(expEids)
      BY ReturnedFacts
    <2> QED
      BY <1>1, <2>1, ReturnedFacts
  <1>5. PICK g \in Nat, f \in Seq(0 .. N - 1) :
                            /\ f = free /\ f \in Seq(0 .. N - 1) /\ Len(f) = g /\ Distinct(f)
    <2>1. free \in Seq(0 .. N - 1) /\ Distinct(free)
      BY <1>1 DEF PlanInv, OwnInv
    <2> QED
      BY <2>1, LenProperties
  <1>6. Elems(t) \cap Elems(f) = {}
    BY <1>1, <1>4, <1>5 DEF PlanInv, OwnInv, Held
  <1>7. CASE GiveReturned
    <2>1. k <= h /\ Give(SubSeq(t, 1, k)) /\ free' = f \o SubSeq(t, k + 1, Len(t))
      BY <1>3, <1>4, <1>5, <1>7 DEF GiveReturned
    <2>2. PICK a, r : a = SubSeq(t, 1, k) /\ r = SubSeq(t, k + 1, Len(t))
      OBVIOUS
    <2>3. IsCut(t, k, a, r, 0 .. N - 1)
      <3>1. k \in 0 .. Len(t)
        BY <1>4, <2>1
      <3> QED
        BY <1>4, <2>2, <3>1, CutElems
    <2>4. /\ a \in Seq(0 .. N - 1) /\ Len(a) = k /\ r \in Seq(0 .. N - 1) /\ Len(r) = h - k
          /\ Elems(t) = Elems(a) \cup Elems(r)
          /\ Distinct(a) /\ Distinct(r) /\ Elems(a) \cap Elems(r) = {}
      BY <1>4, <2>3 DEF IsCut
    <2>5. Elems(f) \cap Elems(r) = {} /\ Elems(a) \cap Elems(f) = {}
      BY <1>6, <2>4
    <2>6. /\ f \o r \in Seq(0 .. N - 1) /\ Len(f \o r) = g + (h - k) /\ Distinct(f \o r)
          /\ Elems(f \o r) = Elems(f) \cup Elems(r)
      <3>1. PICK d \in Nat : d = h - k
        BY <2>1
      <3>2. IsJoin(f \o r, 0 .. N - 1, g + d, Elems(f) \cup Elems(r))
        BY <1>5, <2>4, <2>5, <3>1, Joined
      <3> QED
        BY <3>1, <3>2 DEF IsJoin
    <2>7. N .. N - 1 = {} /\ ~(N < N) /\ N <= N /\ g + (h - k) = h + g + (N - N) - k
      OBVIOUS
    <2>8. Handout(a, f \o r, N, owner, f, expEids, N, k)
      <3>1. Elems(a) \cap Elems(f \o r) = {}
        BY <2>4, <2>5, <2>6
      <3>2. Elems(a) \cup Elems(f \o r) =
              { s \in 0 .. N - 1 : owner[s] \in expEids } \cup Elems(f) \cup N .. N - 1
        BY <1>4, <2>4, <2>6, <2>7
      <3> QED
        BY <1>4, <1>5, <2>4, <2>6, <2>7, <3>1, <3>2 DEF Handout
    <2> QED
      BY <1>1, <1>2, <1>3, <1>5, <2>1, <2>2, <2>8
  <1>8. CASE GiveKept
    <2>1. PICK m \in Nat : m = Size(nextBlock) - Len(Returned) /\ m > 0 /\ m <= g /\ k = h + m
      BY <1>3, <1>4, <1>5, <1>8 DEF GiveKept
    <2>2. PICK a, r : a = SubSeq(f, 1, m) /\ r = SubSeq(f, m + 1, Len(f))
      OBVIOUS
    <2>3. Give(t \o a) /\ free' = r
      BY <1>4, <1>5, <1>8, <2>1, <2>2 DEF GiveKept
    <2>4. IsCut(f, m, a, r, 0 .. N - 1)
      <3>1. m \in 0 .. Len(f)
        BY <1>5, <2>1
      <3> QED
        BY <1>5, <2>2, <3>1, CutElems
    <2>5. /\ a \in Seq(0 .. N - 1) /\ Len(a) = m /\ r \in Seq(0 .. N - 1) /\ Len(r) = g - m
          /\ Elems(f) = Elems(a) \cup Elems(r)
          /\ Distinct(a) /\ Distinct(r) /\ Elems(a) \cap Elems(r) = {}
      BY <1>5, <2>4 DEF IsCut
    <2>6. Elems(t) \cap Elems(r) = {} /\ Elems(t) \cap Elems(a) = {}
      BY <1>6, <2>5
    <2>7. /\ t \o a \in Seq(0 .. N - 1) /\ Len(t \o a) = h + m /\ Distinct(t \o a)
          /\ Elems(t \o a) = Elems(t) \cup Elems(a)
      <3>1. IsJoin(t \o a, 0 .. N - 1, h + m, Elems(t) \cup Elems(a))
        BY <1>4, <2>5, <2>6, Joined
      <3> QED
        BY <3>1 DEF IsJoin
    <2>8. N .. N - 1 = {} /\ ~(N < N) /\ N <= N /\ g - m = h + g + (N - N) - k
      BY <2>1
    <2>9. Handout(t \o a, r, N, owner, f, expEids, N, k)
      <3>1. Elems(t \o a) \cap Elems(r) = {}
        BY <2>5, <2>6, <2>7
      <3>2. Elems(t \o a) \cup Elems(r) =
              { s \in 0 .. N - 1 : owner[s] \in expEids } \cup Elems(f) \cup N .. N - 1
        BY <1>4, <2>5, <2>7, <2>8
      <3> QED
        BY <1>4, <1>5, <2>1, <2>5, <2>7, <2>8, <3>1, <3>2 DEF Handout
    <2> QED
      BY <1>1, <1>2, <1>3, <1>5, <2>3, <2>9
  <1>9. CASE GiveNew
    <2>1. PICK m \in Nat : m = Size(nextBlock) - Len(Returned) - Len(free) /\ m > 0 /\ k = h + g + m
      BY <1>3, <1>4, <1>5, <1>9 DEF GiveNew
    <2>0. PICK M \in Nat : M = N + m
      OBVIOUS
    <2>2. PICK r : M = N + m /\ r = Fresh(m)
      BY <2>0
    <2>3. Give((t \o f) \o r) /\ free' = <<>>
      BY <1>4, <1>5, <1>9, <2>1, <2>2 DEF GiveNew
    <2>4. r \in Seq(0 .. M - 1) /\ Len(r) = m /\ Distinct(r) /\ Elems(r) = N .. M - 1
      BY <1>1, <2>2, FreshFacts
    <2>5. t \in Seq(0 .. M - 1) /\ f \in Seq(0 .. M - 1)
      <3>1. 0 .. N - 1 \subseteq 0 .. M - 1
        BY <2>2
      <3> QED
        BY <1>4, <1>5, <3>1, SeqWiden
    <2>6. /\ t \o f \in Seq(0 .. M - 1) /\ Len(t \o f) = h + g /\ Distinct(t \o f)
          /\ Elems(t \o f) = Elems(t) \cup Elems(f)
      <3>1. IsJoin(t \o f, 0 .. M - 1, h + g, Elems(t) \cup Elems(f))
        BY <1>4, <1>5, <1>6, <2>5, Joined
      <3> QED
        BY <3>1 DEF IsJoin
    <2>7. Elems(t \o f) \cap Elems(r) = {}
      <3>1. Elems(t) \subseteq 0 .. N - 1
        BY <1>4
      <3>2. Elems(f) \subseteq 0 .. N - 1
        <4>1. \A i \in DOMAIN f : f[i] \in 0 .. N - 1
          BY <1>5, LenProperties, ElementOfSeq
        <4> QED
          BY <4>1 DEF Elems
      <3>3. 0 .. N - 1 \cap N .. M - 1 = {}
        OBVIOUS
      <3> QED
        BY <2>4, <2>6, <3>1, <3>2, <3>3
    <2>8. /\ (t \o f) \o r \in Seq(0 .. M - 1) /\ Len((t \o f) \o r) = h + g + m
          /\ Distinct((t \o f) \o r)
          /\ Elems((t \o f) \o r) = Elems(t \o f) \cup Elems(r)
      <3> PICK u : u = t \o f
        OBVIOUS
      <3>1. PICK d \in Nat : d = h + g
        OBVIOUS
      <3>2. /\ u \in Seq(0 .. M - 1) /\ Len(u) = d /\ Distinct(u)
            /\ Elems(u) \cap Elems(r) = {}
        BY <2>6, <2>7, <3>1
      <3>3. IsJoin(u \o r, 0 .. M - 1, d + m, Elems(u) \cup Elems(r))
        BY <2>4, <3>2, Joined
      <3> QED
        BY <3>1, <3>3 DEF IsJoin
    <2>9. N <= M /\ 0 = h + g + (M - N) - k
      BY <2>1, <2>2
    <2>10. <<>> \in Seq(0 .. M - 1) /\ Len(<<>>) = 0 /\ Distinct(<<>>) /\ Elems(<<>>) = {}
      BY NoElems, EmptySeq
    <2>11. Handout((t \o f) \o r, <<>>, M, owner, f, expEids, N, k)
      <3>1. Elems((t \o f) \o r) \cup Elems(<<>>) =
              { s \in 0 .. N - 1 : owner[s] \in expEids } \cup Elems(f) \cup N .. M - 1
        BY <1>4, <2>4, <2>6, <2>8, <2>10
      <3>2. Elems((t \o f) \o r) \cap Elems(<<>>) = {}
        BY <2>10
      <3> QED
        BY <1>4, <1>5, <2>1, <2>8, <2>9, <2>10, <3>1, <3>2 DEF Handout
    <2> QED
      BY <1>1, <1>2, <1>3, <1>5, <2>3, <2>11
  <1> QED
    BY <1>7, <1>8, <1>9

----------------------------------------------------------------------------
(* The plan of one block *)

\* replace after block nb has been given these slots.
ReplaceAfter(rep, nb, slots) == [rep EXCEPT ![nb] = slots]

\* The edges of block nb begin at First(nb); earlier edges are in earlier blocks.
LEMMA SlotsKept ==
  ASSUME NEW st \in Stream, NEW nb \in Nat, nb < NBlocks, NEW N, NEW rep, RepInv(st, nb, rep, N),
         NEW slots, NEW rep2, rep2 = ReplaceAfter(rep, nb, slots)
  PROVE  /\ nb \in Blocks /\ rep2[nb] = slots
         /\ \A c \in Blocks : c # nb => rep2[c] = rep[c]
         /\ \A e \in EdgesBefore(nb) : SlotAt(rep2, e) = SlotAt(rep, e)
         /\ \A i \in 1 .. Size(nb) : /\ First(nb) + i - 1 \in BlockEdges(nb)
                                     /\ SlotAt(rep2, First(nb) + i - 1) = slots[i]
         /\ \A e \in BlockEdges(nb) : \E i \in 1 .. Size(nb) : e = First(nb) + i - 1
  <1>1. NBlocks \in Nat
    BY EdgeAssumption DEF NBlocks
  <1>2. nb \in Blocks
    BY <1>1 DEF Blocks
  <1>3. rep2[nb] = slots /\ \A c \in Blocks : c # nb => rep2[c] = rep[c]
    BY <1>2 DEF RepInv, ReplaceAfter
  <1>4. PICK k \in Nat, f \in Nat : k = Size(nb) /\ f = First(nb)
    BY BlockSizes
  <1>5. BlockEdges(nb) = f .. f + k - 1
    BY <1>4, BlockFacts
  <1>6. ASSUME NEW e \in EdgesBefore(nb)
        PROVE  SlotAt(rep2, e) = SlotAt(rep, e)
    <2>1. e \in Edges /\ e < First(nb)
      BY DEF EdgesBefore
    <2>2. BlockOf(e) \in Nat /\ BlockOf(e) < nb
      BY <2>1, EdgeInBlock
    <2>3. BlockOf(e) \in Blocks /\ BlockOf(e) # nb
      BY <1>1, <2>2 DEF Blocks
    <2> QED
      BY <1>3, <2>3 DEF SlotAt
  <1>7. ASSUME NEW i \in 1 .. k
        PROVE  f + i - 1 \in BlockEdges(nb) /\ SlotAt(rep2, f + i - 1) = slots[i]
    <2>1. f + i - 1 \in BlockEdges(nb)
      BY <1>5
    <2>2. f + i - 1 \in Edges
      BY <2>1 DEF BlockEdges
    <2>3. BlockOf(f + i - 1) = nb
      BY <2>1, <2>2, EdgeInBlock
    <2>4. (f + i - 1) - f + 1 = i
      OBVIOUS
    <2> QED
      BY <1>3, <1>4, <2>1, <2>3, <2>4 DEF SlotAt
  <1>8. ASSUME NEW e \in BlockEdges(nb)
        PROVE  \E i \in 1 .. k : e = f + i - 1
    <2>1. e - f + 1 \in 1 .. k /\ e = f + (e - f + 1) - 1
      BY <1>5
    <2> QED
      BY <2>1
  <1> QED
    BY <1>2, <1>3, <1>4, <1>6, <1>7, <1>8

\* The edges that are held after block nb: its own, and those that were alive.
LEMMA HeldAfter ==
  ASSUME NEW st \in Stream, NEW nb \in Nat, NEW ex2, ex2 = DeadAt(st, nb + 1) \ DeadAt(st, nb)
  PROVE  /\ Held(st, nb + 1, ex2) = (EdgesBefore(nb) \ DeadAt(st, nb)) \cup BlockEdges(nb)
         /\ ex2 \subseteq DeadAt(st, nb + 1)
         /\ (EdgesBefore(nb + 1) \ DeadAt(st, nb + 1)) \cap ex2 = {}
  <1>1. EdgesBefore(nb + 1) = EdgesBefore(nb) \cup BlockEdges(nb)
        /\ EdgesBefore(nb) \cap BlockEdges(nb) = {}
    BY BlocksSplit
  <1>2. DeadAt(st, nb) \subseteq EdgesBefore(nb) /\ DeadAt(st, nb) \subseteq DeadAt(st, nb + 1)
    BY ExpiredFacts
  <1>3. DeadAt(st, nb + 1) \subseteq EdgesBefore(nb + 1)
    <2>1. nb + 1 \in Nat
      OBVIOUS
    <2> QED
      BY <2>1, ExpiredFacts
  <1> QED
    BY <1>1, <1>2, <1>3 DEF Held

\* owner after a block with these slots.
OwnerAfter(own, slots, f) ==
  [s \in DOMAIN own \cup ToSet(slots) |->
     IF \E i \in DOMAIN slots : slots[i] = s
     THEN f + (CHOOSE i \in DOMAIN slots : slots[i] = s) - 1
     ELSE own[s]]

\* The slots of the block are of its edges, the others of whom they were.
OwnedAfter(own2, own, slots, N, M, k, f) ==
  /\ DOMAIN own2 = 0 .. M - 1
  /\ \A i \in 1 .. k : slots[i] \in 0 .. M - 1 /\ own2[slots[i]] = f + i - 1
  /\ \A s \in 0 .. M - 1 : s \notin Elems(slots) => s \in 0 .. N - 1 /\ own2[s] = own[s]
  /\ \A s \in Elems(slots) : \E i \in 1 .. k : s = slots[i]

\* Who owns a slot after the block.
LEMMA OwnerFacts ==
  ASSUME NEW own, NEW slots, NEW fr, NEW fr2, NEW ex, NEW N \in Nat, NEW M \in Nat, NEW k \in Nat,
         NEW f \in Nat, Handout(slots, fr2, M, own, fr, ex, N, k), DOMAIN own = 0 .. N - 1
  PROVE  OwnedAfter(OwnerAfter(own, slots, f), own, slots, N, M, k, f)
  <1>0. PICK own2 : own2 = OwnerAfter(own, slots, f)
    OBVIOUS
  <1>1. slots \in Seq(0 .. M - 1) /\ Len(slots) = k /\ Distinct(slots) /\ N <= M
        /\ N .. M - 1 \subseteq Elems(slots) \cup Elems(fr2) /\ (N < M => fr2 = <<>>)
    BY DEF Handout
  <1>2. DOMAIN slots = 1 .. k /\ \A i \in 1 .. k : slots[i] \in 0 .. M - 1
    BY <1>1, LenProperties, ElementOfSeq
  <1>3. ToSet(slots) = Elems(slots) /\ Elems(slots) \subseteq 0 .. M - 1
    BY <1>2 DEF ToSet, Elems
  <1>4. ASSUME NEW s \in 0 .. M - 1, s \notin Elems(slots) PROVE s \in 0 .. N - 1
    <2> SUFFICES ASSUME ~(s \in 0 .. N - 1) PROVE FALSE
      OBVIOUS
    <2>1. s \in N .. M - 1 /\ N < M
      OBVIOUS
    <2>2. Elems(fr2) = {}
      BY <1>1, <2>1, NoElems
    <2> QED
      BY <1>1, <1>4, <2>1, <2>2
  <1>5. DOMAIN own2 = 0 .. M - 1
    <2>1. 0 .. N - 1 \subseteq 0 .. M - 1
      BY <1>1
    <2>2. DOMAIN own2 = 0 .. N - 1 \cup Elems(slots)
      BY <1>0, <1>3 DEF OwnerAfter
    <2> QED
      BY <1>3, <1>4, <2>1, <2>2
  <1>6. ASSUME NEW i \in 1 .. k PROVE own2[slots[i]] = f + i - 1
    <2>1. slots[i] \in DOMAIN own \cup ToSet(slots)
      BY <1>0, <1>2, <1>5 DEF OwnerAfter
    <2>2. (CHOOSE j \in DOMAIN slots : slots[j] = slots[i]) = i
      <3>1. \A j \in DOMAIN slots : slots[j] = slots[i] => j = i
        BY <1>1, <1>2 DEF Distinct
      <3> QED
        BY <1>2, <3>1
    <2>3. \E j \in DOMAIN slots : slots[j] = slots[i]
      BY <1>2
    <2> QED
      BY <1>0, <2>1, <2>2, <2>3, Zenon DEF OwnerAfter
  <1>7. ASSUME NEW s \in 0 .. M - 1, s \notin Elems(slots) PROVE own2[s] = own[s]
    <2>1. ~(\E i \in DOMAIN slots : slots[i] = s)
      BY <1>7 DEF Elems
    <2> QED
      BY <1>0, <1>5, <2>1, Zenon DEF OwnerAfter
  <1>8. \A s \in Elems(slots) : \E i \in 1 .. k : s = slots[i]
    BY <1>2 DEF Elems
  <1> QED
    BY <1>0, <1>2, <1>4, <1>5, <1>6, <1>7, <1>8 DEF OwnedAfter

\* What the plan of block nb starts from, and the slots it gives.
BlockPlanned(st, nb, ex, own, fr, rep, N, slots, fr2, M, ex2, own2, rep2) ==
  /\ nb < NBlocks /\ ex \subseteq DeadAt(st, nb)
  /\ OwnInv(st, nb, ex, own, fr, rep, N) /\ RepInv(st, nb, rep, N)
  /\ Handout(slots, fr2, M, own, fr, ex, N, Size(nb))
  /\ ex2 = DeadAt(st, nb + 1) \ DeadAt(st, nb)
  /\ own2 = OwnerAfter(own, slots, First(nb)) /\ rep2 = ReplaceAfter(rep, nb, slots)

\* An edge that keeps its slot.
Kept(e, own, rep, slots, own2, rep2, N, M) ==
  /\ SlotAt(rep2, e) = SlotAt(rep, e) /\ SlotAt(rep, e) \in 0 .. M - 1
  /\ SlotAt(rep, e) \notin Elems(slots) /\ own2[SlotAt(rep, e)] = e
  /\ \A s \in 0 .. N - 1 : own[s] = e => s = SlotAt(rep, e)

\* The edges alive keep their slots, outside of those given to the block.
LEMMA AliveKeep ==
  ASSUME NEW st \in Stream, NEW nb \in Nat, NEW N \in Nat, NEW M \in Nat,
         NEW ex, NEW own, NEW fr, NEW rep, NEW slots, NEW fr2,
         NEW ex2, NEW own2, NEW rep2,
         BlockPlanned(st, nb, ex, own, fr, rep, N, slots, fr2, M, ex2, own2, rep2),
         NEW e \in EdgesBefore(nb), e \notin DeadAt(st, nb)
  PROVE  Kept(e, own, rep, slots, own2, rep2, N, M)
  <1>1. /\ nb < NBlocks /\ ex \subseteq DeadAt(st, nb)
        /\ OwnInv(st, nb, ex, own, fr, rep, N) /\ RepInv(st, nb, rep, N)
        /\ Handout(slots, fr2, M, own, fr, ex, N, Size(nb))
        /\ own2 = OwnerAfter(own, slots, First(nb)) /\ rep2 = ReplaceAfter(rep, nb, slots)
    BY DEF BlockPlanned
  <1>2. SlotAt(rep2, e) = SlotAt(rep, e)
    BY <1>1, SlotsKept
  <1>3. e \in Held(st, nb, ex) /\ e \notin ex
    BY <1>1 DEF Held
  <1>4. PICK s \in 0 .. N - 1 : s = SlotAt(rep, e) /\ own[s] = e
    BY <1>1, <1>3 DEF OwnInv
  <1>5. s \notin Elems(fr)
    BY <1>1, <1>3, <1>4 DEF OwnInv
  <1>6. N <= M /\ s \in 0 .. M - 1 /\ s \notin N .. M - 1
    BY <1>1, <1>4 DEF Handout
  <1>7. s \notin Elems(slots)
    BY <1>1, <1>3, <1>4, <1>5, <1>6 DEF Handout
  <1>8. own2[s] = own[s]
    <2>1. PICK k \in Nat, f \in Nat : k = Size(nb) /\ f = First(nb)
      BY <1>1, BlockSizes
    <2>2. DOMAIN own = 0 .. N - 1
      BY <1>1 DEF OwnInv
    <2>3. Handout(slots, fr2, M, own, fr, ex, N, k) /\ own2 = OwnerAfter(own, slots, f)
      BY <1>1, <2>1
    <2>4. OwnedAfter(own2, own, slots, N, M, k, f)
      BY <2>2, <2>3, OwnerFacts
    <2> QED
      BY <1>6, <1>7, <2>4 DEF OwnedAfter
  <1>9. \A r \in 0 .. N - 1 : own[r] = e => r = SlotAt(rep, e)
    BY <1>1, <1>3 DEF OwnInv
  <1> QED
    BY <1>2, <1>4, <1>6, <1>7, <1>8, <1>9 DEF Kept

\* Each edge that is held owns its slot, and the slots of the list are of no held edge.
LEMMA PlannedOwn ==
  ASSUME NEW st \in Stream, NEW nb \in Nat, NEW N \in Nat, NEW M \in Nat,
         NEW ex, NEW own, NEW fr, NEW rep, NEW slots, NEW fr2,
         NEW ex2, NEW own2, NEW rep2,
         BlockPlanned(st, nb, ex, own, fr, rep, N, slots, fr2, M, ex2, own2, rep2)
  PROVE  OwnInv(st, nb + 1, ex2, own2, fr2, rep2, M)
  <1>1. /\ nb < NBlocks /\ ex \subseteq DeadAt(st, nb)
        /\ OwnInv(st, nb, ex, own, fr, rep, N) /\ RepInv(st, nb, rep, N)
        /\ Handout(slots, fr2, M, own, fr, ex, N, Size(nb))
        /\ ex2 = DeadAt(st, nb + 1) \ DeadAt(st, nb)
        /\ own2 = OwnerAfter(own, slots, First(nb)) /\ rep2 = ReplaceAfter(rep, nb, slots)
    BY DEF BlockPlanned
  <1>2. PICK k \in Nat, f \in Nat : k = Size(nb) /\ f = First(nb)
    BY <1>1, BlockSizes
  <1>3. /\ \A i \in 1 .. k : f + i - 1 \in BlockEdges(nb) /\ SlotAt(rep2, f + i - 1) = slots[i]
        /\ \A e \in BlockEdges(nb) : \E i \in 1 .. k : e = f + i - 1
    BY <1>1, <1>2, SlotsKept
  <1>4. /\ DOMAIN own2 = 0 .. M - 1
        /\ \A i \in 1 .. k : slots[i] \in 0 .. M - 1 /\ own2[slots[i]] = f + i - 1
        /\ \A s \in 0 .. M - 1 : s \notin Elems(slots) => s \in 0 .. N - 1 /\ own2[s] = own[s]
        /\ \A s \in Elems(slots) : \E i \in 1 .. k : s = slots[i]
    <2>1. DOMAIN own = 0 .. N - 1
      BY <1>1 DEF OwnInv
    <2>2. Handout(slots, fr2, M, own, fr, ex, N, k) /\ own2 = OwnerAfter(own, slots, f)
      BY <1>1, <1>2
    <2>3. OwnedAfter(own2, own, slots, N, M, k, f)
      BY <2>1, <2>2, OwnerFacts
    <2> QED
      BY <2>3 DEF OwnedAfter
  <1>5. /\ EdgesBefore(nb + 1) = EdgesBefore(nb) \cup BlockEdges(nb)
        /\ EdgesBefore(nb) \cap BlockEdges(nb) = {}
        /\ Held(st, nb + 1, ex2) = (EdgesBefore(nb) \ DeadAt(st, nb)) \cup BlockEdges(nb)
    BY <1>1, BlocksSplit, HeldAfter
  <1>6. \A s \in 0 .. N - 1 : own[s] \in EdgesBefore(nb)
    BY <1>1 DEF OwnInv
  <1>7. \A s \in 0 .. M - 1 : IF s \in Elems(slots) THEN own2[s] \in BlockEdges(nb)
                              ELSE own2[s] \in EdgesBefore(nb)
    <2> SUFFICES ASSUME NEW s \in 0 .. M - 1
                 PROVE  IF s \in Elems(slots) THEN own2[s] \in BlockEdges(nb)
                        ELSE own2[s] \in EdgesBefore(nb)
      OBVIOUS
    <2>1. CASE s \in Elems(slots)
      <3>1. PICK i \in 1 .. k : s = slots[i]
        BY <1>4, <2>1
      <3>2. own2[s] = f + i - 1 /\ f + i - 1 \in BlockEdges(nb)
        BY <1>3, <1>4, <3>1
      <3> QED
        BY <2>1, <3>2
    <2>2. CASE s \notin Elems(slots)
      BY <1>4, <1>6, <2>2
    <2> QED
      BY <2>1, <2>2
  <1>8. \A s \in 0 .. M - 1 : own2[s] \in EdgesBefore(nb + 1)
    BY <1>5, <1>7
  <1>9. fr2 \in Seq(0 .. M - 1) /\ Distinct(fr2)
    BY <1>1 DEF Handout
  <1>10. ASSUME NEW s \in 0 .. M - 1
         PROVE  own2[s] \in Held(st, nb + 1, ex2) <=> s \notin Elems(fr2)
    <2>1. CASE s \in Elems(slots)
      <3>1. s \notin Elems(fr2)
        BY <1>1, <2>1 DEF Handout
      <3> QED
        BY <1>5, <1>7, <2>1, <3>1
    <2>2. CASE s \notin Elems(slots)
      <3>1. s \in 0 .. N - 1 /\ own2[s] = own[s] /\ own[s] \in EdgesBefore(nb)
        BY <1>4, <1>6, <2>2
      <3>2. s \in Elems(fr2) <=> own[s] \in ex \/ s \in Elems(fr)
        <4>1. s \notin N .. M - 1
          BY <1>1, <3>1
        <4>2. s \in Elems(slots) \cup Elems(fr2) <=>
                s \in { r \in 0 .. N - 1 : own[r] \in ex } \cup Elems(fr) \cup N .. M - 1
          BY <1>1 DEF Handout
        <4> QED
          BY <2>2, <3>1, <4>1, <4>2
      <3>3. own[s] \in Held(st, nb, ex) <=> s \notin Elems(fr)
        BY <1>1, <3>1 DEF OwnInv
      <3>4. own[s] \notin BlockEdges(nb)
        BY <1>5, <3>1
      <3>5. own2[s] \in Held(st, nb + 1, ex2) <=> own[s] \notin DeadAt(st, nb)
        BY <1>5, <3>1, <3>4
      <3>6. own[s] \in Held(st, nb, ex) <=> own[s] \notin DeadAt(st, nb) \/ own[s] \in ex
        BY <3>1 DEF Held
      <3>7. own[s] \in ex => own[s] \in DeadAt(st, nb)
        BY <1>1
      <3> QED
        BY <3>2, <3>3, <3>5, <3>6, <3>7
    <2> QED
      BY <2>1, <2>2
  <1>11. ASSUME NEW e \in Held(st, nb + 1, ex2)
         PROVE  /\ SlotAt(rep2, e) \in 0 .. M - 1 /\ own2[SlotAt(rep2, e)] = e
                /\ \A s \in 0 .. M - 1 : own2[s] = e => s = SlotAt(rep2, e)
    <2>1. CASE e \in BlockEdges(nb)
      <3>1. PICK i \in 1 .. k : e = f + i - 1
        BY <1>3, <2>1
      <3>2. SlotAt(rep2, e) = slots[i]
        BY <1>3, <3>1
      <3>3. ASSUME NEW s \in 0 .. M - 1, own2[s] = e PROVE s = slots[i]
        <4>1. s \in Elems(slots)
          BY <1>5, <1>7, <2>1, <3>3
        <4>2. PICK j \in 1 .. k : s = slots[j]
          BY <1>4, <4>1
        <4>3. f + j - 1 = f + i - 1
          BY <1>4, <3>1, <3>3, <4>2
        <4>4. j = i
          BY <4>3
        <4> QED
          BY <4>2, <4>4
      <3> QED
        BY <1>4, <3>1, <3>2, <3>3
    <2>2. CASE e \in EdgesBefore(nb) /\ e \notin DeadAt(st, nb)
      <3>1. /\ SlotAt(rep2, e) = SlotAt(rep, e) /\ SlotAt(rep, e) \in 0 .. M - 1
            /\ own2[SlotAt(rep, e)] = e
            /\ \A s \in 0 .. N - 1 : own[s] = e => s = SlotAt(rep, e)
        <4>1. Kept(e, own, rep, slots, own2, rep2, N, M)
          BY <2>2, AliveKeep
        <4> QED
          BY <4>1 DEF Kept
      <3>2. ASSUME NEW s \in 0 .. M - 1, own2[s] = e PROVE s = SlotAt(rep, e)
        <4>1. s \notin Elems(slots)
          BY <1>5, <1>7, <2>2, <3>2
        <4>2. s \in 0 .. N - 1 /\ own[s] = e
          BY <1>4, <3>2, <4>1
        <4> QED
          BY <3>1, <4>2
      <3> QED
        BY <3>1, <3>2
    <2> QED
      BY <1>5, <2>1, <2>2
  <1> QED
    BY <1>4, <1>8, <1>9, <1>10, <1>11 DEF OwnInv

\* The slots given to a block are of none of the edges that it may still reach.
LEMMA PlannedReplace ==
  ASSUME NEW st \in Stream, NEW nb \in Nat, NEW N \in Nat, NEW M \in Nat,
         NEW ex, NEW own, NEW fr, NEW rep, NEW slots, NEW fr2,
         NEW ex2, NEW own2, NEW rep2,
         BlockPlanned(st, nb, ex, own, fr, rep, N, slots, fr2, M, ex2, own2, rep2)
  PROVE  RepInv(st, nb + 1, rep2, M)
  <1>1. /\ nb < NBlocks /\ RepInv(st, nb, rep, N)
        /\ Handout(slots, fr2, M, own, fr, ex, N, Size(nb))
        /\ rep2 = ReplaceAfter(rep, nb, slots)
    BY DEF BlockPlanned
  <1>2. /\ nb \in Blocks /\ rep2[nb] = slots
        /\ \A c \in Blocks : c # nb => rep2[c] = rep[c]
        /\ \A e \in EdgesBefore(nb) : SlotAt(rep2, e) = SlotAt(rep, e)
    BY <1>1, SlotsKept
  <1>3. slots \in Seq(0 .. M - 1) /\ Len(slots) = Size(nb) /\ Distinct(slots) /\ N <= M
    BY <1>1 DEF Handout
  <1>4. rep2 \in [Blocks -> Seq(0 .. M - 1)]
    <2>1. rep \in [Blocks -> Seq(0 .. N - 1)]
      BY <1>1 DEF RepInv
    <2>2. 0 .. N - 1 \subseteq 0 .. M - 1
      BY <1>1, <1>3
    <2>3. ASSUME NEW c \in Blocks PROVE rep[c] \in Seq(0 .. M - 1)
      <3> PICK t \in Seq(0 .. N - 1) : t = rep[c]
        BY <2>1
      <3>1. t \in Seq(0 .. M - 1)
        BY <2>2, SeqWiden
      <3> QED
        BY <3>1
    <2>4. \A c \in Blocks : rep2[c] \in Seq(0 .. M - 1)
      BY <1>2, <1>3, <2>3
    <2>5. rep2 = [c \in Blocks |-> rep2[c]]
      BY <1>1, <2>1 DEF ReplaceAfter
    <2> QED
      BY <2>4, <2>5
  <1>5. \A c \in Blocks : c \in Nat
    BY DEF Blocks
  <1>6. ASSUME NEW c \in Blocks, c < nb + 1
        PROVE  Len(rep2[c]) = Size(c) /\ Distinct(rep2[c])
    <2>1. c = nb \/ c < nb
      BY <1>1, <1>5, <1>6
    <2>2. CASE c = nb
      BY <1>2, <1>3, <2>2
    <2>3. CASE c < nb /\ c # nb
      BY <1>1, <1>2, <2>3 DEF RepInv
    <2> QED
      BY <1>1, <1>5, <2>1, <2>2, <2>3
  <1>7. ASSUME NEW c \in Blocks, c < nb + 1, NEW e \in EdgesBefore(c), e \notin DeadAt(st, c)
        PROVE  SlotAt(rep2, e) \notin Elems(rep2[c])
    <2>1. c = nb \/ (c < nb /\ c # nb)
      BY <1>1, <1>5, <1>7
    <2>2. CASE c = nb
      <3>1. Kept(e, own, rep, slots, own2, rep2, N, M)
        BY <1>7, <2>2, AliveKeep
      <3> QED
        BY <1>2, <2>2, <3>1 DEF Kept
    <2>3. CASE c < nb /\ c # nb
      <3>1. e \in EdgesBefore(nb)
        <4>1. EdgesBefore(c + 1) \subseteq EdgesBefore(nb)
          BY <1>1, <1>5, <2>3, BlockOrder
        <4>2. EdgesBefore(c) \subseteq EdgesBefore(c + 1)
          BY <1>5, BlocksSplit
        <4> QED
          BY <4>1, <4>2
      <3> QED
        BY <1>1, <1>2, <1>7, <2>3, <3>1 DEF RepInv
    <2> QED
      BY <2>1, <2>2, <2>3
  <1> QED
    BY <1>4, <1>6, <1>7 DEF RepInv

\* The counts go with the slots.
LEMMA PlannedCounts ==
  ASSUME NEW st \in Stream, NEW nb \in Nat, NEW N \in Nat, NEW M \in Nat,
         NEW ex, NEW own, NEW fr, NEW rep, NEW slots, NEW fr2,
         NEW ex2, NEW own2, NEW rep2,
         BlockPlanned(st, nb, ex, own, fr, rep, N, slots, fr2, M, ex2, own2, rep2),
         NEW cal, NEW max, CountInv(st, nb, ex, fr, N, cal, max),
         Cardinality(ex) \in Nat,
         NEW cal2, cal2 = (cal + Size(nb)) - Cardinality(ex2),
         NEW max2, max2 = IF cal + Size(nb) > max THEN cal + Size(nb) ELSE max
  PROVE  CountInv(st, nb + 1, ex2, fr2, M, cal2, max2)
  <1>1. /\ nb < NBlocks /\ OwnInv(st, nb, ex, own, fr, rep, N)
        /\ Handout(slots, fr2, M, own, fr, ex, N, Size(nb))
        /\ ex2 = DeadAt(st, nb + 1) \ DeadAt(st, nb)
    BY DEF BlockPlanned
  <1> DEFINE A == EdgesBefore(nb) \ DeadAt(st, nb)
             B == BlockEdges(nb)
             C == EdgesBefore(nb + 1) \ DeadAt(st, nb + 1)
  <1>2. A \cup B = C \cup ex2 /\ A \cap B = {} /\ C \cap ex2 = {} /\ A \cup B \subseteq Edges
    BY <1>1, BlocksSplit, HeldAfter DEF Held
  <1>3. IsFiniteSet(A) /\ IsFiniteSet(B) /\ IsFiniteSet(C) /\ IsFiniteSet(ex2)
    <2>1. IsFiniteSet(EdgesBefore(nb)) /\ IsFiniteSet(B)
      BY <1>1, BlocksSplit
    <2>2. IsFiniteSet(A \cup B)
      BY <2>1, FS_Subset, FS_Union
    <2> QED
      BY <1>2, <2>1, <2>2, FS_Subset
  <1> HIDE DEF A, B, C
  <1>4. PICK a \in Nat, k \in Nat, c \in Nat, d \in Nat :
           /\ a = Cardinality(A) /\ k = Cardinality(B) /\ c = Cardinality(C)
           /\ d = Cardinality(ex2)
    BY <1>3, FS_CardinalityType
  <1>5. Cardinality(A \cup B) = a + k
    BY <1>2, <1>3, <1>4, DisjointCount
  <1>6. Cardinality(C \cup ex2) = c + d
    BY <1>2, <1>3, <1>4, DisjointCount
  <1>7. a + k = c + d
    BY <1>2, <1>5, <1>6
  <1>8. PICK E \in Nat : E = NEdges /\ a + k <= E
    <2>1. PICK E \in Nat : E = NEdges
      BY EdgeAssumption
    <2>2. /\ IsFiniteSet(0 .. E - 1)
          /\ Cardinality(0 .. E - 1) = IF 0 > E - 1 THEN 0 ELSE E - 1 - 0 + 1
      BY ONLY FS_Interval, E \in Nat
    <2>3. IsFiniteSet(Edges) /\ Cardinality(Edges) = E
      <3>1. Cardinality(0 .. E - 1) = E
        BY <2>2
      <3> QED
        BY <2>1, <2>2, <3>1 DEF Edges
    <2>4. Cardinality(A \cup B) <= Cardinality(Edges)
      BY <1>2, <2>3, FS_Subset
    <2> QED
      BY <1>5, <2>1, <2>3, <2>4
  <1>9. k = Size(nb)
    BY <1>4 DEF Size, B
  <1>10. cal = a /\ cal2 = c /\ max2 = IF a + k > max THEN a + k ELSE max
    <2>1. cal = a
      BY <1>4 DEF CountInv, A
    <2>2. cal2 = a + k - d
      BY <1>4, <1>9, <2>1
    <2>3. max2 = IF a + k > max THEN a + k ELSE max
      BY <1>9, <2>1
    <2> QED
      BY <1>7, <2>1, <2>2, <2>3
  <1>11. PICK x \in Nat, g \in Nat, g2 \in Nat :
            x = Cardinality(ex) /\ g = Len(fr) /\ g2 = Len(fr2)
    BY <1>1, LenProperties DEF OwnInv, Handout
  <1>12. /\ N = a + x + g /\ max = N /\ N <= E /\ g2 = x + g + (M - N) - k /\ N <= M
         /\ N < M => g2 = 0
    <2>1. N = a + x + g /\ max = N
      BY <1>10, <1>11 DEF CountInv
    <2>2. N <= E
      BY <1>8 DEF CountInv
    <2>3. g2 = x + g + (M - N) - k /\ N <= M
      BY <1>1, <1>9, <1>11 DEF Handout
    <2>4. N < M => Len(fr2) = 0
      BY <1>1, EmptySeq DEF Handout
    <2> QED
      BY <1>11, <2>1, <2>2, <2>3, <2>4
  <1>13. M = c + d + g2
    BY <1>7, <1>12
  <1>14. max2 = M /\ max2 \in 0 .. E
    <2>1. CASE N < M
      BY <1>1, <1>7, <1>8, <1>10, <1>12, <1>13, <2>1
    <2>2. CASE N = M
      BY <1>1, <1>7, <1>8, <1>10, <1>12, <1>13, <2>2
    <2> QED
      BY <1>1, <1>12, <2>1, <2>2
  <1>15. cal2 = Cardinality(C) /\ M = cal2 + Cardinality(ex2) + Len(fr2) /\ max2 \in 0 .. NEdges
    BY <1>4, <1>8, <1>10, <1>11, <1>13, <1>14
  <1> QED
    BY <1>14, <1>15 DEF CountInv, C

----------------------------------------------------------------------------
(* The invariant is inductive *)

\* Blocks are there.
LEMMA BlocksExist ==
  /\ NBlocks \in Nat \ {0} /\ 0 \in Blocks /\ First(0) = 0 /\ EdgesBefore(0) = {}
  /\ EdgesBefore(NBlocks) = Edges
  <1>1. PICK B \in Nat \ {0}, E \in Nat \ {0} : B = BlockSize /\ E = NEdges
    BY EdgeAssumption
  <1>2. NBlocks \in Nat \ {0}
    <2>1. (E + B - 1) \div B \in Nat
      OBVIOUS
    <2>2. First(0) = 0
      BY <1>1 DEF First
    <2>3. 0 < NBlocks
      BY <1>1, <2>2, BlockFacts
    <2> QED
      BY <1>1, <2>1, <2>3 DEF NBlocks
  <1>3. 0 \in Blocks
    BY <1>2 DEF Blocks
  <1>4. First(0) = 0
    BY <1>1 DEF First
  <1>5. EdgesBefore(0) = {}
    <2>1. \A e \in Edges : e \in Nat
      BY EdgeAssumption DEF Edges
    <2>2. \A e \in Nat : ~(e < 0)
      OBVIOUS
    <2> QED
      BY <1>4, <2>1, <2>2 DEF EdgesBefore
  <1>6. EdgesBefore(NBlocks) = Edges
    <2> SUFFICES ASSUME NEW e \in Edges PROVE e < First(NBlocks)
      BY DEF EdgesBefore
    <2> QED
      BY <1>2, EdgeInBlock
  <1> QED
    BY <1>2, <1>3, <1>4, <1>5, <1>6

\* Before the first block there is nothing.
LEMMA InitInv == Init => Inv
  <1> SUFFICES ASSUME Init PROVE Inv
    OBVIOUS
  <1>1. /\ stream \in Stream /\ nextBlock = 0 /\ expired = {} /\ expEids = {}
        /\ owner = <<>> /\ free = <<>> /\ replace = [b \in Blocks |-> <<>>]
        /\ calEdges = 0 /\ calMax = 0
        /\ validMap = [e \in Edges |-> 0] /\ validEf = <<>> /\ validBlock = 0 /\ epoch = 0
    BY EdgeAssumption DEF Init
  <1>2. NBlocks \in Nat \ {0} /\ 0 \in Blocks /\ EdgesBefore(0) = {} /\ First(0) = 0
    BY BlocksExist
  <1>3. ExpiredAt(stream, 0) = {}
    BY <1>2 DEF ExpiredAt, ExpiredBy
  <1>4. DOMAIN owner = {} /\ endPtr = 0 /\ 0 .. 0 - 1 = {}
    <2>1. DOMAIN owner = {}
      BY <1>1
    <2>2. Cardinality({}) = 0
      BY FS_EmptySet
    <2> QED
      BY <2>1, <2>2 DEF endPtr
  <1>5. OwnInv(stream, 0, expEids, owner, free, replace, 0)
    <2>1. Held(stream, 0, expEids) = {}
      BY <1>1, <1>2 DEF Held
    <2>2. free \in Seq(0 .. 0 - 1) /\ Distinct(free)
      <3>1. <<>> \in Seq(0 .. 0 - 1)
        BY EmptySeq
      <3> QED
        BY <1>1, <3>1, NoElems
    <2> QED
      BY <1>4, <2>1, <2>2 DEF OwnInv
  <1>6. RepInv(stream, 0, replace, 0)
    <2>1. replace \in [Blocks -> Seq(0 .. 0 - 1)]
      <3>1. <<>> \in Seq(0 .. 0 - 1)
        BY EmptySeq
      <3> QED
        BY <1>1, <3>1
    <2>2. \A b \in Blocks : ~(b < 0)
      BY DEF Blocks
    <2> QED
      BY <2>1, <2>2 DEF RepInv
  <1>7. CountInv(stream, 0, expEids, free, 0, calEdges, calMax)
    <2>1. Cardinality({}) = 0 /\ Len(<<>>) = 0
      BY FS_EmptySet, EmptySeq
    <2>2. NEdges \in Nat
      BY EdgeAssumption
    <2>3. Cardinality(EdgesBefore(0) \ DeadAt(stream, 0)) = 0
      BY <1>2, <2>1
    <2>4. Cardinality(expEids) = 0 /\ Len(free) = 0
      BY <1>1, <2>1
    <2> QED
      BY <1>1, <2>2, <2>3, <2>4 DEF CountInv
  <1>8. PlanInv
    BY <1>1, <1>2, <1>3, <1>4, <1>5, <1>6, <1>7 DEF PlanInv
  <1>9. TrainInv
    <2>1. epoch \in 0 .. Epochs /\ ~(epoch > 0)
      BY <1>1, EdgeAssumption
    <2>2. validMap \in [Edges -> Nat] /\ validBlock \in Blocks
      BY <1>1, <1>2
    <2>3. DOMAIN validEf = {}
      BY <1>1
    <2> QED
      BY <2>1, <2>2, <2>3 DEF TrainInv
  <1> QED
    BY <1>8, <1>9 DEF Inv

\* The plan of the next block, by any of the three ways.
LEMMA GivePreserves ==
  ASSUME Inv, GiveReturned \/ GiveKept \/ GiveNew
  PROVE  Inv'
  <1>1. PICK N \in Nat, nb \in Nat, st \in Stream : N = endPtr /\ nb = nextBlock /\ st = stream
    BY BlocksExist DEF Inv, PlanInv
  <1>2. /\ nb < NBlocks /\ Expire
        /\ \E slots, M : /\ Handout(slots, free', M, owner, free, expEids, N, Size(nb))
                         /\ Give(slots)
    BY <1>1, GiveHandout DEF Inv
  <1>m. PICK M \in Nat : \E slots :
           Handout(slots, free', M, owner, free, expEids, N, Size(nb)) /\ Give(slots)
    BY <1>2, Zenon DEF Handout
  <1>3. PICK slots : Handout(slots, free', M, owner, free, expEids, N, Size(nb)) /\ Give(slots)
    BY <1>m
  <1>4. /\ nextBlock' = nb + 1 /\ stream' = st /\ nb + 1 \in 0 .. NBlocks
        /\ UNCHANGED trainVars
    BY <1>1, <1>2, BlocksExist DEF Expire
  <1>5. expired' = ExpiredAt(st, nb + 1)
    <2>1. expired' = expired \cup
            UNION { TooOldOf(st, st.src[e], st.time[e]) \cup TooOldOf(st, st.dst[e], st.time[e])
                    : e \in BlockEdges(nb) }
      BY <1>1, <1>2, SameOperators DEF Expire
    <2>2. expired = ExpiredAt(st, nb)
      BY <1>1 DEF Inv, PlanInv
    <2>3. expired' = ExpiredAt(st, nb) \cup ExpiredBy(st, BlockEdges(nb))
      BY <2>1, <2>2 DEF ExpiredBy
    <2> QED
      BY <2>3, ExpiredFacts
  <1>6. expEids' = DeadAt(st, nb + 1) \ DeadAt(st, nb)
    <2>1. expEids' = DeadOf(st, expired') \ DeadOf(st, expired)
      BY <1>1, <1>2, SameOperators DEF Expire
    <2>2. expired = ExpiredAt(st, nb)
      BY <1>1 DEF Inv, PlanInv
    <2> QED
      BY <1>5, <2>1, <2>2 DEF DeadAt
  <1>7. owner' = OwnerAfter(owner, slots, First(nb))
    BY <1>1, <1>3 DEF Give, OwnerAfter
  <1>8. replace' = ReplaceAfter(replace, nb, slots)
    BY <1>1, <1>3 DEF Give, ReplaceAfter
  <1>9. BlockPlanned(st, nb, expEids, owner, free, replace, N, slots, free', M, expEids', owner',
                     replace')
    BY <1>1, <1>2, <1>3, <1>6, <1>7, <1>8 DEF Inv, PlanInv, BlockPlanned
  <1>10. OwnInv(st, nb + 1, expEids', owner', free', replace', M)
    BY <1>9, PlannedOwn
  <1>11. RepInv(st, nb + 1, replace', M)
    BY <1>9, PlannedReplace
  <1>12. CountInv(st, nb + 1, expEids', free', M, calEdges', calMax')
    <2>1. CountInv(st, nb, expEids, free, N, calEdges, calMax)
      BY <1>1 DEF Inv, PlanInv
    <2>2. Cardinality(expEids) \in Nat
      BY ReturnedFacts DEF Inv
    <2>3. /\ calEdges' = (calEdges + Size(nb)) - Cardinality(expEids')
          /\ calMax' = IF calEdges + Size(nb) > calMax THEN calEdges + Size(nb) ELSE calMax
      <3>1. PICK c : c = calEdges + Size(nb)
        OBVIOUS
      <3>2. nextBlock = nb
        BY <1>1
      <3>3. calEdges' = (calEdges + Size(nb)) - Cardinality(expEids')
        <4>1. calEdges' = (calEdges + Size(nextBlock)) - Cardinality(expEids')
          BY ONLY <1>2, Zenon DEF Expire
        <4> QED
          BY <3>2, <4>1
      <3>4. calMax' = IF calEdges + Size(nb) > calMax THEN calEdges + Size(nb) ELSE calMax
        <4>1. calEdges + Size(nextBlock) = c
          BY <3>1, <3>2
        <4>2. calMax' = IF c > calMax THEN c ELSE calMax
          BY ONLY <1>2, <4>1 DEF Expire
        <4> QED
          BY <3>1, <4>2
      <3> QED
        BY <3>3, <3>4
    <2> QED
      BY <1>9, <2>1, <2>2, <2>3, PlannedCounts
  <1>13. endPtr' = M
    <2>1. DOMAIN owner' = 0 .. M - 1
      BY <1>10 DEF OwnInv
    <2>2. Cardinality(0 .. M - 1) = IF 0 > M - 1 THEN 0 ELSE M - 1 - 0 + 1
      BY FS_Interval
    <2>3. Cardinality(0 .. M - 1) = M
      BY <2>2
    <2> QED
      BY <2>1, <2>3 DEF endPtr
  <1>14. expEids' \subseteq DeadAt(st, nb + 1)
    BY <1>6
  <1>15. PlanInv'
    BY <1>4, <1>5, <1>10, <1>11, <1>12, <1>13, <1>14 DEF PlanInv
  <1>16. TrainInv'
    <2>1. ~(epoch > 0)
      <3>1. ~(nb < nb)
        OBVIOUS
      <3> QED
        BY <1>1, <1>2, <3>1 DEF Inv, TrainInv
    <2>2. /\ validMap' = validMap /\ validEf' = validEf /\ validBlock' = validBlock
          /\ epoch' = epoch
      BY <1>4 DEF trainVars
    <2> QED
      BY <2>1, <2>2 DEF Inv, TrainInv
  <1> QED
    BY <1>15, <1>16 DEF Inv

\* What training leaves alone.
LEMMA PlanStays ==
  ASSUME PlanInv, stream' = stream, UNCHANGED planVars
  PROVE  PlanInv'
  <1>1. endPtr' = endPtr
    BY DEF endPtr, planVars
  <1>2. /\ nextBlock' = nextBlock /\ expired' = expired /\ expEids' = expEids /\ owner' = owner
        /\ free' = free /\ replace' = replace /\ calEdges' = calEdges /\ calMax' = calMax
    BY DEF planVars
  <1> QED
    BY <1>1, <1>2 DEF PlanInv

----------------------------------------------------------------------------
(* Training *)

\* The slot of an edge, once the plan is complete.
LEMMA SlotsPlanned ==
  ASSUME PlanInv, nextBlock = NBlocks, NEW b \in Blocks
  PROVE  /\ \A e \in BlockEdges(b) : /\ SlotIn(b, e) = SlotAt(replace, e)
                                     /\ SlotAt(replace, e) \in DOMAIN owner
                                     /\ SlotAt(replace, e) \in Elems(replace[b])
         /\ \A e, g \in BlockEdges(b) : SlotIn(b, e) = SlotIn(b, g) => e = g
         /\ \A s \in Elems(replace[b]) : \E e \in BlockEdges(b) : s = SlotIn(b, e)
         /\ DOMAIN owner = 0 .. endPtr - 1 /\ endPtr \in Nat
  <1>1. b \in Nat /\ b < NBlocks
    BY BlocksExist DEF Blocks
  <1>2. PICK k \in Nat, f \in Nat, N \in Nat : k = Size(b) /\ f = First(b) /\ N = endPtr
    BY <1>1, BlockSizes DEF PlanInv
  <1>3. BlockEdges(b) = f .. f + k - 1
    BY <1>1, <1>2, BlockFacts
  <1>4. DOMAIN owner = 0 .. N - 1
    BY <1>2 DEF PlanInv, OwnInv
  <1>5. PICK t \in Seq(0 .. N - 1) : t = replace[b] /\ Len(t) = k /\ Distinct(t)
    BY <1>1, <1>2 DEF PlanInv, RepInv
  <1>6. DOMAIN t = 1 .. k /\ \A i \in 1 .. k : t[i] \in 0 .. N - 1
    BY <1>5, LenProperties, ElementOfSeq
  <1>7. ASSUME NEW e \in BlockEdges(b)
        PROVE  /\ SlotIn(b, e) = t[e - f + 1] /\ SlotAt(replace, e) = SlotIn(b, e)
               /\ e \in Nat /\ e - f + 1 \in 1 .. k
    <2>1. e \in Nat /\ e - f + 1 \in 1 .. k
      BY <1>3
    <2>2. e \in Edges
      BY DEF BlockEdges
    <2>3. BlockOf(e) = b
      BY <1>1, <2>2, EdgeInBlock
    <2> QED
      BY <1>2, <1>5, <2>1, <2>3 DEF SlotIn, SlotAt
  <1>8. ASSUME NEW e \in BlockEdges(b)
        PROVE  SlotAt(replace, e) \in 0 .. N - 1 /\ SlotAt(replace, e) \in Elems(t)
    <2>1. PICK i \in 1 .. k : SlotAt(replace, e) = t[i]
      BY <1>7
    <2> QED
      BY <1>6, <2>1 DEF Elems
  <1>9. ASSUME NEW e \in BlockEdges(b), NEW g \in BlockEdges(b), SlotIn(b, e) = SlotIn(b, g)
        PROVE  e = g
    <2>1. PICK x \in Nat, y \in Nat :
             /\ x = e /\ y = g /\ t[x - f + 1] = t[y - f + 1]
             /\ x - f + 1 \in 1 .. k /\ y - f + 1 \in 1 .. k
      BY <1>7, <1>9
    <2>2. x - f + 1 = y - f + 1
      BY <1>5, <1>6, <2>1 DEF Distinct
    <2> QED
      BY <2>1, <2>2
  <1>10. ASSUME NEW s \in Elems(t) PROVE \E e \in BlockEdges(b) : s = SlotIn(b, e)
    <2>1. PICK i \in 1 .. k : s = t[i]
      BY <1>6 DEF Elems
    <2>2. PICK e \in Nat : e = f + i - 1 /\ e - f + 1 = i
      <3>1. f + i - 1 \in Nat /\ (f + i - 1) - f + 1 = i
        OBVIOUS
      <3> QED
        BY <3>1
    <2>3. e \in BlockEdges(b)
      BY <1>3, <2>2
    <2>4. SlotIn(b, e) = t[e - f + 1]
      BY <1>7, <2>3
    <2> QED
      BY <2>1, <2>2, <2>3, <2>4
  <1> QED
    BY <1>2, <1>4, <1>5, <1>7, <1>8, <1>9, <1>10

\* The slot of an edge of any block.
LEMMA SlotOfEdge ==
  ASSUME PlanInv, nextBlock = NBlocks, NEW e \in Edges
  PROVE  SlotAt(replace, e) \in DOMAIN owner
  <1>1. BlockOf(e) \in Blocks /\ e \in BlockEdges(BlockOf(e))
    BY EdgeInBlock, BlocksExist DEF Blocks
  <1> QED
    BY <1>1, SlotsPlanned

\* A slot map and an array that have what block b may ask for.
Ready(b, map, ef) ==
  /\ map \in [Edges -> Nat] /\ DOMAIN ef = DOMAIN owner
  /\ \A s \in DOMAIN ef : ef[s] \in Edges \cup {Zeros}
  /\ \A e \in EdgesBefore(b) :
       /\ map[e] = SlotAt(replace, e)
       /\ e \notin DeadAt(stream, b) => ef[SlotAt(replace, e)] = e

\* What they have when the edges of the block have been stored.
Stored(b, map, ef) ==
  /\ map \in [Edges -> Nat] /\ DOMAIN ef = DOMAIN owner
  /\ \A s \in DOMAIN ef : ef[s] \in Edges \cup {Zeros}
  /\ \A e \in EdgesBefore(b + 1) :
       /\ map[e] = SlotAt(replace, e)
       /\ e \notin DeadAt(stream, b) => ef[SlotAt(replace, e)] = e

\* The edges of the block do not take the slots of the edges it may still ask for.
LEMMA StoreKeeps ==
  ASSUME PlanInv, nextBlock = NBlocks, NEW b \in Blocks, NEW map, NEW ef,
         Ready(b, map, ef), Store(b, map, ef)
  PROVE  Stored(b, validMap', validEf') /\ validBlock' = b
  <1>1. b \in Nat /\ b < NBlocks
    BY BlocksExist DEF Blocks
  <1>2. /\ validMap' = [e \in Edges |-> IF e \in BlockEdges(b) THEN SlotIn(b, e) ELSE map[e]]
        /\ validEf' = [s \in DOMAIN ef |->
                         IF \E e \in BlockEdges(b) : SlotIn(b, e) = s
                         THEN CHOOSE e \in BlockEdges(b) : SlotIn(b, e) = s ELSE ef[s]]
        /\ validBlock' = b
    BY DEF Store
  <1>3. PICK map2, ef2 : map2 = validMap' /\ ef2 = validEf'
    OBVIOUS
  <1>4. /\ \A e \in BlockEdges(b) : /\ SlotIn(b, e) = SlotAt(replace, e)
                                    /\ SlotAt(replace, e) \in DOMAIN owner
        /\ \A e, g \in BlockEdges(b) : SlotIn(b, e) = SlotIn(b, g) => e = g
        /\ \A e \in BlockEdges(b) : SlotIn(b, e) \in Elems(replace[b])
        /\ \A s \in DOMAIN owner : s \in Nat
    BY SlotsPlanned
  <1>5. EdgesBefore(b + 1) = EdgesBefore(b) \cup BlockEdges(b) /\ BlockEdges(b) \subseteq Edges
        /\ EdgesBefore(b) \cap BlockEdges(b) = {} /\ EdgesBefore(b) \subseteq Edges
    BY <1>1, BlocksSplit
  <1>6. DOMAIN ef2 = DOMAIN owner /\ DOMAIN ef = DOMAIN owner
    BY <1>2, <1>3 DEF Ready
  <1>7. map2 \in [Edges -> Nat]
    <2>1. \A e \in Edges : (IF e \in BlockEdges(b) THEN SlotIn(b, e) ELSE map[e]) \in Nat
      BY <1>4 DEF Ready
    <2> QED
      BY <1>2, <1>3, <2>1
  <1>8. ASSUME NEW e \in BlockEdges(b)
        PROVE  map2[e] = SlotAt(replace, e) /\ ef2[SlotAt(replace, e)] = e
    <2>1. map2[e] = SlotIn(b, e)
      BY <1>2, <1>3, <1>5
    <2>2. SlotIn(b, e) \in DOMAIN ef
      BY <1>4, <1>6
    <2>3. (CHOOSE g \in BlockEdges(b) : SlotIn(b, g) = SlotIn(b, e)) = e
      BY <1>4
    <2>4. ef2[SlotIn(b, e)] = e
      BY <1>2, <1>3, <2>2, <2>3, Zenon
    <2> QED
      BY <1>4, <2>1, <2>4
  <1>9. ASSUME NEW s \in DOMAIN owner, s \notin Elems(replace[b])
        PROVE  ef2[s] = ef[s]
    <2>1. ~(\E e \in BlockEdges(b) : SlotIn(b, e) = s)
      BY <1>4, <1>9
    <2> QED
      BY <1>2, <1>3, <1>6, <2>1, Zenon
  <1>10. ASSUME NEW e \in EdgesBefore(b)
         PROVE  /\ map2[e] = SlotAt(replace, e)
                /\ e \notin DeadAt(stream, b) => ef2[SlotAt(replace, e)] = e
    <2>1. map2[e] = map[e]
      BY <1>2, <1>3, <1>5
    <2>2. ASSUME e \notin DeadAt(stream, b) PROVE ef2[SlotAt(replace, e)] = e
      <3>1. SlotAt(replace, e) \notin Elems(replace[b])
        BY <1>1, <2>2 DEF PlanInv, RepInv
      <3>2. SlotAt(replace, e) \in DOMAIN owner
        BY <1>5, SlotOfEdge
      <3>3. ef[SlotAt(replace, e)] = e
        BY <2>2 DEF Ready
      <3> QED
        BY <1>9, <3>1, <3>2, <3>3
    <2> QED
      BY <2>1, <2>2 DEF Ready
  <1>11. ASSUME NEW s \in DOMAIN ef2 PROVE ef2[s] \in Edges \cup {Zeros}
    <2>1. CASE \E e \in BlockEdges(b) : SlotIn(b, e) = s
      <3>1. PICK e \in BlockEdges(b) : SlotIn(b, e) = s
        BY <2>1
      <3>2. ef2[s] = e
        BY <1>4, <1>8, <3>1
      <3> QED
        BY <1>5, <3>2
    <2>2. CASE ~(\E e \in BlockEdges(b) : SlotIn(b, e) = s)
      <3>1. ef2[s] = ef[s]
        BY <1>2, <1>3, <1>6, <2>2, Zenon
      <3> QED
        BY <1>6, <3>1 DEF Ready
    <2> QED
      BY <2>1, <2>2
  <1>12. Stored(b, map2, ef2)
    BY <1>5, <1>6, <1>7, <1>8, <1>10, <1>11 DEF Stored
  <1> QED
    BY <1>2, <1>3, <1>12

\* After a step of training.
LEMMA TrainStep ==
  ASSUME Inv, nextBlock = NBlocks, NEW b \in Blocks, Stored(b, validMap', validEf'),
         validBlock' = b, epoch' \in 0 .. Epochs, stream' = stream, UNCHANGED planVars
  PROVE  Inv'
  <1>1. PlanInv'
    BY PlanStays DEF Inv
  <1>2. replace' = replace /\ owner' = owner /\ nextBlock' = nextBlock
    BY DEF planVars
  <1>3. TrainInv'
    BY <1>2 DEF Stored, TrainInv
  <1> QED
    BY <1>1, <1>3 DEF Inv

\* A new epoch begins with block 0, before which there is nothing.
LEMMA ResetPreserves ==
  ASSUME Inv, ResetValidEdge
  PROVE  Inv'
  <1> DEFINE zeroMap == [e \in Edges |-> 0]
             zeroEf == [s \in DOMAIN owner |-> Zeros]
  <1>1. /\ nextBlock = NBlocks /\ Store(0, zeroMap, zeroEf)
        /\ epoch < Epochs /\ epoch' = epoch + 1 /\ stream' = stream /\ UNCHANGED planVars
    BY DEF ResetValidEdge
  <1>2. Ready(0, zeroMap, zeroEf)
    <2>1. EdgesBefore(0) = {}
      BY BlocksExist
    <2> QED
      BY <2>1 DEF Ready
  <1>3. epoch' \in 0 .. Epochs
    <2>1. PICK m \in Nat, k \in Nat : m = epoch /\ k = Epochs
      BY EdgeAssumption DEF Inv, TrainInv
    <2> QED
      BY <1>1, <2>1
  <1> HIDE DEF zeroMap, zeroEf
  <1>4. Stored(0, validMap', validEf') /\ validBlock' = 0 /\ 0 \in Blocks
    BY <1>1, <1>2, BlocksExist, StoreKeeps DEF Inv
  <1> QED
    BY <1>1, <1>3, <1>4, TrainStep

\* The next block takes the place of edges that are dead.
LEMMA PreFetchPreserves ==
  ASSUME Inv, PreFetch
  PROVE  Inv'
  <1>1. /\ epoch > 0 /\ validBlock + 1 < NBlocks /\ Store(validBlock + 1, validMap, validEf)
        /\ stream' = stream /\ UNCHANGED planVars /\ epoch' = epoch
    BY DEF PreFetch
  <1>2. PICK v \in Nat : v = validBlock /\ v + 1 \in Blocks
    BY <1>1, BlocksExist DEF Inv, TrainInv, Blocks
  <1>3. nextBlock = NBlocks
    BY <1>1 DEF Inv, TrainInv
  <1>4. Ready(v + 1, validMap, validEf)
    <2>1. stream \in Stream
      BY DEF Inv, PlanInv
    <2>2. DeadAt(stream, v) \subseteq DeadAt(stream, v + 1)
      BY <2>1, ExpiredFacts
    <2>3. /\ validMap \in [Edges -> Nat] /\ DOMAIN validEf = DOMAIN owner
          /\ \A s \in DOMAIN validEf : validEf[s] \in Edges \cup {Zeros}
          /\ \A e \in EdgesBefore(v + 1) :
               /\ validMap[e] = SlotAt(replace, e)
               /\ e \notin DeadAt(stream, v) => validEf[SlotAt(replace, e)] = e
      BY <1>1, <1>2 DEF Inv, TrainInv
    <2> QED
      BY <2>2, <2>3 DEF Ready
  <1>5. Stored(v + 1, validMap', validEf') /\ validBlock' = v + 1
    BY <1>1, <1>2, <1>3, <1>4, StoreKeeps DEF Inv
  <1>6. epoch' \in 0 .. Epochs
    BY <1>1 DEF Inv, TrainInv
  <1> QED
    BY <1>1, <1>2, <1>3, <1>5, <1>6, TrainStep

\* The plan and its replay: each edge that a block may reach has its own slot, and no
\* block before it gives that slot away.
THEOREM ValidEdgesInductive == Spec => []Inv
  <1>1. Init => Inv
    BY InitInv
  <1>2. Inv /\ [Next]_vars => Inv'
    <2> SUFFICES ASSUME Inv, [Next]_vars PROVE Inv'
      OBVIOUS
    <2>1. ASSUME GiveReturned \/ GiveKept \/ GiveNew PROVE Inv'
      BY <2>1, GivePreserves
    <2>2. CASE ResetValidEdge
      BY <2>2, ResetPreserves
    <2>3. CASE PreFetch
      BY <2>3, PreFetchPreserves
    <2>4. ASSUME UNCHANGED vars PROVE Inv'
      <3>1. /\ stream' = stream /\ UNCHANGED planVars /\ validMap' = validMap
            /\ validEf' = validEf /\ validBlock' = validBlock /\ epoch' = epoch
        BY <2>4 DEF vars, trainVars
      <3>2. PlanInv'
        BY <3>1, PlanStays DEF Inv
      <3>3. replace' = replace /\ owner' = owner /\ nextBlock' = nextBlock
        BY <3>1 DEF planVars
      <3>4. TrainInv'
        BY <3>1, <3>3 DEF Inv, TrainInv
      <3> QED
        BY <3>2, <3>4 DEF Inv
    <2> QED
      BY <2>1, <2>2, <2>3, <2>4 DEF Next, Terminated
  <1> QED
    BY <1>1, <1>2, PTL DEF Spec

----------------------------------------------------------------------------
(* What the runs check *)

\* The variables keep their types.
THEOREM EdgesTyped == Spec => []EdgeTypeOK
  <1>1. Inv => EdgeTypeOK
    <2> SUFFICES ASSUME Inv PROVE EdgeTypeOK
      OBVIOUS
    <2>1. PICK N \in Nat, nb \in Nat, st \in Stream :
             N = endPtr /\ nb = nextBlock /\ st = stream /\ nb \in 0 .. NBlocks
      BY BlocksExist DEF Inv, PlanInv
    <2>2. expired \subseteq Entries
      <3>1. \A p \in ExpiredAt(st, nb) : p \in EntriesOf(st)
        BY ExpiredFacts
      <3> QED
        BY <2>1, <3>1, SameOperators DEF Inv, PlanInv
    <2>3. expEids \subseteq Edges
      <3>1. DeadAt(st, nb) \subseteq EdgesBefore(nb) /\ EdgesBefore(nb) \subseteq Edges
        BY ExpiredFacts, BlocksSplit
      <3> QED
        BY <2>1, <3>1 DEF Inv, PlanInv
    <2>4. DOMAIN owner = 0 .. N - 1 /\ \A s \in DOMAIN owner : owner[s] \in Edges
      <3>1. EdgesBefore(nb) \subseteq Edges
        BY BlocksSplit
      <3>2. OwnInv(st, nb, expEids, owner, free, replace, N)
        BY <2>1 DEF Inv, PlanInv
      <3> QED
        BY <3>1, <3>2 DEF OwnInv
    <2>5. free \in Seq(DOMAIN owner)
      <3>1. free \in Seq(0 .. N - 1)
        BY <2>1 DEF Inv, PlanInv, OwnInv
      <3> QED
        BY <2>4, <3>1
    <2>6. replace \in [Blocks -> Seq(DOMAIN owner)]
      <3>1. replace \in [Blocks -> Seq(0 .. N - 1)]
        BY <2>1 DEF Inv, PlanInv, RepInv
      <3> QED
        BY <2>4, <3>1
    <2>7. calEdges \in 0 .. NEdges /\ calMax \in 0 .. NEdges
      <3>1. /\ calEdges = Cardinality(EdgesBefore(nb) \ DeadAt(st, nb))
            /\ N = calEdges + Cardinality(expEids) + Len(free)
            /\ calMax = N /\ calMax \in 0 .. NEdges
        BY <2>1 DEF Inv, PlanInv, CountInv
      <3>2. IsFiniteSet(EdgesBefore(nb) \ DeadAt(st, nb))
        BY BlocksSplit, FS_Subset
      <3>3. PICK c \in Nat, x \in Nat, g \in Nat, E \in Nat :
               c = calEdges /\ x = Cardinality(expEids) /\ g = Len(free) /\ E = NEdges
        <4>1. calEdges \in Nat
          BY <3>1, <3>2, FS_CardinalityType
        <4>2. Cardinality(expEids) \in Nat
          BY ReturnedFacts DEF Inv
        <4>3. Len(free) \in Nat
          BY <2>5, LenProperties
        <4> QED
          BY <4>1, <4>2, <4>3, EdgeAssumption
      <3>4. N = c + x + g /\ N <= E
        BY <3>1, <3>3
      <3>5. c \in 0 .. E
        BY <3>3, <3>4
      <3> QED
        BY <3>1, <3>3, <3>5
    <2> QED
      BY <2>1, <2>2, <2>3, <2>4, <2>5, <2>6, <2>7 DEF Inv, PlanInv, TrainInv, EdgeTypeOK
  <1> QED
    BY <1>1, ValidEdgesInductive, PTL

\* Every edge that is alive owns one slot, and a slot that no such edge owns is in the list.
THEOREM EdgesAccounted == Spec => []SlotsAccounted
  <1>1. Inv => SlotsAccounted
    <2> SUFFICES ASSUME Inv PROVE SlotsAccounted
      OBVIOUS
    <2>1. PICK N \in Nat, nb \in Nat, st \in Stream : N = endPtr /\ nb = nextBlock /\ st = stream
      BY BlocksExist DEF Inv, PlanInv
    <2>2. OwnInv(st, nb, expEids, owner, free, replace, N)
      BY <2>1 DEF Inv, PlanInv
    <2>3. PICK held : held = (Seen \ Dead(expired)) \cup expEids
      OBVIOUS
    <2>4. held = Held(st, nb, expEids)
      <3>1. Seen = EdgesBefore(nb)
        BY <2>1 DEF Seen, EdgesBefore
      <3>2. Dead(expired) = DeadAt(st, nb)
        BY <2>1, SameOperators DEF DeadAt, Inv, PlanInv
      <3> QED
        BY <2>3, <3>1, <3>2 DEF Held
    <2>5. ToSet(free) = Elems(free)
      BY DEF ToSet, Elems
    <2>6. ASSUME NEW e \in held
          PROVE  Cardinality({ s \in DOMAIN owner : owner[s] = e }) = 1
      <3>1. \A s \in DOMAIN owner : owner[s] = e <=> s = SlotAt(replace, e)
        BY <2>2, <2>4 DEF OwnInv
      <3>2. SlotAt(replace, e) \in DOMAIN owner
        BY <2>2, <2>4 DEF OwnInv
      <3>3. { s \in DOMAIN owner : owner[s] = e } = {SlotAt(replace, e)}
        BY <3>1, <3>2
      <3> QED
        BY <3>3, FS_Singleton
    <2>7. \A s \in DOMAIN owner : owner[s] \in held <=> s \notin ToSet(free)
      BY <2>2, <2>4, <2>5 DEF OwnInv
    <2>8. Cardinality(ToSet(free)) = Len(free)
      BY <2>2, <2>5, CountElems DEF OwnInv
    <2> QED
      BY <2>3, <2>6, <2>7, <2>8 DEF SlotsAccounted
  <1> QED
    BY <1>1, ValidEdgesInductive, PTL

\* The array is as large as the most edges that had to be there at one time.
THEOREM NoSlotMore == Spec => []NoSlotWasted
  <1>1. Inv => NoSlotWasted
    BY DEF Inv, PlanInv, CountInv, NoSlotWasted
  <1> QED
    BY <1>1, ValidEdgesInductive, PTL

\* With one layer only the roots and the negative nodes are looked up.
LEMMA QueriesOfOneLayer ==
  ASSUME Layers = 1, NEW b
  PROVE  Queries(b) = { <<n, stream.time[e]>> : n \in Nodes, e \in BlockEdges(b) }
  <1> DEFINE X == { <<n, stream.time[e]>> : n \in Nodes, e \in BlockEdges(b) }
             Next1(s) == s \cup UNION { { <<OtherEnd(p), stream.time[EdgeOf(p)]>>
                                          : p \in Recent(x[1], x[2]) } : x \in s }
             q[i \in 0 .. 0] == IF i = 0 THEN X ELSE Next1(q[i - 1])
  <1>1. Layers - 1 = 0
    OBVIOUS
  <1>2. Queries(b) = q[0]
    BY <1>1 DEF Queries
  <1> HIDE DEF X, Next1
  <1>3. \E f : f = [i \in 0 .. 0 |-> IF i = 0 THEN X ELSE Next1(f[i - 1])]
    <2>1. [j \in 0 .. 0 |-> X] =
            [i \in 0 .. 0 |-> IF i = 0 THEN X ELSE Next1([j \in 0 .. 0 |-> X][i - 1])]
      <3>1. \A i \in 0 .. 0 : i = 0
        OBVIOUS
      <3> QED
        BY <3>1
    <2> QED
      BY <2>1
  <1>4. q = [i \in 0 .. 0 |-> IF i = 0 THEN X ELSE Next1(q[i - 1])]
    BY <1>3
  <1>5. q[0] = X
    <2> HIDE DEF q
    <2> QED
      BY <1>4
  <1> QED
    BY <1>2, <1>5 DEF X

\* With a sampler of one layer, what a block asks for has its feature.
THEOREM FeaturesOfOneLayer == ASSUME Layers = 1 PROVE Spec => []FeaturesRight
  <1>1. Inv => FeaturesRight
    <2> SUFFICES ASSUME Inv, epoch > 0, NEW e \in Wanted(validBlock)
                 PROVE  validEf[validMap[e]] = e
      BY DEF FeaturesRight
    <2>1. PICK v \in Nat, st \in Stream : v = validBlock /\ st = stream /\ v < NBlocks
      BY BlocksExist DEF Inv, PlanInv, TrainInv, Blocks
    <2>2. e \in EdgesBefore(v + 1) /\ e \notin DeadAt(st, v)
      <3>1. CASE e \in BlockEdges(v)
        <4>1. EdgesBefore(v + 1) = EdgesBefore(v) \cup BlockEdges(v)
              /\ EdgesBefore(v) \cap BlockEdges(v) = {}
          BY BlocksSplit
        <4>2. DeadAt(st, v) \subseteq EdgesBefore(v)
          BY ExpiredFacts
        <4> QED
          BY <3>1, <4>1, <4>2
      <3>2. CASE e \notin BlockEdges(v)
        <4>1. PICK x \in Queries(v) : e \in { EdgeOf(p) : p \in Recent(x[1], x[2]) }
          BY <2>1, <3>2 DEF Wanted
        <4>2. PICK n \in Nodes, r \in BlockEdges(v) : x = <<n, stream.time[r]>>
          BY <4>1, QueriesOfOneLayer
        <4>3. PICK p \in Recent(n, st.time[r]) : e = EdgeOf(p)
          BY <2>1, <4>1, <4>2
        <4>4. PICK t \in Nat : t = st.time[r]
          <5>1. r \in Edges
            BY DEF BlockEdges
          <5> QED
            BY <5>1, StreamFacts
        <4>5. Before(n, t) = BeforeOf(st, n, t)
          BY <2>1, SameOperators DEF Before, BeforeOf, RowOf
        <4>6. p \in BeforeOf(st, n, t) /\ Cardinality(NewerOf(st, n, t, p)) < FanOut
          BY <4>3, <4>4, <4>5 DEF Recent, NewerOf
        <4>7. ~(Cardinality(NewerOf(st, n, t, p)) >= FanOut)
          <5>1. NewerOf(st, n, t, p) \subseteq EntriesOf(st)
            BY DEF NewerOf, BeforeOf
          <5>2. IsFiniteSet(NewerOf(st, n, t, p))
            BY <5>1, StreamFacts, FS_Subset
          <5>3. PICK c \in Nat, F \in Nat : c = Cardinality(NewerOf(st, n, t, p)) /\ F = FanOut
            BY <5>2, FS_CardinalityType, EdgeAssumption
          <5> QED
            BY <4>6, <5>3
        <4> QED
          BY <4>3, <4>4, <4>6, <4>7, ReachedAlive
      <3> QED
        BY <3>1, <3>2
    <2>3. validMap[e] = SlotAt(replace, e) /\ validEf[SlotAt(replace, e)] = e
      BY <2>1, <2>2 DEF Inv, TrainInv
    <2> QED
      BY <2>3
  <1> QED
    BY <1>1, ValidEdgesInductive, PTL
=============================================================================
