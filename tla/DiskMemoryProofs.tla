-------------------------- MODULE DiskMemoryProofs --------------------------
(***************************************************************************)
(* DiskMemory for every stream, every limit and every number of epochs.    *)
(*                                                                         *)
(* The replay of mem_update never looks at the nodes of the intervals it   *)
(* began: it trusts the plan.  The invariant therefore ties the slots to   *)
(* the plan: with the plan, a node has a slot if and only if one of its    *)
(* intervals is open at the last block replayed (Planned).                 *)
(*                                                                         *)
(* First the plan, CachePlan: it is never larger than the limit and turns  *)
(* no interval away for nothing.                                           *)
(***************************************************************************)
EXTENDS DiskMemory, DataLemmas

----------------------------------------------------------------------------
(* Intervals and sets of intervals *)

\* There are finitely many intervals: a start, an end and a node each.
LEMMA IntervalsFinite ==
  IsFiniteSet(Intervals)
  <1> DEFINE T == (Blocks \X Blocks) \X Nodes
             f == [t \in T |-> [start |-> t[1][1], end |-> t[1][2], node |-> t[2]]]
  <1>1. IsFiniteSet(T)
    <2>1. IsFiniteSet(Blocks)
      BY FS_Interval, PlanAssumption DEF Blocks
    <2> QED
      BY <2>1, FS_Product, PlanAssumption
  <1>2. f \in Surjection(T, Interval)
    <2>1. f \in [T -> Interval]
      BY DEF Interval
    <2>2. ASSUME NEW v \in Interval
          PROVE  \E t \in T : f[t] = v
      <3>1. <<<<v.start, v.end>>, v.node>> \in T
        BY DEF Interval
      <3>2. f[<<<<v.start, v.end>>, v.node>>] = v
        BY <3>1 DEF Interval
      <3> QED
        BY <3>1, <3>2
    <2> QED
      BY <2>1, <2>2 DEF Surjection
  <1>3. IsFiniteSet(Interval)
    <2> HIDE DEF T, f
    <2> QED
      BY <1>1, <1>2, FS_Surjection
  <1> QED
    BY <1>3, FS_Subset DEF Intervals

\* What an interval is made of.
LEMMA IntervalParts ==
  ASSUME NEW v \in Intervals
  PROVE  /\ v.start \in Nat /\ v.end \in Nat /\ v.start < v.end /\ v.end < NBlocks
         /\ v.start \in Blocks /\ v.end \in Blocks
         /\ v.node \in Nodes /\ v.node \in Leaves(v.start) /\ v.node \in Leaves(v.end)
         /\ \A b \in Blocks : v.start < b /\ b < v.end => v.node \notin Leaves(b)
         /\ Span(v) \subseteq DOMAIN [b \in 0 .. NBlocks - 2 |-> b]
  BY PlanAssumption DEF Intervals, Interval, Blocks, Span

\* So the intervals that are open at one time can be counted.
LEMMA LiveFinite ==
  ASSUME NEW V \in SUBSET Intervals, NEW b
  PROVE  IsFiniteSet(Live(V, b)) /\ Cardinality(Live(V, b)) \in Nat
  <1>1. Live(V, b) \in SUBSET Intervals
    BY DEF Live
  <1> QED
    BY <1>1, IntervalsFinite, FS_Subset, FS_CardinalityType

\* An interval of the plan holds a slot during its span, and none at the end.
LEMMA BatchPlanIsLive ==
  ASSUME plan \subseteq Intervals, NEW b \in Blocks
  PROVE  /\ BatchPlan(b) = Live(plan, b)
         /\ b = NBlocks - 1 => BatchPlan(b) = {}
  BY IntervalParts, PlanAssumption DEF BatchPlan, Live, Span, Blocks

----------------------------------------------------------------------------
(* The invariant of the plan *)

\* The files are written once, from the intervals that were chosen.
Frozen ==
  /\ phase = "select" => plan = {} /\ maxNum = 0 /\ sized = 0
  /\ phase # "select" => pending = {} /\ plan = chosen
  /\ phase = "size" => sized < NBlocks
  /\ phase = "saved" => sized = NBlocks

\* budget is what the chosen intervals leave of the limit.
Accounted ==
  /\ pending \cap chosen = {}
  /\ \A b \in 0 .. NBlocks - 2 : budget[b] + Cardinality(Live(chosen, b)) = Limit
  /\ chosen = {} => pending = Intervals

\* An interval that was skipped has met a full step of time.
Refused ==
  \A v \in Intervals \ (chosen \cup pending) : \E b \in Span(v) : budget[b] = 0

\* The size covers the blocks counted so far, and no more than the limit.
Measured ==
  /\ maxNum <= Limit
  /\ \A b \in Blocks : b < sized => Cardinality(BatchPlan(b)) <= maxNum

PlanInv == PlanTypeOK /\ Frozen /\ Accounted /\ Refused /\ Measured

\* The invariant holds at the start: every step of time has room for Limit.
LEMMA PlanInitInv ==
  PlanInit => PlanInv
  <1> SUFFICES ASSUME PlanInit
               PROVE  PlanInv
    OBVIOUS
  <1> USE DEF PlanInit
  <1>1. PlanTypeOK
    BY PlanAssumption DEF PlanTypeOK
  <1>2. Frozen
    BY DEF Frozen
  <1>3. Accounted
    <2>1. ASSUME NEW b \in 0 .. NBlocks - 2
          PROVE  budget[b] + Cardinality(Live(chosen, b)) = Limit
      <3>1. Live(chosen, b) = {}
        BY DEF Live
      <3>2. Cardinality(Live(chosen, b)) = 0
        BY <3>1, FS_EmptySet
      <3>3. budget[b] = Limit
        OBVIOUS
      <3> QED
        BY <3>2, <3>3, PlanAssumption
    <2> QED
      BY <2>1 DEF Accounted
  <1>4. Refused
    BY DEF Refused
  <1>5. Measured
    BY PlanAssumption DEF Measured, Blocks
  <1> QED
    BY <1>1, <1>2, <1>3, <1>4, <1>5 DEF PlanInv

\* The intervals of a stream do not change.
LEMMA SameIntervals ==
  ASSUME roots' = roots
  PROVE  Intervals' = Intervals
  BY DEF Intervals, Leaves

\* An interval that is chosen takes one from the budget of every step of its span.
LEMMA SelectInv ==
  ASSUME PlanInv, Select
  PROVE  PlanInv'
  <1> USE DEF PlanInv
  <1> PICK v \in NextUp :
        /\ HasRoom(v)
        /\ budget' = [b \in DOMAIN budget |->
                       IF b \in Span(v) THEN budget[b] - 1 ELSE budget[b]]
        /\ chosen' = chosen \cup {v}
        /\ pending' = pending \ {v}
        /\ UNCHANGED <<roots, plan, maxNum, sized, phase>>
    BY DEF Select
  <1>1. v \in pending /\ v \in Intervals /\ v \notin chosen
    BY DEF NextUp, PlanTypeOK, Accounted
  <1>2. Intervals' = Intervals /\ phase = "select"
    BY <1>1, SameIntervals DEF Frozen, PlanTypeOK
  <1>3. \A b \in Span(v) : b \in 0 .. NBlocks - 2 /\ budget[b] > 0
    BY <1>1, IntervalParts DEF HasRoom
  <1>4. DOMAIN budget = 0 .. NBlocks - 2 /\ \A b \in 0 .. NBlocks - 2 : budget[b] \in 0 .. Limit
    BY DEF PlanTypeOK
  <1>5. PlanTypeOK'
    <2>1. budget' \in [0 .. NBlocks - 2 -> 0 .. Limit]
      BY <1>3, <1>4, PlanAssumption
    <2> QED
      BY <1>1, <1>2, <2>1 DEF PlanTypeOK
  <1>6. Frozen'
    BY <1>2 DEF Frozen
  <1>7. Accounted'
    <2>1. ASSUME NEW b \in 0 .. NBlocks - 2
          PROVE  budget'[b] + Cardinality(Live(chosen', b)) = Limit
      <3>1. /\ IsFiniteSet(Live(chosen, b)) /\ Cardinality(Live(chosen, b)) \in Nat
            /\ budget[b] + Cardinality(Live(chosen, b)) = Limit
        BY LiveFinite DEF PlanTypeOK, Accounted
      <3>2. CASE b \in Span(v)
        <4>1. Live(chosen', b) = Live(chosen, b) \cup {v} /\ v \notin Live(chosen, b)
          BY <1>1, <3>2 DEF Live
        <4>2. Cardinality(Live(chosen', b)) = Cardinality(Live(chosen, b)) + 1
          BY <3>1, <4>1, FS_AddElement
        <4> QED
          BY <1>4, <3>1, <3>2, <4>2, PlanAssumption
      <3>3. CASE b \notin Span(v)
        <4>1. Live(chosen', b) = Live(chosen, b)
          BY <3>3 DEF Live
        <4> QED
          BY <1>4, <3>1, <3>3, <4>1
      <3> QED
        BY <3>2, <3>3
    <2>2. (Live(chosen, 0))' = Live(chosen', 0)
      BY DEF Live
    <2>3. \A b \in 0 .. NBlocks - 2 : (budget[b] + Cardinality(Live(chosen, b)) = Limit)'
      BY <2>1 DEF Live
    <2> QED
      BY <1>1, <2>3 DEF Accounted
  <1>8. Refused'
    <2>1. ASSUME NEW w \in Intervals \ (chosen' \cup pending')
          PROVE  \E b \in Span(w) : budget'[b] = 0
      <3>1. w \in Intervals \ (chosen \cup pending)
        OBVIOUS
      <3>2. PICK b \in Span(w) : budget[b] = 0
        BY <3>1 DEF Refused
      <3>3. b \in 0 .. NBlocks - 2
        BY <3>1, IntervalParts
      <3> QED
        BY <1>3, <1>4, <3>2, <3>3
    <2> QED
      BY <1>2, <2>1 DEF Refused, Span
  <1>9. Measured'
    BY DEF Measured, BatchPlan
  <1> QED
    BY <1>5, <1>6, <1>7, <1>8, <1>9

\* With nothing chosen every step of time has room: the first interval is taken.
LEMMA SkipInv ==
  ASSUME PlanInv, Skip
  PROVE  PlanInv'
  <1> USE DEF PlanInv
  <1> PICK v \in NextUp :
        /\ ~HasRoom(v)
        /\ pending' = pending \ {v}
        /\ UNCHANGED <<roots, chosen, budget, plan, maxNum, sized, phase>>
    BY DEF Skip
  <1>1. v \in pending /\ v \in Intervals
    BY DEF NextUp, PlanTypeOK
  <1>2. Intervals' = Intervals /\ phase = "select"
    BY <1>1, SameIntervals DEF Frozen, PlanTypeOK
  <1>3. PICK b \in Span(v) : b \in 0 .. NBlocks - 2 /\ budget[b] = 0
    BY <1>1, IntervalParts DEF HasRoom, PlanTypeOK
  <1>4. chosen # {}
    <2>1. Live({}, b) = {} /\ Cardinality({}) = 0
      BY FS_EmptySet DEF Live
    <2> QED
      BY <1>3, <2>1, PlanAssumption DEF Accounted
  <1>5. PlanTypeOK' /\ Frozen' /\ Measured'
    BY <1>1, <1>2 DEF PlanTypeOK, Frozen, Measured, BatchPlan
  <1>6. Accounted'
    BY <1>2, <1>4 DEF Accounted, Live
  <1>7. Refused'
    BY <1>2, <1>3 DEF Refused, Span
  <1> QED
    BY <1>5, <1>6, <1>7

\* Nothing is saved but what was chosen: nothing chosen means no interval at all.
LEMMA SaveInv ==
  ASSUME PlanInv, Save
  PROVE  PlanInv'
  <1> USE DEF PlanInv
  <1>1. Intervals' = Intervals
    BY SameIntervals DEF Save
  <1>2. plan' = chosen /\ sized = 0 /\ maxNum = 0
    BY DEF Save, Accounted, Frozen
  <1>3. PlanTypeOK' /\ Frozen'
    BY <1>1, <1>2, PlanAssumption DEF Save, PlanTypeOK, Frozen
  <1>4. Accounted'
    BY <1>1 DEF Save, Accounted, Live
  <1>5. Refused'
    BY <1>1 DEF Save, Refused, Span
  <1>6. Measured'
    BY <1>2, PlanAssumption DEF Save, Measured, Blocks
  <1> QED
    BY <1>3, <1>4, <1>5, <1>6

\* What one block of the loop counts.
LEMMA BatchPlanSize ==
  ASSUME PlanInv, phase # "select", NEW b \in Blocks
  PROVE  /\ IsFiniteSet(BatchPlan(b))
         /\ Cardinality(BatchPlan(b)) \in Nat /\ Cardinality(BatchPlan(b)) <= Limit
  <1>1. plan = chosen /\ plan \subseteq Intervals /\ BatchPlan(b) = Live(plan, b)
    BY BatchPlanIsLive DEF PlanInv, PlanTypeOK, Frozen
  <1>2. IsFiniteSet(BatchPlan(b)) /\ Cardinality(BatchPlan(b)) \in Nat
    BY <1>1, LiveFinite
  <1>3. CASE b = NBlocks - 1
    <2>1. BatchPlan(b) = {}
      BY <1>1, <1>3, BatchPlanIsLive
    <2>2. Cardinality(BatchPlan(b)) = 0
      BY <2>1, FS_EmptySet
    <2> QED
      BY <1>2, <2>2, PlanAssumption
  <1>4. CASE b # NBlocks - 1
    <2>1. b \in 0 .. NBlocks - 2
      BY <1>4, PlanAssumption DEF Blocks
    <2>2. budget[b] \in Nat /\ budget[b] + Cardinality(BatchPlan(b)) = Limit
      BY <1>1, <2>1, PlanAssumption DEF PlanInv, PlanTypeOK, Accounted
    <2> QED
      BY <1>2, <2>2, PlanAssumption
  <1> QED
    BY <1>3, <1>4

\* One more block is counted.
LEMMA SizeInv ==
  ASSUME PlanInv, Size
  PROVE  PlanInv'
  <1> DEFINE k == Cardinality(BatchPlan(sized))
  <1>1. /\ phase = "size" /\ sized \in Nat /\ sized < NBlocks /\ sized \in Blocks
        /\ maxNum \in Nat /\ maxNum <= Limit
    BY PlanAssumption DEF PlanInv, PlanTypeOK, Frozen, Measured, Size, Blocks
  <1>2. k \in Nat /\ k <= Limit
    BY <1>1, BatchPlanSize
  <1>3. /\ maxNum' = (IF k > maxNum THEN k ELSE maxNum) /\ sized' = sized + 1
        /\ phase' = IF sized' = NBlocks THEN "saved" ELSE "size"
        /\ UNCHANGED <<roots, pending, chosen, budget, plan>>
    BY DEF Size
  <1> HIDE DEF k
  <1>4. /\ maxNum' \in Nat /\ maxNum' <= Limit /\ k <= maxNum' /\ maxNum <= maxNum'
    BY <1>1, <1>2, <1>3, PlanAssumption
  <1>5. Intervals' = Intervals
    BY <1>3, SameIntervals
  <1>6. PlanTypeOK' /\ Frozen'
    BY <1>1, <1>3, <1>4, <1>5, PlanAssumption DEF PlanInv, PlanTypeOK, Frozen
  <1>7. Accounted'
    BY <1>3, <1>5 DEF PlanInv, Accounted, Live
  <1>8. Refused'
    BY <1>3, <1>5 DEF PlanInv, Refused, Span
  <1>9. Measured'
    <2>1. ASSUME NEW b \in Blocks, b < sized'
          PROVE  Cardinality(BatchPlan(b)) <= maxNum'
      <3>1. CASE b = sized
        BY <1>4, <3>1 DEF k
      <3>2. CASE b < sized
        <4>1. Cardinality(BatchPlan(b)) <= maxNum
          BY <3>2 DEF PlanInv, Measured
        <4>2. Cardinality(BatchPlan(b)) \in Nat
          BY <1>1, BatchPlanSize
        <4> QED
          BY <1>1, <1>4, <4>1, <4>2
      <3> QED
        BY <1>1, <1>3, <2>1, <3>1, <3>2 DEF Blocks
    <2>2. \A b \in Blocks : (BatchPlan(b))' = BatchPlan(b)
      BY <1>3 DEF BatchPlan
    <2> QED
      BY <1>4, <2>1, <2>2 DEF Measured
  <1> QED
    BY <1>6, <1>7, <1>8, <1>9 DEF PlanInv

\* The invariant is inductive.
LEMMA PlanStepInv ==
  ASSUME PlanInv, [PlanNext]_planVars
  PROVE  PlanInv'
  <1>1. CASE UNCHANGED planVars
    BY <1>1 DEF planVars, PlanInv, PlanTypeOK, Frozen, Accounted, Refused, Measured,
                Intervals, Leaves, Live, Span, BatchPlan
  <1> QED
    BY <1>1, SelectInv, SkipInv, SaveInv, SizeInv DEF PlanNext

\* What the invariant says of a plan that is complete.
LEMMA PlanInvImplies ==
  ASSUME PlanInv
  PROVE  PlanWithinLimit /\ PlanMaximal
  <1>1. PlanWithinLimit
    BY DEF PlanInv, Measured, PlanWithinLimit
  <1>2. ASSUME phase = "saved", NEW v \in Intervals \ plan
        PROVE  \E b \in Span(v) : Cardinality(Live(plan, b)) = Limit
    <2>1. pending = {} /\ plan = chosen
      BY <1>2 DEF PlanInv, Frozen
    <2>2. PICK b \in Span(v) : budget[b] = 0
      BY <1>2, <2>1 DEF PlanInv, Refused
    <2>3. b \in 0 .. NBlocks - 2
      BY <1>2, IntervalParts
    <2>4. 0 + Cardinality(Live(plan, b)) = Limit /\ Cardinality(Live(plan, b)) \in Nat
      BY <2>1, <2>2, <2>3, LiveFinite DEF PlanInv, PlanTypeOK, Accounted
    <2> QED
      BY <2>4
  <1> QED
    BY <1>1, <1>2 DEF PlanMaximal

----------------------------------------------------------------------------
(* The invariant of DiskMemory *)

\* A node of an interval that is open at block c.
Held(n, c) == \E v \in plan : v.node = n /\ v.start <= c /\ c < v.end

\* Nothing happens before training starts.
Idle ==
  /\ loaded => phase = "saved"
  /\ ~loaded => /\ block = 0 /\ epoch = 0 /\ cacheKind = "none"
                /\ \A n \in Nodes : ~memFlag[n]

RowsDiffer == \A m, n \in Nodes : row[m] = row[n] => m = n

\* No two nodes share a slot.
SlotsDiffer == \A m, n \in Nodes : slot[m] = slot[n] /\ slot[m] # 0 => m = n

\* Without the plan the slots never change.
Fixed ==
  cacheKind # "simple" =>
    /\ used[0]
    /\ \A n \in Nodes : slot[n] = IF cacheKind = "static" THEN StaticSlot(n) ELSE 0

\* With the plan the open intervals hold the slots, and nothing else does.
Planned ==
  cacheKind = "simple" =>
    /\ \A n \in Nodes : slot[n] # 0 <=> block >= 2 /\ Held(n, block - 2)
    /\ \A s \in Slots : used[s] <=> s = 0 \/ \E n \in Nodes : slot[n] = s

DiskInv == PlanInv /\ MemTypeOK /\ Idle /\ RowsDiffer /\ SlotsDiffer /\ Fixed /\ Planned

----------------------------------------------------------------------------
(* Rows, slots and stamps *)

\* Stamps are numbers.
LEMMA StampNat ==
  ASSUME NEW e \in Nat, NEW b \in Nat
  PROVE  Stamp(e, b) \in Nat
  BY PlanAssumption DEF Stamp

\* The static nodes have the slots from 1 to their number, each its own.
LEMMA StaticSlotBounds ==
  /\ Cardinality(StaticNodes) \in Nat
  /\ \A n \in Nodes : StaticSlot(n) \in 0 .. Cardinality(StaticNodes)
  /\ \A m, n \in Nodes : StaticSlot(m) = StaticSlot(n) /\ StaticSlot(m) # 0 => m = n
  <1> DEFINE Below(n) == { m \in StaticNodes : m <= n }
  <1>1. Cardinality(StaticNodes) \in Nat
    BY DiskAssumption, FS_CardinalityType
  <1>2. ASSUME NEW n \in Nodes
        PROVE  /\ IsFiniteSet(Below(n)) /\ Cardinality(Below(n)) \in Nat
               /\ Cardinality(Below(n)) <= Cardinality(StaticNodes)
    BY DiskAssumption, FS_Subset, FS_CardinalityType
  <1>3. ASSUME NEW m \in StaticNodes, NEW n \in StaticNodes, m < n
        PROVE  Cardinality(Below(m)) # Cardinality(Below(n))
    <2>1. \A k \in StaticNodes : k \in Nat /\ k \in Nodes
      BY PlanAssumption, DiskAssumption
    <2>2. Below(m) \in SUBSET Below(n) /\ n \in Below(n) /\ n \notin Below(m)
      BY <1>3, <2>1
    <2> HIDE DEF Below
    <2> QED
      BY <1>2, <2>1, <2>2, FS_Subset
  <1>4. ASSUME NEW m \in Nodes, NEW n \in Nodes, StaticSlot(m) = StaticSlot(n), StaticSlot(m) # 0
        PROVE  m = n
    <2>1. m \in StaticNodes /\ n \in StaticNodes /\ m \in Nat /\ n \in Nat
      BY <1>4, PlanAssumption DEF StaticSlot
    <2>2. Cardinality(Below(m)) = Cardinality(Below(n))
      BY <1>4, <2>1 DEF StaticSlot
    <2>3. ~(m < n) /\ ~(n < m)
      BY <1>3, <2>1, <2>2
    <2> QED
      BY <2>1, <2>3
  <1>5. \A n \in Nodes : StaticSlot(n) \in 0 .. Cardinality(StaticNodes)
    BY <1>1, <1>2 DEF StaticSlot
  <1> QED
    BY <1>1, <1>4, <1>5

\* The rows and slots there are; slot 0 is always one of them.
LEMMA LastSlotNat ==
  ASSUME MemTypeOK
  PROVE  /\ LastSlot \in Nat
         /\ Rows = 0 .. LastSlot /\ Slots = 0 .. LastSlot + 1 /\ 0 \in Rows /\ 0 \in Slots
  <1>1. LastSlot \in Nat
    BY StaticSlotBounds, DiskAssumption DEF MemTypeOK, PlanTypeOK, LastSlot
  <1> QED
    BY <1>1 DEF Rows, Slots

\* Once the plan is saved it does not change.
LEMMA PlanDone ==
  ASSUME PlanInv, phase = "saved"
  PROVE  ~PlanNext
  BY DEF PlanInv, Frozen, PlanNext, Select, Skip, Save, Size, NextUp

----------------------------------------------------------------------------
(* The replay of the plan *)

\* For the nodes that leave after block b, the plan and the slots agree.
LEMMA Replay ==
  ASSUME DiskInv, loaded, cacheKind = "simple", block > 0, block + 1 < NBlocks
  PROVE  /\ block - 1 \in Blocks /\ Brought(block + 1) = Leaves(block - 1)
         /\ Starts(block - 1) \subseteq Brought(block + 1)
         /\ Ends(block - 1) \subseteq Brought(block + 1)
         /\ Brought(block + 1) \subseteq Nodes
         /\ \A n \in Ends(block - 1) : slot[n] # 0
         /\ \A n \in Brought(block + 1) : slot[n] # 0 => n \in Ends(block - 1)
         /\ \A n \in Nodes :
              Held(n, block - 1)
                <=> n \in Starts(block - 1) \/ (slot[n] # 0 /\ n \notin Ends(block - 1))
  <1> DEFINE b == block - 1
  <1>1. /\ block \in Nat /\ b \in Nat /\ b \in Blocks /\ b < NBlocks /\ block = b + 1
        /\ NBlocks \in Nat /\ block - 2 = b - 1
    BY PlanAssumption DEF DiskInv, MemTypeOK, Blocks
  <1>2. Brought(block + 1) = Leaves(b)
    BY <1>1 DEF Brought
  <1>3. Leaves(b) \subseteq Nodes
    BY <1>1, PlanAssumption DEF Leaves, DiskInv, MemTypeOK, PlanTypeOK, Blocks
  <1>4. \A v \in plan : v \in Intervals
    BY DEF DiskInv, PlanInv, PlanTypeOK
  <1>5. \A n \in Nodes : slot[n] # 0 <=> block >= 2 /\ Held(n, b - 1)
    BY <1>1 DEF DiskInv, Planned
  <1>6. \A v \in plan :
          /\ v.start \in Nat /\ v.end \in Nat /\ v.start < v.end
          /\ v.node \in Nodes /\ v.node \in Leaves(v.start) /\ v.node \in Leaves(v.end)
          /\ v.start < b /\ b < v.end => v.node \notin Leaves(b)
    BY <1>1, <1>4, IntervalParts
  <1> HIDE DEF b
  <1>7. Starts(b) \subseteq Leaves(b) /\ Ends(b) \subseteq Leaves(b)
    BY <1>6 DEF Starts, Ends
  <1>8. ASSUME NEW n \in Ends(b)
        PROVE  slot[n] # 0
    <2>1. PICK v \in plan : v.end = b /\ v.node = n
      BY DEF Ends
    <2>2. v.start <= b - 1 /\ b - 1 < v.end /\ block >= 2 /\ n \in Nodes
      BY <1>1, <1>6, <2>1
    <2> QED
      BY <1>5, <2>1, <2>2 DEF Held
  <1>9. ASSUME NEW n \in Nodes, slot[n] # 0, n \notin Ends(b)
        PROVE  Held(n, b) /\ n \notin Leaves(b)
    <2>1. PICK v \in plan : v.node = n /\ v.start <= b - 1 /\ b - 1 < v.end
      BY <1>5, <1>9 DEF Held
    <2>2. v.end # b
      BY <1>9, <2>1 DEF Ends
    <2>3. v.start < b /\ b < v.end
      BY <1>1, <1>6, <2>1, <2>2
    <2> QED
      BY <1>6, <1>1, <2>1, <2>3 DEF Held
  <1>10. ASSUME NEW n \in Nodes, Held(n, b), n \notin Starts(b)
         PROVE  slot[n] # 0 /\ n \notin Ends(b)
    <2>1. PICK v \in plan : v.node = n /\ v.start <= b /\ b < v.end
      BY <1>10 DEF Held
    <2>2. v.start # b
      BY <1>10, <2>1 DEF Starts
    <2>3. v.start < b /\ v.start <= b - 1 /\ b - 1 < v.end /\ block >= 2
      BY <1>1, <1>6, <2>1, <2>2
    <2>4. n \notin Leaves(b)
      BY <1>6, <2>1, <2>3
    <2> QED
      BY <1>5, <1>7, <2>1, <2>3, <2>4 DEF Held
  <1>11. ASSUME NEW n \in Starts(b)
         PROVE  Held(n, b)
    BY <1>1, <1>6 DEF Starts, Held
  <1> QED
    BY <1>1, <1>2, <1>3, <1>7, <1>8, <1>9, <1>10, <1>11 DEF b

\* A slot is free when no node keeps it; slot 0 never is.
LEMMA Free ==
  ASSUME DiskInv, loaded, cacheKind = "simple", block > 0, block + 1 < NBlocks
  PROVE  /\ FreeAfter(block - 1) \subseteq Slots
         /\ 0 \notin FreeAfter(block - 1)
         /\ \A s \in Slots \ {0} :
              s \in FreeAfter(block - 1)
                <=> \A n \in Nodes \ Ends(block - 1) : slot[n] # s
  <1>1. \A s \in Slots : used[s] <=> s = 0 \/ \E n \in Nodes : slot[n] = s
    BY DEF DiskInv, Planned
  <1>2. \A n \in Ends(block - 1) : n \in Nodes /\ slot[n] # 0
    BY Replay
  <1>3. SlotsDiffer
    BY DEF DiskInv
  <1>4. 0 \in Slots
    BY LastSlotNat DEF DiskInv
  <1> QED
    BY <1>1, <1>2, <1>3, <1>4 DEF FreeAfter, SlotsDiffer

----------------------------------------------------------------------------
(* The invariant is inductive *)

\* The invariant holds before preprocessing.
LEMMA DiskInitInv ==
  Init => DiskInv
  <1> SUFFICES ASSUME Init
               PROVE  DiskInv
    OBVIOUS
  <1> USE DEF Init
  <1>1. PlanInv
    BY PlanInitInv
  <1>2. LastSlot = 0 /\ Rows = {0} /\ Slots = 0 .. 1
    BY DEF LastSlot, Rows, Slots
  <1>3. MemTypeOK
    <2>1. 0 \in Blocks /\ 0 \in 0 .. Epochs
      BY PlanAssumption, DiskAssumption DEF Blocks
    <2>2. slot \in [Nodes -> Rows] /\ cache \in [Rows -> Nat] /\ used \in [Slots -> BOOLEAN]
      BY <1>2
    <2>3. row \in [Nodes -> Nodes] /\ memFlag \in [Nodes -> BOOLEAN]
          /\ disk \in [Nodes -> Nat \cup {Junk}]
      OBVIOUS
    <2> QED
      BY <1>1, <2>1, <2>2, <2>3 DEF PlanInv, MemTypeOK
  <1>4. Idle /\ RowsDiffer /\ Planned
    BY DEF Idle, RowsDiffer, Planned
  <1>5. SlotsDiffer
    BY DEF SlotsDiffer
  <1>6. Fixed
    <2>1. 0 \in 0 .. 1
      OBVIOUS
    <2>2. used[0]
      BY <2>1, Zenon
    <2> QED
      BY <2>2 DEF Fixed
  <1> QED
    BY <1>1, <1>3, <1>4, <1>5, <1>6 DEF DiskInv

\* While training has not started there is one row, whatever the plan becomes.
LEMMA PreprocessInv ==
  ASSUME DiskInv, Preprocess
  PROVE  DiskInv'
  <1>1. PlanInv'
    BY PlanStepInv DEF Preprocess, DiskInv
  <1>2. ~loaded /\ UNCHANGED <<settings, memVars>>
    BY PlanDone DEF Preprocess, DiskInv, Idle
  <1>3. LastSlot' = LastSlot /\ Rows' = Rows /\ Slots' = Slots
    BY <1>2 DEF settings, LastSlot, Rows, Slots
  <1>4. MemTypeOK'
    BY <1>1, <1>2, <1>3 DEF PlanInv, DiskInv, MemTypeOK, settings, memVars
  <1>5. (Idle /\ RowsDiffer /\ SlotsDiffer /\ Fixed /\ Planned)'
    BY <1>2, <1>3 DEF DiskInv, Idle, RowsDiffer, SlotsDiffer, Fixed, Planned, StaticSlot,
                       settings, memVars
  <1> QED
    BY <1>1, <1>4, <1>5 DEF DiskInv

\* A step of training leaves the plan and the number of rows alone.
LEMMA SamePlan ==
  ASSUME DiskInv, UNCHANGED <<planVars, settings>>
  PROVE  /\ PlanInv' /\ PlanTypeOK' /\ RowsDiffer' /\ Rows' = Rows /\ Slots' = Slots
         /\ loaded' \in BOOLEAN /\ cacheKind' \in Caches \cup {"none"}
         /\ row' \in [Nodes -> Nodes]
         /\ \A n, c : Held(n, c)' = Held(n, c)
  <1>1. PlanInv'
    BY PlanStepInv DEF DiskInv
  <1>2. Rows' = Rows /\ Slots' = Slots
    BY DEF planVars, settings, LastSlot, Rows, Slots
  <1> QED
    BY <1>1, <1>2 DEF PlanInv, DiskInv, MemTypeOK, RowsDiffer, planVars, settings, Held

\* init_memory: no slot is taken yet, or the slots are those of the static nodes.
LEMMA LoadInv ==
  ASSUME DiskInv, Load
  PROVE  DiskInv'
  <1>1. /\ UNCHANGED <<planVars, memFlag, disk, block, epoch>>
        /\ loaded' = TRUE /\ cacheKind' \in Caches /\ row' \in RowMaps
        /\ slot' = [n \in Nodes |-> IF cacheKind' = "static" THEN StaticSlot(n) ELSE 0]
        /\ cache' = [s \in Rows' |-> 0]
        /\ used' = [s \in Slots' |-> s = 0]
        /\ phase = "saved" /\ block = 0 /\ epoch = 0
    BY DEF Load, DiskInv, Idle
  <1>2. PlanInv'
    BY <1>1, PlanStepInv DEF DiskInv
  <1>3. LastSlot' \in Nat /\ (cacheKind' = "static" => LastSlot' = Cardinality(StaticNodes))
    BY <1>1, <1>2, StaticSlotBounds, DiskAssumption DEF PlanInv, PlanTypeOK, LastSlot
  <1>4. Rows' = 0 .. LastSlot' /\ Slots' = 0 .. LastSlot' + 1
    BY DEF Rows, Slots
  <1>5. slot' \in [Nodes -> Rows']
    BY <1>1, <1>3, <1>4, StaticSlotBounds
  <1>6. MemTypeOK'
    <2>1. used' \in [Slots' -> BOOLEAN] /\ cache' \in [Rows' -> Nat]
      BY <1>1
    <2>2. row' \in [Nodes -> Nodes]
      BY <1>1, DiskAssumption
    <2> QED
      BY <1>1, <1>2, <1>5, <2>1, <2>2 DEF PlanInv, MemTypeOK, DiskInv
  <1>7. Idle' /\ RowsDiffer'
    BY <1>1, DiskAssumption DEF Idle, RowsDiffer, planVars
  <1>8. SlotsDiffer'
    <2>1. ASSUME NEW m \in Nodes, NEW n \in Nodes, slot'[m] = slot'[n], slot'[m] # 0
          PROVE  m = n
      BY <1>1, <2>1, StaticSlotBounds
    <2> QED
      BY <2>1 DEF SlotsDiffer
  <1>9. used'[0] /\ \A s \in Slots' : used'[s] <=> s = 0
    <2>1. \A k \in Nat : 0 \in 0 .. k + 1
      OBVIOUS
    <2>2. 0 \in 0 .. LastSlot' + 1
      BY <1>3, <2>1, Zenon
    <2> QED
      BY <1>1, <1>4, <2>2
  <1>10. Fixed'
    <2>1. \A n \in Nodes : StaticSlot(n)' = StaticSlot(n)
      BY DEF StaticSlot
    <2> QED
      BY <1>1, <1>9, <2>1 DEF Fixed
  <1>11. Planned'
    <2>1. ASSUME cacheKind' = "simple"
          PROVE  \A n \in Nodes : slot'[n] = 0
      BY <1>1, <2>1
    <2>2. ~(block' >= 2)
      BY <1>1
    <2>3. ASSUME cacheKind' = "simple", NEW s \in Slots'
          PROVE  used'[s] <=> s = 0 \/ \E n \in Nodes : slot'[n] = s
      BY <1>9, <2>1, <2>3
    <2> QED
      BY <2>1, <2>2, <2>3 DEF Planned
  <1> QED
    BY <1>2, <1>6, <1>7, <1>8, <1>10, <1>11 DEF DiskInv

\* reset_memory: with the plan, all slots are given back.
LEMMA ResetInv ==
  ASSUME DiskInv, Reset
  PROVE  DiskInv'
  <1>1. /\ UNCHANGED <<planVars, settings, disk>> /\ loaded
        /\ epoch < Epochs /\ epoch' = epoch + 1 /\ block' = 0
        /\ cache' = [s \in Rows |-> 0] /\ memFlag' = [n \in Nodes |-> FALSE]
        /\ IF cacheKind = "simple"
           THEN slot' = [n \in Nodes |-> 0] /\ used' = [s \in Slots |-> s = 0]
           ELSE UNCHANGED <<slot, used>>
    BY DEF Reset
  <1>2. 0 \in Rows /\ 0 \in Slots
    BY LastSlotNat DEF DiskInv
  <1>3. MemTypeOK'
    <2>1. epoch' \in 0 .. Epochs /\ block' \in Blocks
      BY <1>1, DiskAssumption, PlanAssumption DEF DiskInv, MemTypeOK, Blocks
    <2>2. slot' \in [Nodes -> Rows] /\ used' \in [Slots -> BOOLEAN] /\ cache' \in [Rows -> Nat]
      BY <1>1, <1>2 DEF DiskInv, MemTypeOK
    <2> QED
      BY <1>1, <2>1, <2>2, SamePlan DEF DiskInv, MemTypeOK
  <1>4. Idle' /\ SlotsDiffer'
    BY <1>1 DEF DiskInv, Idle, SlotsDiffer, planVars, settings
  <1>5. Fixed'
    BY <1>1, SamePlan DEF DiskInv, Fixed, StaticSlot, settings
  <1>6. Planned'
    <2>1. ASSUME cacheKind = "simple"
          PROVE  Planned'
      <3>1. \A n \in Nodes : slot'[n] = 0
        BY <1>1, <2>1
      <3>2. \A s \in Slots : used'[s] <=> s = 0
        BY <1>1, <2>1
      <3>3. ~(block' >= 2) /\ Slots' = Slots
        BY <1>1, SamePlan
      <3> QED
        BY <3>1, <3>2, <3>3 DEF Planned
    <2> QED
      BY <1>1, <2>1 DEF Planned, settings
  <1> QED
    BY <1>1, <1>3, <1>4, <1>5, <1>6, SamePlan DEF DiskInv

\* A request that brings nothing skips a block in which no interval begins or ends.
LEMMA RequestNothingInv ==
  ASSUME DiskInv, RequestNothing
  PROVE  DiskInv'
  <1>1. /\ UNCHANGED <<planVars, settings, memFlag, slot, used, cache, disk, epoch>>
        /\ loaded /\ block + 1 < NBlocks /\ Brought(block + 1) = {} /\ block' = block + 1
    BY DEF RequestNothing
  <1>2. block \in Nat /\ block' \in Blocks
    BY <1>1, PlanAssumption DEF DiskInv, MemTypeOK, Blocks
  <1>3. MemTypeOK'
    BY <1>1, <1>2, SamePlan DEF DiskInv, MemTypeOK
  <1>4. Idle' /\ SlotsDiffer' /\ Fixed'
    BY <1>1, SamePlan DEF DiskInv, Idle, SlotsDiffer, Fixed, StaticSlot, planVars, settings
  <1>5. ASSUME cacheKind = "simple", NEW n \in Nodes
        PROVE  slot[n] # 0 <=> block' >= 2 /\ Held(n, block' - 2)
    <2>1. CASE block = 0
      BY <1>1, <1>5, <2>1 DEF DiskInv, Planned
    <2>2. CASE block > 0
      <3>1. block' - 2 = block - 1 /\ block' >= 2
        BY <1>1, <1>2, <2>2
      <3> QED
        BY <1>1, <1>5, <2>2, <3>1, Replay
    <2> QED
      BY <1>2, <2>1, <2>2
  <1>6. Planned'
    BY <1>1, <1>5, SamePlan DEF DiskInv, Planned, settings
  <1> QED
    BY <1>1, <1>3, <1>4, <1>6, SamePlan DEF DiskInv

\* What the two ways of storing what is brought have in common.
LEMMA BringFacts ==
  ASSUME DiskInv, Bring
  PROVE  /\ UNCHANGED <<planVars, settings, epoch>> /\ loaded
         /\ block > 0 /\ block + 1 < NBlocks /\ block' = block + 1 /\ block' \in Blocks
         /\ block \in Nat /\ epoch \in Nat /\ Stamp(epoch, block + 1) \in Nat
         /\ Brought(block + 1) \subseteq Nodes
         /\ memFlag' = [n \in Nodes |-> n \in Brought(block + 1) \/ memFlag[n]]
         /\ memFlag' \in [Nodes -> BOOLEAN] /\ Idle'
  <1>1. /\ UNCHANGED <<planVars, settings, epoch>> /\ loaded
        /\ block + 1 < NBlocks /\ block' = block + 1 /\ Brought(block + 1) # {}
        /\ memFlag' = [n \in Nodes |-> n \in Brought(block + 1) \/ memFlag[n]]
    BY DEF Bring, Brought, Leaves, planVars
  <1>2. block \in Nat /\ epoch \in Nat /\ block' \in Blocks
    BY <1>1, PlanAssumption, DiskAssumption DEF DiskInv, MemTypeOK, Blocks
  <1>3. block > 0 /\ block - 1 \in Blocks /\ Brought(block + 1) = Leaves(block - 1)
    BY <1>1, <1>2, PlanAssumption DEF Brought, Blocks
  <1>4. Brought(block + 1) \subseteq Nodes
    BY <1>3, PlanAssumption DEF Leaves, DiskInv, MemTypeOK, PlanTypeOK, Blocks
  <1>5. memFlag' \in [Nodes -> BOOLEAN]
    BY <1>1 DEF DiskInv, MemTypeOK
  <1>6. Idle'
    BY <1>1 DEF DiskInv, Idle, planVars, settings
  <1>7. Stamp(epoch, block + 1) \in Nat
    BY <1>2, StampNat
  <1>8. UNCHANGED <<planVars, settings, epoch>>
    BY <1>1
  <1> QED
    BY <1>1, <1>2, <1>3, <1>4, <1>5, <1>6, <1>7, <1>8

\* What is written to the file are numbers.
LEMMA WrittenType ==
  ASSUME DiskInv, NEW S, NEW v \in Nat
  PROVE  Written(S, v) \in [Nodes -> Nat \cup {Junk}]
  BY DEF DiskInv, MemTypeOK, Written

\* mem_update without the plan: slots are kept.
LEMMA UpdateStaticInv ==
  ASSUME DiskInv, UpdateStatic
  PROVE  DiskInv'
  <1> DEFINE S == Brought(block + 1)
             cached == { n \in S : slot[n] # 0 }
             v == Stamp(epoch, block + 1)
  <1>1. /\ Bring /\ cacheKind # "simple" /\ UNCHANGED <<slot, used>>
        /\ cache' = [s \in Rows |-> IF \E n \in cached : slot[n] = s THEN v ELSE cache[s]]
        /\ disk' = Written(S \ cached, v)
    BY DEF UpdateStatic
  <1>2. v \in Nat
    BY <1>1, BringFacts
  <1> HIDE DEF v
  <1>3. cache' \in [Rows -> Nat] /\ disk' \in [Nodes -> Nat \cup {Junk}]
    BY <1>1, <1>2, WrittenType DEF DiskInv, MemTypeOK
  <1>4. MemTypeOK'
    BY <1>1, <1>3, BringFacts, SamePlan DEF DiskInv, MemTypeOK
  <1>5. SlotsDiffer' /\ Fixed' /\ Planned'
    BY <1>1, BringFacts, SamePlan DEF DiskInv, SlotsDiffer, Fixed, Planned, StaticSlot, settings
  <1> QED
    BY <1>1, <1>4, <1>5, BringFacts, SamePlan DEF DiskInv

\* mem_update with the plan.
LEMMA UpdateSimpleInv ==
  ASSUME DiskInv, UpdateSimple
  PROVE  DiskInv'
  <1> DEFINE b == block - 1
             S == Brought(block + 1)
             new == S \cap Starts(b)
             free == FreeAfter(b)
             v == Stamp(epoch, block + 1)
  <1>1. cacheKind = "simple" /\ Bring
    BY DEF UpdateSimple
  <1>2. loaded /\ block > 0 /\ block + 1 < NBlocks
    BY <1>1, BringFacts
  <1>3. PICK f \in LowestSlots(new, free) :
          /\ \A n \in new : f[n] \in Rows
          /\ slot' = Moved(f, b)
          /\ used' = [s \in Slots |-> s \notin free \/ \E n \in new : f[n] = s]
          /\ cache' = [s \in Rows |-> IF \E n \in new : f[n] = s THEN v ELSE cache[s]]
    BY DEF UpdateSimple
  <1>4. disk' = Written(S \ new, v) /\ v \in Nat
    BY <1>1, BringFacts DEF UpdateSimple
  <1>5. new = Starts(b) /\ new \subseteq Nodes
    BY <1>1, <1>2, Replay
  <1>6. free \subseteq Slots /\ 0 \notin free
        /\ \A s \in Slots \ {0} : s \in free <=> \A n \in Nodes \ Ends(b) : slot[n] # s
    BY <1>1, <1>2, Free
  <1>7. \A n \in Nodes :
          Held(n, b) <=> n \in Starts(b) \/ (slot[n] # 0 /\ n \notin Ends(b))
    BY <1>1, <1>2, Replay
  <1>8. slot \in [Nodes -> Rows] /\ 0 \in Rows /\ Rows \subseteq Slots /\ SlotsDiffer
    BY LastSlotNat DEF DiskInv, MemTypeOK
  <1> HIDE DEF free, v, S, new, b
  <1>9. /\ DOMAIN f = new
        /\ \A n \in new : f[n] \in free /\ f[n] # 0
        /\ \A m, n \in new : f[m] = f[n] => m = n
    <2>1. f \in [new -> free] /\ \A m, n \in new : m < n => f[m] < f[n]
      BY <1>3 DEF LowestSlots
    <2>2. \A m, n \in new : m # n => m < n \/ n < m
      BY <1>5, PlanAssumption
    <2>3. \A s \in free : s \in Nat
      BY <1>6 DEF Slots
    <2> QED
      BY <1>6, <2>1, <2>2, <2>3
  <1>10. \A n \in Nodes :
           slot'[n] = IF n \in new THEN f[n] ELSE IF n \in Ends(b) THEN 0 ELSE slot[n]
    BY <1>3, <1>9 DEF Moved
  <1>11. slot' \in [Nodes -> Rows]
    BY <1>3, <1>8, <1>9 DEF Moved
  <1>12. used' \in [Slots -> BOOLEAN] /\ cache' \in [Rows -> Nat]
         /\ disk' \in [Nodes -> Nat \cup {Junk}]
    BY <1>3, <1>4, WrittenType DEF DiskInv, MemTypeOK
  <1>13. MemTypeOK'
    BY <1>1, <1>11, <1>12, BringFacts, SamePlan DEF DiskInv, MemTypeOK
  <1>14. SlotsDiffer'
    <2>1. ASSUME NEW m \in Nodes, NEW n \in Nodes, slot'[m] = slot'[n], slot'[m] # 0
          PROVE  m = n
      <3>1. CASE m \in new /\ n \in new
        BY <1>9, <1>10, <2>1, <3>1
      <3>2. CASE m \notin new /\ n \notin new
        BY <1>8, <1>10, <2>1, <3>2 DEF SlotsDiffer
      <3>3. ASSUME NEW x \in new, NEW y \in Nodes \ new, slot'[x] = slot'[y], slot'[x] # 0
            PROVE  FALSE
        <4>1. f[x] \in free /\ f[x] = slot[y] /\ y \notin Ends(b) /\ slot[y] \in Slots \ {0}
          BY <1>5, <1>8, <1>9, <1>10, <3>3
        <4> QED
          BY <1>6, <4>1
      <3> QED
        BY <2>1, <3>1, <3>2, <3>3
    <2> QED
      BY <2>1 DEF SlotsDiffer
  <1>15. Planned'
    <2>1. block' - 2 = b /\ block' >= 2 /\ Slots' = Slots
      BY <1>1, BringFacts, SamePlan DEF b
    <2>2. \A n \in Nodes : slot'[n] # 0 <=> Held(n, b)
      BY <1>5, <1>7, <1>9, <1>10
    <2>3. ASSUME NEW s \in Slots
          PROVE  used'[s] <=> s = 0 \/ \E n \in Nodes : slot'[n] = s
      <3>1. used'[s] <=> s \notin free \/ \E n \in new : f[n] = s
        BY <1>3
      <3>2. CASE s = 0
        BY <1>6, <3>1, <3>2
      <3>3. CASE s # 0
        <4>1. s \notin free <=> \E n \in Nodes \ Ends(b) : slot[n] = s
          BY <1>6, <3>3
        <4>2. ASSUME NEW n \in Nodes \ Ends(b), slot[n] = s
              PROVE  slot'[n] = s
          <5>1. n \notin new
            BY <1>1, <1>2, <3>3, <4>2, Replay DEF new, S, b
          <5> QED
            BY <1>10, <4>2, <5>1
        <4>3. ASSUME NEW n \in Nodes, slot'[n] = s
              PROVE  (n \in new /\ f[n] = s) \/ (n \in Nodes \ Ends(b) /\ slot[n] = s)
          BY <1>10, <3>3, <4>3
        <4>4. \A n \in new : f[n] = s => n \in Nodes /\ slot'[n] = s
          BY <1>5, <1>10
        <4> QED
          BY <3>1, <3>3, <4>1, <4>2, <4>3, <4>4
      <3> QED
        BY <3>2, <3>3
    <2> QED
      BY <2>1, <2>2, <2>3, <1>1, BringFacts, SamePlan DEF Planned
  <1>16. Fixed'
    BY <1>1, BringFacts DEF Fixed, settings
  <1> QED
    BY <1>1, <1>13, <1>14, <1>15, <1>16, BringFacts, SamePlan DEF DiskInv

\* Every step preserves the invariant.
LEMMA DiskStepInv ==
  ASSUME DiskInv, [Next]_vars
  PROVE  DiskInv'
  <1>1. CASE UNCHANGED vars
    <2>1. UNCHANGED <<planVars, settings>> /\ UNCHANGED memVars
      BY <1>1 DEF vars
    <2>2. (MemTypeOK /\ Idle /\ SlotsDiffer)'
      BY <2>1, SamePlan DEF DiskInv, MemTypeOK, Idle, SlotsDiffer, memVars, settings, planVars
    <2>3. (Fixed /\ Planned)'
      BY <2>1, SamePlan DEF DiskInv, Fixed, Planned, StaticSlot, memVars, settings
    <2> QED
      BY <2>1, <2>2, <2>3, SamePlan DEF DiskInv
  <1> QED
    BY <1>1, PreprocessInv, LoadInv, ResetInv, RequestNothingInv, UpdateStaticInv, UpdateSimpleInv
       DEF Next, Terminated

\* The slots follow the plan in every state: with the plan a node has a slot
\* exactly while one of its intervals is open (mem_update).
THEOREM DiskInductive == Spec => []DiskInv
  BY DiskInitInv, DiskStepInv, PTL DEF Spec

----------------------------------------------------------------------------
(* What the invariant implies *)

\* The type of the state of the plan and of mem_update.
THEOREM DiskTypeCorrect == Spec => []MemTypeOK
  <1>1. DiskInv => MemTypeOK
    BY DEF DiskInv
  <1> QED
    BY <1>1, DiskInductive, PTL

\* node_memory.py: simple_max_num is never larger than the limit.
THEOREM PlanFits == Spec => []PlanWithinLimit
  <1>1. DiskInv => PlanWithinLimit
    BY PlanInvImplies DEF DiskInv
  <1> QED
    BY <1>1, DiskInductive, PTL

\* node_memory.py: an interval that is turned away meets a full step of time.
THEOREM PlanNotWasteful == Spec => []PlanMaximal
  <1>1. DiskInv => PlanMaximal
    BY PlanInvImplies DEF DiskInv
  <1> QED
    BY <1>1, DiskInductive, PTL

\* Nodes with a slot are those that hold an interval, each its own.
LEMMA ExclusiveFromInv ==
  DiskInv => SlotsExclusive
  <1> SUFFICES ASSUME DiskInv
               PROVE  SlotsExclusive
    OBVIOUS
  <1>1. 0 \in Slots
    BY LastSlotNat DEF DiskInv
  <1>2. used[0]
    BY <1>1 DEF DiskInv, Fixed, Planned
  <1>3. \A m, n \in Nodes : slot[m] = slot[n] /\ slot[m] # 0 => m = n
    BY DEF DiskInv, SlotsDiffer
  <1>4. cacheKind = "simple" => \A s \in Slots : used[s] => s = 0 \/ \E n \in Nodes : slot[n] = s
    BY DEF DiskInv, Planned
  <1> QED
    BY <1>2, <1>3, <1>4 DEF SlotsExclusive

\* mem_update: no two nodes share a slot, slot 0 is never handed out and no slot
\* stays taken without a node.
THEOREM Exclusive == Spec => []SlotsExclusive
  BY ExclusiveFromInv, DiskInductive, PTL

\* Open intervals are as many as the nodes that hold them.
LEMMA HeldBounded ==
  ASSUME DiskInv, phase = "saved", NEW b \in Blocks,
         NEW N \in SUBSET Nodes, \A n \in N : Held(n, b)
  PROVE  /\ IsFiniteSet(N) /\ Cardinality(N) \in Nat
         /\ Cardinality(N) <= maxNum
  <1> DEFINE f == [n \in N |-> CHOOSE v \in BatchPlan(b) : v.node = n]
  <1>1. \A n \in N : f[n] \in BatchPlan(b) /\ f[n].node = n
    <2> TAKE n \in N
    <2>1. \E v \in BatchPlan(b) : v.node = n
      BY DEF Held, BatchPlan
    <2> QED
      BY <2>1
  <1>2. f \in Injection(N, BatchPlan(b))
    <2>1. f \in [N -> BatchPlan(b)]
      BY <1>1
    <2>2. \A m, n \in N : f[m] = f[n] => m = n
      BY <1>1
    <2> HIDE DEF f
    <2> QED
      BY <2>1, <2>2 DEF Injection, IsInjective
  <1>3. /\ IsFiniteSet(BatchPlan(b)) /\ Cardinality(BatchPlan(b)) \in Nat
        /\ Cardinality(BatchPlan(b)) <= maxNum
    BY BatchPlanSize, PlanAssumption DEF DiskInv, PlanInv, Measured, Frozen, Blocks
  <1>4. maxNum \in Nat
    BY DEF DiskInv, PlanInv, PlanTypeOK
  <1> HIDE DEF f
  <1>5. IsFiniteSet(N) /\ Cardinality(N) <= Cardinality(BatchPlan(b))
    BY <1>2, <1>3, FS_Injection
  <1> QED
    BY <1>3, <1>4, <1>5, FS_CardinalityType

\* The nodes that keep their slot and those that get one hold open intervals.
LEMMA SufficeFromInv ==
  DiskInv => SlotsSuffice
  <1> SUFFICES ASSUME DiskInv, cacheKind = "simple", loaded, block + 1 < NBlocks, block > 0
               PROVE  Cardinality(Starts(block - 1))
                        <= Cardinality(FreeAfter(block - 1) \cap Rows)
    BY DEF SlotsSuffice
  <1> DEFINE b == block - 1
             begin == Starts(b)
             keep == { n \in Nodes : slot[n] # 0 /\ n \notin Ends(b) }
             kept == { slot[n] : n \in keep }
             free == FreeAfter(b) \cap Rows
  <1>1. /\ b \in Blocks /\ begin \subseteq Nodes /\ begin \cap keep = {}
        /\ \A n \in begin \cup keep : Held(n, b)
    BY Replay
  <1>2. phase = "saved" /\ maxNum \in Nat /\ Rows = 0 .. maxNum /\ Rows \subseteq Slots
    BY LastSlotNat DEF DiskInv, Idle, PlanInv, PlanTypeOK, Rows, LastSlot
  <1>3. \A n \in Nodes : slot[n] \in Rows
    BY DEF DiskInv, MemTypeOK
  <1>4. free = (Rows \ {0}) \ kept
    BY <1>2, Free
  <1> HIDE DEF b, begin, keep, free
  <1>5. /\ IsFiniteSet(begin) /\ IsFiniteSet(keep)
        /\ Cardinality(begin) \in Nat /\ Cardinality(keep) \in Nat
        /\ Cardinality(begin \cup keep) <= maxNum
    <2>1. begin \in SUBSET Nodes /\ keep \in SUBSET Nodes /\ begin \cup keep \in SUBSET Nodes
      BY <1>1 DEF keep
    <2> QED
      BY <1>1, <1>2, <2>1, HeldBounded
  <1>6. Cardinality(begin) + Cardinality(keep) <= maxNum
    <2>1. Cardinality(begin \cap keep) = 0
      BY <1>1, FS_EmptySet
    <2>2. Cardinality(begin \cup keep) = Cardinality(begin) + Cardinality(keep) - 0
      BY <1>5, <2>1, FS_Union
    <2> QED
      BY <1>5, <2>2
  <1>7. IsFiniteSet(kept) /\ Cardinality(kept) \in Nat /\ Cardinality(kept) <= Cardinality(keep)
    <2> DEFINE g == [n \in keep |-> slot[n]]
    <2>1. g \in Surjection(keep, kept)
      BY DEF Surjection
    <2> HIDE DEF g, kept
    <2> QED
      BY <1>5, <2>1, FS_Surjection, FS_CardinalityType
  <1>8. kept \subseteq Rows \ {0}
    BY <1>3 DEF keep
  <1> HIDE DEF kept
  <1>9. IsFiniteSet(Rows \ {0}) /\ Cardinality(Rows \ {0}) = maxNum
    <2>1. IsFiniteSet(Rows) /\ Cardinality(Rows) = maxNum + 1 /\ 0 \in Rows
      BY <1>2, FS_Interval
    <2>2. IsFiniteSet(Rows \ {0}) /\ Cardinality(Rows \ {0}) = Cardinality(Rows) - 1
      BY <2>1, FS_RemoveElement
    <2> QED
      BY <1>2, <2>1, <2>2
  <1>10. Cardinality(free) = maxNum - Cardinality(kept)
    <2>1. (Rows \ {0}) \cap kept = kept
      BY <1>8
    <2> QED
      BY <1>4, <1>9, <2>1, FS_Difference
  <1> QED
    BY <1>2, <1>5, <1>6, <1>7, <1>10 DEF b, begin, free

\* mem_update: simple_max_num slots are enough for every block, so the entry of
\* node_cache_used that cache_memory does not have is never taken.
THEOREM Sufficient == Spec => []SlotsSuffice
  BY SufficeFromInv, DiskInductive, PTL

\* As many of the lowest free slots as there are nodes, given out in order; when enough of
\* the free slots are below M, so are those given out.
LEMMA LowestExist ==
  ASSUME NEW S \in SUBSET Nat, IsFiniteSet(S), NEW free \in SUBSET Nat, IsFiniteSet(free),
         NEW M \in Nat, Cardinality(S) <= Cardinality({ s \in free : s <= M })
  PROVE  \E f \in LowestSlots(S, free) : \A n \in S : f[n] <= M
  <1> DEFINE low == { s \in free : s <= M }
             f == [n \in S |-> CHOOSE s \in free : Rank(free, s) = Rank(S, n)]
  <1>1. PICK k \in Nat, l \in Nat, m \in Nat :
          k = Cardinality(S) /\ l = Cardinality(low) /\ m = Cardinality(free) /\ k <= l /\ l <= m
    <2>1. IsFiniteSet(low) /\ Cardinality(low) <= Cardinality(free)
      BY FS_Subset
    <2> QED
      BY <2>1, FS_CardinalityType
  <1>2. /\ \A e \in S : Rank(S, e) \in Nat /\ Rank(S, e) < k
        /\ \A e, g \in S : e < g => Rank(S, e) < Rank(S, g)
    BY <1>1, RankOrder
  <1>3. /\ \A e \in free : Rank(free, e) \in Nat /\ Rank(free, e) < m
        /\ \A e, g \in free : e < g => Rank(free, e) < Rank(free, g)
    BY <1>1, RankOrder
  <1>4. /\ \A i \in 0 .. k - 1 : \E e \in S : Rank(S, e) = i
        /\ \A i \in 0 .. m - 1 : \E e \in free : Rank(free, e) = i
        /\ \A e, g \in free : Rank(free, e) = Rank(free, g) => e = g
    BY <1>1, RankFacts
  <1>5. ASSUME NEW n \in S PROVE f[n] \in free /\ Rank(free, f[n]) = Rank(S, n)
    <2>1. PICK r \in Nat : r = Rank(S, n) /\ r \in 0 .. m - 1
      <3>1. PICK r \in Nat : r = Rank(S, n) /\ r < k
        BY <1>2
      <3> QED
        BY <1>1, <3>1
    <2>2. \E s \in free : Rank(free, s) = Rank(S, n)
      BY <1>4, <2>1
    <2> QED
      BY <2>2
  <1>6. f \in [S -> free]
    BY <1>5
  <1> HIDE DEF f
  <1>7. ASSUME NEW e \in free, NEW g \in free, Rank(free, e) < Rank(free, g) PROVE e < g
    <2>1. PICK a \in Nat, b \in Nat : a = e /\ b = g
      OBVIOUS
    <2>2. PICK p \in Nat, q \in Nat : p = Rank(free, e) /\ q = Rank(free, g) /\ p < q
      BY <1>3, <1>7
    <2>3. ASSUME b < a PROVE FALSE
      <3>1. q < p
        BY <1>3, <2>1, <2>2, <2>3
      <3> QED
        BY <2>2, <3>1
    <2>4. a # b
      BY <2>1, <2>2
    <2> QED
      BY <2>1, <2>3, <2>4
  <1>8. ASSUME NEW x \in S, NEW y \in S, x < y PROVE f[x] < f[y]
    BY <1>2, <1>5, <1>7, <1>8
  <1>9. ASSUME NEW s \in free, NEW n \in S, s < f[n] PROVE \E x \in S : f[x] = s
    <2>1. PICK p \in Nat, r \in Nat : p = Rank(free, s) /\ r = Rank(S, n) /\ p < r /\ r < k
      BY <1>2, <1>3, <1>5, <1>9
    <2>2. p \in 0 .. k - 1
      BY <2>1
    <2>3. PICK x \in S : Rank(S, x) = p
      BY <1>4, <2>2
    <2>4. f[x] \in free /\ Rank(free, f[x]) = Rank(free, s)
      BY <1>5, <2>1, <2>3
    <2>5. f[x] = s
      BY <1>4, <2>4
    <2> QED
      BY <2>5
  <1>10. f \in LowestSlots(S, free)
    BY <1>6, <1>8, <1>9 DEF LowestSlots
  <1>11. ASSUME NEW n \in S PROVE f[n] <= M
    <2>1. PICK a \in Nat : a = f[n] /\ a \in free
      BY <1>5
    <2> SUFFICES ASSUME a > M PROVE FALSE
      BY <2>1
    <2>2. PICK r \in Nat : r = Rank(free, a) /\ r < k
      BY <1>2, <1>5, <2>1
    <2>3. low \subseteq { s \in free : s < a }
      <3> SUFFICES ASSUME NEW s \in low PROVE s \in free /\ s < a
        OBVIOUS
      <3>1. PICK b \in Nat : b = s /\ b <= M /\ s \in free
        OBVIOUS
      <3> QED
        BY <3>1
    <2>4. PICK B : B = { s \in free : s < a }
      OBVIOUS
    <2>5. B \subseteq free /\ IsFiniteSet(B) /\ low \subseteq B
      BY <2>3, <2>4, FS_Subset
    <2>6. Cardinality(low) <= Cardinality(B)
      BY <2>5, FS_Subset
    <2>7. Cardinality(B) = r
      BY <2>2, <2>4 DEF Rank
    <2> HIDE DEF low
    <2> QED
      BY <1>1, <2>2, <2>6, <2>7
  <1> QED
    BY <1>10, <1>11

\* A request that brings nodes finds a slot of cache_memory for each that is to have one.
SlotsForAll ==
  cacheKind = "simple" /\ loaded /\ epoch > 0 /\ block + 1 < NBlocks /\ Brought(block + 1) # {} =>
    \E f \in LowestSlots(Brought(block + 1) \cap Starts(block - 1), FreeAfter(block - 1)) :
      \A n \in DOMAIN f : f[n] \in Rows

\* There are enough free slots in cache_memory (SlotsSuffice), so the lowest of them do.
LEMMA GivenFromInv == DiskInv => SlotsForAll
  <1> SUFFICES ASSUME DiskInv, cacheKind = "simple", loaded, epoch > 0, block + 1 < NBlocks,
                      Brought(block + 1) # {}
               PROVE  SlotsForAll
    BY DEF SlotsForAll
  <1>1. PICK b \in Nat : b = block /\ b > 0
    <2>1. block \in Nat
      BY PlanAssumption DEF DiskInv, MemTypeOK, Blocks
    <2> QED
      BY <2>1 DEF Brought
  <1>2. PICK M \in Nat : M = LastSlot /\ Rows = 0 .. M /\ Slots = 0 .. M + 1
    BY LastSlotNat DEF DiskInv, Rows, Slots
  <1>3. PICK new, free : /\ new = Brought(block + 1) \cap Starts(block - 1)
                         /\ free = FreeAfter(block - 1)
    OBVIOUS
  <1>4. Cardinality(Starts(block - 1)) <= Cardinality(free \cap Rows)
    BY <1>1, <1>3, SufficeFromInv DEF SlotsSuffice
  <1>5. /\ Starts(block - 1) \in SUBSET Nodes /\ IsFiniteSet(Starts(block - 1))
        /\ new \in SUBSET Nat /\ IsFiniteSet(new)
        /\ Cardinality(new) <= Cardinality(Starts(block - 1))
    <2>1. Starts(block - 1) \in SUBSET Nodes
      BY DEF Starts
    <2>2. IsFiniteSet(Starts(block - 1))
      BY <2>1, PlanAssumption, FS_Subset
    <2>3. new \subseteq Starts(block - 1)
      BY <1>3
    <2>4. new \in SUBSET Nat
      BY <2>1, <2>3, PlanAssumption
    <2> QED
      BY <2>1, <2>2, <2>3, <2>4, FS_Subset
  <1>6. free \in SUBSET Nat /\ IsFiniteSet(free)
    <2>1. free \subseteq 0 .. M + 1
      BY <1>1, <1>2, <1>3, Free
    <2>2. IsFiniteSet(0 .. M + 1)
      BY FS_Interval
    <2>3. IsFiniteSet(free)
      BY <2>1, <2>2, FS_Subset
    <2>4. \A s \in free : s \in Nat
      BY <2>1
    <2> QED
      BY <2>3, <2>4
  <1>7. free \cap Rows = { s \in free : s <= M }
    <2>1. ASSUME NEW s \in free PROVE s \in Rows <=> s <= M
      <3>1. s \in Nat
        BY <1>6
      <3> QED
        BY <1>2, <3>1
    <2> QED
      BY <2>1
  <1>8. Cardinality(new) <= Cardinality({ s \in free : s <= M })
    <2>1. PICK x \in Nat, y \in Nat : x = Cardinality(new) /\ y = Cardinality(Starts(block - 1))
      BY <1>5, FS_CardinalityType
    <2>2. IsFiniteSet(free \cap Rows)
      BY <1>6, FS_Subset
    <2>3. PICK z \in Nat : z = Cardinality(free \cap Rows)
      BY <2>2, FS_CardinalityType
    <2>4. x <= y /\ y <= z
      BY <1>4, <1>5, <2>1, <2>3
    <2>5. Cardinality({ s \in free : s <= M }) = z
      BY <1>7, <2>3
    <2>6. x <= z
      BY <2>4
    <2> QED
      BY <2>1, <2>5, <2>6
  <1>9. PICK f \in LowestSlots(new, free) : \A n \in new : f[n] <= M
    BY <1>5, <1>6, <1>8, LowestExist
  <1>10. f \in [new -> free]
    BY <1>9 DEF LowestSlots
  <1>11. \A n \in DOMAIN f : f[n] \in Rows
    <2> SUFFICES ASSUME NEW n \in new PROVE f[n] \in Rows
      BY <1>10
    <2>1. f[n] \in free /\ f[n] <= M
      BY <1>9, <1>10
    <2>2. f[n] \in Nat
      BY <1>6, <2>1
    <2> QED
      BY <1>2, <2>1, <2>2
  <1> QED
    BY <1>3, <1>9, <1>11 DEF SlotsForAll

\* mem_update with the plan: the replay never comes to a request it cannot serve, whose nodes
\* find no free slot or only the one that cache_memory does not have.
THEOREM ReplayGoesOn == Spec => []SlotsForAll
  BY GivenFromInv, DiskInductive, PTL

\* The slot of a node changes only where its intervals begin and end, and there it leaves.
LEMMA SlotStep ==
  ASSUME DiskInv, Next, NEW n \in Nodes, slot[n] # 0, slot'[n] # slot[n]
  PROVE  epoch' # epoch \/ n \in Brought(block')
  <1>1. CASE Preprocess
    BY <1>1 DEF Preprocess, memVars
  <1>2. CASE Load
    BY <1>2 DEF Load, DiskInv, Idle, Fixed
  <1>3. CASE Reset
    BY <1>3, DiskAssumption DEF Reset, DiskInv, MemTypeOK
  <1>4. CASE RequestNothing
    BY <1>4 DEF RequestNothing
  <1>5. CASE UpdateStatic
    BY <1>5 DEF UpdateStatic
  <1>6. CASE UpdateSimple
    <2>1. Bring /\ cacheKind = "simple"
      BY <1>6 DEF UpdateSimple
    <2>2. loaded /\ block > 0 /\ block + 1 < NBlocks /\ block' = block + 1
      BY <2>1, BringFacts
    <2>3. PICK f \in LowestSlots(Brought(block + 1) \cap Starts(block - 1), FreeAfter(block - 1)) :
            slot' = Moved(f, block - 1)
      BY <1>6 DEF UpdateSimple
    <2>4. DOMAIN f = Brought(block + 1) \cap Starts(block - 1)
      BY <2>3 DEF LowestSlots
    <2>5. n \in Brought(block + 1)
      BY <2>1, <2>2, <2>3, <2>4, Replay DEF Moved
    <2> QED
      BY <2>2, <2>5, Zenon DEF Brought, Leaves
  <1>7. CASE Terminated
    BY <1>7 DEF Terminated, vars, memVars
  <1> QED
    BY <1>1, <1>2, <1>3, <1>4, <1>5, <1>6, <1>7 DEF Next

\* mem_update: a slot is given back only when a newer value of its node arrives,
\* or at the start of an epoch.
THEOREM SlotKept == Spec => SlotKeptUntilRewritten
  <1> DEFINE Kept == \A n \in Nodes :
               slot[n] # 0 /\ slot'[n] # slot[n] => epoch' # epoch \/ n \in Brought(block')
  <1>1. ASSUME DiskInv, [Next]_vars
        PROVE  [Kept]_vars
    BY <1>1, SlotStep
  <1> HIDE DEF Kept
  <1>2. Spec => [][Kept]_vars
    BY <1>1, DiskInductive, PTL DEF Spec
  <1> QED
    BY <1>2 DEF SlotKeptUntilRewritten, Kept

----------------------------------------------------------------------------
(* The disk memory implements the store *)

\* The value of a node after what was brought has been stored.
LEMMA StaticLookup ==
  ASSUME DiskInv, UpdateStatic, NEW n \in Nodes
  PROVE  Lookup(n)' = IF n \in Brought(block + 1) THEN Stamp(epoch, block + 1) ELSE Lookup(n)
  <1> DEFINE S == Brought(block + 1)
             cached == { m \in S : slot[m] # 0 }
             v == Stamp(epoch, block + 1)
  <1>1. /\ Bring /\ slot' = slot
        /\ cache' = [s \in Rows |-> IF \E m \in cached : slot[m] = s THEN v ELSE cache[s]]
        /\ disk' = Written(S \ cached, v)
    BY DEF UpdateStatic
  <1>2. /\ S \subseteq Nodes /\ row' = row
        /\ memFlag' = [m \in Nodes |-> m \in S \/ memFlag[m]]
    BY <1>1, BringFacts DEF settings
  <1>3. /\ slot[n] \in Rows /\ row[n] \in Nodes /\ memFlag \in [Nodes -> BOOLEAN]
        /\ \A m \in Nodes : row[m] = row[n] => m = n
        /\ \A m \in Nodes : slot[m] = slot[n] /\ slot[m] # 0 => m = n
    BY DEF DiskInv, MemTypeOK, RowsDiffer, SlotsDiffer
  <1> HIDE DEF S, v
  <1>4. memFlag'[n] <=> n \in S \/ memFlag[n]
    BY <1>2, Zenon
  <1>5. slot[n] # 0 => cache'[slot[n]] = IF n \in S THEN v ELSE cache[slot[n]]
    BY <1>1, <1>2, <1>3
  <1>6. slot[n] = 0 => disk'[row[n]] = IF n \in S THEN v ELSE disk[row[n]]
    BY <1>1, <1>2, <1>3 DEF Written
  <1>7. Lookup(n)' = IF ~memFlag'[n] THEN 0
                     ELSE IF slot[n] # 0 THEN cache'[slot[n]] ELSE disk'[row[n]]
    BY <1>1, <1>2 DEF Lookup
  <1>8. Lookup(n)' = IF n \in S THEN v ELSE Lookup(n)
    BY <1>4, <1>5, <1>6, <1>7 DEF Lookup
  <1> QED
    BY <1>8 DEF S, v

\* With the plan: in the new slot, in the file once the slot is given back, or untouched.
LEMMA SimpleLookup ==
  ASSUME DiskInv, UpdateSimple, NEW n \in Nodes
  PROVE  Lookup(n)' = IF n \in Brought(block + 1) THEN Stamp(epoch, block + 1) ELSE Lookup(n)
  <1> DEFINE b == block - 1
             S == Brought(block + 1)
             new == S \cap Starts(b)
             free == FreeAfter(b)
             v == Stamp(epoch, block + 1)
  <1>1. cacheKind = "simple" /\ Bring
    BY DEF UpdateSimple
  <1>2. loaded /\ block > 0 /\ block + 1 < NBlocks
    BY <1>1, BringFacts
  <1>3. PICK f \in LowestSlots(new, free) :
          /\ \A m \in new : f[m] \in Rows
          /\ slot' = Moved(f, b)
          /\ cache' = [s \in Rows |-> IF \E m \in new : f[m] = s THEN v ELSE cache[s]]
    BY DEF UpdateSimple
  <1>4. disk' = Written(S \ new, v)
    BY DEF UpdateSimple
  <1>5. /\ S \subseteq Nodes /\ row' = row
        /\ memFlag' = [m \in Nodes |-> m \in S \/ memFlag[m]]
    BY <1>1, BringFacts DEF settings
  <1>6. /\ slot[n] \in Rows /\ row[n] \in Nodes /\ memFlag \in [Nodes -> BOOLEAN]
        /\ \A m \in Nodes : row[m] = row[n] => m = n
        /\ Rows \subseteq Slots
    BY LastSlotNat DEF DiskInv, MemTypeOK, RowsDiffer
  <1>7. /\ Ends(b) \subseteq S
        /\ n \in S /\ slot[n] # 0 => n \in Ends(b)
    BY <1>1, <1>2, Replay
  <1>8. 0 \notin free /\ (n \notin Ends(b) /\ slot[n] # 0 => slot[n] \notin free)
    BY <1>1, <1>2, <1>6, Free
  <1> HIDE DEF free, v, S, b
  <1>9. DOMAIN f = new /\ \A m \in new : f[m] \in free
    BY <1>3 DEF LowestSlots
  <1>10. memFlag'[n] <=> n \in S \/ memFlag[n]
    BY <1>5, Zenon
  <1>11. Lookup(n)' = IF ~memFlag'[n] THEN 0
                      ELSE IF slot'[n] # 0 THEN cache'[slot'[n]] ELSE disk'[row[n]]
    BY <1>5 DEF Lookup
  <1>12. slot'[n] = IF n \in new THEN f[n] ELSE IF n \in Ends(b) THEN 0 ELSE slot[n]
    BY <1>3, <1>9 DEF Moved
  <1>13. CASE n \in new
    <2>1. slot'[n] = f[n] /\ f[n] # 0 /\ f[n] \in Rows
      BY <1>3, <1>8, <1>9, <1>12, <1>13
    <2>2. cache'[slot'[n]] = v
      BY <1>3, <1>13, <2>1
    <2> QED
      BY <1>10, <1>11, <1>13, <2>1, <2>2 DEF S, v
  <1>14. CASE n \in S \ new
    <2>1. slot'[n] = 0
      BY <1>7, <1>12, <1>14
    <2>2. disk'[row[n]] = v
      BY <1>4, <1>6, <1>14 DEF Written
    <2> QED
      BY <1>10, <1>11, <1>14, <2>1, <2>2 DEF S, v
  <1>15. CASE n \notin S
    <2>1. slot'[n] = slot[n] /\ n \notin Ends(b)
      BY <1>7, <1>12, <1>15
    <2>2. disk'[row[n]] = disk[row[n]]
      BY <1>4, <1>5, <1>6, <1>15 DEF Written
    <2>3. slot[n] # 0 => cache'[slot[n]] = cache[slot[n]]
      BY <1>3, <1>6, <1>8, <1>9, <2>1
    <2>4. Lookup(n)' = Lookup(n)
      BY <1>10, <1>11, <1>15, <2>1, <2>2, <2>3 DEF Lookup
    <2> QED
      BY <1>15, <2>4 DEF S
  <1> QED
    BY <1>13, <1>14, <1>15

\* Nothing is stored at first.
LEMMA StoreInitial ==
  Init => Store!StoreInit
  BY DEF Init, Store!StoreInit, Lookup

\* A request that brings what left two blocks before is a request of the store.
LEMMA StoreRequested ==
  ASSUME DiskInv, DiskInv', UNCHANGED <<planVars, settings, epoch>>,
         loaded, block + 1 < NBlocks, block' = block + 1,
         \A n \in Nodes : Lookup(n)' = IF n \in Brought(block + 1)
                                       THEN Stamp(epoch, block + 1) ELSE Lookup(n)
  PROVE  Store!StoreRequest
  <1>1. /\ roots' = roots /\ loaded' = loaded /\ epoch' = epoch /\ block \in Nat
    BY PlanAssumption DEF planVars, settings, DiskInv, MemTypeOK, Blocks
  <1>2. [b \in Blocks |-> Leaves(b)]' = [b \in Blocks |-> Leaves(b)]
    BY <1>1 DEF Leaves
  <1>3. \A n : n \in Brought(block + 1)
                 <=> block' > 1 /\ n \in [b \in Blocks |-> Leaves(b)][block' - 2]
    <2>1. block' > 1 => block' - 2 \in Blocks
      BY <1>1, PlanAssumption DEF Blocks
    <2> QED
      BY <2>1 DEF Brought
  <1>4. \A n \in Nodes :
          Lookup(n)' = IF block' > 1 /\ n \in [b \in Blocks |-> Leaves(b)][block' - 2]
                       THEN Store!Stamp(epoch, block') ELSE Lookup(n)
    BY <1>3 DEF Stamp, Store!Stamp
  <1>5. [n \in Nodes |-> Lookup(n)]' =
          [n \in Nodes |-> IF block' > 1 /\ n \in [b \in Blocks |-> Leaves(b)][block' - 2]
                           THEN Store!Stamp(epoch, block') ELSE [m \in Nodes |-> Lookup(m)][n]]
    BY <1>4
  <1> QED
    BY <1>1, <1>2, <1>5 DEF Store!StoreRequest

\* Every step is one of the store, or none.
LEMMA StoreStep ==
  ASSUME DiskInv, DiskInv', Next
  PROVE  \/ Store!StoreStart \/ Store!StoreReset \/ Store!StoreRequest
         \/ UNCHANGED Store!storeVars
  <1>1. CASE Preprocess
    <2>1. ~PlanNext \/ roots' = roots
      BY DEF PlanNext, Select, Skip, Save, Size
    <2>2. roots' = roots /\ UNCHANGED <<settings, memVars>>
      BY <1>1, <2>1 DEF Preprocess
    <2> QED
      BY <2>2 DEF Store!storeVars, Leaves, Lookup, settings, memVars
  <1>2. CASE Load
    <2>1. \A n \in Nodes : Lookup(n) = 0 /\ Lookup(n)' = 0
      BY <1>2 DEF Load, DiskInv, Idle, Lookup
    <2>2. UNCHANGED <<roots, block, epoch>> /\ loaded' = TRUE
      BY <1>2 DEF Load, planVars
    <2> QED
      BY <2>1, <2>2 DEF Store!StoreStart, Leaves
  <1>3. CASE Reset
    <2>1. \A n \in Nodes : Lookup(n)' = 0
      BY <1>3 DEF Reset, Lookup
    <2>2. /\ UNCHANGED <<roots, loaded>> /\ loaded
          /\ epoch < Epochs /\ epoch' = epoch + 1 /\ block' = 0
      BY <1>3 DEF Reset, planVars, settings
    <2> QED
      BY <2>1, <2>2 DEF Store!StoreReset, Leaves
  <1>4. CASE RequestNothing
    <2>1. /\ UNCHANGED <<planVars, settings, epoch>> /\ loaded
          /\ block + 1 < NBlocks /\ block' = block + 1 /\ Brought(block + 1) = {}
      BY <1>4 DEF RequestNothing
    <2>2. \A n \in Nodes : Lookup(n)' = Lookup(n)
      BY <1>4 DEF RequestNothing, Lookup, settings
    <2> QED
      BY <2>1, <2>2, StoreRequested
  <1>5. CASE UpdateStatic
    <2>1. Bring
      BY <1>5 DEF UpdateStatic
    <2> QED
      BY <1>5, <2>1, BringFacts, StaticLookup, StoreRequested
  <1>6. CASE UpdateSimple
    <2>1. Bring
      BY <1>6 DEF UpdateSimple
    <2> QED
      BY <1>6, <2>1, BringFacts, SimpleLookup, StoreRequested
  <1>7. CASE Terminated
    BY <1>7 DEF Terminated, vars, planVars, settings, memVars, Store!storeVars, Leaves, Lookup
  <1> QED
    BY <1>1, <1>2, <1>3, <1>4, <1>5, <1>6, <1>7 DEF Next

\* mem_select and mem_update: wherever the memory of a node is kept, what is read
\* is what was last written, zero after reset_memory.
THEOREM Stores == Spec => ImplementsNodeStore
  <1>1. ASSUME DiskInv, DiskInv', [Next]_vars
        PROVE  [Store!StoreStart \/ Store!StoreReset \/ Store!StoreRequest]_(Store!storeVars)
    <2>1. CASE UNCHANGED vars
      BY <2>1 DEF vars, planVars, settings, memVars, Store!storeVars, Leaves, Lookup
    <2> QED
      BY <1>1, <2>1, StoreStep
  <1>2. Spec => Store!StoreSpec
    BY <1>1, StoreInitial, DiskInductive, PTL DEF Spec, Store!StoreSpec
  <1> QED
    BY <1>2 DEF ImplementsNodeStore
=============================================================================
