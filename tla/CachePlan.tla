----------------------------- MODULE CachePlan -----------------------------
(***************************************************************************)
(* preprocess/node_memory.py: which node memories the prefetch process     *)
(* keeps in RAM instead of on disk, and when.                              *)
(*                                                                         *)
(* A node's memory leaves the GPU when a block it is an end point of is    *)
(* followed by one it is not (block_info).  Between two such departures    *)
(* its memory may live in a slot of the cache: an interval.  Shorter       *)
(* intervals are preferred, and each step of time has room for Limit.      *)
(***************************************************************************)
EXTENDS Naturals, FiniteSets

CONSTANTS
  Nodes,    \* node ids
  NBlocks,  \* blocks of the training stream
  Streams,  \* end points of the edges of each block: functions on Blocks
  Limit     \* intervals that may overlap (1000000 in the source)

Blocks == 0 .. NBlocks - 1

ASSUME PlanAssumption ==
  /\ Nodes \subseteq Nat /\ IsFiniteSet(Nodes)
  /\ NBlocks \in Nat \ {0}
  /\ Streams \subseteq [Blocks -> SUBSET Nodes]
  /\ Limit \in Nat \ {0}

VARIABLES
  roots,    \* the stream being preprocessed: constant
  pending,  \* intervals select_interval_ID has not come to
  chosen,   \* sel_interval_ID
  budget,   \* budget
  plan,     \* the intervals written to the files start_cache, end_flush, ...
  maxNum,   \* simple_max_num
  sized,    \* blocks max_num has been computed over
  phase     \* "select", "size", then "saved"

planVars == <<roots, pending, chosen, budget, plan, maxNum, sized, phase>>

\* block_info: end points of block b that are not end points of the next.
Leaves(b) == IF b + 1 < NBlocks THEN roots[b] \ roots[b + 1] ELSE roots[b]

Interval == [start : Blocks, end : Blocks, node : Nodes]

\* gen_intervals: two consecutive departures of a node.
Intervals ==
  { v \in Interval :
      /\ v.start < v.end
      /\ v.node \in Leaves(v.start) \cap Leaves(v.end)
      /\ \A b \in Blocks : v.start < b /\ b < v.end => v.node \notin Leaves(b) }

Length(v) == v.end - v.start
Span(v) == v.start .. v.end - 1

PlanInit ==
  /\ roots \in Streams
  /\ pending = Intervals
  /\ chosen = {}
  /\ budget = [b \in 0 .. NBlocks - 2 |-> Limit]
  /\ plan = {} /\ maxNum = 0 /\ sized = 0
  /\ phase = "select"

\* The next interval in the order of transform_intervals: by decreasing weight
\* 1 / length, in no particular order among equals.
NextUp == { v \in pending : \A w \in pending : Length(v) <= Length(w) }

\* Mutants of HasRoom: off by one; the end of the interval forgotten.
HasRoomOneMore(v) == \A b \in Span(v) : budget[b] + 1 > 0
HasRoomOpenEnd(v) == \A b \in DOMAIN budget : b >= v.start => budget[b] > 0
HasRoom(v) == \A b \in Span(v) : budget[b] > 0

Select ==
  \E v \in NextUp :
    /\ HasRoom(v)
    /\ budget' = [b \in DOMAIN budget |-> IF b \in Span(v) THEN budget[b] - 1 ELSE budget[b]]
    /\ chosen' = chosen \cup {v}
    /\ pending' = pending \ {v}
    /\ UNCHANGED <<roots, plan, maxNum, sized, phase>>

Skip ==
  \E v \in NextUp :
    /\ ~HasRoom(v)
    /\ pending' = pending \ {v}
    /\ UNCHANGED <<roots, chosen, budget, plan, maxNum, sized, phase>>

\* The intervals are written to their files.  data_placement_single narrows them
\* down to the selected ones only if there are any.
Save ==
  /\ phase = "select" /\ pending = {}
  /\ plan' = IF chosen # {} THEN chosen ELSE Intervals
  /\ phase' = "size"
  /\ UNCHANGED <<roots, pending, chosen, budget, maxNum, sized>>

\* Mutant of BatchPlan: the first block of an interval is left out.
BatchPlanAfterStart(b) == { v \in plan : v.start < b /\ b < v.end }

\* batch_plan: the intervals that hold a slot after block b.
BatchPlan(b) == { v \in plan : v.start <= b /\ b < v.end }

\* One block of the loop that computes simple_max_num.
Size ==
  /\ phase = "size"
  /\ LET k == Cardinality(BatchPlan(sized)) IN maxNum' = IF k > maxNum THEN k ELSE maxNum
  /\ sized' = sized + 1
  /\ phase' = IF sized' = NBlocks THEN "saved" ELSE "size"
  /\ UNCHANGED <<roots, pending, chosen, budget, plan>>

PlanNext == Select \/ Skip \/ Save \/ Size

----------------------------------------------------------------------------
(* What must hold *)

PlanTypeOK ==
  /\ roots \in Streams
  /\ pending \subseteq Intervals /\ chosen \subseteq Intervals /\ plan \subseteq Intervals
  /\ budget \in [0 .. NBlocks - 2 -> 0 .. Limit]
  /\ maxNum \in Nat /\ sized \in 0 .. NBlocks
  /\ phase \in {"select", "size", "saved"}

\* Intervals of V that hold a slot at time b.
Live(V, b) == { v \in V : b \in Span(v) }

\* The cache the plan asks for is never larger than the limit it was made for.
PlanWithinLimit == phase = "saved" => maxNum <= Limit

\* Nothing is turned away for no reason: an interval that is not in the plan
\* meets a step of time at which the cache is full.
PlanMaximal ==
  phase = "saved" =>
    \A v \in Intervals \ plan : \E b \in Span(v) : Cardinality(Live(plan, b)) = Limit
=============================================================================
