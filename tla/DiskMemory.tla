----------------------------- MODULE DiskMemory -----------------------------
(***************************************************************************)
(* The memory of every node, kept by the prefetch process in a file        *)
(* (memory_disk) with part of it in RAM: pre_fetch.py, mem_update,         *)
(* mem_select and reset_memory.                                            *)
(*                                                                         *)
(* Three ways of caching: none; static, a fixed set of nodes each with a   *)
(* slot for good (node_cache); simple, where slots are given and taken by  *)
(* replaying the plan of CachePlan (node_simple_cache).  The replay uses   *)
(* the request number alone: the plan and the requests must agree on which *)
(* nodes leave after which block.                                          *)
(***************************************************************************)
EXTENDS CachePlan

CONSTANTS
  Caches,       \* settings: a subset of {"none", "static", "simple"}
  StaticNodes,  \* node_cache_map.bin
  RowMaps,      \* node_simple_reorder_map: permutations of the rows of the file
  Epochs,       \* epochs trained
  Junk          \* what the file holds before it is first written

ASSUME DiskAssumption ==
  /\ Caches \subseteq {"none", "static", "simple"}
  /\ StaticNodes \subseteq Nodes /\ IsFiniteSet(StaticNodes)
  /\ \A f \in RowMaps : f \in [Nodes -> Nodes] /\ \A m, n \in Nodes : f[m] = f[n] => m = n
  /\ Epochs \in Nat
  /\ Junk \notin Nat

VARIABLES
  loaded,    \* the prefetch process has read the plan
  cacheKind, \* node_cache and node_simple_cache: constant
  row,       \* node_reorder_map: constant
  memFlag,   \* mem_flag: nodes written since the last reset
  slot,      \* node_cache_flag: the slot of a node, 0 when it has none
  used,      \* node_cache_used: slots taken; slot 0 always is
  cache,     \* cache_memory
  disk,      \* total_memory.bin
  block,     \* pre_fetch_block
  epoch      \* epochs started

settings == <<loaded, cacheKind, row>>
memVars == <<memFlag, slot, used, cache, disk, block, epoch>>
vars == <<planVars, settings, memVars>>

\* Rows of cache_memory, from 0: the static nodes, or simple_max_num.
LastSlot ==
  IF ~loaded THEN 0
  ELSE CASE cacheKind = "static" -> Cardinality(StaticNodes)
         [] cacheKind = "simple" -> maxNum
         [] cacheKind = "none"   -> 0

\* node_cache_used has one entry more than cache_memory.
Rows  == 0 .. LastSlot
Slots == 0 .. LastSlot + 1

\* The value a request brings, named by the epoch and the request.
Stamp(e, b) == e * NBlocks + b

----------------------------------------------------------------------------
(* The start of training *)

\* A fixed numbering of the static nodes from 1.
StaticSlot(n) == IF n \in StaticNodes
                 THEN Cardinality({ m \in StaticNodes : m <= n }) ELSE 0

Init ==
  /\ PlanInit
  /\ loaded = FALSE /\ cacheKind = "none" /\ row = [n \in Nodes |-> n]
  /\ memFlag = [n \in Nodes |-> FALSE]
  /\ slot = [n \in Nodes |-> 0]
  /\ used = [s \in 0 .. 1 |-> s = 0] /\ cache = [s \in {0} |-> 0]
  /\ disk = [n \in Nodes |-> Junk]
  /\ block = 0 /\ epoch = 0

Preprocess == PlanNext /\ UNCHANGED <<settings, memVars>>

\* Training is started with some settings; init_memory makes the cache.
Load ==
  /\ phase = "saved" /\ ~loaded
  /\ UNCHANGED <<planVars, memFlag, disk, block, epoch>>
  /\ loaded' = TRUE /\ cacheKind' \in Caches /\ row' \in RowMaps
  /\ slot' = [n \in Nodes |-> IF cacheKind' = "static" THEN StaticSlot(n) ELSE 0]
  /\ cache' = [s \in Rows' |-> 0]
  /\ used' = [s \in Slots' |-> s = 0]

----------------------------------------------------------------------------
(* The calls of the trainer *)

\* reset_memory, at the start of an epoch.  The file keeps its contents.
Reset ==
  /\ loaded /\ epoch < Epochs /\ (epoch = 0 \/ block = NBlocks - 1)
  /\ epoch' = epoch + 1 /\ block' = 0
  /\ cache' = [s \in Rows |-> 0]
  /\ IF cacheKind = "simple"
     THEN slot' = [n \in Nodes |-> 0] /\ used' = [s \in Slots |-> s = 0]
     ELSE UNCHANGED <<slot, used>>
  /\ memFlag' = [n \in Nodes |-> FALSE]
  /\ UNCHANGED <<planVars, settings, disk>>

\* pre_fetch calls mem_update only when memory_info has nodes: never for block 1.
Brought(b) == IF b > 1 THEN Leaves(b - 2) ELSE {}

\* A request that brings nothing.
RequestNothing ==
  /\ loaded /\ epoch > 0 /\ block + 1 < NBlocks
  /\ Brought(block + 1) = {}
  /\ block' = block + 1
  /\ UNCHANGED <<planVars, settings, memFlag, slot, used, cache, disk, epoch>>

\* The rows of the file for the nodes of S take the new value.
Written(S, v) ==
  [r \in Nodes |-> IF \E n \in S : row[n] = r THEN v ELSE disk[r]]

\* The part of mem_update all ways of caching share: the nodes brought are flagged.
Bring ==
  /\ loaded /\ epoch > 0 /\ block + 1 < NBlocks
  /\ Brought(block + 1) # {}
  /\ block' = block + 1
  /\ memFlag' = [n \in Nodes |-> n \in Brought(block') \/ memFlag[n]]
  /\ UNCHANGED <<planVars, settings, epoch>>

\* mem_update without a plan: nodes that have a slot go to it, the others to
\* the file.
UpdateStatic ==
  /\ cacheKind # "simple"
  /\ Bring
  /\ LET S == Brought(block + 1)
         cached == { n \in S : slot[n] # 0 }
     IN  /\ cache' = [s \in Rows |-> IF \E n \in cached : slot[n] = s
                                     THEN Stamp(epoch, block + 1) ELSE cache[s]]
         /\ disk' = Written(S \ cached, Stamp(epoch, block + 1))
  /\ UNCHANGED <<slot, used>>

\* Nodes whose interval starts at block b.
Starts(b) == { n \in Nodes : \E v \in plan : v.start = b /\ v.node = n }

\* Mutant of Ends: intervals end one block early.
EndsEarly(b) == { n \in Nodes : \E v \in plan : v.end = b + 1 /\ v.node = n }

\* Nodes whose interval ends at block b.
Ends(b) == { n \in Nodes : \E v \in plan : v.end = b /\ v.node = n }

\* Slots that are free once the intervals that end at b have given theirs back.
FreeAfter(b) == { s \in Slots : ~used[s] \/ \E n \in Ends(b) : slot[n] = s }

\* The nodes of S, in the order of their ids, get the lowest free slots.
LowestSlots(S, free) ==
  { f \in [S -> free] :
      /\ \A m, n \in S : m < n => f[m] < f[n]
      /\ \A s \in free, n \in S : s < f[n] => \E m \in S : f[m] = s }

\* Mutant of Moved: the nodes whose interval ends keep their slot.
MovedKeepFlag(f, b) == [n \in Nodes |-> IF n \in DOMAIN f THEN f[n] ELSE slot[n]]

\* The slots of the nodes after the update for block b, which gives out f.
Moved(f, b) ==
  [n \in Nodes |-> IF n \in DOMAIN f THEN f[n] ELSE IF n \in Ends(b) THEN 0 ELSE slot[n]]

\* mem_update with the plan: cur_block = pre_fetch_block - 2.  Slots are given
\* back, then the nodes whose interval starts take the lowest free ones, and
\* the rest goes to the file.  A slot that cache_memory does not have raises.
UpdateSimple ==
  /\ cacheKind = "simple"
  /\ Bring
  /\ LET b == block - 1
         S == Brought(block + 1)
         new == S \cap Starts(b)
         free == FreeAfter(b)
     IN  /\ \E f \in LowestSlots(new, free) :
              /\ \A n \in new : f[n] \in Rows
              /\ slot' = Moved(f, b)
              /\ used' = [s \in Slots |-> s \notin free \/ \E n \in new : f[n] = s]
              /\ cache' = [s \in Rows |-> IF \E n \in new : f[n] = s
                                          THEN Stamp(epoch, block + 1) ELSE cache[s]]
         /\ disk' = Written(S \ new, Stamp(epoch, block + 1))

Terminated == loaded /\ epoch = Epochs /\ block = NBlocks - 1 /\ UNCHANGED vars

Next ==
  \/ Preprocess \/ Load
  \/ Reset \/ RequestNothing \/ UpdateStatic \/ UpdateSimple
  \/ Terminated

Spec == Init /\ [][Next]_vars

----------------------------------------------------------------------------
(* What must hold *)

\* mem_select of one node.
Lookup(n) ==
  IF ~memFlag[n] THEN 0
  ELSE IF slot[n] # 0 THEN cache[slot[n]]
  ELSE disk[row[n]]

MemTypeOK ==
  /\ PlanTypeOK
  /\ loaded \in BOOLEAN /\ cacheKind \in Caches \cup {"none"}
  /\ row \in [Nodes -> Nodes]
  /\ memFlag \in [Nodes -> BOOLEAN]
  /\ slot \in [Nodes -> Rows] /\ used \in [Slots -> BOOLEAN] /\ cache \in [Rows -> Nat]
  /\ disk \in [Nodes -> Nat \cup {Junk}]
  /\ block \in Blocks /\ epoch \in 0 .. Epochs

\* No two nodes share a slot, and slot 0, which stands for "not cached", is
\* never handed out.
SlotsExclusive ==
  /\ used[0]
  /\ \A m, n \in Nodes : slot[m] = slot[n] /\ slot[m] # 0 => m = n
  /\ cacheKind = "simple" => \A s \in Slots : used[s] => s = 0 \/ \E n \in Nodes : slot[n] = s

\* The cache of simple_max_num slots is large enough for every block: the last
\* entry of node_cache_used, which cache_memory does not have, is never taken.
SlotsSuffice ==
  cacheKind = "simple" /\ loaded /\ epoch > 0 /\ block + 1 < NBlocks /\ block > 0 =>
    Cardinality(Starts(block - 1)) <= Cardinality(FreeAfter(block - 1) \cap Rows)

\* A slot is given back only by the request that brings a newer value of its
\* node, or by the start of an epoch.
SlotKeptUntilRewritten ==
  [][\A n \in Nodes :
       slot[n] # 0 /\ slot'[n] # slot[n] => epoch' # epoch \/ n \in Brought(block')]_vars

\* What mem_select reads is what mem_update last wrote.
Store == INSTANCE NodeStore
           WITH leaves <- [b \in Blocks |-> Leaves(b)], ready <- loaded,
                store <- [n \in Nodes |-> Lookup(n)]

ImplementsNodeStore == Store!StoreSpec
=============================================================================
