-------------------------- MODULE NonCachedMemory --------------------------
(***************************************************************************)
(* What the block pipeline promises.  Training reads and writes the memory *)
(* of the nodes directly, as if no part of it were ever anywhere else: the *)
(* non-cached scenario that Feat_buffer compares itself with (det_memory,  *)
(* feat_buffer.py:97-101 and 366-372).  view is what the batches see; it   *)
(* is always the memory itself, restricted to the nodes of the block.      *)
(***************************************************************************)
EXTENDS Naturals

CONSTANTS Nodes, NBlocks

VARIABLES
  mem,    \* updates each node has received
  block,  \* blocks entered so far
  view    \* memory the current block gives access to; <<>> before the first

absVars == <<mem, block, view>>

Window(S) == [n \in S |-> mem[n]]

AbsInit ==
  /\ mem = [n \in Nodes |-> 0]
  /\ block = 0
  /\ view = [n \in {} |-> 0]

\* The next block gives access to the current memory of its nodes.
AbsAdvance ==
  /\ block < NBlocks
  /\ block' = block + 1
  /\ \E S \in SUBSET Nodes : view' = Window(S)
  /\ mem' = mem

\* A batch updates some nodes it has access to.
AbsBatch ==
  \E S \in SUBSET DOMAIN view :
    /\ mem' = [n \in Nodes |-> IF n \in S THEN mem[n] + 1 ELSE mem[n]]
    /\ view' = [n \in DOMAIN view |-> IF n \in S THEN view[n] + 1 ELSE view[n]]
    /\ block' = block

AbsSpec == AbsInit /\ [][AbsAdvance \/ AbsBatch]_absVars
=============================================================================
