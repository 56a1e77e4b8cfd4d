----------------------------- MODULE NodeStore -----------------------------
(***************************************************************************)
(* What the worker's memory promises, wherever it is kept: one value for   *)
(* each node, zero after reset_memory, and after that the value the last   *)
(* mem_update gave it.  A request for block b brings the memory of the     *)
(* nodes that left the GPU two blocks before (block_info).                 *)
(***************************************************************************)
EXTENDS Naturals

CONSTANTS Nodes, NBlocks, Epochs

VARIABLES
  leaves,  \* nodes that leave after each block: constant
  ready,   \* training has started
  store,   \* value of each node
  block,   \* the block of the last request
  epoch    \* epochs started

storeVars == <<leaves, ready, store, block, epoch>>

\* Values are named by the request that brings them; 0 is the initial memory.
Stamp(e, b) == e * NBlocks + b

StoreInit ==
  /\ ready = FALSE
  /\ store = [n \in Nodes |-> 0] /\ block = 0 /\ epoch = 0

\* Preprocessing ends.
StoreStart == ready' = TRUE /\ UNCHANGED <<leaves, store, block, epoch>>

StoreReset ==
  /\ ready /\ epoch < Epochs
  /\ epoch' = epoch + 1
  /\ block' = 0
  /\ store' = [n \in Nodes |-> 0]
  /\ UNCHANGED <<leaves, ready>>

StoreRequest ==
  /\ ready /\ block + 1 < NBlocks
  /\ block' = block + 1
  /\ store' = [n \in Nodes |-> IF block' > 1 /\ n \in leaves[block' - 2]
                               THEN Stamp(epoch, block') ELSE store[n]]
  /\ UNCHANGED <<leaves, ready, epoch>>

StoreSpec == StoreInit /\ [][StoreStart \/ StoreReset \/ StoreRequest]_storeVars
=============================================================================
