-------------------------- MODULE MCBlockPipeline --------------------------
(***************************************************************************)
(* BlockPipeline on small edge streams.  Every sequence of non-empty root  *)
(* sets over Nodes is a stream.  The precomputed node map of a block is    *)
(* its roots: the negative nodes, chosen freely, add any other node.       *)
(***************************************************************************)
EXTENDS BlockPipelineInv

MCStreams ==
  { [roots |-> r, pos |-> r] : r \in [0 .. NBlocks - 1 -> (SUBSET Nodes) \ {{}}] }

AllConfigs == [async : BOOLEAN, incre : BOOLEAN, eval : BOOLEAN]

\* mem_w_valid.json: asynchronous, incremental, no evaluation
TrainConfig == { [async |-> TRUE, incre |-> TRUE, eval |-> FALSE] }

\* The settings that change the order of messages.
OrderConfigs == [async : BOOLEAN, incre : {TRUE}, eval : {FALSE}]
=============================================================================
