---------------------------- MODULE MCDiskMemory ----------------------------
(***************************************************************************)
(* DiskMemory on small streams of four nodes.  Node 0 is an end point in   *)
(* every block, node 3 in every other one: it leaves after blocks 0, 2 and *)
(* 4.  Nodes 1 and 2 come and go as they like.  At Limit = 2 the intervals *)
(* of three nodes compete for two slots.                                   *)
(***************************************************************************)
EXTENDS DiskMemory

MCStreams ==
  { f \in [Blocks -> { S \in SUBSET Nodes : 0 \in S }] :
      \A b \in Blocks : 3 \in f[b] <=> b % 2 = 0 }

\* The file in the order of the nodes, and in another.
MCRowMaps == { [n \in Nodes |-> n],
               [n \in Nodes |-> IF n = 0 THEN 1 ELSE IF n = 1 THEN 0 ELSE n] }
=============================================================================
