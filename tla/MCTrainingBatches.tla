------------------------- MODULE MCTrainingBatches -------------------------
(***************************************************************************)
(* TrainingBatches on small streams over four nodes.  The edges of the     *)
(* first large batch are any of Pairs, one of them from a node to itself;  *)
(* the second large batch is shorter and nearly fixed.                     *)
(***************************************************************************)
EXTENDS TrainingBatches

Pairs == { <<1, 2>>, <<3, 2>>, <<3, 3>>, <<1, 4>>, <<4, 2>> }

MCStreams ==
  { [e \in Edges |-> IF e < 6 THEN f[e] ELSE IF e % 2 = 0 THEN <<3, 1>> ELSE g] :
      f \in [0 .. 5 -> Pairs], g \in { <<3, 1>>, <<2, 1>> } }
=============================================================================
