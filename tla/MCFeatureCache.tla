--------------------------- MODULE MCFeatureCache ---------------------------
(***************************************************************************)
(* FeatureCache on small streams.                                          *)
(***************************************************************************)
EXTENDS FeatureCache

\* Blocks of one or two items: each item comes, stays, leaves and comes back.
MCContents == [Blocks -> { {0}, {0, 2}, {1, 2} }]

\* No negative sample, one, or two.
MCNegatives == { {}, {1}, {0, 2} }
=============================================================================
