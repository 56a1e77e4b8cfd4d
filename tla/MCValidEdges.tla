---------------------------- MODULE MCValidEdges ----------------------------
(***************************************************************************)
(* ValidEdges on small bipartite streams: users 1 and 2, items 3 and 4.    *)
(***************************************************************************)
EXTENDS ValidEdges

\* Times that rise by one after each edge of a set U.
Rising(U) == [e \in Edges |-> Cardinality({ u \in U : u < e })]
Rises == { U \in SUBSET Edges : NEdges - 1 \notin U }

\* Functions over the edges that are free on the first k and constant after them.
FreeUpTo(k, S) == { [e \in Edges |-> IF e < k THEN f[e] ELSE f[k - 1]] : f \in [0 .. k - 1 -> S] }

\* Both items, free on the first five edges, which begin between 1 and 3.
ShortStreams ==
  { [src |-> s, dst |-> d, time |-> Rising(U), reverse |-> r] :
      s \in { f \in FreeUpTo(5, {1, 2}) : f[0] = 1 }, d \in { f \in FreeUpTo(5, {3, 4}) : f[0] = 3 },
      U \in { V \in Rises : V \subseteq 0 .. 3 }, r \in BOOLEAN }

\* One item, users free on the first eight edges, times that rise once or twice.
LongStreams ==
  { [src |-> s, dst |-> [e \in Edges |-> 3], time |-> Rising(U), reverse |-> r] :
      s \in { f \in FreeUpTo(8, {1, 2}) : f[0] = 1 },
      U \in { V \in Rises : Cardinality(V) \in 1 .. 2 }, r \in BOOLEAN }

MCStreams == ShortStreams \cup LongStreams
=============================================================================
