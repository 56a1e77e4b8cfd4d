------------------------- MODULE MCParallelSampler -------------------------
(***************************************************************************)
(* ParallelSampler on the graphs gen_graph.py makes of small edge streams, *)
(* sampled as sampler.py does: batches of the stream in order, every edge  *)
(* asked for its source, its destination and a negative node at its time.  *)
(***************************************************************************)
EXTENDS ParallelSampler, SequencesExt

CONSTANTS NEdges, BatchSize

Edges == 1 .. NEdges

\* Edge streams: node 0 meets 1, then 1 or 2; times rise by 0 or 1; the edges of
\* a batch share their negative node.
MCStreams ==
  [ ends : { f \in [Edges -> { <<0, 1>>, <<0, 2>> }] : f[1] = <<0, 1>> },
    up : { f \in [Edges -> {0, 1}] : f[1] = 0 },
    neg : { f \in [Edges -> {0, 2, 3}] : \A e \in Edges : e % BatchSize = 0 => f[e] = f[e - 1] } ]

TimeOf(s, e) == Cardinality({ d \in 1 .. e : s.up[d] = 1 })

\* The entries of node n are the edges it is an end point of; node 3 has none.
EdgesOf(s, n) == SelectSeq([e \in Edges |-> e], LAMBDA e : n \in {s.ends[e][1], s.ends[e][2]})
EntriesOf(s) ==
  FlattenSeq([m \in 1 .. NumNodes |->
    LET es == EdgesOf(s, m - 1) IN [k \in 1 .. Len(es) |-> <<m - 1, es[k]>>]])
GraphOf(s) ==
  LET en == EntriesOf(s) IN
  [ indptr |-> [n \in 0 .. NumNodes |-> Cardinality({ k \in DOMAIN en : en[k][1] < n })],
    ts |-> [k \in 0 .. Len(en) - 1 |-> TimeOf(s, en[k + 1][2])],
    indices |-> [k \in 0 .. Len(en) - 1 |->
                  LET e == en[k + 1][2] IN
                  IF s.ends[e][1] = en[k + 1][1] THEN s.ends[e][2] ELSE s.ends[e][1]] ]

\* Batch b: the sources, the destinations and the negative nodes of its edges.
BatchOf(s, b) ==
  LET first == (b - 1) * BatchSize
      n == IF first + BatchSize > NEdges THEN NEdges - first ELSE BatchSize
  IN  [i \in 1 .. 3 * n |->
        LET e == first + 1 + ((i - 1) % n) IN
        [node |-> CASE i <= n -> s.ends[e][1]
                    [] i > n /\ i <= 2 * n -> s.ends[e][2]
                    [] OTHER -> s.neg[e],
         ts |-> TimeOf(s, e)]]

MCInputs ==
  { [graph |-> GraphOf(s),
     batches |-> [b \in 1 .. (NEdges + BatchSize - 1) \div BatchSize |-> BatchOf(s, b)]] : s \in MCStreams }
=============================================================================
