-------------------------- MODULE ParallelSampler --------------------------
(***************************************************************************)
(* sampler/sampler_core.cpp: the temporal neighbour sampler that runs on   *)
(* the CPU, as the configurations use it: strategy recent, history 1,      *)
(* duration 0, prop_time False.                                            *)
(*                                                                         *)
(* A call is given roots, each a node and a time, and finds for each the   *)
(* latest neighbours before its time; with two layers it then does the     *)
(* same for the neighbours found.  A layer has two parallel loops.  The    *)
(* first moves the pointers, one per node and guarded by a lock of the     *)
(* node, forward to the times asked; the second reads them.  Every thread  *)
(* collects what it finds, and combine_coo joins the parts.                *)
(***************************************************************************)
EXTENDS Integers, Sequences, FiniteSets

CONSTANTS
  NumNodes,    \* num_nodes
  Inputs,      \* a graph, and the batches of roots it is asked for
  NumThreads,  \* num_threads
  Layers,      \* num_layers
  FanOut,      \* num_neighbors of every layer
  RoundFrom,   \* the time t from which t - 1e-7f is t in float arithmetic
  FloatExact   \* 2^24: the counts up to which static_cast<float> is exact

Nodes == 0 .. NumNodes - 1
Threads == 0 .. NumThreads - 1
Root == [node : Nodes, ts : Nat]

\* The entries of node n in the order of time.
Slice(g, n) == g.indptr[n] .. g.indptr[n + 1] - 1

IsGraph(g) ==
  /\ g.indptr \in [0 .. NumNodes -> Nat]
  /\ \A n \in Nodes : g.indptr[n] <= g.indptr[n + 1] /\ Slice(g, n) \subseteq DOMAIN g.ts
  /\ g.ts \in [DOMAIN g.ts -> Nat]
  /\ g.indices \in [DOMAIN g.ts -> Nodes]
  /\ \A n \in Nodes : \A j, k \in Slice(g, n) : j <= k => g.ts[j] <= g.ts[k]

ASSUME SamplerAssumption ==
  /\ NumNodes \in Nat \ {0} /\ NumThreads \in Nat \ {0}
  /\ Layers \in Nat \ {0} /\ FanOut \in Nat \ {0}
  /\ RoundFrom \in Nat /\ FloatExact \in Nat \ {0}
  /\ \A in \in Inputs : IsGraph(in.graph) /\ in.batches \in Seq(Seq(Root))

VARIABLES
  input,  \* the graph and the batches: constant
  calls,  \* batches sampled
  layer,  \* the layer of the call, 0 between calls
  loop,   \* the parallel loop: "pointers" or "sample", "none" between calls
  roots,  \* root_nodes and root_ts of the layer
  tsPtr,  \* ts_ptr[1]; ts_ptr[0] never moves from the start of the slice
  todo,   \* for each thread, the iterations of the loop it still has to do
  held,   \* for each thread, the lock it holds and the pointer it read under it
  rows,   \* for each thread, _row and _eid: the neighbours it has found
  outs,   \* _out_node: roots each thread has sampled for
  joined, \* threads whose part combine_coo has put into the result
  base,   \* cum_row.back(): the roots of these threads
  found,  \* row and eid of the block of the layer
  ret     \* ret: for each layer, the roots and the neighbours found

vars == <<input, calls, layer, loop, roots, tsPtr, todo, held, rows, outs, joined, base, found, ret>>

\* What a layer changes only while it samples.
parts == <<rows, outs, joined, base, found>>

graph == input.graph
None == [root |-> 0, from |-> 0]

\* The locks are omp locks: at most one thread has the lock of a node.
Locked(n) == \E t \in Threads : held[t] # None /\ roots[held[t].root].node = n

----------------------------------------------------------------------------
(* Sharing a loop among the threads *)

\* static_cast<float> of a count below 2^25.
Float(n) ==
  IF n <= FloatExact \/ n % 2 = 0 THEN n ELSE IF n % 4 = 1 THEN n - 1 ELSE n + 1

\* Mutant of Chunk: the quotient is rounded down, and never to 0.
ChunkDown(n) == IF n < NumThreads THEN 1 ELSE n \div NumThreads

\* schedule(static, ceil(n / num_threads)): chunks go round the threads.
Chunk(n) == (Float(n) + NumThreads - 1) \div NumThreads
Share(n) ==
  [t \in Threads |-> { i \in 1 .. n : ((i - 1) \div Chunk(n)) % NumThreads = t }]

\* The next iteration of thread t.
IsNext(t, i) == i \in todo[t] /\ \A j \in todo[t] : i <= j

----------------------------------------------------------------------------
(* Moving the pointers *)

\* ts[k] > t - 1e-7f: from RoundFrom on, an entry of the time t is not beyond it.
Beyond(k, t) == IF t < RoundFrom THEN graph.ts[k] >= t ELSE graph.ts[k] > t

\* Mutant of Advanced: the loop leaves the pointer one past the last entry.
AdvancedPast(n, t, p, q) ==
  \/ /\ q = p
     /\ p \in Slice(graph, n) => Beyond(p, t)
  \/ /\ q \in p + 1 .. graph.indptr[n + 1]
     /\ \A k \in p .. q - 1 : ~Beyond(k, t)
     /\ q < graph.indptr[n + 1] => Beyond(q, t)

\* The loop over j that starts at the pointer p ends with the pointer at q.
Advanced(n, t, p, q) ==
  \/ /\ q = p
     /\ p \in Slice(graph, n) => Beyond(p, t)
  \/ /\ q \in p .. graph.indptr[n + 1] - 1
     /\ \A k \in p .. q : ~Beyond(k, t)
     /\ q + 1 < graph.indptr[n + 1] => Beyond(q + 1, t)

Init ==
  /\ input \in Inputs
  /\ calls = 0 /\ layer = 0 /\ loop = "none"
  /\ roots = <<>>
  /\ tsPtr = [n \in Nodes |-> graph.indptr[n]]
  /\ todo = [t \in Threads |-> {}] /\ held = [t \in Threads |-> None]
  /\ rows = [t \in Threads |-> <<>>] /\ outs = [t \in Threads |-> 0]
  /\ joined = 0 /\ base = 0 /\ found = <<>> /\ ret = <<>>

\* sample: the first layer of the next batch.
Call ==
  /\ loop = "none" /\ calls < Len(input.batches)
  /\ calls' = calls + 1 /\ layer' = 1 /\ loop' = "pointers"
  /\ roots' = input.batches[calls + 1]
  /\ todo' = Share(Len(roots'))
  /\ ret' = <<>>
  /\ UNCHANGED <<input, tsPtr, held, parts>>

\* reset, between two epochs; the batches start again.
Reset ==
  /\ loop = "none" /\ calls > 0
  /\ tsPtr' = [n \in Nodes |-> graph.indptr[n]]
  /\ calls' = 0
  /\ UNCHANGED <<input, layer, loop, roots, todo, held, parts, ret>>

\* Mutant of Lock: the lock is not waited for.
LockAnyway(t) ==
  /\ loop = "pointers" /\ held[t] = None
  /\ \E i \in todo[t] :
       /\ IsNext(t, i)
       /\ held' = [held EXCEPT ![t] = [root |-> i, from |-> tsPtr[roots[i].node]]]
  /\ UNCHANGED <<input, calls, layer, loop, roots, tsPtr, todo, parts, ret>>

\* update_ts_ptr, one iteration up to omp_set_lock: the thread has the lock of
\* the node and reads its pointer.
Lock(t) ==
  /\ loop = "pointers" /\ held[t] = None
  /\ \E i \in todo[t] :
       /\ IsNext(t, i)
       /\ ~Locked(roots[i].node)
       /\ held' = [held EXCEPT ![t] = [root |-> i, from |-> tsPtr[roots[i].node]]]
  /\ UNCHANGED <<input, calls, layer, loop, roots, tsPtr, todo, parts, ret>>

\* Mutant of Unlock: the lock is kept when the pointer stays where it is.
UnlockMoved(t) ==
  /\ held[t] # None
  /\ LET i == held[t].root
         n == roots[i].node
     IN  /\ \E q \in held[t].from .. graph.indptr[n + 1] :
              /\ Advanced(n, roots[i].ts, held[t].from, q)
              /\ tsPtr' = [tsPtr EXCEPT ![n] = q]
              /\ held' = [held EXCEPT ![t] = IF q = held[t].from THEN @ ELSE None]
         /\ todo' = [todo EXCEPT ![t] = @ \ {i}]
  /\ UNCHANGED <<input, calls, layer, loop, roots, parts, ret>>

\* The rest of the iteration: the pointer is moved and the lock given back.
Unlock(t) ==
  /\ held[t] # None
  /\ LET i == held[t].root
         n == roots[i].node
     IN  /\ \E q \in held[t].from .. graph.indptr[n + 1] :
              /\ Advanced(n, roots[i].ts, held[t].from, q)
              /\ tsPtr' = [tsPtr EXCEPT ![n] = q]
         /\ todo' = [todo EXCEPT ![t] = @ \ {i}]
  /\ held' = [held EXCEPT ![t] = None]
  /\ UNCHANGED <<input, calls, layer, loop, roots, parts, ret>>

\* Mutant of Barrier: the threads that are done go on to the second loop.
BarrierEarly ==
  /\ loop = "pointers" /\ \E t \in Threads : todo[t] = {}
  /\ \A t \in Threads : held[t] = None
  /\ loop' = "sample" /\ todo' = Share(Len(roots))
  /\ rows' = [t \in Threads |-> <<>>] /\ outs' = [t \in Threads |-> 0]
  /\ joined' = 0 /\ base' = 0 /\ found' = <<>>
  /\ UNCHANGED <<input, calls, layer, roots, tsPtr, held, ret>>

\* The end of the first loop is a barrier: the second begins when all are done.
Barrier ==
  /\ loop = "pointers" /\ \A t \in Threads : todo[t] = {}
  /\ loop' = "sample" /\ todo' = Share(Len(roots))
  /\ rows' = [t \in Threads |-> <<>>] /\ outs' = [t \in Threads |-> 0]
  /\ joined' = 0 /\ base' = 0 /\ found' = <<>>
  /\ UNCHANGED <<input, calls, layer, roots, tsPtr, held, ret>>

----------------------------------------------------------------------------
(* Sampling *)

\* The entries from the start of node n to its pointer.  A node without entries
\* has its pointer on an entry of another node.
Searched(n) ==
  IF tsPtr[n] = graph.indptr[n] /\ tsPtr[n] = graph.indptr[n + 1] THEN {}
  ELSE graph.indptr[n] .. tsPtr[n]

Before(n, t) == { k \in Searched(n) : graph.ts[k] < t }

\* The loop from the pointer down has picked P: entries before time t, FanOut at
\* most, none later than the last of them left out.
IsPick(P, n, t) ==
  /\ \A p \in DOMAIN P : P[p] \in Before(n, t)
  /\ \A p, q \in DOMAIN P : p < q => P[q] < P[p]
  /\ \A k \in Before(n, t) :
       \/ \E p \in DOMAIN P : P[p] = k
       \/ Len(P) = FanOut /\ \A p \in DOMAIN P : k < P[p]

\* One iteration of the second loop: add_neighbor for every neighbour picked.
Sample(t) ==
  /\ loop = "sample"
  /\ \E i \in todo[t] :
       /\ IsNext(t, i)
       /\ \E m \in 0 .. FanOut : \E P \in [1 .. m -> Searched(roots[i].node)] :
            /\ IsPick(P, roots[i].node, roots[i].ts)
            /\ rows' = [rows EXCEPT ![t] = @ \o [k \in 1 .. m |-> [row |-> outs[t], entry |-> P[k]]]]
       /\ outs' = [outs EXCEPT ![t] = @ + 1]
       /\ todo' = [todo EXCEPT ![t] = @ \ {i}]
  /\ UNCHANGED <<input, calls, layer, loop, roots, tsPtr, held, joined, base, found, ret>>

\* combine_coo, one thread after the other: its rows get numbers after those of
\* the threads before it, and are copied behind them.
CombineCoo ==
  /\ loop = "sample" /\ \A t \in Threads : todo[t] = {}
  /\ joined < NumThreads
  /\ found' = found \o [k \in 1 .. Len(rows[joined]) |->
                          [row |-> base + rows[joined][k].row, entry |-> rows[joined][k].entry]]
  /\ base' = base + outs[joined]
  /\ joined' = joined + 1
  /\ UNCHANGED <<input, calls, layer, loop, roots, tsPtr, todo, held, rows, outs, ret>>

\* The nodes of a layer are its roots, then the neighbours found, each at the
\* time of its edge.
NextRoots ==
  roots \o [k \in 1 .. Len(found) |-> [node |-> graph.indices[found[k].entry],
                                       ts |-> graph.ts[found[k].entry]]]

\* The next layer, or the return of sample.
EndLayer ==
  /\ loop = "sample" /\ joined = NumThreads
  /\ ret' = Append(ret, [roots |-> roots, found |-> found])
  /\ IF layer < Layers
     THEN /\ roots' = NextRoots
          /\ layer' = layer + 1 /\ loop' = "pointers"
          /\ todo' = Share(Len(roots'))
     ELSE /\ layer' = 0 /\ loop' = "none"
          /\ UNCHANGED <<roots, todo>>
  /\ UNCHANGED <<input, calls, tsPtr, held, parts>>

Next ==
  \/ Call \/ Reset \/ Barrier \/ CombineCoo \/ EndLayer
  \/ \E t \in Threads : Lock(t) \/ Unlock(t) \/ Sample(t)

Spec == Init /\ [][Next]_vars
FairSpec == Spec /\ WF_vars(Barrier) /\ WF_vars(CombineCoo) /\ WF_vars(EndLayer)
                 /\ \A t \in Threads : WF_vars(Lock(t)) /\ WF_vars(Unlock(t)) /\ WF_vars(Sample(t))

----------------------------------------------------------------------------
(* What must hold *)

\* The types of the state: a pointer stays among the entries of its node, threads
\* work on roots of the layer.
SamplerTypeOK ==
  /\ calls \in 0 .. Len(input.batches) /\ layer \in 0 .. Layers
  /\ loop \in {"none", "pointers", "sample"}
  /\ roots \in Seq(Root)
  /\ tsPtr \in [Nodes -> Nat]
  /\ \A n \in Nodes : tsPtr[n] \in Slice(graph, n) \/ tsPtr[n] = graph.indptr[n]
  /\ todo \in [Threads -> SUBSET (1 .. Len(roots))]
  /\ held \in [Threads -> [root : Nat, from : Nat]]
  /\ rows \in [Threads -> Seq([row : Nat, entry : DOMAIN graph.ts])] /\ outs \in [Threads -> Nat]
  /\ joined \in 0 .. NumThreads /\ base \in Nat
  /\ found \in Seq([row : Nat, entry : DOMAIN graph.ts])

\* Whatever the order in which the threads take the locks, once the second
\* loop begins no entry that a root may use lies beyond the pointer of its node.
PointersCover ==
  loop = "sample" =>
    \A i \in 1 .. Len(roots) : \A k \in Slice(graph, roots[i].node) :
      k > tsPtr[roots[i].node] => graph.ts[k] >= roots[i].ts

\* No pointer moves back except by reset: no thread undoes what another did.
PointersForward ==
  [][calls' >= calls => \A n \in Nodes : tsPtr'[n] >= tsPtr[n]]_vars

\* The latest entries of node n before time t.
Latest(n, t) ==
  LET before == { k \in Slice(graph, n) : graph.ts[k] < t } IN
  { k \in before : Cardinality({ j \in before : j > k }) < FanOut }

\* The entries found for the root number i.
Neighbours(rs, i) == { rs[p].entry : p \in { p \in 1 .. Len(rs) : rs[p].row = i } }

\* Every root gets its own latest neighbours, under its own number, although
\* pointers have moved past it, whatever thread did it, and in every layer.  More
\* roots than FloatExact are shared out by a chunk that may be one too small.
SampleRight ==
  \A l \in 1 .. Len(ret) : Len(ret[l].roots) <= FloatExact =>
    /\ \A p \in 1 .. Len(ret[l].found) : ret[l].found[p].row < Len(ret[l].roots)
    /\ \A i \in 1 .. Len(ret[l].roots) :
         Neighbours(ret[l].found, i - 1) = Latest(ret[l].roots[i].node, ret[l].roots[i].ts)

\* A call returns.
CallReturns == loop # "none" ~> loop = "none"
=============================================================================
