-------------------------- MODULE TrainingBatches --------------------------
(***************************************************************************)
(* The batches of training and what they do to the mailbox.                *)
(*                                                                         *)
(* eid_analyze/ writes the list of batches that train.py reads (eid_load). *)
(* Fixed: BatchSize edges each, in the order of time.  Adaptive: within a  *)
(* large batch, a batch is made longer with edges taken out of their order *)
(* until its staleness reaches that of the worst fixed batch.              *)
(*                                                                         *)
(* train.py then trains on one batch after the other.  At the first batch  *)
(* of a large batch run_batch moves to the next block, for whose window of *)
(* edges negative nodes have been sampled.  memorys.py stores for each end *)
(* point of the batch a mail and the time of its memory.                   *)
(*                                                                         *)
(* An edge is named by its eid, which is also its time.                    *)
(***************************************************************************)
EXTENDS Integers, Sequences, FiniteSets, SequencesExt

CONSTANTS
  Nodes,       \* node ids
  NEdges,      \* train_edge_end
  LargeBatch,  \* large_batch_size, pre_sample_size: 60000
  BatchSize,   \* batch_size: 2000
  Streams,     \* source and destination of every edge: functions on Edges
  Files,       \* lists of batches: a subset of {"fixed", "adaptive"}
  None         \* no mail, no time, no negatives

Edges == 0 .. NEdges - 1

ASSUME BatchesAssumption ==
  /\ NEdges \in Nat \ {0} /\ BatchSize \in Nat \ {0}
  /\ LargeBatch \in Nat \ {0} /\ LargeBatch % BatchSize = 0
  /\ Streams \subseteq [Edges -> Nodes \X Nodes]
  /\ Files \subseteq {"fixed", "adaptive"}
  /\ None \notin [edge : Edges, ts : Edges]

VARIABLES
  ends,       \* datas['src'], datas['dst']: constant
  file,       \* the list of batches trained on: constant
  threshold,  \* max_threshold: constant
  large,      \* large batches split or being split
  left,       \* cur_eid: eids of the large batch that are in no batch yet
  batches,    \* the list of batches
  trained,    \* batches trained on
  curBlock,   \* cur_block of the feature buffer
  negs,       \* the block neg_sample_nodes was sampled for
  negsAsync,  \* the block neg_sample_nodes_async was sampled for
  read,       \* the mails the last batch was computed from
  mail,       \* mailbox: the edge of the mail, and mailbox_ts
  memTs       \* memory_ts

settings == <<ends, file, threshold>>
splitVars == <<large, left, batches>>
trainVars == <<trained, curBlock, negs, negsAsync, read, mail, memTs>>
vars == <<settings, splitVars, trainVars>>

Smaller(a, b) == IF a < b THEN a ELSE b
NBlocks == (NEdges + LargeBatch - 1) \div LargeBatch
Eids(from, to) == [i \in 1 .. to - from |-> from + i - 1]

\* The edges of block b.
Window(b) == b * LargeBatch .. Smaller(NEdges, (b + 1) * LargeBatch) - 1

Src(e) == ends[e][1]
Dst(e) == ends[e][2]
EndPoints(s) == UNION { {Src(s[i]), Dst(s[i])} : i \in DOMAIN s }

----------------------------------------------------------------------------
(* The list of batches *)

\* calculate_staleness: end points of the edges of s that are not new.
Staleness(s) == 2 * Len(s) - Cardinality(EndPoints(s))

\* The fixed batches of every large batch.
SmallBatches ==
  { Eids(from, Smaller(from + BatchSize, NEdges)) : from \in { e \in Edges : e % BatchSize = 0 } }

\* max_threshold
MaxStaleness(s) ==
  /\ \E b \in SmallBatches : Staleness(b) = s
  /\ \A b \in SmallBatches : Staleness(b) <= s

\* calculate_delta: end points of edge e that are in N.
Delta(e, N) == 2 - (IF Src(e) \notin N THEN 1 ELSE 0) - (IF Dst(e) \notin N THEN 1 ELSE 0)

\* One step of the first loop: edge rest[k] is taken if it brings a new node.
Take(s, rest, k) ==
  IF s.stale < threshold /\ Delta(rest[k], s.nodes) # 2
  THEN [stale |-> s.stale + Delta(rest[k], s.nodes),
        nodes |-> s.nodes \cup {Src(rest[k]), Dst(rest[k])},
        taken |-> Append(s.taken, k)]
  ELSE s

\* The first loop, over the edges that are left: their positions in rest.
Taken(first, rest) ==
  LET s[k \in 0 .. Len(rest)] ==
        IF k = 0 THEN [stale |-> Staleness(first), nodes |-> EndPoints(first), taken |-> <<>>]
        ELSE Take(s[k - 1], rest, k)
  IN  s[Len(rest)]

\* Mutant of Without: positions are deleted from the first to the last.
WithoutForward(rest, taken) ==
  LET gone == { taken[i] + i - 1 : i \in DOMAIN taken }
      kept == SelectSeq([k \in 1 .. Len(rest) |-> k], LAMBDA k : k \notin gone)
  IN  [i \in 1 .. Len(kept) |-> rest[kept[i]]]

\* The edges of rest that were not taken: positions are deleted last to first.
Without(rest, taken) ==
  LET d[i \in 0 .. Len(taken)] ==
        IF i = 0 THEN rest ELSE RemoveAt(d[i - 1], taken[Len(taken) - i + 1])
  IN  d[Len(taken)]

\* Mutant of Filled: an edge that is filled in counts for one end point.
FilledSlowly(stale, n) == IF stale >= threshold THEN 0 ELSE Smaller(n, threshold - stale)

\* The second loop: how many of n edges are added, each of staleness 2.
Filled(stale, n) == IF stale >= threshold THEN 0 ELSE Smaller(n, (threshold - stale + 1) \div 2)

\* One round of adaptive_split_in_large_batch: a batch, and what it leaves.
SplitOff(eids) ==
  LET n == Smaller(BatchSize, Len(eids))
      first == SubSeq(eids, 1, n)
      rest == SubSeq(eids, n + 1, Len(eids))
      s == Taken(first, rest)
      others == Without(rest, s.taken)
      k == Filled(s.stale, Len(others))
  IN  [batch |-> first \o [i \in 1 .. Len(s.taken) |-> rest[s.taken[i]]] \o SubSeq(others, 1, k),
       left  |-> SubSeq(others, k + 1, Len(others))]

LargeEids(l) == Eids(l * LargeBatch, Smaller(NEdges, (l + 1) * LargeBatch))

Init ==
  /\ ends \in Streams /\ file \in Files
  /\ threshold \in 0 .. 2 * BatchSize /\ MaxStaleness(threshold)
  /\ large = 0 /\ batches = <<>>
  /\ left = IF file = "adaptive" THEN LargeEids(0) ELSE Eids(0, NEdges)
  /\ trained = 0 /\ curBlock = 0 /\ negs = None /\ negsAsync = None
  /\ read = [n \in Nodes |-> None]
  /\ mail = [n \in Nodes |-> None] /\ memTs = [n \in Nodes |-> None]

\* Mutant of Collected: the large batches are collected in another order.
CollectedUnordered(batch) == <<batch>> \o batches

\* process_split: the results of the pool are in the order of the large batches.
Collected(batch) == Append(batches, batch)

\* eid_certain_num.py
SplitFixed ==
  /\ file = "fixed" /\ left # <<>>
  /\ LET n == Smaller(BatchSize, Len(left)) IN
       /\ batches' = Collected(SubSeq(left, 1, n))
       /\ left' = SubSeq(left, n + 1, Len(left))
  /\ UNCHANGED <<settings, large, trainVars>>

\* eid_analyze_parallel.py: the pool treats the large batches side by side, but
\* each without regard to the others.
SplitAdaptive ==
  /\ file = "adaptive" /\ left # <<>>
  /\ LET s == SplitOff(left) IN
       /\ batches' = Collected(s.batch)
       /\ IF s.left = <<>> /\ large + 1 < NBlocks
          THEN large' = large + 1 /\ left' = LargeEids(large + 1)
          ELSE large' = large /\ left' = s.left
  /\ UNCHANGED <<settings, trainVars>>

----------------------------------------------------------------------------
(* Training *)

\* Mutant of PreNegSample: it does not return when there is no block b.
PreNegSampleAlways(b, old) == b

\* pre_neg_sample: negatives for block b, if there is one.
PreNegSample(b, old) == IF b * LargeBatch >= NEdges THEN old ELSE b

\* Mutant of RunBatch: the next block is sampled for before the swap.
RunBatchSampleFirst(first) ==
  IF first % LargeBatch = 0
  THEN /\ negsAsync' = PreNegSample(curBlock + 1, negsAsync)
       /\ negs' = negsAsync'
       /\ curBlock' = curBlock + 1
  ELSE UNCHANGED <<curBlock, negs, negsAsync>>

\* run_batch, where a large batch begins; analyze samples for the first block.
RunBatch(first) ==
  IF first % LargeBatch = 0
  THEN LET ready == IF curBlock = 0 THEN PreNegSample(0, negsAsync) ELSE negsAsync IN
       /\ negs' = ready
       /\ negsAsync' = PreNegSample(curBlock + 1, ready)
       /\ curBlock' = curBlock + 1
  ELSE UNCHANGED <<curBlock, negs, negsAsync>>

\* Mutant of LastOf: the first occurrence is kept.
LastOfFirst(s, n) == CHOOSE p \in DOMAIN s : s[p] = n /\ \A q \in DOMAIN s : s[q] = n => p <= q

\* The last position of n in s: scatter_ on the CPU writes in order.
LastOf(s, n) == CHOOSE p \in DOMAIN s : s[p] = n /\ \A q \in DOMAIN s : s[q] = n => q <= p

\* update_mailbox: nodes and mails alternate between sources and destinations,
\* while the times are those of the sources, then those of the destinations.
UpdateMailbox(b) ==
  LET nid == [p \in 1 .. 2 * Len(b) |->
               IF p % 2 = 1 THEN Src(b[(p + 1) \div 2]) ELSE Dst(b[p \div 2])]
  IN  mail' = [n \in Nodes |->
                IF n \notin EndPoints(b) THEN mail[n]
                ELSE LET p == LastOf(nid, n) IN
                     [edge |-> b[(p + 1) \div 2], ts |-> b[((p - 1) % Len(b)) + 1]]]

\* Mutant of UpdateMemory: num_true_src_dst counts the edges, not their end points.
UpdateMemorySourcesOnly(b) ==
  LET nid == [i \in 1 .. Len(b) |-> Src(b[i])]
  IN  memTs' = [n \in Nodes |-> IF n \notin ToSet(nid) THEN memTs[n] ELSE b[LastOf(nid, n)]]

\* update_memory: all sources, then all destinations.
UpdateMemory(b) ==
  LET nid == [i \in 1 .. Len(b) |-> Src(b[i])] \o [i \in 1 .. Len(b) |-> Dst(b[i])]
  IN  memTs' = [n \in Nodes |->
                 IF n \notin EndPoints(b) THEN memTs[n]
                 ELSE b[((LastOf(nid, n) - 1) % Len(b)) + 1]]

\* Mutant of Train: the mails of the batch are stored before they are read.
TrainUpdateFirst ==
  /\ left = <<>> /\ trained < Len(batches)
  /\ LET b == batches[trained + 1] IN RunBatch(b[1]) /\ UpdateMailbox(b) /\ UpdateMemory(b)
  /\ read' = mail'
  /\ trained' = trained + 1
  /\ UNCHANGED <<settings, splitVars>>

\* One round of the training loop: run_batch, prep_input_mails, the model,
\* update_mailbox and update_memory.
Train ==
  /\ left = <<>> /\ trained < Len(batches)
  /\ LET b == batches[trained + 1] IN RunBatch(b[1]) /\ UpdateMailbox(b) /\ UpdateMemory(b)
  /\ read' = mail
  /\ trained' = trained + 1
  /\ UNCHANGED <<settings, splitVars>>

Terminated == left = <<>> /\ trained = Len(batches) /\ UNCHANGED vars

Next == SplitFixed \/ SplitAdaptive \/ Train \/ Terminated

Spec == Init /\ [][Next]_vars

----------------------------------------------------------------------------
(* What must hold *)

\* The types of the state: batches, mails, times and negatives are those of edges
\* and blocks that exist.
BatchesTypeOK ==
  /\ ends \in [Edges -> Nodes \X Nodes] /\ file \in Files /\ threshold \in Nat
  /\ large \in 0 .. NBlocks - 1 /\ left \in Seq(Edges) /\ batches \in Seq(Seq(Edges))
  /\ trained \in 0 .. Len(batches) /\ curBlock \in 0 .. NBlocks
  /\ negs \in 0 .. NBlocks - 1 \cup {None} /\ negsAsync \in 0 .. NBlocks - 1 \cup {None}
  /\ mail \in [Nodes -> [edge : Edges, ts : Edges] \cup {None}]
  /\ read \in [Nodes -> [edge : Edges, ts : Edges] \cup {None}]
  /\ memTs \in [Nodes -> Edges \cup {None}]

\* Where the list has an edge: the number of a batch and a position in it.
Places == UNION { {i} \X DOMAIN batches[i] : i \in DOMAIN batches }

\* Taking edges out of their order loses none and trains on none twice: when
\* the list is complete every edge is in it at one place.
EveryEdgeOnce ==
  left = <<>> =>
    \A e \in Edges : \E p \in Places : \A q \in Places : batches[q[1]][q[2]] = e <=> q = p

\* An adaptive batch is as stale as the worst fixed batch, unless it ends its
\* large batch, and made no longer than that needs.  The count of the source is
\* one short for each edge from a node to itself.
StalenessAtThreshold ==
  file = "adaptive" =>
    \A i \in 1 .. Len(batches) :
      LET b == batches[i]
          front == SubSeq(b, 1, Len(b) - 1)
          loops == Cardinality({ k \in DOMAIN front : Src(front[k]) = Dst(front[k]) })
          isLast == IF i < Len(batches) THEN batches[i + 1][1] % LargeBatch = 0 ELSE TRUE
      IN  /\ isLast \/ Staleness(b) >= threshold
          /\ Len(b) > BatchSize => Staleness(front) < threshold + loops

\* The block whose data is on the GPU is the one all edges of the batch are in,
\* and the negatives indexed by eid modulo the block size are those sampled,
\* and loaded, for it.
NegativesOfBlock ==
  trained > 0 =>
    LET b == batches[trained] IN
      /\ negs = curBlock - 1
      /\ \A i \in DOMAIN b :
           /\ b[i] \in Window(curBlock - 1)
           /\ b[i] % LargeBatch < Cardinality(Window(negs))

\* How finely a list of batches keeps the order of time.
Tick(e) == IF file = "fixed" THEN e ELSE e \div LargeBatch

\* No batch is computed from a mail of itself or of its future; adaptive
\* batches keep that from one large batch to the next only.
NoFutureMail ==
  \A n \in Nodes : trained > 0 /\ read[n] # None =>
    \A i \in DOMAIN batches[trained] :
      LET e == batches[trained][i] IN
      IF file = "fixed" THEN read[n].edge < e /\ read[n].ts < e
      ELSE read[n].edge # e /\ Tick(read[n].edge) <= Tick(e)

\* The mail of a node is that of the latest edge trained on that has the node as
\* an end point, to the same precision.
LatestMail ==
  \A n \in Nodes :
    LET met == { e \in UNION { { batches[j][i] : i \in DOMAIN batches[j] } : j \in 1 .. trained } :
                   n \in {Src(e), Dst(e)} }
    IN  IF mail[n] = None THEN met = {}
        ELSE mail[n].edge \in met /\ \A e \in met : Tick(e) <= Tick(mail[n].edge)

\* The mail of a node, the time of the mail and the clock of the node's memory are
\* stored by two functions in two orders of the end points, and may be of three
\* edges: these are all of one batch, the last trained on that has the node.
StoredTogether ==
  \A n \in Nodes : mail[n] # None =>
    \E i \in 1 .. trained :
      /\ n \in EndPoints(batches[i])
      /\ \A j \in i + 1 .. trained : n \notin EndPoints(batches[j])
      /\ {mail[n].edge, mail[n].ts, memTs[n]} \subseteq ToSet(batches[i])

\* The clock of a node's memory does not go back, to the same precision.
MemoryClockForward ==
  [][\A n \in Nodes : memTs[n] # None => Tick(memTs[n]) <= Tick(memTs'[n])]_vars
=============================================================================
