----------------------------- MODULE ValidEdges -----------------------------
(***************************************************************************)
(* The features of the edges that may still be sampled, in an array that   *)
(* is smaller than the stream (use_valid_edge).                            *)
(*                                                                         *)
(* preprocess/memory_preprocess.py goes through the stream block by block, *)
(* gives each new edge a slot, and takes back the slots of the edges that  *)
(* no later root can reach: those with FanOut newer ones before them.  The *)
(* prefetch process replays the plan (pre_fetch.py, update_valid_edge) and *)
(* reads the features of a block from the slots (get_ef_valid).            *)
(*                                                                         *)
(* A row of valid_ef is the edge whose feature it holds.                   *)
(***************************************************************************)
EXTENDS Naturals, FiniteSets, SequencesExt

CONSTANTS
  Nodes,      \* node ids
  NEdges,     \* edges of the stream, in the order of time
  BlockSize,  \* bs: edges of a block
  FanOut,     \* fan_nums = [10]: neighbours the sampler returns
  Streams,    \* edge streams
  Layers,     \* layers of the sampler that training uses
  Epochs,     \* bound: epochs trained
  Zeros       \* a row of zeros

Edges   == 0 .. NEdges - 1
NBlocks == (NEdges + BlockSize - 1) \div BlockSize
Blocks  == 0 .. NBlocks - 1

\* Edges have no two equal end points.  reverse is add_reverse of gen_graph.py.
Stream == { s \in [src : [Edges -> Nodes], dst : [Edges -> Nodes], time : [Edges -> Nat],
                   reverse : BOOLEAN] :
              \A e \in Edges : /\ s.src[e] # s.dst[e]
                               /\ \A f \in Edges : e < f => s.time[e] <= s.time[f] }

ASSUME EdgeAssumption ==
  /\ NEdges \in Nat \ {0} /\ BlockSize \in Nat \ {0} /\ FanOut \in Nat \ {0}
  /\ Layers \in Nat \ {0} /\ Epochs \in Nat
  /\ Streams \subseteq Stream
  /\ Zeros \notin Edges

VARIABLES
  stream,    \* the stream and its graph: constant
  nextBlock, \* batch_num
  expired,   \* entries of the graph no later root can reach
  expEids,   \* exp_eids: edges that have lost their last entry in the block before
  owner,     \* map: the edge of each slot given out so far
  free,      \* unexpire_ind: slots taken back and not given out again
  replace,   \* replace_idx of each block: the slots of its edges
  calEdges,  \* cal_edge_num
  calMax,    \* cal_max_edge_num
  validMap,  \* valid_map: slot of each edge
  validEf,   \* valid_ef: feature in each slot
  validBlock,\* the last block prepared
  epoch      \* epochs started; 0 before training

planVars  == <<nextBlock, expired, expEids, owner, free, replace, calEdges, calMax>>
trainVars == <<validMap, validEf, validBlock, epoch>>
vars == <<stream, planVars, trainVars>>

\* end_ptr: slots given out so far are 0 .. endPtr - 1.
endPtr == Cardinality(DOMAIN owner)

First(b)      == b * BlockSize
BlockEdges(b) == { e \in Edges : First(b) <= e /\ e < First(b + 1) }
Size(b)       == Cardinality(BlockEdges(b))

----------------------------------------------------------------------------
(* The sampler *)

\* An edge e has entry 2e in the row of its source, and with add_reverse entry
\* 2e + 1 in the row of its destination.
EdgeOf(p)  == p \div 2
RowOf(p)   == IF p % 2 = 0 THEN stream.src[EdgeOf(p)] ELSE stream.dst[EdgeOf(p)]
OtherEnd(p) == IF p % 2 = 0 THEN stream.dst[EdgeOf(p)] ELSE stream.src[EdgeOf(p)]
Entries == { p \in 0 .. 2 * NEdges - 1 : p % 2 = 0 \/ stream.reverse }

\* Entries of node n before time t: 0 .. res of its row.
Before(n, t) == { p \in Entries : RowOf(p) = n /\ stream.time[EdgeOf(p)] < t }

\* Mutant of TooOld: one neighbour less is left to the root.
TooOldOneMore(n, t) ==
  { p \in Before(n, t) : Cardinality({ q \in Before(n, t) : p < q }) + 1 >= FanOut }

\* Entries with FanOut newer ones: sample_with_expired marks them.
TooOld(n, t) ==
  { p \in Before(n, t) : Cardinality({ q \in Before(n, t) : p < q }) >= FanOut }

\* The FanOut newest entries: sample_with_ts_recent returns them.
Recent(n, t) ==
  { p \in Before(n, t) : Cardinality({ q \in Before(n, t) : p < q }) < FanOut }

----------------------------------------------------------------------------
(* The plan *)

Init ==
  /\ stream \in Streams
  /\ nextBlock = 0 /\ expired = {} /\ expEids = {}
  /\ owner = <<>> /\ free = <<>>
  /\ replace = [b \in Blocks |-> <<>>]
  /\ calEdges = 0 /\ calMax = 0
  /\ validMap = [e \in Edges |-> 0] /\ validEf = <<>> /\ validBlock = 0 /\ epoch = 0

SlotOf(e) == CHOOSE s \in DOMAIN owner : owner[s] = e

\* The i-th of the expired edges; torch.sort puts them in ascending order.
Nth(i) == CHOOSE e \in expEids : Cardinality({ f \in expEids : f < e }) = i - 1

\* table1: the slots of the expired edges, in the order of the edges.
Returned == [i \in 1 .. Cardinality(expEids) |-> SlotOf(Nth(i))]

\* Mutant of Fresh: it starts one slot too late.
FreshLate(k) == [i \in 1 .. k |-> endPtr + i]

\* The slots after the end: end_ptr, end_ptr + 1, ...
Fresh(k) == [i \in 1 .. k |-> endPtr + i - 1]

\* The slots of the edges of this block; the slots themselves get new owners.
Give(slots) ==
  /\ replace' = [replace EXCEPT ![nextBlock] = slots]
  /\ owner' = [s \in DOMAIN owner \cup ToSet(slots) |->
                 IF \E i \in DOMAIN slots : slots[i] = s
                 THEN First(nextBlock) + (CHOOSE i \in DOMAIN slots : slots[i] = s) - 1
                 ELSE owner[s]]

\* Edges none of whose entries is outside of X: eid_flag is 0.
Dead(X) == { e \in Edges : \A p \in Entries : EdgeOf(p) = e => p \in X }

\* Then the roots of the block are sampled; the edges that have lost their last
\* entry are taken back with the next block.
Expire ==
  LET cal == calEdges + Size(nextBlock) IN
  /\ expired' = expired \cup
       UNION { TooOld(stream.src[e], stream.time[e]) \cup TooOld(stream.dst[e], stream.time[e])
               : e \in BlockEdges(nextBlock) }
  /\ expEids' = Dead(expired') \ Dead(expired)
  /\ calMax' = IF cal > calMax THEN cal ELSE calMax
  /\ calEdges' = cal - Cardinality(expEids')
  /\ nextBlock' = nextBlock + 1
  /\ UNCHANGED <<stream, trainVars>>

\* Mutant of GiveReturned: the slots that are not needed are forgotten.
GiveReturnedForget ==
  /\ nextBlock < NBlocks /\ Len(Returned) >= Size(nextBlock)
  /\ Give(SubSeq(Returned, 1, Size(nextBlock)))
  /\ free' = free
  /\ Expire

\* The slots taken back are enough; the others are kept.
GiveReturned ==
  /\ nextBlock < NBlocks /\ Len(Returned) >= Size(nextBlock)
  /\ Give(SubSeq(Returned, 1, Size(nextBlock)))
  /\ free' = free \o SubSeq(Returned, Size(nextBlock) + 1, Len(Returned))
  /\ Expire

\* Mutant of GiveKept: the slots used stay in the list.
GiveKeptTwice ==
  LET missing == Size(nextBlock) - Len(Returned) IN
  /\ nextBlock < NBlocks /\ missing > 0 /\ missing <= Len(free)
  /\ Give(Returned \o SubSeq(free, 1, missing))
  /\ free' = free
  /\ Expire

\* They are enough together with slots kept before.
GiveKept ==
  LET missing == Size(nextBlock) - Len(Returned) IN
  /\ nextBlock < NBlocks /\ missing > 0 /\ missing <= Len(free)
  /\ Give(Returned \o SubSeq(free, 1, missing))
  /\ free' = SubSeq(free, missing + 1, Len(free))
  /\ Expire

\* New slots are added to all there are.  The first block, when nothing has
\* expired, gets the slots from 0.
GiveNew ==
  LET missing == Size(nextBlock) - Len(Returned) - Len(free) IN
  /\ nextBlock < NBlocks /\ missing > 0
  /\ Give(Returned \o free \o Fresh(missing))
  /\ free' = <<>>
  /\ Expire

----------------------------------------------------------------------------
(* Training *)

SlotIn(b, e) == replace[b][e - First(b) + 1]

\* update_valid_edge of block b: a slot outside of valid_ef raises.
Store(b, map, ef) ==
  /\ ToSet(replace[b]) \subseteq DOMAIN ef
  /\ validMap' = [e \in Edges |-> IF e \in BlockEdges(b) THEN SlotIn(b, e) ELSE map[e]]
  /\ validEf' = [s \in DOMAIN ef |->
                   IF \E e \in BlockEdges(b) : SlotIn(b, e) = s
                   THEN CHOOSE e \in BlockEdges(b) : SlotIn(b, e) = s ELSE ef[s]]
  /\ validBlock' = b

\* init_valid_edge and reset_valid_edge: zeros, and the edges of block 0.
ResetValidEdge ==
  /\ nextBlock = NBlocks
  /\ epoch < Epochs /\ (epoch = 0 \/ validBlock = NBlocks - 1)
  /\ Store(0, [e \in Edges |-> 0], [s \in DOMAIN owner |-> Zeros])
  /\ epoch' = epoch + 1
  /\ UNCHANGED <<stream, planVars>>

\* pre_fetch of the next block, before it reads the features of its edges.
PreFetch ==
  /\ epoch > 0 /\ validBlock + 1 < NBlocks
  /\ Store(validBlock + 1, validMap, validEf)
  /\ UNCHANGED <<stream, planVars, epoch>>

Terminated == epoch = Epochs /\ validBlock = NBlocks - 1 /\ UNCHANGED vars

Next ==
  \/ GiveReturned \/ GiveKept \/ GiveNew
  \/ ResetValidEdge \/ PreFetch \/ Terminated

Spec == Init /\ [][Next]_vars

----------------------------------------------------------------------------
(* What must hold *)

EdgeTypeOK ==
  /\ stream \in Stream
  /\ nextBlock \in 0 .. NBlocks
  /\ expired \subseteq Entries /\ expEids \subseteq Edges
  /\ DOMAIN owner = 0 .. endPtr - 1 /\ \A s \in DOMAIN owner : owner[s] \in Edges
  /\ free \in Seq(DOMAIN owner) /\ replace \in [Blocks -> Seq(DOMAIN owner)]
  /\ calEdges \in 0 .. NEdges /\ calMax \in 0 .. NEdges
  /\ validMap \in [Edges -> Nat]
  /\ \A s \in DOMAIN validEf : validEf[s] \in Edges \cup {Zeros}
  /\ validBlock \in Blocks /\ epoch \in 0 .. Epochs

\* Edges of the blocks that have been gone through.
Seen == { e \in Edges : e < First(nextBlock) }

\* Every edge that is not dead, or whose slot has not been taken back yet, owns
\* one slot, and no other slot but those in the list is there.
SlotsAccounted ==
  LET held == (Seen \ Dead(expired)) \cup expEids IN
  /\ \A e \in held : Cardinality({ s \in DOMAIN owner : owner[s] = e }) = 1
  /\ \A s \in DOMAIN owner : owner[s] \in held <=> s \notin ToSet(free)
  /\ Cardinality(ToSet(free)) = Len(free)

\* The array is not larger than the edges that were alive at one time.
NoSlotWasted == endPtr = calMax

\* Queries of each layer of sample_layer for block b: the roots and any negative
\* node at the times of the block, then also the neighbours found, each at the
\* time of its edge.
Queries(b) ==
  LET q[i \in 0 .. Layers - 1] ==
        IF i = 0 THEN { <<n, stream.time[e]>> : n \in Nodes, e \in BlockEdges(b) }
        ELSE q[i - 1] \cup UNION { { <<OtherEnd(p), stream.time[EdgeOf(p)]>> : p \in Recent(x[1], x[2]) }
                                   : x \in q[i - 1] }
  IN  q[Layers - 1]

\* Edges whose features a batch of block b may ask for.
Wanted(b) ==
  BlockEdges(b) \cup UNION { { EdgeOf(p) : p \in Recent(x[1], x[2]) } : x \in Queries(b) }

\* get_ef_valid returns the feature of the edge asked for.
FeaturesRight ==
  epoch > 0 => \A e \in Wanted(validBlock) : validEf[validMap[e]] = e
=============================================================================
