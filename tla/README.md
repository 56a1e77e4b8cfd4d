# Verification of the block pipeline of DOLPHIN

DOLPHIN trains temporal graph networks on edge streams whose node memory and
features do not fit on the GPU. The stream is cut into *blocks* of
`block_size` edges. While the GPU trains a block, a second process prepares the
next one. The modules here model how node memory and features move between the
two processes, the plans made for that before training, the list of batches and
what the batches do to the mailbox, and the temporal sampler. TLC checks them on
small instances; TLAPS proves every safety property they check for every size.

## 1. Inventory

| Component | Source | State | Operations | Talks to |
|---|---|---|---|---|
| Training driver | `train.py` | epoch loop, two pipes, the worker process | start, reset, batch loop, refresh, `except`/`finally` | feature buffer, MailBox, worker |
| Feature buffer | `feat_buffer.py` | `part_node_map`, `part_memory*`, `part_mailbox*`, features of the block on the GPU, `cur_block`, `memory_info`, `neg_info` | `run_batch`, `prefetch_after`, `pre_neg_sample`, `analyze`, `select_index`, `update_index`, `refresh_memory`, `reset` | worker: `prefetch_conn` (commands and answers), `prefetch_only_conn` (results of `pre_fetch`), shared tensors |
| Prefetch process | `pre_fetch.py` | memory and mailbox of every node, features, caches | `run`, `pre_fetch`, `mem_update`, `mem_select`, `prefetch_after`, `select_index`, `update_index`, `reset_memory` | feature buffer |
| MailBox | `memorys.py` | mail positions | `update_memory`, `update_mailbox`, `prep_input_mails`, `reset` | feature buffer |
| Node-memory cache plan | `preprocess/node_memory.py` | files: cache start, cache end, flush positions per block | one pass before training | replayed by `mem_update` |
| Valid-edge cache | `preprocess/memory_preprocess.py`, `pre_fetch.py` | slot of every edge, edge features of the valid slots | plan before training, `update_valid_edge` per block | worker |
| Feature cache | `feat_buffer.py` `gen_part_stream`, `stream_extract` | increments against the previous block and a bucket cache | plan before training, `pre_fetch` and `prefetch_after` per block | worker, trainer |
| Adaptive splitting | `eid_analyze/*.py` | list of batches | one pass before training | driver, by a file |
| CPU sampler | `sampler/sampler_core.cpp` | per-node time pointers, locks, the parts of each thread | `sample`, `update_ts_ptr`, `sample_layer`, `combine_coo`, `reset` | driver |
| GPU sampler, negative samplers | `sampler/*.py` | none that lasts | sampling | feature buffer |
| Layers | `layers.py`, `modules.py` | weights | forward, backward | driver |
| Files and datasets | `utils.py`, `gen_graph.py`, other `preprocess/*.py` | files | load, save, convert | all |
| DGL | `dolphin_dgl/` | vendored library | `findSameIndex`, sampling kernels | all |

### What is hard

* **Two processes, one memory.** A node's newest memory is on the GPU, in a
  `memory_info` tuple, in a message, or with the worker. Each boundary moves it.
  The worker reads nodes for block *b+1* while block *b* is being trained, so it
  reads values that are about to become stale. That is right only if exactly
  these nodes are carried over on the GPU.
* **Write-back is one block late.** What leaves the GPU at boundary *b* is sent
  with the request for block *b+1* (asynchronous mode), or saved for a block and
  sent then (synchronous mode). At the last boundary there is no request.
* **Shared tensors without locks.** Only the order of messages keeps the
  worker's writes and the trainer's reads apart.
* **Two pipes.** `pre_fetch` answers on one, everything else on the other.
* **A full shared tensor.** The worker reports an "extension" and waits for an
  answer; the trainer has no code to send one.
* **Replayed plans.** Cache slots, feature increments and valid edges are
  planned offline and replayed during training; plan and replay must agree on
  what every block contains, and on what stayed in a slot from several blocks ago.
* **Threads under locks.** The sampler's threads move shared pointers forward in
  any order, and share loops by a chunk computed in floating point.
* **Edges out of order.** Adaptive batches take edges out of the order of time;
  mails and clocks follow the batches, block and negatives follow the eids.

`PROJECT.json` lists the hazards with their lines, and the properties that cover
them.

### What makes each component correct

* Pipeline: the batches see the memory that training without any cache would
  see; no update is lost; the installed block is the expected one; the shared
  tensors do not change while they are read; the epoch ends.
* Cache plan and slots: a slot holds one node; a cached value is never read
  after its slot was reused; the worker's store still behaves as one value per node.
* Valid edges: an edge used by a block has a slot with its own feature.
* Feature cache: the assembled features of a block are the features of its nodes
  and edges.
* Splitting: every edge is in one batch, once; a batch is as stale as the worst
  fixed batch and no staler; it lies within one block.
* CPU sampler: no pointer hides an entry from a root; every root gets its own
  latest neighbours, under its own number, in every layer.
* MailBox: no batch reads a mail of its future; the last mail of a node wins.

## 2. Plan

| Order | Module | Content | State |
|---|---|---|---|
| 1 | `NonCachedMemory` | abstract specification: one memory, accessed block by block | done |
| 2 | `BlockPipeline` | trainer, worker, pipes, shared tensors | done |
| 3 | `BlockPipelineInv`, `...Proofs`, `...Safety` | inductive invariant, proofs, refinement of `NonCachedMemory` | done |
| 4 | `NodeStore`, `CachePlan`, `DiskMemory` | the worker's memory on disk with its planned cache, and what it promises | done |
| 4a | `DiskMemoryProofs` | inductive invariants of plan and replay; all properties proved, refinement of `NodeStore` | done |
| 5 | `ValidEdges` | slots of the edge features: plan of `memory_preprocess.py`, replay in `update_valid_edge` | done |
| 6 | `FeatureCache` | increments and bucket cache of the features: `gen_part_stream`, `stream_extract`, `pre_fetch`, `prefetch_after` | done |
| 7 | `TrainingBatches` | lists of batches, the boundary of a block, negatives, mailbox and clocks | done |
| 8 | `ParallelSampler`, `...Proofs` | CPU sampler: pointers under locks, sampling, joining; proofs of all its safety properties | done |
| 8a | `DataLemmas` | induction and recursion over naturals, sequences without repetition, counting | done |
| 8b | `TrainingBatchesProofs`, `ValidEdgesProofs`, `FeatureCacheProofs` | inductive invariants and all safety properties of 5, 6 and 7 | done |
| 9 | `BlockPipeline` with `memory_disk` | `select_index` answers zeros and `update_index` does nothing: `StoreAfterRefresh` does not hold there | later |
| 10 | `ScratchCalls` | the four calls per index, each overwriting `share_tmp`; merged into one in `BlockPipeline` | later |

**Composition.** `BlockPipeline` is the composition of trainer, worker and
channels. Its `store` is one value per node; `NodeStore` states what the worker
owes to such a store, and `DiskMemory` shows that the file, the cache and the
slots provide it. `StoreRequest` of `NodeStore` is `MemUpdate` of `BlockPipeline`
with the nodes of `Leaving`, and its `store` is what `MemSelect` reads.
`ValidEdges` and `FeatureCache` replay their plans within the same requests:
their `PreFetch` belongs to `StartPrefetch` .. `Publish` of `BlockPipeline`, and
`PrefetchAfter` of `FeatureCache` to `Install`. `RunBatch` of `TrainingBatches` is
the boundary at which `BlockPipeline` enters a block, and its `Train` is
`TrainBatch`: one counts updates, the other orders them. The modules share no
state beyond this, so each is checked by itself with the others' behaviour as
its inputs.

**Abstract specifications.** `NonCachedMemory` for `BlockPipeline`; `NodeStore` for
`DiskMemory`. What `FeatureCache` and `ParallelSampler` promise is stated
without another module: a row is the feature of its item (`FeaturesRight`), a
result is the set of latest neighbours computed from the graph alone
(`Latest` in `SampleRight`).

**Theorems.** For every module an inductive invariant, the type invariant and
every safety and action property the passing runs check; the refinements of
`NonCachedMemory` and `NodeStore`. Hypotheses beyond the assumptions on the constants
are in three places, and each is named where a run refutes the theorem without it:
`Fits` for the refinement of `NonCachedMemory`, one layer for `FeaturesRight` of
`ValidEdges`, and what section 5 says of `FeatureCache`.

## 3. The modules and the code

### `BlockPipeline`

| Model | Code |
|---|---|
| `ppc`, `curBlock`, `batches` | place of the trainer in `train.py`'s loop and `run_batch`; `cur_block` |
| `gpuNodes`, `gpuMem` | `part_node_map`; `part_memory`, `part_memory_ts`, `part_mailbox`, `part_mailbox_ts` |
| `memInfo`, `saved` | the local `memory_info`; `self.memory_info` and `self.neg_info` of the synchronous mode |
| `cmd`, `rep` | the two directions of `parent_conn` / `prefetch_conn` |
| `res` | `prefetch_only_conn` |
| `share`, `scratch` | `share_part_*` tensors; `share_tmp` |
| `store` | the worker's `memory`, ... of every node |
| `wpc`, `job`, `built` | place of the worker in `run` and `pre_fetch`; arguments; locals |
| `truth` | `det_memory`, the memory of the non-cached scenario |
| `EnterFirst`, `EnterAsync`, `EnterSync`, `RecvResult`, `Install`, `InstallFails`, `SampleNext` | `run_batch` at a boundary, cut where it sends, receives or copies |
| `TrainBatch`, `EndBlock` | a batch with `update_memory` and `update_mailbox`; the next batch starts a block |
| `Refresh`, `RefreshDone`, `Exit`, `Terminate` | `refresh_memory`; the `finally` clause of `train.py` |
| `SelectIndex`, `UpdateIndex`, `UnknownFunction`, `StartPrefetch` | `Pre_fetch.run` dispatching a command |
| `MemUpdate`, `MemSelect`, `Extension`, `Publish`, `Reply` | `pre_fetch`, cut at each effect on shared or worker state |

A value is the number of updates a node has received. `memory`, `memory_ts`,
`mailbox` and `mailbox_ts` are moved by the same calls in the same order, so one
value stands for all four; the four calls `select_index` and `update_index` make
at the first and the last block are one message. `Junk` is what `torch.empty`
leaves. Negative nodes are any set of nodes, chosen when `pre_neg_sample` runs.
`BlockPipelineInv` holds the inductive invariant. `NonCachedMemory` is training
without any cache: a batch updates the memory itself, and a block gives access
to the memory of its nodes.

### `CachePlan` and `DiskMemory`

| Model | Code |
|---|---|
| `roots`, `Leaves` | end points of a block; `block_info` of `gen_part` in `node_memory.py` |
| `Intervals` | `gen_intervals`: two consecutive departures of a node |
| `pending`, `NextUp`, `HasRoom`, `Select`, `Skip`, `chosen`, `budget` | `transform_intervals`, `select_interval_ID` |
| `Save`, `plan` | `data_placement_single`, `gen_simple`: the files of the plan |
| `Size`, `maxNum` | the loop that computes `simple_max_num` |
| `Load`, `Reset` | `init_memory`, `reset_memory` |
| `RequestNothing`, `UpdateStatic`, `UpdateSimple` | `mem_update` with nothing to write, without and with the plan |
| `Lookup` | `mem_select` for one node |
| `memFlag`, `slot`, `used`, `cache`, `disk`, `row`, `block` | `mem_flag`, `node_cache_flag`, `node_cache_used`, `cache_memory`, `total_memory.bin`, `node_reorder_map`, `pre_fetch_block` |

`UpdateSimple` replays the plan by the request number: `cur_block` is
`pre_fetch_block - 2`, because what left the GPU at the boundary of a block is
sent two requests later. `NodeStore` is the promise: one value per node, zero
after `reset_memory`, then what the last request brought. `train.py:464` sets the
number of epochs to 1 whatever the configuration says; `DiskMemory` is checked
with two, since `reset_memory` is written for several.

### `ValidEdges`

| Model | Code |
|---|---|
| `stream`, `Entries` | the edge stream and its graph in `ext_full.npz`; with `--add_reverse` an edge has an entry in both rows |
| `Before`, `TooOld`, `Recent` | the sampling kernels `sample_with_expired` and `sample_with_ts_recent` as sets of entries |
| `nextBlock`, `expired`, `expEids`, `owner`, `free`, `replace`, `calEdges`, `calMax` | `batch_num`, `expired`, `exp_eids`, `map`, `unexpire_ind`, the files `part*_edge_incre_replace`, `cal_edge_num`, `cal_max_edge_num` of `gen_expire` |
| `GiveReturned`, `GiveKept`, `GiveNew` with `Expire` | one round of its loop: the three ways to find slots, then the sampling that expires edges |
| `ResetValidEdge`, `PreFetch` | `init_valid_edge` and `reset_valid_edge`; `update_valid_edge` within `pre_fetch` |
| `validMap`, `validEf` | `valid_map`, `valid_ef`; a row is the edge whose feature it holds |
| `Queries`, `Wanted` | `sample_layer` for the roots and any negative node of a block |

The threads of `sample_with_expired` race on the marks of a row: each marks from
its place towards older entries and stops at a mark. Every thread goes on below
any mark it made, so together they mark every entry older than the newest
place; the model takes that set.

### `FeatureCache`

| Model | Code |
|---|---|
| `content`, `kind`, `dataIncre` | `nid_uni` or `eid_uni` of each block; nodes and edges go through the same code; `data_incre` |
| `PlanBlock`, `PlanPeriod`, `PlanEnd` | one round of `gen_part_stream` within a period, at the end of a period, and after the loop |
| `Count`, `Hottest`, `Merge`, `Gone`, `Incre` | the counters, their `sort`, `pre_bucket_nid_idx` with the items that leave and come |
| `NthOf`, `Sorted`, `Masked` | the place of a number, numbers in order (`torch.sort`, `torch.unique`), a tensor under a mask |
| `info`, `mask`, `his`, `paths` | the saved `pos_in_cache`, `pos_in_pre`, `pos_cache_indices`; `cache_nid_incre_mask`; `node_his`; `node_save_paths` |
| `Windows`, `InWindow`, `OfWindow`, `RowRead`, `Extracted`, `StreamExtract`, `files` | `stream_extract` with its windows over the feature file, and what it writes |
| `Waiting` | `his_mem_byte`, in rows |
| `LoadPart` | `load_part`, `analyze`, `init_bucket_cache` |
| `PreFetch`, `Advance`, `bucketFeat`, `share` | the features in `Pre_fetch.pre_fetch`; the bucket cache of the worker; shared tensors |
| `PrefetchAfter`, `gpu` | `Feat_buffer.prefetch_after`; rows on the GPU |

A row is the item it belongs to. `sort` orders equal counts in any way. The
counter of the edges is never raised, so every edge cache is a free choice;
this costs hits, not correctness. `get_n_feat` looks up an item that is not there
at index -1, the last row; the model does so too.

### `TrainingBatches`

| Model | Code |
|---|---|
| `threshold`, `Staleness`, `Delta` | `max_threshold`, `calculate_staleness`, `calculate_delta` |
| `SplitOff`: `Taken`, `Without`, `Filled` | one round of `adaptive_split_in_large_batch`: its first loop, the deletion of what it took, its second loop |
| `SplitFixed`, `SplitAdaptive`, `Collected` | `eid_certain_num.py`; `process_split` and the order of its results |
| `RunBatch`, `PreNegSample`, `negs`, `negsAsync` | `run_batch` at a boundary, `pre_neg_sample`, `neg_sample_nodes` and `neg_sample_nodes_async` |
| `Train`, `read` | a round of the loop of `train.py`; the mails `prep_input_mails` finds |
| `UpdateMailbox`, `UpdateMemory`, `mail`, `memTs` | the same names in `memorys.py` |

An edge is its eid, which is also its time. The second loop adds edges with both
end points known, two to the staleness each, so the model counts them.

### `ParallelSampler`

| Model | Code |
|---|---|
| `Call`, `Reset` | `sample` up to its first layer; `reset` |
| `Lock`, `Unlock` | an iteration of `update_ts_ptr`, up to `omp_set_lock` and the read of the pointer, and the rest |
| `Barrier` | the end of the first parallel loop |
| `Sample`, `IsPick` | an iteration of the loop of `sample_layer`, with `add_neighbor` |
| `CombineCoo`, `EndLayer` | `combine_coo` for one thread's part; the next layer or the return |
| `Share`, `Chunk`, `Float` | `schedule(static, int(ceil(static_cast<float>(n) / num_threads)))` |
| `Beyond`, `RoundFrom` | `ts > root_ts - 1e-7f`: from some time on, the difference is the time itself |

`ts_ptr[0]` never moves with one history, so only `ts_ptr[1]` is a variable. The
order among a root's neighbours is that of the loop, latest first.

## 4. What each run checks

| Run | Bounds | Shows |
|---|---|---|
| `block_pipeline` | 2 nodes, 4 blocks, 1 batch a block, every setting and every stream | the batches see the non-cached memory; no update is lost but those `Dropped` names; the shared tensors are stable; refinement |
| `block_pipeline_live` | 2 nodes, 3 blocks, 2 batches a block, both orders of messages, fairness | the epoch ends when every block fits |
| `block_pipeline_overflow` | as the first, one row of shared memory, fairness | a block that does not fit is the last one the trainer enters, and both processes then wait for each other for ever, or the install raises; the inductive invariant holds also there |
| `block_pipeline_extension` | the same | a violation: see below |
| `disk_memory` | 6 blocks, node 0 in all, node 3 in every other, 2 nodes that come and go; 2 slots; 2 orders of rows; 2 epochs; every way of caching | the disk memory implements `NodeStore`; the plan keeps its limit and is maximal; slots are never shared, never too few, never returned early, after a reset too |
| `valid_edges` | 9 edges in 5 blocks, 2 users, 1 or 2 items, equal and rising times, 2 epochs | each edge a block may ask for has its own feature, in the second epoch too; slots that come back are kept, given out later, never lost, shared or made without need |
| `valid_edges_layers` | 5 edges, 2 sampling layers | a violation: see below |
| `feature_cache` | 3 items, 9 edges in 5 blocks, periods of 2 blocks, a cache of 2 rows, one window, nodes and edges, both increments | every item of a block and every negative sample has its own feature; the worker's cache is the one its block was planned for; what stays in the cache keeps its slot |
| `feature_cache_windows` | the same, windows of 2 rows | a violation: see below |
| `feature_cache_no_edges` | the same as the first, without edge features | a violation: see below |
| `training_batches` | 4 nodes, 9 edges, large batches of 6, batches of 2, fixed and adaptive | no edge is lost or trained on twice; staleness meets the threshold; block and negatives belong to the batch; no mail from the future, the latest mail wins; a node's mail, its time and its clock are of one batch; clocks go forward |
| `parallel_sampler` | 2 threads, 2 layers, fan-out 1, 4 nodes, streams of 4 edges in batches of 2, `reset` at any time between calls, fairness | pointers cover, move forward only; every root of both layers gets its latest neighbours; every call returns |

**Why the bounds are enough.** A value travels from the GPU through
`memory_info`, a message and the worker back to the GPU in three boundaries
(capture at *b*, request for *b+1*, install at *b+1*); four blocks hold a node
that leaves, stays away, and comes back, with a boundary to spare. With two nodes,
one stays while the other leaves, both ways round. An interval of the cache plan
needs two departures of a node and requests reach two blocks ahead; with six
blocks and three nodes that leave, two overlapping intervals end in any order and
their slots are taken by a third. For the edges one neighbour per sample is enough
to make an edge the last, or one too old; five blocks are the shortest stream in
which slots are kept over a block and given out after it. Five blocks with periods
of two give three caches of features: one made, one merged with it, one at the
end of the list; three items and two slots make an item stay, leave and come back.
Nine edges in large batches of six are a full large batch and a short one, with
an adaptive batch, a batch that is cut by the end, and edges pulled over others;
a node occurs several times in a batch, on both sides. Two threads are enough to
hold two locks, to wait for one, and to finish a loop in any order; the proofs
hold for any number. `RoundFrom` = 2 has times on both sides of the rounding.
`HisLimit` (the rows that may wait for `stream_extract`) and `FloatExact` are out
of reach in all runs.

**Fairness.** `FairSpec`, the specification of `block_pipeline_live` and
`block_pipeline_overflow`, has weak fairness of the trainer and of the worker. The
worker's loop polls its pipe and serves what it finds; the trainer's steps are
plain calls, and its only waits are `recv()`. Nothing more is assumed: batches of
a block may end after any number, up to the bound. `FairSpec` of `ParallelSampler`
has weak fairness of every step of a thread and of what the first thread does
between the loops: the operating system runs every thread. A thread that waits
for a lock needs no more, since the iterations before it are finite in number.

**First finding.** `feat_buffer.py:366-372` compares what a batch reads with the
non-cached memory. When a block has more nodes than the shared tensors have rows,
the worker answers `extension` and waits for the trainer to reply. The
trainer takes that message for a result, installs what the tensors held before,
and trains the block on it: `InputsNonCached` is violated. The epoch then stops,
since the worker waits for ever: `OverflowIsLast` says that no later block is entered,
`OverflowStalls` that the run comes to `MutualWait`, where each process waits for a
message of the other, or to `GivenUp`, where the lengths of the tensors differ and
the install raises, and stays there.

**Second finding.** `gen_expire` plans the valid edges for one layer of ten
neighbours (`memory_preprocess.py:39`); the repository also ships models of two
layers, and `mem_w_valid.json`, the default setting, uses the plan for all. The
second layer samples at the times of the edges found, so it reaches edges that
have expired for the roots. Their slots hold the features of other edges, and
`get_ef_valid` returns these. With one layer, and not more neighbours than the
plan was made for, `FeaturesRight` holds.

**Third finding.** `stream_extract` reads the feature file in windows, and gives
`np.fromfile` an offset counted in numbers where bytes are meant
(`feat_buffer.py:1076`). Every row of a later window is that of another item. It
takes a feature file larger than a window, 18 GB by default; with one window
`FeaturesRight` holds. With several, the rows of the first bucket cache are also
saved in the order of the windows, not of its slots.

**Fourth finding.** `pre_fetch` replaces both caches under one condition, the
existence of the edge file (`pre_fetch.py:505`). A data set without edge features
plans a new node cache every period and never loads it, so later blocks take
rows of other nodes from the cache of the first period.

**Not a finding, but close.** When the rows that wait for `stream_extract` reach
`his_mem_threshold` they are written and `node_his` is cleared, while
`node_save_paths` is not (`feat_buffer.py:1371`): rows collected later go to the
files of the first blocks. `PlanPeriod` does the same; no run has so many rows.

**Updates that are lost by design of the loop.** What leaves the GPU at the last
boundary is put in a `memory_info` that no request carries, and
`refresh_memory` writes only the nodes on the GPU. Nodes of the block before the
last that are not on the GPU then keep the memory they had before that block.
`Dropped` names exactly these nodes, and `NoLostUpdate` and `StoreAfterRefresh`
hold for all others. Within an epoch nobody reads them again.

## 5. What is proved

### The pipeline

`BlockPipelineProofs` holds lemmas about the operators and the type invariant,
`BlockPipelineSafety` the inductive invariant, the safety properties and the
refinement of `NonCachedMemory`. They hold for
every set of nodes, number of blocks, stream, capacity and setting that satisfies
`PipelineAssumption`; the last also needs that every block fits (`Fits`), without
which the finding above is a counterexample.

The argument: no safety property is inductive, because each of them speaks of one
copy of a node while a step may change which copy that is. `IInv`
therefore says, for each place of the trainer, where the request for the next
block is (queued, served, answered) and which nodes the worker's memory may be
behind on (`StoreBehind`). Its core is one fact: outside the roots of the block
being trained, a copy the worker holds is stale only if a `memory_info` on its
way brings the newer one. The next block's selected rows are then stale only for
the roots of the present block, and these are on the GPU and are carried over by
`Install`. `StuckInv` and `AfterInv` close the invariant over the worker that is
stuck and the run that is over. One step of the proof is an action, and under it
one conjunct of `IInv`. TLC checks `IInv` in `block_pipeline_overflow`.

### The memory on disk

`DiskMemoryProofs` holds lemmas about the plan and the theorems of `CachePlan` and
`DiskMemory`, for every set of nodes, stream, limit, way of caching, order of rows
and number of epochs: what `PlanAssumption` and `DiskAssumption` ask. Every
property that `disk_memory` checks is proved.

The plan: `PlanInv` says that the budget of a step of time and the chosen
intervals open at it add up to the limit (`Accounted`), and that an interval which
was skipped met a budget of zero (`Refused`), which stays zero. The first interval
always has room, so with intervals the choice is never empty, and the case of
`data_placement_single` that keeps all intervals never applies.

The replay: `mem_update` never looks at who holds a slot; it trusts the block
number. `SlotsExclusive` alone is not inductive, since slots taken too long or
given back too early keep it true until a later block. `Planned` ties the slots
to the plan: a node has a slot if and only if one of its intervals is open at
the last block replayed. The lemma `Replay` is the heart of it: intervals of one
node do not overlap, since they end where the node leaves, so of the nodes that
leave after a block those with a slot are exactly those whose interval ends
there. Hence no ended interval gives back slot 0, no node gets a second slot, and
a node whose new value goes to the file has no slot that would hide it
(`SimpleLookup`). `SlotsSuffice` counts: those who keep a slot and those who get
one hold different intervals of `batch_plan`, and `simple_max_num` was
computed over all blocks.

The lowest free slots exist once there are enough of them (`LowestSlots` is not
empty): slots and nodes are matched by rank (`RankFacts` of `DataLemmas`). So the
replay never comes to a request it cannot serve (`ReplayGoesOn`, with no
hypothesis), which to TLC would be a deadlock.

### The sampler

`ParallelSamplerProofs` has the type invariant, `PointersCover`,
`PointersForward` and `SampleRight`. They hold for
every graph with sorted rows, every list of batches, and any number of threads,
layers and neighbours: what `SamplerAssumption` asks.

`PointersCover` is about the second loop, but it is earned in the first. `PInv`
adds the discipline of the locks (`LockInv`: who holds a lock works on a root of
his own, the pointer is still the one he has read, and nobody else holds the lock
of the node) and says that a root nobody has before him any more is served
(`DoneInv`). A pointer under a lock moves forward, past everything before the
time asked for (`AdvancedCovers`); moving forward unserves no other root of the
node. At the barrier no thread has a root left, and `DoneInv` is `PointersCover`.
That every root is some thread's is `ShareCovers`, which holds for any chunk.

`SampleRight` needs more of the schedule: the share of a thread must be one
interval, because `combine_coo` numbers the roots by counting them (`ShareIs`, for
counts that a float holds exactly). `SInv` then says how far each thread is in
its interval, that its list gives just these roots their latest neighbours, and
that the joined list does so for the threads joined. That the entries picked are
the latest, as many as the fan-out, is `PickIsLatest`; it counts with injections
and surjections. One step of the proof is an action.

### Induction over data

The next three components compute their plans with loops over lists. The library's
induction theorems take an operator as a parameter, which the provers cannot
instantiate. `DataLemmas` goes around it: a set of naturals that is not empty has a
least element (`LeastNatural`, from the well-founded order of the naturals), so a set
with 0 that has n + 1 with n has all of them (`SetInduction`); the set is then chosen
as the numbers for which the loop is as it should be. `Recursion` and
`BoundedRecursion` show in the same way that a function defined by recursion exists,
given the step as a function. The rest of the module counts and joins sequences
without repetition.

### The batches

`TrainingBatchesProofs`, for every stream, threshold, size of batches, number of
mails and way of splitting. No property here is inductive by itself: `EveryEdgeOnce`
speaks of a complete list, and `LatestMail` of mails that were read from it.

`Lists` says of an incomplete list that the batches so far and the edges still to come
are the stream, cut in two: what is before the large batch of the list is in a batch,
what is behind it is not, within it an edge is in a batch or in the rest, never both
(`ListOf`, `RestOf`). The rest of an adaptive split is in ascending order (`Increasing`),
and this is what `SplitOff` needs and keeps. Its two loops are functions over a
sequence: `LoopAt` is the invariant of the second one, relating the edges taken, the
nodes met and the staleness counted after each position. The deletion of positions that
were collected while the list was whole is right because they ascend. `StalenessAtThreshold`
follows from the same loop, with an edge from a node to itself counted twice (`Loops`).

`BlockInv` ties the block on the GPU, and with it the negatives, to the batch that comes
next: all edges of a batch are in one large batch, which is a block of the run.
`MailInv` and `LatestOf` say that mails and clocks are of edges trained on, and a mail of
the latest edge of its node. A batch assigns several rows of one node at once, and the
last stays; `MailAt` and `ClockAt` give that row, the order of which differs between
`update_mailbox` (both ends of an edge together) and `update_memory` (first all sources).
The times of the mails are in the second order, the mails in the first, so a mail may have
the time of another edge; `StoredTogether`, proved relative to the invariant, says that it is
of the same batch.

### The valid edges

`ValidEdgesProofs`, for every stream, block size and fan-out. What a plan of slots must not
do is give a slot away that is still needed, and that shows several blocks later, in
another process. The invariant therefore states everything at once over the whole plan:
`ExpiredAt` and `DeadAt` are the entries and edges that are too old when a block is
reached, computed from the stream alone; `expired` is equal to the first. `OwnInv` says
that each edge held owns the one slot it was given and that the others are in the list,
`RepInv` that no block gives away the slot of an edge that was not dead before it, and
`CountInv` that alive, expired and free slots add up to the size of the array, which is no
more than was needed at one time. `Handout` is what the three ways to find slots have in
common (those that came back, those kept, new ones); one lemma for each shows it, and
everything after is proved once.

`TrainInv` replays: an edge of the blocks up to the one prepared that was not dead before
that block has its feature where `valid_map` says. `StoreKeeps` is the step: what a block
writes over was dead. `ReachedAlive` closes the argument: what a root or a negative node
may reach from a block is alive there, because the newer entries that expire one are
entries it would reach first. This is where one layer is needed: a second layer samples
at earlier times, and the run `valid_edges_layers` shows the edge it finds. `EdgeTypeOK`,
`SlotsAccounted` and `NoSlotWasted` are proved for any number of layers.

### The features

`FeatureCacheProofs`. The state forgets with which cache a block was planned: `idx` is only
the last. The invariant has that history as a bound variable: there is an F, the cache of
each block, from which everything saved was made. `Plan` relates it to `info`, `mask` and
`idx`; one cache follows the other through the mask (`Follow`, `Replaced`), where as many
items come as leave (`ComesAsGone`, a bijection between what stays on both sides).
`Collected` says that each file is in the list of paths once, with the rows F gives it;
`Filed` that it was written from them under its name, the blocks' as increments but for
the first. `RightInv` compares the tensors of both processes with F: the worker's cache is
that of the block it has prepared, a row on the GPU is right, and a row that was left for
the GPU is there.

| Theorem | Hypotheses | Without them |
|---|---|---|
| `SlotsKept` (`ItemsKeepSlots`) | none | |
| `FeatureInductive`, `FeaturesTyped` (`FeatureTypeOK`) | `Unflushed` | rows go to the files of other blocks (section 4, not a finding but close) |
| `FilesAreThere` (`FilesSuffice`) | `Unflushed` | a file may have rows of another block |
| `FeaturesOfItems` (`FeaturesRight`), `CacheAsPlanned` (`CacheFollowsPlan`) | `Unflushed`, `OneWindow`, `HasEdges` | the third and the fourth finding |

`Unflushed` says that all rows of all blocks and caches, at their most, stay below
`his_mem_threshold`; `OneWindow` that the feature file fits in one window. Both hold in
`feature_cache`. That several windows give back as many rows as were asked for, though
not the right ones, is proved by induction over the windows (`ExtractedFacts`): the types
of the files hold for any window, and so does `FilesAreThere`: `pre_fetch` and `load_part`
find every file they open, with a row for each item they look for.

### Only model-checked

`EpochFinishes`, `OverflowStalls` and `CallReturns`: liveness under fairness is out of the prover's reach.
The inductive invariant of the
pipeline is checked by a run as well; those of the other components are not, and their
parts are the properties of the runs with what the proofs need to tie them together.

## 6. What is not modelled

* Evaluation: `memorys.py:90` uses a name that is not defined, so evaluation
  stops there; `model_eval` is modelled for what it does to training.
* Exceptions in the worker: `run` does not catch them, its process ends without an
  answer, and the trainer waits for ever. Only the exceptions of a full shared tensor are followed.
* `node_simple_cache` without `node_cache`, which no configuration sets.
* The order of rows on disk: any permutation is allowed.
* `bucket_optimal` and the other ways to cut the stream (`gen_part`,
  `gen_part_stream_bucket_cache`, `gen_part_incre`), which no option of
  `disk_preprocess.py` reaches; dtypes, among them that of `share_tmp`,
  whose `.to(dtype)` would make a private copy.
* Batch sizes that do not divide the block (`BatchesAssumption`): all shipped
  configurations divide it. Any order in which `scatter_` applies repeated indices but
  the order of the CPU, to which `memorys.py:171` moves them.
* The lists of batches for validation; `mailbox_size` above 1 and mails to
  neighbours (`deliver_to`), which no shipped configuration sets. The order of
  adaptive batches is stated only from one large batch to the next: within one
  they may take a mail of a later edge, which is what they are made for.
* `mini_prefetch` (`train.py:234-250`), which `use_async_sample = False` (line 44)
  switches off; with it, the `get` of line 661 hands each batch the sample of the
  one before. `--use_cpu_sample` stops at `train.py:587`, where `root_nodes` has no
  value, so the CPU sampler is modelled as its own evaluation script calls it.
* Of the CPU sampler: uniform sampling (`rand_r`), several histories, windows,
  and the binary search that takes the place of the pointers when neither
  `recent` nor `prop_time` is set.
* The GPU's kernels: their results are sets in `ValidEdges`.
* Layers, weights, file formats, datasets and DGL: numerical code, I/O and
  libraries, without state the pipeline depends on. DGL is vendored whole; it is
  nearly all of the repository's lines, and of its code the program under study uses
  a few functions.
