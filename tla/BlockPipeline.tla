--------------------------- MODULE BlockPipeline ---------------------------
(***************************************************************************)
(* The block pipeline that keeps the node memory of a temporal GNN.        *)
(*                                                                         *)
(* The trainer (train.py, feat_buffer.py) holds on the GPU the memory of   *)
(* the nodes of one block of the edge stream.  The prefetch process        *)
(* (pre_fetch.py) holds the memory of every node.  At the boundary of      *)
(* block b the trainer takes the block the worker has prepared, and asks   *)
(* for block b + 1; the request carries the memory of the nodes that leave *)
(* the GPU (memory_info).  The worker writes that memory back, reads the   *)
(* nodes of block b + 1 that are not in block b, and publishes them in     *)
(* shared tensors while the trainer works on block b.                      *)
(*                                                                         *)
(* memory, memory_ts, mailbox and mailbox_ts are always moved together and *)
(* are one value per node here: the number of updates it has received.     *)
(* One epoch is modelled, as train.py runs one; Init is the state after    *)
(* mailbox.reset() and feat_buffer.reset().                                *)
(***************************************************************************)
EXTENDS Naturals, Sequences, FiniteSets

CONSTANTS
  Nodes,       \* the nodes of the graph
  NBlocks,     \* number of blocks of block_size edges in the training stream
  Streams,     \* the preprocessed edge streams a run may start from
  MaxBatches,  \* bound: batches trained in one block
  Capacity,    \* share_node_num: rows of the shared tensors
  Configs,     \* the settings of config/train_conf a run may start with
  Junk         \* contents of a tensor made by torch.empty

Blocks == 0 .. NBlocks - 1
Value  == Nat \cup {Junk}

\* A stream gives for each block the end points of its edges (roots) and the
\* precomputed node map of the block (pos), which contains them.
Stream == { s \in [roots : [Blocks -> SUBSET Nodes], pos : [Blocks -> SUBSET Nodes]] :
              \A k \in Blocks : s.roots[k] # {} /\ s.roots[k] \subseteq s.pos[k] }

\* use_async_prefetch, data_incre and model_eval
Config == [async : BOOLEAN, incre : BOOLEAN, eval : BOOLEAN]

ASSUME PipelineAssumption ==
  /\ NBlocks \in Nat \ {0}
  /\ Streams \subseteq Stream
  /\ MaxBatches \in Nat \ {0}
  /\ Capacity \in Nat
  /\ Configs \subseteq Config
  /\ Junk \notin Nat

VARIABLES
  stream,    \* the files the preprocessing left: constant during the run
  config,    \* GlobalConfig: constant during the run
  truth,     \* det_memory: the memory of the non-cached scenario
  ppc,       \* where the trainer is
  curBlock,  \* feat_buffer.cur_block: the next block to enter
  batches,   \* batches trained in the block on the GPU
  gpuNodes,  \* part_node_map
  gpuMem,    \* part_memory and its companions
  memInfo,   \* memory_info: what leaves the GPU at this boundary
  saved,     \* self.memory_info, self.neg_info (synchronous mode)
  cmd,       \* parent_conn, trainer to worker
  rep,       \* parent_conn, worker to trainer
  res,       \* prefetch_only_conn, worker to trainer
  share,     \* the shared tensors a prefetched block is published in
  scratch,   \* share_tmp: the shared tensor of select_index and update_index
  store,     \* the worker's memory of every node
  wpc,       \* where the worker is
  job,       \* arguments of the pre_fetch call being served
  built      \* locals of that call: nodes and selected memory

trainerVars == <<ppc, curBlock, batches, gpuNodes, gpuMem, memInfo, saved>>
workerVars  == <<store, wpc, job, built, share>>
channelVars == <<cmd, rep, res>>
setup == <<stream, config>>
vars == <<setup, truth, trainerVars, workerVars, channelVars, scratch>>

----------------------------------------------------------------------------
(* Helpers *)

\* Rows of f for the nodes of S; the other entries carry no data.
Rows(S, f) == [n \in Nodes |-> IF n \in S THEN f[n] ELSE Junk]

\* The memory of one node after one more update.
Bump(v) == IF v = Junk THEN Junk ELSE v + 1

Info == [nodes : SUBSET Nodes, mem : [Nodes -> Value]]

\* A memory_info that updates nothing (None, or a tuple of None).
NoInfo == [nodes |-> {}, mem |-> Rows({}, <<>>)]

PrefetchCmd(b, info, neg, base) ==
  [fn |-> "pre_fetch", block |-> b, info |-> info, neg |-> neg, base |-> base]
SelectCmd(S) == [fn |-> "select_index", nodes |-> S]
UpdateCmd(S) == [fn |-> "update_index", nodes |-> S]
ExitCmd      == [fn |-> "EXIT"]

Prefetch == [fn : {"pre_fetch"}, block : Blocks, info : Info,
             neg : SUBSET Nodes, base : SUBSET Nodes]
Command  == Prefetch \cup [fn : {"select_index", "update_index"}, nodes : SUBSET Nodes]
                     \cup {ExitCmd}

\* Block whose memory is on the GPU: cur_block is advanced after the install.
OnGpu == IF ppc = "sample" THEN curBlock ELSE curBlock - 1

\* Mutant of Leaving: the difference of the two root sets the wrong way round.
LeavingSwapped == stream.roots[curBlock] \ stream.roots[curBlock - 1]

\* Nodes whose memory is captured at the boundary of block curBlock: the end
\* points of the block just trained that are not end points of the next one,
\* or everything when the run will be evaluated.
Leaving == IF config.eval THEN gpuNodes
                        ELSE stream.roots[curBlock - 1] \ stream.roots[curBlock]

Init ==
  /\ stream \in Streams /\ config \in Configs
  /\ truth = [n \in Nodes |-> 0]
  /\ ppc = "loop" /\ curBlock = 0 /\ batches = 0
  /\ gpuNodes = {} /\ gpuMem = Rows({}, <<>>)
  /\ memInfo = NoInfo
  /\ saved = [info |-> NoInfo, neg |-> {}]
  /\ cmd = <<>> /\ rep = <<>> /\ res = <<>>
  /\ share = [block |-> 0, nodes |-> {}, base |-> {}, mem |-> Rows({}, <<>>)]
  /\ scratch = [n \in Nodes |-> Junk]
  /\ store = [n \in Nodes |-> 0]
  /\ wpc = "idle"
  /\ job = PrefetchCmd(0, NoInfo, {}, {})
  /\ built = [nodes |-> {}, mem |-> Rows({}, <<>>)]

----------------------------------------------------------------------------
(* The trainer: Feat_buffer.run_batch at a block boundary *)

\* Boundary of block 0: the buffer is empty, so memory_info updates nothing.
\* load_part and analyze make the node map of block 0 with its negative nodes;
\* the memory of these nodes is asked from the worker.
EnterFirst ==
  /\ ppc = "loop" /\ curBlock = 0
  /\ memInfo' = NoInfo
  /\ \E neg \in SUBSET Nodes :
       /\ gpuNodes' = stream.pos[0] \cup neg
       /\ cmd' = Append(cmd, SelectCmd(stream.pos[0] \cup neg))
  /\ ppc' = "first"
  /\ UNCHANGED <<setup, truth, curBlock, batches, gpuMem, saved,
                 workerVars, rep, res, scratch>>

\* select_index returns: the rows are taken from the shared scratch tensor.
TakeFirst ==
  /\ ppc = "first" /\ rep # <<>>
  /\ rep' = Tail(rep)
  /\ gpuMem' = Rows(gpuNodes, scratch)
  /\ ppc' = "sample"
  /\ UNCHANGED <<setup, truth, curBlock, batches, gpuNodes, memInfo, saved,
                 workerVars, cmd, res, scratch>>

\* Mutant of EnterAsync: the trainer does not wait for the worker's message.
EnterAsyncNoWait ==
  /\ ppc = "loop" /\ curBlock > 0 /\ config.async
  /\ memInfo' = [nodes |-> Leaving, mem |-> Rows(Leaving, gpuMem)]
  /\ ppc' = "install"
  /\ UNCHANGED <<setup, truth, curBlock, batches, gpuNodes, gpuMem, saved,
                 workerVars, channelVars, scratch>>

\* Boundary of a later block, asynchronous: the request was sent one block ago.
EnterAsync ==
  /\ ppc = "loop" /\ curBlock > 0 /\ config.async
  /\ memInfo' = [nodes |-> Leaving, mem |-> Rows(Leaving, gpuMem)]
  /\ ppc' = "recv"
  /\ UNCHANGED <<setup, truth, curBlock, batches, gpuNodes, gpuMem, saved,
                 workerVars, channelVars, scratch>>

\* Boundary of a later block, synchronous: the request is sent now, with the
\* memory captured at the boundary before.
EnterSync ==
  /\ ppc = "loop" /\ curBlock > 0 /\ ~config.async
  /\ memInfo' = [nodes |-> Leaving, mem |-> Rows(Leaving, gpuMem)]
  /\ cmd' = Append(cmd, PrefetchCmd(curBlock, saved.info, saved.neg, gpuNodes))
  /\ ppc' = "recv"
  /\ UNCHANGED <<setup, truth, curBlock, batches, gpuNodes, gpuMem, saved,
                 workerVars, rep, res, scratch>>

\* prefetch_only_conn.recv(): a message that reports an extension is printed
\* and otherwise treated as a result.
RecvResult ==
  /\ ppc = "recv" /\ res # <<>>
  /\ res' = Tail(res)
  /\ ppc' = "install"
  /\ UNCHANGED <<setup, truth, curBlock, batches, gpuNodes, gpuMem, memInfo, saved,
                 workerVars, cmd, rep, scratch>>

\* The rows of the GPU arrays the mask pre_same selects, one for each node of
\* both blocks: the node's own row when the mask was computed for the node map
\* now on the GPU, some row otherwise.
CarriedRows(S) ==
  IF share.base = gpuNodes THEN { [n \in S |-> n] } ELSE [S -> gpuNodes]

\* Mutant of Install: every row comes from the shared tensors, as if data_incre
\* were off.
InstallNoCarry ==
  /\ ppc = "install"
  /\ Cardinality(share.base) = Cardinality(gpuNodes)
  /\ gpuMem' = Rows(share.nodes, share.mem)
  /\ gpuNodes' = share.nodes
  /\ ppc' = "sample"
  /\ UNCHANGED <<setup, truth, curBlock, batches, memInfo, saved,
                 workerVars, channelVars, scratch>>

\* prefetch_after: nodes of both blocks keep the memory the GPU has, the others
\* take what the worker published.
Install ==
  /\ ppc = "install"
  /\ Cardinality(share.base) = Cardinality(gpuNodes)
  /\ LET same == share.nodes \cap share.base
     IN  \E row \in CarriedRows(same) :
           gpuMem' = [n \in Nodes |-> IF n \in same THEN gpuMem[row[n]]
                                      ELSE Rows(share.nodes, share.mem)[n]]
  /\ gpuNodes' = share.nodes
  /\ ppc' = "sample"
  /\ UNCHANGED <<setup, truth, curBlock, batches, memInfo, saved,
                 workerVars, channelVars, scratch>>

\* A mask of another length than the array it indexes raises; train.py prints
\* the exception and leaves.
InstallFails ==
  /\ ppc = "install"
  /\ Cardinality(share.base) # Cardinality(gpuNodes)
  /\ ppc' = "failed"
  /\ UNCHANGED <<setup, truth, curBlock, batches, gpuNodes, gpuMem, memInfo, saved,
                 workerVars, channelVars, scratch>>

\* Mutant of SampleNext: self.memory_info, of the boundary before, is sent
\* instead of the memory_info captured at this one.
SampleNextStaleInfo ==
  /\ ppc = "sample"
  /\ IF curBlock + 1 < NBlocks
     THEN \E neg \in SUBSET Nodes :
            /\ cmd' = IF config.async
                      THEN Append(cmd, PrefetchCmd(curBlock + 1, saved.info, neg, gpuNodes))
                      ELSE cmd
            /\ saved' = [info |-> memInfo, neg |-> neg]
     ELSE UNCHANGED <<cmd, saved>>
  /\ curBlock' = curBlock + 1
  /\ batches' = 0
  /\ memInfo' = NoInfo
  /\ ppc' = "train"
  /\ UNCHANGED <<setup, truth, gpuNodes, gpuMem, workerVars, rep, res, scratch>>

\* Mutant of SampleNext: pre_neg_sample lets the empty window after the last
\* block pass (start > end for start >= end), and a block is asked for that is
\* not there.
SampleNextPastEnd ==
  /\ ppc = "sample"
  /\ IF curBlock + 1 <= NBlocks
     THEN \E neg \in SUBSET Nodes :
            IF config.async
            THEN /\ cmd' = Append(cmd, PrefetchCmd(curBlock + 1, memInfo, neg, gpuNodes))
                 /\ saved' = saved
            ELSE /\ saved' = [info |-> memInfo, neg |-> neg]
                 /\ cmd' = cmd
     ELSE UNCHANGED <<cmd, saved>>
  /\ curBlock' = curBlock + 1
  /\ batches' = 0
  /\ memInfo' = NoInfo
  /\ ppc' = "train"
  /\ UNCHANGED <<setup, truth, gpuNodes, gpuMem, workerVars, rep, res, scratch>>

\* pre_neg_sample(curBlock + 1) and the request for that block; after the last
\* block there is none and memory_info goes out of scope unsent.
SampleNext ==
  /\ ppc = "sample"
  /\ IF curBlock + 1 < NBlocks
     THEN \E neg \in SUBSET Nodes :
            IF config.async
            THEN /\ cmd' = Append(cmd, PrefetchCmd(curBlock + 1, memInfo, neg, gpuNodes))
                 /\ saved' = saved
            ELSE /\ saved' = [info |-> memInfo, neg |-> neg]
                 /\ cmd' = cmd
     ELSE UNCHANGED <<cmd, saved>>
  /\ curBlock' = curBlock + 1
  /\ batches' = 0
  /\ memInfo' = NoInfo
  /\ ppc' = "train"
  /\ UNCHANGED <<setup, truth, gpuNodes, gpuMem, workerVars, rep, res, scratch>>

----------------------------------------------------------------------------
(* The trainer: batches, the end of the epoch and of the run *)

\* One batch: MailBox.update_memory and update_mailbox write the end points of
\* its edges; the memory of the non-cached scenario follows.
TrainBatch ==
  /\ ppc = "train" /\ batches < MaxBatches
  /\ \E S \in (SUBSET stream.roots[OnGpu]) \ {{}} :
       /\ gpuMem' = [n \in Nodes |-> IF n \in S \cap gpuNodes THEN Bump(gpuMem[n]) ELSE gpuMem[n]]
       /\ truth' = [n \in Nodes |-> IF n \in S THEN truth[n] + 1 ELSE truth[n]]
  /\ batches' = batches + 1
  /\ UNCHANGED <<setup, ppc, curBlock, gpuNodes, memInfo, saved,
                 workerVars, channelVars, scratch>>

EndBlock ==
  /\ ppc = "train" /\ batches > 0
  /\ ppc' = IF curBlock < NBlocks THEN "loop" ELSE "refresh"
  /\ UNCHANGED <<setup, truth, curBlock, batches, gpuNodes, gpuMem, memInfo, saved,
                 workerVars, channelVars, scratch>>

\* Mutants of Refresh: only the roots of the last block are written back; the
\* index of the write covers rows the scratch tensor was not filled for.
RefreshRootsOnly ==
  /\ ppc = "refresh"
  /\ scratch' = [n \in Nodes |-> IF n \in gpuNodes THEN gpuMem[n] ELSE scratch[n]]
  /\ cmd' = Append(cmd, UpdateCmd(stream.roots[curBlock - 1]))
  /\ ppc' = "refresh_wait"
  /\ UNCHANGED <<setup, truth, curBlock, batches, gpuNodes, gpuMem, memInfo, saved,
                 workerVars, rep, res>>
RefreshAllRows ==
  /\ ppc = "refresh"
  /\ scratch' = [n \in Nodes |-> IF n \in gpuNodes THEN gpuMem[n] ELSE scratch[n]]
  /\ cmd' = Append(cmd, UpdateCmd(Nodes))
  /\ ppc' = "refresh_wait"
  /\ UNCHANGED <<setup, truth, curBlock, batches, gpuNodes, gpuMem, memInfo, saved,
                 workerVars, rep, res>>

\* refresh_memory: the memory on the GPU goes back through the scratch tensor.
Refresh ==
  /\ ppc = "refresh"
  /\ scratch' = [n \in Nodes |-> IF n \in gpuNodes THEN gpuMem[n] ELSE scratch[n]]
  /\ cmd' = Append(cmd, UpdateCmd(gpuNodes))
  /\ ppc' = "refresh_wait"
  /\ UNCHANGED <<setup, truth, curBlock, batches, gpuNodes, gpuMem, memInfo, saved,
                 workerVars, rep, res>>

RefreshDone ==
  /\ ppc = "refresh_wait" /\ rep # <<>>
  /\ rep' = Tail(rep)
  /\ ppc' = "trained"
  /\ UNCHANGED <<setup, truth, curBlock, batches, gpuNodes, gpuMem, memInfo, saved,
                 workerVars, cmd, res, scratch>>

\* The finally clause: EXIT is sent, then the process is terminated.
Exit ==
  /\ ppc \in {"trained", "failed"}
  /\ cmd' = Append(cmd, ExitCmd)
  /\ ppc' = "terminate"
  /\ UNCHANGED <<setup, truth, curBlock, batches, gpuNodes, gpuMem, memInfo, saved,
                 workerVars, rep, res, scratch>>

Terminate ==
  /\ ppc = "terminate"
  /\ wpc' = "dead"
  /\ ppc' = "done"
  /\ UNCHANGED <<setup, truth, curBlock, batches, gpuNodes, gpuMem, memInfo, saved,
                 store, job, built, share, channelVars, scratch>>

Trainer ==
  \/ EnterFirst \/ TakeFirst
  \/ EnterAsync \/ EnterSync \/ RecvResult \/ Install \/ InstallFails \/ SampleNext
  \/ TrainBatch \/ EndBlock \/ Refresh \/ RefreshDone \/ Exit \/ Terminate

----------------------------------------------------------------------------
(* The worker: Pre_fetch.run and the functions it dispatches to *)

Serving(fn) == wpc = "idle" /\ cmd # <<>> /\ Head(cmd).fn = fn

SelectIndex ==
  /\ Serving("select_index")
  /\ scratch' = [n \in Nodes |-> IF n \in Head(cmd).nodes THEN store[n] ELSE scratch[n]]
  /\ cmd' = Tail(cmd)
  /\ rep' = Append(rep, "ok")
  /\ UNCHANGED <<setup, truth, trainerVars, workerVars, res>>

UpdateIndex ==
  /\ Serving("update_index")
  /\ store' = [n \in Nodes |-> IF n \in Head(cmd).nodes THEN scratch[n] ELSE store[n]]
  /\ cmd' = Tail(cmd)
  /\ rep' = Append(rep, "ok")
  /\ UNCHANGED <<setup, truth, trainerVars, wpc, job, built, share, res, scratch>>

\* The message is the pair ('EXIT', ()), never equal to "EXIT": it is looked up
\* as a function, and the loop goes on.
UnknownFunction ==
  /\ Serving("EXIT")
  /\ cmd' = Tail(cmd)
  /\ rep' = Append(rep, "not found")
  /\ UNCHANGED <<setup, truth, trainerVars, workerVars, res, scratch>>

StartPrefetch ==
  /\ Serving("pre_fetch")
  /\ job' = Head(cmd)
  /\ cmd' = Tail(cmd)
  /\ wpc' = "update"
  /\ UNCHANGED <<setup, truth, trainerVars, store, built, share, rep, res, scratch>>

\* mem_update: the memory that left the GPU is written back first.
MemUpdate ==
  /\ wpc = "update"
  /\ store' = [n \in Nodes |-> IF n \in job.info.nodes THEN job.info.mem[n] ELSE store[n]]
  /\ wpc' = "select"
  /\ UNCHANGED <<setup, truth, trainerVars, job, built, share, channelVars, scratch>>

\* mem_select: with data_incre only the nodes that are not on the GPU are read;
\* the rows of the others are left as torch.empty made them.
MemSelect ==
  /\ wpc = "select"
  /\ LET all  == stream.pos[job.block] \cup job.neg
         read == IF config.incre THEN all \ job.base ELSE all
     IN  built' = [nodes |-> all, mem |-> Rows(read, store)]
  /\ wpc' = "check"
  /\ UNCHANGED <<setup, truth, trainerVars, store, job, share, channelVars, scratch>>

\* Mutant of Extension: the worker reports the block and does not wait.
ExtensionNoWait ==
  /\ wpc = "check" /\ Cardinality(built.nodes) > Capacity
  /\ res' = Append(res, "extension")
  /\ wpc' = "idle"
  /\ UNCHANGED <<setup, truth, trainerVars, store, job, built, share, cmd, rep, scratch>>

\* The block does not fit the shared tensors: report it, and wait on
\* prefetch_conn for an answer that the trainer has no code to send.
Extension ==
  /\ wpc = "check" /\ Cardinality(built.nodes) > Capacity
  /\ res' = Append(res, "extension")
  /\ wpc' = "extend"
  /\ UNCHANGED <<setup, truth, trainerVars, store, job, built, share, cmd, rep, scratch>>

\* prefetch_after of the worker: the block is copied into the shared tensors.
Publish ==
  /\ wpc = "check" /\ Cardinality(built.nodes) <= Capacity
  /\ share' = [block |-> job.block, nodes |-> built.nodes, base |-> job.base, mem |-> built.mem]
  /\ wpc' = "reply"
  /\ UNCHANGED <<setup, truth, trainerVars, store, job, built, channelVars, scratch>>

\* Mutant of Reply: the result goes to the connection the other functions use.
ReplyOnWrongPipe ==
  /\ wpc = "reply"
  /\ rep' = Append(rep, "ok")
  /\ wpc' = "idle"
  /\ UNCHANGED <<setup, truth, trainerVars, store, job, built, share, cmd, res, scratch>>

Reply ==
  /\ wpc = "reply"
  /\ res' = Append(res, "ok")
  /\ wpc' = "idle"
  /\ UNCHANGED <<setup, truth, trainerVars, store, job, built, share, cmd, rep, scratch>>

Worker ==
  \/ SelectIndex \/ UpdateIndex \/ UnknownFunction \/ StartPrefetch
  \/ MemUpdate \/ MemSelect \/ Extension \/ Publish \/ Reply

\* Both processes are gone.
Terminated == ppc = "done" /\ UNCHANGED vars

Next == Trainer \/ Worker \/ Terminated

Spec == Init /\ [][Next]_vars

\* Neither process waits for anything but a message: the worker polls its pipe
\* in a loop and the trainer's steps are plain calls.
FairSpec == Spec /\ WF_vars(Trainer) /\ WF_vars(Worker)

----------------------------------------------------------------------------
(* What must hold *)

TypeOK ==
  /\ stream \in Streams /\ config \in Configs
  /\ truth \in [Nodes -> Nat]
  /\ ppc \in {"loop", "first", "recv", "install", "sample", "train", "refresh",
             "refresh_wait", "trained", "failed", "terminate", "done"}
  /\ curBlock \in 0 .. NBlocks /\ batches \in 0 .. MaxBatches
  /\ gpuNodes \in SUBSET Nodes /\ gpuMem \in [Nodes -> Value]
  /\ memInfo \in Info /\ saved \in [info : Info, neg : SUBSET Nodes]
  /\ cmd \in Seq(Command) /\ rep \in Seq({"ok", "not found"}) /\ res \in Seq({"ok", "extension"})
  /\ share \in [block : Blocks, nodes : SUBSET Nodes, base : SUBSET Nodes, mem : [Nodes -> Value]]
  /\ scratch \in [Nodes -> Value] /\ store \in [Nodes -> Value]
  /\ wpc \in {"idle", "update", "select", "check", "reply", "extend", "dead"}
  /\ job \in Prefetch /\ built \in Info

\* The worker has met a block larger than the shared tensors.
Overflowed == wpc = "extend"

\* The trainer has a block on the GPU, and the run has not been given up.
Holding == ppc \in {"loop", "recv", "install", "sample", "train", "refresh",
                    "refresh_wait", "trained"}

\* The check of Feat_buffer.input_mails: what a batch reads from the buffer is
\* what the non-cached memory holds (feat_buffer.py:366-372).
InputsNonCached == ppc = "train" => \A n \in gpuNodes : gpuMem[n] = truth[n]

\* The memory on the GPU is the memory of the non-cached scenario at every step
\* of a run in which every block fits the shared tensors.
MemoryConsistent ==
  Holding /\ ~Overflowed => \A n \in gpuNodes : gpuMem[n] = truth[n]

\* memory_info on its way to the worker's memory.
InFlight ==
  IF cmd # <<>> /\ Head(cmd).fn = "pre_fetch" THEN Head(cmd).info
  ELSE IF wpc = "update" THEN job.info
  ELSE IF ~config.async /\ ppc \in {"train", "loop"} /\ curBlock \in 1 .. NBlocks - 1
       THEN saved.info
  ELSE NoInfo

\* The copy of a node's memory a later block would be given.
LatestCopy(n) ==
  IF n \in gpuNodes THEN gpuMem[n]
  ELSE IF n \in memInfo.nodes THEN memInfo.mem[n]
  ELSE IF n \in InFlight.nodes THEN InFlight.mem[n]
  ELSE store[n]

\* After the last boundary memory_info is not sent: the nodes trained in the
\* block before and not on the GPU have lost that block's updates.
Dropped ==
  IF curBlock = NBlocks /\ NBlocks > 1 THEN stream.roots[NBlocks - 2] \ gpuNodes ELSE {}

\* No update is lost on the way from one block to another: somewhere between
\* the GPU, the messages and the worker there is an up-to-date copy of every
\* node, the dropped ones excepted.
NoLostUpdate ==
  Holding /\ ~Overflowed => \A n \in Nodes \ Dropped : LatestCopy(n) = truth[n]

\* After refresh_memory the worker's memory is complete, the dropped nodes
\* excepted: evaluation and checkpoints read it.
StoreAfterRefresh == ppc = "trained" => \A n \in Nodes \ Dropped : store[n] = truth[n]

\* What the trainer installs is the block it has reached, prepared against the
\* node map it has on the GPU, and contains the nodes it will update.
InstallsExpectedBlock ==
  ppc = "install" /\ ~Overflowed =>
    /\ share.block = curBlock
    /\ share.base = gpuNodes
    /\ stream.roots[curBlock] \subseteq share.nodes

\* The worker does not write the shared tensors between the moment it reports
\* a block and the moment the trainer has copied it.
SharedTensorsStable == [][share' # share => res = <<>> /\ ppc # "install"]_vars

\* A write to the worker's memory brings the current value, or touches a node
\* whose memory is on the GPU and will be written again.
WriteBackNeverStale ==
  [][\A n \in Nodes : store'[n] # store[n] => store'[n] = truth[n] \/ n \in gpuNodes]_vars

\* A block that does not fit is the last one the trainer enters: it stops at the
\* following boundary, or at the install, and never trains a later block on
\* what the stuck worker left.
OverflowIsLast == Overflowed => curBlock <= job.block + 1

\* Each process waits for a message of the other, and none is on its way.
MutualWait ==
  /\ ppc \in {"recv", "refresh_wait"} /\ wpc = "extend"
  /\ rep = <<>> /\ res = <<>>

\* The install has raised, and train.py has stopped both processes.
GivenUp == ppc = "done" /\ curBlock < NBlocks

\* A block that does not fit ends in a deadlock, whatever the trainer was doing
\* when the worker met it: nobody answers the report of pre_fetch, the trainer
\* takes it for a result, and then both wait for ever.  Only an install that
\* raises ends the run.
OverflowStalls ==
  (wpc = "check" /\ Cardinality(built.nodes) > Capacity) ~> [](MutualWait \/ GivenUp)

\* The epoch ends: no process waits for ever for a message of the other.
EpochFinishes == <>(ppc = "trained")

\* The pipeline implements training on the non-cached memory.  A block counts as
\* entered once its memory is on the GPU; after a failed install or the end of
\* the run the buffer is no longer read.
EnteredBlocks == IF ppc = "sample" THEN curBlock + 1 ELSE curBlock
View == IF ppc = "first" THEN [n \in {} |-> 0] ELSE [n \in gpuNodes |-> gpuMem[n]]

NonCached == INSTANCE NonCachedMemory
               WITH mem <- truth, block <- EnteredBlocks, view <- View

ImplementsNonCached == NonCached!AbsSpec

=============================================================================
