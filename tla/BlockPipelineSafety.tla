------------------------ MODULE BlockPipelineSafety ------------------------
(***************************************************************************)
(* The safety of BlockPipeline: IInv is inductive, and implies what the    *)
(* runs check.  When every block fits the shared tensors, the pipeline     *)
(* implements training on the memory itself: the partition into blocks,    *)
(* the worker and its messages cannot be seen from the batches.            *)
(***************************************************************************)
EXTENDS BlockPipelineProofs, FiniteSetTheorems

\* A message appended to an empty channel.
LEMMA AppendOne ==
  ASSUME NEW m
  PROVE  /\ Append(<<>>, m) # <<>>
         /\ Tail(Append(<<>>, m)) = <<>>
         /\ Head(Append(<<>>, m)) = m
  OBVIOUS

\* The invariant holds after the resets of the epoch: nothing is on its way.
LEMMA InitIInv == Init => IInv
  <1> SUFFICES ASSUME Init PROVE IInv
    OBVIOUS
  <1>1. TypeInv
    BY InitTypeInv
  <1>2. GpuInv
    BY DEF Init, GpuInv, Fresh, Prev
  <1>3. CaptureInv
    BY DEF Init, CaptureInv, NoInfo
  <1>4. StreamInv /\ EndInv
    BY Bounds DEF Init, StreamInv, EndInv, Last, Quiet, StoreBehind, Fresh
  <1>5. StuckInv /\ AfterInv
    BY DEF Init, StuckInv, AfterInv
  <1>6. QED
    BY <1>1, <1>2, <1>3, <1>4, <1>5 DEF IInv

\* The request being served is for a block of the stream.
LEMMA JobBlock ==
  ASSUME IInv
  PROVE  job.block \in Nat /\ job.block < NBlocks /\ curBlock \in Nat /\ curBlock <= NBlocks
  <1>1. job.block \in Blocks
    BY DEF IInv, TypeInv, TypeOK, Prefetch
  <1>2. QED
    BY <1>1, Bounds, Counters DEF IInv, TypeInv, Blocks

\* A queued request names a block and carries a memory_info.
LEMMA HeadPrefetch ==
  ASSUME IInv, cmd # <<>>, Head(cmd).fn = "pre_fetch"
  PROVE  Head(cmd) \in Prefetch
  <1>1. cmd \in Seq(Command)
    BY DEF IInv, TypeInv, TypeOK
  <1>2. Head(cmd) \in Command
    BY <1>1, TailType
  <1>3. QED
    BY <1>2 DEF Command, ExitCmd

\* The boundary of block 0 asks for the nodes it puts on the GPU.
LEMMA EnterFirstInv == ASSUME IInv, EnterFirst PROVE IInv'
  <1>1. TypeInv'
    BY BoundaryType DEF IInv
  <1>2. ASSUME Active' PROVE (GpuInv /\ CaptureInv /\ StreamInv /\ EndInv)'
    <2>1. Active
      BY <1>2 DEF Active, Holding, Overflowed, EnterFirst, workerVars
    <2>2. Quiet /\ StoreBehind({}) /\ gpuNodes = {}
      BY <2>1 DEF IInv, StreamInv, EnterFirst
    <2>3. GpuInv'
      <3>1. stream.roots[0] \subseteq stream.pos[0]
        BY StreamType, BlockBounds DEF IInv, TypeInv, TypeOK
      <3>2. QED
        BY <3>1 DEF EnterFirst, GpuInv, Prev, Roots, setup
    <2>4. CaptureInv'
      BY DEF EnterFirst, CaptureInv, NoInfo
    <2>5. StreamInv'
      BY <2>2, AppendOne
      DEF EnterFirst, StreamInv, Quiet, One, StoreBehind, Fresh, workerVars, setup
    <2>6. EndInv'
      BY DEF EnterFirst, EndInv, Last
    <2>7. QED
      BY <2>3, <2>4, <2>5, <2>6
  <1>3. StuckInv'
    BY JobBlock DEF EnterFirst, IInv, StuckInv, workerVars
  <1>4. AfterInv'
    BY DEF EnterFirst, AfterInv
  <1>5. QED
    BY <1>1, <1>2, <1>3, <1>4 DEF IInv

\* The rows of the first select_index are current.
LEMMA TakeFirstInv == ASSUME IInv, TakeFirst PROVE IInv'
  <1>1. TypeInv'
    BY BoundaryType DEF IInv
  <1>2. ASSUME Active' PROVE (GpuInv /\ CaptureInv /\ StreamInv /\ EndInv)'
    <2>1. Active
      BY <1>2 DEF Active, Holding, Overflowed, TakeFirst, workerVars
    <2>2. curBlock = 0
      BY DEF IInv, TypeInv, BlockInRange, TakeFirst
    <2>3. /\ res = <<>> /\ wpc = "idle" /\ StoreBehind({}) /\ cmd = <<>>
          /\ Tail(rep) = <<>> /\ Fresh(gpuNodes, scratch)
      BY <2>1 DEF IInv, StreamInv, TakeFirst, One
    <2>4. GpuInv'
      <3>1. Fresh(gpuNodes', gpuMem')
        BY <2>3 DEF TakeFirst, Fresh, Rows, IInv, TypeInv, TypeOK
      <3>2. QED
        BY <2>1, <2>2, <3>1 DEF TakeFirst, IInv, GpuInv, Prev, Roots, Fresh, setup
    <2>5. CaptureInv'
      BY <2>1, <2>2 DEF TakeFirst, IInv, CaptureInv, Prev, Fresh
    <2>6. StreamInv'
      BY <2>2, <2>3
      DEF TakeFirst, StreamInv, Quiet, StoreBehind, Fresh, Prev, workerVars, setup
    <2>7. EndInv'
      BY DEF TakeFirst, EndInv, Last
    <2>8. QED
      BY <2>4, <2>5, <2>6, <2>7
  <1>3. StuckInv'
    BY JobBlock DEF TakeFirst, IInv, StuckInv, workerVars
  <1>4. AfterInv'
    BY DEF TakeFirst, AfterInv
  <1>5. QED
    BY <1>1, <1>2, <1>3, <1>4 DEF IInv

\* What the boundary captures: current memory of every root that leaves.
LEMMA Captured ==
  ASSUME IInv, Active, ppc = "loop", curBlock > 0
  PROVE  /\ Fresh(Leaving, Rows(Leaving, gpuMem))
         /\ Prev \ Roots(curBlock) \subseteq Leaving
         /\ Leaving \subseteq gpuNodes
  <1>1. GpuInv /\ Prev \subseteq gpuNodes /\ Fresh(gpuNodes, gpuMem)
    BY DEF IInv, GpuInv
  <1>2. Prev \ Roots(curBlock) \subseteq Leaving /\ Leaving \subseteq gpuNodes
    BY <1>1 DEF Leaving, Prev, Roots
  <1>3. gpuNodes \subseteq Nodes
    BY DEF IInv, TypeInv, TypeOK
  <1>4. QED
    BY <1>1, <1>2, <1>3 DEF Fresh, Rows

\* Asynchronous boundary: the request was made one block ago (Ahead).
LEMMA EnterAsyncInv == ASSUME IInv, EnterAsync PROVE IInv'
  <1>1. TypeInv'
    BY BoundaryType DEF IInv
  <1>2. ASSUME Active' PROVE (GpuInv /\ CaptureInv /\ StreamInv /\ EndInv)'
    <2>1. Active
      BY <1>2 DEF Active, Holding, Overflowed, EnterAsync, workerVars
    <2>2. Requested
      BY <2>1, JobBlock, Bounds DEF IInv, TypeInv, BlockInRange, StreamInv, EnterAsync, Ahead
    <2>3. GpuInv'
      BY <2>1 DEF EnterAsync, IInv, GpuInv, Prev, Roots, Fresh, setup
    <2>4. CaptureInv'
      BY <2>1, Captured DEF EnterAsync, CaptureInv, Prev, Roots, Fresh, setup
    <2>5. Requested'
      BY <2>2
      DEF EnterAsync, Requested, Queued, Served, Answered, One, InfoOK, StoreBehind, BlockOK,
          ShareOK, Fresh, Prev, Roots, setup, workerVars, channelVars
    <2>6. StreamInv' /\ EndInv'
      BY <2>5 DEF EnterAsync, StreamInv, EndInv, Last
    <2>7. QED
      BY <2>3, <2>4, <2>6
  <1>3. StuckInv'
    BY JobBlock DEF EnterAsync, IInv, StuckInv, One, workerVars, channelVars
  <1>4. AfterInv'
    BY DEF EnterAsync, AfterInv
  <1>5. QED
    BY <1>1, <1>2, <1>3, <1>4 DEF IInv

\* Synchronous boundary: the request made now carries what was saved.
LEMMA EnterSyncInv == ASSUME IInv, EnterSync PROVE IInv'
  <1>1. TypeInv'
    BY BoundaryType DEF IInv
  <1>2. ASSUME Active' PROVE (GpuInv /\ CaptureInv /\ StreamInv /\ EndInv)'
    <2>1. Active
      BY <1>2 DEF Active, Holding, Overflowed, EnterSync, workerVars
    <2>2. Quiet /\ InfoOK(saved.info)
      BY <2>1, JobBlock, Bounds DEF IInv, TypeInv, BlockInRange, StreamInv, EnterSync, Ahead
    <2>3. GpuInv'
      BY <2>1 DEF EnterSync, IInv, GpuInv, Prev, Roots, Fresh, setup
    <2>4. CaptureInv'
      BY <2>1, Captured DEF EnterSync, CaptureInv, Prev, Roots, Fresh, setup
    <2>5. Requested'
      <3> DEFINE m == PrefetchCmd(curBlock, saved.info, saved.neg, gpuNodes)
      <3>1. cmd' = Append(<<>>, m)
        BY <2>2 DEF EnterSync, Quiet
      <3>2. cmd' # <<>> /\ Tail(cmd') = <<>> /\ Head(cmd') = m
        BY <3>1, AppendOne
      <3>3. m.fn = "pre_fetch" /\ m.block = curBlock /\ m.base = gpuNodes /\ m.info = saved.info
        BY DEF PrefetchCmd
      <3>4. QED
        BY <2>2, <3>2, <3>3
        DEF EnterSync, Requested, Queued, Quiet, One, InfoOK, StoreBehind, Fresh, Prev, Roots,
            setup, workerVars
    <2>6. StreamInv' /\ EndInv'
      BY <2>5 DEF EnterSync, StreamInv, EndInv, Last
    <2>7. QED
      BY <2>3, <2>4, <2>6
  <1>3. StuckInv'
    BY JobBlock DEF EnterSync, IInv, StuckInv, One, workerVars
  <1>4. AfterInv'
    BY DEF EnterSync, AfterInv
  <1>5. QED
    BY <1>1, <1>2, <1>3, <1>4 DEF IInv

\* The first message received is the answer to the request for this block.
LEMMA RecvResultInv == ASSUME IInv, RecvResult PROVE IInv'
  <1>1. TypeInv'
    BY BoundaryType DEF IInv
  <1>2. ASSUME Active' PROVE (GpuInv /\ CaptureInv /\ StreamInv /\ EndInv)'
    <2>1. Active
      BY <1>2 DEF Active, Holding, Overflowed, RecvResult, workerVars
    <2>2. rep = <<>> /\ Answered
      BY <2>1 DEF IInv, StreamInv, RecvResult, Requested, Queued, Served
    <2>3. GpuInv'
      BY <2>1 DEF RecvResult, IInv, GpuInv, Prev, Roots, Fresh, setup
    <2>4. CaptureInv'
      BY <2>1 DEF RecvResult, IInv, CaptureInv, Prev, Roots, Fresh, setup
    <2>5. StreamInv' /\ EndInv'
      BY <2>2
      DEF RecvResult, StreamInv, EndInv, Last, Answered, Quiet, One, StoreBehind, BlockOK,
          ShareOK, Fresh, Prev, Roots, setup, workerVars
    <2>6. QED
      BY <2>3, <2>4, <2>5
  <1>3. StuckInv'
    BY JobBlock DEF RecvResult, IInv, StuckInv, One, workerVars
  <1>4. AfterInv'
    BY DEF RecvResult, AfterInv
  <1>5. QED
    BY <1>1, <1>2, <1>3, <1>4 DEF IInv

\* The block installed is the block asked for: every node gets current memory,
\* from the GPU or from the worker.
LEMMA InstallFresh ==
  ASSUME IInv, Active, Install
  PROVE  Fresh(gpuNodes, gpuMem)' /\ Roots(curBlock) \subseteq gpuNodes'
  <1> DEFINE same == share.nodes \cap share.base
  <1>1. ShareOK /\ Fresh(gpuNodes, gpuMem)
    BY DEF IInv, StreamInv, GpuInv, Install
  <1>2. PICK row \in CarriedRows(same) :
          gpuMem' = [n \in Nodes |-> IF n \in same THEN gpuMem[row[n]]
                                     ELSE Rows(share.nodes, share.mem)[n]]
    BY DEF Install
  <1>3. row = [n \in same |-> n]
    BY <1>1, <1>2 DEF CarriedRows, ShareOK
  <1>4. ASSUME NEW n \in share.nodes PROVE gpuMem'[n] = truth'[n]
    <2>1. n \in Nodes /\ truth' = truth
      BY DEF Install, IInv, TypeInv, TypeOK
    <2>2. CASE n \in same
      BY <1>1, <1>2, <1>3, <2>1, <2>2 DEF ShareOK, Fresh
    <2>3. CASE n \notin same
      <3>1. gpuMem'[n] = share.mem[n]
        BY <1>2, <2>1, <2>3 DEF Rows
      <3>2. QED
        BY <1>1, <2>1, <2>3, <3>1 DEF ShareOK, BlockOK, Fresh
    <2>4. QED
      BY <2>2, <2>3
  <1>5. gpuNodes' = share.nodes
    BY DEF Install
  <1>6. QED
    BY <1>1, <1>4, <1>5 DEF Fresh, ShareOK, BlockOK

\* The install puts current memory on the GPU.
LEMMA InstallInv == ASSUME IInv, Install PROVE IInv'
  <1>1. TypeInv'
    BY InstallType DEF IInv
  <1>2. ASSUME Active' PROVE (GpuInv /\ CaptureInv /\ StreamInv /\ EndInv)'
    <2>1. Active
      BY <1>2 DEF Active, Holding, Overflowed, Install, workerVars
    <2>2. truth' = truth /\ stream' = stream /\ curBlock' = curBlock /\ store' = store
          /\ ppc' = "sample"
      BY DEF Install, setup, workerVars
    <2>3. GpuInv'
      BY <2>1, <2>2, InstallFresh DEF GpuInv, Roots, Fresh
    <2>4. CaptureInv'
      BY <2>1, <2>2 DEF Install, IInv, CaptureInv, Prev, Roots, Fresh
    <2>5. StreamInv' /\ EndInv'
      BY <2>1, <2>2
      DEF Install, IInv, StreamInv, EndInv, Last, Quiet, StoreBehind, Fresh, Prev, Roots,
          workerVars, channelVars
    <2>6. QED
      BY <2>3, <2>4, <2>5
  <1>3. StuckInv'
    BY JobBlock DEF Install, IInv, StuckInv, workerVars, channelVars
  <1>4. AfterInv'
    BY DEF Install, AfterInv
  <1>5. QED
    BY <1>1, <1>2, <1>3, <1>4 DEF IInv

\* Only the tensors left by a stuck worker fit the mask of another block.
LEMMA InstallFailsInv == ASSUME IInv, InstallFails PROVE IInv'
  <1>1. TypeInv'
    BY InstallType DEF IInv
  <1>2. ~Active'
    BY DEF Active, Holding, InstallFails
  <1>3. StuckInv'
    BY JobBlock DEF InstallFails, IInv, StuckInv, workerVars, channelVars
  <1>4. wpc = "extend"
    <2>1. SUFFICES ASSUME Active PROVE FALSE
      BY DEF Active, Holding, Overflowed, InstallFails
    <2>2. ShareOK
      BY <2>1 DEF IInv, StreamInv, InstallFails
    <2>3. QED
      BY <2>2 DEF ShareOK, InstallFails
  <1>5. AfterInv'
    BY <1>4 DEF InstallFails, AfterInv, workerVars
  <1>6. QED
    BY <1>1, <1>2, <1>3, <1>5 DEF IInv

\* memory_info makes up for what the worker's memory is behind on.
LEMMA CaptureOK ==
  ASSUME IInv, Active, ppc = "sample"
  PROVE  /\ Fresh(memInfo.nodes, memInfo.mem)
         /\ StoreBehind(Roots(curBlock) \cup memInfo.nodes)
  <1>1. CaptureInv /\ StoreBehind(Prev)
    BY DEF IInv, StreamInv
  <1>2. QED
    BY <1>1 DEF CaptureInv, StoreBehind, Fresh

\* The request for the next block, or what it will carry, holds what left the GPU.
LEMMA SampleNextInv == ASSUME IInv, SampleNext PROVE IInv'
  <1>1. TypeInv'
    BY InstallType DEF IInv
  <1>2. ASSUME Active' PROVE (GpuInv /\ CaptureInv /\ StreamInv /\ EndInv)'
    <2>1. Active
      BY <1>2 DEF Active, Holding, Overflowed, SampleNext, workerVars
    <2>2. /\ truth' = truth /\ stream' = stream /\ config' = config /\ store' = store
          /\ gpuNodes' = gpuNodes /\ gpuMem' = gpuMem /\ share' = share /\ wpc' = wpc
          /\ rep' = rep /\ res' = res
          /\ curBlock' = curBlock + 1 /\ ppc' = "train" /\ memInfo' = NoInfo
      BY DEF SampleNext, setup, workerVars
    <2>3. curBlock \in Nat /\ curBlock < NBlocks /\ NBlocks \in Nat
      BY JobBlock, Bounds DEF IInv, TypeInv, BlockInRange, SampleNext
    <2>4. Prev' = Roots(curBlock)
      BY <2>2, <2>3 DEF Prev, Roots
    <2>5. GpuInv'
      <3>1. Fresh(gpuNodes, gpuMem) /\ Roots(curBlock) \subseteq gpuNodes
        BY <2>1 DEF IInv, GpuInv, SampleNext
      <3>2. QED
        BY <2>2, <2>4, <3>1 DEF GpuInv, Fresh
    <2>6. CaptureInv'
      BY <2>2 DEF CaptureInv, NoInfo
    <2>7. Quiet /\ StoreBehind(Prev)
      BY <2>1 DEF IInv, StreamInv, SampleNext
    <2>8. Fresh(memInfo.nodes, memInfo.mem) /\ StoreBehind(Roots(curBlock) \cup memInfo.nodes)
      BY <2>1, CaptureOK DEF SampleNext
    <2>9. ASSUME curBlock + 1 < NBlocks PROVE Ahead'
      <3>1. PICK neg \in SUBSET Nodes :
              IF config.async
              THEN /\ cmd' = Append(cmd, PrefetchCmd(curBlock + 1, memInfo, neg, gpuNodes))
                   /\ saved' = saved
              ELSE /\ saved' = [info |-> memInfo, neg |-> neg]
                   /\ cmd' = cmd
        BY <2>9 DEF SampleNext
      <3>2. CASE config.async
        <4> DEFINE m == PrefetchCmd(curBlock + 1, memInfo, neg, gpuNodes)
        <4>1. cmd' = Append(<<>>, m)
          BY <2>7, <3>1, <3>2 DEF Quiet
        <4>2. cmd' # <<>> /\ Tail(cmd') = <<>> /\ Head(cmd') = m
          BY <4>1, AppendOne
        <4>3. m.fn = "pre_fetch" /\ m.block = curBlock' /\ m.base = gpuNodes /\ m.info = memInfo
          BY <2>2 DEF PrefetchCmd
        <4>4. Queued'
          BY <2>2, <2>4, <2>7, <2>8, <4>2, <4>3
          DEF Queued, One, Quiet, InfoOK, StoreBehind, Fresh
        <4>5. QED
          BY <2>2, <2>7, <3>2, <4>4 DEF Ahead, Requested, Quiet
      <3>3. CASE ~config.async
        <4>1. saved'.info = memInfo /\ cmd' = cmd
          BY <3>1, <3>3
        <4>2. QED
          BY <2>2, <2>4, <2>7, <2>8, <3>3, <4>1
          DEF Ahead, Quiet, InfoOK, StoreBehind, Fresh
      <3>4. QED
        BY <3>2, <3>3
    <2>10. StreamInv'
      BY <2>2, <2>3, <2>9 DEF StreamInv
    <2>11. EndInv'
      <3>1. SUFFICES ASSUME Last' PROVE (Quiet /\ StoreBehind(Dropped \cup gpuNodes))'
        BY <2>2 DEF EndInv
      <3>2. curBlock + 1 = NBlocks
        BY <2>2, <3>1 DEF Last
      <3>3. cmd' = cmd
        BY <2>3, <3>2 DEF SampleNext
      <3>4. Prev \subseteq Dropped' \cup gpuNodes
        BY <2>2, <2>3, <3>2 DEF Prev, Dropped, Roots
      <3>5. QED
        BY <2>2, <2>7, <3>3, <3>4 DEF Quiet, StoreBehind, Fresh
    <2>12. QED
      BY <2>5, <2>6, <2>10, <2>11
  <1>3. StuckInv'
    BY JobBlock DEF SampleNext, IInv, StuckInv, workerVars
  <1>4. AfterInv'
    BY DEF SampleNext, AfterInv
  <1>5. QED
    BY <1>1, <1>2, <1>3, <1>4 DEF IInv

\* A batch updates nodes of the block on the GPU only, and both copies alike.
LEMMA BatchUpdates ==
  ASSUME IInv, Active, TrainBatch
  PROVE  /\ Fresh(gpuNodes, gpuMem)'
         /\ \A n \in Nodes \ Prev : truth'[n] = truth[n]
         /\ Prev \subseteq gpuNodes
  <1>1. PICK S \in (SUBSET stream.roots[OnGpu]) \ {{}} :
     /\ gpuMem' = [n \in Nodes |-> IF n \in S \cap gpuNodes THEN Bump(gpuMem[n]) ELSE gpuMem[n]]
     /\ truth' = [n \in Nodes |-> IF n \in S THEN truth[n] + 1 ELSE truth[n]]
    BY DEF TrainBatch
  <1>2. curBlock > 0 /\ ppc = "train" /\ gpuNodes' = gpuNodes
    BY DEF TrainBatch, IInv, TypeInv, BlockInRange
  <1>3. S \subseteq Prev
    BY <1>1, <1>2 DEF OnGpu, Prev, Roots
  <1>4. Prev \subseteq gpuNodes /\ Fresh(gpuNodes, gpuMem)
    BY <1>2 DEF IInv, GpuInv
  <1>5. ASSUME NEW n \in gpuNodes PROVE gpuMem'[n] = truth'[n]
    <2>1. n \in Nodes /\ truth[n] \in Nat
      BY DEF IInv, TypeInv, TypeOK
    <2>2. gpuMem[n] = truth[n] /\ truth[n] # Junk
      BY <1>4, <2>1, PipelineAssumption DEF Fresh
    <2>3. QED
      BY <1>1, <2>1, <2>2 DEF Bump
  <1>6. QED
    BY <1>1, <1>2, <1>3, <1>4, <1>5 DEF Fresh

\* A batch makes only copies of its block stale, and the GPU has these.
LEMMA TrainBatchInv == ASSUME IInv, TrainBatch PROVE IInv'
  <1>1. TypeInv'
    BY TrainType DEF IInv
  <1>2. ASSUME Active' PROVE (GpuInv /\ CaptureInv /\ StreamInv /\ EndInv)'
    <2>1. Active
      BY <1>2 DEF Active, Holding, Overflowed, TrainBatch, workerVars
    <2>2. /\ ppc = "train" /\ ppc' = "train"
          /\ stream' = stream /\ config' = config /\ store' = store /\ scratch' = scratch
          /\ gpuNodes' = gpuNodes /\ share' = share /\ wpc' = wpc /\ built' = built /\ job' = job
          /\ cmd' = cmd /\ rep' = rep /\ res' = res /\ saved' = saved
          /\ curBlock' = curBlock /\ memInfo' = memInfo
      BY DEF TrainBatch, setup, workerVars, channelVars
    <2>3. \A n \in Nodes \ Prev : truth'[n] = truth[n]
      BY <2>1, BatchUpdates
    <2>4. Prev' = Prev /\ Roots(curBlock)' = Roots(curBlock) /\ Prev \subseteq gpuNodes
      BY <2>1, <2>2, BatchUpdates DEF Prev, Roots
    <2>5. ASSUME NEW S PROVE StoreBehind(Prev \cup S) => StoreBehind(Prev \cup S)'
      BY <2>2, <2>3, <2>4 DEF StoreBehind, Fresh
    <2>6. GpuInv'
      BY <2>1, <2>2, <2>4, BatchUpdates DEF GpuInv
    <2>7. CaptureInv'
      BY <2>1, <2>2 DEF IInv, CaptureInv
    <2>8. ASSUME NEW i \in Info, InfoOK(i) PROVE InfoOK(i)'
      <3>1. i.nodes \subseteq Nodes
        BY <2>8 DEF Info
      <3>2. QED
        BY <2>2, <2>3, <2>4, <2>8, <3>1 DEF InfoOK, StoreBehind, Fresh
    <2>9. ASSUME StoreBehind(Prev) PROVE StoreBehind(Prev)'
      BY <2>2, <2>3, <2>4, <2>9 DEF StoreBehind, Fresh
    <2>10. ASSUME BlockOK(built) PROVE BlockOK(built)'
      <3>1. built.nodes \subseteq Nodes
        BY DEF IInv, TypeInv, TypeOK, Info
      <3>2. QED
        BY <2>2, <2>3, <2>4, <2>10, <3>1 DEF BlockOK, Fresh
    <2>11. ASSUME ShareOK PROVE ShareOK'
      <3>1. share.nodes \subseteq Nodes
        BY DEF IInv, TypeInv, TypeOK
      <3>2. QED
        BY <2>2, <2>3, <2>4, <2>11, <3>1 DEF ShareOK, BlockOK, Fresh
    <2>12. ASSUME Ahead PROVE Ahead'
      <3>1. CASE config.async
        <4>1. rep = <<>> /\ (Queued \/ Served \/ Answered)
          BY <2>12, <3>1 DEF Ahead, Requested
        <4>2. ASSUME Queued PROVE Queued'
          <5>1. Head(cmd) \in Prefetch
            BY <4>2, HeadPrefetch DEF Queued, One
          <5>2. Head(cmd).info \in Info
            BY <5>1 DEF Prefetch
          <5>3. InfoOK(Head(cmd).info)'
            BY <2>2, <2>8, <4>2, <5>2 DEF Queued
          <5>4. QED
            BY <2>2, <4>2, <5>3 DEF Queued, One
        <4>3. ASSUME Served PROVE Served'
          <5>1. job.info \in Info
            BY DEF IInv, TypeInv, TypeOK, Prefetch
          <5>2. InfoOK(job.info) => InfoOK(job.info)'
            BY <2>2, <2>8, <5>1
          <5>3. QED
            BY <2>2, <2>9, <2>10, <2>11, <4>3, <5>2 DEF Served
        <4>4. ASSUME Answered PROVE Answered'
          BY <2>2, <2>9, <2>11, <4>4 DEF Answered, One
        <4>5. QED
          BY <2>2, <3>1, <4>1, <4>2, <4>3, <4>4 DEF Ahead, Requested
      <3>2. CASE ~config.async
        <4>1. saved.info \in Info
          BY DEF IInv, TypeInv, TypeOK
        <4>2. InfoOK(saved.info)'
          BY <2>2, <2>8, <2>12, <3>2, <4>1 DEF Ahead
        <4>3. QED
          BY <2>2, <2>12, <3>2, <4>2 DEF Ahead, Quiet
      <3>3. QED
        BY <3>1, <3>2
    <2>13. StreamInv'
      BY <2>1, <2>2, <2>12 DEF IInv, StreamInv
    <2>14. EndInv'
      <3>1. Last' => Quiet /\ StoreBehind(Dropped \cup gpuNodes)
        BY <2>1, <2>2 DEF IInv, EndInv, Last
      <3>2. Last' => (Quiet /\ StoreBehind(Dropped \cup gpuNodes))'
        BY <2>2, <2>3, <2>4, <3>1 DEF Quiet, Dropped, StoreBehind, Fresh
      <3>3. QED
        BY <2>2, <3>2 DEF EndInv
    <2>15. QED
      BY <2>6, <2>7, <2>13, <2>14
  <1>3. StuckInv'
    BY JobBlock DEF TrainBatch, IInv, StuckInv, One, workerVars, channelVars
  <1>4. AfterInv'
    BY DEF TrainBatch, AfterInv
  <1>5. QED
    BY <1>1, <1>2, <1>3, <1>4 DEF IInv

\* The end of a block leads to the next boundary or to the write-back.
LEMMA EndBlockInv == ASSUME IInv, EndBlock PROVE IInv'
  <1>1. TypeInv'
    BY TrainType DEF IInv
  <1>2. ASSUME Active' PROVE (GpuInv /\ CaptureInv /\ StreamInv /\ EndInv)'
    <2>1. Active
      BY <1>2 DEF Active, Holding, Overflowed, EndBlock, workerVars
    <2>2. UNCHANGED <<setup, truth, curBlock, gpuNodes, gpuMem, memInfo, saved, store, wpc, job,
                      built, share, cmd, rep, res, scratch>>
      BY DEF EndBlock, workerVars, channelVars
    <2>3. ppc = "train" /\ curBlock > 0
          /\ ppc' = (IF curBlock < NBlocks THEN "loop" ELSE "refresh")
      BY DEF EndBlock, IInv, TypeInv, BlockInRange
    <2>4. GpuInv' /\ CaptureInv'
      BY <2>1, <2>2, <2>3 DEF IInv, GpuInv, CaptureInv, Fresh, Prev, Roots, setup
    <2>5. Ahead => Ahead'
      BY <2>2
      DEF Ahead, Quiet, Requested, Queued, Served, Answered, One, InfoOK, StoreBehind, BlockOK,
          ShareOK, Fresh, Prev, Roots, setup
    <2>6. curBlock \in Nat /\ curBlock <= NBlocks /\ NBlocks \in Nat
      BY JobBlock, Bounds
    <2>7. StreamInv'
      BY <2>1, <2>2, <2>3, <2>5, <2>6 DEF IInv, StreamInv
    <2>8. EndInv'
      <3>1. Last' => Last
        BY <2>2, <2>3, <2>6 DEF Last
      <3>2. Quiet /\ StoreBehind(Dropped \cup gpuNodes) => (Quiet /\ StoreBehind(Dropped \cup gpuNodes))'
        BY <2>2 DEF Quiet, Dropped, StoreBehind, Fresh, setup
      <3>3. QED
        BY <2>1, <2>3, <3>1, <3>2 DEF IInv, EndInv
    <2>9. QED
      BY <2>4, <2>7, <2>8
  <1>3. StuckInv'
    BY JobBlock DEF EndBlock, IInv, StuckInv, One, workerVars, channelVars
  <1>4. AfterInv'
    BY DEF EndBlock, AfterInv
  <1>5. QED
    BY <1>1, <1>2, <1>3, <1>4 DEF IInv

\* refresh_memory sends what the worker is behind on, the dropped nodes excepted.
LEMMA RefreshInv == ASSUME IInv, Refresh PROVE IInv'
  <1>1. TypeInv'
    BY TrainType DEF IInv
  <1>2. ASSUME Active' PROVE (GpuInv /\ CaptureInv /\ StreamInv /\ EndInv)'
    <2>1. Active
      BY <1>2 DEF Active, Holding, Overflowed, Refresh, workerVars
    <2>2. /\ Quiet /\ StoreBehind(Dropped \cup gpuNodes) /\ Fresh(gpuNodes, gpuMem)
          /\ gpuNodes \subseteq Nodes
      BY <2>1 DEF IInv, TypeInv, TypeOK, BlockInRange, EndInv, Last, GpuInv, Refresh
    <2>3. GpuInv' /\ CaptureInv'
      BY <2>1 DEF Refresh, IInv, GpuInv, CaptureInv, Fresh, Prev, Roots, setup
    <2>4. StreamInv'
      BY DEF Refresh, StreamInv
    <2>5. EndInv'
      <3>1. cmd' # <<>> /\ Tail(cmd') = <<>> /\ Head(cmd') = UpdateCmd(gpuNodes)
        BY <2>2, AppendOne DEF Refresh, Quiet
      <3>2. Fresh(gpuNodes, scratch)'
        BY <2>2 DEF Refresh, Fresh
      <3>3. StoreBehind(Dropped \cup gpuNodes)'
        BY <2>2 DEF Refresh, StoreBehind, Fresh, Dropped, setup, workerVars
      <3>4. QED
        BY <2>2, <3>1, <3>2, <3>3
        DEF Refresh, EndInv, Last, One, Quiet, UpdateCmd, workerVars
    <2>6. QED
      BY <2>3, <2>4, <2>5
  <1>3. StuckInv'
    BY JobBlock DEF Refresh, IInv, StuckInv, workerVars
  <1>4. AfterInv'
    BY DEF Refresh, AfterInv
  <1>5. QED
    BY <1>1, <1>2, <1>3, <1>4 DEF IInv

\* The answer to refresh_memory comes after the write.
LEMMA RefreshDoneInv == ASSUME IInv, RefreshDone PROVE IInv'
  <1>1. TypeInv'
    BY TrainType DEF IInv
  <1>2. ASSUME Active' PROVE (GpuInv /\ CaptureInv /\ StreamInv /\ EndInv)'
    <2>1. Active
      BY <1>2 DEF Active, Holding, Overflowed, RefreshDone, workerVars
    <2>2. res = <<>> /\ wpc = "idle" /\ cmd = <<>> /\ Tail(rep) = <<>> /\ StoreBehind(Dropped)
      BY <2>1 DEF IInv, EndInv, One, RefreshDone
    <2>3. GpuInv' /\ CaptureInv'
      BY <2>1 DEF RefreshDone, IInv, GpuInv, CaptureInv, Fresh, Prev, Roots, setup
    <2>4. StreamInv' /\ EndInv'
      BY <2>2
      DEF RefreshDone, StreamInv, EndInv, Last, Quiet, StoreBehind, Fresh, Dropped, setup, workerVars
    <2>5. QED
      BY <2>3, <2>4
  <1>3. StuckInv'
    BY JobBlock DEF RefreshDone, IInv, StuckInv, workerVars
  <1>4. AfterInv'
    BY DEF RefreshDone, AfterInv
  <1>5. QED
    BY <1>1, <1>2, <1>3, <1>4 DEF IInv

\* The end of the run leaves the worker at most the EXIT message.
LEMMA ExitInv == ASSUME IInv, Exit \/ Terminate PROVE IInv'
  <1>1. TypeInv'
    BY TrainType DEF IInv
  <1>2. ~Active'
    BY DEF Active, Holding, Exit, Terminate
  <1>3. StuckInv'
    BY JobBlock DEF Exit, Terminate, IInv, StuckInv, workerVars
  <1>4. AfterInv'
    <2>1. CASE Exit /\ ppc = "trained" /\ wpc # "extend"
      <3>1. Quiet
        BY <2>1 DEF IInv, EndInv, Active, Holding, Overflowed
      <3>2. QED
        BY <2>1, <3>1, AppendOne DEF Exit, AfterInv, Quiet, One, workerVars
    <2>2. CASE Exit /\ (ppc = "failed" \/ wpc = "extend")
      BY <2>2 DEF Exit, IInv, AfterInv, workerVars
    <2>3. CASE Terminate
      BY <2>3 DEF Terminate, AfterInv
    <2>4. QED
      BY <2>1, <2>2, <2>3 DEF Exit
  <1>5. QED
    BY <1>1, <1>2, <1>3, <1>4 DEF IInv

----------------------------------------------------------------------------
(* The worker's steps *)

\* While the run is going, a message decides where the trainer is.
LEMMA ServingSelect ==
  ASSUME IInv, Active, Serving("select_index")
  PROVE  /\ ppc = "first" /\ rep = <<>> /\ res = <<>> /\ Tail(cmd) = <<>>
         /\ Head(cmd).nodes = gpuNodes /\ StoreBehind({})
  <1>1. cmd # <<>> /\ Head(cmd).fn = "select_index" /\ wpc = "idle"
    BY DEF Serving
  <1>2. ~Quiet /\ ~Queued /\ ~Served /\ ~Answered
    BY <1>1 DEF Quiet, Queued, Served, Answered
  <1>3. ~Ahead /\ ~Requested
    BY <1>2 DEF Ahead, Requested
  <1>4. ppc # "refresh_wait"
    BY <1>1 DEF IInv, EndInv, UpdateCmd
  <1>5. curBlock \in 1 .. NBlocks - 1 \/ curBlock = 0 \/ curBlock = NBlocks
    BY JobBlock, Bounds
  <1>6. ppc = "first"
    BY <1>2, <1>3, <1>4, <1>5, Bounds
    DEF IInv, TypeInv, BlockInRange, Active, Holding, StreamInv, EndInv, Last
  <1>7. QED
    BY <1>1, <1>6 DEF IInv, StreamInv, One, SelectCmd

\* update_index is served only for refresh_memory.
LEMMA ServingUpdate ==
  ASSUME IInv, Active, Serving("update_index")
  PROVE  /\ ppc = "refresh_wait" /\ rep = <<>> /\ res = <<>> /\ Tail(cmd) = <<>>
         /\ Head(cmd).nodes = gpuNodes /\ Fresh(gpuNodes, scratch)
         /\ StoreBehind(Dropped \cup gpuNodes)
  <1>1. cmd # <<>> /\ Head(cmd).fn = "update_index" /\ wpc = "idle"
    BY DEF Serving
  <1>2. ~Quiet /\ ~Queued /\ ~Served /\ ~Answered
    BY <1>1 DEF Quiet, Queued, Served, Answered
  <1>3. ~Ahead /\ ~Requested
    BY <1>2 DEF Ahead, Requested
  <1>4. ppc # "first"
    BY <1>1 DEF IInv, StreamInv, SelectCmd
  <1>5. curBlock \in 1 .. NBlocks - 1 \/ curBlock = 0 \/ curBlock = NBlocks
    BY JobBlock, Bounds
  <1>6. ppc = "refresh_wait"
    BY <1>2, <1>3, <1>4, <1>5, Bounds
    DEF IInv, TypeInv, BlockInRange, Active, Holding, StreamInv, EndInv, Last
  <1>7. QED
    BY <1>1, <1>6 DEF IInv, EndInv, One, UpdateCmd

\* EXIT is served only after the run.
LEMMA ServingExit ==
  ASSUME IInv, Serving("EXIT")
  PROVE  ~Active /\ wpc = "idle"
  <1>1. cmd # <<>> /\ Head(cmd).fn = "EXIT" /\ wpc = "idle"
    BY DEF Serving
  <1>2. SUFFICES ASSUME Active PROVE FALSE
    BY <1>1
  <1>3. ~Quiet /\ ~Queued /\ ~Served /\ ~Answered
    BY <1>1 DEF Quiet, Queued, Served, Answered
  <1>4. ~Ahead /\ ~Requested
    BY <1>3 DEF Ahead, Requested
  <1>5. ppc # "first" /\ ppc # "refresh_wait"
    BY <1>1, <1>2 DEF IInv, StreamInv, EndInv, SelectCmd, UpdateCmd
  <1>6. curBlock \in 1 .. NBlocks - 1 \/ curBlock = 0 \/ curBlock = NBlocks
    BY JobBlock, Bounds
  <1>7. QED
    BY <1>2, <1>3, <1>4, <1>5, <1>6, Bounds
    DEF IInv, TypeInv, BlockInRange, Active, Holding, StreamInv, EndInv, Last

\* The trainer is training the block before the one the worker prepares, or
\* waiting for it.
Preparing ==
  /\ ppc \in {"train", "loop", "recv"} /\ curBlock \in 1 .. NBlocks - 1
  /\ ppc # "recv" => config.async

\* A worker busy with a prefetch prepares the block the trainer will reach.
LEMMA WorkingOn ==
  ASSUME IInv, Active, Serving("pre_fetch") \/ wpc \in {"update", "select", "check", "reply"}
  PROVE  Preparing /\ Requested
  <1>1. ~Quiet
    BY DEF Quiet, Serving
  <1>2. ppc # "first" /\ ppc # "refresh_wait"
    BY DEF IInv, StreamInv, EndInv, Serving, SelectCmd, UpdateCmd
  <1>3. curBlock \in 1 .. NBlocks - 1 \/ curBlock = 0 \/ curBlock = NBlocks
    BY JobBlock, Bounds
  <1>4. ppc \in {"train", "loop", "recv"} /\ curBlock \in 1 .. NBlocks - 1
    BY <1>1, <1>2, <1>3, Bounds
    DEF IInv, TypeInv, BlockInRange, Active, Holding, StreamInv, EndInv, Last
  <1>5. QED
    BY <1>1, <1>4 DEF IInv, StreamInv, Ahead, Preparing

\* Only the EXIT message is served after the run.
LEMMA WorkerActive ==
  ASSUME IInv,
         \/ wpc \in {"update", "select", "check", "reply"}
         \/ Serving("pre_fetch") \/ Serving("select_index") \/ Serving("update_index")
  PROVE  Active
  <1>1. wpc # "extend"
    BY DEF Serving
  <1>2. ppc # "failed" /\ ppc # "terminate" /\ ppc # "done"
    BY <1>1 DEF IInv, AfterInv, Serving, ExitCmd
  <1>3. QED
    BY <1>1, <1>2 DEF IInv, TypeInv, TypeOK, Active, Holding, Overflowed

\* A step that moves the request on leaves everything else to the trainer.
LEMMA PreparingStep ==
  ASSUME IInv, Active, Preparing, UNCHANGED <<setup, truth, trainerVars>>, Requested'
  PROVE  (GpuInv /\ CaptureInv /\ StreamInv /\ EndInv)'
  <1>1. /\ ppc' = ppc /\ curBlock' = curBlock /\ config' = config /\ stream' = stream
        /\ gpuNodes' = gpuNodes /\ gpuMem' = gpuMem /\ memInfo' = memInfo /\ truth' = truth
    BY DEF setup, trainerVars
  <1>2. GpuInv' /\ CaptureInv'
    BY <1>1 DEF IInv, GpuInv, CaptureInv, Fresh, Prev, Roots
  <1>3. curBlock \in 1 .. NBlocks - 1 /\ curBlock # NBlocks /\ curBlock # 0
    BY Bounds DEF Preparing
  <1>4. StreamInv'
    BY <1>1, <1>3 DEF StreamInv, Ahead, Preparing
  <1>5. EndInv'
    BY <1>1, <1>3 DEF EndInv, Last, Preparing
  <1>6. QED
    BY <1>2, <1>4, <1>5

\* The functions the worker answers on the command connection.
LEMMA ServeInv == ASSUME IInv, SelectIndex \/ UpdateIndex \/ UnknownFunction PROVE IInv'
  <1>1. TypeInv'
    BY WorkerType DEF IInv, Worker
  <1>2. CASE SelectIndex
    <2>1. Active
      BY <1>2, WorkerActive DEF SelectIndex
    <2>2. /\ ppc = "first" /\ rep = <<>> /\ res = <<>> /\ Tail(cmd) = <<>>
          /\ Head(cmd).nodes = gpuNodes /\ StoreBehind({})
      BY <1>2, <2>1, ServingSelect DEF SelectIndex
    <2>3. wpc = "idle" /\ gpuNodes \subseteq Nodes
      BY <1>2 DEF SelectIndex, Serving, IInv, TypeInv, TypeOK
    <2>4. One(rep)' /\ cmd' = <<>>
      BY <1>2, <2>2, AppendOne DEF SelectIndex, One
    <2>5. Fresh(gpuNodes, scratch)'
      BY <1>2, <2>2, <2>3 DEF SelectIndex, Fresh, StoreBehind, trainerVars
    <2>6. GpuInv' /\ CaptureInv'
      BY <1>2, <2>1 DEF SelectIndex, IInv, GpuInv, CaptureInv, Fresh, Prev, Roots, setup, trainerVars
    <2>7. StreamInv'
      BY <1>2, <2>2, <2>3, <2>4, <2>5
      DEF SelectIndex, StreamInv, StoreBehind, Fresh, trainerVars, workerVars
    <2>8. EndInv' /\ AfterInv' /\ StuckInv'
      BY <1>2, <2>2, <2>3
      DEF SelectIndex, EndInv, Last, AfterInv, StuckInv, trainerVars, workerVars
    <2>9. QED
      BY <1>1, <2>6, <2>7, <2>8 DEF IInv
  <1>3. CASE UpdateIndex
    <2>1. Active
      BY <1>3, WorkerActive DEF UpdateIndex
    <2>2. /\ ppc = "refresh_wait" /\ rep = <<>> /\ res = <<>> /\ Tail(cmd) = <<>>
          /\ Head(cmd).nodes = gpuNodes /\ Fresh(gpuNodes, scratch)
          /\ StoreBehind(Dropped \cup gpuNodes)
      BY <1>3, <2>1, ServingUpdate DEF UpdateIndex
    <2>3. wpc = "idle" /\ gpuNodes \subseteq Nodes
      BY <1>3 DEF UpdateIndex, Serving, IInv, TypeInv, TypeOK
    <2>4. One(rep)' /\ cmd' = <<>>
      BY <1>3, <2>2, AppendOne DEF UpdateIndex, One
    <2>5. StoreBehind(Dropped)'
      BY <1>3, <2>2, <2>3 DEF UpdateIndex, Fresh, StoreBehind, Dropped, setup, trainerVars
    <2>6. GpuInv' /\ CaptureInv'
      BY <1>3, <2>1 DEF UpdateIndex, IInv, GpuInv, CaptureInv, Fresh, Prev, Roots, setup, trainerVars
    <2>7. StreamInv' /\ AfterInv' /\ StuckInv'
      BY <1>3, <2>2, <2>3 DEF UpdateIndex, StreamInv, AfterInv, StuckInv, trainerVars
    <2>8. EndInv'
      BY <1>3, <2>2, <2>3, <2>4, <2>5 DEF UpdateIndex, EndInv, Last, trainerVars
    <2>9. QED
      BY <1>1, <2>6, <2>7, <2>8 DEF IInv
  <1>4. CASE UnknownFunction
    <2>1. ~Active /\ wpc = "idle"
      BY <1>4, ServingExit DEF UnknownFunction
    <2>2. ~Active' /\ StuckInv'
      BY <1>4, <2>1
      DEF UnknownFunction, Active, Holding, Overflowed, StuckInv, trainerVars, workerVars
    <2>3. AfterInv'
      <3>1. ppc # "failed"
        BY <2>1 DEF IInv, AfterInv
      <3>2. ppc \in {"terminate", "done"}
        BY <2>1, <3>1 DEF IInv, TypeInv, TypeOK, Active, Holding, Overflowed
      <3>3. Tail(cmd) = <<>>
        BY <1>4, <2>1, <3>2 DEF IInv, AfterInv, One, UnknownFunction, Serving
      <3>4. QED
        BY <1>4, <2>1, <3>1, <3>3 DEF UnknownFunction, AfterInv, trainerVars, workerVars
    <2>4. QED
      BY <1>1, <2>2, <2>3 DEF IInv
  <1>5. QED
    BY <1>2, <1>3, <1>4

\* The worker takes the request for the next block.
LEMMA StartPrefetchInv == ASSUME IInv, StartPrefetch PROVE IInv'
  <1>1. TypeInv'
    BY WorkerType DEF IInv, Worker
  <1>2. Active /\ Preparing /\ Requested
    BY WorkerActive, WorkingOn DEF StartPrefetch
  <1>3. Queued /\ rep = <<>>
    BY <1>2 DEF StartPrefetch, Serving, Requested, Served, Answered
  <1>4. Requested'
    BY <1>3
    DEF StartPrefetch, Requested, Queued, Served, One, InfoOK, StoreBehind, Fresh, Prev, Roots,
        setup, trainerVars
  <1>5. (GpuInv /\ CaptureInv /\ StreamInv /\ EndInv)'
    BY <1>2, <1>4, PreparingStep DEF StartPrefetch
  <1>6. StuckInv' /\ AfterInv'
    BY <1>2 DEF StartPrefetch, StuckInv, AfterInv, Preparing, trainerVars
  <1>7. QED
    BY <1>1, <1>5, <1>6 DEF IInv

\* The write-back leaves only the nodes being trained behind.
LEMMA MemUpdateInv == ASSUME IInv, MemUpdate PROVE IInv'
  <1>1. TypeInv'
    BY WorkerType DEF IInv, Worker
  <1>2. Active /\ Preparing /\ Requested
    BY WorkerActive, WorkingOn DEF MemUpdate
  <1>3. Served /\ rep = <<>> /\ InfoOK(job.info)
    BY <1>2 DEF MemUpdate, Requested, Queued, Served, Answered
  <1>4. StoreBehind(Prev)'
    BY <1>3 DEF MemUpdate, InfoOK, StoreBehind, Fresh, Prev, Roots, setup, trainerVars
  <1>5. Requested'
    BY <1>3, <1>4 DEF MemUpdate, Requested, Served, trainerVars, channelVars
  <1>6. (GpuInv /\ CaptureInv /\ StreamInv /\ EndInv)'
    BY <1>2, <1>5, PreparingStep DEF MemUpdate
  <1>7. StuckInv' /\ AfterInv'
    BY <1>2 DEF MemUpdate, StuckInv, AfterInv, Preparing, trainerVars
  <1>8. QED
    BY <1>1, <1>6, <1>7 DEF IInv

\* What is read is current: the nodes being trained are on the GPU and are not
\* read, or keep the copy of the GPU.
LEMMA MemSelectInv == ASSUME IInv, MemSelect PROVE IInv'
  <1>1. TypeInv'
    BY WorkerType DEF IInv, Worker
  <1>2. Active /\ Preparing /\ Requested
    BY WorkerActive, WorkingOn DEF MemSelect
  <1>3. Served /\ rep = <<>> /\ StoreBehind(Prev)
    BY <1>2 DEF MemSelect, Requested, Queued, Served, Answered
  <1> DEFINE all  == stream.pos[job.block] \cup job.neg
             read == IF config.incre THEN all \ job.base ELSE all
  <1>4. built' = [nodes |-> all, mem |-> Rows(read, store)]
    BY DEF MemSelect
  <1>5. BlockOK(built)'
    <2>1. job.block = curBlock /\ job.base = gpuNodes
      BY <1>3 DEF Served
    <2>2. Roots(curBlock) \subseteq all
      <3>1. job.block \in Blocks /\ stream \in Streams
        BY DEF IInv, TypeInv, TypeOK, Prefetch
      <3>2. QED
        BY <2>1, <3>1, StreamType DEF Roots
    <2>3. Prev \subseteq gpuNodes
      BY <1>2 DEF IInv, GpuInv, Preparing
    <2>4. ASSUME NEW n \in all, n \notin gpuNodes PROVE Rows(read, store)[n] = truth[n]
      <3>1. n \in Nodes
        <4>1. built' \in Info
          BY <1>1 DEF TypeInv, TypeOK
        <4>2. QED
          BY <1>4, <2>4, <4>1 DEF Info
      <3>2. n \in read
        BY <2>1, <2>4
      <3>3. store[n] = truth[n]
        BY <1>3, <2>3, <2>4, <3>1 DEF StoreBehind, Fresh
      <3>4. QED
        BY <3>1, <3>2, <3>3 DEF Rows
    <2>5. QED
      BY <1>4, <2>2, <2>4 DEF MemSelect, BlockOK, Fresh, Roots, setup, trainerVars
  <1>6. Requested'
    BY <1>3, <1>5
    DEF MemSelect, Requested, Served, StoreBehind, Fresh, Prev, Roots, setup, trainerVars, channelVars
  <1>7. (GpuInv /\ CaptureInv /\ StreamInv /\ EndInv)'
    BY <1>2, <1>6, PreparingStep DEF MemSelect
  <1>8. StuckInv' /\ AfterInv'
    BY <1>2 DEF MemSelect, StuckInv, AfterInv, Preparing, trainerVars
  <1>9. QED
    BY <1>1, <1>7, <1>8 DEF IInv

\* A worker that reports an extension leaves the run in its last block.
LEMMA ExtensionInv == ASSUME IInv, Extension PROVE IInv'
  <1>1. TypeInv'
    BY WorkerType DEF IInv, Worker
  <1>2. Active /\ Preparing /\ Requested
    BY WorkerActive, WorkingOn DEF Extension
  <1>3. Served /\ rep = <<>>
    BY <1>2 DEF Extension, Requested, Queued, Served, Answered
  <1>4. ~Active'
    BY DEF Extension, Active, Overflowed
  <1>5. One(res)' /\ job.block = curBlock /\ job.block > 0
    <2>1. res' = Append(<<>>, "extension")
      BY <1>3 DEF Extension, Served
    <2>2. curBlock > 0
      BY <1>2, Bounds DEF Preparing
    <2>3. QED
      BY <1>3, <2>1, <2>2, AppendOne DEF Served, One
  <1>6. StuckInv' /\ AfterInv'
    BY <1>2, <1>3, <1>5 DEF Extension, StuckInv, AfterInv, Preparing, trainerVars
  <1>7. QED
    BY <1>1, <1>4, <1>6 DEF IInv

\* What the worker publishes is the block it was asked for.
LEMMA PublishInv == ASSUME IInv, Publish PROVE IInv'
  <1>1. TypeInv'
    BY WorkerType DEF IInv, Worker
  <1>2. Active /\ Preparing /\ Requested
    BY WorkerActive, WorkingOn DEF Publish
  <1>3. Served /\ rep = <<>> /\ StoreBehind(Prev) /\ BlockOK(built)
    BY <1>2 DEF Publish, Requested, Queued, Served, Answered
  <1>4. ShareOK'
    BY <1>3 DEF Publish, Served, ShareOK, BlockOK, Fresh, Roots, setup, trainerVars
  <1>5. Requested'
    BY <1>3, <1>4
    DEF Publish, Requested, Served, StoreBehind, Fresh, Prev, Roots, setup, trainerVars, channelVars
  <1>6. (GpuInv /\ CaptureInv /\ StreamInv /\ EndInv)'
    BY <1>2, <1>5, PreparingStep DEF Publish
  <1>7. StuckInv' /\ AfterInv'
    BY <1>2 DEF Publish, StuckInv, AfterInv, Preparing, trainerVars
  <1>8. QED
    BY <1>1, <1>6, <1>7 DEF IInv

\* The worker answers after it has published.
LEMMA ReplyInv == ASSUME IInv, Reply PROVE IInv'
  <1>1. TypeInv'
    BY WorkerType DEF IInv, Worker
  <1>2. Active /\ Preparing /\ Requested
    BY WorkerActive, WorkingOn DEF Reply
  <1>3. Served /\ rep = <<>> /\ StoreBehind(Prev) /\ ShareOK
    BY <1>2 DEF Reply, Requested, Queued, Served, Answered
  <1>4. One(res)'
    BY <1>3, AppendOne DEF Reply, Served, One
  <1>5. Requested'
    BY <1>3, <1>4
    DEF Reply, Requested, Served, Answered, StoreBehind, ShareOK, BlockOK, Fresh, Prev, Roots,
        setup, trainerVars
  <1>6. (GpuInv /\ CaptureInv /\ StreamInv /\ EndInv)'
    BY <1>2, <1>5, PreparingStep DEF Reply
  <1>7. StuckInv' /\ AfterInv'
    BY <1>2 DEF Reply, StuckInv, AfterInv, Preparing, trainerVars
  <1>8. QED
    BY <1>1, <1>6, <1>7 DEF IInv

\* IInv is inductive.
LEMMA NextIInv == IInv /\ [Next]_vars => IInv'
  <1> SUFFICES ASSUME IInv, [Next]_vars PROVE IInv'
    OBVIOUS
  <1>1. CASE Trainer
    BY <1>1, EnterFirstInv, TakeFirstInv, EnterAsyncInv, EnterSyncInv, RecvResultInv, InstallInv,
       InstallFailsInv, SampleNextInv, TrainBatchInv, EndBlockInv, RefreshInv, RefreshDoneInv, ExitInv
    DEF Trainer
  <1>2. CASE Worker
    BY <1>2, ServeInv, StartPrefetchInv, MemUpdateInv, MemSelectInv, ExtensionInv, PublishInv, ReplyInv
    DEF Worker
  <1>3. CASE UNCHANGED vars
    <2>1. TypeInv'
      BY <1>3, NextTypeInv DEF IInv
    <2>2. (Active => GpuInv /\ CaptureInv /\ StreamInv /\ EndInv)'
      BY <1>3
      DEF IInv, Active, Holding, Overflowed, GpuInv, CaptureInv, StreamInv, EndInv, Last, Ahead,
          Requested, Queued, Served, Answered, ShareOK, BlockOK, InfoOK, StoreBehind, Fresh, One,
          Quiet, Prev, Roots, Dropped, vars, setup, trainerVars, workerVars, channelVars
    <2>3. StuckInv' /\ AfterInv'
      BY <1>3 DEF IInv, StuckInv, AfterInv, One, vars, trainerVars, workerVars, channelVars
    <2>4. QED
      BY <2>1, <2>2, <2>3 DEF IInv
  <1>4. QED
    BY <1>1, <1>2, <1>3 DEF Next, Terminated

\* IInv holds in every reachable state.
THEOREM Inductive == Spec => []IInv
  BY InitIInv, NextIInv, PTL DEF Spec

----------------------------------------------------------------------------
(* What the invariant implies *)

\* What the batches read from the GPU is the memory of the non-cached scenario
\* (the check of Feat_buffer.input_mails), in every run whose blocks fit.
THEOREM Consistent == Spec => []MemoryConsistent
  <1>1. IInv => MemoryConsistent
    BY DEF IInv, GpuInv, MemoryConsistent, Active, Holding, Fresh
  <1>2. QED
    BY <1>1, Inductive, PTL

\* What prefetch_after installs is the block the trainer has reached, computed
\* against the node map it has, and holds the nodes that will be updated.
THEOREM RightBlock == Spec => []InstallsExpectedBlock
  <1>1. IInv => InstallsExpectedBlock
    BY DEF IInv, StreamInv, InstallsExpectedBlock, Active, Holding, ShareOK, BlockOK, Roots
  <1>2. QED
    BY <1>1, Inductive, PTL

\* refresh_memory leaves a complete memory in the worker, but for the nodes of
\* the last memory_info, which is never sent.
THEOREM StoreComplete == Spec => []StoreAfterRefresh
  <1>1. ASSUME IInv PROVE StoreAfterRefresh
    <2>1. SUFFICES ASSUME ppc = "trained" PROVE \A n \in Nodes \ Dropped : store[n] = truth[n]
      BY DEF StoreAfterRefresh
    <2>2. Active
      BY <1>1, <2>1 DEF IInv, StuckInv, Active, Holding, Overflowed
    <2>3. QED
      BY <1>1, <2>1, <2>2 DEF IInv, EndInv, StoreBehind, Fresh
  <1>2. QED
    BY <1>1, Inductive, PTL

\* A worker stuck on an extension stops the trainer at the next boundary.
THEOREM StopsAfterOverflow == Spec => []OverflowIsLast
  <1>1. ASSUME IInv PROVE OverflowIsLast
    BY <1>1, JobBlock DEF IInv, StuckInv, OverflowIsLast, Overflowed
  <1>2. QED
    BY <1>1, Inductive, PTL

\* No update of a node is lost between the GPU, the messages and the worker,
\* but those of the last memory_info.
THEOREM NothingLost == Spec => []NoLostUpdate
  <1>1. ASSUME IInv PROVE NoLostUpdate
    <2>1. SUFFICES ASSUME Active, Holding, NEW n \in Nodes \ Dropped
                   PROVE  LatestCopy(n) = truth[n]
      BY DEF NoLostUpdate, Active
    <2>2. CASE n \in gpuNodes
      BY <1>1, <2>1, <2>2 DEF IInv, GpuInv, Holding, Fresh, LatestCopy
    <2>3. CASE n \notin gpuNodes /\ n \in memInfo.nodes
      BY <1>1, <2>1, <2>3 DEF IInv, CaptureInv, Fresh, LatestCopy
    <2>4. CASE n \notin gpuNodes /\ n \notin memInfo.nodes
      <3>1. ppc # "sample" => Prev \subseteq gpuNodes
        BY <1>1, <2>1 DEF IInv, GpuInv
      <3>2. curBlock \in 1 .. NBlocks - 1 \/ curBlock = 0 \/ curBlock = NBlocks
        BY <1>1, JobBlock, Bounds
      <3>3. CASE Preparing /\ Requested
        <4>1. n \notin Prev
          BY <2>4, <3>1, <3>3 DEF Preparing
        <4>2. CASE Queued
          BY <2>1, <2>4, <4>1, <4>2
          DEF Queued, One, InfoOK, StoreBehind, Fresh, LatestCopy, InFlight
        <4>3. CASE Served
          BY <2>1, <2>4, <3>3, <4>1, <4>3
          DEF Served, Preparing, InfoOK, StoreBehind, Fresh, LatestCopy, InFlight, NoInfo
        <4>4. CASE Answered
          BY <2>1, <2>4, <3>3, <4>1, <4>4
          DEF Answered, Preparing, StoreBehind, Fresh, LatestCopy, InFlight, NoInfo
        <4>5. QED
          BY <3>3, <4>2, <4>3, <4>4 DEF Requested
      <3>4. CASE ppc \in {"train", "loop"} /\ curBlock \in 1 .. NBlocks - 1 /\ ~config.async
        <4>1. Quiet /\ InfoOK(saved.info) /\ n \notin Prev
          BY <1>1, <2>1, <2>4, <3>1, <3>4 DEF IInv, StreamInv, Ahead
        <4>2. QED
          BY <2>1, <2>4, <3>4, <4>1 DEF Quiet, InfoOK, StoreBehind, Fresh, LatestCopy, InFlight
      <3>5. CASE ppc = "recv" \/ (ppc \in {"train", "loop"} /\ curBlock \in 1 .. NBlocks - 1)
        <4>1. ppc = "recv" => curBlock \in 1 .. NBlocks - 1
          BY <1>1, <3>2, Bounds DEF IInv, TypeInv, BlockInRange
        <4>2. CASE ppc = "recv" /\ Requested
          <5>1. n \notin Prev
            BY <2>4, <3>1, <4>2
          <5>2. QED
            BY <2>1, <2>4, <4>2, <5>1
            DEF Requested, Queued, Served, Answered, One, InfoOK, StoreBehind, Fresh, LatestCopy,
                InFlight, NoInfo
        <4>3. QED
          BY <1>1, <2>1, <3>3, <3>4, <3>5, <4>1, <4>2 DEF IInv, StreamInv, Ahead, Preparing
      <3>6. CASE ppc \in {"loop", "install", "sample"} /\ Quiet /\ StoreBehind(Prev)
                 /\ (ppc = "loop" => curBlock = 0)
        <4>1. ppc = "sample" => Prev \ Roots(curBlock) \subseteq memInfo.nodes
                                /\ Roots(curBlock) \subseteq gpuNodes
          BY <1>1, <2>1 DEF IInv, CaptureInv, GpuInv
        <4>2. n \notin Prev
          BY <2>4, <3>1, <3>6, <4>1
        <4>3. QED
          BY <2>1, <2>4, <3>6, <4>2, Bounds
          DEF Quiet, StoreBehind, Fresh, LatestCopy, InFlight, NoInfo
      <3>7. CASE curBlock = NBlocks /\ ppc \in {"train", "refresh", "refresh_wait", "trained"}
        <4>1. StoreBehind(Dropped \cup gpuNodes)
          BY <1>1, <2>1, <3>7 DEF IInv, EndInv, Last, StoreBehind, Fresh
        <4>2. InFlight = NoInfo
          <5>1. wpc # "update"
            BY <1>1, <2>1, <3>7 DEF IInv, EndInv, Last, Quiet
          <5>2. cmd # <<>> => Head(cmd).fn # "pre_fetch"
            BY <1>1, <2>1, <3>7 DEF IInv, EndInv, Last, Quiet, UpdateCmd
          <5>3. QED
            BY <3>7, <5>1, <5>2, Bounds DEF InFlight
        <4>3. QED
          BY <2>1, <2>4, <4>1, <4>2 DEF StoreBehind, Fresh, LatestCopy, NoInfo
      <3>8. CASE ppc = "loop" /\ curBlock = 0
        <4>1. Quiet /\ StoreBehind({}) /\ Prev = {}
          BY <1>1, <2>1, <3>8 DEF IInv, StreamInv, Prev
        <4>2. QED
          BY <3>6, <3>8, <4>1
      <3>9. CASE ppc \in {"install", "sample"}
        BY <1>1, <2>1, <3>6, <3>9 DEF IInv, StreamInv
      <3>10. BlockInRange
        BY <1>1 DEF IInv, TypeInv
      <3>11. QED
        BY <2>1, <3>2, <3>5, <3>7, <3>8, <3>9, <3>10, Bounds DEF BlockInRange, Holding
    <2>5. QED
      BY <2>2, <2>3, <2>4
  <1>2. QED
    BY <1>1, Inductive, PTL

\* A published block is not overwritten before the trainer has copied it.
THEOREM SharedStable == Spec => SharedTensorsStable
  <1>1. ASSUME IInv, [Next]_vars, share' # share PROVE res = <<>> /\ ppc # "install"
    <2>1. Publish
      BY <1>1
      DEF Next, Trainer, EnterFirst, TakeFirst, EnterAsync, EnterSync, RecvResult, Install,
          InstallFails, SampleNext, TrainBatch, EndBlock, Refresh, RefreshDone, Exit, Terminate,
          Worker, SelectIndex, UpdateIndex, UnknownFunction, StartPrefetch, MemUpdate, MemSelect,
          Extension, Reply, Terminated, vars, workerVars
    <2>2. Preparing /\ Requested
      BY <1>1, <2>1, WorkerActive, WorkingOn DEF Publish
    <2>3. QED
      BY <2>1, <2>2 DEF Publish, Preparing, Requested, Queued, Served, Answered
  <1>2. QED
    BY <1>1, Inductive, PTL DEF Spec, SharedTensorsStable

\* The worker's memory is never overwritten with an old value of a node that is
\* not on the GPU.
THEOREM NeverStale == Spec => WriteBackNeverStale
  <1>1. ASSUME IInv, [Next]_vars
        PROVE  \A n \in Nodes : store'[n] # store[n] => store'[n] = truth[n] \/ n \in gpuNodes
    <2> SUFFICES ASSUME NEW n \in Nodes, store'[n] # store[n]
                 PROVE  store'[n] = truth[n] \/ n \in gpuNodes
      OBVIOUS
    <2>1. UpdateIndex \/ MemUpdate
      BY <1>1
      DEF Next, Trainer, EnterFirst, TakeFirst, EnterAsync, EnterSync, RecvResult, Install,
          InstallFails, SampleNext, TrainBatch, EndBlock, Refresh, RefreshDone, Exit, Terminate,
          Worker, SelectIndex, UnknownFunction, StartPrefetch, MemSelect, Extension, Publish,
          Reply, Terminated, vars, workerVars
    <2>2. CASE UpdateIndex
      <3>1. Head(cmd).nodes = gpuNodes
        BY <1>1, <2>2, WorkerActive, ServingUpdate DEF UpdateIndex
      <3>2. QED
        BY <1>1, <2>2, <3>1 DEF UpdateIndex
    <2>3. CASE MemUpdate
      <3>1. Active /\ Preparing /\ Requested
        BY <1>1, <2>3, WorkerActive, WorkingOn DEF MemUpdate
      <3>2. InfoOK(job.info)
        BY <2>3, <3>1 DEF MemUpdate, Requested, Queued, Served, Answered
      <3>3. Prev \subseteq gpuNodes
        BY <1>1, <3>1 DEF IInv, GpuInv, Preparing
      <3>4. QED
        BY <1>1, <2>3, <3>2, <3>3 DEF MemUpdate, InfoOK, Fresh
    <2>4. QED
      BY <2>1, <2>2, <2>3
  <1>2. QED
    BY <1>1, Inductive, PTL DEF Spec, WriteBackNeverStale

----------------------------------------------------------------------------
(* The refinement *)

\* share_node_num is large enough for every node of the graph.
Fits == IsFiniteSet(Nodes) /\ Cardinality(Nodes) <= Capacity

FitInv == IInv /\ ~Overflowed

\* With shared tensors as large as the graph the worker never meets an extension.
LEMMA FitInvHolds == ASSUME Fits PROVE Spec => []FitInv
  <1>1. Init => FitInv
    BY InitIInv DEF FitInv, Init, Overflowed
  <1>2. ASSUME FitInv, [Next]_vars PROVE FitInv'
    <2>1. IInv'
      BY <1>2, NextIInv DEF FitInv
    <2>2. ~Extension
      <3>1. built.nodes \in SUBSET Nodes /\ Capacity \in Nat
        BY <1>2, PipelineAssumption DEF FitInv, IInv, TypeInv, TypeOK, Info
      <3>2. Cardinality(built.nodes) \in Nat /\ Cardinality(built.nodes) <= Cardinality(Nodes)
            /\ Cardinality(Nodes) \in Nat
        BY <3>1, FS_Subset, FS_CardinalityType DEF Fits
      <3>3. ASSUME Extension PROVE Cardinality(built.nodes) > Capacity
        BY <3>3 DEF Extension
      <3>4. QED
        BY <3>1, <3>2, <3>3 DEF Fits
    <2>3. wpc' # "extend"
      BY <1>2, <2>2
      DEF FitInv, Overflowed, Next, Trainer, EnterFirst, TakeFirst, EnterAsync, EnterSync,
          RecvResult, Install, InstallFails, SampleNext, TrainBatch, EndBlock, Refresh, RefreshDone,
          Exit, Terminate, Worker, SelectIndex, UpdateIndex, UnknownFunction, StartPrefetch,
          MemUpdate, MemSelect, Publish, Reply, Terminated, vars, workerVars
    <2>4. QED
      BY <2>1, <2>3 DEF FitInv, Overflowed
  <1>3. QED
    BY <1>1, <1>2, PTL DEF Spec

\* The first state is a first state of training on the memory itself.
LEMMA InitRefines == Init => NonCached!AbsInit
  BY DEF Init, NonCached!AbsInit, View, EnteredBlocks

\* Entering a block gives the batches the current memory of its nodes.
LEMMA EntryRefines ==
  ASSUME FitInv, FitInv', TakeFirst \/ Install
  PROVE  NonCached!AbsAdvance
  <1>1. /\ ppc' = "sample" /\ curBlock' = curBlock /\ truth' = truth
        /\ ppc \in {"first", "install"}
    BY DEF TakeFirst, Install
  <1>2. EnteredBlocks' = EnteredBlocks + 1 /\ EnteredBlocks < NBlocks
    <2>1. curBlock < NBlocks
      BY <1>1, Bounds DEF FitInv, IInv, TypeInv, BlockInRange
    <2>2. QED
      BY <1>1, <2>1 DEF EnteredBlocks
  <1>3. View' = [n \in gpuNodes' |-> truth[n]] /\ gpuNodes' \in SUBSET Nodes
    <2>1. Fresh(gpuNodes, gpuMem)' /\ gpuNodes' \in SUBSET Nodes
      BY <1>1 DEF FitInv, IInv, TypeInv, TypeOK, GpuInv, Active, Holding
    <2>2. \A n \in gpuNodes' : gpuMem'[n] = truth[n]
      BY <1>1, <2>1 DEF Fresh
    <2>3. View' = [n \in gpuNodes' |-> gpuMem'[n]]
      BY <1>1 DEF View
    <2>4. QED
      BY <2>1, <2>2, <2>3
  <1>4. QED
    BY <1>1, <1>2, <1>3 DEF NonCached!AbsAdvance, NonCached!Window

\* A batch sees and updates the memory itself.
LEMMA BatchRefines ==
  ASSUME FitInv, FitInv', TrainBatch
  PROVE  NonCached!AbsBatch
  <1>1. PICK S \in (SUBSET stream.roots[OnGpu]) \ {{}} :
          truth' = [n \in Nodes |-> IF n \in S THEN truth[n] + 1 ELSE truth[n]]
    BY DEF TrainBatch
  <1>2. /\ ppc = "train" /\ ppc' = "train" /\ curBlock' = curBlock /\ gpuNodes' = gpuNodes
        /\ curBlock > 0
    BY DEF TrainBatch, FitInv, IInv, TypeInv, BlockInRange
  <1>3. Active
    BY <1>2 DEF Active, Holding, FitInv
  <1>4. Fresh(gpuNodes, gpuMem) /\ Fresh(gpuNodes, gpuMem)' /\ Prev \subseteq gpuNodes
    BY <1>2, <1>3, BatchUpdates DEF FitInv, IInv, GpuInv
  <1>5. S \subseteq gpuNodes /\ gpuNodes \subseteq Nodes
    BY <1>1, <1>2, <1>4 DEF OnGpu, Prev, Roots, FitInv, IInv, TypeInv, TypeOK
  <1>6. View = [n \in gpuNodes |-> gpuMem[n]] /\ View' = [n \in gpuNodes |-> gpuMem'[n]]
    BY <1>2 DEF View
  <1>7. \A n \in gpuNodes : gpuMem[n] = truth[n] /\ gpuMem'[n] = truth'[n]
    BY <1>2, <1>4 DEF Fresh
  <1>8. View' = [n \in gpuNodes |-> IF n \in S THEN View[n] + 1 ELSE View[n]]
    <2>1. ASSUME NEW n \in gpuNodes
          PROVE  gpuMem'[n] = (IF n \in S THEN View[n] + 1 ELSE View[n])
      BY <1>1, <1>5, <1>6, <1>7
    <2>2. QED
      BY <1>6, <2>1
  <1>9. DOMAIN View = gpuNodes
    BY <1>6
  <1>10. EnteredBlocks' = EnteredBlocks
    BY <1>2 DEF EnteredBlocks
  <1>11. QED
    BY <1>1, <1>5, <1>8, <1>9, <1>10 DEF NonCached!AbsBatch

\* The other steps cannot be seen.
LEMMA OtherStutters ==
  ASSUME FitInv, FitInv', [Next]_vars, ~TakeFirst, ~Install, ~TrainBatch
  PROVE  UNCHANGED NonCached!absVars
  <1>1. CASE EnterFirst
    <2>1. gpuNodes = {}
      BY <1>1 DEF EnterFirst, FitInv, IInv, StreamInv, Active, Holding
    <2>2. View = [n \in {} |-> 0] /\ View' = [n \in {} |-> 0]
      BY <1>1, <2>1 DEF EnterFirst, View
    <2>3. QED
      BY <1>1, <2>2 DEF EnterFirst, EnteredBlocks, NonCached!absVars
  <1>2. CASE SampleNext
    BY <1>2 DEF SampleNext, View, EnteredBlocks, NonCached!absVars
  <1>3. CASE Exit \/ Terminate
    BY <1>3 DEF Exit, Terminate, View, EnteredBlocks, NonCached!absVars
  <1>4. CASE Worker
    BY <1>4
    DEF Worker, SelectIndex, UpdateIndex, UnknownFunction, StartPrefetch, MemUpdate, MemSelect,
        Extension, Publish, Reply, trainerVars, View, EnteredBlocks, NonCached!absVars
  <1>5. CASE UNCHANGED vars
    BY <1>5 DEF vars, trainerVars, View, EnteredBlocks, NonCached!absVars
  <1>6. CASE EnterAsync \/ EnterSync \/ RecvResult \/ InstallFails
    BY <1>6
    DEF EnterAsync, EnterSync, RecvResult, InstallFails, View, EnteredBlocks, NonCached!absVars
  <1>7. CASE EndBlock \/ Refresh \/ RefreshDone
    BY <1>7 DEF EndBlock, Refresh, RefreshDone, View, EnteredBlocks, NonCached!absVars
  <1>8. QED
    BY <1>1, <1>2, <1>3, <1>4, <1>5, <1>6, <1>7 DEF Next, Trainer, Terminated

\* Training through the block pipeline is training on the non-cached memory.
THEOREM Implements == ASSUME Fits PROVE Spec => ImplementsNonCached
  <1>1. Init => NonCached!AbsInit
    BY InitRefines
  <1>2. FitInv /\ FitInv' /\ [Next]_vars
          => [NonCached!AbsAdvance \/ NonCached!AbsBatch]_(NonCached!absVars)
    BY EntryRefines, BatchRefines, OtherStutters
  <1>3. Spec => []FitInv
    BY FitInvHolds
  <1>4. QED
    BY <1>1, <1>2, <1>3, PTL DEF Spec, ImplementsNonCached, NonCached!AbsSpec
=============================================================================
