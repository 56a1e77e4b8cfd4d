------------------------ MODULE BlockPipelineProofs ------------------------
(***************************************************************************)
(* Type correctness of BlockPipeline, for every graph, edge stream,        *)
(* setting and bound.                                                      *)
(***************************************************************************)
EXTENDS BlockPipelineInv, TLAPS

\* Rows of a memory are a memory.
LEMMA RowsType ==
  ASSUME NEW S, NEW f, \A n \in S \cap Nodes : f[n] \in Value
  PROVE  Rows(S, f) \in [Nodes -> Value]
  BY DEF Rows, Value

\* The memory_info that updates nothing is well formed.
LEMMA NoInfoType == NoInfo \in Info
  BY RowsType DEF NoInfo, Info

\* One more update of a value is a value.
LEMMA BumpType == ASSUME NEW v \in Value PROVE Bump(v) \in Value
  BY DEF Bump, Value

\* The constants of a run, as the steps need them.
LEMMA StreamType ==
  ASSUME stream \in Streams
  PROVE  /\ stream.roots \in [Blocks -> SUBSET Nodes]
         /\ stream.pos \in [Blocks -> SUBSET Nodes]
         /\ \A k \in Blocks : stream.roots[k] \subseteq stream.pos[k]
  BY PipelineAssumption DEF Stream

\* The state after the two resets of the epoch is well typed.
LEMMA InitTypeInv == Init => TypeInv
  <1> SUFFICES ASSUME Init PROVE TypeInv
    OBVIOUS
  <1> USE PipelineAssumption, NoInfoType
  <1>1. Rows({}, <<>>) \in [Nodes -> Value]
    BY RowsType
  <1>2. job \in Prefetch
    BY DEF Init, PrefetchCmd, Prefetch, Blocks
  <1>3. saved \in [info : Info, neg : SUBSET Nodes]
    BY DEF Init
  <1>4. built \in Info /\ memInfo \in Info
    BY <1>1 DEF Init, Info
  <1>5. share \in [block : Blocks, nodes : SUBSET Nodes, base : SUBSET Nodes, mem : [Nodes -> Value]]
    BY <1>1 DEF Init, Blocks
  <1>6. QED
    BY <1>1, <1>2, <1>3, <1>4, <1>5 DEF Init, TypeInv, TypeOK, BlockInRange, Value

(* What Append and Tail do to a channel. *)
LEMMA AppendType ==
  ASSUME NEW T, NEW q \in Seq(T), NEW m \in T
  PROVE  Append(q, m) \in Seq(T)
  OBVIOUS

\* Taking a message from a channel keeps its type.
LEMMA TailType ==
  ASSUME NEW T, NEW q \in Seq(T), q # <<>>
  PROVE  Tail(q) \in Seq(T) /\ Head(q) \in T
  OBVIOUS

\* The numeric constants, without the rest of the assumption.
LEMMA Bounds == NBlocks \in Nat /\ NBlocks > 0 /\ MaxBatches \in Nat /\ MaxBatches > 0
  BY PipelineAssumption

\* The counters of the trainer step within the naturals.
LEMMA Counters ==
  ASSUME TypeOK
  PROVE  curBlock \in Nat /\ curBlock <= NBlocks /\ batches \in Nat /\ batches <= MaxBatches
  <1>1. curBlock \in 0 .. NBlocks /\ batches \in 0 .. MaxBatches
    BY DEF TypeOK
  <1>2. QED
    BY <1>1, Bounds

\* The trainer counts blocks from 0.
LEMMA BlockBounds ==
  ASSUME TypeOK
  PROVE  /\ curBlock < NBlocks => curBlock \in Blocks
         /\ curBlock > 0 => curBlock - 1 \in Blocks
         /\ curBlock + 1 < NBlocks => curBlock + 1 \in Blocks
         /\ 0 \in Blocks
  BY Bounds, Counters DEF Blocks

\* The trainer's steps.  Leaving and the mapped rows are the only new values
\* that are not copied from another variable.
LEMMA LeavingType ==
  ASSUME TypeOK, curBlock > 0, curBlock < NBlocks
  PROVE  Leaving \in SUBSET Nodes
  <1>1. curBlock \in Blocks /\ curBlock - 1 \in Blocks
    BY BlockBounds
  <1>2. QED
    BY <1>1, StreamType DEF TypeOK, Leaving

\* What the trainer captures at a boundary is a memory_info.
LEMMA CapturedType ==
  ASSUME TypeOK, curBlock > 0, curBlock < NBlocks
  PROVE  [nodes |-> Leaving, mem |-> Rows(Leaving, gpuMem)] \in Info
  <1>1. Rows(Leaving, gpuMem) \in [Nodes -> Value]
    BY RowsType DEF TypeOK
  <1>2. QED
    BY <1>1, LeavingType DEF Info

\* The boundary of a block, up to the answer of the worker, is well typed.
LEMMA BoundaryType ==
  ASSUME TypeInv, EnterFirst \/ TakeFirst \/ EnterAsync \/ EnterSync \/ RecvResult
  PROVE  TypeInv'
  <1> USE Bounds
  <1>1. CASE EnterFirst
    <2>1. PICK neg \in SUBSET Nodes :
            /\ gpuNodes' = stream.pos[0] \cup neg
            /\ cmd' = Append(cmd, SelectCmd(stream.pos[0] \cup neg))
      BY <1>1 DEF EnterFirst
    <2>2. stream.pos[0] \cup neg \in SUBSET Nodes
      BY StreamType, BlockBounds DEF TypeInv, TypeOK
    <2>3. SelectCmd(stream.pos[0] \cup neg) \in Command
      BY <2>2 DEF SelectCmd, Command
    <2>4. cmd' \in Seq(Command)
      BY <2>1, <2>3, AppendType DEF TypeInv, TypeOK
    <2>5. QED
      BY <1>1, <2>1, <2>2, <2>4, NoInfoType
      DEF EnterFirst, TypeInv, TypeOK, BlockInRange, setup, workerVars
  <1>2. CASE TakeFirst
    <2>1. rep' \in Seq({"ok", "not found"})
      BY <1>2, TailType DEF TakeFirst, TypeInv, TypeOK
    <2>2. gpuMem' \in [Nodes -> Value]
      BY <1>2, RowsType DEF TakeFirst, TypeInv, TypeOK
    <2>3. QED
      BY <1>2, <2>1, <2>2 DEF TakeFirst, TypeInv, TypeOK, BlockInRange, setup, workerVars
  <1>3. CASE EnterAsync
    <2>1. memInfo' \in Info
      BY <1>3, CapturedType DEF EnterAsync, TypeInv, BlockInRange
    <2>2. QED
      BY <1>3, <2>1 DEF EnterAsync, TypeInv, TypeOK, BlockInRange, setup, workerVars, channelVars
  <1>4. CASE EnterSync
    <2>1. memInfo' \in Info
      BY <1>4, CapturedType DEF EnterSync, TypeInv, BlockInRange
    <2>2. curBlock \in Blocks
      BY <1>4, BlockBounds DEF EnterSync, TypeInv, BlockInRange
    <2>3. PrefetchCmd(curBlock, saved.info, saved.neg, gpuNodes) \in Command
      BY <2>2 DEF TypeInv, TypeOK, PrefetchCmd, Prefetch, Command
    <2>4. cmd' \in Seq(Command)
      BY <1>4, <2>3, AppendType DEF EnterSync, TypeInv, TypeOK
    <2>5. QED
      BY <1>4, <2>1, <2>4 DEF EnterSync, TypeInv, TypeOK, BlockInRange, setup, workerVars
  <1>5. CASE RecvResult
    <2>1. res' \in Seq({"ok", "extension"})
      BY <1>5, TailType DEF RecvResult, TypeInv, TypeOK
    <2>2. QED
      BY <1>5, <2>1 DEF RecvResult, TypeInv, TypeOK, BlockInRange, setup, workerVars
  <1>6. QED
    BY <1>1, <1>2, <1>3, <1>4, <1>5

\* The install and the request for the next block are well typed.
LEMMA InstallType ==
  ASSUME TypeInv, Install \/ InstallFails \/ SampleNext
  PROVE  TypeInv'
  <1>1. CASE Install
    <2> DEFINE same == share.nodes \cap share.base
    <2>1. PICK row \in CarriedRows(same) :
            gpuMem' = [n \in Nodes |-> IF n \in same THEN gpuMem[row[n]]
                                       ELSE Rows(share.nodes, share.mem)[n]]
      BY <1>1 DEF Install
    <2>2. Cardinality(share.base) = Cardinality(gpuNodes)
      BY <1>1 DEF Install
    <2>3. row \in [same -> Nodes]
      BY <2>1 DEF CarriedRows, TypeInv, TypeOK
    <2>4. Rows(share.nodes, share.mem) \in [Nodes -> Value]
      BY RowsType DEF TypeInv, TypeOK
    <2>5. gpuMem' \in [Nodes -> Value]
      BY <2>1, <2>3, <2>4 DEF TypeInv, TypeOK
    <2>6. gpuNodes' \in SUBSET Nodes
      BY <1>1 DEF Install, TypeInv, TypeOK
    <2>7. QED
      BY <1>1, <2>5, <2>6
      DEF Install, TypeInv, TypeOK, BlockInRange, setup, workerVars, channelVars
  <1>2. CASE InstallFails
    BY <1>2 DEF InstallFails, TypeInv, TypeOK, BlockInRange, setup, workerVars, channelVars
  <1>3. CASE SampleNext
    <2>1. cmd' \in Seq(Command) /\ saved' \in [info : Info, neg : SUBSET Nodes]
      <3>1. CASE curBlock + 1 < NBlocks
        <4>1. PICK neg \in SUBSET Nodes :
                IF config.async
                THEN /\ cmd' = Append(cmd, PrefetchCmd(curBlock + 1, memInfo, neg, gpuNodes))
                     /\ saved' = saved
                ELSE /\ saved' = [info |-> memInfo, neg |-> neg]
                     /\ cmd' = cmd
          BY <1>3, <3>1 DEF SampleNext
        <4>2. curBlock + 1 \in Blocks
          BY <3>1, BlockBounds DEF TypeInv
        <4>3. PrefetchCmd(curBlock + 1, memInfo, neg, gpuNodes) \in Command
          BY <4>2 DEF TypeInv, TypeOK, PrefetchCmd, Prefetch, Command
        <4>4. Append(cmd, PrefetchCmd(curBlock + 1, memInfo, neg, gpuNodes)) \in Seq(Command)
          BY <4>3, AppendType DEF TypeInv, TypeOK
        <4>5. [info |-> memInfo, neg |-> neg] \in [info : Info, neg : SUBSET Nodes]
          BY DEF TypeInv, TypeOK
        <4>6. QED
          BY <4>1, <4>4, <4>5 DEF TypeInv, TypeOK
      <3>2. CASE ~(curBlock + 1 < NBlocks)
        BY <1>3, <3>2 DEF SampleNext, TypeInv, TypeOK
      <3>3. QED
        BY <3>1, <3>2
    <2>2. curBlock' \in 0 .. NBlocks /\ curBlock' > 0
      BY <1>3, Bounds, Counters DEF SampleNext, TypeInv, BlockInRange
    <2>3. batches' \in 0 .. MaxBatches
      BY <1>3, Bounds DEF SampleNext
    <2>4. QED
      BY <1>3, <2>1, <2>2, <2>3, NoInfoType
      DEF SampleNext, TypeInv, TypeOK, BlockInRange, setup, workerVars
  <1>4. QED
    BY <1>1, <1>2, <1>3

\* Batches, the write-back and the end of the run are well typed.
LEMMA TrainType ==
  ASSUME TypeInv, TrainBatch \/ EndBlock \/ Refresh \/ RefreshDone \/ Exit \/ Terminate
  PROVE  TypeInv'
  <1>1. CASE TrainBatch
    <2>1. PICK S \in (SUBSET stream.roots[OnGpu]) \ {{}} :
       /\ gpuMem' = [n \in Nodes |-> IF n \in S \cap gpuNodes THEN Bump(gpuMem[n]) ELSE gpuMem[n]]
       /\ truth' = [n \in Nodes |-> IF n \in S THEN truth[n] + 1 ELSE truth[n]]
      BY <1>1 DEF TrainBatch
    <2>2. gpuMem' \in [Nodes -> Value]
      BY <2>1, BumpType DEF TypeInv, TypeOK
    <2>3. truth' \in [Nodes -> Nat]
      <3>1. truth \in [Nodes -> Nat]
        BY DEF TypeInv, TypeOK
      <3>2. QED
        BY <2>1, <3>1
    <2>4. batches' \in 0 .. MaxBatches
      BY <1>1, Bounds, Counters DEF TrainBatch, TypeInv
    <2>5. QED
      BY <1>1, <2>2, <2>3, <2>4
      DEF TrainBatch, TypeInv, TypeOK, BlockInRange, setup, workerVars, channelVars
  <1>2. CASE EndBlock
    <2>1. curBlock < NBlocks \/ curBlock = NBlocks
      BY Bounds, Counters DEF TypeInv
    <2>2. QED
      BY <1>2, <2>1
      DEF EndBlock, TypeInv, TypeOK, BlockInRange, setup, workerVars, channelVars
  <1>3. CASE Refresh
    <2>1. UpdateCmd(gpuNodes) \in Command
      BY DEF TypeInv, TypeOK, UpdateCmd, Command
    <2>2. cmd' \in Seq(Command)
      BY <1>3, <2>1, AppendType DEF Refresh, TypeInv, TypeOK
    <2>3. scratch' \in [Nodes -> Value]
      BY <1>3 DEF Refresh, TypeInv, TypeOK
    <2>4. QED
      BY <1>3, <2>2, <2>3 DEF Refresh, TypeInv, TypeOK, BlockInRange, setup, workerVars
  <1>4. CASE RefreshDone
    <2>1. rep' \in Seq({"ok", "not found"})
      BY <1>4, TailType DEF RefreshDone, TypeInv, TypeOK
    <2>2. QED
      BY <1>4, <2>1 DEF RefreshDone, TypeInv, TypeOK, BlockInRange, setup, workerVars
  <1>5. CASE Exit
    <2>1. cmd' \in Seq(Command)
      BY <1>5, AppendType DEF Exit, TypeInv, TypeOK, Command
    <2>2. QED
      BY <1>5, <2>1 DEF Exit, TypeInv, TypeOK, BlockInRange, setup, workerVars
  <1>6. CASE Terminate
    BY <1>6 DEF Terminate, TypeInv, TypeOK, BlockInRange, setup, channelVars
  <1>7. QED
    BY <1>1, <1>2, <1>3, <1>4, <1>5, <1>6

\* The worker's steps.
LEMMA WorkerType ==
  ASSUME TypeInv, Worker
  PROVE  TypeInv'
  <1>1. CASE SelectIndex
    <2>1. scratch' \in [Nodes -> Value]
      BY <1>1 DEF SelectIndex, TypeInv, TypeOK
    <2>2. cmd' \in Seq(Command) /\ rep' \in Seq({"ok", "not found"})
      BY <1>1, TailType, AppendType DEF SelectIndex, Serving, TypeInv, TypeOK
    <2>3. QED
      BY <1>1, <2>1, <2>2
      DEF SelectIndex, TypeInv, TypeOK, BlockInRange, setup, trainerVars, workerVars
  <1>2. CASE UpdateIndex
    <2>1. store' \in [Nodes -> Value]
      BY <1>2 DEF UpdateIndex, TypeInv, TypeOK
    <2>2. cmd' \in Seq(Command) /\ rep' \in Seq({"ok", "not found"})
      BY <1>2, TailType, AppendType DEF UpdateIndex, Serving, TypeInv, TypeOK
    <2>3. QED
      BY <1>2, <2>1, <2>2 DEF UpdateIndex, TypeInv, TypeOK, BlockInRange, setup, trainerVars
  <1>3. CASE UnknownFunction
    <2>1. cmd' \in Seq(Command) /\ rep' \in Seq({"ok", "not found"})
      BY <1>3, TailType, AppendType DEF UnknownFunction, Serving, TypeInv, TypeOK
    <2>2. QED
      BY <1>3, <2>1
      DEF UnknownFunction, TypeInv, TypeOK, BlockInRange, setup, trainerVars, workerVars
  <1>4. CASE StartPrefetch
    <2>1. cmd' \in Seq(Command) /\ Head(cmd) \in Command
      BY <1>4, TailType DEF StartPrefetch, Serving, TypeInv, TypeOK
    <2>2. job' \in Prefetch
      BY <1>4, <2>1 DEF StartPrefetch, Serving, Command, ExitCmd
    <2>3. QED
      BY <1>4, <2>1, <2>2
      DEF StartPrefetch, TypeInv, TypeOK, BlockInRange, setup, trainerVars
  <1>5. CASE MemUpdate
    <2>1. job.info \in Info
      BY DEF TypeInv, TypeOK, Prefetch
    <2>2. store' \in [Nodes -> Value]
      BY <1>5, <2>1 DEF MemUpdate, TypeInv, TypeOK, Info
    <2>3. QED
      BY <1>5, <2>2
      DEF MemUpdate, TypeInv, TypeOK, BlockInRange, setup, trainerVars, channelVars
  <1>6. CASE MemSelect
    <2> DEFINE all  == stream.pos[job.block] \cup job.neg
               read == IF config.incre THEN all \ job.base ELSE all
    <2>1. job.block \in Blocks /\ job.neg \in SUBSET Nodes
      BY DEF TypeInv, TypeOK, Prefetch
    <2>2. all \in SUBSET Nodes
      BY <2>1, StreamType DEF TypeInv, TypeOK
    <2>3. Rows(read, store) \in [Nodes -> Value]
      BY RowsType DEF TypeInv, TypeOK
    <2>4. built' \in Info
      <3>1. built' = [nodes |-> all, mem |-> Rows(read, store)]
        BY <1>6 DEF MemSelect
      <3> HIDE DEF all, read
      <3>2. QED
        BY <2>2, <2>3, <3>1 DEF Info
    <2>5. QED
      BY <1>6, <2>4
      DEF MemSelect, TypeInv, TypeOK, BlockInRange, setup, trainerVars, channelVars
  <1>7. CASE Extension
    <2>1. res' \in Seq({"ok", "extension"})
      BY <1>7, AppendType DEF Extension, TypeInv, TypeOK
    <2>2. QED
      BY <1>7, <2>1 DEF Extension, TypeInv, TypeOK, BlockInRange, setup, trainerVars
  <1>8. CASE Publish
    <2>1. job.block \in Blocks /\ job.base \in SUBSET Nodes
      BY DEF TypeInv, TypeOK, Prefetch
    <2>2. built.nodes \in SUBSET Nodes /\ built.mem \in [Nodes -> Value]
      BY DEF TypeInv, TypeOK, Info
    <2>3. share' \in [block : Blocks, nodes : SUBSET Nodes, base : SUBSET Nodes, mem : [Nodes -> Value]]
      BY <1>8, <2>1, <2>2 DEF Publish
    <2>4. QED
      BY <1>8, <2>3
      DEF Publish, TypeInv, TypeOK, BlockInRange, setup, trainerVars, channelVars
  <1>9. CASE Reply
    <2>1. res' \in Seq({"ok", "extension"})
      BY <1>9, AppendType DEF Reply, TypeInv, TypeOK
    <2>2. QED
      BY <1>9, <2>1 DEF Reply, TypeInv, TypeOK, BlockInRange, setup, trainerVars
  <1>10. QED
    BY <1>1, <1>2, <1>3, <1>4, <1>5, <1>6, <1>7, <1>8, <1>9 DEF Worker

\* Every step is well typed.
LEMMA NextTypeInv == TypeInv /\ [Next]_vars => TypeInv'
  <1> SUFFICES ASSUME TypeInv, [Next]_vars PROVE TypeInv'
    OBVIOUS
  <1>1. CASE Trainer
    BY <1>1, BoundaryType, InstallType, TrainType DEF Trainer
  <1>2. CASE Worker
    BY <1>2, WorkerType
  <1>3. CASE UNCHANGED vars
    BY <1>3
    DEF TypeInv, TypeOK, BlockInRange, vars, setup, trainerVars, workerVars, channelVars
  <1>4. QED
    BY <1>1, <1>2, <1>3 DEF Next, Terminated

\* TypeOK holds in every reachable state: every message, published block and
\* memory row has the form its reader (pre_fetch, prefetch_after, mem_update)
\* expects, and no block past the end of the stream is ever asked for.
THEOREM TypeCorrect == Spec => []TypeOK
  <1>1. Spec => []TypeInv
    BY InitTypeInv, NextTypeInv, PTL DEF Spec
  <1>2. TypeInv => TypeOK
    BY DEF TypeInv
  <1>3. QED
    BY <1>1, <1>2, PTL

=============================================================================
