-------------------------- MODULE BlockPipelineInv --------------------------
(***************************************************************************)
(* The inductive invariant of BlockPipeline.  It says, for each place the  *)
(* trainer can be in, what is on its way through the worker and which      *)
(* nodes the worker's memory may be behind on.                             *)
(*                                                                         *)
(* Outside of "sample" the block on the GPU is curBlock - 1.  Training     *)
(* makes the copies of its roots (Prev) stale everywhere but on the GPU;   *)
(* every other stale copy is excused by a memory_info that brings it.      *)
(***************************************************************************)
EXTENDS BlockPipeline

Roots(b) == stream.roots[b]

\* End points of the block before curBlock.
Prev == IF curBlock > 0 THEN Roots(curBlock - 1) ELSE {}

\* Nothing is on its way between the processes.
Quiet == cmd = <<>> /\ rep = <<>> /\ res = <<>> /\ wpc = "idle"

\* A channel that holds one message.
One(q) == q # <<>> /\ Tail(q) = <<>>

\* f is the current memory of the nodes of S.
Fresh(S, f) == \A n \in S : f[n] = truth[n]

\* The worker's memory is behind on nodes of S at most.
StoreBehind(S) == Fresh(Nodes \ S, store)

\* memory_info is current, but for the nodes being trained, and brings the
\* worker's memory up to date.
InfoOK(info) == Fresh(info.nodes \ Prev, info.mem) /\ StoreBehind(Prev \cup info.nodes)

\* A block prepared for the GPU, whose nodes keep their own copies.
BlockOK(s) == Roots(curBlock) \subseteq s.nodes /\ Fresh(s.nodes \ gpuNodes, s.mem)

ShareOK == share.block = curBlock /\ share.base = gpuNodes /\ BlockOK(share)

\* The block curBlock has been asked for: the request is queued, or being
\* served, or answered.
Queued ==
  /\ One(cmd) /\ res = <<>> /\ wpc = "idle"
  /\ Head(cmd).fn = "pre_fetch" /\ Head(cmd).block = curBlock /\ Head(cmd).base = gpuNodes
  /\ InfoOK(Head(cmd).info)
Served ==
  /\ cmd = <<>> /\ res = <<>>
  /\ job.block = curBlock /\ job.base = gpuNodes
  /\ \/ wpc = "update" /\ InfoOK(job.info)
     \/ wpc = "select" /\ StoreBehind(Prev)
     \/ wpc = "check"  /\ StoreBehind(Prev) /\ BlockOK(built)
     \/ wpc = "reply"  /\ StoreBehind(Prev) /\ ShareOK
Answered == cmd = <<>> /\ One(res) /\ wpc = "idle" /\ StoreBehind(Prev) /\ ShareOK
Requested == rep = <<>> /\ (Queued \/ Served \/ Answered)

\* While a block that has a successor is trained, the successor is asked for,
\* or what its request will carry is kept.
Ahead == IF config.async THEN Requested ELSE Quiet /\ InfoOK(saved.info)

\* The last block has been entered: nothing more is asked for.
Last == curBlock = NBlocks /\ ppc \in {"train", "refresh"}

----------------------------------------------------------------------------
\* The run has not been given up, and every block has fitted so far.
Active == (Holding \/ ppc = "first") /\ ~Overflowed

\* Where cur_block is with respect to the end of the stream.
BlockInRange ==
  /\ ppc \in {"first"} => curBlock = 0
  /\ ppc \in {"loop", "sample"} => curBlock < NBlocks
  /\ ppc \in {"recv", "install"} => curBlock > 0 /\ curBlock < NBlocks
  /\ ppc = "train" => curBlock > 0
  /\ ppc \in {"refresh", "refresh_wait", "trained"} => curBlock = NBlocks

TypeInv == TypeOK /\ BlockInRange

GpuInv ==
  /\ ppc # "first" => Fresh(gpuNodes, gpuMem)
  /\ ppc \in {"first", "sample"} => Roots(curBlock) \subseteq gpuNodes
  /\ ppc # "sample" => Prev \subseteq gpuNodes

\* memory_info exists between its capture and the request that carries it.
CaptureInv ==
  IF ppc \in {"recv", "install", "sample"}
  THEN Fresh(memInfo.nodes, memInfo.mem) /\ Prev \ Roots(curBlock) \subseteq memInfo.nodes
  ELSE memInfo.nodes = {}

\* The first block and the middle of the stream.
StreamInv ==
  /\ ppc = "loop" /\ curBlock = 0 => Quiet /\ StoreBehind({}) /\ gpuNodes = {}
  /\ ppc = "first" =>
       /\ res = <<>> /\ wpc = "idle" /\ StoreBehind({})
       /\ \/ One(cmd) /\ rep = <<>> /\ Head(cmd) = SelectCmd(gpuNodes)
          \/ cmd = <<>> /\ One(rep) /\ Fresh(gpuNodes, scratch)
  /\ ppc \in {"loop", "train"} /\ curBlock \in 1 .. NBlocks - 1 => Ahead
  /\ ppc = "recv" => Requested
  /\ ppc = "install" => Quiet /\ StoreBehind(Prev) /\ ShareOK
  /\ ppc = "sample" => Quiet /\ StoreBehind(Prev)

\* The last block and the write-back.
EndInv ==
  /\ Last => Quiet /\ StoreBehind(Dropped \cup gpuNodes)
  /\ ppc = "refresh_wait" =>
       /\ res = <<>> /\ wpc = "idle"
       /\ \/ /\ One(cmd) /\ rep = <<>> /\ Head(cmd) = UpdateCmd(gpuNodes)
             /\ Fresh(gpuNodes, scratch) /\ StoreBehind(Dropped \cup gpuNodes)
          \/ cmd = <<>> /\ One(rep) /\ StoreBehind(Dropped)
  /\ ppc = "trained" => Quiet /\ StoreBehind(Dropped)

\* A worker that waits for an answer to its extension message: the trainer
\* reads the message as a result, enters that block, and stops.
StuckInv ==
  wpc = "extend" =>
    /\ ppc \notin {"first", "trained"} /\ job.block > 0
    /\ ppc \in {"train", "loop", "recv", "install", "sample", "refresh", "refresh_wait"} => rep = <<>>
    /\ \/ curBlock = job.block /\ ppc \in {"train", "loop", "recv"} /\ One(res)
       \/ curBlock = job.block /\ ppc \in {"install", "sample"} /\ res = <<>>
       \/ curBlock = job.block /\ ppc \in {"failed", "terminate", "done"}
       \/ /\ curBlock = job.block + 1 /\ res = <<>>
          /\ ppc \in {"train", "loop", "recv", "refresh", "refresh_wait"}

\* After the run the worker serves at most the EXIT message.
AfterInv ==
  /\ ppc = "failed" => wpc = "extend"
  /\ ppc \in {"terminate", "done"} =>
       /\ wpc \in {"idle", "extend", "dead"}
       /\ wpc = "idle" => (cmd # <<>> => One(cmd) /\ Head(cmd) = ExitCmd)

\* The inductive invariant of the pipeline: TLC checks it where blocks may
\* overflow, BlockPipelineSafety proves it, and every safety property of
\* BlockPipeline follows from it.
IInv ==
  /\ TypeInv
  /\ Active => GpuInv /\ CaptureInv /\ StreamInv /\ EndInv
  /\ StuckInv
  /\ AfterInv
=============================================================================
