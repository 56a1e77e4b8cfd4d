\* Blocks that do not fit the shared tensors: the worker stops for ever, so the
\* system may deadlock.
SPECIFICATION FairSpec
CONSTANTS
  Nodes = {n1, n2}
  NBlocks = 4
  Streams <- MCStreams
  MaxBatches = 1
  Capacity = 1
  Configs <- TrainConfig
  Junk = Junk
INVARIANTS
  OverflowIsLast
  IInv
PROPERTIES
  OverflowStalls
CHECK_DEADLOCK FALSE
