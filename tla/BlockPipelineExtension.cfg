\* The buffer's own consistency check, when a block does not fit.
SPECIFICATION Spec
CONSTANTS
  Nodes = {n1, n2}
  NBlocks = 4
  Streams <- MCStreams
  MaxBatches = 1
  Capacity = 1
  Configs <- TrainConfig
  Junk = Junk
INVARIANTS
  InputsNonCached
CHECK_DEADLOCK FALSE
