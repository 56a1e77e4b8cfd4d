\* Liveness: three blocks, two batches a block, every order of messages.
SPECIFICATION FairSpec
CONSTANTS
  Nodes = {n1, n2}
  NBlocks = 3
  Streams <- MCStreams
  MaxBatches = 2
  Capacity = 2
  Configs <- OrderConfigs
  Junk = Junk
PROPERTIES
  EpochFinishes
