\* Safety: four blocks, two nodes, every setting.
SPECIFICATION Spec
CONSTANTS
  Nodes = {n1, n2}
  NBlocks = 4
  Streams <- MCStreams
  MaxBatches = 1
  Capacity = 2
  Configs <- AllConfigs
  Junk = Junk
INVARIANTS
  TypeOK
  MemoryConsistent
  NoLostUpdate
  StoreAfterRefresh
  InstallsExpectedBlock
PROPERTIES
  SharedTensorsStable
  WriteBackNeverStale
  ImplementsNonCached
