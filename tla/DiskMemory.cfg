SPECIFICATION Spec
CONSTANTS
  Nodes = {0, 1, 2, 3}
  NBlocks = 6
  Streams <- MCStreams
  Limit = 2
  Caches = {"none", "static", "simple"}
  StaticNodes = {0, 2}
  RowMaps <- MCRowMaps
  Epochs = 2
  Junk = Junk
INVARIANTS
  MemTypeOK
  PlanWithinLimit
  PlanMaximal
  SlotsExclusive
  SlotsSuffice
PROPERTIES
  ImplementsNodeStore
  SlotKeptUntilRewritten
