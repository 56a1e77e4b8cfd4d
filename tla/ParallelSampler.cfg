SPECIFICATION FairSpec
CONSTANTS
  NumNodes = 4
  NEdges = 4
  BatchSize = 2
  Inputs <- MCInputs
  NumThreads = 2
  Layers = 2
  FanOut = 1
  RoundFrom = 2
  FloatExact = 1000
INVARIANTS
  SamplerTypeOK
  PointersCover
  SampleRight
PROPERTIES
  PointersForward
  CallReturns
