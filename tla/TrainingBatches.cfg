SPECIFICATION Spec
CONSTANTS
  Nodes = {1, 2, 3, 4}
  NEdges = 9
  LargeBatch = 6
  BatchSize = 2
  Streams <- MCStreams
  Files = {"fixed", "adaptive"}
  None = None
INVARIANTS
  BatchesTypeOK
  EveryEdgeOnce
  StalenessAtThreshold
  NegativesOfBlock
  NoFutureMail
  LatestMail
  StoredTogether
PROPERTIES
  MemoryClockForward
