SPECIFICATION Spec
CONSTANTS
  Nodes = {1, 2, 3, 4}
  NEdges = 9
  BlockSize = 2
  FanOut = 1
  Streams <- MCStreams
  Layers = 1
  Epochs = 2
  Zeros = Zeros
INVARIANTS
  EdgeTypeOK
  FeaturesRight
  SlotsAccounted
  NoSlotWasted
