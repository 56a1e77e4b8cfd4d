SPECIFICATION Spec
CONSTANTS
  Nodes = {1, 2, 3, 4}
  NEdges = 5
  BlockSize = 2
  FanOut = 1
  Streams <- ShortStreams
  Layers = 2
  Epochs = 1
  Zeros = Zeros
INVARIANTS
  FeaturesRight
