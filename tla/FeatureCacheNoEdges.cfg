SPECIFICATION Spec
CONSTANTS
  NItems = 3
  NEdges = 9
  BlockSize = 2
  Threshold = 4
  Budget = 2
  Window = 3
  ItemSize = 4
  HisLimit = 100
  HasEdges = FALSE
  Contents <- MCContents
  Negatives <- MCNegatives
  Zeros = Zeros
  Junk = Junk
INVARIANTS
  NodeFeaturesRight
