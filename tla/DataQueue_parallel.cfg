SPECIFICATION Spec
CONSTANTS
  w1 = w1
  w2 = w2
  Capacity = 2
  Workers <- Pair
  Repeat = 2
  EpochSizes = {0, 3}
  MaxEpochs = 2
  MaxPuts = 1
SYMMETRY WorkerSymmetry
INVARIANTS
  VerdictAfterPrefix
  QuiescentAfterCleanup
  AtMostOneLateItem
  WindowNeverBlocks
PROPERTIES
  ImplementsStream
