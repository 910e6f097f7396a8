SPECIFICATION FairSpec
CONSTANTS
  w1 = w1
  w2 = w2
  Capacity = 1
  Workers <- Pair
  Repeat = 1
  EpochSizes = {0, 3}
  MaxEpochs = 1
  MaxPuts = 0
PROPERTIES
  GetReturns
  CleanupReturns
