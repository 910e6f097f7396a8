SPECIFICATION FairSpec
CONSTANTS
  w1 = w1
  w2 = w2
  Capacity = 2
  Workers <- NoWorkers
  Repeat <- Endless
  EpochSizes = {0, 2}
  MaxEpochs = 2
  MaxPuts = 1
PROPERTIES
  CleanupReturns
