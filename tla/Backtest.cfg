SPECIFICATION FairSpec
CONSTANTS
  None = None
  Depth = 2
  Lengths = {0, 1, 2}
  Configs <- MCConfigs
  MaxFaults = 1
  MaxPrompts = 2
  MaxDeals = 2
INVARIANTS
  SuspendedChain
  CashConserved
  BarsCountOnce
PROPERTIES
  LoopIsGenerator
  RunEnds
CHECK_DEADLOCK FALSE
