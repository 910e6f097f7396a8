SPECIFICATION Spec
CONSTANTS
  None = None
  NaN = NaN
  Lowest = Lowest
  Broken = Broken
  Values = {1, 2}
  MinDelta = 0
  Iters = {0, 1, 2, 3}
  Configs <- MCConfigs
  MaxFits = 2
  MaxFaults = 1
  MaxCrashes = 1
INVARIANTS
  SeedsReleased
  MonitorIsCurrent
  TrainedOnce
  StopKeepsTheBest
  NamesHold
  LossIsBounded
  FinalStateSaved
  OnlyFaultsFail
PROPERTIES
  CallsReturn
CHECK_DEADLOCK FALSE
