SPECIFICATION CollectorSpec
CONSTANTS
  Size = 3
  Selections <- NoSelection
  Supplies = {0, 2, 4, Endless}
  Endless = Endless
  MaxLength = 2
  MaxDraws = 0
  MaxFaults = 1
  Counts = {1, 4}
  MaxRuns = 2
INVARIANTS
  EpisodesExact
  RowsAreCurrent
  EvaluationRunsEverySeed
PROPERTIES
  CollectReturns
CHECK_DEADLOCK FALSE
