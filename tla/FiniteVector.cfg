SPECIFICATION Spec
CONSTANTS
  Size = 2
  Selections <- AnySelection
  Supplies = {0, 1, 3, Endless}
  Endless = Endless
  MaxLength = 2
  MaxDraws = 4
  MaxFaults = 1
INVARIANTS
  AliveUntilZombie
  AliveTracksSeeds
  CompleteRows
