SPECIFICATION Spec
CONSTANTS
  Size = 2
  Setups <- Overlapping
INVARIANTS
  MappingSerialized
