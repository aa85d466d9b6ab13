CONSTANTS
  Bits = {b1, b2, b3, b4}
  Inos = {i1, i2}
  Base = 2
  MaxNodes = 3
SYMMETRY BitsAndInos
SPECIFICATION Spec
CHECK_DEADLOCK FALSE
INVARIANTS
  GraphConsistent
  QueriesNear
  RebuildKeepsNodes
