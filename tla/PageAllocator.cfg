CONSTANTS
  Inos = {i1, i2}
  PagesPerBlock = 3
  BlockCount = 3
  Clean = Clean
  Dirty = Dirty
  NoPos = NoPos
  Idle = Idle
SPECIFICATION Spec
\* a panic ends the process
CHECK_DEADLOCK FALSE
INVARIANTS
  ReserveExact
  CountersExact
  RunFits
PROPERTIES
  PagesCycle
SYMMETRY SomeInos
