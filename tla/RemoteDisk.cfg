SPECIFICATION FairSpec
\* once every caller has given up nothing is left to do
CHECK_DEADLOCK FALSE
CONSTANTS
  Callers = {c1, c2}
  Vals = {v1}
  Blank = blank
  None = none
  PagesPerBlock = 2
  BlockCount = 1
  Room = 2
  Virtual = FALSE
INVARIANTS
  AbortsForQuitters
PROPERTIES
  ImplementsDiskService
  Answered
