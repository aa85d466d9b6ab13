CONSTANTS
  Vals = {v1, v2}
  Blank = Blank
  Short = Short
  None = None
  PagesPerBlock = 2
  BlockCount = 2
  Batch = 2
  Builds <- SafeBuilds
SPECIFICATION FairSpec
CHECK_DEADLOCK FALSE
INVARIANTS
  DestinationClean
  ReadNeverTorn
PROPERTIES
  ImplementsFlash
  Drains
