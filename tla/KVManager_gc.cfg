SPECIFICATION Spec
\* the process stops at a panic, and when every inode is deleted
CHECK_DEADLOCK FALSE
CONSTANTS
  i1 = i1
  i2 = i2
  b1 = b1
  b2 = b2
  Inos <- OneIno
  Directories = {}
  Bytes <- TwoBytes
  Clean = Clean
  Dirty = Dirty
  NoPos = NoPos
  Pad = Pad
  Blank = Blank
  NoObject = NoObject
  BadRead = BadRead
  PagesPerBlock = 3
  BlockCount = 2
  PageBytes = 1
  MaxLen = 2
  RecordLen = 2
  Cutting = TRUE
  Collecting = TRUE
  GCRounds = 1
INVARIANTS
  ReserveIsBlank
  CollectionKeepsContent
PROPERTIES
  CutKeepsPrefix
  AbortsExplained
