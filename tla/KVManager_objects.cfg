SPECIFICATION Spec
\* the process stops at a panic, and when every inode is deleted
CHECK_DEADLOCK FALSE
CONSTANTS
  i1 = i1
  i2 = i2
  b1 = b1
  b2 = b2
  Inos <- TwoInos
  Directories <- Second
  Bytes <- TwoBytes
  Clean = Clean
  Dirty = Dirty
  NoPos = NoPos
  Pad = Pad
  Blank = Blank
  NoObject = NoObject
  BadRead = BadRead
  PagesPerBlock = 7
  BlockCount = 1
  PageBytes = 2
  MaxLen = 3
  RecordLen = 1
  Cutting = FALSE
  Collecting = FALSE
  GCRounds = 1
INVARIANTS
  ExtentsTile
  PagesOwned
  AlignedReadsExact
PROPERTY
  ImplementsFileStore
