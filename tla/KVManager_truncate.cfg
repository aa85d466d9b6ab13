SPECIFICATION Spec
\* the process stops at a panic, and when every inode is deleted
CHECK_DEADLOCK FALSE
CONSTANTS
  i1 = i1
  i2 = i2
  b1 = b1
  b2 = b2
  Inos <- OneIno
  Directories = {}
  Bytes <- OneByte
  Clean = Clean
  Dirty = Dirty
  NoPos = NoPos
  Pad = Pad
  Blank = Blank
  NoObject = NoObject
  BadRead = BadRead
  PagesPerBlock = 9
  BlockCount = 1
  PageBytes = 2
  MaxLen = 4
  RecordLen = 2
  Cutting = TRUE
  Collecting = FALSE
  GCRounds = 3
INVARIANT ReadsMatchSize
