SPECIFICATION FormatsSpec
\* a block that is parsed and a text that is decoded are the end
CHECK_DEADLOCK FALSE
CONSTANTS
  PageSize = 12
  PageCount = 3
  HeaderSize = 3
  Width = 2
  Keys = {1, 2, 3}
  KeySizes = {1, 2}
  ValueSizes = {1, 2, 3, 4, 5, 6, 7, 8, 15}
  Slack = 5
  Inos = {i1, i2}
  PagesPerBlock = 2
  BlockCount = 3
  Clean = Clean
  Dirty = Dirty
  NoPos = NoPos
  BitBlocks = 2
  ImagePages = 3
  PairsPerPage = 1
  PageNum = 6
  ZeroPage = ZeroPage
  NoPage = NoPage
  MaxSaved = 3
  Chars = {1, 2, 3, 4, 5}
  Weights <- FiveWeights
  ByteBits = 5
  MaxText = 4
INVARIANTS
  RoundTrip
  MountRestores
  MountRepeatable
  DecodesText
PROPERTY
  ParseEnds
