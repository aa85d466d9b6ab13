CONSTANTS
  k1 = k1
  k2 = k2
  short = short
  long = long
  Keys <- MCKeys
  Vals <- MCVals
  TOMBSTONE = TOMBSTONE
  NoEntry = NoEntry
  NotLoaded = NotLoaded
  KeyLen <- MCKeyLen
  ValLen <- SmallLen
  PageSize = 16
  PagesPerBlock = 2
  FirstBlock = 5
  BlockNum = 4
  Slack = 5
  HeaderLen = 3
  EntryHeadLen = 2
  EofLen = 2
SPECIFICATION Spec
CHECK_DEADLOCK FALSE
INVARIANTS
  BlocksDistinct
  SizeExact
  FlushFitsBlock
  EofNeverOverflows
PROPERTIES
  ImplementsMap
