CONSTANTS
  Names = {a, b}
  Hidden = {}
  Short = {}
  Byte = Byte
  None = None
  Capacity = 3
  LinkMax = 2
  MaxIno = 3
  MaxSize = 1
  WithSymlinks = TRUE
  OverflowChecks = TRUE
SPECIFICATION Spec
CHECK_DEADLOCK FALSE
INVARIANTS
  LoadedIsStored
  LinksExact
  TreeShaped
PROPERTIES
  ImplementsFileTree
  SuccessReleases
