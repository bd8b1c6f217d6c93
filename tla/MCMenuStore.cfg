SPECIFICATION Spec
CONSTANTS
  Ids = {a, b}
  Values = {v, w}
  NoEntry = NoEntry
  Handlers = {h1, h2}
  Inodes = {i1, i2, i3, i4}
  NoFile = NoFile
  MaxUpdates = 4
  MaxCrashes = 2
  DiskFails = TRUE
  LoadFails = TRUE
INVARIANT SoloUpdateIsDurable
INVARIANT AlwaysRestarts
PROPERTY ImplementsDurableMenu
SYMMETRY Alike
CHECK_DEADLOCK FALSE
