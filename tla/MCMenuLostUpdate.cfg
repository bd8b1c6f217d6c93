SPECIFICATION Spec
CONSTANTS
  Ids = {a, b}
  Values = {v}
  NoEntry = NoEntry
  Handlers = {h1, h2}
  Inodes = {i1, i2, i3, i4}
  NoFile = NoFile
  MaxUpdates = 2
  MaxCrashes = 0
  DiskFails = FALSE
  LoadFails = FALSE
INVARIANT AcknowledgedIsSaved
CHECK_DEADLOCK FALSE
