SPECIFICATION Spec
CONSTANTS
  Sessions = {s1, s2}
  NoSession = NoSession
  LastBlock = 2
  BlockMod = 3
  MaxTries = 2
  MaxFaults = 0
  ReadFails = TRUE
INVARIANT CompleteMeansWhole
CHECK_DEADLOCK FALSE
