SPECIFICATION FairSpec
CONSTANTS
  Sessions = {s1, s2}
  NoSession = NoSession
  LastBlock = 2
  BlockMod = 3
  MaxTries = 2
  MaxFaults = 1
  ReadFails = TRUE
PROPERTY SessionsEnd
PROPERTY PlainClientServed
CHECK_DEADLOCK FALSE
