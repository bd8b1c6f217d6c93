SPECIFICATION Spec
CONSTANTS
  Sessions = {s1, s2}
  NoSession = NoSession
  LastBlock = 4
  BlockMod = 3
  MaxTries = 2
  MaxFaults = 2
  ReadFails = TRUE
INVARIANT TypeOK
INVARIANT Lockstep
INVARIANT DoneMeansDelivered
INVARIANT StraySessionsStall
INVARIANT FailureNeedsFaults
INVARIANT IInv
INVARIANT FaultInv
PROPERTY ImplementsDelivery
CHECK_DEADLOCK FALSE
