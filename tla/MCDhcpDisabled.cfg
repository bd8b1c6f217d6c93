SPECIFICATION FairSpec
CONSTANTS
  Servers = {m1, m2, m3, m4}
  NoServer = NoServer
  Handlers = {h1}
  MaxRequests = 3
  ListenFails = FALSE
  ReadFails = FALSE
  SaveFails = FALSE
  LoadFails = FALSE
  MaxCrashes = 0
  NoHandler = NoHandler
  Users = {"patient"}
INVARIANT DisabledIsSilent
CHECK_DEADLOCK FALSE
