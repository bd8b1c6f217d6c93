SPECIFICATION FairSpec
CONSTANTS
  Servers = {m1, m2, m3, m4, m5}
  NoServer = NoServer
  Handlers = {h1}
  MaxRequests = 4
  ListenFails = FALSE
  ReadFails = FALSE
  SaveFails = FALSE
  LoadFails = FALSE
  MaxCrashes = 1
  NoHandler = NoHandler
  Users = {"hasty", "careful"}
INVARIANT CarefulDisableWorks
PROPERTY EnabledIsServed
CHECK_DEADLOCK FALSE
