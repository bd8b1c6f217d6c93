SPECIFICATION FairSpec
CONSTANTS
  Servers = {m1, m2, m3, m4}
  NoServer = NoServer
  Handlers = {h1, h2}
  MaxRequests = 3
  ListenFails = TRUE
  ReadFails = TRUE
  SaveFails = TRUE
  LoadFails = TRUE
  MaxCrashes = 1
  NoHandler = NoHandler
  Users = {"hasty"}
INVARIANT RunningIsBacked
INVARIANT QuietConfigIsSaved
INVARIANT ConfigStaysWhole
PROPERTY FailureReported
CHECK_DEADLOCK FALSE
