SPECIFICATION FairSpec
CONSTANTS
  m1 = m1
  m2 = m2
  m3 = m3
  NoMessage = NoMessage
  Messages <- MCTwo
  Sockets <- MCBoth
  OtClient = FALSE
  Verdicts <- MCAccept
  Answers <- MCLogin
  SlowLimit = 1
  ForceCloseSlow = TRUE
  MaxGameTasks = 1
INVARIANTS ReleasedOnce LoginFindsProtocol NothingDangles
PROPERTIES NoOverlappingWrites WritesOutliveClose ClosedIsFreed
