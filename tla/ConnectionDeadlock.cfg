SPECIFICATION FairSpec
CONSTANTS
  m1 = m1
  m2 = m2
  m3 = m3
  NoMessage = NoMessage
  Messages <- MCThree
  Sockets <- MCSingle
  OtClient = TRUE
  Verdicts <- MCOnlyRefuse
  Answers <- MCLogin
  SlowLimit = 1
  ForceCloseSlow = TRUE
  MaxGameTasks = 1
PROPERTIES AutoSendLeaves
CHECK_DEADLOCK FALSE
