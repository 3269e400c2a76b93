SPECIFICATION SessionFairSpec
CONSTANTS
  y1 = y1
  y2 = y2
  N = 2
  Players <- MCTwo
  Watchers <- MCNobody
  AllowClones = FALSE
  ReplaceKickOnLogin = TRUE
  MaxTasks = 2
  NoProtocol = NoProtocol
  NoPlayer = NoPlayer
PROPERTIES SessionsSettle
