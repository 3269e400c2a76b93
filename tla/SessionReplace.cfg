SPECIFICATION SessionSpec
CONSTANTS
  y1 = y1
  y2 = y2
  N = 3
  Players <- MCTwo
  Watchers <- MCThird
  AllowClones = FALSE
  ReplaceKickOnLogin = TRUE
  MaxTasks = 2
  NoProtocol = NoProtocol
  NoPlayer = NoPlayer
SYMMETRY MCSymmetry
INVARIANTS PointersLive OneController
