SPECIFICATION WaitingSpec
CONSTANTS
  ann = ann
  bob = bob
  cid = cid
  dan = dan
  Players <- MCPlayers
  AlwaysLogin <- MCNone
  Premium <- MCNone
  Varying <- MCNone
  PremiumSkips = FALSE
  Patient <- MCNone
  MaxPlayers = 0
INVARIANT ZeroIsNoLimit
