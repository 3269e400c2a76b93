SPECIFICATION TimedSpec
CONSTANTS
  ann = ann
  bob = bob
  cid = cid
  dan = dan
  m1 = m1
  m2 = m2
  m3 = m3
  Players <- MCPlayers
  AlwaysLogin <- MCAlways
  Premium <- MCNone
  Varying <- MCVarying
  PremiumSkips = FALSE
  Patient <- MCPatient
  MaxPlayers = 2
INVARIANTS PromiseKept
PROPERTIES NoOvertaking EveryoneGetsATurn SpawnsFill RaidsEnd WaitingActionEnds
