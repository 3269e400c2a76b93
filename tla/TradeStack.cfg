CONSTANTS
  ann = ann
  bob = bob
  cid = cid
  bag = bag
  gem = gem
  coin = coin
  market = market
  street = street
  pam = pam
  backpack = backpack
  pouch = pouch
  depot = depot
  c3 = c3
  v1 = v1
  v2 = v2
  Players <- MCPlayers
  Items <- MCItems
  Bags <- MCBags
  Stackable <- MCCoin
  Places <- MCPlaces
  Nowhere = Nowhere
  Gone = Gone
  NoPlayer = NoPlayer
  NoItem = NoItem
  first = first
  second = second
  NoParty = NoParty
  Characters <- MCPlayers
  Nobody = Nobody
  Parties <- MCParties
SPECIFICATION TradingSpec
SYMMETRY TradingSymmetry
PROPERTY BothOrNone
CHECK_DEADLOCK FALSE
