SPECIFICATION WorldSpec
SYMMETRY WorldSymmetry
CONSTANTS
    pam = pam
    quin = quin
    wolf = wolf
    bear = bear
    None = None
    bed = bed
    v1 = v1
    v2 = v2
    relic = relic
    house = house
    Players <- MCPlayers
    Summons <- MCSummons
    Master <- MCMaster
    RedLimit = 1
    BlackLimit = 1
    MaxRows = 1
    Members <- MCTwo
    MaxGuilds = 1
    Beds <- MCBeds
    NoBed = "no bed"
    Couples <- MCCouples
    Guildsmen <- MCGuildsmen
    MaxNames = 1
    Period = 1
    WarningsLimit = 2
    BankSystem = TRUE
    SkipInitRent = TRUE
    LastDay = 5
    MaxMoney = 1
    Items <- MCItems
    House = house
    Street = "street"
    Privileged <- MCPrivileged
    Npcs <- MCTwo
    Callbacks <- MCCallbacks
    MaxStack = 2
    Amounts <- MCAmounts
    Price = 1
    MaxPurse = 3
    Responses <- MCResponses
    Idling <- MCIdling
    IdleTime = TRUE
    MaxTalks = 3
    ChatIds <- MCChatIds
    Ground <- MCGround
    Top <- MCTop
    Down <- MCDown
    Order <- MCOrder
    Splashes <- MCSplashes
    Fields <- MCFields
    Fixed <- MCFixed
    Kind <- MCKind
    Limit = 3
    MaxThings = 5
    Clocks <- MCClocks
    Events <- MCEvents
    EventType <- MCEventType
    Buffers <- MCBuffers
    Depth = 2
    MaxFrames = 3
    Slots <- MCSlots
    Types <- MCTypes
    Speed <- MCSpeed
    Skill <- MCSkill
    Regenerates <- MCRegenerates
    EquipTo <- MCEquipTo
    DecayTo <- MCDecayTo
    SameKind <- MCSameKind
    Needs <- MCNeeds
    Deltas <- MCDeltas
    Times <- MCTimes
    Vocations <- MCVocations
    ExpFor <- MCExpFor
    MaxLevel = 4
    Gain <- MCGain
    RookTo = 2
    RookAgain = 1
    Talents <- MCTalents
    Least <- MCLeast
    Req <- MCReq
    Keeps <- MCKeeps
    Wears <- MCWears
    Perils <- MCPerils
    Points <- MCPoints
    Losses <- MCLosses
    MaxAdvances = 2
    Default = "default"
INVARIANTS CreaturesAgree FoundWays UntouchedSurvive UpdatesHold BonusesAddUp HouseAgrees GuildsAgree NpcsAgree ClientAgrees ScriptsAgree GrowthAgrees FightsAgree
PROPERTIES EvictedAfterWarnings
CHECK_DEADLOCK FALSE
