----------------------------- MODULE MCMeeting -----------------------------
(* Trades, parties and what happens to items, each in a scene of its own:    *)
(* what does not belong to the scene stands still (no items of Trade in the  *)
(* other scenes, so that they are symmetric).                                *)
EXTENDS Trade, Party, TLC

CONSTANTS ann, bob, cid, bag, gem, coin, market, street, first, second,
          pam, backpack, pouch, depot, c3, v1, v2

VARIABLES scene, w      \* w: the items of the scenes "decay", "bags" and "hands"

MCPlayers == {ann, bob, cid}
MCItems == {bag, gem, coin}
MCBags == {bag}
MCNone == {}
MCCoin == {coin}
MCPlaces == {market, street}
MCParties == {first, second}

(* A corpse that becomes bones, bones that vanish, a ring that is worn and   *)
(* one that is not.                                                          *)
Decaying == INSTANCE Decay WITH
    Items <- {v1, v2}, Types <- 1 .. 4, NoType <- 0,
    DecayTo <- <<2, 0, 0, -1>>, DecayTime <- <<4, 4, 8, 0>>, StopTime <- {4},
    Kind <- <<"container", "none", "none", "none">>, Durations <- {3, 5},
    Buckets <- 4, Second <- 4

(* A backpack and a pouch with room for two, a depot with room for one.      *)
Bagged == INSTANCE Containers WITH
    Coins <- {v1, v2, c3}, Types <- 1 .. 2, Worth <- <<1, 2>>,
    Backpack <- backpack, Pouch <- pouch, Depot <- depot,
    Capacity <- [b \in {backpack, pouch, depot} |-> IF b = depot THEN 1 ELSE 2],
    DepotLimit <- 4, MaxStack <- 2, Sums <- {1, 3},
    Ground <- "ground", Player <- pam, NoItem <- NoItem

(* Two of a kind for two hands, two shields, two spears, a bow with arrows,  *)
(* and an axe that the player may not wear.                                  *)
Carried == INSTANCE Inventory WITH
    Kinds <- {"twin", "shield", "spear", "bow", "axe", "arrow"},
    TwoHanded <- {"bow"}, Dual <- {"twin"}, Unfit <- {"axe"},
    WeaponType <- [bow |-> "dist", twin |-> "melee", shield |-> "shield", axe |-> "melee",
                   spear |-> "dist", arrow |-> "ammo"],
    Shot <- [bow |-> "arrow", twin |-> "twin", shield |-> "shield", axe |-> "axe",
             spear |-> "spear", arrow |-> "arrow"],
    Stackable <- {"spear", "arrow"},
    UsedBy <- [bow |-> "none", twin |-> "none", shield |-> "none", axe |-> "none",
               spear |-> "move", arrow |-> "count"],
    Items <- {v1, v2} \X {"twin", "shield", "spear"} \cup {c3} \X {"bow", "axe", "arrow"},
    Kind <- [i \in {v1, v2, c3} \X {"twin", "shield", "spear", "bow", "axe", "arrow"} |-> i[2]],
    Gifts <- {<<c3, "arrow">>}, MaxStack <- 2, BagSize <- 1, Capacity <- 4, NoItem <- NoItem

NoItems ==
    /\ where = [i \in Items |-> Gone]
    /\ place = [p \in Players |-> Nowhere]
    /\ trade = [p \in Players |-> NoTrade]
    /\ tradeItems = [i \in Items |-> NoPlayer]

MeetingInit ==
    /\ PartyInit
    /\ \/ scene = "trade" /\ Init /\ w = "none"
       \/ scene = "party" /\ NoItems /\ w = "none"
       \/ scene = "decay" /\ NoItems /\ Decaying!Init
       \/ scene = "bags" /\ NoItems /\ Bagged!Init
       \/ scene = "hands" /\ NoItems /\ Carried!Init

MeetingNext ==
    /\ \/ scene = "trade" /\ Next /\ UNCHANGED <<partyVars, w>>
       \/ scene = "party" /\ PartyNext /\ UNCHANGED <<vars, w>>
       \/ scene = "decay" /\ Decaying!Next /\ UNCHANGED <<vars, partyVars>>
       \/ scene = "bags" /\ Bagged!Next /\ UNCHANGED <<vars, partyVars>>
       \/ scene = "hands" /\ Carried!Next /\ UNCHANGED <<vars, partyVars>>
    /\ UNCHANGED scene

MeetingSpec == MeetingInit /\ [][MeetingNext]_<<scene, vars, partyVars, w>>

(* The trades alone, with a stack of coins among the items.                  *)
TradingSpec ==
    /\ MeetingInit /\ scene = "trade"
    /\ [][MeetingNext]_<<scene, vars, partyVars, w>>

TradingSymmetry == Permutations(MCPlayers) \cup Permutations(MCPlaces)
MeetingSymmetry ==
    TradingSymmetry \cup Permutations(MCParties) \cup Permutations({v1, v2})

(* What decays is counted in every list it is in, and decays in time         *)
(* (game.cpp:5233-5312); moving, splitting, merging and paying make and lose *)
(* nothing, and bags know what they hold (game.cpp:1543-2104, container.cpp).*)
(* What is in the hands goes together, and the remembered weapon is there    *)
(* (player.cpp:2930-3025, 370).                                              *)
ItemsAccounted ==
    /\ scene = "decay" => Decaying!DecayRefs /\ Decaying!NeverLate
    /\ scene = "bags" => Bagged!ItemsConserved /\ Bagged!BagsAgree
    /\ scene = "hands" => Carried!HandsAgree
=============================================================================
