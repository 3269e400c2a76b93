-------------------------------- MODULE World --------------------------------
(* Parts of the game's world that share no state with each other, each in a  *)
(* scene of its own that runs by itself; `w' is the state of the scene.  The *)
(* theorems of WorldProofs, GrowthProofs, ScriptProofs and ClientProofs are  *)
(* about this module; MCWorld adds the scenes that are only model-checked,   *)
(* and gives all of them small instances.                                    *)
EXTENDS Integers, FiniteSets

CONSTANTS
    Players, None,
    Summons, Master, RedLimit, BlackLimit, MaxRows,             \* fights
    Members, MaxGuilds,                                         \* guilds
    Beds, NoBed, Couples, Guildsmen, MaxNames,                  \* house
    Period, WarningsLimit, BankSystem, SkipInitRent, LastDay, MaxMoney,     \* rent
    Items, House, Street, Privileged,                           \* storage
    Npcs, Callbacks, MaxStack, Amounts, Price, MaxPurse,        \* shops
    Responses, Idling, IdleTime, MaxTalks,                      \* talks
    ChatIds,                                                    \* chat and reports
    Ground, Top, Down, Order, Splashes, Fields, Fixed, Kind, Limit, MaxThings,  \* tile
    Clocks, Events, EventType, Buffers, Depth, MaxFrames,       \* scripts and timers
    Slots, Default, Types, Speed, Skill, Regenerates, EquipTo, DecayTo, SameKind, Needs,
    Deltas, Times,                                              \* conditions
    Vocations, ExpFor, MaxLevel, Gain, RookTo, RookAgain, Talents, Least, Req,
    Keeps, Wears, Perils, Points, Losses, MaxAdvances           \* growth and deaths

VARIABLES scene, w

Fight == INSTANCE Fights WITH Gone <- None
Hall == INSTANCE Guilds WITH Players <- Members, NoOne <- None
Lodge == INSTANCE Lodging WITH NoOne <- None
Lease == INSTANCE Rent WITH NoOwner <- None
Store == INSTANCE Storage WITH NoOwner <- None
Shop == INSTANCE Shops WITH NoNpc <- None, MaxMoney <- MaxPurse
Talk == INSTANCE Talks WITH Players <- Members
Chat(I, A) == INSTANCE Channels WITH Players <- Members, NoOne <- None, Ids <- I, Able <- A
Tile == INSTANCE Tiles WITH Creatures <- Members
Script(I, T) == INSTANCE Scripts WITH Items <- I, Timers <- T, Type <- EventType
Cond == INSTANCE Conditions WITH NoItem <- None
Grow(K, P) == INSTANCE Growth WITH Kinds <- K, Perils <- P, Amounts <- Points

FightsAssumption ==
    /\ Players \cap Summons = {} /\ None \notin Players \cup Summons
    /\ Master \in [Summons -> Players]
    /\ RedLimit \in Nat \ {0} /\ BlackLimit \in Nat /\ MaxRows \in Nat
GuildsAssumption == None \notin Members /\ MaxGuilds \in Nat
LodgingAssumption == None \notin Players /\ NoBed \notin Beds
RentAssumption ==
    /\ None \notin Players /\ WarningsLimit \in Nat /\ Period \in Nat
    /\ LastDay \in Nat \ {0} /\ MaxMoney \in Nat
StorageAssumption ==
    /\ House \notin Players /\ Street \notin Players \cup {House}
    /\ None \notin Players
ShopsAssumption ==
    /\ None \notin Npcs /\ 0 \notin Callbacks
    /\ MaxStack \in Nat \ {0} /\ Amounts \subseteq Nat /\ Price \in Nat /\ MaxPurse \in Nat
TilesAssumption ==
    /\ Limit \in Nat \ {0}
    /\ Down \cap (Members \cup Ground \cup Top) = {} /\ Ground \cap Top = {}
    /\ Splashes \subseteq Top /\ Fields \subseteq Down
ScriptsAssumption == Clocks \subseteq Nat

(* Of the types of items: what becomes another when it is put on adds        *)
(* nothing itself and requires no less; what becomes one of another kind     *)
(* when it wears out requires no level, and does so once (data/items and     *)
(* data/movements).                                                          *)
Replaced(t) == DecayTo[t] \notin {t, None} /\ {t, DecayTo[t]} \notin SameKind
ConditionsAssumption ==
    /\ IsFiniteSet(Slots) /\ None \notin Types
    /\ Speed \in [Types -> Int] /\ Skill \in [Types -> Int]
    /\ Regenerates \in [Types -> BOOLEAN] /\ Needs \in [Types -> Nat]
    /\ EquipTo \in [Types -> Types] /\ DecayTo \in [Types -> Types \cup {None}]
    /\ Deltas \subseteq Int /\ Times \subseteq {-1} \cup Nat
    /\ \A t \in Types : EquipTo[t] # t =>
          Speed[t] = 0 /\ Skill[t] = 0 /\ Needs[EquipTo[t]] <= Needs[t]
    /\ \A t \in Types : Replaced(t) => Needs[t] <= 1 /\ ~Replaced(DecayTo[t])

(* The tables of a player's growth.  Each level takes more experience than   *)
(* the one before, and no less of magic or of a skill, for which each        *)
(* vocation has tables of its own; after the last one the number wraps       *)
(* around, for magic and skills below those of all vocations (player.h:167,  *)
(* vocation.cpp:518-543).  Who has no vocation yet loses skills and things   *)
(* (data/XML/vocations.xml).                                                 *)
GrowthAssumption ==
    /\ MaxLevel \in Nat \ {0} /\ ExpFor \in [1 .. MaxLevel + 1 -> Nat] /\ ExpFor[1] = 0
    /\ \A l \in 2 .. MaxLevel : ExpFor[l - 1] < ExpFor[l]
    /\ ExpFor[MaxLevel] > ExpFor[MaxLevel + 1]
    /\ Vocations \subseteq Nat /\ 0 \in Vocations /\ Gain \in [Vocations -> Nat]
    /\ RookTo \in Int /\ RookAgain \in Int /\ 0 \notin Keeps \cup Wears
    /\ Least \in [Talents -> Nat]
    /\ \A v \in Vocations, k \in Talents : \E last \in DOMAIN Req[v][k] :
          /\ last \in Nat /\ last > Least[k] /\ Req[v][k] \in [Least[k] .. last + 1 -> Nat]
          /\ \A l \in Least[k] + 1 .. last : Req[v][k][l - 1] <= Req[v][k][l]
          /\ \A u \in Vocations : \A l \in DOMAIN Req[u][k] :
                l > Least[k] /\ l + 1 \in DOMAIN Req[u][k] => Req[u][k][l] > Req[v][k][last + 1]
    /\ Points \subseteq Nat /\ Losses \subseteq Nat

ASSUME WorldAssumption ==
    /\ FightsAssumption /\ GuildsAssumption /\ LodgingAssumption
    /\ RentAssumption /\ StorageAssumption /\ ShopsAssumption /\ TilesAssumption
    /\ ScriptsAssumption /\ ConditionsAssumption /\ GrowthAssumption

Init ==
    \/ scene = "fights" /\ Fight!Init
    \/ scene = "guilds" /\ Hall!Init
    \/ scene = "house" /\ Lodge!Init
    \/ scene = "rent" /\ Lease!Init
    \/ scene = "storage" /\ Store!Init
    \/ scene = "shops" /\ Shop!Init
    \/ scene = "talks" /\ Talk!Init
    \/ scene = "chat" /\ Chat(ChatIds, {})!Init
    \/ scene = "reports" /\ Chat({}, Members)!Init
    \/ scene = "tile" /\ Tile!Init
    \/ scene = "scripts" /\ Script(Items, {})!Init
    \/ scene = "timers" /\ Script({}, Clocks)!Init
    \/ scene = "conditions" /\ Cond!Init
    \/ scene = "growth" /\ Grow(Talents, {})!Init
    \/ scene = "deaths" /\ Grow({}, Perils)!Init

Next ==
    /\ \/ scene = "fights" /\ Fight!Next
       \/ scene = "guilds" /\ Hall!Next
       \/ scene = "house" /\ Lodge!Next
       \/ scene = "rent" /\ Lease!Next
       \/ scene = "storage" /\ Store!Next
       \/ scene = "shops" /\ Shop!Next
       \/ scene = "talks" /\ Talk!Next
       \/ scene = "chat" /\ Chat(ChatIds, {})!Next
       \/ scene = "reports" /\ Chat({}, Members)!Next
       \/ scene = "tile" /\ Tile!Next
       \/ scene = "scripts" /\ Script(Items, {})!Next
       \/ scene = "timers" /\ Script({}, Clocks)!Next
       \/ scene = "conditions" /\ Cond!Next
       \/ scene = "growth" /\ Grow(Talents, {})!Next
       \/ scene = "deaths" /\ Grow({}, Perils)!Next
    /\ UNCHANGED scene

Spec == Init /\ [][Next]_<<scene, w>>

-----------------------------------------------------------------------------
(* The marks of a fight (whom one has attacked, the ban on logouts, a white  *)
(* skull) end with the fight, of two who fight one began, and a red or black *)
(* skull is worn by exactly those whose murders deserve it, whatever deaths  *)
(* are denied, logged out of or died of a summon (player.cpp:3982-4090,      *)
(* 4216-4256, 4562-4643; creature.cpp:700-780).                              *)
FightsAgree == scene = "fights" => Fight!FightsAgree

(* However commands reach players in the game and the rows of others, a      *)
(* leader owns his guild unless he got it while he was out of the game, and  *)
(* nobody belongs or is invited to a guild that is no more                   *)
(* (chat.cpp:586-858, ioguild.cpp).                                          *)
GuildsAgree == scene = "guilds" => Hall!GuildsAgree

(* Who is in the house is invited, but for those whom there was no room to   *)
(* throw out and those that lost their access, or stayed when they should    *)
(* have left by their bed, and were not asked since; no window to edit a     *)
(* list outlives its owner; a player sleeps where the map of sleepers says   *)
(* (house.cpp:59-420, beds.cpp:91-230, protocolgame.cpp:350-408).            *)
HouseAgrees == scene = "house" => Lodge!InvitedInside /\ Lodge!SleepersAgree

(* A premium player loses his house for debt only after a letter on each of  *)
(* WarningsLimit earlier days (house.cpp:797-945).                           *)
EvictedAfterWarnings == [][scene = "rent" => Lease!LosesWarned]_<<scene, w>>

(* However saves, failures of the database, crashes and evictions fall, an   *)
(* item that nobody moved since the last whole round of saves is never in    *)
(* the rows of two keepers, and in those of one unless the last save of its  *)
(* keeper dropped it unnoticed (game.cpp:275-316, map.cpp:78,                *)
(* house.cpp:104-260, iomapserialize.cpp:190-700).                           *)
UntouchedSurvive == scene = "storage" => Store!UntouchedSurvive

(* Npcs and their customers agree on who trades (npc.cpp, player.cpp), and   *)
(* who waits to speak is in the queue (npc.cpp:1377-1417).                   *)
NpcsAgree ==
    /\ scene = "shops" => Shop!ShopsAgree
    /\ scene = "talks" => Talk!WaitersAreQueued

(* A client's stack of a tile is the beginning of the tile's (tile.cpp), and *)
(* its windows of channels and list of reports are those it has              *)
(* (chat.cpp:33-90, 386-528; game.cpp:2416-2452, 4278-4299, 5396-5433).      *)
ClientAgrees ==
    /\ scene = "tile" => Tile!ClientAgrees
    /\ scene = "chat" => Chat(ChatIds, {})!WindowsAgree
    /\ scene = "reports" => Chat({}, Members)!ReportsAgree

(* Scripts and the scripts they start keep apart, what they make is placed   *)
(* or freed, and stopped timers stay stopped (luascript.cpp).                *)
ScriptsAgree ==
    /\ scene = "scripts" => Script(Items, {})!ScriptsAgree
    /\ scene = "timers" => Script({}, Clocks)!ScriptsAgree

(* Speed and skills are what is worn and what lasts adds up to               *)
(* (movement.cpp, condition.cpp).                                            *)
BonusesAddUp == scene = "conditions" => Cond!BonusesAddUp

(* Levels, health, magic and skills agree with what was given and lost, by   *)
(* the tables of the vocation, and a death is died once                      *)
(* (player.cpp:645-690, 2086-2245, 2425-2645, vocation.cpp:518-543).         *)
GrowthAgrees ==
    /\ scene = "growth" => Grow(Talents, {})!GrowthAgrees
    /\ scene = "deaths" => Grow({}, Perils)!GrowthAgrees
=============================================================================
