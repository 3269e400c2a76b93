------------------------------- MODULE Lodging -------------------------------
(* Who may be in a house: its access lists and the windows in which they are *)
(* edited (house.cpp, housetile.cpp, talkaction.cpp), and its beds           *)
(* (beds.cpp).  A list names players and guilds or their ranks; the husband  *)
(* or wife of the owner has his rights.  Left out: guild halls, doors,       *)
(* players whose group lets them edit every house, and a change of owner by  *)
(* a script that asks for no cleaning.  When somebody is thrown out there    *)
(* may be no room at the entry, and a kick may be refused.                   *)
EXTENDS Integers, FiniteSets

CONSTANTS Players, Beds, NoOne, NoBed,
          Couples,      \* bound: who a script may marry to whom, as <<p, owner>>
          Guildsmen,    \* bound: whose guild or rank may change
          MaxNames      \* bound: names on a list, a guild counts for one

(* The state, one record: the owner; the players on the two lists,           *)
(* "subowners" and "guests", and which of the lists name a guild, or a rank  *)
(* of it, whose members are members; the spouse each player has in his own   *)
(* record; where each player is, or was when he left; who is in the game;    *)
(* the window each player has open; the sleeper of each bed; the map of Beds *)
(* from a sleeper to his bed; the kicks the scheduler holds for those that   *)
(* went to bed.  Only for the properties: stuck has those for whom there was *)
(* no room when they were thrown out, lapsed those that lost their access, or*)
(* stayed when their kick was refused, without anybody asking them to leave, *)
(* awake those that stayed in bed so, and a window remembers under which     *)
(* owner it was opened.                                                      *)
VARIABLE w

Lists == {"subowners", "guests"}
NoWindow == [list |-> "none", under |-> NoOne]

LodgingTypeOK ==
    /\ w.owner \in Players \cup {NoOne} /\ w.list \in [Lists -> SUBSET Players]
    /\ w.at \in [Players -> {"street", "house"}] /\ w.online \subseteq Players
    /\ w.window \in [Players -> {NoWindow} \cup [list : Lists, under : Players]]
    /\ w.sleeper \in [Beds -> Players \cup {NoOne}]
    /\ w.bedOf \in [Players -> Beds \cup {NoBed}]
    /\ w.guilds \subseteq Lists /\ w.members \subseteq Players
    /\ w.spouse \in [Players -> Players \cup {NoOne}]
    /\ w.kicks \subseteq w.online /\ w.stuck \subseteq Players
    /\ w.lapsed \subseteq Players /\ w.awake \subseteq Players

Init ==
    w = [owner |-> NoOne, list |-> [l \in Lists |-> {}], at |-> [p \in Players |-> "street"],
         online |-> {}, window |-> [p \in Players |-> NoWindow],
         sleeper |-> [b \in Beds |-> NoOne], bedOf |-> [p \in Players |-> NoBed],
         guilds |-> {}, members |-> {}, spouse |-> [p \in Players |-> NoOne],
         kicks |-> {}, stuck |-> {}, lapsed |-> {}, awake |-> {}]

(* ------------------------------ access levels ---------------------------- *)

(* AccessList::isInList                                                      *)
isInList(s, p, list) == p \in s.list[list] \/ (list \in s.guilds /\ p \in s.members)

getHouseAccessLevel(s, p) ==
    IF s.owner = NoOne THEN 0
    ELSE IF s.owner \in {p, s.spouse[p]} THEN 3
    ELSE IF isInList(s, p, "subowners") THEN 2
    ELSE IF isInList(s, p, "guests") THEN 1 ELSE 0

isInvited(s, p) == getHouseAccessLevel(s, p) > 0

canEditAccessList(s, list, p) ==
    \/ getHouseAccessLevel(s, p) = 3
    \/ getHouseAccessLevel(s, p) = 2 /\ list = "guests"

Inside(s) == {p \in s.online : s.at[p] = "house"}

(* Player::onCreatureMove closes the window of a player who leaves.          *)
Out(s, ps) ==
    [s EXCEPT !.at = [p \in Players |-> IF p \in ps THEN "street" ELSE @[p]],
              !.window = [p \in Players |-> IF p \in ps THEN NoWindow ELSE @[p]],
              !.stuck = @ \ ps, !.lapsed = @ \ ps]

(* removePlayer for each of ps; there is room for those in room.             *)
Removed(s, ps, room) ==
    [Out(s, ps \cap room) EXCEPT !.stuck = @ \cup (ps \ room), !.lapsed = @ \ ps]

removePlayers(s, ignoreInvites, room) ==
    [Removed(s, {p \in Inside(s) : ignoreInvites \/ ~isInvited(s, p)}, room)
        EXCEPT !.lapsed = {}]

(* --------------------------------- beds ---------------------------------- *)

WokenBare(s, b) ==       \* a mutant: the map keeps the bed
    [s EXCEPT !.sleeper[b] = NoOne, !.awake = @ \ {s.sleeper[b]}]

(* BedItem::wakeUp                                                           *)
Woken(s, b) ==
    [s EXCEPT !.sleeper[b] = NoOne, !.awake = @ \ {s.sleeper[b]},
              !.bedOf = [p \in Players |-> IF p = s.sleeper[b] THEN NoBed ELSE @[p]]]

AllWoken(s) ==
    [s EXCEPT !.sleeper = [b \in Beds |-> NoOne], !.awake = {},
              !.bedOf = [p \in Players |-> IF \E b \in Beds : s.sleeper[b] = p
                                           THEN NoBed ELSE @[p]]]

(* canUse asks for no invitation to an empty bed, and a bed may be reached   *)
(* from outside: sleeping moves the player there without a test.             *)
canUse(p, b) ==
    LET level(q) == getHouseAccessLevel(w, q) IN
    w.sleeper[b] # NoOne => level(p) = 3 \/ level(w.sleeper[b]) <= level(p)

UseBed(p, b) ==
    /\ p \in w.online /\ canUse(p, b)
    /\ w' = IF w.sleeper[b] # NoOne THEN Woken(w, b)
            ELSE [w EXCEPT !.sleeper[b] = p, !.bedOf[p] = b, !.at[p] = "house",
                           !.kicks = @ \cup {p}]

(* --------------------------------- owners -------------------------------- *)

Emptied(s, room) == removePlayers(AllWoken(s), TRUE, room)       \* clean

EmptiedOfStrangers(s, room) == removePlayers(AllWoken(s), FALSE, room)   \* a mutant

SetOwnerExUnswept(s, guid, room) ==      \* a mutant: the invited stay
    [(IF s.owner # NoOne THEN EmptiedOfStrangers(s, room) ELSE s)
        EXCEPT !.list = [l \in Lists |-> {}], !.guilds = {}, !.owner = guid]

(* setOwnerEx with a transfer: clean, then both lists, then the owner.       *)
SetOwnerEx(s, guid, room) ==
    [(IF s.owner # NoOne THEN Emptied(s, room) ELSE s)
        EXCEPT !.list = [l \in Lists |-> {}], !.guilds = {}, !.owner = guid]

(* A house is bought, sold through a document, or lost over the rent.        *)
ChangeOwner(guid, room) ==
    /\ w.owner # guid /\ guid \in w.online \cup {NoOne}
    /\ w' = SetOwnerEx(w, guid, room)

(* -------------------------------- commands ------------------------------- *)

(* HouseTile::__queryAdd                                                     *)
Enter(p) ==
    /\ p \in w.online /\ w.at[p] = "street" /\ isInvited(w, p)
    /\ w' = [w EXCEPT !.at[p] = "house"]

Leave(p) == p \in Inside(w) /\ w' = Out(w, {p})

(* TalkAction::houseGuestList, houseSubOwnerList; a new window replaces the  *)
(* old one.                                                                  *)
OpenWindow(p, list) ==
    /\ p \in Inside(w) /\ canEditAccessList(w, list, p)
    /\ w' = [w EXCEPT !.window[p] = [list |-> list, under |-> w.owner]]

(* Game::playerUpdateHouseWindow asks nobody but the scripts again, which    *)
(* may deny it.                                                              *)
UpdateHouseWindow(p, names, guild, room) ==
    LET list == w.window[p].list IN
    /\ p \in w.online /\ w.window[p] # NoWindow
    /\ Cardinality(names) + (IF guild THEN 1 ELSE 0) <= MaxNames
    /\ w' = removePlayers([w EXCEPT !.window[p] = NoWindow, !.list[list] = names,
                                    !.guilds = IF guild THEN @ \cup {list} ELSE @ \ {list}],
                          FALSE, room)

HouseWindowDenied(p) ==
    /\ p \in w.online /\ w.window[p] # NoWindow
    /\ w' = [w EXCEPT !.window[p] = NoWindow]

(* TalkAction::houseKick and House::kickPlayer                               *)
HouseKick(p, target, room) ==
    /\ p \in w.online /\ target \in Inside(w)
    /\ p = target \/ getHouseAccessLevel(w, p) >= getHouseAccessLevel(w, target)
    /\ w' = Removed(w, {target}, room)

(* ---------------------- what the house is not told of -------------------- *)

(* Who was invited and no longer is stays where he is.                       *)
Lapsed(s) ==
    [s EXCEPT !.lapsed = @ \cup {p \in Inside(s) : isInvited(w, p) /\ ~isInvited(s, p)}]

(* doPlayerSetPartner                                                        *)
SetPartner(p, guid) ==
    /\ p \in w.online /\ w.spouse[p] # guid /\ (guid = NoOne \/ <<p, guid>> \in Couples)
    /\ w' = Lapsed([w EXCEPT !.spouse[p] = guid])

(* A player joins the guild or the rank, or leaves it (Player::setGuildId,   *)
(* setRankId).                                                               *)
ChangeGuild(p) ==
    /\ p \in Guildsmen
    /\ w' = Lapsed([w EXCEPT !.members = IF p \in @ THEN @ \ {p} ELSE @ \cup {p}])

(* ----------------------------- coming and going -------------------------- *)

Logout(p) ==
    /\ p \in w.online
    /\ w' = [w EXCEPT !.online = @ \ {p}, !.window[p] = NoWindow,
                      !.kicks = @ \ {p}, !.stuck = @ \ {p},
                      !.lapsed = @ \ {p}, !.awake = @ \ {p}]

(* Game::kickPlayer, 50 ms after a player went to bed.                       *)
KickSleeper(p) == p \in w.kicks /\ Logout(p)

(* ProtocolGame::logout refuses those that were refused a moment ago, and a  *)
(* script may deny it; the kick is not tried again.                          *)
KickRefused(p) ==
    /\ p \in w.kicks
    /\ w' = [w EXCEPT !.kicks = @ \ {p},
                      !.lapsed = @ \cup {q \in {p} \cap Inside(w) : ~isInvited(w, q)},
                      !.awake = @ \cup {q \in {p} : w.bedOf[q] # NoBed}]

(* Map::placeCreature, where __queryDestination sends the uninvited to the   *)
(* entry; onCreatureAppear wakes the bed of the map.                         *)
Login(p) ==
    /\ p \notin w.online
    /\ LET s == [w EXCEPT !.online = @ \cup {p},
                          !.at[p] = IF isInvited(w, p) THEN @ ELSE "street"] IN
       w' = IF s.bedOf[p] = NoBed THEN s ELSE Woken(s, s.bedOf[p])

(* A restart with everything saved: readAttr enters the beds one by one.     *)
Restart(bedOf) ==
    /\ w.online = {}
    /\ \A p \in Players :
          LET beds == {b \in Beds : w.sleeper[b] = p} IN
          bedOf[p] \in (IF beds = {} THEN {NoBed} ELSE beds)
    /\ w' = [w EXCEPT !.bedOf = bedOf]

Next ==
    \/ \E p \in Players :
          \/ Enter(p) \/ Leave(p) \/ Login(p) \/ Logout(p) \/ KickSleeper(p)
          \/ KickRefused(p) \/ ChangeGuild(p)
          \/ \E guid \in Players \cup {NoOne} : SetPartner(p, guid)
          \/ \E b \in Beds : UseBed(p, b)
          \/ \E l \in Lists : OpenWindow(p, l)
          \/ HouseWindowDenied(p)
    \/ \E room \in SUBSET Inside(w), guid \in Players \cup {NoOne} :
          w.owner # NoOne /\ ChangeOwner(guid, room)
    \/ \E p \in Players, names \in SUBSET Players, guild \in BOOLEAN,
          room \in SUBSET (Inside(w) \ {w.owner}) :
          UpdateHouseWindow(p, names, guild, room)
    \/ \E guid \in Players : w.owner = NoOne /\ ChangeOwner(guid, {})
    \/ \E p, target \in Players : \E room \in SUBSET {target} : HouseKick(p, target, room)
    \/ \E bedOf \in [Players -> Beds \cup {NoBed}] : Restart(bedOf)

(* ------------------------------- properties ------------------------------ *)

(* Who is in the house and not about to be kicked out of bed is invited, and *)
(* no window outlives the owner under whom it was opened, through every      *)
(* change of lists and owners and every login.  The exceptions: there was no *)
(* room at the entry when he was thrown out; he lost his access by a divorce *)
(* or by leaving a guild, or got in by a bed and his kick was refused, and   *)
(* no list or owner changed since (setAccessList, setOwnerEx, removePlayers, *)
(* __queryDestination, onCreatureMove).                                      *)
InvitedInside ==
    \A p \in Inside(w) \ w.stuck :
       /\ p \notin w.kicks \cup w.lapsed => isInvited(w, p)
       /\ w.window[p] # NoWindow => w.window[p].under = w.owner

(* The bed that the map of sleepers names has that sleeper, and nobody who   *)
(* is up and about is in the map, so a login wakes no bed but his own: but   *)
(* for those whose kick was refused, who are in the game and in bed until    *)
(* the bed is used again (sleep, wakeUp, readAttr).                          *)
SleepersAgree ==
    \A p \in Players :
       /\ w.bedOf[p] # NoBed => w.sleeper[w.bedOf[p]] = p
       /\ p \in w.online \ (w.kicks \cup w.awake) => w.bedOf[p] = NoBed
==============================================================================
