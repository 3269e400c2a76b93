------------------------------- MODULE Trade -------------------------------
(* The safe trade between players (game.cpp, player.cpp): an offer, a        *)
(* counter-offer, two acceptances and the exchange, against everything that  *)
(* may happen to the items, to what is inside them and to the two players    *)
(* meanwhile.  All of it runs in the dispatcher, one task at a time.         *)
(*                                                                           *)
(* An item lies on the ground, is carried by a player or is inside a bag;    *)
(* which slot or tile it is, and how near is near, is left out.  Whether a   *)
(* player has room for an item is decided when it is asked.                  *)
EXTENDS Integers, FiniteSets

CONSTANTS
    Players,
    Items,
    Bags,           \* the items that are containers (bound: no bag in a bag)
    Stackable,      \* the items that autostack, which are no bags
    Places,         \* places out of each other's reach
    Nowhere,        \* where players are that are not in the world
    Gone,           \* where items are that have been removed
    NoPlayer,
    NoItem

ASSUME ItemsAssumption ==
    /\ Bags \subseteq Items
    /\ Stackable \subseteq Items \ Bags
    /\ NoItem \notin Items

ASSUME PlacesAssumption ==
    /\ NoPlayer \notin Players
    /\ Nowhere \notin Places
    /\ Gone \notin Players \cup Places \cup Items
    /\ Players \cap Places = {}
    /\ Items \cap (Players \cup Places) = {}

VARIABLES
    place,          \* where each player is
    where,          \* Item::parent
    trade,          \* tradeState, tradePartner and tradeItem of each player
    tradeItems      \* Game::tradeItems

vars == <<place, where, trade, tradeItems>>

NoTrade == [state |-> "none", partner |-> NoPlayer, item |-> NoItem]

TypeOK ==
    /\ place \in [Players -> Places \cup {Nowhere}]
    /\ where \in [Items -> Players \cup Places \cup Bags \cup {Gone}]
    /\ trade \in [Players -> [state   : {"none", "acknowledge", "initiated", "accept"},
                              partner : Players \cup {NoPlayer},
                              item    : Items \cup {NoItem}]]
    /\ tradeItems \in [Items -> Players \cup {NoPlayer}]

Online(p) == place[p] \in Places

(* Item::getTopParent, Item::getPosition, Container::isHoldingItem.          *)
Top(i) == IF where[i] \in Bags THEN where[where[i]] ELSE where[i]
Spot(i) == IF Top(i) \in Players THEN place[Top(i)] ELSE Top(i)
Holds(i, j) == where[j] = i

Near(p, q) == place[p] = place[q]

Init ==
    /\ place = [p \in Players |-> Nowhere]
    /\ where \in [Items -> Players \cup Places]
    /\ trade = [p \in Players |-> NoTrade]
    /\ tradeItems = [i \in Items |-> NoPlayer]

-----------------------------------------------------------------------------
(* Game::internalCloseTrade, for each player of a set.                       *)

WithPartners(S) == S \cup {trade[p].partner : p \in S}

CloseTrades(S) ==
    /\ trade' = [p \in Players |-> IF p \in WithPartners(S) THEN NoTrade ELSE trade[p]]
    /\ tradeItems' = [i \in Items |->
           IF \E p \in WithPartners(S) \ {NoPlayer} : trade[p].item = i
           THEN NoPlayer ELSE tradeItems[i]]

(* Those who are told of a change of i, or of a place in a bag or on the     *)
(* ground: the owner of an inventory, or whoever is near.                    *)
Told(cylinder, spot) ==
    IF cylinder \in Players THEN {cylinder} ELSE {p \in Players : place[p] = spot}

(* Mutant: only the offered item itself is looked at.                        *)
TouchesItself(p, i) == trade[p].item = i

(* Player::checkTradeState, with what the onRemove... and onUpdate... of     *)
(* Player add to it: i is what p offers, is inside it or holds it.           *)
Touches(p, i) ==
    /\ trade[p].item # NoItem
    /\ \/ trade[p].item = i
       \/ Holds(trade[p].item, i)
       \/ i \in Bags /\ Holds(i, trade[p].item)

(* The trades that end when i is taken from where it is, or is changed ...   *)
Disturbed(i) == {p \in Told(where[i], Spot(i)) : Touches(p, i)}

(* Mutant: Player::onAddContainerItem does not look at the trade.            *)
FilledUnnoticed(d) == {}

(* ... and when something is put into the bag d.                             *)
Filled(d) == IF d \in Bags
             THEN {p \in Told(d, Spot(d)) : trade[p].item = d}
             ELSE {}

-----------------------------------------------------------------------------
(* What goes on around the trades.                                           *)

Login(p) ==
    /\ ~ Online(p)
    /\ \E s \in Places : place' = [place EXCEPT ![p] = s]
    /\ UNCHANGED <<where, trade, tradeItems>>

(* Player::onCreatureDisappear.                                              *)
Logout(p) ==
    /\ Online(p)
    /\ place' = [place EXCEPT ![p] = Nowhere]
    /\ CloseTrades(IF trade[p].partner # NoPlayer THEN {p} ELSE {})
    /\ UNCHANGED where

(* Mutant: the distance to the partner is not looked at.                     *)
OutOfReachOfItem(p) == trade[p].item # NoItem /\ Top(trade[p].item) # p

(* Player::onCreatureMove of a player that leaves its place: what it carries *)
(* stays with it, everything else is out of reach.                           *)
OutOfReach(p) ==
    \/ trade[p].item # NoItem /\ Top(trade[p].item) # p
    \/ trade[p].partner # NoPlayer

(* A walk, a push or a teleport.                                             *)
Walk(p) ==
    /\ Online(p)
    /\ \E s \in Places \ {place[p]} : place' = [place EXCEPT ![p] = s]
    /\ CloseTrades(IF OutOfReach(p) THEN {p} ELSE {})
    /\ UNCHANGED where

(* What p may take, and where it may put it: its own, or what lies near.     *)
Reaches(p, i) == Top(i) \in {p, place[p]}
Destinations(p, i) ==
    {p, place[p]} \cup (IF i \in Bags THEN {} ELSE {b \in Bags : Reaches(p, b)})

(* Game::playerMoveItem.                                                     *)
MoveItem(p, i) ==
    /\ Online(p)
    /\ Reaches(p, i)
    /\ \E d \in Destinations(p, i) \ {where[i]} :
          /\ where' = [where EXCEPT ![i] = d]
          /\ CloseTrades(Disturbed(i) \cup Filled(d))
    /\ UNCHANGED place

(* Game::internalRemoveItem and transformItem, by a decay, a script or a     *)
(* use: the item goes, or another takes its place.                           *)
RemoveItem(i) ==
    /\ Top(i) \in Places \cup {p \in Players : Online(p)}
    /\ where' = [where EXCEPT ![i] = Gone]
    /\ CloseTrades(Disturbed(i))
    /\ UNCHANGED place

-----------------------------------------------------------------------------
(* The trade itself.                                                         *)

(* Mutant: items inside an offered bag are free to be offered.               *)
NotOffered(i) == tradeItems[i] = NoPlayer

(* Neither i, nor what it holds, nor what holds it, is in a trade.           *)
Available(i) ==
    \A j \in Items : tradeItems[j] # NoPlayer => i # j /\ ~ Holds(i, j) /\ ~ Holds(j, i)

(* Game::playerRequestTrade and internalStartTrade.                          *)
RequestTrade(p, q, i) ==
    /\ Online(p) /\ Online(q) /\ p # q
    /\ Near(p, q)
    /\ Reaches(p, i)
    /\ Available(i)
    /\ \/ trade[p].state = "none"
       \/ trade[p].state = "acknowledge" /\ trade[p].partner = q
    /\ trade[q].state = "none" \/ trade[q].partner = p
    /\ trade' = [trade EXCEPT
           ![p] = [state |-> "initiated", partner |-> q, item |-> i],
           ![q] = IF @.state = "none"
                  THEN [state |-> "acknowledge", partner |-> p, item |-> NoItem]
                  ELSE @]
    /\ tradeItems' = [tradeItems EXCEPT ![i] = p]
    /\ UNCHANGED <<place, where>>

MayAccept(p) ==
    /\ Online(p)
    /\ trade[p].state \in {"acknowledge", "initiated"}
    /\ trade[p].partner # NoPlayer

(* Game::playerAcceptTrade, when the partner has not accepted yet, or a      *)
(* script says no: then both have accepted, and can only close the trade.    *)
AcceptTrade(p) ==
    /\ MayAccept(p)
    /\ trade' = [trade EXCEPT ![p].state = "accept"]
    /\ UNCHANGED <<place, where, tradeItems>>

(* The room a player has for an item: none, some on top of a stack of the    *)
(* same kind, or a free place.                                               *)
Rooms == {"none", "stack", "place"}

(* internalAddItem(..., test = true) may stack, internalMoveItem with        *)
(* FLAG_IGNOREAUTOSTACK may not.                                             *)
Passes(i, room) ==
    /\ i # NoItem
    /\ room = "place" \/ (room = "stack" /\ i \in Stackable)
Moves(room) == room = "place"

(* Mutant: the exchange is tried when one of the two tests is passed.        *)
OnePasses(i, j, roomQ, roomP) == Passes(i, roomQ) \/ Passes(j, roomP)

(* The tests of both sides.                                                  *)
BothPass(i, j, roomQ, roomP) == Passes(i, roomQ) /\ Passes(j, roomP)

(* Where an item may come to rest with p: in a slot or a bag not on offer.   *)
Rests(p, i) ==
    {p} \cup (IF i \in Bags THEN {} ELSE {b \in Bags : where[b] = p /\ trade[p].item # b})

(* i goes from p to q, or stays.                                             *)
Given(w, q, i, room) ==
    IF i # NoItem /\ Moves(room) THEN {[w EXCEPT ![i] = d] : d \in Rests(q, i)} ELSE {w}

(* The room p has when it has given i away.                                  *)
RoomAfter(p, i, room) == IF i # NoItem /\ Top(i) = p THEN {room, "place"} ELSE {room}

(* Game::playerAcceptTrade, by the second of the two: the trade ends, with   *)
(* or without an exchange.  No answer of internalMoveItem is looked at.      *)
Exchange(p) ==
    LET q == trade[p].partner
        i == trade[p].item
        j == trade[q].item
    IN  /\ MayAccept(p)
        /\ trade[q].state = "accept"
        /\ CloseTrades({p})
        /\ \E roomQ, roomP \in Rooms :
              IF BothPass(i, j, roomQ, roomP)
              THEN \E roomNow \in RoomAfter(p, i, roomP) :
                      \E w \in Given(where, q, i, roomQ) : where' \in Given(w, p, j, roomNow)
              ELSE UNCHANGED where
        /\ UNCHANGED place

(* Game::playerCloseTrade, and TalkAction::ghost.                            *)
CloseTrade(p) ==
    /\ Online(p)
    /\ CloseTrades({p})
    /\ UNCHANGED <<place, where>>

Next ==
    \/ \E p \in Players :
          \/ Login(p) \/ Logout(p) \/ Walk(p)
          \/ AcceptTrade(p) \/ Exchange(p) \/ CloseTrade(p)
          \/ \E i \in Items : MoveItem(p, i) \/ \E q \in Players : RequestTrade(p, q, i)
    \/ \E i \in Items : RemoveItem(i)

Spec == Init /\ [][Next]_vars

-----------------------------------------------------------------------------
(* Whoever trades, does so with somebody who trades with it, both in the     *)
(* world and within reach, and what is on the table is one player's          *)
(* acceptance of the other's offer: a trade outlives neither the partner nor *)
(* the distance (player.cpp:1661, 1776).                                     *)
TradersAgree ==
    \A p \in Players :
        LET t == trade[p] IN
        IF t.state = "none"
        THEN t = NoTrade
        ELSE /\ t.partner \in Players \ {p}
             /\ Online(p)
             /\ Near(p, t.partner)
             /\ trade[t.partner].partner = p
             /\ t.state = "acknowledge" => t.item = NoItem
             /\ t.state = "initiated" => t.item # NoItem
             /\ t.item # NoItem \/ trade[t.partner].item # NoItem

(* Game::tradeItems is exactly what is on offer, each item by one player who *)
(* reaches it, and no offer is inside another: nothing is sold twice         *)
(* (game.cpp:3131-3140).                                                     *)
OffersAreHeld ==
    /\ \A i \in Items, p \in Players : tradeItems[i] = p <=> trade[p].item = i
    /\ \A i \in Items : tradeItems[i] # NoPlayer =>
          /\ Reaches(tradeItems[i], i)
          /\ \A j \in Items : tradeItems[j] # NoPlayer => ~ Holds(i, j)

Content(i) == {j \in Items : Holds(i, j)}

(* What a player has been shown is what it gets: while a trade goes on, no   *)
(* offer of it is moved, changed, filled or emptied, by its owner or by      *)
(* anybody else (player.cpp:1390-1414, 1800-1917).                           *)
OfferIsKept ==
    [][\A p \in Players, i \in Items :
          trade[p].item = i /\ trade'[p].item = i =>
              where'[i] = where[i] /\ Top(i)' = Top(i) /\ Content(i)' = Content(i)]_vars

(* The exchange is one of both items or of none: of two items that their     *)
(* owners carry, neither changes hands without the other (game.cpp:3256-3269).    *)
BothOrNone ==
    [][\A p, q \in Players, i, j \in Items :
          /\ trade[p].partner = q
          /\ trade[p].item = i /\ Top(i) = p
          /\ trade[q].item = j /\ Top(j) = q
          => (Top(i)' = q <=> Top(j)' = p)]_vars
=============================================================================
