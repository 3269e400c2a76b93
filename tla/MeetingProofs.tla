---------------------------- MODULE MeetingProofs --------------------------
(* The invariants of Trade, proved for any players, items and places; and    *)
(* those of Party, for any players and any addresses.                        *)
(*                                                                           *)
(* TradersAgree is about pairs of players (Paired, NearBy), OffersAreHeld    *)
(* about what they offer (Listed, Held, Apart).  Both are inductive only     *)
(* together: that the notices of a moved item reach the right players        *)
(* depends on who holds what is offered, and on no bag being in a bag (Flat).*)
(*                                                                           *)
(* PartiesAgree needs to know that the record of an address that is not live *)
(* is Freed (an invitation overwrites it); SharersFought that the points of  *)
(* a party are those of its own players.  Both are in Good, the invariant of *)
(* one Party, which the record operators preserve (the first lemmas of the   *)
(* second part) and from which Settle preserves the whole (SettleKeeps).     *)
EXTENDS Trade, Party, TLAPS


Trades == [state   : {"none", "acknowledge", "initiated", "accept"},
           partner : Players \cup {NoPlayer},
           item    : Items \cup {NoItem}]

Paired ==
    \A p \in Players :
        LET t == trade[p] IN
        IF t.state = "none"
        THEN t = NoTrade
        ELSE /\ t.partner \in Players \ {p}
             /\ trade[t.partner].partner = p
             /\ t.state = "acknowledge" => t.item = NoItem
             /\ t.state = "initiated" => t.item # NoItem
             /\ t.item # NoItem \/ trade[t.partner].item # NoItem

NearBy ==
    \A p \in Players :
        trade[p].state # "none" => Online(p) /\ Near(p, trade[p].partner)

Listed == \A i \in Items, p \in Players : tradeItems[i] = p <=> trade[p].item = i
Held   == \A i \in Items, p \in Players : trade[p].item = i => Reaches(p, i)
Apart  == \A i, j \in Items, p, q \in Players :
              trade[p].item = i /\ trade[q].item = j => ~ Holds(i, j)
Flat   == \A b \in Bags : where[b] \notin Bags

IInv == TypeOK /\ Paired /\ NearBy /\ Listed /\ Held /\ Apart /\ Flat

LEMMA NoTradeFacts ==
  NoTrade \in Trades /\ NoTrade.state = "none" /\ NoTrade.partner = NoPlayer
  /\ NoTrade.item = NoItem
BY DEF NoTrade, Trades

(* Whoever offers an item is in a trade, in the world, and reaches it.       *)
LEMMA Offering ==
  ASSUME IInv, NEW p \in Players, NEW i \in Items, trade[p].item = i
  PROVE  /\ trade[p].state # "none" /\ place[p] \in Places
         /\ Top(i) \in {p, place[p]}
<1>1. trade[p].state # "none"
  BY NoTradeFacts, ItemsAssumption DEF IInv, Paired
<1> QED
  BY <1>1 DEF IInv, NearBy, Online, Held, Reaches

(* The two of a trade.                                                       *)
LEMMA Partners ==
  ASSUME IInv, NEW p \in Players, trade[p].partner # NoPlayer
  PROVE  /\ trade[p].partner \in Players \ {p}
         /\ trade[trade[p].partner].partner = p
         /\ trade[p].state # "none" /\ trade[trade[p].partner].state # "none"
<1>1. trade[p].state # "none"
  BY NoTradeFacts DEF IInv, Paired
<1>2. /\ trade[p].partner \in Players \ {p} /\ trade[trade[p].partner].partner = p
  BY <1>1 DEF IInv, Paired
<1>3. trade[trade[p].partner].state # "none"
  BY <1>2, NoTradeFacts, PlacesAssumption DEF IInv, Paired
<1> QED BY <1>1, <1>2, <1>3

-----------------------------------------------------------------------------
(* Steps that close trades.                                                  *)

(* A trade is closed for both or for none.                                   *)
LEMMA ClosedTogether ==
  ASSUME IInv, NEW S \in SUBSET Players, NEW p \in Players,
         trade[p].state # "none"
  PROVE  p \in WithPartners(S) <=> trade[p].partner \in WithPartners(S)
<1>1. /\ trade[p].partner \in Players \ {p} /\ trade[trade[p].partner].partner = p
  BY DEF IInv, Paired
<1>2. ASSUME NEW x \in Players, x \in WithPartners(S), trade[x].state # "none"
      PROVE  trade[x].partner \in WithPartners(S)
  <2>1. /\ trade[x].partner \in Players \ {x} /\ trade[trade[x].partner].partner = x
    BY <1>2 DEF IInv, Paired
  <2>2. CASE x \in S
    BY <2>2 DEF WithPartners
  <2>3. CASE x \notin S
    <3>1. PICK y \in S : x = trade[y].partner
      BY <1>2, <2>3 DEF WithPartners
    <3>2. trade[x].partner = y
      BY <3>1, Partners, PlacesAssumption
    <3> QED BY <3>1, <3>2 DEF WithPartners
  <2> QED BY <2>2, <2>3
<1>3. trade[trade[p].partner].state # "none"
  BY <1>1, NoTradeFacts, PlacesAssumption DEF IInv, Paired
<1> QED BY <1>1, <1>2, <1>3

LEMMA CloseTradesFacts ==
  ASSUME IInv, NEW S \in SUBSET Players, CloseTrades(S)
  PROVE  /\ \A p \in Players : trade'[p] = IF p \in WithPartners(S) THEN NoTrade ELSE trade[p]
         /\ trade' \in [Players -> Trades]
         /\ tradeItems' \in [Items -> Players \cup {NoPlayer}]
         /\ Paired' /\ Listed'
<1>1. \A p \in Players : trade'[p] = IF p \in WithPartners(S) THEN NoTrade ELSE trade[p]
  BY DEF CloseTrades
<1>2. trade' \in [Players -> Trades]
  BY NoTradeFacts DEF CloseTrades, IInv, TypeOK, Trades
<1>3. tradeItems' \in [Items -> Players \cup {NoPlayer}]
  BY DEF CloseTrades, IInv, TypeOK
<1>4. Paired'
  <2> SUFFICES ASSUME NEW p \in Players, trade'[p].state # "none"
               PROVE  LET t == trade'[p] IN
                      /\ t.partner \in Players \ {p}
                      /\ trade'[t.partner].partner = p
                      /\ t.state = "acknowledge" => t.item = NoItem
                      /\ t.state = "initiated" => t.item # NoItem
                      /\ t.item # NoItem \/ trade'[t.partner].item # NoItem
    <3>1. ASSUME NEW p \in Players, trade'[p].state = "none" PROVE trade'[p] = NoTrade
      BY <1>1, <3>1 DEF IInv, Paired
    <3> QED BY <3>1 DEF Paired
  <2>1. p \notin WithPartners(S) /\ trade'[p] = trade[p]
    BY <1>1, NoTradeFacts
  <2>2. /\ trade[p].partner \in Players \ {p} /\ trade[p].partner \notin WithPartners(S)
    BY <2>1, ClosedTogether DEF IInv, Paired
  <2>3. trade'[trade[p].partner] = trade[trade[p].partner]
    BY <1>1, <2>2
  <2> QED BY <2>1, <2>3 DEF IInv, Paired
<1>5. Listed'
  <2> SUFFICES ASSUME NEW i \in Items, NEW p \in Players
               PROVE  tradeItems'[i] = p <=> trade'[p].item = i
    BY DEF Listed
  <2>1. tradeItems[i] = p <=> trade[p].item = i
    BY DEF IInv, Listed
  <2>2. tradeItems'[i] = IF \E q \in WithPartners(S) \ {NoPlayer} : trade[q].item = i
                         THEN NoPlayer ELSE tradeItems[i]
    BY DEF CloseTrades
  <2>3. CASE p \in WithPartners(S)
    <3>1. trade'[p].item # i
      BY <1>1, <2>3, NoTradeFacts, ItemsAssumption
    <3> QED BY <2>1, <2>2, <2>3, <3>1, PlacesAssumption
  <2>4. CASE p \notin WithPartners(S)
    <3>1. trade'[p] = trade[p]
      BY <1>1, <2>4
    <3>2. WithPartners(S) \ {NoPlayer} \subseteq Players
      BY DEF WithPartners, IInv, TypeOK
    <3>3. ASSUME trade[p].item = i, NEW q \in Players, trade[q].item = i PROVE q = p
      BY <3>3 DEF IInv, Listed
    <3> QED BY <2>1, <2>2, <2>4, <3>1, <3>2, <3>3, PlacesAssumption
  <2> QED BY <2>3, <2>4
<1> QED BY <1>1, <1>2, <1>3, <1>4, <1>5

(* A step keeps the invariant if the trades it leaves open are of players    *)
(* that stay where they are, and of items that do.                           *)
LEMMA ClosingKeeps ==
  ASSUME IInv, NEW S \in SUBSET Players, CloseTrades(S),
         place' \in [Players -> Places \cup {Nowhere}],
         where' \in [Items -> Players \cup Places \cup Bags \cup {Gone}],
         Flat',
         \A p \in Players \ WithPartners(S) :
            trade[p].state # "none" => place'[p] = place[p],
         \A p \in Players \ WithPartners(S), i \in Items :
            trade[p].item = i => where'[i] = where[i] /\ Top(i)' = Top(i)
  PROVE  IInv'
<1>1. /\ \A p \in Players : trade'[p] = IF p \in WithPartners(S) THEN NoTrade ELSE trade[p]
      /\ trade' \in [Players -> Trades]
      /\ tradeItems' \in [Items -> Players \cup {NoPlayer}]
      /\ Paired' /\ Listed'
  BY CloseTradesFacts
<1>2. TypeOK'
  BY <1>1 DEF TypeOK, Trades
<1>3. NearBy'
  <2> SUFFICES ASSUME NEW p \in Players, trade'[p].state # "none"
               PROVE  place'[p] \in Places /\ place'[p] = place'[trade'[p].partner]
    BY DEF NearBy, Online, Near
  <2>1. p \notin WithPartners(S) /\ trade'[p] = trade[p]
    BY <1>1, NoTradeFacts
  <2>2. /\ trade[p].partner \in Players /\ trade[p].partner \notin WithPartners(S)
        /\ trade[trade[p].partner].partner = p
    BY <2>1, ClosedTogether DEF IInv, Paired
  <2>3. trade[trade[p].partner].state # "none"
    BY <2>2, NoTradeFacts, PlacesAssumption DEF IInv, Paired
  <2>4. place'[p] = place[p] /\ place'[trade[p].partner] = place[trade[p].partner]
    BY <2>1, <2>2, <2>3
  <2> QED BY <2>1, <2>4 DEF IInv, NearBy, Online, Near
<1>4. ASSUME NEW p \in Players, NEW i \in Items, trade'[p].item = i
      PROVE  /\ p \notin WithPartners(S) /\ trade[p].item = i
             /\ where'[i] = where[i] /\ Top(i)' = Top(i) /\ place'[p] = place[p]
  <2>1. p \notin WithPartners(S) /\ trade[p].item = i
    BY <1>1, <1>4, NoTradeFacts, ItemsAssumption
  <2> QED BY <2>1, Offering
<1>5. Held'
  BY <1>4 DEF IInv, Held, Reaches
<1>6. Apart'
  BY <1>4 DEF IInv, Apart, Holds
<1> QED BY <1>1, <1>2, <1>3, <1>5, <1>6 DEF IInv

LEMMA LogoutKeeps ==
  ASSUME IInv, NEW p \in Players, Logout(p)
  PROVE  IInv'
<1> DEFINE S == IF trade[p].partner # NoPlayer THEN {p} ELSE {}
<1>1. /\ S \in SUBSET Players /\ CloseTrades(S)
      /\ place' = [place EXCEPT ![p] = Nowhere] /\ where' = where
  BY DEF Logout
<1>2. p \in WithPartners(S) \/ trade[p].state = "none"
  <2>1. CASE trade[p].partner # NoPlayer
    BY <2>1 DEF WithPartners
  <2>2. CASE trade[p].partner = NoPlayer
    BY <2>2, PlacesAssumption DEF IInv, Paired
  <2> QED BY <2>1, <2>2
<1>3. /\ place' \in [Players -> Places \cup {Nowhere}]
      /\ where' \in [Items -> Players \cup Places \cup Bags \cup {Gone}] /\ Flat'
  BY <1>1 DEF IInv, TypeOK, Flat
<1>4. \A x \in Players : x # p => place'[x] = place[x]
  BY <1>1 DEF IInv, TypeOK
<1>5. \A i \in Items : Top(i)' = Top(i)
  BY <1>1 DEF Top
<1> HIDE DEF S
<1> QED BY <1>1, <1>2, <1>3, <1>4, <1>5, ClosingKeeps

LEMMA WalkKeeps ==
  ASSUME IInv, NEW p \in Players, Walk(p)
  PROVE  IInv'
<1> DEFINE S == IF OutOfReach(p) THEN {p} ELSE {}
<1>1. PICK s \in Places : place' = [place EXCEPT ![p] = s]
  BY DEF Walk
<1>2. S \in SUBSET Players /\ CloseTrades(S) /\ where' = where
  BY DEF Walk
<1>3. p \in WithPartners(S) \/ trade[p].state = "none"
  <2>1. CASE trade[p].partner # NoPlayer
    BY <2>1 DEF WithPartners, OutOfReach
  <2>2. CASE trade[p].partner = NoPlayer
    BY <2>2, PlacesAssumption DEF IInv, Paired
  <2> QED BY <2>1, <2>2
<1>4. /\ place' \in [Players -> Places \cup {Nowhere}]
      /\ where' \in [Items -> Players \cup Places \cup Bags \cup {Gone}] /\ Flat'
  BY <1>1, <1>2 DEF IInv, TypeOK, Flat
<1>5. \A x \in Players : x # p => place'[x] = place[x]
  BY <1>1 DEF IInv, TypeOK
<1>6. \A i \in Items : Top(i)' = Top(i)
  BY <1>2 DEF Top
<1> HIDE DEF S
<1> QED BY <1>2, <1>3, <1>4, <1>5, <1>6, ClosingKeeps

LEMMA CloseTradeKeeps ==
  ASSUME IInv, NEW p \in Players, CloseTrade(p)
  PROVE  IInv'
<1>1. CloseTrades({p}) /\ place' = place /\ where' = where
  BY DEF CloseTrade
<1>2. \A i \in Items : Top(i)' = Top(i)
  BY <1>1 DEF Top
<1>3. /\ place' \in [Players -> Places \cup {Nowhere}]
      /\ where' \in [Items -> Players \cup Places \cup Bags \cup {Gone}] /\ Flat'
  BY <1>1 DEF IInv, TypeOK, Flat
<1> QED BY <1>1, <1>2, <1>3, ClosingKeeps

-----------------------------------------------------------------------------
(* Items that move or go.                                                    *)

(* Where an item can be, and its top.                                        *)
LEMMA TopFacts ==
  ASSUME IInv, NEW i \in Items
  PROVE  /\ where[i] \in Bags => Top(i) = where[where[i]] /\ where[i] \in Items
         /\ where[i] \notin Bags => Top(i) = where[i]
         /\ i \in Bags => Top(i) = where[i]
BY ItemsAssumption DEF IInv, Flat, Top

(* Whoever offers j, has it or lies near it, is told of all that happens at  *)
(* the same top.                                                             *)
LEMMA ToldAll ==
  ASSUME IInv, NEW p \in Players, NEW j \in Items, trade[p].item = j,
         NEW i \in Items, Top(i) = Top(j)
  PROVE  p \in Told(where[i], Spot(i))
<1>1. place[p] \in Places /\ Top(i) \in {p, place[p]}
  BY Offering
<1>2. CASE where[i] \in Players
  <2>1. where[i] \notin Bags
    BY <1>2, PlacesAssumption, ItemsAssumption
  <2>2. where[i] = p
    BY <1>1, <1>2, <2>1, TopFacts, PlacesAssumption
  <2> QED BY <2>2 DEF Told
<1>3. CASE where[i] \notin Players
  <2>1. Spot(i) = place[p]
    BY <1>1, PlacesAssumption DEF Spot
  <2> QED BY <1>3, <2>1 DEF Told
<1> QED BY <1>2, <1>3

(* Who is not told that i has been moved offers neither it, nor what holds   *)
(* it, nor what it holds.                                                    *)
LEMMA Untouched ==
  ASSUME IInv, NEW p \in Players, NEW j \in Items, trade[p].item = j,
         NEW i \in Items, p \notin Disturbed(i)
  PROVE  i # j /\ where[i] # j /\ where[j] # i
<1>1. trade[p].item # NoItem
  BY ItemsAssumption
<1>2. CASE i = j
  BY <1>1, <1>2, ToldAll DEF Disturbed, Touches
<1>3. CASE where[i] = j
  <2>1. j \in Bags
    BY <1>3, PlacesAssumption DEF IInv, TypeOK
  <2>2. Top(i) = Top(j)
    BY <1>3, <2>1, TopFacts
  <2> QED BY <1>1, <1>3, <2>2, ToldAll DEF Disturbed, Touches, Holds
<1>4. CASE where[j] = i
  <2>1. i \in Bags
    BY <1>4, PlacesAssumption DEF IInv, TypeOK
  <2>2. Top(i) = Top(j)
    BY <1>4, <2>1, TopFacts
  <2> QED BY <1>1, <1>4, <2>1, <2>2, ToldAll DEF Disturbed, Touches, Holds
<1> QED BY <1>2, <1>3, <1>4

LEMMA UntouchedStays ==
  ASSUME IInv, NEW p \in Players, NEW j \in Items, trade[p].item = j,
         NEW i \in Items, p \notin Disturbed(i),
         NEW d, where' = [where EXCEPT ![i] = d]
  PROVE  where'[j] = where[j] /\ Top(j)' = Top(j)
<1>1. i # j /\ where[i] # j /\ where[j] # i
  BY Untouched
<1>2. where'[j] = where[j]
  BY <1>1 DEF IInv, TypeOK
<1>3. CASE where[j] \in Bags
  <2>1. where'[where[j]] = where[where[j]]
    BY <1>1, <1>3, ItemsAssumption DEF IInv, TypeOK
  <2> QED BY <1>2, <1>3, <2>1 DEF Top
<1>4. CASE where[j] \notin Bags
  BY <1>2, <1>4 DEF Top
<1> QED BY <1>2, <1>3, <1>4

LEMMA DisturbedArePlayers ==
  ASSUME NEW i PROVE Disturbed(i) \in SUBSET Players
<1>1. ASSUME NEW c, NEW s PROVE Told(c, s) \in SUBSET Players
  BY DEF Told
<1> QED BY <1>1 DEF Disturbed

LEMMA FilledArePlayers ==
  ASSUME NEW d PROVE Filled(d) \in SUBSET Players
<1>1. ASSUME NEW c, NEW s PROVE Told(c, s) \in SUBSET Players
  BY DEF Told
<1> QED BY <1>1 DEF Filled

(* An item goes anywhere, when those concerned are told.                     *)
LEMMA MovingKeeps ==
  ASSUME IInv, NEW i \in Items, NEW d \in Players \cup Places \cup Bags \cup {Gone},
         i \in Bags => d \notin Bags,
         where' = [where EXCEPT ![i] = d], place' = place,
         NEW S \in SUBSET Players, Disturbed(i) \subseteq S, CloseTrades(S)
  PROVE  IInv'
<1>1. /\ place' \in [Players -> Places \cup {Nowhere}]
      /\ where' \in [Items -> Players \cup Places \cup Bags \cup {Gone}]
  BY DEF IInv, TypeOK
<1>2. Flat'
  BY ItemsAssumption DEF IInv, TypeOK, Flat
<1>3. S \subseteq WithPartners(S)
  BY DEF WithPartners
<1>4. \A p \in Players \ WithPartners(S), j \in Items :
         trade[p].item = j => where'[j] = where[j] /\ Top(j)' = Top(j)
  BY <1>3, UntouchedStays
<1> QED BY <1>1, <1>2, <1>4, ClosingKeeps

LEMMA MoveItemKeeps ==
  ASSUME IInv, NEW p \in Players, NEW i \in Items, MoveItem(p, i)
  PROVE  IInv'
<1>1. PICK d \in Destinations(p, i) \ {where[i]} :
         /\ where' = [where EXCEPT ![i] = d]
         /\ CloseTrades(Disturbed(i) \cup Filled(d))
  BY DEF MoveItem
<1>2. place' = place /\ place[p] \in Places
  BY DEF MoveItem, Online
<1>3. d \in Players \cup Places \cup Bags /\ (i \in Bags => d \notin Bags)
  BY <1>2, PlacesAssumption, ItemsAssumption DEF Destinations
<1>4. Disturbed(i) \cup Filled(d) \in SUBSET Players
  BY DisturbedArePlayers, FilledArePlayers
<1> QED BY <1>1, <1>2, <1>3, <1>4, MovingKeeps

LEMMA RemoveItemKeeps ==
  ASSUME IInv, NEW i \in Items, RemoveItem(i)
  PROVE  IInv'
<1>1. /\ where' = [where EXCEPT ![i] = Gone] /\ CloseTrades(Disturbed(i)) /\ place' = place
  BY DEF RemoveItem
<1>2. Gone \notin Bags
  BY PlacesAssumption, ItemsAssumption
<1> QED BY <1>1, <1>2, DisturbedArePlayers, MovingKeeps

-----------------------------------------------------------------------------
(* The trade itself.                                                         *)

LEMMA LoginKeeps ==
  ASSUME IInv, NEW p \in Players, Login(p)
  PROVE  IInv'
<1>1. PICK s \in Places : place' = [place EXCEPT ![p] = s]
  BY DEF Login
<1>2. ~ Online(p) /\ where' = where /\ trade' = trade /\ tradeItems' = tradeItems
  BY DEF Login
<1>3. trade[p].state = "none"
  BY <1>2 DEF IInv, NearBy
<1>4. \A x \in Players : x # p => place'[x] = place[x]
  BY <1>1 DEF IInv, TypeOK
<1>5. TypeOK'
  BY <1>1, <1>2 DEF IInv, TypeOK
<1>6. Paired' /\ Listed' /\ Apart' /\ Flat'
  BY <1>2 DEF IInv, Paired, Listed, Apart, Flat, Holds
<1>7. NearBy'
  <2> SUFFICES ASSUME NEW x \in Players, trade[x].state # "none"
               PROVE  place'[x] \in Places /\ place'[x] = place'[trade[x].partner]
    BY <1>2 DEF NearBy, Online, Near
  <2>1. /\ trade[x].partner \in Players /\ trade[trade[x].partner].partner = x
    BY DEF IInv, Paired
  <2>2. trade[x].partner # p /\ x # p
    BY <1>3, <2>1, NoTradeFacts, PlacesAssumption DEF IInv, Paired
  <2> QED BY <1>4, <2>1, <2>2 DEF IInv, NearBy, Online, Near
<1>8. Held'
  <2> SUFFICES ASSUME NEW x \in Players, NEW i \in Items, trade[x].item = i
               PROVE  Top(i)' \in {x, place'[x]}
    BY <1>2 DEF Held, Reaches
  <2>1. trade[x].state # "none" /\ Top(i) \in {x, place[x]}
    BY Offering
  <2>2. Top(i)' = Top(i)
    BY <1>2 DEF Top
  <2> QED BY <1>3, <1>4, <2>1, <2>2
<1> QED BY <1>5, <1>6, <1>7, <1>8 DEF IInv

LEMMA RequestTradeKeeps ==
  ASSUME IInv, NEW p \in Players, NEW q \in Players, NEW i \in Items, RequestTrade(p, q, i)
  PROVE  IInv'
<1>1. /\ place[p] \in Places /\ p # q /\ place[p] = place[q] /\ Reaches(p, i)
      /\ Available(i)
      /\ trade[p].state = "none" \/ (trade[p].state = "acknowledge" /\ trade[p].partner = q)
      /\ trade[q].state = "none" \/ trade[q].partner = p
      /\ trade' = [trade EXCEPT
             ![p] = [state |-> "initiated", partner |-> q, item |-> i],
             ![q] = IF @.state = "none"
                    THEN [state |-> "acknowledge", partner |-> p, item |-> NoItem]
                    ELSE @]
      /\ tradeItems' = [tradeItems EXCEPT ![i] = p]
      /\ place' = place /\ where' = where
  BY DEF RequestTrade, Online, Near
<1>2. trade \in [Players -> Trades]
  BY DEF IInv, TypeOK, Trades
<1>3. PICK t \in Trades : /\ t = trade'[p] /\ t.state = "initiated" /\ t.partner = q /\ t.item = i
  <2>1. LET r == [state |-> "initiated", partner |-> q, item |-> i] IN
        r \in Trades /\ r.state = "initiated" /\ r.partner = q /\ r.item = i
    BY DEF Trades
  <2>2. trade'[p] = [state |-> "initiated", partner |-> q, item |-> i]
    BY <1>1, <1>2
  <2> QED BY <2>1, <2>2
<1>4. PICK u \in Trades : /\ u = trade'[q] /\ u.state # "none" /\ u.partner = p
                          /\ u.state # "none" /\ u.item = trade[q].item
                          /\ u.state = "acknowledge" => u.item = NoItem
                          /\ u.state = "initiated" => u.item # NoItem
  <2>1. CASE trade[q].state = "none"
    <3>1. LET r == [state |-> "acknowledge", partner |-> p, item |-> NoItem] IN
          r \in Trades /\ r.state = "acknowledge" /\ r.partner = p /\ r.item = NoItem
      BY DEF Trades
    <3>2. trade'[q] = [state |-> "acknowledge", partner |-> p, item |-> NoItem]
      BY <1>1, <1>2, <2>1
    <3>3. trade[q].item = NoItem
      BY <2>1, NoTradeFacts DEF IInv, Paired
    <3> QED BY <3>1, <3>2, <3>3
  <2>2. CASE trade[q].state # "none"
    <3>1. trade'[q] = trade[q]
      BY <1>1, <1>2, <2>2
    <3> QED BY <1>1, <1>2, <2>2, <3>1 DEF IInv, Paired
  <2> QED BY <2>1, <2>2
<1>5. \A x \in Players \ {p, q} : trade'[x] = trade[x]
  BY <1>1, <1>2
<1>6. trade' \in [Players -> Trades]
  <2>1. trade' = [x \in Players |-> trade'[x]]
    BY <1>1, <1>2
  <2>2. \A x \in Players : trade'[x] \in Trades
    BY <1>2, <1>3, <1>4, <1>5
  <2> QED BY <2>1, <2>2
<1>7. TypeOK'
  BY <1>1, <1>6 DEF IInv, TypeOK, Trades
<1>8. trade[p].item = NoItem
  BY <1>1, NoTradeFacts DEF IInv, Paired
<1>9. ASSUME NEW x \in Players \ {p, q}, trade[x].state # "none"
      PROVE  trade[x].partner \in Players \ {p, q}
  <2>1. /\ trade[x].partner \in Players /\ trade[trade[x].partner].partner = x
    BY <1>9 DEF IInv, Paired
  <2>2. trade[p].partner \in {NoPlayer, q}
    BY <1>1, NoTradeFacts DEF IInv, Paired
  <2>3. trade[q].partner \in {NoPlayer, p}
    BY <1>1, NoTradeFacts DEF IInv, Paired
  <2> QED BY <2>1, <2>2, <2>3, PlacesAssumption
<1>10. Paired'
  <2> SUFFICES ASSUME NEW x \in Players
               PROVE  LET v == trade'[x] IN
                      IF v.state = "none"
                      THEN v = NoTrade
                      ELSE /\ v.partner \in Players \ {x}
                           /\ trade'[v.partner].partner = x
                           /\ v.state = "acknowledge" => v.item = NoItem
                           /\ v.state = "initiated" => v.item # NoItem
                           /\ v.item # NoItem \/ trade'[v.partner].item # NoItem
    BY DEF Paired
  <2>1. CASE x = p
    BY <1>1, <1>3, <1>4, <2>1, ItemsAssumption
  <2>2. CASE x = q
    BY <1>1, <1>3, <1>4, <2>2, ItemsAssumption
  <2>3. CASE x \notin {p, q}
    <3>1. trade'[x] = trade[x]
      BY <1>5, <2>3
    <3>2. CASE trade[x].state = "none"
      BY <3>1, <3>2 DEF IInv, Paired
    <3>3. CASE trade[x].state # "none"
      <4>1. trade'[trade[x].partner] = trade[trade[x].partner]
        BY <1>5, <1>9, <2>3, <3>3
      <4> QED BY <3>1, <3>3, <4>1 DEF IInv, Paired
    <3> QED BY <3>2, <3>3
  <2> QED BY <2>1, <2>2, <2>3
<1>11. NearBy'
  <2> SUFFICES ASSUME NEW x \in Players, trade'[x].state # "none"
               PROVE  place[x] \in Places /\ place[x] = place[trade'[x].partner]
    BY <1>1 DEF NearBy, Online, Near
  <2>1. CASE x \in {p, q}
    BY <1>1, <1>3, <1>4, <2>1
  <2>2. CASE x \notin {p, q}
    BY <1>5, <2>2 DEF IInv, NearBy, Online, Near
  <2> QED BY <2>1, <2>2
<1>12. tradeItems[i] = NoPlayer /\ \A x \in Players : trade[x].item # i
  <2>1. tradeItems[i] = NoPlayer
    BY <1>1 DEF Available
  <2> QED BY <2>1, PlacesAssumption DEF IInv, Listed
<1>13. /\ trade'[p].item = i
       /\ \A x \in Players \ {p} : trade'[x].item = trade[x].item
  BY <1>3, <1>4, <1>5
<1>14. Listed'
  <2> SUFFICES ASSUME NEW j \in Items, NEW x \in Players
               PROVE  tradeItems'[j] = x <=> trade'[x].item = j
    BY DEF Listed
  <2>1. tradeItems[j] = x <=> trade[x].item = j
    BY DEF IInv, Listed
  <2>2. CASE j = i
    <3>1. tradeItems'[j] = p
      BY <1>1, <2>2 DEF IInv, TypeOK
    <3> QED BY <1>12, <1>13, <2>2, <3>1
  <2>3. CASE j # i
    <3>1. tradeItems'[j] = tradeItems[j]
      BY <1>1, <2>3 DEF IInv, TypeOK
    <3> QED BY <1>8, <1>13, <2>1, <2>3, <3>1, ItemsAssumption
  <2> QED BY <2>2, <2>3
<1>15. Held'
  <2>1. \A j \in Items : Top(j)' = Top(j)
    BY <1>1 DEF Top
  <2> QED BY <1>1, <1>13, <2>1 DEF IInv, Held, Reaches
<1>16. ASSUME NEW x \in Players, NEW j \in Items, trade[x].item = j
       PROVE  where[i] # j /\ where[j] # i
  <2>1. tradeItems[j] # NoPlayer
    BY <1>16, PlacesAssumption DEF IInv, Listed
  <2> QED BY <1>1, <2>1 DEF Available, Holds
<1>17. where[i] # i
  BY PlacesAssumption DEF IInv, TypeOK, Flat
<1>18. Apart'
  <2> SUFFICES ASSUME NEW x \in Players, NEW y \in Players, NEW j \in Items, NEW k \in Items,
                      trade'[x].item = j, trade'[y].item = k
               PROVE  where[k] # j
    BY <1>1 DEF Apart, Holds
  <2> QED BY <1>13, <1>16, <1>17 DEF IInv, Apart, Holds
<1>19. Flat'
  BY <1>1 DEF IInv, Flat
<1> QED BY <1>7, <1>10, <1>11, <1>14, <1>15, <1>18, <1>19 DEF IInv

LEMMA AcceptTradeKeeps ==
  ASSUME IInv, NEW p \in Players, AcceptTrade(p)
  PROVE  IInv'
<1>1. /\ trade[p].partner # NoPlayer /\ trade[p].state # "none"
      /\ trade' = [trade EXCEPT ![p].state = "accept"]
      /\ place' = place /\ where' = where /\ tradeItems' = tradeItems
  BY DEF AcceptTrade, MayAccept
<1>2. trade \in [Players -> Trades]
  BY DEF IInv, TypeOK, Trades
<1>3. /\ trade' \in [Players -> Trades]
      /\ \A x \in Players : /\ trade'[x].partner = trade[x].partner
                            /\ trade'[x].item = trade[x].item
                            /\ x # p => trade'[x] = trade[x]
      /\ trade'[p].state = "accept"
  BY <1>1, <1>2 DEF Trades
<1>4. TypeOK'
  BY <1>1, <1>3 DEF IInv, TypeOK, Trades
<1>5. Paired'
  <2> SUFFICES ASSUME NEW x \in Players
               PROVE  LET v == trade'[x] IN
                      IF v.state = "none"
                      THEN v = NoTrade
                      ELSE /\ v.partner \in Players \ {x}
                           /\ trade'[v.partner].partner = x
                           /\ v.state = "acknowledge" => v.item = NoItem
                           /\ v.state = "initiated" => v.item # NoItem
                           /\ v.item # NoItem \/ trade'[v.partner].item # NoItem
    BY DEF Paired
  <2>1. CASE trade[x].state = "none"
    BY <1>1, <1>3, <2>1 DEF IInv, Paired
  <2>2. CASE trade[x].state # "none"
    <3>1. /\ trade[x].partner \in Players \ {x} /\ trade[trade[x].partner].partner = x
          /\ x # p /\ trade[x].state = "acknowledge" => trade[x].item = NoItem
          /\ x # p /\ trade[x].state = "initiated" => trade[x].item # NoItem
          /\ trade[x].item # NoItem \/ trade[trade[x].partner].item # NoItem
      BY <2>2 DEF IInv, Paired
    <3>2. trade'[x].state # "none"
      BY <1>3, <2>2
    <3> QED BY <1>3, <3>1, <3>2
  <2> QED BY <2>1, <2>2
<1>6. NearBy'
  BY <1>1, <1>3 DEF IInv, NearBy, Online, Near
<1>7. Listed' /\ Apart' /\ Flat'
  BY <1>1, <1>3 DEF IInv, Listed, Apart, Flat, Holds
<1>8. Held'
  <2>1. \A i \in Items : Top(i)' = Top(i)
    BY <1>1 DEF Top
  <2> QED BY <1>1, <1>3, <2>1 DEF IInv, Held, Reaches
<1> QED BY <1>4, <1>5, <1>6, <1>7, <1>8 DEF IInv

(* The exchange moves the two items on offer, and nothing else.              *)
Homes == Players \cup Places \cup Bags \cup {Gone}

LEMMA RestsFacts ==
  ASSUME NEW p \in Players, NEW i \in Items, NEW d \in Rests(p, i)
  PROVE  d \in Homes /\ (i \in Bags => d \notin Bags)
BY PlacesAssumption, ItemsAssumption DEF Rests, Homes

LEMMA GivenFacts ==
  ASSUME NEW w \in [Items -> Homes], NEW q \in Players, NEW i \in Items \cup {NoItem},
         NEW room, NEW v \in Given(w, q, i, room)
  PROVE  /\ v \in [Items -> Homes]
         /\ \A k \in Items : v[k] = w[k] \/ (k = i /\ v[k] \in Rests(q, i))
<1>1. CASE v = w
  BY <1>1
<1>2. CASE v # w
  <2>1. i \in Items /\ \E d \in Rests(q, i) : v = [w EXCEPT ![i] = d]
    BY <1>2 DEF Given
  <2> QED BY <2>1, RestsFacts
<1> QED BY <1>1, <1>2

LEMMA ExchangeFacts ==
  ASSUME IInv, NEW p \in Players, Exchange(p)
  PROVE  \E q \in Players \ {p} :
         /\ q = trade[p].partner /\ trade[q].partner = p
         /\ CloseTrades({p}) /\ WithPartners({p}) = {p, q}
         /\ place' = place /\ where' \in [Items -> Homes]
         /\ \A k \in Items : \/ where'[k] = where[k]
                             \/ k = trade[p].item /\ where'[k] \in Rests(q, k)
                             \/ k = trade[q].item /\ where'[k] \in Rests(p, k)
<1>q. PICK q : q = trade[p].partner
  OBVIOUS
<1>1. /\ trade[p].partner # NoPlayer /\ CloseTrades({p}) /\ place' = place
  BY DEF Exchange, MayAccept
<1>2. q \in Players \ {p} /\ trade[q].partner = p /\ WithPartners({p}) = {p, q}
  BY <1>q, <1>1, Partners DEF WithPartners
<1> DEFINE i == trade[p].item
           j == trade[q].item
<1>3. i \in Items \cup {NoItem} /\ j \in Items \cup {NoItem} /\ where \in [Items -> Homes]
  BY <1>2 DEF IInv, TypeOK, Homes
<1>4. PICK roomQ \in Rooms, roomP \in Rooms :
         IF BothPass(i, j, roomQ, roomP)
         THEN \E roomNow \in RoomAfter(p, i, roomP) :
                 \E w \in Given(where, q, i, roomQ) : where' \in Given(w, p, j, roomNow)
         ELSE UNCHANGED where
  BY <1>q DEF Exchange
<1>5. CASE ~ BothPass(i, j, roomQ, roomP)
  <2>1. where' = where
    BY <1>4, <1>5
  <2> QED BY <1>q, <1>1, <1>2, <1>3, <2>1
<1> HIDE DEF i, j
<1>6. CASE BothPass(i, j, roomQ, roomP)
  <2>1. PICK roomNow \in RoomAfter(p, i, roomP), w \in Given(where, q, i, roomQ) :
           where' \in Given(w, p, j, roomNow)
    BY <1>4, <1>6
  <2>2. /\ w \in [Items -> Homes]
        /\ \A k \in Items : w[k] = where[k] \/ (k = i /\ w[k] \in Rests(q, i))
    BY <1>2, <1>3, <2>1, GivenFacts
  <2>3. /\ where' \in [Items -> Homes]
        /\ \A k \in Items : where'[k] = w[k] \/ (k = j /\ where'[k] \in Rests(p, j))
    BY <1>3, <2>1, <2>2, GivenFacts
  <2>4. \A k \in Items : \/ where'[k] = where[k]
                         \/ k = i /\ where'[k] \in Rests(q, k)
                         \/ k = j /\ where'[k] \in Rests(p, k)
    BY <2>2, <2>3
  <2> QED BY <1>q, <1>1, <1>2, <2>3, <2>4 DEF i, j
<1> QED BY <1>5, <1>6

(* The offers of other pairs are not touched by an exchange.                 *)
LEMMA ExchangeSpares ==
  ASSUME IInv, NEW p \in Players, Exchange(p),
         NEW r \in Players, r \notin WithPartners({p}),
         NEW k \in Items, trade[r].item = k
  PROVE  where'[k] = where[k] /\ Top(k)' = Top(k) /\ Content(k)' = Content(k)
<1>0. PICK q \in Players \ {p} :
      /\ WithPartners({p}) = {p, q}
      /\ where' \in [Items -> Homes]
      /\ \A x \in Items : \/ where'[x] = where[x]
                          \/ x = trade[p].item /\ where'[x] \in Rests(q, x)
                          \/ x = trade[q].item /\ where'[x] \in Rests(p, x)
  BY ExchangeFacts
<1>1. /\ r # p /\ r # q
      /\ where' \in [Items -> Homes]
      /\ \A x \in Items : \/ where'[x] = where[x]
                          \/ x = trade[p].item /\ where'[x] \in Rests(q, x)
                          \/ x = trade[q].item /\ where'[x] \in Rests(p, x)
  BY <1>0
<1>2. trade[p].item # k /\ trade[q].item # k
  BY <1>1 DEF IInv, Listed
<1>3. where'[k] = where[k]
  BY <1>1, <1>2
<1>4. where[k] \in Items => where[k] # trade[p].item /\ where[k] # trade[q].item
  BY <1>1 DEF IInv, Apart, Holds
<1>5. Top(k)' = Top(k)
  <2>1. CASE where[k] \in Bags
    BY <1>1, <1>3, <1>4, <2>1, ItemsAssumption DEF Top
  <2>2. CASE where[k] \notin Bags
    BY <1>3, <2>2 DEF Top
  <2> QED BY <2>1, <2>2
<1>6. ASSUME NEW x \in Items, NEW s \in Players, s # r, where'[x] \in Rests(s, x)
      PROVE  where'[x] # k
  <2> SUFFICES ASSUME where'[x] = k PROVE FALSE
    OBVIOUS
  <2>1. k \in Bags /\ where[k] = s
    BY <1>6, PlacesAssumption DEF Rests
  <2>2. Top(k) = s
    BY <2>1, TopFacts
  <2>3. Top(k) \in {r, place[r]} /\ place[r] \in Places
    BY Offering
  <2> QED BY <1>6, <2>2, <2>3, PlacesAssumption
<1>7. ASSUME NEW x \in Items PROVE where'[x] = k <=> where[x] = k
  <2>1. CASE where'[x] = where[x]
    BY <2>1
  <2>2. CASE where'[x] # where[x]
    <3>1. \/ x = trade[p].item /\ where'[x] \in Rests(q, x)
          \/ x = trade[q].item /\ where'[x] \in Rests(p, x)
      BY <1>1, <2>2
    <3>2. where'[x] # k
      BY <1>1, <1>6, <3>1
    <3>3. where[x] # k
      BY <1>1, <3>1 DEF IInv, Apart, Holds
    <3> QED BY <3>2, <3>3
  <2> QED BY <2>1, <2>2
<1> QED BY <1>3, <1>5, <1>7 DEF Content, Holds

LEMMA ExchangeKeeps ==
  ASSUME IInv, NEW p \in Players, Exchange(p)
  PROVE  IInv'
<1>1. PICK q \in Players \ {p} :
      /\ CloseTrades({p}) /\ place' = place /\ where' \in [Items -> Homes]
      /\ \A k \in Items : \/ where'[k] = where[k]
                          \/ k = trade[p].item /\ where'[k] \in Rests(q, k)
                          \/ k = trade[q].item /\ where'[k] \in Rests(p, k)
  BY ExchangeFacts
<1>2. Flat'
  <2> SUFFICES ASSUME NEW b \in Bags PROVE where'[b] \notin Bags
    BY DEF Flat
  <2>1. b \in Items /\ where[b] \notin Bags
    BY ItemsAssumption DEF IInv, Flat
  <2> QED BY <1>1, <2>1, RestsFacts
<1>3. /\ place' \in [Players -> Places \cup {Nowhere}]
      /\ where' \in [Items -> Players \cup Places \cup Bags \cup {Gone}]
  BY <1>1 DEF IInv, TypeOK, Homes
<1> QED BY <1>1, <1>2, <1>3, ExchangeSpares, ClosingKeeps

-----------------------------------------------------------------------------
LEMMA InitEstablishes == Init => IInv
<1> SUFFICES ASSUME Init PROVE IInv
  OBVIOUS
<1>1. \A p \in Players : trade[p] = NoTrade
  BY DEF Init
<1>2. trade \in [Players -> Trades]
  BY NoTradeFacts DEF Init
<1>3. TypeOK
  BY <1>2 DEF Init, TypeOK, Trades
<1>4. Paired /\ NearBy
  BY <1>1, NoTradeFacts DEF Paired, NearBy
<1>5. \A p \in Players, i \in Items : trade[p].item # i
  BY <1>1, NoTradeFacts, ItemsAssumption
<1>6. Listed
  BY <1>5, PlacesAssumption DEF Init, Listed
<1>7. Held /\ Apart
  BY <1>5 DEF Held, Apart
<1>8. Flat
  BY PlacesAssumption, ItemsAssumption DEF Init, Flat
<1> QED BY <1>3, <1>4, <1>6, <1>7, <1>8 DEF IInv

LEMMA StepKeeps == IInv /\ [Next]_vars => IInv'
<1> SUFFICES ASSUME IInv, [Next]_vars PROVE IInv'
  OBVIOUS
<1>1. CASE UNCHANGED vars
  <2>1. UNCHANGED <<place, where, trade, tradeItems>>
    BY <1>1 DEF vars
  <2>2. TypeOK' /\ Paired' /\ NearBy' /\ Listed' /\ Apart' /\ Flat'
    BY <2>1 DEF IInv, TypeOK, Paired, NearBy, Online, Near, Listed, Apart, Holds, Flat
  <2>3. Held'
    BY <2>1 DEF IInv, Held, Reaches, Top
  <2> QED BY <2>2, <2>3 DEF IInv
<1>2. CASE Next
  <2>1. ASSUME NEW p \in Players,
               \/ Login(p) \/ Logout(p) \/ Walk(p)
               \/ AcceptTrade(p) \/ Exchange(p) \/ CloseTrade(p)
        PROVE  IInv'
    BY <2>1, LoginKeeps, LogoutKeeps, WalkKeeps, AcceptTradeKeeps, ExchangeKeeps,
       CloseTradeKeeps
  <2>2. ASSUME NEW p \in Players, NEW i \in Items,
               MoveItem(p, i) \/ \E q \in Players : RequestTrade(p, q, i)
        PROVE  IInv'
    BY <2>2, MoveItemKeeps, RequestTradeKeeps
  <2>3. ASSUME NEW i \in Items, RemoveItem(i)
        PROVE  IInv'
    BY <2>3, RemoveItemKeeps
  <2> QED BY <1>2, <2>1, <2>2, <2>3 DEF Next
<1> QED BY <1>1, <1>2

LEMMA Invariance == Spec => []IInv
<1> QED BY InitEstablishes, StepKeeps, PTL DEF Spec

(* Every reachable state is well typed.                                      *)
THEOREM TypeCorrect == Spec => []TypeOK
<1>1. IInv => TypeOK
  BY DEF IInv
<1> QED BY <1>1, Invariance, PTL

(* Two trade with each other, in the world and within reach, for any number  *)
(* of players and whatever they walk, move and drop (player.cpp:1661, 1776). *)
THEOREM TradersAgreeHolds == Spec => []TradersAgree
<1>1. IInv => TradersAgree
  BY DEF IInv, Paired, NearBy, TradersAgree
<1> QED BY <1>1, Invariance, PTL

(* Every item is offered by one player at most, who reaches it, and none     *)
(* inside another (game.cpp:3131-3140).                                      *)
THEOREM OffersAreHeldHolds == Spec => []OffersAreHeld
<1>1. IInv => OffersAreHeld
  <2> SUFFICES ASSUME IInv PROVE OffersAreHeld
    OBVIOUS
  <2>1. ASSUME NEW i \in Items, tradeItems[i] # NoPlayer
        PROVE  tradeItems[i] \in Players /\ trade[tradeItems[i]].item = i
    BY <2>1 DEF IInv, TypeOK, Listed
  <2> QED BY <2>1 DEF IInv, Listed, Held, Apart, OffersAreHeld
<1> QED BY <1>1, Invariance, PTL

-----------------------------------------------------------------------------
(* What is offered does not change under a trade.                            *)

(* A player whose offer outlives a step that closes trades is not one of     *)
(* those whose trade it closes.                                              *)
LEMMA Surviving ==
  ASSUME IInv, NEW S \in SUBSET Players, CloseTrades(S),
         NEW p \in Players, NEW j \in Items, trade'[p].item = j
  PROVE  p \notin WithPartners(S) /\ p \notin S
<1>1. p \notin WithPartners(S)
  BY CloseTradesFacts, NoTradeFacts, ItemsAssumption
<1> QED BY <1>1 DEF WithPartners

Kept(j) == where'[j] = where[j] /\ Top(j)' = Top(j) /\ Content(j)' = Content(j)

LEMMA MoveItemKeepsOffers ==
  ASSUME IInv, NEW r \in Players, NEW i \in Items, MoveItem(r, i),
         NEW p \in Players, NEW j \in Items, trade[p].item = j, trade'[p].item = j
  PROVE  Kept(j)
<1>1. PICK d \in Destinations(r, i) \ {where[i]} :
         /\ where' = [where EXCEPT ![i] = d]
         /\ CloseTrades(Disturbed(i) \cup Filled(d))
  BY DEF MoveItem
<1>2. Disturbed(i) \cup Filled(d) \in SUBSET Players
  BY DisturbedArePlayers, FilledArePlayers
<1>3. p \notin Disturbed(i) /\ p \notin Filled(d)
  BY <1>1, <1>2, Surviving
<1>4. where'[j] = where[j] /\ Top(j)' = Top(j) /\ where[i] # j
  BY <1>1, <1>3, Untouched, UntouchedStays
<1>5. d # j
  <2> SUFFICES ASSUME d = j PROVE FALSE
    OBVIOUS
  <2>1. place[r] \in Places
    BY DEF MoveItem, Online
  <2>2. j \in Bags /\ j \notin Players
    BY <2>1, PlacesAssumption DEF Destinations
  <2>3. Top(j) \in {p, place[p]} /\ place[p] \in Places
    BY Offering
  <2>4. Spot(j) = place[p]
    BY <2>3, PlacesAssumption DEF Spot
  <2> QED BY <1>3, <2>2, <2>4 DEF Filled, Told
<1>6. \A x \in Items : where'[x] = j <=> where[x] = j
  BY <1>1, <1>4, <1>5 DEF IInv, TypeOK
<1> QED BY <1>4, <1>6 DEF Kept, Content, Holds

LEMMA RemoveItemKeepsOffers ==
  ASSUME IInv, NEW i \in Items, RemoveItem(i),
         NEW p \in Players, NEW j \in Items, trade[p].item = j, trade'[p].item = j
  PROVE  Kept(j)
<1>1. where' = [where EXCEPT ![i] = Gone] /\ CloseTrades(Disturbed(i))
  BY DEF RemoveItem
<1>2. p \notin Disturbed(i)
  BY <1>1, DisturbedArePlayers, Surviving
<1>3. where'[j] = where[j] /\ Top(j)' = Top(j) /\ where[i] # j
  BY <1>1, <1>2, Untouched, UntouchedStays
<1>4. \A x \in Items : where'[x] = j <=> where[x] = j
  BY <1>1, <1>3, PlacesAssumption DEF IInv, TypeOK
<1> QED BY <1>3, <1>4 DEF Kept, Content, Holds

LEMMA ExchangeKeepsOffers ==
  ASSUME IInv, NEW r \in Players, Exchange(r),
         NEW p \in Players, NEW j \in Items, trade[p].item = j, trade'[p].item = j
  PROVE  Kept(j)
<1>1. CloseTrades({r})
  BY DEF Exchange
<1>2. p \notin WithPartners({r})
  BY <1>1, Surviving
<1> QED BY <1>2, ExchangeSpares DEF Kept

(* What both have been shown is what is exchanged: no offer is moved,        *)
(* changed, filled or emptied while it stands, by any player's actions and   *)
(* in any order (player.cpp:1390-1414, 1800-1917).                           *)
THEOREM OfferIsKeptHolds == Spec => OfferIsKept
<1>1. ASSUME IInv, [Next]_vars
      PROVE  [\A p \in Players, i \in Items :
                trade[p].item = i /\ trade'[p].item = i =>
                  where'[i] = where[i] /\ Top(i)' = Top(i) /\ Content(i)' = Content(i)]_vars
  <2> SUFFICES ASSUME Next, NEW p \in Players, NEW j \in Items,
                      trade[p].item = j, trade'[p].item = j
               PROVE  Kept(j)
    BY <1>1 DEF Kept
  <2>1. CASE where' = where
    BY <2>1 DEF Kept, Top, Content, Holds
  <2>2. ASSUME NEW r \in Players,
               \/ Login(r) \/ Logout(r) \/ Walk(r) \/ AcceptTrade(r) \/ CloseTrade(r)
               \/ \E q \in Players, i \in Items : RequestTrade(r, q, i)
        PROVE  Kept(j)
    BY <2>1, <2>2 DEF Login, Logout, Walk, AcceptTrade, CloseTrade, RequestTrade
  <2>3. ASSUME NEW r \in Players, Exchange(r)
        PROVE  Kept(j)
    BY <1>1, <2>3, ExchangeKeepsOffers
  <2>4. ASSUME NEW r \in Players, NEW i \in Items, MoveItem(r, i)
        PROVE  Kept(j)
    BY <1>1, <2>4, MoveItemKeepsOffers
  <2>5. ASSUME NEW i \in Items, RemoveItem(i)
        PROVE  Kept(j)
    BY <1>1, <2>5, RemoveItemKeepsOffers
  <2> QED BY <2>2, <2>3, <2>4, <2>5 DEF Next
<1> QED BY <1>1, Invariance, PTL DEF Spec, OfferIsKept

-----------------------------------------------------------------------------
(* The exchange, where nothing stacks.                                       *)

(* Nobody but its owner puts an item into somebody else's hands, and its     *)
(* owner only drops it.                                                      *)
LEMMA MovesStayAway ==
  ASSUME IInv, NEW r \in Players, NEW x \in Items, MoveItem(r, x),
         NEW k \in Items, NEW o \in Players, Top(k) = o, NEW s \in Players, s # o
  PROVE  Top(k)' # s
<1>1. PICK d \in Destinations(r, x) : where' = [where EXCEPT ![x] = d]
  BY DEF MoveItem
<1>2. place[r] \in Places /\ Top(x) \in {r, place[r]}
  BY DEF MoveItem, Online, Reaches
<1>3. CASE Top(x) = o
  <2>1. r = o
    BY <1>2, <1>3, PlacesAssumption
  <2>2. d \notin Bags => d # s
    BY <1>2, <2>1, PlacesAssumption, ItemsAssumption DEF Destinations
  <2>3. d \in Bags => d # x /\ where[d] # s /\ x \notin Bags
    <3> SUFFICES ASSUME d \in Bags PROVE d # x /\ where[d] # s /\ x \notin Bags
      OBVIOUS
    <3>1. x \notin Bags /\ Reaches(r, d)
      BY <1>2, PlacesAssumption, ItemsAssumption DEF Destinations
    <3>2. Top(d) = where[d]
      BY ItemsAssumption, TopFacts
    <3> QED BY <1>2, <2>1, <3>1, <3>2, PlacesAssumption DEF Reaches
  <2>4. CASE k = x
    <3>1. where'[k] = d
      BY <1>1, <2>4 DEF IInv, TypeOK
    <3>2. CASE d \in Bags
      <4>1. where'[d] = where[d]
        BY <1>1, <2>3, <3>2, ItemsAssumption DEF IInv, TypeOK
      <4> QED BY <2>3, <3>1, <3>2, <4>1 DEF Top
    <3>3. CASE d \notin Bags
      BY <2>2, <3>1, <3>3 DEF Top
    <3> QED BY <3>2, <3>3
  <2>5. CASE k # x
    <3>1. where'[k] = where[k]
      BY <1>1, <2>5 DEF IInv, TypeOK
    <3>2. CASE where[k] = x /\ x \in Bags
      <4>1. where'[x] = d
        BY <1>1 DEF IInv, TypeOK
      <4> QED BY <2>2, <2>3, <3>1, <3>2, <4>1 DEF Top
    <3>3. CASE where[k] \in Bags /\ where[k] # x
      <4>1. where'[where[k]] = where[where[k]]
        BY <1>1, <3>3, ItemsAssumption DEF IInv, TypeOK
      <4> QED BY <3>1, <3>3, <4>1 DEF Top
    <3>4. CASE where[k] \notin Bags
      BY <3>1, <3>4 DEF Top
    <3> QED BY <3>2, <3>3, <3>4
  <2> QED BY <2>4, <2>5
<1>4. CASE Top(x) # o
  <2>1. k # x
    BY <1>4
  <2>2. where[k] # x
    <3> SUFFICES ASSUME where[k] = x PROVE FALSE
      OBVIOUS
    <3>1. x \in Bags
      BY PlacesAssumption DEF IInv, TypeOK
    <3> QED BY <1>4, <3>1, TopFacts
  <2>3. where'[k] = where[k]
    BY <1>1, <2>1 DEF IInv, TypeOK
  <2>4. CASE where[k] \in Bags
    <3>1. where'[where[k]] = where[where[k]]
      BY <1>1, <2>2, <2>4, ItemsAssumption DEF IInv, TypeOK
    <3> QED BY <2>3, <2>4, <3>1 DEF Top
  <2>5. CASE where[k] \notin Bags
    BY <2>3, <2>5 DEF Top
  <2> QED BY <2>4, <2>5
<1> QED BY <1>3, <1>4

LEMMA RemovalsStayAway ==
  ASSUME IInv, NEW x \in Items, RemoveItem(x),
         NEW k \in Items, NEW o \in Players, Top(k) = o, NEW s \in Players, s # o
  PROVE  Top(k)' # s
<1>1. where' = [where EXCEPT ![x] = Gone]
  BY DEF RemoveItem
<1>2. where'[k] = Gone \/ (where'[k] = where[k] /\ k # x)
  BY <1>1 DEF IInv, TypeOK
<1>3. Gone \notin Bags /\ Gone # s
  BY PlacesAssumption, ItemsAssumption
<1>4. CASE where'[k] = Gone
  BY <1>3, <1>4 DEF Top
<1>5. CASE where'[k] = where[k] /\ where[k] \in Bags
  <2>1. where'[where[k]] \in {where[where[k]], Gone}
    BY <1>1, <1>5, ItemsAssumption DEF IInv, TypeOK
  <2> QED BY <1>3, <1>5, <2>1 DEF Top
<1>6. CASE where'[k] = where[k] /\ where[k] \notin Bags
  BY <1>6 DEF Top
<1> QED BY <1>2, <1>4, <1>5, <1>6

(* An item that comes to rest with a player has that player for its top.     *)
LEMMA RestsWithOwner ==
  ASSUME IInv, NEW q \in Players, NEW i \in Items, NEW j \in Items, trade[q].item = j,
         NEW d \in Rests(q, i), where'[i] = d,
         \A k \in Items \ {i, j} : where'[k] = where[k]
  PROVE  Top(i)' = q
<1>1. CASE d \in Bags
  <2>1. i \notin Bags /\ d # j /\ where[d] = q /\ d \in Items
    BY <1>1, PlacesAssumption, ItemsAssumption DEF Rests
  <2>2. where'[d] = q
    BY <1>1, <2>1
  <2> QED BY <1>1, <2>2 DEF Top
<1>2. CASE d \notin Bags
  BY <1>2 DEF Rests, Top
<1> QED BY <1>1, <1>2

LEMMA ExchangeOfBoth ==
  ASSUME IInv, Stackable = {}, NEW p \in Players, Exchange(p),
         NEW q \in Players, q = trade[p].partner,
         NEW i \in Items, trade[p].item = i, Top(i) = p,
         NEW j \in Items, trade[q].item = j, Top(j) = q
  PROVE  Top(i)' = q <=> Top(j)' = p
<1>1. p # q /\ i # j
  <2>1. q \in Players \ {p}
    BY ExchangeFacts
  <2> QED BY <2>1
<1>2. PICK roomQ \in Rooms, roomP \in Rooms :
         IF BothPass(i, j, roomQ, roomP)
         THEN \E roomNow \in RoomAfter(p, i, roomP) :
                 \E w \in Given(where, q, i, roomQ) : where' \in Given(w, p, j, roomNow)
         ELSE UNCHANGED where
  BY DEF Exchange
<1>3. CASE ~ BothPass(i, j, roomQ, roomP)
  <2>1. where' = where
    BY <1>2, <1>3
  <2>2. Top(i)' = Top(i) /\ Top(j)' = Top(j)
    BY <2>1 DEF Top
  <2> QED BY <1>1, <2>2
<1>4. CASE BothPass(i, j, roomQ, roomP)
  <2>1. i # NoItem /\ j # NoItem
    BY ItemsAssumption
  <2>2. roomQ = "place" /\ roomP = "place"
    BY <1>4 DEF BothPass, Passes
  <2>3. RoomAfter(p, i, roomP) = {"place"}
    BY <2>2 DEF RoomAfter
  <2>4. PICK w \in Given(where, q, i, roomQ) : where' \in Given(w, p, j, "place")
    BY <1>2, <1>4, <2>3
  <2>5. PICK d \in Rests(q, i) : w = [where EXCEPT ![i] = d]
    BY <2>1, <2>2, <2>4 DEF Given, Moves
  <2>6. PICK e \in Rests(p, j) : where' = [w EXCEPT ![j] = e]
    BY <2>1, <2>4 DEF Given, Moves
  <2>7. where \in [Items -> Homes]
    BY DEF IInv, TypeOK, Homes
  <2>8. w \in [Items -> Homes] /\ w[i] = d /\ \A k \in Items \ {i} : w[k] = where[k]
    BY <2>5, <2>7, RestsFacts
  <2>9. /\ where'[i] = d /\ where'[j] = e
        /\ \A k \in Items \ {i, j} : where'[k] = where[k]
    BY <1>1, <2>6, <2>8
  <2>10. Top(i)' = q
    BY <2>9, RestsWithOwner
  <2>11. Top(j)' = p
    <3>1. \A k \in Items \ {j, i} : where'[k] = where[k]
      BY <2>9
    <3> QED BY <2>9, <3>1, RestsWithOwner
  <2> QED BY <2>10, <2>11
<1> QED BY <1>3, <1>4

(* Where nothing stacks, the exchange is of both items or of none, for any   *)
(* number of players and items and whatever else they do: the answers of     *)
(* internalMoveItem that playerAcceptTrade does not look at are those its    *)
(* tests have foretold (game.cpp:3256-3269).                                 *)
THEOREM BothOrNoneWithoutStacks == Stackable = {} => (Spec => BothOrNone)
<1> SUFFICES ASSUME Stackable = {} PROVE Spec => BothOrNone
  OBVIOUS
<1>1. ASSUME IInv, [Next]_vars
      PROVE  [\A p, q \in Players, i, j \in Items :
                /\ trade[p].partner = q
                /\ trade[p].item = i /\ Top(i) = p
                /\ trade[q].item = j /\ Top(j) = q
                => (Top(i)' = q <=> Top(j)' = p)]_vars
  <2> SUFFICES ASSUME Next, NEW p \in Players, NEW q \in Players,
                      NEW i \in Items, NEW j \in Items,
                      trade[p].partner = q,
                      trade[p].item = i, Top(i) = p, trade[q].item = j, Top(j) = q
               PROVE  Top(i)' = q <=> Top(j)' = p
    BY <1>1
  <2>1. p # q /\ trade[q].partner = p
    BY <1>1, Partners, PlacesAssumption
  <2>2. CASE where' = where
    <3>1. Top(i)' = Top(i) /\ Top(j)' = Top(j)
      BY <2>2 DEF Top
    <3> QED BY <2>1, <3>1
  <2>3. ASSUME NEW r \in Players,
               \/ Login(r) \/ Logout(r) \/ Walk(r) \/ AcceptTrade(r) \/ CloseTrade(r)
               \/ \E s \in Players, x \in Items : RequestTrade(r, s, x)
        PROVE  Top(i)' = q <=> Top(j)' = p
    BY <2>2, <2>3 DEF Login, Logout, Walk, AcceptTrade, CloseTrade, RequestTrade
  <2>4. ASSUME NEW r \in Players, Exchange(r)
        PROVE  Top(i)' = q <=> Top(j)' = p
    <3>1. CASE r = p
      BY <1>1, <2>4, <3>1, ExchangeOfBoth
    <3>2. CASE r = q
      BY <1>1, <2>1, <2>4, <3>2, ExchangeOfBoth
    <3>3. CASE r \notin {p, q}
      <4>1. PICK s \in Players \ {r} : trade[s].partner = r /\ WithPartners({r}) = {r, s}
        BY <1>1, <2>4, ExchangeFacts
      <4>2. s # p /\ s # q
        BY <2>1, <3>3, <4>1
      <4>3. Top(i)' = Top(i) /\ Top(j)' = Top(j)
        BY <1>1, <2>4, <3>3, <4>1, <4>2, ExchangeSpares
      <4> QED BY <2>1, <4>3
    <3> QED BY <3>1, <3>2, <3>3
  <2>5. ASSUME NEW r \in Players, NEW x \in Items, MoveItem(r, x)
        PROVE  Top(i)' = q <=> Top(j)' = p
    BY <1>1, <2>1, <2>5, MovesStayAway
  <2>6. ASSUME NEW x \in Items, RemoveItem(x)
        PROVE  Top(i)' = q <=> Top(j)' = p
    BY <1>1, <2>1, <2>6, RemovalsStayAway
  <2> QED BY <2>3, <2>4, <2>5, <2>6 DEF Next
<1> QED BY <1>1, Invariance, PTL DEF Spec, BothOrNone
-----------------------------------------------------------------------------
-----------------------------------------------------------------------------
(* Parties (module Party).                                                   *)


Records == [leader  : Characters \cup {Nobody},
            members : SUBSET Characters,
            invited : SUBSET Characters,
            sharing : {"off", "idle", "on"},
            points  : SUBSET Characters]

Sound(r) ==
    /\ r.leader \in Characters
    /\ ~ CanDisband(r)
    /\ r.leader \notin r.members
    /\ Named(r) \cap r.invited = {}
    /\ r.points \subseteq Named(r)
    /\ r.sharing = "on" => MayShare(r)

Good(r) == r = Freed \/ Sound(r)

AllGood == \A a \in Parties : Good(parties[a])
Mirrored ==
    \A p \in Characters, a \in Parties :
        /\ party[p] = a <=> p \in Named(parties[a])
        /\ a \in invitations[p] <=> p \in parties[a].invited
Present ==
    \A a \in Parties : Live(a) => Named(parties[a]) \cup parties[a].invited \subseteq online
PointsEarned == \A a \in Parties : parties[a].points \subseteq fought
ChannelsPresent == \A a \in Parties : channel[a] \subseteq online

PartyIInv == PartyTypeOK /\ AllGood /\ Mirrored /\ Present /\ PointsEarned /\ ChannelsPresent

-----------------------------------------------------------------------------
(* The operators on records.                                                 *)

LEMMA FreedIsRecord == Freed \in Records /\ Named(Freed) = {Nobody} /\ Freed.invited = {}
                       /\ Freed.points = {} /\ Freed.leader = Nobody
                       /\ Freed.members = {} /\ Freed.sharing = "off"
BY DEF Freed, Records, Named

LEMMA SoundIsLive ==
  ASSUME NEW r, Sound(r)
  PROVE  r # Freed /\ r.leader # Nobody
BY PartyAssumption, FreedIsRecord DEF Sound

(* Party::updateSharedExperience changes nothing but what is shared.         *)
LEMMA UpdatedKeeps ==
  ASSUME NEW r \in Records, NEW s \in Updated(r)
  PROVE  /\ s \in Records
         /\ s.leader = r.leader /\ s.members = r.members
         /\ s.invited = r.invited /\ s.points = r.points
         /\ s.sharing = "on" => MayShare(s)
<1>1. CASE r.sharing = "off"
  BY <1>1 DEF Updated
<1>2. CASE r.sharing # "off"
  <2>1. PICK x \in Granted(r) : s = [r EXCEPT !.sharing = x]
    BY <1>2 DEF Updated
  <2>2. x \in {"idle", "on"} /\ (x = "on" => MayShare(r))
    BY DEF Granted
  <2>3. /\ s \in Records
        /\ s.leader = r.leader /\ s.members = r.members
        /\ s.invited = r.invited /\ s.points = r.points
        /\ s.sharing = x
    BY <2>1, <2>2 DEF Records
  <2> QED BY <2>2, <2>3 DEF MayShare
<1> QED BY <1>1, <1>2

(* A party that is sound but for what is shared is sound once updated.       *)
LEMMA UpdatedIsSound ==
  ASSUME NEW r \in Records, NEW s \in Updated(r),
         r.leader \in Characters, ~ CanDisband(r), r.leader \notin r.members,
         Named(r) \cap r.invited = {}, r.points \subseteq Named(r)
  PROVE  Sound(s) /\ Named(s) = Named(r)
BY UpdatedKeeps DEF Sound, CanDisband, Named

LEMMA WithdrawnKeeps ==
  ASSUME NEW r \in Records, Sound(r), NEW p \in Characters
  PROVE  LET s == Withdrawn(r, p) IN
         /\ s \in Records /\ Good(s)
         /\ s.invited = r.invited \ {p}
         /\ s.points \subseteq r.points
         /\ s = Freed \/ Named(s) = Named(r)
<1> DEFINE t == [r EXCEPT !.invited = @ \ {p}]
<1>1. /\ t \in Records
      /\ t.leader = r.leader /\ t.members = r.members /\ t.points = r.points
      /\ t.sharing = r.sharing /\ t.invited = r.invited \ {p}
  BY DEF Records
<1>2. CASE CanDisband(t)
  <2>1. Withdrawn(r, p) = Freed
    BY <1>2 DEF Withdrawn
  <2>2. r.invited \ {p} = {}
    BY <1>1, <1>2 DEF CanDisband
  <2> QED BY <2>1, <2>2, FreedIsRecord DEF Good
<1>3. CASE ~ CanDisband(t)
  <2>1. Withdrawn(r, p) = t
    BY <1>3 DEF Withdrawn
  <2>2. Named(t) = Named(r) /\ (MayShare(r) => MayShare(t))
    BY <1>1 DEF Named, MayShare
  <2>3. Sound(t)
    BY <1>1, <1>3, <2>2 DEF Sound
  <2> QED BY <1>1, <2>1, <2>2, <2>3 DEF Good
<1> QED BY <1>2, <1>3

(* Party::leave: the party is gone, or it is sound without p.                *)
LEMMA LeftKeeps ==
  ASSUME NEW r \in Records, Sound(r), NEW p \in Named(r), NEW s \in Left(r, p)
  PROVE  \/ s = Freed
         \/ /\ s \in Records /\ Sound(s)
            /\ Named(s) = Named(r) \ {p}
            /\ s.invited = r.invited
            /\ s.points \subseteq r.points
<1>0. /\ p \in Characters /\ p \notin r.invited
      /\ r.leader \in Characters /\ r.members \subseteq Characters
      /\ r.invited \subseteq Characters /\ r.points \subseteq Characters
  BY DEF Records, Sound, Named
<1> DEFINE ts == IF r.leader = p
                 THEN {Without(Passed(r, q), p) : q \in r.members}
                 ELSE {Without(r, p)}
<1>1. CASE MissingLeader(r, p)
  BY <1>1 DEF Left
<1>2. CASE ~ MissingLeader(r, p)
  <2>1. PICK t \in ts : s \in IF CanDisband(t) THEN {Freed} ELSE Updated(t)
    BY <1>2 DEF Left
  <2>2. /\ t \in Records
        /\ t.leader \in Characters /\ t.leader \notin t.members
        /\ Named(t) = Named(r) \ {p}
        /\ t.invited = r.invited
        /\ t.points = r.points \ {p}
    <3>1. CASE r.leader = p
      <4>1. PICK q \in r.members : t = Without(Passed(r, q), p)
        BY <3>1
      <4>2. /\ Passed(r, q) \in Records
            /\ Passed(r, q).leader = q
            /\ Passed(r, q).members = (r.members \ {q}) \cup {p}
            /\ Passed(r, q).invited = r.invited /\ Passed(r, q).points = r.points
        BY <1>0, <3>1, <4>1 DEF Passed, Records
      <4>3. /\ t \in Records /\ t.leader = q
            /\ t.members = ((r.members \ {q}) \cup {p}) \ {p}
            /\ t.invited = r.invited \ {p}
            /\ t.points = r.points \ {p}
        BY <4>1, <4>2 DEF Without, Records
      <4>4. q # p /\ p \notin r.members
        BY <3>1 DEF Sound
      <4>5. t.members = r.members \ {q}
        BY <4>3, <4>4
      <4>6. Named(t) = Named(r) \ {p}
        BY <3>1, <4>3, <4>4, <4>5 DEF Named
      <4> QED BY <1>0, <4>3, <4>5, <4>6
    <3>2. CASE r.leader # p
      <4>1. t = Without(r, p)
        BY <3>2
      <4>2. /\ t \in Records /\ t.leader = r.leader
            /\ t.members = r.members \ {p}
            /\ t.invited = r.invited \ {p}
            /\ t.points = r.points \ {p}
        BY <4>1 DEF Without, Records
      <4>3. Named(t) = Named(r) \ {p}
        BY <3>2, <4>2 DEF Named
      <4> QED BY <1>0, <4>2, <4>3 DEF Sound
    <3> QED BY <3>1, <3>2
  <2>3. CASE CanDisband(t)
    BY <2>1, <2>3
  <2>4. CASE ~ CanDisband(t)
    <3>1. s \in Updated(t)
      BY <2>1, <2>4
    <3>2. Named(t) \cap t.invited = {} /\ t.points \subseteq Named(t)
      BY <2>2 DEF Sound
    <3>3. Sound(s) /\ Named(s) = Named(t)
      BY <2>2, <2>4, <3>1, <3>2, UpdatedIsSound
    <3>4. s \in Records /\ s.invited = t.invited /\ s.points = t.points
      BY <2>2, <3>1, UpdatedKeeps
    <3> QED BY <2>2, <3>3, <3>4
  <2> QED BY <2>3, <2>4
<1> QED BY <1>1, <1>2

-----------------------------------------------------------------------------
(* What the leaving of the players L may make of the records.                *)
Leaves(ps, L) ==
    /\ L \subseteq Characters
    /\ ps \in [Parties -> Records]
    /\ \A a \in Parties :
          /\ Good(ps[a])
          /\ ps[a].invited \subseteq parties[a].invited
          /\ ps[a].points \subseteq parties[a].points
          /\ ~ Live(a) => ps[a] = Freed
          /\ ps[a] = Freed \/ Named(ps[a]) = Named(parties[a]) \ L

(* Party::disband leaves no pointer to a party it has deleted, and takes     *)
(* none away from another party.                                             *)
LEMMA SettleKeeps ==
  ASSUME PartyIInv, NEW ps, NEW L, NEW closed, Leaves(ps, L), Settle(ps, L, closed),
         UNCHANGED opened, online' \subseteq Characters
  PROVE  /\ PartyTypeOK' /\ AllGood' /\ Mirrored' /\ PointsEarned'
         /\ \A a \in Parties : channel'[a] \subseteq channel[a]
<1> DEFINE D == {a \in Parties : Live(a) /\ ps[a] = Freed}
           out == L \cup UNION {Named(parties[a]) : a \in D}
<1>1. /\ parties' = ps
      /\ party' = [p \in Characters |-> IF p \in out THEN NoParty ELSE party[p]]
      /\ fought' = fought \ out
      /\ invitations' = [p \in Characters |->
              {a \in invitations[p] : p \in parties[a].invited => p \in ps[a].invited}]
  BY DEF Settle
<1>2. PICK told \in SUBSET (out \ L) :
         channel' = [a \in Parties |->
             channel[a] \ (   {p \in told : party[p] = a}
                         \cup (IF a \in closed THEN L ELSE {}))]
  BY DEF Settle
<1>3. /\ channel' \in [Parties -> SUBSET Characters]
      /\ \A a \in Parties : channel'[a] \subseteq channel[a]
  BY <1>2 DEF PartyIInv, PartyTypeOK
<1>4. PartyTypeOK'
  <2>1. party' \in [Characters -> Parties \cup {NoParty}]
    BY <1>1 DEF PartyIInv, PartyTypeOK
  <2>2. invitations' \in [Characters -> SUBSET Parties]
    BY <1>1 DEF PartyIInv, PartyTypeOK
  <2>3. parties' \in [Parties -> Records]
    BY <1>1 DEF Leaves
  <2>4. fought' \subseteq Characters /\ opened' \subseteq Parties /\ online' \subseteq Characters
    BY <1>1 DEF PartyIInv, PartyTypeOK
  <2> QED BY <1>3, <2>1, <2>2, <2>3, <2>4 DEF PartyTypeOK, Records
<1>5. AllGood'
  BY <1>1 DEF AllGood, Leaves
<1>6. ASSUME NEW a \in Parties
      PROVE  \/ a \in D
             \/ ps[a] = Freed /\ parties[a] = Freed
             \/ Named(ps[a]) = Named(parties[a]) \ L
  <2>1. CASE ~ Live(a)
    BY <2>1, SoundIsLive DEF Leaves, PartyIInv, AllGood, Good, Live
  <2>2. CASE Live(a)
    BY <2>2 DEF Leaves
  <2> QED BY <2>1, <2>2
(* A player out of its party is named by no party that stays.                *)
<1>7. ASSUME NEW p \in Characters, NEW a \in Parties, p \in Named(ps[a])
      PROVE  p \notin out /\ p \in Named(parties[a])
  <2>1. ps[a] # Freed
    BY <1>7, FreedIsRecord, PartyAssumption
  <2>2. Named(ps[a]) = Named(parties[a]) \ L /\ a \notin D
    BY <2>1 DEF Leaves
  <2>3. party[p] = a
    BY <1>7, <2>2 DEF PartyIInv, Mirrored
  <2>4. ASSUME NEW b \in D, p \in Named(parties[b]) PROVE FALSE
    <3>1. party[p] = b
      BY <2>4 DEF PartyIInv, Mirrored
    <3> QED BY <2>2, <2>3, <3>1
  <2>5. p \notin L /\ p \in Named(parties[a])
    BY <1>7, <2>2
  <2> QED BY <2>4, <2>5
<1>8. ASSUME NEW p \in Characters, NEW a \in Parties
      PROVE  party'[p] = a <=> p \in Named(parties'[a])
  <2>1. CASE p \in out
    <3>1. party'[p] = NoParty
      BY <1>1, <2>1
    <3>2. p \notin Named(ps[a])
      BY <1>7, <2>1
    <3> QED BY <1>1, <3>1, <3>2, PartyAssumption
  <2>2. CASE p \notin out
    <3>1. party'[p] = party[p]
      BY <1>1, <2>2
    <3>2. party[p] = a <=> p \in Named(parties[a])
      BY DEF PartyIInv, Mirrored
    <3>3. p \in Named(parties[a]) => p \in Named(ps[a])
      <4>1. a \in D => p \notin Named(parties[a])
        BY <2>2
      <4> QED BY <1>6, <2>2, <4>1
    <3> QED BY <1>1, <1>7, <3>1, <3>2, <3>3
  <2> QED BY <2>1, <2>2
<1>9. ASSUME NEW p \in Characters, NEW a \in Parties
      PROVE  a \in invitations'[p] <=> p \in parties'[a].invited
  <2>1. a \in invitations'[p] <=>
           a \in invitations[p] /\ (p \in parties[a].invited => p \in ps[a].invited)
    BY <1>1
  <2>2. a \in invitations[p] <=> p \in parties[a].invited
    BY DEF PartyIInv, Mirrored
  <2>3. ps[a].invited \subseteq parties[a].invited
    BY DEF Leaves
  <2> QED BY <1>1, <2>1, <2>2, <2>3
<1>10. Mirrored'
  BY <1>8, <1>9 DEF Mirrored
<1>11. PointsEarned'
  <2> SUFFICES ASSUME NEW a \in Parties, NEW p \in ps[a].points
               PROVE  p \in fought \ out
    BY <1>1 DEF PointsEarned
  <2>1. ps[a] # Freed
    BY FreedIsRecord
  <2>2. Sound(ps[a]) /\ ps[a] \in Records
    BY <2>1 DEF Leaves, Good
  <2>3. p \in Named(ps[a]) /\ p \in Characters
    BY <2>2 DEF Sound, Records
  <2>4. p \in fought
    BY DEF Leaves, PartyIInv, PointsEarned
  <2> QED BY <1>7, <2>3, <2>4
<1> QED BY <1>3, <1>4, <1>5, <1>10, <1>11

-----------------------------------------------------------------------------
(* Steps that change one party and none of its names.                        *)

LEMMA SameNamesKeep ==
  ASSUME PartyIInv, NEW a \in Parties, NEW s \in Records,
         Sound(s), Named(s) = Named(parties[a]), s.invited = parties[a].invited,
         Live(a), s.points \subseteq fought',
         parties' = [parties EXCEPT ![a] = s],
         fought \subseteq fought', fought' \subseteq Characters,
         UNCHANGED <<online, party, invitations, channel, opened>>
  PROVE  PartyIInv'
<1>1. /\ parties' \in [Parties -> Records]
      /\ parties'[a] = s
      /\ \A b \in Parties \ {a} : parties'[b] = parties[b]
  BY DEF PartyIInv, PartyTypeOK, Records
<1>2. PartyTypeOK'
  BY <1>1 DEF PartyIInv, PartyTypeOK, Records
<1>3. AllGood'
  BY <1>1 DEF PartyIInv, AllGood, Good
<1>4. \A b \in Parties : Named(parties'[b]) = Named(parties[b])
                         /\ parties'[b].invited = parties[b].invited
  BY <1>1
<1>5. Mirrored'
  BY <1>4 DEF PartyIInv, Mirrored
<1>6. Present'
  <2> SUFFICES ASSUME NEW b \in Parties, Live(b)'
               PROVE  (Named(parties[b]) \cup parties[b].invited \subseteq online)'
    BY DEF Present
  <2>1. Live(b)
    BY <1>1 DEF Live
  <2> QED BY <1>4, <2>1 DEF PartyIInv, Present
<1>7. PointsEarned'
  BY <1>1 DEF PartyIInv, PointsEarned
<1>8. ChannelsPresent'
  BY DEF PartyIInv, ChannelsPresent
<1> QED BY <1>2, <1>3, <1>5, <1>6, <1>7, <1>8 DEF PartyIInv

(* The party of a player is live, sound and names it.                        *)
LEMMA OwnParty ==
  ASSUME PartyIInv, NEW p \in Characters, party[p] # NoParty
  PROVE  LET a == party[p] IN
         /\ a \in Parties /\ Live(a)
         /\ parties[a] \in Records /\ Sound(parties[a])
         /\ p \in Named(parties[a])
         /\ parties[a].points \subseteq fought
<1> DEFINE a == party[p]
<1>1. a \in Parties /\ parties[a] \in Records
  BY DEF PartyIInv, PartyTypeOK, Records
<1>2. p \in Named(parties[a])
  BY <1>1 DEF PartyIInv, Mirrored
<1>3. parties[a] # Freed
  BY <1>2, FreedIsRecord, PartyAssumption
<1>4. Sound(parties[a])
  BY <1>1, <1>3 DEF PartyIInv, AllGood, Good
<1>5. Live(a) /\ parties[a].points \subseteq fought
  BY <1>1, <1>4, SoundIsLive DEF Live, PartyIInv, PointsEarned
<1> QED BY <1>1, <1>2, <1>4, <1>5

LEMMA PartyLoginKeeps ==
  ASSUME PartyIInv, NEW p \in Characters, LogIn(p)
  PROVE  PartyIInv'
<1>1. UNCHANGED <<party, invitations, parties, channel, opened, fought>> /\ online' = online \cup {p}
  BY DEF LogIn
<1>2. PartyTypeOK'
  BY <1>1 DEF PartyIInv, PartyTypeOK
<1>3. AllGood' /\ Mirrored' /\ PointsEarned'
  BY <1>1 DEF PartyIInv, AllGood, Mirrored, PointsEarned
<1>4. Present'
  BY <1>1 DEF PartyIInv, Present, Live
<1>5. ChannelsPresent'
  BY <1>1 DEF PartyIInv, ChannelsPresent
<1> QED BY <1>2, <1>3, <1>4, <1>5 DEF PartyIInv

LEMMA PassKeeps ==
  ASSUME PartyIInv, NEW p \in Characters, NEW q \in Characters, Pass(p, q)
  PROVE  PartyIInv'
<1> DEFINE a == party[p]
           r == parties[a]
<1>1. party[p] # NoParty /\ r.leader = p /\ q # p /\ party[q] = a
  BY DEF Pass, Leads
<1>2. a \in Parties /\ Live(a) /\ r \in Records /\ Sound(r) /\ r.points \subseteq fought
  BY <1>1, OwnParty
<1>3. q \in r.members
  BY <1>1, <1>2 DEF PartyIInv, Mirrored, Named
<1>4. PICK s \in Updated(Passed(r, q)) : parties' = [parties EXCEPT ![a] = s]
  BY DEF Pass
<1>5. /\ Passed(r, q) \in Records
      /\ Passed(r, q).leader = q
      /\ Passed(r, q).members = (r.members \ {q}) \cup {p}
      /\ Passed(r, q).invited = r.invited /\ Passed(r, q).points = r.points
  BY <1>1, <1>2, <1>3 DEF Passed, Records
<1>6. /\ Named(Passed(r, q)) = Named(r)
      /\ ~ CanDisband(Passed(r, q))
      /\ q \notin Passed(r, q).members
  BY <1>1, <1>3, <1>5 DEF Named, CanDisband
<1>7. Sound(s) /\ Named(s) = Named(r)
  BY <1>2, <1>5, <1>6, UpdatedIsSound DEF Sound
<1>8. s \in Records /\ s.invited = r.invited /\ s.points = r.points
  BY <1>5, UpdatedKeeps
<1>9. fought' = fought /\ fought \subseteq Characters
      /\ UNCHANGED <<online, party, invitations, channel, opened>>
  BY DEF Pass, PartyIInv, PartyTypeOK
<1> QED BY <1>2, <1>4, <1>7, <1>8, <1>9, SameNamesKeep

LEMMA FightKeeps ==
  ASSUME PartyIInv, NEW p \in Characters, Fight(p)
  PROVE  PartyIInv'
<1> DEFINE a == party[p]
           r == parties[a]
           t == [r EXCEPT !.points = @ \cup {p}]
<1>1. /\ party[p] # NoParty
      /\ fought' = fought \cup {p}
      /\ UNCHANGED <<online, party, invitations, channel, opened>>
  BY DEF Fight
<1>2. /\ a \in Parties /\ Live(a) /\ r \in Records /\ Sound(r)
      /\ p \in Named(r) /\ r.points \subseteq fought
  BY <1>1, OwnParty
<1>3. PICK s \in Updated(t) : parties' = [parties EXCEPT ![a] = s]
  BY DEF Fight
<1>4. /\ t \in Records /\ t.leader = r.leader /\ t.members = r.members
      /\ t.invited = r.invited /\ t.points = r.points \cup {p}
  BY <1>2 DEF Records
<1>5. /\ Named(t) = Named(r) /\ ~ CanDisband(t)
      /\ t.leader \in Characters /\ t.leader \notin t.members
      /\ Named(t) \cap t.invited = {} /\ t.points \subseteq Named(t)
  BY <1>2, <1>4 DEF Named, CanDisband, Sound
<1> HIDE DEF t
<1>6. Sound(s) /\ Named(s) = Named(r)
  BY <1>3, <1>4, <1>5, UpdatedIsSound
<1>7. s \in Records /\ s.invited = r.invited /\ s.points = r.points \cup {p}
  BY <1>3, <1>4, UpdatedKeeps
<1>8. fought' \subseteq Characters /\ s.points \subseteq fought'
  BY <1>1, <1>2, <1>7 DEF PartyIInv, PartyTypeOK
<1> QED BY <1>1, <1>2, <1>3, <1>6, <1>7, <1>8, SameNamesKeep

LEMMA RecheckKeeps ==
  ASSUME PartyIInv, NEW p \in Characters, Recheck(p)
  PROVE  PartyIInv'
<1> DEFINE a == party[p]
           r == parties[a]
<1>1. party[p] # NoParty /\ UNCHANGED <<online, party, invitations, channel, opened, fought>>
  BY DEF Recheck
<1>2. a \in Parties /\ Live(a) /\ r \in Records /\ Sound(r) /\ r.points \subseteq fought
  BY <1>1, OwnParty
<1>3. PICK s \in Updated(r) : parties' = [parties EXCEPT ![a] = s]
  BY DEF Recheck
<1>4. s \in Records /\ s.invited = r.invited /\ s.points = r.points
  BY <1>2, <1>3, UpdatedKeeps
<1>5. Sound(s) /\ Named(s) = Named(r)
  BY <1>2, <1>3, UpdatedIsSound DEF Sound
<1>6. fought' = fought /\ fought \subseteq Characters
  BY <1>1 DEF PartyIInv, PartyTypeOK
<1> QED BY <1>1, <1>2, <1>3, <1>4, <1>5, <1>6, SameNamesKeep

LEMMA SetSharedKeeps ==
  ASSUME PartyIInv, NEW p \in Characters, SetShared(p)
  PROVE  PartyIInv'
<1> DEFINE a == party[p]
           r == parties[a]
<1>1. party[p] # NoParty /\ UNCHANGED <<online, party, invitations, channel, opened, fought>>
  BY DEF SetShared, Leads
<1>2. a \in Parties /\ Live(a) /\ r \in Records /\ Sound(r) /\ r.points \subseteq fought
  BY <1>1, OwnParty
<1>3. PICK x \in IF r.sharing = "off" THEN Granted(r) ELSE {"off"} :
         parties' = [parties EXCEPT ![a].sharing = x]
  BY DEF SetShared
<1>4. x \in {"off", "idle", "on"} /\ (x = "on" => MayShare(r))
  BY <1>3 DEF Granted
<1> DEFINE s == [r EXCEPT !.sharing = x]
<1>5. /\ s \in Records /\ s.leader = r.leader /\ s.members = r.members
      /\ s.invited = r.invited /\ s.points = r.points /\ s.sharing = x
  BY <1>2, <1>4 DEF Records
<1>6. Named(s) = Named(r) /\ Sound(s)
  BY <1>2, <1>4, <1>5 DEF Named, Sound, CanDisband, MayShare
<1>7. parties' = [parties EXCEPT ![a] = s]
  BY <1>3
<1>8. fought' = fought /\ fought \subseteq Characters
  BY <1>1 DEF PartyIInv, PartyTypeOK
<1> HIDE DEF s
<1> QED BY <1>1, <1>2, <1>5, <1>6, <1>7, <1>8, SameNamesKeep

-----------------------------------------------------------------------------
(* Steps that add a name.                                                    *)

LEMMA InviteKeeps ==
  ASSUME PartyIInv, NEW p \in Characters, NEW q \in Characters, Invite(p, q)
  PROVE  PartyIInv'
<1>1. PICK a \in Parties :
        /\ IF party[p] = NoParty
           THEN /\ ~ Live(a)
                /\ parties' = [parties EXCEPT ![a] =
                                  [Freed EXCEPT !.leader = p, !.invited = {q}]]
           ELSE /\ a = party[p]
                /\ parties[a].leader = p /\ q \notin parties[a].invited
                /\ parties' = [parties EXCEPT ![a].invited = @ \cup {q}]
        /\ party' = [party EXCEPT ![p] = a]
        /\ invitations' = [invitations EXCEPT ![q] = @ \cup {a}]
  BY DEF Invite
<1>2. /\ p \in online /\ q \in online /\ p # q /\ party[q] = NoParty
      /\ UNCHANGED <<online, channel, opened, fought>>
  BY DEF Invite
<1> DEFINE r == parties[a]
<1>3. PICK s \in Records :
         /\ parties' = [parties EXCEPT ![a] = s]
         /\ s.leader = p /\ Sound(s)
         /\ \A x \in Characters : x \in Named(s) <=> (x = p \/ x \in Named(r))
         /\ s.invited = r.invited \cup {q}
         /\ s.points = r.points
         /\ Named(s) \cup s.invited \subseteq online
  <2>1. CASE party[p] = NoParty
    <3> DEFINE s == [Freed EXCEPT !.leader = p, !.invited = {q}]
    <3>1. r = Freed
      BY <1>1, <2>1, SoundIsLive DEF PartyIInv, AllGood, Good, Live
    <3>2. /\ s \in Records /\ s.leader = p /\ s.members = {} /\ s.invited = {q}
          /\ s.sharing = "off" /\ s.points = {}
      BY FreedIsRecord DEF Records
    <3>3. s \in Records /\ Named(s) = {p}
      BY <3>2 DEF Named
    <3>4. Sound(s)
      BY <1>2, <3>2, <3>3 DEF Sound, CanDisband
    <3>5. \A x \in Characters : x \notin Named(r)
      BY <3>1, FreedIsRecord, PartyAssumption
    <3>6. r.invited = {} /\ r.points = {}
      BY <3>1, FreedIsRecord
    <3>7. Named(s) \cup s.invited \subseteq online
      BY <1>2, <3>2, <3>3
    <3>8. parties' = [parties EXCEPT ![a] = s]
      BY <1>1, <2>1
    <3>9. s.leader = p /\ s.invited = {q} /\ s.points = {}
      BY <3>2
    <3> HIDE DEF s
    <3>10. /\ \A x \in Characters : x \in Named(s) <=> (x = p \/ x \in Named(r))
           /\ s.invited = r.invited \cup {q} /\ s.points = r.points
      BY <3>3, <3>5, <3>6, <3>9
    <3> QED BY <3>3, <3>4, <3>7, <3>8, <3>9, <3>10
  <2>2. CASE party[p] # NoParty
    <3> DEFINE s == [r EXCEPT !.invited = @ \cup {q}]
    <3>1. a = party[p] /\ r.leader = p /\ parties' = [parties EXCEPT ![a] = s]
      BY <1>1, <2>2
    <3>2. r \in Records /\ Sound(r) /\ p \in Named(r) /\ Live(a)
      BY <2>2, <3>1, OwnParty
    <3>3. /\ s \in Records /\ s.leader = p /\ s.members = r.members
          /\ s.invited = r.invited \cup {q} /\ s.points = r.points
          /\ s.sharing = r.sharing
      BY <3>1, <3>2 DEF Records
    <3>4. Named(s) = Named(r) /\ (MayShare(r) => MayShare(s))
      BY <3>1, <3>3 DEF Named, MayShare
    <3>5. q \notin Named(r)
      BY <1>2, <2>2, <3>1, PartyAssumption DEF PartyIInv, Mirrored
    <3>6. Sound(s)
      BY <3>2, <3>3, <3>4, <3>5 DEF Sound, CanDisband
    <3>7. Named(s) \cup s.invited \subseteq online
      BY <1>2, <3>2, <3>3, <3>4 DEF PartyIInv, Present
    <3> HIDE DEF s
    <3> QED BY <3>1, <3>2, <3>3, <3>4, <3>6, <3>7
  <2> QED BY <2>1, <2>2
<1>4. /\ parties'[a] = s
      /\ \A b \in Parties \ {a} : parties'[b] = parties[b]
      /\ parties' \in [Parties -> Records]
  BY <1>3 DEF PartyIInv, PartyTypeOK, Records
<1>5. /\ party' \in [Characters -> Parties \cup {NoParty}]
      /\ invitations' \in [Characters -> SUBSET Parties]
  BY <1>1 DEF PartyIInv, PartyTypeOK
<1>6. PartyTypeOK'
  BY <1>2, <1>4, <1>5 DEF PartyIInv, PartyTypeOK, Records
<1>7. AllGood'
  BY <1>3, <1>4 DEF PartyIInv, AllGood, Good
<1>8. ASSUME NEW x \in Characters, NEW b \in Parties
      PROVE  party'[x] = b <=> x \in Named(parties'[b])
  <2>1. party[x] = b <=> x \in Named(parties[b])
    BY DEF PartyIInv, Mirrored
  <2>2. party' = [party EXCEPT ![p] = a] /\ party \in [Characters -> Parties \cup {NoParty}]
    BY <1>1 DEF PartyIInv, PartyTypeOK
  <2>3. CASE b = a
    BY <1>3, <1>4, <2>1, <2>2, <2>3
  <2>4. CASE b # a
    <3>1. party[p] # b
      BY <1>1, <2>4, PartyAssumption
    <3> QED BY <1>4, <2>1, <2>2, <2>4, <3>1
  <2> QED BY <2>3, <2>4
<1>9. ASSUME NEW x \in Characters, NEW b \in Parties
      PROVE  b \in invitations'[x] <=> x \in parties'[b].invited
  <2>1. b \in invitations[x] <=> x \in parties[b].invited
    BY DEF PartyIInv, Mirrored
  <2>2. invitations' = [invitations EXCEPT ![q] = @ \cup {a}]
        /\ invitations \in [Characters -> SUBSET Parties]
    BY <1>1 DEF PartyIInv, PartyTypeOK
  <2> QED BY <1>3, <1>4, <2>1, <2>2
<1>10. Mirrored'
  BY <1>8, <1>9 DEF Mirrored
<1>11. Present'
  BY <1>2, <1>3, <1>4 DEF PartyIInv, Present, Live
<1>12. PointsEarned' /\ ChannelsPresent'
  BY <1>2, <1>3, <1>4 DEF PartyIInv, PointsEarned, ChannelsPresent
<1> QED BY <1>6, <1>7, <1>10, <1>11, <1>12 DEF PartyIInv

LEMMA JoinKeeps ==
  ASSUME PartyIInv, NEW p \in Characters, NEW q \in Characters, Join(p, q)
  PROVE  PartyIInv'
<1> DEFINE a == party[q]
           r == parties[a]
           t == [r EXCEPT !.members = @ \cup {p}, !.invited = @ \ {p}]
<1>1. /\ p \in online /\ a # NoParty /\ p \in r.invited /\ party[p] = NoParty
      /\ party' = [party EXCEPT ![p] = a]
      /\ invitations' = [invitations EXCEPT ![p] = @ \ {a}]
      /\ UNCHANGED <<online, channel, opened, fought>>
  BY DEF Join, Leads
<1>2. PICK s \in Updated(t) : parties' = [parties EXCEPT ![a] = s]
  BY DEF Join
<1>3. /\ a \in Parties /\ Live(a) /\ r \in Records /\ Sound(r) /\ r.points \subseteq fought
  BY <1>1, OwnParty
<1>4. /\ t \in Records /\ t.leader = r.leader /\ t.members = r.members \cup {p}
      /\ t.invited = r.invited \ {p} /\ t.points = r.points
  BY <1>3 DEF Records
<1>5. p \notin Named(r)
  BY <1>1, <1>3 DEF Sound
<1>6. /\ Named(t) = Named(r) \cup {p} /\ ~ CanDisband(t)
      /\ t.leader \in Characters /\ t.leader \notin t.members
      /\ Named(t) \cap t.invited = {} /\ t.points \subseteq Named(t)
  BY <1>3, <1>4, <1>5 DEF Named, CanDisband, Sound
<1> HIDE DEF t
<1>7. Sound(s) /\ Named(s) = Named(r) \cup {p}
  BY <1>2, <1>4, <1>6, UpdatedIsSound
<1>8. s \in Records /\ s.invited = r.invited \ {p} /\ s.points = r.points
  BY <1>2, <1>4, UpdatedKeeps
<1>9. /\ parties'[a] = s
      /\ \A b \in Parties \ {a} : parties'[b] = parties[b]
      /\ parties' \in [Parties -> Records]
  BY <1>2, <1>3, <1>8 DEF PartyIInv, PartyTypeOK, Records
<1>10. PartyTypeOK'
  <2>1. /\ party' \in [Characters -> Parties \cup {NoParty}]
        /\ invitations' \in [Characters -> SUBSET Parties]
    BY <1>1, <1>3 DEF PartyIInv, PartyTypeOK
  <2> QED BY <1>1, <1>9, <2>1 DEF PartyIInv, PartyTypeOK, Records
<1>11. AllGood'
  BY <1>7, <1>9 DEF PartyIInv, AllGood, Good
<1>12. ASSUME NEW x \in Characters, NEW b \in Parties
       PROVE  party'[x] = b <=> x \in Named(parties'[b])
  <2>1. party[x] = b <=> x \in Named(parties[b])
    BY DEF PartyIInv, Mirrored
  <2>2. party \in [Characters -> Parties \cup {NoParty}]
    BY DEF PartyIInv, PartyTypeOK
  <2>3. CASE b = a
    BY <1>1, <1>7, <1>9, <2>1, <2>2, <2>3
  <2>4. CASE b # a
    BY <1>1, <1>9, <2>1, <2>2, <2>4, PartyAssumption
  <2> QED BY <2>3, <2>4
<1>13. ASSUME NEW x \in Characters, NEW b \in Parties
       PROVE  b \in invitations'[x] <=> x \in parties'[b].invited
  <2>1. b \in invitations[x] <=> x \in parties[b].invited
    BY DEF PartyIInv, Mirrored
  <2>2. invitations \in [Characters -> SUBSET Parties]
    BY DEF PartyIInv, PartyTypeOK
  <2> QED BY <1>1, <1>8, <1>9, <2>1, <2>2
<1>14. Mirrored'
  BY <1>12, <1>13 DEF Mirrored
<1>15. Present'
  <2>1. Named(s) \cup s.invited \subseteq online
    BY <1>1, <1>3, <1>7, <1>8 DEF PartyIInv, Present
  <2> QED BY <1>1, <1>9, <2>1 DEF PartyIInv, Present, Live
<1>16. PointsEarned' /\ ChannelsPresent'
  BY <1>1, <1>3, <1>8, <1>9 DEF PartyIInv, PointsEarned, ChannelsPresent
<1> QED BY <1>10, <1>11, <1>14, <1>15, <1>16 DEF PartyIInv

-----------------------------------------------------------------------------
(* Steps that take names away.                                               *)

(* Settle keeps those present who were, and takes the leaving off the lists. *)
LEMMA LeavingKeeps ==
  ASSUME PartyIInv, NEW ps, NEW L, NEW closed, Leaves(ps, L), Settle(ps, L, closed),
         UNCHANGED <<online, opened>>
  PROVE  PartyIInv'
<1>1. /\ PartyTypeOK' /\ AllGood' /\ Mirrored' /\ PointsEarned'
      /\ \A a \in Parties : channel'[a] \subseteq channel[a]
  BY SettleKeeps DEF PartyIInv, PartyTypeOK
<1>2. Present'
  <2> SUFFICES ASSUME NEW a \in Parties, Live(a)'
               PROVE  Named(ps[a]) \cup ps[a].invited \subseteq online
    BY DEF Present, Settle
  <2>1. ps[a] # Freed
    BY FreedIsRecord DEF Live, Settle
  <2>2. /\ Live(a) /\ Named(ps[a]) \subseteq Named(parties[a])
        /\ ps[a].invited \subseteq parties[a].invited
    BY <2>1 DEF Leaves
  <2> QED BY <2>2 DEF PartyIInv, Present
<1>3. ChannelsPresent'
  BY <1>1 DEF PartyIInv, ChannelsPresent
<1> QED BY <1>1, <1>2, <1>3 DEF PartyIInv

LEMMA RevokeKeeps ==
  ASSUME PartyIInv, NEW p \in Characters, NEW q \in Characters, Revoke(p, q)
  PROVE  PartyIInv'
<1> DEFINE a == party[p]
           r == parties[a]
           ps == [parties EXCEPT ![a] = Withdrawn(r, q)]
<1>1. /\ a # NoParty /\ q \in r.invited
      /\ Settle(ps, {}, {}) /\ UNCHANGED <<online, opened>>
  BY DEF Revoke, Leads
<1>2. a \in Parties /\ r \in Records /\ Sound(r) /\ Live(a)
  BY <1>1, OwnParty
<1>3. LET s == Withdrawn(r, q) IN
      /\ s \in Records /\ Good(s) /\ s.invited \subseteq r.invited
      /\ s.points \subseteq r.points
      /\ s = Freed \/ Named(s) = Named(r)
  BY <1>2, WithdrawnKeeps
<1>4. /\ ps \in [Parties -> Records]
      /\ ps[a] = Withdrawn(r, q)
      /\ \A b \in Parties \ {a} : ps[b] = parties[b]
  BY <1>2, <1>3 DEF PartyIInv, PartyTypeOK, Records
<1>5. ASSUME NEW b \in Parties, ~ Live(b) PROVE ps[b] = Freed
  BY <1>2, <1>4, <1>5, SoundIsLive DEF PartyIInv, AllGood, Good, Live
<1>6. Leaves(ps, {})
  BY <1>3, <1>4, <1>5 DEF Leaves, PartyIInv, AllGood
<1> HIDE DEF ps
<1> QED BY <1>1, <1>6, LeavingKeeps

LEMMA LeaveKeeps ==
  ASSUME PartyIInv, NEW p \in Characters, Leave(p)
  PROVE  PartyIInv'
<1> DEFINE a == party[p]
           r == parties[a]
<1>1. a # NoParty /\ UNCHANGED <<online, opened>>
  BY DEF Leave
<1>2. PICK s \in Left(r, p) : Settle([parties EXCEPT ![a] = s], {p}, {})
  BY DEF Leave
<1> DEFINE ps == [parties EXCEPT ![a] = s]
<1>3. a \in Parties /\ r \in Records /\ Sound(r) /\ Live(a) /\ p \in Named(r)
  BY <1>1, OwnParty
<1>4. /\ s \in Records /\ Good(s) /\ s.invited \subseteq r.invited
      /\ s.points \subseteq r.points
      /\ s = Freed \/ Named(s) = Named(r) \ {p}
  BY <1>3, LeftKeeps, FreedIsRecord DEF Good
<1>5. /\ ps \in [Parties -> Records]
      /\ ps[a] = s
      /\ \A b \in Parties \ {a} : ps[b] = parties[b] /\ p \notin Named(parties[b])
  BY <1>3, <1>4 DEF PartyIInv, PartyTypeOK, Records, Mirrored
<1>6. ASSUME NEW b \in Parties, ~ Live(b) PROVE ps[b] = Freed
  BY <1>3, <1>5, <1>6, SoundIsLive DEF PartyIInv, AllGood, Good, Live
<1>7. Leaves(ps, {p})
  BY <1>4, <1>5, <1>6 DEF Leaves, PartyIInv, AllGood
<1> HIDE DEF ps
<1>8. Settle(ps, {p}, {})
  BY <1>2 DEF ps
<1> QED BY <1>1, <1>7, <1>8, LeavingKeeps

(* clearPartyInvitations and leave: afterwards p is on no list.              *)
LEMMA ForgetLeaves ==
  ASSUME PartyIInv, NEW p \in Characters, NEW closed, ForgetParties(p, closed)
  PROVE  \E ps : /\ Leaves(ps, {p}) /\ Settle(ps, {p}, closed)
                 /\ \A a \in Parties : p \notin ps[a].invited
<1> DEFINE ws == [a \in Parties |->
                     IF a \in invitations[p] THEN Withdrawn(parties[a], p) ELSE parties[a]]
<1>1. ASSUME NEW a \in Parties
      PROVE  /\ ws[a] \in Records /\ Good(ws[a])
             /\ ws[a].invited \subseteq parties[a].invited /\ p \notin ws[a].invited
             /\ ws[a].points \subseteq parties[a].points
             /\ ~ Live(a) => ws[a] = Freed
             /\ ws[a] = Freed \/ Named(ws[a]) = Named(parties[a])
             /\ a \notin invitations[p] => ws[a] = parties[a]
  <2>1. parties[a] \in Records /\ Good(parties[a])
    BY DEF PartyIInv, PartyTypeOK, Records, AllGood
  <2>2. a \in invitations[p] <=> p \in parties[a].invited
    BY DEF PartyIInv, Mirrored
  <2>3. CASE a \in invitations[p]
    <3>1. Sound(parties[a]) /\ Live(a)
      BY <2>1, <2>2, <2>3, FreedIsRecord, SoundIsLive DEF Good, Live
    <3>2. ws[a] = Withdrawn(parties[a], p)
      BY <2>3
    <3> HIDE DEF ws
    <3> QED BY <2>1, <2>3, <3>1, <3>2, WithdrawnKeeps
  <2>4. CASE a \notin invitations[p]
    <3>1. ws[a] = parties[a]
      BY <2>4
    <3> HIDE DEF ws
    <3>2. ~ Live(a) => ws[a] = Freed
      BY <2>1, <3>1, SoundIsLive DEF Good, Live
    <3> QED BY <2>1, <2>2, <2>4, <3>1, <3>2
  <2> QED BY <2>3, <2>4
<1>2. ws \in [Parties -> Records]
  BY <1>1
<1>3. CASE party[p] = NoParty
  <2>1. Settle(ws, {p}, closed)
    BY <1>3 DEF ForgetParties
  <2>2. ASSUME NEW a \in Parties PROVE p \notin Named(parties[a])
    BY <1>3, PartyAssumption DEF PartyIInv, Mirrored
  <2> HIDE DEF ws
  <2>3. Leaves(ws, {p})
    BY <1>1, <1>2, <2>2 DEF Leaves
  <2> QED BY <1>1, <2>1, <2>3
<1>4. CASE party[p] # NoParty
  <2> DEFINE a == party[p]
             r == parties[a]
  <2>1. a \in Parties /\ r \in Records /\ Sound(r) /\ Live(a) /\ p \in Named(r)
    BY <1>4, OwnParty
  <2>2. ws[a] = r
    BY <2>1 DEF PartyIInv, Mirrored, Sound
  <2>3. PICK s \in Left(ws[a], p) : Settle([ws EXCEPT ![a] = s], {p}, closed)
    BY <1>4 DEF ForgetParties
  <2> DEFINE ps == [ws EXCEPT ![a] = s]
  <2>4. s \in Left(r, p)
    BY <2>2, <2>3
  <2>5. /\ s \in Records /\ Good(s) /\ s.invited \subseteq r.invited
        /\ s.points \subseteq r.points
        /\ s = Freed \/ Named(s) = Named(r) \ {p}
    BY <2>1, <2>4, LeftKeeps, FreedIsRecord DEF Good
  <2>6. p \notin r.invited
    BY <2>1 DEF Sound
  <2> HIDE DEF ws
  <2>7. /\ ps \in [Parties -> Records]
        /\ ps[a] = s
        /\ \A b \in Parties \ {a} : ps[b] = ws[b] /\ p \notin Named(parties[b])
    BY <1>2, <2>1, <2>5 DEF PartyIInv, Mirrored
  <2>8. \A b \in Parties : p \notin ps[b].invited
    BY <1>1, <2>5, <2>6, <2>7
  <2>9. Leaves(ps, {p})
    <3>1. ASSUME NEW b \in Parties
          PROVE  /\ Good(ps[b])
                 /\ ps[b].invited \subseteq parties[b].invited
                 /\ ps[b].points \subseteq parties[b].points
                 /\ ~ Live(b) => ps[b] = Freed
                 /\ ps[b] = Freed \/ Named(ps[b]) = Named(parties[b]) \ {p}
      <4>1. CASE b = a
        BY <2>1, <2>5, <2>7, <4>1
      <4>2. CASE b # a
        <5>1. ps[b] = ws[b] /\ Named(parties[b]) \ {p} = Named(parties[b])
          BY <2>7, <4>2
        <5> QED BY <1>1, <5>1
      <4> QED BY <4>1, <4>2
    <3> QED BY <2>7, <3>1 DEF Leaves
  <2> HIDE DEF ps
  <2>10. Settle(ps, {p}, closed)
    BY <2>3 DEF ps
  <2> QED BY <2>8, <2>9, <2>10
<1> QED BY <1>3, <1>4

LEMMA GhostKeeps ==
  ASSUME PartyIInv, NEW p \in Characters, Ghost(p)
  PROVE  PartyIInv'
<1>1. ForgetParties(p, {}) /\ UNCHANGED <<online, opened>>
  BY DEF Ghost
<1>2. PICK ps : Leaves(ps, {p}) /\ Settle(ps, {p}, {})
  BY <1>1, ForgetLeaves
<1> QED BY <1>1, <1>2, LeavingKeeps

LEMMA LeaveWorldKeeps ==
  ASSUME PartyIInv, NEW p \in Characters, LeaveWorld(p)
  PROVE  PartyIInv'
<1>1. ForgetParties(p, Parties) /\ online' = online \ {p} /\ UNCHANGED opened
  BY DEF LeaveWorld, ChannelsOf
<1>2. PICK ps : /\ Leaves(ps, {p}) /\ Settle(ps, {p}, Parties)
                /\ \A a \in Parties : p \notin ps[a].invited
  BY <1>1, ForgetLeaves
<1>3. /\ PartyTypeOK' /\ AllGood' /\ Mirrored' /\ PointsEarned'
      /\ \A a \in Parties : channel'[a] \subseteq channel[a]
  BY <1>1, <1>2, SettleKeeps DEF PartyIInv, PartyTypeOK
<1>4. Present'
  <2> SUFFICES ASSUME NEW a \in Parties, Live(a)'
               PROVE  Named(ps[a]) \cup ps[a].invited \subseteq online \ {p}
    BY <1>1, <1>2 DEF Present, Settle
  <2>1. ps[a] # Freed
    BY <1>2, FreedIsRecord DEF Live, Settle
  <2>2. /\ Live(a) /\ Named(ps[a]) = Named(parties[a]) \ {p}
        /\ ps[a].invited \subseteq parties[a].invited
    BY <1>2, <2>1 DEF Leaves
  <2> QED BY <1>2, <2>2 DEF PartyIInv, Present
<1>5. ChannelsPresent'
  <2>1. \A a \in Parties : p \notin channel'[a]
    BY <1>2 DEF Settle
  <2> QED BY <1>1, <1>3, <2>1 DEF PartyIInv, ChannelsPresent
<1> QED BY <1>3, <1>4, <1>5 DEF PartyIInv

-----------------------------------------------------------------------------
LEMMA ChannelStepsKeep ==
  ASSUME PartyIInv, NEW p \in Characters, ListChannels(p) \/ OpenChannel(p) \/ CloseChannel(p)
  PROVE  PartyIInv'
<1>1. UNCHANGED <<online, party, invitations, parties, fought>> /\ p \in online
  BY DEF ListChannels, OpenChannel, CloseChannel
<1>2. /\ opened' \subseteq Parties
      /\ channel' \in [Parties -> SUBSET Characters]
      /\ \A a \in Parties : channel'[a] \subseteq channel[a] \cup {p}
  BY DEF PartyIInv, PartyTypeOK, ListChannels, OpenChannel, CloseChannel
<1>3. PartyTypeOK'
  BY <1>1, <1>2 DEF PartyIInv, PartyTypeOK
<1>4. AllGood' /\ Mirrored' /\ PointsEarned'
  BY <1>1 DEF PartyIInv, AllGood, Mirrored, PointsEarned
<1>5. Present'
  BY <1>1 DEF PartyIInv, Present, Live
<1>6. ChannelsPresent'
  BY <1>1, <1>2 DEF PartyIInv, ChannelsPresent
<1> QED BY <1>3, <1>4, <1>5, <1>6 DEF PartyIInv

LEMMA PartyInitEstablishes == PartyInit => PartyIInv
<1> SUFFICES ASSUME PartyInit PROVE PartyIInv
  OBVIOUS
<1>1. /\ \A a \in Parties : parties[a] = Freed /\ channel[a] = {}
      /\ \A p \in Characters : party[p] = NoParty /\ invitations[p] = {}
  BY DEF PartyInit
<1>2. PartyTypeOK
  BY FreedIsRecord DEF PartyInit, PartyTypeOK, Records
<1>3. AllGood
  BY <1>1 DEF AllGood, Good
<1>4. Mirrored
  BY <1>1, FreedIsRecord, PartyAssumption DEF Mirrored
<1>5. Present
  BY <1>1, FreedIsRecord DEF Present, Live
<1>6. PointsEarned /\ ChannelsPresent
  BY <1>1, FreedIsRecord DEF PointsEarned, ChannelsPresent
<1> QED BY <1>2, <1>3, <1>4, <1>5, <1>6 DEF PartyIInv

LEMMA PartyStepKeeps == PartyIInv /\ [PartyNext]_partyVars => PartyIInv'
<1> SUFFICES ASSUME PartyIInv, [PartyNext]_partyVars PROVE PartyIInv'
  OBVIOUS
<1>1. CASE UNCHANGED partyVars
  <2>1. UNCHANGED <<online, party, invitations, parties, channel, opened, fought>>
    BY <1>1 DEF partyVars
  <2>2. PartyTypeOK' /\ AllGood' /\ Mirrored' /\ Present' /\ PointsEarned' /\ ChannelsPresent'
    BY <2>1 DEF PartyIInv, PartyTypeOK, AllGood, Mirrored, Present, Live, PointsEarned, ChannelsPresent
  <2> QED BY <2>2 DEF PartyIInv
<1>2. CASE PartyNext
  <2>1. PICK p \in Characters :
          \/ LogIn(p) \/ Leave(p) \/ Ghost(p) \/ LeaveWorld(p)
          \/ SetShared(p) \/ Fight(p) \/ Recheck(p)
          \/ ListChannels(p) \/ OpenChannel(p) \/ CloseChannel(p)
          \/ \E q \in Characters : Invite(p, q) \/ Join(p, q) \/ Revoke(p, q) \/ Pass(p, q)
    BY <1>2 DEF PartyNext
  <2>2. CASE LogIn(p)
    BY <2>2, PartyLoginKeeps
  <2>3. CASE Leave(p)
    BY <2>3, LeaveKeeps
  <2>4. CASE Ghost(p)
    BY <2>4, GhostKeeps
  <2>5. CASE LeaveWorld(p)
    BY <2>5, LeaveWorldKeeps
  <2>6. CASE SetShared(p)
    BY <2>6, SetSharedKeeps
  <2>7. CASE Fight(p)
    BY <2>7, FightKeeps
  <2>8. CASE Recheck(p)
    BY <2>8, RecheckKeeps
  <2>9. CASE ListChannels(p) \/ OpenChannel(p) \/ CloseChannel(p)
    BY <2>9, ChannelStepsKeep
  <2>10. ASSUME NEW q \in Characters, Invite(p, q) \/ Join(p, q) \/ Revoke(p, q) \/ Pass(p, q)
         PROVE  PartyIInv'
    BY <2>10, InviteKeeps, JoinKeeps, RevokeKeeps, PassKeeps
  <2> QED BY <2>1, <2>2, <2>3, <2>4, <2>5, <2>6, <2>7, <2>8, <2>9, <2>10
<1> QED BY <1>1, <1>2

LEMMA PartyInvariance == PartySpec => []PartyIInv
<1> QED BY PartyInitEstablishes, PartyStepKeeps, PTL DEF PartySpec

(* Every reachable state is well typed.                                      *)
THEOREM PartyTypeCorrect == PartySpec => []PartyTypeOK
<1>1. PartyIInv => PartyTypeOK
  BY DEF PartyIInv
<1> QED BY <1>1, PartyInvariance, PTL

(* Experience is shared only among those who fought since they joined        *)
(* (party.cpp:280-291, 411-418).                                             *)
LEMMA SharersHaveFought == PartyIInv => SharersFought
<1> SUFFICES ASSUME PartyIInv, NEW a \in Parties, parties[a].sharing = "on"
             PROVE  parties[a].members # {} /\ Named(parties[a]) \subseteq fought
  BY DEF SharersFought
<1>1. Sound(parties[a])
  BY FreedIsRecord DEF PartyIInv, AllGood, Good
<1> QED BY <1>1 DEF Sound, MayShare, Named, PartyIInv, PointsEarned

(* So it is in every reachable state, for any number of players.             *)
THEOREM SharersFoughtHolds == PartySpec => []SharersFought
<1> QED BY SharersHaveFought, PartyInvariance, PTL

(* Parties, players and invitations point to each other, for any number of   *)
(* players and however often addresses are used again (party.cpp:41-69).     *)
THEOREM PartiesAgreeHolds == PartySpec => []PartiesAgree
<1>1. PartyIInv => PartiesAgree
  <2> SUFFICES ASSUME PartyIInv PROVE PartiesAgree
    OBVIOUS
  <2>1. ASSUME NEW a \in Parties, Live(a) PROVE Sound(parties[a])
    BY <2>1, FreedIsRecord DEF PartyIInv, AllGood, Good, Live
  <2> QED BY <2>1, SharersHaveFought DEF PartyIInv, Mirrored, Present, Sound, PartiesAgree
<1> QED BY <1>1, PartyInvariance, PTL

(* No channel of a party points to somebody who has left (chat.cpp:508-528). *)
THEOREM ChannelUsersPresentHolds == PartySpec => []ChannelUsersPresent
<1>1. PartyIInv => ChannelUsersPresent
  BY DEF PartyIInv, ChannelsPresent, ChannelUsersPresent
<1> QED BY <1>1, PartyInvariance, PTL
=============================================================================
