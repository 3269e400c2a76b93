-------------------------------- MODULE Rent --------------------------------
(* Who rents a house, and until when it is paid (house.cpp, the commands     *)
(* that buy and sell it in talkaction.cpp, the auctions of                   *)
(* iomapserialize.cpp): rent, warnings, eviction, sale by a transfer         *)
(* document.  The unit of time is the day, that of money the rent.           *)
EXTENDS Naturals, Sequences

CONSTANTS Players, NoOwner,
          Period, WarningsLimit,        \* of the rent period
          BankSystem, SkipInitRent,
          LastDay, MaxMoney             \* bounds of the instances

(* The state, one record: the day; of the house the owner, paidUntil (0:     *)
(* never), rentWarnings and lastWarning; of the players what they have in    *)
(* the bank and in their depots, and who is premium; the transfer document   *)
(* <<seller, buyer>> in a trade; the highest bidder of an auction that       *)
(* ended; the days of the letters the owner got since he last paid; and      *)
(* whether an auction gave him a house that somebody already had.            *)
VARIABLE w

NoDoc == <<>>

RentTypeOK ==
    w \in [day : 1 .. LastDay, owner : Players \cup {NoOwner},
           paidUntil : 0 .. LastDay + Period, rentWarnings : 0 .. WarningsLimit,
           lastWarning : 0 .. LastDay, bank : [Players -> 0 .. MaxMoney],
           depot : [Players -> 0 .. MaxMoney], premium : SUBSET Players,
           doc : {NoDoc} \cup (Players \X Players), winner : Players \cup {NoOwner},
           letters : Seq(1 .. LastDay), usurped : BOOLEAN]

Init ==
    \E b \in [Players -> 0 .. MaxMoney], d \in [Players -> 0 .. MaxMoney] :
       w = [day |-> 1, owner |-> NoOwner, paidUntil |-> 0, rentWarnings |-> 0,
            lastWarning |-> 0, bank |-> b, depot |-> d, premium |-> Players,
            doc |-> NoDoc, winner |-> NoOwner, letters |-> <<>>,
            usurped |-> FALSE]

(* House::setOwner: nothing but the owner.                                   *)
SetOwner(s, p) ==
    [s EXCEPT !.owner = p, !.letters = <<>>, !.usurped = s.owner # NoOwner /\ p # NoOwner]

(* House::setOwnerEx: what the last owner paid, and the warnings he got, are *)
(* forgotten.                                                                *)
SetOwnerEx(s, p) ==
    IF s.owner = p THEN s
    ELSE LET t == IF s.owner = NoOwner THEN s
                  ELSE [s EXCEPT !.rentWarnings = 0, !.paidUntil = 0] IN
         [SetOwner(t, p) EXCEPT !.lastWarning = IF p = NoOwner THEN 0 ELSE s.day,
                                !.usurped = FALSE]

(* ------------------------------- the rent -------------------------------- *)

Due(s, time) == s.owner # NoOwner /\ s.paidUntil <= time

(* From the bank, or else from the depot, never from both.                   *)
CanPay(s, p, amount) == (BankSystem /\ s.bank[p] >= amount) \/ s.depot[p] >= amount
Charge(s, p, amount) ==
    IF BankSystem /\ s.bank[p] >= amount THEN [s EXCEPT !.bank[p] = @ - amount]
    ELSE [s EXCEPT !.depot[p] = @ - amount]

PaidLeavesWarnings(s, p, amount) ==      \* a mutant: the warnings stay
    [Charge(s, p, amount) EXCEPT !.paidUntil = s.day + Period, !.letters = <<>>]

Paid(s, p, amount) ==
    [Charge(s, p, amount) EXCEPT !.paidUntil = s.day + Period, !.lastWarning = 0,
                                 !.rentWarnings = 0, !.letters = <<>>]

(* Houses::payHouse, for the house and its owner.                            *)
PayHouse(s, bid) ==
    LET p == s.owner
        warned == [s EXCEPT !.lastWarning = s.day, !.rentWarnings = @ + 1,
                            !.letters = Append(@, s.day)] IN
    IF ~Due(s, s.day) THEN s
    ELSE IF p \notin s.premium THEN SetOwnerEx(s, NoOwner)
    ELSE IF CanPay(s, p, 1 + bid) THEN Paid(s, p, 1 + bid)
    ELSE IF s.day < s.lastWarning + 1 THEN s
    ELSE IF s.rentWarnings >= WarningsLimit THEN SetOwnerEx(s, NoOwner)
    ELSE warned

(* Houses::check: before a global save, at shutdown, by an administrator.    *)
Check == w.owner # NoOwner /\ w' = PayHouse(w, 0)

(* --------------------------- buying and selling -------------------------- *)

(* TalkAction::houseBuy; the price is what the player carries.               *)
HouseBuy(p) ==
    /\ w.owner = NoOwner /\ w.winner = NoOwner /\ p \in w.premium
    /\ w' = LET s == SetOwnerEx(w, p) IN
            IF SkipInitRent THEN [s EXCEPT !.paidUntil = w.day + Period, !.lastWarning = 0]
            ELSE s

(* TalkAction::houseSell: a house never paid for has to be paid first, and   *)
(* one that was paid for once has not: payRent is asked about the year 1970. *)
HouseSell(p, q) ==
    /\ w.owner = p /\ p # q /\ w.doc = NoDoc
    /\ w.paidUntil = 0 => CanPay(w, p, 1)
    /\ w' = [(IF w.paidUntil = 0 THEN Paid(w, p, 1) ELSE w) EXCEPT !.doc = <<p, q>>]

(* TransferItem::onTradeEvent: the document carries the house, whoever has   *)
(* it by then.                                                               *)
Transfer ==
    /\ w.doc # NoDoc
    /\ w' = [SetOwnerEx(w, w.doc[2]) EXCEPT !.doc = NoDoc]
CancelTransfer == w.doc # NoDoc /\ w' = [w EXCEPT !.doc = NoDoc]

(* The web site: bids for a house nobody owns.                               *)
AuctionEnds(p) ==
    /\ w.owner = NoOwner /\ w.winner = NoOwner
    /\ w' = [w EXCEPT !.winner = p]

(* IOMapSerialize::updateAuctions, when the server is closed for a save.     *)
Sold(s) == PayHouse(SetOwner([s EXCEPT !.winner = NoOwner], s.winner), 1)
UpdateAuctions == w.winner # NoOwner /\ w' = Sold(w)

(* Map::loadMap after an orderly stop: the auctions are settled first, then  *)
(* loadHouses reads the owners, and what was paid, from their rows.          *)
Restart ==
    /\ w' = LET s == IF w.winner = NoOwner THEN w ELSE Sold(w) IN
            [s EXCEPT !.owner = w.owner, !.paidUntil = w.paidUntil,
                      !.rentWarnings = w.rentWarnings, !.lastWarning = w.lastWarning,
                      !.letters = w.letters, !.usurped = w.usurped, !.doc = NoDoc]

(* -------------------------------- the rest ------------------------------- *)

NextDay == w.day < LastDay /\ w' = [w EXCEPT !.day = @ + 1]
Earn(p) ==
    \/ w.bank[p] < MaxMoney /\ w' = [w EXCEPT !.bank[p] = @ + 1]
    \/ w.depot[p] < MaxMoney /\ w' = [w EXCEPT !.depot[p] = @ + 1]
PremiumEnds(p) == p \in w.premium /\ w' = [w EXCEPT !.premium = @ \ {p}]

Next ==
    \/ \E p \in Players :
          HouseBuy(p) \/ AuctionEnds(p) \/ Earn(p) \/ PremiumEnds(p)
    \/ \E p \in Players, q \in Players : HouseSell(p, q)
    \/ Check \/ Transfer \/ CancelTransfer \/ UpdateAuctions \/ Restart \/ NextDay

(* ------------------------------- properties ------------------------------ *)

(* A premium player loses his house for debt only when he got a letter on    *)
(* each of WarningsLimit days since he came by it or last paid for it, all   *)
(* of them before today: however payments, sales, auctions and several       *)
(* checks in a day fall (Houses::payHouse, setOwnerEx).  Except for a player *)
(* an auction puts in the place of another: he inherits the warnings.        *)
LosesWarned ==
    w.owner \in w.premium /\ w'.owner = NoOwner /\ w.winner = NoOwner /\ ~w.usurped =>
       LET days == w.letters IN
       /\ Len(days) >= WarningsLimit
       /\ \A n \in 1 .. Len(days) : days[n] < w.day
       /\ \A n \in 1 .. Len(days) - 1 : days[n] < days[n + 1]

EvictedAfterWarnings == [][LosesWarned]_w
=============================================================================
