----------------------------- MODULE Inventory -----------------------------
(* What a player has in his hands (player.cpp, game.cpp, weapons.cpp): which *)
(* items go together, what is exchanged for what, and the weapon that the    *)
(* player object remembers between two changes of the inventory.             *)
(*                                                                           *)
(* The slots of other parts of the body take one sort of item each and are   *)
(* left out, as is the order of the things in the bag and on the ground.     *)
EXTENDS Integers, FiniteSetsExt, Sequences

CONSTANTS
    Kinds,          \* kinds of items
    TwoHanded, Dual, Unfit,     \* kinds: for both hands, for two at once, not for him
    WeaponType,     \* of a kind: "none", "melee", "shield", "dist", "ammo"
    Shot,           \* the kind that a bow shoots, or the kind itself
    Stackable, UsedBy,  \* kinds; "none", "count" or "move" (ammoAction)
    Items, Kind,    \* addresses of items (bound) and their kinds
    Gifts,          \* items that are given and taken away (bound)
    MaxStack,       \* 100 in the code
    BagSize, Capacity, NoItem

VARIABLE w

Hands == {"right", "left"}
Slots == Hands \cup {"ammo"}
Spots == Slots \cup {"bag", "ground"}
Other(s) == IF s = "right" THEN "left" ELSE "right"

TypeOK ==
    /\ w.at \in [Items -> Spots \cup {"gone"}] /\ w.count \in [Items -> 0 .. MaxStack]
    /\ w.weapon \in Items \cup {NoItem}
    /\ w.weight \in Nat                     \* inventoryWeight
    /\ w.unweighed \in BOOLEAN              \* it may be wrong
    /\ w.classic \in BOOLEAN                \* CLASSIC_EQUIPMENT_SLOTS

Content(u, place) == {i \in Items : u.at[i] = place}
In(u, s) == LET all == Content(u, s) IN IF all = {} THEN NoItem ELSE CHOOSE i \in all : TRUE
Carried(u) == {i \in Items : u.at[i] \in Slots \cup {"bag"}}
IsA(i, type) == WeaponType[Kind[i]] = type
IsWeapon(i) == WeaponType[Kind[i]] # "none"
IsTwo(i) == Kind[i] \in TwoHanded
IsDual(i) == Kind[i] \in Dual

-----------------------------------------------------------------------------
(* Player::getWeapons: the right hand first, and what a bow shoots for it.   *)
Wielded(u, s) ==
    LET i == In(u, s) IN
    CASE i = NoItem -> <<>>
      [] i # NoItem /\ WeaponType[Kind[i]] \in {"none", "shield", "ammo"} -> <<>>
      [] i # NoItem /\ IsA(i, "dist") /\ Shot[Kind[i]] # Kind[i] ->
            LET a == In(u, "ammo") IN IF a # NoItem /\ Kind[a] = Shot[Kind[i]] THEN <<a>> ELSE <<>>
      [] OTHER -> <<i>>
Weapons(u) == Wielded(u, "right") \o Wielded(u, "left")

(* Mutant: the weapon is looked for only when there is none.                 *)
UpdateWeaponIfNone(u) ==
    IF Weapons(u) = <<>> THEN [u EXCEPT !.weapon = NoItem]
    ELSE IF u.weapon = NoItem THEN [u EXCEPT !.weapon = Weapons(u)[1]] ELSE u

(* Player::updateWeapon: with two weapons they take turns.                   *)
UpdateWeapon(u) ==
    LET all == Weapons(u) IN
    [u EXCEPT !.weapon =
        CASE all = <<>> -> NoItem
          [] all # <<>> /\ (u.weapon = NoItem \/ Len(all) = 1) -> all[1]
          [] Len(all) = 2 /\ all[2] = u.weapon -> all[1]
          [] Len(all) = 2 /\ all[1] = u.weapon -> all[2]
          [] OTHER -> NoItem]

(* Player::postAddNotification and postRemoveNotification, for what comes to *)
(* or goes from one of his places.                                           *)
Notified(u, place) ==
    IF place \in Slots \cup {"bag"}
    THEN UpdateWeapon([u EXCEPT !.weight = MapThenSumSet(LAMBDA i : u.count[i], Carried(u)),
                                !.unweighed = FALSE])
    ELSE u

-----------------------------------------------------------------------------
(* Player::__queryAdd, slot by slot.                                         *)
FitsClassic(u, s, i, count) ==
    LET j == In(u, Other(s)) IN
    \/ j = NoItem
    \/ j = i /\ IsTwo(i)
    \/ /\ j # NoItem /\ ~ IsTwo(i) /\ ~ IsTwo(j)
       /\ \/ i = j /\ count = u.count[i]
          \/ /\ ~ (IsA(i, "shield") /\ IsA(j, "shield"))
             /\ \/ ~ IsWeapon(i) \/ ~ IsWeapon(j)
                \/ {WeaponType[Kind[i]], WeaponType[Kind[j]]} \cap {"shield", "ammo"} # {}
                \/ IsDual(i) /\ IsDual(j)

FitsModern(u, s, i) ==
    LET j == In(u, Other(s)) IN
    /\ IsWeapon(i)
    /\ CASE s = "right" -> /\ IsA(i, "shield") \/ IsDual(i)
                           /\ j # NoItem => ~ IsTwo(i) /\ ~ IsTwo(j)
         [] OTHER -> ~ IsA(i, "shield") /\ (j # NoItem => ~ IsTwo(i))

Fits(u, s, i, count) ==
    CASE s = "ammo" -> u.classic \/ IsA(i, "ammo")
      [] s # "ammo" /\ u.classic -> FitsClassic(u, s, i, count)
      [] OTHER -> FitsModern(u, s, i)

(* Player::hasCapacity: the weight is the one that is remembered.            *)
HasCapacity(u, i, count) == i \in Carried(u) \/ count < Capacity - u.weight

Alike(i, j) == i # j /\ Kind[i] = Kind[j] /\ Kind[i] \in Stackable

(* The answer of the place that i is to go to.                               *)
QueryAdd(u, place, i, count) ==
    LET j == In(u, place) IN
    CASE place = "ground" -> "ok"
      [] place = "bag" -> IF HasCapacity(u, i, count) THEN "ok" ELSE "no"
      [] place \in Slots /\ ~ Fits(u, place, i, count) -> "no"
      [] place \in Slots /\ Fits(u, place, i, count) /\ j # NoItem /\ ~ (Kind[i] \in Stackable /\ Kind[i] = Kind[j]) ->
            "exchange"
      [] OTHER -> IF HasCapacity(u, i, count) /\ Kind[i] \notin Unfit THEN "ok" ELSE "no"

Room(u, i, j) == IF Alike(i, j) THEN MaxStack - u.count[j] ELSE 0

(* __queryMaxCount, j what is in the slot.  The index of a stack that was    *)
(* found in the bag is the one after it, where there is no room.             *)
MaxCount(u, place, i, j) ==
    LET all == IF Kind[i] \in Stackable THEN MaxStack ELSE 1 IN
    CASE place = "ground" -> all
      [] place = "bag" -> all * Max({0, BagSize - Cardinality(Content(u, "bag"))})
      [] OTHER -> IF j # NoItem THEN Room(u, i, j) ELSE all
MaxCountWherever(u, place, i) ==
    MaxCount(u, place, i, NoItem)
      + IF place = "bag" THEN MapThenSumSet(LAMBDA k : Room(u, i, k), Content(u, "bag")) ELSE 0

(* Into whose stack i may go: that of the slot; one in the bag, unless it is *)
(* there; on the ground the one on top, if it is a stack like it.            *)
Destinations(u, place, i) ==
    LET stacks == {j \in Content(u, place) : Room(u, i, j) > 0} IN
    CASE place \in Slots -> {In(u, place)}
      [] place = "bag" -> IF stacks = {} THEN {NoItem} ELSE stacks
      [] OTHER -> {NoItem} \cup stacks

-----------------------------------------------------------------------------
(* The exchange in Game::internalMoveItem: what is in the slot goes to where *)
(* i comes from, and stays there whatever comes next.                        *)
Exchanged(u, i, s) ==
    LET j == In(u, s)
        from == u.at[i]
        out == [u EXCEPT !.at[j] = from]
    IN  IF /\ QueryAdd(u, from, j, u.count[j]) = "ok"
           /\ MaxCountWherever(u, from, j) > 0
        THEN Notified(Notified(out, s), from) ELSE u

Unused(u, i) == {k \in Items : Kind[k] = Kind[i] /\ u.at[k] = "gone"}
Vanished(u, i) == [u EXCEPT !.at[i] = "gone", !.count[i] = 0]

(* The rest of Game::internalMoveItem: m of i, into the stack j or alone.    *)
Moved(u, i, place, count, j) ==
    LET most == MaxCount(u, place, i, j)
        m == IF Kind[i] \in Stackable THEN Min({count, most}) ELSE 1
        n == IF j = NoItem THEN 0 ELSE Min({Room(u, i, j), m})
        from == u.at[i]
        rest == m - n
        new == IF m = u.count[i] THEN i ELSE CHOOSE k \in Unused(u, i) : TRUE
        less == IF m = u.count[i] THEN Vanished(u, i) ELSE [u EXCEPT !.count[i] = @ - m]
        merged == IF n > 0 THEN [less EXCEPT !.count[j] = @ + n] ELSE less
        put == IF rest > 0 THEN [merged EXCEPT !.at[new] = place, !.count[new] = rest] ELSE merged
        told == IF rest > 0 THEN Notified(Notified(put, from), place) ELSE Notified(put, from)
    IN  IF most <= 0 THEN u
        ELSE IF n > 0 THEN Notified(told, place) ELSE told

MoveItem(u, i, place, count, j) ==
    LET query == QueryAdd(u, place, i, count)
        v == IF query = "exchange" THEN Exchanged(u, i, place) ELSE u
    IN  IF i = j \/ query = "no" \/ (query = "exchange" /\ v = u) THEN u
        ELSE IF QueryAdd(v, place, i, count) # "ok" THEN v
        ELSE Moved(v, i, place, count, IF query = "exchange" THEN NoItem ELSE j)

-----------------------------------------------------------------------------
There(i) == w.at[i] # "gone"
CanSplit(i) == Kind[i] \in Stackable => w.count[i] = 1 \/ Unused(w, i) # {}

(* Game::playerMoveItem.                                                     *)
PlayerMoveItem(i, place, count) ==
    /\ There(i) /\ CanSplit(i) /\ place # w.at[i] /\ count <= w.count[i]
    /\ \E j \in Destinations(w, place, i) : w' = MoveItem(w, i, place, count, j)

(* Game::internalAddItem of one item (bound) for the player: to a stack like *)
(* it, to the first free slot that it fits, into the bag.  A stack that only *)
(* grows tells nobody, so that the weight is wrong for a while.              *)
AddItem(i) ==
    LET new == [w EXCEPT !.count[i] = 1]
        Grows(s) == /\ In(w, s) # NoItem /\ Room(w, i, In(w, s)) > 0
                    /\ QueryAdd(w, s, i, 1) = "ok"
        Free(s) == In(w, s) = NoItem /\ QueryAdd(w, s, i, 1) = "ok"
        stacks == {s \in Slots : Grows(s)}
        bagged == {j \in Content(w, "bag") : Room(w, i, j) > 0 /\ HasCapacity(w, i, 1)}
        First(S) == CHOOSE s \in S : \A t \in S :
                        s = t \/ s = "right" \/ (s = "left" /\ t = "ammo")
        Grown(j) == [w EXCEPT !.count[j] = @ + 1, !.unweighed = TRUE]
        Put(place) == Notified([new EXCEPT !.at[i] = place], place)
    IN  /\ ~ There(i)
        /\ w' = CASE stacks # {} -> Grown(In(w, First(stacks)))
                  [] stacks = {} /\ bagged # {} -> Grown(CHOOSE j \in bagged : TRUE)
                  [] stacks = {} /\ bagged = {} /\ \E s \in Slots : Free(s) ->
                        Put(First({s \in Slots : Free(s)}))
                  [] OTHER -> IF Cardinality(Content(w, "bag")) < BagSize /\ HasCapacity(w, i, 1)
                              THEN Put("bag") ELSE w

(* Game::internalRemoveItem: a script, or the item decays.                   *)
RemoveItem(i) == There(i) /\ w' = Notified(Vanished(w, i), w.at[i])

(* Player::doAttacking and Weapon::onUsedAmmo.                               *)
UsedAmmo(u, i) ==
    CASE UsedBy[Kind[i]] = "count" /\ u.count[i] = 1 -> {Notified(Vanished(u, i), u.at[i])}
      [] UsedBy[Kind[i]] = "count" /\ u.count[i] > 1 ->
            {Notified([Notified(u, u.at[i]) EXCEPT !.count[i] = @ - 1], u.at[i])}
      [] UsedBy[Kind[i]] = "move" -> {MoveItem(u, i, "ground", 1, j) : j \in Destinations(u, "ground", i)}
      [] OTHER -> {u}

DoAttacking ==
    /\ w.weapon # NoItem /\ CanSplit(w.weapon)
    /\ \E u \in UsedAmmo(w, w.weapon) \cup {w} : w' = UpdateWeapon(u)

(* Everything lies on the ground.                                            *)
Init ==
    \E classic \in BOOLEAN :
        w = [at |-> [i \in Items |-> "ground"], count |-> [i \in Items |-> 1],
             weapon |-> NoItem, weight |-> 0, unweighed |-> FALSE, classic |-> classic]

Next ==
    \/ \E i \in Items, place \in Spots, count \in 1 .. MaxStack : PlayerMoveItem(i, place, count)
    \/ \E i \in Gifts : AddItem(i) \/ RemoveItem(i)
    \/ DoAttacking

-----------------------------------------------------------------------------
(* Whatever is moved, exchanged, split, shot, given or taken: no slot holds  *)
(* two items or one that he may not wear, the hands hold what may be held    *)
(* together by the rules in force (player.cpp:2930-3025), the remembered     *)
(* weapon is one that is in use, and is one if there is any (player.cpp:370),*)
(* and the remembered weight is the weight, but after a gift that only made  *)
(* a stack grow (game.cpp:1750).  The bag may get over-full: a stack is      *)
(* exchanged into a full bag that has room on another one, for an item that  *)
(* he may not wear (game.cpp:1574).                                          *)
HandsAgree ==
    LET r == In(w, "right")
        l == In(w, "left")
        both == r # NoItem /\ l # NoItem
    IN  /\ \A s \in Slots : Cardinality(Content(w, s)) <= 1
        /\ \A i \in Items : w.at[i] \in Slots => Kind[i] \notin Unfit
        /\ \A i \in Items : There(i) <=> w.count[i] > 0
        /\ both => ~ IsTwo(r) /\ ~ IsTwo(l)
        /\ both /\ w.classic =>
              /\ ~ (IsA(r, "shield") /\ IsA(l, "shield"))
              /\ \A i, j \in {r, l} :
                    IsDual(i) \/ WeaponType[Kind[i]] \in {"none", "shield", "ammo"}
                       \/ (i # j => WeaponType[Kind[j]] \in {"none", "shield", "ammo"})
        /\ ~ w.classic =>
              /\ r # NoItem => IsA(r, "shield") \/ IsDual(r)
              /\ l # NoItem => IsWeapon(l) /\ ~ IsA(l, "shield")
        /\ IF Weapons(w) = <<>> THEN w.weapon = NoItem
           ELSE w.weapon \in {Weapons(w)[k] : k \in DOMAIN Weapons(w)}
        /\ ~ w.unweighed => w.weight = MapThenSumSet(LAMBDA i : w.count[i], Carried(w))
=============================================================================
