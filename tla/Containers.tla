----------------------------- MODULE Containers -----------------------------
(* Items in bags, in a depot and on the ground (game.cpp, container.cpp,     *)
(* depot.cpp, player.cpp, tile.cpp): how many of a stack are moved, where    *)
(* they are merged, what is left over, and the weights that the bags keep.   *)
(* All of it runs in the dispatcher.  An operation is a function of the      *)
(* world w; a query is one of the answers that the code asks for first.      *)
(*                                                                           *)
(* The player wears one bag, and nothing else has room for a coin.  Left     *)
(* out: his capacity, other slots, the exchange of two items, limits of a    *)
(* tile (off by default), and who may take what.                             *)
EXTENDS Integers, SequencesExt, FiniteSetsExt

CONSTANTS
    Coins,          \* addresses of stackable items (bound)
    Types,          \* their types, of which a higher one is worth more
    Worth,          \* what one coin of a type is worth
    Backpack,       \* the bag that the player wears
    Pouch,          \* a bag that is moved about
    Depot,
    Capacity,       \* of each of the bags
    DepotLimit,
    MaxStack,       \* 100 in the code
    Sums,           \* sums of money that are asked for (bound)
    Ground, Player, NoItem

VARIABLE w

Cases == {Backpack, Pouch, Depot}
Things == Coins \cup Cases
Whatever == -1      \* INDEX_WHEREEVER
Up == 254           \* the index that means the parent bag

Start(spot) ==
    [list   |-> [b \in Cases |-> IF spot = b THEN <<Pouch>> ELSE <<>>],
     ground |-> IF spot = Ground THEN <<Pouch>> ELSE <<>>,
     weight |-> [b \in Cases |-> IF spot = b THEN 1 ELSE 0],     \* totalWeight
     parent |-> [i \in Things |-> CASE i = Pouch -> spot
                                   [] i = Backpack -> Player
                                   [] i = Depot -> Ground
                                   [] OTHER -> NoItem],
     type   |-> [i \in Coins |-> 1],
     count  |-> [i \in Coins |-> 0],                \* 0: there is no such item
     value  |-> 0,                                  \* what there should be (history)
     lost   |-> 0]                                  \* what came to nothing (history)

TypeOK ==
    /\ w.list \in [Cases -> Seq(Things)] /\ w.ground \in Seq(Things)
    /\ w.weight \in [Cases -> Nat]
    /\ w.parent \in [Things -> Cases \cup {Ground, Player, NoItem}]
    /\ w.type \in [Coins -> Types] /\ w.count \in [Coins -> 0 .. MaxStack]
    /\ w.value \in Int /\ w.lost \in Nat

-----------------------------------------------------------------------------
(* What there is.                                                            *)
Unused(u) == {i \in Coins : u.count[i] = 0}
Content(u, c) == IF c \in Cases THEN u.list[c] ELSE u.ground
Index(u, i) == CHOOSE k \in DOMAIN Content(u, u.parent[i]) : Content(u, u.parent[i])[k] = i
Full(u, b) == Len(u.list[b]) >= Capacity[b]
Value(u, S) == MapThenSumSet(LAMBDA i : u.count[i] * Worth[u.type[i]], S)

(* The bags that i is in, from the inside out.                               *)
RECURSIVE Around(_, _)
Around(u, i) ==
    IF u.parent[i] \in Cases THEN <<u.parent[i]>> \o Around(u, u.parent[i]) ELSE <<>>

(* Container::getItemHoldingCount.                                           *)
Held(u, b) == Cardinality({i \in Things : b \in ToSet(Around(u, i))})
Carried(u) == {i \in Coins : Backpack \in ToSet(Around(u, i))}

(* Item::getWeight, Container::getWeight.                                    *)
Weight(u, i) == IF i \in Cases THEN 1 + u.weight[i] ELSE u.count[i]

(* Mutant: a bag does not tell the bag that it is in.                        *)
UpdateWeightHere(u, i, d) ==
    IF u.parent[i] \in Cases THEN [u EXCEPT !.weight[u.parent[i]] = @ + d] ELSE u

(* Container::updateItemWeight for the bags around an item, here to put      *)
(* their weights right by the difference d.                                  *)
UpdateWeight(u, i, d) ==
    [u EXCEPT !.weight = [b \in Cases |-> IF b \in ToSet(Around(u, i)) THEN @[b] + d ELSE @[b]]]

(* __updateThing: a stack gets another count.                                *)
UpdateThing(u, i, n) == [UpdateWeight(u, i, n - u.count[i]) EXCEPT !.count[i] = n]

(* __removeThing: a part of a stack, or all of an item.                      *)
RemoveThing(u, i, m) ==
    IF i \in Coins /\ m # u.count[i] THEN UpdateThing(u, i, u.count[i] - m)
    ELSE LET c == u.parent[i]
             rest == SelectSeq(Content(u, c), LAMBDA j : j # i)
             out == [UpdateWeight(u, i, - Weight(u, i)) EXCEPT !.parent[i] = NoItem]
         IN IF c \in Cases THEN [out EXCEPT !.list[c] = rest] ELSE [out EXCEPT !.ground = rest]

Free(u, i) == IF i \in Coins THEN [u EXCEPT !.count[i] = 0, !.type[i] = Min(Types)] ELSE u

(* __addThing: a bag ignores what comes at an index it does not have.        *)
AddThing(u, c, index, i) ==
    LET put == [u EXCEPT !.parent[i] = c] IN
    IF c = Ground THEN [put EXCEPT !.ground = <<i>> \o @]
    ELSE IF index >= Capacity[c]
    THEN [Free(u, i) EXCEPT !.lost = @ + Value(u, {i})]
    ELSE UpdateWeight([put EXCEPT !.list[c] = <<i>> \o @], i, Weight(u, i))

Mint(u, type, n) ==
    LET i == CHOOSE j \in Unused(u) : TRUE
    IN [item |-> i, world |-> [u EXCEPT !.type[i] = type, !.count[i] = n]]

-----------------------------------------------------------------------------
(* Queries.                                                                  *)
Room(u, j, i) ==
    IF j \in Coins /\ j # i /\ i \in Coins /\ u.type[j] = u.type[i]
    THEN MaxStack - u.count[j] ELSE 0

(* Container::__queryAdd, with that of a depot around it.                    *)
QueryAdd(u, c, index, i, count, nolimit) ==
    c \in Cases =>
       /\ i # c /\ i \notin ToSet(Around(u, c))
       /\ index = Whatever /\ ~ nolimit => ~ Full(u, c)
       /\ Depot \in {c} \cup ToSet(Around(u, c)) =>
             Held(u, Depot)
               + (IF Depot \notin ToSet(Around(u, i))
                  THEN IF i \in Cases THEN Held(u, i) + 1 ELSE 1
                  ELSE IF i \in Coins /\ u.count[i] # count THEN 1 ELSE 0) <= DepotLimit

(* Container::__queryMaxCount; the index is one that __queryDestination gave. *)
MaxCount(u, c, index, i, count, nolimit) ==
    IF c = Ground \/ nolimit THEN IF count = 0 THEN 1 ELSE count
    ELSE LET free == IF Full(u, c) THEN 0 ELSE Capacity[c] - Len(u.list[c])
             there == IF index = Whatever THEN DOMAIN u.list[c]
                      ELSE {index + 1} \cap DOMAIN u.list[c]
         IN IF i \in Cases THEN free
            ELSE free * MaxStack + MapThenSumSet(LAMBDA k : Room(u, u.list[c][k], i), there)

(* Container::__queryDestination and Tile::__queryDestination: where to, at  *)
(* which index, to which stack.  The index of the stack found in a bag is    *)
(* the one after it.                                                         *)
QueryDestination(u, c, index, i) ==
    LET wanted == IF c \in Cases /\ index # Up /\ index >= Capacity[c] THEN Whatever ELSE index
        stacks == {k \in DOMAIN Content(u, c) : Room(u, Content(u, c)[k], i) > 0}
        there == IF wanted + 1 \in DOMAIN Content(u, c) THEN Content(u, c)[wanted + 1] ELSE NoItem
        To(d, k, j) == [to |-> d, index |-> k, stack |-> j]
    IN IF c = Ground THEN To(c, index, IF u.ground = <<>> THEN NoItem ELSE Head(u.ground))
       ELSE IF index = Up THEN To(IF u.parent[c] \in Cases THEN u.parent[c] ELSE c, Whatever, NoItem)
       ELSE IF stacks # {} /\ u.parent[i] # c
       THEN To(c, Max(stacks), Content(u, c)[Max(stacks)])
       ELSE IF there \in Cases THEN To(there, Whatever, NoItem)
       ELSE To(c, wanted, there)

(* The bags that Player::__queryDestination looks into, in its order.        *)
Worn(u) == <<Backpack>> \o SelectSeq(u.list[Backpack], LAMBDA i : i \in Cases)

(* Player::__queryDestination for whatever slot there is.                    *)
PlayerDestination(u, i) ==
    LET bags == Worn(u)
        Stacks(b) == {k \in DOMAIN u.list[b] : k <= Capacity[b] /\ Room(u, u.list[b][k], i) > 0}
        with == {n \in DOMAIN bags : Stacks(bags[n]) # {}}
        open == {n \in DOMAIN bags : ~ Full(u, bags[n])}
    IN IF with # {}
       THEN LET b == bags[Min(with)] IN
            [to |-> b, index |-> Min(Stacks(b)) - 1, stack |-> u.list[b][Min(Stacks(b))]]
       ELSE IF open # {}
       THEN [to |-> bags[Min(open)], index |-> Len(u.list[bags[Min(open)]]), stack |-> NoItem]
       ELSE [to |-> Player, index |-> Whatever, stack |-> NoItem]

PlayerMaxCount(u, i) ==
    MapThenSumSet(LAMBDA b : MaxCount(u, b, Whatever, i, u.count[i], FALSE), ToSet(Worn(u)))

-----------------------------------------------------------------------------
(* Operations.                                                               *)

(* Where internalMoveItem ends up; the flags are dropped on the way.         *)
RECURSIVE Destination(_, _, _, _, _)
Destination(u, c, index, i, nolimit) ==
    LET q == QueryDestination(u, c, index, i) IN
    IF q.to # c THEN Destination(u, q.to, q.index, i, FALSE)
    ELSE q @@ [nolimit |-> nolimit]

(* Mutant: the rest is what is left of the stack, not of what is moved.      *)
RestOfStack(m, n, i, u) == u.count[i] - n

Rest(m, n, i, u) == m - n

(* What is merged into a stack; the moved item goes if all of it went; the   *)
(* rest is a new stack.                                                      *)
Merge(u, stack, n) == IF n > 0 THEN UpdateThing(u, stack, u.count[stack] + n) ELSE u
FreeMoved(u, i) == IF u.parent[i] = NoItem THEN Free(u, i) ELSE u
Put(q, new) == AddThing(new.world, q.to, q.index, new.item)
AddRest(u, q, type, rest) == IF rest = 0 THEN u ELSE Put(q, Mint(u, type, rest))

MoveStack(u, i, q, m, n) ==
    AddRest(FreeMoved(Merge(RemoveThing(u, i, m), q.stack, n), i), q, u.type[i], Rest(m, n, i, u))

MoveSome(u, i, q, m) == MoveStack(u, i, q, m, Min({Room(u, q.stack, i), m}))

MoveMost(u, i, q, count, most) ==
    IF most = 0 THEN u
    ELSE IF i \in Cases THEN AddThing(RemoveThing(u, i, most), q.to, q.index, i)
    ELSE IF Min({count, most}) > u.count[i] THEN u
    ELSE MoveSome(u, i, q, Min({count, most}))

MoveTo(u, i, q, count) ==
    IF i = q.stack \/ ~ QueryAdd(u, q.to, q.index, i, count, q.nolimit) THEN u
    ELSE MoveMost(u, i, q, count, MaxCount(u, q.to, q.index, i, count, q.nolimit))

(* Game::internalMoveItem.                                                   *)
MoveItem(u, i, c, index, count, nolimit) ==
    MoveTo(u, i, Destination(u, c, index, i, nolimit), count)

(* Game::internalAddItem of a new stack; rest is what it could not add after *)
(* it had added something (remainderCount), stack where it added that.       *)
AddsTo(u, c, i) ==
    IF c = Player THEN PlayerDestination(u, i) ELSE QueryDestination(u, c, Whatever, i)

AddsAtMost(u, c, i, nolimit) ==
    IF c = Player THEN PlayerMaxCount(u, i)
    ELSE MaxCount(u, c, Whatever, i, u.count[i], nolimit)

Added(q, u, ok, left) == [world |-> u, ok |-> ok, rest |-> left, stack |-> q.stack]

(* What could not be added any more is freed.                                *)
AddedMore(q, new, more, rest) ==
    IF more.ok THEN Added(q, more.world, TRUE, 0)
    ELSE Added(q, Free(more.world, new.item), FALSE, rest)

RECURSIVE AddItem(_, _, _, _)
AddNew(q, new, rest, nolimit) ==
    AddedMore(q, new, AddItem(new.world, q.to, new.item, nolimit), rest)

AddToStack(u, q, i, n, nolimit) ==
    LET merged == UpdateThing(u, q.stack, u.count[q.stack] + Min({n, u.count[i]})) IN
    IF u.count[i] <= n THEN Added(q, Free(merged, i), TRUE, 0)
    ELSE AddNew(q, Mint(Free(merged, i), u.type[i], u.count[i] - n), u.count[i] - n, nolimit)

AddInto(u, q, i, n, nolimit) ==
    IF n = 0 THEN Added(q, AddThing(u, q.to, q.index, i), TRUE, 0)
    ELSE AddToStack(u, q, i, n, nolimit)

AddAt(u, q, c, i, nolimit) ==
    IF q.to = Player \/ ~ QueryAdd(u, q.to, q.index, i, u.count[i], nolimit)
          \/ AddsAtMost(u, c, i, nolimit) < u.count[i]
    THEN Added(q, u, FALSE, 0)
    ELSE AddInto(u, q, i, Room(u, q.stack, i), nolimit)

AddItem(u, c, i, nolimit) == AddAt(u, AddsTo(u, c, i), c, i, nolimit)

(* CreateItem and internalAddItem, with the ground for what found no place   *)
(* (addMoney, and internalPlayerAddItem with dropOnMap).                     *)
DropOnMap(left) == AddItem(left.world, Ground, left.item, TRUE).world

OrDrop(new, added, type) ==
    IF added.ok THEN added.world
    ELSE DropOnMap(IF added.rest > 0 THEN Mint(added.world, type, added.rest)
                   ELSE [item |-> new.item, world |-> added.world])

GiveNew(new, type) == OrDrop(new, AddItem(new.world, Player, new.item, FALSE), type)

Give(u, type, count) == GiveNew(Mint(u, type, count), type)

(* internalPlayerAddItem without dropOnMap: what was added is taken back.    *)
OrTakeBack(new, added, count) ==
    IF added.ok THEN added.world
    ELSE IF added.rest = 0 THEN Free(added.world, new.item)
    ELSE UpdateThing(added.world, added.stack,
                     added.world.count[added.stack] - (count - added.rest))

GiveNewOrNot(new, count) == OrTakeBack(new, AddItem(new.world, Player, new.item, FALSE), count)

GiveOrNot(u, type, count) == GiveNewOrNot(Mint(u, type, count), count)

(* Game::internalRemoveItem.                                                 *)
RemoveItem(u, i, count) ==
    LET out == RemoveThing(u, i, count) IN IF count = u.count[i] THEN Free(out, i) ELSE out

(* Game::removeItemOfType, bag by bag.                                       *)
RemoveItemOfType(u, stacks, count) ==
    FoldLeft(LAMBDA x, i :
                LET n == Min({x.left, x.world.count[i]}) IN
                IF n = 0 THEN x
                ELSE [left |-> x.left - n, world |-> RemoveItem(x.world, i, n)],
             [left |-> count, world |-> u], stacks)

(* Game::addMoney: coins of the highest worth first.                         *)
RECURSIVE AddMoney(_, _, _)
AddMoney(u, sum, type) ==
    LET n == Min({MaxStack, sum \div Worth[type]}) IN
    IF type \notin Types THEN u
    ELSE IF n = 0 THEN AddMoney(u, sum, type - 1)
    ELSE AddMoney(Give(u, type, n), sum - n * Worth[type], type)

GetMoney(u) == Value(u, Carried(u))

(* Game::removeMoney: the stacks that are worth least first, with change.    *)
RemoveMoney(u, sum) ==
    LET stacks == SetToSortSeq(Carried(u), LAMBDA i, j : Value(u, {i}) < Value(u, {j}))
        Take(x, i) ==
            LET out == RemoveItem(x.world, i, x.world.count[i])
                worth == Value(x.world, {i})
            IN IF x.left <= 0 THEN x
               ELSE IF worth > x.left
               THEN [left |-> 0, world |-> AddMoney(out, worth - x.left, Max(Types))]
               ELSE [left |-> x.left - worth, world |-> out]
    IN FoldLeft(Take, [left |-> sum, world |-> u], stacks).world

-----------------------------------------------------------------------------
Init == \E spot \in {Backpack, Depot, Ground} : w = Start(spot)

Room2 == Cardinality(Unused(w)) >= 2    \* bound: addresses for two new stacks
There(i) == w.parent[i] # NoItem

(* A creature drops coins, a script makes some.                              *)
Drop(type, n) ==
    /\ Unused(w) # {}
    /\ LET new == Mint(w, type, n) IN
       w' = [AddItem(new.world, Ground, new.item, TRUE).world EXCEPT !.value = @ + n * Worth[type]]

(* doPlayerAddItem.                                                          *)
Receive(type, n) ==
    /\ Unused(w) # {}
    /\ w' = [Give(w, type, n) EXCEPT !.value = @ + n * Worth[type]]

(* The same without dropOnMap, which says how much there is afterwards.      *)
TryToReceive(type, n) ==
    /\ Unused(w) # {}
    /\ LET v == GiveOrNot(w, type, n)
           more == Value(v, {i \in Coins : v.parent[i] # NoItem})
                     - Value(w, {i \in Coins : There(i)})
       IN w' = [v EXCEPT !.value = @ + IF more > 0 THEN n * Worth[type] ELSE 0]

(* Game::playerMoveItem, to a place in a bag or to the ground.               *)
PlayerMoveItem(i, c, index, count) ==
    /\ There(i) /\ count <= (IF i \in Coins THEN w.count[i] ELSE 1) /\ Unused(w) # {}
    /\ w' = MoveItem(w, i, c, index, count, FALSE)

(* House::transferToDepot: everything that lies on the tile of the house.    *)
(* What a full depot loses is not counted as missing.                        *)
TransferToDepot ==
    LET v == FoldLeft(LAMBDA u, i : MoveItem(u, i, Depot, Whatever, IF i \in Coins THEN u.count[i] ELSE 1, TRUE),
                      w, w.ground)
    IN /\ w.ground # <<>>
       /\ w' = [v EXCEPT !.value = @ - v.lost, !.lost = 0]

(* Game::removeMoney for a fee or a price.                                   *)
Pay(sum) ==
    /\ GetMoney(w) >= sum /\ Unused(w) # {}
    /\ w' = [RemoveMoney(w, sum) EXCEPT !.value = @ - sum]

Earn(sum) ==
    /\ Room2
    /\ w' = [AddMoney(w, sum, Max(Types)) EXCEPT !.value = @ + sum]

(* doRemoveItem.                                                             *)
DoRemoveItem(i, n) ==
    /\ There(i) /\ n <= w.count[i]
    /\ w' = [RemoveItem(w, i, n) EXCEPT !.value = @ - n * Worth[w.type[i]]]

(* doPlayerRemoveItem.                                                       *)
TakeAway(type, n) ==
    LET stacks == SetToSeq({i \in Carried(w) : w.type[i] = type})
        taken == RemoveItemOfType(w, stacks, n)
    IN /\ n * Worth[type] <= Value(w, ToSet(stacks))
       /\ w' = [taken.world EXCEPT !.value = @ - n * Worth[type]]

Next ==
    \/ \E type \in Types, n \in 1 .. MaxStack :
          Drop(type, n) \/ Receive(type, n) \/ TryToReceive(type, n) \/ TakeAway(type, n)
    \/ \E i \in Coins \cup {Pouch}, b \in Cases, n \in 1 .. MaxStack :
          \E index \in 0 .. Capacity[b] \cup {Up} : PlayerMoveItem(i, b, index, n)
    \/ \E i \in Coins \cup {Pouch}, n \in 1 .. MaxStack : PlayerMoveItem(i, Ground, 0, n)
    \/ \E i \in Coins, n \in 1 .. MaxStack : DoRemoveItem(i, n)
    \/ \E sum \in Sums : Pay(sum) \/ Earn(sum)
    \/ TransferToDepot

-----------------------------------------------------------------------------
(* Nothing is made and nothing is lost: however stacks are split and merged, *)
(* a price is paid with change and what finds no room is dropped or taken    *)
(* back, there is as much as was given (game.cpp:1543-1836, 2048, 2104).     *)
(* Only a house that is left may lose what its depot has no index for.       *)
ItemsConserved ==
    /\ w.lost = 0
    /\ Value(w, {i \in Coins : There(i)}) = w.value
    /\ \A i \in Coins : There(i) <=> w.count[i] > 0

(* Every bag lists what is in it, once, and is as heavy as that             *)
(* (container.cpp:120, 440-700); no bag is in itself and none is over-full   *)
(* but a depot.                                                              *)
BagsAgree ==
    /\ \A c \in Cases \cup {Ground} :
          /\ IsInjective(Content(w, c))
          /\ ToSet(Content(w, c)) = {i \in Things : w.parent[i] = c} \ {Depot}
    /\ \A b \in Cases :
          /\ w.weight[b] = MapThenSumSet(LAMBDA i : Weight(w, i), ToSet(w.list[b]))
          /\ b # Depot => Len(w.list[b]) <= Capacity[b]
=============================================================================
