------------------------------- MODULE Decay -------------------------------
(* Items that decay (game.cpp, item.cpp): startDecay lists an item, cleanup  *)
(* puts it into one of the buckets, checkDecay goes through one bucket in    *)
(* every interval, and transformItem changes or replaces an item whether it  *)
(* is listed or not.  All of it runs in the dispatcher.                      *)
(*                                                                           *)
(* Time is counted in decay intervals.  Left out: charges, what makes an     *)
(* item of the map unable to decay, and items that change their stack order. *)
EXTENDS Integers, Sequences, SequencesExt

CONSTANTS
    Items,          \* addresses of items (bound)
    Types,
    DecayTo,        \* 0: the item is removed, -1: it does not decay
    DecayTime,      \* in intervals
    StopTime,       \* the types that keep what is left of their duration
    Kind,           \* ItemType.type
    Durations,      \* what a script may set a duration to
    Buckets,        \* EVENT_DECAYBUCKETS
    Second,         \* intervals in the second that the buckets are computed with
    NoType

VARIABLE w

Spots == {"tile", "bag"}

Start ==
    [type     |-> [i \in Items |-> NoType],     \* NoType: no such item
     place    |-> [i \in Items |-> "none"],     \* its cylinder
     refs     |-> [i \in Items |-> 0],
     release  |-> [i \in Items |-> 0],          \* its places in releaseThings
     duration |-> [i \in Items |-> 0],
     decaying |-> [i \in Items |-> FALSE],
     due      |-> [i \in Items |-> 0],          \* when it must have decayed (history)
     twice    |-> {},                           \* what was freed twice (history)
     toDecay  |-> <<>>,
     bucket   |-> [b \in 0 .. Buckets - 1 |-> <<>>],
     last     |-> 0]

TypeOK ==
    /\ w.type \in [Items -> Types \cup {NoType}]
    /\ w.place \in [Items -> Spots \cup {"none"}]
    /\ w.refs \in [Items -> Int] /\ w.release \in [Items -> Nat]
    /\ w.duration \in [Items -> Nat] /\ w.due \in [Items -> Int]
    /\ w.decaying \in [Items -> BOOLEAN]
    /\ w.twice \subseteq Items
    /\ w.toDecay \in Seq(Items)
    /\ w.bucket \in [0 .. Buckets - 1 -> Seq(Items)]
    /\ w.last \in 0 .. Buckets - 1

Times(i, s) == Len(SelectSeq(s, LAMBDA j : j = i))
Listings(u, i) ==
    Times(i, u.toDecay) + FoldFunction(LAMBDA s, n : Times(i, s) + n, 0, u.bucket)

FreeThing(u, i) == [u EXCEPT !.release[i] = @ + 1]

(* Item::canDecay, for an item that was not loaded with the map.             *)
CanDecay(u, i) ==
    /\ u.place[i] # "none"
    /\ DecayTo[u.type[i]] >= 0 /\ DecayTime[u.type[i]] > 0

-----------------------------------------------------------------------------
(* Item::setID.                                                              *)
SetID(u, i, type) ==
    LET plain == DecayTime[type] = 0 /\ type \notin StopTime /\ DecayTo[type] = -1
        fresh == DecayTime[type] > 0 /\ (u.type[i] \notin StopTime \/ u.duration[i] = 0)
    IN [u EXCEPT
          !.type[i] = type,
          !.duration[i] = IF plain THEN 0 ELSE IF fresh THEN DecayTime[type] ELSE @,
          !.due[i] = IF fresh THEN DecayTime[type] + 1 ELSE @,
          !.decaying[i] = @ /\ ~ plain /\ ~ fresh]

(* Game::internalRemoveItem.                                                 *)
RemoveItem(u, i) == FreeThing([u EXCEPT !.place[i] = "none"], i)

(* The new item of transformItem: it has no duration (copyAttributes), and   *)
(* a tile frees the old one too (Tile::__replaceThing).                      *)
Replace(u, i, n, type) ==
    LET made == [u EXCEPT !.type[n] = type, !.refs[n] = 1, !.duration[n] = 0,
                          !.decaying[n] = FALSE, !.due[n] = 0,
                          !.place[n] = u.place[i], !.place[i] = "none"]
    IN IF u.place[i] = "tile"
       THEN FreeThing(FreeThing([made EXCEPT !.twice = @ \cup {i}], i), i)
       ELSE FreeThing(made, i)

(* Game::transformItem; the new item is at the address n if there is one.    *)
Transformed(u, i, n, type) ==
    IF u.place[i] = "none" \/ u.type[i] = type THEN u
    ELSE IF Kind[u.type[i]] = Kind[type] THEN SetID(u, i, type)
    ELSE Replace(u, i, n, type)

Result(u, i, n, type) ==
    IF u.type[i] = type \/ Kind[u.type[i]] = Kind[type] THEN i ELSE n

(* Mutant: who lists an item holds no reference.                             *)
ListedBare(u, i) ==
    [u EXCEPT !.decaying[i] = TRUE, !.toDecay = Append(@, i), !.due[i] = u.duration[i] + 1]

(* Game::startDecay of an item that does not decay at once.                  *)
Listed(u, i) ==
    [u EXCEPT !.refs[i] = @ + 1, !.decaying[i] = TRUE, !.toDecay = Append(@, i),
              !.due[i] = u.duration[i] + 1]

(* Game::startDecay and Game::internalDecayItem; n is an unused address.     *)
RECURSIVE StartDecay(_, _, _)
DecayItem(u, i, n) ==
    IF DecayTo[u.type[i]] = 0 THEN RemoveItem(u, i)
    ELSE LET type == DecayTo[u.type[i]] IN
         StartDecay(Transformed(u, i, n, type), Result(u, i, n, type), n)

StartDecay(u, i, n) ==
    IF ~ CanDecay(u, i) \/ u.decaying[i] THEN u
    ELSE IF u.duration[i] > 0 THEN Listed(u, i)
    ELSE DecayItem(u, i, n)

-----------------------------------------------------------------------------
(* Thing::unRef for whatever waits in releaseThings.  (The third release of  *)
(* an item freed twice writes into memory that was given back: no effect.)   *)
Released(u) ==
    LET left == [i \in Items |-> u.refs[i] - u.release[i]]
        gone == {i \in Items : left[i] <= 0}
        Kept(f, none) == [i \in Items |-> IF i \in gone THEN none ELSE f[i]]
    IN [u EXCEPT !.refs = Kept(left, 0), !.release = [i \in Items |-> 0],
                 !.type = Kept(@, NoType), !.duration = Kept(@, 0),
                 !.decaying = Kept(@, FALSE), !.due = Kept(@, 0), !.twice = @ \ gone]

(* Game::cleanup.                                                            *)
BucketOf(u, i) ==
    IF u.duration[i] >= Buckets THEN u.last
    ELSE (u.last + 1 + u.duration[i] \div Second) % Buckets

Cleanup(u) ==
    LET v == Released(u) IN
    FoldLeft(LAMBDA x, i : [x EXCEPT !.bucket[BucketOf(x, i)] = Append(@, i)],
             [v EXCEPT !.toDecay = <<>>], v.toDecay)

(* Mutant: an interval passes, not a round.                                  *)
DecreaseOfInterval(d) == IF d - 1 < 0 THEN d ELSE 1

(* What checkDecay takes from a duration.                                    *)
Decrease(d) == IF d - Buckets < 0 THEN d ELSE Buckets

(* Game::checkDecay for one item of the bucket b.                            *)
Visit(u, b, i, n) ==
    LET out == [u EXCEPT !.bucket[b] = Tail(@)]
        left == u.duration[i] - Decrease(u.duration[i])
        aged == [out EXCEPT !.duration[i] = left]
        next == (b + (2 * left + 1) \div (2 * Second)) % Buckets
    IN IF ~ CanDecay(u, i) THEN FreeThing([out EXCEPT !.decaying[i] = FALSE], i)
       ELSE IF left <= 0 \/ (left < Buckets /\ next = b)
       THEN FreeThing(DecayItem(aged, i, n), i)
       ELSE IF left < Buckets THEN [aged EXCEPT !.bucket[next] = Append(@, i)]
       ELSE [aged EXCEPT !.bucket[b] = Append(@, i)]

Unused(u) == {n \in Items : u.type[n] = NoType}

VisitAll(u, b) ==
    FoldLeft(LAMBDA x, i : Visit(x, b, i, CHOOSE n \in Unused(u) : TRUE), u, u.bucket[b])

Room == Unused(w) # {}

CheckDecay ==
    LET b == (w.last + 1) % Buckets
        later == [w EXCEPT !.due = [i \in Items |-> IF Listings(w, i) > 0 THEN @[i] - 1 ELSE @[i]]]
    IN /\ w.bucket[b] # <<>> => Room
       /\ w' = Cleanup([VisitAll(later, b) EXCEPT !.last = b])

-----------------------------------------------------------------------------
Init == w = Start

(* Item::CreateItem and Game::internalAddItem, by whoever makes items;       *)
(* bound: one item and what replaces it.                                     *)
Create(i, type, place) ==
    /\ i \in Unused(w) /\ Unused(w) # {i}
    /\ w' = [w EXCEPT !.type[i] = type, !.place[i] = place, !.refs[i] = 1,
                      !.duration[i] = DecayTime[type], !.due[i] = 0]

(* doDecayItem, __startDecaying; bound: an item is listed twice at most.     *)
Decay(i) ==
    /\ w.place[i] # "none" /\ Listings(w, i) < 2 /\ Room
    /\ w' = StartDecay(w, i, CHOOSE n \in Unused(w) : TRUE)

(* doTransformItem, and the transformations of MoveEvent::EquipItem and      *)
(* DeEquipItem.  Bound: no listed item is replaced.                          *)
Transform(i, type) ==
    /\ w.place[i] # "none" /\ w.type[i] # type /\ Room
    /\ Kind[w.type[i]] # Kind[type] => Listings(w, i) = 0
    /\ w' = Transformed(w, i, CHOOSE n \in Unused(w) : TRUE, type)

(* doRemoveItem, a trash holder.                                             *)
Removal(i) ==
    /\ w.place[i] # "none"
    /\ w' = RemoveItem(w, i)

(* doItemSetAttribute(item, "duration", d), for an item that is not listed.  *)
SetDuration(i, d) ==
    /\ w.place[i] # "none" /\ Listings(w, i) = 0 /\ DecayTime[w.type[i]] > 0
    /\ w' = [w EXCEPT !.duration[i] = d]

(* The cleanup of Game::checkCreatures, for one.                             *)
CleanupElsewhere == w' = Cleanup(w)

Next ==
    \/ \E i \in Items, type \in Types, place \in Spots : Create(i, type, place)
    \/ \E i \in Items : Decay(i) \/ Removal(i)
    \/ \E i \in Items, type \in Types : Transform(i, type)
    \/ \E i \in Items, d \in Durations : SetDuration(i, d)
    \/ CheckDecay \/ CleanupElsewhere

-----------------------------------------------------------------------------
(* An item is counted as often as it is held by a cylinder, by the lists of  *)
(* what decays (twice, if a script transforms what is listed and starts it   *)
(* again) and by what waits to be released, so that none of them ever names  *)
(* an item that was freed (game.cpp:5240, 5276, 5290, 6864).  Only what a    *)
(* tile has replaced is released once too often (tile.cpp:1163, game.cpp:2245). *)
DecayRefs ==
    \A i \in Items \ w.twice :
       /\ w.refs[i] = Listings(w, i) + w.release[i] + IF w.place[i] = "none" THEN 0 ELSE 1
       /\ w.type[i] # NoType <=> w.refs[i] > 0

(* Whatever is done to an item meanwhile, it does not outlast its duration   *)
(* by more than the interval in which it was listed (game.cpp:5280, 6868).   *)
NeverLate ==
    \A i \in Items : Listings(w, i) > 0 /\ CanDecay(w, i) => w.due[i] >= 0
=============================================================================
