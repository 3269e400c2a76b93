------------------------------- MODULE Tiles -------------------------------
(* The stack of things on one tile, and what the client of a player who      *)
(* stands still in sight of it knows of it (tile.cpp, protocolgame.cpp): the *)
(* server tells the client of changes by the place in the stack, of which    *)
(* the client keeps the first ten, and computes that place for each client,  *)
(* since some creatures are hidden from it.                                  *)
(*                                                                           *)
(* An item is its type.  Left out: teleports, trash holders and mailboxes on *)
(* the tile, which take what is added away again, and the player's own walk, *)
(* which sends whole tiles.                                                  *)
EXTENDS Integers, SequencesExt, FiniteSetsExt

CONSTANTS
    Creatures,
    Ground, Top, Down,  \* types of items that are ground, always on top, or neither
    Order,              \* alwaysOnTopOrder
    Splashes,           \* at most one of them lies on a tile
    Fields, Fixed,      \* magic fields, and those that nothing replaces
    Kind,               \* ItemType_t
    Limit,              \* how many things a client keeps of a tile: 10
    MaxThings           \* bound

VARIABLE w

Lost == <<"lost">>      \* a view that is known to be wrong

TypeOK ==
    /\ w.ground \in {<<>>} \cup {<<t>> : t \in Ground}
    /\ w.top \in Seq(Top) /\ w.down \in Seq(Down)
    /\ w.creatures \in Seq(Creatures) /\ IsInjective(w.creatures)
    /\ w.hidden \subseteq Creatures
    /\ w.view \in {Lost} \cup Seq(Creatures \cup Ground \cup Top \cup Down)

(* The tile's things: creatures lists the newest first (tile.cpp:864), and   *)
(* is read backwards for the client, which sees of its last n those that are *)
(* not hidden.                                                               *)
Count(u) == Len(u.ground) + Len(u.top) + Len(u.creatures) + Len(u.down)
SeenOf(u, n) ==
    LET f[k \in 0 .. n] ==
            IF k = 0 THEN <<>>
            ELSE LET c == u.creatures[Len(u.creatures) - k + 1]
                 IN  IF c \in u.hidden THEN f[k - 1] ELSE Append(f[k - 1], c)
    IN  f[n]
Seen(u) == SeenOf(u, Len(u.creatures))
First(s) == SubSeq(s, 1, IF Len(s) > Limit THEN Limit ELSE Len(s))

(* ProtocolGame::GetTileDescription.                                         *)
Description(u) == u.ground \o u.top \o Seen(u) \o u.down
Shown(u) == First(Description(u))

(* Tile::getClientIndexOfThing: one above what the code sends.               *)
TopIndex(u, k) == Len(u.ground) + k
PlaceOf(u, c) == CHOOSE k \in DOMAIN u.creatures : u.creatures[k] = c
CreatureIndex(u, c) ==
    Len(u.ground) + Len(u.top) + Len(SeenOf(u, Len(u.creatures) - PlaceOf(u, c))) + 1
DownIndex(u, k) == Len(u.ground) + Len(u.top) + Len(Seen(u)) + k

-----------------------------------------------------------------------------
(* What the client does with a message; AddTileItem, UpdateTileItem,         *)
(* RemoveTileItem and AddTileCreature send nothing beyond the limit.         *)
Told(u, i, view) == IF u.view = Lost \/ i > Limit THEN u ELSE [u EXCEPT !.view = First(view)]
ClientAdd(u, i, x) ==
    Told(u, i, IF i > Len(u.view) THEN Append(u.view, x) ELSE InsertAt(u.view, i, x))
ClientUpdate(u, i, x) ==
    Told(u, i, IF i > Len(u.view) THEN Append(u.view, x) ELSE ReplaceAt(u.view, i, x))
ClientRemove(u, i) ==
    Told(u, i, IF i > Len(u.view) THEN u.view ELSE RemoveAt(u.view, i))

(* Tile::onUpdateTile.                                                       *)
UpdateTile(u) == [u EXCEPT !.view = Shown(u)]

(* Mutant: one thing too late.                                               *)
PostRemoveLate(u) == IF Count(u) > Limit THEN UpdateTile(u) ELSE u

(* Tile::postRemoveNotification: a thing that a client left out may have     *)
(* come within its limit.                                                    *)
PostRemove(u) == IF Count(u) > Limit - 2 THEN UpdateTile(u) ELSE u

-----------------------------------------------------------------------------
(* Tile::__removeThing of a whole item.                                      *)
RemoveGround(u) == ClientRemove([u EXCEPT !.ground = <<>>], 1)
RemoveTop(u, k) == ClientRemove([u EXCEPT !.top = RemoveAt(@, k)], TopIndex(u, k))
RemoveDown(u, k) == ClientRemove([u EXCEPT !.down = RemoveAt(@, k)], DownIndex(u, k))

(* Tile::__addThing.                                                         *)
AddGround(u, t) ==
    LET new == [u EXCEPT !.ground = <<t>>]
    IN  IF u.ground = <<>> THEN ClientAdd(new, 1, t) ELSE UpdateTile(PostRemove(new))

WithoutSplash(u) ==
    LET k == SelectInSeq(u.top, LAMBDA t : t \in Splashes)
    IN  IF k = 0 THEN u ELSE PostRemove(RemoveTop(u, k))

AddTop(u, t) ==
    LET before == SelectInSeq(u.top, LAMBDA s : Order[t] <= Order[s])
        k == IF before = 0 THEN Len(u.top) + 1 ELSE before
    IN  ClientAdd([u EXCEPT !.top = InsertAt(@, k, t)], TopIndex(u, k), t)

AddDown(u, t) ==
    ClientAdd([u EXCEPT !.down = <<t>> \o @], DownIndex(u, 1), t)

(* A field replaces an old one, unless it must not.                          *)
AddField(u, t) ==
    LET k == SelectInSeq(u.down, LAMBDA s : s \in Fields)
    IN  CASE k = 0 -> AddDown(u, t)
          [] k # 0 /\ u.down[k] \in Fixed -> u
          [] OTHER -> AddDown(PostRemove(RemoveDown(u, k)), t)

Add(u, t) ==
    CASE t \in Ground -> AddGround(u, t)
      [] t \in Splashes -> AddTop(WithoutSplash(u), t)
      [] t \in Top \ Splashes -> AddTop(u, t)
      [] t \in Fields -> AddField(u, t)
      [] OTHER -> AddDown(u, t)

-----------------------------------------------------------------------------
(* An item's place: its part of the stack and its number there.              *)
Stacked(u) ==
    ({"ground"} \X DOMAIN u.ground) \cup ({"top"} \X DOMAIN u.top) \cup ({"down"} \X DOMAIN u.down)
TypeAt(u, p) ==
    CASE p[1] = "ground" -> u.ground[p[2]] [] p[1] = "top" -> u.top[p[2]] [] OTHER -> u.down[p[2]]
Become(u, p, t) ==
    CASE p[1] = "ground" -> [u EXCEPT !.ground = <<t>>]
      [] p[1] = "top" -> [u EXCEPT !.top = ReplaceAt(@, p[2], t)]
      [] OTHER -> [u EXCEPT !.down = ReplaceAt(@, p[2], t)]
IndexAt(u, p) ==
    CASE p[1] = "ground" -> 1 [] p[1] = "top" -> TopIndex(u, p[2]) [] OTHER -> DownIndex(u, p[2])
Taken(u, p) ==
    PostRemove(CASE p[1] = "ground" -> RemoveGround(u)
                 [] p[1] = "top" -> RemoveTop(u, p[2])
                 [] OTHER -> RemoveDown(u, p[2]))

(* Tile::__updateThing.                                                      *)
Update(u, p, t) == ClientUpdate(Become(u, p, t), IndexAt(u, p), t)

(* Tile::__replaceThing: sendUpdateTileItem (player.h:547) looks for the old *)
(* item, which is no longer there, so that nothing is sent.                  *)
Replace(u, p, t) ==
    LET new == Become(u, p, t)
    IN  IF IndexAt(u, p) <= Limit THEN [new EXCEPT !.view = Lost] ELSE new

(* Game::internalAddItem, Game::internalRemoveItem.                          *)
AddItem(t) == Count(w) < MaxThings /\ w' = Add(w, t)
RemoveItem(p) == w' = Taken(w, p)

(* Game::transformItem: on top or not any more, in the same item or in its   *)
(* place.                                                                    *)
TransformItem(p, t) ==
    LET old == TypeAt(w, p) IN
    /\ t # old /\ (old \in Ground <=> t \in Ground)
    /\ \/ (old \in Top) # (t \in Top) /\ w' = Add(Taken(w, p), t)
       \/ /\ (old \in Top) = (t \in Top)
          /\ w' = IF Kind[old] = Kind[t]
                  THEN Update(PostRemove(w), p, t)
                  ELSE PostRemove(Replace(w, p, t))

-----------------------------------------------------------------------------
(* A creature comes: placed, from out of sight or from afar its place is     *)
(* sent; a step that the client sees (0x6D) leaves the place to the client,  *)
(* which puts it after the other creatures (Game::placeCreature,             *)
(* Tile::moveCreature, sendMoveCreature).                                    *)
ClientPlace(u) ==
    Cardinality({k \in DOMAIN u.view : u.view[k] \notin Down}) + 1
Arrive(c, seen) ==
    /\ c \notin ToSet(w.creatures) /\ Count(w) < MaxThings
    /\ LET new == [w EXCEPT !.creatures = <<c>> \o @]
       IN  w' = CASE c \in w.hidden -> new
                  [] c \notin w.hidden /\ seen /\ w.view # Lost ->
                        ClientAdd(new, ClientPlace(w), c)
                  [] OTHER -> ClientAdd(new, CreatureIndex(new, c), c)

(* Tile::moveCreature, Game::removeCreature: the place is computed before.   *)
Leave(c) ==
    /\ c \in ToSet(w.creatures)
    /\ LET new == [w EXCEPT !.creatures = RemoveAt(@, PlaceOf(w, c))]
       IN  w' = PostRemove(IF c \in w.hidden THEN new
                           ELSE ClientRemove(new, CreatureIndex(w, c)))

(* Player::sendCreatureChangeVisible, for a monster or a ghost.  Nothing is  *)
(* sent of what comes within the limit when a creature is hidden.            *)
Hide(c) ==
    /\ c \notin w.hidden
    /\ LET new == [w EXCEPT !.hidden = @ \cup {c}]
       IN  w' = CASE c \notin ToSet(w.creatures) -> new
                  [] /\ c \in ToSet(w.creatures) /\ CreatureIndex(w, c) <= Limit
                     /\ Len(Description(w)) > Limit -> [new EXCEPT !.view = Lost]
                  [] OTHER -> ClientRemove(new, CreatureIndex(w, c))
Show(c) ==
    /\ c \in w.hidden
    /\ LET new == [w EXCEPT !.hidden = @ \ {c}]
       IN  w' = IF c \in ToSet(w.creatures) THEN ClientAdd(new, CreatureIndex(new, c), c) ELSE new

(* The player comes into sight of the tile, where the map put its ground.    *)
Init ==
    \E t \in Ground :
        w = [ground |-> <<t>>, top |-> <<>>, creatures |-> <<>>, down |-> <<>>,
             hidden |-> {}, view |-> <<t>>]

Next ==
    \/ \E t \in Ground \cup Top \cup Down : AddItem(t)
    \/ \E p \in Stacked(w) : RemoveItem(p)
    \/ \E p \in Stacked(w), t \in Ground \cup Top \cup Down : TransformItem(p, t)
    \/ \E c \in Creatures, seen \in BOOLEAN : Arrive(c, seen)
    \/ \E c \in Creatures : Leave(c) \/ Hide(c) \/ Show(c)

-----------------------------------------------------------------------------
(* The client's stack is the beginning of the tile's, through every change   *)
(* that is told by its place and every creature that is hidden from it, so   *)
(* that the place that a click names is the thing that was clicked (tile.cpp:*)
(* 864-1640): but from an item that is replaced by one of another kind, or a *)
(* creature that hides on a crowded tile, until the tile is sent again.      *)
ClientAgrees == w.view # Lost => w.view = Shown(w)
=============================================================================
