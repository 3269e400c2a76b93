----------------------------- MODULE Creatures -----------------------------
(* Players and monsters in the world, and what they hold of each other       *)
(* (creature.cpp, monster.cpp, game.cpp): the attacked creature and the      *)
(* master are bare pointers; summons, a monster's friends and targets, the   *)
(* vectors of checkCreatures and the world hold references; what is released *)
(* loses its reference when the next check ends.                             *)
(* All of it runs in the dispatcher.  An operation is a function of the      *)
(* world w, a record with a field for each piece of state.                   *)
(*                                                                           *)
(* Two creatures see each other if they are at the same place.  Left out:    *)
(* followCreature (set and cleared with attackedCreature), conditions,       *)
(* scripts that deny a death, and the teleporting of summons (off by         *)
(* default).                                                                 *)
EXTENDS Naturals, FiniteSetsExt

CONSTANTS
    Players, Monsters,
    Places,
    Vectors,        \* the vectors that checkCreatures goes through in turn
    VectorOf,       \* the vector that a creature will be put into
    MaxSummons,     \* bound: summons of one creature
    None

Creatures == Players \cup Monsters

VARIABLE w          \* the world

Start ==
    [life     |-> [c \in Creatures |-> "none"],
     place    |-> [c \in Creatures |-> None],
     dead     |-> [c \in Creatures |-> FALSE],      \* health is zero
     attacked |-> [c \in Creatures |-> None],
     master   |-> [c \in Creatures |-> None],
     summons  |-> [c \in Creatures |-> {}],
     friends  |-> [c \in Creatures |-> {}],
     targets  |-> [c \in Creatures |-> {}],
     inRange  |-> [c \in Creatures |-> FALSE],      \* isMasterInRange
     idle     |-> [c \in Creatures |-> FALSE],
     checked  |-> [c \in Creatures |-> FALSE],
     listed   |-> [c \in Creatures |-> FALSE],      \* checkVector >= 0
     release  |-> [c \in Creatures |-> 0],          \* its places in releaseThings
     refs     |-> [c \in Creatures |-> 0]]

TypeOK ==
    /\ w.life \in [Creatures -> {"none", "placed", "removed", "freed"}]
    /\ w.place \in [Creatures -> Places \cup {None}]
    /\ w.attacked \in [Creatures -> Creatures \cup {None}]
    /\ w.master \in [Creatures -> Creatures \cup {None}]
    /\ w.summons \in [Creatures -> SUBSET Creatures]
    /\ w.friends \in [Creatures -> SUBSET Creatures]
    /\ w.targets \in [Creatures -> SUBSET Creatures]
    /\ \A f \in {w.dead, w.inRange, w.idle, w.checked, w.listed} : f \in [Creatures -> BOOLEAN]
    /\ w.release \in [Creatures -> Nat] /\ w.refs \in [Creatures -> Nat]

Placed(u) == {c \in Creatures : u.life[c] = "placed"}
Sees(u, x, c) == u.place[x] = u.place[c]
Spectators(u, place) == {x \in Placed(u) : u.place[x] = place}
PlayerMaster(u, c) == IF u.master[c] \in Players THEN u.master[c] ELSE None
MasterOf(u, m) == {c \in {u.master[m]} : c # None}

-----------------------------------------------------------------------------
(* References.                                                               *)
AddRef(u, c) == [u EXCEPT !.refs[c] = @ + 1]

(* Thing::unRef, with ~Monster and ~Creature for the last reference.         *)
RECURSIVE UnRef(_, _), UnRefAll(_, _)
UnRefAll(u, S) == FoldSet(LAMBDA c, v : UnRef(v, c), u, S)
UnRef(u, c) ==
    IF u.refs[c] # 1 THEN [u EXCEPT !.refs[c] = @ - 1]
    ELSE LET freed == [u EXCEPT !.refs[c] = 0, !.life[c] = "freed", !.attacked[c] = None,
                                !.summons[c] = {}, !.friends[c] = {}, !.targets[c] = {},
                                !.master = [s \in Creatures |->
                                              IF s \in u.summons[c] THEN None ELSE @[s]]]
         IN UnRefAll(UnRefAll(UnRefAll(freed, u.targets[c]), u.friends[c]), u.summons[c])

(* Creature::addSummon, Creature::removeSummon.                              *)
AddSummon(u, c, s) ==
    AddRef([u EXCEPT !.master[s] = c, !.summons[c] = @ \cup {s}], s)

RemoveSummon(u, c, s) ==
    IF s \notin u.summons[c] THEN u
    ELSE UnRef([u EXCEPT !.master[s] = None, !.summons[c] = @ \ {s}], s)

(* Creature::setAttackedCreature: the summons attack what their master does. *)
RECURSIVE SetAttacked(_, _, _)
SetAttacked(u, c, target) ==
    IF target # None /\ ~ Sees(u, c, target)
    THEN [u EXCEPT !.attacked[c] = None]
    ELSE FoldSet(LAMBDA s, v : SetAttacked(v, s, target),
                 [u EXCEPT !.attacked[c] = target], u.summons[c])

LoseMaster(u, m) == IF u.master[m] = None THEN u ELSE RemoveSummon(u, u.master[m], m)

-----------------------------------------------------------------------------
(* The check.                                                                *)
(* Mutant: who is still in a vector needs nothing.                           *)
AddCreatureCheckOnce(u, c) ==
    IF u.life[c] # "placed" \/ u.listed[c] THEN u
    ELSE AddRef([u EXCEPT !.checked[c] = TRUE, !.listed[c] = TRUE], c)

(* Game::addCreatureCheck, Game::removeCreatureCheck.                        *)
AddCreatureCheck(u, c) ==
    IF u.life[c] # "placed" THEN u
    ELSE IF u.listed[c] THEN [u EXCEPT !.checked[c] = TRUE]
    ELSE AddRef([u EXCEPT !.checked[c] = TRUE, !.listed[c] = TRUE], c)

RemoveCreatureCheck(u, c) ==
    IF u.listed[c] THEN [u EXCEPT !.checked[c] = FALSE] ELSE u

(* Monster::clearTargetList, clearFriendList.                                *)
ClearLists(u, m) ==
    UnRefAll(UnRefAll([u EXCEPT !.targets[m] = {}, !.friends[m] = {}], u.targets[m]),
             u.friends[m])

(* Monster::setIdle.                                                         *)
SetIdle(u, m, idle) ==
    IF u.life[m] # "placed" \/ u.dead[m] THEN u
    ELSE IF idle THEN RemoveCreatureCheck(ClearLists([u EXCEPT !.idle[m] = TRUE], m), m)
    ELSE AddCreatureCheck([u EXCEPT !.idle[m] = FALSE], m)

(* Monster::changeHealth: a monster that is hurt wakes before it loses       *)
(* health.                                                                   *)
Wake(u, c) == IF c \in Monsters THEN SetIdle(u, c, FALSE) ELSE u
Kill(u, c) == [Wake(u, c) EXCEPT !.dead[c] = TRUE]

(* Mutant: the summons keep their master.                                    *)
DestroySummonsOnly(u, c) ==
    FoldSet(LAMBDA s, v : UnRef(Kill(SetAttacked(v, s, None), s), s),
            [u EXCEPT !.summons[c] = {}], u.summons[c])

(* Creature::destroySummons.                                                 *)
DestroySummons(u, c) ==
    FoldSet(LAMBDA s, v : UnRef([Kill(SetAttacked(v, s, None), s) EXCEPT !.master[s] = None], s),
            [u EXCEPT !.summons[c] = {}], u.summons[c])

(* Monster::updateIdleStatus.                                                *)
UpdateIdle(u, m) ==
    SetIdle(u, m, IF u.master[m] = None THEN u.targets[m] = {}
                  ELSE \/ ~ u.inRange[m]
                       \/ \E c \in MasterOf(u, m) \cap Monsters : u.idle[c])

-----------------------------------------------------------------------------
(* What a monster notices.                                                   *)
(* Monster::isFriend, Monster::isOpponent.                                   *)
IsFriend(u, m, c) ==
    IF PlayerMaster(u, m) = None THEN c \in Monsters /\ u.master[c] = None
    ELSE PlayerMaster(u, m) \in {c, PlayerMaster(u, c)}

IsOpponent(u, m, c) ==
    \/ PlayerMaster(u, m) # None /\ c # u.master[m]
    \/ c \in Players
    \/ PlayerMaster(u, c) # None

(* Monster::onCreatureFound.                                                 *)
Noted(u, list, m, c) == AddRef([u EXCEPT ![list][m] = @ \cup {c}], c)

NoteFriend(u, m, c) ==
    IF IsFriend(u, m, c) /\ c \notin u.friends[m] THEN Noted(u, "friends", m, c) ELSE u

NoteTarget(u, m, c) ==
    IF IsOpponent(u, m, c) /\ c \notin u.targets[m] THEN Noted(u, "targets", m, c) ELSE u

OnFound(u, m, c) == UpdateIdle(NoteTarget(NoteFriend(u, m, c), m, c), m)

(* Monster::onCreatureEnter.                                                 *)
OnEnter(u, m, c) ==
    OnFound(IF u.master[m] = c THEN UpdateIdle([u EXCEPT !.inRange[m] = TRUE], m) ELSE u, m, c)

(* Mutant: the reference stays.                                              *)
ForgetLeaks(u, list, m, c) == [u EXCEPT ![list][m] = @ \ {c}]

(* Monster::onCreatureLeave.                                                 *)
Forget(u, list, m, c) ==
    IF c \in u[list][m] THEN UnRef([u EXCEPT ![list][m] = @ \ {c}], c) ELSE u

MasterLeaves(u, m, c) ==
    IF u.master[m] = c THEN UpdateIdle([u EXCEPT !.inRange[m] = FALSE], m) ELSE u

ForgetFriend(u, m, c) == IF IsFriend(u, m, c) THEN Forget(u, "friends", m, c) ELSE u

IdleWithoutTarget(u, m) == IF u.targets[m] = {} THEN UpdateIdle(u, m) ELSE u

ForgetTarget(u, m, c) ==
    IF IsOpponent(u, m, c) /\ c \in u.targets[m]
    THEN IdleWithoutTarget(Forget(u, "targets", m, c), m) ELSE u

OnLeave(u, m, c) == ForgetTarget(ForgetFriend(MasterLeaves(u, m, c), m, c), m, c)

(* Monster::updateTargetList.                                                *)
Lost(u, m, list) == {c \in u[list][m] : u.dead[c] \/ ~ Sees(u, m, c)}

DropLost(u, m) ==
    UnRefAll(UnRefAll([u EXCEPT !.friends[m] = @ \ Lost(u, m, "friends"),
                                !.targets[m] = @ \ Lost(u, m, "targets")],
                      Lost(u, m, "friends")), Lost(u, m, "targets"))

FindAll(u, m) ==
    FoldSet(LAMBDA c, v : OnFound(v, m, c), u, Spectators(u, u.place[m]) \ {m})

UpdateTargetList(u, m) == FindAll(DropLost(u, m), m)

(* Monster::selectTarget.                                                    *)
SelectTarget(u, m, c) ==
    IF u.life[c] = "placed" /\ Sees(u, m, c) /\ c \in u.targets[m]
    THEN SetAttacked(u, m, c) ELSE u

-----------------------------------------------------------------------------
(* Creature::internalCreatureDisappear for the attacked creature.            *)
LoseAttacked(u, x, c) == IF u.attacked[x] = c THEN SetAttacked(u, x, None) ELSE u

(* onCreatureDisappear of a spectator.                                       *)
Disappeared(u, x, c) ==
    IF x \notin Monsters THEN u ELSE IF x = c THEN SetIdle(u, x, TRUE) ELSE OnLeave(u, x, c)

OnDisappear(u, x, c) == Disappeared(LoseAttacked(u, x, c), x, c)

(* Creature::onRemovedCreature.                                              *)
OnRemoved(u, c) ==
    LET gone == [u EXCEPT !.life[c] = "removed"] IN
    IF \E m \in MasterOf(u, c) : gone.life[m] # "removed"
    THEN RemoveSummon(gone, u.master[c], c) ELSE gone

(* Game::removeCreature: the summons go with their master.                   *)
RECURSIVE RemoveCreature(_, _), RemoveAll(_, _)
RemoveAll(u, S) == FoldSet(LAMBDA s, v : RemoveCreature(v, s), u, S)

WithSummons(u, c) == RemoveAll(u, u.summons[c])

RemoveCreature(u, c) ==
    IF u.life[c] # "placed" THEN u
    ELSE LET told == FoldSet(LAMBDA x, v : OnDisappear(v, x, c), u, Spectators(u, u.place[c]))
         IN WithSummons(RemoveCreatureCheck(
              [OnRemoved(told, c) EXCEPT !.release[c] = @ + 1], c), c)

(* Monster::onDeath and Player::onDeath, after Creature::onDeath.            *)
OnDeath(u, c) ==
    RemoveCreature(
        IF c \in Players THEN LoseMaster(u, c)
        ELSE SetAttacked(ClearLists(DestroySummons(LoseMaster(u, c), c), c), c, None), c)

(* Monster::onThink; wanted is what a search for a target would choose.      *)
LoseUnseen(u, c) ==
    IF u.attacked[c] # None /\ u.attacked[c] # u.master[c] /\ ~ Sees(u, c, u.attacked[c])
    THEN SetAttacked(u, c, None) ELSE u

Choose(u, c, order) ==
    IF u.idle[c] \/ u.attacked[c] # None \/ order = None THEN u ELSE SelectTarget(u, c, order)

OrderFor(u, master, wanted) == IF master = None THEN wanted ELSE u.attacked[master]

ThinkAwake(u, c, master, wanted) == Choose(u, c, OrderFor(u, master, wanted))

OnThink(u, c, wanted) ==
    IF c \in Players THEN LoseUnseen(u, c)
    ELSE ThinkAwake(UpdateIdle(LoseUnseen(u, c), c), c, u.master[c], wanted[c])

(* One creature's turn in the loop of Game::checkCreatures.                  *)
Turn(u, c, wanted) ==
    IF ~ u.listed[c] THEN u
    ELSE IF ~ u.checked[c] THEN [u EXCEPT !.listed[c] = FALSE, !.release[c] = @ + 1]
    ELSE IF u.dead[c] THEN OnDeath(u, c)
    ELSE OnThink(u, c, wanted)

(* Game::cleanup.                                                            *)
RECURSIVE Cleanup(_)
Cleanup(u) ==
    LET S == {c \in Creatures : u.release[c] > 0} IN
    IF S = {} THEN u
    ELSE LET c == CHOOSE x \in S : TRUE IN Cleanup(UnRef([u EXCEPT !.release[c] = @ - 1], c))

-----------------------------------------------------------------------------
(* Game::internalPlaceCreature and Game::placeCreature.                      *)
OnAppear(u, x, c) ==
    IF x \notin Monsters THEN u
    ELSE IF x # c THEN OnEnter(u, x, c)
    ELSE UpdateIdle(UpdateTargetList(
            [u EXCEPT !.inRange[x] = \E m \in MasterOf(u, x) : Sees(u, x, m)], x), x)

PlaceCreature(u, c, place) ==
    LET in == AddRef([u EXCEPT !.life[c] = "placed", !.place[c] = place], c) IN
    AddCreatureCheck(
        FoldSet(LAMBDA x, v : OnAppear(v, x, c), in, Spectators(in, place)), c)

(* onCreatureMove of a spectator; what is too far despawns with its master's *)
(* step.                                                                     *)
LoseMoved(u, x, c) ==
    IF u.attacked[x] # None /\ c \in {x, u.attacked[x]} /\ ~ Sees(u, x, u.attacked[x])
    THEN SetAttacked(u, x, None) ELSE u

Met(u, x, c, from) ==
    IF Sees(u, x, c) /\ u.place[x] # from THEN OnEnter(u, x, c)
    ELSE IF ~ Sees(u, x, c) /\ u.place[x] = from THEN OnLeave(u, x, c)
    ELSE u

Led(u, x, c) ==
    UpdateIdle(IF u.master[x] = c /\ Sees(u, x, c) THEN [u EXCEPT !.inRange[x] = TRUE] ELSE u, x)

Chase(u, x, c) ==
    IF u.attacked[x] = None /\ u.master[x] = None /\ IsOpponent(u, x, c)
    THEN SelectTarget(u, x, c) ELSE u

MovedItself(u, x) ==
    UpdateIdle(UpdateTargetList(
        [u EXCEPT !.inRange[x] = IF u.master[x] = None THEN @ ELSE Sees(u, x, u.master[x])], x), x)

Noticed(u, x, c, from) ==
    IF x \notin Monsters THEN u
    ELSE IF x = c THEN MovedItself(u, x)
    ELSE Chase(Led(Met(u, x, c, from), x, c), x, c)

OnMove(u, x, c, from, far) ==
    Noticed(LoseMoved(IF x = c THEN RemoveAll(u, far \cap u.summons[c]) ELSE u, x, c), x, c, from)

(* Monster::convinceCreature.                                                *)
OnConvinced(u, x, c, m) ==
    IF x \notin Monsters \/ x = c \/ ~ (IsFriend(u, x, m) \/ IsOpponent(u, x, m)) THEN u
    ELSE UpdateIdle(UpdateTargetList(u, x), x)

TellConvinced(u, c, m) ==
    FoldSet(LAMBDA x, v : OnConvinced(v, x, c, m), [u EXCEPT !.inRange[m] = TRUE],
            Spectators(u, u.place[m]) \cup Spectators(u, u.place[c]))

ConvinceCreature(u, c, m) ==
    LET tame == AddSummon(DestroySummons(SetAttacked(LoseMaster(u, m), m, None), m), c, m)
    IN TellConvinced(UpdateIdle(UpdateTargetList(tame, m), m), c, m)

-----------------------------------------------------------------------------
Init == w = Start

Alive(c) == w.life[c] = "placed" /\ ~ w.dead[c]
MayLead(c) == Alive(c) /\ Cardinality(w.summons[c]) < MaxSummons

(* A player logs in, a monster is spawned.                                   *)
Enter(c, place) ==
    /\ w.life[c] = "none"
    /\ w' = PlaceCreature(w, c, place)

(* Game::placeSummon: without room, the monster is freed at once.            *)
PlaceSummon(c, m) ==
    /\ MayLead(c) /\ ~ w.idle[c] /\ w.life[m] = "none"
    /\ LET tame == AddSummon(w, c, m) IN
       w' \in {PlaceCreature(tame, m, w.place[c]), RemoveSummon(tame, c, m)}

(* RuneSpell::Convince.                                                      *)
Convince(p, m) ==
    /\ MayLead(p)
    /\ w.life[m] = "placed" /\ Sees(w, p, m) /\ PlayerMaster(w, m) = None
    /\ w' = ConvinceCreature(w, p, m)

(* A step, a push or a teleport.                                             *)
Move(c, place) ==
    /\ Alive(c) /\ w.place[c] # place
    /\ LET from == w.place[c]
           moved == [w EXCEPT !.place[c] = place]
           told == Spectators(moved, from) \cup Spectators(moved, place)
       IN \E far \in SUBSET {s \in w.summons[c] : w.place[s] # place} :
             w' = FoldSet(LAMBDA x, v : OnMove(v, x, c, from, far), moved, told)

(* Game::playerSetAttackedCreature, for a target found by its id.            *)
PlayerAttack(p, c) ==
    /\ Alive(p)
    /\ c # None => w.life[c] = "placed" /\ c # p /\ Sees(w, p, c)
    /\ w' = SetAttacked(w, p, c)

(* Creature::onAttacking and Game::combatChangeHealth: the blow hurts or     *)
(* kills.                                                                    *)
Attack(x) ==
    /\ Alive(x) /\ w.attacked[x] # None /\ ~ w.dead[w.attacked[x]]
    /\ w' \in {Wake(w, w.attacked[x]), Kill(w, w.attacked[x])}

(* A spell or a field hurts whom nobody attacks.                             *)
Hurt(c) ==
    /\ Alive(c)
    /\ w' \in {Wake(w, c), Kill(w, c)}

(* A logout; a monster that despawns or that a script removes.               *)
Remove(c) ==
    /\ w.life[c] = "placed"
    /\ w' = RemoveCreature(w, c)

(* Game::checkCreatures for one of the vectors; a monster searches among its *)
(* targets, to which nothing is added meanwhile.                             *)
CheckCreatures(v) ==
    LET members == {c \in Creatures : VectorOf[c] = v} IN
    \E wanted \in {f \in [members \cap Monsters -> Creatures \cup {None}] :
                     \A m \in DOMAIN f : f[m] \in w.targets[m] \cup {None}} :
       w' = Cleanup(FoldSet(LAMBDA c, u : Turn(u, c, wanted), w, members))

Next ==
    \/ \E c \in Creatures, place \in Places : Enter(c, place) \/ Move(c, place)
    \/ \E c \in Creatures, m \in Monsters : PlaceSummon(c, m)
    \/ \E p \in Players, m \in Monsters : Convince(p, m)
    \/ \E p \in Players, c \in Creatures \cup {None} : PlayerAttack(p, c)
    \/ \E c \in Creatures : Attack(c) \/ Hurt(c) \/ Remove(c)
    \/ \E v \in Vectors : CheckCreatures(v)

-----------------------------------------------------------------------------
(* No pointer to a creature that was freed: whom a creature in the world     *)
(* attacks is in the world and in its sight, whatever moves, dies, is        *)
(* convinced or logs out, and masters and summons agree about each other     *)
(* (creature.cpp:498, 533, 1437; monster.cpp:310; game.cpp:998).             *)
SummonsAgree ==
    \A c, s \in Creatures : s \in w.summons[c] <=> w.master[s] = c

NoDanglingCreature ==
    /\ SummonsAgree
    /\ \A x \in Placed(w) : w.attacked[x] # None =>
          w.life[w.attacked[x]] = "placed" /\ Sees(w, x, w.attacked[x])
    /\ \A c \in Creatures : w.life[c] # "freed" =>
          \A x \in w.friends[c] \cup w.targets[c] \cup w.summons[c] \cup MasterOf(w, c) :
             w.life[x] # "freed"

(* A creature is counted as often as it is held, and freed exactly when      *)
(* nobody holds it any more (thing.h:106, creature.cpp:1437, monster.cpp:201, *)
(* game.cpp:4474, 4548).                                                     *)
CreatureRefs ==
    \A c \in Creatures :
       LET one(b) == IF b THEN 1 ELSE 0
       IN /\ w.refs[c] = one(w.life[c] = "placed") + one(w.listed[c]) + w.release[c]
                         + Cardinality({x \in Creatures : c \in w.friends[x]})
                         + Cardinality({x \in Creatures : c \in w.targets[x]})
                         + Cardinality({x \in Creatures : c \in w.summons[x]})
          /\ w.life[c] \in {"placed", "removed"} <=> w.refs[c] > 0

(* Who is awake, and who has died however he slept, is in a vector and       *)
(* looked at: so the dead are removed by the next check.  A monster asleep   *)
(* is in none, and setIdle does nothing for the dead (monster.cpp:530): only *)
(* waking it before its health falls (monster.cpp:1403) puts it back.        *)
AwakeIsChecked ==
    \A c \in Placed(w) : ~ w.idle[c] \/ w.dead[c] => w.checked[c] /\ w.listed[c]
=============================================================================
