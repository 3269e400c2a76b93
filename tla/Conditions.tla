----------------------------- MODULE Conditions -----------------------------
(* The conditions of a player and the items he wears (condition.cpp, the     *)
(* lists of creature.cpp, EquipItem and DeEquipItem of movement.cpp, the     *)
(* transformation of a worn item in game.cpp), and what they add to his      *)
(* speed and to a skill.  The unit of time is the interval at which a        *)
(* creature thinks.  Left out: the amounts that conditions heal or hurt, the *)
(* look and the light of the player; bonuses in percent, which are computed  *)
(* afresh when an item is taken off and need not be what was added.          *)
EXTENDS Integers, FiniteSets, Functions

CONSTANTS Slots, Default,               \* ids of conditions: a slot, or the default
          Types, NoItem,                \* what can be worn
          Speed, Skill,                 \* what a type adds
          Regenerates,                  \* types that give a permanent condition
          EquipTo, DecayTo,             \* types they turn into; the same: they do not
          SameKind,                     \* pairs of types that are changed in place
          Needs,                        \* the level a type requires
          Deltas, Times                 \* of the spells and potions of the instances

(* The state, one record: the level; the conditions, by type and id; the     *)
(* type of the item in each slot; inventoryAbilities; varSpeed, varSkill;    *)
(* and whether the player is in the game.                                    *)
VARIABLE w

Kinds == {"haste", "paralyze", "attributes", "regeneration"}
Permanent == -1

(* A condition: what it adds, its ticks, and how long until its endTime.     *)
Condition == [delta : Int, ticks : {Permanent} \cup Nat, left : Nat]

ConditionsTypeOK ==
    /\ w.level \in {1, 2} /\ w.online \in BOOLEAN
    /\ DOMAIN w.conds \subseteq Kinds \X (Slots \cup {Default})
    /\ \A k \in DOMAIN w.conds : w.conds[k] \in Condition
    /\ w.worn \in [Slots -> Types \cup {NoItem}] /\ w.able \in [Slots -> BOOLEAN]
    /\ w.speed \in Int /\ w.skill \in Int

Init ==
    w = [level |-> 1, conds |-> <<>>, worn |-> [s \in Slots |-> NoItem],
         able |-> [s \in Slots |-> FALSE], speed |-> 0, skill |-> 0, online |-> TRUE]

(* ------------------------------ conditions ------------------------------- *)

IsSpeed(kind) == kind \in {"haste", "paralyze"}

(* Game::changeSpeed, setVarSkill.                                           *)
Applied(s, kind, d) ==
    IF IsSpeed(kind) THEN [s EXCEPT !.speed = @ + d]
    ELSE IF kind = "attributes" THEN [s EXCEPT !.skill = @ + d]
    ELSE s

(* What the conditions of a list add to the speed and to the skill.          *)
SpeedOf(conds) ==
    SumFunction([k \in DOMAIN conds |-> IF IsSpeed(k[1]) THEN conds[k].delta ELSE 0])
SkillOf(conds) ==
    SumFunction([k \in DOMAIN conds |-> IF k[1] = "attributes" THEN conds[k].delta ELSE 0])

(* endCondition, after the conditions have left the list.                    *)
Ended(s, ks) ==
    LET over == Restrict(s.conds, ks \cap DOMAIN s.conds) IN
    [s EXCEPT !.conds = Restrict(@, DOMAIN @ \ ks),
              !.speed = @ - SpeedOf(over), !.skill = @ - SkillOf(over)]

OfKind(s, kind) == {k \in DOMAIN s.conds : k[1] = kind}

(* Condition::setTicks leaves endTime alone when it is given no time.        *)
SetTicks(c, ticks) ==
    [c EXCEPT !.ticks = ticks, !.left = IF ticks > 0 THEN ticks ELSE @]

(* updateCondition, and the other rule of ConditionSpeed.                    *)
Updates(kind, c, ticks) ==
    IF IsSpeed(kind) THEN ~(c.ticks = Permanent /\ ticks > 0)
    ELSE /\ c.ticks # Permanent \/ ticks < 1
         /\ ticks < 0 \/ c.left <= ticks

UpdatedOver(s, k, ticks, delta) ==       \* a mutant: the old bonus stays
    Applied([s EXCEPT !.conds[k] = [SetTicks(@, ticks) EXCEPT !.delta = delta]], k[1], delta)

(* The addCondition of a condition that is there: the new one replaces what  *)
(* the old one added.                                                        *)
Updated(s, k, ticks, delta) ==
    Applied([s EXCEPT !.conds[k] = [SetTicks(@, ticks) EXCEPT !.delta = delta]],
            k[1], delta - s.conds[k].delta)

(* startCondition, the list, and onAddCondition: haste and paralysis drive   *)
(* each other out.                                                           *)
Started(s, k, ticks, delta) ==
    LET new == [delta |-> delta, ticks |-> ticks, left |-> IF ticks > 0 THEN ticks ELSE 0]
        t == Applied([s EXCEPT !.conds = [j \in DOMAIN @ \cup {k} |->
                                             IF j = k THEN new ELSE s.conds[j]]], k[1], delta) IN
    IF k[1] = "haste" THEN Ended(t, OfKind(t, "paralyze"))
    ELSE IF k[1] = "paralyze" THEN Ended(t, OfKind(t, "haste"))
    ELSE t

(* Creature::addCondition.                                                   *)
Added(s, k, ticks, delta) ==
    IF k \notin DOMAIN s.conds THEN Started(s, k, ticks, delta)
    ELSE IF Updates(k[1], s.conds[k], ticks) THEN Updated(s, k, ticks, delta)
    ELSE s

AddCondition(kind, ticks, delta) ==
    /\ w.online
    /\ w' = Added(w, <<kind, Default>>, ticks, IF kind = "paralyze" THEN -delta ELSE delta)

RemoveCondition(kind) == w.online /\ w' = Ended(w, OfKind(w, kind))

(* Condition::isPersistent: those with time left.                            *)
Persistent(s) == {k \in DOMAIN s.conds : s.conds[k].ticks > 0}

(* Creature::removeConditions, at a death or by a script.                    *)
RemoveConditions(all) == w.online /\ w' = Ended(w, IF all THEN DOMAIN w.conds ELSE Persistent(w))

(* Creature::executeConditions: the ticks count the thoughts, endTime the    *)
(* clock, which may be ahead.                                                *)
Think(elapsed) ==
    LET over == {k \in DOMAIN w.conds :
                    w.conds[k].ticks # Permanent /\ w.conds[k].left < elapsed}
        Aged(c) == [c EXCEPT !.ticks = IF @ > 0 THEN @ - 1 ELSE @,
                             !.left = IF @ > elapsed THEN @ - elapsed ELSE 0] IN
    /\ w.online
    /\ w' = Ended([w EXCEPT !.conds = [k \in DOMAIN @ |-> Aged(@[k])]], over)

(* ------------------------------ worn items ------------------------------- *)

Worth(s, type, sign) ==
    [s EXCEPT !.speed = @ + sign * Speed[type], !.skill = @ + sign * Skill[type]]

(* DeEquipItem.  What it says of the type is read before the item changes.   *)
DeEquip(s, slot, type) ==
    IF ~s.able[slot] THEN s
    ELSE LET t == Worth([s EXCEPT !.able[slot] = FALSE], type, -1) IN
         IF Regenerates[type] THEN Ended(t, {<<"regeneration", slot>>}) ELSE t

(* EquipItem.  An item that becomes another when it is put on is changed in  *)
(* place: the change itself announces the old type gone, when nothing is     *)
(* enabled yet, and the new type put on.  What the old type gives is then    *)
(* added too: one that gives something is given twice over (the instances    *)
(* have none).                                                               *)
EquipPlain(s, slot, type) ==
    IF s.able[slot] \/ s.level < Needs[type] THEN s
    ELSE LET t == Worth([s EXCEPT !.able[slot] = TRUE], type, 1) IN
         IF Regenerates[type] THEN Added(t, <<"regeneration", slot>>, Permanent, 0) ELSE t

EquipIfNew(s, slot, type) ==
    LET t == EquipPlain([s EXCEPT !.worn[slot] = EquipTo[type]], slot, EquipTo[type]) IN
    Worth([t EXCEPT !.able[slot] = TRUE], type, 1)

Equip(s, slot, type) ==
    IF s.able[slot] \/ s.level < Needs[type] THEN s
    ELSE IF EquipTo[type] # type THEN EquipIfNew(s, slot, type)
    ELSE EquipPlain(s, slot, type)

(* Player::__addThing and postAddNotification.                               *)
PutOn(slot, type) ==
    /\ w.online /\ w.worn[slot] = NoItem /\ w.level >= Needs[type]
    /\ w' = Equip([w EXCEPT !.worn[slot] = type], slot, type)

(* __removeThing and postRemoveNotification.                                 *)
TakeOff(slot) ==
    /\ w.online /\ w.worn[slot] # NoItem
    /\ w' = DeEquip([w EXCEPT !.worn[slot] = NoItem], slot, w.worn[slot])

(* Game::transformItem of a worn item that decays: changed in place, the old *)
(* type is announced gone and the new one put on; replaced by another item,  *)
(* the new one is announced first, when the slot is still enabled, and so    *)
(* it is worn without effect.                                                *)
Decay(slot) ==
    LET old == w.worn[slot]
        new == DecayTo[old] IN
    /\ w.online /\ old # NoItem /\ old # new
    /\ w' = IF new = NoItem THEN DeEquip([w EXCEPT !.worn[slot] = NoItem], slot, old)
            ELSE IF {old, new} \in SameKind
                 THEN Equip([DeEquip(w, slot, old) EXCEPT !.worn[slot] = new], slot, new)
            ELSE DeEquip(Equip([w EXCEPT !.worn[slot] = new], slot, new), slot, old)

(* ----------------------------- coming and going -------------------------- *)

(* onCreatureDisappear takes everything off, savePlayer writes the           *)
(* conditions with time left, and the player is gone.                        *)
Undressed(s) ==
    LET off == {x \in Slots : s.able[x] /\ s.worn[x] # NoItem}
        permanent == {<<"regeneration", x>> : x \in {y \in off : Regenerates[s.worn[y]]}} IN
    [Ended(s, permanent) EXCEPT !.able = [x \in Slots |-> @[x] /\ x \notin off]]

Logout ==
    /\ w.online
    /\ LET s == Undressed(w) IN
       w' = [s EXCEPT !.online = FALSE, !.speed = 0, !.skill = 0,
                      !.conds = Restrict(@, Persistent(s))]

(* Game::placeCreature starts the stored conditions, then onCreatureAppear   *)
(* puts everything on: a step of the two loops, with what they have left,    *)
(* and the states in which they may end.                                     *)
Restarted(x) ==
    IF x.conds # {}
    THEN {[x EXCEPT !.conds = @ \ {k},
                    !.s = Started(@, k, w.conds[k].ticks, w.conds[k].delta)] : k \in x.conds}
    ELSE {[x EXCEPT !.slots = @ \ {y},
                    !.s = IF @.worn[y] = NoItem THEN @ ELSE Equip(@, y, @.worn[y])] : y \in x.slots}

Arriving ==
    [s |-> [w EXCEPT !.conds = <<>>, !.online = TRUE], conds |-> DOMAIN w.conds, slots |-> Slots]

Arrived ==
    LET N == Cardinality(DOMAIN w.conds) + Cardinality(Slots)
        f[n \in 0 .. N] == IF n = 0 THEN {Arriving} ELSE UNION {Restarted(x) : x \in f[n - 1]}
    IN  f[N]

Login == ~w.online /\ \E x \in Arrived : w' = x.s

(* Player::addExperience, and onDeath.                                       *)
ChangeLevel == w.online /\ w' = [w EXCEPT !.level = 3 - @]

Next ==
    \/ \E ticks \in Times, delta \in Deltas :
          \E kind \in Kinds \ {"regeneration"} : AddCondition(kind, ticks, delta)
    \/ \E kind \in Kinds : RemoveCondition(kind)
    \/ \E all \in BOOLEAN : RemoveConditions(all)
    \/ \E elapsed \in 1 .. 2 : Think(elapsed)
    \/ \E slot \in Slots : (\E type \in Types : PutOn(slot, type)) \/ TakeOff(slot) \/ Decay(slot)
    \/ Logout \/ Login \/ ChangeLevel

(* ------------------------------- properties ------------------------------ *)

(* What the enabled items add.                                               *)
Given(s, of) == SumFunction([x \in Slots |-> IF s.able[x] THEN of[s.worn[x]] ELSE 0])

(* However conditions are added, refreshed, driven out and run out, and      *)
(* items are put on, changed while worn, worn out and taken off, the speed   *)
(* and the skill of a player in the game are what his listed conditions and  *)
(* his enabled items add, each once; a slot is enabled only with something   *)
(* in it; and a condition of a slot outlives neither its item nor a          *)
(* logout (addCondition, endCondition, EquipItem, DeEquipItem).              *)
BonusesAddUp ==
    /\ \A x \in Slots : w.online /\ w.able[x] => w.worn[x] # NoItem
    /\ w.online => w.speed = SpeedOf(w.conds) + Given(w, Speed)
    /\ w.online => w.skill = SkillOf(w.conds) + Given(w, Skill)
    /\ \A x \in Slots : <<"regeneration", x>> \in DOMAIN w.conds => w.able[x]
=============================================================================
