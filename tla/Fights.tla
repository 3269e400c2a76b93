------------------------------- MODULE Fights -------------------------------
(* Players who fight in an open world: who attacked whom, who may not leave, *)
(* whose hands are bloody, and the skulls that murders bring (player.cpp,    *)
(* creature.cpp, combat.cpp).                                                *)
(*                                                                           *)
(* Amounts of damage, armour and mana shields are a choice between a blow    *)
(* that is blocked, that wounds and that kills; dates are a choice between   *)
(* recent murders and old ones.  Wars between guilds, parties, groups with   *)
(* flags of their own and optional zones are left out.                       *)
EXTENDS Integers

CONSTANTS Players, Summons, Master,
          Gone,            \* the id of a player who has left since
          RedLimit,        \* fragsToRedSkull
          BlackLimit,      \* fragsToBlackSkull, which counts from there on
          MaxRows          \* bound on the murders that are remembered

Creatures == Players \cup Summons
Owner(c) == IF c \in Summons THEN Master[c] ELSE c

(* The state, one record.  Of each player: skull, fight (CONDITION_INFIGHT), *)
(* locked (pzLocked), attacked (attackedSet), zone, dead (no health left),   *)
(* damage (the creatures in damageMap, those too old to count left out),     *)
(* last (lastHitCreature), online, rows (his recent unjustified kills in     *)
(* player_killers).  alive: the summons.  Of history: phantom, a murder was  *)
(* counted of one whose death was denied afterwards.                         *)
VARIABLE w

Skulls == {"none", "white", "red", "black"}
Lasting == {"red", "black"}     \* skulls that outlast the fight, SKULL_RED and worse

Init ==
    w = [skull |-> [p \in Players |-> "none"], fight |-> {}, locked |-> {},
         attacked |-> [p \in Players |-> {}], zone |-> [p \in Players |-> "open"], dead |-> {},
         damage |-> [p \in Players |-> {}], last |-> [p \in Players |-> Gone], online |-> Players,
         rows |-> [p \in Players |-> 0], alive |-> Summons,
         phantom |-> {}]

Present(c) == IF c \in Summons THEN c \in w.alive ELSE c \in w.online
InPvpZone(p, q) == w.zone[p] = "hardcore" /\ w.zone[q] = "hardcore"

-----------------------------------------------------------------------------
(* Blows.                                                                    *)

AddInFight(s, p, lock) ==
    [s EXCEPT !.fight = @ \cup {p}, !.locked = IF lock THEN @ \cup {p} ELSE @]

(* Mutant: whoever strikes is the aggressor, also one who strikes back.      *)
OnTargetAlways(s, p, q) ==
    LET marked == p # q /\ ~InPvpZone(p, q)
    IN AddInFight([s EXCEPT
          !.attacked[p] = IF marked THEN @ \cup {q} ELSE @,
          !.skull[p] = IF marked /\ @ = "none" /\ s.skull[q] = "none" THEN "white" ELSE @], p, marked)

(* Player::onTarget; it is also the master's when his summon strikes.  That  *)
(* he retaliates on one with a yellow skull takes a skull of his own, which  *)
(* the code rules out one line earlier.                                      *)
OnTarget(s, p, q) ==
    LET first == p # q /\ p \notin s.attacked[q]
        marked == first /\ ~InPvpZone(p, q)
    IN AddInFight([s EXCEPT
          !.attacked[p] = IF marked THEN @ \cup {q} ELSE @,
          !.skull[p] = IF marked /\ @ = "none" /\ s.skull[q] = "none" THEN "white" ELSE @], p, first)

OnAttacked(s, p) == AddInFight(s, p, FALSE)

(* A black skull attacks nobody who has none for him.                        *)
SkullType(p, q) ==      \* what p sees of q
    IF q \notin Players THEN "none"
    ELSE IF w.skull[p] # "none" /\ w.skull[q] \notin Lasting /\ p \in w.attacked[q]
      THEN "yellow" ELSE w.skull[q]

CanTarget(p, q) ==
    /\ p # q
    /\ InPvpZone(p, q) \/ SkullType(p, q) # "none" \/ w.skull[p] # "black"

SetAttackedCreature(p, q) ==
    /\ {p, q} \subseteq w.online /\ CanTarget(p, q)
    /\ w' = OnAttacked(OnTarget(w, p, q), q)

(* blockHit, then drainHealth and addDamagePoints: a blow that is blocked    *)
(* does no damage, and one that does none is no last hit.                    *)
ChangeHealth(c, q, blow) ==
    /\ Present(c) /\ q \in w.online \ w.dead /\ Owner(c) # q /\ Owner(c) \in w.online
    /\ LET s == OnAttacked(OnTarget(w, Owner(c), q), q)
       IN w' = IF blow = "blocked" THEN s
               ELSE [s EXCEPT !.damage[q] = @ \cup {c}, !.last[q] = c,
                              !.dead = IF blow = "kills" THEN @ \cup {q} ELSE @]

(* A monster, a field or a script.                                           *)
Slain(q) ==
    /\ q \in w.online \ w.dead
    /\ w' = [OnAttacked(w, q) EXCEPT !.dead = @ \cup {q}, !.last[q] = Gone]

Heal(q) ==
    /\ q \in w.dead
    /\ w' = [w EXCEPT !.dead = @ \ {q}]

(* Time passes: damage no longer counts for who did not strike last.         *)
Older(q, c) ==
    /\ c \in w.damage[q] \ {w.last[q]}
    /\ w' = [w EXCEPT !.damage[q] = @ \ {c}]

-----------------------------------------------------------------------------
(* The end of a fight.                                                       *)

EndFight(s, p) ==
    [s EXCEPT !.fight = @ \ {p}, !.locked = @ \ {p}, !.attacked[p] = {},
              !.skull[p] = IF @ \in Lasting THEN @ ELSE "none"]

EndCondition(p) ==
    /\ p \in w.fight /\ p \in w.online
    /\ w' = EndFight(w, p)

(* Nobody enters or leaves a pvp zone while he is locked.                    *)
ChangeZone(p, z) ==
    /\ p \in w.online /\ w.zone[p] # z /\ p \notin w.locked
    /\ w' = [w EXCEPT !.zone[p] = z]

(* Who leaves and comes back is another creature.                            *)
Without(s, p) ==
    LET gone == {p} \cup {c \in Summons : Master[c] = p}
    IN [s EXCEPT !.online = @ \ {p}, !.alive = @ \ gone, !.dead = @ \ {p},
                 !.attacked = [q \in Players |-> IF q = p THEN {}
                                 ELSE IF p \in @[q] THEN (@[q] \ {p}) \cup {Gone} ELSE @[q]],
                 !.damage = [q \in Players |-> IF q = p THEN {} ELSE @[q] \ gone],
                 !.last = [q \in Players |-> IF q = p \/ @[q] \in gone THEN Gone ELSE @[q]],
                 !.fight = @ \ {p}, !.locked = @ \ {p}, !.zone[p] = "open",
                 !.skull[p] = IF @ \in Lasting THEN @ ELSE "none"]

Leave(p, kicked) ==
    /\ p \in w.online
    /\ kicked \/ p \notin w.fight
    /\ w' = Without(w, p)

(* A skull ends at a login, when its time has passed and the murders that    *)
(* made it are as old (bound: not more than those it took came after them).  *)
Login(p, ended) ==
    /\ p \notin w.online
    /\ ended => w.skull[p] \in Lasting
    /\ w' = [w EXCEPT !.online = @ \cup {p}, !.alive = @ \cup {c \in Summons : Master[c] = p},
                      !.skull[p] = IF ended THEN "none" ELSE @,
                      !.rows[p] = IF ended THEN 0 ELSE @,
                      !.phantom = IF ended THEN @ \ {p} ELSE @]

-----------------------------------------------------------------------------
(* Deaths.                                                                   *)

(* getKillers: the last hitter, then whoever did damage and is neither his   *)
(* summon nor his master; of those who share a master, one.                  *)
KillerSets(q) ==
    LET first == IF Present(w.last[q]) THEN {w.last[q]} ELSE {}
        others == {c \in w.damage[q] : Present(c) /\ Owner(c) \notin {Owner(f) : f \in first}}
    IN {first \cup rest : rest \in {r \in SUBSET others :
          /\ \A a, b \in r : Owner(a) = Owner(b) => a = b
          /\ \A a \in others : \E b \in r : Owner(a) = Owner(b)}}

(* Whom the kill of q makes a murderer (Player::onKilledCreature).           *)
Unjustified(s, p, q) ==
    /\ p # q /\ s.zone[p] = s.zone[q] /\ ~InPvpZone(p, q)
    /\ p \in s.fight
    /\ p \notin s.attacked[q]
    /\ s.skull[q] = "none"

(* Player::addUnjustifiedKill counts this kill with those in the database.   *)
Deserved(skull, count) ==
    IF count >= RedLimit + BlackLimit THEN "black"
    ELSE IF count >= RedLimit /\ skull \notin Lasting THEN "red" ELSE skull

(* Player::onKilledCreature for each of the killers ps: their skulls, and    *)
(* the summons of whose skull becomes black.                                 *)
Killed(s, ps, last, q) ==
    LET murderers == {p \in ps : Unjustified(s, p, q)}
        skulls == [p \in Players |-> IF p \in murderers THEN Deserved(s.skull[p], s.rows[p] + 1)
                                     ELSE s.skull[p]]
        t == [s EXCEPT !.skull = skulls,
                       !.alive = {c \in @ : skulls[Master[c]] = s.skull[Master[c]]
                                              \/ skulls[Master[c]] # "black"}]
    IN IF last \in ps \cap s.online /\ s.zone[last] = s.zone[q] /\ ~InPvpZone(last, q) /\ last \in s.fight
         THEN AddInFight(t, last, TRUE) ELSE t

(* playerDeath: a row for each murderer.                                     *)
Recorded(s, ps) ==
    [s EXCEPT !.rows = [p \in Players |-> IF p \in ps THEN @[p] + 1 ELSE @[p]]]

(* A script may deny the death before anything, or as the last hitter's kill *)
(* event, which comes after his murder was counted; in a pvp zone the player *)
(* is healed and put into his temple; else the death is recorded, and he is  *)
(* removed.                                                                  *)
OnDeath(q, denied) ==
    /\ q \in w.dead
    /\ \E killers \in KillerSets(q) :
         LET ps == {Owner(c) : c \in killers}
             murderers == {p \in ps : Unjustified(w, p, q)}
             last == IF Present(w.last[q]) THEN Owner(w.last[q]) ELSE Gone
             lastOnly == ps \cap {last}
         IN /\ \A p \in murderers : w.rows[p] < MaxRows
            /\ CASE denied = "prepare" -> w' = w
                 [] denied = "kill" ->
                      /\ lastOnly # {}
                      /\ w' = [Killed(w, lastOnly, last, q)
                                 EXCEPT !.phantom = @ \cup (murderers \cap lastOnly)]
                 [] OTHER ->
                      w' = IF w.zone[q] = "hardcore"
                             THEN [EndFight(Killed(w, ps, last, q), q)
                                     EXCEPT !.dead = @ \ {q}, !.zone[q] = "open"]
                             ELSE Without(EndFight(Recorded(Killed(w, ps, last, q), murderers), q), q)

(* Time passes: a murder that made no skull is too old to count.             *)
Forget(p) ==
    /\ w.rows[p] > 0 /\ w.skull[p] \notin Lasting
    /\ w' = [w EXCEPT !.rows[p] = @ - 1]

Next ==
    \/ \E p, q \in Players : SetAttackedCreature(p, q)
    \/ \E c \in Creatures, q \in Players, blow \in {"blocked", "wounds", "kills"} : ChangeHealth(c, q, blow)
    \/ \E q \in Players, c \in Creatures : Older(q, c)
    \/ \E q \in Players, d \in {"no", "prepare", "kill"} : OnDeath(q, d)
    \/ \E p \in Players : \/ Slain(p) \/ Heal(p) \/ EndCondition(p) \/ Forget(p)
                          \/ \E z \in {"open", "hardcore"} : ChangeZone(p, z)
                          \/ \E b \in BOOLEAN : Leave(p, b) \/ Login(p, b)

-----------------------------------------------------------------------------
(* Who has attacked somebody, may not leave or has a white skull is in a     *)
(* fight, and all of it ends with the fight (player.cpp:3982, 4053-4090).    *)
MarksEnd ==
    \A p \in Players :
        /\ w.attacked[p] # {} \/ p \in w.locked \/ w.skull[p] = "white" => p \in w.fight
        /\ w.skull[p] = "white" => w.attacked[p] # {}

(* Of two who fight, one began, so that at most one of them can be murdered  *)
(* by the other (player.cpp:4066-4086, 4250).                                *)
OneBegan == \A p, q \in Players : q \in w.attacked[p] => p \notin w.attacked[q]

(* A red skull is worn by those who have murdered as many as it takes, and   *)
(* by all of them.  The code's exception: a death that was denied when the   *)
(* murder had been counted (player.cpp:4562-4643, creature.cpp:745).         *)
MurderersMarked ==
    \A p \in Players :
        /\ w.skull[p] \in Lasting => w.rows[p] >= RedLimit \/ p \in w.phantom
        /\ w.rows[p] >= RedLimit => w.skull[p] \in Lasting

FightsAgree == MarksEnd /\ OneBegan /\ MurderersMarked

=============================================================================
