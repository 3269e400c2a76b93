------------------------------ MODULE MCWorld ------------------------------
(* The scenes of World with small instances, and those that are only         *)
(* model-checked: monsters (pack and pair), ways and the updates of a        *)
(* database.  One run checks all.                                            *)
EXTENDS World, TLC

CONSTANTS pam, quin, wolf, bear, bed, relic, house,
          v1, v2      \* places, npcs, players: two that are treated alike

Pack == INSTANCE Creatures WITH
    Players <- {pam}, Monsters <- {wolf, bear}, Places <- {v1, v2}, Vectors <- {1},
    VectorOf <- [c \in {pam, wolf, bear} |-> 1], MaxSummons <- 1

Pair == INSTANCE Creatures WITH
    Players <- {pam, quin}, Monsters <- {wolf}, Places <- {v1, v2}, Vectors <- 1 .. 2,
    VectorOf <- [c \in {pam, quin, wolf} |-> IF c = quin THEN 2 ELSE 1], MaxSummons <- 1

(* Ways on a square of three by three, whatever stands on it.                *)
Search(mode, target, full, sight, diagonal, keep, dist, min, max, closed) ==
    [mode |-> mode, target |-> target, full |-> full, sight |-> sight, diagonal |-> diagonal,
     keepDistance |-> keep, maxSearchDist |-> dist, min |-> min, max |-> max,
     maxClosedNodes |-> closed]

Searched == INSTANCE Paths WITH
    Width <- 3, Height <- 3, Start <- <<1, 1>>, Kinds <- {"free", "taken", "wall"},
    MaxNodes <- 8,
    Searches <-
        {Search("match", <<3, 3>>, TRUE, TRUE, TRUE, FALSE, 12, 1, 1, 100),
         Search("match", <<3, 3>>, FALSE, FALSE, TRUE, TRUE, 12, 1, 3, 100),
         Search("match", <<2, 3>>, TRUE, TRUE, FALSE, FALSE, -1, 0, 2, 4),
         Search("to", <<3, 2>>, TRUE, TRUE, TRUE, FALSE, -1, 0, 0, 100)}

(* The scenes of World: a player with a summon against another, where a      *)
(* murder makes a red skull; one guild of two; a house with a bed, where one *)
(* may be married to the other; a rent for a day with two warnings; one      *)
(* relic, in the house of one of two players or with one of them; two npcs   *)
(* with a ware each; an npc that answers, and lets those wait who speak      *)
(* while he is busy; two who chat, or who report each other and answer       *)
(* reports; a tile of which a client keeps three things; two environments,   *)
(* with the relic made by scripts three deep or with two timers, and the     *)
(* three kinds of events; a ring with four types: one becomes the second     *)
(* when it is put on, which wears out into the fourth; the third and the     *)
(* fourth turn into each other; a player who leaves rookgaard, with scripts  *)
(* that teach him more, and one who dies, in a vocation that loses skills,   *)
(* in one that does not, and in one that drops nothing.                      *)
MCPlayers == {pam, quin}
MCSummons == {wolf}
MCMaster == [c \in {wolf} |-> pam]
MCTwo == {v1, v2}
MCBeds == {bed}
MCCouples == {<<quin, pam>>}
MCGuildsmen == {quin}
MCItems == {relic}
MCPrivileged == {quin}
MCCallbacks == 1 .. 3
MCAmounts == {0, 3}
MCResponses == {"hi", "bye", "busy", "leave"}
MCIdling == {"bye", "leave"}
MCChatIds == 1 .. 2
MCGround == {"grass", "ice"}
MCTop == {"wall", "splash"}
MCDown == {"fire", "barrier", "corpse"}
MCOrder == [wall |-> 1, splash |-> 2]
MCSplashes == {"splash"}
MCFields == {"fire", "barrier"}
MCFixed == {"barrier"}
MCKind == [grass |-> "none", ice |-> "none", wall |-> "none", splash |-> "none",
           fire |-> "field", barrier |-> "field", corpse |-> "container"]
MCClocks == 1 .. 2
MCEvents == {"think", "login", "move"}
MCEventType == [think |-> "creature", login |-> "global", move |-> "moveitem"]
MCBuffers == {"login"}
MCSlots == {"ring"}
MCTypes == 1 .. 4
MCSpeed == <<0, 2, 0, 1>>
MCSkill == <<0, 0, 1, 0>>
MCRegenerates == <<FALSE, TRUE, FALSE, FALSE>>
MCEquipTo == <<2, 2, 3, 4>>
MCDecayTo == <<1, 4, 4, None>>
MCSameKind == {{3, 4}}
MCNeeds == <<1, 1, 2, 1>>
MCDeltas == {1, 2}
MCTimes == {-1, 1, 2}
MCVocations == 0 .. 3
MCExpFor == <<0, 1, 3, 4, 0>>
MCGain == [v \in 0 .. 3 |-> v + 1]
MCTalents == {"magic", "fist"}
MCLeast == [magic |-> 0, fist |-> 10]
MCReq ==
    LET none == [magic |-> [l \in 0 .. 3 |-> <<0, 1, 3, 0>>[l + 1]],
                 fist |-> [l \in 10 .. 12 |-> <<1, 2, 0>>[l - 9]]]
        mage == [magic |-> [l \in 0 .. 4 |-> <<0, 1, 1, 2, 0>>[l + 1]],
                 fist |-> [l \in 10 .. 12 |-> <<1, 3, 0>>[l - 9]]]
    IN [v \in 0 .. 3 |-> IF v = 1 THEN mage ELSE none]
MCKeeps == {2}
MCWears == {3}
MCPerils == {"loss", "drop", "pvp", "other", "hardcore"}
MCPoints == {1, 3}
MCLosses == {0, 2}

(* The updates of a database, with a crash.                                  *)
Migrating == INSTANCE Migrations WITH
    Provided <- 25, Latest <- 42, Configured <- {"plain", "md5", "sha256"}, MaxCrashes <- 1,
    Missing <- None

WorldInit ==
    \/ Init
    \/ scene = "schema" /\ Migrating!Init
    \/ scene = "pack" /\ Pack!Init
    \/ scene = "pair" /\ Pair!Init
    \/ scene = "ways" /\ Searched!Init

WorldNext ==
    \/ Next
    \/ /\ \/ scene = "schema" /\ Migrating!Next
          \/ scene = "pack" /\ Pack!Next
          \/ scene = "pair" /\ Pair!Next
          \/ scene = "ways" /\ Searched!Next
       /\ UNCHANGED scene

WorldSpec == WorldInit /\ [][WorldNext]_<<scene, w>>

WorldSymmetry == Permutations({v1, v2})

(* The properties of the instances, each about its own scene.                *)

(* No list of a creature, target or summon names one that was freed, whoever *)
(* is awake is looked at, and references are counted (monster.cpp:213-383).  *)
CreaturesAgree ==
    /\ scene = "pack" => Pack!NoDanglingCreature /\ Pack!CreatureRefs /\ Pack!AwakeIsChecked
    /\ scene = "pair" => Pair!NoDanglingCreature /\ Pair!CreatureRefs /\ Pair!AwakeIsChecked

(* The search finds a way that can be walked, and a cheapest one where its   *)
(* estimate allows (map.cpp:553-843).                                        *)
FoundWays == scene = "ways" => Searched!FoundWays

(* A database that has reached a version has all that belongs to it, and     *)
(* nothing was done to it twice, whatever crash came between the statements  *)
(* (databasemanager.cpp:189-1785).                                           *)
UpdatesHold == scene = "schema" => Migrating!UpdatesHold

=============================================================================
