------------------------------- MODULE Growth -------------------------------
(* A player's levels, magic level, skills and deaths (player.cpp): what he   *)
(* gains on the way up is what he loses on the way down, scripts that give   *)
(* more while an advance is announced, and what one death costs.             *)
(*                                                                           *)
(* Amounts stand for what the rates and the fractions of a loss make of      *)
(* them.  Mana, capacity and soul follow health; percents, icons and what    *)
(* the client is sent are left out.                                          *)
EXTENDS Integers, Sequences, FiniteSetsExt

CONSTANTS Vocations,       \* 0 is the one of rookgaard
          ExpFor,          \* of the levels 1 .. MaxLevel + 1, where it wraps around
          MaxLevel,
          Gain,            \* a vocation's gain of health at a level
          RookTo,          \* rookLevelToLeaveRook
          RookAgain,       \* rookLevelToGetRooked
          Kinds,           \* "magic" and skills
          Least,           \* where a kind starts
          Req,             \* a vocation's: what a level of a kind takes; falls after
                           \* the last
          Keeps,           \* vocations that lose no skill (skillloss="no")
          Wears,           \* those that never drop all (droploot="no")
          Perils,          \* what deaths differ by: the charms "loss" and "drop", the
                           \* blessings "pvp" and "other", the zone "hardcore"
          Amounts, Losses, \* inputs
          MaxAdvances      \* bound on scripts within scripts

(* The state, one record: the columns of the player; tally, his level and    *)
(* tries of each kind; frames, the amounts still to be added below the       *)
(* scripts that run; loot, loss and worn for his death; where he is.  Of     *)
(* history: given, what he was given of each kind less what he lost, by the  *)
(* tables of the vocation he has, which value all he had when he chose it    *)
(* anew; overpaid, the kinds of which he then had what the next level takes, *)
(* until they advance or fall; the vocation at each frame; corpses, those    *)
(* since he was last alive (two are many); pardoned, a death in a hardcore   *)
(* zone was denied; killed, a killer that makes no loot was denied the kill. *)
VARIABLE w

Idle == w.frames = <<>>

(* setVocation, setDropLoot and setLossSkill.                                *)
Loot(v, l) == IF v \in Wears THEN "prevent" ELSE l
Loss(v, b) == b /\ v \notin Keeps
Taught(p, v) == [p EXCEPT !.voc = v, !.loot = Loot(v, "full"), !.loss = Loss(v, TRUE)]

Start == 150
Created ==
    [voc |-> 0, overpaid |-> {}, level |-> 1, exp |-> ExpFor[1], healthMax |-> Start,
     tally |-> [k \in Kinds |-> [level |-> Least[k], tries |-> 0]],
     given |-> [k \in Kinds |-> 0], frames |-> <<>>, dead |-> FALSE, place |-> "world",
     loot |-> Loot(0, "full"), loss |-> Loss(0, TRUE), worn |-> {}, zone |-> "open", red |-> FALSE,
     blessings |-> {}, corpses |-> 0, pardoned |-> FALSE, killed |-> FALSE]

Init == w = Created

-----------------------------------------------------------------------------
(* Levels.                                                                   *)

(* What the values of f after the first one add up to, to the last one.      *)
Total(f, first, last) ==
    LET sum[l \in first .. last] == IF l = first THEN 0 ELSE sum[l - 1] + f[l] IN sum[last]

Capped(l) == ExpFor[l] > ExpFor[l + 1]

(* The gains on arriving at each level, and the losses on leaving it for the *)
(* level below, by the vocation that counts there.                           *)
Gains(p) == [l \in 2 .. MaxLevel |-> Gain[IF p.voc > 0 /\ l <= RookTo THEN 0 ELSE p.voc]]

(* Mutant: the level that is left counts, not the one below.                 *)
LossesAbove(p) == [l \in 2 .. MaxLevel |-> Gain[IF p.voc > 0 /\ l < RookTo THEN 0 ELSE p.voc]]

LossesOf(p) == [l \in 2 .. MaxLevel |-> Gain[IF p.voc > 0 /\ l - 1 < RookTo THEN 0 ELSE p.voc]]

Reached(p, exp) ==
    Max({p.level} \cup {l \in p.level + 1 .. MaxLevel : exp >= ExpFor[l]})

AddExperience(n) ==
    /\ w.place = "world"
    /\ ~Capped(w.level)
    /\ LET to == Reached(w, w.exp + n)
       IN w' = [w EXCEPT !.exp = @ + n, !.level = to,
                         !.healthMax = @ + Total(Gains(w), w.level, to)]

Removed(p, n) ==
    LET exp == Max({0, p.exp - n})
        to == Max({1} \cup {l \in 1 .. p.level : exp >= ExpFor[l]})
    IN [p EXCEPT !.exp = exp, !.level = to,
                 !.healthMax = Max({0, @ - Total(LossesOf(p), to, p.level)})]

RemoveExperience(n) ==
    /\ w.place = "world"
    /\ w' = Removed(w, n)

-----------------------------------------------------------------------------
(* Magic and skills, by the tables of vocation v.                            *)

(* What a tally is worth above a level, and above the first one.             *)
Worth(v, k, t, l) == t.tries + Total(Req[v][k], l, t.level)
Spent(v, k, t) == Worth(v, k, t, Least[k])

Full(v, k, l) == Req[v][k][l] > Req[v][k][l + 1]
Reaches(v, k, t) == t.tries >= Req[v][k][t.level + 1]      \* what the next level takes

(* What the frames still hold.                                               *)
Pending(k) ==
    LET rest == [i \in DOMAIN w.frames |-> IF w.frames[i].kind = k THEN w.frames[i].rest ELSE 0]
    IN Total(rest, 0, Len(w.frames))

(* Levels and tries stay, the tables change.  Bounds: a vocation is chosen   *)
(* while the one of rookgaard still counts, and its tables reach so far.     *)
SetVocation(v) ==
    /\ w.place = "world" /\ w.voc = 0 /\ v # 0 /\ w.level <= RookTo
    /\ \A k \in Kinds : w.tally[k].level + 1 \in DOMAIN Req[v][k]
    /\ w' = [Taught(w, v)
                EXCEPT !.given = [k \in Kinds |-> Spent(v, k, w.tally[k]) + Pending(k)],
                       !.overpaid = {k \in Kinds : Reaches(v, k, w.tally[k])}]

(* One round of the loop: either the amount is spent, or a level is gained   *)
(* and announced to scripts, with the rest in a frame.                       *)
Advanced(p, k, n) ==
    LET t == p.tally[k]
        next == Req[p.voc][k][t.level + 1]
        up == [level |-> t.level + 1, tries |-> 0]
    IN IF t.tries + n < next
         THEN [p EXCEPT !.tally[k].tries = @ + n, !.overpaid = @ \ {k}]
         ELSE [p EXCEPT !.tally[k] = up, !.overpaid = @ \ {k},
                        !.frames = Append(@, [kind |-> k, rest |-> n - (next - t.tries),
                                              from |-> next, voc |-> p.voc])]

AddTries(k, n) ==
    /\ w.place = "world" /\ Len(w.frames) < MaxAdvances
    /\ ~Full(w.voc, k, w.tally[k].level)
    /\ w' = Advanced([w EXCEPT !.given[k] = @ + n], k, n)

(* The scripts return; what follows is computed from what they left.         *)
Announced ==
    /\ ~Idle
    /\ LET f == w.frames[Len(w.frames)]
           p == [w EXCEPT !.frames = SubSeq(@, 1, Len(@) - 1)]
           level == p.tally[f.kind].level
           excused == Full(p.voc, f.kind, level) \/ f.voc # p.voc
       IN w' = IF f.from > Req[p.voc][f.kind][level + 1]
                 THEN [p EXCEPT !.given[f.kind] = IF excused THEN @ - f.rest ELSE @]
                 ELSE Advanced(p, f.kind, f.rest)

(* A loss goes down through the levels, to the first one that can pay.       *)
Lowered(v, k, t, n) ==
    LET to == Max({l \in Least[k] .. t.level : n <= Worth(v, k, t, l)})
    IN [level |-> to, tries |-> Worth(v, k, t, to) - n]

-----------------------------------------------------------------------------
(* Deaths.                                                                   *)

Wear(c) ==
    /\ w.place = "world" /\ ~w.dead /\ c \notin w.worn
    /\ w' = [w EXCEPT !.worn = @ \cup {c}]

Enter(z, red) ==
    /\ w.place = "world" /\ ~w.dead /\ <<z, red>> # <<w.zone, w.red>>
    /\ w' = [w EXCEPT !.zone = z, !.red = red]

Bless(b) ==
    /\ w.place = "world" /\ ~w.dead /\ b \notin w.blessings
    /\ w' = [w EXCEPT !.blessings = @ \cup {b}]

(* Between two tasks; the checks see it later (game.cpp:4529).               *)
Slain ==
    /\ w.place = "world" /\ ~w.dead /\ Idle
    /\ w' = [w EXCEPT !.dead = TRUE]

Heal ==
    /\ w.place = "world" /\ w.dead /\ Idle
    /\ w' = [w EXCEPT !.dead = FALSE, !.corpses = 0]

(* What is worn is looked at outside hardcore zones, with no red skull.      *)
PreventDrop(p) == "drop" \in p.worn /\ p.zone # "hardcore" /\ ~p.red /\ p.loot = "full"
PreventLoss(p) == "loss" \in p.worn /\ p.zone # "hardcore" /\ ~p.red /\ p.loss

Prepared(p) ==
    IF p.zone = "hardcore"
      THEN [p EXCEPT !.loot = Loot(p.voc, "none"), !.loss = FALSE]
      ELSE IF PreventDrop(p) THEN [p EXCEPT !.loot = Loot(p.voc, "prevent")] ELSE p

(* A kill without loot: Player::onKilledCreature of the killer.              *)
KilledBy(p, noLoot) == IF noLoot THEN [p EXCEPT !.loot = Loot(p.voc, "none")] ELSE p

(* Either he is healed and put into his temple, or there is a corpse, whose  *)
(* script may keep the things in their places (redamulet.lua).               *)
Dropped(p, amulet) ==
    IF p.loot = "none"
      THEN [p EXCEPT !.dead = FALSE, !.corpses = 0, !.zone = "open", !.loot = Loot(p.voc, "full")]
      ELSE [p EXCEPT !.corpses = Min({2, @ + 1}), !.loot = IF amulet THEN Loot(p.voc, "none") ELSE @]

Lost(p, exp, share) ==
    LET share_of(k) == Min({share, Spent(p.voc, k, p.tally[k])})
        tally == [k \in Kinds |-> Lowered(p.voc, k, p.tally[k], share_of(k))]
    IN [Removed(p, exp)
          EXCEPT !.tally = tally, !.given = [k \in Kinds |-> @[k] - share_of(k)],
                 !.overpaid = {k \in @ : Reaches(p.voc, k, tally[k])}]

(* Back to rookgaard.  The corpses of a vocation that is excepted below count *)
(* no more.                                                                  *)
Rooked(p) ==
    IF p.voc > 0 /\ p.level <= RookAgain
      THEN [Taught(p, 0) EXCEPT !.level = 1, !.exp = 0, !.healthMax = Start,
                !.tally = [k \in Kinds |-> [level |-> Least[k], tries |-> 0]],
                !.given = [k \in Kinds |-> 0], !.overpaid = {}, !.worn = {},
                !.corpses = IF p.voc \in Keeps \cup Wears THEN 0 ELSE @]
      ELSE p

Gone(p) == [p EXCEPT !.place = "away"]

Denied(p, noLoot) ==
    [KilledBy(p, noLoot)
        EXCEPT !.loot = IF PreventDrop(w) THEN Loot(w.voc, "full") ELSE @,
               !.pardoned = @ \/ w.zone = "hardcore", !.killed = @ \/ noLoot]

(* The last of Player::onDeath.  The blessing that counts is the pvp one     *)
(* when players did the damage and nothing worn prevented the loss.          *)
Dead(p, pvp, exp, share) ==
    LET blessed == pvp /\ "pvp" \in w.blessings /\ ~PreventLoss(w)
        used == (IF PreventLoss(w) THEN {"loss"} ELSE {})
                  \cup (IF PreventDrop(w) /\ ~blessed THEN {"drop"} ELSE {})
        q == [p EXCEPT !.worn = @ \ used, !.loss = @ /\ ~PreventLoss(w)]
    IN IF q.loss
         THEN Gone(Rooked([Lost(q, exp, share)
                 EXCEPT !.blessings = IF blessed THEN @ \ {"pvp"} ELSE @ \cap {"pvp"}]))
         ELSE LET r == [q EXCEPT !.loss = Loss(q.voc, TRUE), !.pardoned = FALSE, !.killed = FALSE]
              IN IF PreventLoss(w) THEN Gone(r) ELSE r

Dies == w.place = "world" /\ w.dead /\ Idle

OnDeath(noLoot, amulet, pvp, exp, share) ==
    /\ Dies
    /\ w' = Dead(Dropped(KilledBy(Prepared(w), noLoot), amulet), pvp, exp, share)

(* A script of his own denies it first, or one of his killer's later.        *)
DeathRefused == Dies /\ w' = Denied(Prepared(w), FALSE)

KillRefused(noLoot) == Dies /\ w' = Denied(Prepared(w), noLoot)

(* More tries than the next level takes are dropped when a player is loaded. *)
Loaded(v, k, t) == IF t.tries > Req[v][k][t.level + 1] THEN [t EXCEPT !.tries = 0] ELSE t

(* He is saved with his health restored, and loaded anew.                    *)
Login ==
    LET tally == [k \in Kinds |-> Loaded(w.voc, k, w.tally[k])]
        dropped(k) == IF k \in w.overpaid THEN w.tally[k].tries - tally[k].tries ELSE 0
    IN /\ w.place = "away"
       /\ w' = [Taught(w, w.voc)
                   EXCEPT !.place = "world", !.dead = FALSE, !.corpses = 0, !.zone = "open",
                          !.pardoned = FALSE, !.killed = FALSE, !.tally = tally,
                          !.given = [k \in Kinds |-> @[k] - dropped(k)],
                          !.overpaid = {k \in @ : Reaches(w.voc, k, tally[k])}]

Next ==
    \/ \E n \in Amounts : AddExperience(n) \/ RemoveExperience(n) \/ \E k \in Kinds : AddTries(k, n)
    \/ \E v \in Vocations : SetVocation(v)
    \/ \E c \in Perils \cap {"loss", "drop"} : Wear(c)
    \/ \E z \in {"open"} \cup (Perils \cap {"hardcore"}), red \in BOOLEAN : Enter(z, red)
    \/ \E b \in Perils \cap {"pvp", "other"} : Bless(b)
    \/ \E exp, share \in Losses, noLoot, amulet, pvp \in BOOLEAN : OnDeath(noLoot, amulet, pvp, exp, share)
    \/ DeathRefused \/ \E noLoot \in BOOLEAN : KillRefused(noLoot)
    \/ Announced \/ Slain \/ Heal \/ Login

-----------------------------------------------------------------------------
(* The level is that of the experience, and the health that of the levels,   *)
(* however they were gone up and down, with a vocation chosen on the way.    *)
LevelsAgree ==
    /\ w.exp >= ExpFor[w.level] /\ (Capped(w.level) \/ w.exp < ExpFor[w.level + 1])
    /\ w.healthMax = Start + Total(Gains(w), 1, w.level)

(* Nothing a player was given of magic or of a skill since he chose his      *)
(* vocation is lost but by a death, whatever scripts add while an advance is *)
(* announced, and no level is left that was paid for.  The exceptions: what  *)
(* would go above the last level; the rest of an advance during which a      *)
(* script changed the vocation; and of the kinds that the new vocation's     *)
(* tables find overpaid, the level that is only gained with the next advance *)
(* and the tries that a login drops instead (vocation.cpp:518-543,           *)
(* iologindata.cpp:521, 674).                                                *)
TriesAgree ==
    \A k \in Kinds : LET t == w.tally[k] IN
        /\ Spent(w.voc, k, t) + Pending(k) = w.given[k]
        /\ k \notin w.overpaid => Full(w.voc, k, t.level) \/ ~Reaches(w.voc, k, t)

(* A death leaves one corpse or none, and nobody who can die again of it;    *)
(* what a denied death had set is put back.  The code's exceptions: those    *)
(* whose vocation loses no skill or drops nothing die until they are healed; *)
(* a death denied in a hardcore zone, and a kill without loot denied by      *)
(* another killer, make the next death cheap (player.cpp:2428, 4222, 2601).  *)
DeathsSettle ==
    w.voc \notin Keeps \cup Wears =>
        /\ w.corpses <= 1
        /\ w.place = "world" => w.corpses = 0
        /\ w.place = "world" /\ ~w.pardoned /\ ~w.killed => w.loot = "full" /\ w.loss

GrowthAgrees == LevelsAgree /\ TriesAgree /\ DeathsSettle

=============================================================================
