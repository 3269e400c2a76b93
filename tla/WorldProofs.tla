---------------------------- MODULE WorldProofs ----------------------------
(* The scenes of World where players fight, join guilds, live, pay and keep  *)
(* things: of each, that the property which the run checks on a small        *)
(* instance holds for any players, houses, guilds and items.  The state of a *)
(* scene is the record w.                                                    *)
EXTENDS World, Sequences, FiniteSetTheorems, TLAPS

-----------------------------------------------------------------------------
(* Skulls and fights (module Fights).                                        *)

FightsType ==
  [skull : [Players -> Fight!Skulls], fight : SUBSET Players, locked : SUBSET Players,
   attacked : [Players -> SUBSET (Players \cup {None})], zone : [Players -> {"open", "hardcore"}],
   dead : SUBSET Players, damage : [Players -> SUBSET Fight!Creatures],
   last : [Players -> Fight!Creatures \cup {None}], online : SUBSET Players,
   rows : [Players -> Nat], alive : SUBSET Summons, phantom : SUBSET Players]

\* FightsAgree of a state s.
Agreed(s) ==
  \A p \in Players :
    /\ s.attacked[p] # {} \/ p \in s.locked \/ s.skull[p] = "white" => p \in s.fight
    /\ s.skull[p] = "white" => s.attacked[p] # {}
    /\ \A q \in Players : q \in s.attacked[p] => p \notin s.attacked[q]
    /\ s.skull[p] \in Fight!Lasting => s.rows[p] >= RedLimit \/ p \in s.phantom
    /\ s.rows[p] >= RedLimit => s.skull[p] \in Fight!Lasting

Sound(s) == s \in FightsType /\ Agreed(s)

LEMMA SoundAgrees == Sound(w) => Fight!FightsAgree
BY DEF Sound, Agreed, Fight!FightsAgree, Fight!MarksEnd, Fight!OneBegan, Fight!MurderersMarked

LEMMA FightsInit ==
  ASSUME FightsAssumption, Fight!Init
  PROVE  Sound(w)
BY DEF FightsAssumption, Fight!Init, Sound, FightsType, Agreed, Fight!Skulls, Fight!Lasting, Fight!Creatures

LEMMA FightGoesOn ==
  ASSUME NEW s, Sound(s), NEW p \in Players, NEW lock \in BOOLEAN
  PROVE  Sound(Fight!AddInFight(s, p, lock))
BY DEF Sound, FightsType, Agreed, Fight!AddInFight

LEMMA FightEnds ==
  ASSUME NEW s, Sound(s), NEW p \in Players
  PROVE  Sound(Fight!EndFight(s, p))
<1> DEFINE t == Fight!EndFight(s, p)
<1>1. t \in FightsType
  BY ZenonT(60) DEF Sound, FightsType, Fight!EndFight, Fight!Skulls
<1>2. /\ t.attacked = [s.attacked EXCEPT ![p] = {}]
      /\ t.skull = [s.skull EXCEPT ![p] = IF @ \in Fight!Lasting THEN @ ELSE "none"]
      /\ t.fight = s.fight \ {p} /\ t.locked = s.locked \ {p}
      /\ t.rows = s.rows /\ t.phantom = s.phantom
  BY DEF Sound, FightsType, Fight!EndFight
<1> HIDE DEF t
<1>3. ASSUME NEW q \in Players
      PROVE  /\ t.attacked[q] = IF q = p THEN {} ELSE s.attacked[q]
             /\ t.skull[q] = IF q = p THEN IF s.skull[q] \in Fight!Lasting THEN s.skull[q] ELSE "none"
                                      ELSE s.skull[q]
  BY <1>2 DEF Sound, FightsType
<1>4. Agreed(t)
  BY <1>2, <1>3 DEF Sound, Agreed, Fight!Lasting
<1> QED
  BY <1>1, <1>4 DEF t, Sound

LEMMA SameMarks ==
  ASSUME NEW s, Sound(s), NEW t \in FightsType,
         t.skull = s.skull, t.fight = s.fight, t.locked = s.locked, t.attacked = s.attacked,
         t.rows = s.rows, t.phantom = s.phantom
  PROVE  Sound(t)
BY DEF Sound, Agreed

\* A blow: the one who strikes first attacks, the one who strikes back does not.
LEMMA TargetMarks ==
  ASSUME NEW s, Sound(s), NEW p \in Players, NEW q \in Players, FightsAssumption
  PROVE  Sound(Fight!OnTarget(s, p, q))
<1> DEFINE first == p # q /\ p \notin s.attacked[q]
           marked == first /\ ~Fight!InPvpZone(p, q)
           u == [s EXCEPT !.attacked[p] = IF marked THEN @ \cup {q} ELSE @,
                          !.skull[p] = IF marked /\ @ = "none" /\ s.skull[q] = "none" THEN "white" ELSE @]
           t == Fight!OnTarget(s, p, q)
<1>1. t = Fight!AddInFight(u, p, first)
  BY DEF Fight!OnTarget
<1>2. u \in FightsType
  BY ZenonT(60) DEF Sound, FightsType, Fight!Skulls
<1>3. /\ u.fight = s.fight /\ u.locked = s.locked
      /\ u.rows = s.rows /\ u.phantom = s.phantom
  BY DEF Sound, FightsType
<1>4. ASSUME NEW r \in Players
      PROVE  /\ r # p \/ ~marked => u.attacked[r] = s.attacked[r]
             /\ r = p /\ marked => u.attacked[r] = s.attacked[r] \cup {q}
             /\ r # p \/ ~marked => u.skull[r] = s.skull[r]
             /\ u.skull[r] # s.skull[r] => s.skull[r] = "none" /\ u.skull[r] = "white"
  BY DEF Sound, FightsType
<1>5. marked => p # q /\ p \notin s.attacked[q]
  OBVIOUS
<1> HIDE DEF u, first, marked
<1>6. /\ t \in FightsType /\ t.fight = s.fight \cup {p} /\ t.locked \subseteq s.locked \cup {p}
      /\ t.attacked = u.attacked /\ t.skull = u.skull /\ t.rows = s.rows /\ t.phantom = s.phantom
  <2> HIDE DEF t
  <2>1. /\ t.fight = u.fight \cup {p} /\ t.locked = IF first THEN u.locked \cup {p} ELSE u.locked
        /\ t.attacked = u.attacked /\ t.skull = u.skull /\ t.rows = u.rows /\ t.phantom = u.phantom
    BY <1>1, <1>2 DEF FightsType, Fight!AddInFight
  <2>2. t \in FightsType
    BY <1>1, <1>2 DEF FightsType, Fight!AddInFight
  <2> QED
    BY <1>3, <2>1, <2>2
<1> HIDE DEF t
<1>7. ASSUME NEW r \in Players
      PROVE  /\ t.attacked[r] # {} \/ r \in t.locked \/ t.skull[r] = "white" => r \in t.fight
             /\ t.skull[r] = "white" => t.attacked[r] # {}
             /\ t.skull[r] \in Fight!Lasting => t.rows[r] >= RedLimit \/ r \in t.phantom
             /\ t.rows[r] >= RedLimit => t.skull[r] \in Fight!Lasting
  BY <1>4, <1>6 DEF Sound, Agreed, Fight!Lasting
<1>8. ASSUME NEW a \in Players, NEW b \in Players, b \in t.attacked[a]
      PROVE  a \notin t.attacked[b]
  <2>1. b \in s.attacked[a] \/ (a = p /\ b = q /\ marked)
    BY <1>4, <1>6, <1>8
  <2>2. a \in t.attacked[b] => a \in s.attacked[b] \/ (b = p /\ a = q /\ marked)
    BY <1>4, <1>6
  <2>3. b \in s.attacked[a] => a \notin s.attacked[b]
    BY DEF Sound, Agreed
  <2> QED
    BY <1>5, <2>1, <2>2, <2>3
<1> QED
  BY <1>6, <1>7, <1>8 DEF t, Sound, Agreed

LEMMA AttackedMarks ==
  ASSUME NEW s, Sound(s), NEW p \in Players
  PROVE  Sound(Fight!OnAttacked(s, p))
BY FightGoesOn DEF Fight!OnAttacked

\* Who leaves is forgotten, or remembered as somebody who is gone.
LEMMA LeavingMarks ==
  ASSUME NEW s, Sound(s), NEW p \in Players, FightsAssumption
  PROVE  Sound(Fight!Without(s, p))
<1> DEFINE t == Fight!Without(s, p)
           gone == {p} \cup {c \in Summons : Master[c] = p}
<1>1. /\ t.attacked = [q \in Players |-> IF q = p THEN {}
                         ELSE IF p \in s.attacked[q] THEN (s.attacked[q] \ {p}) \cup {None}
                         ELSE s.attacked[q]]
      /\ t.skull = [s.skull EXCEPT ![p] = IF @ \in Fight!Lasting THEN @ ELSE "none"]
      /\ t.fight = s.fight \ {p} /\ t.locked = s.locked \ {p}
      /\ t.rows = s.rows /\ t.phantom = s.phantom
      /\ t.online = s.online \ {p} /\ t.dead = s.dead \ {p} /\ t.alive = s.alive \ gone
      /\ t.zone = [s.zone EXCEPT ![p] = "open"]
      /\ t.damage = [q \in Players |-> IF q = p THEN {} ELSE s.damage[q] \ gone]
      /\ t.last = [q \in Players |-> IF q = p \/ s.last[q] \in gone THEN None ELSE s.last[q]]
  BY DEF Fight!Without, Sound, FightsType
<1>2. t \in [skull : {t.skull}, fight : {t.fight}, locked : {t.locked}, attacked : {t.attacked},
             zone : {t.zone}, dead : {t.dead}, damage : {t.damage}, last : {t.last},
             online : {t.online}, rows : {t.rows}, alive : {t.alive}, phantom : {t.phantom}]
  BY DEF Fight!Without, Sound, FightsType
<1> HIDE DEF t, gone
<1>3. t \in FightsType
  BY <1>1, <1>2 DEF Sound, FightsType, Fight!Skulls
<1>4. ASSUME NEW q \in Players
      PROVE  /\ q = p => t.attacked[q] = {} /\ t.skull[q] # "white"
             /\ q # p /\ p \in s.attacked[q] => t.attacked[q] = (s.attacked[q] \ {p}) \cup {None}
             /\ q # p /\ p \notin s.attacked[q] => t.attacked[q] = s.attacked[q]
             /\ q # p \/ t.skull[q] # "none" => t.skull[q] = s.skull[q]
             /\ s.skull[q] \in Fight!Lasting => t.skull[q] = s.skull[q]
             /\ t.rows[q] = s.rows[q]
  BY <1>1 DEF Sound, FightsType, Fight!Lasting
<1>5. ASSUME NEW q \in Players
      PROVE  /\ t.attacked[q] # {} \/ q \in t.locked \/ t.skull[q] = "white" => q \in t.fight
             /\ t.skull[q] = "white" => t.attacked[q] # {}
             /\ t.skull[q] \in Fight!Lasting => t.rows[q] >= RedLimit \/ q \in t.phantom
             /\ t.rows[q] >= RedLimit => t.skull[q] \in Fight!Lasting
  <2>1. q # p => (t.attacked[q] # {} <=> s.attacked[q] # {})
    BY <1>4
  <2> QED
    BY ZenonT(60), <1>1, <1>4, <2>1 DEF Sound, Agreed, Fight!Lasting
<1>6. ASSUME NEW a \in Players, NEW b \in Players
      PROVE  a \in t.attacked[b] => a \in s.attacked[b]
  BY <1>4 DEF FightsAssumption
<1> QED
  BY <1>3, <1>5, <1>6 DEF t, Sound, Agreed

Murderers(ps, q) == {p \in ps : Fight!Unjustified(w, p, q)}

\* What Player::onKilledCreature leaves behind: the skulls of one murder more.
KilledMarks(k, ms) ==
  /\ k \in FightsType /\ ms \subseteq Players
  /\ \A p \in Players :
       /\ k.attacked[p] # {} \/ p \in k.locked \/ k.skull[p] = "white" => p \in k.fight
       /\ k.skull[p] = "white" => k.attacked[p] # {}
       /\ \A q \in Players : q \in k.attacked[p] => p \notin k.attacked[q]
       /\ p \notin ms => /\ k.skull[p] \in Fight!Lasting => k.rows[p] >= RedLimit \/ p \in k.phantom
                         /\ k.rows[p] >= RedLimit => k.skull[p] \in Fight!Lasting
       /\ p \in ms => /\ k.skull[p] \in Fight!Lasting => k.rows[p] + 1 >= RedLimit \/ p \in k.phantom
                      /\ k.rows[p] + 1 >= RedLimit => k.skull[p] \in Fight!Lasting
                      /\ k.rows[p] >= RedLimit => k.skull[p] \in Fight!Lasting

\* A skull is never worse deserved than the murders say, and never better.
LEMMA DeservedSkull ==
  ASSUME FightsAssumption, NEW skull \in Fight!Skulls, NEW n \in Nat
  PROVE  /\ Fight!Deserved(skull, n) \in Fight!Skulls
         /\ n >= RedLimit => Fight!Deserved(skull, n) \in Fight!Lasting
         /\ skull \in Fight!Lasting => Fight!Deserved(skull, n) \in Fight!Lasting
         /\ Fight!Deserved(skull, n) \in Fight!Lasting => skull \in Fight!Lasting \/ n >= RedLimit
         /\ Fight!Deserved(skull, n) = "white" => skull = "white"
BY DEF FightsAssumption, Fight!Deserved, Fight!Skulls, Fight!Lasting

LEMMA KillMarks ==
  ASSUME Sound(w), FightsAssumption, NEW ps, NEW last, NEW q \in Players
  PROVE  KilledMarks(Fight!Killed(w, ps, last, q), Murderers(ps, q))
<1> DEFINE ms == Murderers(ps, q)
           skulls == [p \in Players |-> IF p \in ms THEN Fight!Deserved(w.skull[p], w.rows[p] + 1)
                                       ELSE w.skull[p]]
           alive == {c \in w.alive : skulls[Master[c]] = w.skull[Master[c]]
                                       \/ skulls[Master[c]] # "black"}
           t == [w EXCEPT !.skull = skulls, !.alive = alive]
           k == Fight!Killed(w, ps, last, q)
<1>0. ms \subseteq Players
  BY DEF Murderers, Fight!Unjustified, Sound, FightsType
<1>1. /\ k = t \/ (k = Fight!AddInFight(t, last, TRUE) /\ last \in w.fight)
  BY DEF Fight!Killed, Murderers, Sound, FightsType
<1>2. alive \subseteq Summons
  BY DEF Sound, FightsType
<1>3. ASSUME NEW p \in Players
      PROVE  /\ w.skull[p] \in Fight!Skulls /\ w.rows[p] \in Nat /\ w.rows[p] + 1 \in Nat
             /\ skulls[p] = IF p \in ms THEN Fight!Deserved(w.skull[p], w.rows[p] + 1) ELSE w.skull[p]
  BY DEF Sound, FightsType
<1>4. skulls \in [Players -> Fight!Skulls]
  BY <1>3, DeservedSkull
<1>5. DOMAIN skulls = Players
  OBVIOUS
<1> HIDE DEF ms, skulls, alive
<1>6. /\ t \in FightsType /\ t.skull = skulls /\ t.fight = w.fight /\ t.locked = w.locked
      /\ t.attacked = w.attacked /\ t.rows = w.rows /\ t.phantom = w.phantom
  BY <1>2, <1>4 DEF Sound, FightsType
<1> HIDE DEF t, k
<1>7. /\ k \in FightsType /\ k.skull = skulls /\ k.fight = w.fight
      /\ k.locked = w.locked \/ (k.locked = w.locked \cup {last} /\ last \in w.fight)
      /\ k.attacked = w.attacked /\ k.rows = w.rows /\ k.phantom = w.phantom
  <2>1. CASE k = t
    BY <1>6, <2>1
  <2>2. CASE k = Fight!AddInFight(t, last, TRUE) /\ last \in w.fight
    <3>1. last \in Players
      BY <2>2 DEF Sound, FightsType
    <3>2. w.fight \cup {last} = w.fight
      BY <2>2
    <3> QED
      BY <1>6, <2>2, <3>1, <3>2 DEF FightsType, Fight!AddInFight
  <2> QED
    BY <1>1, <2>1, <2>2
<1>8. ASSUME NEW p \in Players
      PROVE  /\ k.skull[p] = "white" => w.skull[p] = "white"
             /\ w.skull[p] \in Fight!Lasting => k.skull[p] \in Fight!Lasting
             /\ p \notin ms => k.skull[p] = w.skull[p]
             /\ p \in ms /\ k.skull[p] \in Fight!Lasting
                  => w.skull[p] \in Fight!Lasting \/ w.rows[p] + 1 >= RedLimit
             /\ p \in ms /\ w.rows[p] + 1 >= RedLimit => k.skull[p] \in Fight!Lasting
  BY <1>3, <1>7, DeservedSkull
<1>9. ASSUME NEW p \in Players
      PROVE  /\ k.attacked[p] # {} \/ p \in k.locked \/ k.skull[p] = "white" => p \in k.fight
             /\ k.skull[p] = "white" => k.attacked[p] # {}
             /\ \A r \in Players : r \in k.attacked[p] => p \notin k.attacked[r]
  BY <1>7, <1>8 DEF Sound, Agreed
<1>10. ASSUME NEW p \in Players
       PROVE  /\ w.skull[p] \in Fight!Lasting => w.rows[p] >= RedLimit \/ p \in w.phantom
              /\ w.rows[p] >= RedLimit => w.skull[p] \in Fight!Lasting
              /\ w.rows[p] >= RedLimit => w.rows[p] + 1 >= RedLimit
  <2>1. w.rows[p] \in Nat /\ RedLimit \in Nat
    BY DEF Sound, FightsType, FightsAssumption
  <2> QED
    BY <2>1 DEF Sound, Agreed
<1> QED
  BY <1>0, <1>7, <1>8, <1>9, <1>10 DEF KilledMarks, ms, k

\* The death is recorded: a row for each murderer.
LEMMA RecordedMarks ==
  ASSUME NEW k, NEW ms, KilledMarks(k, ms)
  PROVE  Sound(Fight!Recorded(k, ms))
<1> DEFINE t == Fight!Recorded(k, ms)
           rows == [p \in Players |-> IF p \in ms THEN k.rows[p] + 1 ELSE k.rows[p]]
<1>6. k \in FightsType /\ k.rows \in [Players -> Nat]
  BY DEF KilledMarks, FightsType
<1>7. rows \in [Players -> Nat]
  BY <1>6
<1>8. t = [k EXCEPT !.rows = rows]
  BY <1>6 DEF Fight!Recorded, FightsType
<1> HIDE DEF t, rows
<1>1. t \in FightsType
  BY <1>6, <1>7, <1>8 DEF FightsType
<1>2. /\ t.rows = rows
      /\ t.skull = k.skull /\ t.fight = k.fight /\ t.locked = k.locked
      /\ t.attacked = k.attacked /\ t.phantom = k.phantom
  BY <1>6, <1>8 DEF FightsType
<1>3. ASSUME NEW p \in Players
      PROVE  /\ p \in ms => t.rows[p] = k.rows[p] + 1
             /\ p \notin ms => t.rows[p] = k.rows[p]
  BY <1>2 DEF rows
<1>4. ASSUME NEW p \in Players
      PROVE  /\ t.attacked[p] # {} \/ p \in t.locked \/ t.skull[p] = "white" => p \in t.fight
             /\ t.skull[p] = "white" => t.attacked[p] # {}
             /\ \A q \in Players : q \in t.attacked[p] => p \notin t.attacked[q]
  BY <1>2 DEF KilledMarks
<1>5. ASSUME NEW p \in Players
      PROVE  /\ t.skull[p] \in Fight!Lasting => t.rows[p] >= RedLimit \/ p \in t.phantom
             /\ t.rows[p] >= RedLimit => t.skull[p] \in Fight!Lasting
  BY <1>2, <1>3 DEF KilledMarks
<1> QED
  BY <1>1, <1>4, <1>5 DEF t, Sound, Agreed

\* The death is denied after the murder was counted.
LEMMA DeniedMarks ==
  ASSUME NEW k, NEW ms, KilledMarks(k, ms)
  PROVE  Sound([k EXCEPT !.phantom = @ \cup ms])
<1> DEFINE t == [k EXCEPT !.phantom = @ \cup ms]
<1>1. t \in FightsType
  BY DEF KilledMarks, FightsType
<1>2. /\ t.phantom = k.phantom \cup ms
      /\ t.skull = k.skull /\ t.fight = k.fight /\ t.locked = k.locked
      /\ t.attacked = k.attacked /\ t.rows = k.rows
  BY DEF KilledMarks, FightsType
<1> HIDE DEF t
<1>4. ASSUME NEW p \in Players
      PROVE  /\ t.attacked[p] # {} \/ p \in t.locked \/ t.skull[p] = "white" => p \in t.fight
             /\ t.skull[p] = "white" => t.attacked[p] # {}
             /\ \A q \in Players : q \in t.attacked[p] => p \notin t.attacked[q]
  BY <1>2 DEF KilledMarks
<1>5. ASSUME NEW p \in Players
      PROVE  /\ t.skull[p] \in Fight!Lasting => t.rows[p] >= RedLimit \/ p \in t.phantom
             /\ t.rows[p] >= RedLimit => t.skull[p] \in Fight!Lasting
  <2>1. CASE p \in ms
    BY <1>2, <2>1 DEF KilledMarks
  <2>2. CASE p \notin ms
    BY <1>2, <2>2 DEF KilledMarks
  <2> QED
    BY <2>1, <2>2
<1>3. Sound(t)
  BY <1>1, <1>4, <1>5 DEF Sound, Agreed
<1> QED
  BY <1>3 DEF t

-----------------------------------------------------------------------------
(* One lemma for each action.                                                *)

LEMMA OwnersPlay ==
  ASSUME FightsAssumption, NEW c \in Fight!Creatures
  PROVE  Fight!Owner(c) \in Players
BY DEF FightsAssumption, Fight!Creatures, Fight!Owner

LEMMA SetAttackedCreatureKeeps ==
  ASSUME FightsAssumption, Sound(w), NEW p \in Players, NEW q \in Players,
         Fight!SetAttackedCreature(p, q)
  PROVE  Sound(w')
<1>1. Sound(Fight!OnAttacked(Fight!OnTarget(w, p, q), q))
  BY TargetMarks, AttackedMarks
<1> QED
  BY <1>1 DEF Fight!SetAttackedCreature

LEMMA ChangeHealthKeeps ==
  ASSUME FightsAssumption, Sound(w), NEW c \in Fight!Creatures, NEW q \in Players, NEW blow,
         Fight!ChangeHealth(c, q, blow)
  PROVE  Sound(w')
<1> DEFINE s == Fight!OnAttacked(Fight!OnTarget(w, Fight!Owner(c), q), q)
           t == [s EXCEPT !.damage[q] = @ \cup {c}, !.last[q] = c,
                          !.dead = IF blow = "kills" THEN @ \cup {q} ELSE @]
<1>1. Sound(s)
  <2>1. Fight!Owner(c) \in Players
    BY OwnersPlay
  <2> QED
    BY <2>1, TargetMarks, AttackedMarks
<1>2. w' = s \/ w' = t
  BY DEF Fight!ChangeHealth
<1> HIDE DEF s
<1>3. /\ s.damage[q] \cup {c} \in SUBSET Fight!Creatures
      /\ (IF blow = "kills" THEN s.dead \cup {q} ELSE s.dead) \in SUBSET Players
  BY <1>1 DEF Sound, FightsType
<1>5. t \in FightsType
  BY <1>1, <1>3 DEF Sound, FightsType
<1>6. /\ t.skull = s.skull /\ t.fight = s.fight /\ t.locked = s.locked
      /\ t.attacked = s.attacked /\ t.rows = s.rows /\ t.phantom = s.phantom
  BY <1>1 DEF Sound, FightsType
<1> HIDE DEF t
<1>4. Sound(t)
  BY <1>1, <1>5, <1>6, SameMarks
<1> QED
  BY <1>1, <1>2, <1>4

LEMMA SlainKeeps ==
  ASSUME FightsAssumption, Sound(w), NEW q \in Players, Fight!Slain(q)
  PROVE  Sound(w')
<1> DEFINE s == Fight!OnAttacked(w, q)
           t == [s EXCEPT !.dead = @ \cup {q}, !.last[q] = None]
<1>1. Sound(s)
  BY AttackedMarks
<1>2. w' = t
  BY DEF Fight!Slain
<1> HIDE DEF s
<1>3. /\ t \in FightsType
      /\ t.skull = s.skull /\ t.fight = s.fight /\ t.locked = s.locked
      /\ t.attacked = s.attacked /\ t.rows = s.rows /\ t.phantom = s.phantom
  BY <1>1 DEF Sound, FightsType
<1> HIDE DEF t
<1> QED
  BY <1>1, <1>2, <1>3, SameMarks

LEMMA QuietKeeps ==
  ASSUME Sound(w), NEW q \in Players,
         \/ Fight!Heal(q)
         \/ \E c \in Fight!Creatures : Fight!Older(q, c)
         \/ \E z \in {"open", "hardcore"} : Fight!ChangeZone(q, z)
  PROVE  Sound(w')
<1>1. /\ w' \in FightsType
      /\ w'.skull = w.skull /\ w'.fight = w.fight /\ w'.locked = w.locked
      /\ w'.attacked = w.attacked /\ w'.rows = w.rows /\ w'.phantom = w.phantom
  BY DEF Sound, FightsType, Fight!Heal, Fight!Older, Fight!ChangeZone
<1> QED
  BY <1>1, SameMarks

LEMMA EndConditionKeeps ==
  ASSUME Sound(w), NEW p \in Players, Fight!EndCondition(p)
  PROVE  Sound(w')
BY FightEnds DEF Fight!EndCondition

LEMMA LeaveKeeps ==
  ASSUME FightsAssumption, Sound(w), NEW p \in Players, NEW kicked, Fight!Leave(p, kicked)
  PROVE  Sound(w')
BY LeavingMarks DEF Fight!Leave

\* A skull that ends takes the murders along that made it.
LEMMA LoginKeeps ==
  ASSUME FightsAssumption, Sound(w), NEW p \in Players, NEW ended \in BOOLEAN, Fight!Login(p, ended)
  PROVE  Sound(w')
<1> DEFINE t == [w EXCEPT !.online = @ \cup {p}, !.alive = @ \cup {c \in Summons : Master[c] = p},
                          !.skull[p] = IF ended THEN "none" ELSE @,
                          !.rows[p] = IF ended THEN 0 ELSE @,
                          !.phantom = IF ended THEN @ \ {p} ELSE @]
<1>1. w' = t /\ (ended => w.skull[p] \in Fight!Lasting)
  BY DEF Fight!Login
<1>2. t \in FightsType
  BY ZenonT(60) DEF Sound, FightsType, Fight!Skulls
<1>3. /\ t.attacked = w.attacked /\ t.fight = w.fight /\ t.locked = w.locked
      /\ t.phantom = IF ended THEN w.phantom \ {p} ELSE w.phantom
  BY DEF Sound, FightsType
<1>4. ASSUME NEW q \in Players
      PROVE  /\ q # p \/ ~ended => t.skull[q] = w.skull[q] /\ t.rows[q] = w.rows[q]
             /\ q = p /\ ended => t.skull[q] = "none" /\ t.rows[q] = 0
  BY DEF Sound, FightsType
<1> HIDE DEF t
<1>5. ~(0 >= RedLimit)
  BY DEF FightsAssumption
<1>6. ASSUME NEW q \in Players
      PROVE  /\ t.attacked[q] # {} \/ q \in t.locked \/ t.skull[q] = "white" => q \in t.fight
             /\ t.skull[q] = "white" => t.attacked[q] # {}
             /\ t.skull[q] \in Fight!Lasting => t.rows[q] >= RedLimit \/ q \in t.phantom
             /\ t.rows[q] >= RedLimit => t.skull[q] \in Fight!Lasting
  <2>1. CASE q = p /\ ended
    BY <1>3, <1>4, <1>5, <2>1 DEF Sound, Agreed, Fight!Lasting
  <2>2. CASE q # p \/ ~ended
    BY <1>3, <1>4, <2>2 DEF Sound, Agreed
  <2> QED
    BY <2>1, <2>2
<1> QED
  BY <1>1, <1>2, <1>3, <1>6 DEF Sound, Agreed

LEMMA ForgetKeeps ==
  ASSUME FightsAssumption, Sound(w), NEW p \in Players, Fight!Forget(p)
  PROVE  Sound(w')
<1> DEFINE t == [w EXCEPT !.rows[p] = @ - 1]
<1>1. w' = t /\ w.rows[p] > 0 /\ w.skull[p] \notin Fight!Lasting
  BY DEF Fight!Forget
<1>2. w.rows[p] - 1 \in Nat
  BY <1>1 DEF Sound, FightsType
<1>3. t \in FightsType
  BY <1>2 DEF Sound, FightsType
<1>4. /\ t.attacked = w.attacked /\ t.fight = w.fight /\ t.locked = w.locked
      /\ t.phantom = w.phantom /\ t.skull = w.skull
  BY DEF Sound, FightsType
<1>5. ASSUME NEW q \in Players
      PROVE  /\ q # p => t.rows[q] = w.rows[q]
             /\ q = p => t.rows[q] = w.rows[q] - 1
             /\ w.rows[q] \in Nat
  BY DEF Sound, FightsType
<1> HIDE DEF t
<1>6. ASSUME NEW q \in Players
      PROVE  /\ t.skull[q] \in Fight!Lasting => t.rows[q] >= RedLimit \/ q \in t.phantom
             /\ t.rows[q] >= RedLimit => t.skull[q] \in Fight!Lasting
  <2>1. CASE q = p
    <3>1. RedLimit \in Nat /\ (w.rows[p] >= RedLimit => w.skull[p] \in Fight!Lasting)
      BY DEF FightsAssumption, Sound, Agreed
    <3> QED
      BY <1>1, <1>4, <1>5, <2>1, <3>1
  <2>2. CASE q # p
    BY <1>4, <1>5, <2>2 DEF Sound, Agreed
  <2> QED
    BY <2>1, <2>2
<1> QED
  BY <1>1, <1>3, <1>4, <1>6 DEF Sound, Agreed

LEMMA NobodyMurdered ==
  ASSUME NEW k, KilledMarks(k, {})
  PROVE  Sound(k)
BY DEF KilledMarks, Sound, Agreed

\* Denied, in a pvp zone, or with a row for each murderer: the skulls fit.
LEMMA OnDeathKeeps ==
  ASSUME FightsAssumption, Sound(w), NEW q \in Players, NEW denied, Fight!OnDeath(q, denied)
  PROVE  Sound(w')
<1>1. PICK ps, last, murderers, lastOnly :
         /\ murderers = Murderers(ps, q)
         /\ lastOnly = ps \cap {last}
         /\ \/ w' = w
            \/ w' = [Fight!Killed(w, lastOnly, last, q) EXCEPT !.phantom = @ \cup (murderers \cap lastOnly)]
            \/ /\ w.zone[q] = "hardcore"
               /\ w' = [Fight!EndFight(Fight!Killed(w, ps, last, q), q)
                          EXCEPT !.dead = @ \ {q}, !.zone[q] = "open"]
            \/ w' = Fight!Without(Fight!EndFight(Fight!Recorded(Fight!Killed(w, ps, last, q), murderers), q), q)
  <2>1. PICK killers \in Fight!KillerSets(q) :
          LET ps == {Fight!Owner(c) : c \in killers}
              murderers == {p \in ps : Fight!Unjustified(w, p, q)}
              last == IF Fight!Present(w.last[q]) THEN Fight!Owner(w.last[q]) ELSE None
              lastOnly == ps \cap {last}
          IN  CASE denied = "prepare" -> w' = w
                [] denied = "kill" ->
                      /\ lastOnly # {}
                      /\ w' = [Fight!Killed(w, lastOnly, last, q)
                                 EXCEPT !.phantom = @ \cup (murderers \cap lastOnly)]
                [] OTHER ->
                      w' = IF w.zone[q] = "hardcore"
                             THEN [Fight!EndFight(Fight!Killed(w, ps, last, q), q)
                                     EXCEPT !.dead = @ \ {q}, !.zone[q] = "open"]
                             ELSE Fight!Without(Fight!EndFight(Fight!Recorded(Fight!Killed(w, ps, last, q), murderers), q), q)
    BY DEF Fight!OnDeath
  <2> DEFINE ps == {Fight!Owner(c) : c \in killers}
             last == IF Fight!Present(w.last[q]) THEN Fight!Owner(w.last[q]) ELSE None
  <2>2. Murderers(ps, q) = {p \in ps : Fight!Unjustified(w, p, q)}
    BY DEF Murderers
  <2> HIDE DEF ps, last
  <2> WITNESS ps, last, Murderers(ps, q), ps \cap {last}
  <2> QED
    BY <2>1, <2>2 DEF ps, last
<1>2. CASE w' = w
  BY <1>2 DEF Sound
<1>3. CASE w' = [Fight!Killed(w, lastOnly, last, q) EXCEPT !.phantom = @ \cup (murderers \cap lastOnly)]
  <2>1. murderers \cap lastOnly = Murderers(lastOnly, q)
    BY <1>1 DEF Murderers
  <2>2. KilledMarks(Fight!Killed(w, lastOnly, last, q), Murderers(lastOnly, q))
    BY KillMarks
  <2> QED
    BY <1>3, <2>1, <2>2, DeniedMarks
<1>4. CASE /\ w.zone[q] = "hardcore"
           /\ w' = [Fight!EndFight(Fight!Killed(w, ps, last, q), q)
                      EXCEPT !.dead = @ \ {q}, !.zone[q] = "open"]
  <2>1. Murderers(ps, q) = {}
    BY <1>4 DEF Murderers, Fight!Unjustified, Fight!InPvpZone
  <2>2. Sound(Fight!EndFight(Fight!Killed(w, ps, last, q), q))
    BY <2>1, KillMarks, NobodyMurdered, FightEnds
  <2> DEFINE s == Fight!EndFight(Fight!Killed(w, ps, last, q), q)
             t == [s EXCEPT !.dead = @ \ {q}, !.zone[q] = "open"]
  <2> HIDE DEF s
  <2>3. /\ t \in FightsType
        /\ t.skull = s.skull /\ t.fight = s.fight /\ t.locked = s.locked
        /\ t.attacked = s.attacked /\ t.rows = s.rows /\ t.phantom = s.phantom
    BY <2>2 DEF Sound, FightsType, s
  <2>4. w' = t
    BY <1>4 DEF s
  <2> HIDE DEF t
  <2> QED
    BY <2>2, <2>3, <2>4, SameMarks DEF s
<1>5. CASE w' = Fight!Without(Fight!EndFight(Fight!Recorded(Fight!Killed(w, ps, last, q), murderers), q), q)
  <2>1. Sound(Fight!Recorded(Fight!Killed(w, ps, last, q), murderers))
    BY <1>1, KillMarks, RecordedMarks
  <2>2. Sound(Fight!EndFight(Fight!Recorded(Fight!Killed(w, ps, last, q), murderers), q))
    BY <2>1, FightEnds
  <2> QED
    BY <1>5, <2>2, LeavingMarks
<1> QED
  BY <1>1, <1>2, <1>3, <1>4, <1>5

LEMMA FightKeeps ==
  ASSUME FightsAssumption, Sound(w), [Fight!Next]_w
  PROVE  Sound(w')
<1>1. CASE UNCHANGED w
  BY <1>1 DEF Sound
<1>2. CASE \E p, q \in Players : Fight!SetAttackedCreature(p, q)
  BY <1>2, SetAttackedCreatureKeeps
<1>3. CASE \E c \in Fight!Creatures, q \in Players, blow \in {"blocked", "wounds", "kills"} :
             Fight!ChangeHealth(c, q, blow)
  BY <1>3, ChangeHealthKeeps
<1>4. CASE \E q \in Players, c \in Fight!Creatures : Fight!Older(q, c)
  BY <1>4, QuietKeeps
<1>5. CASE \E q \in Players, d \in {"no", "prepare", "kill"} : Fight!OnDeath(q, d)
  BY <1>5, OnDeathKeeps
<1>6. CASE \E p \in Players : Fight!Slain(p)
  BY <1>6, SlainKeeps
<1>7. CASE \E p \in Players : Fight!Heal(p)
  BY <1>7, QuietKeeps
<1>8. CASE \E p \in Players : Fight!EndCondition(p)
  BY <1>8, EndConditionKeeps
<1>9. CASE \E p \in Players : Fight!Forget(p)
  BY <1>9, ForgetKeeps
<1>10. CASE \E p \in Players, z \in {"open", "hardcore"} : Fight!ChangeZone(p, z)
  BY <1>10, QuietKeeps
<1>11. CASE \E p \in Players, b \in BOOLEAN : Fight!Leave(p, b)
  BY <1>11, LeaveKeeps
<1>12. CASE \E p \in Players, b \in BOOLEAN : Fight!Login(p, b)
  BY <1>12, LoginKeeps
<1> QED
  BY <1>1, <1>2, <1>3, <1>4, <1>5, <1>6, <1>7, <1>8, <1>9, <1>10, <1>11, <1>12 DEF Fight!Next

\* The marks of a fight end with it, of two who fight one began, and a lasting
\* skull is worn by exactly those whose murders deserve it.
THEOREM FightsAlwaysAgree == Spec => []FightsAgree
<1> DEFINE Inv == scene = "fights" => Sound(w)
<1>1. Init => Inv
  BY WorldAssumption, FightsInit DEF Init, WorldAssumption
<1>2. Inv /\ [Next]_<<scene, w>> => Inv'
  <2> SUFFICES ASSUME Inv, [Next]_<<scene, w>>, scene' = "fights"
               PROVE  Sound(w')
    BY DEF Sound, Agreed
  <2>1. scene = "fights" /\ [Fight!Next]_w
    BY DEF Next
  <2> QED
    BY <2>1, WorldAssumption, FightKeeps
<1>3. Inv => FightsAgree
  BY WorldAssumption, SoundAgrees DEF FightsAgree
<1> QED
  BY <1>1, <1>2, <1>3, PTL DEF Spec

-----------------------------------------------------------------------------
(* Guilds (module Guilds).                                                   *)

GuildsType ==
  [rows : [Members -> Hall!Rank], rank : [Members -> Hall!Rank], online : SUBSET Members,
   invitesRow : [Members -> SUBSET Hall!Ids], invites : [Members -> SUBSET Hall!Ids],
   owner : [Hall!Ids -> Members \cup {None}], founded : 0 .. MaxGuilds,
   channels : SUBSET Hall!Ids, listeners : [Hall!Ids -> SUBSET Members], handed : SUBSET Hall!Ids]

\* Where the rank and the invitations of a player count.
RankOf(s, p) == IF p \in s.online THEN s.rank[p] ELSE s.rows[p]
InvitesOf(s, p) == IF p \in s.online THEN s.invites[p] ELSE s.invitesRow[p]

\* A member is not invited where he belongs, so that a guild that is disbanded
\* takes every invitation along; whoever is not in the game carries no rank.
Loyal(s, p) ==
  /\ RankOf(s, p).level = 3 /\ RankOf(s, p).guild \notin s.handed => s.owner[RankOf(s, p).guild] = p
  /\ RankOf(s, p).guild # 0 => s.owner[RankOf(s, p).guild] # None
  /\ RankOf(s, p).guild \notin InvitesOf(s, p)
  /\ \A g \in s.invites[p] \cup s.invitesRow[p] : s.owner[g] # None
  /\ p \notin s.online => s.rank[p] = Hall!NoRank

Founded(s) == \A g \in Hall!Ids : s.owner[g] # None => g <= s.founded

GuildsSound(s) == s \in GuildsType /\ Founded(s) /\ \A p \in Members : Loyal(s, p)

LEMMA RankFacts ==
  /\ Hall!NoRank \in Hall!Rank /\ Hall!NoRank.guild = 0 /\ Hall!NoRank.level = 0
  /\ \A r \in Hall!Rank : /\ r.guild = 0 => r = Hall!NoRank
                          /\ r.guild = 0 \/ r.guild \in Hall!Ids
  /\ \A g \in Hall!Ids, l \in 1 .. 3 : /\ [guild |-> g, level |-> l] \in Hall!Rank
                                       /\ [guild |-> g, level |-> l].guild = g
                                       /\ [guild |-> g, level |-> l].level = l
  /\ 0 \notin Hall!Ids
BY DEF Hall!NoRank, Hall!Rank, Hall!Ids

LEMMA GuildsSoundAgrees ==
  ASSUME GuildsAssumption, GuildsSound(w)
  PROVE  Hall!GuildsAgree
<1>1. ASSUME NEW p \in Members
      PROVE  Hall!Actual(p) = RankOf(w, p) /\ RankOf(w, p) \in Hall!Rank
  BY DEF Hall!Actual, RankOf, GuildsSound, GuildsType
<1>2. ASSUME NEW p \in Members, RankOf(w, p).guild # 0
      PROVE  Hall!guildExists(RankOf(w, p).guild)
  BY <1>1, <1>2, RankFacts DEF GuildsSound, Loyal, Hall!guildExists
<1>3. ASSUME NEW p \in Members, NEW g \in w.invites[p] \cup w.invitesRow[p]
      PROVE  Hall!guildExists(g)
  BY <1>3 DEF GuildsSound, GuildsType, Loyal, Hall!guildExists
<1>4. ASSUME NEW p \in Members, RankOf(w, p).level = Hall!Leader, RankOf(w, p).guild \notin w.handed
      PROVE  w.owner[RankOf(w, p).guild] = p
  BY <1>4 DEF GuildsSound, Loyal, Hall!Leader
<1> QED
  BY <1>1, <1>2, <1>3, <1>4 DEF Hall!GuildsAgree

LEMMA GuildsInit ==
  ASSUME GuildsAssumption, Hall!Init
  PROVE  GuildsSound(w)
<1>1. w \in GuildsType
  BY RankFacts DEF GuildsAssumption, Hall!Init, GuildsType
<1>2. /\ \A p \in Members : w.rows[p] = Hall!NoRank /\ w.rank[p] = Hall!NoRank
                            /\ w.invites[p] = {} /\ w.invitesRow[p] = {}
      /\ \A g \in Hall!Ids : w.owner[g] = None
  BY DEF Hall!Init
<1>3. ASSUME NEW p \in Members
      PROVE  Loyal(w, p)
  BY <1>2, RankFacts DEF Loyal, RankOf, InvitesOf
<1>4. Founded(w)
  BY <1>2 DEF Founded
<1> QED
  BY <1>1, <1>3, <1>4 DEF GuildsSound

\* Who speaks in the channel of his guild belongs to it.
LEMMA SpeakerBelongs ==
  ASSUME GuildsSound(w), NEW p \in Members, Hall!Speaks(p)
  PROVE  /\ p \in w.online /\ w.rank[p] = RankOf(w, p) /\ w.rank[p] \in Hall!Rank
         /\ Hall!Guild(p) = w.rank[p].guild /\ Hall!Guild(p) \in Hall!Ids
         /\ w.owner[Hall!Guild(p)] # None
BY DEF GuildsSound, GuildsType, Hall!Speaks, Hall!Guild, Hall!guildExists, RankOf

\* Somebody else's rank or invitations: whoever is not touched stays loyal.
LEMMA OthersLoyal ==
  ASSUME NEW s, NEW t, NEW q \in Members, Loyal(s, q),
         t.rank[q] = s.rank[q], t.rows[q] = s.rows[q], q \in t.online <=> q \in s.online,
         t.invites[q] \subseteq s.invites[q], t.invitesRow[q] \subseteq s.invitesRow[q],
         t.owner = s.owner, s.handed \subseteq t.handed
  PROVE  Loyal(t, q)
BY DEF Loyal, RankOf, InvitesOf

\* A member's rank changes within his guild, or he leaves it.
LEMMA RankChanges ==
  ASSUME GuildsAssumption, NEW s, GuildsSound(s), NEW q \in Members, NEW rank \in Hall!Rank,
         rank.level = 3 => s.owner[rank.guild] = q \/ rank.guild \in s.handed,
         rank.guild = RankOf(s, q).guild \/ rank.guild = 0
  PROVE  GuildsSound(Hall!Given(s, q, rank))
<1> DEFINE t == Hall!Given(s, q, rank)
<1>1. /\ t \in GuildsType /\ t.online = s.online /\ t.invites = s.invites
      /\ t.invitesRow = s.invitesRow /\ t.owner = s.owner /\ t.handed = s.handed
      /\ t.founded = s.founded
  BY DEF GuildsSound, GuildsType, Hall!Given
<1>2. /\ \A p \in Members \ {q} : t.rank[p] = s.rank[p] /\ t.rows[p] = s.rows[p]
      /\ RankOf(t, q) = rank
      /\ q \notin s.online => t.rank[q] = s.rank[q]
  BY DEF GuildsSound, GuildsType, Hall!Given, RankOf
<1> HIDE DEF t
<1>3. ASSUME NEW p \in Members \ {q}
      PROVE  Loyal(t, p)
  BY <1>1, <1>2, OthersLoyal DEF GuildsSound
<1>4. Loyal(t, q)
  <2>1. /\ Loyal(s, q) /\ InvitesOf(t, q) = InvitesOf(s, q) /\ InvitesOf(s, q) \subseteq Hall!Ids
        /\ 0 \notin InvitesOf(s, q)
    BY <1>1, RankFacts DEF GuildsSound, GuildsType, InvitesOf
  <2> QED
    BY <1>1, <1>2, <2>1 DEF Loyal
<1>5. Founded(t)
  BY <1>1 DEF Founded, GuildsSound
<1> QED
  BY <1>1, <1>3, <1>4, <1>5 DEF t, GuildsSound

LEMMA LeftGuild ==
  ASSUME GuildsAssumption, NEW s, GuildsSound(s), NEW p \in s.online
  PROVE  GuildsSound(Hall!Left(s, p))
<1>1. p \in Members /\ Hall!Given(s, p, Hall!NoRank) = Hall!Left(s, p)
  BY DEF GuildsSound, GuildsType, Hall!Given, Hall!Left
<1> QED
  BY <1>1, RankChanges, RankFacts

\* The leadership of a guild is handed on to somebody who is not in the game.
LEMMA HandedSound ==
  ASSUME NEW s, GuildsSound(s), NEW g \in Hall!Ids
  PROVE  GuildsSound([s EXCEPT !.handed = @ \cup {g}])
<1> DEFINE t == [s EXCEPT !.handed = @ \cup {g}]
<1>1. /\ t \in GuildsType /\ t.online = s.online /\ t.invites = s.invites
      /\ t.invitesRow = s.invitesRow /\ t.owner = s.owner /\ t.handed = s.handed \cup {g}
      /\ t.founded = s.founded /\ t.rank = s.rank /\ t.rows = s.rows
  BY DEF GuildsSound, GuildsType
<1> HIDE DEF t
<1>2. ASSUME NEW p \in Members
      PROVE  Loyal(t, p)
  BY <1>1, OthersLoyal DEF GuildsSound
<1>3. Founded(t)
  BY <1>1 DEF Founded, GuildsSound
<1> QED
  BY <1>1, <1>2, <1>3 DEF t, GuildsSound

-----------------------------------------------------------------------------
(* The commands.                                                             *)

LEMMA DisbandKeeps ==
  ASSUME GuildsAssumption, GuildsSound(w), NEW p \in Members, Hall!Disband(p)
  PROVE  GuildsSound(w')
<1> DEFINE g == Hall!Guild(p)
           t == Hall!Disbanded(w, g)
<1>1. g \in Hall!Ids /\ w' = t
  BY SpeakerBelongs DEF Hall!Disband
<1> HIDE DEF g
<1>2. t \in GuildsType
  BY ZenonT(60), <1>1, RankFacts DEF GuildsSound, GuildsType, Hall!Disbanded
<1>3. /\ t.online = w.online /\ t.handed = w.handed /\ t.founded = w.founded
      /\ t.owner = [w.owner EXCEPT ![g] = None]
      /\ t.rows = [q \in Members |-> IF w.rows[q].guild = g THEN Hall!NoRank ELSE w.rows[q]]
      /\ t.rank = [q \in Members |-> IF w.rank[q].guild = g THEN Hall!NoRank ELSE w.rank[q]]
      /\ t.invitesRow = [q \in Members |-> w.invitesRow[q] \ {g}]
      /\ t.invites = [q \in Members |-> IF w.rank[q].guild = g THEN w.invites[q] ELSE w.invites[q] \ {g}]
  BY DEF GuildsSound, GuildsType, Hall!Disbanded
<1> HIDE DEF t
<1>4. ASSUME NEW h \in Hall!Ids
      PROVE  /\ h # g => t.owner[h] = w.owner[h]
             /\ t.owner[h] # None => t.owner[h] = w.owner[h]
  BY <1>1, <1>3 DEF GuildsSound, GuildsType
<1>5. ASSUME NEW q \in Members
      PROVE  /\ RankOf(w, q).guild = g => RankOf(t, q) = Hall!NoRank
             /\ RankOf(w, q).guild # g => RankOf(t, q) = RankOf(w, q)
             /\ RankOf(w, q) \in Hall!Rank
             /\ q \notin w.online => t.rank[q] = Hall!NoRank
  BY <1>3 DEF RankOf, GuildsSound, GuildsType, Loyal
<1>6. ASSUME NEW q \in Members
      PROVE  /\ t.invites[q] = w.invites[q] \ {g}
             /\ t.invitesRow[q] = w.invitesRow[q] \ {g}
  <2>1. w.rank[q].guild = g => q \in w.online
    BY <1>1, RankFacts DEF GuildsSound, Loyal
  <2>2. w.rank[q].guild = g => g \notin w.invites[q]
    BY <2>1 DEF GuildsSound, Loyal, RankOf, InvitesOf
  <2> QED
    BY <1>3, <2>2
<1>7. ASSUME NEW q \in Members
      PROVE  Loyal(t, q)
  <2>1. /\ \A h \in t.invites[q] \cup t.invitesRow[q] : h \in Hall!Ids /\ h # g /\ w.owner[h] # None
        /\ w.invites[q] \cup w.invitesRow[q] \subseteq Hall!Ids
    BY <1>6 DEF GuildsSound, GuildsType, Loyal
  <2>2. \A h \in t.invites[q] \cup t.invitesRow[q] : t.owner[h] # None
    BY <1>4, <2>1
  <2>3. InvitesOf(t, q) \subseteq InvitesOf(w, q) /\ 0 \notin InvitesOf(t, q)
    BY <1>3, <1>6, <2>1, RankFacts DEF InvitesOf
  <2>4. CASE RankOf(w, q).guild = g
    BY <1>3, <1>5, <2>2, <2>3, <2>4, RankFacts DEF Loyal
  <2>5. CASE RankOf(w, q).guild # g
    <3>1. RankOf(w, q).guild # 0 => t.owner[RankOf(w, q).guild] = w.owner[RankOf(w, q).guild]
      BY <1>4, <1>5, <2>5, RankFacts
    <3>2. RankOf(w, q).guild = 0 => RankOf(w, q).level = 0
      BY <1>5, RankFacts
    <3> QED
      BY <1>3, <1>5, <2>2, <2>3, <2>5, <3>1, <3>2 DEF Loyal, GuildsSound
  <2> QED
    BY <2>4, <2>5
<1>8. Founded(t)
  BY <1>3, <1>4 DEF Founded, GuildsSound
<1> QED
  BY <1>1, <1>2, <1>7, <1>8 DEF GuildsSound

LEMMA InviteKeeps ==
  ASSUME GuildsAssumption, GuildsSound(w), NEW p \in Members, NEW q \in Members, Hall!Invite(p, q)
  PROVE  GuildsSound(w')
<1> DEFINE g == Hall!Guild(p)
<1>1. g \in Hall!Ids /\ w.owner[g] # None /\ RankOf(w, q).guild = 0
  BY SpeakerBelongs DEF Hall!Invite, Hall!Actual, RankOf
<1>2. \/ q \in w.online /\ w' = [w EXCEPT !.invites[q] = @ \cup {g}]
      \/ q \notin w.online /\ w' = [w EXCEPT !.invitesRow[q] = @ \cup {g}]
  BY DEF Hall!Invite
<1> HIDE DEF g
<1>3. w' \in GuildsType
  BY <1>1, <1>2 DEF GuildsSound, GuildsType
<1>4. /\ w'.online = w.online /\ w'.rank = w.rank /\ w'.rows = w.rows
      /\ w'.owner = w.owner /\ w'.handed = w.handed /\ w'.founded = w.founded
  BY <1>2 DEF GuildsSound, GuildsType
<1>5. /\ \A r \in Members \ {q} : w'.invites[r] = w.invites[r] /\ w'.invitesRow[r] = w.invitesRow[r]
      /\ w'.invites[q] \subseteq w.invites[q] \cup {g}
      /\ w'.invitesRow[q] \subseteq w.invitesRow[q] \cup {g}
  BY <1>2 DEF GuildsSound, GuildsType
<1>6. ASSUME NEW r \in Members \ {q}
      PROVE  Loyal(w', r)
  BY <1>4, <1>5, OthersLoyal DEF GuildsSound
<1>7. Loyal(w', q)
  <2>1. Loyal(w, q) /\ RankOf(w', q) = RankOf(w, q)
    BY <1>4 DEF GuildsSound, RankOf
  <2>2. 0 \notin InvitesOf(w', q)
    BY <1>3, RankFacts DEF GuildsType, InvitesOf
  <2> QED
    BY <1>1, <1>4, <1>5, <2>1, <2>2 DEF Loyal
<1>8. Founded(w')
  BY <1>4 DEF Founded, GuildsSound
<1> QED
  BY <1>3, <1>6, <1>7, <1>8 DEF GuildsSound

LEMMA RevokeKeeps ==
  ASSUME GuildsAssumption, GuildsSound(w), NEW p \in Members, NEW q \in Members, Hall!Revoke(p, q)
  PROVE  GuildsSound(w')
<1> DEFINE g == Hall!Guild(p)
<1>2. \/ q \in w.online /\ w' = [w EXCEPT !.invites[q] = @ \ {g}]
      \/ q \notin w.online /\ w' = [w EXCEPT !.invitesRow[q] = @ \ {g}]
  BY DEF Hall!Revoke
<1> HIDE DEF g
<1>3. w' \in GuildsType
  BY <1>2 DEF GuildsSound, GuildsType
<1>4. /\ w'.online = w.online /\ w'.rank = w.rank /\ w'.rows = w.rows
      /\ w'.owner = w.owner /\ w'.handed = w.handed /\ w'.founded = w.founded
  BY <1>2 DEF GuildsSound, GuildsType
<1>5. \A r \in Members : w'.invites[r] \subseteq w.invites[r] /\ w'.invitesRow[r] \subseteq w.invitesRow[r]
  BY <1>2 DEF GuildsSound, GuildsType
<1>6. ASSUME NEW r \in Members
      PROVE  Loyal(w', r)
  BY <1>4, <1>5, OthersLoyal DEF GuildsSound
<1>8. Founded(w')
  BY <1>4 DEF Founded, GuildsSound
<1> QED
  BY <1>3, <1>6, <1>8 DEF GuildsSound

LEMMA PromoteKeeps ==
  ASSUME GuildsAssumption, GuildsSound(w), NEW p \in Members, NEW q \in Members,
         Hall!Promote(p, q) \/ Hall!Demote(p, q)
  PROVE  GuildsSound(w')
<1>1. PICK level \in {1, 2}, old \in {1, 2} :
         /\ Hall!Speaks(p) /\ Hall!Actual(q) = Hall!Ranked(p, old)
         /\ w' = Hall!Given(w, q, Hall!Ranked(p, level))
  BY DEF Hall!Promote, Hall!Demote, Hall!Vice, Hall!Member
<1> DEFINE g == Hall!Guild(p)
<1>2. g \in Hall!Ids
  BY <1>1, SpeakerBelongs
<1>3. RankOf(w, q) = [guild |-> g, level |-> old] /\ Hall!Ranked(p, level) = [guild |-> g, level |-> level]
  BY <1>1 DEF RankOf, Hall!Actual, Hall!Ranked
<1> HIDE DEF g
<1>4. /\ [guild |-> g, level |-> level] \in Hall!Rank
      /\ [guild |-> g, level |-> level].level # 3
      /\ [guild |-> g, level |-> level].guild = RankOf(w, q).guild
  <2>1. level \in 1 .. 3 /\ old \in 1 .. 3 /\ level # 3
    OBVIOUS
  <2>2. /\ [guild |-> g, level |-> level] \in Hall!Rank
        /\ [guild |-> g, level |-> level].guild = g
        /\ [guild |-> g, level |-> level].level = level
        /\ [guild |-> g, level |-> old].guild = g
    BY <1>2, <2>1, RankFacts, Zenon
  <2> QED
    BY <1>3, <2>1, <2>2
<1> QED
  BY <1>1, <1>3, <1>4, RankChanges

LEMMA PassLeadershipKeeps ==
  ASSUME GuildsAssumption, GuildsSound(w), NEW p \in Members, NEW q \in Members,
         Hall!PassLeadership(p, q)
  PROVE  GuildsSound(w')
<1> DEFINE g == Hall!Guild(p)
           leader == [guild |-> g, level |-> 3]
           vice == [guild |-> g, level |-> 2]
           s == [Hall!Given(w, q, leader) EXCEPT !.rank[p] = vice]
<1>1. /\ p \in w.online /\ g \in Hall!Ids /\ RankOf(w, p) = w.rank[p] /\ w.rank[p].guild = g
      /\ w.rank[p].level = 3 /\ RankOf(w, q) = vice /\ w.owner[g] # None
  BY SpeakerBelongs DEF Hall!PassLeadership, Hall!Actual, RankOf, Hall!Ranked, Hall!Vice, Hall!Leader, Hall!Level
<1>2. /\ q \in w.online => w' = [s EXCEPT !.owner[g] = q]
      /\ q \notin w.online => w' = [s EXCEPT !.handed = @ \cup {g}]
  <2>1. /\ Hall!Ranked(p, Hall!Leader) = leader
        /\ Hall!Ranked(p, Hall!Vice) = vice
    BY DEF Hall!Ranked, Hall!Leader, Hall!Vice
  <2>2. w' = IF q \in w.online
             THEN [[Hall!Given(w, q, Hall!Ranked(p, Hall!Leader)) EXCEPT !.rank[p] = Hall!Ranked(p, Hall!Vice)]
                      EXCEPT !.owner[g] = q]
             ELSE [[Hall!Given(w, q, Hall!Ranked(p, Hall!Leader)) EXCEPT !.rank[p] = Hall!Ranked(p, Hall!Vice)]
                      EXCEPT !.handed = @ \cup {g}]
    BY DEF Hall!PassLeadership
  <2> HIDE DEF leader, vice, g
  <2> QED
    BY <2>1, <2>2
<1>3. /\ leader \in Hall!Rank /\ leader.guild = g /\ leader.level = 3
      /\ vice \in Hall!Rank /\ vice.guild = g /\ vice.level = 2
  <2>1. 3 \in 1 .. 3 /\ 2 \in 1 .. 3
    OBVIOUS
  <2> HIDE DEF g
  <2> QED
    BY <1>1, <2>1, RankFacts, Zenon
<1>4. p # q
  BY <1>1, <1>3
<1> HIDE DEF g, leader, vice
<1>5. /\ s \in GuildsType /\ s.online = w.online /\ s.invites = w.invites
      /\ s.invitesRow = w.invitesRow /\ s.owner = w.owner /\ s.handed = w.handed
      /\ s.founded = w.founded
  BY <1>3 DEF GuildsSound, GuildsType, Hall!Given
<1>6. /\ \A r \in Members \ {p, q} : s.rank[r] = w.rank[r] /\ s.rows[r] = w.rows[r]
      /\ RankOf(s, p) = vice /\ RankOf(s, q) = leader
      /\ q \notin w.online => s.rank[q] = w.rank[q]
  BY <1>1, <1>3, <1>4 DEF GuildsSound, GuildsType, Hall!Given, RankOf
<1> HIDE DEF s
<1>7. /\ w' \in GuildsType /\ w'.online = w.online /\ w'.invites = w.invites
      /\ w'.invitesRow = w.invitesRow /\ w'.founded = w.founded
      /\ w'.rank = s.rank /\ w'.rows = s.rows
      /\ q \in w.online => w'.owner = [w.owner EXCEPT ![g] = q] /\ w'.handed = w.handed
      /\ q \notin w.online => w'.owner = w.owner /\ w'.handed = w.handed \cup {g}
  BY <1>1, <1>2, <1>5 DEF GuildsType
<1>8. /\ \A h \in Hall!Ids : /\ h # g => w'.owner[h] = w.owner[h]
                             /\ h = g => w'.owner[h] = w.owner[h] \/ w'.owner[h] = q
                             /\ w.owner[h] # None <=> w'.owner[h] # None
      /\ q \in w.online => w'.owner[g] = q
      /\ g \notin w'.handed => q \in w.online
      /\ w.handed \subseteq w'.handed
  BY <1>1, <1>7 DEF GuildsSound, GuildsType, GuildsAssumption
<1>9. ASSUME NEW r \in Members
      PROVE  /\ RankOf(w, r) \in Hall!Rank
             /\ Loyal(w, r)
             /\ InvitesOf(w', r) = InvitesOf(w, r) /\ RankOf(w', r) = RankOf(s, r)
             /\ r \notin w.online => s.rank[r] = Hall!NoRank
             /\ w.invites[r] \cup w.invitesRow[r] \subseteq Hall!Ids
             /\ w'.invites[r] = w.invites[r] /\ w'.invitesRow[r] = w.invitesRow[r]
  BY <1>1, <1>5, <1>6, <1>7 DEF GuildsSound, GuildsType, Loyal, RankOf, InvitesOf
<1>10. ASSUME NEW r \in Members, RankOf(w', r).level = 3, RankOf(w', r).guild \notin w'.handed
       PROVE  w'.owner[RankOf(w', r).guild] = r
  <2>1. r # p
    BY <1>3, <1>6, <1>9, <1>10
  <2>2. CASE r = q
    BY <1>3, <1>6, <1>8, <1>9, <1>10, <2>2
  <2>3. CASE r # q
    <3>1. RankOf(w', r) = RankOf(w, r)
      BY <1>5, <1>6, <1>9, <2>1, <2>3 DEF RankOf
    <3>2. w.owner[RankOf(w, r).guild] = r
      BY <1>8, <1>9, <1>10, <3>1 DEF Loyal
    <3>3. RankOf(w, r).guild = g => w.owner[g] = p
      BY <1>1, <1>8, <1>9, <1>10, <3>1 DEF Loyal
    <3>4. RankOf(w, r).guild \in Hall!Ids \/ RankOf(w, r) = Hall!NoRank
      BY <1>9, RankFacts
    <3> QED
      BY <1>8, <1>10, <2>1, <3>1, <3>2, <3>3, <3>4, RankFacts
  <2> QED
    BY <2>2, <2>3
<1>11. ASSUME NEW r \in Members
       PROVE  /\ RankOf(w', r).guild = RankOf(w, r).guild
              /\ RankOf(w, r).guild # 0 => RankOf(w, r).guild \in Hall!Ids
  BY <1>1, <1>3, <1>5, <1>6, <1>9, RankFacts DEF RankOf
<1>12. ASSUME NEW r \in Members
       PROVE  Loyal(w', r)
  <2>1. \A h \in w'.invites[r] \cup w'.invitesRow[r] : w'.owner[h] # None
    BY <1>8, <1>9 DEF Loyal
  <2>2. r \notin w'.online => w'.rank[r] = Hall!NoRank
    BY <1>7, <1>9
  <2>3. RankOf(w', r).guild # 0 => w'.owner[RankOf(w', r).guild] # None
    BY <1>8, <1>9, <1>11 DEF Loyal
  <2>4. RankOf(w', r).guild \notin InvitesOf(w', r)
    BY <1>9, <1>11 DEF Loyal
  <2> QED
    BY <1>10, <2>1, <2>2, <2>3, <2>4 DEF Loyal
<1>13. Founded(w')
  BY <1>7, <1>8 DEF Founded, GuildsSound
<1> QED
  BY <1>7, <1>12, <1>13 DEF GuildsSound

LEMMA LeaveKeepsGuilds ==
  ASSUME GuildsAssumption, GuildsSound(w), NEW p \in Members, Hall!LeaveGuild(p) \/ Hall!DieYoung(p)
  PROVE  GuildsSound(w')
BY LeftGuild DEF Hall!LeaveGuild, Hall!DieYoung, Hall!Speaks

LEMMA KickKeeps ==
  ASSUME GuildsAssumption, GuildsSound(w), NEW p \in Members, NEW q \in Members, Hall!KickMember(p, q)
  PROVE  GuildsSound(w')
<1>1. w' = Hall!Given(w, q, Hall!NoRank)
  BY DEF Hall!KickMember, Hall!Given, Hall!Left
<1> QED
  BY <1>1, RankChanges, RankFacts

-----------------------------------------------------------------------------
(* Founding, joining, coming and going.                                      *)

\* Whoever belongs nowhere joins a guild there is, as its leader if he owns it.
LEMMA JoinKeeps ==
  ASSUME GuildsAssumption, NEW s, GuildsSound(s), NEW p \in Members, NEW g \in Hall!Ids,
         NEW level \in 1 .. 3, p \in s.online, s.owner[g] # None, level = 3 => s.owner[g] = p
  PROVE  GuildsSound(Hall!JoinGuild(s, p, g, level))
<1> DEFINE t == Hall!JoinGuild(s, p, g, level)
           rank == [guild |-> g, level |-> level]
<1>1. rank \in Hall!Rank /\ rank.guild = g /\ rank.level = level
  BY RankFacts, Zenon
<1> HIDE DEF rank
<1>2. /\ t \in GuildsType /\ t.online = s.online /\ t.owner = s.owner /\ t.handed = s.handed
      /\ t.invitesRow = s.invitesRow /\ t.founded = s.founded
      /\ t.rank[p] = rank /\ t.invites[p] = {}
      /\ \A q \in Members \ {p} : /\ t.rank[q] = s.rank[q] /\ t.rows[q] = s.rows[q]
                                 /\ t.invites[q] = s.invites[q]
  <2>1. t = [s EXCEPT !.rows[p] = rank, !.rank[p] = rank, !.invites[p] = {}]
    BY DEF Hall!JoinGuild, rank
  <2> HIDE DEF t
  <2> QED
    BY <1>1, <2>1 DEF GuildsSound, GuildsType
<1> HIDE DEF t
<1>3. ASSUME NEW q \in Members \ {p}
      PROVE  Loyal(t, q)
  BY <1>2, OthersLoyal DEF GuildsSound
<1>4. Loyal(t, p)
  BY <1>1, <1>2 DEF Loyal, RankOf, InvitesOf, GuildsSound
<1>5. Founded(t)
  BY <1>2 DEF Founded, GuildsSound
<1> QED
  BY <1>2, <1>3, <1>4, <1>5 DEF t, GuildsSound

LEMMA GuildJoinKeeps ==
  ASSUME GuildsAssumption, GuildsSound(w), NEW p \in Members, NEW g \in Hall!Ids, Hall!guildJoin(p, g)
  PROVE  GuildsSound(w')
<1>1. p \in w.online /\ w.owner[g] # None /\ w' = Hall!JoinGuild(w, p, g, 1)
  BY DEF Hall!guildJoin, Hall!guildExists, Hall!Member
<1> QED
  BY <1>1, JoinKeeps

\* A new guild has an id that no guild had; who founds it may find himself the
\* leader of another one that he still owns.
LEMMA GuildCreateKeeps ==
  ASSUME GuildsAssumption, GuildsSound(w), NEW p \in Members, NEW g \in Hall!Ids, Hall!guildCreate(p, g)
  PROVE  GuildsSound(w')
<1> DEFINE new == w.founded + 1
           s == [w EXCEPT !.founded = new, !.owner[new] = p]
<1>1. /\ p \in w.online /\ w.founded < MaxGuilds /\ s.owner[g] = p
      /\ w' = Hall!JoinGuild(s, p, g, 3)
  BY DEF Hall!guildCreate, Hall!Leader
<1>2. /\ new \in Hall!Ids /\ new \in 0 .. MaxGuilds /\ w.founded < new
  BY <1>1 DEF GuildsSound, GuildsType, GuildsAssumption, Hall!Ids
<1>3. w.owner[new] = None
  BY <1>2 DEF GuildsSound, GuildsType, Founded, Hall!Ids
<1>4. w.founded \in 0 .. MaxGuilds /\ new = w.founded + 1
  BY DEF GuildsSound, GuildsType
<1> HIDE DEF new
<1>5. /\ s \in GuildsType /\ s.online = w.online /\ s.handed = w.handed /\ s.founded = new
      /\ s.owner = [w.owner EXCEPT ![new] = p] /\ s.rank = w.rank /\ s.rows = w.rows
      /\ s.invites = w.invites /\ s.invitesRow = w.invitesRow
  BY <1>2 DEF GuildsSound, GuildsType
<1> HIDE DEF s
<1>6. /\ \A h \in Hall!Ids : w.owner[h] # None => s.owner[h] = w.owner[h]
      /\ s.owner[new] = p /\ p # None
      /\ \A h \in Hall!Ids : s.owner[h] # w.owner[h] => h = new
  BY <1>2, <1>3, <1>5 DEF GuildsSound, GuildsType, GuildsAssumption
<1>7. ASSUME NEW q \in Members
      PROVE  Loyal(s, q)
  <2>1. /\ RankOf(s, q) = RankOf(w, q) /\ InvitesOf(s, q) = InvitesOf(w, q) /\ Loyal(w, q)
        /\ RankOf(w, q) \in Hall!Rank /\ w.invites[q] \cup w.invitesRow[q] \subseteq Hall!Ids
    BY <1>5 DEF GuildsSound, GuildsType, RankOf, InvitesOf
  <2>2. RankOf(w, q).guild \in Hall!Ids \/ RankOf(w, q) = Hall!NoRank
    BY <2>1, RankFacts
  <2>3. RankOf(w, q).guild # 0 => s.owner[RankOf(w, q).guild] = w.owner[RankOf(w, q).guild]
    BY <1>6, <2>1, <2>2, RankFacts DEF Loyal
  <2>4. RankOf(w, q).level = 3 => RankOf(w, q).guild # 0
    BY <2>1, RankFacts
  <2>5. \A h \in w.invites[q] \cup w.invitesRow[q] : s.owner[h] # None
    BY <1>6, <2>1 DEF Loyal
  <2> QED
    BY <1>5, <2>1, <2>3, <2>4, <2>5 DEF Loyal
<1>8. Founded(s)
  <2>1. ASSUME NEW h \in Hall!Ids, s.owner[h] # None
        PROVE  h <= s.founded
    <3>1. h = new \/ h <= w.founded
      BY <1>6, <2>1 DEF Founded, GuildsSound
    <3> QED
      BY <1>4, <1>5, <3>1 DEF Hall!Ids
  <2> QED
    BY <2>1 DEF Founded
<1>9. GuildsSound(s) /\ p \in s.online
  BY <1>1, <1>5, <1>7, <1>8 DEF GuildsSound
<1> QED
  BY <1>1, <1>6, <1>9, JoinKeeps

LEMMA ChannelKeeps ==
  ASSUME GuildsAssumption, GuildsSound(w), NEW p \in Members,
         Hall!OpenChannel(p) \/ Hall!CloseChannel(p)
  PROVE  GuildsSound(w')
<1>1. /\ p \in w.online /\ w.rank[p] \in Hall!Rank
      /\ Hall!OpenChannel(p) => w.rank[p].guild # 0
      /\ Hall!CloseChannel(p) => w.rank[p].guild \in w.channels
  BY DEF GuildsSound, GuildsType, Hall!OpenChannel, Hall!CloseChannel, Hall!Guild
<1> DEFINE g == w.rank[p].guild
<1>2. g \in Hall!Ids
  BY <1>1, RankFacts DEF GuildsSound, GuildsType
<1>3. \/ w' = [w EXCEPT !.channels = @ \cup {g}, !.listeners[g] = @ \cup {p}]
      \/ w' = [w EXCEPT !.listeners[g] = @ \ {p}]
  BY DEF Hall!OpenChannel, Hall!CloseChannel, Hall!Guild
<1> HIDE DEF g
<1>4. /\ w' \in GuildsType /\ w'.online = w.online /\ w'.owner = w.owner /\ w'.handed = w.handed
      /\ w'.invitesRow = w.invitesRow /\ w'.founded = w.founded /\ w'.rank = w.rank
      /\ w'.rows = w.rows /\ w'.invites = w.invites
  <2>1. ASSUME NEW channels \in SUBSET Hall!Ids, NEW heard \in [Hall!Ids -> SUBSET Members]
        PROVE  [w EXCEPT !.channels = channels, !.listeners = heard] \in GuildsType
    BY DEF GuildsSound, GuildsType
  <2>2. /\ w.channels \cup {g} \in SUBSET Hall!Ids /\ w.channels \in SUBSET Hall!Ids
        /\ [w.listeners EXCEPT ![g] = @ \cup {p}] \in [Hall!Ids -> SUBSET Members]
        /\ [w.listeners EXCEPT ![g] = @ \ {p}] \in [Hall!Ids -> SUBSET Members]
    BY <1>2 DEF GuildsSound, GuildsType
  <2>3. \/ w' = [w EXCEPT !.channels = w.channels \cup {g}, !.listeners = [w.listeners EXCEPT ![g] = @ \cup {p}]]
        \/ w' = [w EXCEPT !.channels = w.channels, !.listeners = [w.listeners EXCEPT ![g] = @ \ {p}]]
    BY <1>3 DEF GuildsSound, GuildsType
  <2>4. w' \in GuildsType
    BY ZenonT(60), <2>1, <2>2, <2>3
  <2> QED
    BY <1>3, <2>4 DEF GuildsSound, GuildsType
<1>5. ASSUME NEW q \in Members
      PROVE  Loyal(w', q)
  BY <1>4, OthersLoyal DEF GuildsSound
<1>6. Founded(w')
  BY <1>4 DEF Founded, GuildsSound
<1> QED
  BY <1>4, <1>5, <1>6 DEF GuildsSound

LEMMA GuildLoginKeeps ==
  ASSUME GuildsAssumption, GuildsSound(w), NEW p \in Members, Hall!Login(p)
  PROVE  GuildsSound(w')
<1> DEFINE t == [w EXCEPT !.online = @ \cup {p}, !.invites[p] = w.invitesRow[p],
                          !.rank[p] = w.rows[p]]
<1>1. /\ RankOf(w, p) = w.rows[p] /\ InvitesOf(w, p) = w.invitesRow[p] /\ p \notin w.online
      /\ w.rows[p] \in Hall!Rank /\ Loyal(w, p)
  BY DEF Hall!Login, RankOf, InvitesOf, GuildsSound, GuildsType
<1>2. Hall!guildExists(w.rows[p].guild) \/ w.rows[p] = Hall!NoRank
  BY <1>1, RankFacts DEF Loyal, Hall!guildExists
<1>3. (IF Hall!guildExists(w.rows[p].guild) THEN w.rows[p] ELSE Hall!NoRank) = w.rows[p]
  BY <1>2
<1>4. w' = t
  BY <1>3 DEF Hall!Login
<1>5. /\ t \in GuildsType /\ t.online = w.online \cup {p} /\ t.owner = w.owner /\ t.handed = w.handed
      /\ t.invitesRow = w.invitesRow /\ t.founded = w.founded /\ t.rank[p] = w.rows[p]
      /\ t.rows = w.rows /\ t.invites[p] = w.invitesRow[p]
      /\ \A q \in Members \ {p} : t.rank[q] = w.rank[q] /\ t.invites[q] = w.invites[q]
  BY DEF GuildsSound, GuildsType
<1> HIDE DEF t
<1>6. ASSUME NEW q \in Members \ {p}
      PROVE  Loyal(t, q)
  BY <1>5, OthersLoyal DEF GuildsSound
<1>7. Loyal(t, p)
  BY <1>1, <1>5 DEF Loyal, RankOf, InvitesOf
<1>8. Founded(t)
  BY <1>5 DEF Founded, GuildsSound
<1> QED
  BY <1>4, <1>5, <1>6, <1>7, <1>8 DEF GuildsSound

LEMMA SavedKeeps ==
  ASSUME GuildsAssumption, NEW s, GuildsSound(s), NEW p \in s.online
  PROVE  /\ GuildsSound(Hall!Saved(s, p)) /\ Hall!Saved(s, p).online = s.online
         /\ Hall!Saved(s, p).rows[p] = s.rank[p] /\ Hall!Saved(s, p).rank = s.rank
         /\ Hall!Saved(s, p).invitesRow[p] \subseteq s.invites[p]
<1> DEFINE t == Hall!Saved(s, p)
<1>1. p \in Members
  BY DEF GuildsSound, GuildsType
<1>2. /\ t \in GuildsType /\ t.online = s.online /\ t.owner = s.owner /\ t.handed = s.handed
      /\ t.invites = s.invites /\ t.founded = s.founded /\ t.rank = s.rank
      /\ t.rows[p] = s.rank[p] /\ t.invitesRow[p] \subseteq s.invites[p]
      /\ \A g \in t.invitesRow[p] : s.owner[g] # None
      /\ \A q \in Members \ {p} : t.rows[q] = s.rows[q] /\ t.invitesRow[q] = s.invitesRow[q]
  BY <1>1 DEF GuildsSound, GuildsType, Hall!Saved
<1> HIDE DEF t
<1>3. ASSUME NEW q \in Members \ {p}
      PROVE  Loyal(t, q)
  BY <1>2, OthersLoyal DEF GuildsSound
<1>4. Loyal(t, p)
  BY <1>1, <1>2 DEF Loyal, RankOf, InvitesOf, GuildsSound
<1>5. Founded(t)
  BY <1>2 DEF Founded, GuildsSound
<1>6. GuildsSound(t)
  BY <1>1, <1>2, <1>3, <1>4, <1>5 DEF GuildsSound
<1> QED
  BY <1>2, <1>6 DEF t

LEMMA GuildLogoutKeeps ==
  ASSUME GuildsAssumption, GuildsSound(w), NEW p \in Members, Hall!Logout(p)
  PROVE  GuildsSound(w')
<1> DEFINE s == Hall!Saved(w, p)
           t == [s EXCEPT !.online = @ \ {p}, !.rank[p] = Hall!NoRank, !.invites[p] = {},
                          !.listeners = [g \in Hall!Ids |-> @[g] \ {p}]]
<1>1. p \in w.online /\ w' = t
  BY DEF Hall!Logout
<1>2. /\ GuildsSound(s) /\ p \in s.online /\ s.rows[p] = s.rank[p]
      /\ s.invitesRow[p] \subseteq s.invites[p]
  <2>1. s.invitesRow[p] \subseteq s.invites[p]
    BY <1>1 DEF Hall!Saved, GuildsSound, GuildsType
  <2> QED
    BY <1>1, <2>1, SavedKeeps
<1> HIDE DEF s
<1> DEFINE heard == [g \in Hall!Ids |-> s.listeners[g] \ {p}]
<1>7. heard \in [Hall!Ids -> SUBSET Members] /\ s \in GuildsType /\ p \in Members
  BY <1>2 DEF GuildsSound, GuildsType
<1> HIDE DEF heard
<1>8. t = [s EXCEPT !.online = @ \ {p}, !.rank[p] = Hall!NoRank, !.invites[p] = {}, !.listeners = heard]
  BY DEF heard
<1> HIDE DEF t
<1>9. t \in GuildsType
  BY <1>7, <1>8, RankFacts DEF GuildsType
<1>3. /\ t \in GuildsType /\ t.online = s.online \ {p} /\ t.owner = s.owner /\ t.handed = s.handed
      /\ t.invitesRow = s.invitesRow /\ t.founded = s.founded /\ t.rank[p] = Hall!NoRank
      /\ t.rows = s.rows /\ t.invites[p] = {}
      /\ \A q \in Members \ {p} : t.rank[q] = s.rank[q] /\ t.invites[q] = s.invites[q]
  BY <1>7, <1>8, <1>9 DEF GuildsType
<1> HIDE DEF t
<1>4. ASSUME NEW q \in Members \ {p}
      PROVE  Loyal(t, q)
  BY <1>2, <1>3, OthersLoyal DEF GuildsSound
<1>5. Loyal(t, p)
  <2>1. Loyal(s, p)
    BY <1>2 DEF GuildsSound
  <2> QED
    BY <1>2, <1>3, <2>1 DEF Loyal, RankOf, InvitesOf
<1>6. Founded(t)
  BY <1>2, <1>3 DEF Founded, GuildsSound
<1> QED
  BY <1>1, <1>3, <1>4, <1>5, <1>6 DEF GuildsSound

LEMMA GuildKeeps ==
  ASSUME GuildsAssumption, GuildsSound(w), [Hall!Next]_w
  PROVE  GuildsSound(w')
<1>1. CASE UNCHANGED w
  BY <1>1 DEF GuildsSound
<1>2. CASE \E p \in Members : Hall!Login(p)
  BY <1>2, GuildLoginKeeps
<1>3. CASE \E p \in Members : Hall!Save(p)
  BY <1>3, SavedKeeps DEF Hall!Save
<1>4. CASE \E p \in Members : Hall!Logout(p)
  BY <1>4, GuildLogoutKeeps
<1>5. CASE \E p \in Members : Hall!Disband(p)
  BY <1>5, DisbandKeeps
<1>6. CASE \E p \in Members : Hall!LeaveGuild(p) \/ Hall!DieYoung(p)
  BY <1>6, LeaveKeepsGuilds
<1>7. CASE \E p \in Members : Hall!OpenChannel(p) \/ Hall!CloseChannel(p)
  BY <1>7, ChannelKeeps
<1>8. CASE \E p \in Members, g \in Hall!Ids : Hall!guildJoin(p, g)
  BY <1>8, GuildJoinKeeps
<1>9. CASE \E p \in Members, g \in Hall!Ids : Hall!guildCreate(p, g)
  BY <1>9, GuildCreateKeeps
<1>10. CASE \E p, q \in Members : Hall!Invite(p, q)
  BY <1>10, InviteKeeps
<1>11. CASE \E p, q \in Members : Hall!Revoke(p, q)
  BY <1>11, RevokeKeeps
<1>12. CASE \E p, q \in Members : Hall!Promote(p, q) \/ Hall!Demote(p, q)
  BY <1>12, PromoteKeeps
<1>13. CASE \E p, q \in Members : Hall!PassLeadership(p, q)
  BY <1>13, PassLeadershipKeeps
<1>14. CASE \E p, q \in Members : Hall!KickMember(p, q)
  BY <1>14, KickKeeps
<1> QED
  BY <1>1, <1>2, <1>3, <1>4, <1>5, <1>6, <1>7, <1>8, <1>9, <1>10, <1>11, <1>12, <1>13, <1>14
     DEF Hall!Next

\* However commands reach players in the game and their rows, a leader owns his
\* guild unless its leadership went to somebody not in the game, and nobody
\* belongs or is invited to a guild that is no more.
THEOREM GuildsAlwaysAgree == Spec => []GuildsAgree
<1> DEFINE Inv == scene = "guilds" => GuildsSound(w)
<1>1. Init => Inv
  BY WorldAssumption, GuildsInit DEF Init, WorldAssumption
<1>2. Inv /\ [Next]_<<scene, w>> => Inv'
  <2> SUFFICES ASSUME Inv, [Next]_<<scene, w>>, scene' = "guilds"
               PROVE  GuildsSound(w')
    BY DEF GuildsSound, Founded, Loyal, RankOf, InvitesOf
  <2>1. scene = "guilds" /\ [Hall!Next]_w
    BY DEF Next
  <2> QED
    BY <2>1, WorldAssumption, GuildKeeps
<1>3. Inv => GuildsAgree
  BY WorldAssumption, GuildsSoundAgrees DEF GuildsAgree
<1> QED
  BY <1>1, <1>2, <1>3, PTL DEF Spec

-----------------------------------------------------------------------------
(* A house and its beds (module Lodging).                                    *)

LodgingType ==
  [owner : Players \cup {None}, list : [Lodge!Lists -> SUBSET Players],
   at : [Players -> {"street", "house"}], online : SUBSET Players,
   window : [Players -> {Lodge!NoWindow} \cup [list : Lodge!Lists, under : Players]],
   sleeper : [Beds -> Players \cup {None}], bedOf : [Players -> Beds \cup {NoBed}],
   guilds : SUBSET Lodge!Lists, members : SUBSET Players,
   spouse : [Players -> Players \cup {None}],
   kicks : SUBSET Players, stuck : SUBSET Players, lapsed : SUBSET Players,
   awake : SUBSET Players]

\* Everybody has the access in t that he has in s.
SameAccess(s, t) ==
  /\ t.owner = s.owner /\ t.list = s.list /\ t.guilds = s.guilds
  /\ t.members = s.members /\ t.spouse = s.spouse

\* Who is out of the house, or of the game, has no window.
WindowsClosed(s) ==
  /\ s.kicks \subseteq s.online
  /\ \A p \in Players : s.at[p] = "street" \/ p \notin s.online => s.window[p] = Lodge!NoWindow

Slept(s) ==
  \A p \in Players :
    /\ s.bedOf[p] # NoBed => s.sleeper[s.bedOf[p]] = p
    /\ p \in s.online \ (s.kicks \cup s.awake) => s.bedOf[p] = NoBed

Housed(s) == s \in LodgingType /\ WindowsClosed(s) /\ Slept(s)

GuestOf(s, p) ==
  p \in Lodge!Inside(s) \ s.stuck =>
    /\ p \notin s.kicks \cup s.lapsed => Lodge!isInvited(s, p)
    /\ s.window[p] # Lodge!NoWindow => s.window[p].under = s.owner

LodgingSound(s) == Housed(s) /\ \A p \in Players : GuestOf(s, p)

LEMMA LodgingSoundAgrees ==
  ASSUME LodgingSound(w)
  PROVE  Lodge!InvitedInside /\ Lodge!SleepersAgree
BY DEF LodgingSound, Housed, LodgingType, Slept, GuestOf, Lodge!InvitedInside,
       Lodge!SleepersAgree, Lodge!Inside

LEMMA NoWindowFacts ==
  ASSUME NEW p \in Players, NEW l \in Lodge!Lists
  PROVE  [list |-> l, under |-> p] \in [list : Lodge!Lists, under : Players]
OBVIOUS

LEMMA LodgingInit ==
  ASSUME LodgingAssumption, Lodge!Init
  PROVE  LodgingSound(w)
<1>1. w \in LodgingType
  BY DEF Lodge!Init, LodgingType
<1>2. WindowsClosed(w) /\ Slept(w)
  BY DEF Lodge!Init, WindowsClosed, Slept
<1>3. ASSUME NEW p \in Players
      PROVE  GuestOf(w, p)
  BY DEF Lodge!Init, GuestOf, Lodge!Inside
<1> QED
  BY <1>1, <1>2, <1>3 DEF LodgingSound, Housed

\* The access level depends on the owner, the lists, marriages and guilds only.
LEMMA SameInvitation ==
  ASSUME NEW s, NEW t, SameAccess(s, t), NEW p
  PROVE  Lodge!isInvited(t, p) <=> Lodge!isInvited(s, p)
BY DEF SameAccess, Lodge!isInvited, Lodge!getHouseAccessLevel, Lodge!isInList

LEMMA NobodyInvited ==
  ASSUME LodgingAssumption, NEW s, s.owner = None, NEW p \in Players
  PROVE  Lodge!getHouseAccessLevel(s, p) = 0
BY DEF LodgingAssumption, Lodge!getHouseAccessLevel

\* Some of those that are thrown out find no room.
LEMMA ThrownOut ==
  ASSUME NEW s, Housed(s), NEW ps \in SUBSET Lodge!Inside(s), NEW room
  PROVE  LET t == Lodge!Removed(s, ps, room) IN
         /\ Housed(t) /\ SameAccess(s, t) /\ t.kicks = s.kicks
         /\ \A p \in Players : p \in Lodge!Inside(t) \ t.stuck =>
              /\ p \in Lodge!Inside(s) \ s.stuck /\ p \notin ps
              /\ t.window[p] = s.window[p] /\ (p \in s.lapsed => p \in t.lapsed)
<1> DEFINE t == Lodge!Removed(s, ps, room)
           outs == ps \cap room
<1>1. t = [s EXCEPT !.at = [p \in Players |-> IF p \in outs THEN "street" ELSE @[p]],
                    !.window = [p \in Players |-> IF p \in outs THEN Lodge!NoWindow ELSE @[p]],
                    !.stuck = (@ \ outs) \cup (ps \ room), !.lapsed = (@ \ outs) \ ps]
  BY DEF Lodge!Removed, Lodge!Out, Housed, LodgingType
<1> HIDE DEF t
<1>2. /\ t.owner = s.owner /\ t.list = s.list /\ t.online = s.online /\ t.sleeper = s.sleeper
      /\ t.bedOf = s.bedOf /\ t.kicks = s.kicks /\ t.guilds = s.guilds
      /\ t.members = s.members /\ t.spouse = s.spouse /\ t.awake = s.awake
      /\ t.at = [p \in Players |-> IF p \in outs THEN "street" ELSE s.at[p]]
      /\ t.window = [p \in Players |-> IF p \in outs THEN Lodge!NoWindow ELSE s.window[p]]
      /\ t.stuck = (s.stuck \ outs) \cup (ps \ room) /\ t.lapsed = (s.lapsed \ outs) \ ps
  BY <1>1 DEF Housed, LodgingType
<1>3. ps \subseteq Players
  BY DEF Lodge!Inside, Housed, LodgingType
<1>4. t \in LodgingType
  <2>1. ASSUME NEW at \in [Players -> {"street", "house"}], NEW stuck \in SUBSET Players,
               NEW window \in [Players -> {Lodge!NoWindow} \cup [list : Lodge!Lists, under : Players]],
               NEW lapsed \in SUBSET Players
        PROVE  [s EXCEPT !.at = at, !.window = window, !.stuck = stuck, !.lapsed = lapsed]
                  \in LodgingType
    BY DEF Housed, LodgingType
  <2>2. /\ t.at \in [Players -> {"street", "house"}] /\ t.stuck \in SUBSET Players
        /\ t.window \in [Players -> {Lodge!NoWindow} \cup [list : Lodge!Lists, under : Players]]
        /\ t.lapsed \in SUBSET Players
    BY <1>2, <1>3 DEF Housed, LodgingType
  <2>3. t = [s EXCEPT !.at = t.at, !.window = t.window, !.stuck = t.stuck, !.lapsed = t.lapsed]
    BY <1>1, <1>2
  <2> QED
    <3>1. [s EXCEPT !.at = t.at, !.window = t.window, !.stuck = t.stuck, !.lapsed = t.lapsed]
             \in LodgingType
      BY <2>1, <2>2
    <3> QED
      BY <2>3, <3>1, Zenon
<1>5. WindowsClosed(t)
  BY <1>2 DEF Housed, WindowsClosed
<1>6. Slept(t)
  BY <1>2 DEF Housed, Slept
<1>7. ASSUME NEW p \in Players, p \in Lodge!Inside(t) \ t.stuck
      PROVE  /\ p \in Lodge!Inside(s) \ s.stuck /\ p \notin ps
             /\ t.window[p] = s.window[p] /\ (p \in s.lapsed => p \in t.lapsed)
  BY <1>2, <1>7 DEF Lodge!Inside
<1>8. SameAccess(s, t)
  BY <1>2 DEF SameAccess
<1> QED
  BY <1>2, <1>4, <1>5, <1>6, <1>7, <1>8 DEF t, Housed

\* Nobody is left where he is not invited.
LEMMA ThrownOutSound ==
  ASSUME NEW s, Housed(s), NEW ps \in SUBSET Lodge!Inside(s), NEW room,
         \A p \in Players \ ps : GuestOf(s, p)
  PROVE  LodgingSound(Lodge!Removed(s, ps, room))
<1> DEFINE t == Lodge!Removed(s, ps, room)
<1>1. /\ Housed(t) /\ SameAccess(s, t) /\ t.kicks = s.kicks
      /\ \A p \in Players : p \in Lodge!Inside(t) \ t.stuck =>
            /\ p \in Lodge!Inside(s) \ s.stuck /\ p \notin ps
            /\ t.window[p] = s.window[p] /\ (p \in s.lapsed => p \in t.lapsed)
  BY ThrownOut
<1> HIDE DEF t
<1>2. ASSUME NEW p \in Players, p \in Lodge!Inside(t) \ t.stuck
      PROVE  /\ p \notin t.kicks \cup t.lapsed => Lodge!isInvited(t, p)
             /\ t.window[p] # Lodge!NoWindow => t.window[p].under = t.owner
  <2>1. Lodge!isInvited(t, p) <=> Lodge!isInvited(s, p)
    BY <1>1, SameInvitation
  <2>2. t.owner = s.owner
    BY <1>1 DEF SameAccess
  <2>3. GuestOf(s, p)
    BY <1>1, <1>2
  <2> QED
    BY <1>1, <1>2, <2>1, <2>2, <2>3 DEF GuestOf
<1> QED
  BY <1>1, <1>2 DEF t, LodgingSound, GuestOf

\* What is left of s in t when all that are not invited, or all, were thrown out.
CalledOutTo(s, all, t) ==
  /\ Housed(t) /\ SameAccess(s, t) /\ t.kicks = s.kicks
  /\ \A p \in Players : p \in Lodge!Inside(t) \ t.stuck =>
       /\ p \in Lodge!Inside(s) \ s.stuck
       /\ ~all /\ Lodge!isInvited(s, p) /\ t.window[p] = s.window[p]

LEMMA CalledOut ==
  ASSUME NEW s, Housed(s), NEW all \in BOOLEAN, NEW room
  PROVE  CalledOutTo(s, all, Lodge!removePlayers(s, all, room))
<1> DEFINE ps == {p \in Lodge!Inside(s) : all \/ ~Lodge!isInvited(s, p)}
           r == Lodge!Removed(s, ps, room)
           t == [r EXCEPT !.lapsed = {}]
<1>1. Lodge!removePlayers(s, all, room) = t
  BY DEF Lodge!removePlayers
<1>2. ps \in SUBSET Lodge!Inside(s)
  OBVIOUS
<1>3. \A p \in Lodge!Inside(s) : p \notin ps => ~all /\ Lodge!isInvited(s, p)
  OBVIOUS
<1> HIDE DEF ps
<1>4. /\ Housed(r) /\ SameAccess(s, r) /\ r.kicks = s.kicks
      /\ \A p \in Players : p \in Lodge!Inside(r) \ r.stuck =>
            /\ p \in Lodge!Inside(s) \ s.stuck /\ p \notin ps
            /\ r.window[p] = s.window[p] /\ (p \in s.lapsed => p \in r.lapsed)
  BY <1>2, ThrownOut
<1> HIDE DEF r
<1>5. /\ t \in LodgingType /\ t.owner = r.owner /\ t.list = r.list /\ t.guilds = r.guilds
      /\ t.members = r.members /\ t.spouse = r.spouse /\ t.kicks = r.kicks
      /\ t.stuck = r.stuck /\ t.at = r.at /\ t.online = r.online /\ t.window = r.window
      /\ t.sleeper = r.sleeper /\ t.bedOf = r.bedOf /\ t.awake = r.awake
  BY <1>4 DEF Housed, LodgingType
<1> HIDE DEF t
<1>6. Housed(t) /\ SameAccess(s, t) /\ t.kicks = s.kicks
  BY <1>4, <1>5 DEF Housed, WindowsClosed, Slept, SameAccess
<1>7. ASSUME NEW p \in Players, p \in Lodge!Inside(t) \ t.stuck
      PROVE  /\ p \in Lodge!Inside(s) \ s.stuck
             /\ ~all /\ Lodge!isInvited(s, p) /\ t.window[p] = s.window[p]
  <2>1. p \in Lodge!Inside(r) \ r.stuck
    BY <1>5, <1>7 DEF Lodge!Inside
  <2> QED
    BY <1>3, <1>4, <1>5, <2>1
<1> QED
  BY <1>1, <1>6, <1>7 DEF CalledOutTo

LEMMA WokenHoused ==
  ASSUME LodgingAssumption, NEW s, s \in LodgingType, WindowsClosed(s), NEW b \in Beds,
         \A p \in Players : /\ s.bedOf[p] # NoBed => s.sleeper[s.bedOf[p]] = p
                            /\ p \in s.online \ (s.kicks \cup s.awake) => s.bedOf[p] \in {NoBed, b}
  PROVE  LET t == Lodge!Woken(s, b) IN
         /\ Housed(t) /\ SameAccess(s, t) /\ t.kicks = s.kicks /\ t.lapsed = s.lapsed
         /\ t.online = s.online /\ t.at = s.at /\ t.window = s.window /\ t.stuck = s.stuck
<1> DEFINE t == Lodge!Woken(s, b)
<1>1. /\ t \in LodgingType /\ SameAccess(s, t) /\ t.kicks = s.kicks /\ t.lapsed = s.lapsed
      /\ t.awake = s.awake \ {s.sleeper[b]}
      /\ t.online = s.online /\ t.at = s.at /\ t.window = s.window /\ t.stuck = s.stuck
      /\ t.sleeper = [s.sleeper EXCEPT ![b] = None]
      /\ t.bedOf = [p \in Players |-> IF p = s.sleeper[b] THEN NoBed ELSE s.bedOf[p]]
  BY DEF LodgingType, SameAccess, Lodge!Woken
<1> HIDE DEF t
<1>2. \A c \in Beds : c # b => t.sleeper[c] = s.sleeper[c]
  BY <1>1 DEF LodgingType
<1>3. ASSUME NEW p \in Players
      PROVE  /\ t.bedOf[p] # NoBed => t.bedOf[p] = s.bedOf[p] /\ p # s.sleeper[b]
             /\ s.bedOf[p] = NoBed => t.bedOf[p] = NoBed
             /\ s.bedOf[p] = b => t.bedOf[p] = NoBed
             /\ s.bedOf[p] \in Beds \cup {NoBed}
             /\ p = s.sleeper[b] => t.bedOf[p] = NoBed
  BY <1>1 DEF LodgingType, LodgingAssumption
<1>4. ASSUME NEW p \in Players
      PROVE  /\ t.bedOf[p] # NoBed => t.sleeper[t.bedOf[p]] = p
             /\ p \in t.online \ (t.kicks \cup t.awake) => t.bedOf[p] = NoBed
  BY <1>1, <1>2, <1>3
<1>5. Slept(t) /\ WindowsClosed(t)
  BY <1>1, <1>4 DEF Slept, WindowsClosed
<1> QED
  BY <1>1, <1>5 DEF t, Housed

LEMMA AllWokenHoused ==
  ASSUME LodgingAssumption, NEW s, Housed(s)
  PROVE  LET t == Lodge!AllWoken(s) IN
         /\ Housed(t) /\ SameAccess(s, t) /\ t.kicks = s.kicks /\ t.lapsed = s.lapsed
         /\ t.online = s.online /\ t.at = s.at /\ t.window = s.window /\ t.stuck = s.stuck
<1> DEFINE t == Lodge!AllWoken(s)
<1>1. /\ t \in LodgingType /\ SameAccess(s, t) /\ t.kicks = s.kicks /\ t.lapsed = s.lapsed
      /\ t.online = s.online /\ t.at = s.at /\ t.window = s.window /\ t.stuck = s.stuck
      /\ t.sleeper = [b \in Beds |-> None]
      /\ t.bedOf = [p \in Players |-> IF \E b \in Beds : s.sleeper[b] = p THEN NoBed ELSE s.bedOf[p]]
  BY DEF Housed, LodgingType, SameAccess, Lodge!AllWoken
<1> HIDE DEF t
<1>2. ASSUME NEW p \in Players
      PROVE  t.bedOf[p] = NoBed
  <2>1. s.bedOf[p] # NoBed => s.bedOf[p] \in Beds /\ s.sleeper[s.bedOf[p]] = p
    BY DEF Housed, LodgingType, Slept
  <2> QED
    BY <1>1, <2>1
<1>3. Slept(t) /\ WindowsClosed(t)
  BY <1>1, <1>2 DEF Housed, Slept, WindowsClosed
<1> QED
  BY <1>1, <1>3 DEF t, Housed

-----------------------------------------------------------------------------
(* One lemma for each command.                                               *)

\* A new owner: the house is emptied, or nobody was invited.
LEMMA ChangeOwnerKeeps ==
  ASSUME LodgingAssumption, LodgingSound(w), NEW guid \in Players \cup {None}, NEW room,
         Lodge!ChangeOwner(guid, room)
  PROVE  LodgingSound(w')
<1> DEFINE s == IF w.owner # None THEN Lodge!Emptied(w, room) ELSE w
           lists == [l \in Lodge!Lists |-> {}]
           t == [s EXCEPT !.list = lists, !.guilds = {}, !.owner = guid]
<1>1. w' = t
  BY DEF Lodge!ChangeOwner, Lodge!SetOwnerEx
<1>2. /\ Housed(s)
      /\ \A p \in Players : p \in Lodge!Inside(s) \ s.stuck =>
            p \in s.kicks \cup s.lapsed /\ s.window[p] = Lodge!NoWindow
  <2>1. CASE w.owner # None
    <3> DEFINE a == Lodge!AllWoken(w)
    <3>1. Housed(a)
      BY AllWokenHoused DEF LodgingSound
    <3>2. s = Lodge!removePlayers(a, TRUE, room)
      BY <2>1 DEF Lodge!Emptied
    <3> HIDE DEF a, s
    <3>3. CalledOutTo(a, TRUE, s)
      BY <3>1, <3>2, CalledOut
    <3> QED
      BY <3>3 DEF CalledOutTo
  <2>2. CASE w.owner = None
    <3>1. s = w
      BY <2>2
    <3> HIDE DEF s
    <3>2. ASSUME NEW p \in Players
          PROVE  ~Lodge!isInvited(w, p)
      BY <2>2, NobodyInvited DEF Lodge!isInvited
    <3>3. ASSUME NEW p \in Players, w.window[p] # Lodge!NoWindow
          PROVE  w.window[p].under # None
      <4>1. w.window[p] \in [list : Lodge!Lists, under : Players]
        BY <3>3 DEF LodgingSound, Housed, LodgingType
      <4> QED
        BY <4>1 DEF LodgingAssumption
    <3> QED
      BY <2>2, <3>1, <3>2, <3>3 DEF LodgingSound, GuestOf
  <2> QED
    BY <2>1, <2>2
<1> HIDE DEF s
<1>3. lists \in [Lodge!Lists -> SUBSET Players]
  OBVIOUS
<1> HIDE DEF lists
<1>4. /\ t \in LodgingType /\ t.online = s.online /\ t.at = s.at /\ t.window = s.window
      /\ t.stuck = s.stuck /\ t.kicks = s.kicks /\ t.sleeper = s.sleeper /\ t.bedOf = s.bedOf
      /\ t.lapsed = s.lapsed /\ t.awake = s.awake
  BY <1>2, <1>3 DEF Housed, LodgingType
<1> HIDE DEF t
<1>5. Housed(t)
  BY <1>2, <1>4 DEF Housed, WindowsClosed, Slept
<1>6. ASSUME NEW p \in Players
      PROVE  GuestOf(t, p)
  BY <1>2, <1>4 DEF GuestOf, Lodge!Inside
<1> QED
  BY <1>1, <1>5, <1>6 DEF LodgingSound

LEMMA EnterKeeps ==
  ASSUME LodgingAssumption, LodgingSound(w), NEW p \in Players, Lodge!Enter(p)
  PROVE  LodgingSound(w')
<1>1. /\ w.at[p] = "street" /\ Lodge!isInvited(w, p) /\ w' = [w EXCEPT !.at[p] = "house"]
  BY DEF Lodge!Enter
<1>2. /\ w' \in LodgingType /\ w'.online = w.online /\ SameAccess(w, w')
      /\ w'.window = w.window /\ w'.stuck = w.stuck /\ w'.kicks = w.kicks /\ w'.sleeper = w.sleeper
      /\ w'.bedOf = w.bedOf /\ w'.lapsed = w.lapsed /\ w'.awake = w.awake
      /\ \A q \in Players \ {p} : w'.at[q] = w.at[q]
      /\ w'.at[p] = "house"
  BY <1>1 DEF LodgingSound, Housed, LodgingType, SameAccess
<1>3. w.window[p] = Lodge!NoWindow
  BY <1>1 DEF LodgingSound, Housed, WindowsClosed
<1>4. WindowsClosed(w') /\ Slept(w')
  BY <1>2, <1>3 DEF LodgingSound, Housed, WindowsClosed, Slept
<1>5. ASSUME NEW q \in Players
      PROVE  GuestOf(w', q)
  <2>1. Lodge!isInvited(w', q) <=> Lodge!isInvited(w, q)
    BY <1>2, SameInvitation
  <2>2. CASE q = p
    BY <1>1, <1>2, <1>3, <2>1, <2>2 DEF GuestOf
  <2>3. CASE q # p
    BY <1>2, <2>1, <2>3 DEF GuestOf, Lodge!Inside, LodgingSound, SameAccess
  <2> QED
    BY <2>2, <2>3
<1> QED
  BY <1>2, <1>4, <1>5 DEF LodgingSound, Housed

LEMMA LeaveHouseKeeps ==
  ASSUME LodgingAssumption, LodgingSound(w), NEW p \in Players, Lodge!Leave(p)
  PROVE  LodgingSound(w')
<1>1. p \in Lodge!Inside(w) /\ w' = Lodge!Out(w, {p})
  BY DEF Lodge!Leave
<1>2. Lodge!Removed(w, {p}, {p})
        = [Lodge!Out(w, {p}) EXCEPT !.stuck = @ \cup {}, !.lapsed = @ \ {p}]
  <2>1. {p} \cap {p} = {p} /\ {p} \ {p} = {}
    OBVIOUS
  <2> QED
    BY <2>1 DEF Lodge!Removed
<1>3. [Lodge!Out(w, {p}) EXCEPT !.stuck = @ \cup {}, !.lapsed = @ \ {p}] = Lodge!Out(w, {p})
  BY DEF Lodge!Out, LodgingSound, Housed, LodgingType
<1>4. LodgingSound(Lodge!Removed(w, {p}, {p}))
  BY <1>1, ThrownOutSound DEF LodgingSound
<1> QED
  BY <1>1, <1>2, <1>3, <1>4

LEMMA HouseKickKeeps ==
  ASSUME LodgingAssumption, LodgingSound(w), NEW p \in Players, NEW q \in Players, NEW room,
         Lodge!HouseKick(p, q, room)
  PROVE  LodgingSound(w')
BY ThrownOutSound DEF Lodge!HouseKick, LodgingSound

\* A window opened, or closed by a script that denies the change.
LEMMA WindowKeeps ==
  ASSUME LodgingAssumption, LodgingSound(w), NEW p \in Players,
         (\E l \in Lodge!Lists : Lodge!OpenWindow(p, l)) \/ Lodge!HouseWindowDenied(p)
  PROVE  LodgingSound(w')
<1>1. PICK v : /\ w' = [w EXCEPT !.window[p] = v]
               /\ \/ v = Lodge!NoWindow
                  \/ /\ v \in [list : Lodge!Lists, under : Players] /\ v.under = w.owner
                     /\ p \in Lodge!Inside(w)
  <2>1. CASE Lodge!HouseWindowDenied(p)
    BY <2>1 DEF Lodge!HouseWindowDenied
  <2>2. CASE \E l \in Lodge!Lists : Lodge!OpenWindow(p, l)
    <3>1. PICK l \in Lodge!Lists : Lodge!OpenWindow(p, l)
      BY <2>2
    <3>2. w.owner \in Players
      <4>1. w.owner # None
        BY <3>1, NobodyInvited DEF Lodge!OpenWindow, Lodge!canEditAccessList
      <4> QED
        BY <4>1 DEF LodgingSound, Housed, LodgingType
    <3>3. [list |-> l, under |-> w.owner] \in [list : Lodge!Lists, under : Players]
      BY <3>2
    <3>4. /\ w' = [w EXCEPT !.window[p] = [list |-> l, under |-> w.owner]]
          /\ p \in Lodge!Inside(w)
      BY <3>1 DEF Lodge!OpenWindow
    <3> WITNESS [list |-> l, under |-> w.owner]
    <3> QED
      BY <3>3, <3>4
  <2> QED
    BY <2>1, <2>2
<1>2. /\ w' \in LodgingType /\ w'.online = w.online /\ SameAccess(w, w')
      /\ w'.at = w.at /\ w'.stuck = w.stuck /\ w'.kicks = w.kicks /\ w'.sleeper = w.sleeper
      /\ w'.bedOf = w.bedOf /\ w'.lapsed = w.lapsed /\ w'.awake = w.awake
      /\ \A q \in Players \ {p} : w'.window[q] = w.window[q]
      /\ w'.window[p] = v
  BY <1>1 DEF LodgingSound, Housed, LodgingType, SameAccess
<1>4. WindowsClosed(w') /\ Slept(w')
  <2>1. ASSUME NEW q \in Players, w.at[q] = "street" \/ q \notin w.online
        PROVE  w'.window[q] = Lodge!NoWindow
    BY <1>1, <1>2, <2>1 DEF LodgingSound, Housed, WindowsClosed, Lodge!Inside
  <2> QED
    BY <1>2, <2>1 DEF LodgingSound, Housed, WindowsClosed, Slept
<1>5. ASSUME NEW q \in Players
      PROVE  GuestOf(w', q)
  <2>1. Lodge!isInvited(w', q) <=> Lodge!isInvited(w, q)
    BY <1>2, SameInvitation
  <2>2. GuestOf(w, q) /\ (q \in Lodge!Inside(w') <=> q \in Lodge!Inside(w))
    BY <1>2 DEF LodgingSound, Lodge!Inside
  <2>3. CASE q = p
    BY <1>1, <1>2, <2>1, <2>2, <2>3 DEF GuestOf, SameAccess
  <2>4. CASE q # p
    BY <1>2, <2>1, <2>2, <2>4 DEF GuestOf, SameAccess
  <2> QED
    BY <2>3, <2>4
<1> QED
  BY <1>2, <1>4, <1>5 DEF LodgingSound, Housed

LEMMA UpdateHouseWindowKeeps ==
  ASSUME LodgingAssumption, LodgingSound(w), NEW p \in Players, NEW names \in SUBSET Players,
         NEW guild \in BOOLEAN, NEW room, Lodge!UpdateHouseWindow(p, names, guild, room)
  PROVE  LodgingSound(w')
<1> DEFINE l == w.window[p].list
           guilds == IF guild THEN w.guilds \cup {l} ELSE w.guilds \ {l}
           s == [w EXCEPT !.window[p] = Lodge!NoWindow, !.list[l] = names, !.guilds = guilds]
           t == Lodge!removePlayers(s, FALSE, room)
<1>1. w.window[p] # Lodge!NoWindow /\ w' = t
  BY DEF Lodge!UpdateHouseWindow
<1>2. l \in Lodge!Lists
  BY <1>1 DEF LodgingSound, Housed, LodgingType
<1> HIDE DEF l
<1>3. guilds \in SUBSET Lodge!Lists
  BY <1>2 DEF LodgingSound, Housed, LodgingType
<1> HIDE DEF guilds
<1>4. /\ s \in LodgingType /\ s.online = w.online /\ s.owner = w.owner
      /\ s.at = w.at /\ s.stuck = w.stuck /\ s.kicks = w.kicks /\ s.sleeper = w.sleeper
      /\ s.bedOf = w.bedOf /\ s.awake = w.awake /\ s.window[p] = Lodge!NoWindow
      /\ \A q \in Players \ {p} : s.window[q] = w.window[q]
  BY <1>2, <1>3 DEF LodgingSound, Housed, LodgingType
<1> HIDE DEF s
<1>5. Housed(s)
  BY <1>4 DEF LodgingSound, Housed, WindowsClosed, Slept
<1>6. /\ Housed(t) /\ SameAccess(s, t)
      /\ \A q \in Players : q \in Lodge!Inside(t) \ t.stuck =>
            /\ q \in Lodge!Inside(s) \ s.stuck
            /\ Lodge!isInvited(s, q) /\ t.window[q] = s.window[q]
  <2>1. CalledOutTo(s, FALSE, Lodge!removePlayers(s, FALSE, room))
    BY <1>5, CalledOut
  <2> QED
    BY <2>1 DEF CalledOutTo
<1> HIDE DEF t
<1>7. ASSUME NEW q \in Players
      PROVE  GuestOf(t, q)
  <2>1. GuestOf(w, q) /\ (q \in Lodge!Inside(s) <=> q \in Lodge!Inside(w))
    BY <1>4 DEF LodgingSound, Lodge!Inside
  <2>2. Lodge!isInvited(t, q) <=> Lodge!isInvited(s, q)
    BY <1>6, SameInvitation
  <2>3. t.owner = w.owner
    BY <1>4, <1>6 DEF SameAccess
  <2> QED
    BY <1>4, <1>6, <2>1, <2>2, <2>3 DEF GuestOf
<1> QED
  BY <1>1, <1>6, <1>7 DEF LodgingSound

\* A marriage or a guild changed: who lost his access by it has lapsed.
LEMMA LapsedSound ==
  ASSUME LodgingSound(w), NEW s, s \in LodgingType, s.owner = w.owner,
         s.online = w.online, s.at = w.at, s.window = w.window, s.sleeper = w.sleeper,
         s.bedOf = w.bedOf, s.kicks = w.kicks, s.stuck = w.stuck, s.lapsed = w.lapsed,
         s.awake = w.awake
  PROVE  LodgingSound(Lodge!Lapsed(s))
<1> DEFINE lost == {p \in Lodge!Inside(s) : Lodge!isInvited(w, p) /\ ~Lodge!isInvited(s, p)}
           t == [s EXCEPT !.lapsed = @ \cup lost]
<1>1. Lodge!Lapsed(s) = t
  BY DEF Lodge!Lapsed
<1>2. lost \in SUBSET Players
  BY DEF LodgingType, Lodge!Inside
<1>3. \A p \in Lodge!Inside(s) : p \notin lost => (Lodge!isInvited(w, p) => Lodge!isInvited(s, p))
  OBVIOUS
<1> HIDE DEF lost
<1>4. /\ t \in LodgingType /\ SameAccess(s, t) /\ t.online = w.online /\ t.at = w.at
      /\ t.window = w.window /\ t.sleeper = w.sleeper /\ t.bedOf = w.bedOf
      /\ t.kicks = w.kicks /\ t.stuck = w.stuck /\ t.lapsed = w.lapsed \cup lost
      /\ t.awake = w.awake /\ t.owner = w.owner
  BY <1>2 DEF LodgingType, SameAccess
<1> HIDE DEF t
<1>5. Housed(t)
  BY <1>4 DEF LodgingSound, Housed, WindowsClosed, Slept
<1>6. ASSUME NEW p \in Players
      PROVE  GuestOf(t, p)
  <2>1. /\ p \in Lodge!Inside(t) <=> p \in Lodge!Inside(w)
        /\ p \in Lodge!Inside(t) <=> p \in Lodge!Inside(s)
    BY <1>4 DEF Lodge!Inside
  <2>2. GuestOf(w, p)
    BY DEF LodgingSound
  <2>3. Lodge!isInvited(t, p) <=> Lodge!isInvited(s, p)
    BY <1>4, SameInvitation
  <2> QED
    BY <1>3, <1>4, <2>1, <2>2, <2>3 DEF GuestOf
<1> QED
  BY <1>1, <1>5, <1>6 DEF LodgingSound

LEMMA SetPartnerKeeps ==
  ASSUME LodgingSound(w), NEW p \in Players, NEW guid \in Players \cup {None},
         Lodge!SetPartner(p, guid)
  PROVE  LodgingSound(w')
<1> DEFINE s == [w EXCEPT !.spouse[p] = guid]
<1>1. w' = Lodge!Lapsed(s)
  BY DEF Lodge!SetPartner
<1>2. /\ s \in LodgingType /\ s.owner = w.owner /\ s.online = w.online /\ s.at = w.at
      /\ s.window = w.window /\ s.sleeper = w.sleeper /\ s.bedOf = w.bedOf /\ s.kicks = w.kicks
      /\ s.stuck = w.stuck /\ s.lapsed = w.lapsed /\ s.awake = w.awake
  BY DEF LodgingSound, Housed, LodgingType
<1> HIDE DEF s
<1> QED
  BY <1>1, <1>2, LapsedSound

LEMMA ChangeGuildKeeps ==
  ASSUME LodgingSound(w), NEW p \in Players, Lodge!ChangeGuild(p)
  PROVE  LodgingSound(w')
<1> DEFINE members == IF p \in w.members THEN w.members \ {p} ELSE w.members \cup {p}
           s == [w EXCEPT !.members = members]
<1>1. w' = Lodge!Lapsed(s)
  BY DEF Lodge!ChangeGuild
<1>2. members \in SUBSET Players
  BY DEF LodgingSound, Housed, LodgingType
<1> HIDE DEF members
<1>3. /\ s \in LodgingType /\ s.owner = w.owner /\ s.online = w.online /\ s.at = w.at
      /\ s.window = w.window /\ s.sleeper = w.sleeper /\ s.bedOf = w.bedOf /\ s.kicks = w.kicks
      /\ s.stuck = w.stuck /\ s.lapsed = w.lapsed /\ s.awake = w.awake
  BY <1>2 DEF LodgingSound, Housed, LodgingType
<1> HIDE DEF s
<1> QED
  BY <1>1, <1>3, LapsedSound

\* He stays in the game, in the house and in bed, as one of the exceptions.
LEMMA KickRefusedKeeps ==
  ASSUME LodgingSound(w), NEW p \in Players, Lodge!KickRefused(p)
  PROVE  LodgingSound(w')
<1> DEFINE unwanted == {q \in {p} \cap Lodge!Inside(w) : ~Lodge!isInvited(w, q)}
           abed == {q \in {p} : w.bedOf[q] # NoBed}
<1>1. w' = [w EXCEPT !.kicks = @ \ {p}, !.lapsed = @ \cup unwanted, !.awake = @ \cup abed]
  BY DEF Lodge!KickRefused
<1>2. /\ unwanted \in SUBSET Players /\ abed \in SUBSET Players
      /\ p \in Lodge!Inside(w) /\ p \notin unwanted => Lodge!isInvited(w, p)
      /\ p \notin abed => w.bedOf[p] = NoBed
  OBVIOUS
<1> HIDE DEF unwanted, abed
<1>3. /\ w' \in LodgingType /\ SameAccess(w, w') /\ w'.online = w.online /\ w'.at = w.at
      /\ w'.window = w.window /\ w'.sleeper = w.sleeper /\ w'.bedOf = w.bedOf
      /\ w'.kicks = w.kicks \ {p} /\ w'.stuck = w.stuck
      /\ w'.lapsed = w.lapsed \cup unwanted /\ w'.awake = w.awake \cup abed
  BY <1>1, <1>2 DEF LodgingSound, Housed, LodgingType, SameAccess
<1>4. WindowsClosed(w')
  BY <1>3 DEF LodgingSound, Housed, WindowsClosed
<1>5. Slept(w')
  BY <1>2, <1>3 DEF LodgingSound, Housed, Slept
<1>6. ASSUME NEW q \in Players
      PROVE  GuestOf(w', q)
  <2>1. Lodge!isInvited(w', q) <=> Lodge!isInvited(w, q)
    BY <1>3, SameInvitation
  <2>2. GuestOf(w, q) /\ (q \in Lodge!Inside(w') <=> q \in Lodge!Inside(w)) /\ w'.owner = w.owner
    BY <1>3 DEF LodgingSound, Lodge!Inside, SameAccess
  <2> QED
    BY <1>2, <1>3, <2>1, <2>2 DEF GuestOf
<1> QED
  BY <1>3, <1>4, <1>5, <1>6 DEF LodgingSound, Housed

LEMMA UseBedKeeps ==
  ASSUME LodgingAssumption, LodgingSound(w), NEW p \in Players, NEW b \in Beds, Lodge!UseBed(p, b)
  PROVE  LodgingSound(w')
<1> USE DEF LodgingSound
<1>1. CASE w.sleeper[b] # None
  <2> DEFINE t == Lodge!Woken(w, b)
  <2>1. w' = t
    BY <1>1 DEF Lodge!UseBed
  <2>2. /\ Housed(t) /\ SameAccess(w, t) /\ t.kicks = w.kicks /\ t.lapsed = w.lapsed
        /\ t.online = w.online /\ t.at = w.at /\ t.window = w.window /\ t.stuck = w.stuck
    <3>1. \A q \in Players : /\ w.bedOf[q] # NoBed => w.sleeper[w.bedOf[q]] = q
                             /\ q \in w.online \ (w.kicks \cup w.awake) => w.bedOf[q] \in {NoBed, b}
      BY DEF Housed, Slept
    <3>2. w \in LodgingType /\ WindowsClosed(w)
      BY DEF Housed
    <3> HIDE DEF LodgingSound
    <3> QED
      BY <3>1, <3>2, WokenHoused
  <2> HIDE DEF t
  <2>3. ASSUME NEW q \in Players
        PROVE  GuestOf(t, q)
    <3>1. Lodge!isInvited(t, q) <=> Lodge!isInvited(w, q)
      BY <2>2, SameInvitation
    <3> QED
      BY <2>2, <3>1 DEF GuestOf, Lodge!Inside, SameAccess
  <2> QED
    BY <2>1, <2>2, <2>3
<1>2. CASE w.sleeper[b] = None
  <2>1. /\ p \in w.online
        /\ w' = [w EXCEPT !.sleeper[b] = p, !.bedOf[p] = b, !.at[p] = "house", !.kicks = @ \cup {p}]
    BY <1>2 DEF Lodge!UseBed
  <2>2. /\ w' \in LodgingType /\ w'.online = w.online /\ SameAccess(w, w')
        /\ w'.lapsed = w.lapsed /\ w'.awake = w.awake
        /\ w'.window = w.window /\ w'.stuck = w.stuck /\ w'.kicks = w.kicks \cup {p}
        /\ \A q \in Players \ {p} : w'.at[q] = w.at[q] /\ w'.bedOf[q] = w.bedOf[q]
        /\ w'.at[p] = "house" /\ w'.bedOf[p] = b /\ w'.sleeper[b] = p
        /\ \A c \in Beds \ {b} : w'.sleeper[c] = w.sleeper[c]
    BY <2>1 DEF Housed, LodgingType, SameAccess
  <2>3. WindowsClosed(w')
    BY <2>1, <2>2 DEF Housed, WindowsClosed
  <2>4. ASSUME NEW q \in Players
        PROVE  /\ w'.bedOf[q] # NoBed => w'.sleeper[w'.bedOf[q]] = q
               /\ q \in w'.online \ (w'.kicks \cup w'.awake) => w'.bedOf[q] = NoBed
    <3>1. CASE q = p
      BY <2>2, <3>1
    <3>2. CASE q # p
      <4>1. /\ w.bedOf[q] # NoBed => w.sleeper[w.bedOf[q]] = q /\ w.bedOf[q] \in Beds
            /\ q \in w.online \ (w.kicks \cup w.awake) => w.bedOf[q] = NoBed
        BY DEF Housed, Slept, LodgingType
      <4>2. q # None
        BY DEF LodgingAssumption
      <4> QED
        BY <1>2, <2>2, <3>2, <4>1, <4>2
    <3> QED
      BY <3>1, <3>2
  <2>5. ASSUME NEW q \in Players
        PROVE  GuestOf(w', q)
    <3>1. Lodge!isInvited(w', q) <=> Lodge!isInvited(w, q)
      BY <2>2, SameInvitation
    <3>2. CASE q = p
      <4>1. w.at[p] = "street" => w.window[p] = Lodge!NoWindow
        BY DEF Housed, WindowsClosed
      <4>2. w.at[p] # "street" => w.at[p] = "house"
        BY DEF Housed, LodgingType
      <4>3. GuestOf(w, p)
        OBVIOUS
      <4> QED
        BY <2>2, <3>2, <4>1, <4>2, <4>3 DEF GuestOf, Lodge!Inside, SameAccess
    <3>3. CASE q # p
      BY <2>2, <3>1, <3>3 DEF GuestOf, Lodge!Inside, SameAccess
    <3> QED
      BY <3>2, <3>3
  <2> QED
    BY <2>2, <2>3, <2>4, <2>5 DEF Housed, Slept
<1> QED
  BY <1>1, <1>2

LEMMA LogoutHouseKeeps ==
  ASSUME LodgingAssumption, LodgingSound(w), NEW p \in Players, Lodge!Logout(p)
  PROVE  LodgingSound(w')
<1>1. /\ w' = [w EXCEPT !.online = @ \ {p}, !.window[p] = Lodge!NoWindow,
                        !.kicks = @ \ {p}, !.stuck = @ \ {p},
                        !.lapsed = @ \ {p}, !.awake = @ \ {p}]
  BY DEF Lodge!Logout
<1>2. /\ w' \in LodgingType /\ w'.online = w.online \ {p} /\ SameAccess(w, w')
      /\ w'.lapsed = w.lapsed \ {p} /\ w'.awake = w.awake \ {p} /\ w'.at = w.at /\ w'.stuck = w.stuck \ {p}
      /\ w'.kicks = w.kicks \ {p} /\ w'.sleeper = w.sleeper /\ w'.bedOf = w.bedOf
      /\ \A q \in Players \ {p} : w'.window[q] = w.window[q]
      /\ w'.window[p] = Lodge!NoWindow
  BY <1>1 DEF LodgingSound, Housed, LodgingType, SameAccess
<1>3. WindowsClosed(w') /\ Slept(w')
  BY <1>2 DEF LodgingSound, Housed, WindowsClosed, Slept
<1>4. ASSUME NEW q \in Players
      PROVE  GuestOf(w', q)
  <2>1. Lodge!isInvited(w', q) <=> Lodge!isInvited(w, q)
    BY <1>2, SameInvitation
  <2>2. GuestOf(w, q)
    BY DEF LodgingSound
  <2> QED
    BY <1>2, <2>1, <2>2 DEF GuestOf, Lodge!Inside, SameAccess
<1> QED
  BY <1>2, <1>3, <1>4 DEF LodgingSound, Housed

\* Who is no longer invited appears at the entry; his bed is free.
LEMMA LoginHouseKeeps ==
  ASSUME LodgingAssumption, LodgingSound(w), NEW p \in Players, Lodge!Login(p)
  PROVE  LodgingSound(w')
<1> DEFINE place == IF Lodge!isInvited(w, p) THEN w.at[p] ELSE "street"
           s == [w EXCEPT !.online = @ \cup {p}, !.at[p] = place]
<1>1. /\ p \notin w.online
      /\ w' = IF s.bedOf[p] = NoBed THEN s ELSE Lodge!Woken(s, s.bedOf[p])
  BY DEF Lodge!Login
<1>2. /\ place \in {"street", "house"}
      /\ place = "house" => Lodge!isInvited(w, p)
  BY DEF LodgingSound, Housed, LodgingType
<1> HIDE DEF place
<1>3. /\ s \in LodgingType /\ s.online = w.online \cup {p} /\ SameAccess(w, s)
      /\ s.lapsed = w.lapsed /\ s.awake = w.awake /\ s.stuck = w.stuck /\ s.kicks = w.kicks /\ s.sleeper = w.sleeper
      /\ s.bedOf = w.bedOf /\ s.window = w.window
      /\ \A q \in Players \ {p} : s.at[q] = w.at[q]
      /\ s.at[p] = place
  BY <1>2 DEF LodgingSound, Housed, LodgingType, SameAccess
<1> HIDE DEF s
<1>4. w.window[p] = Lodge!NoWindow /\ WindowsClosed(w) /\ Slept(w) /\ p \notin w.kicks
  BY <1>1 DEF LodgingSound, Housed, WindowsClosed
<1>5. WindowsClosed(s)
  BY <1>3, <1>4 DEF WindowsClosed
<1>6. ASSUME NEW q \in Players
      PROVE  GuestOf(s, q)
  <2>1. Lodge!isInvited(s, q) <=> Lodge!isInvited(w, q)
    BY <1>3, SameInvitation
  <2>2. GuestOf(w, q)
    BY DEF LodgingSound
  <2>3. CASE q = p
    BY <1>2, <1>3, <1>4, <2>1, <2>3 DEF GuestOf, Lodge!Inside, SameAccess
  <2>4. CASE q # p
    BY <1>3, <2>1, <2>2, <2>4 DEF GuestOf, Lodge!Inside, SameAccess
  <2> QED
    BY <2>3, <2>4
<1>7. CASE s.bedOf[p] = NoBed
  <2>1. ASSUME NEW q \in Players
        PROVE  /\ s.bedOf[q] # NoBed => s.sleeper[s.bedOf[q]] = q
               /\ q \in s.online \ (s.kicks \cup s.awake) => s.bedOf[q] = NoBed
    <3>1. /\ w.bedOf[q] # NoBed => w.sleeper[w.bedOf[q]] = q
          /\ q \in w.online \ (w.kicks \cup w.awake) => w.bedOf[q] = NoBed
      BY <1>4 DEF Slept
    <3>2. s.bedOf[q] = w.bedOf[q] /\ (s.bedOf[q] # NoBed => s.sleeper[s.bedOf[q]] = q)
      BY <1>3, <3>1
    <3>3. CASE q = p
      BY <1>7, <3>2, <3>3
    <3>4. CASE q # p
      BY <1>3, <3>1, <3>2, <3>4
    <3> QED
      BY <3>3, <3>4
  <2>2. Slept(s)
    BY <2>1 DEF Slept
  <2> QED
    BY <1>1, <1>3, <1>5, <1>6, <1>7, <2>2 DEF LodgingSound, Housed
<1>8. CASE s.bedOf[p] # NoBed
  <2> DEFINE b == s.bedOf[p]
             t == Lodge!Woken(s, b)
  <2>1. b \in Beds /\ w' = t
    BY <1>1, <1>3, <1>8 DEF LodgingType
  <2>2. ASSUME NEW q \in Players
        PROVE  /\ s.bedOf[q] # NoBed => s.sleeper[s.bedOf[q]] = q
               /\ q \in s.online \ (s.kicks \cup s.awake) => s.bedOf[q] \in {NoBed, b}
    BY <1>3, <1>4 DEF Slept
  <2> HIDE DEF b
  <2>3. /\ Housed(t) /\ SameAccess(s, t) /\ t.kicks = s.kicks /\ t.lapsed = s.lapsed
        /\ t.online = s.online /\ t.at = s.at /\ t.window = s.window /\ t.stuck = s.stuck
    BY <1>3, <1>5, <2>1, <2>2, WokenHoused
  <2> HIDE DEF t
  <2>4. ASSUME NEW q \in Players
        PROVE  GuestOf(t, q)
    <3>1. Lodge!isInvited(t, q) <=> Lodge!isInvited(s, q)
      BY <2>3, SameInvitation
    <3> QED
      BY <1>6, <2>3, <3>1 DEF GuestOf, Lodge!Inside, SameAccess
  <2> QED
    BY <2>1, <2>3, <2>4 DEF LodgingSound
<1> QED
  BY <1>7, <1>8

LEMMA RestartKeeps ==
  ASSUME LodgingAssumption, LodgingSound(w), NEW bedOf \in [Players -> Beds \cup {NoBed}],
         Lodge!Restart(bedOf)
  PROVE  LodgingSound(w')
<1>1. /\ w.online = {} /\ w' = [w EXCEPT !.bedOf = bedOf]
      /\ \A p \in Players : bedOf[p] # NoBed => bedOf[p] \in Beds /\ w.sleeper[bedOf[p]] = p
  <2>1. ASSUME NEW p \in Players, bedOf[p] # NoBed
        PROVE  bedOf[p] \in {b \in Beds : w.sleeper[b] = p}
    BY <2>1 DEF Lodge!Restart
  <2> QED
    BY <2>1 DEF Lodge!Restart
<1>2. /\ w' \in LodgingType /\ w'.online = w.online /\ SameAccess(w, w')
      /\ w'.lapsed = w.lapsed /\ w'.awake = w.awake /\ w'.at = w.at /\ w'.stuck = w.stuck
      /\ w'.kicks = w.kicks /\ w'.sleeper = w.sleeper /\ w'.bedOf = bedOf
      /\ w'.window = w.window
  BY <1>1 DEF LodgingSound, Housed, LodgingType, SameAccess
<1>3. WindowsClosed(w') /\ Slept(w')
  BY <1>1, <1>2 DEF LodgingSound, Housed, WindowsClosed, Slept
<1>4. ASSUME NEW q \in Players
      PROVE  GuestOf(w', q)
  BY <1>1, <1>2 DEF GuestOf, Lodge!Inside
<1> QED
  BY <1>2, <1>3, <1>4 DEF LodgingSound, Housed

LEMMA HouseKeeps ==
  ASSUME LodgingAssumption, LodgingSound(w), [Lodge!Next]_w
  PROVE  LodgingSound(w')
<1>1. CASE UNCHANGED w
  BY <1>1 DEF LodgingSound
<1>2. CASE \E p \in Players : Lodge!Enter(p)
  BY <1>2, EnterKeeps
<1>3. CASE \E p \in Players : Lodge!Leave(p)
  BY <1>3, LeaveHouseKeeps
<1>4. CASE \E p \in Players : Lodge!Login(p)
  BY <1>4, LoginHouseKeeps
<1>5. CASE \E p \in Players : Lodge!Logout(p) \/ Lodge!KickSleeper(p)
  BY <1>5, LogoutHouseKeeps DEF Lodge!KickSleeper
<1>6. CASE \E p \in Players, b \in Beds : Lodge!UseBed(p, b)
  BY <1>6, UseBedKeeps
<1>7. CASE \E p \in Players : (\E l \in Lodge!Lists : Lodge!OpenWindow(p, l)) \/ Lodge!HouseWindowDenied(p)
  BY <1>7, WindowKeeps
<1>8. CASE \E guid \in Players \cup {None} : \E room : Lodge!ChangeOwner(guid, room)
  BY <1>8, ChangeOwnerKeeps
<1>9. CASE \E p \in Players, names \in SUBSET Players, guild \in BOOLEAN,
             room \in SUBSET (Lodge!Inside(w) \ {w.owner}) :
             Lodge!UpdateHouseWindow(p, names, guild, room)
  BY <1>9, UpdateHouseWindowKeeps
<1>10. CASE \E p, target \in Players : \E room \in SUBSET {target} : Lodge!HouseKick(p, target, room)
  BY <1>10, HouseKickKeeps
<1>11. CASE \E bedOf \in [Players -> Beds \cup {NoBed}] : Lodge!Restart(bedOf)
  BY <1>11, RestartKeeps
<1>12. CASE \E p \in Players : Lodge!KickRefused(p)
  BY <1>12, KickRefusedKeeps
<1>13. CASE \E p \in Players : Lodge!ChangeGuild(p)
  BY <1>13, ChangeGuildKeeps
<1>14. CASE \E p \in Players, guid \in Players \cup {None} : Lodge!SetPartner(p, guid)
  BY <1>14, SetPartnerKeeps
<1> QED
  BY <1>1, <1>2, <1>3, <1>4, <1>5, <1>6, <1>7, <1>8, <1>9, <1>10, <1>11, <1>12, <1>13, <1>14
     DEF Lodge!Next

\* Who is in the house is invited, but for those there was no room to throw out
\* and those that lost their access, or whose kick was refused, and were not asked
\* to leave since; no window outlives its owner; the map of sleepers names its own
\* beds only.
THEOREM HouseAlwaysAgrees == Spec => []HouseAgrees
<1> DEFINE Inv == scene = "house" => LodgingSound(w)
<1>1. Init => Inv
  BY WorldAssumption, LodgingInit DEF Init, WorldAssumption
<1>2. Inv /\ [Next]_<<scene, w>> => Inv'
  <2> SUFFICES ASSUME Inv, [Next]_<<scene, w>>, scene' = "house"
               PROVE  LodgingSound(w')
    BY DEF LodgingSound, Housed, WindowsClosed, Slept, GuestOf, Lodge!Inside, Lodge!isInvited,
           Lodge!getHouseAccessLevel, Lodge!isInList
  <2>1. scene = "house" /\ [Lodge!Next]_w
    BY DEF Next
  <2> QED
    BY <2>1, WorldAssumption, HouseKeeps
<1>3. Inv => HouseAgrees
  BY WorldAssumption, LodgingSoundAgrees DEF HouseAgrees
<1> QED
  BY <1>1, <1>2, <1>3, PTL DEF Spec

-----------------------------------------------------------------------------
(* The rent of a house (module Rent).                                        *)

RentType ==
  [day : Nat, owner : Players \cup {None}, paidUntil : Nat, rentWarnings : Nat,
   lastWarning : Nat, bank : [Players -> Int], depot : [Players -> Int],
   premium : SUBSET Players, doc : {Lease!NoDoc} \cup (Players \X Players),
   winner : Players \cup {None}, letters : Seq(Nat), usurped : BOOLEAN]

\* Each warning that counts was a letter, of a day of its own, the last one of
\* lastWarning; a house without an owner has no warnings.
Warned(s) ==
  /\ s.owner = None => s.rentWarnings = 0
  /\ ~s.usurped => s.rentWarnings <= Len(s.letters)
  /\ \A n \in 1 .. Len(s.letters) : s.letters[n] <= s.lastWarning
  /\ \A n \in 1 .. Len(s.letters) - 1 : s.letters[n] < s.letters[n + 1]

RentSound(s) == s \in RentType /\ Warned(s)

\* What LosesWarned asks of a state in which a premium player is put out.
Deserved(s) ==
  /\ Len(s.letters) >= WarningsLimit
  /\ \A n \in 1 .. Len(s.letters) : s.letters[n] < s.day
  /\ \A n \in 1 .. Len(s.letters) - 1 : s.letters[n] < s.letters[n + 1]

LEMMA RentInit ==
  ASSUME RentAssumption, Lease!Init
  PROVE  RentSound(w)
<1>1. PICK b \in [Players -> 0 .. MaxMoney], d \in [Players -> 0 .. MaxMoney] :
        w = [day |-> 1, owner |-> None, paidUntil |-> 0, rentWarnings |-> 0,
             lastWarning |-> 0, bank |-> b, depot |-> d, premium |-> Players,
             doc |-> Lease!NoDoc, winner |-> None, letters |-> <<>>, usurped |-> FALSE]
  BY DEF Lease!Init
<1>2. b \in [Players -> Int] /\ d \in [Players -> Int]
  BY DEF RentAssumption
<1>3. w \in RentType
  BY <1>1, <1>2 DEF RentType
<1>4. w.owner = None /\ w.rentWarnings = 0 /\ w.letters = <<>>
  BY <1>1
<1> QED
  BY <1>3, <1>4 DEF RentSound, Warned

-----------------------------------------------------------------------------
(* What leaves the owner, his warnings and his letters as they are.          *)

LEMMA SameWarnings ==
  ASSUME NEW s, Warned(s), NEW t, t.owner = s.owner, t.rentWarnings = s.rentWarnings,
         t.lastWarning = s.lastWarning, t.letters = s.letters, t.usurped = s.usurped
  PROVE  Warned(t)
BY DEF Warned

\* A new owner who did not find another one there starts without warnings.
LEMMA FreshWarnings ==
  ASSUME NEW t \in RentType, t.letters = <<>>, t.usurped \/ t.rentWarnings = 0,
         t.owner = None => t.rentWarnings = 0
  PROVE  Warned(t)
BY DEF Warned, RentType

LEMMA SetOwnerExWarned ==
  ASSUME RentAssumption, NEW s, RentSound(s), NEW p \in Players \cup {None}
  PROVE  LET t == Lease!SetOwnerEx(s, p) IN
         /\ RentSound(t) /\ t.owner = p /\ t.day = s.day
<1> DEFINE forgotten == IF s.owner = None THEN s ELSE [s EXCEPT !.rentWarnings = 0, !.paidUntil = 0]
           t == Lease!SetOwnerEx(s, p)
<1>1. CASE s.owner = p
  BY <1>1 DEF Lease!SetOwnerEx
<1>2. CASE s.owner # p
  <2>1. /\ forgotten \in RentType /\ forgotten.rentWarnings = 0 /\ forgotten.day = s.day
    <3>1. CASE s.owner = None
      BY <3>1 DEF RentSound, Warned
    <3>2. CASE s.owner # None
      BY <3>2 DEF RentSound, RentType
    <3> QED
      BY <3>1, <3>2
  <2> DEFINE last == IF p = None THEN 0 ELSE s.day
  <2>2. t = [Lease!SetOwner(forgotten, p) EXCEPT !.lastWarning = last, !.usurped = FALSE]
    BY <1>2 DEF Lease!SetOwnerEx
  <2>3. last \in Nat
    BY DEF RentSound, RentType
  <2> HIDE DEF forgotten, last
  <2> DEFINE u == Lease!SetOwner(forgotten, p)
             taken == forgotten.owner # None /\ p # None
  <2>4. u = [forgotten EXCEPT !.owner = p, !.letters = <<>>, !.usurped = taken]
    BY DEF Lease!SetOwner
  <2>5. taken \in BOOLEAN
    OBVIOUS
  <2> HIDE DEF u, taken
  <2>6. /\ u \in RentType /\ u.owner = p /\ u.letters = <<>> /\ u.rentWarnings = 0
        /\ u.day = s.day
    <3>1. <<>> \in Seq(Nat)
      OBVIOUS
    <3>2. u \in RentType
      BY <2>1, <2>4, <2>5, <3>1 DEF RentType
    <3> QED
      BY <2>1, <2>4, <3>2 DEF RentType
  <2>7. t = [u EXCEPT !.lastWarning = last, !.usurped = FALSE]
    BY <2>2 DEF u
  <2> HIDE DEF t
  <2>8. /\ t \in RentType /\ t.owner = p /\ t.letters = <<>> /\ t.rentWarnings = 0
        /\ t.day = s.day
    BY <2>3, <2>6, <2>7 DEF RentType
  <2>9. Warned(t)
    BY <2>8, FreshWarnings
  <2> QED
    BY <2>8, <2>9 DEF RentSound, t
<1> QED
  BY <1>1, <1>2

LEMMA PaidWarned ==
  ASSUME RentAssumption, NEW s, RentSound(s), NEW p \in Players, NEW amount \in Nat
  PROVE  LET t == Lease!Paid(s, p, amount) IN
         /\ RentSound(t) /\ t.owner = s.owner /\ t.doc = s.doc
<1> DEFINE c == Lease!Charge(s, p, amount)
           t == Lease!Paid(s, p, amount)
<1>1. /\ c \in RentType /\ c.owner = s.owner /\ c.doc = s.doc
      /\ c.rentWarnings = s.rentWarnings
  <2>1. CASE BankSystem /\ s.bank[p] >= amount
    <3> DEFINE bank == [s.bank EXCEPT ![p] = @ - amount]
    <3>1. c = [s EXCEPT !.bank = bank]
      BY <2>1 DEF Lease!Charge
    <3>2. bank \in [Players -> Int]
      BY DEF RentSound, RentType
    <3> HIDE DEF c, bank
    <3> QED
      BY <3>1, <3>2 DEF RentSound, RentType
  <2>2. CASE ~(BankSystem /\ s.bank[p] >= amount)
    <3> DEFINE depot == [s.depot EXCEPT ![p] = @ - amount]
    <3>1. c = [s EXCEPT !.depot = depot]
      BY <2>2 DEF Lease!Charge
    <3>2. depot \in [Players -> Int]
      BY DEF RentSound, RentType
    <3> HIDE DEF c, depot
    <3> QED
      BY <3>1, <3>2 DEF RentSound, RentType
  <2> QED
    BY <2>1, <2>2
<1> DEFINE until == s.day + Period
<1>2. t = [c EXCEPT !.paidUntil = until, !.lastWarning = 0, !.rentWarnings = 0, !.letters = <<>>]
  BY DEF Lease!Paid
<1>3. until \in Nat
  BY DEF RentSound, RentType, RentAssumption
<1> HIDE DEF c, t, until
<1>6. <<>> \in Seq(Nat)
  OBVIOUS
<1>7. t \in RentType
  BY <1>1, <1>2, <1>3, <1>6 DEF RentType
<1>4. /\ t \in RentType /\ t.owner = s.owner /\ t.doc = s.doc /\ t.rentWarnings = 0
      /\ t.letters = <<>>
  BY <1>1, <1>2, <1>7 DEF RentType
<1>5. Warned(t)
  BY <1>4, FreshWarnings
<1> QED
  BY <1>4, <1>5 DEF RentSound, t

\* PayHouse puts a premium player out only when he deserves it.
LEMMA PayHouseWarned ==
  ASSUME RentAssumption, NEW s, RentSound(s), NEW bid \in Nat
  PROVE  LET t == Lease!PayHouse(s, bid) IN
         /\ RentSound(t)
         /\ s.owner \in s.premium /\ t.owner # s.owner /\ ~s.usurped => Deserved(s)
<1> DEFINE t == Lease!PayHouse(s, bid)
           warned == [s EXCEPT !.lastWarning = s.day, !.rentWarnings = @ + 1,
                               !.letters = Append(@, s.day)]
           alike == s.day < s.lastWarning + 1
<1>1. CASE ~Lease!Due(s, s.day)
  BY <1>1 DEF Lease!PayHouse
<1>2. CASE Lease!Due(s, s.day)
  <2>1. s.owner \in Players
    BY <1>2 DEF Lease!Due, RentSound, RentType
  <2>2. CASE s.owner \notin s.premium
    <3>1. t = Lease!SetOwnerEx(s, None)
      BY <1>2, <2>2 DEF Lease!PayHouse
    <3> QED
      BY <2>2, <3>1, SetOwnerExWarned
  <2>3. CASE s.owner \in s.premium /\ Lease!CanPay(s, s.owner, 1 + bid)
    <3>1. t = Lease!Paid(s, s.owner, 1 + bid)
      BY <1>2, <2>3 DEF Lease!PayHouse
    <3>2. 1 + bid \in Nat
      OBVIOUS
    <3> QED
      BY <2>1, <3>1, <3>2, PaidWarned
  <2>4. CASE s.owner \in s.premium /\ ~Lease!CanPay(s, s.owner, 1 + bid) /\ s.day < s.lastWarning + 1
    <3>1. t = s
      BY <1>2, <2>4 DEF Lease!PayHouse
    <3> QED
      BY <3>1
  <2>5. CASE /\ s.owner \in s.premium /\ ~Lease!CanPay(s, s.owner, 1 + bid)
             /\ ~(s.day < s.lastWarning + 1) /\ s.rentWarnings >= WarningsLimit
    <3>1. t = Lease!SetOwnerEx(s, None)
      BY <1>2, <2>5 DEF Lease!PayHouse
    <3>2. ~s.usurped => Deserved(s)
      BY SMTT(40), <2>5 DEF RentSound, RentType, Warned, Deserved, RentAssumption
    <3> QED
      BY <3>1, <3>2, SetOwnerExWarned
  <2>6. CASE /\ s.owner \in s.premium /\ ~Lease!CanPay(s, s.owner, 1 + bid)
             /\ ~(s.day < s.lastWarning + 1) /\ ~(s.rentWarnings >= WarningsLimit)
    <3>1. t = warned
      BY <1>2, <2>6 DEF Lease!PayHouse
    <3> HIDE DEF t
    <3>2. /\ s \in RentType /\ s.day \in Nat /\ s.lastWarning \in Nat /\ s.rentWarnings \in Nat
          /\ s.letters \in Seq(Nat)
      BY DEF RentSound, RentType
    <3>3. Append(s.letters, s.day) \in Seq(Nat)
      BY <3>2
    <3>4. /\ warned \in RentType /\ warned.owner = s.owner /\ warned.usurped = s.usurped
          /\ warned.lastWarning = s.day /\ warned.rentWarnings = s.rentWarnings + 1
          /\ warned.letters = Append(s.letters, s.day)
      <4> DEFINE letters == Append(s.letters, s.day)
                 n == s.rentWarnings + 1
      <4>1. warned = [s EXCEPT !.lastWarning = s.day, !.rentWarnings = n, !.letters = letters]
        OBVIOUS
      <4>2. letters \in Seq(Nat) /\ n \in Nat
        BY <3>2, <3>3
      <4> HIDE DEF warned, letters, n
      <4>3. warned \in RentType
        BY <3>2, <4>1, <4>2 DEF RentType
      <4> QED
        BY <3>2, <4>1, <4>3 DEF RentType, letters, n
    <3> HIDE DEF warned
    <3>5. s.lastWarning < s.day
      BY <2>6, <3>2
    <3>6. Warned(s)
      BY DEF RentSound
    <3>7. /\ Len(warned.letters) = Len(s.letters) + 1
          /\ \A n \in 1 .. Len(s.letters) : warned.letters[n] = s.letters[n]
          /\ warned.letters[Len(s.letters) + 1] = s.day
          /\ Len(s.letters) \in Nat
          /\ \A n \in 1 .. Len(s.letters) : s.letters[n] \in Nat
      BY SMTT(40), <3>2, <3>4
    <3>8. Warned(warned)
      <4>1. ~warned.usurped => warned.rentWarnings <= Len(warned.letters)
        BY <3>2, <3>4, <3>6, <3>7 DEF Warned
      <4>2. ASSUME NEW n \in 1 .. Len(warned.letters)
            PROVE  warned.letters[n] <= warned.lastWarning
        <5>1. CASE n \in 1 .. Len(s.letters)
          <6>1. s.letters[n] <= s.lastWarning /\ s.letters[n] \in Nat
            BY <3>6, <3>7, <5>1 DEF Warned
          <6> QED
            BY <3>2, <3>4, <3>5, <3>7, <5>1, <6>1, SMTT(60)
        <5>2. CASE n = Len(s.letters) + 1
          BY <3>2, <3>4, <3>7, <5>2
        <5> QED
          BY <3>7, <5>1, <5>2
      <4>3. ASSUME NEW n \in 1 .. Len(warned.letters) - 1
            PROVE  warned.letters[n] < warned.letters[n + 1]
        <5>1. n \in 1 .. Len(s.letters) /\ warned.letters[n] = s.letters[n]
          BY <3>7
        <5>2. CASE n < Len(s.letters)
          <6>1. n \in 1 .. Len(s.letters) - 1 /\ n + 1 \in 1 .. Len(s.letters)
            BY <3>7, <5>1, <5>2
          <6>2. s.letters[n] < s.letters[n + 1]
            BY <3>6, <6>1 DEF Warned
          <6> QED
            BY <3>7, <5>1, <6>1, <6>2
        <5>3. CASE n = Len(s.letters)
          <6>1. s.letters[n] <= s.lastWarning /\ s.letters[n] \in Nat
            BY <3>6, <3>7, <5>1 DEF Warned
          <6> QED
            BY <3>2, <3>5, <3>7, <5>1, <5>3, <6>1
        <5> QED
          BY <3>7, <5>1, <5>2, <5>3
      <4>4. warned.owner # None
        BY <2>1, <3>4 DEF RentAssumption
      <4> QED
        BY <4>1, <4>2, <4>3, <4>4 DEF Warned
    <3> QED
      BY <3>1, <3>4, <3>8 DEF RentSound, t
  <2> QED
    BY <2>2, <2>3, <2>4, <2>5, <2>6
<1> QED
  BY <1>1, <1>2

-----------------------------------------------------------------------------
(* The auctions.                                                             *)

LEMMA SoldWarned ==
  ASSUME RentAssumption, NEW s, RentSound(s), s.winner # None
  PROVE  RentSound(Lease!Sold(s))
<1> DEFINE closed == [s EXCEPT !.winner = None]
           taken == s.owner # None /\ s.winner # None
           t == Lease!SetOwner(closed, s.winner)
<1>1. /\ closed \in RentType /\ closed.owner = s.owner /\ closed.rentWarnings = s.rentWarnings
  BY DEF RentSound, RentType
<1>2. t = [closed EXCEPT !.owner = s.winner, !.letters = <<>>, !.usurped = taken]
  BY <1>1 DEF Lease!SetOwner
<1>3. taken \in BOOLEAN /\ (taken <=> s.owner # None) /\ s.winner \in Players
  BY DEF RentSound, RentType
<1> HIDE DEF closed, taken
<1>4. /\ t \in RentType /\ t.owner = s.winner /\ t.letters = <<>> /\ t.usurped = taken
      /\ t.rentWarnings = s.rentWarnings
  <2> HIDE DEF t
  <2>1. <<>> \in Seq(Nat)
    OBVIOUS
  <2>2. t \in RentType
    BY <1>1, <1>2, <1>3, <2>1 DEF RentType
  <2> QED
    BY <1>1, <1>2, <2>2 DEF RentType
<1>5. Warned(t)
  <2> HIDE DEF t
  <2>1. t.usurped \/ t.rentWarnings = 0
    BY <1>3, <1>4 DEF RentSound, Warned
  <2> QED
    BY <1>4, <2>1, FreshWarnings
<1>6. Lease!Sold(s) = Lease!PayHouse(t, 1)
  BY DEF Lease!Sold, closed
<1>7. RentSound(t) /\ 1 \in Nat
  BY <1>4, <1>5 DEF RentSound
<1> HIDE DEF t
<1> QED
  BY <1>6, <1>7, PayHouseWarned

LEMMA RentRestartKeeps ==
  ASSUME RentAssumption, RentSound(w), Lease!Restart
  PROVE  RentSound(w') /\ w'.owner = w.owner
<1> DEFINE s == IF w.winner = None THEN w ELSE Lease!Sold(w)
<1>1. w' = [s EXCEPT !.owner = w.owner, !.paidUntil = w.paidUntil,
                     !.rentWarnings = w.rentWarnings, !.lastWarning = w.lastWarning,
                     !.letters = w.letters, !.usurped = w.usurped, !.doc = Lease!NoDoc]
  BY DEF Lease!Restart
<1>2. s \in RentType
  BY SoldWarned DEF RentSound
<1>3. w \in RentType /\ Warned(w)
  BY DEF RentSound
<1> HIDE DEF s
<1>4. /\ w.owner \in Players \cup {None} /\ w.paidUntil \in Nat /\ w.rentWarnings \in Nat
      /\ w.lastWarning \in Nat /\ w.letters \in Seq(Nat) /\ w.usurped \in BOOLEAN
  BY <1>3 DEF RentType
<1>5. /\ w' \in RentType /\ w'.owner = w.owner /\ w'.rentWarnings = w.rentWarnings
      /\ w'.lastWarning = w.lastWarning /\ w'.letters = w.letters /\ w'.usurped = w.usurped
  BY <1>1, <1>2, <1>4 DEF RentType
<1> QED
  BY <1>3, <1>5, SameWarnings DEF RentSound

-----------------------------------------------------------------------------
(* Every step.                                                               *)

LEMMA HouseBuyWarned ==
  ASSUME RentAssumption, RentSound(w), NEW p \in Players, Lease!HouseBuy(p)
  PROVE  RentSound(w') /\ w.owner = None
<1> DEFINE s == Lease!SetOwnerEx(w, p)
           until == w.day + Period
<1>1. /\ w.owner = None
      /\ w' = IF SkipInitRent THEN [s EXCEPT !.paidUntil = until, !.lastWarning = 0] ELSE s
  BY DEF Lease!HouseBuy
<1>2. RentSound(s) /\ s.owner = p
  BY SetOwnerExWarned
<1>3. s.letters = <<>>
  <2>1. p # None
    BY DEF RentAssumption
  <2>2. s = [Lease!SetOwner(w, p) EXCEPT !.lastWarning = w.day, !.usurped = FALSE]
    BY <1>1, <2>1 DEF Lease!SetOwnerEx
  <2>3. Lease!SetOwner(w, p) = [w EXCEPT !.owner = p, !.letters = <<>>, !.usurped = FALSE]
    BY <1>1 DEF Lease!SetOwner
  <2> HIDE DEF s
  <2> QED
    BY <2>2, <2>3 DEF RentSound, RentType
<1>4. until \in Nat
  BY DEF RentSound, RentType, RentAssumption
<1> HIDE DEF s, until
<1>5. CASE SkipInitRent
  <2>1. w' = [s EXCEPT !.paidUntil = until, !.lastWarning = 0]
    BY <1>1, <1>5
  <2>2. /\ w' \in RentType /\ w'.owner = s.owner /\ w'.letters = <<>> /\ w'.usurped = s.usurped
        /\ w'.rentWarnings = s.rentWarnings
    BY <1>2, <1>3, <1>4, <2>1 DEF RentSound, RentType
  <2> QED
    <3>1. w'.usurped \/ w'.rentWarnings = 0
      <4>1. Len(s.letters) = 0 /\ s.rentWarnings \in Nat
        BY <1>2, <1>3 DEF RentSound, RentType
      <4> QED
        BY <1>2, <2>2, <4>1 DEF RentSound, Warned
    <3>2. w'.owner = None => w'.rentWarnings = 0
      BY <1>2, <2>2 DEF RentSound, Warned
    <3> QED
      BY <1>1, <2>2, <3>1, <3>2, FreshWarnings DEF RentSound
<1>6. CASE ~SkipInitRent
  BY <1>1, <1>2, <1>6
<1> QED
  BY <1>5, <1>6

LEMMA HouseSellWarned ==
  ASSUME RentAssumption, RentSound(w), NEW p \in Players, NEW q \in Players, Lease!HouseSell(p, q)
  PROVE  RentSound(w') /\ w'.owner = w.owner
<1> DEFINE s == IF w.paidUntil = 0 THEN Lease!Paid(w, p, 1) ELSE w
<1>1. w' = [s EXCEPT !.doc = <<p, q>>]
  BY DEF Lease!HouseSell
<1>2. RentSound(s) /\ s.owner = w.owner
  <2>1. 1 \in Nat
    OBVIOUS
  <2> QED
    BY <2>1, PaidWarned
<1> HIDE DEF s
<1>3. /\ w' \in RentType /\ w'.owner = s.owner /\ w'.rentWarnings = s.rentWarnings
      /\ w'.lastWarning = s.lastWarning /\ w'.letters = s.letters /\ w'.usurped = s.usurped
  BY <1>1, <1>2 DEF RentSound, RentType
<1> QED
  BY <1>2, <1>3, SameWarnings DEF RentSound

LEMMA TransferWarned ==
  ASSUME RentAssumption, RentSound(w), Lease!Transfer
  PROVE  RentSound(w') /\ w'.owner # None
<1> DEFINE s == Lease!SetOwnerEx(w, w.doc[2])
<1>1. w.doc # Lease!NoDoc /\ w' = [s EXCEPT !.doc = Lease!NoDoc]
  BY DEF Lease!Transfer
<1>2. w.doc[2] \in Players
  BY <1>1 DEF RentSound, RentType
<1>3. RentSound(s) /\ s.owner # None
  BY <1>2, SetOwnerExWarned DEF RentAssumption
<1> HIDE DEF s
<1>4. /\ w' \in RentType /\ w'.owner = s.owner /\ w'.rentWarnings = s.rentWarnings
      /\ w'.lastWarning = s.lastWarning /\ w'.letters = s.letters /\ w'.usurped = s.usurped
  BY <1>1, <1>3 DEF RentSound, RentType
<1> QED
  BY <1>3, <1>4, SameWarnings DEF RentSound

\* Bids, money, premium accounts; the days and documents.
LEMMA RestWarned ==
  ASSUME RentAssumption, RentSound(w), NEW p \in Players,
         Lease!AuctionEnds(p) \/ Lease!Earn(p) \/ Lease!PremiumEnds(p)
  PROVE  RentSound(w') /\ w'.owner = w.owner
<1>1. /\ w' \in RentType /\ w'.owner = w.owner /\ w'.rentWarnings = w.rentWarnings
      /\ w'.lastWarning = w.lastWarning /\ w'.letters = w.letters /\ w'.usurped = w.usurped
  <2>1. CASE Lease!AuctionEnds(p)
    BY <2>1 DEF Lease!AuctionEnds, RentSound, RentType
  <2>2. CASE Lease!PremiumEnds(p)
    BY <2>2 DEF Lease!PremiumEnds, RentSound, RentType
  <2>5. CASE Lease!Earn(p)
    <3> DEFINE bank == [w.bank EXCEPT ![p] = @ + 1]
               depot == [w.depot EXCEPT ![p] = @ + 1]
    <3>1. w' = [w EXCEPT !.bank = bank] \/ w' = [w EXCEPT !.depot = depot]
      BY <2>5 DEF Lease!Earn
    <3>2. bank \in [Players -> Int] /\ depot \in [Players -> Int]
      BY DEF RentSound, RentType
    <3> HIDE DEF bank, depot
    <3> QED
      BY <3>1, <3>2 DEF RentSound, RentType
  <2> QED
    BY <2>1, <2>2, <2>5
<1> QED
  BY <1>1, SameWarnings DEF RentSound

LEMMA DayWarned ==
  ASSUME RentAssumption, RentSound(w), Lease!CancelTransfer \/ Lease!NextDay
  PROVE  RentSound(w') /\ w'.owner = w.owner
<1>1. /\ w' \in RentType /\ w'.owner = w.owner /\ w'.rentWarnings = w.rentWarnings
      /\ w'.lastWarning = w.lastWarning /\ w'.letters = w.letters /\ w'.usurped = w.usurped
  <2>1. CASE Lease!CancelTransfer
    BY <2>1 DEF Lease!CancelTransfer, RentSound, RentType
  <2>2. CASE Lease!NextDay
    <3> DEFINE next == w.day + 1
    <3>1. w' = [w EXCEPT !.day = next]
      BY <2>2 DEF Lease!NextDay
    <3>2. next \in Nat
      BY DEF RentSound, RentType
    <3> HIDE DEF next
    <3> QED
      BY <3>1, <3>2 DEF RentSound, RentType
  <2> QED
    BY <2>1, <2>2
<1> QED
  BY <1>1, SameWarnings DEF RentSound

LEMMA CheckWarned ==
  ASSUME RentAssumption, RentSound(w), Lease!Check
  PROVE  /\ RentSound(w')
         /\ w.owner \in w.premium /\ w'.owner # w.owner /\ ~w.usurped => Deserved(w)
<1>1. w' = Lease!PayHouse(w, 0) /\ 0 \in Nat
  BY DEF Lease!Check
<1> QED
  BY <1>1, PayHouseWarned

LEMMA RentKeeps ==
  ASSUME RentAssumption, RentSound(w), [Lease!Next]_w
  PROVE  RentSound(w') /\ [Lease!LosesWarned]_w
<1> DEFINE kept == w'.owner # None \/ w'.owner = w.owner \/ w.owner = None
<1>1. None \notin w.premium
  BY DEF RentAssumption, RentSound, RentType
<1>2. kept => Lease!LosesWarned
  BY <1>1 DEF Lease!LosesWarned
<1>3. ASSUME NEW p \in Players, Lease!HouseBuy(p) \/ Lease!AuctionEnds(p) \/ Lease!Earn(p) \/ Lease!PremiumEnds(p)
      PROVE  RentSound(w') /\ kept
  BY <1>3, HouseBuyWarned, RestWarned
<1>4. ASSUME NEW p \in Players, NEW q \in Players, Lease!HouseSell(p, q)
      PROVE  RentSound(w') /\ kept
  BY <1>4, HouseSellWarned
<1>5. CASE Lease!Check
  <2>1. RentSound(w') /\ (w.owner \in w.premium /\ w'.owner # w.owner /\ ~w.usurped => Deserved(w))
    BY <1>5, CheckWarned
  <2>2. Lease!LosesWarned
    BY <1>1, <2>1 DEF Lease!LosesWarned, Deserved
  <2> QED
    BY <2>1, <2>2
<1>6. CASE Lease!UpdateAuctions
  <2>1. w.winner # None /\ w' = Lease!Sold(w)
    BY <1>6 DEF Lease!UpdateAuctions
  <2> QED
    BY <2>1, SoldWarned DEF Lease!LosesWarned
<1>7. CASE Lease!Transfer \/ Lease!Restart
  BY <1>2, <1>7, TransferWarned, RentRestartKeeps
<1>8. CASE Lease!NextDay \/ Lease!CancelTransfer
  BY <1>2, <1>8, DayWarned
<1>9. CASE UNCHANGED w
  BY <1>9
<1> QED
  BY <1>2, <1>3, <1>4, <1>5, <1>6, <1>7, <1>8, <1>9 DEF Lease!Next

\* A premium player loses his house for debt only after a letter on each of
\* WarningsLimit earlier days (house.cpp: payHouse, setOwnerEx), for any rent
\* period, number of warnings and wealth.
THEOREM EvictedOnlyAfterWarnings == Spec => EvictedAfterWarnings
<1> DEFINE Inv == scene = "rent" => RentSound(w)
<1>1. Init => Inv
  BY WorldAssumption, RentInit DEF Init, WorldAssumption
<1>2. Inv /\ [Next]_<<scene, w>> => Inv' /\ [scene = "rent" => Lease!LosesWarned]_<<scene, w>>
  <2> SUFFICES ASSUME Inv, [Next]_<<scene, w>>
               PROVE  (scene' = "rent" => RentSound(w')) /\ [scene = "rent" => Lease!LosesWarned]_<<scene, w>>
    BY DEF RentSound, Warned
  <2>1. scene' = "rent" \/ scene = "rent" => scene = "rent" /\ scene' = scene /\ [Lease!Next]_w
    BY DEF Next
  <2>2. scene = "rent" /\ [Lease!Next]_w => RentSound(w') /\ [Lease!LosesWarned]_w
    BY WorldAssumption, RentKeeps
  <2> QED
    BY <2>1, <2>2
<1> QED
  BY <1>1, <1>2, PTL DEF Spec, EvictedAfterWarnings

-----------------------------------------------------------------------------
(* Storage (module Storage).                                                 *)

\* Places in memory.
Hands == Players \cup {House, Street}

StorageType ==
  [mem : [Hands -> SUBSET Items], row : [Store!Keepers -> SUBSET Items],
   online : SUBSET Players, owner : Players \cup {None}, ownerRow : Players \cup {None},
   clear : BOOLEAN, phase : Store!Phases, left : SUBSET Players, stopping : BOOLEAN,
   shallow : BOOLEAN, whole : BOOLEAN, touched : SUBSET Items, spoiled : SUBSET Items,
   dropped : SUBSET Items]

\* Whose items are where they should be: in memory, of a player in the game, of
\* the house while the server runs and on the street, and in a row, of others.
Present(s, k) == k \in s.online \/ k = Street \/ (k = House /\ s.phase # "down")
Holds(s, k, i) == IF Present(s, k) THEN i \in s.mem[k] ELSE i \in s.row[k]

\* An item that nothing has spoiled is in one place, or, if a save dropped it,
\* perhaps in none; if nobody has touched it, the row of that place says so.
InOnePlace(s, i) ==
  \E k \in Hands : /\ \A l \in Hands : Holds(s, l, i) => l = k
                   /\ i \notin s.dropped => Holds(s, k, i)
InStep(s, k, i) ==
  /\ i \in s.row[k] => i \in s.mem[k]
  /\ i \in s.mem[k] /\ i \notin s.dropped => i \in s.row[k]
InItsRow(s, i) ==
  /\ i \notin s.mem[Street]
  /\ \A k \in Store!Keepers : Present(s, k) => InStep(s, k, i)
Kept(s) ==
  \A i \in Items \ s.spoiled :
    /\ InOnePlace(s, i)
    /\ i \notin s.touched => InItsRow(s, i)

\* A server that is down has nothing in memory, and what was touched and not
\* saved is spoiled.
Emptied(s) ==
  /\ \A k \in Hands : ~Present(s, k) => s.mem[k] = {}
  /\ s.phase = "down" => s.online = {} /\ s.mem[Street] = {} /\ s.touched \subseteq s.spoiled

\* What a round has saved so far.
AllSaved(s, S) == \A p \in S : \A i \in Items \ s.spoiled : InStep(s, p, i)
Progress(s) ==
  /\ s.left \subseteq s.online
  /\ s.stopping /\ s.phase = "kick" => s.left = s.online
  /\ s.stopping /\ s.phase \in {"check", "players", "tiles"} => s.online = {}
  /\ s.phase \in {"idle", "down"} => s.left = {}
  /\ s.whole => ~s.shallow
  /\ s.phase = "check" => s.stopping
  /\ s.whole /\ s.phase = "players" => AllSaved(s, s.online \ s.left)
  /\ s.phase = "tiles" => s.left = {}
  /\ s.whole /\ s.phase = "tiles" => AllSaved(s, s.online)
  /\ s.clear => s.ownerRow # None

StorageSound(s) == s \in StorageType /\ Kept(s) /\ Emptied(s) /\ Progress(s)

LEMMA OneRow ==
  ASSUME StorageAssumption, StorageSound(w)
  PROVE  Store!UntouchedSurvive
<1>1. ASSUME NEW i \in Items \ (w.touched \cup w.spoiled)
      PROVE  /\ \A k, l \in Store!Keepers : i \in w.row[k] /\ i \in w.row[l] => k = l
             /\ i \notin w.dropped => Store!InOneRow(w.row, i)
  <2>1. InOnePlace(w, i) /\ InItsRow(w, i)
    BY DEF StorageSound, Kept
  <2>2. PICK k \in Hands : /\ \A l \in Hands : Holds(w, l, i) => l = k
                           /\ i \notin w.dropped => Holds(w, k, i)
    BY <2>1 DEF InOnePlace
  <2>3. Street \in Hands /\ ~Holds(w, Street, i)
    BY <2>1 DEF Holds, Present, InItsRow, Hands
  <2>4. ASSUME NEW l \in Store!Keepers
        PROVE  /\ l \in Hands
               /\ i \in w.row[l] => Holds(w, l, i)
               /\ Holds(w, l, i) /\ i \notin w.dropped => i \in w.row[l]
    BY <2>1 DEF InItsRow, InStep, Holds, Hands, Store!Keepers
  <2>5. \A l \in Store!Keepers : i \in w.row[l] => l = k
    BY <2>2, <2>4
  <2>6. ASSUME i \notin w.dropped
        PROVE  Store!InOneRow(w.row, i)
    <3>1. Holds(w, k, i)
      BY <2>2, <2>6
    <3>2. k \in Store!Keepers
      BY <2>3, <3>1 DEF Hands, Store!Keepers
    <3>3. i \in w.row[k]
      BY <2>4, <2>6, <3>1, <3>2
    <3> QED
      BY <2>5, <3>2, <3>3 DEF Store!InOneRow
  <2> QED
    BY <2>5, <2>6
<1> QED
  BY <1>1 DEF Store!UntouchedSurvive

LEMMA StorageInit ==
  ASSUME StorageAssumption, Store!Init
  PROVE  StorageSound(w)
<1>1. PICK r \in [Store!Keepers -> SUBSET Items], o \in Players \cup {None} :
        /\ \A i \in Items : Store!InOneRow(r, i)
        /\ w = [mem |-> [k \in Store!Keepers \cup {Street} |-> {}], row |-> r, online |-> {},
                owner |-> None, ownerRow |-> o, clear |-> FALSE, phase |-> "down",
                left |-> {}, stopping |-> FALSE, shallow |-> FALSE, whole |-> TRUE,
                touched |-> {}, spoiled |-> {}, dropped |-> {}]
  BY DEF Store!Init
<1>2. Store!Keepers \cup {Street} = Hands /\ Store!Keepers = Players \cup {House}
  BY DEF Store!Keepers, Hands
<1>3. w \in StorageType
  BY <1>1, <1>2 DEF StorageType, Store!Phases
<1>4. /\ w.row = r /\ w.phase = "down" /\ w.online = {} /\ w.touched = {} /\ w.spoiled = {}
      /\ \A k \in Hands : w.mem[k] = {}
  BY <1>1, <1>2
<1>5. ASSUME NEW i \in Items
      PROVE  InOnePlace(w, i) /\ InItsRow(w, i)
  <2>5. PICK k \in Store!Keepers : \A l \in Store!Keepers : i \in r[l] <=> l = k
    BY <1>1 DEF Store!InOneRow
  <2>6. \A l \in Hands : Holds(w, l, i) <=> l = k
    <3>1. ASSUME NEW l \in Hands
          PROVE  Holds(w, l, i) <=> l = k
      <4>1. CASE l = Street
        BY <1>2, <1>4, <2>5, <4>1 DEF Holds, Present, StorageAssumption
      <4>2. CASE l # Street
        <5>1. l \in Store!Keepers /\ ~Present(w, l)
          BY <1>2, <1>4, <4>2 DEF Present, Hands
        <5> QED
          BY <1>4, <2>5, <5>1 DEF Holds
      <4> QED
        BY <4>1, <4>2
    <3> QED
      BY <3>1
  <2>7. k \in Hands
    BY <1>2, <2>5
  <2>8. InItsRow(w, i)
    BY <1>2, <1>4 DEF InItsRow, Present, Hands, StorageAssumption
  <2>9. InOnePlace(w, i)
    BY <2>6, <2>7 DEF InOnePlace
  <2> QED
    BY <2>8, <2>9
<1>6. Kept(w)
  BY <1>5 DEF Kept
<1>7. Emptied(w)
  BY <1>4 DEF Emptied, Hands
<1>8. Progress(w)
  BY <1>1 DEF Progress
<1> QED
  BY <1>3, <1>6, <1>7, <1>8 DEF StorageSound

-----------------------------------------------------------------------------
(* Where items are, before and after.                                        *)

LEMMA SamePlace ==
  ASSUME NEW s, NEW t, NEW i, InOnePlace(s, i), i \in s.dropped => i \in t.dropped,
         \A l \in Hands : Holds(t, l, i) <=> Holds(s, l, i)
  PROVE  InOnePlace(t, i)
BY DEF InOnePlace

LEMMA NewPlace ==
  ASSUME NEW s, NEW t, NEW i, InOnePlace(s, i), NEW from \in Hands, NEW to \in Hands,
         Holds(s, from, i), i \notin t.dropped => Holds(t, to, i),
         \A l \in Hands \ {to} : Holds(t, l, i) => l # from /\ Holds(s, l, i)
  PROVE  InOnePlace(t, i)
<1>1. \A l \in Hands : Holds(s, l, i) => l = from
  BY DEF InOnePlace
<1>2. \A l \in Hands : Holds(t, l, i) => l = to
  BY <1>1
<1> QED
  BY <1>2 DEF InOnePlace

\* Who is present and writes his rows anew: what they lack was dropped.
Rewritten(s, t, k) ==
  /\ t.mem = s.mem /\ t.spoiled = s.spoiled /\ t.touched = s.touched
  /\ \A l : Present(t, l) <=> Present(s, l)
  /\ \A l \in Store!Keepers \ {k} : t.row[l] = s.row[l]
  /\ t.row[k] \subseteq s.mem[k]
  /\ \A i \in s.mem[k] : i \in t.row[k] \/ i \in t.dropped
  /\ \A i \in s.dropped : i \in s.mem[k] \/ i \in t.dropped

LEMMA RewrittenRows ==
  ASSUME StorageAssumption, NEW s, NEW t, NEW k \in Store!Keepers, Kept(s), Present(s, k),
         Rewritten(s, t, k)
  PROVE  /\ Kept(t)
         /\ \A i : InStep(t, k, i)
         /\ \A q \in Store!Keepers, i \in Items \ s.spoiled :
               Present(s, q) /\ InStep(s, q, i) => InStep(t, q, i)
<1>1. Store!Keepers \subseteq Hands /\ k \in Hands
  BY DEF Hands, Store!Keepers
<1>2. \A i : InStep(t, k, i)
  BY DEF Rewritten, InStep
<1>3. ASSUME NEW q \in Store!Keepers, NEW i \in Items \ s.spoiled, Present(s, q), InStep(s, q, i)
      PROVE  InStep(t, q, i)
  <2>1. CASE q = k
    BY <1>2, <2>1
  <2>2. CASE q # k /\ i \in s.mem[k]
    <3>1. InOnePlace(s, i)
      BY DEF Kept
    <3>2. Holds(s, k, i) /\ ~Holds(s, q, i)
      BY <1>1, <2>2, <3>1 DEF Holds, InOnePlace
    <3>3. i \notin s.mem[q]
      BY <1>3, <3>2 DEF Holds
    <3> QED
      BY <1>3, <2>2, <3>3 DEF InStep, Rewritten
  <2>3. CASE q # k /\ i \notin s.mem[k]
    BY <1>3, <2>3 DEF InStep, Rewritten
  <2> QED
    BY <2>1, <2>2, <2>3
<1>4. ASSUME NEW i \in Items \ s.spoiled
      PROVE  InOnePlace(t, i) /\ (i \notin s.touched => InItsRow(t, i))
  <2>1. InOnePlace(s, i) /\ (i \notin s.touched => InItsRow(s, i))
    BY DEF Kept
  <2>2. ASSUME NEW l \in Hands
        PROVE  Holds(t, l, i) <=> Holds(s, l, i)
    <3>1. l \in Store!Keepers \/ Present(s, l)
      BY DEF Hands, Store!Keepers, Present
    <3> QED
      BY <3>1 DEF Holds, Rewritten
  <2>3. InOnePlace(t, i)
    <3>1. CASE i \in s.mem[k]
      <4>1. Holds(s, k, i)
        BY <3>1 DEF Holds
      <4>2. Holds(t, k, i)
        BY <1>1, <2>2, <4>1
      <4>3. \A l \in Hands \ {k} : Holds(t, l, i) => l # k /\ Holds(s, l, i)
        BY <2>2
      <4> QED
        BY <1>1, <2>1, <4>1, <4>2, <4>3, NewPlace
    <3>2. CASE i \notin s.mem[k]
      <4>1. i \in s.dropped => i \in t.dropped
        BY <3>2 DEF Rewritten
      <4> QED
        BY <2>1, <2>2, <4>1, SamePlace
    <3> QED
      BY <3>1, <3>2
  <2>4. i \notin s.touched => InItsRow(t, i)
    BY <1>3, <2>1 DEF InItsRow, Rewritten
  <2> QED
    BY <2>3, <2>4
<1>5. Kept(t)
  BY <1>4 DEF Kept, Rewritten
<1> QED
  BY <1>2, <1>3, <1>5

\* A step that moves nothing, and does not end in a server that is down.
LEMMA SameItems ==
  ASSUME NEW s, NEW t, Kept(s), Emptied(s), t.mem = s.mem, t.row = s.row, t.online = s.online,
         t.spoiled = s.spoiled, t.touched = s.touched, t.dropped = s.dropped, t.phase = "down" <=> s.phase = "down"
  PROVE  Kept(t) /\ Emptied(t) /\ \A S : AllSaved(s, S) => AllSaved(t, S)
<1>1. \A k : Present(t, k) <=> Present(s, k)
  BY DEF Present
<1>2. \A k, i : Holds(t, k, i) <=> Holds(s, k, i)
  BY <1>1 DEF Holds
<1>3. Kept(t)
  BY <1>1, <1>2 DEF Kept, InOnePlace, InItsRow, InStep
<1>4. Emptied(t)
  BY <1>1 DEF Emptied
<1>5. \A S : AllSaved(s, S) => AllSaved(t, S)
  BY DEF AllSaved, InStep
<1> QED
  BY <1>3, <1>4, <1>5

-----------------------------------------------------------------------------
(* Playing.                                                                  *)

LEMMA PlayerLogsIn ==
  ASSUME StorageAssumption, StorageSound(w), NEW p \in Players, Store!Login(p)
  PROVE  StorageSound(w')
<1> DEFINE mem == [w.mem EXCEPT ![p] = w.row[p]]
<1>1. w.phase = "idle" /\ p \notin w.online /\ w' = [w EXCEPT !.mem = mem, !.online = @ \cup {p}]
  BY DEF Store!Login
<1>2. /\ mem \in [Hands -> SUBSET Items] /\ mem[p] = w.row[p]
      /\ \A k \in Hands \ {p} : mem[k] = w.mem[k]
  BY DEF StorageSound, StorageType, Hands, Store!Keepers
<1> HIDE DEF mem
<1>3. w' \in StorageType
  BY <1>1, <1>2 DEF StorageSound, StorageType
<1>4. /\ w'.mem = mem /\ w'.row = w.row /\ w'.online = w.online \cup {p} /\ w'.phase = "idle"
      /\ w'.touched = w.touched /\ w'.spoiled = w.spoiled /\ w'.left = w.left
      /\ w'.whole = w.whole /\ w'.shallow = w.shallow /\ w'.clear = w.clear
      /\ w'.ownerRow = w.ownerRow /\ w'.dropped = w.dropped
  BY <1>1 DEF StorageSound, StorageType
<1>5. /\ ~Present(w, p) /\ Present(w', p)
      /\ \A k \in Hands \ {p} : Present(w', k) <=> Present(w, k)
  BY <1>1, <1>4 DEF Present, StorageAssumption
<1>6. Kept(w')
  <2> SUFFICES ASSUME NEW i \in Items \ w.spoiled
               PROVE  InOnePlace(w', i) /\ (i \notin w.touched => InItsRow(w', i))
    BY <1>4 DEF Kept
  <2>1. InOnePlace(w, i) /\ (i \notin w.touched => InItsRow(w, i))
    BY DEF StorageSound, Kept
  <2>2. ASSUME NEW l \in Hands
        PROVE  Holds(w', l, i) <=> Holds(w, l, i)
    <3>1. CASE l = p
      BY <1>2, <1>4, <1>5, <3>1 DEF Holds
    <3>2. CASE l # p
      BY <1>2, <1>4, <1>5, <3>2 DEF Holds
    <3> QED
      BY <3>1, <3>2
  <2>3. i \notin w.touched => InItsRow(w', i)
    <3>1. Street \in Hands \ {p} /\ Store!Keepers \subseteq Hands
      BY DEF Hands, Store!Keepers, StorageAssumption
    <3> QED
      BY <1>2, <1>4, <1>5, <2>1, <3>1 DEF InItsRow, InStep
  <2> QED
    BY <1>4, <2>1, <2>2, <2>3, SamePlace
<1>7. Emptied(w')
  BY <1>2, <1>4, <1>5 DEF StorageSound, Emptied
<1>8. Progress(w')
  BY <1>1, <1>4 DEF StorageSound, Progress
<1> QED
  BY <1>3, <1>6, <1>7, <1>8 DEF StorageSound

\* Who leaves is saved, or what he has and what his row says is spoiled.
LEMMA PlayerLeaves ==
  ASSUME StorageAssumption, StorageSound(w), NEW p \in Players, NEW ok \in BOOLEAN,
         NEW short \in SUBSET Items,
         p \in w.online, w.phase \in {"idle", "kick"}, w' = Store!LeaveGame(w, p, ok, short)
  PROVE  StorageSound(w')
<1> DEFINE row == IF ok THEN [w.row EXCEPT ![p] = w.mem[p] \ short] ELSE w.row
           dropped == IF ok THEN (w.dropped \ w.mem[p]) \cup (w.mem[p] \cap short) ELSE w.dropped
           lost == IF ok THEN {} ELSE w.touched \cap (w.mem[p] \cup w.row[p])
           mem == [w.mem EXCEPT ![p] = {}]
           s == [w EXCEPT !.row = row, !.dropped = dropped]
           t == [s EXCEPT !.mem = mem]
           spoiled == w.spoiled \cup lost
           online == w.online \ {p}
           others == w.left \ {p}
<1>1. w' = [s EXCEPT !.spoiled = spoiled, !.mem = mem, !.online = online, !.left = others]
  <2>1. Store!Saved(w, p, ok, short) = s
    BY DEF Store!Saved, Store!Written, StorageSound, StorageType
  <2> QED
    BY <2>1 DEF Store!LeaveGame, Store!Spoil, StorageSound, StorageType
<1>2. p \in Hands /\ p \in Store!Keepers /\ w.mem[p] \subseteq Items /\ w.row[p] \subseteq Items
  BY DEF StorageSound, StorageType, Hands, Store!Keepers
<1>3. /\ mem \in [Hands -> SUBSET Items] /\ mem[p] = {}
      /\ \A k \in Hands \ {p} : mem[k] = w.mem[k]
  BY DEF StorageSound, StorageType, Hands
<1>4. /\ row \in [Store!Keepers -> SUBSET Items] /\ dropped \in SUBSET Items
      /\ \A k \in Store!Keepers \ {p} : row[k] = w.row[k]
      /\ ok => /\ row[p] = w.mem[p] \ short
               /\ dropped = (w.dropped \ w.mem[p]) \cup (w.mem[p] \cap short)
      /\ ~ok => row[p] = w.row[p] /\ dropped = w.dropped
  BY <1>2 DEF StorageSound, StorageType
<1>5. spoiled \in SUBSET Items /\ online \in SUBSET Players /\ others \in SUBSET Players
  BY <1>2 DEF StorageSound, StorageType
<1>6. ~ok => lost = w.touched \cap (w.mem[p] \cup w.row[p])
  OBVIOUS
<1> HIDE DEF row, mem, lost, dropped
<1>7. /\ s \in StorageType /\ s.row = row /\ s.dropped = dropped /\ s.mem = w.mem
      /\ s.online = w.online /\ s.phase = w.phase
      /\ s.touched = w.touched /\ s.spoiled = w.spoiled /\ s.left = w.left
      /\ s.whole = w.whole /\ s.shallow = w.shallow /\ s.clear = w.clear
      /\ s.ownerRow = w.ownerRow /\ s.stopping = w.stopping
  BY <1>4 DEF StorageSound, StorageType
<1>8. t \in StorageType /\ w' = [t EXCEPT !.spoiled = spoiled, !.online = online, !.left = others]
  BY <1>1, <1>3, <1>4 DEF StorageSound, StorageType
<1>9. w' \in StorageType
  <2> HIDE DEF t, spoiled, online, others
  <2> QED
    BY <1>5, <1>8 DEF StorageType
<1>10. /\ w'.mem = mem /\ w'.row = row /\ w'.online = w.online \ {p} /\ w'.phase = w.phase
       /\ w'.touched = w.touched /\ w'.spoiled = w.spoiled \cup lost /\ w'.left = w.left \ {p}
       /\ w'.whole = w.whole /\ w'.shallow = w.shallow /\ w'.clear = w.clear
       /\ w'.ownerRow = w.ownerRow /\ w'.stopping = w.stopping /\ w'.dropped = dropped
  BY <1>1 DEF StorageSound, StorageType
<1> HIDE DEF s, t, spoiled, online, others
<1>11. /\ Present(w, p) /\ Present(s, p) /\ ~Present(w', p)
       /\ \A k : Present(s, k) <=> Present(w, k)
       /\ \A k \in Hands \ {p} : Present(w', k) <=> Present(w, k)
  BY <1>7, <1>10 DEF Present, StorageAssumption
\* Before he goes: what he has is what his row says, but for what is lost.
<1>12. /\ Kept(s)
       /\ \A i \in Items \ (w.spoiled \cup lost) : InStep(s, p, i)
  <2>1. CASE ok
    <3>1. Rewritten(w, s, p)
      BY <1>4, <1>7, <1>11, <2>1 DEF Rewritten
    <3> QED
      BY <1>2, <1>11, <3>1, RewrittenRows DEF StorageSound
  <2>2. CASE ~ok
    <3>1. /\ s.mem = w.mem /\ s.row = w.row /\ s.dropped = w.dropped
          /\ s.online = w.online /\ s.phase = w.phase
          /\ s.touched = w.touched /\ s.spoiled = w.spoiled
      BY <1>7, <2>2 DEF row, dropped
    <3>2. Kept(s)
      BY <3>1, SameItems DEF StorageSound
    <3>3. ASSUME NEW i \in Items \ (w.spoiled \cup lost)
          PROVE  InStep(s, p, i)
      <4>1. CASE i \in w.touched
        BY <1>6, <2>2, <3>1, <4>1 DEF InStep
      <4>2. CASE i \notin w.touched
        BY <1>2, <1>11, <3>1, <3>2, <4>2 DEF Kept, InItsRow
      <4> QED
        BY <4>1, <4>2
    <3> QED
      BY <3>2, <3>3
  <2> QED
    BY <2>1, <2>2
<1>13. Kept(w')
  <2> SUFFICES ASSUME NEW i \in Items \ (w.spoiled \cup lost)
               PROVE  InOnePlace(w', i) /\ (i \notin w.touched => InItsRow(w', i))
    BY <1>10 DEF Kept
  <2>1. /\ InOnePlace(s, i) /\ (i \notin w.touched => InItsRow(s, i)) /\ InStep(s, p, i)
    BY <1>7, <1>12 DEF Kept
  <2>2. ASSUME NEW l \in Hands \ {p}
        PROVE  Holds(w', l, i) <=> Holds(s, l, i)
    <3>1. l \in Store!Keepers \/ Present(w, l)
      BY DEF Hands, Store!Keepers, Present
    <3> QED
      BY <1>3, <1>7, <1>10, <1>11, <3>1 DEF Holds
  <2>3. /\ Holds(w', p, i) => Holds(s, p, i)
        /\ i \notin s.dropped => (Holds(s, p, i) => Holds(w', p, i))
    BY <1>7, <1>10, <1>11, <2>1 DEF Holds, InStep
  <2>4. InOnePlace(w', i)
    <3>1. w'.dropped = s.dropped
      BY <1>7, <1>10
    <3> QED
      BY <2>1, <2>2, <2>3, <3>1 DEF InOnePlace
  <2>5. i \notin w.touched => InItsRow(w', i)
    <3>1. Street \in Hands \ {p} /\ Store!Keepers \subseteq Hands
      BY DEF Hands, Store!Keepers, StorageAssumption
    <3> QED
      BY <1>3, <1>7, <1>10, <1>11, <2>1, <3>1 DEF InItsRow, InStep
  <2> QED
    BY <2>4, <2>5
<1>14. Emptied(w')
  BY <1>3, <1>10, <1>11 DEF StorageSound, Emptied
<1>15. Progress(w')
  BY <1>10 DEF StorageSound, Progress
<1> QED
  BY <1>9, <1>13, <1>14, <1>15 DEF StorageSound

LEMMA ItemMoves ==
  ASSUME StorageAssumption, StorageSound(w), NEW i \in Items, NEW from \in Store!Keepers \cup {Street},
         NEW to \in Store!Keepers \cup {Street}, Store!Move(i, from, to)
  PROVE  StorageSound(w')
<1> DEFINE mem == [w.mem EXCEPT ![from] = @ \ {i}, ![to] = @ \cup {i}]
<1>1. /\ w.phase = "idle" /\ from # to /\ {from, to} \subseteq w.online \cup {House, Street}
      /\ i \in w.mem[from]
      /\ w' = [w EXCEPT !.mem = mem, !.touched = @ \cup {i}]
  BY DEF Store!Move, Store!Moved
<1>2. from \in Hands /\ to \in Hands /\ Present(w, from) /\ Present(w, to)
  BY <1>1 DEF Hands, Store!Keepers, Present
<1>3. /\ mem \in [Hands -> SUBSET Items]
      /\ mem[from] = w.mem[from] \ {i} /\ mem[to] = w.mem[to] \cup {i}
      /\ \A k \in Hands \ {from, to} : mem[k] = w.mem[k]
  BY <1>1, <1>2 DEF StorageSound, StorageType
<1> HIDE DEF mem
<1>4. w' \in StorageType
  BY <1>1, <1>3 DEF StorageSound, StorageType
<1>5. /\ w'.mem = mem /\ w'.row = w.row /\ w'.online = w.online /\ w'.phase = w.phase
      /\ w'.touched = w.touched \cup {i} /\ w'.spoiled = w.spoiled /\ w'.left = w.left
      /\ w'.whole = w.whole /\ w'.shallow = w.shallow /\ w'.clear = w.clear
      /\ w'.ownerRow = w.ownerRow /\ w'.stopping = w.stopping /\ w'.dropped = w.dropped
  BY <1>1 DEF StorageSound, StorageType
<1>6. \A k : Present(w', k) <=> Present(w, k)
  BY <1>5 DEF Present
<1>7. Kept(w')
  <2> SUFFICES ASSUME NEW j \in Items \ w.spoiled
               PROVE  InOnePlace(w', j) /\ (j \notin w.touched \cup {i} => InItsRow(w', j))
    BY <1>5 DEF Kept
  <2>1. InOnePlace(w, j) /\ (j \notin w.touched => InItsRow(w, j))
    BY DEF StorageSound, Kept
  <2>2. CASE j = i
    <3>1. Holds(w, from, i) /\ ~Holds(w', from, i) /\ Holds(w', to, i)
      BY <1>1, <1>2, <1>3, <1>5, <1>6 DEF Holds
    <3>2. \A l \in Hands \ {to} : Holds(w', l, i) => l # from /\ Holds(w, l, i)
      BY <1>3, <1>5, <1>6, <3>1 DEF Holds
    <3> QED
      BY <1>2, <2>1, <2>2, <3>1, <3>2, NewPlace, <1>5
  <2>3. CASE j # i
    <3>1. \A l \in Hands : j \in mem[l] <=> j \in w.mem[l]
      BY <1>3, <2>3
    <3>2. \A l \in Hands : Holds(w', l, j) <=> Holds(w, l, j)
      BY <1>5, <1>6, <3>1 DEF Holds
    <3>3. Street \in Hands /\ Store!Keepers \subseteq Hands
      BY DEF Hands, Store!Keepers
    <3>4. j \notin w.touched => InItsRow(w', j)
      BY <1>5, <1>6, <2>1, <3>1, <3>3 DEF InItsRow, InStep
    <3> QED
      BY <1>5, <2>1, <3>2, <3>4, SamePlace
  <2> QED
    BY <2>2, <2>3
<1>8. Emptied(w')
  BY <1>1, <1>2, <1>3, <1>5, <1>6 DEF StorageSound, Emptied
<1>9. Progress(w')
  BY <1>1, <1>5 DEF StorageSound, Progress
<1> QED
  BY <1>4, <1>7, <1>8, <1>9 DEF StorageSound

-----------------------------------------------------------------------------
(* The house.                                                                *)

LEMMA HouseBought ==
  ASSUME StorageAssumption, StorageSound(w), NEW p \in Players, NEW ok \in BOOLEAN, Store!BuyHouse(p, ok)
  PROVE  StorageSound(w')
<1> DEFINE row == IF ok THEN p ELSE w.ownerRow
           clear == w.clear /\ ~ok
<1>1. w.phase = "idle" /\ w' = [w EXCEPT !.owner = p, !.ownerRow = row, !.clear = clear]
  BY DEF Store!BuyHouse, Store!SetOwner
<1>2. row \in Players \cup {None} /\ clear \in BOOLEAN /\ (clear => row # None)
  BY DEF StorageSound, StorageType, Progress
<1> HIDE DEF row, clear
<1>3. w' \in StorageType
  BY <1>1, <1>2 DEF StorageSound, StorageType
<1>4. /\ w'.mem = w.mem /\ w'.row = w.row /\ w'.online = w.online /\ w'.phase = w.phase
      /\ w'.touched = w.touched /\ w'.spoiled = w.spoiled /\ w'.left = w.left
      /\ w'.whole = w.whole /\ w'.shallow = w.shallow /\ w'.clear = clear
      /\ w'.ownerRow = row /\ w'.stopping = w.stopping /\ w'.dropped = w.dropped
  BY <1>1 DEF StorageSound, StorageType
<1>5. Kept(w') /\ Emptied(w')
  BY <1>4, SameItems DEF StorageSound
<1>6. Progress(w')
  BY <1>1, <1>2, <1>4 DEF StorageSound, Progress
<1> QED
  BY <1>3, <1>5, <1>6 DEF StorageSound

\* What the row of a player says after a save of what is put into his depot.
RowGets(s, t, p, is, i) ==
  /\ i \in is => i \in t.row[p] \/ i \in t.dropped
  /\ i \notin is => /\ i \in t.row[p] => i \in s.row[p]
                    /\ i \in s.row[p] => i \in t.row[p] \/ i \in t.dropped
                    /\ i \in s.dropped => i \in s.row[p] \/ i \in t.dropped

\* What is put into a depot is in memory or in the row of the player, or dropped
\* or spoiled.
DepotGets(s, t, p, is) ==
  /\ t \in StorageType
  /\ t.online = s.online /\ t.owner = s.owner /\ t.ownerRow = s.ownerRow
  /\ t.clear = s.clear /\ t.phase = s.phase /\ t.left = s.left /\ t.stopping = s.stopping
  /\ t.shallow = s.shallow /\ t.whole = s.whole /\ t.touched = s.touched \cup is
  /\ s.spoiled \subseteq t.spoiled
  /\ \A k \in Hands \ {p} : t.mem[k] = s.mem[k]
  /\ \A k \in Store!Keepers \ {p} : t.row[k] = s.row[k]
  /\ p \in s.online => /\ t.mem[p] = s.mem[p] \cup is /\ t.row[p] = s.row[p]
                       /\ t.spoiled = s.spoiled /\ t.dropped = s.dropped
  /\ p \notin s.online => t.mem[p] = s.mem[p] /\ \A i \in Items \ t.spoiled : RowGets(s, t, p, is, i)

LEMMA DepotFacts ==
  ASSUME StorageAssumption, NEW s \in StorageType, NEW p \in Players, NEW is \in SUBSET Items,
         NEW kept \in SUBSET is, NEW short \in SUBSET Items
  PROVE  DepotGets(s, Store!ToDepot(s, p, is, kept, short), p, is)
<1> DEFINE t == Store!ToDepot(s, p, is, kept, short)
           touched == s.touched \cup is
           mem == [s.mem EXCEPT ![p] = @ \cup is]
           all == s.row[p] \cup kept
           row == [s.row EXCEPT ![p] = all \ short]
           dropped == (s.dropped \ all) \cup (all \cap short)
           spoiled == s.spoiled \cup (is \ kept)
<1>1. /\ touched \subseteq Items /\ spoiled \subseteq Items /\ dropped \subseteq Items
      /\ p \in Hands /\ p \in Store!Keepers
  BY DEF StorageType, Hands, Store!Keepers
<1>2. /\ mem \in [Hands -> SUBSET Items] /\ mem[p] = s.mem[p] \cup is
      /\ \A k \in Hands \ {p} : mem[k] = s.mem[k]
  BY <1>1 DEF StorageType
<1>3. /\ row \in [Store!Keepers -> SUBSET Items] /\ row[p] = all \ short
      /\ \A k \in Store!Keepers \ {p} : row[k] = s.row[k]
  BY <1>1 DEF StorageType
<1>4. CASE p \in s.online
  <2>1. t = [s EXCEPT !.touched = touched, !.mem = mem]
    BY <1>4 DEF Store!ToDepot, StorageType
  <2> HIDE DEF t, touched, mem, row, dropped, spoiled, all
  <2>2. t \in StorageType
    BY <1>1, <1>2, <2>1 DEF StorageType
  <2>3. /\ t.touched = touched /\ t.mem = mem /\ t.row = s.row /\ t.spoiled = s.spoiled
        /\ t.online = s.online /\ t.owner = s.owner /\ t.ownerRow = s.ownerRow
        /\ t.clear = s.clear /\ t.phase = s.phase /\ t.left = s.left /\ t.stopping = s.stopping
        /\ t.shallow = s.shallow /\ t.whole = s.whole /\ t.dropped = s.dropped
    BY <2>1 DEF StorageType
  <2> QED
    BY <1>2, <1>4, <2>2, <2>3 DEF DepotGets, touched, t
<1>5. CASE p \notin s.online /\ kept # {}
  <2>1. t = [s EXCEPT !.touched = touched, !.row = row, !.dropped = dropped, !.spoiled = spoiled]
    BY <1>5 DEF Store!ToDepot, Store!Written, Store!Spoil, StorageType
  <2>2. dropped = (s.dropped \ all) \cup (all \cap short) /\ spoiled = s.spoiled \cup (is \ kept)
    OBVIOUS
  <2>3. all = s.row[p] \cup kept
    OBVIOUS
  <2> HIDE DEF t, touched, mem, row, dropped, spoiled, all
  <2>4. t \in StorageType
    BY <1>1, <1>3, <2>1 DEF StorageType
  <2>5. /\ t.touched = touched /\ t.mem = s.mem /\ t.row = row /\ t.spoiled = spoiled
        /\ t.online = s.online /\ t.owner = s.owner /\ t.ownerRow = s.ownerRow
        /\ t.clear = s.clear /\ t.phase = s.phase /\ t.left = s.left /\ t.stopping = s.stopping
        /\ t.shallow = s.shallow /\ t.whole = s.whole /\ t.dropped = dropped
    BY <2>1 DEF StorageType
  <2>6. \A i \in Items \ t.spoiled : RowGets(s, t, p, is, i)
    BY <1>3, <2>2, <2>3, <2>5 DEF RowGets
  <2> QED
    BY <1>3, <1>5, <2>2, <2>4, <2>5, <2>6 DEF DepotGets, touched, t
<1>6. CASE p \notin s.online /\ kept = {}
  <2> DEFINE spoilt == s.spoiled \cup is
  <2>1. t = [s EXCEPT !.touched = touched, !.spoiled = spoilt]
    BY <1>6 DEF Store!ToDepot, Store!Spoil, StorageType
  <2>2. spoilt \subseteq Items /\ spoilt = s.spoiled \cup is
    BY DEF StorageType
  <2> HIDE DEF t, touched, mem, row, dropped, spoiled, all, spoilt
  <2>3. t \in StorageType
    BY <1>1, <2>1, <2>2 DEF StorageType
  <2>4. /\ t.touched = touched /\ t.mem = s.mem /\ t.row = s.row /\ t.spoiled = spoilt
        /\ t.online = s.online /\ t.owner = s.owner /\ t.ownerRow = s.ownerRow
        /\ t.clear = s.clear /\ t.phase = s.phase /\ t.left = s.left /\ t.stopping = s.stopping
        /\ t.shallow = s.shallow /\ t.whole = s.whole /\ t.dropped = s.dropped
    BY <2>1 DEF StorageType
  <2>5. \A i \in Items \ t.spoiled : RowGets(s, t, p, is, i)
    BY <2>2, <2>4 DEF RowGets
  <2> QED
    BY <1>6, <2>2, <2>3, <2>4, <2>5 DEF DepotGets, touched, t
<1> QED
  BY <1>4, <1>5, <1>6

\* An eviction in the two phases it happens in: the items of the house are the
\* old owner's, or spoiled.
LEMMA EvictedItems ==
  ASSUME StorageAssumption, StorageSound(w), NEW ok \in BOOLEAN, NEW ok2 \in BOOLEAN,
         NEW short \in SUBSET Items,
         w.owner # None, w.phase \in {"idle", "check"}
  PROVE  LET t == Store!Evicted(w, ok, ok2, short) IN
         /\ t \in StorageType /\ Kept(t) /\ Emptied(t)
         /\ t.online = w.online /\ t.phase = w.phase /\ t.left = w.left /\ t.stopping = w.stopping
         /\ t.shallow = w.shallow /\ t.whole = w.whole /\ (t.clear => t.ownerRow # None)
<1> DEFINE p == w.owner
           is == w.mem[House]
           kept == IF ok THEN is ELSE {}
           d == Store!ToDepot(w, p, is, kept, short)
           mem == [d.mem EXCEPT ![House] = {}]
           row == IF ok2 THEN None ELSE d.ownerRow
           clear == d.clear /\ ~ok2
           t == Store!Evicted(w, ok, ok2, short)
<1>1. p \in Players /\ House \in Hands /\ is \in SUBSET Items /\ w \in StorageType
  BY DEF StorageSound, StorageType, Hands
<1>2. /\ d \in StorageType
      /\ d.online = w.online /\ d.owner = w.owner /\ d.ownerRow = w.ownerRow
      /\ d.clear = w.clear /\ d.phase = w.phase /\ d.left = w.left /\ d.stopping = w.stopping
      /\ d.shallow = w.shallow /\ d.whole = w.whole /\ d.touched = w.touched \cup is
      /\ \A k \in Hands \ {p} : d.mem[k] = w.mem[k]
      /\ \A k \in Store!Keepers \ {p} : d.row[k] = w.row[k]
      /\ w.spoiled \subseteq d.spoiled
      /\ p \in w.online => /\ d.mem[p] = w.mem[p] \cup is /\ d.row[p] = w.row[p]
                           /\ d.spoiled = w.spoiled /\ d.dropped = w.dropped
      /\ p \notin w.online =>
           d.mem[p] = w.mem[p] /\ \A i \in Items \ d.spoiled : RowGets(w, d, p, is, i)
  <2>1. kept \subseteq is
    OBVIOUS
  <2> HIDE DEF p, is, kept
  <2> QED
    <3>1. DepotGets(w, d, p, is)
      BY <1>1, <2>1, DepotFacts
    <3> HIDE DEF d
    <3> QED
      BY <3>1 DEF DepotGets
<1>3. t = [d EXCEPT !.mem = mem, !.owner = None, !.ownerRow = row, !.clear = clear]
  BY DEF Store!Evicted, Store!SetOwner
<1>4. /\ mem \in [Hands -> SUBSET Items] /\ mem[House] = {}
      /\ \A k \in Hands \ {House} : mem[k] = d.mem[k]
  BY <1>1, <1>2 DEF StorageType
<1>5. row \in Players \cup {None} /\ clear \in BOOLEAN /\ (clear => row # None)
  BY <1>2 DEF StorageType, StorageSound, Progress
<1> HIDE DEF d, mem, row, clear, t, kept
<1>6. t \in StorageType
  BY <1>2, <1>3, <1>4, <1>5 DEF StorageType
<1>7. /\ t.online = w.online /\ t.phase = w.phase /\ t.left = w.left /\ t.stopping = w.stopping
      /\ t.shallow = w.shallow /\ t.whole = w.whole /\ t.clear = clear /\ t.ownerRow = row
      /\ t.mem = mem /\ t.row = d.row /\ t.touched = w.touched \cup is /\ t.spoiled = d.spoiled
      /\ t.dropped = d.dropped
  BY <1>2, <1>3 DEF StorageType
<1>8. \A k : Present(t, k) <=> Present(w, k)
  BY <1>7 DEF Present
<1>9. /\ p # House /\ p # Street /\ House # Street /\ Street \in Hands /\ p \in Hands
      /\ Store!Keepers \subseteq Hands /\ House \in Store!Keepers /\ p \in Store!Keepers
      /\ Present(w, House) /\ Present(w, Street) /\ (Present(w, p) <=> p \in w.online)
  BY <1>1 DEF StorageAssumption, Hands, Store!Keepers, Present
<1> HIDE DEF p, is
<1>10. Kept(t)
  <2> SUFFICES ASSUME NEW i \in Items \ d.spoiled
               PROVE  InOnePlace(t, i) /\ (i \notin w.touched \cup is => InItsRow(t, i))
    BY <1>7 DEF Kept
  <2>1. i \notin w.spoiled
    BY <1>2
  <2>2. InOnePlace(w, i) /\ (i \notin w.touched => InItsRow(w, i))
    BY <2>1 DEF StorageSound, Kept
  <2>3. CASE i \in is
    <3>1. Holds(w, House, i) /\ ~Holds(t, House, i)
      BY <1>4, <1>7, <1>8, <1>9, <2>3 DEF Holds, is
    <3>2. i \notin t.dropped => Holds(t, p, i)
      BY <1>2, <1>4, <1>7, <1>8, <1>9, <2>3 DEF Holds, RowGets
    <3>3. ASSUME NEW l \in Hands \ {House, p}
          PROVE  Holds(t, l, i) <=> Holds(w, l, i)
      <4>1. l \in Store!Keepers \/ Present(w, l)
        BY DEF Hands, Store!Keepers, Present
      <4> QED
        BY <1>2, <1>4, <1>7, <1>8, <4>1 DEF Holds
    <3>4. \A l \in Hands \ {p} : Holds(t, l, i) => l # House /\ Holds(w, l, i)
      BY <3>1, <3>3
    <3>5. InOnePlace(t, i)
      BY <1>1, <1>9, <2>2, <3>1, <3>2, <3>4, NewPlace
    <3> QED
      BY <2>3, <3>5
  <2>4. CASE i \notin is
    <3>1. \A l \in Hands : i \in mem[l] <=> i \in w.mem[l]
      <4>1. \A l \in Hands \ {House} : i \in mem[l] <=> i \in w.mem[l]
        BY <1>2, <1>4, <2>4
      <4>2. i \notin mem[House] /\ i \notin w.mem[House]
        BY <1>4, <2>4 DEF is
      <4> QED
        BY <4>1, <4>2
    <3>2. \A l \in Store!Keepers \ {p} : d.row[l] = w.row[l]
      BY <1>2
    <3>3. p \in w.online => d.row[p] = w.row[p] /\ d.dropped = w.dropped
      BY <1>2
    <3>4. p \notin w.online => /\ i \in d.row[p] => i \in w.row[p]
                               /\ i \in w.row[p] => i \in d.row[p] \/ i \in d.dropped
                               /\ i \in w.dropped => i \in w.row[p] \/ i \in d.dropped
      BY <1>2, <2>4 DEF RowGets
    <3>5. ASSUME NEW l \in Hands
          PROVE  Holds(t, l, i) => Holds(w, l, i)
      <4>1. l \in Store!Keepers \/ Present(w, l)
        BY DEF Hands, Store!Keepers, Present
      <4> QED
        BY <1>7, <1>8, <1>9, <3>1, <3>2, <3>3, <3>4, <4>1 DEF Holds
    <3>6. InOnePlace(t, i)
      <4>1. CASE p \notin w.online /\ i \in w.row[p]
        <5>1. Holds(w, p, i) /\ (i \notin t.dropped => Holds(t, p, i))
          BY <1>7, <1>8, <1>9, <3>4, <4>1 DEF Holds
        <5>2. \A l \in Hands \ {p} : Holds(t, l, i) => l # p /\ Holds(w, l, i)
          BY <3>5
        <5> QED
          BY <1>9, <2>2, <5>1, <5>2, NewPlace
      <4>2. CASE p \in w.online \/ i \notin w.row[p]
        <5>1. i \in w.dropped => i \in t.dropped
          BY <1>7, <3>3, <3>4, <4>2
        <5>2. \A l \in Store!Keepers : i \in d.row[l] <=> i \in w.row[l]
          BY <3>2, <3>3, <3>4, <4>2
        <5>3. ASSUME NEW l \in Hands
              PROVE  Holds(t, l, i) <=> Holds(w, l, i)
          <6>1. l \in Store!Keepers \/ Present(w, l)
            BY DEF Hands, Store!Keepers, Present
          <6> QED
            BY <1>7, <1>8, <3>1, <5>2, <6>1 DEF Holds
        <5> QED
          BY <2>2, <5>1, <5>3, SamePlace
      <4> QED
        BY <4>1, <4>2
    <3>7. ASSUME i \notin w.touched, NEW k \in Store!Keepers, Present(t, k)
          PROVE  InStep(t, k, i)
      <4>1. InStep(w, k, i) /\ Present(w, k) /\ k \in Hands
        BY <1>8, <1>9, <2>2, <3>7 DEF InItsRow
      <4>2. k = p => p \in w.online
        BY <1>9, <4>1
      <4>3. i \in d.row[k] <=> i \in w.row[k]
        BY <3>2, <3>3, <4>2
      <4>4. i \in mem[k] <=> i \in w.mem[k]
        BY <3>1, <4>1
      <4>5. CASE i \in w.mem[k]
        <5>1. Holds(w, k, i)
          BY <4>1, <4>5 DEF Holds
        <5>2. i \in w.dropped => i \in d.dropped
          <6>1. CASE p \in w.online
            BY <3>3, <6>1
          <6>2. CASE p \notin w.online
            <7>1. k # p /\ ~Holds(w, p, i)
              BY <1>9, <2>2, <4>1, <4>2, <5>1, <6>2 DEF InOnePlace
            <7>2. i \notin w.row[p]
              BY <1>9, <6>2, <7>1 DEF Holds
            <7> QED
              BY <3>4, <6>2, <7>2
          <6> QED
            BY <6>1, <6>2
        <5> QED
          BY <1>7, <4>1, <4>3, <4>4, <5>2 DEF InStep
      <4>6. CASE i \notin w.mem[k]
        BY <1>7, <4>1, <4>3, <4>4, <4>6 DEF InStep
      <4> QED
        BY <4>5, <4>6
    <3>8. i \notin w.touched => InItsRow(t, i)
      <4>1. i \notin w.touched => i \notin t.mem[Street]
        BY <1>7, <1>9, <2>2, <3>1 DEF InItsRow
      <4> QED
        BY <3>7, <4>1 DEF InItsRow
    <3> QED
      BY <3>6, <3>8
  <2> QED
    BY <2>3, <2>4
<1>11. Emptied(t)
  <2>1. ASSUME NEW k \in Hands, ~Present(t, k)
        PROVE  t.mem[k] = {}
    <3>1. w.mem[k] = {} /\ k # House /\ (k = p => p \notin w.online)
      BY <1>8, <1>9, <2>1 DEF StorageSound, Emptied
    <3> QED
      BY <1>2, <1>4, <1>7, <3>1
  <2> QED
    BY <1>7, <2>1 DEF Emptied
<1> QED
  BY <1>5, <1>6, <1>7, <1>10, <1>11 DEF t

LEMMA HousesChecked ==
  ASSUME StorageAssumption, StorageSound(w), NEW ok \in BOOLEAN, NEW ok2 \in BOOLEAN,
         NEW short \in SUBSET Items, Store!CheckHouses(ok, ok2, short)
  PROVE  StorageSound(w')
<1> DEFINE t == Store!Evicted(w, ok, ok2, short)
<1>1. w' = t /\ w.owner # None /\ w.phase = "idle"
  BY DEF Store!CheckHouses, Store!Check
<1>2. /\ t \in StorageType /\ Kept(t) /\ Emptied(t)
      /\ t.online = w.online /\ t.phase = w.phase /\ t.left = w.left /\ t.stopping = w.stopping
      /\ t.shallow = w.shallow /\ t.whole = w.whole /\ (t.clear => t.ownerRow # None)
  BY <1>1, EvictedItems
<1> HIDE DEF t
<1>3. Progress(t)
  BY <1>1, <1>2 DEF StorageSound, Progress
<1> QED
  BY <1>1, <1>2, <1>3 DEF StorageSound

LEMMA HousesCheckedAtShutdown ==
  ASSUME StorageAssumption, StorageSound(w), NEW evict \in BOOLEAN, NEW ok \in BOOLEAN,
         NEW ok2 \in BOOLEAN, NEW short \in SUBSET Items,
         Store!CheckAtShutdown(evict, ok, ok2, short)
  PROVE  StorageSound(w')
<1> DEFINE t == Store!Check(w, evict, ok, ok2, short)
<1>1. w.phase = "check" /\ w' = [t EXCEPT !.phase = "players"]
  BY DEF Store!CheckAtShutdown, Store!AfterCheck
<1>2. /\ t \in StorageType /\ Kept(t) /\ Emptied(t)
      /\ t.online = w.online /\ t.phase = w.phase /\ t.left = w.left /\ t.stopping = w.stopping
      /\ t.shallow = w.shallow /\ t.whole = w.whole /\ (t.clear => t.ownerRow # None)
  <2>1. CASE evict /\ w.owner # None
    <3>1. t = Store!Evicted(w, ok, ok2, short)
      BY <2>1 DEF Store!Check
    <3> HIDE DEF t
    <3> QED
      BY <1>1, <2>1, <3>1, EvictedItems
  <2>2. CASE ~(evict /\ w.owner # None)
    <3>1. t = w
      BY <2>2 DEF Store!Check
    <3> HIDE DEF t
    <3> QED
      BY <3>1 DEF StorageSound, Progress
  <2> QED
    BY <2>1, <2>2
<1> HIDE DEF t
<1>3. w' \in StorageType
  BY <1>1, <1>2 DEF StorageType, Store!Phases
<1>4. /\ w'.mem = t.mem /\ w'.row = t.row /\ w'.online = t.online /\ w'.phase = "players"
      /\ w'.touched = t.touched /\ w'.spoiled = t.spoiled /\ w'.left = t.left
      /\ w'.whole = t.whole /\ w'.shallow = t.shallow /\ w'.clear = t.clear
      /\ w'.ownerRow = t.ownerRow /\ w'.stopping = t.stopping /\ w'.dropped = t.dropped
  BY <1>1, <1>2 DEF StorageType
<1>5. Kept(w') /\ Emptied(w')
  BY <1>1, <1>2, <1>4, SameItems
<1>6. Progress(w')
  BY <1>1, <1>2, <1>4 DEF StorageSound, Progress, AllSaved
<1> QED
  BY <1>3, <1>5, <1>6 DEF StorageSound

-----------------------------------------------------------------------------
(* A round of saves.                                                         *)

LEMMA RoundBegins ==
  ASSUME StorageAssumption, StorageSound(w),
         (\E shallow \in BOOLEAN : Store!SaveGameState(shallow)) \/ Store!Close \/ Store!Shutdown
  PROVE  StorageSound(w')
<1>1. PICK phase \in {"players", "kick"}, left \in SUBSET w.online, stopping \in BOOLEAN,
           shallow \in BOOLEAN :
        /\ w.phase = "idle"
        /\ phase = "players" => left = w.online /\ ~stopping
        /\ stopping => left = w.online
        /\ w' = [w EXCEPT !.phase = phase, !.left = left, !.stopping = stopping,
                          !.shallow = shallow, !.whole = ~shallow]
  <2>1. CASE \E shallow \in BOOLEAN : Store!SaveGameState(shallow)
    <3>1. PICK shallow \in BOOLEAN :
            w.phase = "idle" /\ w' = [w EXCEPT !.phase = "players", !.left = w.online,
                                      !.stopping = FALSE, !.shallow = shallow, !.whole = ~shallow]
      BY <2>1 DEF Store!SaveGameState, Store!Begin
    <3> QED
      BY <3>1
  <2>2. CASE Store!Close
    <3>1. w.phase = "idle" /\ w' = [w EXCEPT !.phase = "kick", !.left = w.online \ Privileged,
                                    !.stopping = FALSE, !.shallow = FALSE, !.whole = ~FALSE]
      BY <2>2 DEF Store!Close, Store!Begin
    <3> QED
      BY <3>1
  <2>3. CASE Store!Shutdown
    <3>1. w.phase = "idle" /\ w' = [w EXCEPT !.phase = "kick", !.left = w.online,
                                    !.stopping = TRUE, !.shallow = FALSE, !.whole = ~FALSE]
      BY <2>3 DEF Store!Shutdown, Store!Begin
    <3> QED
      BY <3>1
  <2> QED
    BY <2>1, <2>2, <2>3
<1>2. w.online \subseteq Players /\ w \in StorageType
  BY DEF StorageSound, StorageType
<1> DEFINE whole == ~shallow
<1>3. whole \in BOOLEAN /\ (whole => ~shallow)
  OBVIOUS
<1> HIDE DEF whole
<1>4. w' = [w EXCEPT !.phase = phase, !.left = left, !.stopping = stopping,
                     !.shallow = shallow, !.whole = whole]
  BY <1>1 DEF whole
<1>5. left \subseteq Players /\ phase \in Store!Phases
  BY <1>2 DEF Store!Phases
<1>6. w' \in StorageType
  BY <1>2, <1>3, <1>4, <1>5 DEF StorageType
<1>7. /\ w'.mem = w.mem /\ w'.row = w.row /\ w'.online = w.online /\ w'.phase = phase
      /\ w'.touched = w.touched /\ w'.spoiled = w.spoiled /\ w'.left = left
      /\ w'.whole = whole /\ w'.shallow = shallow /\ w'.clear = w.clear
      /\ w'.ownerRow = w.ownerRow /\ w'.stopping = stopping /\ w'.dropped = w.dropped
  BY <1>2, <1>4 DEF StorageType
<1>8. Kept(w') /\ Emptied(w')
  <2>1. w'.phase # "down" /\ w.phase # "down"
    BY <1>1, <1>7
  <2> QED
    BY <1>7, <2>1, SameItems DEF StorageSound
<1>9. Progress(w')
  BY <1>1, <1>3, <1>7 DEF StorageSound, Progress, AllSaved
<1> QED
  BY <1>6, <1>8, <1>9 DEF StorageSound

LEMMA EverybodyKicked ==
  ASSUME StorageAssumption, StorageSound(w), Store!KickedAll
  PROVE  StorageSound(w')
<1> DEFINE phase == Store!AfterKick(w)
<1>1. w.phase = "kick" /\ w.left = {} /\ w' = [w EXCEPT !.phase = phase, !.left = w.online]
  BY DEF Store!KickedAll
<1>2. /\ phase \in {"check", "players"} /\ phase \in Store!Phases
      /\ phase = "check" <=> w.stopping
  BY DEF Store!AfterKick, Store!Phases
<1> HIDE DEF phase
<1>3. w' \in StorageType
  BY <1>1, <1>2 DEF StorageSound, StorageType
<1>4. /\ w'.mem = w.mem /\ w'.row = w.row /\ w'.online = w.online /\ w'.phase = phase
      /\ w'.touched = w.touched /\ w'.spoiled = w.spoiled /\ w'.left = w.online
      /\ w'.whole = w.whole /\ w'.shallow = w.shallow /\ w'.clear = w.clear
      /\ w'.ownerRow = w.ownerRow /\ w'.stopping = w.stopping /\ w'.dropped = w.dropped
  BY <1>1 DEF StorageSound, StorageType
<1>5. Kept(w') /\ Emptied(w')
  BY ZenonT(60), <1>1, <1>2, <1>4, SameItems DEF StorageSound
<1>6. Progress(w')
  BY <1>1, <1>2, <1>4 DEF StorageSound, Progress, AllSaved
<1> QED
  BY <1>3, <1>5, <1>6 DEF StorageSound

LEMMA PlayerSaved ==
  ASSUME StorageAssumption, StorageSound(w), NEW p \in Players, NEW ok \in BOOLEAN,
         NEW short \in SUBSET Items, Store!SavePlayer(p, ok, short)
  PROVE  StorageSound(w')
<1> DEFINE saves == ok /\ ~w.shallow
           row == IF saves THEN [w.row EXCEPT ![p] = w.mem[p] \ short] ELSE w.row
           dropped == IF saves THEN (w.dropped \ w.mem[p]) \cup (w.mem[p] \cap short) ELSE w.dropped
           whole == w.whole /\ ok
           left == w.left \ {p}
<1>1. /\ w.phase = "players" /\ p \in w.left
      /\ w' = [w EXCEPT !.row = row, !.dropped = dropped, !.left = left, !.whole = whole]
  BY DEF Store!SavePlayer, Store!Saved, Store!Written, StorageSound, StorageType
<1>2. p \in w.online /\ p \in Store!Keepers /\ left \subseteq Players /\ w \in StorageType
  BY <1>1 DEF StorageSound, StorageType, Progress, Store!Keepers
<1>3. /\ row \in [Store!Keepers -> SUBSET Items] /\ dropped \in SUBSET Items
      /\ whole \in BOOLEAN /\ (whole => w.whole /\ saves)
      /\ \A k \in Store!Keepers \ {p} : row[k] = w.row[k]
      /\ saves => /\ row[p] = w.mem[p] \ short
                  /\ dropped = (w.dropped \ w.mem[p]) \cup (w.mem[p] \cap short)
      /\ ~saves => row = w.row /\ dropped = w.dropped
  BY DEF StorageSound, StorageType, Store!Keepers, Hands, Progress
<1>4. left = w.left \ {p}
  OBVIOUS
<1> HIDE DEF row, whole, dropped, saves, left
<1>5. w' \in StorageType
  BY <1>1, <1>2, <1>3 DEF StorageType
<1>6. /\ w'.mem = w.mem /\ w'.row = row /\ w'.online = w.online /\ w'.phase = w.phase
      /\ w'.touched = w.touched /\ w'.spoiled = w.spoiled /\ w'.left = left
      /\ w'.whole = whole /\ w'.shallow = w.shallow /\ w'.clear = w.clear
      /\ w'.ownerRow = w.ownerRow /\ w'.stopping = w.stopping /\ w'.dropped = dropped
  BY <1>1, <1>2 DEF StorageType
<1>7. (\A k : Present(w', k) <=> Present(w, k)) /\ Present(w, p)
  BY <1>2, <1>6 DEF Present
<1>8. /\ Kept(w')
      /\ whole => AllSaved(w', w.online \ left)
  <2>1. CASE saves
    <3>1. Rewritten(w, w', p)
      BY <1>3, <1>6, <1>7, <2>1 DEF Rewritten
    <3>2. /\ Kept(w') /\ \A i : InStep(w', p, i)
          /\ \A q \in Store!Keepers, i \in Items \ w.spoiled :
                Present(w, q) /\ InStep(w, q, i) => InStep(w', q, i)
      BY <1>2, <1>7, <3>1, RewrittenRows DEF StorageSound
    <3>3. ASSUME whole, NEW q \in w.online \ left, NEW i \in Items \ w.spoiled
          PROVE  InStep(w', q, i)
      <4>1. CASE q = p
        BY <3>2, <4>1
      <4>2. CASE q # p
        <5>1. q \in w.online \ w.left /\ w.whole
          BY <1>3, <1>4, <3>3, <4>2
        <5>2. InStep(w, q, i)
          BY <1>1, <3>3, <5>1 DEF StorageSound, Progress, AllSaved
        <5>3. q \in Store!Keepers /\ Present(w, q)
          BY <1>2 DEF StorageType, Store!Keepers, Present
        <5> QED
          BY <3>2, <5>2, <5>3
      <4> QED
        BY <4>1, <4>2
    <3> QED
      BY <1>6, <3>2, <3>3 DEF AllSaved
  <2>2. CASE ~saves
    <3>1. Kept(w')
      BY <1>3, <1>6, <2>2, SameItems DEF StorageSound
    <3> QED
      BY <1>3, <2>2, <3>1
  <2> QED
    BY <2>1, <2>2
<1>9. Emptied(w')
  BY <1>6, <1>7 DEF StorageSound, Emptied
<1>10. Progress(w')
  BY <1>1, <1>3, <1>4, <1>6, <1>8 DEF StorageSound, Progress
<1> QED
  BY <1>5, <1>8, <1>9, <1>10 DEF StorageSound

\* The end of a round: after a whole one each row is what its keeper has, but
\* for what was dropped.
RoundEnds(s) ==
  /\ s \in StorageType /\ Kept(s) /\ Emptied(s)
  /\ s.phase \in {"players", "tiles"} /\ s.left = {}
  /\ s.stopping => s.online = {}
  /\ s.clear => s.ownerRow # None
  /\ s.whole => ~s.shallow /\ AllSaved(s, s.online \cup {House})

LEMMA RoundIsOver ==
  ASSUME StorageAssumption, NEW s, RoundEnds(s)
  PROVE  StorageSound(Store!Over(s))
<1> DEFINE touched == IF s.whole THEN s.mem[Street] ELSE s.touched
           t == [s EXCEPT !.touched = touched]
           o == Store!Over(s)
<1>1. /\ s \in StorageType /\ Street \in Hands /\ s.mem[Street] \subseteq Items
      /\ touched \subseteq Items /\ Store!Keepers \subseteq Hands /\ s.phase # "down"
  BY DEF RoundEnds, StorageType, Hands, Store!Keepers
<1>2. (IF s.whole THEN [s EXCEPT !.touched = s.mem[Street]] ELSE s) = t
  BY <1>1 DEF StorageType
<1> HIDE DEF touched
<1>3. /\ t \in StorageType /\ t.touched = touched /\ t.mem = s.mem /\ t.spoiled = s.spoiled
      /\ t.dropped = s.dropped
  BY <1>1 DEF StorageType
\* An item that is not touched any more is in its row.
<1>4. ASSUME NEW i \in Items \ s.spoiled, i \notin touched
      PROVE  i \notin s.mem[Street] /\ \A p \in s.online \cup {House} : InStep(s, p, i)
  <2>1. CASE s.whole
    BY <1>4, <2>1 DEF touched, RoundEnds, AllSaved
  <2>2. CASE ~s.whole
    <3>1. InItsRow(s, i)
      BY <1>4, <2>2 DEF touched, RoundEnds, Kept
    <3>2. \A p \in s.online \cup {House} : p \in Store!Keepers /\ Present(s, p)
      BY <1>1 DEF Present, Store!Keepers, StorageType
    <3> QED
      BY <3>1, <3>2 DEF InItsRow
  <2> QED
    BY <2>1, <2>2
<1>5. CASE s.stopping
  <2> DEFINE spoiled == s.spoiled \cup touched
             mem == [k \in DOMAIN s.mem |-> {}]
  <2>1. o = [t EXCEPT !.spoiled = spoiled, !.phase = "down", !.mem = mem]
    BY <1>2, <1>3, <1>5 DEF Store!Over, Store!Spoil
  <2>2. /\ spoiled \subseteq Items /\ mem \in [Hands -> SUBSET Items]
        /\ \A k \in Hands : mem[k] = {}
    BY <1>1 DEF StorageType
  <2> HIDE DEF t, o, spoiled, mem
  <2>3. o \in StorageType
    BY <1>3, <2>1, <2>2 DEF StorageType, Store!Phases
  <2>4. /\ o.mem = mem /\ o.row = s.row /\ o.online = {} /\ o.phase = "down"
        /\ o.touched = touched /\ o.spoiled = s.spoiled \cup touched /\ o.left = {}
        /\ o.whole = s.whole /\ o.shallow = s.shallow /\ o.clear = s.clear
        /\ o.ownerRow = s.ownerRow /\ o.dropped = s.dropped
    BY <1>1, <1>3, <1>5, <2>1 DEF StorageType, RoundEnds, t, spoiled
  <2>5. Kept(o)
    <3> SUFFICES ASSUME NEW i \in Items \ s.spoiled, i \notin touched
                 PROVE  InOnePlace(o, i) /\ InItsRow(o, i)
      BY <2>4 DEF Kept
    <3>1. InOnePlace(s, i)
      BY DEF RoundEnds, Kept
    <3>2. ASSUME NEW l \in Hands
          PROVE  /\ Holds(o, l, i) => Holds(s, l, i)
                 /\ i \notin s.dropped => (Holds(s, l, i) => Holds(o, l, i))
      <4>1. CASE l = Street
        BY <1>1, <1>4, <2>2, <2>4, <4>1 DEF Holds, Present
      <4>2. CASE l = House
        BY <1>1, <1>4, <2>2, <2>4, <4>2 DEF Holds, Present, InStep, StorageAssumption
      <4>3. CASE l # Street /\ l # House
        BY <1>5, <2>4, <4>3 DEF Holds, Present, RoundEnds
      <4> QED
        BY <4>1, <4>2, <4>3
    <3>3. InItsRow(o, i)
      BY <1>1, <2>2, <2>4 DEF InItsRow, Present, Store!Keepers, StorageAssumption
    <3>4. InOnePlace(o, i)
      BY <2>4, <3>1, <3>2 DEF InOnePlace
    <3> QED
      BY <3>3, <3>4
  <2>6. Emptied(o)
    BY <1>1, <2>2, <2>4 DEF Emptied
  <2>7. Progress(o)
    BY <2>4 DEF Progress, RoundEnds
  <2> QED
    BY <2>3, <2>5, <2>6, <2>7 DEF StorageSound, o
<1>6. CASE ~s.stopping
  <2>1. o = [t EXCEPT !.phase = "idle"]
    BY <1>2, <1>6 DEF Store!Over
  <2> HIDE DEF t, o
  <2>2. o \in StorageType
    BY <1>3, <2>1 DEF StorageType, Store!Phases
  <2>3. /\ o.mem = s.mem /\ o.row = s.row /\ o.online = s.online /\ o.phase = "idle"
        /\ o.touched = touched /\ o.spoiled = s.spoiled /\ o.left = {}
        /\ o.whole = s.whole /\ o.shallow = s.shallow /\ o.clear = s.clear
        /\ o.ownerRow = s.ownerRow /\ o.stopping = s.stopping
        /\ o.dropped = s.dropped
    BY <1>1, <1>3, <2>1 DEF StorageType, RoundEnds, t
  <2>4. \A k : Present(o, k) <=> Present(s, k)
    BY <1>1, <2>3 DEF Present
  <2>5. Kept(o)
    <3> SUFFICES ASSUME NEW i \in Items \ s.spoiled
                 PROVE  InOnePlace(o, i) /\ (i \notin touched => InItsRow(o, i))
      BY <2>3 DEF Kept
    <3>1. InOnePlace(s, i)
      BY DEF RoundEnds, Kept
    <3>2. \A l \in Hands : Holds(o, l, i) <=> Holds(s, l, i)
      BY <2>3, <2>4 DEF Holds
    <3>3. ASSUME i \notin touched
          PROVE  InItsRow(o, i)
      <4>1. Street \notin Store!Keepers
        BY DEF Store!Keepers, StorageAssumption
      <4> QED
        BY <1>4, <2>3, <3>3, <4>1 DEF InItsRow, InStep, Present
    <3> QED
      BY <2>3, <3>1, <3>2, <3>3, SamePlace
  <2>6. Emptied(o)
    BY <2>3, <2>4 DEF Emptied, RoundEnds
  <2>7. Progress(o)
    BY <2>3 DEF Progress, RoundEnds
  <2> QED
    BY <2>2, <2>5, <2>6, <2>7 DEF StorageSound, o
<1> QED
  BY <1>5, <1>6

LEMMA HousesSaved ==
  ASSUME StorageAssumption, StorageSound(w), NEW ok \in BOOLEAN, NEW written \in BOOLEAN,
         Store!SaveHouses(ok, written)
  PROVE  StorageSound(w')
<1>1. w.phase = "players" /\ w.left = {} /\ w \in StorageType
  BY DEF Store!SaveHouses, StorageSound
<1>2. CASE ok
  <2> DEFINE ownerRow == IF written THEN w.owner ELSE w.ownerRow
             clear == w.clear /\ ~written
  <2>1. w' = [w EXCEPT !.ownerRow = ownerRow, !.clear = clear, !.phase = "tiles"]
    BY <1>1, <1>2 DEF Store!SaveHouses, StorageType
  <2>7. ownerRow \in Players \cup {None} /\ clear \in BOOLEAN /\ (clear => ownerRow # None)
    BY <1>1 DEF StorageType, StorageSound, Progress
  <2> HIDE DEF ownerRow, clear
  <2>2. w' \in StorageType
    BY <1>1, <2>1, <2>7 DEF StorageType, Store!Phases
  <2>3. /\ w'.mem = w.mem /\ w'.row = w.row /\ w'.online = w.online /\ w'.phase = "tiles"
        /\ w'.touched = w.touched /\ w'.spoiled = w.spoiled /\ w'.left = {}
        /\ w'.whole = w.whole /\ w'.shallow = w.shallow /\ w'.clear = clear
        /\ w'.stopping = w.stopping /\ w'.dropped = w.dropped /\ w'.ownerRow = ownerRow
    BY <1>1, <2>1 DEF StorageType
  <2>4. Kept(w') /\ Emptied(w')
    <3>1. w'.phase # "down" /\ w.phase # "down"
      BY <1>1, <2>3
    <3> QED
      BY <2>3, <3>1, SameItems DEF StorageSound
  <2>5. Progress(w')
    <3>1. w.whole => AllSaved(w', w.online)
      BY <1>1, <2>3 DEF StorageSound, Progress, AllSaved, InStep
    <3> QED
      BY <1>1, <2>3, <2>7, <3>1 DEF StorageSound, Progress
  <2> QED
    BY <2>2, <2>4, <2>5 DEF StorageSound
<1>3. CASE ~ok
  <2> DEFINE s == [w EXCEPT !.whole = FALSE]
  <2>1. w' = Store!Over(s)
    BY <1>3 DEF Store!SaveHouses
  <2>2. /\ s \in StorageType /\ s.whole = FALSE
        /\ s.mem = w.mem /\ s.row = w.row /\ s.online = w.online /\ s.phase = w.phase
        /\ s.touched = w.touched /\ s.spoiled = w.spoiled /\ s.left = w.left
        /\ s.clear = w.clear /\ s.stopping = w.stopping /\ s.ownerRow = w.ownerRow
        /\ s.dropped = w.dropped
    BY <1>1 DEF StorageType
  <2> HIDE DEF s
  <2>3. Kept(s) /\ Emptied(s)
    BY <2>2, SameItems DEF StorageSound
  <2>4. RoundEnds(s)
    BY <1>1, <2>2, <2>3 DEF RoundEnds, StorageSound, Progress
  <2> QED
    BY <2>1, <2>4, RoundIsOver
<1> QED
  BY <1>2, <1>3

LEMMA TilesSaved ==
  ASSUME StorageAssumption, StorageSound(w), NEW ok \in BOOLEAN, NEW short \in SUBSET Items,
         Store!SaveTiles(ok, short)
  PROVE  StorageSound(w')
<1> DEFINE row == IF ok THEN [w.row EXCEPT ![House] = w.mem[House] \ short] ELSE w.row
           dropped == IF ok THEN (w.dropped \ w.mem[House]) \cup (w.mem[House] \cap short)
                      ELSE w.dropped
           whole == w.whole /\ ok
           s == [w EXCEPT !.row = row, !.dropped = dropped, !.whole = whole]
<1>1. w.phase = "tiles" /\ w \in StorageType /\ House \in Store!Keepers /\ House \in Hands
  BY DEF Store!SaveTiles, StorageSound, Store!Keepers, Hands
<1>2. w' = Store!Over(s)
  BY <1>1 DEF Store!SaveTiles, Store!Saved, Store!Written, StorageType
<1>3. /\ row \in [Store!Keepers -> SUBSET Items] /\ dropped \in SUBSET Items
      /\ whole \in BOOLEAN /\ (whole => w.whole /\ ok)
      /\ \A k \in Store!Keepers \ {House} : row[k] = w.row[k]
      /\ ok => /\ row[House] = w.mem[House] \ short
               /\ dropped = (w.dropped \ w.mem[House]) \cup (w.mem[House] \cap short)
      /\ ~ok => row = w.row /\ dropped = w.dropped
  BY <1>1 DEF StorageType
<1> HIDE DEF row, whole, dropped
<1>4. /\ s \in StorageType /\ s.row = row /\ s.whole = whole /\ s.shallow = w.shallow
      /\ s.mem = w.mem /\ s.online = w.online /\ s.phase = w.phase
      /\ s.touched = w.touched /\ s.spoiled = w.spoiled /\ s.left = w.left
      /\ s.clear = w.clear /\ s.stopping = w.stopping /\ s.ownerRow = w.ownerRow
      /\ s.dropped = dropped
  BY <1>1, <1>3 DEF StorageType
<1> HIDE DEF s
<1>5. (\A k : Present(s, k) <=> Present(w, k)) /\ Present(w, House)
  BY <1>1, <1>4 DEF Present
<1>6. /\ Kept(s)
      /\ whole => AllSaved(s, w.online \cup {House})
  <2>1. CASE ok
    <3>1. Rewritten(w, s, House)
      BY <1>3, <1>4, <1>5, <2>1 DEF Rewritten
    <3>2. /\ Kept(s) /\ \A i : InStep(s, House, i)
          /\ \A q \in Store!Keepers, i \in Items \ w.spoiled :
                Present(w, q) /\ InStep(w, q, i) => InStep(s, q, i)
      BY <1>1, <1>5, <3>1, RewrittenRows DEF StorageSound
    <3>3. ASSUME whole, NEW q \in w.online, NEW i \in Items \ w.spoiled
          PROVE  InStep(s, q, i)
      <4>1. InStep(w, q, i)
        BY <1>1, <1>3, <3>3 DEF StorageSound, Progress, AllSaved
      <4>2. q \in Store!Keepers /\ Present(w, q)
        BY <1>1 DEF StorageType, Store!Keepers, Present
      <4> QED
        BY <3>2, <4>1, <4>2
    <3> QED
      BY <1>4, <3>2, <3>3 DEF AllSaved
  <2>2. CASE ~ok
    <3>1. Kept(s)
      BY <1>3, <1>4, <2>2, SameItems DEF StorageSound
    <3> QED
      BY <1>3, <2>2, <3>1
  <2> QED
    BY <2>1, <2>2
<1>7. Emptied(s)
  BY <1>4, <1>5 DEF StorageSound, Emptied
<1>8. RoundEnds(s)
  BY <1>1, <1>3, <1>4, <1>6, <1>7 DEF RoundEnds, StorageSound, Progress
<1> QED
  BY <1>2, <1>8, RoundIsOver

-----------------------------------------------------------------------------
(* Crashes and starts.                                                       *)

LEMMA ServerCrashes ==
  ASSUME StorageAssumption, StorageSound(w), Store!Crash
  PROVE  StorageSound(w')
<1> DEFINE mem == [k \in DOMAIN w.mem |-> {}]
<1>1. /\ w.phase # "down"
      /\ w' = [w EXCEPT !.mem = mem, !.online = {}, !.left = {}, !.phase = "down",
                        !.spoiled = @ \cup w.touched]
  BY DEF Store!Crash
<1>2. /\ mem \in [Hands -> SUBSET Items] /\ \A k \in Hands : mem[k] = {}
      /\ w.spoiled \cup w.touched \subseteq Items /\ w \in StorageType /\ "down" \in Store!Phases
  BY DEF StorageSound, StorageType, Store!Phases
<1> HIDE DEF mem
<1>3. w' \in StorageType
  BY <1>1, <1>2 DEF StorageType
<1>4. /\ w'.mem = mem /\ w'.row = w.row /\ w'.online = {} /\ w'.phase = "down"
      /\ w'.touched = w.touched /\ w'.spoiled = w.spoiled \cup w.touched /\ w'.left = {}
      /\ w'.whole = w.whole /\ w'.shallow = w.shallow /\ w'.clear = w.clear
      /\ w'.ownerRow = w.ownerRow /\ w'.dropped = w.dropped
  BY <1>1, <1>2 DEF StorageType
<1>5. /\ \A k : Present(w', k) <=> k = Street
      /\ Store!Keepers \subseteq Hands /\ Street \in Hands /\ Street \notin Store!Keepers
  BY <1>4 DEF Present, Hands, Store!Keepers, StorageAssumption
<1>6. Kept(w')
  <2> SUFFICES ASSUME NEW i \in Items \ (w.spoiled \cup w.touched)
               PROVE  InOnePlace(w', i) /\ InItsRow(w', i)
    BY <1>4 DEF Kept
  <2>1. InOnePlace(w, i) /\ InItsRow(w, i)
    BY DEF StorageSound, Kept
  <2>2. ASSUME NEW l \in Hands
        PROVE  /\ Holds(w', l, i) => Holds(w, l, i)
               /\ i \notin w.dropped => (Holds(w, l, i) => Holds(w', l, i))
    <3>1. CASE l = Street
      BY <1>2, <1>4, <1>5, <2>1, <3>1 DEF Holds, Present, InItsRow
    <3>2. CASE l # Street
      <4>1. l \in Store!Keepers
        BY <3>2 DEF Hands, Store!Keepers
      <4> QED
        BY <1>4, <1>5, <2>1, <3>2, <4>1 DEF Holds, InItsRow, InStep
    <3> QED
      BY <3>1, <3>2
  <2>3. InItsRow(w', i)
    BY <1>2, <1>4, <1>5 DEF InItsRow
  <2>4. InOnePlace(w', i)
    BY <1>4, <2>1, <2>2 DEF InOnePlace
  <2> QED
    BY <2>3, <2>4
<1>7. Emptied(w')
  BY <1>2, <1>4, <1>5 DEF Emptied
<1>8. Progress(w')
  BY <1>4 DEF StorageSound, Progress
<1> QED
  BY <1>3, <1>6, <1>7, <1>8 DEF StorageSound

LEMMA TransferAsked ==
  ASSUME StorageAssumption, StorageSound(w), Store!AskTransfer
  PROVE  StorageSound(w')
<1>1. w.phase = "down" /\ w.ownerRow # None /\ w' = [w EXCEPT !.clear = TRUE]
  BY DEF Store!AskTransfer
<1>2. w' \in StorageType
  BY <1>1 DEF StorageSound, StorageType
<1>3. /\ w'.mem = w.mem /\ w'.row = w.row /\ w'.online = w.online /\ w'.phase = w.phase
      /\ w'.touched = w.touched /\ w'.spoiled = w.spoiled /\ w'.left = w.left
      /\ w'.whole = w.whole /\ w'.shallow = w.shallow
      /\ w'.ownerRow = w.ownerRow /\ w'.stopping = w.stopping /\ w'.dropped = w.dropped
  BY <1>1 DEF StorageSound, StorageType
<1>4. Kept(w') /\ Emptied(w')
  BY <1>3, SameItems DEF StorageSound
<1>5. Progress(w')
  BY <1>1, <1>3 DEF StorageSound, Progress
<1> QED
  BY <1>2, <1>4, <1>5 DEF StorageSound

\* The house is filled from its row, or what the row has goes to the depot.
LEMMA ServerStarts ==
  ASSUME StorageAssumption, StorageSound(w), NEW kept \in SUBSET Items, NEW short \in SUBSET Items,
         Store!Boot(kept, short)
  PROVE  StorageSound(w')
<1> DEFINE s == [w EXCEPT !.owner = w.ownerRow, !.phase = "idle"]
           p == w.ownerRow
           is == w.row[House]
<1>1. /\ w.phase = "down" /\ kept \subseteq is
      /\ w' = IF w.clear THEN Store!ToDepot(s, p, is, kept, short) ELSE [s EXCEPT !.mem[House] = is]
  BY DEF Store!Boot, StorageSound, StorageType
<1>2. /\ w \in StorageType /\ House \in Hands /\ House \in Store!Keepers /\ is \in SUBSET Items
      /\ Street \in Hands /\ Store!Keepers \subseteq Hands /\ House # Street
      /\ Street \notin Store!Keepers /\ House \notin Players
  BY DEF StorageSound, StorageType, Hands, Store!Keepers, StorageAssumption
<1>3. /\ s \in StorageType /\ s.row = w.row /\ s.mem = w.mem /\ s.online = w.online
      /\ s.phase = "idle" /\ s.touched = w.touched /\ s.spoiled = w.spoiled /\ s.left = w.left
      /\ s.whole = w.whole /\ s.shallow = w.shallow /\ s.clear = w.clear
      /\ s.ownerRow = w.ownerRow /\ s.stopping = w.stopping /\ s.dropped = w.dropped
  BY <1>2 DEF StorageType, Store!Phases
<1> HIDE DEF s
<1>4. /\ w.online = {} /\ w.left = {} /\ w.touched \subseteq w.spoiled
      /\ \A k \in Hands : w.mem[k] = {}
      /\ \A k : Present(w, k) <=> k = Street
  BY <1>1 DEF StorageSound, Emptied, Progress, Present
<1>5. ASSUME NEW i \in Items \ w.spoiled
      PROVE  InOnePlace(w, i)
  BY DEF StorageSound, Kept
<1>6. CASE w.clear
  <2>1. p \in Players
    BY <1>2, <1>6 DEF StorageSound, StorageType, Progress
  <2>2. DepotGets(s, w', p, is)
    <3> HIDE DEF p, is
    <3>1. w' = Store!ToDepot(s, p, is, kept, short)
      BY <1>1, <1>6
    <3>2. kept \subseteq is
      BY <1>1
    <3> QED
      BY <1>2, <1>3, <2>1, <3>1, <3>2, DepotFacts
  <2> HIDE DEF p, is
  <2>3. /\ w' \in StorageType /\ w'.online = {} /\ w'.phase = "idle" /\ w'.left = {}
        /\ w'.whole = w.whole /\ w'.shallow = w.shallow /\ w'.clear = w.clear
        /\ w'.ownerRow = w.ownerRow /\ w'.stopping = w.stopping
        /\ w'.touched = w.touched \cup is /\ w.spoiled \subseteq w'.spoiled
    BY <1>3, <1>4, <2>2 DEF DepotGets
  <2>4. /\ \A k \in Hands : w'.mem[k] = {}
        /\ \A k \in Store!Keepers \ {p} : w'.row[k] = w.row[k]
        /\ \A k : Present(w', k) <=> k = Street \/ k = House
    BY <1>3, <1>4, <2>2, <2>3 DEF DepotGets, Present
  <2>5. p \in Hands /\ p \in Store!Keepers /\ p # House /\ p # Street
    BY <1>2, <2>1 DEF Hands, Store!Keepers
  <2>6. Kept(w')
    <3> SUFFICES ASSUME NEW i \in Items \ w'.spoiled
                 PROVE  InOnePlace(w', i) /\ (i \notin w.touched \cup is => InItsRow(w', i))
      BY <2>3 DEF Kept
    <3>1. InOnePlace(w, i)
      BY <1>5, <2>3
    <3>4. RowGets(s, w', p, is, i)
      BY <1>3, <1>4, <2>2 DEF DepotGets
    <3>2. CASE i \in is
      <4>1. Holds(w, House, i) /\ ~Holds(w', House, i)
        BY <1>2, <1>4, <2>4, <3>2 DEF Holds, is
      <4>2. i \in w'.row[p] \/ i \in w'.dropped
        BY <3>2, <3>4 DEF RowGets
      <4>3. i \notin w'.dropped => Holds(w', p, i)
        BY <2>4, <2>5, <4>2 DEF Holds
      <4>4. ASSUME NEW l \in Hands \ {House, p}
            PROVE  Holds(w', l, i) <=> Holds(w, l, i)
        <5>1. l \in Store!Keepers \/ l = Street
          BY DEF Hands, Store!Keepers
        <5> QED
          BY <1>4, <2>4, <5>1 DEF Holds
      <4>5. \A l \in Hands \ {p} : Holds(w', l, i) => l # House /\ Holds(w, l, i)
        BY <4>1, <4>4
      <4>6. InOnePlace(w', i)
        BY <1>2, <2>5, <3>1, <4>1, <4>3, <4>5, NewPlace
      <4> QED
        BY <3>2, <4>6
    <3>3. CASE i \notin is
      <4>1. /\ i \in w'.row[p] => i \in w.row[p]
            /\ i \in w.row[p] => i \in w'.row[p] \/ i \in w'.dropped
            /\ i \in w.dropped => i \in w.row[p] \/ i \in w'.dropped
        BY <1>3, <3>3, <3>4 DEF RowGets
      <4>2. ASSUME NEW l \in Hands \ {p}
            PROVE  Holds(w', l, i) <=> Holds(w, l, i)
        <5>1. CASE l = House
          BY <1>2, <1>4, <2>4, <3>3, <5>1 DEF Holds, is
        <5>2. CASE l # House
          <6>1. l \in Store!Keepers \/ l = Street
            BY DEF Hands, Store!Keepers
          <6> QED
            BY <1>4, <2>4, <5>2, <6>1 DEF Holds
        <5> QED
          BY <5>1, <5>2
      <4>3. InItsRow(w', i)
        BY <1>2, <2>4, <2>5, <3>3 DEF InItsRow, InStep, is
      <4>4. InOnePlace(w', i)
        <5>1. CASE i \in w.row[p]
          <6>1. Holds(w, p, i) /\ (i \notin w'.dropped => Holds(w', p, i))
            BY <1>4, <2>4, <2>5, <4>1, <5>1 DEF Holds
          <6>2. \A l \in Hands \ {p} : Holds(w', l, i) => l # p /\ Holds(w, l, i)
            BY <4>2
          <6> QED
            BY <2>5, <3>1, <6>1, <6>2, NewPlace
        <5>2. CASE i \notin w.row[p]
          <6>1. Holds(w', p, i) <=> Holds(w, p, i)
            BY <1>4, <2>4, <2>5, <4>1, <5>2 DEF Holds
          <6>2. \A l \in Hands : Holds(w', l, i) <=> Holds(w, l, i)
            BY <4>2, <6>1
          <6>3. i \in w.dropped => i \in w'.dropped
            BY <4>1, <5>2
          <6> QED
            BY <3>1, <6>2, <6>3, SamePlace
        <5> QED
          BY <5>1, <5>2
      <4> QED
        BY <4>3, <4>4
    <3> QED
      BY <3>2, <3>3
  <2>7. Emptied(w')
    BY <2>3, <2>4 DEF Emptied
  <2>8. Progress(w')
    BY <2>3 DEF StorageSound, Progress
  <2> QED
    BY <2>3, <2>6, <2>7, <2>8 DEF StorageSound
<1>7. CASE ~w.clear
  <2> DEFINE mem == [w.mem EXCEPT ![House] = is]
  <2>1. w' = [s EXCEPT !.mem = mem]
    BY <1>1, <1>3, <1>7
  <2>2. /\ mem \in [Hands -> SUBSET Items] /\ mem[House] = is
        /\ \A k \in Hands \ {House} : mem[k] = {}
    BY <1>2, <1>4 DEF StorageType
  <2> HIDE DEF mem, is, p
  <2>3. w' \in StorageType
    BY <1>3, <2>1, <2>2 DEF StorageType
  <2>4. /\ w'.mem = mem /\ w'.row = w.row /\ w'.online = {} /\ w'.phase = "idle" /\ w'.left = {}
        /\ w'.whole = w.whole /\ w'.shallow = w.shallow /\ w'.clear = w.clear
        /\ w'.ownerRow = w.ownerRow /\ w'.stopping = w.stopping
        /\ w'.touched = w.touched /\ w'.spoiled = w.spoiled /\ w'.dropped = w.dropped
    BY <1>3, <1>4, <2>1 DEF StorageType
  <2>5. \A k : Present(w', k) <=> k = Street \/ k = House
    BY <2>4 DEF Present
  <2>6. Kept(w')
    <3> SUFFICES ASSUME NEW i \in Items \ w.spoiled
                 PROVE  InOnePlace(w', i) /\ InItsRow(w', i)
      BY <2>4 DEF Kept
    <3>1. InOnePlace(w, i)
      BY <1>5
    <3>2. ASSUME NEW l \in Hands
          PROVE  Holds(w', l, i) <=> Holds(w, l, i)
      <4>1. CASE l = House
        BY <1>2, <1>4, <2>2, <2>4, <2>5, <4>1 DEF Holds, is
      <4>2. CASE l # House
        BY <1>4, <2>2, <2>4, <2>5, <4>2 DEF Holds
      <4> QED
        BY <4>1, <4>2
    <3>3. InItsRow(w', i)
      BY <1>2, <2>2, <2>4, <2>5 DEF InItsRow, InStep, is
    <3> QED
      BY <2>4, <3>1, <3>2, <3>3, SamePlace
  <2>7. Emptied(w')
    BY <2>2, <2>4, <2>5 DEF Emptied
  <2>8. Progress(w')
    BY <2>4 DEF StorageSound, Progress
  <2> QED
    BY <2>3, <2>6, <2>7, <2>8 DEF StorageSound
<1> QED
  BY <1>6, <1>7

LEMMA StorageKeeps ==
  ASSUME StorageAssumption, StorageSound(w), [Store!Next]_w
  PROVE  StorageSound(w')
<1>11. \A short \in Store!LastRows : short \in SUBSET Items
  BY DEF Store!LastRows
<1>1. ASSUME NEW p \in Players, Store!Login(p)
      PROVE  StorageSound(w')
  BY <1>1, PlayerLogsIn
<1>2. ASSUME NEW p \in Players, NEW ok \in BOOLEAN, NEW short \in Store!LastRows,
             Store!Logout(p, ok, short) \/ Store!Kick(p, ok, short)
      PROVE  StorageSound(w')
  <2>1. w.left \subseteq w.online
    BY DEF StorageSound, Progress
  <2>2. p \in w.online /\ w.phase \in {"idle", "kick"} /\ w' = Store!LeaveGame(w, p, ok, short)
    BY <1>2, <2>1 DEF Store!Logout, Store!Kick
  <2> QED
    BY <1>11, <2>2, PlayerLeaves
<1>3. ASSUME NEW p \in Players, NEW ok \in BOOLEAN, NEW short \in Store!LastRows,
             Store!SavePlayer(p, ok, short)
      PROVE  StorageSound(w')
  BY <1>3, <1>11, PlayerSaved
<1>12. ASSUME NEW p \in Players, NEW ok \in BOOLEAN, Store!BuyHouse(p, ok)
       PROVE  StorageSound(w')
  BY <1>12, HouseBought
<1>4. ASSUME NEW i \in Items, NEW from \in Store!Keepers \cup {Street},
             NEW to \in Store!Keepers \cup {Street}, Store!Move(i, from, to)
      PROVE  StorageSound(w')
  BY <1>4, ItemMoves
<1>5. ASSUME NEW ok \in BOOLEAN, NEW ok2 \in BOOLEAN, NEW short \in Store!LastRows,
             Store!CheckHouses(ok, ok2, short)
      PROVE  StorageSound(w')
  BY <1>5, <1>11, HousesChecked
<1>6. ASSUME NEW ok \in BOOLEAN, NEW ok2 \in BOOLEAN, NEW short \in Store!LastRows,
             NEW evict \in BOOLEAN, Store!CheckAtShutdown(evict, ok, ok2, short)
      PROVE  StorageSound(w')
  BY <1>6, <1>11, HousesCheckedAtShutdown
<1>7. CASE (\E shallow \in BOOLEAN : Store!SaveGameState(shallow)) \/ Store!Close \/ Store!Shutdown
  BY <1>7, RoundBegins
<1>8. CASE Store!KickedAll \/ Store!Crash \/ Store!AskTransfer
  BY <1>8, EverybodyKicked, ServerCrashes, TransferAsked
<1>9. ASSUME NEW ok \in BOOLEAN, NEW written \in BOOLEAN, NEW kept \in SUBSET Items,
             NEW short \in SUBSET Items,
             Store!SaveHouses(ok, written) \/ Store!SaveTiles(ok, short) \/ Store!Boot(kept, short)
      PROVE  StorageSound(w')
  BY <1>9, HousesSaved, TilesSaved, ServerStarts
<1>10. CASE UNCHANGED w
  BY <1>10
<1> QED
  BY <1>1, <1>2, <1>3, <1>4, <1>5, <1>6, <1>7, <1>8, <1>9, <1>10, <1>12 DEF Store!Next

\* However saves, failures of the database, crashes and evictions fall, an item
\* that nobody moved since the last whole round is never in the rows of two
\* keepers, and it is in those of one unless the last save of its keeper dropped it
\* unnoticed (game.cpp: saveGameState; map.cpp: saveMap; house.cpp: clean).
THEOREM UntouchedAlwaysSurvive == Spec => []UntouchedSurvive
<1> DEFINE Inv == scene = "storage" => StorageSound(w)
<1>1. Init => Inv
  BY WorldAssumption, StorageInit DEF Init, WorldAssumption
<1>2. Inv /\ [Next]_<<scene, w>> => Inv'
  <2> SUFFICES ASSUME Inv, [Next]_<<scene, w>>, scene' = "storage"
               PROVE  StorageSound(w')
    BY DEF StorageSound, Kept, InOnePlace, InItsRow, InStep, Holds, Present, Emptied, Progress,
           AllSaved
  <2>1. scene = "storage" /\ [Store!Next]_w
    BY DEF Next
  <2> QED
    BY <2>1, WorldAssumption, StorageKeeps
<1>3. Inv => UntouchedSurvive
  BY WorldAssumption, OneRow DEF UntouchedSurvive
<1> QED
  BY <1>1, <1>2, <1>3, PTL DEF Spec
=============================================================================
