---------------------------- MODULE ScriptProofs ---------------------------
(* The scenes of World that scripts move: shops and talks of npcs, and the   *)
(* environments that scripts run in.  Of each, that the property which the   *)
(* run checks on a small instance holds for any players, npcs, items, timers *)
(* and events.                                                               *)
EXTENDS World, SequenceTheorems, FiniteSetTheorems, WellFoundedInduction, TLAPS

-----------------------------------------------------------------------------
(* Shops of npcs (module Shops).                                             *)

\* What the steps of money and wares leave alone.
ShopsType ==
  [at : [Players -> {"near", "far", "out"}], npcs : SUBSET Npcs,
   shopOwner : [Players -> Npcs \cup {None}], callback : [Players -> Callbacks \cup {0}],
   shopPlayerList : [Npcs -> SUBSET Players], registry : SUBSET Callbacks,
   money : [Players -> Int], wares : [Players -> Int]]

\* A player's window: on both sides, and with references of its own.
WindowOf(s, p) ==
  /\ \A n \in Npcs : p \in s.shopPlayerList[n] <=> s.shopOwner[p] = n
  /\ s.shopOwner[p] = None <=> s.callback[p] = 0
  /\ s.shopOwner[p] # None =>
       /\ s.at[p] # "out" /\ s.shopOwner[p] \in s.npcs
       /\ s.callback[p] \in s.registry
       /\ \A q \in Players \ {p} : s.callback[q] # s.callback[p]

ShopsSound(s) == s \in ShopsType /\ \A p \in Players : WindowOf(s, p)

LEMMA ShopsSoundAgrees ==
  ASSUME ShopsSound(w)
  PROVE  Shop!ShopsAgree
BY DEF ShopsSound, WindowOf, Shop!ShopsAgree

LEMMA ShopsInit ==
  ASSUME ShopsAssumption, Shop!Init
  PROVE  ShopsSound(w)
BY DEF ShopsAssumption, Shop!Init, ShopsSound, ShopsType, WindowOf

\* A state that differs in the coming and going of players without a window,
\* in money, wares, npcs and references that nobody uses.
LEMMA SameWindows ==
  ASSUME NEW s, ShopsSound(s), NEW t \in ShopsType,
         t.shopOwner = s.shopOwner, t.callback = s.callback, t.shopPlayerList = s.shopPlayerList,
         s.registry \subseteq t.registry, s.npcs \subseteq t.npcs,
         \A p \in Players : t.at[p] = "out" => s.shopOwner[p] = None
  PROVE  ShopsSound(t)
BY DEF ShopsSound, WindowOf

\* Player::closeShopWindow leaves no window, and everybody else's as it was.
LEMMA WindowCloses ==
  ASSUME ShopsAssumption, NEW s, ShopsSound(s), NEW p \in Players
  PROVE  /\ ShopsSound(Shop!Closed(s, p))
         /\ Shop!Closed(s, p).shopOwner[p] = None /\ Shop!Closed(s, p).callback[p] = 0
         /\ Shop!Closed(s, p).registry \subseteq s.registry /\ Shop!Closed(s, p).npcs = s.npcs
         /\ Shop!Closed(s, p).at = s.at
         /\ Shop!Closed(s, p).money = s.money /\ Shop!Closed(s, p).wares = s.wares
<1>1. CASE s.shopOwner[p] = None
  BY <1>1 DEF Shop!Closed, ShopsSound, WindowOf
<1>2. CASE s.shopOwner[p] # None
  <2> DEFINE n == s.shopOwner[p]
             c == s.callback[p]
             t == [s EXCEPT !.registry = @ \ {c}, !.shopPlayerList[n] = @ \ {p},
                            !.shopOwner[p] = None, !.callback[p] = 0]
  <2>1. n \in Npcs /\ n # None /\ c # 0
    BY <1>2 DEF ShopsSound, ShopsType, WindowOf
  <2>2. Shop!Closed(s, p) = t
    BY <1>2 DEF Shop!Closed, Shop!EndTrade, ShopsSound, ShopsType
  <2>3. c = s.callback[p] /\ n = s.shopOwner[p]
    OBVIOUS
  <2> HIDE DEF n, c
  <2>4. t \in ShopsType
    BY <2>1 DEF ShopsSound, ShopsType
  <2>5. /\ t.at = s.at /\ t.npcs = s.npcs /\ t.money = s.money /\ t.wares = s.wares
        /\ t.registry = s.registry \ {c}
        /\ t.shopOwner[p] = None /\ t.callback[p] = 0
        /\ \A q \in Players \ {p} : t.shopOwner[q] = s.shopOwner[q] /\ t.callback[q] = s.callback[q]
        /\ t.shopPlayerList[n] = s.shopPlayerList[n] \ {p}
        /\ \A m \in Npcs \ {n} : t.shopPlayerList[m] = s.shopPlayerList[m]
    BY <2>1 DEF ShopsSound, ShopsType
  <2> HIDE DEF t
  <2>6. WindowOf(t, p)
    <3>1. ASSUME NEW m \in Npcs
          PROVE  p \notin t.shopPlayerList[m]
      BY <2>1, <2>3, <2>5 DEF ShopsSound, WindowOf
    <3>2. None \notin Npcs
      BY DEF ShopsAssumption
    <3> QED
      BY <2>5, <3>1, <3>2 DEF WindowOf
  <2>7. ASSUME NEW q \in Players \ {p}
        PROVE  WindowOf(t, q)
    <3>1. WindowOf(s, q)
      BY DEF ShopsSound
    <3>2. \A m \in Npcs : q \in t.shopPlayerList[m] <=> q \in s.shopPlayerList[m]
      BY <2>5
    <3>3. s.callback[q] # c
      BY <1>2, <2>3 DEF ShopsSound, WindowOf
    <3> QED
      BY <2>5, <3>1, <3>2, <3>3 DEF WindowOf
  <2> QED
    BY <2>2, <2>4, <2>5, <2>6, <2>7 DEF ShopsSound
<1> QED
  BY <1>1, <1>2

LEMMA OpenShopKeeps ==
  ASSUME ShopsAssumption, ShopsSound(w), NEW n \in Npcs, NEW p \in Players, Shop!OpenShopWindow(n, p)
  PROVE  ShopsSound(w')
<1>1. PICK c \in Callbacks \ w.registry :
        /\ w.at[p] # "out" /\ n \in w.npcs
        /\ LET s == [w EXCEPT !.registry = @ \cup {c}] IN
           w' = IF w.shopOwner[p] = n THEN s
                ELSE [Shop!Reopened(s, p) EXCEPT !.shopPlayerList[n] = @ \cup {p},
                                              !.shopOwner[p] = n, !.callback[p] = c]
  BY DEF Shop!OpenShopWindow
<1> DEFINE s == [w EXCEPT !.registry = @ \cup {c}]
           u == Shop!Closed(s, p)
           t == [u EXCEPT !.shopPlayerList[n] = @ \cup {p}, !.shopOwner[p] = n, !.callback[p] = c]
<1>2. w' = s \/ w' = t
  BY <1>1 DEF Shop!Reopened
<1>3. /\ s \in ShopsType /\ s.shopOwner = w.shopOwner /\ s.callback = w.callback
      /\ s.shopPlayerList = w.shopPlayerList /\ s.registry = w.registry \cup {c}
      /\ s.npcs = w.npcs /\ s.at = w.at
  BY DEF ShopsSound, ShopsType
<1> HIDE DEF s
<1>4. ShopsSound(s)
  <2>1. \A q \in Players : s.at[q] = "out" => w.shopOwner[q] = None
    BY <1>3 DEF ShopsSound, WindowOf
  <2> QED
    BY <1>3, <2>1, SameWindows
<1>5. /\ ShopsSound(u) /\ u.shopOwner[p] = None /\ u.callback[p] = 0
      /\ u.npcs = w.npcs /\ u.at = w.at
  BY <1>3, <1>4, WindowCloses
<1>6. \A q \in Players : u.callback[q] # c
  <2>1. \A q \in Players : w.callback[q] # c
    BY DEF ShopsSound, ShopsType, WindowOf, ShopsAssumption
  <2>2. \A q \in Players : u.callback[q] = s.callback[q] \/ u.callback[q] = 0
    BY <1>4 DEF Shop!Closed, Shop!EndTrade, ShopsSound, ShopsType
  <2> QED
    BY <1>3, <2>1, <2>2 DEF ShopsAssumption
<1>7. c \in u.registry
  <2>1. s.callback[p] # c
    BY <1>3 DEF ShopsSound, ShopsType, WindowOf, ShopsAssumption
  <2>2. s.registry \ {s.callback[p]} \subseteq u.registry
    BY <1>4 DEF Shop!Closed, Shop!EndTrade, ShopsSound, ShopsType
  <2> QED
    BY <1>3, <2>1, <2>2
<1> HIDE DEF u
<1>8. /\ t \in ShopsType /\ t.at = u.at /\ t.npcs = u.npcs /\ t.registry = u.registry
      /\ t.shopOwner[p] = n /\ t.callback[p] = c
      /\ \A q \in Players \ {p} : t.shopOwner[q] = u.shopOwner[q] /\ t.callback[q] = u.callback[q]
      /\ t.shopPlayerList[n] = u.shopPlayerList[n] \cup {p}
      /\ \A m \in Npcs \ {n} : t.shopPlayerList[m] = u.shopPlayerList[m]
  BY ZenonT(60), <1>5 DEF ShopsSound, ShopsType
<1> HIDE DEF t
<1>9. WindowOf(t, p)
  <2>1. ASSUME NEW m \in Npcs
        PROVE  p \notin u.shopPlayerList[m]
    BY <1>5 DEF ShopsSound, WindowOf, ShopsAssumption
  <2>2. c # 0 /\ n # None
    BY DEF ShopsAssumption
  <2>3. \A m \in Npcs : p \in t.shopPlayerList[m] <=> m = n
    BY <1>8, <2>1
  <2>4. \A q \in Players \ {p} : t.callback[q] # c
    BY <1>6, <1>8
  <2> QED
    BY <1>1, <1>5, <1>7, <1>8, <2>2, <2>3, <2>4 DEF WindowOf
<1>10. ASSUME NEW q \in Players \ {p}
       PROVE  WindowOf(t, q)
  <2>1. WindowOf(u, q)
    BY <1>5 DEF ShopsSound
  <2>2. \A m \in Npcs : q \in t.shopPlayerList[m] <=> q \in u.shopPlayerList[m]
    BY <1>8
  <2>3. t.callback[q] # c
    BY <1>6, <1>8
  <2>4. \A r \in Players \ {q} : t.callback[r] = u.callback[r] \/ t.callback[r] = c
    BY <1>8
  <2> QED
    BY <1>8, <2>1, <2>2, <2>3, <2>4 DEF WindowOf
<1> QED
  BY <1>2, <1>4, <1>8, <1>9, <1>10 DEF ShopsSound

LEMMA LogoutShopKeeps ==
  ASSUME ShopsAssumption, ShopsSound(w), NEW p \in Players,
         Shop!Logout(p) \/ Shop!Walk(p) \/ Shop!Login(p) \/ Shop!CloseShop(p)
  PROVE  ShopsSound(w')
<1> DEFINE u == Shop!Closed(w, p)
<1>1. /\ ShopsSound(u) /\ u.shopOwner[p] = None /\ u.at = w.at
  BY WindowCloses
<1>2. \E s, place : /\ w' = [s EXCEPT !.at[p] = place] /\ place \in {"near", "far", "out"}
                    /\ s = u \/ s = w
                    /\ place = "out" => s = u
      \/ w' = u
  BY DEF Shop!Logout, Shop!Walk, Shop!Login, Shop!CloseShop
<1> HIDE DEF u
<1>3. CASE w' = u
  BY <1>1, <1>3
<1>4. ASSUME NEW s, NEW place, w' = [s EXCEPT !.at[p] = place], place \in {"near", "far", "out"},
             s = u \/ s = w, place = "out" => s = u
      PROVE  ShopsSound(w')
  <2>1. ShopsSound(s) /\ (place = "out" => s.shopOwner[p] = None)
    BY <1>1, <1>4
  <2> DEFINE t == [s EXCEPT !.at[p] = place]
  <2>2. /\ t \in ShopsType /\ t.shopOwner = s.shopOwner /\ t.callback = s.callback
        /\ t.shopPlayerList = s.shopPlayerList /\ t.registry = s.registry /\ t.npcs = s.npcs
        /\ t.at[p] = place /\ \A q \in Players \ {p} : t.at[q] = s.at[q]
    BY <1>4, <2>1 DEF ShopsSound, ShopsType
  <2> HIDE DEF t
  <2>3. \A q \in Players : t.at[q] = "out" => s.shopOwner[q] = None
    BY <2>1, <2>2 DEF ShopsSound, WindowOf
  <2>4. ShopsSound(t)
    BY <2>1, <2>2, <2>3, SameWindows
  <2> QED
    BY <1>4, <2>4 DEF t
<1> QED
  BY <1>2, <1>3, <1>4

LEMMA MoneyKeeps ==
  ASSUME ShopsAssumption, ShopsSound(w), NEW p \in Players, Shop!Purchase(p) \/ Shop!Sell(p)
  PROVE  ShopsSound(w')
<1>1. PICK a \in Int, b \in Int : w' = [w EXCEPT !.wares[p] = a, !.money[p] = b]
  <2>1. w.wares[p] \in Int /\ w.money[p] \in Int
    BY DEF ShopsSound, ShopsType
  <2>2. CASE Shop!Sell(p)
    <3>1. PICK amount \in Amounts :
            w' = [w EXCEPT !.wares[p] = w.wares[p] - amount, !.money[p] = w.money[p] + amount]
      BY <2>2 DEF Shop!Sell, ShopsSound, ShopsType
    <3>2. w.wares[p] - amount \in Int /\ w.money[p] + amount \in Int
      BY <2>1 DEF ShopsAssumption
    <3> QED
      BY <3>1, <3>2
  <2>3. CASE Shop!Purchase(p)
    <3>1. PICK k \in Int, charged \in Int :
            w' = [w EXCEPT !.wares[p] = w.wares[p] + k, !.money[p] = w.money[p] - Price * charged]
      <4>1. PICK asked \in Amounts, stackable \in BOOLEAN :
              LET amount == IF asked = 0 THEN 1 ELSE asked IN
              \E k \in Shop!Taken(amount, stackable) :
                w' = [w EXCEPT !.wares[p] = @ + k,
                               !.money[p] = @ - Price * Shop!Charged(amount, stackable, k)]
        BY <2>3 DEF Shop!Purchase
      <4> DEFINE amount == IF asked = 0 THEN 1 ELSE asked
      <4>2. amount \in Nat
        BY DEF ShopsAssumption
      <4> HIDE DEF amount
      <4>3. PICK k \in Shop!Taken(amount, stackable) :
              w' = [w EXCEPT !.wares[p] = @ + k,
                             !.money[p] = @ - Price * Shop!Charged(amount, stackable, k)]
        BY <4>1 DEF amount
      <4>4. k \in Int
        BY <4>2 DEF Shop!Taken
      <4>5. Shop!Charged(amount, stackable, k) \in Int
        BY <4>4 DEF Shop!Charged
      <4>6. w' = [w EXCEPT !.wares[p] = w.wares[p] + k,
                           !.money[p] = w.money[p] - Price * Shop!Charged(amount, stackable, k)]
        BY <4>3
      <4> QED
        BY <4>4, <4>5, <4>6
    <3>2. w.wares[p] + k \in Int /\ w.money[p] - Price * charged \in Int
      BY <2>1 DEF ShopsAssumption
    <3> QED
      BY <3>1, <3>2
  <2> QED
    BY <2>2, <2>3
<1>2. /\ w' \in ShopsType /\ w'.shopOwner = w.shopOwner /\ w'.callback = w.callback
      /\ w'.shopPlayerList = w.shopPlayerList /\ w'.registry = w.registry /\ w'.npcs = w.npcs
      /\ w'.at = w.at
  BY <1>1 DEF ShopsSound, ShopsType
<1>3. ASSUME NEW q \in Players
      PROVE  WindowOf(w', q)
  BY <1>2 DEF ShopsSound, WindowOf
<1> QED
  BY <1>2, <1>3 DEF ShopsSound

\* The npc goes: those on its list are exactly those that have its window.
LEMMA NpcDisappearKeeps ==
  ASSUME ShopsAssumption, ShopsSound(w), NEW n \in Npcs, Shop!NpcDisappear(n)
  PROVE  ShopsSound(w')
<1> DEFINE on == w.shopPlayerList[n]
           lists == [m \in Npcs |-> w.shopPlayerList[m] \ {p \in on : w.shopOwner[p] = m}]
           owners == [p \in Players |-> IF p \in on THEN None ELSE w.shopOwner[p]]
           callbacks == [p \in Players |-> IF p \in on THEN 0 ELSE w.callback[p]]
           registry == w.registry \ {w.callback[p] : p \in on}
           t == [w EXCEPT !.registry = registry, !.shopPlayerList = lists, !.shopOwner = owners,
                          !.callback = callbacks, !.npcs = @ \ {n}]
<1>1. w' = t
  BY DEF Shop!NpcDisappear, Shop!ClosedAll, ShopsSound, ShopsType
<1>2. on \subseteq Players /\ \A p \in Players : p \in on <=> w.shopOwner[p] = n
  BY DEF ShopsSound, ShopsType, WindowOf
<1>3. /\ registry \subseteq Callbacks
      /\ \A p \in Players \ on : w.shopOwner[p] # None => w.callback[p] \in registry
  <2>1. ASSUME NEW p \in Players \ on, w.shopOwner[p] # None
        PROVE  w.callback[p] \in w.registry /\ \A q \in on : w.callback[q] # w.callback[p]
    BY <1>2, <2>1 DEF ShopsSound, WindowOf
  <2> QED
    BY <2>1 DEF ShopsSound, ShopsType
<1>4. /\ lists \in [Npcs -> SUBSET Players]
      /\ \A m \in Npcs, p \in Players : p \in lists[m] <=> p \in w.shopPlayerList[m] /\ p \notin on
  BY <1>2 DEF ShopsSound, ShopsType, WindowOf
<1>5. /\ owners \in [Players -> Npcs \cup {None}] /\ callbacks \in [Players -> Callbacks \cup {0}]
      /\ \A p \in Players : /\ p \in on => owners[p] = None /\ callbacks[p] = 0
                            /\ p \notin on => owners[p] = w.shopOwner[p] /\ callbacks[p] = w.callback[p]
  BY DEF ShopsSound, ShopsType
<1> HIDE DEF on, lists, owners, callbacks, registry
<1>6. /\ t \in ShopsType /\ t.at = w.at /\ t.npcs = w.npcs \ {n} /\ t.registry = registry
      /\ t.shopPlayerList = lists /\ t.shopOwner = owners /\ t.callback = callbacks
  BY <1>3, <1>4, <1>5 DEF ShopsSound, ShopsType
<1> HIDE DEF t
<1>7. ASSUME NEW p \in Players
      PROVE  WindowOf(t, p)
  <2>0. WindowOf(w, p) /\ None \notin Npcs /\ w.callback[p] \in Callbacks \cup {0} /\ 0 \notin Callbacks
        /\ w.registry \subseteq Callbacks
    BY DEF ShopsSound, ShopsType, ShopsAssumption
  <2>1. CASE p \in on
    BY <1>4, <1>5, <1>6, <2>0, <2>1 DEF WindowOf
  <2>2. CASE p \notin on
    <3>1. \A m \in Npcs : p \in lists[m] <=> p \in w.shopPlayerList[m]
      BY <1>4, <2>2
    <3>2. w.shopOwner[p] # None => \A q \in Players \ {p} : callbacks[q] # w.callback[p]
      BY <1>5, <2>0 DEF WindowOf
    <3> QED
      BY <1>2, <1>3, <1>5, <1>6, <2>0, <2>2, <3>1, <3>2 DEF WindowOf
  <2> QED
    BY <2>1, <2>2
<1> QED
  BY <1>1, <1>6, <1>7 DEF ShopsSound

LEMMA NpcAppearKeeps ==
  ASSUME ShopsAssumption, ShopsSound(w), NEW n \in Npcs, Shop!NpcAppear(n)
  PROVE  ShopsSound(w')
<1>1. /\ w' \in ShopsType /\ w'.shopOwner = w.shopOwner /\ w'.callback = w.callback
      /\ w'.shopPlayerList = w.shopPlayerList /\ w'.registry = w.registry
      /\ w.npcs \subseteq w'.npcs /\ w'.at = w.at
  BY DEF Shop!NpcAppear, ShopsSound, ShopsType
<1>2. ASSUME NEW q \in Players
      PROVE  WindowOf(w', q)
  BY <1>1 DEF ShopsSound, WindowOf
<1> QED
  BY <1>1, <1>2 DEF ShopsSound

LEMMA ReloadShopsKeeps ==
  ASSUME ShopsAssumption, ShopsSound(w), Shop!Reload
  PROVE  ShopsSound(w')
<1> DEFINE owners == [p \in Players |-> IF w.shopOwner[p] \in w.npcs THEN None ELSE w.shopOwner[p]]
           callbacks == [p \in Players |-> IF w.shopOwner[p] \in w.npcs THEN 0 ELSE w.callback[p]]
           lists == [n \in Npcs |-> {}]
           t == [w EXCEPT !.registry = {}, !.shopPlayerList = lists, !.shopOwner = owners,
                          !.callback = callbacks]
<1>1. w' = t
  BY DEF Shop!Reload, ShopsSound, ShopsType
<1>2. \A p \in Players : owners[p] = None /\ callbacks[p] = 0
  BY DEF ShopsSound, WindowOf
<1>3. /\ owners \in [Players -> Npcs \cup {None}] /\ callbacks \in [Players -> Callbacks \cup {0}]
      /\ lists \in [Npcs -> SUBSET Players] /\ \A n \in Npcs : lists[n] = {}
  BY DEF ShopsSound, ShopsType
<1> HIDE DEF owners, callbacks, lists
<1>4. /\ t \in ShopsType /\ t.shopPlayerList = lists /\ t.shopOwner = owners /\ t.callback = callbacks
  BY <1>3 DEF ShopsSound, ShopsType
<1> HIDE DEF t
<1>5. ASSUME NEW p \in Players
      PROVE  WindowOf(t, p)
  BY <1>2, <1>3, <1>4 DEF WindowOf, ShopsAssumption
<1> QED
  BY <1>1, <1>4, <1>5 DEF ShopsSound

LEMMA ShopsKeep ==
  ASSUME ShopsAssumption, ShopsSound(w), [Shop!Next]_w
  PROVE  ShopsSound(w')
<1>1. CASE UNCHANGED w
  BY <1>1 DEF ShopsSound
<1>2. CASE \E p \in Players : Shop!Login(p) \/ Shop!Logout(p) \/ Shop!Walk(p) \/ Shop!CloseShop(p)
  BY <1>2, LogoutShopKeeps
<1>3. CASE \E p \in Players : Shop!Purchase(p) \/ Shop!Sell(p)
  BY <1>3, MoneyKeeps
<1>4. CASE \E n \in Npcs, p \in Players : Shop!OpenShopWindow(n, p)
  BY <1>4, OpenShopKeeps
<1>5. CASE \E n \in Npcs : Shop!NpcDisappear(n)
  BY <1>5, NpcDisappearKeeps
<1>6. CASE \E n \in Npcs : Shop!NpcAppear(n)
  BY <1>6, NpcAppearKeeps
<1>7. CASE Shop!Reload
  BY <1>7, ReloadShopsKeeps
<1> QED
  BY <1>1, <1>2, <1>3, <1>4, <1>5, <1>6, <1>7 DEF Shop!Next

-----------------------------------------------------------------------------
(* The talks of an npc (module Talks).                                       *)

\* A set of numbers has a least one; one closed under successor has them all.
LEMMA LeastOf ==
  ASSUME NEW S \in SUBSET Nat, S # {}
  PROVE  \E x \in S : \A y \in S : x <= y
<1> DEFINE R == OpToRel(<, Nat)
<1>1. IsWellFoundedOn(R, Nat)
  BY NatLessThanWellFounded
<1> HIDE DEF R
<1>2. PICK x \in S : \A y \in S : ~(<<y, x>> \in R)
  BY <1>1, WFMin
<1>3. \A y \in S : ~(y < x)
  BY <1>2 DEF R, OpToRel
<1> QED
  BY <1>3

LEMMA NatInductionOnSets ==
  ASSUME NEW S \in SUBSET Nat, 0 \in S, \A n \in S : n + 1 \in S
  PROVE  S = Nat
<1>1. SUFFICES ASSUME Nat \ S # {} PROVE FALSE
  OBVIOUS
<1>2. PICK x \in Nat \ S : \A y \in Nat \ S : x <= y
  BY <1>1, LeastOf
<1>3. x # 0 /\ x - 1 \in Nat /\ ~(x <= x - 1) /\ (x - 1) + 1 = x
  BY SMT
<1>4. x - 1 \in S
  BY <1>2, <1>3
<1> QED
  BY <1>3, <1>4

Texts == Talk!Words \cup {Talk!NoText}
TalkRecord ==
  [who : Members \cup {Talk!Nobody}, text : Texts, prev : Texts, isIdle : BOOLEAN,
   isQueued : BOOLEAN, last : {"never", "lately", "long ago"}]

In(e, q) == \E i \in 1 .. Len(q) : q[i] = e

\* One talk for each player, one place in the queue.
OneEach(talks) ==
  \A i, j \in 1 .. Len(talks) :
    i # j => talks[i].who = Talk!Nobody \/ talks[i].who # talks[j].who
InLine(q) == \A i, j \in 1 .. Len(q) : i # j => q[i] # q[j]

TalksType ==
  [at : [Members -> {"near", "far", "out"}], talks : Seq(TalkRecord), queue : Seq(Members),
   focus : Members \cup {Talk!Nobody}]

TalksSound(s) ==
  /\ s \in TalksType
  /\ OneEach(s.talks) /\ InLine(s.queue)
  /\ \A i \in 1 .. Len(s.talks) : s.talks[i].isQueued => In(s.talks[i].who, s.queue)

LEMMA TalksSoundAgrees ==
  ASSUME TalksSound(w)
  PROVE  Talk!WaitersAreQueued
<1>1. w.talks \in Seq(TalkRecord) /\ w.queue \in Seq(Members)
  BY DEF TalksSound, TalksType
<1>2. DOMAIN w.talks = 1 .. Len(w.talks) /\ DOMAIN w.queue = 1 .. Len(w.queue)
  BY <1>1
<1> QED
  BY <1>2 DEF TalksSound, OneEach, InLine, In, Talk!WaitersAreQueued, Talk!Contains

LEMMA TalksInit ==
  ASSUME Talk!Init
  PROVE  TalksSound(w)
BY DEF Talk!Init, TalksSound, TalksType, OneEach, InLine

\* One talk more, of nobody or of one who has none.
LEMMA OneTalkMore ==
  ASSUME NEW T \in Seq(TalkRecord), NEW x \in TalkRecord, OneEach(T),
         x.who = Talk!Nobody \/ \A i \in 1 .. Len(T) : T[i].who # x.who
  PROVE  /\ Append(T, x) \in Seq(TalkRecord) /\ Len(Append(T, x)) = Len(T) + 1
         /\ \A i \in 1 .. Len(T) : Append(T, x)[i] = T[i]
         /\ Append(T, x)[Len(T) + 1] = x
         /\ OneEach(Append(T, x))
<1> DEFINE U == Append(T, x)
<1>1. /\ U \in Seq(TalkRecord) /\ Len(U) = Len(T) + 1 /\ Len(T) \in Nat
      /\ \A i \in 1 .. Len(T) : U[i] = T[i]
      /\ U[Len(T) + 1] = x
  OBVIOUS
<1> HIDE DEF U
<1>2. ASSUME NEW i \in 1 .. Len(U), NEW j \in 1 .. Len(U), i # j, U[i].who # Talk!Nobody
      PROVE  U[i].who # U[j].who
  <2>1. CASE i = Len(T) + 1
    <3>1. j \in 1 .. Len(T) /\ U[j] = T[j] /\ U[i] = x
      BY <1>1, <1>2, <2>1
    <3> QED
      BY <1>2, <3>1
  <2>2. CASE j = Len(T) + 1
    <3>1. i \in 1 .. Len(T) /\ U[i] = T[i] /\ U[j] = x
      BY <1>1, <1>2, <2>2
    <3> QED
      BY <1>2, <3>1
  <2>3. CASE i # Len(T) + 1 /\ j # Len(T) + 1
    <3>1. i \in 1 .. Len(T) /\ j \in 1 .. Len(T) /\ U[i] = T[i] /\ U[j] = T[j]
      BY <1>1, <2>3
    <3> QED
      BY <1>2, <3>1 DEF OneEach
  <2> QED
    BY <2>1, <2>2, <2>3
<1> QED
  BY <1>1, <1>2 DEF U, OneEach

\* The same talks, with other words.
LEMMA SameTalkers ==
  ASSUME NEW T \in Seq(TalkRecord), NEW U \in Seq(TalkRecord), Len(U) = Len(T), OneEach(T),
         \A i \in 1 .. Len(T) : U[i].who = T[i].who
  PROVE  OneEach(U)
BY DEF OneEach

LEMMA TalkOfFacts ==
  ASSUME NEW T \in Seq(TalkRecord), NEW p \in Members
  PROVE  /\ Talk!TalkOf(T, p) \in 0 .. Len(T)
         /\ Talk!TalkOf(T, p) = 0 => \A i \in 1 .. Len(T) : T[i].who # p
         /\ Talk!TalkOf(T, p) # 0 => T[Talk!TalkOf(T, p)].who = p
<1> DEFINE at == {i \in DOMAIN T : T[i].who = p}
<1>1. DOMAIN T = 1 .. Len(T) /\ Len(T) \in Nat
  OBVIOUS
<1>2. CASE at = {}
  BY <1>1, <1>2 DEF Talk!TalkOf
<1>3. CASE at # {}
  <2>1. at \in SUBSET Nat
    BY <1>1
  <2>2. \E i \in at : \A j \in at : i <= j
    BY <1>3, <2>1, LeastOf
  <2>3. Talk!TalkOf(T, p) = CHOOSE i \in at : \A j \in at : i <= j
    BY <1>3 DEF Talk!TalkOf
  <2>4. Talk!TalkOf(T, p) \in at
    BY <2>2, <2>3
  <2> QED
    BY <1>1, <2>4
<1> QED
  BY <1>2, <1>3

LEMMA ExecutedFacts ==
  ASSUME NEW x \in TalkRecord, NEW r
  PROVE  /\ Talk!Executed(x, r) \in TalkRecord
         /\ Talk!Executed(x, r).who = x.who /\ Talk!Executed(x, r).isQueued = x.isQueued
<1> DEFINE b == r \in Idling
<1>1. Talk!Executed(x, r) = x \/ Talk!Executed(x, r) = [x EXCEPT !.isIdle = b, !.last = "lately"]
  BY DEF Talk!Executed
<1>2. b \in BOOLEAN
  OBVIOUS
<1> HIDE DEF b
<1> QED
  BY <1>1, <1>2 DEF TalkRecord

LEMMA NewTalkType ==
  ASSUME NEW p \in Members \cup {Talk!Nobody}
  PROVE  Talk!NewTalk(p) \in TalkRecord /\ Talk!NewTalk(p).who = p /\ ~Talk!NewTalk(p).isQueued
BY DEF Talk!NewTalk, TalkRecord, Texts

\* A talk changes, but for who is told to wait.
LEMMA OneTalkChanges ==
  ASSUME NEW T \in Seq(TalkRecord), NEW k \in 1 .. Len(T), NEW x \in TalkRecord, OneEach(T),
         x.who = T[k].who
  PROVE  /\ [T EXCEPT ![k] = x] \in Seq(TalkRecord) /\ Len([T EXCEPT ![k] = x]) = Len(T)
         /\ \A i \in 1 .. Len(T) : [T EXCEPT ![k] = x][i] = IF i = k THEN x ELSE T[i]
         /\ OneEach([T EXCEPT ![k] = x])
<1> DEFINE U == [T EXCEPT ![k] = x]
<1>1. /\ U \in Seq(TalkRecord) /\ Len(U) = Len(T)
      /\ \A i \in 1 .. Len(T) : U[i] = IF i = k THEN x ELSE T[i]
  OBVIOUS
<1> HIDE DEF U
<1>2. OneEach(U)
  BY <1>1, SameTalkers
<1> QED
  BY <1>1, <1>2 DEF U

\* The talks and their queue: all that TalksSound says of a state.
Queued(T, q) == \A i \in 1 .. Len(T) : T[i].isQueued => In(T[i].who, q)

LEMMA SpokenFacts ==
  ASSUME NEW T \in Seq(TalkRecord), OneEach(T), NEW p \in Members, NEW named \in BOOLEAN,
         NEW r, NEW q, Queued(T, q)
  PROVE  /\ Talk!Told(T, p, named, r) \in Seq(TalkRecord)
         /\ OneEach(Talk!Told(T, p, named, r)) /\ Queued(Talk!Told(T, p, named, r), q)
         /\ named => Talk!TalkOf(Talk!Told(T, p, named, r), p) \in 1 .. Len(Talk!Told(T, p, named, r))
<1> DEFINE k == Talk!TalkOf(T, p)
           U == Talk!Told(T, p, named, r)
<1>1. /\ k \in 0 .. Len(T) /\ Len(T) \in Nat
      /\ k = 0 => \A i \in 1 .. Len(T) : T[i].who # p
      /\ k # 0 => T[k].who = p
  BY TalkOfFacts
<1>2. CASE k # 0
  <2> DEFINE x == Talk!Executed(T[k], r)
  <2>1. k \in 1 .. Len(T) /\ T[k] \in TalkRecord
    BY <1>1, <1>2
  <2>2. x \in TalkRecord /\ x.who = T[k].who /\ x.isQueued = T[k].isQueued
    BY <2>1, ExecutedFacts
  <2>3. U = [T EXCEPT ![k] = x]
    BY <1>2 DEF Talk!Told
  <2> HIDE DEF x, k, U
  <2>8. /\ [T EXCEPT ![k] = x] \in Seq(TalkRecord) /\ Len([T EXCEPT ![k] = x]) = Len(T)
        /\ \A i \in 1 .. Len(T) : [T EXCEPT ![k] = x][i] = IF i = k THEN x ELSE T[i]
        /\ OneEach([T EXCEPT ![k] = x])
    BY <2>1, <2>2, OneTalkChanges, Zenon
  <2>4. /\ U \in Seq(TalkRecord) /\ Len(U) = Len(T) /\ OneEach(U)
        /\ \A i \in 1 .. Len(T) : U[i] = IF i = k THEN x ELSE T[i]
    BY <2>3, <2>8
  <2>5. Queued(U, q)
    BY <2>2, <2>4 DEF Queued
  <2>6. U[k].who = p
    BY <1>1, <1>2, <2>1, <2>2, <2>4
  <2>7. Talk!TalkOf(U, p) \in 1 .. Len(U)
    BY <2>1, <2>4, <2>6, TalkOfFacts
  <2> QED
    BY <2>4, <2>5, <2>7 DEF U
<1>3. CASE k = 0
  <2> DEFINE n == IF named THEN p ELSE Talk!Nobody
             x == Talk!Executed(Talk!NewTalk(n), r)
  <2>1. n \in Members \cup {Talk!Nobody}
    OBVIOUS
  <2>2. x \in TalkRecord /\ x.who = n /\ ~x.isQueued
    BY <2>1, NewTalkType, ExecutedFacts
  <2>3. U = Append(T, x)
    BY <1>3 DEF Talk!Told
  <2>4. x.who = Talk!Nobody \/ \A i \in 1 .. Len(T) : T[i].who # x.who
    BY <1>1, <1>3, <2>2
  <2>9. named => x.who = p
    BY <2>2
  <2> HIDE DEF x, k, U
  <2>5. /\ U \in Seq(TalkRecord) /\ Len(U) = Len(T) + 1 /\ OneEach(U)
        /\ \A i \in 1 .. Len(T) : U[i] = T[i]
        /\ U[Len(T) + 1] = x
    BY <2>2, <2>3, <2>4, OneTalkMore
  <2>6. Queued(U, q)
    <3>1. ASSUME NEW i \in 1 .. Len(U), U[i].isQueued
          PROVE  i \in 1 .. Len(T)
      BY <1>1, <2>2, <2>5, <3>1
    <3> QED
      BY <2>5, <3>1 DEF Queued
  <2>7. named => Talk!TalkOf(U, p) \in 1 .. Len(U)
    <3>1. Len(T) + 1 \in 1 .. Len(U)
      BY <1>1, <2>5
    <3> QED
      BY <2>5, <2>9, <3>1, TalkOfFacts
  <2> QED
    BY <2>5, <2>6, <2>7 DEF U
<1> QED
  BY <1>2, <1>3

LEMMA TalksOf ==
  ASSUME TalksSound(w)
  PROVE  /\ w.talks \in Seq(TalkRecord) /\ w.queue \in Seq(Members)
         /\ w.at \in [Members -> {"near", "far", "out"}]
         /\ OneEach(w.talks) /\ InLine(w.queue) /\ Queued(w.talks, w.queue)
         /\ w = [at |-> w.at, talks |-> w.talks, queue |-> w.queue, focus |-> w.focus]
         /\ w.focus \in Members \cup {Talk!Nobody}
BY DEF TalksSound, TalksType, Queued

LEMMA SoundTalks ==
  ASSUME NEW at \in [Members -> {"near", "far", "out"}], NEW T \in Seq(TalkRecord),
         NEW q \in Seq(Members), NEW f \in Members \cup {Talk!Nobody},
         OneEach(T), InLine(q), Queued(T, q)
  PROVE  TalksSound([at |-> at, talks |-> T, queue |-> q, focus |-> f])
BY DEF TalksSound, TalksType, Queued

LEMMA ComeKeeps ==
  ASSUME TalksSound(w), NEW p \in Members, Talk!Come(p)
  PROVE  TalksSound(w)'
<1> DEFINE U == Talk!Told(w.talks, p, TRUE, "enter")
           a == [w.at EXCEPT ![p] = "near"]
<1>1. U \in Seq(TalkRecord) /\ OneEach(U) /\ Queued(U, w.queue)
  BY TalksOf, SpokenFacts
<1>2. a \in [Members -> {"near", "far", "out"}]
  BY TalksOf
<1>3. w' = [w EXCEPT !.at[p] = "near", !.talks = U]
  BY DEF Talk!Come
<1> HIDE DEF U
<1>4. w' = [at |-> a, talks |-> U, queue |-> w.queue, focus |-> w.focus]
  BY <1>3, TalksOf
<1> HIDE DEF a
<1>5. TalksSound([at |-> a, talks |-> U, queue |-> w.queue, focus |-> w.focus])
  BY <1>1, <1>2, TalksOf, SoundTalks
<1> QED
  BY <1>4, <1>5

LEMMA GoKeeps ==
  ASSUME TalksSound(w), NEW p \in Members, Talk!Go(p)
  PROVE  TalksSound(w)'
<1> DEFINE U == Talk!Told(w.talks, p, TRUE, "leave")
<1>1. U \in Seq(TalkRecord) /\ OneEach(U) /\ Queued(U, w.queue)
  BY TalksOf, SpokenFacts
<1>2. PICK place \in {"far", "out"} : w' = [w EXCEPT !.at[p] = place, !.talks = U]
  BY DEF Talk!Go
<1> DEFINE a == [w.at EXCEPT ![p] = place]
<1>3. a \in [Members -> {"near", "far", "out"}]
  BY TalksOf
<1> HIDE DEF U
<1>4. w' = [at |-> a, talks |-> U, queue |-> w.queue, focus |-> w.focus]
  BY <1>2, TalksOf
<1> HIDE DEF a
<1>5. TalksSound([at |-> a, talks |-> U, queue |-> w.queue, focus |-> w.focus])
  BY <1>1, <1>3, TalksOf, SoundTalks
<1> QED
  BY <1>4, <1>5

LEMMA LogoutElsewhereKeeps ==
  ASSUME TalksSound(w), NEW p \in Members, Talk!LogoutElsewhere(p)
  PROVE  TalksSound(w)'
<1> DEFINE a == [w.at EXCEPT ![p] = "out"]
<1>1. a \in [Members -> {"near", "far", "out"}]
  BY TalksOf
<1>2. w' = [at |-> a, talks |-> w.talks, queue |-> w.queue, focus |-> w.focus]
  BY TalksOf DEF Talk!LogoutElsewhere
<1> HIDE DEF a
<1>3. TalksSound([at |-> a, talks |-> w.talks, queue |-> w.queue, focus |-> w.focus])
  BY <1>1, TalksOf, SoundTalks
<1> QED
  BY <1>2, <1>3

LEMMA TalkCloses ==
  ASSUME TalksSound(w), NEW p \in Members, Talk!CloseChannel(p)
  PROVE  TalksSound(w)'
<1> DEFINE U == Talk!Told(w.talks, p, FALSE, "close")
<1>1. U \in Seq(TalkRecord) /\ OneEach(U) /\ Queued(U, w.queue)
  BY TalksOf, SpokenFacts
<1>2. w' = [w EXCEPT !.talks = U]
  BY DEF Talk!CloseChannel
<1> HIDE DEF U
<1>3. w' = [at |-> w.at, talks |-> U, queue |-> w.queue, focus |-> w.focus]
  BY <1>2, TalksOf
<1>4. TalksSound([at |-> w.at, talks |-> U, queue |-> w.queue, focus |-> w.focus])
  BY <1>1, TalksOf, SoundTalks
<1> QED
  BY <1>3, <1>4

LEMMA SayKeeps ==
  ASSUME TalksSound(w), NEW p \in Members, NEW word \in Talk!Words, Talk!Say(p, word)
  PROVE  TalksSound(w)'
<1> DEFINE T == Talk!Told(w.talks, p, TRUE, "say")
           k == Talk!TalkOf(T, p)
           U == [T EXCEPT ![k].text = word]
<1>1. T \in Seq(TalkRecord) /\ OneEach(T) /\ Queued(T, w.queue) /\ k \in 1 .. Len(T)
  BY TalksOf, SpokenFacts
<1>2. w' = [w EXCEPT !.talks = U]
  BY DEF Talk!Say
<1> HIDE DEF T, k
<1> DEFINE x == [T[k] EXCEPT !.text = word]
<1>3. T[k] \in TalkRecord
  BY <1>1
<1>4. x \in TalkRecord /\ x.who = T[k].who /\ x.isQueued = T[k].isQueued
  BY <1>3 DEF TalkRecord, Texts
<1>5. U = [T EXCEPT ![k] = x]
  BY <1>1
<1> HIDE DEF x, U
<1>6. /\ [T EXCEPT ![k] = x] \in Seq(TalkRecord) /\ Len([T EXCEPT ![k] = x]) = Len(T)
      /\ \A i \in 1 .. Len(T) : [T EXCEPT ![k] = x][i] = IF i = k THEN x ELSE T[i]
      /\ OneEach([T EXCEPT ![k] = x])
  BY <1>1, <1>4, OneTalkChanges, Zenon
<1>7. U \in Seq(TalkRecord) /\ OneEach(U) /\ Queued(U, w.queue)
  BY <1>1, <1>4, <1>5, <1>6 DEF Queued
<1>8. w' = [at |-> w.at, talks |-> U, queue |-> w.queue, focus |-> w.focus]
  BY <1>2, TalksOf
<1>9. TalksSound([at |-> w.at, talks |-> U, queue |-> w.queue, focus |-> w.focus])
  BY <1>7, TalksOf, SoundTalks
<1> QED
  BY <1>8, <1>9

\* A sequence of talks, each of them with who talks and whether he waits as they were.
LEMMA OtherTalks ==
  ASSUME NEW T \in Seq(TalkRecord), NEW U, OneEach(T), NEW q, Queued(T, q),
         U = [i \in DOMAIN T |-> U[i]],
         \A i \in 1 .. Len(T) : /\ U[i] \in TalkRecord /\ U[i].who = T[i].who
                                /\ U[i].isQueued = T[i].isQueued
  PROVE  U \in Seq(TalkRecord) /\ Len(U) = Len(T) /\ OneEach(U) /\ Queued(U, q)
<1>1. DOMAIN T = 1 .. Len(T) /\ Len(T) \in Nat
  OBVIOUS
<1>2. U \in [1 .. Len(T) -> TalkRecord]
  BY <1>1
<1>3. U \in Seq(TalkRecord) /\ Len(U) = Len(T)
  BY <1>1, <1>2
<1> QED
  BY <1>3, SameTalkers DEF Queued

LEMMA WaitKeeps ==
  ASSUME TalksSound(w), Talk!Wait
  PROVE  TalksSound(w)'
<1> DEFINE T == w.talks
           later(x) == [x EXCEPT !.last = IF @ = "lately" THEN "long ago" ELSE @]
           U == [i \in DOMAIN T |-> later(T[i])]
<1>1. w' = [w EXCEPT !.talks = U]
  BY DEF Talk!Wait
<1>2. T \in Seq(TalkRecord) /\ OneEach(T) /\ Queued(T, w.queue)
  BY TalksOf
<1>3. ASSUME NEW x \in TalkRecord
      PROVE  later(x) \in TalkRecord /\ later(x).who = x.who /\ later(x).isQueued = x.isQueued
  <2> DEFINE l == IF x.last = "lately" THEN "long ago" ELSE x.last
  <2>1. l \in {"never", "lately", "long ago"} /\ later(x) = [x EXCEPT !.last = l]
    BY <1>3 DEF TalkRecord
  <2> HIDE DEF l, later
  <2>2. later(x) \in TalkRecord /\ later(x).who = x.who /\ later(x).isQueued = x.isQueued
    BY <2>1 DEF TalkRecord
  <2> QED
    BY <2>2
<1>4. \A i \in 1 .. Len(T) : U[i] = later(T[i]) /\ T[i] \in TalkRecord
  <2>1. DOMAIN T = 1 .. Len(T)
    BY <1>2
  <2>2. \A i \in 1 .. Len(T) : T[i] \in TalkRecord
    BY <1>2
  <2> HIDE DEF T, later
  <2> QED
    BY <2>1, <2>2
<1>5. U = [i \in DOMAIN T |-> U[i]]
  OBVIOUS
<1> HIDE DEF T, U, later
<1>6. \A i \in 1 .. Len(T) : /\ U[i] \in TalkRecord /\ U[i].who = T[i].who
                             /\ U[i].isQueued = T[i].isQueued
  BY <1>3, <1>4
<1>7. U \in Seq(TalkRecord) /\ OneEach(U) /\ Queued(U, w.queue)
  BY <1>2, <1>5, <1>6, OtherTalks
<1>8. w' = [at |-> w.at, talks |-> U, queue |-> w.queue, focus |-> w.focus]
  BY <1>1, TalksOf
<1>9. TalksSound([at |-> w.at, talks |-> U, queue |-> w.queue, focus |-> w.focus])
  BY <1>7, TalksOf, SoundTalks
<1> QED
  BY <1>8, <1>9

LEMMA TalksReload ==
  ASSUME TalksSound(w), Talk!Reload
  PROVE  TalksSound(w)'
<1>1. w' = [at |-> w.at, talks |-> << >>, queue |-> << >>, focus |-> Talk!Nobody]
  BY TalksOf DEF Talk!Reload
<1>2. OneEach(<<>>) /\ InLine(<<>>) /\ Queued(<<>>, <<>>)
  BY DEF OneEach, InLine, Queued
<1>4. << >> \in Seq(TalkRecord) /\ << >> \in Seq(Members) /\ Talk!Nobody \in Members \cup {Talk!Nobody}
  OBVIOUS
<1>3. TalksSound([at |-> w.at, talks |-> << >>, queue |-> << >>, focus |-> Talk!Nobody])
  BY <1>2, <1>4, TalksOf, SoundTalks, Zenon
<1> QED
  BY <1>1, <1>3

\* A state of the think, in the n-th turn of the N of its loop.  Whoever is
\* told to wait is in the queue, unless he has left the game and his turn is
\* still to come.
Places == [Members -> {"near", "far", "out"}]
LoopRecord ==
  [at : Places, queue : Seq(Members), focus : Members \cup {Talk!Nobody}, isIdle : BOOLEAN,
   deleted : SUBSET Nat, talks : Seq(TalkRecord)]
OnHand(s, n) ==
  \A j \in 1 .. Len(s.talks) :
    j \notin s.deleted /\ s.talks[j].isQueued =>
      /\ s.talks[j].who \in Members
      /\ In(s.talks[j].who, s.queue) \/ (j > n /\ s.at[s.talks[j].who] = "out")
StillHere(s, n) ==
  \A j \in 1 .. Len(s.talks) :
    j <= n /\ j \notin s.deleted => s.talks[j].who \in Members /\ s.at[s.talks[j].who] # "out"
LoopSound(s, N, n) ==
  /\ s \in LoopRecord /\ Len(s.talks) = N
  /\ OneEach(s.talks) /\ InLine(s.queue) /\ OnHand(s, n) /\ StillHere(s, n)

LEMMA FocusKept ==
  ASSUME NEW s, NEW N \in Nat, NEW n \in Nat, LoopSound(s, N, n),
         NEW f \in Members \cup {Talk!Nobody}, NEW b \in BOOLEAN
  PROVE  LoopSound([s EXCEPT !.isIdle = b, !.focus = f], N, n)
<1> DEFINE t == [s EXCEPT !.isIdle = b, !.focus = f]
<1>1. /\ t \in LoopRecord /\ t.talks = s.talks /\ t.queue = s.queue /\ t.at = s.at
      /\ t.deleted = s.deleted
  BY DEF LoopSound, LoopRecord
<1> HIDE DEF t
<1>2. LoopSound(t, N, n)
  BY <1>1 DEF LoopSound, OnHand, StillHere
<1> QED
  BY <1>2 DEF t

\* A talk with other words.
LEMMA TalkKept ==
  ASSUME NEW s, NEW N \in Nat, NEW n \in Nat, LoopSound(s, N, n), NEW i \in 1 .. N,
         NEW x \in TalkRecord, x.who = s.talks[i].who, x.isQueued = s.talks[i].isQueued
  PROVE  LoopSound([s EXCEPT !.talks[i] = x], N, n)
<1> DEFINE t == [s EXCEPT !.talks[i] = x]
           U == [s.talks EXCEPT ![i] = x]
<1>1. s \in LoopRecord /\ s.talks \in Seq(TalkRecord) /\ Len(s.talks) = N /\ OneEach(s.talks)
  BY DEF LoopSound, LoopRecord
<1>2. /\ U \in Seq(TalkRecord) /\ Len(U) = N /\ OneEach(U)
      /\ \A j \in 1 .. N : U[j] = IF j = i THEN x ELSE s.talks[j]
  BY <1>1, OneTalkChanges, SMTT(60)
<1>3. t = [s EXCEPT !.talks = U]
  BY <1>1 DEF LoopRecord
<1> HIDE DEF U
<1>4. /\ t \in LoopRecord /\ t.talks = U /\ t.queue = s.queue /\ t.at = s.at
      /\ t.deleted = s.deleted
  BY <1>1, <1>2, <1>3 DEF LoopRecord
<1> HIDE DEF t
<1>5. \A j \in 1 .. N : U[j].who = s.talks[j].who /\ U[j].isQueued = s.talks[j].isQueued
  BY <1>2
<1>6. OnHand(t, n)
  BY <1>1, <1>2, <1>4, <1>5 DEF LoopSound, OnHand
<1>7. StillHere(t, n)
  BY <1>1, <1>2, <1>4, <1>5 DEF LoopSound, StillHere
<1>8. LoopSound(t, N, n)
  BY <1>2, <1>4, <1>6, <1>7 DEF LoopSound
<1> QED
  BY <1>8 DEF t

\* One who is answered that he has to wait gets a place in the queue.
LEMMA EnqueuedKeeps ==
  ASSUME NEW s, NEW N \in Nat, NEW n \in Nat, LoopSound(s, N, n), NEW i \in 1 .. N,
         s.talks[i].who \in Members
  PROVE  /\ LoopSound(Talk!Enqueued(s, i), N, n)
         /\ Talk!Enqueued(s, i).at = s.at /\ Talk!Enqueued(s, i).talks[i].who = s.talks[i].who
<1> DEFINE p == s.talks[i].who
           x == [s.talks[i] EXCEPT !.isQueued = TRUE]
           q == Append(s.queue, p)
           U == [s.talks EXCEPT ![i] = x]
           t == [s EXCEPT !.queue = q, !.talks = U]
<1>1. s \in LoopRecord /\ s.talks \in Seq(TalkRecord) /\ Len(s.talks) = N /\ OneEach(s.talks)
  BY DEF LoopSound, LoopRecord
<1>2. SUFFICES ASSUME ~Talk!Contains(s.queue, p)
               PROVE  LoopSound(t, N, n) /\ t.at = s.at /\ t.talks[i].who = p
  <2>1. \/ Talk!Enqueued(s, i) = s
        \/ ~Talk!Contains(s.queue, p) /\ Talk!Enqueued(s, i) = [s EXCEPT !.queue = q, !.talks[i].isQueued = TRUE]
    BY DEF Talk!Enqueued
  <2>2. [s EXCEPT !.queue = q, !.talks[i].isQueued = TRUE] = t
    <3> HIDE DEF q
    <3> QED
      BY <1>1 DEF LoopRecord
  <2> HIDE DEF t
  <2> QED
    BY <2>1, <2>2
<1>3. x \in TalkRecord /\ x.who = s.talks[i].who /\ x.isQueued
  <2>1. s.talks[i] \in TalkRecord
    BY <1>1
  <2> QED
    BY <2>1 DEF TalkRecord
<1> HIDE DEF x
<1>4. /\ U \in Seq(TalkRecord) /\ Len(U) = N /\ OneEach(U)
      /\ \A j \in 1 .. N : U[j] = IF j = i THEN x ELSE s.talks[j]
  BY <1>1, <1>3, OneTalkChanges
<1>5. \A j \in 1 .. Len(s.queue) : s.queue[j] # p
  BY <1>2 DEF Talk!Contains
<1>6. /\ s.queue \in Seq(Members) /\ q \in Seq(Members) /\ Len(q) = Len(s.queue) + 1
      /\ \A j \in 1 .. Len(s.queue) : q[j] = s.queue[j]
      /\ q[Len(s.queue) + 1] = p /\ Len(s.queue) \in Nat
  BY <1>1 DEF LoopRecord
<1>7. InLine(s.queue)
  BY DEF LoopSound
<1> HIDE DEF U, q, p
<1>8. /\ t \in LoopRecord /\ t.talks = U /\ t.queue = q /\ t.at = s.at
      /\ t.deleted = s.deleted
  BY <1>1, <1>4, <1>6 DEF LoopRecord
<1> HIDE DEF t
<1>9. InLine(q)
  <2> SUFFICES ASSUME NEW j \in 1 .. Len(q), NEW k \in 1 .. Len(q), j # k PROVE q[j] # q[k]
    BY DEF InLine
  <2>1. CASE j = Len(q)
    BY <1>5, <1>6, <2>1, SMTT(60)
  <2>2. CASE k = Len(q)
    BY <1>5, <1>6, <2>2, SMTT(60)
  <2>3. CASE j # Len(q) /\ k # Len(q)
    <3>1. j \in 1 .. Len(s.queue) /\ k \in 1 .. Len(s.queue)
      BY <1>6, <2>3
    <3> QED
      BY <1>6, <1>7, <3>1 DEF InLine
  <2> QED
    BY <2>1, <2>2, <2>3
<1>10. \A e : In(e, s.queue) => In(e, q)
  <2> TAKE e
  <2> HAVE In(e, s.queue)
  <2>1. PICK j \in 1 .. Len(s.queue) : s.queue[j] = e
    BY DEF In
  <2>2. j \in 1 .. Len(q) /\ q[j] = e
    BY <1>6, <2>1
  <2> QED
    BY <2>2 DEF In
<1>11. In(p, q)
  <2>1. Len(s.queue) + 1 \in 1 .. Len(q)
    BY <1>6
  <2> QED
    BY <1>6, <2>1 DEF In
<1>12. OnHand(t, n)
  <2> SUFFICES ASSUME NEW j \in 1 .. N, j \notin s.deleted, U[j].isQueued
               PROVE  /\ U[j].who \in Members
                      /\ In(U[j].who, q) \/ (j > n /\ s.at[U[j].who] = "out")
    BY <1>4, <1>8 DEF OnHand
  <2>1. CASE j = i
    BY <1>3, <1>4, <1>11, <2>1 DEF p
  <2>2. CASE j # i
    BY <1>1, <1>4, <1>10, <2>2 DEF LoopSound, OnHand
  <2> QED
    BY <2>1, <2>2
<1>13. StillHere(t, n)
  <2>1. \A j \in 1 .. N : U[j].who = s.talks[j].who
    BY <1>3, <1>4
  <2> QED
    BY <1>1, <1>4, <1>8, <2>1 DEF LoopSound, StillHere
<1>14. U[i].who = p
  BY <1>3, <1>4 DEF p
<1> QED
  BY <1>4, <1>8, <1>9, <1>12, <1>13, <1>14 DEF LoopSound

LEMMA AnsweredKeeps ==
  ASSUME NEW s, NEW N \in Nat, NEW n \in Nat, LoopSound(s, N, n), NEW i \in 1 .. N,
         s.talks[i].who \in Members
  PROVE  /\ LoopSound(Talk!Answered(s, i), N, n)
         /\ Talk!Answered(s, i).at = s.at /\ Talk!Answered(s, i).talks[i].who = s.talks[i].who
<1> DEFINE talk == s.talks[i]
           done(t) == [t EXCEPT !.prev = talk.text, !.text = Talk!NoText]
<1>1. s \in LoopRecord /\ s.talks \in Seq(TalkRecord) /\ Len(s.talks) = N /\ talk \in TalkRecord
  BY DEF LoopSound, LoopRecord
<1>2. ASSUME NEW r
      PROVE  /\ done(Talk!Executed(talk, r)) \in TalkRecord
             /\ done(Talk!Executed(talk, r)).who = talk.who
             /\ done(Talk!Executed(talk, r)).isQueued = talk.isQueued
  <2> DEFINE y == Talk!Executed(talk, r)
  <2>1. y \in TalkRecord /\ y.who = talk.who /\ y.isQueued = talk.isQueued
    BY <1>1, ExecutedFacts
  <2> HIDE DEF y
  <2>2. talk.text \in Texts /\ Talk!NoText \in Texts
    BY <1>1 DEF TalkRecord, Texts
  <2>3. done(y) \in TalkRecord /\ done(y).who = talk.who /\ done(y).isQueued = talk.isQueued
    BY <2>1, <2>2 DEF TalkRecord
  <2> QED
    BY <2>3 DEF y
<1>3. CASE talk.text = Talk!NoText
  BY <1>3 DEF Talk!Answered
<1>4. CASE talk.text # Talk!NoText /\ Talk!hasBusyReply /\ ~s.isIdle
  <2> DEFINE x == done(Talk!Executed(talk, "busy"))
             t == [s EXCEPT !.talks[i] = x]
  <2>1. Talk!Answered(s, i) = Talk!Enqueued(t, i)
    BY <1>4 DEF Talk!Answered
  <2>2. x \in TalkRecord /\ x.who = talk.who /\ x.isQueued = talk.isQueued
    BY <1>2
  <2> HIDE DEF x, done
  <2>3. LoopSound(t, N, n)
    BY <2>2, TalkKept
  <2>4. t.talks[i] = x /\ t.at = s.at
    BY <1>1 DEF LoopRecord
  <2> HIDE DEF t
  <2>5. /\ LoopSound(Talk!Enqueued(t, i), N, n)
        /\ Talk!Enqueued(t, i).at = t.at /\ Talk!Enqueued(t, i).talks[i].who = t.talks[i].who
    BY <2>2, <2>3, <2>4, EnqueuedKeeps
  <2> QED
    BY <2>1, <2>2, <2>4, <2>5
<1>5. CASE talk.text # Talk!NoText /\ ~(Talk!hasBusyReply /\ ~s.isIdle)
  <2> DEFINE x == done(Talk!Executed(talk, talk.text))
             t == [s EXCEPT !.talks[i] = x]
             f == IF talk.text \in Responses THEN talk.who ELSE s.focus
  <2>1. Talk!Answered(s, i) = [s EXCEPT !.talks[i] = x, !.focus = f]
    BY <1>5 DEF Talk!Answered
  <2>2. x \in TalkRecord /\ x.who = talk.who /\ x.isQueued = talk.isQueued
    BY <1>2
  <2>3. f \in Members \cup {Talk!Nobody}
    BY <1>1 DEF LoopRecord
  <2> HIDE DEF x, done, f
  <2>4. LoopSound(t, N, n)
    BY <2>2, TalkKept
  <2>5. t.talks[i] = x /\ t.at = s.at /\ t.isIdle = s.isIdle /\ s.isIdle \in BOOLEAN
    BY <1>1 DEF LoopRecord
  <2>6. Talk!Answered(s, i) = [t EXCEPT !.isIdle = s.isIdle, !.focus = f]
    BY <1>1, <2>1 DEF LoopRecord
  <2>7. t \in LoopRecord
    BY <2>4 DEF LoopSound
  <2> HIDE DEF t
  <2>8. LoopSound([t EXCEPT !.isIdle = s.isIdle, !.focus = f], N, n)
    BY <2>3, <2>4, <2>5, FocusKept
  <2>9. /\ [t EXCEPT !.isIdle = s.isIdle, !.focus = f].at = t.at
        /\ [t EXCEPT !.isIdle = s.isIdle, !.focus = f].talks = t.talks
    BY <2>7 DEF LoopRecord
  <2> QED
    BY <2>2, <2>5, <2>6, <2>8, <2>9
<1> QED
  BY <1>3, <1>4, <1>5

LEMMA LookedKeeps ==
  ASSUME NEW s, NEW N \in Nat, NEW n \in Nat, LoopSound(s, N, n), NEW i \in 1 .. N
  PROVE  /\ LoopSound(Talk!Looked(s, i), N, n)
         /\ Talk!Looked(s, i).at = s.at /\ Talk!Looked(s, i).talks = s.talks
<1> DEFINE f == IF Talk!hasBusyReply THEN s.talks[i].who ELSE s.focus
<1>1. s \in LoopRecord /\ s.talks \in Seq(TalkRecord) /\ Len(s.talks) = N
  BY DEF LoopSound, LoopRecord
<1>2. Talk!Looked(s, i) = s \/ Talk!Looked(s, i) = [s EXCEPT !.isIdle = FALSE, !.focus = f]
  BY DEF Talk!Looked
<1>3. f \in Members \cup {Talk!Nobody}
  <2>1. s.talks[i] \in TalkRecord
    BY <1>1
  <2> QED
    BY <1>1, <2>1 DEF LoopRecord, TalkRecord
<1> HIDE DEF f
<1>4. LoopSound([s EXCEPT !.isIdle = FALSE, !.focus = f], N, n)
  BY <1>3, FocusKept
<1>5. /\ [s EXCEPT !.isIdle = FALSE, !.focus = f].at = s.at
      /\ [s EXCEPT !.isIdle = FALSE, !.focus = f].talks = s.talks
  BY <1>1 DEF LoopRecord
<1> QED
  BY <1>2, <1>4, <1>5

\* Who is served is the first of the queue that is in the game and has a talk;
\* those before him leave the queue with him still at its head.
LEMMA ServedFacts ==
  ASSUME NEW s, NEW N \in Nat, NEW n \in Nat, LoopSound(s, N, n)
  PROVE  \/ /\ Talk!Served(s) = [s EXCEPT !.queue = <<>>]
            /\ \A m \in 1 .. Len(s.queue) : ~Talk!Waiting(s, s.queue[m])
         \/ \E first \in 1 .. Len(s.queue) :
              /\ \A m \in 1 .. Len(s.queue) : m < first => ~Talk!Waiting(s, s.queue[m])
              /\ Talk!Served(s) =
                   [s EXCEPT
                     !.queue = SubSeq(s.queue, first, Len(s.queue)),
                     !.talks = [i \in DOMAIN s.talks |->
                         IF s.talks[i].who # s.queue[first] THEN s.talks[i]
                         ELSE [s.talks[i] EXCEPT !.text = s.talks[i].prev, !.isQueued = FALSE]]]
<1> DEFINE I == {m \in 1 .. Len(s.queue) : Talk!Waiting(s, s.queue[m])}
           first == Talk!SelectInSeq(s.queue, LAMBDA p : Talk!Waiting(s, p))
<1>1. s.queue \in Seq(Members) /\ Len(s.queue) \in Nat
  BY DEF LoopSound, LoopRecord
<1>2. first = IF I # {} THEN Talk!Min(I) ELSE 0
  BY DEF Talk!SelectInSeq
<1>3. CASE I = {}
  <2>1. first = 0
    BY <1>2, <1>3
  <2>2. Talk!Served(s) = [s EXCEPT !.queue = <<>>]
    BY <2>1 DEF Talk!Served
  <2> QED
    BY <1>3, <2>2
<1>4. CASE I # {}
  <2>1. I \in SUBSET Nat
    BY <1>1
  <2>2. \E x \in I : \A y \in I : x <= y
    BY <1>4, <2>1, LeastOf
  <2>3. first \in I /\ \A y \in I : first <= y
    BY <1>2, <1>4, <2>2 DEF Talk!Min
  <2>4. first # 0 /\ first \in 1 .. Len(s.queue)
    BY <1>1, <2>3
  <2>5. Talk!Served(s) =
          [s EXCEPT
            !.queue = SubSeq(s.queue, first, Len(s.queue)),
            !.talks = [i \in DOMAIN s.talks |->
                IF s.talks[i].who # s.queue[first] THEN s.talks[i]
                ELSE [s.talks[i] EXCEPT !.text = s.talks[i].prev, !.isQueued = FALSE]]]
    BY <2>4 DEF Talk!Served
  <2> HIDE DEF first
  <2>6. \A m \in 1 .. Len(s.queue) : m < first => ~Talk!Waiting(s, s.queue[m])
    BY <1>1, <2>3, <2>4
  <2> QED
    BY <2>4, <2>5, <2>6
<1> QED
  BY <1>3, <1>4

\* Nobody whose talk is not yet done leaves the queue who is in the game.
LEMMA Passed ==
  ASSUME NEW s, NEW N \in Nat, NEW n \in Nat, LoopSound(s, N, n), NEW m \in 1 .. Len(s.queue),
         ~Talk!Waiting(s, s.queue[m]), NEW j \in 1 .. N, j \notin s.deleted,
         s.talks[j].who = s.queue[m]
  PROVE  s.talks[j].who \in Members /\ s.at[s.talks[j].who] = "out" /\ j > n
<1>1. s \in LoopRecord /\ s.talks \in Seq(TalkRecord) /\ Len(s.talks) = N /\ s.queue \in Seq(Members)
  BY DEF LoopSound, LoopRecord
<1>2. DOMAIN s.talks = 1 .. N /\ s.queue[m] \in Members
  BY <1>1
<1>3. s.at[s.queue[m]] = "out"
  BY <1>2 DEF Talk!Waiting, Talk!InTalks
<1>4. ~(j <= n)
  BY <1>1, <1>2, <1>3 DEF LoopSound, StillHere
<1> QED
  BY <1>2, <1>3, <1>4

LEMMA ServedKeeps ==
  ASSUME NEW s, NEW N \in Nat, NEW n \in Nat, LoopSound(s, N, n)
  PROVE  LoopSound(Talk!Served(s), N, n) /\ Talk!Served(s).at = s.at /\ Talk!Served(s).deleted = s.deleted
<1>1. /\ s \in LoopRecord /\ s.talks \in Seq(TalkRecord) /\ Len(s.talks) = N
      /\ s.queue \in Seq(Members) /\ OneEach(s.talks) /\ InLine(s.queue) /\ Len(s.queue) \in Nat
  BY DEF LoopSound, LoopRecord
<1>2. CASE /\ Talk!Served(s) = [s EXCEPT !.queue = <<>>]
           /\ \A m \in 1 .. Len(s.queue) : ~Talk!Waiting(s, s.queue[m])
  <2> DEFINE t == [s EXCEPT !.queue = <<>>]
  <2>1. <<>> \in Seq(Members) /\ InLine(<<>>)
    BY DEF InLine
  <2>2. /\ t \in LoopRecord /\ t.talks = s.talks /\ t.queue = <<>> /\ t.at = s.at
        /\ t.deleted = s.deleted
    BY <1>1, <2>1 DEF LoopRecord
  <2>3. ASSUME NEW j \in 1 .. N, j \notin s.deleted, s.talks[j].isQueued
        PROVE  s.talks[j].who \in Members /\ j > n /\ s.at[s.talks[j].who] = "out"
    <3>1. \/ s.talks[j].who \in Members /\ j > n /\ s.at[s.talks[j].who] = "out"
          \/ In(s.talks[j].who, s.queue)
      BY <1>1, <2>3 DEF LoopSound, OnHand
    <3>2. ASSUME NEW m \in 1 .. Len(s.queue), s.queue[m] = s.talks[j].who
          PROVE  s.talks[j].who \in Members /\ j > n /\ s.at[s.talks[j].who] = "out"
      <4>1. ~Talk!Waiting(s, s.queue[m]) /\ s.talks[j].who = s.queue[m]
        BY <1>2, <3>2
      <4> HIDE DEF t
      <4> QED
        BY <2>3, <4>1, Passed
    <3> QED
      BY <3>1, <3>2 DEF In
  <2> HIDE DEF t
  <2>4. OnHand(t, n)
    BY <1>1, <2>2, <2>3 DEF OnHand
  <2>5. StillHere(t, n)
    BY <1>1, <2>2 DEF StillHere, LoopSound
  <2>6. LoopSound(t, N, n)
    BY <1>1, <2>1, <2>2, <2>4, <2>5 DEF LoopSound
  <2> QED
    BY <1>2, <2>2, <2>6 DEF t
<1>3. ASSUME NEW first \in 1 .. Len(s.queue),
             \A m \in 1 .. Len(s.queue) : m < first => ~Talk!Waiting(s, s.queue[m]),
             Talk!Served(s) =
               [s EXCEPT
                 !.queue = SubSeq(s.queue, first, Len(s.queue)),
                 !.talks = [i \in DOMAIN s.talks |->
                     IF s.talks[i].who # s.queue[first] THEN s.talks[i]
                     ELSE [s.talks[i] EXCEPT !.text = s.talks[i].prev, !.isQueued = FALSE]]]
      PROVE  LoopSound(Talk!Served(s), N, n) /\ Talk!Served(s).at = s.at /\ Talk!Served(s).deleted = s.deleted
  <2> DEFINE q == SubSeq(s.queue, first, Len(s.queue))
             asked(x) == [x EXCEPT !.text = x.prev, !.isQueued = FALSE]
             U == [i \in DOMAIN s.talks |->
                     IF s.talks[i].who # s.queue[first] THEN s.talks[i] ELSE asked(s.talks[i])]
             t == [s EXCEPT !.queue = q, !.talks = U]
  <2>1. Talk!Served(s) = t
    BY <1>3
  <2>2. /\ q \in Seq(Members) /\ Len(q) = Len(s.queue) - first + 1
        /\ \A k \in 1 .. Len(q) : q[k] = s.queue[first + k - 1]
    <3>1. first \in 1 .. Len(s.queue) + 1 /\ Len(s.queue) \in Nat
      BY <1>1
    <3> QED
      BY <1>1, <3>1, SubSeqProperties, SMTT(60)
  <2>3. ASSUME NEW x \in TalkRecord
        PROVE  asked(x) \in TalkRecord /\ asked(x).who = x.who /\ ~asked(x).isQueued
    BY DEF TalkRecord
  <2>4. DOMAIN s.talks = 1 .. N /\ \A i \in 1 .. N : s.talks[i] \in TalkRecord
    BY <1>1
  <2>5. /\ \A i \in 1 .. N : U[i] = IF s.talks[i].who # s.queue[first] THEN s.talks[i] ELSE asked(s.talks[i])
        /\ DOMAIN U = 1 .. N /\ U = [i \in 1 .. N |-> U[i]]
    BY <2>4
  <2> HIDE DEF asked, U
  <2>6. \A i \in 1 .. N : U[i] \in TalkRecord /\ U[i].who = s.talks[i].who
                          /\ (U[i].isQueued => s.talks[i].isQueued /\ s.talks[i].who # s.queue[first])
    BY <2>3, <2>4, <2>5
  <2>7. U \in Seq(TalkRecord) /\ Len(U) = N
    <3>1. U \in [1 .. N -> TalkRecord]
      BY <2>5, <2>6
    <3> QED
      BY <3>1
  <2>8. OneEach(U)
    BY <1>1, <2>6, <2>7, SameTalkers
  <2> HIDE DEF q
  <2>9. InLine(q)
    <3> SUFFICES ASSUME NEW j \in 1 .. Len(q), NEW k \in 1 .. Len(q), j # k PROVE q[j] # q[k]
      BY DEF InLine
    <3>0. /\ first \in 1 .. Len(s.queue) + 1 /\ Len(s.queue) \in Nat
          /\ Len(q) = Len(s.queue) - first + 1
      BY <1>1, <2>2
    <3>1. /\ first + j - 1 \in 1 .. Len(s.queue) /\ first + k - 1 \in 1 .. Len(s.queue)
          /\ first + j - 1 # first + k - 1
      BY <3>0, SMTT(40)
    <3> QED
      BY <1>1, <2>2, <3>1 DEF InLine
  <2>10. /\ t \in LoopRecord /\ t.talks = U /\ t.queue = q /\ t.at = s.at
         /\ t.deleted = s.deleted
    BY <1>1, <2>2, <2>7 DEF LoopRecord
  <2> HIDE DEF t
  <2>11. ASSUME NEW j \in 1 .. N, j \notin s.deleted, U[j].isQueued
         PROVE  /\ U[j].who \in Members
                /\ In(U[j].who, q) \/ (j > n /\ s.at[U[j].who] = "out")
    <3>1. s.talks[j].isQueued /\ U[j].who = s.talks[j].who
      BY <2>6, <2>11
    <3>2. /\ s.talks[j].who \in Members
          /\ In(s.talks[j].who, s.queue) \/ (j > n /\ s.at[s.talks[j].who] = "out")
      BY <1>1, <2>11, <3>1 DEF LoopSound, OnHand
    <3>3. ASSUME NEW m \in 1 .. Len(s.queue), s.queue[m] = s.talks[j].who
          PROVE  In(U[j].who, q) \/ (j > n /\ s.at[U[j].who] = "out")
      <4>1. CASE m < first
        <5>1. ~Talk!Waiting(s, s.queue[m]) /\ s.talks[j].who = s.queue[m]
          BY <1>3, <3>3, <4>1
        <5>2. s.at[s.talks[j].who] = "out" /\ j > n
          BY <2>11, <5>1, Passed
        <5> QED
          BY <3>1, <5>2
      <4>2. CASE ~(m < first)
        <5>1. m - first + 1 \in 1 .. Len(q) /\ first + (m - first + 1) - 1 = m
          BY <1>1, <2>2, <4>2
        <5>2. q[m - first + 1] = s.queue[m]
          BY <2>2, <5>1
        <5> QED
          BY <3>1, <3>3, <5>1, <5>2 DEF In
      <4> QED
        BY <4>1, <4>2
    <3> QED
      BY <3>1, <3>2, <3>3 DEF In
  <2>12. OnHand(t, n)
    BY <2>7, <2>10, <2>11 DEF OnHand
  <2>13. StillHere(t, n)
    BY <1>1, <2>6, <2>7, <2>10 DEF StillHere, LoopSound
  <2> QED
    BY <2>1, <2>7, <2>8, <2>9, <2>10, <2>12, <2>13 DEF LoopSound
<1> QED
  BY <1>2, <1>3, ServedFacts

\* One turn of the loop.
LEMMA TurnKeeps ==
  ASSUME NEW s, NEW N \in Nat, NEW i \in 1 .. N, LoopSound(s, N, i - 1), NEW t \in Talk!Turn(s, i)
  PROVE  LoopSound(t, N, i) /\ t.at = s.at
<1>0. i - 1 \in Nat /\ i \in Nat
  OBVIOUS
<1>1. /\ s \in LoopRecord /\ s.talks \in Seq(TalkRecord) /\ Len(s.talks) = N
      /\ s.talks[i] \in TalkRecord
  BY DEF LoopSound, LoopRecord
<1>2. CASE /\ s.talks[i].who # Talk!Nobody /\ s.at[s.talks[i].who] # "out"
           /\ ~Talk!Closes(s, s.talks[i])
  <2> DEFINE u == Talk!Answered(s, i)
  <2>1. s.talks[i].who \in Members
    BY <1>1, <1>2 DEF TalkRecord
  <2>2. t = Talk!Looked(u, i)
    BY <1>2 DEF Talk!Turn
  <2>3. LoopSound(u, N, i - 1) /\ u.at = s.at /\ u.talks[i].who = s.talks[i].who
    BY <1>0, <2>1, AnsweredKeeps
  <2> HIDE DEF u
  <2>4. LoopSound(t, N, i - 1) /\ t.at = u.at /\ t.talks = u.talks
    BY <1>0, <2>2, <2>3, LookedKeeps
  <2>5. t.talks[i].who \in Members /\ t.at[t.talks[i].who] # "out" /\ Len(t.talks) = N
    BY <1>2, <2>1, <2>3, <2>4 DEF LoopSound
  <2>6. \A j \in 1 .. N : (j > i - 1 <=> j > i \/ j = i) /\ (j <= i <=> j <= i - 1 \/ j = i)
    BY <1>0
  <2>7. OnHand(t, i) /\ StillHere(t, i)
    BY <2>4, <2>5, <2>6 DEF LoopSound, OnHand, StillHere
  <2> QED
    BY <2>3, <2>4, <2>7 DEF LoopSound
<1>3. CASE ~(/\ s.talks[i].who # Talk!Nobody /\ s.at[s.talks[i].who] # "out"
             /\ ~Talk!Closes(s, s.talks[i]))
  <2> DEFINE u == Talk!Served(s)
             d == u.deleted \cup {i}
  <2>1. t = [u EXCEPT !.deleted = d]
    BY <1>3 DEF Talk!Turn
  <2>2. LoopSound(u, N, i - 1) /\ u.at = s.at
    BY <1>0, ServedKeeps
  <2>3. u \in LoopRecord /\ d \in SUBSET Nat /\ Len(u.talks) = N
    BY <1>0, <2>2 DEF LoopSound, LoopRecord
  <2>9. \A j : j \notin d <=> j \notin u.deleted /\ j # i
    OBVIOUS
  <2> HIDE DEF u, d
  <2>4. /\ t \in LoopRecord /\ t.at = u.at /\ t.talks = u.talks /\ t.queue = u.queue
        /\ t.deleted = d
    BY <2>1, <2>3 DEF LoopRecord
  <2>5. \A j \in 1 .. N : j # i => (j > i - 1 <=> j > i) /\ (j <= i <=> j <= i - 1)
    BY <1>0
  <2>6. OnHand(t, i) /\ StillHere(t, i)
    BY <2>2, <2>3, <2>4, <2>5, <2>9 DEF LoopSound, OnHand, StillHere
  <2> QED
    BY <2>2, <2>4, <2>6 DEF LoopSound
<1> QED
  BY <1>2, <1>3

\* The loop's results after each of its turns.
TurnStep(s, f, n) == IF n = 0 THEN {s} ELSE UNION {Talk!Turn(t, n) : t \in f[n - 1]}

LEMMA TurnsExist ==
  ASSUME NEW s
  PROVE  \A n \in Nat : \E f : f = [k \in 0 .. n |-> TurnStep(s, f, k)]
<1> DEFINE M == {n \in Nat : \E f : f = [k \in 0 .. n |-> TurnStep(s, f, k)]}
<1>1. 0 \in M
  <2> DEFINE f == [k \in 0 .. 0 |-> {s}]
  <2>1. \A k \in 0 .. 0 : TurnStep(s, f, k) = {s}
    <3>1. \A k \in 0 .. 0 : k = 0
      OBVIOUS
    <3> HIDE DEF f
    <3> QED
      BY <3>1, Zenon DEF TurnStep
  <2>2. f = [k \in 0 .. 0 |-> TurnStep(s, f, k)]
    BY <2>1
  <2> QED
    BY <2>2
<1>2. \A n \in M : n + 1 \in M
  <2> TAKE n \in M
  <2>1. PICK f : f = [k \in 0 .. n |-> TurnStep(s, f, k)]
    OBVIOUS
  <2> DEFINE g == [k \in 0 .. n + 1 |-> TurnStep(s, f, k)]
  <2>2. \A k \in 0 .. n : g[k] = f[k]
    <3> HIDE DEF g
    <3>1. \A k \in 0 .. n : g[k] = TurnStep(s, f, k)
      BY DEF g
    <3>2. \A k \in 0 .. n : f[k] = TurnStep(s, f, k)
      BY <2>1
    <3> QED
      BY <3>1, <3>2
  <2>3. \A k \in 0 .. n + 1 : TurnStep(s, f, k) = TurnStep(s, g, k)
    <3> HIDE DEF g
    <3> TAKE k \in 0 .. n + 1
    <3>1. CASE k = 0
      BY <3>1 DEF TurnStep
    <3>2. CASE k # 0
      <4>1. k - 1 \in 0 .. n
        BY <3>2
      <4>2. g[k - 1] = f[k - 1]
        BY <2>2, <4>1
      <4> QED
        BY <4>2, <3>2, Zenon DEF TurnStep
    <3> QED
      BY <3>1, <3>2
  <2>4. g = [k \in 0 .. n + 1 |-> TurnStep(s, g, k)]
    <3> HIDE DEF g
    <3>1. g = [k \in 0 .. n + 1 |-> TurnStep(s, f, k)]
      BY DEF g
    <3> QED
      BY <3>1, <2>3, Zenon
  <2> HIDE DEF g
  <2>5. n + 1 \in Nat
    OBVIOUS
  <2> QED
    BY <2>4, <2>5
<1> HIDE DEF M
<1>3. M = Nat
  <2>1. M \in SUBSET Nat
    BY DEF M
  <2> QED
    BY <1>1, <1>2, <2>1, NatInductionOnSets
<1> QED
  BY <1>3 DEF M

LEMMA TurnedKeeps ==
  ASSUME NEW s, NEW N \in Nat, LoopSound(s, N, 0), NEW t \in Talk!Turned(s)
  PROVE  LoopSound(t, N, N) /\ t.at = s.at
<1>1. Len(s.talks) = N
  BY DEF LoopSound
<1>2. PICK f : f = [k \in 0 .. N |-> TurnStep(s, f, k)] /\ Talk!Turned(s) = f[N]
  <2> DEFINE k == CHOOSE f : f = [n \in 0 .. N |-> TurnStep(s, f, n)]
  <2>1. k = [n \in 0 .. N |-> TurnStep(s, k, n)]
    BY TurnsExist, Zenon
  <2>2. Talk!Turned(s) = k[N]
    BY <1>1 DEF Talk!Turned, TurnStep
  <2> HIDE DEF k
  <2> QED
    BY <2>1, <2>2
<1>3. f[0] = {s} /\ \A n \in Nat : n + 1 <= N => f[n + 1] = UNION {Talk!Turn(u, n + 1) : u \in f[n]}
  <2>1. \A k \in 0 .. N : f[k] = TurnStep(s, f, k)
    BY <1>2
  <2>2. f[0] = {s}
    <3>1. 0 \in 0 .. N
      OBVIOUS
    <3> QED
      BY <2>1, <3>1, Zenon DEF TurnStep
  <2>3. ASSUME NEW n \in Nat, n + 1 <= N
        PROVE  f[n + 1] = UNION {Talk!Turn(u, n + 1) : u \in f[n]}
    <3>1. n + 1 \in 0 .. N /\ n + 1 # 0 /\ (n + 1) - 1 = n
      BY <2>3
    <3>2. f[n + 1] = TurnStep(s, f, n + 1)
      BY <2>1, <3>1
    <3>3. f[(n + 1) - 1] = f[n]
      BY <3>1
    <3> QED
      BY <3>1, <3>2, <3>3, Zenon DEF TurnStep
  <2> QED
    BY <2>2, <2>3
<1> DEFINE Fine(n) == \A u \in f[n] : LoopSound(u, N, n) /\ u.at = s.at
           M == {n \in Nat : n <= N => Fine(n)}
<1>4. 0 \in M
  BY <1>3
<1>5. \A n \in M : n + 1 \in M
  <2> TAKE n \in M
  <2> SUFFICES ASSUME n + 1 <= N, NEW u \in f[n + 1] PROVE LoopSound(u, N, n + 1) /\ u.at = s.at
    OBVIOUS
  <2>1. Fine(n)
    OBVIOUS
  <2>2. PICK v \in f[n] : u \in Talk!Turn(v, n + 1)
    <3>1. u \in UNION {Talk!Turn(v, n + 1) : v \in f[n]}
      BY <1>3
    <3> QED
      BY <3>1, Zenon
  <2>3. LoopSound(v, N, n) /\ v.at = s.at
    BY <2>1, <2>2
  <2>4. n + 1 \in 1 .. N /\ (n + 1) - 1 = n
    OBVIOUS
  <2> DEFINE i == n + 1
  <2>5. i \in 1 .. N /\ LoopSound(v, N, i - 1) /\ u \in Talk!Turn(v, i)
    BY <2>2, <2>3, <2>4
  <2> HIDE DEF i
  <2>6. LoopSound(u, N, i) /\ u.at = v.at
    BY <2>5, TurnKeeps
  <2> QED
    BY <2>3, <2>6 DEF i
<1>6. M = Nat
  <2> HIDE DEF M
  <2>1. M \in SUBSET Nat
    BY DEF M
  <2> QED
    BY <1>4, <1>5, <2>1, NatInductionOnSets
<1>7. Fine(N)
  BY <1>6
<1> QED
  BY <1>2, <1>7

\* The talks that are left after each of them was looked at.
LeftStep(s, f, n) ==
  IF n = 0 THEN <<>> ELSE IF n \in s.deleted THEN f[n - 1] ELSE Append(f[n - 1], s.talks[n])

LEMMA LeftExist ==
  ASSUME NEW s
  PROVE  \A n \in Nat : \E f : f = [k \in 0 .. n |-> LeftStep(s, f, k)]
<1> DEFINE M == {n \in Nat : \E f : f = [k \in 0 .. n |-> LeftStep(s, f, k)]}
<1>1. 0 \in M
  <2> DEFINE f == [k \in 0 .. 0 |-> <<>>]
  <2>1. f = [k \in 0 .. 0 |-> LeftStep(s, f, k)]
    BY DEF LeftStep
  <2> QED
    BY <2>1
<1>2. \A n \in M : n + 1 \in M
  <2> TAKE n \in M
  <2>1. PICK f : f = [k \in 0 .. n |-> LeftStep(s, f, k)]
    OBVIOUS
  <2> DEFINE g == [k \in 0 .. n + 1 |-> LeftStep(s, f, k)]
  <2>2. \A k \in 0 .. n : g[k] = f[k]
    <3> HIDE DEF g
    <3>1. \A k \in 0 .. n : g[k] = LeftStep(s, f, k)
      BY DEF g
    <3>2. \A k \in 0 .. n : f[k] = LeftStep(s, f, k)
      BY <2>1
    <3> QED
      BY <3>1, <3>2
  <2>3. \A k \in 0 .. n + 1 : LeftStep(s, f, k) = LeftStep(s, g, k)
    <3> HIDE DEF g
    <3> TAKE k \in 0 .. n + 1
    <3>1. CASE k = 0
      BY <3>1 DEF LeftStep
    <3>2. CASE k # 0
      <4>1. k - 1 \in 0 .. n
        BY <3>2
      <4>2. g[k - 1] = f[k - 1]
        BY <2>2, <4>1
      <4> QED
        BY <4>2, <3>2, Zenon DEF LeftStep
    <3> QED
      BY <3>1, <3>2
  <2>4. g = [k \in 0 .. n + 1 |-> LeftStep(s, g, k)]
    <3> HIDE DEF g
    <3>1. g = [k \in 0 .. n + 1 |-> LeftStep(s, f, k)]
      BY DEF g
    <3> QED
      BY <3>1, <2>3, Zenon
  <2> HIDE DEF g
  <2>5. n + 1 \in Nat
    OBVIOUS
  <2> QED
    BY <2>4, <2>5
<1> HIDE DEF M
<1>3. M = Nat
  <2>1. M \in SUBSET Nat
    BY DEF M
  <2> QED
    BY <1>1, <1>2, <2>1, NatInductionOnSets
<1> QED
  BY <1>3 DEF M

\* The talks of q are some of the first n that were not deleted.
From(s, q, n) ==
  \A i \in 1 .. Len(q) :
    \E j \in 1 .. Len(s.talks) : j <= n /\ j \notin s.deleted /\ q[i] = s.talks[j]

LEMMA LeftOneMore ==
  ASSUME NEW s, s.talks \in Seq(TalkRecord), OneEach(s.talks), NEW n \in Nat,
         n + 1 <= Len(s.talks), NEW q \in Seq(TalkRecord), OneEach(q), From(s, q, n),
         n + 1 \notin s.deleted
  PROVE  /\ Append(q, s.talks[n + 1]) \in Seq(TalkRecord) /\ OneEach(Append(q, s.talks[n + 1]))
         /\ From(s, Append(q, s.talks[n + 1]), n + 1)
<1> DEFINE x == s.talks[n + 1]
           r == Append(q, x)
<1>1. n + 1 \in 1 .. Len(s.talks) /\ x \in TalkRecord /\ Len(s.talks) \in Nat /\ Len(q) \in Nat
  OBVIOUS
<1>2. \A i \in 1 .. Len(q) : x.who = Talk!Nobody \/ q[i].who # x.who
  <2> TAKE i \in 1 .. Len(q)
  <2>1. PICK j \in 1 .. Len(s.talks) : j <= n /\ q[i] = s.talks[j]
    BY DEF From
  <2>2. j # n + 1
    BY <1>1, <2>1
  <2>3. s.talks[j].who = Talk!Nobody \/ s.talks[j].who # s.talks[n + 1].who
    BY <1>1, <2>2 DEF OneEach
  <2> QED
    BY <2>1, <2>3
<1>3. x.who = Talk!Nobody \/ \A i \in 1 .. Len(q) : q[i].who # x.who
  <2> HIDE DEF x
  <2> QED
    BY <1>2
<1>4. /\ r \in Seq(TalkRecord) /\ Len(r) = Len(q) + 1 /\ OneEach(r)
      /\ \A i \in 1 .. Len(q) : r[i] = q[i]
      /\ r[Len(q) + 1] = x
  <2> HIDE DEF x
  <2> QED
    BY <1>1, <1>3, OneTalkMore
<1> HIDE DEF r
<1>5. ASSUME NEW i \in 1 .. Len(r)
      PROVE  \E j \in 1 .. Len(s.talks) : j <= n + 1 /\ j \notin s.deleted /\ r[i] = s.talks[j]
  <2>1. CASE i = Len(q) + 1
    <3>1. r[i] = s.talks[n + 1] /\ n + 1 <= n + 1
      BY <1>4, <2>1
    <3> QED
      BY <1>1, <3>1
  <2>2. CASE i # Len(q) + 1
    <3>1. i \in 1 .. Len(q) /\ r[i] = q[i]
      BY <1>1, <1>4, <2>2
    <3>2. PICK j \in 1 .. Len(s.talks) : j <= n /\ j \notin s.deleted /\ q[i] = s.talks[j]
      BY <3>1 DEF From
    <3>3. j <= n + 1
      BY <1>1, <3>2
    <3> QED
      BY <3>1, <3>2, <3>3
  <2> QED
    BY <2>1, <2>2
<1>6. From(s, r, n + 1)
  BY <1>5 DEF From
<1> QED
  BY <1>4, <1>6 DEF r

LEMMA LeftFacts ==
  ASSUME NEW s, s.talks \in Seq(TalkRecord), OneEach(s.talks)
  PROVE  /\ Talk!TalksLeft(s) \in Seq(TalkRecord) /\ OneEach(Talk!TalksLeft(s))
         /\ \A i \in 1 .. Len(Talk!TalksLeft(s)) :
              \E j \in 1 .. Len(s.talks) : j \notin s.deleted /\ Talk!TalksLeft(s)[i] = s.talks[j]
<1> DEFINE N == Len(s.talks)
<1>1. N \in Nat
  OBVIOUS
<1>2. PICK f : f = [k \in 0 .. N |-> LeftStep(s, f, k)] /\ Talk!TalksLeft(s) = f[N]
  <2> DEFINE k == CHOOSE f : f = [n \in 0 .. N |-> LeftStep(s, f, n)]
  <2>1. k = [n \in 0 .. N |-> LeftStep(s, k, n)]
    BY <1>1, LeftExist, Zenon
  <2>2. Talk!TalksLeft(s) = k[N]
    BY DEF Talk!TalksLeft, LeftStep
  <2> HIDE DEF k, N
  <2> QED
    BY <2>1, <2>2
<1>3. /\ f[0] = <<>>
      /\ \A n \in Nat : n + 1 <= N =>
           f[n + 1] = IF n + 1 \in s.deleted THEN f[n] ELSE Append(f[n], s.talks[n + 1])
  <2> HIDE DEF N
  <2>1. \A k \in 0 .. N : f[k] = LeftStep(s, f, k)
    BY <1>2
  <2>2. f[0] = <<>>
    <3>1. 0 \in 0 .. N
      BY <1>1
    <3> QED
      BY <2>1, <3>1, ZenonT(40) DEF LeftStep
  <2>3. ASSUME NEW n \in Nat, n + 1 <= N
        PROVE  f[n + 1] = IF n + 1 \in s.deleted THEN f[n] ELSE Append(f[n], s.talks[n + 1])
    <3>1. n + 1 \in 0 .. N /\ n + 1 # 0 /\ (n + 1) - 1 = n
      BY <1>1, <2>3
    <3>2. f[n + 1] = LeftStep(s, f, n + 1)
      BY <2>1, <3>1
    <3>3. f[(n + 1) - 1] = f[n]
      BY <3>1
    <3> QED
      BY <3>1, <3>2, <3>3, Zenon DEF LeftStep
  <2> QED
    BY <2>2, <2>3
<1> DEFINE Fine(n) == f[n] \in Seq(TalkRecord) /\ OneEach(f[n]) /\ From(s, f[n], n)
           M == {n \in Nat : n <= N => Fine(n)}
<1>4. 0 \in M
  <2>1. <<>> \in Seq(TalkRecord) /\ OneEach(<<>>) /\ From(s, <<>>, 0)
    BY DEF OneEach, From
  <2>2. Fine(0)
    BY <1>3, <2>1
  <2> QED
    BY <2>2
<1>5. \A n \in M : n + 1 \in M
  <2> TAKE n \in M
  <2> SUFFICES ASSUME n + 1 <= N PROVE Fine(n + 1)
    OBVIOUS
  <2>1. Fine(n)
    BY <1>1
  <2>2. CASE n + 1 \in s.deleted
    <3>1. f[n + 1] = f[n]
      BY <1>3, <2>2
    <3>2. From(s, f[n], n + 1)
      <4> SUFFICES ASSUME NEW i \in 1 .. Len(f[n])
                   PROVE  \E j \in 1 .. N : j <= n + 1 /\ j \notin s.deleted /\ f[n][i] = s.talks[j]
        BY DEF From
      <4>1. PICK j \in 1 .. N : j <= n /\ j \notin s.deleted /\ f[n][i] = s.talks[j]
        BY <2>1 DEF From
      <4>2. j <= n + 1
        BY <1>1, <4>1
      <4> QED
        BY <4>1, <4>2
    <3> QED
      BY <2>1, <3>1, <3>2
  <2>3. CASE n + 1 \notin s.deleted
    <3>1. f[n + 1] = Append(f[n], s.talks[n + 1])
      BY <1>3, <2>3
    <3> QED
      BY <2>1, <2>3, <3>1, LeftOneMore
  <2> QED
    BY <2>2, <2>3
<1>6. M = Nat
  <2> HIDE DEF M
  <2>1. M \in SUBSET Nat
    BY DEF M
  <2> QED
    BY <1>4, <1>5, <2>1, NatInductionOnSets
<1>7. Fine(N)
  BY <1>1, <1>6
<1> QED
  BY <1>2, <1>7 DEF From

LEMMA BegunSound ==
  ASSUME TalksSound(w)
  PROVE  LoopSound(Talk!Begun(w), Len(w.talks), 0) /\ Talk!Begun(w).at = w.at
<1> DEFINE T == w.talks
           later(i) == IF T[i].last = "never" /\ ~T[i].isQueued THEN "lately" ELSE T[i].last
           U == [i \in DOMAIN T |-> [T[i] EXCEPT !.last = later(i)]]
           t == [at |-> w.at, queue |-> w.queue, focus |-> w.focus, isIdle |-> TRUE, deleted |-> {},
                 talks |-> U]
<1>1. T \in Seq(TalkRecord) /\ OneEach(T) /\ Queued(T, w.queue)
  BY TalksOf
<1>2. Talk!Begun(w) = t
  BY DEF Talk!Begun
<1>3. DOMAIN T = 1 .. Len(T) /\ \A i \in 1 .. Len(T) : T[i] \in TalkRecord
  BY <1>1
<1>4. \A i \in 1 .. Len(T) : later(i) \in {"never", "lately", "long ago"}
  BY <1>3 DEF TalkRecord
<1>5. U = [i \in DOMAIN T |-> U[i]] /\ \A i \in 1 .. Len(T) : U[i] = [T[i] EXCEPT !.last = later(i)]
  BY <1>3
<1> HIDE DEF T, later, U
<1>6. \A i \in 1 .. Len(T) : /\ U[i] \in TalkRecord /\ U[i].who = T[i].who
                             /\ U[i].isQueued = T[i].isQueued
  BY <1>3, <1>4, <1>5, ZenonT(60) DEF TalkRecord
<1>7. U \in Seq(TalkRecord) /\ Len(U) = Len(T) /\ OneEach(U) /\ Queued(U, w.queue)
  BY <1>1, <1>5, <1>6, OtherTalks
<1>8. /\ t \in LoopRecord /\ t.talks = U /\ t.queue = w.queue /\ t.at = w.at
      /\ t.deleted = {}
  BY <1>7, TalksOf DEF LoopRecord, Places
<1> HIDE DEF t
<1>9. \A e : In(e, w.queue) => e \in Members
  BY TalksOf DEF In
<1>10. OnHand(t, 0) /\ StillHere(t, 0)
  <2>1. StillHere(t, 0)
    BY <1>7, <1>8 DEF StillHere
  <2>2. OnHand(t, 0)
    BY <1>7, <1>8, <1>9 DEF OnHand, Queued
  <2> QED
    BY <2>1, <2>2
<1>11. LoopSound(t, Len(T), 0)
  BY <1>7, <1>8, <1>10, TalksOf DEF LoopSound
<1> QED
  BY <1>2, <1>8, <1>11 DEF T

LEMMA ThinkKeeps ==
  ASSUME TalksSound(w), Talk!onThink
  PROVE  TalksSound(w)'
<1> DEFINE N == Len(w.talks)
<1>1. PICK t \in Talk!Turned(Talk!Begun(w)) :
        w' = [at |-> w.at, talks |-> Talk!TalksLeft(t), queue |-> t.queue,
              focus |-> IF t.isIdle THEN Talk!Nobody ELSE t.focus]
  BY DEF Talk!onThink, Talk!Thought
<1>2. N \in Nat
  BY TalksOf
<1>3. LoopSound(t, N, N) /\ t.at = w.at
  BY <1>1, <1>2, BegunSound, TurnedKeeps
<1> HIDE DEF N
<1> DEFINE L == Talk!TalksLeft(t)
           f == IF t.isIdle THEN Talk!Nobody ELSE t.focus
<1>4. /\ t.talks \in Seq(TalkRecord) /\ OneEach(t.talks) /\ Len(t.talks) = N
      /\ t.queue \in Seq(Members) /\ InLine(t.queue) /\ t.focus \in Members \cup {Talk!Nobody}
      /\ OnHand(t, N)
  BY <1>3 DEF LoopSound, LoopRecord
<1>5. /\ L \in Seq(TalkRecord) /\ OneEach(L)
      /\ \A i \in 1 .. Len(L) : \E j \in 1 .. N : j \notin t.deleted /\ L[i] = t.talks[j]
  BY <1>4, LeftFacts
<1>6. f \in Members \cup {Talk!Nobody}
  BY <1>4
<1> HIDE DEF L, f
<1>7. Queued(L, t.queue)
  <2> SUFFICES ASSUME NEW i \in 1 .. Len(L), L[i].isQueued PROVE In(L[i].who, t.queue)
    BY DEF Queued
  <2>1. PICK j \in 1 .. N : j \notin t.deleted /\ L[i] = t.talks[j]
    BY <1>5
  <2>2. ~(j > N)
    BY <1>2
  <2> QED
    BY <1>4, <2>1, <2>2 DEF OnHand
<1>8. TalksSound([at |-> w.at, talks |-> L, queue |-> t.queue, focus |-> f])
  BY <1>4, <1>5, <1>6, <1>7, TalksOf, SoundTalks
<1> QED
  BY <1>1, <1>8 DEF L, f

LEMMA TalksKeep ==
  ASSUME TalksSound(w), Talk!Next
  PROVE  TalksSound(w)'
<1>1. CASE \E p \in Members : Talk!Act(p)
  BY <1>1, ComeKeeps, GoKeeps, LogoutElsewhereKeeps, TalkCloses, SayKeeps DEF Talk!Act
<1>2. CASE Talk!Wait
  BY <1>2, WaitKeeps
<1>3. CASE Talk!onThink
  BY <1>3, ThinkKeeps
<1>4. CASE Talk!Reload
  BY <1>4, TalksReload
<1> QED
  BY <1>1, <1>2, <1>3, <1>4 DEF Talk!Next

\* Whatever closes a shop window, and in which order, the player and the npc
\* agree whether it is open, and its references are its own; and however
\* players come, speak, walk away and vanish while the npc talks, who waits for
\* him is in his queue (npc.cpp:1215-1450, player.cpp shop windows).
THEOREM NpcsAlwaysAgree == Spec => []NpcsAgree
<1> DEFINE Inv == /\ scene = "shops" => ShopsSound(w)
                  /\ scene = "talks" => TalksSound(w)
<1>1. Init => Inv
  BY WorldAssumption, ShopsInit, TalksInit DEF Init, WorldAssumption
<1>2. Inv /\ [Next]_<<scene, w>> => Inv'
  <2>1. ASSUME Inv, [Next]_<<scene, w>>, scene' = "shops"
        PROVE  ShopsSound(w')
    <3>1. scene = "shops" /\ [Shop!Next]_w
      BY <2>1 DEF Next
    <3> QED
      BY <2>1, <3>1, WorldAssumption, ShopsKeep DEF WorldAssumption
  <2>2. ASSUME Inv, [Next]_<<scene, w>>, scene' = "talks"
        PROVE  TalksSound(w)'
    <3>1. scene = "talks" /\ (Talk!Next \/ w' = w)
      BY <2>2 DEF Next
    <3>2. TalksSound(w)
      BY <2>2, <3>1
    <3>3. CASE Talk!Next
      BY <3>2, <3>3, TalksKeep
    <3>4. CASE w' = w
      BY <3>2, <3>4 DEF TalksSound, TalksType, OneEach, InLine, In, Texts, TalkRecord
    <3> QED
      BY <3>1, <3>3, <3>4
  <2> QED
    BY <2>1, <2>2 DEF ShopsSound, ShopsType, WindowOf
<1>3. Inv => NpcsAgree
  BY ShopsSoundAgrees, TalksSoundAgrees DEF NpcsAgree
<1> QED
  BY <1>1, <1>2, <1>3, PTL DEF Spec

-----------------------------------------------------------------------------
(* Scripts and their environments (module Scripts).                          *)

Hows == {"event", "buffer", "load", "timer"}
FrameRecord(T) == [how : Hows, what : Events \cup {"file", "timer"}, timer : T \cup {0}]
EnvRecord(I) == [script : Nat, knows : SUBSET I]
ItemRecord ==
  [place : {"none", "virtual", "world", "removed", "dangling"}, releases : Nat,
   late : BOOLEAN, lost : BOOLEAN]

ScriptsType(I, T) ==
  [frames : Seq(FrameRecord(T)), envs : Seq(EnvRecord(I)), lists : SUBSET (Nat \X I),
   items : [I -> ItemRecord], wanted : SUBSET T, pending : SUBSET T, due : SUBSET T,
   fate : [T -> {"unused", "wanted", "run", "cut", "stopped", "closed"}], last : Nat,
   loaded : SUBSET Events, registered : SUBSET Events, crowded : BOOLEAN, broken : BOOLEAN]

\* How many environments a script has, and that no more are left than the
\* scripts that run have taken; those of script k are the b[k-1]+1 .. b[k]-th.
Takes(f) == IF f.how = "buffer" THEN 2 ELSE 1

Stacked(frames, envs, crowded, b) ==
  /\ b \in [0 .. Len(frames) -> Nat] /\ b[0] = 0
  /\ \A k \in 1 .. Len(frames) : b[k] = b[k - 1] + Takes(frames[k])
  /\ \A j, k \in 0 .. Len(frames) : j <= k => b[j] <= b[k]
  /\ Len(envs) <= b[Len(frames)]
  /\ ~crowded =>
       /\ Len(envs) = b[Len(frames)]
       /\ \A k \in 1 .. Len(frames), i \in Nat :
            b[k - 1] < i /\ i <= b[k] => envs[i].script = k

Nested(frames, envs, crowded) == \E b : Stacked(frames, envs, crowded, b)

\* The environments when a script starts, and when it has ended.
Pushed(frames, envs, crowded, r, new, full) ==
  /\ Len(new) <= Len(envs) + Takes(r)
  /\ ~full => /\ ~crowded /\ Len(new) = Len(envs) + Takes(r)
              /\ \A i \in 1 .. Len(envs) : new[i].script = envs[i].script
              /\ \A i \in Nat : Len(envs) < i /\ i <= Len(new) => new[i].script = Len(frames) + 1

Popped(frames, envs, crowded, G, new, full) ==
  /\ Len(G) = Len(frames) - 1
  /\ \A k \in 1 .. Len(G) : G[k] = frames[k]
  /\ Len(new) = IF Len(envs) < Takes(frames[Len(frames)]) THEN 0
                ELSE Len(envs) - Takes(frames[Len(frames)])
  /\ \A i \in 1 .. Len(new) : new[i] = envs[i]
  /\ ~full => ~crowded \/ G = <<>>

LEMMA PushFrame ==
  ASSUME NEW F, NEW frames \in Seq(F), NEW r \in F, NEW E, NEW envs \in Seq(E), NEW new \in Seq(E),
         NEW crowded \in BOOLEAN, NEW full \in BOOLEAN, Nested(frames, envs, crowded),
         Pushed(frames, envs, crowded, r, new, full)
  PROVE  Nested(Append(frames, r), new, full)
<1> DEFINE n == Len(frames)
           G == Append(frames, r)
<1>1. PICK b : Stacked(frames, envs, crowded, b)
  BY DEF Nested
<1>0. /\ Len(new) <= Len(envs) + Takes(r)
      /\ ~full => /\ ~crowded /\ Len(new) = Len(envs) + Takes(r)
                  /\ \A i \in 1 .. Len(envs) : new[i].script = envs[i].script
                  /\ \A i \in Nat : Len(envs) < i /\ i <= Len(new) => new[i].script = n + 1
  BY DEF Pushed
<1>2. /\ n \in Nat /\ Len(G) = n + 1 /\ G[n + 1] = r /\ \A k \in 1 .. n : G[k] = frames[k]
      /\ Takes(r) \in Nat /\ Len(envs) \in Nat /\ Len(new) \in Nat
  BY DEF Takes
<1>3. /\ b \in [0 .. n -> Nat] /\ b[0] = 0 /\ Len(envs) <= b[n]
      /\ \A k \in 1 .. n : b[k] = b[k - 1] + Takes(frames[k])
      /\ \A j, k \in 0 .. n : j <= k => b[j] <= b[k]
  BY <1>1 DEF Stacked
<1>4. ~crowded => /\ Len(envs) = b[n]
                  /\ \A k \in 1 .. n, i \in Nat :
                       b[k - 1] < i /\ i <= b[k] => envs[i].script = k
  BY <1>1 DEF Stacked
<1> DEFINE c == [k \in 0 .. n + 1 |-> IF k = n + 1 THEN b[n] + Takes(r) ELSE b[k]]
<1>5. /\ c \in [0 .. n + 1 -> Nat] /\ c[n + 1] = b[n] + Takes(r)
      /\ \A k \in 0 .. n : c[k] = b[k]
  <2> HIDE DEF n, G
  <2>1. /\ n \in 0 .. n /\ n + 1 \in 0 .. n + 1 /\ \A k \in 0 .. n + 1 : k # n + 1 => k \in 0 .. n
        /\ \A k \in 0 .. n : k # n + 1 /\ k \in 0 .. n + 1
    BY <1>2
  <2>2. \A k \in 0 .. n : b[k] \in Nat
    BY <1>3
  <2>3. b[n] + Takes(r) \in Nat
    BY <1>2, <2>1, <2>2
  <2> QED
    BY <2>1, <2>2, <2>3
<1> HIDE DEF G, c, n
<1>6. c[0] = 0 /\ Len(new) <= c[n + 1]
  BY <1>0, <1>2, <1>3, <1>5
<1>7. ASSUME NEW k \in 1 .. n + 1
      PROVE  c[k] = c[k - 1] + Takes(G[k])
  <2>1. CASE k = n + 1
    BY <1>2, <1>5, <2>1
  <2>2. CASE k # n + 1
    <3>1. k \in 1 .. n /\ k \in 0 .. n /\ k - 1 \in 0 .. n
      BY <1>2, <2>2
    <3> QED
      BY <1>2, <1>3, <1>5, <3>1
  <2> QED
    BY <2>1, <2>2
<1>8. ASSUME ~full
      PROVE  /\ Len(new) = c[n + 1]
             /\ \A k \in 1 .. n + 1, i \in Nat :
                  c[k - 1] < i /\ i <= c[k] => new[i].script = k
  <2>1. Len(envs) = b[n] /\ Len(new) = c[n + 1]
    BY <1>0, <1>2, <1>4, <1>5, <1>8
  <2>2. ASSUME NEW i \in Nat, c[(n + 1) - 1] < i, i <= c[n + 1]
        PROVE  new[i].script = n + 1
    <3>1. (n + 1) - 1 = n /\ n \in 0 .. n
      BY <1>2
    <3>2. Len(envs) < i /\ i <= Len(new)
      BY <1>5, <2>1, <2>2, <3>1
    <3> QED
      BY <1>0, <1>8, <3>2
  <2>3. ASSUME NEW k \in 1 .. n, NEW i \in Nat, c[k - 1] < i, i <= c[k]
        PROVE  new[i].script = k
    <3>1. k \in 0 .. n /\ k - 1 \in 0 .. n
      BY <1>2
    <3>2. b[k - 1] < i /\ i <= b[k]
      BY <1>5, <2>3, <3>1
    <3>3. envs[i].script = k
      BY <1>0, <1>4, <1>8, <3>2
    <3>4. b[k] <= b[n] /\ n \in 0 .. n
      BY <1>2, <1>3, <3>1
    <3>5. i \in 1 .. Len(envs)
      BY <1>2, <1>3, <2>1, <3>1, <3>2, <3>4
    <3> QED
      BY <1>0, <1>8, <3>3, <3>5
  <2>4. ASSUME NEW k \in 1 .. n + 1, NEW i \in Nat, c[k - 1] < i, i <= c[k]
        PROVE  new[i].script = k
    <3>1. CASE k = n + 1
      BY <2>2, <2>4, <3>1
    <3>2. CASE k # n + 1
      <4>1. k \in 1 .. n
        BY <1>2, <3>2
      <4> QED
        BY <2>3, <2>4, <4>1
    <3> QED
      BY <3>1, <3>2
  <2> QED
    BY <2>1, <2>4
<1>9. ASSUME NEW j \in 0 .. n + 1, NEW k \in 0 .. n + 1, j <= k
      PROVE  c[j] <= c[k]
  <2>1. CASE k = n + 1
    <3>1. CASE j = n + 1
      BY <1>2, <1>5, <2>1, <3>1
    <3>2. CASE j # n + 1
      <4>1. j \in 0 .. n /\ n \in 0 .. n /\ j <= n
        BY <1>2, <3>2
      <4>2. b[j] <= b[n] /\ b[j] \in Nat /\ b[n] \in Nat
        BY <1>3, <4>1
      <4> QED
        BY <1>2, <1>5, <2>1, <4>1, <4>2
    <3> QED
      BY <3>1, <3>2
  <2>2. CASE k # n + 1
    <3>1. j \in 0 .. n /\ k \in 0 .. n
      BY <1>2, <1>9, <2>2
    <3> QED
      BY <1>3, <1>5, <1>9, <3>1
  <2> QED
    BY <2>1, <2>2
<1>10. Stacked(G, new, full, c)
  <2>1. Len(G) = n + 1
    BY <1>2
  <2> QED
    BY <1>5, <1>6, <1>7, <1>8, <1>9, <2>1 DEF Stacked
<1> QED
  BY <1>10 DEF Nested, G

LEMMA PopFrame ==
  ASSUME NEW F, NEW frames \in Seq(F), frames # <<>>, NEW E, NEW envs \in Seq(E), NEW new \in Seq(E),
         NEW crowded \in BOOLEAN, NEW full \in BOOLEAN, Nested(frames, envs, crowded),
         NEW G \in Seq(F), Popped(frames, envs, crowded, G, new, full)
  PROVE  Nested(G, new, full)
<1> DEFINE n == Len(G)
           r == frames[Len(frames)]
<1>1. PICK b : Stacked(frames, envs, crowded, b)
  BY DEF Nested
<1>0. /\ Len(frames) = n + 1 /\ \A k \in 1 .. n : G[k] = frames[k]
      /\ Len(new) = IF Len(envs) < Takes(r) THEN 0 ELSE Len(envs) - Takes(r)
      /\ \A i \in 1 .. Len(new) : new[i] = envs[i]
      /\ ~full => ~crowded \/ G = <<>>
  <2>1. Len(frames) \in Nat
    OBVIOUS
  <2> QED
    BY <2>1 DEF Popped
<1>2. /\ n \in Nat /\ Len(frames) = n + 1 /\ r = frames[n + 1]
      /\ Takes(r) \in Nat /\ Len(envs) \in Nat /\ Len(new) \in Nat
      /\ G = <<>> <=> n = 0
  BY <1>0 DEF Takes
<1>3. /\ b \in [0 .. n + 1 -> Nat] /\ b[0] = 0 /\ Len(envs) <= b[n + 1]
      /\ \A k \in 1 .. n + 1 : b[k] = b[k - 1] + Takes(frames[k])
      /\ \A j, k \in 0 .. n + 1 : j <= k => b[j] <= b[k]
  BY <1>1, <1>2 DEF Stacked
<1>4. ~crowded => /\ Len(envs) = b[n + 1]
                  /\ \A k \in 1 .. n + 1, i \in Nat :
                       b[k - 1] < i /\ i <= b[k] => envs[i].script = k
  BY <1>1, <1>2 DEF Stacked
<1> DEFINE c == [k \in 0 .. n |-> b[k]]
<1> HIDE DEF n, r
<1>5. /\ c \in [0 .. n -> Nat] /\ \A k \in 0 .. n : c[k] = b[k]
  <2>1. \A k \in 0 .. n : k \in 0 .. n + 1
    BY <1>2
  <2>2. \A k \in 0 .. n : b[k] \in Nat
    BY <1>3, <2>1
  <2> QED
    BY <2>2
<1> HIDE DEF c
<1>6. /\ b[n + 1] = b[n] + Takes(r) /\ b[n] \in Nat /\ n \in 0 .. n /\ 0 \in 0 .. n
      /\ c[n] = b[n] /\ c[0] = 0
  <2>1. n + 1 \in 1 .. n + 1 /\ (n + 1) - 1 = n /\ n \in 0 .. n + 1 /\ n \in 0 .. n /\ 0 \in 0 .. n
    BY <1>2
  <2> QED
    BY <1>2, <1>3, <1>5, <2>1
<1>7. Len(new) = IF Len(envs) < Takes(r) THEN 0 ELSE Len(envs) - Takes(r)
  BY <1>0
<1>8. Len(new) <= c[n]
  BY <1>2, <1>3, <1>6, <1>7
<1>9. ASSUME NEW k \in 1 .. n
      PROVE  c[k] = c[k - 1] + Takes(G[k])
  <2>1. k \in 1 .. n + 1 /\ k \in 0 .. n /\ k - 1 \in 0 .. n
    BY <1>2
  <2> QED
    BY <1>0, <1>3, <1>5, <2>1
<1>10. ASSUME NEW j \in 0 .. n, NEW k \in 0 .. n, j <= k
       PROVE  c[j] <= c[k]
  <2>1. j \in 0 .. n + 1 /\ k \in 0 .. n + 1
    BY <1>2
  <2> QED
    BY <1>3, <1>5, <1>10, <2>1
<1>11. ASSUME ~full
       PROVE  /\ Len(new) = c[n]
              /\ \A k \in 1 .. n, i \in Nat : c[k - 1] < i /\ i <= c[k] => new[i].script = k
  <2>1. CASE n = 0
    BY <1>2, <1>6, <1>8, <2>1
  <2>2. CASE n # 0
    <3>1. ~crowded
      BY <1>0, <1>2, <1>11, <2>2
    <3>2. Len(envs) = b[n] + Takes(r) /\ Len(new) = c[n]
      BY <1>2, <1>4, <1>6, <1>7, <3>1
    <3>3. ASSUME NEW k \in 1 .. n, NEW i \in Nat, c[k - 1] < i, i <= c[k]
          PROVE  new[i].script = k
      <4>1. k \in 1 .. n + 1 /\ k \in 0 .. n /\ k - 1 \in 0 .. n
        BY <1>2
      <4>2. b[k - 1] < i /\ i <= b[k]
        BY <1>5, <3>3, <4>1
      <4>3. envs[i].script = k
        BY <1>4, <3>1, <4>1, <4>2
      <4>4. c[k] <= c[n] /\ c[k] \in Nat /\ c[k - 1] \in Nat /\ c[n] \in Nat
        <5>1. k <= n
          BY <1>2, <4>1
        <5>2. c[k] <= c[n]
          BY <1>6, <1>10, <4>1, <5>1
        <5> QED
          BY <1>5, <1>6, <4>1, <5>2
      <4>5. i \in 1 .. Len(new)
        BY <3>2, <3>3, <4>4
      <4> QED
        BY <1>0, <4>3, <4>5
    <3> QED
      BY <3>2, <3>3
  <2> QED
    BY <2>1, <2>2
<1>12. Stacked(G, new, full, c)
  BY <1>5, <1>6, <1>8, <1>9, <1>10, <1>11 DEF Stacked, n
<1> QED
  BY <1>12 DEF Nested

\* What a script learns does not move environments.
LEMMA SameFrames ==
  ASSUME NEW frames, NEW envs, NEW new, NEW crowded, Nested(frames, envs, crowded),
         Len(new) = Len(envs), Len(envs) \in Nat,
         \A i \in 1 .. Len(envs) : new[i].script = envs[i].script,
         Len(frames) \in Nat
  PROVE  Nested(frames, new, crowded)
<1>1. PICK b : Stacked(frames, envs, crowded, b)
  BY DEF Nested
<1>2. ASSUME ~crowded, NEW k \in 1 .. Len(frames), NEW i \in Nat, b[k - 1] < i, i <= b[k]
      PROVE  new[i].script = k
  <2>1. envs[i].script = k
    BY <1>1, <1>2 DEF Stacked
  <2>2. /\ k \in 0 .. Len(frames) /\ k - 1 \in 0 .. Len(frames)
        /\ Len(frames) \in 0 .. Len(frames) /\ k <= Len(frames)
    OBVIOUS
  <2>3. /\ b[k] <= b[Len(frames)] /\ b[k] \in Nat /\ b[k - 1] \in Nat
        /\ Len(envs) = b[Len(frames)]
    BY <1>1, <1>2, <2>2 DEF Stacked
  <2>4. i \in 1 .. Len(envs)
    BY <1>2, <2>3
  <2> QED
    BY <2>1, <2>4
<1>3. Stacked(frames, new, crowded, b)
  BY <1>1, <1>2 DEF Stacked
<1> QED
  BY <1>3 DEF Nested


-----------------------------------------------------------------------------
(* Items, timers and events.                                                 *)

\* What is on a list is known to the script whose list it is, and only to it.
Owned(lists, envs) ==
  /\ \A l \in lists : l[1] \in 1 .. Len(envs) /\ l[2] \in envs[l[1]].knows
  /\ \A j, k \in 1 .. Len(envs) : envs[j].knows \cap envs[k].knows # {} => j = k

OnList(lists, i) == \E l \in lists : l[2] = i
Known(envs, i) == \E k \in 1 .. Len(envs) : i \in envs[k].knows

ItemSound(x, listed, known) ==
  /\ x.place = "none" => x.releases = 0 /\ ~x.late /\ ~x.lost /\ ~known
  /\ listed => x.place = "virtual"
  /\ ~x.late =>
       /\ x.place # "dangling" /\ x.releases <= 1
       /\ x.place = "world" \/ listed => x.releases = 0
       /\ x.place = "virtual" => x.lost \/ x.releases > 0 \/ listed

ItemsSound(I, s) ==
  /\ Owned(s.lists, s.envs)
  /\ \A i \in I : ItemSound(s.items[i], OnList(s.lists, i), Known(s.envs, i))

TimersSound(T, s) ==
  /\ \A t \in s.wanted :
       /\ s.fate[t] \in {"wanted", "run"}
       /\ t \in s.pending \cup s.due => s.fate[t] = "wanted"
  /\ s.pending \cap s.due = {}
  /\ \A t \in T : t > s.last =>
       t \notin s.wanted \cup s.pending \cup s.due /\ s.fate[t] = "unused"

FrameSound(T, s, f) ==
  /\ f.how \in {"event", "buffer"} => f.what \in s.loaded
  /\ f.how = "timer" => /\ f.timer \in T /\ s.fate[f.timer] \in {"run", "cut"}
                        /\ s.fate[f.timer] = "run" => f.timer \in s.wanted

EventsSound(T, s) ==
  /\ \A k \in 1 .. Len(s.frames) :
       FrameSound(T, s, s.frames[k]) /\ (s.frames[k].how = "timer" => k = 1)
  /\ s.broken => \/ \E e \in Events \ s.loaded : EventType[e] = "moveitem"
                 \/ \E t \in T : s.fate[t] = "cut"

NumberedTimers(T) == T \subseteq Nat

ScriptsSound(I, T, s) ==
  /\ NumberedTimers(T) /\ s \in ScriptsType(I, T)
  /\ Nested(s.frames, s.envs, s.crowded)
  /\ ItemsSound(I, s) /\ TimersSound(T, s) /\ EventsSound(T, s)

LEMMA NestedFacts ==
  ASSUME NEW F, NEW frames \in Seq(F), NEW E, NEW envs \in Seq(E), NEW crowded,
         Nested(frames, envs, crowded)
  PROVE  /\ frames = <<>> => envs = <<>>
         /\ ~crowded /\ frames # <<>> => /\ envs # <<>> /\ envs[Len(envs)].script = Len(frames)
<1> DEFINE n == Len(frames)
<1>1. PICK b : Stacked(frames, envs, crowded, b)
  BY DEF Nested
<1>2. n \in Nat /\ Len(envs) \in Nat /\ n \in 0 .. n /\ (frames = <<>> <=> n = 0)
  OBVIOUS
<1>3. CASE n = 0
  BY <1>1, <1>2, <1>3 DEF Stacked
<1>4. CASE n # 0 /\ ~crowded
  <2>1. n \in 1 .. n /\ n - 1 \in 0 .. n
    BY <1>2, <1>4
  <2>2. b[n] = b[n - 1] + Takes(frames[n]) /\ b[n - 1] \in Nat /\ Len(envs) = b[n]
    BY <1>1, <1>4, <2>1 DEF Stacked
  <2>3. Takes(frames[n]) \in {1, 2}
    BY DEF Takes
  <2>4. b[n - 1] < Len(envs) /\ Len(envs) <= b[n] /\ Len(envs) # 0
    BY <1>2, <2>2, <2>3
  <2>5. envs[Len(envs)].script = n
    BY <1>1, <1>2, <1>4, <2>1, <2>4 DEF Stacked
  <2> QED
    BY <1>2, <1>4, <2>4, <2>5
<1> QED
  BY <1>2, <1>3, <1>4

LEMMA ScriptsSoundAgrees ==
  ASSUME NEW I, NEW T, ScriptsSound(I, T, w)
  PROVE  Script(I, T)!ScriptsAgree
<1>1. /\ w \in ScriptsType(I, T) /\ Nested(w.frames, w.envs, w.crowded)
      /\ ItemsSound(I, w) /\ EventsSound(T, w)
  BY DEF ScriptsSound
<1>2. /\ w.frames \in Seq(FrameRecord(T)) /\ w.envs \in Seq(EnvRecord(I))
      /\ w.fate \in [T -> {"unused", "wanted", "run", "cut", "stopped", "closed"}]
  BY <1>1 DEF ScriptsType
<1>3. /\ w.frames = <<>> => w.envs = <<>>
      /\ ~w.crowded /\ w.frames # <<>> =>
           w.envs # <<>> /\ w.envs[Len(w.envs)].script = Len(w.frames)
  BY <1>1, <1>2, NestedFacts
<1>4. w.envs = <<>> => w.lists = {}
  BY <1>1 DEF ItemsSound, Owned
<1>5. Script(I, T)!EnvsAgree
  BY <1>3, <1>4 DEF Script!EnvsAgree, Script!Idle, Script!Running, Script!Env, Script!Innermost
<1>6. Script(I, T)!TempsAccounted
  BY <1>1 DEF Script!TempsAccounted, ItemsSound, ItemSound, OnList
<1>7. Script(I, T)!TimersKept
  BY <1>2 DEF Script!TimersKept
<1>8. Script(I, T)!LoadedRun
  <2>1. DOMAIN w.frames = 1 .. Len(w.frames)
    BY <1>2
  <2> QED
    BY <1>1, <2>1 DEF Script!LoadedRun, EventsSound, FrameSound
<1> QED
  BY <1>5, <1>6, <1>7, <1>8 DEF Script!ScriptsAgree

LEMMA ScriptsInit ==
  ASSUME NEW I, NEW T, NumberedTimers(T), Script(I, T)!Init
  PROVE  ScriptsSound(I, T, w)
<1>1. /\ w.frames = <<>> /\ w.envs = <<>> /\ w.lists = {} /\ w.wanted = {} /\ w.pending = {}
      /\ w.due = {} /\ w.last = 0 /\ w.crowded = FALSE /\ w.broken = FALSE
      /\ w.items = [i \in I |-> Script(I, T)!NoItem] /\ w.fate = [t \in T |-> "unused"]
  BY DEF Script!Init
<1>2. w \in ScriptsType(I, T)
  <2>1. <<>> \in Seq(FrameRecord(T)) /\ <<>> \in Seq(EnvRecord(I)) /\ 0 \in Nat
    OBVIOUS
  <2>2. [i \in I |-> Script(I, T)!NoItem] \in [I -> ItemRecord]
    BY DEF Script!NoItem, ItemRecord
  <2> QED
    BY <2>1, <2>2 DEF Script!Init, ScriptsType
<1>3. Nested(<<>>, <<>>, FALSE)
  <2> DEFINE b == [k \in {0} |-> 0]
  <2>1. Stacked(<<>>, <<>>, FALSE, b)
    BY DEF Stacked
  <2> QED
    BY <2>1 DEF Nested
<1>4. ItemsSound(I, w)
  BY <1>1 DEF ItemsSound, ItemSound, Owned, OnList, Known, Script!NoItem
<1>5. TimersSound(T, w) /\ EventsSound(T, w)
  BY <1>1 DEF TimersSound, EventsSound
<1> QED
  BY <1>1, <1>2, <1>3, <1>4, <1>5 DEF ScriptsSound


-----------------------------------------------------------------------------
(* Environments are taken and given back.                                    *)

Others(s, t) ==
  /\ t.frames = s.frames /\ t.wanted = s.wanted /\ t.pending = s.pending /\ t.due = s.due
  /\ t.fate = s.fate /\ t.last = s.last /\ t.loaded = s.loaded
  /\ t.registered = s.registered /\ t.broken = s.broken

LEMMA ReleasedOnce ==
  ASSUME NEW I, NEW T, NEW s, s \in ScriptsType(I, T), ItemsSound(I, s), NEW i \in I
  PROVE  Script(I, T)!ReleasedBy(s, i) =
           IF s.items[i].place = "virtual" /\ OnList(s.lists, i) THEN 1 ELSE 0
<1> DEFINE L == {l \in s.lists : l[2] = i}
<1>1. CASE ~OnList(s.lists, i)
  <2>1. L = {}
    BY <1>1 DEF OnList
  <2>2. Script(I, T)!Cardinality(L) = 0
    BY <2>1, FS_EmptySet DEF Script!Cardinality, Cardinality
  <2> QED
    BY <1>1, <2>2 DEF Script!ReleasedBy
<1>2. CASE OnList(s.lists, i)
  <2>1. PICK l \in s.lists : l[2] = i
    BY <1>2 DEF OnList
  <2>2. \A m \in s.lists : m[2] = i => m = l
    <3> TAKE m \in s.lists
    <3> HAVE m[2] = i
    <3>1. /\ m[1] \in 1 .. Len(s.envs) /\ i \in s.envs[m[1]].knows
          /\ l[1] \in 1 .. Len(s.envs) /\ i \in s.envs[l[1]].knows
      BY <2>1 DEF ItemsSound, Owned
    <3>2. s.envs[m[1]].knows \cap s.envs[l[1]].knows # {}
      BY <3>1
    <3>3. m[1] = l[1]
      BY <3>1, <3>2 DEF ItemsSound, Owned
    <3>4. m \in Nat \X I /\ l \in Nat \X I
      BY DEF ScriptsType
    <3>5. m = <<m[1], m[2]>> /\ l = <<l[1], l[2]>>
      BY <3>4
    <3> QED
      BY <2>1, <3>3, <3>5
  <2>3. L = {l}
    BY <2>1, <2>2
  <2>4. Script(I, T)!Cardinality(L) = 1
    <3>1. Script(I, T)!Cardinality(L) = Cardinality(L)
      BY DEF Script!Cardinality, Cardinality
    <3>2. Cardinality({l}) = 1
      BY FS_Singleton
    <3> QED
      BY <2>3, <3>1, <3>2
  <2> QED
    BY <1>2, <2>4 DEF Script!ReleasedBy
<1> QED
  BY <1>1, <1>2

LEMMA ResetFacts ==
  ASSUME NEW I, NEW T, NEW s, s \in ScriptsType(I, T), ItemsSound(I, s)
  PROVE  LET t == Script(I, T)!Reset(s)
         IN /\ t \in ScriptsType(I, T) /\ Others(s, t) /\ t.envs = s.envs
            /\ t.crowded = s.crowded /\ t.lists = {}
            /\ \A i \in I : ItemSound(t.items[i], FALSE, Known(s.envs, i))
<1> DEFINE items == [i \in I |-> Script(I, T)!Counted(s.items[i], Script(I, T)!ReleasedBy(s, i))]
           t == [s EXCEPT !.items = items, !.lists = {}]
<1>1. Script(I, T)!Reset(s) = t
  BY DEF Script!Reset
<1>2. ASSUME NEW i \in I
      PROVE  items[i] \in ItemRecord /\ ItemSound(items[i], FALSE, Known(s.envs, i))
  <2> DEFINE x == s.items[i]
             n == Script(I, T)!ReleasedBy(s, i)
  <2>1. x \in ItemRecord /\ ItemSound(x, OnList(s.lists, i), Known(s.envs, i))
    BY DEF ScriptsType, ItemsSound
  <2>2. n = IF x.place = "virtual" /\ OnList(s.lists, i) THEN 1 ELSE 0
    BY ReleasedOnce
  <2>3. items[i] = [x EXCEPT !.releases = @ + n]
    BY DEF Script!Counted
  <2> HIDE DEF n, x, items
  <2>4. items[i] \in ItemRecord
    BY <2>1, <2>2, <2>3 DEF ItemRecord
  <2>5. /\ items[i].place = x.place /\ items[i].late = x.late /\ items[i].lost = x.lost
        /\ items[i].releases = x.releases + n /\ x.releases \in Nat
    BY <2>1, <2>3 DEF ItemRecord
  <2> QED
    BY <2>1, <2>2, <2>4, <2>5 DEF ItemSound
<1>3. items \in [I -> ItemRecord]
  BY <1>2
<1> HIDE DEF items
<1>4. /\ t \in ScriptsType(I, T) /\ t.items = items /\ t.lists = {} /\ t.envs = s.envs
      /\ t.crowded = s.crowded /\ Others(s, t)
  BY <1>3 DEF ScriptsType, Others
<1> QED
  BY <1>1, <1>2, <1>4

LEMMA ReleasedFacts ==
  ASSUME NEW I, NEW T, NEW s, s \in ScriptsType(I, T), ItemsSound(I, s)
  PROVE  LET t == Script(I, T)!Released(s)
         IN /\ t \in ScriptsType(I, T) /\ ItemsSound(I, t) /\ Others(s, t) /\ t.crowded = s.crowded
            /\ Len(t.envs) = IF s.envs = <<>> THEN 0 ELSE Len(s.envs) - 1
            /\ \A i \in 1 .. Len(t.envs) : t.envs[i] = s.envs[i]
<1>1. CASE s.envs = <<>>
  BY <1>1 DEF Script!Released, Others
<1>2. CASE s.envs # <<>>
  <2> DEFINE r == Script(I, T)!Reset(s)
             envs == SubSeq(s.envs, 1, Len(s.envs) - 1)
             t == [r EXCEPT !.envs = envs]
  <2>1. Script(I, T)!Released(s) = [r EXCEPT !.envs = SubSeq(r.envs, 1, Len(r.envs) - 1)]
    BY <1>2 DEF Script!Released, Script!Outer
  <2>2. /\ r \in ScriptsType(I, T) /\ Others(s, r) /\ r.envs = s.envs /\ r.crowded = s.crowded
        /\ r.lists = {} /\ \A i \in I : ItemSound(r.items[i], FALSE, Known(s.envs, i))
    <3> HIDE DEF envs, t
    <3>1. LET u == Script(I, T)!Reset(s)
          IN /\ u \in ScriptsType(I, T) /\ Others(s, u) /\ u.envs = s.envs
             /\ u.crowded = s.crowded /\ u.lists = {}
             /\ \A i \in I : ItemSound(u.items[i], FALSE, Known(s.envs, i))
      BY ResetFacts
    <3> QED
      BY <3>1
  <2> HIDE DEF r
  <2>3. Script(I, T)!Released(s) = t
    BY <2>1, <2>2
  <2>4. s.envs \in Seq(EnvRecord(I)) /\ Len(s.envs) \in Nat /\ Len(s.envs) > 0
    BY <1>2 DEF ScriptsType
  <2>5. /\ envs \in Seq(EnvRecord(I)) /\ Len(envs) = Len(s.envs) - 1
        /\ \A i \in 1 .. Len(envs) : envs[i] = s.envs[i] /\ i \in 1 .. Len(s.envs)
    BY <2>4
  <2> HIDE DEF envs
  <2>6. /\ t \in ScriptsType(I, T) /\ t.envs = envs /\ t.lists = {} /\ t.items = r.items
        /\ t.crowded = s.crowded /\ Others(s, t)
    BY <2>2, <2>5 DEF ScriptsType, Others
  <2>7. ASSUME NEW i \in I
        PROVE  ItemSound(t.items[i], FALSE, Known(envs, i))
    <3>1. Known(envs, i) => Known(s.envs, i)
      BY <2>5 DEF Known
    <3>2. ItemSound(r.items[i], FALSE, Known(s.envs, i))
      BY <2>2
    <3> QED
      BY <2>6, <3>1, <3>2 DEF ItemSound
  <2>8. Owned({}, envs)
    <3>1. Owned(s.lists, s.envs)
      BY DEF ItemsSound
    <3> QED
      BY <2>5, <3>1 DEF Owned
  <2>9. ItemsSound(I, t)
    <3>1. ASSUME NEW i \in I
          PROVE  ItemSound(t.items[i], OnList(t.lists, i), Known(t.envs, i))
      <4>1. ~OnList(t.lists, i)
        BY <2>6 DEF OnList
      <4> QED
        BY <2>6, <2>7, <4>1 DEF ItemSound
    <3> QED
      BY <2>6, <2>8, <3>1 DEF ItemsSound
  <2> QED
    BY <1>2, <2>3, <2>5, <2>6, <2>9
<1> QED
  BY <1>1, <1>2

LEMMA ReservedFacts ==
  ASSUME NEW I, NEW T, NEW s, s \in ScriptsType(I, T), ItemsSound(I, s), NEW k \in Nat
  PROVE  LET t == Script(I, T)!Reserved(s, k)
         IN /\ t \in ScriptsType(I, T) /\ ItemsSound(I, t) /\ Others(s, t) /\ t.crowded = s.crowded
            /\ Len(t.envs) = Len(s.envs) + 1 /\ t.envs[Len(s.envs) + 1].script = k
            /\ \A i \in 1 .. Len(s.envs) : t.envs[i] = s.envs[i]
            /\ t.envs # <<>>
<1> DEFINE e == Script(I, T)!NewEnv(k)
           envs == Append(s.envs, e)
           t == [s EXCEPT !.envs = envs]
           n == Len(s.envs)
<1>1. Script(I, T)!Reserved(s, k) = t
  BY DEF Script!Reserved
<1>2. e \in EnvRecord(I) /\ e.script = k /\ e.knows = {}
  BY DEF Script!NewEnv, EnvRecord
<1>3. s.envs \in Seq(EnvRecord(I)) /\ n \in Nat
  BY DEF ScriptsType
<1> HIDE DEF e
<1>4. /\ envs \in Seq(EnvRecord(I)) /\ Len(envs) = n + 1 /\ envs[n + 1] = e /\ envs # <<>>
      /\ \A i \in 1 .. n : envs[i] = s.envs[i] /\ i \in 1 .. n + 1
      /\ \A i \in 1 .. n + 1 : i = n + 1 \/ i \in 1 .. n
  BY <1>2, <1>3
<1> HIDE DEF envs, n
<1>5. /\ t \in ScriptsType(I, T) /\ t.envs = envs /\ t.lists = s.lists /\ t.items = s.items
      /\ t.crowded = s.crowded /\ Others(s, t)
  BY <1>4 DEF ScriptsType, Others
<1>6. Owned(s.lists, s.envs)
  BY DEF ItemsSound
<1>7. Owned(s.lists, envs)
  <2>1. \A l \in s.lists : l[1] \in 1 .. Len(envs) /\ l[2] \in envs[l[1]].knows
    BY <1>4, <1>6 DEF Owned, n
  <2>2. ASSUME NEW j \in 1 .. Len(envs), NEW m \in 1 .. Len(envs),
               envs[j].knows \cap envs[m].knows # {}
        PROVE  j = m
    <3>1. envs[j].knows # {} /\ envs[m].knows # {}
      BY <2>2
    <3>2. j # n + 1 /\ m # n + 1
      BY <1>2, <1>4, <3>1
    <3>3. j \in 1 .. n /\ m \in 1 .. n
      BY <1>4, <3>2
    <3> QED
      BY <1>4, <1>6, <2>2, <3>3 DEF Owned, n
  <2> QED
    BY <2>1, <2>2 DEF Owned
<1>8. \A i \in I : Known(envs, i) <=> Known(s.envs, i)
  BY <1>2, <1>4 DEF Known, n
<1>9. ItemsSound(I, t)
  <2>1. ASSUME NEW i \in I
        PROVE  ItemSound(t.items[i], OnList(t.lists, i), Known(t.envs, i))
    <3>1. ItemSound(s.items[i], OnList(s.lists, i), Known(s.envs, i))
      BY DEF ItemsSound
    <3> QED
      BY <1>5, <1>8, <3>1 DEF ItemSound
  <2> QED
    BY <1>5, <1>7, <2>1 DEF ItemsSound
<1> QED
  BY <1>1, <1>2, <1>4, <1>5, <1>9 DEF n

\* The script of an environment is another: nothing of items is touched.
LEMMA RenamedFacts ==
  ASSUME NEW I, NEW T, NEW s, s \in ScriptsType(I, T), ItemsSound(I, s), s.envs # <<>>, NEW k \in Nat
  PROVE  LET t == [s EXCEPT !.crowded = TRUE, !.envs[Len(s.envs)].script = k]
         IN /\ t \in ScriptsType(I, T) /\ ItemsSound(I, t) /\ Others(s, t) /\ t.crowded
            /\ Len(t.envs) = Len(s.envs)
<1> DEFINE n == Len(s.envs)
           envs == [s.envs EXCEPT ![n].script = k]
           t == [s EXCEPT !.crowded = TRUE, !.envs[Len(s.envs)].script = k]
<1>1. /\ s.envs \in Seq(EnvRecord(I)) /\ n \in Nat /\ n \in 1 .. n
      /\ DOMAIN s.envs = 1 .. n /\ \A i \in 1 .. n : s.envs[i] \in EnvRecord(I)
  BY DEF ScriptsType
<1>2. ASSUME NEW i \in 1 .. n
      PROVE  envs[i] \in EnvRecord(I) /\ envs[i].knows = s.envs[i].knows
  BY <1>1 DEF EnvRecord
<1>3. DOMAIN envs = 1 .. n /\ envs \in [1 .. n -> EnvRecord(I)]
  <2>1. DOMAIN envs = 1 .. n /\ envs = [i \in 1 .. n |-> envs[i]]
    BY <1>1
  <2> QED
    BY <1>2, <2>1
<1>4. envs \in Seq(EnvRecord(I)) /\ Len(envs) = n
  BY <1>1, <1>3
<1>5. t = [s EXCEPT !.crowded = TRUE, !.envs = envs]
  BY DEF ScriptsType
<1> HIDE DEF envs, n, t
<1>6. /\ t \in ScriptsType(I, T) /\ t.envs = envs /\ t.lists = s.lists /\ t.items = s.items
      /\ t.crowded /\ Others(s, t)
  BY <1>4, <1>5 DEF ScriptsType, Others
<1>7. Owned(s.lists, envs)
  <2>1. Owned(s.lists, s.envs)
    BY DEF ItemsSound
  <2> QED
    BY <1>2, <1>4, <2>1 DEF Owned, n
<1>8. \A i \in I : Known(envs, i) <=> Known(s.envs, i)
  BY <1>2, <1>4 DEF Known, n
<1>9. ItemsSound(I, t)
  <2>1. ASSUME NEW i \in I
        PROVE  ItemSound(t.items[i], OnList(t.lists, i), Known(t.envs, i))
    <3>1. ItemSound(s.items[i], OnList(s.lists, i), Known(s.envs, i))
      BY DEF ItemsSound
    <3> QED
      BY <1>6, <1>8, <3>1 DEF ItemSound
  <2> QED
    BY <1>6, <1>7, <2>1 DEF ItemsSound
<1> QED
  BY <1>4, <1>6, <1>9 DEF t, n


-----------------------------------------------------------------------------
(* Scripts start and end.                                                    *)

LEMMA LoadingFacts ==
  ASSUME NEW I, NEW T, NEW s, s \in ScriptsType(I, T), ItemsSound(I, s), s.envs # <<>>, NEW k \in Nat
  PROVE  LET t == Script(I, T)!Loading(s, k)
         IN /\ t \in ScriptsType(I, T) /\ ItemsSound(I, t) /\ Others(s, t)
            /\ Len(t.envs) <= Len(s.envs) + 1
            /\ ~t.crowded => /\ ~s.crowded /\ Len(t.envs) = Len(s.envs) + 1
                             /\ t.envs[Len(s.envs) + 1].script = k
                             /\ \A i \in 1 .. Len(s.envs) : t.envs[i] = s.envs[i]
<1> DEFINE t == Script(I, T)!Loading(s, k)
<1>0. Len(s.envs) \in Nat
  BY DEF ScriptsType
<1>1. CASE Script(I, T)!Room(s)
  <2>1. t = Script(I, T)!Reserved(s, k)
    BY <1>1 DEF Script!Loading
  <2> HIDE DEF t
  <2>2. LET u == Script(I, T)!Reserved(s, k)
        IN /\ u \in ScriptsType(I, T) /\ ItemsSound(I, u) /\ Others(s, u) /\ u.crowded = s.crowded
           /\ Len(u.envs) = Len(s.envs) + 1 /\ u.envs[Len(s.envs) + 1].script = k
           /\ \A i \in 1 .. Len(s.envs) : u.envs[i] = s.envs[i]
    BY ReservedFacts
  <2> QED
    BY <1>0, <2>1, <2>2 DEF t
<1>2. CASE ~Script(I, T)!Room(s)
  <2>1. t = [s EXCEPT !.crowded = TRUE, !.envs[Len(s.envs)].script = k]
    BY <1>2 DEF Script!Loading
  <2> HIDE DEF t
  <2>2. LET u == [s EXCEPT !.crowded = TRUE, !.envs[Len(s.envs)].script = k]
        IN /\ u \in ScriptsType(I, T) /\ ItemsSound(I, u) /\ Others(s, u) /\ u.crowded
           /\ Len(u.envs) = Len(s.envs)
    BY RenamedFacts
  <2> QED
    BY <1>0, <2>1, <2>2 DEF t
<1> QED
  BY <1>1, <1>2

LEMMA EnteredKeeps ==
  ASSUME NEW I, NEW T, NEW s, ScriptsSound(I, T, s), NEW u, u \in ScriptsType(I, T),
         ItemsSound(I, u), Others(s, u), NEW r \in FrameRecord(T), FrameSound(T, s, r),
         Nested(Append(s.frames, r), u.envs, u.crowded),
         r.how = "timer" => s.frames = <<>>
  PROVE  ScriptsSound(I, T, Script(I, T)!Entered(u, r.how, r.what, r.timer))
<1> DEFINE frames == Append(s.frames, r)
           t == [u EXCEPT !.frames = frames]
<1>1. Script(I, T)!Entered(u, r.how, r.what, r.timer) = t
  <2>1. r = [how |-> r.how, what |-> r.what, timer |-> r.timer]
    BY DEF FrameRecord
  <2> QED
    BY <2>1 DEF Script!Entered, Others
<1>2. /\ s.frames \in Seq(FrameRecord(T)) /\ TimersSound(T, s) /\ EventsSound(T, s)
      /\ NumberedTimers(T)
  BY DEF ScriptsSound, ScriptsType
<1>3. /\ frames \in Seq(FrameRecord(T)) /\ Len(frames) = Len(s.frames) + 1
      /\ frames[Len(frames)] = r /\ \A k \in 1 .. Len(s.frames) : frames[k] = s.frames[k]
      /\ \A k \in 1 .. Len(frames) : k = Len(frames) \/ k \in 1 .. Len(s.frames)
  BY <1>2
<1>4. Nested(frames, u.envs, u.crowded)
  OBVIOUS
<1> HIDE DEF frames
<1>5. /\ t \in ScriptsType(I, T) /\ t.frames = frames /\ t.envs = u.envs /\ t.crowded = u.crowded
      /\ t.lists = u.lists /\ t.items = u.items /\ t.wanted = s.wanted /\ t.pending = s.pending
      /\ t.due = s.due /\ t.fate = s.fate /\ t.last = s.last /\ t.loaded = s.loaded
      /\ t.broken = s.broken
  BY <1>3 DEF ScriptsType, Others
<1> HIDE DEF t
<1>6. ItemsSound(I, t)
  BY <1>5 DEF ItemsSound
<1>7. TimersSound(T, t)
  BY <1>2, <1>5 DEF TimersSound
<1>8. EventsSound(T, t)
  <2>1. ASSUME NEW k \in 1 .. Len(frames)
        PROVE  FrameSound(T, s, frames[k]) /\ (frames[k].how = "timer" => k = 1)
    <3>1. CASE k \in 1 .. Len(s.frames)
      BY <1>2, <1>3, <3>1 DEF EventsSound
    <3>2. CASE k = Len(frames)
      <4>1. r.how = "timer" => Len(s.frames) = 0
        OBVIOUS
      <4> QED
        BY <1>3, <3>2, <4>1
    <3> QED
      BY <1>3, <3>1, <3>2
  <2>2. \A k \in 1 .. Len(frames) :
          FrameSound(T, t, frames[k]) /\ (frames[k].how = "timer" => k = 1)
    BY <1>5, <2>1 DEF FrameSound
  <2> QED
    BY <1>2, <1>5, <2>2 DEF EventsSound
<1> QED
  BY <1>1, <1>2, <1>4, <1>5, <1>6, <1>7, <1>8 DEF ScriptsSound

LEMMA ExecutedKeeps ==
  ASSUME NEW I, NEW T, ScriptsSound(I, T, w), NEW e \in Events, e \in w.loaded
  PROVE  ScriptsSound(I, T, Script(I, T)!Executed(e))
<1> DEFINE n == Len(w.frames)
           m == Len(w.envs)
           u == Script(I, T)!Reserved(w, n + 1)
<1>1. /\ w \in ScriptsType(I, T) /\ ItemsSound(I, w) /\ Nested(w.frames, w.envs, w.crowded)
  BY DEF ScriptsSound
<1>2. /\ w.frames \in Seq(FrameRecord(T)) /\ w.envs \in Seq(EnvRecord(I)) /\ w.crowded \in BOOLEAN
      /\ n \in Nat /\ m \in Nat /\ n + 1 \in Nat
  BY <1>1 DEF ScriptsType
<1>3. /\ u \in ScriptsType(I, T) /\ ItemsSound(I, u) /\ Others(w, u) /\ u.crowded = w.crowded
      /\ Len(u.envs) = m + 1 /\ u.envs[m + 1].script = n + 1
      /\ \A i \in 1 .. m : u.envs[i] = w.envs[i]
      /\ u.envs # <<>>
  <2>1. LET v == Script(I, T)!Reserved(w, n + 1)
        IN /\ v \in ScriptsType(I, T) /\ ItemsSound(I, v) /\ Others(w, v) /\ v.crowded = w.crowded
           /\ Len(v.envs) = Len(w.envs) + 1 /\ v.envs[Len(w.envs) + 1].script = n + 1
           /\ \A i \in 1 .. Len(w.envs) : v.envs[i] = w.envs[i]
           /\ v.envs # <<>>
    <3> HIDE DEF n
    <3> QED
      BY <1>1, <1>2, ReservedFacts
  <2> QED
    BY <2>1
<1>4. CASE e \notin Buffers
  <2> DEFINE r == [how |-> "event", what |-> e, timer |-> 0]
  <2>1. /\ Script(I, T)!Executed(e) = Script(I, T)!Entered(u, r.how, r.what, r.timer)
        /\ r \in FrameRecord(T) /\ FrameSound(T, w, r) /\ Takes(r) = 1 /\ r.how # "timer"
    BY <1>4 DEF Script!Executed, Script!Started, FrameRecord, Hows, FrameSound, Takes
  <2> HIDE DEF r, u, m
  <2>2. Nested(Append(w.frames, r), u.envs, u.crowded)
    <3>1. u.envs \in Seq(EnvRecord(I)) /\ u.crowded \in BOOLEAN /\ Len(u.envs) <= m + Takes(r)
      BY <1>2, <1>3, <2>1 DEF ScriptsType
    <3>2. /\ \A i \in 1 .. m : u.envs[i].script = w.envs[i].script
          /\ \A i \in Nat : m < i /\ i <= Len(u.envs) => u.envs[i].script = n + 1
      BY <1>2, <1>3
    <3>3. Pushed(w.frames, w.envs, w.crowded, r, u.envs, u.crowded)
      BY <1>2, <1>3, <2>1, <3>1, <3>2 DEF Pushed, m
    <3> QED
      BY <1>1, <1>2, <2>1, <3>1, <3>3, PushFrame
  <2> QED
    BY <1>3, <2>1, <2>2, EnteredKeeps
<1>5. CASE e \in Buffers
  <2> DEFINE r == [how |-> "buffer", what |-> e, timer |-> 0]
             v == Script(I, T)!Loading(u, n + 1)
  <2>1. /\ Script(I, T)!Executed(e) = Script(I, T)!Entered(v, r.how, r.what, r.timer)
        /\ r \in FrameRecord(T) /\ FrameSound(T, w, r) /\ Takes(r) = 2 /\ r.how # "timer"
    BY <1>5 DEF Script!Executed, Script!Started, FrameRecord, Hows, FrameSound, Takes
  <2> HIDE DEF u
  <2>2. /\ v \in ScriptsType(I, T) /\ ItemsSound(I, v) /\ Others(u, v)
        /\ Len(v.envs) <= Len(u.envs) + 1
        /\ ~v.crowded => /\ ~u.crowded /\ Len(v.envs) = Len(u.envs) + 1
                         /\ v.envs[Len(u.envs) + 1].script = n + 1
                         /\ \A i \in 1 .. Len(u.envs) : v.envs[i] = u.envs[i]
    <3>1. LET x == Script(I, T)!Loading(u, n + 1)
          IN /\ x \in ScriptsType(I, T) /\ ItemsSound(I, x) /\ Others(u, x)
             /\ Len(x.envs) <= Len(u.envs) + 1
             /\ ~x.crowded => /\ ~u.crowded /\ Len(x.envs) = Len(u.envs) + 1
                              /\ x.envs[Len(u.envs) + 1].script = n + 1
                              /\ \A i \in 1 .. Len(u.envs) : x.envs[i] = u.envs[i]
      <4> HIDE DEF n, m, r, v
      <4>1. u \in ScriptsType(I, T) /\ ItemsSound(I, u) /\ u.envs # <<>> /\ n + 1 \in Nat
        BY <1>2, <1>3
      <4> QED
        BY <4>1, LoadingFacts
    <3> QED
      BY <3>1
  <2> HIDE DEF r, v, m
  <2>3. Nested(Append(w.frames, r), v.envs, v.crowded)
    <3>1. v.envs \in Seq(EnvRecord(I)) /\ v.crowded \in BOOLEAN /\ Len(v.envs) <= m + Takes(r)
      <4>1. v.envs \in Seq(EnvRecord(I)) /\ v.crowded \in BOOLEAN
        BY <2>2 DEF ScriptsType
      <4>2. Len(v.envs) \in Nat
        BY <4>1
      <4> QED
        BY <1>2, <1>3, <2>1, <2>2, <4>1, <4>2
    <3>2. ASSUME ~v.crowded
          PROVE  /\ ~w.crowded /\ Len(v.envs) = m + Takes(r)
                 /\ \A i \in 1 .. m : v.envs[i].script = w.envs[i].script
                 /\ \A i \in Nat : m < i /\ i <= Len(v.envs) => v.envs[i].script = n + 1
      <4>1. /\ Len(v.envs) = m + 2 /\ v.envs[m + 2].script = n + 1
            /\ \A i \in 1 .. m + 1 : v.envs[i] = u.envs[i]
        BY <1>2, <1>3, <2>2, <3>2
      <4>2. \A i \in Nat : m < i /\ i <= m + 2 => i = m + 1 \/ i = m + 2
        BY <1>2
      <4>3. m + 1 \in 1 .. m + 1 /\ \A i \in 1 .. m : i \in 1 .. m + 1
        BY <1>2
      <4> QED
        BY <1>2, <1>3, <2>1, <2>2, <3>2, <4>1, <4>2, <4>3
    <3>3. Pushed(w.frames, w.envs, w.crowded, r, v.envs, v.crowded)
      BY <3>1, <3>2 DEF Pushed, m
    <3> QED
      BY <1>1, <1>2, <2>1, <3>1, <3>3, PushFrame
  <2>4. Others(w, v)
    BY <1>3, <2>2 DEF Others
  <2> QED
    BY <2>1, <2>2, <2>3, <2>4, EnteredKeeps
<1> QED
  BY <1>4, <1>5

LEMMA LoadFileKeeps ==
  ASSUME NEW I, NEW T, ScriptsSound(I, T, w), Script(I, T)!LoadFile
  PROVE  ScriptsSound(I, T, w')
<1> DEFINE n == Len(w.frames)
           m == Len(w.envs)
           v == Script(I, T)!Loading(w, n + 1)
           r == [how |-> "load", what |-> "file", timer |-> 0]
<1>1. /\ w \in ScriptsType(I, T) /\ ItemsSound(I, w) /\ Nested(w.frames, w.envs, w.crowded)
  BY DEF ScriptsSound
<1>2. /\ w.frames \in Seq(FrameRecord(T)) /\ w.envs \in Seq(EnvRecord(I)) /\ w.crowded \in BOOLEAN
      /\ n \in Nat /\ m \in Nat /\ n + 1 \in Nat
  BY <1>1 DEF ScriptsType
<1>3. /\ w.envs # <<>> /\ w' = Script(I, T)!Entered(v, r.how, r.what, r.timer)
      /\ r \in FrameRecord(T) /\ FrameSound(T, w, r) /\ Takes(r) = 1 /\ r.how # "timer"
  BY DEF Script!LoadFile, Script!Running, Script!Started, FrameRecord, Hows, FrameSound, Takes
<1>4. /\ v \in ScriptsType(I, T) /\ ItemsSound(I, v) /\ Others(w, v)
      /\ Len(v.envs) <= m + 1
      /\ ~v.crowded => /\ ~w.crowded /\ Len(v.envs) = m + 1
                       /\ v.envs[m + 1].script = n + 1
                       /\ \A i \in 1 .. m : v.envs[i] = w.envs[i]
  <2>1. LET x == Script(I, T)!Loading(w, n + 1)
        IN /\ x \in ScriptsType(I, T) /\ ItemsSound(I, x) /\ Others(w, x)
           /\ Len(x.envs) <= Len(w.envs) + 1
           /\ ~x.crowded => /\ ~w.crowded /\ Len(x.envs) = Len(w.envs) + 1
                            /\ x.envs[Len(w.envs) + 1].script = n + 1
                            /\ \A i \in 1 .. Len(w.envs) : x.envs[i] = w.envs[i]
    <3> HIDE DEF n, r
    <3>1. w \in ScriptsType(I, T) /\ ItemsSound(I, w) /\ w.envs # <<>> /\ n + 1 \in Nat
      BY <1>1, <1>2, <1>3
    <3> QED
      BY <3>1, LoadingFacts
  <2> QED
    BY <2>1
<1> HIDE DEF r, v, m
<1>5. Nested(Append(w.frames, r), v.envs, v.crowded)
  <2>1. v.envs \in Seq(EnvRecord(I)) /\ v.crowded \in BOOLEAN /\ Len(v.envs) <= m + Takes(r)
    BY <1>3, <1>4 DEF ScriptsType
  <2>2. ASSUME ~v.crowded
        PROVE  /\ ~w.crowded /\ Len(v.envs) = m + Takes(r)
               /\ \A i \in 1 .. m : v.envs[i].script = w.envs[i].script
               /\ \A i \in Nat : m < i /\ i <= Len(v.envs) => v.envs[i].script = n + 1
    BY <1>2, <1>3, <1>4, <2>2
  <2>3. Pushed(w.frames, w.envs, w.crowded, r, v.envs, v.crowded)
    BY <2>1, <2>2 DEF Pushed, m
  <2> QED
    BY <1>1, <1>2, <1>3, <2>1, <2>3, PushFrame
<1> QED
  BY <1>3, <1>4, <1>5, EnteredKeeps


LEMMA ReturnKeeps ==
  ASSUME NEW I, NEW T, ScriptsSound(I, T, w), ~w.broken, Script(I, T)!Return
  PROVE  ScriptsSound(I, T, w')
<1> DEFINE n == Len(w.frames)
           frames == SubSeq(w.frames, 1, n - 1)
           f == w.frames[n]
           s == [w EXCEPT !.frames = frames]
           once == Script(I, T)!Released(s)
           t == IF f.how = "buffer" THEN Script(I, T)!Released(once) ELSE once
           ended == [t EXCEPT !.crowded = @ /\ frames # <<>>]
<1>1. /\ w \in ScriptsType(I, T) /\ Nested(w.frames, w.envs, w.crowded) /\ ItemsSound(I, w)
      /\ TimersSound(T, w) /\ EventsSound(T, w) /\ NumberedTimers(T)
  BY DEF ScriptsSound
<1>2. /\ w.frames \in Seq(FrameRecord(T)) /\ w.envs \in Seq(EnvRecord(I)) /\ w.crowded \in BOOLEAN
      /\ w.frames # <<>> /\ n \in Nat /\ n \in 1 .. n
  BY <1>1 DEF ScriptsType, Script!Return, Script!Idle
<1>3. /\ frames \in Seq(FrameRecord(T)) /\ Len(frames) = n - 1
      /\ \A k \in 1 .. Len(frames) : frames[k] = w.frames[k] /\ k \in 1 .. n
  BY <1>2
<1>4. f \in FrameRecord(T) /\ FrameSound(T, w, f)
  BY <1>1, <1>2 DEF EventsSound
<1>5. w' = IF f.how # "timer" THEN ended
           ELSE IF f.timer \in w.wanted THEN [ended EXCEPT !.wanted = @ \ {f.timer}]
           ELSE [ended EXCEPT !.broken = TRUE]
  <2>1. s.frames = frames
    BY <1>1 DEF ScriptsType
  <2> QED
    BY <2>1 DEF Script!Return, Script!Innermost, Script!Outer
<1> HIDE DEF frames, f
<1>6. s \in ScriptsType(I, T) /\ ItemsSound(I, s) /\ s.envs = w.envs /\ s.crowded = w.crowded
      /\ s.frames = frames /\ s.wanted = w.wanted /\ s.pending = w.pending /\ s.due = w.due
      /\ s.fate = w.fate /\ s.last = w.last /\ s.loaded = w.loaded /\ s.broken = w.broken
  <2>1. s \in ScriptsType(I, T)
    BY <1>1, <1>3 DEF ScriptsType
  <2>2. s.lists = w.lists /\ s.items = w.items /\ s.envs = w.envs
    BY <1>1 DEF ScriptsType
  <2>3. ItemsSound(I, s)
    BY <1>1, <2>2 DEF ItemsSound
  <2> QED
    BY <1>1, <2>1, <2>2, <2>3 DEF ScriptsType
<1> HIDE DEF s
<1>7. /\ once \in ScriptsType(I, T) /\ ItemsSound(I, once) /\ Others(s, once)
      /\ once.crowded = s.crowded
      /\ Len(once.envs) = IF s.envs = <<>> THEN 0 ELSE Len(s.envs) - 1
      /\ \A i \in 1 .. Len(once.envs) : once.envs[i] = s.envs[i]
  <2>1. LET u == Script(I, T)!Released(s)
        IN /\ u \in ScriptsType(I, T) /\ ItemsSound(I, u) /\ Others(s, u) /\ u.crowded = s.crowded
           /\ Len(u.envs) = IF s.envs = <<>> THEN 0 ELSE Len(s.envs) - 1
           /\ \A i \in 1 .. Len(u.envs) : u.envs[i] = s.envs[i]
    BY <1>6, ReleasedFacts
  <2> QED
    BY <2>1
<1> HIDE DEF once
<1>8. /\ t \in ScriptsType(I, T) /\ ItemsSound(I, t) /\ Others(s, t) /\ t.crowded = w.crowded
      /\ Len(t.envs) = IF Len(w.envs) < Takes(f) THEN 0 ELSE Len(w.envs) - Takes(f)
      /\ \A i \in 1 .. Len(t.envs) : t.envs[i] = w.envs[i]
  <2>1. /\ Len(w.envs) \in Nat /\ Len(once.envs) \in Nat /\ (w.envs = <<>> <=> Len(w.envs) = 0)
        /\ (once.envs = <<>> <=> Len(once.envs) = 0)
    <3>1. once.envs \in Seq(EnvRecord(I)) /\ w.envs \in Seq(EnvRecord(I))
      BY <1>2, <1>7 DEF ScriptsType
    <3>2. \A S, x : x \in Seq(S) => Len(x) \in Nat /\ (x = <<>> <=> Len(x) = 0)
      OBVIOUS
    <3> QED
      BY <3>1, <3>2, Zenon
  <2>2. CASE f.how # "buffer"
    BY <1>6, <1>7, <2>1, <2>2 DEF Takes
  <2>3. CASE f.how = "buffer"
    <3> DEFINE u == Script(I, T)!Released(once)
    <3>1. /\ u \in ScriptsType(I, T) /\ ItemsSound(I, u) /\ Others(once, u)
          /\ u.crowded = once.crowded
          /\ Len(u.envs) = IF once.envs = <<>> THEN 0 ELSE Len(once.envs) - 1
          /\ \A i \in 1 .. Len(u.envs) : u.envs[i] = once.envs[i]
      <4>1. LET x == Script(I, T)!Released(once)
            IN /\ x \in ScriptsType(I, T) /\ ItemsSound(I, x) /\ Others(once, x)
               /\ x.crowded = once.crowded
               /\ Len(x.envs) = IF once.envs = <<>> THEN 0 ELSE Len(once.envs) - 1
               /\ \A i \in 1 .. Len(x.envs) : x.envs[i] = once.envs[i]
        BY <1>7, ReleasedFacts
      <4> QED
        BY <4>1
    <3>2. t = u
      BY <2>3
    <3> HIDE DEF t, u
    <3>3. Others(s, u)
      BY <1>7, <3>1 DEF Others
    <3>4. Len(u.envs) = IF Len(w.envs) < 2 THEN 0 ELSE Len(w.envs) - 2
      BY <1>6, <1>7, <2>1, <3>1
    <3>5. \A i \in 1 .. Len(u.envs) : i \in 1 .. Len(once.envs)
      BY <2>1, <3>1
    <3> QED
      BY <1>6, <1>7, <2>3, <3>1, <3>2, <3>3, <3>4, <3>5 DEF Takes
  <2> QED
    BY <2>2, <2>3
<1> HIDE DEF t
<1>9. /\ t.frames = frames /\ t.wanted = w.wanted /\ t.pending = w.pending /\ t.due = w.due
      /\ t.fate = w.fate /\ t.last = w.last /\ t.loaded = w.loaded /\ t.broken = w.broken
  BY <1>6, <1>8 DEF Others
<1> DEFINE full == t.crowded /\ frames # <<>>
<1>10. /\ ended \in ScriptsType(I, T) /\ ended.frames = frames /\ ended.envs = t.envs
       /\ ended.crowded = full /\ ended.lists = t.lists /\ ended.items = t.items
       /\ ended.wanted = w.wanted /\ ended.pending = w.pending /\ ended.due = w.due
       /\ ended.fate = w.fate /\ ended.last = w.last /\ ended.loaded = w.loaded
       /\ ended.broken = w.broken
  BY <1>8, <1>9 DEF ScriptsType
<1>11. Nested(frames, t.envs, full)
  <2>1. t.envs \in Seq(EnvRecord(I)) /\ full \in BOOLEAN /\ (~full => ~w.crowded \/ frames = <<>>)
    BY <1>8 DEF ScriptsType
  <2>2. Popped(w.frames, w.envs, w.crowded, frames, t.envs, full)
    BY <1>3, <1>8, <2>1 DEF Popped, f
  <2> HIDE DEF full, n, ended
  <2> QED
    BY <1>1, <1>2, <1>3, <2>1, <2>2, PopFrame
<1> HIDE DEF ended, full
<1>12. ItemsSound(I, ended)
  BY <1>8, <1>10 DEF ItemsSound
<1>13. \A k \in 1 .. Len(frames) :
         FrameSound(T, w, frames[k]) /\ (frames[k].how = "timer" => k = 1)
  BY <1>1, <1>3 DEF EventsSound
<1>14. CASE f.how # "timer"
  <2>1. w' = ended
    BY <1>5, <1>14
  <2>2. TimersSound(T, ended)
    BY <1>1, <1>10 DEF TimersSound
  <2>3. EventsSound(T, ended)
    BY <1>10, <1>13 DEF EventsSound, FrameSound
  <2> QED
    BY <1>1, <1>10, <1>11, <1>12, <2>1, <2>2, <2>3 DEF ScriptsSound
<1>15. CASE f.how = "timer"
  <2> DEFINE wanted == IF f.timer \in w.wanted THEN w.wanted \ {f.timer} ELSE w.wanted
             broken == f.timer \notin w.wanted
             x == [ended EXCEPT !.wanted = wanted, !.broken = broken]
  <2>1. w' = x
    <3>1. ended = [ended EXCEPT !.wanted = w.wanted, !.broken = w.broken] /\ w.broken = FALSE
      BY <1>1, <1>10 DEF ScriptsType
    <3> QED
      BY <1>5, <1>10, <1>15, <3>1 DEF ScriptsType
  <2>2. wanted \subseteq w.wanted /\ wanted \in SUBSET T /\ broken \in BOOLEAN
    BY <1>1 DEF ScriptsType
  <2>3. broken => f.timer \in T /\ w.fate[f.timer] = "cut"
    BY <1>4, <1>15 DEF FrameSound
  <2>8. Len(frames) = 0
    <3>1. n = 1
      BY <1>1, <1>2, <1>15 DEF EventsSound, f
    <3> QED
      BY <1>3, <3>1
  <2> HIDE DEF wanted, broken
  <2>4. /\ x \in ScriptsType(I, T) /\ x.frames = frames /\ x.envs = t.envs
        /\ x.crowded = full /\ x.lists = ended.lists /\ x.items = ended.items
        /\ x.wanted = wanted /\ x.pending = w.pending /\ x.due = w.due
        /\ x.fate = w.fate /\ x.last = w.last /\ x.loaded = w.loaded
        /\ x.broken = broken
    BY <1>10, <2>2 DEF ScriptsType
  <2> HIDE DEF x
  <2>5. ItemsSound(I, x)
    BY <1>10, <1>12, <2>4 DEF ItemsSound
  <2>6. TimersSound(T, x)
    BY <1>1, <2>2, <2>4 DEF TimersSound
  <2>7. EventsSound(T, x)
    BY <2>3, <2>4, <2>8 DEF EventsSound
  <2> QED
    BY <1>1, <1>11, <2>1, <2>4, <2>5, <2>6, <2>7 DEF ScriptsSound
<1> QED
  BY <1>14, <1>15


\* Steps that leave the frames alone.
LEMMA SameFramesKeep ==
  ASSUME NEW I, NEW T, NEW s, ScriptsSound(I, T, s), NEW t, t \in ScriptsType(I, T), t.frames = s.frames,
         t.envs = s.envs, t.crowded = s.crowded, t.lists = s.lists, t.items = s.items,
         TimersSound(T, t), EventsSound(T, t)
  PROVE  ScriptsSound(I, T, t)
  BY DEF ScriptsSound, ItemsSound

LEMMA ExecuteKeeps ==
  ASSUME NEW I, NEW T, ScriptsSound(I, T, w), ~w.broken, NEW e \in Events,
         \/ Script(I, T)!ExecuteCreatureEvent(e) \/ Script(I, T)!PlayerLogin(e)
         \/ Script(I, T)!ExecuteMoveItems(e)
  PROVE  ScriptsSound(I, T, w')
<1>1. CASE w' = w
  <2>1. ScriptsSound(I, T, w)
    OBVIOUS
  <2> QED
    BY <1>1, <2>1
<1>2. CASE e \in w.loaded /\ w' = Script(I, T)!Executed(e)
  BY <1>2, ExecutedKeeps
<1>3. CASE w' = [w EXCEPT !.broken = TRUE] /\ e \notin w.loaded /\ EventType[e] = "moveitem"
  <2> DEFINE x == [w EXCEPT !.broken = TRUE]
  <2>1. w \in ScriptsType(I, T) /\ TimersSound(T, w) /\ EventsSound(T, w)
    BY DEF ScriptsSound
  <2>2. /\ x \in ScriptsType(I, T) /\ x.frames = w.frames /\ x.envs = w.envs /\ x.crowded = w.crowded
        /\ x.lists = w.lists /\ x.items = w.items /\ x.wanted = w.wanted /\ x.pending = w.pending
        /\ x.due = w.due /\ x.fate = w.fate /\ x.last = w.last /\ x.loaded = w.loaded
    BY <2>1 DEF ScriptsType
  <2> HIDE DEF x
  <2>3. TimersSound(T, x)
    BY <2>1, <2>2 DEF TimersSound
  <2>4. EventsSound(T, x)
    BY <1>3, <2>1, <2>2 DEF EventsSound, FrameSound
  <2>5. ScriptsSound(I, T, x)
    BY <2>2, <2>3, <2>4, SameFramesKeep
  <2> QED
    BY <1>3, <2>5 DEF x
<1>4. CASE Script(I, T)!ExecuteCreatureEvent(e)
  BY <1>1, <1>2, <1>4 DEF Script!ExecuteCreatureEvent, Script!ExecuteIf, Script!CreatureEvents
<1>5. CASE Script(I, T)!PlayerLogin(e)
  BY <1>1, <1>2, <1>5 DEF Script!PlayerLogin, Script!ExecuteIf
<1>6. CASE Script(I, T)!ExecuteMoveItems(e)
  BY <1>1, <1>2, <1>3, <1>6 DEF Script!ExecuteMoveItems
<1> QED
  BY <1>4, <1>5, <1>6

LEMMA RegisterKeeps ==
  ASSUME NEW I, NEW T, ScriptsSound(I, T, w), NEW e \in Events,
         Script(I, T)!RegisterCreatureEvent(e) \/ Script(I, T)!UnregisterCreatureEvent(e)
  PROVE  ScriptsSound(I, T, w')
<1>1. PICK registered \in SUBSET Events : w' = [w EXCEPT !.registered = registered]
  BY DEF ScriptsSound, ScriptsType, Script!RegisterCreatureEvent, Script!UnregisterCreatureEvent
<1> DEFINE x == [w EXCEPT !.registered = registered]
<1>2. w \in ScriptsType(I, T) /\ TimersSound(T, w) /\ EventsSound(T, w)
  BY DEF ScriptsSound
<1>3. /\ x \in ScriptsType(I, T) /\ x.frames = w.frames /\ x.envs = w.envs /\ x.crowded = w.crowded
      /\ x.lists = w.lists /\ x.items = w.items /\ x.wanted = w.wanted /\ x.pending = w.pending
      /\ x.due = w.due /\ x.fate = w.fate /\ x.last = w.last /\ x.loaded = w.loaded
      /\ x.broken = w.broken
  BY <1>2 DEF ScriptsType
<1> HIDE DEF x
<1>4. TimersSound(T, x)
  BY <1>2, <1>3 DEF TimersSound
<1>5. EventsSound(T, x)
  BY <1>2, <1>3 DEF EventsSound, FrameSound
<1>6. ScriptsSound(I, T, x)
  BY <1>3, <1>4, <1>5, SameFramesKeep
<1> QED
  BY <1>1, <1>6 DEF x

-----------------------------------------------------------------------------
(* Items are made, placed and removed.                                       *)

LEMMA ItemsKeep ==
  ASSUME NEW I, NEW T, NEW s, ScriptsSound(I, T, s), NEW t, t \in ScriptsType(I, T), Others(s, t),
         Nested(t.frames, t.envs, t.crowded), ItemsSound(I, t)
  PROVE  ScriptsSound(I, T, t)
<1>1. TimersSound(T, t)
  BY DEF ScriptsSound, TimersSound, Others
<1>2. EventsSound(T, t)
  BY DEF ScriptsSound, EventsSound, FrameSound, Others
<1> QED
  BY <1>1, <1>2 DEF ScriptsSound

LEMMA ItemChanged ==
  ASSUME NEW I, NEW T, NEW s, ScriptsSound(I, T, s), NEW i \in I, NEW x \in ItemRecord,
         NEW lists \in SUBSET (Nat \X I), Owned(lists, s.envs),
         \A l \in lists : l \in s.lists \/ l[2] = i,
         \A l \in s.lists : l[2] # i => l \in lists,
         ItemSound(x, OnList(lists, i), Known(s.envs, i))
  PROVE  ScriptsSound(I, T, [s EXCEPT !.items = [s.items EXCEPT ![i] = x], !.lists = lists])
<1> DEFINE items == [s.items EXCEPT ![i] = x]
           t == [s EXCEPT !.items = items, !.lists = lists]
<1>1. s \in ScriptsType(I, T) /\ ItemsSound(I, s) /\ Nested(s.frames, s.envs, s.crowded)
  BY DEF ScriptsSound
<1>2. /\ items \in [I -> ItemRecord] /\ items[i] = x
      /\ \A j \in I : j # i => items[j] = s.items[j]
  BY <1>1 DEF ScriptsType
<1> HIDE DEF items
<1>3. /\ t \in ScriptsType(I, T) /\ t.items = items /\ t.lists = lists /\ t.envs = s.envs
      /\ t.frames = s.frames /\ t.crowded = s.crowded /\ Others(s, t)
  BY <1>1, <1>2 DEF ScriptsType, Others
<1> HIDE DEF t
<1>4. ASSUME NEW j \in I
      PROVE  ItemSound(t.items[j], OnList(t.lists, j), Known(t.envs, j))
  <2>1. CASE j = i
    BY <1>2, <1>3, <2>1
  <2>2. CASE j # i
    <3>1. OnList(t.lists, j) <=> OnList(s.lists, j)
      BY <1>3, <2>2 DEF OnList
    <3>2. ItemSound(s.items[j], OnList(s.lists, j), Known(s.envs, j))
      BY <1>1 DEF ItemsSound
    <3> QED
      BY <1>2, <1>3, <2>2, <3>1, <3>2 DEF ItemSound
  <2> QED
    BY <2>1, <2>2
<1>5. ItemsSound(I, t)
  BY <1>3, <1>4 DEF ItemsSound
<1>6. Nested(t.frames, t.envs, t.crowded)
  BY <1>1, <1>3
<1>7. ScriptsSound(I, T, t)
  BY <1>3, <1>5, <1>6, ItemsKeep
<1> QED
  BY <1>7 DEF t, items

LEMMA CreateItemExKeeps ==
  ASSUME NEW I, NEW T, ScriptsSound(I, T, w), NEW i \in I, Script(I, T)!CreateItemEx(i)
  PROVE  ScriptsSound(I, T, w')
<1> DEFINE n == Len(w.envs)
           x == [w.items[i] EXCEPT !.place = "virtual"]
           items == [w.items EXCEPT ![i] = x]
           lists == w.lists \cup {<<n, i>>}
           envs == [w.envs EXCEPT ![n].knows = @ \cup {i}]
           t == [w EXCEPT !.items = items, !.lists = lists, !.envs = envs]
<1>1. w \in ScriptsType(I, T) /\ ItemsSound(I, w) /\ Nested(w.frames, w.envs, w.crowded)
  BY DEF ScriptsSound
<1>2. w' = t /\ w.items[i].place = "none" /\ w.envs # <<>>
  BY <1>1 DEF ScriptsType, Script!CreateItemEx, Script!Running, Script!Listed
<1>3. /\ w.envs \in Seq(EnvRecord(I)) /\ n \in Nat /\ n \in 1 .. n /\ DOMAIN w.envs = 1 .. n
      /\ w.items[i] \in ItemRecord
      /\ w.items \in [I -> ItemRecord] /\ w.frames \in Seq(FrameRecord(T))
  BY <1>1, <1>2 DEF ScriptsType
<1>4. /\ x \in ItemRecord /\ x.place = "virtual" /\ x.releases = w.items[i].releases
      /\ x.late = w.items[i].late /\ x.lost = w.items[i].lost
  BY <1>3 DEF ItemRecord
<1> HIDE DEF x
<1>5. items \in [I -> ItemRecord] /\ items[i] = x /\ \A j \in I : j # i => items[j] = w.items[j]
  BY <1>3, <1>4
<1>6. ASSUME NEW k \in 1 .. n
      PROVE  /\ envs[k] \in EnvRecord(I) /\ envs[k].script = w.envs[k].script
             /\ envs[k].knows = IF k = n THEN w.envs[k].knows \cup {i} ELSE w.envs[k].knows
  <2>1. w.envs[k] \in EnvRecord(I)
    BY <1>3
  <2> QED
    BY <1>3, <2>1 DEF EnvRecord
<1>7. envs \in Seq(EnvRecord(I)) /\ Len(envs) = n
  <2>1. DOMAIN envs = 1 .. n /\ envs = [k \in 1 .. n |-> envs[k]]
    BY <1>3
  <2> HIDE DEF envs
  <2>2. envs \in [1 .. n -> EnvRecord(I)]
    BY <1>6, <2>1
  <2> QED
    BY <1>3, <2>1, <2>2
<1>8. lists \in SUBSET (Nat \X I)
  BY <1>1, <1>3 DEF ScriptsType
<1> HIDE DEF items, envs, t
<1>9. /\ t \in ScriptsType(I, T) /\ t.items = items /\ t.lists = lists /\ t.envs = envs
      /\ t.frames = w.frames /\ t.crowded = w.crowded /\ Others(w, t)
  BY <1>1, <1>5, <1>7, <1>8 DEF ScriptsType, Others, t
<1>10. ItemSound(w.items[i], OnList(w.lists, i), Known(w.envs, i))
  BY <1>1 DEF ItemsSound
<1>11. ~Known(w.envs, i) /\ x.releases = 0 /\ ~x.late
  BY <1>2, <1>4, <1>10 DEF ItemSound
<1>12. Owned(lists, envs)
  <2>1. Owned(w.lists, w.envs)
    BY <1>1 DEF ItemsSound
  <2>2. ASSUME NEW l \in lists
        PROVE  l[1] \in 1 .. n /\ l[2] \in envs[l[1]].knows
    <3>1. CASE l = <<n, i>>
      BY <1>3, <1>6, <3>1
    <3>2. CASE l \in w.lists
      BY <1>6, <2>1, <3>2 DEF Owned
    <3> QED
      BY <2>2, <3>1, <3>2
  <2>3. ASSUME NEW j \in 1 .. n, NEW k \in 1 .. n, envs[j].knows \cap envs[k].knows # {}
        PROVE  j = k
    <3>1. PICK y : y \in envs[j].knows /\ y \in envs[k].knows
      BY <2>3
    <3>2. i \notin w.envs[j].knows /\ i \notin w.envs[k].knows
      BY <1>11 DEF Known
    <3>3. CASE y = i
      BY <1>6, <3>1, <3>2, <3>3
    <3>4. CASE y # i
      <4>1. y \in w.envs[j].knows /\ y \in w.envs[k].knows
        BY <1>6, <3>1, <3>4
      <4> QED
        BY <2>1, <4>1 DEF Owned
    <3> QED
      BY <3>3, <3>4
  <2> QED
    BY <1>7, <2>2, <2>3 DEF Owned
<1>13. ASSUME NEW j \in I
       PROVE  ItemSound(t.items[j], OnList(t.lists, j), Known(t.envs, j))
  <2>1. CASE j = i
    <3>1. <<n, i>> \in lists /\ <<n, i>>[2] = i
      OBVIOUS
    <3> HIDE DEF lists
    <3>2. OnList(lists, i)
      BY <3>1 DEF OnList
    <3> QED
      BY <1>4, <1>5, <1>9, <1>11, <2>1, <3>2 DEF ItemSound
  <2>2. CASE j # i
    <3>1. OnList(lists, j) <=> OnList(w.lists, j)
      BY <2>2 DEF OnList
    <3>2. Known(envs, j) <=> Known(w.envs, j)
      BY <1>6, <1>7, <2>2 DEF Known
    <3>3. ItemSound(w.items[j], OnList(w.lists, j), Known(w.envs, j))
      BY <1>1 DEF ItemsSound
    <3> QED
      BY <1>5, <1>9, <2>2, <3>1, <3>2, <3>3 DEF ItemSound
  <2> QED
    BY <2>1, <2>2
<1>14. ItemsSound(I, t)
  BY <1>9, <1>12, <1>13 DEF ItemsSound
<1>15. Nested(w.frames, envs, w.crowded)
  <2>1. \A k \in 1 .. Len(w.envs) : envs[k].script = w.envs[k].script
    BY <1>6
  <2>2. Len(envs) = Len(w.envs) /\ Len(w.envs) \in Nat /\ Len(w.frames) \in Nat
    BY <1>3, <1>7
  <2> HIDE DEF n
  <2> QED
    BY <1>1, <2>1, <2>2, SameFrames
<1>16. Nested(t.frames, t.envs, t.crowded)
  BY <1>9, <1>15
<1>17. ScriptsSound(I, T, t)
  BY <1>9, <1>14, <1>16, ItemsKeep
<1> QED
  BY <1>2, <1>17

LEMMA VirtualFacts ==
  ASSUME NEW I, NEW T, ScriptsSound(I, T, w), NEW i \in I, Script(I, T)!Virtual(i)
  PROVE  LET off == w.lists \ {<<Len(w.envs), i>>}
             on == w.lists \cup {<<Len(w.envs), i>>}
         IN /\ w.items[i] \in ItemRecord /\ w.items[i].place = "virtual" /\ Len(w.envs) \in Nat
            /\ off \in SUBSET (Nat \X I) /\ Owned(off, w.envs) /\ ~OnList(off, i)
            /\ on \in SUBSET (Nat \X I) /\ Owned(on, w.envs) /\ OnList(on, i)
            /\ Known(w.envs, i) /\ w.items \in [I -> ItemRecord]
            /\ ItemSound(w.items[i], OnList(w.lists, i), Known(w.envs, i))
<1> DEFINE n == Len(w.envs)
           off == w.lists \ {<<n, i>>}
           on == w.lists \cup {<<n, i>>}
<1>1. w \in ScriptsType(I, T) /\ ItemsSound(I, w)
  BY DEF ScriptsSound
<1>2. /\ w.envs # <<>> /\ i \in w.envs[n].knows /\ w.items[i].place = "virtual"
  BY DEF Script!Virtual, Script!Running, Script!Env, Script!Innermost
<1>3. /\ w.envs \in Seq(EnvRecord(I)) /\ w.items \in [I -> ItemRecord] /\ w.lists \in SUBSET (Nat \X I)
      /\ n \in Nat /\ n \in 1 .. n /\ w.items[i] \in ItemRecord
  BY <1>1, <1>2 DEF ScriptsType
<1> HIDE DEF n
<1>4. Owned(w.lists, w.envs) /\ ItemSound(w.items[i], OnList(w.lists, i), Known(w.envs, i))
  BY <1>1 DEF ItemsSound
<1>5. Known(w.envs, i)
  BY <1>2, <1>3 DEF Known, n
<1>6. <<n, i>> \in Nat \X I /\ <<n, i>>[1] = n /\ <<n, i>>[2] = i
  BY <1>3
<1>7. off \in SUBSET (Nat \X I) /\ on \in SUBSET (Nat \X I)
  BY <1>3, <1>6
<1>8. Owned(off, w.envs)
  BY <1>4 DEF Owned
<1>9. Owned(on, w.envs)
  <2>1. ASSUME NEW l \in on
        PROVE  l[1] \in 1 .. Len(w.envs) /\ l[2] \in w.envs[l[1]].knows
    <3>1. CASE l = <<n, i>>
      BY <1>2, <1>3, <1>6, <3>1 DEF n
    <3>2. CASE l \in w.lists
      BY <1>4, <3>2 DEF Owned
    <3> QED
      BY <2>1, <3>1, <3>2
  <2> HIDE DEF on
  <2> QED
    BY <1>4, <2>1 DEF Owned
<1>10. OnList(on, i)
  <2>1. <<n, i>> \in on
    OBVIOUS
  <2> HIDE DEF on
  <2> QED
    BY <1>6, <2>1 DEF OnList
<1>11. ~OnList(off, i)
  <2> SUFFICES ASSUME NEW l \in off, l[2] = i
               PROVE  FALSE
    BY DEF OnList
  <2>1. l \in w.lists /\ l # <<n, i>> /\ l \in Nat \X I
    BY <1>3
  <2>2. l[1] \in 1 .. Len(w.envs) /\ i \in w.envs[l[1]].knows
    BY <1>4, <2>1 DEF Owned
  <2>3. w.envs[l[1]].knows \cap w.envs[n].knows # {}
    BY <1>2, <2>2
  <2>4. l[1] = n
    BY <1>3, <1>4, <2>2, <2>3 DEF Owned, n
  <2>5. l = <<l[1], l[2]>>
    BY <2>1
  <2> QED
    BY <2>1, <2>4, <2>5
<1> HIDE DEF on, off
<1>12. /\ w.items[i] \in ItemRecord /\ w.items[i].place = "virtual" /\ n \in Nat
       /\ off \in SUBSET (Nat \X I) /\ Owned(off, w.envs) /\ ~OnList(off, i)
       /\ on \in SUBSET (Nat \X I) /\ Owned(on, w.envs) /\ OnList(on, i)
       /\ Known(w.envs, i) /\ w.items \in [I -> ItemRecord]
       /\ ItemSound(w.items[i], OnList(w.lists, i), Known(w.envs, i))
  BY <1>2, <1>3, <1>4, <1>5, <1>7, <1>8, <1>9, <1>10, <1>11
<1> QED
  BY <1>12 DEF on, off, n

LEMMA PlaceItemKeeps ==
  ASSUME NEW I, NEW T, ScriptsSound(I, T, w), NEW i \in I,
         Script(I, T)!PlaceItemEx(i) \/ Script(I, T)!PlayerAddItemEx(i)
  PROVE  ScriptsSound(I, T, w')
<1> DEFINE n == Len(w.envs)
           x == w.items[i]
           used == [x EXCEPT !.late = x.late \/ x.releases > 0]
           off == w.lists \ {<<n, i>>}
           on == w.lists \cup {<<n, i>>}
           world == [used EXCEPT !.place = "world"]
           lost == [used EXCEPT !.lost = TRUE]
<1>1. Script(I, T)!Virtual(i)
  BY DEF Script!PlaceItemEx, Script!PlayerAddItemEx
<1>2. w \in ScriptsType(I, T)
  BY DEF ScriptsSound
<1>3. /\ x \in ItemRecord /\ x.place = "virtual" /\ n \in Nat
      /\ off \in SUBSET (Nat \X I) /\ Owned(off, w.envs) /\ ~OnList(off, i)
      /\ on \in SUBSET (Nat \X I) /\ Owned(on, w.envs) /\ OnList(on, i)
      /\ Known(w.envs, i) /\ w.items \in [I -> ItemRecord]
      /\ ItemSound(x, OnList(w.lists, i), Known(w.envs, i))
  BY <1>1, VirtualFacts
<1>4. \/ w' = [w EXCEPT !.items = [w.items EXCEPT ![i] = world], !.lists = off]
      \/ w' = [w EXCEPT !.items = [w.items EXCEPT ![i] = lost], !.lists = off]
      \/ w' = [w EXCEPT !.items = [w.items EXCEPT ![i] = used], !.lists = on]
  <2>1. Script(I, T)!Used(i) = [w EXCEPT !.items = [w.items EXCEPT ![i] = used]]
    BY <1>2, <1>3 DEF Script!Used, ScriptsType
  <2>2. Script(I, T)!Listed(i) = <<n, i>>
    BY DEF Script!Listed
  <2> DEFINE u == [w EXCEPT !.items = [w.items EXCEPT ![i] = used]]
             v == [u EXCEPT !.lists = u.lists \ {<<n, i>>}]
  <2>3. Script(I, T)!Off(Script(I, T)!Used(i), i) = v
    BY <2>1, <2>2 DEF Script!Off
  <2>4. /\ u.lists = w.lists /\ v.lists = off /\ v.items = [w.items EXCEPT ![i] = used] /\ v.items[i] = used
        /\ v = [w EXCEPT !.items = [w.items EXCEPT ![i] = used], !.lists = off]
    BY <1>2, <1>3 DEF ScriptsType
  <2>5. \/ w' = [v EXCEPT !.items[i].place = "world"]
        \/ w' = [v EXCEPT !.items[i].lost = TRUE]
        \/ w' = [u EXCEPT !.lists = u.lists \cup {<<n, i>>}]
    BY <2>1, <2>2, <2>3 DEF Script!PlaceItemEx, Script!PlayerAddItemEx
  <2> HIDE DEF used
  <2>6. /\ [v EXCEPT !.items[i].place = "world"]
             = [w EXCEPT !.items = [w.items EXCEPT ![i] = world], !.lists = off]
        /\ [v EXCEPT !.items[i].lost = TRUE]
             = [w EXCEPT !.items = [w.items EXCEPT ![i] = lost], !.lists = off]
        /\ [u EXCEPT !.lists = u.lists \cup {<<n, i>>}]
             = [w EXCEPT !.items = [w.items EXCEPT ![i] = used], !.lists = on]
    <3> DEFINE a == [v EXCEPT !.items[i].place = "world"]
               b == [v EXCEPT !.items[i].lost = TRUE]
               c == [u EXCEPT !.lists = u.lists \cup {<<n, i>>}]
    <3>1. /\ [v.items EXCEPT ![i].place = "world"] = [w.items EXCEPT ![i] = world]
          /\ [v.items EXCEPT ![i].lost = TRUE] = [w.items EXCEPT ![i] = lost]
      <4> DEFINE g == [w.items EXCEPT ![i] = used]
      <4>1. g[i] = used /\ \A z : [g EXCEPT ![i] = z] = [w.items EXCEPT ![i] = z]
        BY <1>3
      <4> HIDE DEF g
      <4>2. /\ [g EXCEPT ![i].place = "world"] = [g EXCEPT ![i] = world]
            /\ [g EXCEPT ![i].lost = TRUE] = [g EXCEPT ![i] = lost]
        BY <4>1
      <4>3. v.items = g
        BY <2>4 DEF g
      <4> HIDE DEF world, lost, v
      <4> QED
        BY <4>1, <4>2, <4>3
    <3>2. /\ a = [v EXCEPT !.items = [w.items EXCEPT ![i] = world]]
          /\ b = [v EXCEPT !.items = [w.items EXCEPT ![i] = lost]]
      BY <1>2, <2>4, <3>1 DEF ScriptsType
    <3> HIDE DEF world, lost, v, u
    <3>3. /\ a = [w EXCEPT !.items = [w.items EXCEPT ![i] = world], !.lists = off]
          /\ b = [w EXCEPT !.items = [w.items EXCEPT ![i] = lost], !.lists = off]
      BY <1>2, <2>4, <3>2 DEF ScriptsType
    <3>4. c = [w EXCEPT !.items = [w.items EXCEPT ![i] = used], !.lists = on]
      BY <1>2, <2>4 DEF ScriptsType, u
    <3> QED
      BY <3>3, <3>4
  <2> QED
    BY <2>5, <2>6
<1>5. /\ used \in ItemRecord /\ used.place = "virtual" /\ (used.late <=> x.late \/ x.releases > 0)
      /\ used.releases = x.releases /\ used.lost = x.lost
  BY <1>3 DEF ItemRecord
<1> HIDE DEF used
<1>6. /\ world \in ItemRecord /\ world.place = "world" /\ world.releases = x.releases
      /\ world.late = used.late /\ world.lost = x.lost
      /\ lost \in ItemRecord /\ lost.place = "virtual" /\ lost.releases = x.releases
      /\ lost.late = used.late /\ lost.lost
  BY <1>5 DEF ItemRecord
<1> HIDE DEF world, lost, x
<1>7. x.releases \in Nat
  BY <1>3 DEF ItemRecord
<1>8. /\ ItemSound(world, OnList(off, i), Known(w.envs, i))
      /\ ItemSound(lost, OnList(off, i), Known(w.envs, i))
      /\ ItemSound(used, OnList(on, i), Known(w.envs, i))
  <2>1. ~used.late => x.releases = 0
    BY <1>5, <1>7
  <2> QED
    BY <1>3, <1>5, <1>6, <1>7, <2>1 DEF ItemSound
<1>9. /\ \A l \in off : l \in w.lists \/ l[2] = i
      /\ \A l \in w.lists : l[2] # i => l \in off
      /\ \A l \in on : l \in w.lists \/ l[2] = i
      /\ \A l \in w.lists : l[2] # i => l \in on
  BY <1>3
<1> HIDE DEF off, on, n
<1>10. ScriptsSound(I, T, [w EXCEPT !.items = [w.items EXCEPT ![i] = world], !.lists = off])
  BY <1>3, <1>6, <1>8, <1>9, ItemChanged
<1>11. ScriptsSound(I, T, [w EXCEPT !.items = [w.items EXCEPT ![i] = lost], !.lists = off])
  BY <1>3, <1>6, <1>8, <1>9, ItemChanged
<1>12. ScriptsSound(I, T, [w EXCEPT !.items = [w.items EXCEPT ![i] = used], !.lists = on])
  BY <1>3, <1>5, <1>8, <1>9, ItemChanged
<1> QED
  BY <1>4, <1>10, <1>11, <1>12

LEMMA RemoveItemKeeps ==
  ASSUME NEW I, NEW T, ScriptsSound(I, T, w), NEW i \in I,
         Script(I, T)!RemoveVirtual(i) \/ Script(I, T)!RemoveItem(i)
  PROVE  ScriptsSound(I, T, w')
<1> DEFINE x == w.items[i]
           lists == {l \in w.lists : l[2] # i}
           lost == [x EXCEPT !.lost = TRUE]
           gone == [[x EXCEPT !.releases = x.releases + 1] EXCEPT !.place = "removed"]
<1>1. w \in ScriptsType(I, T) /\ ItemsSound(I, w)
  BY DEF ScriptsSound
<1>2. /\ w.items \in [I -> ItemRecord] /\ x \in ItemRecord /\ x.releases \in Nat
      /\ lists \in SUBSET (Nat \X I)
  BY <1>1 DEF ScriptsType, ItemRecord
<1>3. Owned(w.lists, w.envs) /\ ItemSound(x, OnList(w.lists, i), Known(w.envs, i))
  BY <1>1 DEF ItemsSound
<1>4. /\ Owned(lists, w.envs) /\ ~OnList(lists, i)
      /\ \A l \in lists : l \in w.lists \/ l[2] = i
      /\ \A l \in w.lists : l[2] # i => l \in lists
  BY <1>3 DEF Owned, OnList
<1>5. /\ lost \in ItemRecord /\ lost.place = x.place /\ lost.releases = x.releases
      /\ lost.late = x.late /\ lost.lost
      /\ gone \in ItemRecord /\ gone.place = "removed" /\ gone.releases = x.releases + 1
      /\ gone.late = x.late /\ gone.lost = x.lost
  <2> DEFINE counted == [x EXCEPT !.releases = x.releases + 1]
  <2> HIDE DEF x
  <2>1. /\ lost \in ItemRecord /\ lost.place = x.place /\ lost.releases = x.releases
        /\ lost.late = x.late /\ lost.lost
    BY <1>2 DEF ItemRecord
  <2>2. /\ counted \in ItemRecord /\ counted.releases = x.releases + 1
        /\ counted.late = x.late /\ counted.lost = x.lost
    BY <1>2 DEF ItemRecord
  <2>3. gone = [counted EXCEPT !.place = "removed"]
    OBVIOUS
  <2> HIDE DEF counted, gone
  <2>4. /\ gone \in ItemRecord /\ gone.place = "removed" /\ gone.releases = x.releases + 1
        /\ gone.late = x.late /\ gone.lost = x.lost
    BY <2>2, <2>3 DEF ItemRecord
  <2> QED
    BY <2>1, <2>4
<1>6. \/ x.place = "virtual" /\ w' = [w EXCEPT !.items = [w.items EXCEPT ![i] = lost], !.lists = lists]
      \/ x.place = "world" /\ w' = [w EXCEPT !.items = [w.items EXCEPT ![i] = gone], !.lists = lists]
  <2>1. [w EXCEPT !.lists = lists, !.items[i].lost = TRUE]
          = [w EXCEPT !.items = [w.items EXCEPT ![i] = lost], !.lists = lists]
    BY <1>1, <1>2 DEF ScriptsType
  <2>2. [w EXCEPT !.items[i] = gone, !.lists = lists]
          = [w EXCEPT !.items = [w.items EXCEPT ![i] = gone], !.lists = lists]
    BY <1>1, <1>2 DEF ScriptsType
  <2> QED
    BY <2>1, <2>2 DEF Script!RemoveVirtual, Script!RemoveItem, Script!Virtual, Script!Counted
<1> HIDE DEF x, lost, gone, lists
<1>7. x.place = "virtual" => ItemSound(lost, OnList(lists, i), Known(w.envs, i))
  BY <1>3, <1>4, <1>5 DEF ItemSound
<1>8. x.place = "world" => ItemSound(gone, OnList(lists, i), Known(w.envs, i))
  BY <1>2, <1>3, <1>4, <1>5 DEF ItemSound
<1>9. CASE x.place = "virtual" /\ w' = [w EXCEPT !.items = [w.items EXCEPT ![i] = lost], !.lists = lists]
  <2>1. ScriptsSound(I, T, [w EXCEPT !.items = [w.items EXCEPT ![i] = lost], !.lists = lists])
    BY <1>2, <1>4, <1>5, <1>7, <1>9, ItemChanged
  <2> QED
    BY <1>9, <2>1
<1>10. CASE x.place = "world" /\ w' = [w EXCEPT !.items = [w.items EXCEPT ![i] = gone], !.lists = lists]
  <2>1. ScriptsSound(I, T, [w EXCEPT !.items = [w.items EXCEPT ![i] = gone], !.lists = lists])
    BY <1>2, <1>4, <1>5, <1>8, <1>10, ItemChanged
  <2> QED
    BY <1>10, <2>1
<1> QED
  BY <1>6, <1>9, <1>10

LEMMA CleanupKeeps ==
  ASSUME NEW I, NEW T, ScriptsSound(I, T, w), Script(I, T)!Cleanup
  PROVE  ScriptsSound(I, T, w')
<1> DEFINE items == [i \in I |-> Script(I, T)!Freed(w.items[i])]
           t == [w EXCEPT !.items = items]
<1>1. w \in ScriptsType(I, T) /\ ItemsSound(I, w) /\ Nested(w.frames, w.envs, w.crowded)
  BY DEF ScriptsSound
<1>2. w' = t /\ w.frames = <<>>
  BY DEF Script!Cleanup, Script!Idle
<1>3. w.envs = <<>> /\ w.lists = {}
  <2>1. w.frames \in Seq(FrameRecord(T)) /\ w.envs \in Seq(EnvRecord(I))
    BY <1>1 DEF ScriptsType
  <2>2. w.envs = <<>>
    <3> HIDE DEF items, t
    <3>1. /\ w.frames = <<>> => w.envs = <<>>
          /\ ~w.crowded /\ w.frames # <<>> =>
               w.envs # <<>> /\ w.envs[Len(w.envs)].script = Len(w.frames)
      BY <1>1, <2>1, NestedFacts
    <3> QED
      BY <1>2, <3>1
  <2> QED
    BY <1>1, <2>2 DEF ItemsSound, Owned
<1>4. ASSUME NEW i \in I
      PROVE  items[i] \in ItemRecord /\ ItemSound(items[i], FALSE, FALSE)
  <2> DEFINE x == w.items[i]
             y == [x EXCEPT !.place = "dangling", !.releases = 0]
             none == [place |-> "none", releases |-> 0, late |-> FALSE, lost |-> FALSE]
  <2>1. x \in ItemRecord /\ ItemSound(x, OnList(w.lists, i), Known(w.envs, i))
    BY <1>1 DEF ScriptsType, ItemsSound
  <2>2. ~OnList(w.lists, i) /\ ~Known(w.envs, i)
    BY <1>3 DEF OnList, Known
  <2>3. items[i] = IF x.releases = 0 THEN x
                   ELSE IF x.releases = 1 /\ x.place # "world" THEN none ELSE y
    BY DEF Script!Freed, Script!NoItem
  <2>4. /\ y \in ItemRecord /\ y.place = "dangling" /\ y.releases = 0 /\ y.late = x.late
        /\ x.releases \in Nat
    BY <2>1 DEF ItemRecord
  <2>5. none \in ItemRecord /\ ItemSound(none, FALSE, FALSE)
    BY DEF ItemRecord, ItemSound
  <2> HIDE DEF x, y, none, items
  <2>6. CASE x.releases = 0
    BY <2>1, <2>2, <2>3, <2>6 DEF ItemSound
  <2>7. CASE x.releases = 1 /\ x.place # "world"
    <3>1. items[i] = none
      BY <2>3, <2>7
    <3> QED
      BY <3>1 DEF ItemRecord, ItemSound, none
  <2>8. CASE x.releases # 0 /\ ~(x.releases = 1 /\ x.place # "world")
    <3>1. x.late
      BY <2>1, <2>2, <2>4, <2>8 DEF ItemSound
    <3>2. items[i] = y
      BY <2>3, <2>8
    <3> QED
      BY <2>4, <3>1, <3>2 DEF ItemSound
  <2> QED
    BY <2>6, <2>7, <2>8
<1>5. items \in [I -> ItemRecord]
  BY <1>4
<1> HIDE DEF items
<1>6. /\ t \in ScriptsType(I, T) /\ t.items = items /\ t.lists = {} /\ t.envs = <<>>
      /\ t.frames = w.frames /\ t.envs = w.envs /\ t.crowded = w.crowded /\ Others(w, t)
  BY <1>1, <1>3, <1>5 DEF ScriptsType, Others
<1> HIDE DEF t
<1>7. ItemsSound(I, t)
  <2>1. ASSUME NEW i \in I
        PROVE  ItemSound(t.items[i], OnList(t.lists, i), Known(t.envs, i))
    <3>1. ~OnList(t.lists, i) /\ ~Known(t.envs, i)
      BY <1>6 DEF OnList, Known
    <3> QED
      BY <1>4, <1>6, <3>1 DEF ItemSound
  <2>2. Owned(t.lists, t.envs)
    BY <1>6 DEF Owned
  <2> QED
    BY <2>1, <2>2 DEF ItemsSound
<1>8. Nested(t.frames, t.envs, t.crowded)
  BY <1>1, <1>6
<1>9. ScriptsSound(I, T, t)
  BY <1>6, <1>7, <1>8, ItemsKeep
<1> QED
  BY <1>2, <1>9

-----------------------------------------------------------------------------
(* Timers and reloads.                                                       *)

LEMMA TimerStepKeeps ==
  ASSUME NEW I, NEW T, ScriptsSound(I, T, w), ~w.broken,
         \/ Script(I, T)!AddEvent
         \/ \E t \in T : Script(I, T)!StopEvent(t) \/ Script(I, T)!Fire(t)
  PROVE  ScriptsSound(I, T, w')
<1>1. w \in ScriptsType(I, T) /\ TimersSound(T, w) /\ EventsSound(T, w) /\ NumberedTimers(T)
  BY DEF ScriptsSound
<1>2. /\ w.fate \in [T -> {"unused", "wanted", "run", "cut", "stopped", "closed"}] /\ w.last \in Nat
      /\ w.wanted \in SUBSET T /\ w.pending \in SUBSET T /\ w.due \in SUBSET T
      /\ w.broken = FALSE
  BY <1>1 DEF ScriptsType
<1>3. CASE Script(I, T)!AddEvent
  <2> DEFINE t == w.last + 1
             wanted == w.wanted \cup {t}
             pending == w.pending \cup {t}
             fate == [w.fate EXCEPT ![t] = "wanted"]
             x == [w EXCEPT !.last = t, !.wanted = wanted, !.pending = pending, !.fate = fate]
  <2>1. w' = x /\ t \in T
    BY <1>1, <1>3 DEF Script!AddEvent, ScriptsType
  <2>2. /\ t > w.last /\ t \in Nat /\ t \notin w.wanted \cup w.pending \cup w.due
        /\ w.fate[t] = "unused"
    BY <1>1, <1>2, <2>1 DEF TimersSound
  <2>3. /\ fate \in [T -> {"unused", "wanted", "run", "cut", "stopped", "closed"}]
        /\ fate[t] = "wanted" /\ \A u \in T : u # t => fate[u] = w.fate[u]
    BY <1>2, <2>1
  <2>4. wanted \in SUBSET T /\ pending \in SUBSET T
    BY <1>2, <2>1
  <2> HIDE DEF fate, wanted, pending, t
  <2>5. /\ x \in ScriptsType(I, T) /\ x.frames = w.frames /\ x.envs = w.envs /\ x.crowded = w.crowded
        /\ x.lists = w.lists /\ x.items = w.items /\ x.wanted = wanted /\ x.pending = pending
        /\ x.due = w.due /\ x.fate = fate /\ x.last = t /\ x.loaded = w.loaded /\ x.broken = w.broken
    BY <1>1, <2>2, <2>3, <2>4 DEF ScriptsType
  <2> HIDE DEF x
  <2>6. TimersSound(T, x)
    <3>1. ASSUME NEW u \in wanted
          PROVE  /\ fate[u] \in {"wanted", "run"}
                 /\ u \in pending \cup w.due => fate[u] = "wanted"
      <4>1. CASE u = t
        BY <2>3, <4>1
      <4>2. CASE u # t
        BY <1>1, <1>2, <2>3, <4>2 DEF TimersSound, wanted, pending
      <4> QED
        BY <4>1, <4>2
    <3>2. pending \cap w.due = {}
      BY <1>1, <2>2 DEF TimersSound, pending
    <3>3. ASSUME NEW u \in T, u > t
          PROVE  u \notin wanted \cup pending \cup w.due /\ fate[u] = "unused"
      <4>1. u > w.last /\ u # t
        BY <1>1, <1>2, <2>2, <3>3 DEF NumberedTimers, t
      <4> QED
        BY <1>1, <2>3, <4>1 DEF TimersSound, wanted, pending
    <3> QED
      BY <2>5, <3>1, <3>2, <3>3 DEF TimersSound
  <2>7. EventsSound(T, x)
    <3>1. ASSUME NEW k \in 1 .. Len(w.frames)
          PROVE  FrameSound(T, x, w.frames[k]) /\ (w.frames[k].how = "timer" => k = 1)
      <4>1. FrameSound(T, w, w.frames[k]) /\ (w.frames[k].how = "timer" => k = 1)
        BY <1>1 DEF EventsSound
      <4> QED
        BY <2>2, <2>3, <2>5, <4>1 DEF FrameSound, wanted
    <3> QED
      BY <1>2, <2>5, <3>1 DEF EventsSound
  <2>8. ScriptsSound(I, T, x)
    BY <2>5, <2>6, <2>7, SameFramesKeep
  <2> QED
    BY <2>1, <2>8
<1>4. ASSUME NEW t \in T, Script(I, T)!StopEvent(t)
      PROVE  ScriptsSound(I, T, w')
  <2> DEFINE wanted == w.wanted \ {t}
             pending == w.pending \ {t}
             fate == [w.fate EXCEPT ![t] = IF w.fate[t] = "run" THEN "cut" ELSE "stopped"]
             x == [w EXCEPT !.wanted = wanted, !.pending = pending, !.fate = fate]
  <2>1. w' = x
    BY <1>1, <1>4 DEF Script!StopEvent, ScriptsType
  <2>2. t \in w.wanted
    BY <1>4 DEF Script!StopEvent
  <2>3. /\ fate \in [T -> {"unused", "wanted", "run", "cut", "stopped", "closed"}]
        /\ fate[t] = (IF w.fate[t] = "run" THEN "cut" ELSE "stopped")
        /\ \A u \in T : u # t => fate[u] = w.fate[u]
    BY <1>2
  <2>4. wanted \in SUBSET T /\ pending \in SUBSET T
    BY <1>2
  <2> HIDE DEF fate, wanted, pending
  <2>5. /\ x \in ScriptsType(I, T) /\ x.frames = w.frames /\ x.envs = w.envs /\ x.crowded = w.crowded
        /\ x.lists = w.lists /\ x.items = w.items /\ x.wanted = wanted /\ x.pending = pending
        /\ x.due = w.due /\ x.fate = fate /\ x.last = w.last /\ x.loaded = w.loaded
        /\ x.broken = w.broken
    BY <1>1, <2>3, <2>4 DEF ScriptsType
  <2> HIDE DEF x
  <2>6. TimersSound(T, x)
    <3>1. ASSUME NEW u \in wanted
          PROVE  /\ fate[u] \in {"wanted", "run"}
                 /\ u \in pending \cup w.due => fate[u] = "wanted"
      BY <1>1, <1>2, <2>3 DEF TimersSound, wanted, pending
    <3>2. pending \cap w.due = {}
      BY <1>1 DEF TimersSound, pending
    <3>3. ASSUME NEW u \in T, u > w.last
          PROVE  u \notin wanted \cup pending \cup w.due /\ fate[u] = "unused"
      <4>1. u # t
        BY <1>1, <2>2, <3>3 DEF TimersSound
      <4> QED
        BY <1>1, <2>3, <3>3, <4>1 DEF TimersSound, wanted, pending
    <3> QED
      BY <2>5, <3>1, <3>2, <3>3 DEF TimersSound
  <2>7. EventsSound(T, x)
    <3>1. ASSUME NEW k \in 1 .. Len(w.frames)
          PROVE  FrameSound(T, x, w.frames[k]) /\ (w.frames[k].how = "timer" => k = 1)
      <4>1. FrameSound(T, w, w.frames[k]) /\ (w.frames[k].how = "timer" => k = 1)
        BY <1>1 DEF EventsSound
      <4>2. w.fate[t] \in {"wanted", "run"}
        BY <1>1, <2>2 DEF TimersSound
      <4> QED
        BY <2>3, <2>5, <4>1, <4>2 DEF FrameSound, wanted
    <3> QED
      BY <1>2, <2>5, <3>1 DEF EventsSound
  <2>8. ScriptsSound(I, T, x)
    BY <2>5, <2>6, <2>7, SameFramesKeep
  <2> QED
    BY <2>1, <2>8
<1>5. ASSUME NEW t \in T, Script(I, T)!Fire(t)
      PROVE  ScriptsSound(I, T, w')
  <2> DEFINE pending == w.pending \ {t}
             due == w.due \cup {t}
             x == [w EXCEPT !.pending = pending, !.due = due]
  <2>1. w' = x /\ t \in w.pending
    BY <1>5 DEF Script!Fire
  <2>2. pending \in SUBSET T /\ due \in SUBSET T
    BY <1>2
  <2> HIDE DEF pending, due
  <2>3. /\ x \in ScriptsType(I, T) /\ x.frames = w.frames /\ x.envs = w.envs /\ x.crowded = w.crowded
        /\ x.lists = w.lists /\ x.items = w.items /\ x.wanted = w.wanted /\ x.pending = pending
        /\ x.due = due /\ x.fate = w.fate /\ x.last = w.last /\ x.loaded = w.loaded
        /\ x.broken = w.broken
    BY <1>1, <2>2 DEF ScriptsType
  <2> HIDE DEF x
  <2>4. TimersSound(T, x)
    <3>1. pending \cup due = w.pending \cup w.due /\ pending \cap due = {}
      BY <1>1, <2>1 DEF TimersSound, pending, due
    <3>2. /\ \A u \in w.wanted : /\ w.fate[u] \in {"wanted", "run"}
                                 /\ u \in pending \cup due => w.fate[u] = "wanted"
          /\ \A u \in T : u > w.last =>
               u \notin w.wanted \cup pending \cup due /\ w.fate[u] = "unused"
      BY <1>1, <3>1 DEF TimersSound
    <3> QED
      BY <2>3, <3>1, <3>2 DEF TimersSound
  <2>5. EventsSound(T, x)
    BY <1>1, <2>3 DEF EventsSound, FrameSound
  <2>6. ScriptsSound(I, T, x)
    BY <2>3, <2>4, <2>5, SameFramesKeep
  <2> QED
    BY <2>1, <2>6
<1> QED
  BY <1>3, <1>4, <1>5

LEMMA ReloadKeeps ==
  ASSUME NEW I, NEW T, ScriptsSound(I, T, w), ~w.broken, NEW found \in SUBSET Events,
         Script(I, T)!Reload(found)
  PROVE  ScriptsSound(I, T, w')
<1> DEFINE fate == [t \in T |-> IF w.fate[t] = "wanted" THEN "closed" ELSE w.fate[t]]
           x == [w EXCEPT !.wanted = {}, !.fate = fate, !.loaded = found]
<1>1. w \in ScriptsType(I, T) /\ TimersSound(T, w) /\ EventsSound(T, w)
  BY DEF ScriptsSound
<1>2. w' = x /\ w.frames = <<>>
  BY <1>1 DEF Script!Reload, Script!Closed, Script!Idle, ScriptsType
<1>3. /\ fate \in [T -> {"unused", "wanted", "run", "cut", "stopped", "closed"}]
      /\ \A t \in T : w.fate[t] = "unused" => fate[t] = "unused"
  BY <1>1 DEF ScriptsType
<1> HIDE DEF fate
<1>4. /\ x \in ScriptsType(I, T) /\ x.frames = w.frames /\ x.envs = w.envs /\ x.crowded = w.crowded
      /\ x.lists = w.lists /\ x.items = w.items /\ x.wanted = {} /\ x.pending = w.pending
      /\ x.due = w.due /\ x.fate = fate /\ x.last = w.last /\ x.loaded = found
      /\ x.broken = w.broken
  BY <1>1, <1>3 DEF ScriptsType
<1> HIDE DEF x
<1>5. TimersSound(T, x)
  BY <1>1, <1>3, <1>4 DEF TimersSound
<1>6. EventsSound(T, x)
  BY <1>1, <1>2, <1>4 DEF EventsSound, ScriptsType
<1>7. ScriptsSound(I, T, x)
  BY <1>4, <1>5, <1>6, SameFramesKeep
<1> QED
  BY <1>2, <1>7

LEMMA ExecuteTimerKeeps ==
  ASSUME NEW I, NEW T, ScriptsSound(I, T, w), ~w.broken, NEW t \in T, Script(I, T)!ExecuteTimer(t)
  PROVE  ScriptsSound(I, T, w')
<1> DEFINE due == w.due \ {t}
<1>1. w \in ScriptsType(I, T) /\ TimersSound(T, w) /\ EventsSound(T, w)
  BY DEF ScriptsSound
<1>2. /\ w.fate \in [T -> {"unused", "wanted", "run", "cut", "stopped", "closed"}]
      /\ w.wanted \in SUBSET T /\ w.pending \in SUBSET T /\ w.due \in SUBSET T
      /\ w.broken = FALSE
  BY <1>1 DEF ScriptsType
<1>3. w.frames = <<>> /\ t \in w.due
  BY DEF Script!ExecuteTimer, Script!Idle
<1>4. ASSUME NEW fate \in [T -> {"unused", "wanted", "run", "cut", "stopped", "closed"}],
             \A u \in T : u # t => fate[u] = w.fate[u],
             t \in w.wanted => fate[t] = "run", t \notin w.wanted => fate[t] = w.fate[t]
      PROVE  ScriptsSound(I, T, [w EXCEPT !.due = due, !.fate = fate])
  <2> DEFINE x == [w EXCEPT !.due = due, !.fate = fate]
  <2>1. /\ x \in ScriptsType(I, T) /\ x.frames = w.frames /\ x.envs = w.envs /\ x.crowded = w.crowded
        /\ x.lists = w.lists /\ x.items = w.items /\ x.wanted = w.wanted /\ x.pending = w.pending
        /\ x.due = due /\ x.fate = fate /\ x.last = w.last /\ x.loaded = w.loaded
        /\ x.broken = w.broken
    BY <1>1, <1>2 DEF ScriptsType
  <2> HIDE DEF x
  <2>2. TimersSound(T, x)
    <3>1. ASSUME NEW u \in w.wanted
          PROVE  /\ fate[u] \in {"wanted", "run"}
                 /\ u \in w.pending \cup due => fate[u] = "wanted"
      <4>1. CASE u = t
        BY <1>1, <1>3, <1>4, <4>1 DEF TimersSound
      <4>2. CASE u # t
        BY <1>1, <1>2, <1>4, <4>2 DEF TimersSound
      <4> QED
        BY <4>1, <4>2
    <3>2. w.pending \cap due = {}
      BY <1>1 DEF TimersSound
    <3>3. ASSUME NEW u \in T, u > w.last
          PROVE  u \notin w.wanted \cup w.pending \cup due /\ fate[u] = "unused"
      BY <1>1, <1>3, <1>4, <3>3 DEF TimersSound
    <3> QED
      BY <2>1, <3>1, <3>2, <3>3 DEF TimersSound
  <2>3. EventsSound(T, x)
    BY <1>1, <1>2, <1>3, <2>1 DEF EventsSound, ScriptsType
  <2>4. ScriptsSound(I, T, x)
    BY <2>1, <2>2, <2>3, SameFramesKeep
  <2> QED
    BY <2>4 DEF x
<1>5. CASE t \notin w.wanted
  <2>1. w' = [w EXCEPT !.due = due]
    BY <1>5 DEF Script!ExecuteTimer, Script!Found
  <2>2. [w EXCEPT !.due = due] = [w EXCEPT !.due = due, !.fate = w.fate]
    BY <1>1 DEF ScriptsType
  <2>3. ScriptsSound(I, T, [w EXCEPT !.due = due, !.fate = w.fate])
    BY <1>2, <1>4, <1>5
  <2> QED
    BY <2>1, <2>2, <2>3
<1>6. CASE t \in w.wanted
  <2> DEFINE fate == [w.fate EXCEPT ![t] = "run"]
             s == [w EXCEPT !.due = due, !.fate = fate]
             n == Len(w.frames)
             r == [how |-> "timer", what |-> "timer", timer |-> t]
             u == Script(I, T)!Reserved(s, n + 1)
             v == Script(I, T)!Entered(Script(I, T)!Reserved(w, n + 1), r.how, r.what, r.timer)
  <2>1. w.fate[t] = "wanted"
    BY <1>1, <1>3, <1>6 DEF TimersSound
  <2>2. w' = [v EXCEPT !.due = v.due \ {t}, !.fate[t] = IF v.fate[t] = "wanted" THEN "run" ELSE "revived"]
    BY <1>6 DEF Script!ExecuteTimer, Script!Found, Script!Started
  <2>3. /\ fate \in [T -> {"unused", "wanted", "run", "cut", "stopped", "closed"}]
        /\ \A j \in T : j # t => fate[j] = w.fate[j]
        /\ fate[t] = "run"
    BY <1>2
  <2>4. ScriptsSound(I, T, s)
    <3> HIDE DEF fate, due
    <3> QED
      BY <1>4, <1>6, <2>3
  <2>5. w' = Script(I, T)!Entered(u, r.how, r.what, r.timer)
    <3> DEFINE envs == Append(w.envs, Script(I, T)!NewEnv(n + 1))
               frames == Append(w.frames, r)
    <3>1. v = [w EXCEPT !.envs = envs, !.frames = frames]
      BY <1>1 DEF Script!Entered, Script!Reserved, ScriptsType
    <3>2. v.due = w.due /\ v.fate = w.fate
      BY <1>1, <3>1 DEF ScriptsType
    <3>3. w' = [v EXCEPT !.due = due, !.fate = fate]
      <4>1. w' = [v EXCEPT !.due = due, !.fate[t] = "run"]
        BY <2>1, <2>2, <3>2
      <4> HIDE DEF v, due
      <4>2. v.fate = w.fate
        BY <3>2
      <4> QED
        BY <4>1, <4>2
    <3>4. s.envs = w.envs /\ s.frames = w.frames
      BY <1>1 DEF ScriptsType
    <3>5. Script(I, T)!Entered(u, r.how, r.what, r.timer) = [s EXCEPT !.envs = envs, !.frames = frames]
      BY <1>1, <3>4 DEF Script!Entered, Script!Reserved, ScriptsType
    <3> HIDE DEF envs, frames, fate, due, v, u, r
    <3>6. w' = [w EXCEPT !.envs = envs, !.frames = frames, !.due = due, !.fate = fate]
      BY <1>1, <3>1, <3>3 DEF ScriptsType
    <3>7. [s EXCEPT !.envs = envs, !.frames = frames]
            = [w EXCEPT !.envs = envs, !.frames = frames, !.due = due, !.fate = fate]
      BY <1>1 DEF ScriptsType
    <3> QED
      BY <3>5, <3>6, <3>7
  <2>6. /\ s \in ScriptsType(I, T) /\ ItemsSound(I, s) /\ Nested(s.frames, s.envs, s.crowded)
        /\ s.frames = w.frames /\ s.fate = fate /\ s.envs = w.envs /\ s.wanted = w.wanted
    BY <1>1, <2>4 DEF ScriptsSound, ScriptsType
  <2>7. /\ r \in FrameRecord(T) /\ FrameSound(T, s, r) /\ Takes(r) = 1
        /\ r.how = "timer" => s.frames = <<>>
    BY <1>3, <1>6, <2>3, <2>6 DEF FrameRecord, Hows, FrameSound, Takes
  <2> HIDE DEF s, v, fate, r
  <2>8. /\ s.frames \in Seq(FrameRecord(T)) /\ s.envs \in Seq(EnvRecord(I)) /\ s.crowded \in BOOLEAN
        /\ n = Len(s.frames) /\ n \in Nat /\ n + 1 \in Nat /\ Len(s.envs) \in Nat
    BY <2>6 DEF ScriptsType
  <2> HIDE DEF n
  <2>9. /\ u \in ScriptsType(I, T) /\ ItemsSound(I, u) /\ Others(s, u) /\ u.crowded = s.crowded
        /\ Len(u.envs) = Len(s.envs) + 1 /\ u.envs[Len(s.envs) + 1].script = n + 1
        /\ \A i \in 1 .. Len(s.envs) : u.envs[i] = s.envs[i]
    <3>1. LET x == Script(I, T)!Reserved(s, n + 1)
          IN /\ x \in ScriptsType(I, T) /\ ItemsSound(I, x) /\ Others(s, x) /\ x.crowded = s.crowded
             /\ Len(x.envs) = Len(s.envs) + 1 /\ x.envs[Len(s.envs) + 1].script = n + 1
             /\ \A i \in 1 .. Len(s.envs) : x.envs[i] = s.envs[i]
             /\ x.envs # <<>>
      <4> HIDE DEF u, due
      <4>1. s \in ScriptsType(I, T) /\ ItemsSound(I, s) /\ n + 1 \in Nat
        BY <2>6, <2>8
      <4> QED
        BY <4>1, ReservedFacts
    <3> QED
      BY <3>1
  <2> HIDE DEF u
  <2>10. Nested(Append(s.frames, r), u.envs, u.crowded)
    <3>1. u.envs \in Seq(EnvRecord(I)) /\ u.crowded \in BOOLEAN /\ Len(u.envs) = Len(s.envs) + Takes(r)
          /\ Len(u.envs) <= Len(s.envs) + Takes(r)
      BY <2>7, <2>8, <2>9 DEF ScriptsType
    <3>2. /\ \A i \in 1 .. Len(s.envs) : u.envs[i].script = s.envs[i].script
          /\ \A i \in Nat : Len(s.envs) < i /\ i <= Len(u.envs) => u.envs[i].script = Len(s.frames) + 1
      BY <2>8, <2>9
    <3>3. Pushed(s.frames, s.envs, s.crowded, r, u.envs, u.crowded)
      BY <2>8, <2>9, <3>1, <3>2 DEF Pushed
    <3> QED
      BY <2>6, <2>7, <2>8, <3>1, <3>3, PushFrame
  <2>11. ScriptsSound(I, T, Script(I, T)!Entered(u, r.how, r.what, r.timer))
    BY <2>4, <2>7, <2>9, <2>10, EnteredKeeps
  <2> QED
    BY <2>5, <2>11
<1> QED
  BY <1>5, <1>6

LEMMA ScriptsNext ==
  ASSUME NEW I, NEW T, ScriptsSound(I, T, w), Script(I, T)!Next
  PROVE  ScriptsSound(I, T, w')
<1>1. ~w.broken
  BY DEF Script!Next
<1>2. ASSUME NEW e \in Events,
             \/ Script(I, T)!ExecuteCreatureEvent(e) \/ Script(I, T)!PlayerLogin(e)
             \/ Script(I, T)!ExecuteMoveItems(e)
      PROVE  ScriptsSound(I, T, w')
  BY <1>1, <1>2, ExecuteKeeps
<1>3. ASSUME NEW e \in Events,
             Script(I, T)!RegisterCreatureEvent(e) \/ Script(I, T)!UnregisterCreatureEvent(e)
      PROVE  ScriptsSound(I, T, w')
  BY <1>3, RegisterKeeps
<1>4. CASE Script(I, T)!Return
  BY <1>1, <1>4, ReturnKeeps
<1>5. CASE Script(I, T)!LoadFile
  BY <1>5, LoadFileKeeps
<1>6. CASE Script(I, T)!Cleanup
  BY <1>6, CleanupKeeps
<1>7. CASE \/ Script(I, T)!AddEvent
           \/ \E t \in T : Script(I, T)!StopEvent(t) \/ Script(I, T)!Fire(t)
  BY <1>1, <1>7, TimerStepKeeps
<1>8. ASSUME NEW t \in T, Script(I, T)!ExecuteTimer(t)
      PROVE  ScriptsSound(I, T, w')
  BY <1>1, <1>8, ExecuteTimerKeeps
<1>9. ASSUME NEW i \in I, Script(I, T)!CreateItemEx(i)
      PROVE  ScriptsSound(I, T, w')
  BY <1>9, CreateItemExKeeps
<1>10. ASSUME NEW i \in I, Script(I, T)!PlaceItemEx(i) \/ Script(I, T)!PlayerAddItemEx(i)
       PROVE  ScriptsSound(I, T, w')
  BY <1>10, PlaceItemKeeps
<1>11. ASSUME NEW i \in I, Script(I, T)!RemoveVirtual(i) \/ Script(I, T)!RemoveItem(i)
       PROVE  ScriptsSound(I, T, w')
  BY <1>11, RemoveItemKeeps
<1>12. ASSUME NEW found \in SUBSET Events, Script(I, T)!Reload(found)
       PROVE  ScriptsSound(I, T, w')
  BY <1>1, <1>12, ReloadKeeps
<1> QED
  BY <1>2, <1>3, <1>4, <1>5, <1>6, <1>7, <1>8, <1>9, <1>10, <1>11, <1>12 DEF Script!Next

\* Every script runs in an environment of its own and leaves none behind, what
\* it made is placed or freed once, a timer runs once and never after it was
\* stopped, and only loaded events run, but for the exceptions of the code
\* that the model names: for any items, timers and events, and whatever the
\* depth (luascript.cpp:92-131, 700-760, 920-980, 10195-10300).
THEOREM ScriptsAlwaysAgree == Spec => []ScriptsAgree
<1> DEFINE Inv == /\ scene = "scripts" => ScriptsSound(Items, {}, w)
                  /\ scene = "timers" => ScriptsSound({}, Clocks, w)
<1>0. NumberedTimers({}) /\ NumberedTimers(Clocks)
  BY WorldAssumption DEF WorldAssumption, ScriptsAssumption, NumberedTimers
<1>1. Init => Inv
  BY <1>0, ScriptsInit DEF Init
<1>2. Inv /\ [Next]_<<scene, w>> => Inv'
  <2>1. ASSUME Inv, [Next]_<<scene, w>>, scene' = "scripts"
        PROVE  ScriptsSound(Items, {}, w')
    <3>1. scene = "scripts" /\ (Script(Items, {})!Next \/ w' = w)
      BY <2>1 DEF Next
    <3>2. CASE Script(Items, {})!Next
      BY <2>1, <3>1, <3>2, ScriptsNext
    <3>3. CASE w' = w
      BY <2>1, <3>1, <3>3
    <3> QED
      BY <3>1, <3>2, <3>3
  <2>2. ASSUME Inv, [Next]_<<scene, w>>, scene' = "timers"
        PROVE  ScriptsSound({}, Clocks, w')
    <3>1. scene = "timers" /\ (Script({}, Clocks)!Next \/ w' = w)
      BY <2>2 DEF Next
    <3>2. CASE Script({}, Clocks)!Next
      BY <2>2, <3>1, <3>2, ScriptsNext
    <3>3. CASE w' = w
      BY <2>2, <3>1, <3>3
    <3> QED
      BY <3>1, <3>2, <3>3
  <2> QED
    BY <2>1, <2>2
<1>3. Inv => ScriptsAgree
  <2>1. ScriptsSound(Items, {}, w) => Script(Items, {})!ScriptsAgree
    BY ScriptsSoundAgrees
  <2>2. ScriptsSound({}, Clocks, w) => Script({}, Clocks)!ScriptsAgree
    BY ScriptsSoundAgrees
  <2> QED
    BY <2>1, <2>2 DEF ScriptsAgree
<1> QED
  BY <1>1, <1>2, <1>3, PTL DEF Spec
=============================================================================
