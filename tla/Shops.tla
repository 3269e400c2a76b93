-------------------------------- MODULE Shops --------------------------------
(* The shop windows players have open with the npcs, and what is bought and  *)
(* sold in them (npc.cpp, player.cpp, game.cpp).  The player has the npc and *)
(* a reference in the Lua registry for the script's two callbacks; the npc   *)
(* has a list of pointers to players.  Left out: the wares (each player buys *)
(* and sells one kind), money in several coins, a sale in backpacks.         *)
EXTENDS Integers, FiniteSets

CONSTANTS
    Players, Npcs, NoNpc,
    Callbacks,          \* references of the registry (bound); 0 is -1 of the code
    MaxStack,           \* 100
    Amounts,            \* amounts the players ask for
    Price, MaxMoney     \* what the ware costs; what a player may have (bound)

(* The state: where each player is; the npcs in the game; shopOwner and the  *)
(* callbacks of each player; shopPlayerList of each npc; the references the  *)
(* registry holds; the money and the wares of each player.                   *)
VARIABLE w

ShopsTypeOK ==
    /\ w.at \in [Players -> {"near", "far", "out"}] /\ w.npcs \subseteq Npcs
    /\ w.shopOwner \in [Players -> Npcs \cup {NoNpc}]
    /\ w.callback \in [Players -> Callbacks \cup {0}]
    /\ w.shopPlayerList \in [Npcs -> SUBSET Players]
    /\ w.registry \subseteq Callbacks
    /\ w.money \in [Players -> 0 .. MaxMoney]
    /\ w.wares \in [Players -> 0 .. MaxMoney]

Init ==
    w = [at |-> [p \in Players |-> "out"], npcs |-> Npcs,
         shopOwner |-> [p \in Players |-> NoNpc], callback |-> [p \in Players |-> 0],
         shopPlayerList |-> [n \in Npcs |-> {}], registry |-> {},
         money |-> [p \in Players |-> MaxMoney], wares |-> [p \in Players |-> 0]]

(* Npc::onPlayerEndTrade.                                                    *)
EndTrade(s, p, n) ==
    [s EXCEPT !.registry = @ \ {s.callback[p]}, !.shopPlayerList[n] = @ \ {p}]

(* Player::closeShopWindow.                                                  *)
Closed(s, p) ==
    IF s.shopOwner[p] = NoNpc THEN s
    ELSE [EndTrade(s, p, s.shopOwner[p]) EXCEPT !.shopOwner[p] = NoNpc, !.callback[p] = 0]

(* Npc::closeAllShopWindows: whoever is on the list closes what he has open. *)
ClosedAll(s, n) ==
    LET on == s.shopPlayerList[n] IN
    [s EXCEPT !.registry = @ \ {s.callback[p] : p \in on},
              !.shopPlayerList = [m \in Npcs |-> @[m] \ {p \in on : s.shopOwner[p] = m}],
              !.shopOwner = [p \in Players |-> IF p \in on THEN NoNpc ELSE @[p]],
              !.callback = [p \in Players |-> IF p \in on THEN 0 ELSE @[p]]]

(* Mutant: the window open with another npc is not closed first.             *)
LeftOpen(s, p) == s

(* NpcScript::luaOpenShopWindow closes the window with another npc first.    *)
Reopened(s, p) == Closed(s, p)

(* openShopWindow(cid, ...), by the script of npc n for a player it knows of *)
(* though he may not be in sight.  popCallback has taken the references: for *)
(* a player who has the window already they are left in the registry.        *)
OpenShopWindow(n, p) ==
    \E c \in Callbacks \ w.registry :
        /\ w.at[p] # "out" /\ n \in w.npcs
        /\ LET s == [w EXCEPT !.registry = @ \cup {c}] IN
           w' = IF w.shopOwner[p] = n THEN s
                ELSE [Reopened(s, p) EXCEPT !.shopPlayerList[n] = @ \cup {p},
                                            !.shopOwner[p] = n, !.callback[p] = c]

(* Game::playerCloseShop, playerRequestTrade and closeShopWindow of a script.*)
CloseShop(p) ==
    /\ w.at[p] # "out"
    /\ w' = Closed(w, p)

(* ------------------------------- buying, selling ------------------------- *)

(* How many of a purchase of amount are taken: all, or as many as there was  *)
(* room for, in full stacks when the ware is stackable.                      *)
Taken(amount, stackable) ==
    {amount} \cup {k \in 0 .. (amount - 1) : ~ stackable \/ k % MaxStack = 0}

(* Mutant: a purchase cut short costs what was not given.                    *)
RestCharged(amount, stackable, k) == IF k = amount THEN amount ELSE amount - k

(* What ACTION_BUYITEM charges for: of wares that do not stack, one more than *)
(* were taken when there is no room for all.                                 *)
Charged(amount, stackable, k) == IF k = amount \/ stackable THEN k ELSE k + 1

(* Game::playerPurchaseItem, Npc::onPlayerTrade.  An amount of 0 is 1.       *)
Purchase(p) ==
    \E asked \in Amounts, stackable \in BOOLEAN :
    LET amount == IF asked = 0 THEN 1 ELSE asked IN
    \E k \in Taken(amount, stackable) :
        /\ w.at[p] # "out" /\ w.shopOwner[p] # NoNpc
        /\ w.money[p] >= Price * amount
        /\ w.wares[p] + k <= MaxMoney                                   \* bound
        /\ w' = [w EXCEPT !.wares[p] = @ + k, !.money[p] = @ - Price * Charged(amount, stackable, k)]

(* Game::playerSellItem: an amount of 0 is 0.                                *)
Sell(p) ==
    \E amount \in Amounts :
        /\ w.at[p] # "out" /\ w.shopOwner[p] # NoNpc
        /\ w.wares[p] >= amount
        /\ w.money[p] + amount <= MaxMoney                              \* bound
        /\ w' = [w EXCEPT !.wares[p] = @ - amount, !.money[p] = @ + amount]

(* -------------------------- coming, going, reloading --------------------- *)

Login(p) ==
    /\ w.at[p] = "out"
    /\ \E place \in {"near", "far"} : w' = [w EXCEPT !.at[p] = place]

(* Player::onCreatureDisappear, and Npc::onPlayerLeave of the npcs in sight, *)
(* which finds the window closed.                                            *)
Logout(p) ==
    /\ w.at[p] # "out"
    /\ w' = [Closed(w, p) EXCEPT !.at[p] = "out"]

(* Out of the sight of the npcs, and back: Npc::onCreatureMove.              *)
Walk(p) ==
    \/ /\ w.at[p] = "far"
       /\ w' = [w EXCEPT !.at[p] = "near"]
    \/ /\ w.at[p] = "near"
       /\ w' = [(IF w.shopOwner[p] \in w.npcs THEN Closed(w, p) ELSE w) EXCEPT !.at[p] = "far"]

(* Npc::onCreatureDisappear of the npc itself; the raid or script that       *)
(* places another one.                                                       *)
NpcDisappear(n) ==
    /\ n \in w.npcs
    /\ w' = [ClosedAll(w, n) EXCEPT !.npcs = @ \ {n}]

NpcAppear(n) ==
    /\ n \notin w.npcs
    /\ w' = [w EXCEPT !.npcs = @ \cup {n}]

(* Npcs::reload: every window is closed, then the interface is deleted, and  *)
(* with it the registry, and Npc::reset clears what the npcs keep.           *)
Reload ==
    w' = [w EXCEPT !.registry = {}, !.shopPlayerList = [n \in Npcs |-> {}],
                   !.shopOwner = [p \in Players |-> IF @[p] \in w.npcs THEN NoNpc ELSE @[p]],
                   !.callback = [p \in Players |-> IF w.shopOwner[p] \in w.npcs THEN 0 ELSE @[p]]]

Next ==
    \/ \E p \in Players :
          Login(p) \/ Logout(p) \/ Walk(p) \/ CloseShop(p) \/ Purchase(p) \/ Sell(p)
    \/ \E n \in Npcs, p \in Players : OpenShopWindow(n, p)
    \/ \E n \in Npcs : NpcDisappear(n) \/ NpcAppear(n)
    \/ Reload

-----------------------------------------------------------------------------
(* A window is open for the player exactly when he is on the list of the npc *)
(* he has it with, he and the npc are in the game, and the callbacks it      *)
(* calls are references that nobody has given back: whatever closes it, and  *)
(* in which order, npcs are left with no pointer to a player who is gone and *)
(* players with none to an npc (npc.cpp:1318, 2010-2031, 2588-2607,          *)
(* 2888-2897, player.cpp:1718-1733).                                         *)
ShopsAgree ==
    /\ \A p \in Players, n \in Npcs : p \in w.shopPlayerList[n] <=> w.shopOwner[p] = n
    /\ \A p \in Players :
          w.shopOwner[p] # NoNpc =>
              /\ w.at[p] # "out" /\ w.shopOwner[p] \in w.npcs
              /\ w.callback[p] \in w.registry
              /\ \A q \in Players \ {p} : w.callback[q] # w.callback[p]
==============================================================================
