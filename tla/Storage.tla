------------------------------ MODULE Storage ------------------------------
(* What the server writes to its database and reads back (iologindata.cpp,   *)
(* iomapserialize.cpp, map.cpp, and the saves of game.cpp): the items of     *)
(* players and of a house, in memory and in their rows.  Each save is one    *)
(* transaction, which may fail and be rolled back, or be committed without   *)
(* some of the rows and still count as done; the saves of one round are      *)
(* separate transactions, and the server may crash between two of them.  The *)
(* data of an item are left out: an item is a member of Items, wherever it   *)
(* lies; so are the locks of MySQL and a connection that is lost and opened  *)
(* again in the middle of a transaction.                                     *)

CONSTANTS Players, Items, House, Street, NoOwner,
          Privileged      \* players who stay when the server is closed

Keepers == Players \cup {House}         \* those with rows of their own

(* The state, one record:
     mem, row     whose items are whose, in memory and in the database
     online       the players in the game
     owner, ownerRow, clear     of the house; clear: `clear` = 1, a transfer
                  the web site asked for
     phase, left, stopping      the round of saves in progress: its next part,
                  the players still to be dealt with in it, and whether the
                  server stops afterwards
     shallow      this round leaves out what players carry
     whole        no save of this round has failed or left something out
     touched      items that changed hands since the last whole round
     spoiled      items a crash or a failed save caught while touched
     dropped      items that the last save of their keeper left out of the
                  rows, and nobody was told                                  *)
VARIABLE w

(* Item i is in the rows of exactly one keeper.                              *)
InOneRow(row, i) == \E k \in Keepers : \A l \in Keepers : i \in row[l] <=> l = k

Phases == {"down", "idle", "kick", "check", "players", "houses", "tiles"}

StorageTypeOK ==
    w \in [mem : [Keepers \cup {Street} -> SUBSET Items], row : [Keepers -> SUBSET Items],
           online : SUBSET Players, owner : Players \cup {NoOwner},
           ownerRow : Players \cup {NoOwner}, clear : BOOLEAN, phase : Phases,
           left : SUBSET Players, stopping : BOOLEAN, shallow : BOOLEAN,
           whole : BOOLEAN, touched : SUBSET Items, spoiled : SUBSET Items,
           dropped : SUBSET Items]

Init ==
    \E r \in [Keepers -> SUBSET Items], o \in Players \cup {NoOwner} :
       /\ \A i \in Items : InOneRow(r, i)
       /\ r[House] # {} => o # NoOwner
       /\ w = [mem |-> [k \in Keepers \cup {Street} |-> {}], row |-> r, online |-> {},
               owner |-> NoOwner, ownerRow |-> o, clear |-> FALSE, phase |-> "down",
               left |-> {}, stopping |-> FALSE, shallow |-> FALSE, whole |-> TRUE, touched |-> {},
               spoiled |-> {}, dropped |-> {}]

Spoil(s, is) == [s EXCEPT !.spoiled = @ \cup is]

(* The transaction of keeper k, who has the items `all'.  A save that fails  *)
(* is rolled back when the transaction goes out of scope (s is as it was);   *)
(* one that goes well deletes k's rows and writes them anew, but for those   *)
(* of `short', whose loss goes unnoticed.                                    *)
Written(s, k, all, short) ==
    [s EXCEPT !.row[k] = all \ short, !.dropped = (@ \ all) \cup (all \cap short)]

Saved(s, k, ok, short) == IF ok THEN Written(s, k, s.mem[k], short) ELSE s

(* DBInsert::addRow and execute: the row that comes when the buffer is full  *)
(* is put into the emptied buffer without being counted; if it is the last,  *)
(* the final execute() writes nothing and succeeds.  A player has two such   *)
(* lists, of items and of depots; every other failure ends his save.         *)
LastRows == {{}} \cup {{i, j} : i \in Items, j \in Items}

(* ------------------------------- playing --------------------------------- *)

(* IOLoginData::loadPlayer: the items and the depots of a player.            *)
Login(p) ==
    /\ w.phase = "idle" /\ p \notin w.online
    /\ w' = [w EXCEPT !.mem[p] = w.row[p], !.online = @ \cup {p}]

(* Player::onCreatureDisappear: three tries, then the player is gone anyway. *)
LeaveGame(s, p, ok, short) ==
    LET t == Saved(s, p, ok, short)
        lost == IF ok THEN {} ELSE s.touched \cap (s.mem[p] \cup s.row[p]) IN
    [Spoil(t, lost) EXCEPT !.mem[p] = {}, !.online = @ \ {p}, !.left = @ \ {p}]

Logout(p, ok, short) ==
    /\ w.phase = "idle" /\ p \in w.online
    /\ w' = LeaveGame(w, p, ok, short)

(* Any of the many ways an item goes from one to another.                    *)
Moved(s, i, from, to) ==
    [s EXCEPT !.mem = [s.mem EXCEPT ![from] = @ \ {i}, ![to] = @ \cup {i}],
              !.touched = @ \cup {i}]

Move(i, from, to) ==
    /\ w.phase = "idle" /\ from # to
    /\ {from, to} \subseteq w.online \cup {House, Street} /\ w.online # {}
    /\ House \in {from, to} => w.owner # NoOwner
    /\ i \in w.mem[from]
    /\ w' = Moved(w, i, from, to)

(* ------------------------------- the house ------------------------------- *)

DepotUnsaved(s, p, is, kept, short) ==       \* a mutant: the player is not saved
    LET t == [s EXCEPT !.touched = @ \cup is] IN
    IF p \in s.online THEN [t EXCEPT !.mem[p] = @ \cup is] ELSE t

(* What is put into the depot of a player who is not in the game: he is      *)
(* loaded, gets it, is saved and is deleted; `kept' is what was in a save    *)
(* that went well.                                                           *)
ToDepot(s, p, is, kept, short) ==
    LET t == [s EXCEPT !.touched = @ \cup is] IN
    IF p \in s.online THEN [t EXCEPT !.mem[p] = @ \cup is]
    ELSE IF kept = {} THEN Spoil(t, is)
    ELSE Spoil(Written(t, p, s.row[p] \cup kept, short), is \ kept)

SetOwner(s, p, ok) ==
    [s EXCEPT !.owner = p, !.ownerRow = IF ok THEN p ELSE @, !.clear = @ /\ ~ok]

(* House::setOwnerEx(0): clean, with one save of the owner, then the row of  *)
(* the house at once; its items stay in their rows until the map is saved.   *)
Evicted(s, ok, ok2, short) ==
    LET is == s.mem[House]
        kept == IF ok THEN is ELSE {} IN
    SetOwner([ToDepot(s, s.owner, is, kept, short) EXCEPT !.mem[House] = {}], NoOwner, ok2)

(* Houses::check and payHouse: the owner pays, or is warned, or is put out.  *)
Check(s, evict, ok, ok2, short) ==
    IF evict /\ s.owner # NoOwner THEN Evicted(s, ok, ok2, short) ELSE s

CheckHouses(ok, ok2, short) ==
    /\ w.phase = "idle" /\ w.owner # NoOwner
    /\ w' = Check(w, TRUE, ok, ok2, short)

BuyHouse(p, ok) ==
    /\ w.phase = "idle" /\ p \in w.online /\ w.owner = NoOwner
    /\ w' = SetOwner(w, p, ok)

(* --------------------------- rounds of saves ----------------------------- *)

Begin(s, phase, left, stopping, shallow) ==
    [s EXCEPT !.phase = phase, !.left = left, !.stopping = stopping, !.shallow = shallow,
              !.whole = ~shallow]

(* Game::saveGameState; a shallow save leaves out what players carry.        *)
SaveGameState(shallow) ==
    /\ w.phase = "idle"
    /\ w' = Begin(w, "players", w.online, FALSE, shallow)

(* Game::setGameState(GAMESTATE_CLOSED), and GAMESTATE_SHUTDOWN.             *)
Close == w.phase = "idle" /\ w' = Begin(w, "kick", w.online \ Privileged, FALSE, FALSE)
Shutdown == w.phase = "idle" /\ w' = Begin(w, "kick", w.online, TRUE, FALSE)

Kick(p, ok, short) ==
    w.phase = "kick" /\ p \in w.left /\ w' = LeaveGame(w, p, ok, short)

AfterKick(s) == IF s.stopping THEN "check" ELSE "players"
AfterCheck(s) == "players"

(* Every one is gone: a server that stops checks its houses first.           *)
KickedAll ==
    /\ w.phase = "kick" /\ w.left = {}
    /\ w' = [w EXCEPT !.phase = AfterKick(w), !.left = w.online]

CheckAtShutdown(evict, ok, ok2, short) ==
    /\ w.phase = "check"
    /\ w' = [Check(w, evict, ok, ok2, short) EXCEPT !.phase = AfterCheck(w)]

(* One transaction for each player, tried once.                              *)
SavePlayer(p, ok, short) ==
    /\ w.phase = "players" /\ p \in w.left
    /\ w' = [(IF w.shallow THEN w ELSE Saved(w, p, ok, short))
                EXCEPT !.left = @ \ {p}, !.whole = @ /\ ok]

(* The round is over: what lies on the street was left out of it.            *)
Over(s) ==
    LET t == IF s.whole THEN [s EXCEPT !.touched = s.mem[Street]] ELSE s IN
    IF s.stopping
    THEN [Spoil(t, t.touched) EXCEPT !.phase = "down", !.mem = [k \in DOMAIN s.mem |-> {}]]
    ELSE [t EXCEPT !.phase = "idle"]

(* Map::saveMap: the houses, three tries, and only then their items, three   *)
(* tries.  saveHouses commits whether or not the row of the house could be   *)
(* written, saveMapRelational whatever saveItems could not write, and the    *)
(* binary savers whatever addRow could not: all of them count as done.       *)
SaveHouses(ok, written) ==
    /\ w.phase = "players" /\ w.left = {}
    /\ w' = IF ok THEN [w EXCEPT !.ownerRow = IF written THEN w.owner ELSE @,
                                 !.clear = @ /\ ~written, !.phase = "tiles"]
            ELSE Over([w EXCEPT !.whole = FALSE])

SaveTiles(ok, short) ==
    /\ w.phase = "tiles"
    /\ w' = Over([Saved(w, House, ok, short) EXCEPT !.whole = @ /\ ok])

(* ------------------------------ stop and start --------------------------- *)

Crash ==
    /\ w.phase # "down"
    /\ w' = [w EXCEPT !.mem = [k \in DOMAIN w.mem |-> {}], !.online = {}, !.left = {},
                      !.phase = "down", !.spoiled = @ \cup w.touched]

(* The web site asks for the house to be cleared.                            *)
AskTransfer ==
    /\ w.phase = "down" /\ w.ownerRow # NoOwner /\ ~w.clear
    /\ w' = [w EXCEPT !.clear = TRUE]

(* Map::loadMap: the owners, then the items, into the house or, when it is   *)
(* to be cleared, into the depot of its owner, with a save for each tile     *)
(* whose result nobody looks at.                                             *)
Boot(kept, short) ==
    /\ w.phase = "down" /\ kept \subseteq w.row[House]
    /\ w' = LET s == [w EXCEPT !.owner = w.ownerRow, !.phase = "idle"] IN
            IF w.clear THEN ToDepot(s, w.ownerRow, w.row[House], kept, short)
            ELSE [s EXCEPT !.mem[House] = w.row[House]]

Next ==
    \/ \E p \in Players :
          \/ Login(p)
          \/ \E ok \in BOOLEAN : BuyHouse(p, ok)
          \/ \E ok \in BOOLEAN, short \in LastRows :
                Logout(p, ok, short) \/ Kick(p, ok, short) \/ SavePlayer(p, ok, short)
    \/ \E i \in Items, from \in Keepers \cup {Street}, to \in Keepers \cup {Street} :
          Move(i, from, to)
    \/ \E ok \in BOOLEAN, ok2 \in BOOLEAN, short \in LastRows :
          \/ CheckHouses(ok, ok2, short)
          \/ \E evict \in BOOLEAN : CheckAtShutdown(evict, ok, ok2, short)
    \/ \E shallow \in BOOLEAN : SaveGameState(shallow)
    \/ Close \/ Shutdown \/ KickedAll \/ Crash \/ AskTransfer
    \/ \E ok \in BOOLEAN, written \in BOOLEAN : SaveHouses(ok, written)
    \/ \E ok \in BOOLEAN, short \in SUBSET Items : SaveTiles(ok, short)
    \/ \E kept \in SUBSET Items, short \in SUBSET Items : Boot(kept, short)

(* ------------------------------- properties ------------------------------ *)

(* However the saves of a round, the failures of the database and a crash    *)
(* fall, an item that did not change hands since the last whole round is     *)
(* never in the rows of two keepers, and it is in those of one unless the    *)
(* last save of its keeper left it out without telling anybody: nobody finds *)
(* it twice, and only such a save loses it.  After a whole round, and so     *)
(* after an orderly stop, that is every item but those on the street         *)
(* (Game::saveGameState, setGameState, the rollback of DBTransaction, what   *)
(* DBInsert and IOMapSerialize ignore, and the order of the saves).          *)
UntouchedSurvive ==
    \A i \in Items \ (w.touched \cup w.spoiled) :
       /\ \A k, l \in Keepers : i \in w.row[k] /\ i \in w.row[l] => k = l
       /\ i \notin w.dropped => InOneRow(w.row, i)
=============================================================================
