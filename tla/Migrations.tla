----------------------------- MODULE Migrations -----------------------------
(* The updates of the database at start-up (databasemanager.cpp): one update *)
(* for each version, each a list of statements that are committed one by one *)
(* and whose failures are ignored, with a crash between any two of them.     *)
(*                                                                           *)
(* The schema is a set of facts <<table, "">> and <<table, column>>; a       *)
(* column also stands for rows in a certain state.  Types of columns, keys   *)
(* and indexes, and tables that no later update touches, are left out.       *)
(* PostgreSQL, for which most updates are marked TODO, is left out too.      *)
EXTENDS Integers, Sequences, SequencesExt

CONSTANTS Provided,        \* the version of the SQLite database that comes with the server
          Latest,          \* VERSION_DATABASE (resources.h)
          Configured,      \* encryptions that config.lua may name
          MaxCrashes,
          Missing          \* no such row in server_config

(* The state, one record:
     my          the engine is MySQL, and not SQLite
     schema      the facts
     config      the rows of server_config
     phase, at, todo    of the start-up: the version an update starts from and
                 the statements it has left
     before      the schema when this update was first begun
     stream      nothing is in `query', the stream of updateDatabase
     conf        the encryption in config.lua
     losses, keys       how often the losses were multiplied, and the keys hashed
     passwords   how they are stored
     again       the versions in whose updates the server crashed
     crashes     how often it did (at most MaxCrashes)                       *)
VARIABLE w

-----------------------------------------------------------------------------
(* Statements.                                                               *)

MakeWith(t, cs) == [do |-> "make", table |-> t, columns |-> cs]
Make(t) == MakeWith(t, {})
Add(t, c) == [do |-> "add", table |-> t, column |-> c]
Drop(t, c) == [do |-> "drop", table |-> t, column |-> c]
DropTable(t) == [do |-> "drop table", table |-> t]
Rename(t, u) == [do |-> "rename", table |-> t, to |-> u]
Change(t, c, d) == [do |-> "change", table |-> t, column |-> c, to |-> d]
Set(what) == [do |-> "set", what |-> what]

(* A SELECT through the stream and an UPDATE through it for each row of      *)
(* `from': the stream still holds the SELECT when the first row's UPDATE is  *)
(* appended, and is emptied only after that.                                 *)
Each(from, t, c) == [do |-> "each", from |-> from, table |-> t, column |-> c]

(* registerDatabaseConfig.                                                   *)
Register(key, value) == [do |-> "register", key |-> key, value |-> value]

(* What tableExists decides when it is reached.                              *)
Decide(what) == [do |-> "decide", what |-> what]

Makes(ts) == [i \in DOMAIN ts |-> Make(ts[i])]
Adds(t, cs) == [i \in DOMAIN cs |-> Add(t, cs[i])]

(* SQLite adds no column that is NOT NULL and has no default.                *)
AddStrict(my, t, c) == IF my THEN <<Add(t, c)>> ELSE <<>>

Has(s, t) == <<t, "">> \in s.schema

Renamed(schema, t, u) == {IF x[1] = t THEN <<u, x[2]>> ELSE x : x \in schema}

Hashed(s) == IF s.passwords = "plain" THEN s.conf ELSE "twice"

(* The effect of a statement; what cannot be done fails and changes nothing. *)
Effect(s, q) ==
    CASE q.do = "make" /\ ~Has(s, q.table) ->
            [s EXCEPT !.schema = @ \cup {<<q.table, c>> : c \in q.columns \cup {""}}]
      [] q.do = "add" /\ Has(s, q.table) -> [s EXCEPT !.schema = @ \cup {<<q.table, q.column>>}]
      [] q.do = "each" /\ s.stream ->
            IF q.from \in s.schema THEN [s EXCEPT !.schema = @ \cup {<<q.table, q.column>>}]
            ELSE [s EXCEPT !.stream = FALSE]
      [] q.do = "drop" -> [s EXCEPT !.schema = @ \ {<<q.table, q.column>>}]
      [] q.do = "drop table" ->
            [s EXCEPT !.schema = {x \in @ : x[1] # q.table},
                      !.config = [k \in DOMAIN @ |-> IF q.table = "server_config" THEN Missing ELSE @[k]]]
      [] q.do = "rename" /\ Has(s, q.table) /\ ~Has(s, q.to) ->
            [s EXCEPT !.schema = Renamed(@, q.table, q.to)]
      [] q.do = "change" /\ <<q.table, q.column>> \in s.schema ->
            [s EXCEPT !.schema = (@ \ {<<q.table, q.column>>}) \cup {<<q.table, q.to>>}]
      [] q.do = "register" /\ Has(s, "server_config") -> [s EXCEPT !.config[q.key] = q.value]
      [] q.do = "set" /\ q.what = "losses" -> [s EXCEPT !.losses = @ + 1]
      [] q.do = "set" /\ q.what = "keys" -> [s EXCEPT !.keys = @ + 1]
      [] q.do = "set" /\ q.what = "passwords" -> [s EXCEPT !.passwords = Hashed(s)]
      [] OTHER -> s

-----------------------------------------------------------------------------
(* The updates, by the version they start from: what MySQL and what SQLite   *)
(* get.  The first one registers its version before it does its work.        *)

From0(s) ==
    <<Make("server_config"), Register("version", 1)>>
    \o IF s.my THEN <<Decide("old bans")>> ELSE <<>>

OldBans ==
    <<Make("bans2"), Each(<<"bans", "rows">>, "bans2", "rows but the first"),
      DropTable("bans"), Rename("bans2", "bans")>>
    \o <<Make("server_record"), Make("server_reports"), Make("server_motd"),
         MakeWith("global_storage", {"key", "value"})>>
    \o Adds("players", <<"balance", "stamina", "loss_items", "marriage">>)
    \o <<Drop("accounts", "type"), Drop("player_deaths", "is_player"),
         Add("houses", "lastwarning"), Make("ondelete_accounts"), Make("ondelete_players")>>

From1(my) ==
    <<Add("players", "promotion"),
      Each(<<"player_storage", "promotions">>, "players", "promotions but the first"),
      Drop("player_storage", "promotions"), Add("accounts", "name"),
      Each(<<"accounts", "rows">>, "accounts", "names but the first"),
      Add("players", "deleted")>>

From2(my) == <<Add("players", "vocations without promotion")>>

From3(my) == AddStrict(my, "houses", "name") \o Adds("houses", <<"size", "town", "price", "rent">>)

From4(my) == AddStrict(my, "player_deaths", "altkilled_by")

From5(my) ==
    IF my THEN <<Change("global_storage", "value", "text"), Change("player_storage", "value", "text")>>
    ELSE <<Rename("global_storage", "global_storage2"),
           MakeWith("global_storage", {"key", "text"}),
           Rename("player_storage", "player_storage2"),
           MakeWith("player_storage", {"key", "text"})>>

From6(my) == <<Each(<<"guilds", "rows">>, "guilds", "owners but the first")>>

(* The worlds: SQLite has them to do.                                        *)
From7(my) ==
    IF ~my THEN <<>>
    ELSE LET tables == <<"server_motd", "server_record", "server_reports", "players",
                         "global_storage", "guilds", "house_lists", "houses", "tiles", "tile_items">>
         IN  [i \in DOMAIN tables |-> Add(tables[i], "world_id")]

From8(my) == AddStrict(my, "bans", "statement")

(* The houses' items: a table of one of two names, or a new one.             *)
HouseData(s) ==
    IF Has(s, "map_storage")
    THEN <<Rename("map_storage", "house_data")>> \o AddStrict(s.my, "house_data", "world_id")
    ELSE IF Has(s, "house_storage") THEN <<Rename("house_storage", "house_data")>>
    ELSE <<MakeWith("house_data", {"world_id"})>>

From10(my) == <<Add("players", "description"), Decide("house data")>>

(* The loss of skills and the like in percent: ten times what it was.        *)
From11(my) ==
    <<Set("losses")>> \o IF my THEN <<Add("players", "loss_containers")>> ELSE <<>>

From12(my) == <<DropTable("groups")>>

From13(my) == Adds("houses", <<"doors", "beds", "guild">>)

From14(my) ==
    <<DropTable("player_deaths")>>
    \o Makes(<<"player_deaths", "killers", "player_killers", "environment_killers">>)

From15(my) ==
    IF my THEN <<Drop("players", "redskull"), Add("killers", "unjustified")>>
    ELSE <<Add("killers", "unjustified")>>

From16(my) == <<Make("player_namelocks")>>

From17(my) ==
    (IF my THEN <<Drop("player_depotitems", "depot_id")>> ELSE <<>>)
    \o AddStrict(my, "tiles", "house_id") \o <<Add("houses", "clear")>>

From18(my) == <<Add("houses", "tiles"), Make("house_auctions")>>

From19(my) ==
    IF my THEN <<Change("players", "redskulltime", "skulltime"), Add("players", "skull")>>
    ELSE Adds("players", <<"skulltime", "skull">>)

From20(my) == <<Add("bans", "new types")>>

From21(my) == <<Make("account_viplist")>>

From22(s) == <<Set("keys"), Register("encryption", s.conf)>>

From23(my) == AddStrict(my, "guilds", "checkdata")

(* The table of versions: SQLite drops it, registers what there is to        *)
(* register, and sends the stream that begins with the DROP once more        *)
(* instead of the CREATE that was appended to it.                            *)
From24(s) ==
    IF s.my THEN <<Change("server_config", "value", "text")>>
    ELSE <<DropTable("server_config"), Register("encryption", s.conf), DropTable("server_config")>>

From25(my) == <<Add("accounts", "salt")>>

From26(my) == IF my THEN <<Change("player_storage", "key", "name"), Change("global_storage", "key", "name")>>
              ELSE <<>>

From27(my) == IF my THEN <<Add("players", "currmount")>> ELSE <<>>

From28(my) == <<IF my THEN Change("players", "currmount", "lookmount") ELSE Add("players", "lookmount")>>

From29(my) == <<Make("tile_store")>>

From30(my) == <<Add("players", "pvp_blessing")>>

Wars == Makes(<<"player_statements", "guild_wars", "guild_kills">>)
        \o <<Add("killers", "war"), Add("guilds", "balance")>>

From31(my) == IF my THEN Wars ELSE <<>>

From33(my) == Makes(<<"market_offers", "market_history">>)

From34(my) == IF my THEN <<>> ELSE Wars

From36(my) == <<Make("login_history"), Add("players", "ip")>>

From37(my) == Adds("players", <<"offlinetraining_time", "offlinetraining_skill">>)

From42(my) ==
    LET tables == <<"player_items", "player_depotitems", "tile_items", "tile_store", "house_data">>
    IN  [i \in DOMAIN tables |-> Add(tables[i], "serial")]
        \o Adds("players", <<"broadcasting", "viewers">>)

(* The updates from 9, 32, 35 and 38 to 41 have nothing to do.               *)
Statements(s) ==
    LET my == s.my
    IN  <<From1(my), From2(my), From3(my), From4(my), From5(my), From6(my), From7(my), From8(my),
          <<>>, From10(my), From11(my), From12(my), From13(my), From14(my), From15(my),
          From16(my), From17(my), From18(my), From19(my), From20(my), From21(my), From22(s),
          From23(my), From24(s), From25(my), From26(my), From27(my), From28(my), From29(my),
          From30(my), From31(my), <<>>, From33(my), From34(my), <<>>, From36(my), From37(my),
          <<>>, <<>>, <<>>, <<>>, From42(my)>>

(* Mutant: a case registers the number it started from.                      *)
UpdateNumberKept(s, v) ==
    IF v = 0 THEN From0(s)
    ELSE Statements(s)[v] \o <<Register("version", v)>>

(* updateDatabase: the statements of a version, then its number.             *)
Update(s, v) ==
    IF v = 0 THEN From0(s)
    ELSE Statements(s)[v] \o <<Register("version", v + 1)>>

(* What a decision leads to.                                                 *)
Chosen(s, q) ==
    CASE q.do # "decide" -> <<>>
      [] q.what = "house data" -> HouseData(s)
      [] q.what = "old bans" -> IF Has(s, "server_motd") THEN <<>> ELSE OldBans

(* The databases that are met: one of MySQL from before the first version,   *)
(* with what the updates count on, and the one of SQLite that is provided.   *)
Old ==
    {<<t, "">> : t \in {"accounts", "players", "bans", "player_deaths", "houses", "player_items",
                        "player_storage", "player_depotitems", "tiles", "tile_items", "guilds",
                        "house_lists", "map_storage", "groups"}}
    \cup {<<"accounts", "rows">>, <<"accounts", "type">>, <<"bans", "rows">>, <<"guilds", "rows">>,
          <<"player_deaths", "is_player">>, <<"player_storage", "value">>,
          <<"player_storage", "key">>, <<"player_storage", "promotions">>,
          <<"players", "redskull">>, <<"players", "redskulltime">>,
          <<"player_depotitems", "depot_id">>}

Lite ==
    {<<t, "">> : t \in {"server_config", "accounts", "players", "houses", "player_items",
                        "player_depotitems", "tile_items", "guilds", "house_data", "killers"}}

Database(my, schema, version) ==
    [my |-> my, schema |-> schema, config |-> [version |-> version, encryption |-> Missing],
     phase |-> "down", at |-> -1, before |-> schema, todo |-> <<>>, stream |-> TRUE,
     conf |-> "plain", losses |-> 0, keys |-> 0, passwords |-> "plain", again |-> {}, crashes |-> 0]

-----------------------------------------------------------------------------
Init ==
    \/ w = Database(TRUE, Old, Missing)
    \/ w = Database(FALSE, Lite, Provided)

(* getDatabaseVersion: no table is version 0, no row is -1.                  *)
Version ==
    IF ~Has(w, "server_config") THEN 0
    ELSE IF w.config.version = Missing THEN -1 ELSE w.config.version

(* The server is started.  Whoever updates a database from before version 23 *)
(* names the encryption that it has.                                         *)
Start ==
    /\ w.phase = "down"
    /\ \E e \in Configured :
          /\ Version < 23 => e = w.passwords
          /\ w' = [w EXCEPT !.phase = "read", !.conf = e]

(* main asks for one update at a time, and goes on when it gets a 0.         *)
Read ==
    /\ w.phase = "read"
    /\ \E v \in {Version} :
          w' = IF v \in 0 .. 42
               THEN [w EXCEPT !.phase = "update", !.at = v, !.todo = Update(w, v), !.stream = TRUE,
                              !.before = IF v = w.at THEN @ ELSE w.schema]
               ELSE [w EXCEPT !.phase = "check"]

Execute ==
    /\ w.phase \in {"update", "encrypt"} /\ w.todo # <<>>
    /\ \E q \in {Head(w.todo)} :
          w' = [Effect(w, q) EXCEPT !.todo = Chosen(w, q) \o Tail(w.todo)]

(* The update returns its version, and main looks whether that is the last.  *)
Return ==
    /\ w.phase = "update" /\ w.todo = <<>>
    /\ w' = [w EXCEPT !.phase = IF w.at + 1 < Latest THEN "read" ELSE "check"]

(* checkTriggers: those that are missing are made, one by one, and none that *)
(* is there is changed.                                                      *)
MyTriggers ==
    <<"ondelete_accounts", "oncreate_guilds", "ondelete_guilds", "oncreate_players",
      "ondelete_players">>

LiteTriggers ==
    <<"oncreate_guilds", "oncreate_players", "ondelete_accounts", "ondelete_players",
      "ondelete_guilds", "oninsert and onupdate of each table with references">>

Triggers == IF w.my THEN MyTriggers ELSE LiteTriggers

(* checkEncryption.  Only MySQL's own hashes are computed in one statement;  *)
(* the others go row by row through a stream that is never emptied and       *)
(* begins with the SELECT, and change nothing.                               *)
Encrypted ==
    IF w.config.encryption = Missing THEN <<Register("encryption", w.conf)>>
    ELSE IF \/ w.conf \in {w.config.encryption, "plain"}
            \/ w.conf \in {"md5", "sha1"} /\ w.config.encryption # "plain" THEN <<>>
    ELSE (IF w.my /\ w.conf \in {"md5", "sha1"} THEN <<Set("passwords")>> ELSE <<>>)
         \o <<Register("encryption", w.conf)>>

Check ==
    /\ w.phase = "check"
    /\ w' = [w EXCEPT !.phase = "encrypt", !.todo = Makes(Triggers) \o Encrypted]

Ready ==
    /\ w.phase = "encrypt" /\ w.todo = <<>>
    /\ w' = [w EXCEPT !.phase = "up"]

Stop == w.phase = "up" /\ w' = [w EXCEPT !.phase = "down", !.todo = <<>>]

(* The server dies between two statements.                                   *)
Crash ==
    /\ w.phase \in {"update", "encrypt"} /\ w.crashes < MaxCrashes
    /\ w' = [w EXCEPT !.phase = "down", !.todo = <<>>, !.crashes = @ + 1,
                      !.again = @ \cup {IF w.phase = "update" THEN w.at ELSE 43}]

Next == Start \/ Read \/ Execute \/ Return \/ Check \/ Ready \/ Stop \/ Crash

Spec == Init /\ [][Next]_w

-----------------------------------------------------------------------------
(* Whatever crash came between two statements, a database that has reached a *)
(* version has all that undisturbed updates give that version; the server    *)
(* runs on no older one than it asks for; losses are multiplied, keys and    *)
(* passwords hashed, once; and passwords are stored as the table says.  The  *)
(* code's own exceptions, by the update that a crash hit: 0 has its table    *)
(* and its number before its work is done, 1 empties what it reads and then  *)
(* leaves its stream dirty, 10 adds a column only if it has just renamed the *)
(* table, 11 and 22 multiply and hash what is already done, and so does the  *)
(* encryption; and the encryptions that go row by row                        *)
(* (databasemanager.cpp:169-1677).                                           *)
Tables(s) == {x \in s.schema : x[1] \notin {Triggers[i] : i \in DOMAIN Triggers}}

(* An update that nothing disturbs.                                          *)
Undisturbed(s, v) ==
    FoldLeft(LAMBDA t, q : FoldLeft(Effect, Effect(t, q), Chosen(t, q)),
             [s EXCEPT !.stream = TRUE], Update(s, v))

UpdatesHold ==
    /\ w.phase = "update" /\ w.todo = <<>> /\ w.again \cap {0, 1, 10} = {} =>
          /\ w.config.version = w.at + 1
          /\ Tables(w) = Tables(Undisturbed([w EXCEPT !.schema = w.before], w.at))
    /\ w.phase = "up" /\ 0 \notin w.again => Version >= Latest
    /\ w.losses > 1 => 11 \in w.again
    /\ w.keys > 1 => 22 \in w.again
    /\ w.phase = "up" /\ 43 \notin w.again /\ w.my /\ w.config.encryption \in {"plain", "md5", "sha1"}
          => w.passwords = w.config.encryption
    /\ w.passwords = "twice" => 43 \in w.again
=============================================================================
