------------------------------- MODULE Guilds -------------------------------
(* Guilds: what the players in the game carry in memory, what the database   *)
(* has of them, and the commands of the guild channel, which act on the one  *)
(* or on the other according to whether the player they name is in the game  *)
(* (chat.cpp, ioguild.cpp, talkaction.cpp, player.cpp).  A guild has one     *)
(* rank for each level, as the trigger of the database makes them.  Left     *)
(* out: names, nicks and messages, wars, failures of the database, scripts.  *)
EXTENDS Integers, FiniteSets

CONSTANTS Players, NoOne,
          MaxGuilds                     \* a bound: guilds founded

(* The state, one record: rows, the rank of each player in the table         *)
(* players; rank, what a player in the game carries, online, who is in the   *)
(* game; invitesRow (guild_invites) and invites (invitationsList); owner     *)
(* (ownerid of the table guilds, where a guild that does not exist has       *)
(* none); founded, the ids used up; channels, the guild channels there are,  *)
(* and listeners, the m_users of each.  handed has the guilds whose          *)
(* leadership was passed to somebody not in the game, only for the property. *)
VARIABLE w

Ids == 1 .. MaxGuilds
NoRank == [guild |-> 0, level |-> 0]
Rank == {NoRank} \cup [guild : Ids, level : 1 .. 3]
Member == 1
Vice == 2
Leader == 3

GuildsTypeOK ==
    /\ w.rows \in [Players -> Rank] /\ w.rank \in [Players -> Rank] /\ w.online \subseteq Players
    /\ w.invitesRow \in [Players -> SUBSET Ids] /\ w.invites \in [Players -> SUBSET Ids]
    /\ w.owner \in [Ids -> Players \cup {NoOne}] /\ w.founded \in 0 .. MaxGuilds
    /\ w.channels \subseteq Ids /\ w.listeners \in [Ids -> SUBSET w.online]
    /\ w.handed \subseteq Ids

Init ==
    w = [rows |-> [p \in Players |-> NoRank], rank |-> [p \in Players |-> NoRank],
         online |-> {}, invitesRow |-> [p \in Players |-> {}],
         invites |-> [p \in Players |-> {}], owner |-> [g \in Ids |-> NoOne],
         founded |-> 0, channels |-> {}, listeners |-> [g \in Ids |-> {}], handed |-> {}]

guildExists(g) == g \in Ids /\ w.owner[g] # NoOne

Guild(p) == w.rank[p].guild
Level(p) == w.rank[p].level

(* The rank of a player, wherever it is kept.                                *)
Actual(p) == IF p \in w.online THEN w.rank[p] ELSE w.rows[p]

(* Chat::getChannel and the tests before the commands: a player need not     *)
(* listen to the channel to speak in it.                                     *)
Speaks(p) ==
    /\ p \in w.online /\ Guild(p) \in w.channels
    /\ Guild(p) # 0 /\ guildExists(Guild(p))

Ranked(p, level) == [guild |-> Guild(p), level |-> level]

(* The new rank of another member: in memory, or in his row.                 *)
Given(s, q, rank) ==
    IF q \in s.online THEN [s EXCEPT !.rank[q] = rank] ELSE [s EXCEPT !.rows[q] = rank]

(* -------------------------------- commands ------------------------------- *)

DisbandedInRows(s, g) ==                 \* a mutant: those in the game keep their invitations
    [s EXCEPT !.rows = [q \in Players |-> IF @[q].guild = g THEN NoRank ELSE @[q]],
              !.rank = [q \in Players |-> IF @[q].guild = g THEN NoRank ELSE @[q]],
              !.invitesRow = [q \in Players |-> @[q] \ {g}],
              !.owner[g] = NoOne]

(* IOGuild::disbandGuild: the rows, the players in the game, the invitations.*)
Disbanded(s, g) ==
    [s EXCEPT !.rows = [q \in Players |-> IF @[q].guild = g THEN NoRank ELSE @[q]],
              !.rank = [q \in Players |-> IF @[q].guild = g THEN NoRank ELSE @[q]],
              !.invitesRow = [q \in Players |-> @[q] \ {g}],
              !.invites = [q \in Players |-> IF s.rank[q].guild = g THEN @[q] ELSE @[q] \ {g}],
              !.owner[g] = NoOne]

Disband(p) == Speaks(p) /\ Level(p) = Leader /\ w' = Disbanded(w, Guild(p))

Invite(p, q) ==
    /\ Speaks(p) /\ Level(p) > Member /\ Actual(q).guild = 0
    /\ IF q \in w.online
       THEN Guild(p) \notin w.invites[q] /\ w' = [w EXCEPT !.invites[q] = @ \cup {Guild(p)}]
       ELSE Guild(p) \notin w.invitesRow[q]
            /\ w' = [w EXCEPT !.invitesRow[q] = @ \cup {Guild(p)}]

Revoke(p, q) ==
    /\ Speaks(p) /\ Level(p) > Member
    /\ IF q \in w.online
       THEN /\ Guild(q) = 0 /\ Guild(p) \in w.invites[q]
            /\ w' = [w EXCEPT !.invites[q] = @ \ {Guild(p)}]
       ELSE /\ Guild(p) \in w.invitesRow[q]
            /\ w' = [w EXCEPT !.invitesRow[q] = @ \ {Guild(p)}]

(* Player::leaveGuild does not take the player out of the channel.           *)
Left(s, p) == [s EXCEPT !.rank[p] = NoRank]

LeaveGuild(p) == Speaks(p) /\ Level(p) < Leader /\ w' = Left(w, p)

(* A death on the island of the beginners.                                   *)
DieYoung(p) == p \in w.online /\ Guild(p) # 0 /\ w' = Left(w, p)

Promote(p, q) ==
    /\ Speaks(p) /\ Level(p) = Leader /\ Actual(q) = Ranked(p, Member)
    /\ w' = Given(w, q, Ranked(p, Vice))

Demote(p, q) ==
    /\ Speaks(p) /\ Level(p) = Leader /\ Actual(q) = Ranked(p, Vice)
    /\ w' = Given(w, q, Ranked(p, Member))

(* passleadership: the table guilds learns only of one who is in the game.   *)
PassLeadership(p, q) ==
    /\ Speaks(p) /\ Level(p) = Leader /\ Actual(q) = Ranked(p, Vice)
    /\ LET s == [Given(w, q, Ranked(p, Leader)) EXCEPT !.rank[p] = Ranked(p, Vice)] IN
       w' = IF q \in w.online THEN [s EXCEPT !.owner[Guild(p)] = q]
            ELSE [s EXCEPT !.handed = @ \cup {Guild(p)}]

(* Somebody in the game must rank below, somebody else only in the guild.    *)
KickMember(p, q) ==
    /\ Speaks(p) /\ Level(p) = Leader /\ Actual(q).guild = Guild(p)
    /\ q \in w.online => Level(q) < Leader
    /\ w' = IF q \in w.online THEN Left(w, q) ELSE [w EXCEPT !.rows[q] = NoRank]

(* ---------------------------- founding, joining -------------------------- *)

(* IOGuild::joinGuild writes the row at once; the rows of the invitations    *)
(* stay until the player is saved.                                           *)
JoinGuild(s, p, g, level) ==
    LET rank == [guild |-> g, level |-> level] IN
    [s EXCEPT !.rows[p] = rank, !.rank[p] = rank, !.invites[p] = {}]

(* TalkAction::guildJoin                                                     *)
guildJoin(p, g) ==
    /\ p \in w.online /\ Guild(p) = 0 /\ guildExists(g) /\ g \in w.invites[p]
    /\ w' = JoinGuild(w, p, g, Member)

(* TalkAction::guildCreate: createGuild inserts a guild and then looks for   *)
(* one that the player owns, which may be an older one that he left.         *)
guildCreate(p, g) ==
    /\ p \in w.online /\ Guild(p) = 0 /\ w.founded < MaxGuilds
    /\ LET new == w.founded + 1
           s == [w EXCEPT !.founded = new, !.owner[new] = p] IN
       s.owner[g] = p /\ w' = JoinGuild(s, p, g, Leader)

(* ------------------------------- the channel ----------------------------- *)

(* getChannelList makes the channel, addUserToChannel lets the player in.    *)
OpenChannel(p) ==
    /\ p \in w.online /\ Guild(p) # 0
    /\ w' = [w EXCEPT !.channels = @ \cup {Guild(p)}, !.listeners[Guild(p)] = @ \cup {p}]

(* removeUserFromChannel looks for the channel of his present guild.         *)
CloseChannel(p) ==
    /\ p \in w.online /\ Guild(p) \in w.channels
    /\ w' = [w EXCEPT !.listeners[Guild(p)] = @ \ {p}]

(* ----------------------------- coming and going -------------------------- *)

(* IOLoginData::loadPlayer                                                   *)
Login(p) ==
    /\ p \notin w.online
    /\ w' = [w EXCEPT !.online = @ \cup {p}, !.invites[p] = w.invitesRow[p],
                      !.rank[p] = IF guildExists(w.rows[p].guild) THEN w.rows[p] ELSE NoRank]

(* savePlayer keeps the invitations of guilds that exist.                    *)
Saved(s, p) ==
    [s EXCEPT !.rows[p] = s.rank[p],
              !.invitesRow[p] = {g \in s.invites[p] : s.owner[g] # NoOne}]

Save(p) == p \in w.online /\ w' = Saved(w, p)

Logout(p) ==
    /\ p \in w.online
    /\ w' = [Saved(w, p) EXCEPT !.online = @ \ {p}, !.rank[p] = NoRank, !.invites[p] = {},
                                !.listeners = [g \in Ids |-> @[g] \ {p}]]

Next ==
    \/ \E p \in Players :
          \/ Login(p) \/ Save(p) \/ Logout(p) \/ Disband(p) \/ LeaveGuild(p) \/ DieYoung(p)
          \/ OpenChannel(p) \/ CloseChannel(p)
          \/ \E g \in Ids : guildJoin(p, g) \/ guildCreate(p, g)
    \/ \E p, q \in Players :
          \/ Invite(p, q) \/ Revoke(p, q) \/ Promote(p, q) \/ Demote(p, q)
          \/ PassLeadership(p, q) \/ KickMember(p, q)

(* ------------------------------- properties ------------------------------ *)

(* Whether players are in the game or not when a command names them: a       *)
(* leader is the owner of his guild in the database, so there is one at      *)
(* most, unless the leadership was ever passed to somebody not in the game;  *)
(* and nobody belongs, or is invited, to a guild that is no more (passing    *)
(* the leadership, disbandGuild, createGuild, savePlayer, loadPlayer).       *)
GuildsAgree ==
    \A p \in Players :
       LET rank == Actual(p) IN
       /\ rank.level = Leader /\ rank.guild \notin w.handed => w.owner[rank.guild] = p
       /\ rank.guild # 0 => guildExists(rank.guild)
       /\ \A g \in w.invites[p] \cup w.invitesRow[p] : guildExists(g)
=============================================================================
