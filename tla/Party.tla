------------------------------- MODULE Party -------------------------------
(* Parties (party.cpp), from the players' side (game.cpp, player.cpp) and    *)
(* with the chat channel a party has (chat.cpp).  A Party is deleted by its  *)
(* own disband() while leaders, members and invited players, and the map of  *)
(* channels, hold its address; a new Party may get the same one.             *)
(* All of it runs in the dispatcher, one task at a time.                     *)
(*                                                                           *)
(* Left out: who stands at the front of the member list (any member may      *)
(* succeed a leader), levels, distances and how old a blow is (where all     *)
(* have fought, sharing may or may not be granted).                          *)
EXTENDS FiniteSets

CONSTANTS
    Characters,
    Parties,        \* addresses of Party objects (bound)
    Nobody, NoParty

ASSUME PartyAssumption == Nobody \notin Characters /\ NoParty \notin Parties

VARIABLES
    online,
    party,          \* Player::party
    invitations,    \* Player::invitePartyList
    parties,        \* the Party objects
    channel,        \* Chat::m_partyChannels: the users of the channel
    opened,         \* the addresses that have a channel
    fought          \* who has fought since it joined (history)

partyVars == <<online, party, invitations, parties, channel, opened, fought>>

(* sharing: sharedExpActive and sharedExpEnabled; points: pointMap.          *)
Freed == [leader |-> Nobody, members |-> {}, invited |-> {},
          sharing |-> "off", points |-> {}]

PartyTypeOK ==
    /\ online \subseteq Characters
    /\ party \in [Characters -> Parties \cup {NoParty}]
    /\ invitations \in [Characters -> SUBSET Parties]
    /\ parties \in [Parties -> [leader  : Characters \cup {Nobody},
                                members : SUBSET Characters,
                                invited : SUBSET Characters,
                                sharing : {"off", "idle", "on"},
                                points  : SUBSET Characters]]
    /\ channel \in [Parties -> SUBSET Characters]
    /\ opened \subseteq Parties
    /\ fought \subseteq Characters

Live(a) == parties[a].leader # Nobody
Leads(p) == party[p] # NoParty /\ parties[party[p]].leader = p

PartyInit ==
    /\ online = {}
    /\ party = [p \in Characters |-> NoParty]
    /\ invitations = [p \in Characters |-> {}]
    /\ parties = [a \in Parties |-> Freed]
    /\ channel = [a \in Parties |-> {}]
    /\ opened = {}
    /\ fought = {}

-----------------------------------------------------------------------------
(* What Party's operations make of a party r: each is the set of records     *)
(* that may result.                                                          *)

MayShare(r) == r.members # {} /\ {r.leader} \cup r.members \subseteq r.points

(* Party::canEnableSharedExperience.                                         *)
Granted(r) == IF MayShare(r) THEN {"idle", "on"} ELSE {"idle"}

(* Party::updateSharedExperience.                                            *)
Updated(r) ==
    IF r.sharing = "off" THEN {r} ELSE {[r EXCEPT !.sharing = s] : s \in Granted(r)}

CanDisband(r) == r.members = {} /\ r.invited = {}

(* Party::passLeadership to q.                                               *)
Passed(r, q) ==
    [r EXCEPT !.leader = q, !.members = (@ \ {q}) \cup {r.leader}]

(* The leader leaves nobody behind who could lead.                           *)
MissingLeader(r, p) ==
    /\ r.leader = p
    /\ r.members = {} \/ (r.invited = {} /\ Cardinality(r.members) = 1)

(* Mutant: Party::leave does not clear the player's points.                  *)
WithoutPointsKept(r, p) == [r EXCEPT !.members = @ \ {p}, !.invited = @ \ {p}]

(* p is taken off both lists, and its points are cleared.                    *)
Without(r, p) ==
    [r EXCEPT !.members = @ \ {p}, !.invited = @ \ {p}, !.points = @ \ {p}]

(* Party::leave.                                                             *)
Left(r, p) ==
    IF MissingLeader(r, p) THEN {Freed}
    ELSE LET s == IF r.leader = p
                  THEN {Without(Passed(r, q), p) : q \in r.members}
                  ELSE {Without(r, p)}
         IN  UNION {IF CanDisband(t) THEN {Freed} ELSE Updated(t) : t \in s}

(* Mutant: the last invitation goes and the party stays.                     *)
WithdrawnOnly(r, p) == [r EXCEPT !.invited = @ \ {p}]

(* Party::removeInvite.                                                      *)
Withdrawn(r, p) ==
    LET s == [r EXCEPT !.invited = @ \ {p}] IN IF CanDisband(s) THEN Freed ELSE s

-----------------------------------------------------------------------------
Named(r) == {r.leader} \cup r.members

(* The records become ps.  Where one becomes free that is Party::disband:    *)
(* everybody it names forgets it, and, unless it is the player leaving, who  *)
(* has been taken out before, and unless it has no client, leaves its channel*)
(* by ProtocolGame::sendClosePrivate.  The player leaving is also taken out  *)
(* of the channels in closed.                                                *)
Settle(ps, leaving, closed) ==
    LET D == {a \in Parties : Live(a) /\ ps[a] = Freed}
        out == leaving \cup UNION {Named(parties[a]) : a \in D}
    IN  /\ parties' = ps
        /\ party' = [p \in Characters |-> IF p \in out THEN NoParty ELSE party[p]]
        /\ fought' = fought \ out
        /\ \E told \in SUBSET (out \ leaving) :
              channel' = [a \in Parties |->
                  channel[a] \ (   {p \in told : party[p] = a}
                              \cup (IF a \in closed THEN leaving ELSE {}))]
        /\ invitations' = [p \in Characters |->
              {a \in invitations[p] : p \in parties[a].invited => p \in ps[a].invited}]

LogIn(p) ==
    /\ p \notin online
    /\ online' = online \cup {p}
    /\ UNCHANGED <<party, invitations, parties, channel, opened, fought>>

-----------------------------------------------------------------------------
(* The players' requests.                                                    *)

(* Game::playerInviteToParty and Party::invitePlayer: a party begins with    *)
(* its first invitation.                                                     *)
Invite(p, q) ==
    /\ p \in online /\ q \in online /\ p # q
    /\ party[q] = NoParty
    /\ \E a \in Parties :
          /\ IF party[p] = NoParty
             THEN /\ ~ Live(a)
                  /\ parties' = [parties EXCEPT ![a] =
                                    [Freed EXCEPT !.leader = p, !.invited = {q}]]
             ELSE /\ a = party[p]
                  /\ parties[a].leader = p /\ q \notin parties[a].invited
                  /\ parties' = [parties EXCEPT ![a].invited = @ \cup {q}]
          /\ party' = [party EXCEPT ![p] = a]
          /\ invitations' = [invitations EXCEPT ![q] = @ \cup {a}]
    /\ UNCHANGED <<online, channel, opened, fought>>

(* Game::playerJoinParty and Party::join.                                    *)
Join(p, q) ==
    /\ p \in online /\ q \in online
    /\ Leads(q) /\ p \in parties[party[q]].invited
    /\ party[p] = NoParty
    /\ LET a == party[q]
           r == [parties[a] EXCEPT !.members = @ \cup {p}, !.invited = @ \ {p}]
       IN  /\ \E s \in Updated(r) : parties' = [parties EXCEPT ![a] = s]
           /\ party' = [party EXCEPT ![p] = a]
           /\ invitations' = [invitations EXCEPT ![p] = @ \ {a}]
    /\ UNCHANGED <<online, channel, opened, fought>>

(* Game::playerRevokePartyInvitation.                                        *)
Revoke(p, q) ==
    /\ p \in online /\ q \in online
    /\ Leads(p) /\ q \in parties[party[p]].invited
    /\ Settle([parties EXCEPT ![party[p]] = Withdrawn(@, q)], {}, {})
    /\ UNCHANGED <<online, opened>>

(* Game::playerPassPartyLeadership.                                          *)
Pass(p, q) ==
    /\ p \in online /\ q \in online
    /\ Leads(p) /\ q # p /\ party[q] = party[p]
    /\ \E s \in Updated(Passed(parties[party[p]], q)) :
          parties' = [parties EXCEPT ![party[p]] = s]
    /\ UNCHANGED <<online, party, invitations, channel, opened, fought>>

(* Game::playerLeaveParty.  Party::leave clears the player's own party       *)
(* before sendClosePrivate looks for the channel of it: p stays a user.      *)
Leave(p) ==
    /\ p \in online
    /\ party[p] # NoParty
    /\ \E s \in Left(parties[party[p]], p) :
          Settle([parties EXCEPT ![party[p]] = s], {p}, {})
    /\ UNCHANGED <<online, opened>>

(* Player::clearPartyInvitations, then Party::leave.                         *)
ForgetParties(p, closed) ==
    LET ps == [a \in Parties |->
                  IF a \in invitations[p] THEN Withdrawn(parties[a], p) ELSE parties[a]]
    IN  IF party[p] = NoParty THEN Settle(ps, {p}, closed)
        ELSE \E s \in Left(ps[party[p]], p) :
                Settle([ps EXCEPT ![party[p]] = s], {p}, closed)

(* A gamemaster turns into a ghost.                                          *)
Ghost(p) ==
    /\ p \in online
    /\ ForgetParties(p, {})
    /\ UNCHANGED <<online, opened>>

(* Game::playerSharePartyExperience.                                         *)
SetShared(p) ==
    /\ p \in online
    /\ Leads(p)
    /\ LET r == parties[party[p]]
       IN  \E s \in IF r.sharing = "off" THEN Granted(r) ELSE {"off"} :
              parties' = [parties EXCEPT ![party[p]].sharing = s]
    /\ UNCHANGED <<online, party, invitations, channel, opened, fought>>

(* Party::addPlayerDamageMonster and addPlayerHealedMember.                  *)
Fight(p) ==
    /\ p \in online
    /\ party[p] # NoParty
    /\ \E s \in Updated([parties[party[p]] EXCEPT !.points = @ \cup {p}]) :
          parties' = [parties EXCEPT ![party[p]] = s]
    /\ fought' = fought \cup {p}
    /\ UNCHANGED <<online, party, invitations, channel, opened>>

(* A member moves or advances (player.cpp:1773, 2176).                       *)
Recheck(p) ==
    /\ p \in online
    /\ party[p] # NoParty
    /\ \E s \in Updated(parties[party[p]]) : parties' = [parties EXCEPT ![party[p]] = s]
    /\ UNCHANGED <<online, party, invitations, channel, opened, fought>>

-----------------------------------------------------------------------------
(* The channel.                                                              *)

(* Chat::getChannelList creates the channel of p's party.                    *)
ListChannels(p) ==
    /\ p \in online
    /\ party[p] # NoParty
    /\ opened' = opened \cup {party[p]}
    /\ UNCHANGED <<online, party, invitations, parties, channel, fought>>

(* Chat::addUserToChannel.                                                   *)
OpenChannel(p) ==
    /\ p \in online
    /\ party[p] \in opened
    /\ channel' = [channel EXCEPT ![party[p]] = @ \cup {p}]
    /\ UNCHANGED <<online, party, invitations, parties, opened, fought>>

(* Chat::removeUserFromChannel.                                              *)
CloseChannel(p) ==
    /\ p \in online
    /\ party[p] \in opened
    /\ channel' = [channel EXCEPT ![party[p]] = @ \ {p}]
    /\ UNCHANGED <<online, party, invitations, parties, opened, fought>>

(* Mutant: only the channel of the player's own party is left.               *)
ChannelsOfParty(p) == {party[p]}

(* Chat::removeUserFromChannels.                                             *)
ChannelsOf(p) == Parties

(* Player::onCreatureDisappear.                                              *)
LeaveWorld(p) ==
    /\ p \in online
    /\ online' = online \ {p}
    /\ ForgetParties(p, ChannelsOf(p))
    /\ UNCHANGED opened

PartyNext ==
    \E p \in Characters :
        \/ LogIn(p) \/ Leave(p) \/ Ghost(p) \/ LeaveWorld(p)
        \/ SetShared(p) \/ Fight(p) \/ Recheck(p)
        \/ ListChannels(p) \/ OpenChannel(p) \/ CloseChannel(p)
        \/ \E q \in Characters : Invite(p, q) \/ Join(p, q) \/ Revoke(p, q) \/ Pass(p, q)

PartySpec == PartyInit /\ [][PartyNext]_partyVars

-----------------------------------------------------------------------------
(* Experience is shared only where all have fought since they joined: one    *)
(* who leaves and comes back, or a new leader, starts from nothing           *)
(* (party.cpp:108, 166, 358).                                                *)
SharersFought ==
    \A a \in Parties : parties[a].sharing = "on" =>
        parties[a].members # {} /\ Named(parties[a]) \subseteq fought

(* A party and its players point to each other, and so do invitations; all   *)
(* are in the world, a leader is no member, and there is always somebody to  *)
(* lead or to wait for: no Party that disband() has deleted is reached by    *)
(* anybody, and none is left behind (party.cpp:41-69, player.cpp:5523-5535). *)
(* And only those who fought share what is gained.                           *)
PartiesAgree ==
    /\ \A p \in Characters, a \in Parties :
          /\ party[p] = a <=> p \in Named(parties[a])
          /\ a \in invitations[p] <=> p \in parties[a].invited
    /\ \A a \in Parties : Live(a) =>
          /\ ~ CanDisband(parties[a])
          /\ Named(parties[a]) \cup parties[a].invited \subseteq online
          /\ parties[a].leader \notin parties[a].members
          /\ Named(parties[a]) \cap parties[a].invited = {}
    /\ SharersFought

(* Nobody who has left the world is a user of a party's channel, not even of *)
(* that of a party long disbanded (chat.cpp:516): ChatChannel keeps pointers *)
(* to its users.                                                             *)
ChannelUsersPresent == UNION {channel[a] : a \in Parties} \subseteq online
=============================================================================
