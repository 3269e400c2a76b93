------------------------------ MODULE Channels ------------------------------
(* Private channels and the reports of players to gamemasters: the maps of   *)
(* Chat and of Game::ruleViolations, and what the clients show of them       *)
(* (chat.cpp, game.cpp:2309-2452, 4278-4315, 5396-5433).  Guild and party    *)
(* channels are in Guilds and Party.  A player is premium when he asks for a *)
(* channel; a script may refuse to open one.                                 *)
EXTENDS Integers

CONSTANTS Players,
          NoOne,
          Ids,      \* of private channels, 100 .. 9999
          Able      \* who may have the right to answer reports

VARIABLE w   \* online, may: rights; chat: the private channels; rvr: users of
             \* the channel of reports; reports; view: what each client shows;
             \* orphans: windows that a reload left, forgotten: see TakenBySomeone

Closed == [owner |-> NoOne, invites |-> {}, users |-> {}, stray |-> {}]
NoReport == [state |-> "none", gamemaster |-> NoOne]
NoView == [windows |-> {}, rvr |-> "closed", reports |-> {}]

Live(c) == w.chat[c].owner # NoOne
IsInvited(p, c) == p = w.chat[c].owner \/ p \in w.chat[c].invites
Owned(p) == {c \in Ids : w.chat[c].owner = p}
OpenReports(reports) == {p \in Players : reports[p].state = "open"}

Init ==
    w = [online |-> {}, may |-> Able, chat |-> [c \in Ids |-> Closed], rvr |-> {},
         reports |-> [p \in Players |-> NoReport], view |-> [p \in Players |-> NoView],
         orphans |-> {}, forgotten |-> {}]

(* Channel c goes, and those who use it are told.                            *)
DeleteChannel(chat, view, c) ==
    [chat |-> [chat EXCEPT ![c] = Closed],
     view |-> [p \in Players |-> IF p \in chat[c].users
                                   THEN [view[p] EXCEPT !.windows = @ \ {c}] ELSE view[p]]]

(* The clients with the channel of reports take r's off their lists.         *)
RemoveReport(view, r) ==
    [p \in Players |-> IF p \in w.rvr THEN [view[p] EXCEPT !.reports = @ \ {r}] ELSE view[p]]

(* r's report is erased; if somebody had taken it only he is told.           *)
Cancelled(v, r) ==
    [v EXCEPT !.reports[r] = NoReport, !.forgotten = @ \ {r},
              !.view = IF v.reports[r].state = "open" THEN RemoveReport(@, r) ELSE @]

Login(p) ==
    /\ p \notin w.online
    /\ w' = [w EXCEPT !.online = @ \cup {p}, !.view[p] = NoView]

(* Another client takes the player over: channels are opened again, that of  *)
(* the reports like any other, without its list.                             *)
Reconnect(p) ==
    /\ p \in w.online
    /\ w' = [w EXCEPT !.view[p] = [windows |-> {c \in Ids : p \in w.chat[c].users},
                                   rvr |-> IF p \in w.rvr THEN "bare" ELSE "closed",
                                   reports |-> {}],
                      !.orphans = {o \in @ : o[1] # p}]

(* The first free number; a second channel is refused, and so is one more    *)
(* than there are numbers.                                                   *)
CreatePrivateChannel(p) ==
    /\ p \in w.online /\ Owned(p) = {}
    /\ \E c \in Ids :
          /\ ~ Live(c) /\ \A d \in Ids : d < c => Live(d)
          /\ w' = [w EXCEPT !.chat[c] = [Closed EXCEPT !.owner = p, !.users = {p}],
                            !.view[p].windows = @ \cup {c}, !.orphans = @ \ {<<p, c>>}]

ChannelInvite(p, q) ==
    /\ {p, q} \subseteq w.online /\ p # q
    /\ \E c \in Owned(p) :
          /\ q \notin w.chat[c].invites
          /\ w' = [w EXCEPT !.chat[c].invites = @ \cup {q}]

Exclude(c, q) ==
    w' = [w EXCEPT !.chat[c] = [w.chat[c] EXCEPT !.invites = @ \ {q}, !.users = @ \ {q}],
                   !.view[q].windows = @ \ {c}, !.orphans = @ \ {<<q, c>>}]

ChannelExclude(p, q) ==
    /\ {p, q} \subseteq w.online /\ p # q
    /\ \E c \in Owned(p) : q \in w.chat[c].invites /\ Exclude(c, q)

OpenChannel(p, c) ==
    /\ p \in w.online /\ Live(c) /\ IsInvited(p, c)
    /\ w' = [w EXCEPT !.chat[c].users = @ \cup {p}, !.view[p].windows = @ \cup {c},
                      !.orphans = @ \ {<<p, c>>}]

(* The owner takes the channel with him; who is no user any more only closes *)
(* a window.                                                                 *)
CloseChannel(p, c) ==
    /\ p \in w.online /\ c \in w.view[p].windows
    /\ LET view == [w.view EXCEPT ![p].windows = @ \ {c}]
           chat == IF Live(c) /\ IsInvited(p, c)
                     THEN [w.chat EXCEPT ![c].users = @ \ {p}] ELSE w.chat
           gone == DeleteChannel(chat, view, c)
           ends == w.chat[c].owner = p
       IN w' = [w EXCEPT !.chat = IF ends THEN gone.chat ELSE chat,
                         !.view = IF ends THEN gone.view ELSE view,
                         !.orphans = @ \ {<<p, c>>}]

-----------------------------------------------------------------------------
OpenReportsChannel(p) ==
    /\ p \in w.online \cap w.may
    /\ w' = [w EXCEPT !.rvr = @ \cup {p},
                      !.view[p] = [w.view[p] EXCEPT !.rvr = "full", !.reports = OpenReports(w.reports)]]

(* One who has lost the right since stays a user.                            *)
CloseReportsChannel(p) ==
    /\ p \in w.online /\ w.view[p].rvr # "closed"
    /\ w' = [w EXCEPT !.rvr = IF p \in w.may THEN @ \ {p} ELSE @,
                      !.view[p] = [w.view[p] EXCEPT !.rvr = "closed", !.reports = {}]]

ReportRuleViolation(p) ==
    /\ p \in w.online
    /\ LET v == Cancelled(w, p)
       IN w' = [v EXCEPT !.reports[p] = [state |-> "open", gamemaster |-> NoOne],
                         !.view = [q \in Players |->
                              IF q \in w.rvr /\ w.view[q].rvr # "closed"
                                THEN [v.view[q] EXCEPT !.reports = @ \cup {p}] ELSE v.view[q]]]

ProcessRuleViolation(p, r) ==
    /\ {p, r} \subseteq w.online /\ p \in w.may /\ w.reports[r].state = "open"
    /\ w' = [w EXCEPT !.reports[r] = [state |-> "taken", gamemaster |-> p],
                      !.view = RemoveReport(@, r)]

(* Whoever asks, though he did not take the report.                          *)
CloseRuleViolation(p, r) ==
    /\ {p, r} \subseteq w.online /\ w.reports[r].state # "none"
    /\ w' = [w EXCEPT !.reports[r] = NoReport, !.forgotten = @ \ {r},
                      !.view = RemoveReport(@, r)]

CancelRuleViolation(p) ==
    /\ p \in w.online /\ w.reports[p].state # "none"
    /\ w' = Cancelled(w, p)

(* A script gives a gamemaster another group.                                *)
SetGroup(p) ==
    /\ p \in w.online \cap Able
    /\ w' = [w EXCEPT !.may = IF p \in @ THEN @ \ {p} ELSE @ \cup {p}]

-----------------------------------------------------------------------------
(* removeUserFromChannels: the loop goes on from a channel that it has just  *)
(* deleted; it visits the channels behind it, or does not.                   *)
RemovedFromChannels(chat, view, p, skips) ==
    LET own == {c \in Ids : chat[c].owner = p}
        passed == {c \in Ids : skips /\ \E d \in own : c > d /\ p \in chat[c].users}
        left == [c \in Ids |->
                   [chat[c] EXCEPT !.users = @ \ {p},
                                   !.stray = IF c \in passed THEN @ \cup {p} ELSE @]]
    IN [chat |-> [c \in Ids |-> IF c \in own THEN Closed ELSE left[c]],
        view |-> [q \in Players |-> [view[q] EXCEPT
                     !.windows = @ \ {c \in own : q \in left[c].users}]]]

(* A gamemaster who leaves closes what he has taken, if he still may.        *)
TakenBy(v, p) == {r \in Players : v.reports[r].gamemaster = p}
Closes(v, p) == IF p \in v.may THEN TakenBy(v, p) ELSE {}

Logout(p) ==
    /\ p \in w.online
    /\ \E skips \in BOOLEAN, v \in {Cancelled(w, p)} :
          \E done \in {Closes(v, p)} :
             LET out == RemovedFromChannels(v.chat, v.view, p, skips)
             IN w' = [v EXCEPT !.online = @ \ {p},
                        !.reports = [r \in Players |-> IF r \in done THEN NoReport ELSE @[r]],
                        !.forgotten = (@ \ done) \cup (TakenBy(v, p) \ done),
                        !.chat = out.chat, !.rvr = @ \ {p},
                        !.view = [out.view EXCEPT ![p] = NoView],
                        !.orphans = {o \in @ : o[1] # p}]

(* Chat::reload forgets all channels; the clients keep their windows.        *)
Reload ==
    w' = [w EXCEPT !.chat = [c \in Ids |-> Closed], !.rvr = {},
                   !.view = [p \in Players |-> IF @[p].rvr = "closed" THEN @[p]
                                               ELSE [@[p] EXCEPT !.rvr = "orphan"]],
                   !.orphans = {o \in Players \X Ids : o[2] \in w.view[o[1]].windows}]

Next ==
    \/ Reload
    \/ \E p \in Players :
          \/ Login(p) \/ Reconnect(p) \/ Logout(p) \/ CreatePrivateChannel(p)
          \/ OpenReportsChannel(p) \/ CloseReportsChannel(p)
          \/ ReportRuleViolation(p) \/ CancelRuleViolation(p) \/ SetGroup(p)
          \/ \E c \in Ids : OpenChannel(p, c) \/ CloseChannel(p, c)
          \/ \E q \in Players : ChannelInvite(p, q) \/ ChannelExclude(p, q)
                                \/ ProcessRuleViolation(p, q) \/ CloseRuleViolation(p, q)

-----------------------------------------------------------------------------
(* A private channel has its owner, online and among its users, one who      *)
(* owns no other; its users are invited, and their clients show it.  A       *)
(* client shows no other, but for those a reload has left                    *)
(* (chat.cpp:33-90, 386-412, 496-528).                                       *)
WindowsAgree ==
    /\ \A c \in Ids : Live(c) =>
          /\ w.chat[c].owner \in w.chat[c].users /\ Owned(w.chat[c].owner) = {c}
          /\ \A p \in w.chat[c].users : IsInvited(p, c) /\ p \in w.online
    /\ \A p \in Players, c \in Ids :
          /\ p \in w.chat[c].users => c \in w.view[p].windows
          /\ c \in w.view[p].windows => p \in w.chat[c].users \/ <<p, c>> \in w.orphans

(* A report is of somebody online; it is open, and then every gamemaster who *)
(* has the list open sees it, or taken by one who is online and told, and    *)
(* then nobody sees it.  Two exceptions are the code's: who loses the right  *)
(* to answer does not close what he has taken when he leaves                 *)
(* (player.cpp:1669), and who reconnects gets the channel without its list   *)
(* (chat.cpp:471-475).                                                       *)
ReportsAgree ==
    /\ \A r \in Players : w.reports[r].state # "none" => r \in w.online
    /\ \A r \in Players : w.reports[r].state = "taken" =>
          w.reports[r].gamemaster \in w.online \/ r \in w.forgotten
    /\ w.rvr \subseteq w.online
    /\ \A p \in w.rvr :
          /\ w.view[p].rvr = "full" => w.view[p].reports = OpenReports(w.reports)
          /\ w.view[p].rvr = "bare" => w.view[p].reports \subseteq OpenReports(w.reports)

ChannelsAgree == WindowsAgree /\ ReportsAgree
=============================================================================
