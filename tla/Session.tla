-------------------------------- MODULE Session --------------------------------
(***************************************************************************)
(* Who controls a character: the ProtocolGame objects of the connections,  *)
(* the Player objects of the world, and the pointers between them          *)
(* (sources/protocolgame.cpp, spectators.h, player.cpp, game.cpp).         *)
(*                                                                         *)
(* A ProtocolGame holds a counted reference to its player; the player's    *)
(* Spectators object holds bare pointers to the protocol that owns the     *)
(* character and to those that watch it.  A login for a character that is  *)
(* still connected closes the old client and connects one second later,    *)
(* through the scheduler.  Everything here runs on the dispatcher thread,  *)
(* one task of its queue after another; the service threads only queue     *)
(* tasks, and the scheduler hands back the timed ones.                     *)
(*                                                                         *)
(* One character is modelled; the Players are the objects that stand for   *)
(* it one after another (or side by side, with ALLOW_CLONES).  A player id *)
(* is never given twice, so neither is a Player.  What a client or a       *)
(* script may decide (a refused login, a denied logout) is a choice.       *)
(***************************************************************************)
EXTENDS Integers, Sequences, FiniteSets

CONSTANTS
  N,                    \* connections, in the order of their addresses (bound)
  Players,              \* Player objects that logins may create (bound)
  Watchers,             \* the connections that may ask for the stream (account "10")
  AllowClones,          \* ALLOW_CLONES
  ReplaceKickOnLogin,   \* REPLACE_KICK_ON_LOGIN
  MaxTasks,             \* bound: the service adds no logout packet to a longer queue
  NoProtocol, NoPlayer  \* NULL

Protocols == 1 .. N

ASSUME SessionAssumption ==
  /\ N \in Nat /\ MaxTasks \in Nat
  /\ Watchers \subseteq Protocols
  /\ AllowClones \in BOOLEAN /\ ReplaceKickOnLogin \in BOOLEAN
  /\ NoPlayer \notin Players /\ NoProtocol \notin Protocols

VARIABLES
  prot,    \* the ProtocolGame of each connection, and how far its connection is
  plr,     \* the Player objects with their Spectators
  tasks,   \* the dispatcher's queue
  timers   \* the scheduler's events, oldest first

sessionVars == <<prot, plr, tasks, timers>>

\* conn "released": releaseProtocol has run and waits for m_refCount to drop.
NewProtocol == [conn |-> "none", player |-> NoPlayer, watch |-> FALSE,
                accept |-> FALSE, event |-> FALSE, refs |-> 0]

\* freed: how many times the player is in releaseThings.
NewPlayer == [stage |-> "none", owner |-> NoProtocol, spectators |-> {},
              broadcast |-> FALSE, connecting |-> FALSE,
              refs |-> 0, freed |-> 0, checked |-> FALSE, inVector |-> FALSE]

Task(k, p) == [kind |-> k, p |-> p, id |-> NoPlayer]
ConnectTask(p, y) == [kind |-> "connect", p |-> p, id |-> y]

SessionInit ==
  /\ prot = [p \in Protocols |-> NewProtocol]
  /\ plr = [y \in Players |-> NewPlayer]
  /\ tasks = <<>> /\ timers = <<>>
-------------------------------------------------------------------------------
(* Parts of the handlers *)

InWorld(y) == plr[y].stage = "world"
HasClient(y) == plr[y].owner # NoProtocol
IsSpectator(p) == prot[p].watch

\* ProtocolGame::disconnect on every protocol of S, and the tasks it queues.
Closed(pr, S) ==
  [p \in Protocols |->
     IF p \in S /\ pr[p].conn = "open" THEN [pr[p] EXCEPT !.conn = "closing"] ELSE pr[p]]
Closes(S) ==
  LET upTo[p \in 0 .. N] ==
        IF p = 0 THEN <<>>
        ELSE IF p \in S /\ prot[p].conn = "open" THEN Append(upTo[p - 1], Task("close", p))
        ELSE upTo[p - 1]
  IN upTo[N]

\* Mutant: the player is erased from the lists but never freed.
RemovedUnfreed(y) ==
  [y EXCEPT !.stage = "removed", !.spectators = {}, !.broadcast = FALSE, !.checked = FALSE]

\* Game::removeCreature on a player, after Spectators::clear(true).
Removed(y) ==
  [y EXCEPT !.stage = "removed", !.spectators = {}, !.broadcast = FALSE,
            !.freed = @ + 1, !.checked = FALSE]

\* Game::cleanup.
Cleaned(pl) ==
  [y \in Players |->
     IF pl[y].freed > 0 /\ pl[y].refs = pl[y].freed
     THEN [NewPlayer EXCEPT !.stage = "deleted"]
     ELSE [pl[y] EXCEPT !.refs = @ - pl[y].freed, !.freed = 0]]

\* Mutant: connect() without its addRef.
AttachedUncounted(p, y, refs) ==
  /\ prot' = [prot EXCEPT ![p].player = y, ![p].accept = TRUE, ![p].event = FALSE, ![p].refs = refs]
  /\ plr' = [plr EXCEPT ![y].owner = p, ![y].connecting = FALSE]

\* Mutant: isConnecting is not reset.
AttachedConnecting(p, y, refs) ==
  /\ prot' = [prot EXCEPT ![p].player = y, ![p].accept = TRUE, ![p].event = FALSE, ![p].refs = refs]
  /\ plr' = [plr EXCEPT ![y].owner = p, ![y].refs = @ + 1]

\* connect() takes the character over, and leaves refs to the protocol.
Attached(p, y, refs) ==
  /\ prot' = [prot EXCEPT ![p].player = y, ![p].accept = TRUE, ![p].event = FALSE, ![p].refs = refs]
  /\ plr' = [plr EXCEPT ![y].owner = p, ![y].connecting = FALSE, ![y].refs = @ + 1]

\* The dispatcher takes t, and queues the sequence q while it runs it.
Takes(t) == tasks # <<>> /\ Head(tasks) = t
Runs(t, q) == Takes(t) /\ tasks' = Tail(tasks) \o q
-------------------------------------------------------------------------------
(* The service threads *)

\* onRecvFirstMessage: credentials accepted.
FirstMessage(p) ==
  /\ prot[p].conn = "none"
  /\ prot' = [prot EXCEPT ![p].conn = "open"]
  /\ \/ tasks' = Append(tasks, Task("login", p))
     \/ p \in Watchers /\ tasks' = Append(tasks, Task("spectate", p))
  /\ UNCHANGED <<plr, timers>>

\* The client hangs up, a read or a write fails or times out.
HangUp(p) ==
  /\ prot[p].conn = "open"
  /\ prot' = Closed(prot, {p})
  /\ tasks' = tasks \o Closes({p})
  /\ UNCHANGED <<plr, timers>>

\* Mutant: the packets of a closing connection are parsed.
LogoutPacketWhenever(p) ==
  /\ prot[p].conn \in {"open", "closing", "released"} /\ prot[p].accept /\ Len(tasks) < MaxTasks
  /\ tasks' = Append(tasks, Task(IF IsSpectator(p) THEN "disconnect" ELSE "logout", p))
  /\ UNCHANGED <<prot, plr, timers>>

\* parsePacket, parseLogout: the task carries the protocol, not a player id.
LogoutPacket(p) ==
  /\ prot[p].conn = "open" /\ prot[p].accept /\ Len(tasks) < MaxTasks
  /\ tasks' = Append(tasks, Task(IF IsSpectator(p) THEN "disconnect" ELSE "logout", p))
  /\ UNCHANGED <<prot, plr, timers>>
-------------------------------------------------------------------------------
(* login, connect, spectate *)

\* disconnectClient from the task t.
Refuses(t, p) == Runs(t, Closes({p})) /\ prot' = Closed(prot, {p})

NoneInWorld == \A y \in Players : ~InWorld(y)

\* A character that is not in the world: new Player(name, this), and then ...
LoginNew(p, y) == Takes(Task("login", p)) /\ plr[y].stage = "none" /\ (NoneInWorld \/ AllowClones)

\* ... one of the early returns,
LoginRefused(p, y) ==
  /\ LoginNew(p, y)
  /\ plr' = [plr EXCEPT ![y] = [@ EXCEPT !.stage = "new", !.owner = p, !.refs = 1]]
  /\ Runs(Task("login", p), Closes({p}))
  /\ prot' = [Closed(prot, {p}) EXCEPT ![p].player = y]
  /\ UNCHANGED timers

\* References: the protocol's, the world's and that of the check vector.
Placed(p) == [NewPlayer EXCEPT !.stage = "world", !.owner = p, !.refs = 3,
                               !.checked = TRUE, !.inVector = TRUE]

\* ... or placeCreature,
LoginPlaced(p, y) ==
  /\ LoginNew(p, y)
  /\ Runs(Task("login", p), <<>>)
  /\ plr' = [plr EXCEPT ![y] = Placed(p)]
  /\ prot' = [prot EXCEPT ![p].player = y, ![p].accept = TRUE]
  /\ UNCHANGED timers

\* in which the login script may have the player kicked.
LoginKicked(p, y) ==
  /\ LoginNew(p, y)
  /\ Runs(Task("login", p), Closes({p}))
  /\ plr' = [plr EXCEPT ![y] = Removed(Placed(p))]
  /\ prot' = [Closed(prot, {p}) EXCEPT ![p].player = y, ![p].accept = TRUE]
  /\ UNCHANGED timers

\* A character in the world.  m_eventConnect is that of this protocol.
LoginFound(p, y) == Takes(Task("login", p)) /\ InWorld(y) /\ ~AllowClones

MayReplace(p) == ~prot[p].event /\ ReplaceKickOnLogin

\* Not a gamemaster, or a client that may not be replaced.
LoginDenied(p, y) ==
  /\ LoginFound(p, y)
  /\ Refuses(Task("login", p), p)
  /\ UNCHANGED <<plr, timers>>

\* The old client is closed, and connect() follows in a second.
LoginReplaces(p, y) ==
  /\ LoginFound(p, y) /\ HasClient(y) /\ MayReplace(p)
  /\ Runs(Task("login", p), Closes({plr[y].owner}))
  /\ prot' = [Closed(prot, {plr[y].owner}) EXCEPT ![p].refs = @ + 1, ![p].event = TRUE]
  /\ plr' = [plr EXCEPT ![y].connecting = TRUE]
  /\ timers' = Append(timers, ConnectTask(p, y))

\* Nobody plays the character: connect() at once.
LoginResumes(p, y) ==
  /\ LoginFound(p, y) /\ ~HasClient(y)
  /\ Runs(Task("login", p), <<>>)
  /\ Attached(p, y, prot[p].refs)
  /\ UNCHANGED timers

\* Mutant: connect() without the test of hasClient().
ConnectableAnyway(y) == InWorld(y)

\* getPlayerByID finds it, and nobody has taken it in the meantime.
Connectable(y) == InWorld(y) /\ ~HasClient(y)

Connect(p, y) ==
  /\ Connectable(y)
  /\ Runs(ConnectTask(p, y), <<>>)
  /\ Attached(p, y, prot[p].refs - 1)
  /\ UNCHANGED timers

ConnectRefused(p, y) ==
  /\ ~Connectable(y)
  /\ Runs(ConnectTask(p, y), Closes({p}))
  /\ prot' = [Closed(prot, {p}) EXCEPT ![p].refs = @ - 1, ![p].event = FALSE]
  /\ UNCHANGED <<plr, timers>>

\* Mutant: the stream of a character that has left the world.
SpectateAny(p, y) ==
  /\ Runs(Task("spectate", p), <<>>)
  /\ plr[y].stage \in {"world", "removed"} /\ HasClient(y)
  /\ plr' = [plr EXCEPT ![y].spectators = @ \cup {p}, ![y].refs = @ + 1]
  /\ prot' = [prot EXCEPT ![p].player = y, ![p].watch = TRUE, ![p].accept = TRUE]
  /\ UNCHANGED timers

Spectate(p, y) ==
  /\ Runs(Task("spectate", p), <<>>)
  /\ InWorld(y) /\ plr[y].broadcast /\ HasClient(y)
  /\ plr' = [plr EXCEPT ![y].spectators = @ \cup {p}, ![y].refs = @ + 1]
  /\ prot' = [prot EXCEPT ![p].player = y, ![p].watch = TRUE, ![p].accept = TRUE]
  /\ UNCHANGED timers

\* No stream, banned, or a wrong password.
SpectateRefused(p) ==
  /\ Refuses(Task("spectate", p), p)
  /\ UNCHANGED <<plr, timers>>
-------------------------------------------------------------------------------
(* Leaving *)

\* Spectators::clear, then disconnect on the protocols of S.  q is what is
\* left of the queue.
Disconnected(y, S, q) ==
  /\ prot' = Closed(prot, plr[y].spectators \cup S)
  /\ tasks' = q \o Closes(plr[y].spectators) \o Closes(S)

\* removeCreature does nothing to a player that is removed already.
Gone(y) == IF InWorld(y) THEN [plr EXCEPT ![y] = Removed(@)] ELSE plr

Logout(p) ==
  /\ Takes(Task("logout", p))
  /\ prot[p].player # NoPlayer
  /\ Disconnected(prot[p].player, {p}, Tail(tasks))
  /\ plr' = Gone(prot[p].player)
  /\ UNCHANGED timers

\* Exhausted, in a fight, on a no-logout tile, or refused by the script.
LogoutDenied(p) ==
  /\ Runs(Task("logout", p), <<>>)
  /\ UNCHANGED <<prot, plr, timers>>

SpectatorLeaves(p) ==
  /\ Refuses(Task("disconnect", p), p)
  /\ UNCHANGED <<plr, timers>>

\* Mutant: a protocol that is released leaves its pointers behind.
DetachedNothing(p) == plr

\* ProtocolGame::releaseProtocol, up to Protocol::releaseProtocol.
Detached(p) ==
  LET y == prot[p].player IN
  IF y = NoPlayer THEN plr
  ELSE IF ~IsSpectator(p)
       THEN IF plr[y].owner = p THEN [plr EXCEPT ![y].owner = NoProtocol] ELSE plr
       ELSE IF plr[y].broadcast THEN [plr EXCEPT ![y].spectators = @ \ {p}] ELSE plr

ReleaseTask(p) == Takes(Task("close", p)) \/ Takes(Task("release", p))

\* Mutant: the wait forgets the connect().
MustWaitForMessages(p, busy) == busy

\* m_refCount > 0: a connect() or, busy, output messages still refer to p.
MustWait(p, busy) == busy \/ prot[p].refs > 0

\* Mutant: the release is not tried again.
ReleaseForgets(p, busy) ==
  /\ ReleaseTask(p) /\ MustWait(p, busy)
  /\ prot' = [prot EXCEPT ![p].conn = "released"]
  /\ plr' = Detached(p)
  /\ tasks' = Tail(tasks)
  /\ UNCHANGED timers

ReleaseWaits(p, busy) ==
  /\ ReleaseTask(p) /\ MustWait(p, busy)
  /\ prot' = [prot EXCEPT ![p].conn = "released"]
  /\ plr' = Detached(p)
  /\ timers' = Append(timers, Task("release", p))
  /\ tasks' = Tail(tasks)

\* Mutant: deleteProtocolTask without freeThing.
DeleteProtocolOnly(p) ==
  /\ ReleaseTask(p) /\ ~MustWait(p, FALSE)
  /\ plr' = Detached(p)
  /\ prot' = [prot EXCEPT ![p].conn = "deleted", ![p].player = NoPlayer]
  /\ tasks' = Tail(tasks)
  /\ UNCHANGED timers

\* deleteProtocolTask.
DeleteProtocol(p) ==
  /\ ReleaseTask(p) /\ ~MustWait(p, FALSE)
  /\ plr' = LET y == prot[p].player IN
            IF y = NoPlayer THEN plr ELSE [Detached(p) EXCEPT ![y].freed = @ + 1]
  /\ prot' = [prot EXCEPT ![p].conn = "deleted", ![p].player = NoPlayer]
  /\ tasks' = Tail(tasks)
  /\ UNCHANGED timers
-------------------------------------------------------------------------------
(* The scheduler: 50 ms for a release, 1000 ms for a connect *)

\* Mutant: a timer that may be late by any amount.
MayFireLate(i) == timers[i].kind # "none"

\* An event is not overtaken by a release that was scheduled before it.
MayFire(i) == \A j \in 1 .. i - 1 : timers[j].kind # "release"

Fire(i) ==
  /\ MayFire(i)
  /\ tasks' = Append(tasks, timers[i])
  /\ timers' = SubSeq(timers, 1, i - 1) \o SubSeq(timers, i + 1, Len(timers))
  /\ UNCHANGED <<prot, plr>>
-------------------------------------------------------------------------------
(* The game, between two tasks that concern a session *)

\* The client of y, if it has one.
Owner(y) == {plr[y].owner} \ {NoProtocol}

\* checkCreatures finds y in its vector, and ends with cleanup():
\* it thinks without consequence,
Check(y) ==
  /\ plr[y].inVector /\ plr[y].checked
  /\ plr' = Cleaned(plr)
  /\ UNCHANGED <<prot, tasks, timers>>

\* it dies,
Die(y) ==
  /\ plr[y].inVector /\ plr[y].checked
  /\ Disconnected(y, {}, tasks)
  /\ plr' = Cleaned(Gone(y))
  /\ UNCHANGED timers

\* it has not answered a ping for a minute,
Idle(y) == plr[y].inVector /\ plr[y].checked /\ ~plr[y].connecting

IdleLogout(y) ==
  /\ Idle(y)
  /\ Disconnected(y, Owner(y), tasks)
  /\ plr' = Cleaned(Gone(y))
  /\ UNCHANGED timers

\* or it was removed some time ago.
Uncheck(y) ==
  /\ plr[y].inVector /\ ~plr[y].checked
  /\ plr' = Cleaned([plr EXCEPT ![y].inVector = FALSE, ![y].freed = @ + 1])
  /\ UNCHANGED <<prot, tasks, timers>>

\* checkCreatureWalk and checkDecay end with cleanup() too.
Cleanup ==
  /\ plr' = Cleaned(plr)
  /\ UNCHANGED <<prot, tasks, timers>>

\* Player::kick, with or without a client, when neither logout() nor the
\* script denies it (else nothing changes).
Kick(y) ==
  /\ InWorld(y)
  /\ Disconnected(y, Owner(y), tasks)
  /\ plr' = Gone(y)
  /\ UNCHANGED timers

\* Mutant: broadcasting ends and its spectators stay.
SetSpectatorsKeeps(y, broadcast, gone, kicked) ==
  /\ InWorld(y) /\ kicked = {}
  /\ plr' = [plr EXCEPT ![y].broadcast = broadcast]
  /\ UNCHANGED <<prot, tasks, timers>>

\* doPlayerSetSpectators: clear(false) for a new password or the end of the
\* stream, then the spectators that are kicked by name or banned.
SetSpectators(y, broadcast, newPassword, kicked) ==
  LET cleared == newPassword \/ (plr[y].broadcast /\ ~broadcast)
      gone    == IF cleared THEN plr[y].spectators ELSE {}
  IN /\ InWorld(y)
     /\ kicked \subseteq plr[y].spectators \ gone
     /\ plr' = [plr EXCEPT ![y].spectators = @ \ gone, ![y].broadcast = broadcast]
     /\ prot' = Closed(prot, gone \cup kicked)
     /\ tasks' = tasks \o Closes(gone \cup kicked)
     /\ UNCHANGED timers
-------------------------------------------------------------------------------
Service(p) == FirstMessage(p) \/ HangUp(p) \/ LogoutPacket(p)

SessionTask(p) ==
  \/ \E y \in Players : \/ LoginRefused(p, y) \/ LoginPlaced(p, y) \/ LoginKicked(p, y)
                        \/ LoginDenied(p, y) \/ LoginReplaces(p, y) \/ LoginResumes(p, y)
                        \/ Connect(p, y) \/ ConnectRefused(p, y) \/ Spectate(p, y)
  \/ SpectateRefused(p) \/ SpectatorLeaves(p)
  \/ Logout(p) \/ LogoutDenied(p)
  \/ DeleteProtocol(p) \/ \E busy \in BOOLEAN : ReleaseWaits(p, busy)

Game(y) ==
  \/ Check(y) \/ Die(y) \/ IdleLogout(y) \/ Uncheck(y)
  \/ Kick(y)
  \/ \E b, n \in BOOLEAN, K \in SUBSET Watchers : SetSpectators(y, b, n, K)

SessionNext ==
  \/ \E p \in Protocols : Service(p) \/ SessionTask(p)
  \/ \E i \in DOMAIN timers : Fire(i)
  \/ \E y \in Players : Game(y)
  \/ Cleanup

SessionSpec == SessionInit /\ [][SessionNext]_sessionVars

\* The dispatcher and the scheduler keep running; messages do not keep a
\* protocol for ever; checkCreatures reschedules itself.
SessionFairSpec ==
  /\ SessionSpec
  /\ \A p \in Protocols : WF_sessionVars(SessionTask(p)) /\ SF_sessionVars(DeleteProtocol(p))
  /\ \A i \in 1 .. 2 * N : WF_sessionVars(i \in DOMAIN timers /\ Fire(i))
  /\ \A y \in Players : WF_sessionVars(Uncheck(y))
  /\ WF_sessionVars(Cleanup)
-------------------------------------------------------------------------------
(* Properties *)

SessionTypeOK ==
  /\ prot \in [Protocols ->
       [conn : {"none", "open", "closing", "released", "deleted"},
        player : Players \cup {NoPlayer}, watch : BOOLEAN, accept : BOOLEAN, event : BOOLEAN, refs : 0 .. 1]]
  /\ plr \in [Players ->
       [stage : {"none", "new", "world", "removed", "deleted"},
        owner : Protocols \cup {NoProtocol}, spectators : SUBSET Watchers,
        broadcast : BOOLEAN, connecting : BOOLEAN, refs : Nat, freed : Nat,
        checked : BOOLEAN, inVector : BOOLEAN]]

\* Task t is in the queue, or with the scheduler.
Pending(t) ==
  (\E i \in DOMAIN tasks : tasks[i] = t) \/ (\E i \in DOMAIN timers : timers[i] = t)

Exists(y) == plr[y].stage \notin {"none", "deleted"}

\* No task is left with a protocol that has been deleted, and those that the
\* service thread queued with a bare this find it before its release.
NoDanglingTask ==
  \A i \in DOMAIN tasks \cup {-j : j \in DOMAIN timers} :
    LET t == IF i > 0 THEN tasks[i] ELSE timers[-i] IN
    /\ prot[t.p].conn # "deleted"
    /\ t.kind \in {"login", "spectate", "logout", "disconnect"} =>
         prot[t.p].conn \in {"open", "closing"}

\* The bare pointers of a player's Spectators object, its client and the
\* clients that watch, are to live protocols of that player.
NoDanglingClient ==
  \A y \in Players : Exists(y) =>
    \A p \in Owner(y) \cup plr[y].spectators : prot[p].conn # "deleted" /\ prot[p].player = y

\* A player is not deleted while a protocol or the check vector points to it.
NoDanglingPlayer ==
  /\ \A p \in Protocols : prot[p].player # NoPlayer => Exists(prot[p].player)
  /\ \A y \in Players : plr[y].inVector => Exists(y)

\* Every reference to a player is accounted for, so none is dropped twice and
\* none is lost: those of protocols, world, check vector and releaseThings.
RefsAccounted ==
  \A y \in Players : Exists(y) =>
    plr[y].refs = Cardinality({p \in Protocols : prot[p].player = y}) + plr[y].freed
                  + (IF InWorld(y) THEN 1 ELSE 0) + (IF plr[y].inVector THEN 1 ELSE 0)

\* What tasks, players, protocols and the check vector point to is there, and a
\* reference is counted while there is one.
PointersLive == NoDanglingTask /\ NoDanglingClient /\ NoDanglingPlayer /\ RefsAccounted

\* Two clients never control one character: whoever has not been released yet
\* is the owner, whatever logins replace each other meanwhile.
OneController ==
  \A p \in Protocols :
    ~IsSpectator(p) /\ prot[p].player # NoPlayer /\ prot[p].conn \in {"open", "closing"} =>
      plr[prot[p].player].owner = p

\* Nobody watches a character that does not broadcast or has left the world.
SpectatorsOnAir ==
  \A y \in Players : plr[y].spectators # {} => InWorld(y) /\ plr[y].broadcast

\* A protocol whose connection has asked to close is deleted in the end.
ClosedIsDeleted ==
  \A p \in Protocols : prot[p].conn \in {"closing", "released"} ~> prot[p].conn = "deleted"

\* A player that has left the world, and whose last clients close, is freed.
LeftIsFreed ==
  \A y \in Players :
    plr[y].stage \in {"new", "removed"} /\ (\A p \in Protocols : prot[p].player = y => prot[p].conn # "open")
      ~> plr[y].stage = "deleted"

\* A character whose client is being replaced gets a new one, or leaves, or is
\* open to an idle logout again.
ReplacementEnds ==
  \A y \in Players : plr[y].connecting ~> (~plr[y].connecting \/ ~InWorld(y))

\* What is on the way out gets there: who has left is freed, and who is being
\* replaced is not exempt from the idle logout for ever (protocolgame.cpp:97, 338).
SessionsSettle == LeftIsFreed /\ ReplacementEnds
===============================================================================
