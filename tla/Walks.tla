------------------------------- MODULE Walks -------------------------------
(* A player walks, step by step, and does what he asked for when he is there *)
(* (creature.cpp, player.cpp, game.cpp, actions.cpp): the list of steps, the *)
(* event for the next one, the action that waits for the end of the walk     *)
(* (walkTask), the one that waits for the time of the next action, and the   *)
(* creature that he follows.  Events that are due are tasks of the           *)
(* dispatcher; whoever stops an event then comes too late.                   *)
(*                                                                           *)
(* Positions are distances from what he wants to use, 0 being in reach.      *)
(* Left out: the kinds of actions, for each of which Game asks the same, and *)
(* the drunk.                                                                *)
EXTENDS Integers, Sequences

CONSTANTS
    Far,            \* the largest distance (bound)
    MaxEvents,      \* events of the player in the scheduler (bound)
    Requests        \* what clients, scripts and others do to him (bound)

VARIABLE a

Away == 1
Nearer == -1
None == "none"
Actions == {"use", "move", "turn"}      \* what can be asked for
Kinds == Actions \cup {"walk"}

Start ==
    [dist |-> 1, path |-> <<>>,                 \* listWalkDir
     eventWalk |-> 0, walkTaskEvent |-> 0, actionTaskEvent |-> 0,
     walkTask |-> None, cancelNextWalk |-> FALSE,
     rested |-> TRUE,                           \* canDoAction
     weary |-> FALSE,                           \* getWalkDelay() > 0
     noMove |-> FALSE, still |-> FALSE,         \* still: a speed below 1
     follow |-> FALSE,
     events |-> {}, queue |-> <<>>,             \* of the scheduler, of the dispatcher
     stopped |-> FALSE,                         \* his walk was, for good (history)
     left |-> Requests]

TypeOK ==
    /\ a.dist \in 0 .. Far
    /\ a.path \in Seq({Away, Nearer})
    /\ {a.eventWalk, a.walkTaskEvent, a.actionTaskEvent} \subseteq 0 .. MaxEvents + 3
    /\ a.events \subseteq [id : 1 .. MaxEvents + 3, kind : Kinds]
    /\ a.queue \in Seq([kind : Kinds \cup {"auto", "follow"}, path : Seq({Away, Nearer})])
    /\ a.walkTask \in Actions \cup {None}
    /\ {a.cancelNextWalk, a.rested, a.weary, a.noMove, a.still, a.follow, a.stopped}
          \subseteq BOOLEAN
    /\ a.left \in 0 .. Requests

Task(kind, path) == [kind |-> kind, path |-> path]

(* Scheduler::stopEvent, Scheduler::addEvent: an id that nobody has.         *)
StopEvent(u, id) == [u EXCEPT !.events = {e \in @ : e.id # id}]
NewId(u) ==
    CHOOSE n \in 1 .. MaxEvents + 3 :
        /\ n \notin {u.eventWalk, u.walkTaskEvent, u.actionTaskEvent} \cup {e.id : e \in u.events}
        /\ \A m \in 1 .. n - 1 :
              m \in {u.eventWalk, u.walkTaskEvent, u.actionTaskEvent} \cup {e.id : e \in u.events}

Timed(u, kind) == [u EXCEPT !.events = @ \cup {[id |-> NewId(u), kind |-> kind]}]

-----------------------------------------------------------------------------
(* Mutant: the action that is due after the walk is not recalled.            *)
SetNextWalkActionOnly(u, task) == [u EXCEPT !.walkTask = task, !.stopped = FALSE]

(* Player::setNextWalkActionTask, Player::setNextActionTask.                 *)
SetNextWalkActionTask(u, task) ==
    [StopEvent(u, u.walkTaskEvent) EXCEPT
        !.walkTaskEvent = 0, !.walkTask = task, !.stopped = FALSE]

SetNextActionTask(u, task) ==
    LET none == [StopEvent(u, u.actionTaskEvent) EXCEPT !.actionTaskEvent = 0] IN
    IF task # None THEN [Timed(none, task) EXCEPT !.actionTaskEvent = NewId(none)] ELSE none

StopEventWalk(u) == [StopEvent(u, u.eventWalk) EXCEPT !.eventWalk = 0]

(* Creature::addEventWalk, but for a first step that is taken at once.       *)
AddEventWalk(u) ==
    LET v == [u EXCEPT !.cancelNextWalk = FALSE] IN
    IF u.still \/ u.eventWalk # 0 THEN v
    ELSE [Timed(v, "walk") EXCEPT !.eventWalk = NewId(v)]

(* Mutant: who comes to the end of his way forgets what he came for.         *)
CompleteOnlyStops(u) == u

(* Player::onWalkComplete, Player::onWalkAborted.                            *)
OnWalkComplete(u) ==
    IF u.walkTask # None
    THEN [Timed(u, u.walkTask) EXCEPT !.walkTaskEvent = NewId(u), !.walkTask = None, !.stopped = FALSE]
    ELSE u
OnWalkAborted(u) == SetNextWalkActionTask(u, None)

(* getNextStep and internalMoveCreature; free: nothing is in the way.        *)
Moved(d, step) == IF d + step \in 0 .. Far THEN d + step ELSE d
Step(u, free) ==
    LET v == [SetNextActionTask(u, None) EXCEPT !.path = Tail(@)]
    IN IF free THEN [v EXCEPT !.dist = Moved(@, Head(u.path)), !.weary = TRUE] ELSE v

(* Creature::onWalk.                                                         *)
OnWalk(u, free) ==
    LET gone == IF u.weary THEN u
                ELSE IF u.path = <<>> THEN StopEventWalk(OnWalkComplete(u))
                ELSE Step(u, free)
        kept == IF gone.cancelNextWalk
                THEN OnWalkAborted([gone EXCEPT !.cancelNextWalk = FALSE, !.path = <<>>])
                ELSE gone
    IN IF kept.eventWalk # 0 THEN AddEventWalk([kept EXCEPT !.eventWalk = 0]) ELSE kept

(* Creature::startAutoWalk.                                                  *)
StartAutoWalk(u, path, free) ==
    LET v == [u EXCEPT !.path = path, !.cancelNextWalk = FALSE]
        atOnce == Len(path) = 1 /\ ~ u.still /\ u.eventWalk = 0 /\ ~ u.weary
    IN AddEventWalk(IF atOnce THEN OnWalk(v, free) ELSE v)

(* Player::goToFollowCreature; found: the ways that a path finder may give.  *)
GoToFollowCreature(u, found, free) ==
    IF u.follow /\ u.walkTask = None /\ found # {}
    THEN StartAutoWalk(u, CHOOSE p \in found : TRUE, free) ELSE u

(* Player::setFollowCreature with a creature in sight, and without one.      *)
SetFollowCreature(u, found, free) ==
    IF u.follow THEN u
    ELSE LET v == IF u.path = <<>> THEN u ELSE OnWalkAborted([u EXCEPT !.path = <<>>])
         IN GoToFollowCreature([v EXCEPT !.follow = TRUE], found, free)
SetFollowNothing(u) == [u EXCEPT !.follow = FALSE, !.cancelNextWalk = TRUE]

-----------------------------------------------------------------------------
(* What the dispatcher does.                                                 *)

(* A way there is found, and the action waits until it is walked.            *)
GoFirst(u, action, way) ==
    IF way THEN SetNextWalkActionTask(
                   [u EXCEPT !.queue = Append(@, Task("auto", [n \in 1 .. u.dist |-> Nearer]))], action)
    ELSE u

(* Game::playerUseItem, playerUseItemEx and playerUseBattleWindow, with      *)
(* Actions::useItem.                                                         *)
UseItem(u, way) ==
    IF u.dist > 0 THEN IF u.noMove THEN u ELSE GoFirst(u, "use", way)
    ELSE IF ~ u.rested THEN SetNextActionTask(u, "use")
    ELSE [SetNextActionTask(u, None) EXCEPT !.cancelNextWalk = TRUE, !.rested = FALSE]

(* Game::playerMoveItem and playerMoveCreature, which has a delay of its own *)
(* when it is first asked for.                                               *)
MoveThing(u, way, delay) ==
    IF ~ u.rested THEN SetNextActionTask(u, "move")
    ELSE LET v == SetNextActionTask(u, None) IN
         IF u.dist > 0 THEN GoFirst(v, "move", way)
         ELSE IF delay THEN SetNextActionTask(v, "move")
         ELSE [v EXCEPT !.rested = FALSE]

(* Game::playerRotateItem, playerRequestTrade.                               *)
TurnItem(u, way) == IF u.dist > 0 /\ ~ u.noMove THEN GoFirst(u, "turn", way) ELSE u

Act(u, action, way, delay) ==
    CASE action = "use" -> UseItem(u, way)
      [] action = "move" -> MoveThing(u, way, delay)
      [] action = "turn" -> TurnItem(u, way)

(* Game::playerAutoWalk.                                                     *)
AutoWalk(u, path, free) == IF u.noMove THEN u ELSE StartAutoWalk(u, path, free)

Ways == {{}, {<<>>}, {<<Away>>}}

Run(task, u, way, free, found) ==
    CASE task.kind = "walk" -> OnWalk(u, free)              \* checkCreatureWalk
      [] task.kind \in Actions -> Act(u, task.kind, way, FALSE)
      [] task.kind = "auto" -> AutoWalk(u, task.path, free)
      [] task.kind = "follow" -> GoToFollowCreature(u, found, free)   \* updateCreatureWalk

RunTask ==
    /\ a.queue # <<>>
    /\ \E way, free \in BOOLEAN, found \in Ways :
          a' = Run(Head(a.queue), [a EXCEPT !.queue = Tail(@)], way, free, found)

(* The scheduler hands on what is due.                                       *)
Fire(id) ==
    \E e \in a.events :
       /\ e.id = id
       /\ a' = [a EXCEPT !.events = @ \ {e}, !.queue = Append(@, Task(e.kind, <<>>))]

(* A step or an action takes its time.                                       *)
Rest == (a.weary \/ ~ a.rested) /\ a' = [a EXCEPT !.weary = FALSE, !.rested = TRUE]

(* Creature::onThink, for one that follows.                                  *)
Think ==
    /\ a.follow /\ Len(a.queue) < 2
    /\ \E free \in BOOLEAN, found \in Ways : a' = GoToFollowCreature(a, found, free)

-----------------------------------------------------------------------------
Init == a = Start

(* One of the things that happen to him; Requests bounds them.               *)
Asked(u) ==
    /\ a.left > 0
    /\ \A v \in {u} : Len(v.queue) <= 3 /\ a' = [v EXCEPT !.left = @ - 1]

(* A client asks for an action; Game::playerMoveThing is for those who move. *)
Ask(action) ==
    /\ action = "move" => ~ a.noMove
    /\ \E way, delay \in BOOLEAN : Asked(Act(a, action, way, delay))

(* Game::playerMove, for an arrow key.                                       *)
PlayerMove(step) ==
    /\ ~ a.noMove
    /\ \E free \in BOOLEAN : Asked(StartAutoWalk(SetNextWalkActionTask(a, None), <<step>>, free))

(* A click on the map.                                                       *)
PlayerAutoWalk(step) == \E free \in BOOLEAN : Asked(AutoWalk(a, <<step, step>>, free))

PlayerStopAutoWalk == Asked([a EXCEPT !.cancelNextWalk = TRUE])

(* Game::playerFollowCreature, and the chase of Player::setAttackedCreature. *)
PlayerFollowCreature ==
    /\ ~ a.noMove
    /\ \E free \in BOOLEAN, found \in Ways :
          Asked(SetFollowCreature([a EXCEPT !.queue = Append(@, Task("follow", <<>>))], found, free))
PlayerFollowNothing == a.follow /\ Asked(SetFollowNothing(a))

Stopped(u) == [u EXCEPT !.stopped = @ \/ u.walkTask # None]

(* Creature::setNoMove, Creature::setSpeed.                                  *)
SetNoMove(b) == a.noMove # b /\ Asked(Stopped([a EXCEPT !.noMove = b, !.cancelNextWalk = TRUE]))
SetSpeedNone ==
    ~ a.still /\ Asked(Stopped([StopEventWalk(a) EXCEPT !.still = TRUE, !.cancelNextWalk = TRUE]))
SetSpeed ==
    /\ a.still
    /\ LET v == [a EXCEPT !.still = FALSE]
       IN Asked(IF a.path = <<>> THEN v ELSE AddEventWalk(v))

(* Creature::onCreatureMove of one who is teleported, and of one who is      *)
(* pushed (playerMoveCreature).                                              *)
Teleported(d) == Asked(Stopped([StopEventWalk(a) EXCEPT !.dist = d, !.weary = TRUE]))
Pushed(d) ==
    a.dist # d /\ Asked([a EXCEPT !.dist = d, !.weary = TRUE, !.rested = FALSE])

Next ==
    \/ RunTask \/ (\E id \in 1 .. MaxEvents + 3 : Fire(id)) \/ Rest \/ Think
    \/ (\E action \in Actions : Ask(action)) \/ PlayerStopAutoWalk \/ PlayerFollowCreature \/ PlayerFollowNothing
    \/ \E step \in {Away, Nearer} : PlayerMove(step) \/ PlayerAutoWalk(step)
    \/ \E b \in BOOLEAN : SetNoMove(b)
    \/ SetSpeedNone \/ SetSpeed
    \/ \E d \in 0 .. Far : Teleported(d) \/ Pushed(d)

-----------------------------------------------------------------------------
(* Whatever is asked for in which order, an action that the scheduler still  *)
(* has can be recalled: the player knows its event (player.cpp:1919-1960,    *)
(* 3881).                                                                    *)
ActionsRecallable ==
    \A e \in a.events : e.kind \in Actions => e.id \in {a.walkTaskEvent, a.actionTaskEvent}

(* What waits for the end of a walk does not wait for ever: it is done or    *)
(* given up, unless the player was teleported, or is frozen or slowed to      *)
(* nothing on his way (creature.cpp:255-366, 545, player.cpp:3875-3888).     *)
WaitingActionEnds == a.walkTask # None ~> (a.walkTask = None \/ a.stopped \/ a.still \/ a.noMove)
=============================================================================
