------------------------------ MODULE Scheduler -------------------------------
(***************************************************************************)
(* The timer service of sources/scheduler.cpp: a priority queue of delayed *)
(* tasks, the set of the ids still wanted, and a thread that sleeps until  *)
(* the first of them is due and passes it to the dispatcher.               *)
(*                                                                         *)
(* m_eventLock is never held across a step of another thread, so each      *)
(* critical section is one step and what follows the unlock is another.    *)
(* The dispatcher appears only as the thread that runs what it was handed  *)
(* and that calls stopEvent; its own queue is module Dispatcher.           *)
(*                                                                         *)
(* A SchedulerTask is added once, hence Events bounds a run; MaxTime       *)
(* bounds the clock.                                                       *)
(***************************************************************************)
EXTENDS Integers

CONSTANTS
  Events,            \* SchedulerTask objects
  Callers,           \* threads that call addEvent
  DispatcherThread,  \* the one that runs the tasks and calls stopEvent
  Delays,            \* delays given to createSchedulerTask
  MinTicks,          \* SCHEDULER_MINTICKS
  MaxTime,           \* bound: the clock stops here
  MaxId,             \* 0xFFFFFFFF
  Shutdowns,         \* how the server may be shut down
  NoEvent, NoDeadline

ASSUME SchedulerAssumption ==
  /\ DispatcherThread \in Callers
  /\ Delays \subseteq Nat
  /\ MinTicks \in Nat
  /\ MaxTime \in Nat
  /\ MaxId \in Nat \ {0}
  /\ Shutdowns \subseteq {"setGameState", "SIGTERM"}
  /\ NoEvent \notin Events
  /\ NoDeadline \notin Nat

VARIABLES
  now,               \* the clock
  threadState,       \* m_threadState
  life,              \* where each task is; those "listed" are m_eventList
  due,               \* getCycle() of each task
  eventId,           \* getEventId() of each task, 0 before addEvent sets it
  eventIds,          \* m_eventIds
  lastEvent,         \* m_lastEvent
  spc,               \* where the scheduler thread is in schedulerThread()
  deadline,          \* what timed_wait waits for, else NoDeadline
  action,            \* the local of that name, false when an iteration starts
  cur,               \* the task the thread has popped
  cpc, adding,       \* where each caller is in addEvent, and with which task
  returned,          \* tasks whose id the dispatcher thread has been given
  stopped,           \* history: tasks for which stopEvent returned true
  dispatcherRunning, \* Dispatcher::m_threadState = STATE_RUNNING
  shutdownTask,      \* Game::shutdown: "none", "queued", "done"
  signalPc           \* the SIGTERM handler: "none", "stop", "done"

threadVars == <<spc, deadline, action, cur>>
callVars   == <<cpc, adding, returned, stopped>>
idVars     == <<eventId, eventIds, lastEvent>>
serverVars == <<dispatcherRunning, shutdownTask, signalPc>>
vars == <<now, threadState, life, due, idVars, threadVars, callVars, serverVars>>
-------------------------------------------------------------------------------
Life == {"new", "refused", "listed", "taken", "void", "handed", "executed", "deleted", "lost"}
SPC  == {"loop", "acquire", "wait", "timedWait", "woken", "dispatch", "done", "crashed"}

Listed == {e \in Events : life[e] = "listed"}

\* m_eventList.top() is one of these; the heap does not say which.
Top == {e \in Listed : \A f \in Listed : due[e] <= due[f]}

Freed(e) == life[e] \in {"executed", "deleted"}

\* m_lastEvent starts at 0; the other start is a server that has given out all
\* ids but one and whose earlier events are gone.
Init ==
  /\ now = 0
  /\ threadState = "running"
  /\ life = [e \in Events |-> "new"]
  /\ due = [e \in Events |-> 0]
  /\ eventId = [e \in Events |-> 0]
  /\ eventIds = {}
  /\ lastEvent \in {0, MaxId - 1}
  /\ spc = "loop"
  /\ deadline = NoDeadline
  /\ action = FALSE
  /\ cur = NoEvent
  /\ cpc = [c \in Callers |-> "idle"]
  /\ adding = [c \in Callers |-> NoEvent]
  /\ returned = {}
  /\ stopped = {}
  /\ dispatcherRunning = TRUE
  /\ shutdownTask = "none"
  /\ signalPc = "none"

Tick ==
  /\ now < MaxTime
  /\ now' = now + 1
  /\ UNCHANGED <<threadState, life, due, idVars, threadVars, callVars, serverVars>>
-------------------------------------------------------------------------------
(* addEvent(createSchedulerTask(d, f)) *)

Cycle(d) == now + (IF d < MinTicks THEN MinTicks ELSE d)

NextId == IF lastEvent >= MaxId THEN 1 ELSE lastEvent + 1

\* Bound: no id comes round again while an event that had it may be asked about.
IdFree(i) == \A f \in Events : eventId[f] # i

\* Mutant: signal only when the list was empty.
SignalsIfEmpty(e, cycle) == {Listed = {}}

\* signal = (task == m_eventList.top()), either answer when cycles tie
Signals(e, cycle) ==
  IF \E f \in Listed : due[f] < cycle THEN {FALSE}
  ELSE IF \E f \in Listed : due[f] = cycle THEN BOOLEAN
  ELSE {TRUE}

AddEvent(c, e, d) ==
  /\ cpc[c] = "idle"
  /\ life[e] = "new"
  /\ adding' = [adding EXCEPT ![c] = e]
  /\ \/ /\ threadState = "running"
        /\ IdFree(NextId)
        /\ Cycle(d) <= MaxTime
        /\ lastEvent' = NextId
        /\ eventId' = [eventId EXCEPT ![e] = NextId]
        /\ eventIds' = eventIds \cup {NextId}
        /\ due' = [due EXCEPT ![e] = Cycle(d)]
        /\ life' = [life EXCEPT ![e] = "listed"]
        /\ \E signal \in Signals(e, Cycle(d)) :
             cpc' = [cpc EXCEPT ![c] = IF signal THEN "notify" ELSE "return"]
     \/ /\ threadState # "running"
        /\ life' = [life EXCEPT ![e] = "refused"]
        /\ cpc' = [cpc EXCEPT ![c] = "return"]
        /\ UNCHANGED <<due, idVars>>
  /\ UNCHANGED <<now, threadState, threadVars, returned, stopped, serverVars>>

\* Woken by notify_one, wait() leaves action false and timed_wait() returns true.
Notify(c) ==
  /\ cpc[c] = "notify"
  /\ cpc' = [cpc EXCEPT ![c] = "return"]
  /\ IF spc \in {"wait", "timedWait"}
     THEN spc' = "woken" /\ action' = (spc = "timedWait")
     ELSE UNCHANGED <<spc, action>>
  /\ UNCHANGED <<now, threadState, life, due, idVars, deadline, cur,
                 adding, returned, stopped, serverVars>>

\* return task->getEventId(), without the lock.  Only the dispatcher thread
\* uses the answer: ServicePort ignores it.
Return(c) ==
  /\ cpc[c] = "return"
  /\ cpc' = [cpc EXCEPT ![c] = "idle"]
  /\ adding' = [adding EXCEPT ![c] = NoEvent]
  /\ returned' = IF c = DispatcherThread /\ life[adding[c]] # "refused"
                 THEN returned \cup {adding[c]} ELSE returned
  /\ UNCHANGED <<now, threadState, life, due, idVars, threadVars, stopped, serverVars>>

\* stopEvent(id): true and the id is forgotten, or false and nothing changes.
StopEvent(e) ==
  /\ cpc[DispatcherThread] = "idle"
  /\ e \in returned
  /\ eventId[e] \in eventIds
  /\ eventIds' = eventIds \ {eventId[e]}
  /\ stopped' = stopped \cup {e}
  /\ UNCHANGED <<now, threadState, life, due, eventId, lastEvent, threadVars,
                 cpc, adding, returned, serverVars>>
-------------------------------------------------------------------------------
(* schedulerThread() *)

CheckState ==
  /\ spc = "loop"
  /\ spc' = IF threadState = "terminated" THEN "done" ELSE "acquire"
  /\ UNCHANGED <<now, threadState, life, due, idVars, deadline, action, cur,
                 callVars, serverVars>>

\* Mutant: no timeout.
AcquireAndWait ==
  /\ spc = "acquire"
  /\ spc' = "wait"
  /\ UNCHANGED <<now, threadState, life, due, idVars, deadline, action, cur,
                 callVars, serverVars>>

Acquire ==
  /\ spc = "acquire"
  /\ IF Listed = {}
     THEN spc' = "wait" /\ UNCHANGED deadline
     ELSE spc' = "timedWait" /\ deadline' \in {due[e] : e \in Top}
  /\ UNCHANGED <<now, threadState, life, due, idVars, action, cur, callVars, serverVars>>

TimedOut ==
  /\ spc = "timedWait"
  /\ now >= deadline
  /\ spc' = "woken"
  /\ UNCHANGED <<now, threadState, life, due, idVars, deadline, action, cur,
                 callVars, serverVars>>

\* A condition variable may wake with no notification (before the deadline;
\* at the deadline timed_wait reports the timeout).
SpuriousWake ==
  /\ \/ spc = "wait"
     \/ spc = "timedWait" /\ now < deadline
  /\ spc' = "woken"
  /\ action' = (spc = "timedWait")
  /\ UNCHANGED <<now, threadState, life, due, idVars, deadline, cur, callVars, serverVars>>

\* Mutants: m_eventIds not searched; the id not erased.
PopUnchecked(e) ==
  /\ spc = "woken" /\ ~action /\ threadState # "terminated"
  /\ e \in Top
  /\ cur' = e
  /\ life' = [life EXCEPT ![e] = "taken"]
  /\ eventIds' = eventIds \ {eventId[e]}
  /\ spc' = "dispatch"
  /\ deadline' = NoDeadline
  /\ UNCHANGED <<now, threadState, due, eventId, lastEvent, action, callVars, serverVars>>

PopKeepsId(e) ==
  /\ spc = "woken" /\ ~action /\ threadState # "terminated"
  /\ e \in Top
  /\ cur' = e
  /\ life' = [life EXCEPT ![e] = IF eventId[e] \in eventIds THEN "taken" ELSE "void"]
  /\ spc' = "dispatch"
  /\ deadline' = NoDeadline
  /\ UNCHANGED <<now, threadState, due, idVars, action, callVars, serverVars>>

\* "ok we had a timeout, so there has to be an event we have to execute..."
Pop(e) ==
  /\ spc = "woken" /\ ~action /\ threadState # "terminated"
  /\ e \in Top
  /\ cur' = e
  /\ life' = [life EXCEPT ![e] = IF eventId[e] \in eventIds THEN "taken" ELSE "void"]
  /\ eventIds' = eventIds \ {eventId[e]}
  /\ spc' = "dispatch"
  /\ deadline' = NoDeadline
  /\ UNCHANGED <<now, threadState, due, eventId, lastEvent, action, callVars, serverVars>>

\* top() and pop() of an empty std::priority_queue: the process dies.
PopEmpty ==
  /\ spc = "woken" /\ ~action /\ threadState # "terminated"
  /\ Listed = {}
  /\ spc' = "crashed"
  /\ UNCHANGED <<now, threadState, life, due, idVars, deadline, action, cur,
                 callVars, serverVars>>

WokenEarly ==
  /\ spc = "woken"
  /\ action \/ threadState = "terminated"
  /\ spc' = "loop"
  /\ deadline' = NoDeadline
  /\ action' = FALSE
  /\ UNCHANGED <<now, threadState, life, due, idVars, cur, callVars, serverVars>>

\* Outside the lock: to the dispatcher, which ignores it unless it is running,
\* or, when stopEvent has removed the id, to delete.
PassOn ==
  /\ spc = "dispatch"
  /\ life' = [life EXCEPT ![cur] =
                IF @ = "void" THEN "deleted"
                ELSE IF dispatcherRunning THEN "handed" ELSE "lost"]
  /\ cur' = NoEvent
  /\ spc' = "loop"
  /\ UNCHANGED <<now, threadState, due, idVars, deadline, action, callVars, serverVars>>

\* Mutant: tasks run on any thread.
RunAnywhere(e) ==
  /\ life[e] = "handed"
  /\ life' = [life EXCEPT ![e] = "executed"]
  /\ UNCHANGED <<now, threadState, due, idVars, threadVars, callVars, serverVars>>

\* The dispatcher runs the task and deletes it.  A dispatcher thread that is
\* inside addEvent is running another task.
Run(e) ==
  /\ cpc[DispatcherThread] = "idle"
  /\ life[e] = "handed"
  /\ life' = [life EXCEPT ![e] = "executed"]
  /\ UNCHANGED <<now, threadState, due, idVars, threadVars, callVars, serverVars>>
-------------------------------------------------------------------------------
(* Shutting down *)

\* Game::setGameState(GAMESTATE_SHUTDOWN): queue Game::shutdown, stop().
CloseGame ==
  /\ "setGameState" \in Shutdowns
  /\ shutdownTask = "none"
  /\ cpc[DispatcherThread] = "idle"
  /\ shutdownTask' = "queued"
  /\ threadState' = "closing"
  /\ UNCHANGED <<now, life, due, idVars, threadVars, callVars, dispatcherRunning, signalPc>>

\* The SIGTERM handler queues Game::shutdown; its stop() is a later step.
Signal ==
  /\ "SIGTERM" \in Shutdowns
  /\ shutdownTask = "none"
  /\ shutdownTask' = "queued"
  /\ signalPc' = "stop"
  /\ UNCHANGED <<now, threadState, life, due, idVars, threadVars, callVars, dispatcherRunning>>

StopBySignal ==
  /\ signalPc = "stop"
  /\ signalPc' = "done"
  /\ threadState' = "closing"
  /\ UNCHANGED <<now, life, due, idVars, threadVars, callVars, dispatcherRunning, shutdownTask>>

\* Dispatcher::stop(): after Scheduler::stop() in setGameState, before it in
\* the signal handler.
DispatcherStops ==
  /\ shutdownTask # "none"
  /\ dispatcherRunning
  /\ dispatcherRunning' = FALSE
  /\ UNCHANGED <<now, threadState, life, due, idVars, threadVars, callVars, shutdownTask, signalPc>>

\* Mutant: no m_eventIds.clear().
ShutdownKeepsIds ==
  /\ shutdownTask = "queued"
  /\ cpc[DispatcherThread] = "idle"
  /\ shutdownTask' = "done"
  /\ threadState' = "terminated"
  /\ life' = [e \in Events |-> IF life[e] = "listed" THEN "lost" ELSE life[e]]
  /\ UNCHANGED <<now, due, idVars, threadVars, callVars, dispatcherRunning, signalPc>>

\* Game::shutdown calls Scheduler::shutdown(), which notifies nobody.
Shutdown ==
  /\ shutdownTask = "queued"
  /\ cpc[DispatcherThread] = "idle"
  /\ shutdownTask' = "done"
  /\ threadState' = "terminated"
  /\ life' = [e \in Events |-> IF life[e] = "listed" THEN "lost" ELSE life[e]]
  /\ eventIds' = {}
  /\ UNCHANGED <<now, due, eventId, lastEvent, threadVars, callVars, dispatcherRunning, signalPc>>
-------------------------------------------------------------------------------
SchedulerStep ==
  \/ CheckState \/ Acquire \/ TimedOut
  \/ \E e \in Events : Pop(e)
  \/ PopEmpty \/ WokenEarly \/ PassOn

\* A crash of the scheduler thread takes the process with it.
Alive == spc # "crashed"

Next ==
  /\ Alive
  /\ \/ SchedulerStep \/ SpuriousWake \/ Tick
     \/ \E c \in Callers :
          \/ Notify(c) \/ Return(c)
          \/ \E e \in Events, d \in Delays : AddEvent(c, e, d)
     \/ \E e \in Events : StopEvent(e) \/ Run(e)
     \/ CloseGame \/ Signal \/ StopBySignal \/ DispatcherStops \/ Shutdown

Spec == Init /\ [][Next]_vars

\* Time passes, threads that can run do run, and a task handed to the
\* dispatcher is run (module Dispatcher, AcceptedTaskEnds).
Fairness ==
  /\ WF_vars(Alive /\ SchedulerStep)
  /\ WF_vars(Alive /\ Tick)
  /\ \A c \in Callers : WF_vars(Alive /\ (Notify(c) \/ Return(c)))
  /\ \A e \in Events : WF_vars(Alive /\ Run(e))

FairSpec == Spec /\ Fairness
-------------------------------------------------------------------------------
TypeOK ==
  /\ now \in Nat
  /\ threadState \in {"running", "closing", "terminated"}
  /\ life \in [Events -> Life]
  /\ due \in [Events -> Nat]
  /\ eventId \in [Events -> 0 .. MaxId]
  /\ eventIds \subseteq 1 .. MaxId
  /\ lastEvent \in 0 .. MaxId
  /\ spc \in SPC
  /\ deadline \in Nat \cup {NoDeadline}
  /\ action \in BOOLEAN
  /\ cur \in Events \cup {NoEvent}
  /\ cpc \in [Callers -> {"idle", "notify", "return"}]
  /\ adding \in [Callers -> Events \cup {NoEvent}]
  /\ \A c \in Callers : adding[c] = NoEvent <=> cpc[c] = "idle"
  /\ returned \subseteq Events
  /\ stopped \subseteq Events
  /\ dispatcherRunning \in BOOLEAN
  /\ shutdownTask \in {"none", "queued", "done"}
  /\ signalPc \in {"none", "stop", "done"}

\* After stopEvent has returned true for an event, its task is never passed to
\* the dispatcher, wherever the scheduler thread was at that moment.
StoppedNeverRuns ==
  \A e \in stopped : life[e] \in {"listed", "void", "deleted", "lost"}

\* The two containers agree: an id in m_eventIds belongs to exactly one task of
\* m_eventList, so stopEvent can only hit the task its caller added.
IdsMatchEvents ==
  /\ \A i \in eventIds : \E e \in Listed : eventId[e] = i
  /\ \A e, f \in Events : eventId[e] = eventId[f] /\ eventId[e] # 0 => e = f

\* addEvent signals only for a new first event.  That is enough: the thread
\* never sleeps beyond the first cycle in the list unless a caller is still on
\* its way to notify_one.
NoOversleep ==
  (\E e \in Listed : spc = "wait" \/ (spc = "timedWait" /\ due[e] < deadline))
    => \E c \in Callers : cpc[c] = "notify"

\* When timed_wait reports a timeout, the event then on top is due, even if it
\* is not the one the thread went to sleep for.
TimeoutFindsDueEvent ==
  spc = "woken" /\ ~action /\ deadline # NoDeadline
    => (\E e \in Listed : due[e] <= now) \/ shutdownTask = "done"

\* The read of task->getEventId() after the unlock touches a live task when the
\* dispatcher thread is the caller, for only that thread frees it or can ask
\* for it to be freed.
DispatcherReadsLiveTask ==
  cpc[DispatcherThread] # "idle" => ~Freed(adding[DispatcherThread])

\* An event in the list is handed on or deleted, is lost to a shutdown, or the
\* process has died of an empty list.
ListedEventEnds ==
  \A e \in Events :
    life[e] = "listed" ~> life[e] \in {"executed", "deleted", "lost"} \/ spc = "crashed"

\* After Game::shutdown the thread ends, at its next deadline at the latest.  The
\* exception is a thread in wait() or about to find the list empty: nobody wakes
\* it any more.
ShutdownEndsThread ==
  threadState = "terminated" /\ spc \notin {"acquire", "wait"} /\ signalPc = "none"
    ~> spc \in {"done", "crashed"}

\* The scheduler implements the abstract timer service.
TimerOf(e) ==
  IF life[e] = "new" THEN "idle"
  ELSE IF life[e] = "executed" THEN "executed"
  ELSE IF life[e] \in {"taken", "handed"} THEN "committed"
  ELSE IF e \in stopped THEN "cancelled"
  ELSE IF life[e] = "listed" THEN "pending"
  ELSE "lost"

timerState == [e \in Events |-> TimerOf(e)]

T == INSTANCE Timers WITH timer <- timerState

ImplementsTimers == T!Spec
===============================================================================
