------------------------------ MODULE Dispatcher ------------------------------
(***************************************************************************)
(* The task queue of sources/dispatcher.cpp and the thread that empties it.*)
(*                                                                         *)
(* Every change of game state runs as a Task on this one thread; service   *)
(* threads, the scheduler thread, signal handlers and running tasks hand   *)
(* it work with addTask.  A critical section of m_taskLock is one step; a  *)
(* call made after the unlock (notify_one) is a step of its own.  The only *)
(* code that does more than one thing under the lock is flush(), so the    *)
(* lock is held exactly while pc is one of FlushPC.                        *)
(*                                                                         *)
(* A Task object is created and added once, hence Tasks bounds a run.      *)
(***************************************************************************)
EXTENDS Integers, Sequences, FiniteSets

CONSTANTS
  Producers,      \* threads other than the dispatcher that call addTask
  Signalled,      \* those of them that may run the SIGTERM handler
  Tasks,          \* Task objects
  Timed,          \* tasks created with an expiration
  ToFront,        \* tasks added with front = true (OutputMessagePool::releaseMessage)
  ShutdownTasks,  \* tasks bound to Game::shutdown
  NoTask

ASSUME DispatcherAssumption ==
  /\ Signalled \subseteq Producers
  /\ Timed \subseteq Tasks
  /\ ToFront \subseteq Tasks
  /\ ShutdownTasks \subseteq Tasks
  /\ ShutdownTasks \cap (Timed \cup ToFront) = {}
  /\ NoTask \notin Tasks

VARIABLES
  threadState,  \* m_threadState
  taskList,     \* m_taskList
  pc,           \* where the dispatcher thread is in dispatcherThread()
  current,      \* the Task it took, NoTask when it holds none
  ppc,          \* what each producer does next
  status,       \* what has become of each task
  closed,       \* gameState = GAMESTATE_SHUTDOWN
  expired,      \* timed tasks whose m_expiration has passed
  ticket,       \* history: rank of a task among the accepted ones, 0 if none
  accepted      \* history: number of accepted tasks

vars == <<threadState, taskList, pc, current, ppc, status, closed, expired, ticket, accepted>>
-------------------------------------------------------------------------------
ThreadState == {"running", "closing", "terminated"}
FlushPC     == {"flush", "relock"}
PC          == {"check", "acquire", "waiting", "woken", "ready", "running",
                "stopping", "sending", "done"} \cup FlushPC
ProducerPC  == {"idle", "notify", "notifyThenStop", "stop"}
Status      == {"new", "queued", "taken", "executing", "executed", "discarded", "refused"}

Back     == Tasks \ ToFront
LockFree == pc \notin FlushPC
Listed   == {taskList[i] : i \in DOMAIN taskList}

Init ==
  /\ threadState = "running"
  /\ taskList = <<>>
  /\ pc = "check"
  /\ current = NoTask
  /\ ppc = [p \in Producers |-> "idle"]
  /\ status = [t \in Tasks |-> "new"]
  /\ closed = FALSE
  /\ expired = {}
  /\ ticket = [t \in Tasks |-> 0]
  /\ accepted = 0
-------------------------------------------------------------------------------
(* addTask: a dispatcher that is not running ignores (and leaks) the task. *)

\* Mutants: the front argument ignored, either way.
PushBack(t, list)  == Append(list, t)
PushFront(t, list) == <<t>> \o list

Push(t, list) == IF t \in ToFront THEN <<t>> \o list ELSE Append(list, t)

Enqueue(t) ==
  /\ status[t] = "new"
  /\ LockFree
  /\ IF threadState = "running"
     THEN /\ taskList' = Push(t, taskList)
          /\ status' = [status EXCEPT ![t] = "queued"]
          /\ accepted' = accepted + 1
          /\ ticket' = [ticket EXCEPT ![t] = accepted + 1]
     ELSE /\ status' = [status EXCEPT ![t] = "refused"]
          /\ UNCHANGED <<taskList, accepted, ticket>>

\* Mutant: m_taskList.empty() read after the push.
SignalReadLate == FALSE

\* signal = m_taskList.empty(), read before the push and only when running
MustSignal == threadState = "running" /\ taskList = <<>>

AddTask(p, t) ==
  /\ ppc[p] = "idle"
  /\ t \notin ShutdownTasks
  /\ Enqueue(t)
  /\ ppc' = [ppc EXCEPT ![p] = IF MustSignal THEN "notify" ELSE "idle"]
  /\ UNCHANGED <<threadState, pc, current, closed, expired>>

\* The SIGTERM handler: addTask(Game::shutdown), then Dispatcher::stop().
SigTerm(p, t) ==
  /\ p \in Signalled
  /\ ppc[p] = "idle"
  /\ t \in ShutdownTasks
  /\ Enqueue(t)
  /\ ppc' = [ppc EXCEPT ![p] = IF MustSignal THEN "notifyThenStop" ELSE "stop"]
  /\ UNCHANGED <<threadState, pc, current, closed, expired>>

Notify(p) ==
  /\ ppc[p] \in {"notify", "notifyThenStop"}
  /\ ppc' = [ppc EXCEPT ![p] = IF @ = "notify" THEN "idle" ELSE "stop"]
  /\ pc' = IF pc = "waiting" THEN "woken" ELSE pc
  /\ UNCHANGED <<threadState, taskList, current, status, closed, expired, ticket, accepted>>

\* Dispatcher::stop() from the signal handler, whatever the state then is.
StopBySignal(p) ==
  /\ ppc[p] = "stop"
  /\ LockFree
  /\ threadState' = "closing"
  /\ ppc' = [ppc EXCEPT ![p] = "idle"]
  /\ UNCHANGED <<taskList, pc, current, status, closed, expired, ticket, accepted>>

\* Mutant: a task without expiration expires.
ExpireAny(t) ==
  /\ t \in Tasks \ expired
  /\ status[t] \in {"queued", "taken"}
  /\ expired' = expired \cup {t}
  /\ UNCHANGED <<threadState, taskList, pc, current, ppc, status, closed, ticket, accepted>>

\* m_expiration of a timed task passes.
Expire(t) ==
  /\ t \in Timed \ expired
  /\ status[t] \in {"queued", "taken"}
  /\ expired' = expired \cup {t}
  /\ UNCHANGED <<threadState, taskList, pc, current, ppc, status, closed, ticket, accepted>>
-------------------------------------------------------------------------------
(* dispatcherThread() *)

\* while(m_threadState != STATE_TERMINATED), read without the lock
CheckState ==
  /\ pc = "check"
  /\ pc' = IF threadState = "terminated" THEN "done" ELSE "acquire"
  /\ UNCHANGED <<threadState, taskList, current, ppc, status, closed, expired, ticket, accepted>>

\* Mutant: front() without pop_front().
TakeWithoutPop ==
  IF taskList # <<>> /\ threadState # "terminated"
  THEN /\ current' = Head(taskList)
       /\ status' = [status EXCEPT ![Head(taskList)] = "taken"]
       /\ pc' = "ready"
       /\ UNCHANGED taskList
  ELSE /\ pc' = "check"
       /\ UNCHANGED <<taskList, current, status>>

TakeFirst ==
  IF taskList # <<>> /\ threadState # "terminated"
  THEN /\ current' = Head(taskList)
       /\ taskList' = Tail(taskList)
       /\ status' = [status EXCEPT ![Head(taskList)] = "taken"]
       /\ pc' = "ready"
  ELSE /\ pc' = "check"
       /\ UNCHANGED <<taskList, current, status>>

Acquire ==
  /\ pc = "acquire"
  /\ IF taskList = <<>>
     THEN pc' = "waiting" /\ UNCHANGED <<taskList, current, status>>
     ELSE TakeFirst
  /\ UNCHANGED <<threadState, ppc, closed, expired, ticket, accepted>>

\* boost::condition_variable::wait may return without a notification
SpuriousWake ==
  /\ pc = "waiting"
  /\ pc' = "woken"
  /\ UNCHANGED <<threadState, taskList, current, ppc, status, closed, expired, ticket, accepted>>

Wake ==
  /\ pc = "woken"
  /\ TakeFirst
  /\ UNCHANGED <<threadState, ppc, closed, expired, ticket, accepted>>

Execute ==
  /\ pc = "ready"
  /\ IF current \in expired
     THEN /\ status' = [status EXCEPT ![current] = "discarded"]
          /\ current' = NoTask
          /\ pc' = "check"
     ELSE /\ status' = [status EXCEPT ![current] = "executing"]
          /\ pc' = "running"
          /\ UNCHANGED current
  /\ UNCHANGED <<threadState, taskList, ppc, closed, expired, ticket, accepted>>

\* The running task (or sendAll() after it) calls addTask; the signal finds
\* nobody waiting, for the only waiter is this thread.
RunAdd(t) ==
  /\ pc \in {"running", "sending"}
  /\ t \notin ShutdownTasks
  /\ Enqueue(t)
  /\ UNCHANGED <<threadState, pc, current, ppc, closed, expired>>

\* Game::setGameState(GAMESTATE_SHUTDOWN) adds Game::shutdown and then stops
\* the dispatcher.  Its first line lets it happen once.
RequestShutdown(t) ==
  /\ pc = "running"
  /\ current \notin ShutdownTasks
  /\ t \in ShutdownTasks
  /\ ~closed
  /\ closed' = TRUE
  /\ Enqueue(t)
  /\ pc' = "stopping"
  /\ UNCHANGED <<threadState, current, ppc, expired>>

Stop ==
  /\ pc = "stopping"
  /\ threadState' = "closing"
  /\ pc' = "running"
  /\ UNCHANGED <<taskList, current, ppc, status, closed, expired, ticket, accepted>>

\* Mutants: shutdown() without flush(); shutdown() that does not terminate.
ShutdownNoFlush ==
  /\ pc = "running"
  /\ current \in ShutdownTasks
  /\ threadState' = "terminated"
  /\ pc' = "sending"
  /\ UNCHANGED <<taskList, current, ppc, status, closed, expired, ticket, accepted>>

ShutdownStaysClosing ==
  /\ pc = "running"
  /\ current \in ShutdownTasks
  /\ pc' = "flush"
  /\ UNCHANGED <<threadState, taskList, current, ppc, status, closed, expired, ticket, accepted>>

\* Game::shutdown calls Dispatcher::shutdown(), which takes the lock and flushes.
Shutdown ==
  /\ pc = "running"
  /\ current \in ShutdownTasks
  /\ threadState' = "terminated"
  /\ pc' = "flush"
  /\ UNCHANGED <<taskList, current, ppc, status, closed, expired, ticket, accepted>>

\* flush() runs the remaining tasks without looking at their expiration.
FlushOne ==
  /\ pc = "flush"
  /\ taskList # <<>>
  /\ Head(taskList) \notin ShutdownTasks
  /\ taskList' = Tail(taskList)
  /\ status' = [status EXCEPT ![Head(taskList)] = "executed"]
  /\ UNCHANGED <<threadState, pc, current, ppc, closed, expired, ticket, accepted>>

\* A flushed task that calls addTask or shutdown() asks for the boost::mutex
\* its own thread holds, and the thread stops there.
FlushRelock ==
  /\ pc = "flush"
  /\ taskList # <<>>
  /\ taskList' = Tail(taskList)
  /\ status' = [status EXCEPT ![Head(taskList)] = "executing"]
  /\ pc' = "relock"
  /\ UNCHANGED <<threadState, current, ppc, closed, expired, ticket, accepted>>

FlushEnd ==
  /\ pc = "flush"
  /\ taskList = <<>>
  /\ pc' = "sending"
  /\ UNCHANGED <<threadState, taskList, current, ppc, status, closed, expired, ticket, accepted>>

\* sendAll(), clearSpectatorCache(), delete task
Finish ==
  /\ \/ pc = "running" /\ current \notin ShutdownTasks
     \/ pc = "sending"
  /\ status' = [status EXCEPT ![current] = "executed"]
  /\ current' = NoTask
  /\ pc' = "check"
  /\ UNCHANGED <<threadState, taskList, ppc, closed, expired, ticket, accepted>>
-------------------------------------------------------------------------------
DispatcherStep ==
  \/ CheckState \/ Acquire \/ Wake \/ Execute
  \/ Stop \/ Shutdown \/ FlushOne \/ FlushRelock \/ FlushEnd \/ Finish

Next ==
  \/ DispatcherStep
  \/ SpuriousWake
  \/ \E t \in Tasks : RunAdd(t) \/ RequestShutdown(t) \/ Expire(t)
  \/ \E p \in Producers :
       \/ Notify(p)
       \/ StopBySignal(p)
       \/ \E t \in Tasks : AddTask(p, t) \/ SigTerm(p, t)

Spec == Init /\ [][Next]_vars

\* The operating system keeps running the dispatcher thread, and a thread that
\* has left a critical section goes on to notify and to stop.
Fairness ==
  /\ WF_vars(DispatcherStep)
  /\ \A p \in Producers : WF_vars(Notify(p)) /\ WF_vars(StopBySignal(p))

FairSpec == Spec /\ Fairness
-------------------------------------------------------------------------------
TypeOK ==
  /\ threadState \in ThreadState
  /\ taskList \in Seq(Tasks)
  /\ pc \in PC
  /\ current \in Tasks \cup {NoTask}
  /\ ppc \in [Producers -> ProducerPC]
  /\ status \in [Tasks -> Status]
  /\ closed \in BOOLEAN
  /\ expired \subseteq Timed
  /\ ticket \in [Tasks -> Nat]
  /\ accepted \in Nat

\* addTask signals only when it found the list empty (dispatcher.cpp:92).  That
\* is enough: the thread never sleeps on a non-empty list unless a producer is
\* still on its way to notify_one.
NoLostWakeup ==
  pc = "waiting" /\ taskList # <<>> =>
    \E p \in Producers : ppc[p] \in {"notify", "notifyThenStop"}

\* A task is in the list exactly while it is accepted and not yet taken, and
\* in one place only, so no Task object is executed or deleted twice.
ListedOnce ==
  /\ \A t \in Tasks : status[t] = "queued" <=> t \in Listed
  /\ \A i, j \in DOMAIN taskList : taskList[i] = taskList[j] => i = j

\* Tasks added at the back start in the order in which addTask accepted them,
\* through stop() and flush() too: none that is still queued was accepted
\* before one already taken.
Fifo ==
  \A t, u \in Back :
    status[t] = "queued" /\ status[u] \in {"taken", "executing", "executed", "discarded"}
      => ticket[u] < ticket[t]

\* A message release (front = true) never waits behind ordinary work.
ReleasesFirst ==
  \A i, j \in DOMAIN taskList :
    i < j /\ taskList[j] \in ToFront => taskList[i] \in ToFront

\* An accepted task is in the end executed or, once expired, deleted, even when
\* the server shuts down meanwhile; the one exception is a flush() that stops in
\* a task asking for m_taskLock again.
AcceptedTaskEnds ==
  \A t \in Tasks :
    status[t] = "queued" ~> (status[t] \in {"executed", "discarded"} \/ pc = "relock")

\* Game::setGameState(GAMESTATE_SHUTDOWN) ends the dispatcher thread, so that
\* Dispatcher::exit() in main() returns, unless flush() stops as above or a
\* SIGTERM has added a Game::shutdown of its own.
Signalling == \E t, u \in ShutdownTasks : t # u /\ status[t] # "new" /\ status[u] # "new"

ShutdownEndsThread == pc = "stopping" ~> pc \in {"done", "relock"} \/ Signalling

\* otserv.cpp:359 registers the SIGTERM handler as "//shutdown": after the
\* handler has queued Game::shutdown the dispatcher thread ends (or flush()
\* stops as above).
SigTermEndsThread ==
  \A t \in ShutdownTasks : status[t] = "queued" ~> pc \in {"done", "relock"}
===============================================================================
