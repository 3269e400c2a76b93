------------------------------- MODULE Connection ------------------------------
(***************************************************************************)
(* One client connection from accept to destruction: sources/connection.cpp *)
(* with the output messages (outputmessage.cpp) and the protocol object    *)
(* (protocol.cpp) that hang on it.                                         *)
(*                                                                         *)
(* Three parties touch them: the service thread, which runs the socket and *)
(* timer handlers of the connection one after another (serviceThreads = 1, *)
(* the default); the dispatcher, which runs the queued tasks and sendAll;  *)
(* and the scheduler, which brings a release back to be tried again.  Two  *)
(* locks matter.  The service thread holds m_connectionLock from the start *)
(* of a handler to its end; the dispatcher holds m_outputPoolLock during   *)
(* the whole of sendAll and takes m_connectionLock for each message.       *)
(*                                                                         *)
(* m_refCount of the protocol and of the connection is a plain integer     *)
(* that the two threads change with no common lock, so an update is a load *)
(* and a store.  The dispatcher is running: tasks are never refused.       *)
(***************************************************************************)
EXTENDS Integers, Sequences, FiniteSets

CONSTANTS
  Messages,        \* OutputMessage objects (bound: no more are allocated)
  Sockets,         \* "single": a ProtocolGame is made on accept and sends a challenge;
                   \* "shared": the first packet says which protocol it is
  OtClient,        \* the client is answered an extended opcode first
  Verdicts,        \* what ProtocolGame::onRecvFirstMessage may decide
  Answers,         \* and that of the protocols that share a socket
  SlowLimit,       \* the 100 of send()
  ForceCloseSlow,  \* forceSlowConnectionsToDisconnect
  MaxGameTasks,    \* bound: other tasks in the queue at a time
  NoMessage

ASSUME ConnectionAssumption ==
  /\ Sockets \subseteq {"single", "shared"}
  /\ OtClient \in BOOLEAN /\ ForceCloseSlow \in BOOLEAN
  /\ Verdicts \subseteq {"close", "refuse", "accept"}
  /\ Answers \subseteq {"close", "refuse"}
  /\ SlowLimit \in Nat \ {0}
  /\ MaxGameTasks \in Nat
  /\ NoMessage \notin Messages
  /\ {"close", "login", "game"} \cap Messages = {}

VARIABLES
  conn,            \* m_connectionState, m_pendingRead and so on
  protocol,        \* the Protocol object; "attached" while m_protocol points to it
  connRefs, protoRefs, \* m_refCount of each
  reading, writing,    \* the async_read and the async_write whose handlers are to come
  readTimer, writeTimer, \* "armed": it runs; "queued": it expired, its handler is to come
  spc, svcLoaded, svcMsg, \* the service thread inside onRecvFirstMessage
  dpc, dspLoaded, dspMsg, \* the dispatcher inside a task
  toSend, ripe,    \* sendAll: what is left of m_autoSend, and what of it is due
  tasks,           \* m_taskList: "close", "login", "game" or a message to release
  stops,           \* onStop handlers dispatched to the service
  retries,         \* releases that wait in the scheduler
  autoSend, addQueue, \* m_autoSend and m_addQueue of the pool
  outputBuffer,    \* m_outputBuffer of the protocol
  player           \* the login has been accepted

refVars   == <<connRefs, protoRefs>>
readVars  == <<reading, readTimer>>
writeVars == <<writing, writeTimer>>
ioVars    == <<readVars, writeVars>>
svcVars   == <<spc, svcLoaded, svcMsg>>
dspRest   == <<dspLoaded, dspMsg, toSend, ripe>>
dspVars   == <<dpc, dspRest>>
closeVars == <<stops, retries>>
queueVars == <<tasks, closeVars>>
poolVars  == <<autoSend, addQueue, outputBuffer>>
vars == <<conn, protocol, refVars, ioVars, svcVars, dspVars, queueVars, poolVars, player>>
-------------------------------------------------------------------------------
InSeq(x, s) == \E i \in DOMAIN s : s[i] = x

Held(m) ==
  \/ InSeq(m, autoSend) \/ InSeq(m, toSend) \/ InSeq(m, addQueue) \/ InSeq(m, tasks)
  \/ m \in {outputBuffer, writing, svcMsg, dspMsg}

\* m_outputMessages.back(): which of the free messages it is does not matter.
Free     == {m \in Messages : ~Held(m)}
FromPool == CHOOSE m \in Messages : m \in Free

NoRefs == [conn |-> 0, proto |-> 0]

\* m_connectionLock is free for the dispatcher, m_outputPoolLock for either.
ConnectionUnlocked == spc = "idle"
PoolUnlocked == dpc \notin {"collect", "sendAll"} /\ spc \notin {"opcodeStore", "refuseStore"}

Init ==
  /\ conn = [state |-> "OPEN", pendingRead |-> 0, pendingWrite |-> 0, readError |-> FALSE,
             writeError |-> FALSE, socket |-> "open", receivedFirst |-> FALSE]
  /\ protocol = "none"
  /\ connRefs = 0 /\ protoRefs = 0
  /\ reading = "none" /\ writing = NoMessage
  /\ readTimer = {} /\ writeTimer = {}
  /\ spc = "handle" /\ svcLoaded = NoRefs /\ svcMsg = NoMessage
  /\ dpc = "idle" /\ dspLoaded = NoRefs /\ dspMsg = NoMessage
  /\ toSend = <<>> /\ ripe = {}
  /\ tasks = <<>> /\ stops = 0 /\ retries = {}
  /\ autoSend = <<>> /\ addQueue = <<>> /\ outputBuffer = NoMessage
  /\ player = FALSE
-------------------------------------------------------------------------------
(* close() and closeSocket(), on a connection c *)

CloseSocket(c) ==
  IF c.socket = "open"
  THEN [c EXCEPT !.socket = "closed", !.pendingRead = 0, !.pendingWrite = 0]
  ELSE c

MayCloseAgain(c) == c.state # "CLOSED"
MayClose(c) == c.state \notin {"CLOSED", "REQUEST_CLOSE"}

CloseAbruptly(c) == IF MayClose(c) THEN [CloseSocket(c) EXCEPT !.state = "REQUEST_CLOSE"] ELSE c
Close(c) == IF MayClose(c) THEN [c EXCEPT !.state = "REQUEST_CLOSE"] ELSE c

\* The queue after close() has been called on c.
CloseTask(c, q) == IF MayClose(c) THEN Append(q, "close") ELSE q

AcceptingInAnyState(c) == ~c.writeError
Accepting(c) == c.state = "OPEN" /\ ~c.writeError

\* The message of an async_write that send() starts, of one that it leaves to
\* the pool, and the connection it leaves behind.
StartsAnother(c) == Accepting(c)
Starts(c) == Accepting(c) /\ c.pendingWrite = 0
Slow(c)   == Accepting(c) /\ c.pendingWrite > SlowLimit /\ ForceCloseSlow
Defers(c) == Accepting(c) /\ c.pendingWrite # 0 /\ ~Slow(c)

AfterSendCountsAll(c) == IF Accepting(c) THEN [c EXCEPT !.pendingWrite = @ + 1] ELSE c
AfterSend(c) ==
  IF Starts(c) THEN [c EXCEPT !.pendingWrite = @ + 1]
  ELSE IF Slow(c) THEN Close(c) ELSE c

\* send(m) by OutputMessagePool::send: what it changes but conn and tasks.
\* onSendMessage resets m_outputBuffer only if that is m, which no caller sends.
SendSingle(m) ==
  /\ IF Starts(conn)
     THEN writing' = m /\ writeTimer' = writeTimer \cup {"armed"}
     ELSE UNCHANGED <<writing, writeTimer>>
  /\ addQueue' = IF Defers(conn) THEN Append(addQueue, m) ELSE addQueue

\* The last reference to m goes when send() neither starts nor defers it.
SendTasks(m, q) ==
  LET r == IF Starts(conn) \/ Defers(conn) THEN q ELSE <<m>> \o q
  IN IF Slow(conn) THEN CloseTask(conn, r) ELSE r
-------------------------------------------------------------------------------
(* The service thread: ServicePort::handle, accept() *)

Accept(c) == [c EXCEPT !.pendingRead = @ + 1]

\* connection->handle(makeProtocol(connection)): onConnect sends, then accept().
HandleSingleSocket ==
  /\ spc = "handle" /\ "single" \in Sockets
  /\ PoolUnlocked
  /\ spc' = "idle"
  /\ protocol' = "attached"
  /\ Free # {}
  /\ writing' = FromPool
  /\ connRefs' = 1 /\ protoRefs' = 1
  /\ conn' = Accept(AfterSend(conn))
  /\ reading' = "header"
  /\ readTimer' = {"armed"} /\ writeTimer' = {"armed"}
  /\ UNCHANGED <<svcLoaded, svcMsg, dspVars, queueVars, poolVars, player>>

HandleShared ==
  /\ spc = "handle" /\ "shared" \in Sockets
  /\ spc' = "idle"
  /\ conn' = Accept(conn)
  /\ reading' = "header"
  /\ readTimer' = {"armed"}
  /\ UNCHANGED <<protocol, refVars, writeVars, svcLoaded, svcMsg, dspVars,
                 queueVars, poolVars, player>>
-------------------------------------------------------------------------------
(* The service thread: reads *)

\* How an operation may complete.  "aborted" is what closing the socket does to
\* it; a completion that was already queued keeps its outcome.
Outcomes == {"ok", "failed"} \cup (IF conn.socket = "open" THEN {} ELSE {"aborted"})

\* parseHeader or parsePacket that goes no further: an error (or a bad size) or
\* a connection that is not open any more.  Both end in close().
ReadEnds(result) ==
  /\ spc = "idle"
  /\ reading # "none"
  /\ result \in Outcomes
  /\ result # "ok" \/ conn.state # "OPEN" \/ conn.readError
  /\ conn' = Close([conn EXCEPT !.readError = @ \/ result # "ok"])
  /\ tasks' = CloseTask(conn, tasks)
  /\ reading' = "none"
  /\ readTimer' = readTimer \ {"armed"}
  /\ UNCHANGED <<protocol, refVars, writeVars, svcVars, dspVars, closeVars,
                 poolVars, player>>

ReadsOnAfterClose == ~conn.readError
ReadsOn == conn.state = "OPEN" /\ ~conn.readError

ParseHeader ==
  /\ spc = "idle"
  /\ reading = "header"
  /\ ReadsOn
  /\ reading' = "body"
  /\ readTimer' = readTimer \cup {"armed"}
  /\ UNCHANGED <<conn, protocol, refVars, writeVars, svcVars, dspVars,
                 queueVars, poolVars, player>>

\* A later packet: the protocol queues game tasks and the next read starts.
ParsePacket ==
  /\ spc = "idle"
  /\ reading = "body"
  /\ ReadsOn /\ conn.receivedFirst
  /\ reading' = "header"
  /\ readTimer' = readTimer \cup {"armed"}
  /\ UNCHANGED <<conn, protocol, refVars, writeVars, svcVars, dspVars,
                 queueVars, poolVars, player>>

\* The first packet; makeProtocol finds no protocol.
ParseUnknown ==
  /\ spc = "idle"
  /\ reading = "body"
  /\ ReadsOn /\ ~conn.receivedFirst /\ protocol = "none"
  /\ conn' = Close([conn EXCEPT !.receivedFirst = TRUE, !.pendingRead = @ - 1])
  /\ tasks' = CloseTask(conn, tasks)
  /\ reading' = "none"
  /\ readTimer' = readTimer \ {"armed"}
  /\ UNCHANGED <<protocol, refVars, writeVars, svcVars, dspVars, closeVars,
                 poolVars, player>>

ParseFirst ==
  /\ spc = "idle"
  /\ reading = "body"
  /\ ReadsOn /\ ~conn.receivedFirst
  /\ conn' = [conn EXCEPT !.receivedFirst = TRUE, !.pendingRead = @ - 1]
  /\ protocol' = "attached"
  /\ spc' = IF protocol = "none" THEN "answer"
            ELSE IF OtClient THEN "opcode" ELSE "verdict"
  /\ reading' = "none"
  /\ readTimer' = readTimer \ {"armed"}
  /\ UNCHANGED <<refVars, writeVars, svcLoaded, svcMsg, dspVars, queueVars,
                 poolVars, player>>

\* The end of parsePacket: wait for the next packet.
NextRead ==
  /\ spc' = "idle"
  /\ reading' = "header"
  /\ readTimer' = readTimer \cup {"armed"}

\* What the protocol that has the first packet may decide.
Deciding ==
  CASE spc = "verdict" -> Verdicts
    [] spc = "answer"  -> Answers
    [] OTHER           -> {}

VerdictClose ==
  /\ "close" \in Deciding
  /\ conn' = Accept(Close(conn))
  /\ tasks' = CloseTask(conn, tasks)
  /\ NextRead
  /\ UNCHANGED <<protocol, refVars, writeVars, svcLoaded, svcMsg, dspVars,
                 closeVars, poolVars, player>>

\* ProtocolGame::login becomes a task, with nothing but a pointer to the protocol.
VerdictAccept ==
  /\ spc = "verdict" /\ "accept" \in Verdicts
  /\ conn' = Accept(conn)
  /\ tasks' = Append(tasks, "login")
  /\ NextRead
  /\ UNCHANGED <<protocol, refVars, writeVars, svcLoaded, svcMsg, dspVars,
                 closeVars, poolVars, player>>

VerdictRefuse ==
  /\ "refuse" \in Deciding
  /\ spc' = "refuse"
  /\ UNCHANGED <<conn, protocol, refVars, ioVars, svcLoaded, svcMsg, dspVars,
                 queueVars, poolVars, player>>

\* getOutputMessage, called under m_connectionLock, takes m_outputPoolLock ...
AddRefLoad ==
  /\ spc \in {"opcode", "refuse"}
  /\ PoolUnlocked
  /\ spc' = IF spc = "opcode" THEN "opcodeStore" ELSE "refuseStore"
  /\ svcLoaded' = [conn |-> connRefs, proto |-> protoRefs]
  /\ UNCHANGED <<conn, protocol, refVars, ioVars, svcMsg, dspVars, queueVars,
                 poolVars, player>>

\* ... and ends.  Each counter was loaded before or after what the dispatcher
\* has stored meanwhile.
AddRefStore ==
  /\ spc \in {"opcodeStore", "refuseStore"}
  /\ connRefs' \in {svcLoaded.conn + 1, connRefs + 1}
  /\ protoRefs' \in {svcLoaded.proto + 1, protoRefs + 1}
  /\ svcLoaded' = NoRefs
  /\ Free # {}
  /\ IF spc = "opcodeStore"
     THEN /\ spc' = "verdict"
          /\ outputBuffer' = FromPool
          /\ autoSend' = Append(autoSend, FromPool)
          /\ UNCHANGED svcMsg
     ELSE /\ spc' = "refuseSend"
          /\ svcMsg' = FromPool
          /\ UNCHANGED <<outputBuffer, autoSend>>
  /\ UNCHANGED <<conn, protocol, ioVars, dspVars, queueVars, addQueue, player>>

\* disconnectClient(): send(output), which looks at the message under the pool
\* lock, then close().
RefuseSend ==
  /\ spc = "refuseSend"
  /\ PoolUnlocked
  /\ SendSingle(svcMsg)
  /\ svcMsg' = NoMessage
  /\ conn' = Accept(Close(AfterSend(conn)))
  /\ tasks' = CloseTask(AfterSend(conn), SendTasks(svcMsg, tasks))
  /\ NextRead
  /\ UNCHANGED <<protocol, refVars, svcLoaded, dspVars, closeVars, autoSend,
                 outputBuffer, player>>
-------------------------------------------------------------------------------
(* The service thread: writes, timers, the end *)

\* onWrite.  Only the handler still refers to the message: it is released.
WriteEnds(result) ==
  /\ spc = "idle"
  /\ writing # NoMessage
  /\ result \in Outcomes
  /\ writing' = NoMessage
  /\ writeTimer' = writeTimer \ {"armed"}
  /\ IF result = "ok" /\ Accepting(conn)
     THEN /\ conn' = [conn EXCEPT !.pendingWrite = @ - 1]
          /\ tasks' = <<writing>> \o tasks
     ELSE /\ conn' = Close(CloseSocket([conn EXCEPT !.writeError = @ \/ result # "ok"]))
          /\ tasks' = CloseTask(conn, <<writing>> \o tasks)
  /\ UNCHANGED <<protocol, refVars, readVars, svcVars, dspVars, closeVars,
                 poolVars, player>>

ReadTimerExpires ==
  /\ "armed" \in readTimer
  /\ readTimer' = {"queued"}
  /\ UNCHANGED <<conn, protocol, refVars, reading, writeVars, svcVars, dspVars,
                 queueVars, poolVars, player>>

WriteTimerExpires ==
  /\ "armed" \in writeTimer
  /\ writeTimer' = {"queued"}
  /\ UNCHANGED <<conn, protocol, refVars, readVars, writing, svcVars, dspVars,
                 queueVars, poolVars, player>>

\* The Connection object still exists: the handlers, the messages and the
\* protocol share it with the ConnectionManager, which drops it in onStop.
Referenced ==
  \/ conn.socket # "deleted"
  \/ reading # "none" \/ protocol = "attached"
  \/ \E m \in Messages : Held(m)

\* handleReadTimeout; its handler may come after the read it was set for.
ReadTimeout ==
  /\ spc = "idle"
  /\ "queued" \in readTimer
  /\ readTimer' = readTimer \ {"queued"}
  /\ IF Referenced /\ (conn.pendingRead > 0 \/ conn.readError)
     THEN conn' = Close(CloseSocket(conn)) /\ tasks' = CloseTask(conn, tasks)
     ELSE UNCHANGED <<conn, tasks>>
  /\ UNCHANGED <<protocol, refVars, reading, writeVars, svcVars, dspVars,
                 closeVars, poolVars, player>>

WriteTimeout ==
  /\ spc = "idle"
  /\ "queued" \in writeTimer
  /\ writeTimer' = writeTimer \ {"queued"}
  /\ IF Referenced /\ (conn.pendingWrite > 0 \/ conn.writeError)
     THEN conn' = Close(CloseSocket(conn)) /\ tasks' = CloseTask(conn, tasks)
     ELSE UNCHANGED <<conn, tasks>>
  /\ UNCHANGED <<protocol, refVars, readVars, writing, svcVars, dspVars,
                 closeVars, poolVars, player>>

\* io_service is first in, first out: the read that closeSocket aborted has been
\* handled before.
OnStop ==
  /\ spc = "idle"
  /\ stops > 0
  /\ reading = "none"
  /\ stops' = stops - 1
  /\ conn' = [conn EXCEPT !.socket = "deleted"]
  /\ readTimer' = readTimer \ {"armed"}
  /\ writeTimer' = writeTimer \ {"armed"}
  /\ UNCHANGED <<protocol, refVars, reading, writing, svcVars, dspVars, tasks,
                 retries, poolVars, player>>
-------------------------------------------------------------------------------
(* The dispatcher: tasks *)

ReleaseTwice(waiting) ==
  /\ retries' = IF connRefs # 0 THEN waiting \cup {"connection"} ELSE waiting
  /\ stops' = stops + 1

ReleaseAtOnce(waiting) == retries' = waiting /\ stops' = stops + 1

ReleaseOrForget(waiting) ==
  IF connRefs # 0
  THEN retries' = waiting /\ UNCHANGED stops
  ELSE retries' = waiting /\ stops' = stops + 1

\* Connection::releaseConnection and Protocol::releaseProtocol.
ReleaseConnection(waiting) ==
  IF connRefs # 0
  THEN retries' = waiting \cup {"connection"} /\ UNCHANGED stops
  ELSE retries' = waiting /\ stops' = stops + 1

CloseConnection ==
  /\ dpc = "idle"
  /\ tasks # <<>> /\ Head(tasks) = "close"
  /\ ConnectionUnlocked
  /\ dpc' = "ran"
  /\ tasks' = Tail(tasks)
  /\ IF conn.state # "REQUEST_CLOSE"
     THEN UNCHANGED <<conn, protocol, stops, retries>>
     ELSE LET waiting == IF protocol = "attached" /\ protoRefs # 0
                         THEN retries \cup {"protocol"} ELSE retries
          IN /\ protocol' = IF protocol # "attached" THEN protocol
                            ELSE IF protoRefs # 0 THEN "releasing" ELSE "deleted"
             /\ IF conn.pendingWrite = 0 \/ conn.writeError
                THEN /\ conn' = [CloseSocket(conn) EXCEPT !.state = "CLOSED"]
                     /\ ReleaseConnection(waiting)
                ELSE /\ conn' = [conn EXCEPT !.state = "CLOSING"]
                     /\ retries' = waiting
                     /\ UNCHANGED stops
  /\ UNCHANGED <<refVars, ioVars, svcVars, dspRest, poolVars, player>>

RetryConnection ==
  /\ dpc = "idle"
  /\ "connection" \in retries
  /\ dpc' = "ran"
  /\ ReleaseConnection(retries \ {"connection"})
  /\ UNCHANGED <<conn, protocol, refVars, ioVars, svcVars, dspRest, tasks,
                 poolVars, player>>

RetryProtocolDeletes ==
  /\ dpc = "idle"
  /\ "protocol" \in retries
  /\ dpc' = "ran"
  /\ protocol' = "deleted" /\ retries' = retries \ {"protocol"}
  /\ UNCHANGED <<conn, refVars, ioVars, svcVars, dspRest, tasks, stops, poolVars, player>>

RetryProtocolOnce ==
  /\ dpc = "idle"
  /\ "protocol" \in retries
  /\ dpc' = "ran"
  /\ protocol' = IF protoRefs # 0 THEN protocol ELSE "deleted"
  /\ retries' = retries \ {"protocol"}
  /\ UNCHANGED <<conn, refVars, ioVars, svcVars, dspRest, tasks, stops, poolVars, player>>

RetryProtocol ==
  /\ dpc = "idle"
  /\ "protocol" \in retries
  /\ dpc' = "ran"
  /\ IF protoRefs # 0
     THEN UNCHANGED <<protocol, retries>>
     ELSE protocol' = "deleted" /\ retries' = retries \ {"protocol"}
  /\ UNCHANGED <<conn, refVars, ioVars, svcVars, dspRest, tasks, stops,
                 poolVars, player>>

\* internalReleaseMessage, under no lock but for the return to the pool.
UnRefLoad ==
  /\ dpc = "idle"
  /\ tasks # <<>> /\ Head(tasks) \in Messages
  /\ dpc' = "unRef"
  /\ dspMsg' = Head(tasks)
  /\ dspLoaded' = [conn |-> connRefs, proto |-> protoRefs]
  /\ tasks' = Tail(tasks)
  /\ UNCHANGED <<conn, protocol, refVars, ioVars, svcVars, toSend, ripe,
                 closeVars, poolVars, player>>

UnRefProtocolOnly ==
  /\ dpc = "unRef"
  /\ protoRefs' \in {dspLoaded.proto - 1, protoRefs - 1}
  /\ dspLoaded' = NoRefs
  /\ dspMsg' = NoMessage
  /\ dpc' = "ran"
  /\ UNCHANGED <<conn, connRefs, protocol, ioVars, svcVars, toSend, ripe, queueVars, poolVars,
                 player>>

UnRefStore ==
  /\ dpc = "unRef"
  /\ connRefs' \in {dspLoaded.conn - 1, connRefs - 1}
  /\ protoRefs' \in {dspLoaded.proto - 1, protoRefs - 1}
  /\ dspLoaded' = NoRefs
  /\ dspMsg' = NoMessage
  /\ dpc' = "ran"
  /\ UNCHANGED <<conn, protocol, ioVars, svcVars, toSend, ripe, queueVars,
                 poolVars, player>>

\* ProtocolGame::login lets the player in.
Login ==
  /\ dpc = "idle"
  /\ tasks # <<>> /\ Head(tasks) = "login"
  /\ tasks' = Tail(tasks)
  /\ dpc' = "ran"
  /\ player' = TRUE
  /\ UNCHANGED <<conn, protocol, refVars, ioVars, svcVars, dspRest, closeVars,
                 poolVars>>

\* getOutputMessage() of the dispatcher; the service thread has none to ask for
\* once a login is queued.  It gives nothing to a protocol with no connection.
Allocate ==
  /\ protocol = "attached"
  /\ PoolUnlocked
  /\ Free # {}
  /\ connRefs' = connRefs + 1
  /\ protoRefs' = protoRefs + 1

\* disconnectClient() by a login that is refused: the message and, later, close().
LoginRefused ==
  /\ dpc = "idle"
  /\ tasks # <<>> /\ Head(tasks) = "login"
  /\ ConnectionUnlocked
  /\ dpc' = "close"
  /\ Allocate
  /\ SendSingle(FromPool)
  /\ tasks' = SendTasks(FromPool, Tail(tasks))
  /\ conn' = AfterSend(conn)
  /\ UNCHANGED <<protocol, readVars, svcVars, dspRest, closeVars, autoSend,
                 outputBuffer, player>>

\* The close() of disconnectClient or of ProtocolGame::disconnect, which finds
\* no connection once closeConnection has run.
Disconnect ==
  /\ dpc = "close"
  /\ ConnectionUnlocked
  /\ dpc' = "ran"
  /\ IF protocol = "attached"
     THEN conn' = Close(conn) /\ tasks' = CloseTask(conn, tasks)
     ELSE UNCHANGED <<conn, tasks>>
  /\ UNCHANGED <<protocol, refVars, ioVars, svcVars, dspRest, closeVars,
                 poolVars, player>>

\* Some thread queues a task of the game.
GameTaskAdded ==
  /\ Cardinality({i \in DOMAIN tasks : tasks[i] = "game"}) < MaxGameTasks
  /\ tasks' = Append(tasks, "game")
  /\ UNCHANGED <<conn, protocol, refVars, ioVars, svcVars, dspVars, closeVars,
                 poolVars, player>>

TakeGameTask ==
  /\ dpc = "idle"
  /\ tasks # <<>> /\ Head(tasks) = "game"
  /\ tasks' = Tail(tasks)

\* It ends in ProtocolGame::disconnect ...
KickTask ==
  /\ TakeGameTask
  /\ player /\ protocol = "attached"
  /\ dpc' = "close"
  /\ UNCHANGED <<conn, protocol, refVars, ioVars, svcVars, dspRest, closeVars,
                 poolVars, player>>

\* ... or writes to the client: getOutputBuffer() ...
OutputTask ==
  /\ TakeGameTask
  /\ player
  /\ outputBuffer = NoMessage
  /\ dpc' = "ran"
  /\ Allocate
  /\ outputBuffer' = FromPool
  /\ autoSend' = Append(autoSend, FromPool)
  /\ UNCHANGED <<conn, protocol, ioVars, svcVars, dspRest, closeVars, addQueue,
                 player>>

\* ... or has nothing to do with this connection.
OtherTask ==
  /\ TakeGameTask
  /\ dpc' = "ran"
  /\ UNCHANGED <<conn, protocol, refVars, ioVars, svcVars, dspRest, closeVars,
                 poolVars, player>>
-------------------------------------------------------------------------------
(* The dispatcher: sendAll(), after every task *)

Collecting == (dpc = "ran" /\ PoolUnlocked) \/ dpc = "collect"

\* The first loop: a deferred message joins the end of m_autoSend ...
Collect ==
  /\ Collecting
  /\ addQueue # <<>>
  /\ dpc' = "collect"
  /\ addQueue' = Tail(addQueue)
  /\ autoSend' = Append(autoSend, Head(addQueue))
  /\ UNCHANGED <<conn, protocol, refVars, ioVars, svcVars, dspRest, queueVars, outputBuffer,
                 player>>

\* ... or has waited 10 seconds and is dropped.
DropOld ==
  /\ Collecting
  /\ addQueue # <<>>
  /\ dpc' = "collect"
  /\ addQueue' = Tail(addQueue)
  /\ outputBuffer' = IF outputBuffer = Head(addQueue) THEN NoMessage ELSE outputBuffer
  /\ tasks' = <<Head(addQueue)>> \o tasks
  /\ UNCHANGED <<conn, protocol, refVars, ioVars, svcVars, dspRest, closeVars, autoSend, player>>

Listed == {m \in Messages : InSeq(m, autoSend)}

CollectedOpen(due) ==
  /\ Collecting
  /\ addQueue = <<>>
  /\ dpc' = "sendAll"
  /\ toSend' = autoSend
  /\ autoSend' = <<>>
  /\ ripe' = IF Accepting(conn) THEN due ELSE {}
  /\ UNCHANGED <<conn, protocol, refVars, ioVars, svcVars, dspLoaded, dspMsg,
                 queueVars, addQueue, outputBuffer, player>>

\* The second loop, over messages of which those in due are over 1 kb or 10 ms.
\* What it leaves in the list is autoSend \o toSend.
Collected(due) ==
  /\ Collecting
  /\ addQueue = <<>>
  /\ dpc' = "sendAll"
  /\ toSend' = autoSend
  /\ autoSend' = <<>>
  /\ ripe' = due
  /\ UNCHANGED <<conn, protocol, refVars, ioVars, svcVars, dspLoaded, dspMsg,
                 queueVars, addQueue, outputBuffer, player>>

SkipNext ==
  /\ dpc = "sendAll"
  /\ toSend # <<>> /\ Head(toSend) \notin ripe
  /\ toSend' = Tail(toSend)
  /\ autoSend' = Append(autoSend, Head(toSend))
  /\ UNCHANGED <<conn, protocol, refVars, ioVars, svcVars, dpc, dspLoaded,
                 dspMsg, ripe, queueVars, addQueue, outputBuffer, player>>

\* send() and, when that writes or refuses it, onSendMessage.  What waits in
\* m_addQueue may still be the output buffer.
SendNext ==
  /\ dpc = "sendAll"
  /\ toSend # <<>> /\ Head(toSend) \in ripe
  /\ ConnectionUnlocked
  /\ toSend' = Tail(toSend)
  /\ SendSingle(Head(toSend))
  /\ conn' = AfterSend(conn)
  /\ IF outputBuffer = Head(toSend) /\ (Defers(conn) \/ Slow(conn))
     THEN UNCHANGED outputBuffer /\ tasks' = IF Slow(conn) THEN CloseTask(conn, tasks) ELSE tasks
     ELSE /\ outputBuffer' = IF outputBuffer = Head(toSend) THEN NoMessage ELSE outputBuffer
          /\ tasks' = SendTasks(Head(toSend), tasks)
  /\ ripe' = ripe \ {Head(toSend)}
  /\ UNCHANGED <<protocol, refVars, readVars, svcVars, dpc, dspLoaded, dspMsg,
                 closeVars, autoSend, player>>

SendAllEnds ==
  /\ dpc = "sendAll"
  /\ toSend = <<>>
  /\ dpc' = "idle"
  /\ UNCHANGED <<conn, protocol, refVars, ioVars, svcVars, dspRest, queueVars,
                 poolVars, player>>
-------------------------------------------------------------------------------
ServiceStep ==
  \/ HandleSingleSocket \/ HandleShared
  \/ ParseHeader \/ ParsePacket \/ ParseUnknown \/ ParseFirst
  \/ VerdictClose \/ VerdictAccept \/ VerdictRefuse
  \/ AddRefLoad \/ AddRefStore \/ RefuseSend
  \/ \E result \in Outcomes : ReadEnds(result) \/ WriteEnds(result)
  \/ ReadTimeout \/ WriteTimeout \/ OnStop

QueuedTask ==
  \/ CloseConnection \/ UnRefLoad \/ Login \/ LoginRefused
  \/ KickTask \/ OutputTask \/ OtherTask

DispatcherStep ==
  \/ QueuedTask \/ RetryConnection \/ RetryProtocol
  \/ UnRefStore \/ Disconnect
  \/ Collect \/ DropOld \/ \E due \in SUBSET Listed : Collected(due)
  \/ SkipNext \/ SendNext \/ SendAllEnds

Next ==
  \/ ServiceStep \/ DispatcherStep
  \/ GameTaskAdded \/ ReadTimerExpires \/ WriteTimerExpires

Spec == Init /\ [][Next]_vars

\* Threads that can run do run.  An operation on a closed socket completes; on an
\* open one the peer may stay silent for ever, and then the timers expire.  Every
\* queued or rescheduled task gets its turn, the server always has other tasks
\* (Game::checkCreatures comes round for ever), and a message grows older than
\* 10 ms.
Fairness ==
  /\ WF_vars(HandleSingleSocket \/ HandleShared)
  /\ WF_vars(VerdictClose \/ VerdictAccept \/ VerdictRefuse)
  /\ WF_vars(AddRefLoad \/ AddRefStore \/ RefuseSend)
  /\ WF_vars(ReadEnds("aborted")) /\ WF_vars(WriteEnds("aborted"))
  /\ WF_vars(WriteTimerExpires) /\ WF_vars(WriteTimeout) /\ WF_vars(OnStop)
  /\ SF_vars(QueuedTask) /\ SF_vars(RetryConnection) /\ SF_vars(RetryProtocol)
  /\ WF_vars(GameTaskAdded)
  /\ WF_vars(UnRefStore \/ Disconnect \/ Collect \/ DropOld)
  /\ WF_vars(\E due \in SUBSET Listed : Collected(due))
  /\ WF_vars(SkipNext \/ SendNext \/ SendAllEnds)
  /\ SF_vars(Collected(Listed))

FairSpec == Spec /\ Fairness
-------------------------------------------------------------------------------
TypeOK ==
  /\ conn \in [state : {"OPEN", "REQUEST_CLOSE", "CLOSING", "CLOSED"},
               pendingRead : Nat, pendingWrite : Nat, readError : BOOLEAN,
               writeError : BOOLEAN, socket : {"open", "closed", "deleted"},
               receivedFirst : BOOLEAN]
  /\ protocol \in {"none", "attached", "releasing", "deleted"}
  /\ connRefs \in Int /\ protoRefs \in Int
  /\ reading \in {"none", "header", "body"}
  /\ writing \in Messages \cup {NoMessage}
  /\ readTimer \subseteq {"armed", "queued"} /\ writeTimer \subseteq {"armed", "queued"}
  /\ spc \in {"handle", "idle", "opcode", "opcodeStore", "verdict", "answer", "refuse",
              "refuseStore", "refuseSend"}
  /\ svcLoaded \in [conn : Int, proto : Int] /\ dspLoaded \in [conn : Int, proto : Int]
  /\ svcMsg \in Messages \cup {NoMessage} /\ dspMsg \in Messages \cup {NoMessage}
  /\ dpc \in {"idle", "unRef", "close", "ran", "collect", "sendAll"}
  /\ toSend \in Seq(Messages) /\ ripe \subseteq Messages
  /\ tasks \in Seq({"close", "login", "game"} \cup Messages)
  /\ stops \in Nat
  /\ retries \subseteq {"connection", "protocol"}
  /\ autoSend \in Seq(Messages) /\ addQueue \in Seq(Messages)
  /\ outputBuffer \in Messages \cup {NoMessage}
  /\ player \in BOOLEAN

\* A closeConnection task is queued exactly while close() has been called and
\* not yet answered, however often and by whomever it is called: the "[Error -
\* Connection::closeConnection] m_connectionState" branch is never taken.
OneCloseTask ==
  /\ conn.state = "REQUEST_CLOSE" <=> InSeq("close", tasks)
  /\ \A i, j \in DOMAIN tasks : tasks[i] = "close" /\ tasks[j] = "close" => i = j

\* m_pendingWrite counts the outstanding writes of an open connection, so that
\* at most one async_write is under way on the socket.
PendingWriteCounts ==
  conn.state = "OPEN" => conn.pendingWrite = IF writing = NoMessage THEN 0 ELSE 1

\* ... also after closeSocket has zeroed it: no write starts over another.
NoOverlappingWrites ==
  [][writing # NoMessage => writing' \in {writing, NoMessage}]_vars

\* The connection is released once: the release waits, or onStop is queued, or
\* it has run.
ReleasedOnce ==
  stops + (IF "connection" \in retries THEN 1 ELSE 0)
        + (IF conn.socket = "deleted" THEN 1 ELSE 0)
    = IF conn.state = "CLOSED" THEN 1 ELSE 0

\* Once onStop has freed the socket and ConnectionManager has dropped the
\* connection, nothing is left that would use either.
StoppedIsUnreferenced ==
  conn.socket = "deleted" => ~Referenced /\ ~InSeq("close", tasks)

\* The login task carries a bare pointer to its protocol: it runs before
\* closeConnection can release that protocol.
LoginFindsProtocol == InSeq("login", tasks) => protocol = "attached"

\* A message points to its protocol until it is back in the pool.
NoDanglingProtocol == (\E m \in Messages : Held(m)) => protocol # "deleted"

\* Between two updates both counters are the number of messages in use.
InUse == {m \in Messages : Held(m)}
RefsCountMessages ==
  spc \notin {"opcodeStore", "refuseStore"} /\ dpc # "unRef"
    => connRefs = protoRefs /\ (connRefs = 0 <=> InUse = {})

\* No pointer of a message, a handler, a task or a retry outlives what it points
\* to: the socket, the connection or the protocol (onStop, internalReleaseMessage,
\* releaseConnection, releaseProtocol).
NothingDangles == StoppedIsUnreferenced /\ NoDanglingProtocol /\ RefsCountMessages

\* closeConnection lets a pending write finish: only an error on that write or a
\* timeout closes the socket under it.
WritesOutliveClose ==
  [][conn.socket = "open" /\ conn'.socket # "open" /\ writing' # NoMessage
       => "queued" \in (readTimer \ readTimer') \cup (writeTimer \ writeTimer')]_vars

\* A connection that has been asked to close is destroyed, and its protocol too.
CloseCompletes == conn.state = "REQUEST_CLOSE" ~> conn.socket = "deleted"
ProtocolFreed  == conn.state = "REQUEST_CLOSE" ~> protocol \in {"none", "deleted"}
ClosedIsFreed  == CloseCompletes /\ ProtocolFreed

\* outputmessage.cpp:112 "It will send only messages bigger then 1 kb or with a
\* lifetime greater than 10 ms": what is in m_autoSend leaves it.
InAutoSend(m)  == InSeq(m, autoSend) \/ InSeq(m, toSend)
AutoSendLeaves == \A m \in Messages : InAutoSend(m) ~> ~InAutoSend(m)
===============================================================================
