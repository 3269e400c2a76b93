---------------------------- MODULE ConnectionProofs ---------------------------
(***************************************************************************)
(* What holds of Connection for any number of messages, any verdicts and   *)
(* any interleaving of the three threads.                                  *)
(*                                                                         *)
(* IInv is inductive.  OpenInv says that m_pendingRead and m_pendingWrite  *)
(* count the operations under way while the connection is open; QueueInv   *)
(* ties the close tasks and the logins in the queue to the state of the    *)
(* connection; LifeInv follows the release of connection and protocol.     *)
(*                                                                         *)
(* LiveInv counts the messages in use.  It needs what the code does not    *)
(* give: that the two threads do not update m_refCount at the same time.   *)
(***************************************************************************)
EXTENDS Connection, FiniteSetTheorems, TLAPS

Conns == [state : {"OPEN", "REQUEST_CLOSE", "CLOSING", "CLOSED"},
          pendingRead : Nat, pendingWrite : Nat, readError : BOOLEAN,
          writeError : BOOLEAN, socket : {"open", "closed", "deleted"},
          receivedFirst : BOOLEAN]

Entries == {"close", "login", "game"} \cup Messages

\* An open connection with the reads r and the writes w under way.
OpenConn(c, r, w) ==
  c.state = "OPEN" =>
    /\ c.pendingRead = IF r = "none" THEN 0 ELSE 1
    /\ c.pendingWrite = IF w = NoMessage THEN 0 ELSE 1
    /\ ~c.readError /\ ~c.writeError /\ c.socket = "open"

OpenInv == OpenConn(conn, reading, writing)

\* One close task at most, and no login behind it.
Orderly(q) ==
  \A i, j \in DOMAIN q : q[i] = "close" /\ q[j] \in {"close", "login"} => j <= i

CloseInv(c, q) == Orderly(q) /\ (c.state = "REQUEST_CLOSE" <=> InSeq("close", q))

QueueInv == CloseInv(conn, tasks)

\* What the service thread knows while it is inside a handler.
BusyInv ==
  /\ spc # "idle" => conn.state = "OPEN" /\ reading = "none"
  /\ spc = "handle" => protocol = "none" /\ writing = NoMessage
  /\ spc \notin {"idle", "handle"} => protocol = "attached"
  /\ spc = "refuseSend" => svcMsg \in Messages

LifeInv ==
  /\ ReleasedOnce
  /\ "protocol" \in retries <=> protocol = "releasing"
  /\ protocol \in {"releasing", "deleted"} => conn.state # "OPEN"
  /\ LoginFindsProtocol

IInv == TypeOK /\ OpenInv /\ QueueInv /\ BusyInv /\ LifeInv
-------------------------------------------------------------------------------
(* The task queue *)

LEMMA ConsFacts ==
  ASSUME NEW q \in Seq(Entries), NEW e \in Entries
  PROVE  /\ <<e>> \o q \in Seq(Entries)
         /\ DOMAIN (<<e>> \o q) = 1 .. Len(q) + 1
         /\ (<<e>> \o q)[1] = e
         /\ \A i \in 2 .. Len(q) + 1 : (<<e>> \o q)[i] = q[i - 1]
         /\ \A i \in 1 .. Len(q) : (<<e>> \o q)[i + 1] = q[i]
OBVIOUS

LEMMA AppendFacts ==
  ASSUME NEW q \in Seq(Entries), NEW e \in Entries
  PROVE  /\ Append(q, e) \in Seq(Entries)
         /\ DOMAIN Append(q, e) = 1 .. Len(q) + 1
         /\ Append(q, e)[Len(q) + 1] = e
         /\ \A i \in 1 .. Len(q) : Append(q, e)[i] = q[i]
OBVIOUS

LEMMA TailFacts ==
  ASSUME NEW q \in Seq(Entries), q # <<>>
  PROVE  /\ Tail(q) \in Seq(Entries)
         /\ Len(q) \in Nat \ {0}
         /\ DOMAIN q = 1 .. Len(q)
         /\ DOMAIN Tail(q) = 1 .. Len(q) - 1
         /\ Head(q) = q[1]
         /\ \A i \in 1 .. Len(q) - 1 : Tail(q)[i] = q[i + 1]
         /\ \A i \in 2 .. Len(q) : Tail(q)[i - 1] = q[i]
OBVIOUS

\* A message put in front of the queue disturbs neither closes nor logins.
LEMMA ConsMessage ==
  ASSUME NEW q \in Seq(Entries), NEW m \in Messages
  PROVE  /\ <<m>> \o q \in Seq(Entries)
         /\ Orderly(q) => Orderly(<<m>> \o q)
         /\ InSeq("close", <<m>> \o q) <=> InSeq("close", q)
         /\ InSeq("login", <<m>> \o q) <=> InSeq("login", q)
<1> DEFINE r == <<m>> \o q
<1>1. m \in Entries /\ m \notin {"close", "login"}
  BY ConnectionAssumption DEF Entries
<1>2. /\ r \in Seq(Entries)
      /\ DOMAIN r = 1 .. Len(q) + 1 /\ DOMAIN q = 1 .. Len(q) /\ Len(q) \in Nat
      /\ r[1] = m
      /\ \A i \in 2 .. Len(q) + 1 : r[i] = q[i - 1]
      /\ \A i \in 1 .. Len(q) : r[i + 1] = q[i]
  BY <1>1, ConsFacts
<1> HIDE DEF r
<1>3. ASSUME NEW x \in {"close", "login"}
      PROVE  InSeq(x, r) <=> InSeq(x, q)
  <2>1. ASSUME NEW i \in DOMAIN r, r[i] = x
        PROVE  i - 1 \in DOMAIN q /\ q[i - 1] = x
    BY <1>1, <1>2, <2>1
  <2>2. ASSUME NEW i \in DOMAIN q, q[i] = x
        PROVE  i + 1 \in DOMAIN r /\ r[i + 1] = x
    BY <1>2, <2>2
  <2> QED
    BY <2>1, <2>2 DEF InSeq
<1>4. ASSUME Orderly(q), NEW i \in DOMAIN r, NEW j \in DOMAIN r,
             r[i] = "close", r[j] \in {"close", "login"}
      PROVE  j <= i
  <2>1. i \in 2 .. Len(q) + 1 /\ j \in 2 .. Len(q) + 1
    BY <1>1, <1>2, <1>4
  <2>2. i - 1 \in DOMAIN q /\ j - 1 \in DOMAIN q /\ q[i - 1] = r[i] /\ q[j - 1] = r[j]
    BY <1>2, <2>1
  <2>3. j - 1 <= i - 1
    BY <1>4, <2>2 DEF Orderly
  <2> QED
    BY <2>1, <2>3
<1> QED
  BY <1>2, <1>3, <1>4 DEF r, Orderly

\* The queue loses its first entry.
LEMMA TailQueue ==
  ASSUME NEW q \in Seq(Entries), q # <<>>
  PROVE  /\ Tail(q) \in Seq(Entries)
         /\ Head(q) \in Entries
         /\ Orderly(q) => Orderly(Tail(q))
         /\ \A x : x # Head(q) => (InSeq(x, Tail(q)) <=> InSeq(x, q))
         /\ InSeq(Head(q), q)
         /\ Orderly(q) /\ Head(q) = "close"
              => ~InSeq("close", Tail(q)) /\ ~InSeq("login", q)
         /\ InSeq("login", Tail(q)) => InSeq("login", q)
<1> DEFINE r == Tail(q)
<1>1. /\ r \in Seq(Entries)
      /\ Len(q) \in Nat \ {0}
      /\ DOMAIN q = 1 .. Len(q) /\ DOMAIN r = 1 .. Len(q) - 1
      /\ Head(q) = q[1]
      /\ \A i \in 1 .. Len(q) - 1 : r[i] = q[i + 1]
      /\ \A i \in 2 .. Len(q) : r[i - 1] = q[i]
  BY TailFacts
<1>2. Head(q) \in Entries
  BY <1>1
<1> HIDE DEF r
<1>3. ASSUME NEW x, InSeq(x, r)
      PROVE  \E i \in 2 .. Len(q) : q[i] = x
  <2>1. PICK i \in DOMAIN r : r[i] = x
    BY <1>3 DEF InSeq
  <2>2. i + 1 \in 2 .. Len(q) /\ q[i + 1] = x
    BY <1>1, <2>1
  <2> QED
    BY <2>2
<1>4. ASSUME NEW x, NEW i \in 2 .. Len(q), q[i] = x
      PROVE  InSeq(x, r)
  <2>1. i - 1 \in DOMAIN r /\ r[i - 1] = x
    BY <1>1, <1>4
  <2> QED
    BY <2>1 DEF InSeq
<1>5. ASSUME NEW x, x # Head(q)
      PROVE  InSeq(x, r) <=> InSeq(x, q)
  <2>1. ASSUME InSeq(x, q)
        PROVE  InSeq(x, r)
    <3>1. PICK i \in DOMAIN q : q[i] = x
      BY <2>1 DEF InSeq
    <3>2. i \in 2 .. Len(q)
      BY <1>1, <1>5, <3>1
    <3> QED
      BY <1>4, <3>1, <3>2
  <2>2. ASSUME InSeq(x, r)
        PROVE  InSeq(x, q)
    <3>1. PICK i \in 2 .. Len(q) : q[i] = x
      BY <1>3, <2>2
    <3>2. i \in DOMAIN q
      BY <1>1
    <3> QED
      BY <3>1, <3>2 DEF InSeq
  <2> QED
    BY <2>1, <2>2
<1>6. InSeq(Head(q), q)
  BY <1>1 DEF InSeq
<1>7. ASSUME Orderly(q), Head(q) = "close"
      PROVE  ~InSeq("close", r) /\ ~InSeq("login", q)
  <2>1. ASSUME NEW i \in DOMAIN q, q[i] \in {"close", "login"}
        PROVE  i = 1
    <3>1. 1 \in DOMAIN q /\ q[1] = "close"
      BY <1>1, <1>7
    <3>2. i <= 1
      BY <1>7, <2>1, <3>1 DEF Orderly
    <3> QED
      BY <1>1, <3>2
  <2>2. ~InSeq("close", r)
    <3> SUFFICES ASSUME InSeq("close", r)
                 PROVE  FALSE
      OBVIOUS
    <3>1. PICK i \in 2 .. Len(q) : q[i] = "close"
      BY <1>3
    <3>2. i \in DOMAIN q
      BY <1>1
    <3>3. i = 1
      BY <2>1, <3>1, <3>2
    <3> QED
      BY <3>3
  <2>3. ~InSeq("login", q)
    <3> SUFFICES ASSUME NEW i \in DOMAIN q, q[i] = "login"
                 PROVE  FALSE
      BY DEF InSeq
    <3>1. i = 1
      BY <2>1
    <3> QED
      BY <1>1, <1>7, <3>1
  <2> QED
    BY <2>2, <2>3
<1>8. ASSUME Orderly(q), NEW i \in DOMAIN r, NEW j \in DOMAIN r,
             r[i] = "close", r[j] \in {"close", "login"}
      PROVE  j <= i
  <2>1. i + 1 \in DOMAIN q /\ j + 1 \in DOMAIN q /\ q[i + 1] = r[i] /\ q[j + 1] = r[j]
    BY <1>1
  <2>2. j + 1 <= i + 1
    BY <1>8, <2>1 DEF Orderly
  <2> QED
    BY <1>1, <2>2
<1>9. InSeq("login", r) => InSeq("login", q)
  <2> SUFFICES ASSUME InSeq("login", r)
               PROVE  InSeq("login", q)
    OBVIOUS
  <2>1. PICK i \in 2 .. Len(q) : q[i] = "login"
    BY <1>3
  <2>2. i \in DOMAIN q
    BY <1>1
  <2> QED
    BY <2>1, <2>2 DEF InSeq
<1>10. Orderly(q) => Orderly(r)
  BY <1>8 DEF Orderly
<1> QED
  BY <1>1, <1>2, <1>5, <1>6, <1>7, <1>9, <1>10 DEF r

\* The queue gains a last entry.
LEMMA AppendQueue ==
  ASSUME NEW q \in Seq(Entries), NEW e \in Entries
  PROVE  /\ Append(q, e) \in Seq(Entries)
         /\ \A x : InSeq(x, Append(q, e)) <=> InSeq(x, q) \/ x = e
         /\ Orderly(q) /\ (e \in {"close", "login"} => ~InSeq("close", q))
              => Orderly(Append(q, e))
<1> DEFINE r == Append(q, e)
<1>1. /\ r \in Seq(Entries)
      /\ DOMAIN r = 1 .. Len(q) + 1 /\ DOMAIN q = 1 .. Len(q) /\ Len(q) \in Nat
      /\ r[Len(q) + 1] = e
      /\ \A i \in 1 .. Len(q) : r[i] = q[i]
  BY AppendFacts
<1> HIDE DEF r
<1>2. ASSUME NEW x
      PROVE  InSeq(x, r) <=> InSeq(x, q) \/ x = e
  <2>1. ASSUME NEW i \in DOMAIN r, r[i] = x, x # e
        PROVE  i \in DOMAIN q /\ q[i] = x
    BY <1>1, <2>1
  <2>2. ASSUME NEW i \in DOMAIN q, q[i] = x
        PROVE  i \in DOMAIN r /\ r[i] = x
    BY <1>1, <2>2
  <2>3. Len(q) + 1 \in DOMAIN r
    BY <1>1
  <2> QED
    BY <1>1, <2>1, <2>2, <2>3 DEF InSeq
<1>3. ASSUME Orderly(q), e \in {"close", "login"} => ~InSeq("close", q),
             NEW i \in DOMAIN r, NEW j \in DOMAIN r,
             r[i] = "close", r[j] \in {"close", "login"}
      PROVE  j <= i
  <2>1. CASE i = Len(q) + 1
    BY <1>1, <2>1
  <2>2. CASE i # Len(q) + 1
    <3>1. i \in DOMAIN q /\ q[i] = "close"
      BY <1>1, <1>3, <2>2
    <3>2. e \notin {"close", "login"}
      BY <1>3, <3>1 DEF InSeq
    <3>3. j \in DOMAIN q /\ q[j] = r[j]
      BY <1>1, <1>3, <3>2
    <3> QED
      BY <1>3, <3>1, <3>3 DEF Orderly
  <2> QED
    BY <2>1, <2>2
<1> QED
  BY <1>1, <1>2, <1>3 DEF r, Orderly
-------------------------------------------------------------------------------
(* close(), closeSocket() and send() *)

LEMMA CloseFacts ==
  ASSUME NEW c \in Conns
  PROVE  /\ Close(c) \in Conns /\ Close(c).state # "OPEN"
         /\ Close(c).socket = c.socket
         /\ Close(c).state = "CLOSED" <=> c.state = "CLOSED"
BY DEF Close, MayClose, Conns

LEMMA AcceptType ==
  ASSUME NEW c \in Conns
  PROVE  Accept(c) \in Conns
<1>1. c.pendingRead + 1 \in Nat
  BY DEF Conns
<1> QED
  BY <1>1 DEF Accept, Conns

LEMMA CloseSocketFacts ==
  ASSUME NEW c \in Conns
  PROVE  /\ CloseSocket(c) \in Conns /\ CloseSocket(c).state = c.state
         /\ CloseSocket(c).socket = "deleted" <=> c.socket = "deleted"
BY DEF CloseSocket, Conns

LEMMA CloseQueue ==
  ASSUME NEW c \in Conns, NEW q \in Seq(Entries), CloseInv(c, q)
  PROVE  /\ CloseTask(c, q) \in Seq(Entries)
         /\ CloseInv(Close(c), CloseTask(c, q))
         /\ InSeq("login", CloseTask(c, q)) <=> InSeq("login", q)
<1>1. CASE MayClose(c)
  <2>1. "close" \in Entries /\ CloseTask(c, q) = Append(q, "close")
    BY <1>1 DEF Entries, CloseTask
  <2>2. ~InSeq("close", q)
    BY <1>1 DEF CloseInv, MayClose
  <2>3. Close(c).state = "REQUEST_CLOSE"
    BY <1>1 DEF Close, Conns
  <2>4. /\ Append(q, "close") \in Seq(Entries)
        /\ \A x : InSeq(x, Append(q, "close")) <=> InSeq(x, q) \/ x = "close"
        /\ Orderly(Append(q, "close"))
    BY <2>1, <2>2, AppendQueue DEF CloseInv
  <2> QED
    BY <2>1, <2>3, <2>4 DEF CloseInv
<1>2. CASE ~MayClose(c)
  BY <1>2 DEF Close, CloseTask
<1> QED
  BY <1>1, <1>2

\* m_pendingWrite never reaches the limit of a slow connection.
LEMMA NeverSlow ==
  ASSUME NEW c \in Conns, NEW r, NEW w, OpenConn(c, r, w)
  PROVE  ~Slow(c)
BY ConnectionAssumption DEF Slow, Accepting, OpenConn, Conns

LEMMA SendFacts ==
  ASSUME NEW c \in Conns, NEW r, NEW w, OpenConn(c, r, w)
  PROVE  /\ AfterSend(c) \in Conns
         /\ AfterSend(c).state = c.state /\ AfterSend(c).socket = c.socket
         /\ Starts(c) => w = NoMessage
         /\ \A m \in Messages : OpenConn(AfterSend(c), r, IF Starts(c) THEN m ELSE w)
<1>1. ~Slow(c)
  BY NeverSlow
<1>2. CASE Starts(c)
  <2>1. AfterSend(c) = [c EXCEPT !.pendingWrite = @ + 1]
    BY <1>2 DEF AfterSend
  <2>2. c.state = "OPEN" /\ c.pendingWrite = 0
    BY <1>2 DEF Starts, Accepting
  <2>3. w = NoMessage
    BY <2>2 DEF OpenConn
  <2> QED
    BY <1>2, <2>1, <2>2, <2>3, ConnectionAssumption DEF OpenConn, Conns
<1>3. CASE ~Starts(c)
  BY <1>1, <1>3 DEF AfterSend
<1> QED
  BY <1>2, <1>3

\* A message that is neither written nor deferred goes in front of the queue.
LEMMA SendQueue ==
  ASSUME NEW c \in Conns, NEW q \in Seq(Entries), NEW m \in Messages, ~Slow(c),
         conn = c, CloseInv(c, q)
  PROVE  /\ SendTasks(m, q) \in Seq(Entries)
         /\ CloseInv(c, SendTasks(m, q))
         /\ InSeq("login", SendTasks(m, q)) <=> InSeq("login", q)
<1>1. SendTasks(m, q) \in {q, <<m>> \o q}
  BY DEF SendTasks
<1>2. CASE SendTasks(m, q) = q
  BY <1>2
<1>3. CASE SendTasks(m, q) = <<m>> \o q
  <2>1. <<m>> \o q \in Seq(Entries) /\ CloseInv(c, <<m>> \o q)
        /\ (InSeq("login", <<m>> \o q) <=> InSeq("login", q))
    BY ConsMessage DEF CloseInv
  <2> QED
    BY <1>3, <2>1
<1> QED
  BY <1>1, <1>2, <1>3

\* A message from the pool.
LEMMA FromPoolFacts ==
  ASSUME Free # {}
  PROVE  FromPool \in Messages
BY DEF FromPool, Free
-------------------------------------------------------------------------------
(* Types *)

LEMMA ConnType == TypeOK => conn \in Conns /\ tasks \in Seq(Entries)
BY DEF TypeOK, Conns, Entries

LEMMA InitType == Init => TypeOK
<1> SUFFICES ASSUME Init
             PROVE  TypeOK
  OBVIOUS
<1>1. conn \in Conns
  BY DEF Init, Conns
<1>2. /\ svcLoaded \in [conn : Int, proto : Int] /\ dspLoaded \in [conn : Int, proto : Int]
      /\ connRefs \in Int /\ protoRefs \in Int /\ stops \in Nat
  BY DEF Init, NoRefs
<1>3. /\ toSend \in Seq(Messages) /\ autoSend \in Seq(Messages) /\ addQueue \in Seq(Messages)
      /\ tasks \in Seq({"close", "login", "game"} \cup Messages)
  BY DEF Init
<1> QED
  BY <1>1, <1>2, <1>3 DEF Init, TypeOK, Conns

\* send(m): the queue, the write and the deferred messages.
LEMMA SendSingleType ==
  ASSUME TypeOK, OpenInv, QueueInv, NEW m \in Messages, SendSingle(m)
  PROVE  /\ writing' \in Messages \cup {NoMessage}
         /\ writeTimer' \subseteq {"armed", "queued"}
         /\ addQueue' \in Seq(Messages)
         /\ AfterSend(conn) \in Conns
         /\ OpenConn(AfterSend(conn), reading, writing')
<1>1. conn \in Conns
  BY ConnType
<1>2. /\ AfterSend(conn) \in Conns
      /\ OpenConn(AfterSend(conn), reading, IF Starts(conn) THEN m ELSE writing)
  BY <1>1, SendFacts DEF OpenInv
<1>3. writing' = IF Starts(conn) THEN m ELSE writing
  BY DEF SendSingle
<1>4. writeTimer' \subseteq {"armed", "queued"}
  BY DEF SendSingle, TypeOK
<1>5. addQueue' \in Seq(Messages)
  <2>1. addQueue \in Seq(Messages) /\ Append(addQueue, m) \in Seq(Messages)
    BY DEF TypeOK
  <2> QED
    BY <2>1 DEF SendSingle
<1> QED
  BY <1>2, <1>3, <1>4, <1>5 DEF TypeOK

LEMMA ServiceType ==
  ASSUME TypeOK, OpenInv, QueueInv, BusyInv, ServiceStep
  PROVE  TypeOK'
<1>0. conn \in Conns /\ tasks \in Seq(Entries)
  BY ConnType
<1> USE DEF ioVars, readVars, writeVars, refVars, svcVars, dspVars, dspRest, closeVars,
            queueVars, poolVars
<1>1. CASE HandleSingleSocket
  <2>1. AfterSend(conn) \in Conns /\ FromPool \in Messages
    BY <1>0, <1>1, SendFacts, FromPoolFacts DEF OpenInv, HandleSingleSocket
  <2>2. conn' \in Conns
    BY <1>1, <2>1 DEF HandleSingleSocket, Accept, Conns
  <2> QED
    BY <1>1, <2>1, <2>2 DEF HandleSingleSocket, TypeOK, Conns
<1>2. CASE HandleShared
  <2>1. conn' \in Conns
    BY <1>0, <1>2 DEF HandleShared, Accept, Conns
  <2> QED
    BY <1>2, <2>1 DEF HandleShared, TypeOK, Conns
<1>3. CASE ParseHeader
  BY <1>3 DEF ParseHeader, TypeOK
<1>4. CASE ParsePacket
  BY <1>4 DEF ParsePacket, TypeOK
<1>5. CASE ParseUnknown
  <2> DEFINE c == [conn EXCEPT !.receivedFirst = TRUE, !.pendingRead = @ - 1]
  <2>0. conn.pendingRead = 1
    BY <1>5 DEF ParseUnknown, ReadsOn, OpenInv, OpenConn
  <2>1. c \in Conns
    <3>1. c = [conn EXCEPT !.receivedFirst = TRUE, !.pendingRead = 0]
      BY <1>0, <2>0 DEF Conns
    <3>2. [conn EXCEPT !.receivedFirst = TRUE, !.pendingRead = 0] \in Conns
      BY <1>0 DEF Conns
    <3> QED
      BY <3>1, <3>2
  <2>2. conn' \in Conns /\ tasks' \in Seq(Entries)
    BY <1>0, <1>5, <2>1, CloseFacts, CloseQueue DEF ParseUnknown, QueueInv
  <2> QED
    BY <1>5, <2>2 DEF ParseUnknown, TypeOK, Conns, Entries
<1>6. CASE ParseFirst
  <2>0. conn.pendingRead = 1
    BY <1>6 DEF ParseFirst, ReadsOn, OpenInv, OpenConn
  <2>1. conn' \in Conns
    <3>1. conn' = [conn EXCEPT !.receivedFirst = TRUE, !.pendingRead = 0]
      BY <1>0, <1>6, <2>0 DEF ParseFirst, Conns
    <3> QED
      BY <1>0, <3>1 DEF Conns
  <2> QED
    BY SMTT(40), <1>6, <2>1 DEF ParseFirst, TypeOK, Conns
<1>7. CASE VerdictClose
  <2>1. Close(conn) \in Conns /\ tasks' \in Seq(Entries)
    BY <1>0, <1>7, CloseFacts, CloseQueue DEF VerdictClose, QueueInv
  <2>2. conn' = Accept(Close(conn))
    BY <1>7 DEF VerdictClose
  <2>3. conn' \in Conns
    BY <2>1, <2>2, AcceptType
  <2> QED
    BY SMTT(40), <1>7, <2>1, <2>3 DEF VerdictClose, NextRead, TypeOK, Conns, Entries
<1>8. CASE VerdictAccept
  <2>1. conn' = Accept(conn)
    BY <1>8 DEF VerdictAccept
  <2>3. conn' \in Conns
    BY <1>0, <2>1, AcceptType
  <2>2. tasks' \in Seq(Entries)
    BY <1>0, <1>8, AppendQueue DEF VerdictAccept, Entries
  <2> QED
    BY <1>8, <2>3, <2>2 DEF VerdictAccept, NextRead, TypeOK, Conns, Entries
<1>9. CASE VerdictRefuse
  BY <1>9 DEF VerdictRefuse, TypeOK
<1>10. CASE AddRefLoad
  BY <1>10 DEF AddRefLoad, TypeOK
<1>11. CASE AddRefStore
  <2>1. connRefs' \in Int /\ protoRefs' \in Int /\ svcLoaded' \in [conn : Int, proto : Int]
    BY <1>11, SMTT(30) DEF AddRefStore, TypeOK, NoRefs
  <2>2. FromPool \in Messages
    BY <1>11, FromPoolFacts DEF AddRefStore
  <2>3. /\ spc' \in {"verdict", "refuseSend"}
        /\ outputBuffer' \in Messages \cup {NoMessage}
        /\ svcMsg' \in Messages \cup {NoMessage}
    BY <1>11, <2>2 DEF AddRefStore, TypeOK
  <2>4. autoSend' \in Seq(Messages)
    <3>1. autoSend \in Seq(Messages) /\ Append(autoSend, FromPool) \in Seq(Messages)
      BY <2>2 DEF TypeOK
    <3> QED
      BY <1>11, <3>1 DEF AddRefStore
  <2>5. UNCHANGED <<conn, protocol, reading, readTimer, writing, writeTimer, dpc, dspLoaded,
                    dspMsg, toSend, ripe, tasks, stops, retries, addQueue, player>>
    BY <1>11 DEF AddRefStore, ioVars, readVars, writeVars, dspVars, dspRest, queueVars, closeVars
  <2> QED
    BY SMTT(40), <2>1, <2>3, <2>4, <2>5 DEF TypeOK
<1>12. CASE RefuseSend
  <2>1. svcMsg \in Messages
    BY <1>12 DEF RefuseSend, BusyInv
  <2>2. /\ writing' \in Messages \cup {NoMessage} /\ writeTimer' \subseteq {"armed", "queued"}
        /\ addQueue' \in Seq(Messages)
        /\ AfterSend(conn) \in Conns
    BY <1>12, <2>1, SendSingleType DEF RefuseSend
  <2>3. Close(AfterSend(conn)) \in Conns
    BY <2>2, CloseFacts
  <2>4. conn' = Accept(Close(AfterSend(conn)))
    BY <1>12 DEF RefuseSend
  <2>5. conn' \in Conns
    BY <2>3, <2>4, AcceptType
  <2>6. /\ SendTasks(svcMsg, tasks) \in Seq(Entries)
        /\ CloseInv(AfterSend(conn), SendTasks(svcMsg, tasks))
    <3>1. ~Slow(conn) /\ AfterSend(conn).state = conn.state
      BY <1>0, NeverSlow, SendFacts DEF OpenInv
    <3> QED
      BY <1>0, <2>1, <3>1, SendQueue DEF QueueInv, CloseInv
  <2>7. tasks' \in Seq(Entries)
    BY <1>12, <2>2, <2>6, CloseQueue DEF RefuseSend
  <2> QED
    BY <1>12, <2>2, <2>5, <2>7 DEF RefuseSend, NextRead, TypeOK, Conns, Entries
<1>13. ASSUME NEW result \in Outcomes, ReadEnds(result)
       PROVE  TypeOK'
  <2> DEFINE c == [conn EXCEPT !.readError = @ \/ result # "ok"]
  <2>1. c \in Conns
    BY <1>0 DEF Conns
  <2>2. conn' \in Conns /\ tasks' \in Seq(Entries)
    BY <1>0, <1>13, <2>1, CloseFacts, CloseQueue DEF ReadEnds, QueueInv
  <2> QED
    BY <1>13, <2>2, SMTT(30) DEF ReadEnds, TypeOK, Conns, Entries
<1>14. ASSUME NEW result \in Outcomes, WriteEnds(result)
       PROVE  TypeOK'
  <2>1. /\ writing \in Messages
        /\ <<writing>> \o tasks \in Seq(Entries)
        /\ CloseInv(conn, <<writing>> \o tasks)
    BY <1>0, <1>14, ConsMessage DEF WriteEnds, TypeOK, QueueInv, CloseInv
  <2>2. CASE result = "ok" /\ Accepting(conn)
    <3>1. conn.pendingWrite = 1
      BY <1>14, <2>2 DEF WriteEnds, Accepting, OpenInv, OpenConn
    <3>2. conn' = [conn EXCEPT !.pendingWrite = 0]
      BY <1>0, <1>14, <2>2, <3>1 DEF WriteEnds, Conns
    <3>3. conn' \in Conns
      BY <1>0, <3>2 DEF Conns
    <3>4. tasks' \in Seq(Entries) /\ writing' = NoMessage
          /\ writeTimer' = writeTimer \ {"armed"}
      BY <1>14, <2>1, <2>2 DEF WriteEnds
    <3>5. UNCHANGED <<protocol, refVars, readVars, svcVars, dspVars, closeVars, poolVars,
                      player>>
      BY <1>14 DEF WriteEnds
    <3> QED
      BY <3>3, <3>4, <3>5 DEF TypeOK, Conns, Entries
  <2>3. CASE ~(result = "ok" /\ Accepting(conn))
    <3> DEFINE c == [conn EXCEPT !.writeError = @ \/ result # "ok"]
    <3>1. c \in Conns
      BY <1>0 DEF Conns
    <3>2. Close(CloseSocket(c)) \in Conns
      BY <3>1, CloseSocketFacts, CloseFacts
    <3>3. conn' \in Conns
      BY <1>14, <2>3, <3>2 DEF WriteEnds
    <3>4. tasks' \in Seq(Entries)
      BY <1>0, <1>14, <2>1, <2>3, CloseQueue DEF WriteEnds
    <3> QED
      BY <1>14, <2>3, <3>3, <3>4, SMTT(30) DEF WriteEnds, TypeOK, Conns, Entries
  <2> QED
    BY <2>2, <2>3
<1>15. CASE ReadTimeout
  <2>1. CloseSocket(conn) \in Conns /\ CloseTask(conn, tasks) \in Seq(Entries)
    BY <1>0, CloseSocketFacts, CloseQueue DEF QueueInv
  <2>2. Close(CloseSocket(conn)) \in Conns
    BY <2>1, CloseFacts
  <2>3. conn' \in Conns /\ tasks' \in Seq(Entries)
    BY <1>0, <1>15, <2>1, <2>2 DEF ReadTimeout
  <2> QED
    BY SMTT(40), <1>15, <2>3 DEF ReadTimeout, TypeOK, Conns, Entries
<1>16. CASE WriteTimeout
  <2>1. CloseSocket(conn) \in Conns /\ CloseTask(conn, tasks) \in Seq(Entries)
    BY <1>0, CloseSocketFacts, CloseQueue DEF QueueInv
  <2>2. Close(CloseSocket(conn)) \in Conns
    BY <2>1, CloseFacts
  <2>3. conn' \in Conns /\ tasks' \in Seq(Entries)
    BY <1>0, <1>16, <2>1, <2>2 DEF WriteTimeout
  <2> QED
    BY <1>16, <2>3 DEF WriteTimeout, TypeOK, Conns, Entries
<1>17. CASE OnStop
  <2>1. conn' \in Conns
    BY <1>0, <1>17 DEF OnStop, Conns
  <2>2. stops \in Nat
    BY DEF TypeOK
  <2>3. stops' \in Nat
    BY <1>17, <2>2 DEF OnStop
  <2> QED
    BY <1>17, <2>1, <2>3, SMTT(30) DEF OnStop, TypeOK, Conns
<1> QED
  BY <1>1, <1>2, <1>3, <1>4, <1>5, <1>6, <1>7, <1>8, <1>9, <1>10, <1>11, <1>12, <1>13,
     <1>14, <1>15, <1>16, <1>17 DEF ServiceStep

LEMMA TimerType ==
  ASSUME TypeOK, GameTaskAdded \/ ReadTimerExpires \/ WriteTimerExpires
  PROVE  TypeOK'
<1> USE DEF ioVars, readVars, writeVars, refVars, svcVars, dspVars, dspRest, closeVars,
            queueVars, poolVars
<1>1. CASE GameTaskAdded
  <2>1. Append(tasks, "game") \in Seq(Entries)
    BY ConnType, AppendQueue DEF Entries
  <2> QED
    BY <1>1, <2>1 DEF GameTaskAdded, TypeOK, Entries
<1>2. CASE ReadTimerExpires
  BY <1>2 DEF ReadTimerExpires, TypeOK
<1>3. CASE WriteTimerExpires
  BY <1>3 DEF WriteTimerExpires, TypeOK
<1> QED
  BY <1>1, <1>2, <1>3

LEMMA DispatcherType ==
  ASSUME TypeOK, OpenInv, QueueInv, DispatcherStep
  PROVE  TypeOK'
<1>0. conn \in Conns /\ tasks \in Seq(Entries)
  BY ConnType
<1>a. tasks # <<>> => Tail(tasks) \in Seq(Entries)
  BY <1>0, TailQueue
<1> USE DEF ioVars, readVars, writeVars, refVars, svcVars, dspVars, dspRest, closeVars,
            queueVars, poolVars
<1>1. CASE CloseConnection
  <2>1. tasks' \in Seq(Entries)
    BY <1>1, <1>a DEF CloseConnection
  <2>2. conn' \in Conns
    <3>1. CloseSocket(conn) \in Conns
      BY <1>0, CloseSocketFacts
    <3>2. conn' \in {conn, [CloseSocket(conn) EXCEPT !.state = "CLOSED"],
                     [conn EXCEPT !.state = "CLOSING"]}
      BY <1>1 DEF CloseConnection
    <3> QED
      BY <1>0, <3>1, <3>2 DEF Conns
  <2>3. protocol' \in {"none", "attached", "releasing", "deleted"}
    BY <1>1 DEF CloseConnection, TypeOK
  <2>4. stops' \in Nat /\ retries' \subseteq {"connection", "protocol"}
    BY <1>1, SMTT(30) DEF CloseConnection, ReleaseConnection, TypeOK
  <2> QED
    BY <1>1, <2>1, <2>2, <2>3, <2>4, SMTT(30) DEF CloseConnection, TypeOK, Conns, Entries
<1>2. CASE RetryConnection
  <2>0. stops \in Nat /\ retries \subseteq {"connection", "protocol"}
    BY DEF TypeOK
  <2>1. /\ stops' \in {stops, stops + 1}
        /\ retries' \in {retries \ {"connection"}, (retries \ {"connection"}) \cup {"connection"}}
    BY <1>2 DEF RetryConnection, ReleaseConnection
  <2>2. stops' \in Nat
    BY <2>0, <2>1
  <2>3. retries' \subseteq {"connection", "protocol"}
    BY <2>0, <2>1
  <2> QED
    BY <1>2, <2>2, <2>3 DEF RetryConnection, TypeOK
<1>3. CASE RetryProtocol
  <2>1. protocol' \in {protocol, "deleted"} /\ retries' \in {retries, retries \ {"protocol"}}
    BY <1>3 DEF RetryProtocol
  <2>2. retries' \subseteq {"connection", "protocol"}
    BY <2>1 DEF TypeOK
  <2> QED
    BY <1>3, <2>1, <2>2 DEF RetryProtocol, TypeOK
<1>4. CASE UnRefLoad
  BY SMTT(40), <1>4, <1>a DEF UnRefLoad, TypeOK, Entries
<1>5. CASE UnRefStore
  <2>1. connRefs' \in Int /\ protoRefs' \in Int /\ dspLoaded' \in [conn : Int, proto : Int]
    BY <1>5 DEF UnRefStore, TypeOK, NoRefs
  <2>2. /\ dspMsg' = NoMessage /\ dpc' = "ran"
        /\ UNCHANGED <<conn, protocol, ioVars, svcVars, toSend, ripe, queueVars, poolVars,
                       player>>
    BY <1>5 DEF UnRefStore
  <2> QED
    BY <2>1, <2>2 DEF TypeOK
<1>6. CASE Login
  BY <1>6, <1>a DEF Login, TypeOK, Entries
<1>7. CASE LoginRefused
  <2>1. FromPool \in Messages
    BY <1>7, FromPoolFacts DEF LoginRefused, Allocate
  <2>2. /\ writing' \in Messages \cup {NoMessage} /\ writeTimer' \subseteq {"armed", "queued"}
        /\ addQueue' \in Seq(Messages)
        /\ conn' \in Conns
    BY <1>7, <2>1, SendSingleType DEF LoginRefused
  <2>3. tasks' \in Seq(Entries)
    <3>1. SendTasks(FromPool, Tail(tasks)) \in
            {Tail(tasks), <<FromPool>> \o Tail(tasks),
             Append(Tail(tasks), "close"), Append(<<FromPool>> \o Tail(tasks), "close")}
      BY DEF SendTasks, CloseTask
    <3>2. Tail(tasks) \in Seq(Entries)
      BY <1>7, <1>a DEF LoginRefused
    <3>3. <<FromPool>> \o Tail(tasks) \in Seq(Entries)
      BY <2>1, <3>2, ConsMessage
    <3>4. "close" \in Entries
      BY DEF Entries
    <3>5. /\ Append(Tail(tasks), "close") \in Seq(Entries)
          /\ Append(<<FromPool>> \o Tail(tasks), "close") \in Seq(Entries)
      BY <3>2, <3>3, <3>4
    <3>6. tasks' = SendTasks(FromPool, Tail(tasks))
      BY <1>7 DEF LoginRefused
    <3> QED
      BY <3>1, <3>2, <3>3, <3>5, <3>6
  <2>4. connRefs' \in Int /\ protoRefs' \in Int
    BY <1>7 DEF LoginRefused, Allocate, TypeOK
  <2> QED
    BY <1>7, <2>2, <2>3, <2>4, SMTT(30) DEF LoginRefused, TypeOK, Conns, Entries
<1>8. CASE Disconnect
  <2>1. Close(conn) \in Conns /\ CloseTask(conn, tasks) \in Seq(Entries)
    BY <1>0, CloseFacts, CloseQueue DEF QueueInv
  <2> QED
    BY <1>8, <2>1 DEF Disconnect, TypeOK, Conns, Entries
<1>9. CASE KickTask
  BY <1>9, <1>a DEF KickTask, TakeGameTask, TypeOK, Entries
<1>10. CASE OtherTask
  BY <1>10, <1>a DEF OtherTask, TakeGameTask, TypeOK, Entries
<1>11. CASE OutputTask
  <2>1. FromPool \in Messages
    BY <1>11, FromPoolFacts DEF OutputTask, Allocate
  <2>2. Append(autoSend, FromPool) \in Seq(Messages)
    BY <2>1 DEF TypeOK
  <2>3. connRefs' \in Int /\ protoRefs' \in Int /\ tasks' \in Seq(Entries)
    BY <1>11, <1>a DEF OutputTask, TakeGameTask, Allocate, TypeOK
  <2> QED
    BY <1>11, <2>1, <2>2, <2>3 DEF OutputTask, TypeOK, Entries
<1>12. CASE Collect
  <2>1. /\ Head(addQueue) \in Messages /\ Tail(addQueue) \in Seq(Messages)
        /\ autoSend \in Seq(Messages)
    BY <1>12 DEF Collect, TypeOK
  <2>2. Append(autoSend, Head(addQueue)) \in Seq(Messages)
    BY <2>1
  <2> QED
    BY <1>12, <2>1, <2>2 DEF Collect, TypeOK
<1>13. CASE DropOld
  <2>1. Head(addQueue) \in Messages /\ Tail(addQueue) \in Seq(Messages)
    BY <1>13 DEF DropOld, TypeOK
  <2>2. <<Head(addQueue)>> \o tasks \in Seq(Entries)
    BY <1>0, <2>1, ConsMessage
  <2> QED
    BY SMTT(40), <1>13, <2>1, <2>2 DEF DropOld, TypeOK, Entries
<1>14. ASSUME NEW due \in SUBSET Listed, Collected(due)
       PROVE  TypeOK'
  <2>1. due \subseteq Messages /\ <<>> \in Seq(Messages)
    BY DEF Listed
  <2> QED
    BY <1>14, <2>1 DEF Collected, TypeOK
<1>15. CASE SkipNext
  <2>1. /\ Head(toSend) \in Messages /\ Tail(toSend) \in Seq(Messages)
        /\ autoSend \in Seq(Messages)
    BY <1>15 DEF SkipNext, TypeOK
  <2>2. Append(autoSend, Head(toSend)) \in Seq(Messages)
    BY <2>1
  <2> QED
    BY <1>15, <2>1, <2>2 DEF SkipNext, TypeOK
<1>16. CASE SendNext
  <2>1. Head(toSend) \in Messages /\ Tail(toSend) \in Seq(Messages)
    BY <1>16 DEF SendNext, TypeOK
  <2>2. /\ writing' \in Messages \cup {NoMessage} /\ writeTimer' \subseteq {"armed", "queued"}
        /\ addQueue' \in Seq(Messages)
        /\ conn' \in Conns
    BY <1>16, <2>1, SendSingleType DEF SendNext
  <2>3. tasks' \in Seq(Entries)
    <3>1. ~Slow(conn)
      BY <1>0, NeverSlow DEF OpenInv
    <3>2. SendTasks(Head(toSend), tasks) \in Seq(Entries)
      BY <1>0, <2>1, <3>1, SendQueue DEF QueueInv
    <3> QED
      BY <1>0, <1>16, <3>1, <3>2 DEF SendNext
  <2>4. outputBuffer' \in Messages \cup {NoMessage} /\ ripe' \subseteq Messages
    BY <1>16 DEF SendNext, TypeOK
  <2> QED
    BY <1>16, <2>1, <2>2, <2>3, <2>4, SMTT(30) DEF SendNext, TypeOK, Conns, Entries
<1>17. CASE SendAllEnds
  BY <1>17 DEF SendAllEnds, TypeOK
<1> QED
  BY <1>1, <1>2, <1>3, <1>4, <1>5, <1>6, <1>7, <1>8, <1>9, <1>10, <1>11, <1>12, <1>13,
     <1>14, <1>15, <1>16, <1>17 DEF DispatcherStep, QueuedTask
-------------------------------------------------------------------------------
(* The other parts of the invariant *)

\* A step that leaves the connection alone may reorder the queue as long as
\* neither closes nor logins come into it.
LEMMA Frame ==
  ASSUME OpenInv, QueueInv, BusyInv, LifeInv,
         UNCHANGED <<conn, reading, writing, spc, protocol, retries, stops>>,
         svcMsg' = svcMsg, CloseInv(conn, tasks'),
         InSeq("login", tasks') => InSeq("login", tasks)
  PROVE  OpenInv' /\ QueueInv' /\ BusyInv' /\ LifeInv'
<1>1. OpenInv'
  BY DEF OpenInv
<1>2. QueueInv'
  BY DEF QueueInv
<1>3. BusyInv'
  BY DEF BusyInv
<1>4. LifeInv'
  BY DEF LifeInv, ReleasedOnce, LoginFindsProtocol
<1> QED
  BY <1>1, <1>2, <1>3, <1>4

LEMMA TimerInv ==
  ASSUME TypeOK, OpenInv, QueueInv, BusyInv, LifeInv,
         GameTaskAdded \/ ReadTimerExpires \/ WriteTimerExpires
  PROVE  OpenInv' /\ QueueInv' /\ BusyInv' /\ LifeInv'
<1> USE DEF ioVars, readVars, writeVars, refVars, svcVars, dspVars, dspRest, closeVars,
            queueVars, poolVars
<1>1. CASE GameTaskAdded
  <2>1. /\ Orderly(Append(tasks, "game"))
        /\ \A x : InSeq(x, Append(tasks, "game")) <=> InSeq(x, tasks) \/ x = "game"
    <3>1. tasks \in Seq(Entries) /\ "game" \in Entries
      BY ConnType DEF Entries
    <3> QED
      BY <3>1, AppendQueue DEF QueueInv, CloseInv
  <2>2. CloseInv(conn, tasks') /\ (InSeq("login", tasks') => InSeq("login", tasks))
    BY <1>1, <2>1 DEF GameTaskAdded, QueueInv, CloseInv
  <2>3. /\ UNCHANGED <<conn, reading, writing, spc, protocol, retries, stops>>
        /\ svcMsg' = svcMsg
    BY <1>1 DEF GameTaskAdded
  <2> QED
    BY <2>2, <2>3, Frame
<1>2. CASE ReadTimerExpires \/ WriteTimerExpires
  <2>1. /\ UNCHANGED <<conn, reading, writing, spc, protocol, retries, stops>>
        /\ svcMsg' = svcMsg /\ tasks' = tasks
    BY <1>2 DEF ReadTimerExpires, WriteTimerExpires
  <2> QED
    BY <2>1, Frame DEF QueueInv
<1> QED
  BY <1>1, <1>2

\* A step that ends in close() on d, which the step has made of conn, with the
\* queue q.
LEMMA Closing ==
  ASSUME TypeOK, OpenInv, QueueInv, BusyInv, LifeInv,
         NEW d \in Conns, d.state = conn.state,
         d.socket = "deleted" <=> conn.socket = "deleted",
         NEW q \in Seq(Entries), CloseInv(conn, q), InSeq("login", q) => InSeq("login", tasks),
         conn'.state = Close(d).state, conn'.socket = Close(d).socket,
         tasks' = CloseTask(d, q),
         spc' = "idle", UNCHANGED <<protocol, retries, stops>>
  PROVE  OpenInv' /\ QueueInv' /\ BusyInv' /\ LifeInv'
<1>1. /\ Close(d).state # "OPEN" /\ Close(d).socket = d.socket
      /\ Close(d).state = "CLOSED" <=> d.state = "CLOSED"
  BY CloseFacts
<1>2. CloseInv(d, q)
  BY DEF CloseInv
<1>3. /\ CloseInv(Close(d), CloseTask(d, q))
      /\ InSeq("login", CloseTask(d, q)) <=> InSeq("login", q)
  BY <1>2, CloseQueue
<1>4. OpenInv'
  BY <1>1 DEF OpenInv, OpenConn
<1>5. QueueInv'
  BY <1>3 DEF QueueInv, CloseInv
<1>6. BusyInv'
  BY DEF BusyInv
<1>7. LifeInv'
  <2>1. ReleasedOnce'
    BY <1>1 DEF LifeInv, ReleasedOnce
  <2>2. LoginFindsProtocol'
    BY <1>3 DEF LifeInv, LoginFindsProtocol
  <2> QED
    BY <1>1, <2>1, <2>2 DEF LifeInv
<1> QED
  BY <1>4, <1>5, <1>6, <1>7

\* A step that ends in send(m).
LEMMA Sending ==
  ASSUME TypeOK, OpenInv, QueueInv, BusyInv, LifeInv,
         NEW m \in Messages, SendSingle(m), conn' = AfterSend(conn),
         CloseInv(conn, tasks'), InSeq("login", tasks') => InSeq("login", tasks),
         spc = "idle", UNCHANGED <<reading, spc, protocol, retries, stops>>
  PROVE  OpenInv' /\ QueueInv' /\ BusyInv' /\ LifeInv'
<1>1. /\ conn'.state = conn.state /\ conn'.socket = conn.socket
      /\ OpenConn(conn', reading, writing')
  BY ConnType, SendFacts, SendSingleType DEF OpenInv
<1>2. OpenInv'
  BY <1>1 DEF OpenInv
<1>3. QueueInv'
  BY <1>1 DEF QueueInv, CloseInv
<1>4. BusyInv'
  BY DEF BusyInv
<1>5. LifeInv'
  BY <1>1 DEF LifeInv, ReleasedOnce, LoginFindsProtocol
<1> QED
  BY <1>2, <1>3, <1>4, <1>5

LEMMA ServiceInv ==
  ASSUME TypeOK, OpenInv, QueueInv, BusyInv, LifeInv, ServiceStep
  PROVE  OpenInv' /\ QueueInv' /\ BusyInv' /\ LifeInv'
<1>0. conn \in Conns /\ tasks \in Seq(Entries)
  BY ConnType
<1> USE DEF ioVars, readVars, writeVars, refVars, svcVars, dspVars, dspRest, closeVars,
            queueVars, poolVars
<1>1. CASE HandleSingleSocket
  <2>1. conn.state = "OPEN" /\ reading = "none" /\ protocol = "none" /\ writing = NoMessage
    BY <1>1 DEF HandleSingleSocket, BusyInv
  <2>2. conn.pendingRead = 0 /\ conn.pendingWrite = 0 /\ Starts(conn)
    BY <2>1 DEF OpenInv, OpenConn, Starts, Accepting
  <2>3. AfterSend(conn) = [conn EXCEPT !.pendingWrite = 1]
    BY <1>0, <2>2 DEF AfterSend, Conns
  <2>4. conn' = [conn EXCEPT !.pendingWrite = 1, !.pendingRead = 1]
    <3>1. conn' = Accept(AfterSend(conn))
      BY <1>1 DEF HandleSingleSocket
    <3>2. AfterSend(conn).pendingRead = 0
      BY <1>0, <2>2, <2>3 DEF Conns
    <3>3. conn' = [AfterSend(conn) EXCEPT !.pendingRead = 1]
      BY <3>1, <3>2 DEF Accept
    <3> QED
      BY <1>0, <2>3, <3>3 DEF Conns
  <2>5. writing' # NoMessage
    BY <1>1, FromPoolFacts, ConnectionAssumption DEF HandleSingleSocket
  <2>6. OpenInv'
    BY <1>0, <1>1, <2>1, <2>4, <2>5 DEF HandleSingleSocket, OpenInv, OpenConn, Conns
  <2>7. QueueInv' /\ LifeInv'
    BY <1>0, <1>1, <2>1, <2>4 DEF HandleSingleSocket, QueueInv, CloseInv, LifeInv, ReleasedOnce,
                                LoginFindsProtocol, Conns
  <2>8. BusyInv'
    BY <1>1 DEF HandleSingleSocket, BusyInv
  <2> QED
    BY <2>6, <2>7, <2>8
<1>2. CASE HandleShared
  <2>1. conn.state = "OPEN" /\ reading = "none" /\ writing = NoMessage
    BY <1>2 DEF HandleShared, BusyInv
  <2>2. conn.pendingRead = 0
    BY <2>1 DEF OpenInv, OpenConn
  <2>3. conn' = [conn EXCEPT !.pendingRead = 1]
    BY <1>0, <1>2, <2>2 DEF HandleShared, Accept, Conns
  <2>4. OpenInv'
    BY <1>0, <1>2, <2>1, <2>3 DEF HandleShared, OpenInv, OpenConn, Conns
  <2>5. QueueInv' /\ LifeInv'
    BY <1>0, <1>2, <2>3 DEF HandleShared, QueueInv, CloseInv, LifeInv, ReleasedOnce,
                            LoginFindsProtocol, Conns
  <2>6. BusyInv'
    BY <1>2 DEF HandleShared, BusyInv
  <2> QED
    BY <2>4, <2>5, <2>6
<1>3. CASE ParseHeader \/ ParsePacket
  <2>1. /\ reading # "none" /\ reading' # "none" /\ spc = "idle"
        /\ UNCHANGED <<conn, writing, tasks, spc, protocol, retries, stops, svcMsg>>
    BY <1>3 DEF ParseHeader, ParsePacket
  <2>2. OpenInv' /\ QueueInv' /\ BusyInv'
    BY <2>1 DEF OpenInv, OpenConn, QueueInv, BusyInv
  <2>3. LifeInv'
    BY <2>1 DEF LifeInv, ReleasedOnce, LoginFindsProtocol
  <2> QED
    BY <2>2, <2>3
<1>4. CASE ParseUnknown
  <2> DEFINE d == [conn EXCEPT !.receivedFirst = TRUE, !.pendingRead = @ - 1]
  <2>1. conn.pendingRead = 1
    BY <1>4 DEF ParseUnknown, ReadsOn, OpenInv, OpenConn
  <2>2. d = [conn EXCEPT !.receivedFirst = TRUE, !.pendingRead = 0]
    BY <1>0, <2>1 DEF Conns
  <2>3. /\ [conn EXCEPT !.receivedFirst = TRUE, !.pendingRead = 0] \in Conns
        /\ d.state = conn.state /\ d.socket = conn.socket
    BY <1>0 DEF Conns
  <2>4. /\ conn' = Close(d) /\ tasks' = CloseTask(conn, tasks)
        /\ spc' = "idle" /\ UNCHANGED <<protocol, retries, stops>>
    BY <1>4 DEF ParseUnknown
  <2>5. tasks' = CloseTask(d, tasks)
    BY <2>3, <2>4 DEF CloseTask, MayClose
  <2>6. d \in Conns
    BY <2>2, <2>3
  <2> HIDE DEF d
  <2> QED
    BY <1>0, <2>3, <2>4, <2>5, <2>6, Closing DEF QueueInv
<1>5. CASE ParseFirst
  <2>1. /\ conn.state = "OPEN" /\ conn.pendingRead = 1 /\ reading' = "none"
        /\ spc' \in {"opcode", "verdict", "answer"} /\ protocol' = "attached"
        /\ UNCHANGED <<writing, tasks, retries, stops, svcMsg>>
    BY <1>5 DEF ParseFirst, ReadsOn, OpenInv, OpenConn
  <2>2. conn' = [conn EXCEPT !.receivedFirst = TRUE, !.pendingRead = 0]
    BY <1>0, <1>5, <2>1 DEF ParseFirst, Conns
  <2>3. OpenInv'
    BY <1>0, <2>1, <2>2 DEF OpenInv, OpenConn, Conns
  <2>4. conn'.state = conn.state /\ conn'.socket = conn.socket
    BY <1>0, <2>2 DEF Conns
  <2>5. QueueInv' /\ BusyInv'
    BY <2>1, <2>4 DEF QueueInv, CloseInv, BusyInv
  <2>6. LifeInv'
    BY <2>1, <2>4 DEF LifeInv, ReleasedOnce, LoginFindsProtocol
  <2> QED
    BY <2>3, <2>5, <2>6
<1>6. CASE VerdictClose
  <2>1. Close(conn) \in Conns
    BY <1>0, CloseFacts
  <2>2. /\ conn' = Accept(Close(conn)) /\ tasks' = CloseTask(conn, tasks)
        /\ spc' = "idle" /\ UNCHANGED <<protocol, retries, stops>>
    BY <1>6 DEF VerdictClose, NextRead
  <2>3. conn'.state = Close(conn).state /\ conn'.socket = Close(conn).socket
    BY <2>1, <2>2 DEF Accept, Conns
  <2> QED
    BY <1>0, <2>2, <2>3, Closing DEF QueueInv
<1>7. CASE VerdictAccept
  <2>1. conn.state = "OPEN" /\ reading = "none" /\ protocol = "attached"
    BY <1>7 DEF VerdictAccept, BusyInv
  <2>2. conn' = [conn EXCEPT !.pendingRead = 1]
    BY <1>0, <1>7, <2>1 DEF VerdictAccept, Accept, OpenInv, OpenConn, Conns
  <2>3. /\ reading' # "none" /\ spc' = "idle" /\ tasks' = Append(tasks, "login")
        /\ UNCHANGED <<writing, protocol, retries, stops>>
    BY <1>7 DEF VerdictAccept, NextRead
  <2>4. conn'.state = conn.state /\ conn'.socket = conn.socket
    BY <1>0, <2>2 DEF Conns
  <2>5. OpenInv' /\ BusyInv'
    BY <1>0, <2>1, <2>2, <2>3 DEF OpenInv, OpenConn, BusyInv, Conns
  <2>6. QueueInv'
    <3>1. ~InSeq("close", tasks) /\ "login" \in Entries
      BY <2>1 DEF QueueInv, CloseInv, Entries
    <3>2. /\ Orderly(Append(tasks, "login"))
          /\ \A x : InSeq(x, Append(tasks, "login")) <=> InSeq(x, tasks) \/ x = "login"
      BY <1>0, <3>1, AppendQueue DEF QueueInv, CloseInv
    <3> QED
      BY <2>1, <2>3, <2>4, <3>1, <3>2 DEF QueueInv, CloseInv
  <2>7. LifeInv'
    BY <2>1, <2>3, <2>4 DEF LifeInv, ReleasedOnce, LoginFindsProtocol
  <2> QED
    BY <2>5, <2>6, <2>7
<1>8. CASE VerdictRefuse \/ AddRefLoad \/ AddRefStore
  <2>1. /\ spc \notin {"idle", "handle"} /\ spc' \notin {"idle", "handle"}
        /\ UNCHANGED <<conn, reading, writing, tasks, protocol, retries, stops>>
        /\ spc' = "refuseSend" => svcMsg' \in Messages
    BY <1>8, FromPoolFacts DEF VerdictRefuse, Deciding, AddRefLoad, AddRefStore
  <2>2. OpenInv' /\ QueueInv' /\ BusyInv'
    BY <2>1 DEF OpenInv, QueueInv, BusyInv
  <2>3. LifeInv'
    BY <2>1 DEF LifeInv, ReleasedOnce, LoginFindsProtocol
  <2> QED
    BY <2>2, <2>3
<1>9. CASE RefuseSend
  <2> DEFINE d == AfterSend(conn)
             q == SendTasks(svcMsg, tasks)
  <2>1. svcMsg \in Messages
    BY <1>9 DEF RefuseSend, BusyInv
  <2>2. ~Slow(conn) /\ d \in Conns /\ d.state = conn.state /\ d.socket = conn.socket
    BY <1>0, NeverSlow, SendFacts DEF OpenInv
  <2>3. /\ q \in Seq(Entries) /\ CloseInv(conn, q)
        /\ InSeq("login", q) <=> InSeq("login", tasks)
    BY <1>0, <2>1, <2>2, SendQueue DEF QueueInv
  <2>4. /\ conn' = Accept(Close(d)) /\ tasks' = CloseTask(d, q)
        /\ spc' = "idle" /\ UNCHANGED <<protocol, retries, stops>>
    BY <1>9 DEF RefuseSend, NextRead
  <2> HIDE DEF d, q
  <2>5. Close(d) \in Conns
    BY <2>2, CloseFacts
  <2>6. conn'.state = Close(d).state /\ conn'.socket = Close(d).socket
    BY <2>4, <2>5 DEF Accept, Conns
  <2> QED
    BY <2>2, <2>3, <2>4, <2>6, Closing
<1>10. ASSUME NEW result \in Outcomes, ReadEnds(result)
       PROVE  OpenInv' /\ QueueInv' /\ BusyInv' /\ LifeInv'
  <2> DEFINE d == [conn EXCEPT !.readError = @ \/ result # "ok"]
  <2>1. d \in Conns /\ d.state = conn.state /\ d.socket = conn.socket
    BY <1>0 DEF Conns
  <2>2. /\ conn' = Close(d) /\ tasks' = CloseTask(conn, tasks)
        /\ spc' = "idle" /\ UNCHANGED <<protocol, retries, stops>>
    BY <1>10 DEF ReadEnds
  <2>3. tasks' = CloseTask(d, tasks)
    BY <2>1, <2>2 DEF CloseTask, MayClose
  <2> HIDE DEF d
  <2> QED
    BY <1>0, <2>1, <2>2, <2>3, Closing DEF QueueInv
<1>11. ASSUME NEW result \in Outcomes, WriteEnds(result)
       PROVE  OpenInv' /\ QueueInv' /\ BusyInv' /\ LifeInv'
  <2>1. /\ writing \in Messages /\ writing # NoMessage
        /\ <<writing>> \o tasks \in Seq(Entries)
        /\ CloseInv(conn, <<writing>> \o tasks)
        /\ InSeq("login", <<writing>> \o tasks) <=> InSeq("login", tasks)
    BY <1>0, <1>11, ConsMessage DEF WriteEnds, TypeOK, QueueInv, CloseInv
  <2>2. /\ spc = "idle" /\ spc' = "idle" /\ writing' = NoMessage
        /\ UNCHANGED <<reading, protocol, retries, stops>>
    BY <1>11 DEF WriteEnds
  <2>3. CASE result = "ok" /\ Accepting(conn)
    <3>1. conn.state = "OPEN" /\ conn.pendingWrite = 1
      BY <2>1, <2>3 DEF Accepting, OpenInv, OpenConn
    <3>2. /\ conn' = [conn EXCEPT !.pendingWrite = 0]
          /\ tasks' = <<writing>> \o tasks
      BY <1>0, <1>11, <2>3, <3>1 DEF WriteEnds, Conns
    <3>3. conn'.state = conn.state /\ conn'.socket = conn.socket
      BY <1>0, <3>2 DEF Conns
    <3>4. OpenInv' /\ BusyInv'
      BY <1>0, <2>2, <3>1, <3>2 DEF OpenInv, OpenConn, BusyInv, Conns
    <3>5. QueueInv'
      BY <2>1, <3>2, <3>3 DEF QueueInv, CloseInv
    <3>6. LifeInv'
      BY <2>1, <2>2, <3>2, <3>3 DEF LifeInv, ReleasedOnce, LoginFindsProtocol
    <3> QED
      BY <3>4, <3>5, <3>6
  <2>4. CASE ~(result = "ok" /\ Accepting(conn))
    <3> DEFINE c == [conn EXCEPT !.writeError = @ \/ result # "ok"]
               d == CloseSocket(c)
               q == <<writing>> \o tasks
    <3>1. c \in Conns /\ c.state = conn.state /\ c.socket = conn.socket
      BY <1>0 DEF Conns
    <3>2. conn' = Close(d) /\ tasks' = CloseTask(conn, q)
      BY <1>11, <2>4 DEF WriteEnds
    <3> HIDE DEF c
    <3>3. /\ d \in Conns /\ d.state = conn.state
          /\ d.socket = "deleted" <=> conn.socket = "deleted"
      BY <3>1, CloseSocketFacts
    <3>4. tasks' = CloseTask(d, q)
      BY <3>2, <3>3 DEF CloseTask, MayClose
    <3> HIDE DEF d, q
    <3>5. q \in Seq(Entries) /\ CloseInv(conn, q) /\ (InSeq("login", q) => InSeq("login", tasks))
      BY <2>1 DEF q
    <3> QED
      BY <2>2, <3>2, <3>3, <3>4, <3>5, Closing
  <2> QED
    BY <2>3, <2>4
<1>12. CASE ReadTimeout \/ WriteTimeout
  <2> DEFINE d == CloseSocket(conn)
  <2>1. /\ d \in Conns /\ d.state = conn.state
        /\ d.socket = "deleted" <=> conn.socket = "deleted"
    BY <1>0, CloseSocketFacts
  <2>2. /\ spc' = "idle"
        /\ UNCHANGED <<reading, writing, svcMsg, spc, protocol, retries, stops>>
    BY <1>12 DEF ReadTimeout, WriteTimeout
  <2>3. CASE conn' = Close(d) /\ tasks' = CloseTask(conn, tasks)
    <3>1. tasks' = CloseTask(d, tasks)
      BY <2>1, <2>3 DEF CloseTask, MayClose
    <3> HIDE DEF d
    <3> QED
      BY <1>0, <2>1, <2>2, <2>3, <3>1, Closing DEF QueueInv
  <2>4. CASE UNCHANGED <<conn, tasks>>
    BY <2>2, <2>4, Frame DEF QueueInv
  <2> QED
    BY <1>12, <2>3, <2>4 DEF ReadTimeout, WriteTimeout
<1>13. CASE OnStop
  <2>1. /\ stops \in Nat /\ stops > 0 /\ stops' = stops - 1 /\ spc' = "idle"
        /\ UNCHANGED <<tasks, retries, protocol>>
    BY <1>13 DEF OnStop, TypeOK
  <2>2. conn'.socket = "deleted" /\ conn'.state = conn.state
    BY <1>0, <1>13 DEF OnStop, Conns
  <2>3. /\ stops = 1 /\ "connection" \notin retries /\ conn.socket # "deleted"
        /\ conn.state = "CLOSED"
    BY <2>1 DEF LifeInv, ReleasedOnce
  <2>4. OpenInv' /\ BusyInv'
    BY <2>1, <2>2, <2>3 DEF OpenInv, OpenConn, BusyInv
  <2>5. QueueInv'
    BY <2>1, <2>2 DEF QueueInv, CloseInv
  <2>6. LifeInv'
    BY <2>1, <2>2, <2>3 DEF LifeInv, ReleasedOnce, LoginFindsProtocol
  <2> QED
    BY <2>4, <2>5, <2>6
<1> QED
  BY <1>1, <1>2, <1>3, <1>4, <1>5, <1>6, <1>7, <1>8, <1>9, <1>10, <1>11, <1>12, <1>13
     DEF ServiceStep

LEMMA DispatcherInv ==
  ASSUME TypeOK, OpenInv, QueueInv, BusyInv, LifeInv, DispatcherStep
  PROVE  OpenInv' /\ QueueInv' /\ BusyInv' /\ LifeInv'
<1>0. conn \in Conns /\ tasks \in Seq(Entries)
  BY ConnType
<1>a. ASSUME tasks # <<>>, Head(tasks) # "close"
      PROVE  /\ Tail(tasks) \in Seq(Entries)
             /\ CloseInv(conn, Tail(tasks))
             /\ InSeq("login", Tail(tasks)) => InSeq("login", tasks)
  BY <1>0, <1>a, TailQueue DEF QueueInv, CloseInv
<1> USE DEF ioVars, readVars, writeVars, refVars, svcVars, dspVars, dspRest, closeVars,
            queueVars, poolVars
<1>1. CASE CloseConnection
  <2>1. /\ tasks # <<>> /\ Head(tasks) = "close" /\ tasks' = Tail(tasks) /\ spc = "idle"
        /\ UNCHANGED <<reading, writing, spc>>
    BY <1>1 DEF CloseConnection, ConnectionUnlocked
  <2>2. /\ Orderly(Tail(tasks))
        /\ ~InSeq("close", Tail(tasks)) /\ ~InSeq("login", Tail(tasks))
        /\ InSeq("close", tasks)
    BY <1>0, <2>1, TailQueue DEF QueueInv, CloseInv
  <2>3. conn.state = "REQUEST_CLOSE"
    BY <2>2 DEF QueueInv, CloseInv
  <2>4. stops = 0 /\ "connection" \notin retries /\ conn.socket # "deleted"
    BY <2>3 DEF LifeInv, ReleasedOnce, TypeOK
  <2>5. conn'.state \in {"CLOSING", "CLOSED"}
    BY <1>0, <1>1, <2>3, CloseSocketFacts DEF CloseConnection, Conns
  <2>6. OpenInv' /\ BusyInv'
    BY <2>1, <2>5 DEF OpenInv, OpenConn, BusyInv
  <2>7. QueueInv'
    BY <2>1, <2>2, <2>5 DEF QueueInv, CloseInv
  <2>8. LoginFindsProtocol'
    BY <2>1, <2>2 DEF LoginFindsProtocol
  <2> DEFINE waiting == IF protocol = "attached" /\ protoRefs # 0
                        THEN retries \cup {"protocol"} ELSE retries
  <2>9. /\ protocol' = IF protocol # "attached" THEN protocol
                       ELSE IF protoRefs # 0 THEN "releasing" ELSE "deleted"
        /\ \/ /\ conn' = [CloseSocket(conn) EXCEPT !.state = "CLOSED"]
              /\ ReleaseConnection(waiting)
           \/ /\ conn' = [conn EXCEPT !.state = "CLOSING"]
              /\ retries' = waiting /\ stops' = stops
    BY <1>1, <2>3 DEF CloseConnection
  <2>10. "connection" \notin waiting
    BY <2>4
  <2>11. ReleasedOnce'
    <3>1. CASE /\ conn' = [CloseSocket(conn) EXCEPT !.state = "CLOSED"]
               /\ ReleaseConnection(waiting)
      <4>1. conn'.state = "CLOSED" /\ conn'.socket # "deleted"
        BY <1>0, <2>4, <3>1, CloseSocketFacts DEF Conns
      <4>2. \/ stops' = 0 /\ "connection" \in retries'
            \/ stops' = 1 /\ "connection" \notin retries'
        BY <2>4, <2>10, <3>1 DEF ReleaseConnection
      <4> QED
        BY <4>1, <4>2 DEF ReleasedOnce
    <3>2. CASE conn' = [conn EXCEPT !.state = "CLOSING"] /\ retries' = waiting /\ stops' = stops
      <4>1. conn'.state = "CLOSING" /\ conn'.socket # "deleted"
        BY <1>0, <2>4, <3>2 DEF Conns
      <4> QED
        BY <2>4, <2>10, <3>2, <4>1 DEF ReleasedOnce
    <3> QED
      BY <2>9, <3>1, <3>2
  <2>12. "protocol" \in retries' <=> "protocol" \in waiting
    BY <2>9 DEF ReleaseConnection
  <2>13. "protocol" \in retries' <=> protocol' = "releasing"
    BY <2>9, <2>12 DEF LifeInv
  <2> QED
    BY <2>5, <2>6, <2>7, <2>8, <2>11, <2>13 DEF LifeInv
<1>2. CASE RetryConnection
  <2>1. /\ UNCHANGED <<conn, reading, writing, tasks, spc, svcMsg, protocol>>
        /\ "connection" \in retries /\ ReleaseConnection(retries \ {"connection"})
    BY <1>2 DEF RetryConnection
  <2>2. stops = 0 /\ conn.socket # "deleted" /\ conn.state = "CLOSED"
    BY <2>1 DEF LifeInv, ReleasedOnce, TypeOK
  <2>3. /\ \/ stops' = 0 /\ "connection" \in retries'
           \/ stops' = 1 /\ "connection" \notin retries'
        /\ "protocol" \in retries' <=> "protocol" \in retries
    BY <2>1, <2>2 DEF ReleaseConnection
  <2>4. OpenInv' /\ QueueInv' /\ BusyInv'
    BY <2>1 DEF OpenInv, QueueInv, BusyInv
  <2>5. LifeInv'
    BY <2>1, <2>2, <2>3 DEF LifeInv, ReleasedOnce, LoginFindsProtocol
  <2> QED
    BY <2>4, <2>5
<1>3. CASE RetryProtocol
  <2>1. /\ UNCHANGED <<conn, reading, writing, tasks, spc, svcMsg, stops>>
        /\ "protocol" \in retries
        /\ \/ UNCHANGED <<protocol, retries>>
           \/ protocol' = "deleted" /\ retries' = retries \ {"protocol"}
    BY <1>3 DEF RetryProtocol
  <2>2. protocol = "releasing" /\ conn.state # "OPEN" /\ ~InSeq("login", tasks)
    BY <2>1 DEF LifeInv, LoginFindsProtocol
  <2>3. spc = "idle"
    BY <2>2 DEF BusyInv
  <2>4. OpenInv' /\ QueueInv' /\ BusyInv'
    BY <2>1, <2>3 DEF OpenInv, QueueInv, BusyInv
  <2>5. LifeInv'
    BY <2>1, <2>2 DEF LifeInv, ReleasedOnce, LoginFindsProtocol
  <2> QED
    BY <2>4, <2>5
<1>4. CASE UnRefLoad \/ Login \/ KickTask \/ OtherTask \/ OutputTask
  <2>1. /\ tasks # <<>> /\ Head(tasks) # "close" /\ tasks' = Tail(tasks)
        /\ UNCHANGED <<conn, reading, writing, spc, protocol, retries, stops>> /\ svcMsg' = svcMsg
    BY <1>4, ConnectionAssumption
       DEF UnRefLoad, Login, KickTask, OtherTask, OutputTask, TakeGameTask
  <2> QED
    BY <1>a, <2>1, Frame
<1>5. CASE LoginRefused
  <2> DEFINE q == Tail(tasks)
  <2>1. /\ tasks # <<>> /\ Head(tasks) = "login" /\ spc = "idle"
        /\ SendSingle(FromPool) /\ FromPool \in Messages
        /\ tasks' = SendTasks(FromPool, q) /\ conn' = AfterSend(conn)
        /\ UNCHANGED <<reading, spc, protocol, retries, stops>>
    BY <1>5, FromPoolFacts DEF LoginRefused, Allocate, ConnectionUnlocked
  <2>2. /\ q \in Seq(Entries) /\ CloseInv(conn, q)
        /\ InSeq("login", q) => InSeq("login", tasks)
    BY <1>a, <2>1
  <2>3. ~Slow(conn)
    BY <1>0, NeverSlow DEF OpenInv
  <2> HIDE DEF q
  <2>4. CloseInv(conn, tasks') /\ (InSeq("login", tasks') => InSeq("login", tasks))
    BY <1>0, <2>1, <2>2, <2>3, SendQueue
  <2> QED
    BY <2>1, <2>4, Sending
<1>6. CASE Disconnect
  <2>1. /\ spc' = "idle" /\ spc = "idle"
        /\ UNCHANGED <<reading, writing, svcMsg, spc, protocol, retries, stops>>
    BY <1>6 DEF Disconnect, ConnectionUnlocked
  <2>2. CASE conn' = Close(conn) /\ tasks' = CloseTask(conn, tasks)
    BY <1>0, <2>1, <2>2, Closing DEF QueueInv
  <2>3. CASE UNCHANGED <<conn, tasks>>
    BY <2>1, <2>3, Frame DEF QueueInv
  <2> QED
    BY <1>6, <2>2, <2>3 DEF Disconnect
<1>7. CASE DropOld
  <2>1. Head(addQueue) \in Messages
    BY <1>7 DEF DropOld, TypeOK
  <2>2. /\ CloseInv(conn, <<Head(addQueue)>> \o tasks)
        /\ InSeq("login", <<Head(addQueue)>> \o tasks) <=> InSeq("login", tasks)
    BY <1>0, <2>1, ConsMessage DEF QueueInv, CloseInv
  <2>3. /\ tasks' = <<Head(addQueue)>> \o tasks
        /\ UNCHANGED <<conn, reading, writing, spc, protocol, retries, stops>> /\ svcMsg' = svcMsg
    BY <1>7 DEF DropOld
  <2> QED
    BY <2>2, <2>3, Frame
<1>8. CASE SendNext
  <2> DEFINE m == Head(toSend)
  <2>1. m \in Messages
    BY <1>8 DEF SendNext, TypeOK
  <2>2. ~Slow(conn)
    BY <1>0, NeverSlow DEF OpenInv
  <2>3. /\ spc = "idle" /\ SendSingle(m) /\ conn' = AfterSend(conn)
        /\ UNCHANGED <<reading, spc, protocol, retries, stops>>
        /\ tasks' \in {tasks, SendTasks(m, tasks)}
    BY <1>8, <2>2 DEF SendNext, ConnectionUnlocked
  <2> HIDE DEF m
  <2>4. CloseInv(conn, tasks') /\ (InSeq("login", tasks') => InSeq("login", tasks))
    BY <1>0, <2>1, <2>2, <2>3, SendQueue DEF QueueInv
  <2> QED
    BY <2>1, <2>3, <2>4, Sending
<1>9. ASSUME \/ UnRefStore \/ Collect \/ SkipNext \/ SendAllEnds
             \/ \E due \in SUBSET Listed : Collected(due)
      PROVE  OpenInv' /\ QueueInv' /\ BusyInv' /\ LifeInv'
  <2>1. /\ UNCHANGED <<conn, reading, writing, spc, protocol, retries, stops>>
        /\ svcMsg' = svcMsg /\ tasks' = tasks
    BY <1>9 DEF UnRefStore, Collect, SkipNext, SendAllEnds, Collected
  <2> QED
    BY <2>1, Frame DEF QueueInv
<1> QED
  BY <1>1, <1>2, <1>3, <1>4, <1>5, <1>6, <1>7, <1>8, <1>9 DEF DispatcherStep, QueuedTask
-------------------------------------------------------------------------------
LEMMA InvInit == Init => IInv
<1> SUFFICES ASSUME Init
             PROVE  IInv
  OBVIOUS
<1>1. OpenInv /\ QueueInv /\ BusyInv
  BY DEF Init, OpenInv, OpenConn, QueueInv, CloseInv, Orderly, InSeq, BusyInv
<1>2. LifeInv
  BY DEF Init, LifeInv, ReleasedOnce, LoginFindsProtocol, InSeq
<1> QED
  BY <1>1, <1>2, InitType DEF IInv

LEMMA InvStep == IInv /\ [Next]_vars => IInv'
<1> SUFFICES ASSUME IInv, [Next]_vars
             PROVE  IInv'
  OBVIOUS
<1>0. TypeOK /\ OpenInv /\ QueueInv /\ BusyInv /\ LifeInv
  BY DEF IInv
<1>1. CASE ServiceStep
  BY <1>0, <1>1, ServiceType, ServiceInv DEF IInv
<1>2. CASE DispatcherStep
  BY <1>0, <1>2, DispatcherType, DispatcherInv DEF IInv
<1>3. CASE GameTaskAdded \/ ReadTimerExpires \/ WriteTimerExpires
  BY <1>0, <1>3, TimerType, TimerInv DEF IInv
<1>4. CASE UNCHANGED vars
  <2>1. TypeOK'
    BY <1>0, <1>4 DEF vars, ioVars, readVars, writeVars, refVars, svcVars, dspVars, dspRest,
                      closeVars, queueVars, poolVars, TypeOK
  <2>2. /\ UNCHANGED <<conn, reading, writing, spc, protocol, retries, stops>>
        /\ svcMsg' = svcMsg /\ tasks' = tasks
    BY <1>4 DEF vars, ioVars, readVars, writeVars, svcVars, closeVars, queueVars
  <2>3. OpenInv' /\ QueueInv' /\ BusyInv' /\ LifeInv'
    BY <1>0, <2>2, Frame DEF QueueInv
  <2> QED
    BY <2>1, <2>3 DEF IInv
<1> QED
  BY <1>1, <1>2, <1>3, <1>4 DEF Next

LEMMA Invariant == Spec => []IInv
BY InvInit, InvStep, PTL DEF Spec

\* The variables keep their types: m_pendingRead and m_pendingWrite are never
\* decremented below zero, whatever the order of handlers and closeSocket().
THEOREM TypeCorrect == Spec => []TypeOK
<1>1. IInv => TypeOK
  BY DEF IInv
<1> QED
  BY <1>1, Invariant, PTL

\* A closeConnection task is queued exactly while a close() is unanswered.
THEOREM OneCloseTaskHolds == Spec => []OneCloseTask
<1>1. IInv => OneCloseTask
  <2> SUFFICES ASSUME IInv
               PROVE  OneCloseTask
    OBVIOUS
  <2>1. ASSUME NEW i \in DOMAIN tasks, NEW j \in DOMAIN tasks,
               tasks[i] = "close", tasks[j] = "close"
        PROVE  i = j
    <3>1. i <= j /\ j <= i
      BY <2>1 DEF IInv, QueueInv, CloseInv, Orderly
    <3>2. DOMAIN tasks = 1 .. Len(tasks) /\ Len(tasks) \in Nat
      BY ConnType DEF IInv
    <3>3. i \in Int /\ j \in Int
      BY <2>1, <3>2
    <3> QED
      BY <3>1, <3>3
  <2> QED
    BY <2>1 DEF IInv, QueueInv, CloseInv, OneCloseTask
<1> QED
  BY <1>1, Invariant, PTL

\* m_pendingWrite counts the write under way of an open connection.
THEOREM PendingWriteCountsHolds == Spec => []PendingWriteCounts
<1>1. IInv => PendingWriteCounts
  BY DEF IInv, OpenInv, OpenConn, PendingWriteCounts
<1> QED
  BY <1>1, Invariant, PTL

\* However reads, writes, timers and closes interleave, the connection is
\* released once.
THEOREM ReleasedOnceHolds == Spec => []ReleasedOnce
<1>1. IInv => ReleasedOnce
  BY DEF IInv, LifeInv
<1> QED
  BY <1>1, Invariant, PTL

\* The bare pointer of the login task is good when it runs.
THEOREM LoginFindsProtocolHolds == Spec => []LoginFindsProtocol
<1>1. IInv => LoginFindsProtocol
  BY DEF IInv, LifeInv
<1> QED
  BY <1>1, Invariant, PTL

\* No async_write is started while one is under way.
THEOREM NoOverlappingWritesHolds == Spec => NoOverlappingWrites
<1>1. IInv /\ [Next]_vars => [writing # NoMessage => writing' \in {writing, NoMessage}]_vars
  <2> SUFFICES ASSUME IInv, Next, writing # NoMessage
               PROVE  writing' \in {writing, NoMessage}
    OBVIOUS
  <2>1. ~Starts(conn)
    BY ConnType, SendFacts DEF IInv, OpenInv
  <2>2. ASSUME NEW m, SendSingle(m)
        PROVE  writing' = writing
    BY <2>1, <2>2 DEF SendSingle
  <2>3. CASE HandleSingleSocket
    BY <2>3 DEF HandleSingleSocket, IInv, BusyInv
  <2>4. CASE RefuseSend \/ LoginRefused \/ SendNext
    BY <2>2, <2>4 DEF RefuseSend, LoginRefused, SendNext
  <2>5. CASE \E result \in Outcomes : ReadEnds(result) \/ WriteEnds(result)
    BY <2>5 DEF ReadEnds, WriteEnds, writeVars
  <2>6. CASE \/ HandleShared \/ ParseHeader \/ ParsePacket \/ ParseUnknown \/ ParseFirst
             \/ VerdictClose \/ VerdictAccept \/ VerdictRefuse \/ AddRefLoad \/ AddRefStore
             \/ ReadTimeout \/ WriteTimeout \/ OnStop
    BY <2>6 DEF HandleShared, ParseHeader, ParsePacket, ParseUnknown, ParseFirst, VerdictClose,
                VerdictAccept, VerdictRefuse, AddRefLoad, AddRefStore, ReadTimeout,
                WriteTimeout, OnStop, NextRead, writeVars, ioVars
  <2>7. CASE \/ CloseConnection \/ UnRefLoad \/ Login \/ KickTask \/ OutputTask \/ OtherTask
             \/ RetryConnection \/ RetryProtocol \/ UnRefStore \/ Disconnect
             \/ Collect \/ DropOld \/ (\E due \in SUBSET Listed : Collected(due))
             \/ SkipNext \/ SendAllEnds
    BY <2>7 DEF CloseConnection, UnRefLoad, Login, KickTask, OutputTask, OtherTask,
                RetryConnection, RetryProtocol, UnRefStore, Disconnect, Collect, DropOld,
                Collected, SkipNext, SendAllEnds, writeVars, ioVars
  <2>8. CASE GameTaskAdded \/ ReadTimerExpires \/ WriteTimerExpires
    BY <2>8 DEF GameTaskAdded, ReadTimerExpires, WriteTimerExpires, writeVars, ioVars
  <2> QED
    BY <2>3, <2>4, <2>5, <2>6, <2>7, <2>8 DEF Next, ServiceStep, DispatcherStep, QueuedTask
<1> QED
  BY <1>1, Invariant, PTL DEF Spec, NoOverlappingWrites
-------------------------------------------------------------------------------
(* Writes and the end of the socket *)

\* On an open socket m_pendingWrite counts the write under way, whatever has
\* become of the connection, and no write has failed.
WriteOn(c, w) ==
  /\ c.state = "CLOSED" => c.socket # "open"
  /\ c.socket = "open" => ~c.writeError /\ c.pendingWrite = IF w = NoMessage THEN 0 ELSE 1

WriteInv == WriteOn(conn, writing)

LEMMA WriteKept ==
  ASSUME NEW c \in Conns, NEW d \in Conns, NEW w, WriteOn(c, w), d.socket = c.socket,
         d.writeError = c.writeError, d.pendingWrite = c.pendingWrite,
         d.state = "CLOSED" => c.state = "CLOSED"
  PROVE  WriteOn(d, w)
BY DEF WriteOn

LEMMA CloseWrites ==
  ASSUME NEW c \in Conns
  PROVE  /\ Close(c).socket = c.socket /\ Close(c).writeError = c.writeError
         /\ Close(c).pendingWrite = c.pendingWrite
         /\ \A w : WriteOn(c, w) => WriteOn(Close(c), w)
<1>1. /\ Close(c) \in Conns /\ Close(c).socket = c.socket
      /\ Close(c).state = "CLOSED" <=> c.state = "CLOSED"
  BY CloseFacts
<1>2. Close(c).writeError = c.writeError /\ Close(c).pendingWrite = c.pendingWrite
  BY DEF Close, Conns
<1> QED
  BY <1>1, <1>2, WriteKept

LEMMA AcceptWrites ==
  ASSUME NEW c \in Conns
  PROVE  /\ Accept(c).socket = c.socket /\ Accept(c).state = c.state
         /\ \A w : WriteOn(c, w) => WriteOn(Accept(c), w)
<1>1. /\ Accept(c).socket = c.socket /\ Accept(c).state = c.state
      /\ Accept(c).writeError = c.writeError /\ Accept(c).pendingWrite = c.pendingWrite
  BY DEF Accept, Conns
<1> QED
  BY <1>1 DEF WriteOn

LEMMA CloseSocketWrites ==
  ASSUME NEW c \in Conns
  PROVE  /\ CloseSocket(c).socket # "open" /\ Close(CloseSocket(c)).socket # "open"
         /\ \A w : WriteOn(CloseSocket(c), w) /\ WriteOn(Close(CloseSocket(c)), w)
<1>1. CloseSocket(c) \in Conns /\ CloseSocket(c).socket # "open"
  <2>1. CloseSocket(c).socket # "open"
    BY DEF CloseSocket, Conns
  <2> QED
    BY <2>1, CloseSocketFacts
<1>2. Close(CloseSocket(c)).socket # "open"
  BY <1>1, CloseFacts
<1> QED
  BY <1>1, <1>2 DEF WriteOn

\* send(): an open socket stays open and the write it starts is counted.
LEMMA SendWrites ==
  ASSUME NEW c \in Conns, NEW r, OpenConn(c, r, writing), NEW m \in Messages, SendSingle(m),
         conn = c, WriteOn(c, writing)
  PROVE  /\ AfterSend(c) \in Conns /\ AfterSend(c).socket = c.socket
         /\ WriteOn(AfterSend(c), writing')
<1>1. /\ AfterSend(c) \in Conns
      /\ AfterSend(c).state = c.state /\ AfterSend(c).socket = c.socket
      /\ Starts(c) => writing = NoMessage
  BY SendFacts
<1>2. ~Slow(c)
  BY NeverSlow
<1>3. CASE Starts(c)
  <2>1. AfterSend(c) = [c EXCEPT !.pendingWrite = @ + 1] /\ writing' = m
    BY <1>3 DEF AfterSend, SendSingle
  <2>2. m # NoMessage /\ c.state = "OPEN" /\ c.pendingWrite = 0
    BY <1>3, ConnectionAssumption DEF Starts, Accepting
  <2>3. AfterSend(c).pendingWrite = 1 /\ AfterSend(c).writeError = c.writeError
    BY <2>1, <2>2 DEF Conns
  <2> QED
    BY <1>1, <2>1, <2>2, <2>3 DEF WriteOn
<1>4. CASE ~Starts(c)
  BY <1>1, <1>2, <1>4 DEF AfterSend, SendSingle
<1> QED
  BY <1>1, <1>3, <1>4

\* What ends an open socket while a write goes on is a timer.
TimerEnds ==
  conn.socket = "open" /\ conn'.socket # "open" /\ writing' # NoMessage
    => "queued" \in (readTimer \ readTimer') \cup (writeTimer \ writeTimer')

LEMMA WriteStep ==
  IInv /\ WriteInv /\ [Next]_vars => WriteInv' /\ (TimerEnds \/ UNCHANGED vars)
<1> SUFFICES ASSUME IInv, WriteInv, [Next]_vars
             PROVE  WriteInv' /\ (TimerEnds \/ UNCHANGED vars)
  OBVIOUS
<1>1. conn \in Conns /\ WriteOn(conn, writing) /\ OpenConn(conn, reading, writing)
  BY ConnType DEF IInv, OpenInv, WriteInv
<1> DEFINE Goal == WriteInv' /\ TimerEnds
<1>2. ASSUME conn'.socket = conn.socket, WriteOn(conn', writing')
      PROVE  Goal
  BY <1>2 DEF WriteInv, TimerEnds
<1>3. ASSUME conn' = conn, writing' = writing
      PROVE  Goal
  BY <1>1, <1>3 DEF WriteInv, TimerEnds
<1>4. ASSUME conn' = Close(CloseSocket(conn)),
             "queued" \in (readTimer \ readTimer') \cup (writeTimer \ writeTimer')
      PROVE  Goal
  BY <1>1, <1>4, CloseSocketWrites DEF WriteInv, TimerEnds
<1> HIDE DEF Goal
<1>5. CASE HandleSingleSocket
  <2>1. conn.state = "OPEN" /\ writing = NoMessage /\ FromPool \in Messages
    BY <1>5, FromPoolFacts DEF HandleSingleSocket, IInv, BusyInv
  <2>2. /\ conn.pendingWrite = 0 /\ ~conn.writeError
    BY <1>1, <2>1 DEF OpenConn
  <2>3. Starts(conn) /\ conn' = Accept(AfterSend(conn)) /\ writing' = FromPool
    BY <1>5, <2>1, <2>2 DEF HandleSingleSocket, Starts, Accepting
  <2>4. /\ AfterSend(conn) \in Conns
        /\ AfterSend(conn).state = conn.state /\ AfterSend(conn).socket = conn.socket
    BY <1>1, SendFacts
  <2>5. AfterSend(conn).pendingWrite = 1 /\ AfterSend(conn).writeError = conn.writeError
    BY <1>1, <2>2, <2>3 DEF AfterSend, Conns
  <2>6. writing' # NoMessage
    BY <2>1, <2>3, ConnectionAssumption
  <2>7. WriteOn(AfterSend(conn), writing')
    BY <1>1, <2>1, <2>2, <2>4, <2>5, <2>6 DEF WriteOn
  <2> QED
    BY <1>2, <2>3, <2>4, <2>7, AcceptWrites DEF Goal
<1>6. CASE HandleShared \/ VerdictAccept
  BY <1>1, <1>2, <1>6, AcceptWrites DEF HandleShared, VerdictAccept, writeVars, Goal
<1>7. CASE ParseHeader \/ ParsePacket \/ VerdictRefuse \/ AddRefLoad \/ AddRefStore
  BY <1>3, <1>7 DEF ParseHeader, ParsePacket, VerdictRefuse, AddRefLoad, AddRefStore, NextRead,
                    writeVars, ioVars, Goal
<1>8. CASE ParseUnknown \/ ParseFirst
  <2> DEFINE p == conn.pendingRead - 1
             c == [conn EXCEPT !.receivedFirst = TRUE, !.pendingRead = p]
  <2>1. p \in Nat
    BY <1>1, <1>8 DEF ParseUnknown, ParseFirst, ReadsOn, OpenConn
  <2>4. conn' \in {c, Close(c)} /\ writing' = writing
    BY <1>8 DEF ParseUnknown, ParseFirst, writeVars
  <2> HIDE DEF p
  <2>2. c \in Conns
    BY <1>1, <2>1 DEF Conns
  <2>3. c.socket = conn.socket /\ WriteOn(c, writing)
    BY <1>1 DEF WriteOn, Conns
  <2> HIDE DEF c
  <2> QED
    BY <1>2, <2>2, <2>3, <2>4, CloseWrites DEF Goal
<1>9. CASE VerdictClose
  <2>1. Close(conn) \in Conns
    BY <1>1, CloseFacts
  <2>2. conn' = Accept(Close(conn)) /\ writing' = writing
    BY <1>9 DEF VerdictClose, writeVars
  <2> QED
    BY <1>1, <1>2, <2>1, <2>2, CloseWrites, AcceptWrites DEF Goal
<1>10. CASE RefuseSend
  <2> DEFINE c == AfterSend(conn)
  <2>1. svcMsg \in Messages /\ SendSingle(svcMsg)
    BY <1>10 DEF RefuseSend, IInv, BusyInv
  <2>2. c \in Conns /\ c.socket = conn.socket /\ WriteOn(c, writing')
    BY <1>1, <2>1, SendWrites
  <2>3. conn' = Accept(Close(c))
    BY <1>10 DEF RefuseSend
  <2> HIDE DEF c
  <2>4. Close(c) \in Conns
    BY <2>2, CloseFacts
  <2> QED
    BY <1>2, <2>2, <2>3, <2>4, CloseWrites, AcceptWrites DEF Goal
<1>11. ASSUME NEW result \in Outcomes, ReadEnds(result)
       PROVE  Goal
  <2> DEFINE c == [conn EXCEPT !.readError = @ \/ result # "ok"]
  <2>1. c \in Conns /\ c.socket = conn.socket /\ WriteOn(c, writing)
    BY <1>1 DEF WriteOn, Conns
  <2>2. conn' = Close(c) /\ writing' = writing
    BY <1>11 DEF ReadEnds, writeVars
  <2> HIDE DEF c
  <2> QED
    BY <1>2, <2>1, <2>2, CloseWrites DEF Goal
<1>12. ASSUME NEW result \in Outcomes, WriteEnds(result)
       PROVE  Goal
  <2>1. writing # NoMessage /\ writing' = NoMessage
    BY <1>12 DEF WriteEnds
  <2>2. TimerEnds
    BY <2>1 DEF TimerEnds
  <2>3. CASE result = "ok" /\ Accepting(conn)
    <3>1. conn.pendingWrite = 1
      BY <1>1, <2>1, <2>3 DEF Accepting, OpenConn
    <3>2. conn' = [conn EXCEPT !.pendingWrite = @ - 1]
      BY <1>12, <2>3 DEF WriteEnds
    <3>3. WriteOn(conn', writing')
      BY <1>1, <2>1, <3>1, <3>2 DEF WriteOn, Conns
    <3> QED
      BY <2>2, <3>3 DEF Goal, WriteInv
  <2>4. CASE ~(result = "ok" /\ Accepting(conn))
    <3> DEFINE c == [conn EXCEPT !.writeError = @ \/ result # "ok"]
    <3>1. c \in Conns
      BY <1>1 DEF Conns
    <3>2. conn' = Close(CloseSocket(c))
      BY <1>12, <2>4 DEF WriteEnds
    <3> HIDE DEF c
    <3> QED
      BY <2>2, <3>1, <3>2, CloseSocketWrites DEF Goal, WriteInv
  <2> QED
    BY <2>3, <2>4
<1>13. CASE ReadTimeout \/ WriteTimeout
  <2>1. "queued" \in (readTimer \ readTimer') \cup (writeTimer \ writeTimer')
    BY <1>13 DEF ReadTimeout, WriteTimeout
  <2>2. conn' \in {conn, Close(CloseSocket(conn))} /\ writing' = writing
    BY <1>13 DEF ReadTimeout, WriteTimeout, writeVars
  <2> QED
    BY <1>3, <1>4, <2>1, <2>2 DEF Goal
<1>14. CASE OnStop
  <2>1. conn.state = "CLOSED"
    BY <1>14 DEF OnStop, IInv, LifeInv, ReleasedOnce, TypeOK
  <2>2. conn.socket # "open" /\ conn' = [conn EXCEPT !.socket = "deleted"]
    BY <1>1, <1>14, <2>1 DEF OnStop, WriteOn
  <2>3. conn'.socket = "deleted"
    BY <1>1, <2>2 DEF Conns
  <2> QED
    BY <2>2, <2>3 DEF Goal, WriteInv, WriteOn, TimerEnds
<1>15. CASE CloseConnection
  <2>1. writing' = writing
    BY <1>15 DEF CloseConnection, writeVars, ioVars
  <2>2. CASE conn.state # "REQUEST_CLOSE"
    BY <1>3, <1>15, <2>1, <2>2 DEF CloseConnection, Goal
  <2>3. CASE conn.state = "REQUEST_CLOSE" /\ (conn.pendingWrite = 0 \/ conn.writeError)
    <3> DEFINE c == CloseSocket(conn)
    <3>1. c \in Conns /\ c.socket # "open"
      BY <1>1, CloseSocketFacts, CloseSocketWrites
    <3>2. conn' = [c EXCEPT !.state = "CLOSED"]
      BY <1>15, <2>3 DEF CloseConnection
    <3> HIDE DEF c
    <3>3. conn'.socket # "open"
      BY <3>1, <3>2 DEF Conns
    <3>4. conn.socket = "open" => writing = NoMessage
      BY <1>1, <2>3 DEF WriteOn
    <3> QED
      BY <2>1, <3>3, <3>4 DEF Goal, WriteInv, WriteOn, TimerEnds
  <2>4. CASE conn.state = "REQUEST_CLOSE" /\ ~(conn.pendingWrite = 0 \/ conn.writeError)
    <3>1. conn' = [conn EXCEPT !.state = "CLOSING"]
      BY <1>15, <2>4 DEF CloseConnection
    <3>2. conn'.socket = conn.socket /\ WriteOn(conn', writing)
      BY <1>1, <3>1 DEF WriteOn, Conns
    <3> QED
      BY <1>2, <2>1, <3>2 DEF Goal
  <2> QED
    BY <2>2, <2>3, <2>4
<1>16. CASE LoginRefused
  <2>1. FromPool \in Messages /\ SendSingle(FromPool) /\ conn' = AfterSend(conn)
    BY <1>16, FromPoolFacts DEF LoginRefused, Allocate
  <2> QED
    BY <1>1, <1>2, <2>1, SendWrites DEF Goal
<1>17. CASE SendNext
  <2>1. SendSingle(Head(toSend)) /\ conn' = AfterSend(conn)
    BY <1>17 DEF SendNext
  <2>2. Head(toSend) \in Messages
    BY <1>17 DEF SendNext, IInv, TypeOK
  <2> QED
    BY <1>1, <1>2, <2>1, <2>2, SendWrites DEF Goal
<1>18. CASE Disconnect
  <2>1. conn' \in {conn, Close(conn)} /\ writing' = writing
    BY <1>18 DEF Disconnect, writeVars, ioVars
  <2> QED
    BY <1>1, <1>2, <2>1, CloseWrites DEF Goal
<1>19. CASE \/ UnRefLoad \/ Login \/ KickTask \/ OutputTask \/ OtherTask
            \/ RetryConnection \/ RetryProtocol \/ UnRefStore
            \/ Collect \/ DropOld \/ (\E due \in SUBSET Listed : Collected(due))
            \/ SkipNext \/ SendAllEnds
  BY <1>3, <1>19 DEF UnRefLoad, Login, KickTask, OutputTask, OtherTask,
              RetryConnection, RetryProtocol, UnRefStore, Collect, DropOld,
              Collected, SkipNext, SendAllEnds, writeVars, ioVars, Goal
<1>20. CASE GameTaskAdded \/ ReadTimerExpires \/ WriteTimerExpires
  BY <1>3, <1>20 DEF GameTaskAdded, ReadTimerExpires, WriteTimerExpires, writeVars, ioVars, Goal
<1>21. CASE UNCHANGED vars
  BY <1>1, <1>21 DEF vars, ioVars, writeVars, WriteInv
<1>22. CASE ServiceStep
  BY <1>5, <1>6, <1>7, <1>8, <1>9, <1>10, <1>11, <1>12, <1>13, <1>14, <1>22
  DEF ServiceStep, Goal
<1>23. CASE DispatcherStep
  BY <1>15, <1>16, <1>17, <1>18, <1>19, <1>23 DEF DispatcherStep, QueuedTask, Goal
<1> QED
  BY <1>20, <1>21, <1>22, <1>23 DEF Next, Goal

LEMMA WriteInit == Init => WriteInv
BY DEF Init, WriteInv, WriteOn

\* Only a timer closes a socket under a write: no close(), release or stop does.
THEOREM WritesOutliveCloseHolds == Spec => WritesOutliveClose
<1>1. IInv /\ WriteInv /\ [Next]_vars => WriteInv'
  BY WriteStep
<1>2. Spec => []WriteInv
  BY <1>1, Invariant, WriteInit, PTL DEF Spec
<1>3. IInv /\ WriteInv /\ [Next]_vars
        => [conn.socket = "open" /\ conn'.socket # "open" /\ writing' # NoMessage
              => "queued" \in (readTimer \ readTimer') \cup (writeTimer \ writeTimer')]_vars
  BY WriteStep DEF TimerEnds
<1> QED
  BY <1>2, <1>3, Invariant, PTL DEF Spec, WritesOutliveClose
-------------------------------------------------------------------------------
(* Where a message may be *)

Once(s) == \A i, j \in DOMAIN s : s[i] = s[j] /\ s[i] \in Messages => i = j

\* A message is in one place at a time; the output buffer is also in a list.
Apart(n) ==
  /\ InSeq(n, autoSend) => /\ ~InSeq(n, toSend) /\ ~InSeq(n, addQueue) /\ ~InSeq(n, tasks)
                           /\ n \notin {writing, svcMsg, dspMsg}
  /\ InSeq(n, toSend) => /\ ~InSeq(n, addQueue) /\ ~InSeq(n, tasks)
                         /\ n \notin {writing, svcMsg, dspMsg}
  /\ InSeq(n, addQueue) => ~InSeq(n, tasks) /\ n \notin {writing, svcMsg, dspMsg}
  /\ InSeq(n, tasks) => n \notin {writing, svcMsg, dspMsg}
  /\ n = writing => n \notin {svcMsg, dspMsg}
  /\ n = svcMsg => n # dspMsg
  /\ n = outputBuffer => InSeq(n, autoSend) \/ InSeq(n, toSend) \/ InSeq(n, addQueue)

Placed ==
  /\ Once(autoSend) /\ Once(toSend) /\ Once(addQueue) /\ Once(tasks)
  /\ \A n \in Messages : Apart(n)

\* m_refCount of both is the number of messages that are not in the pool.
Counted ==
  /\ IsFiniteSet(InUse)
  /\ connRefs = Cardinality(InUse) /\ protoRefs = Cardinality(InUse)

\* What a thread has loaded is what it will replace.
Current(loaded) == loaded.conn = connRefs /\ loaded.proto = protoRefs

Loaded ==
  /\ spc \in {"opcodeStore", "refuseStore"} => Current(svcLoaded)
  /\ dpc = "unRef" => Current(dspLoaded)
  /\ dspMsg # NoMessage <=> dpc = "unRef"
  /\ svcMsg # NoMessage => spc = "refuseSend"
  /\ toSend # <<>> => dpc = "sendAll"

\* What is being destroyed has no user left, and gets none.
Gone ==
  /\ conn.state \in {"CLOSING", "CLOSED"} => protocol # "attached"
  /\ stops > 0 \/ conn.socket = "deleted" => InUse = {}
  /\ protocol = "deleted" => InUse = {}
  /\ conn.socket = "deleted" => reading = "none"

\* Messages belong to a protocol.
Fresh == protocol = "none" => InUse = {}

LiveInv == Placed /\ Counted /\ Loaded /\ Gone /\ Fresh

\* Both threads are between the load and the store of m_refCount.
Racing == dpc = "unRef" /\ spc \in {"opcodeStore", "refuseStore"}
-------------------------------------------------------------------------------
LEMMA OnceAppend ==
  ASSUME NEW S, NEW q \in Seq(S), NEW e \in S
  PROVE  /\ Append(q, e) \in Seq(S)
         /\ \A x : InSeq(x, Append(q, e)) <=> InSeq(x, q) \/ x = e
         /\ Once(q) /\ (e \in Messages => ~InSeq(e, q)) => Once(Append(q, e))
<1> DEFINE r == Append(q, e)
<1>1. /\ r \in Seq(S)
      /\ DOMAIN r = 1 .. Len(q) + 1 /\ DOMAIN q = 1 .. Len(q) /\ Len(q) \in Nat
      /\ r[Len(q) + 1] = e
      /\ \A i \in 1 .. Len(q) : r[i] = q[i]
  OBVIOUS
<1> HIDE DEF r
<1>2. ASSUME NEW x
      PROVE  InSeq(x, r) <=> InSeq(x, q) \/ x = e
  <2>1. ASSUME NEW i \in DOMAIN r, r[i] = x, x # e
        PROVE  i \in DOMAIN q /\ q[i] = x
    BY <1>1, <2>1
  <2>2. ASSUME NEW i \in DOMAIN q, q[i] = x
        PROVE  i \in DOMAIN r /\ r[i] = x
    BY <1>1, <2>2
  <2>3. Len(q) + 1 \in DOMAIN r
    BY <1>1
  <2> QED
    BY <1>1, <2>1, <2>2, <2>3 DEF InSeq
<1>3. ASSUME Once(q), e \in Messages => ~InSeq(e, q),
             NEW i \in DOMAIN r, NEW j \in DOMAIN r, r[i] = r[j], r[i] \in Messages
      PROVE  i = j
  <2>1. ASSUME NEW k \in DOMAIN r, k # Len(q) + 1
        PROVE  k \in DOMAIN q /\ q[k] = r[k]
    BY <1>1, <2>1
  <2>2. ASSUME NEW k \in DOMAIN r, k # Len(q) + 1, r[k] \in Messages
        PROVE  r[k] # e
    BY <1>3, <2>1, <2>2 DEF InSeq
  <2>3. CASE i = Len(q) + 1 \/ j = Len(q) + 1
    BY <1>1, <1>3, <2>2, <2>3
  <2>4. CASE i # Len(q) + 1 /\ j # Len(q) + 1
    BY <1>3, <2>1, <2>4 DEF Once
  <2> QED
    BY <2>3, <2>4
<1> QED
  BY <1>1, <1>2, <1>3 DEF r, Once

LEMMA OnceCons ==
  ASSUME NEW S, NEW q \in Seq(S), NEW e \in S
  PROVE  /\ <<e>> \o q \in Seq(S)
         /\ \A x : InSeq(x, <<e>> \o q) <=> InSeq(x, q) \/ x = e
         /\ Once(q) /\ (e \in Messages => ~InSeq(e, q)) => Once(<<e>> \o q)
<1> DEFINE r == <<e>> \o q
<1>1. /\ r \in Seq(S)
      /\ DOMAIN r = 1 .. Len(q) + 1 /\ DOMAIN q = 1 .. Len(q) /\ Len(q) \in Nat
      /\ r[1] = e
      /\ \A i \in 2 .. Len(q) + 1 : r[i] = q[i - 1]
      /\ \A i \in 1 .. Len(q) : r[i + 1] = q[i]
  OBVIOUS
<1> HIDE DEF r
<1>a. ASSUME NEW k \in DOMAIN r, k # 1
      PROVE  k - 1 \in DOMAIN q /\ q[k - 1] = r[k]
  BY <1>1, <1>a
<1>2. ASSUME NEW x
      PROVE  InSeq(x, r) <=> InSeq(x, q) \/ x = e
  <2>1. ASSUME NEW i \in DOMAIN r, r[i] = x, x # e
        PROVE  \E k \in DOMAIN q : q[k] = x
    BY <1>1, <1>a, <2>1
  <2>2. ASSUME NEW i \in DOMAIN q, q[i] = x
        PROVE  i + 1 \in DOMAIN r /\ r[i + 1] = x
    BY <1>1, <2>2
  <2>3. 1 \in DOMAIN r
    BY <1>1
  <2> QED
    BY <1>1, <2>1, <2>2, <2>3 DEF InSeq
<1>3. ASSUME Once(q), e \in Messages => ~InSeq(e, q),
             NEW i \in DOMAIN r, NEW j \in DOMAIN r, r[i] = r[j], r[i] \in Messages
      PROVE  i = j
  <2>2. ASSUME NEW k \in DOMAIN r, k # 1, r[k] \in Messages
        PROVE  r[k] # e
    BY <1>3, <1>a, <2>2 DEF InSeq
  <2>3. CASE i = 1 \/ j = 1
    BY <1>1, <1>3, <2>2, <2>3
  <2>4. CASE i # 1 /\ j # 1
    <3>1. i - 1 = j - 1
      BY <1>3, <1>a, <2>4 DEF Once
    <3> QED
      BY <1>1, <3>1
  <2> QED
    BY <2>3, <2>4
<1> QED
  BY <1>1, <1>2, <1>3 DEF r, Once

LEMMA OnceTail ==
  ASSUME NEW S, NEW q \in Seq(S), q # <<>>
  PROVE  /\ Tail(q) \in Seq(S) /\ Head(q) \in S
         /\ InSeq(Head(q), q)
         /\ Once(q) => Once(Tail(q))
         /\ Once(q) => \A x \in Messages : InSeq(x, Tail(q)) <=> InSeq(x, q) /\ x # Head(q)
<1> DEFINE r == Tail(q)
           h == Head(q)
<1>1. /\ r \in Seq(S)
      /\ Len(q) \in Nat \ {0}
      /\ DOMAIN q = 1 .. Len(q) /\ DOMAIN r = 1 .. Len(q) - 1
      /\ h = q[1]
      /\ \A i \in 1 .. Len(q) - 1 : r[i] = q[i + 1]
      /\ \A i \in 2 .. Len(q) : r[i - 1] = q[i]
  OBVIOUS
<1>2. h \in S
  BY <1>1
<1> HIDE DEF r, h
<1>3. 1 \in DOMAIN q
  BY <1>1
<1>4. ASSUME NEW i \in DOMAIN r
      PROVE  i + 1 \in DOMAIN q /\ i + 1 # 1 /\ q[i + 1] = r[i]
  BY <1>1
<1>5. ASSUME NEW i \in DOMAIN q, i # 1
      PROVE  i - 1 \in DOMAIN r /\ r[i - 1] = q[i]
  BY <1>1, <1>5
<1>6. ASSUME Once(q)
      PROVE  Once(r)
  <2> SUFFICES ASSUME NEW i \in DOMAIN r, NEW j \in DOMAIN r, r[i] = r[j], r[i] \in Messages
               PROVE  i = j
    BY DEF Once
  <2>1. i + 1 = j + 1
    BY <1>4, <1>6 DEF Once
  <2> QED
    BY <1>1, <2>1
<1>7. ASSUME Once(q), NEW x \in Messages
      PROVE  InSeq(x, r) <=> InSeq(x, q) /\ x # h
  <2>1. ASSUME NEW i \in DOMAIN r, r[i] = x
        PROVE  InSeq(x, q) /\ x # h
    BY <1>1, <1>3, <1>4, <1>7, <2>1 DEF Once, InSeq
  <2>2. ASSUME NEW i \in DOMAIN q, q[i] = x, x # h
        PROVE  InSeq(x, r)
    BY <1>1, <1>5, <2>2 DEF InSeq
  <2> QED
    BY <2>1, <2>2 DEF InSeq
<1> QED
  BY <1>1, <1>2, <1>3, <1>6, <1>7 DEF r, h, InSeq

LEMMA CloseTaskMessages ==
  ASSUME NEW c, NEW q \in Seq(Entries)
  PROVE  /\ CloseTask(c, q) \in Seq(Entries)
         /\ \A n \in Messages : InSeq(n, CloseTask(c, q)) <=> InSeq(n, q)
         /\ Once(q) => Once(CloseTask(c, q))
<1>1. "close" \in Entries /\ "close" \notin Messages
  BY ConnectionAssumption DEF Entries
<1>2. CASE CloseTask(c, q) = Append(q, "close")
  BY <1>1, <1>2, OnceAppend
<1>3. CASE CloseTask(c, q) = q
  BY <1>3
<1> QED
  BY <1>2, <1>3 DEF CloseTask

\* send(m) puts m in one of three places.
LEMMA SendMoves ==
  ASSUME TypeOK, OpenInv, NEW m \in Messages, SendSingle(m), NEW q \in Seq(Entries)
  PROVE  \/ /\ writing = NoMessage /\ writing' = m /\ ~Defers(conn)
            /\ addQueue' = addQueue /\ SendTasks(m, q) = q
         \/ /\ writing' = writing
            /\ addQueue' = Append(addQueue, m) /\ SendTasks(m, q) = q
         \/ /\ writing' = writing /\ ~Defers(conn)
            /\ addQueue' = addQueue /\ SendTasks(m, q) = <<m>> \o q
<1>1. ~Slow(conn) /\ (Starts(conn) => writing = NoMessage)
  BY ConnType, NeverSlow, SendFacts DEF OpenInv
<1>2. Starts(conn) => ~Defers(conn)
  BY DEF Starts, Defers
<1> QED
  BY <1>1, <1>2 DEF SendSingle, SendTasks

LEMMA HeldInUse == \A m : m \in InUse <=> m \in Messages /\ Held(m)
BY DEF InUse

LEMMA PoolMessage ==
  ASSUME Free # {}
  PROVE  FromPool \in Messages /\ ~Held(FromPool)
BY DEF FromPool, Free

\* An open connection is not being destroyed, nor is its protocol.
LEMMA OpenIsGood ==
  ASSUME TypeOK', OpenInv', LifeInv', conn'.state = "OPEN"
  PROVE  Gone'
<1>1. stops' \in Nat /\ conn'.socket # "deleted"
  BY DEF TypeOK, OpenInv, OpenConn
<1>2. protocol' # "deleted"
  BY DEF LifeInv
<1>3. stops' = 0
  <2>1. ReleasedOnce' /\ conn'.state # "CLOSED"
    BY DEF LifeInv
  <2> DEFINE a == IF "connection" \in retries' THEN 1 ELSE 0
  <2>2. a \in 0 .. 1
    OBVIOUS
  <2>3. stops' + a + 0 = 0
    BY <1>1, <2>1 DEF ReleasedOnce
  <2>4. \A s \in Nat, n \in 0 .. 1 : s + n + 0 = 0 => s = 0
    OBVIOUS
  <2> HIDE DEF a
  <2> QED
    BY <1>1, <2>2, <2>3, <2>4, Zenon
<1> QED
  BY <1>1, <1>2, <1>3 DEF Gone

\* A step that moves no message.
LEMMA Unmoved ==
  ASSUME Placed, Counted, UNCHANGED <<connRefs, protoRefs>>,
         UNCHANGED <<autoSend, toSend, addQueue, writing, svcMsg, dspMsg, outputBuffer>>,
         Once(tasks'), \A n \in Messages : InSeq(n, tasks') <=> InSeq(n, tasks)
  PROVE  Placed' /\ Counted' /\ InUse' = InUse
<1>1. ASSUME NEW n \in Messages
      PROVE  Apart(n)' /\ (Held(n)' <=> Held(n))
  <2>1. Apart(n)
    BY DEF Placed
  <2> QED
    BY <2>1 DEF Apart, Held
<1>2. InUse' = InUse
  BY <1>1 DEF InUse
<1>3. Placed'
  BY <1>1 DEF Placed
<1> QED
  BY <1>2, <1>3 DEF Counted

\* A step that destroys nothing and moves what is in use.
LEMMA StillGone ==
  ASSUME Gone, InUse' = InUse, UNCHANGED <<stops, protocol>>,
         conn'.socket = "deleted" => conn.socket = "deleted" /\ reading' \in {"none", reading},
         conn'.state \in {"CLOSING", "CLOSED"} => conn.state \in {"CLOSING", "CLOSED"}
  PROVE  Gone'
BY DEF Gone

LEMMA Shutting ==
  ASSUME NEW c \in Conns
  PROVE  /\ Close(c).state \in {"CLOSING", "CLOSED"} => c.state \in {"CLOSING", "CLOSED"}
         /\ Close(c).socket = c.socket
BY DEF Close, MayClose, Conns

\* A message that leaves the pool is counted.
LEMMA Taken ==
  ASSUME Counted, NEW m \in Messages, ~Held(m),
         \A n \in Messages : Held(n)' <=> Held(n) \/ n = m,
         connRefs' = connRefs + 1, protoRefs' = protoRefs + 1
  PROVE  Counted'
<1>1. InUse' = InUse \cup {m} /\ m \notin InUse
  BY DEF InUse
<1>2. IsFiniteSet(InUse \cup {m}) /\ Cardinality(InUse \cup {m}) = Cardinality(InUse) + 1
  BY <1>1, FS_AddElement DEF Counted
<1> QED
  BY <1>1, <1>2 DEF Counted

LEMMA Returned ==
  ASSUME Counted, NEW m \in Messages, Held(m),
         \A n \in Messages : Held(n)' <=> Held(n) /\ n # m,
         connRefs' = connRefs - 1, protoRefs' = protoRefs - 1
  PROVE  Counted' /\ InUse' \subseteq InUse
<1>1. InUse' = InUse \ {m} /\ m \in InUse
  BY DEF InUse
<1>2. IsFiniteSet(InUse \ {m}) /\ Cardinality(InUse \ {m}) = Cardinality(InUse) - 1
  BY <1>1, FS_RemoveElement DEF Counted
<1> QED
  BY <1>1, <1>2 DEF Counted

LEMMA Kept ==
  ASSUME Counted, \A n \in Messages : Held(n)' <=> Held(n), UNCHANGED <<connRefs, protoRefs>>
  PROVE  Counted' /\ InUse' = InUse
<1>1. InUse' = InUse
  BY DEF InUse
<1> QED
  BY <1>1 DEF Counted
-------------------------------------------------------------------------------
(* The service thread *)

LEMMA ServiceLive ==
  ASSUME IInv, IInv', LiveInv, ~Racing, ServiceStep
  PROVE  LiveInv'
<1>0. /\ TypeOK /\ OpenInv /\ BusyInv /\ LifeInv
      /\ TypeOK' /\ OpenInv' /\ LifeInv'
      /\ Placed /\ Counted /\ Loaded /\ Gone /\ Fresh
  BY DEF IInv, LiveInv
<1>c. conn \in Conns /\ tasks \in Seq(Entries) /\ Once(tasks)
  BY <1>0, ConnType DEF Placed
<1>o. conn'.state = "OPEN" => Gone'
  BY <1>0, OpenIsGood
<1>m. NoMessage \notin Messages
  BY ConnectionAssumption
<1> USE DEF ioVars, readVars, writeVars, refVars, svcVars, dspVars, dspRest, closeVars,
            queueVars, poolVars
<1>f. ASSUME InUse' \subseteq InUse
      PROVE  Fresh'
  <2>1. protocol' = protocol \/ protocol' = "attached"
    BY DEF ServiceStep, HandleSingleSocket, HandleShared, ParseHeader, ParsePacket, ParseUnknown,
           ParseFirst, VerdictClose, VerdictAccept, VerdictRefuse, AddRefLoad, AddRefStore,
           RefuseSend, ReadEnds, WriteEnds, ReadTimeout, WriteTimeout, OnStop
  <2> QED
    BY <1>0, <1>f, <2>1 DEF Fresh
<1>1. CASE HandleShared \/ ParseHeader \/ ParsePacket \/ ParseFirst \/ VerdictRefuse \/ AddRefLoad
  <2>1. /\ UNCHANGED <<connRefs, protoRefs, tasks>>
        /\ UNCHANGED <<autoSend, toSend, addQueue, writing, svcMsg, dspMsg, outputBuffer>>
        /\ UNCHANGED <<dpc, dspLoaded>>
    BY <1>1 DEF HandleShared, ParseHeader, ParsePacket, ParseFirst, VerdictRefuse, AddRefLoad
  <2>2. Placed' /\ Counted' /\ InUse' = InUse
    BY <1>0, <1>c, <2>1, Unmoved
  <2>3. Loaded'
    BY <1>0, <1>1, <2>1
       DEF Loaded, Current, HandleShared, ParseHeader, ParsePacket, ParseFirst, VerdictRefuse,
           AddRefLoad, Deciding
  <2>4. conn.state = "OPEN"
    BY <1>0, <1>1 DEF HandleShared, ParseHeader, ParsePacket, ParseFirst, VerdictRefuse, AddRefLoad,
                      ReadsOn, Deciding, BusyInv
  <2>5. conn'.state = "OPEN"
    BY <1>1, <1>c, <2>4
       DEF HandleShared, ParseHeader, ParsePacket, ParseFirst, VerdictRefuse, AddRefLoad,
           Accept, Conns
  <2> QED
    BY <1>o, <1>f, <2>2, <2>3, <2>5 DEF LiveInv
<1>2. CASE VerdictAccept
  <2>1. /\ UNCHANGED <<connRefs, protoRefs>>
        /\ UNCHANGED <<autoSend, toSend, addQueue, writing, svcMsg, dspMsg, outputBuffer>>
        /\ UNCHANGED <<dpc, dspLoaded, svcLoaded>>
        /\ tasks' = Append(tasks, "login") /\ spc = "verdict" /\ spc' = "idle"
        /\ conn' = Accept(conn)
    BY <1>2 DEF VerdictAccept, NextRead
  <2>2. "login" \in Entries /\ "login" \notin Messages
    BY ConnectionAssumption DEF Entries
  <2>3. Once(tasks') /\ \A n \in Messages : InSeq(n, tasks') <=> InSeq(n, tasks)
    BY <1>c, <2>1, <2>2, OnceAppend
  <2>4. Placed' /\ Counted' /\ InUse' = InUse
    BY <1>0, <2>1, <2>3, Unmoved
  <2>5. Loaded'
    BY <1>0, <2>1 DEF Loaded, Current
  <2>6. conn'.state = "OPEN"
    BY <1>0, <1>c, <2>1 DEF BusyInv, Accept, Conns
  <2> QED
    BY <1>o, <1>f, <2>4, <2>5, <2>6 DEF LiveInv
<1>3. ASSUME NEW d \in Conns, d.state = conn.state,
             d.socket = "deleted" => conn.socket = "deleted",
             conn' = Close(d) \/ conn' = Accept(Close(d)),
             tasks' = CloseTask(d, tasks), reading' \in {"none", reading} \/ conn.state = "OPEN",
             spc \in {"idle", "verdict", "answer"}, spc' = "idle",
             UNCHANGED <<connRefs, protoRefs, svcLoaded, dpc, dspLoaded, stops, protocol>>,
             UNCHANGED <<autoSend, toSend, addQueue, writing, svcMsg, dspMsg, outputBuffer>>
      PROVE  LiveInv'
  <2>1. Once(tasks') /\ \A n \in Messages : InSeq(n, tasks') <=> InSeq(n, tasks)
    BY <1>c, <1>3, CloseTaskMessages
  <2>2. Placed' /\ Counted' /\ InUse' = InUse
    BY <1>0, <1>3, <2>1, Unmoved
  <2>3. Loaded'
    BY <1>0, <1>3 DEF Loaded, Current
  <2>4. /\ conn'.state = Close(d).state /\ conn'.socket = Close(d).socket
    <3>1. Close(d) \in Conns
      BY CloseFacts
    <3> QED
      BY <1>3, <3>1 DEF Accept, Conns
  <2>5. /\ conn'.state \in {"CLOSING", "CLOSED"} => conn.state \in {"CLOSING", "CLOSED"}
        /\ conn'.socket = "deleted" => conn.socket = "deleted"
    BY <1>3, <2>4, Shutting
  <2>6. conn.state = "OPEN" => conn.socket # "deleted"
    BY <1>0 DEF OpenInv, OpenConn
  <2>7. Gone'
    BY <1>0, <1>3, <2>2, <2>5, <2>6, StillGone
  <2> QED
    BY <1>f, <2>2, <2>3, <2>7 DEF LiveInv
<1>4. ASSUME NEW result, ReadEnds(result)
      PROVE  LiveInv'
  <2> DEFINE d == [conn EXCEPT !.readError = @ \/ result # "ok"]
  <2>1. d \in Conns /\ d.state = conn.state /\ d.socket = conn.socket
    BY <1>c DEF Conns
  <2>2. /\ conn' = Close(d) /\ reading' = "none" /\ spc = "idle" /\ spc' = "idle"
        /\ tasks' = CloseTask(conn, tasks)
        /\ UNCHANGED <<connRefs, protoRefs, svcLoaded, dpc, dspLoaded, stops, protocol>>
        /\ UNCHANGED <<autoSend, toSend, addQueue, writing, svcMsg, dspMsg, outputBuffer>>
    BY <1>4 DEF ReadEnds
  <2>3. CloseTask(conn, tasks) = CloseTask(d, tasks)
    BY <2>1 DEF CloseTask, MayClose
  <2> HIDE DEF d
  <2> QED
    BY <1>3, <2>1, <2>2, <2>3
<1>5. CASE ParseUnknown
  <2> DEFINE d == [conn EXCEPT !.receivedFirst = TRUE, !.pendingRead = @ - 1]
  <2>1. conn.state = "OPEN" /\ reading # "none"
    BY <1>5 DEF ParseUnknown, ReadsOn
  <2>2. conn.pendingRead = 1
    BY <1>0, <2>1 DEF OpenInv, OpenConn
  <2>3. d \in Conns /\ d.state = conn.state /\ d.socket = conn.socket
    <3>1. conn.pendingRead - 1 \in Nat
      BY <2>2
    <3> QED
      BY <1>c, <3>1 DEF Conns
  <2>4. /\ conn' = Close(d) /\ reading' = "none" /\ spc = "idle" /\ spc' = "idle"
        /\ tasks' = CloseTask(conn, tasks)
        /\ UNCHANGED <<connRefs, protoRefs, svcLoaded, dpc, dspLoaded, stops, protocol>>
        /\ UNCHANGED <<autoSend, toSend, addQueue, writing, svcMsg, dspMsg, outputBuffer>>
    BY <1>5 DEF ParseUnknown
  <2>5. CloseTask(conn, tasks) = CloseTask(d, tasks)
    BY <2>3 DEF CloseTask, MayClose
  <2> HIDE DEF d
  <2> QED
    BY <1>3, <2>3, <2>4, <2>5
<1>6. CASE VerdictClose
  <2>1. /\ conn' = Accept(Close(conn)) /\ spc \in {"verdict", "answer"} /\ spc' = "idle"
        /\ tasks' = CloseTask(conn, tasks)
        /\ UNCHANGED <<connRefs, protoRefs, svcLoaded, dpc, dspLoaded, stops, protocol>>
        /\ UNCHANGED <<autoSend, toSend, addQueue, writing, svcMsg, dspMsg, outputBuffer>>
    BY <1>6 DEF VerdictClose, NextRead, Deciding
  <2>2. conn.state = "OPEN"
    BY <1>0, <2>1 DEF BusyInv
  <2> QED
    BY <1>3, <1>c, <2>1, <2>2
<1>7. CASE ReadTimeout \/ WriteTimeout
  <2>1. /\ spc = "idle" /\ spc' = "idle" /\ reading' = reading
        /\ \/ conn' = Close(CloseSocket(conn)) /\ tasks' = CloseTask(conn, tasks)
           \/ UNCHANGED <<conn, tasks>>
        /\ UNCHANGED <<connRefs, protoRefs, svcLoaded, dpc, dspLoaded, stops, protocol>>
        /\ UNCHANGED <<autoSend, toSend, addQueue, writing, svcMsg, dspMsg, outputBuffer>>
    BY <1>7 DEF ReadTimeout, WriteTimeout
  <2>2. CASE conn' = Close(CloseSocket(conn)) /\ tasks' = CloseTask(conn, tasks)
    <3> DEFINE d == CloseSocket(conn)
    <3>1. d \in Conns /\ d.state = conn.state /\ (d.socket = "deleted" <=> conn.socket = "deleted")
      BY <1>c, CloseSocketFacts
    <3>2. CloseTask(conn, tasks) = CloseTask(d, tasks)
      BY <3>1 DEF CloseTask, MayClose
    <3>3. conn' = Close(d)
      BY <2>2
    <3> HIDE DEF d
    <3> QED
      BY <1>3, <2>1, <2>2, <3>1, <3>2, <3>3
  <2>3. CASE UNCHANGED <<conn, tasks>>
    <3>1. Placed' /\ Counted' /\ InUse' = InUse
      BY <1>0, <1>c, <2>1, <2>3, Unmoved
    <3>2. Loaded'
      BY <1>0, <2>1 DEF Loaded, Current
    <3>3. Gone'
      BY <1>0, <2>1, <2>3, <3>1 DEF Gone
    <3> QED
      BY <1>f, <3>1, <3>2, <3>3 DEF LiveInv
  <2> QED
    BY <2>1, <2>2, <2>3
<1>8. CASE OnStop
  <2>1. /\ spc = "idle" /\ spc' = "idle" /\ stops > 0 /\ reading = "none" /\ reading' = "none"
        /\ conn'.state = conn.state /\ tasks' = tasks
        /\ UNCHANGED <<connRefs, protoRefs, svcLoaded, dpc, dspLoaded, protocol>>
        /\ UNCHANGED <<autoSend, toSend, addQueue, writing, svcMsg, dspMsg, outputBuffer>>
    BY <1>8, <1>c DEF OnStop, Conns
  <2>2. Placed' /\ Counted' /\ InUse' = InUse
    BY <1>0, <1>c, <2>1, Unmoved
  <2>3. Loaded'
    BY <1>0, <2>1 DEF Loaded, Current
  <2>4. Gone'
    BY <1>0, <2>1, <2>2 DEF Gone
  <2> QED
    BY <1>f, <2>2, <2>3, <2>4 DEF LiveInv
<1>9. CASE HandleSingleSocket
  <2> DEFINE m == FromPool
  <2>1. /\ m \in Messages /\ ~Held(m)
    BY <1>9, PoolMessage DEF HandleSingleSocket
  <2>2. /\ spc = "handle" /\ spc' = "idle" /\ writing' = m
        /\ connRefs' = 1 /\ protoRefs' = 1
        /\ UNCHANGED <<dpc, dspLoaded, svcLoaded, tasks>>
        /\ UNCHANGED <<autoSend, toSend, addQueue, svcMsg, dspMsg, outputBuffer>>
        /\ conn' = Accept(AfterSend(conn))
    BY <1>9 DEF HandleSingleSocket
  <2> HIDE DEF m
  <2>3. writing = NoMessage /\ conn.state = "OPEN" /\ protocol = "none"
    BY <1>0, <2>2 DEF BusyInv
  <2>4. conn'.state = "OPEN"
    <3>1. AfterSend(conn) \in Conns /\ AfterSend(conn).state = "OPEN"
      BY <1>c, <1>0, <2>3, SendFacts DEF OpenInv
    <3> QED
      BY <2>2, <3>1 DEF Accept, Conns
  <2>5. ASSUME NEW n \in Messages
        PROVE  Apart(n)' /\ (Held(n)' <=> Held(n) \/ n = m)
    <3>1. Apart(n) /\ n # NoMessage
      BY <1>0, <1>m DEF Placed
    <3> QED
      BY <2>1, <2>2, <2>3, <3>1 DEF Apart, Held
  <2>6. Placed'
    BY <1>0, <2>2, <2>5 DEF Placed
  <2>7. connRefs = 0 /\ protoRefs = 0
    BY <1>0, <2>3, FS_EmptySet DEF Fresh, Counted
  <2>8. Counted'
    BY <1>0, <2>1, <2>2, <2>5, <2>7, Taken
  <2>a. dpc # "unRef"
    <3>1. dspMsg \notin Messages
      BY <1>0, <2>3 DEF Fresh, InUse, Held
    <3> QED
      BY <1>0, <3>1 DEF Loaded, TypeOK
  <2>9. Loaded' /\ Fresh'
    <3>1. Loaded'
      BY <1>0, <2>2, <2>a DEF Loaded
    <3>2. protocol' = "attached"
      BY <1>9 DEF HandleSingleSocket
    <3> QED
      BY <3>1, <3>2 DEF Fresh
  <2> QED
    BY <1>o, <2>4, <2>6, <2>8, <2>9 DEF LiveInv
<1>10. CASE AddRefStore
  <2> DEFINE m == FromPool
  <2>1. /\ m \in Messages /\ ~Held(m)
    BY <1>10, PoolMessage DEF AddRefStore
  <2>2. /\ spc \in {"opcodeStore", "refuseStore"} /\ spc' \in {"verdict", "refuseSend"}
        /\ \/ /\ outputBuffer' = m /\ autoSend' = Append(autoSend, m) /\ svcMsg' = svcMsg
           \/ /\ svcMsg' = m /\ spc' = "refuseSend" /\ UNCHANGED <<outputBuffer, autoSend>>
        /\ UNCHANGED <<dpc, dspLoaded, tasks, toSend, addQueue, writing, dspMsg, conn, protocol>>
        /\ connRefs' \in {svcLoaded.conn + 1, connRefs + 1}
        /\ protoRefs' \in {svcLoaded.proto + 1, protoRefs + 1}
    BY <1>10 DEF AddRefStore
  <2> HIDE DEF m
  <2>3. /\ Current(svcLoaded) /\ svcMsg = NoMessage /\ dpc # "unRef"
    BY <1>0, <2>2 DEF Loaded, Racing
  <2>4. connRefs' = connRefs + 1 /\ protoRefs' = protoRefs + 1
    BY <2>2, <2>3 DEF Current
  <2>5. autoSend \in Seq(Messages) /\ Once(autoSend) /\ ~InSeq(m, autoSend)
    BY <1>0, <2>1 DEF TypeOK, Placed, Held
  <2>6. /\ Once(Append(autoSend, m))
        /\ \A n : InSeq(n, Append(autoSend, m)) <=> InSeq(n, autoSend) \/ n = m
    BY <2>1, <2>5, OnceAppend
  <2>7. ASSUME NEW n \in Messages
        PROVE  Apart(n)' /\ (Held(n)' <=> Held(n) \/ n = m)
    <3>1. Apart(n) /\ n # NoMessage
      BY <1>0, <1>m DEF Placed
    <3>2. CASE outputBuffer' = m /\ autoSend' = Append(autoSend, m) /\ svcMsg' = svcMsg
      <4>1. InSeq(n, autoSend') <=> InSeq(n, autoSend) \/ n = m
        BY <2>6, <3>2
      <4> QED
        BY <2>1, <2>2, <2>3, <3>1, <3>2, <4>1 DEF Apart, Held
    <3>3. CASE svcMsg' = m /\ UNCHANGED <<outputBuffer, autoSend>>
      BY <2>1, <2>2, <2>3, <3>1, <3>3 DEF Apart, Held
    <3> QED
      BY <2>2, <3>2, <3>3
  <2>8. Placed'
    BY <1>0, <2>2, <2>6, <2>7 DEF Placed
  <2>9. Counted'
    BY <1>0, <2>1, <2>4, <2>7, Taken
  <2>10. Loaded'
    BY <1>0, <2>2, <2>3 DEF Loaded
  <2>11. conn'.state = "OPEN" /\ Fresh'
    BY <1>0, <2>2 DEF BusyInv, Fresh
  <2> QED
    BY <1>o, <2>8, <2>9, <2>10, <2>11 DEF LiveInv
<1>11. CASE RefuseSend
  <2> DEFINE m == svcMsg
             q == SendTasks(m, tasks)
             c == AfterSend(conn)
  <2>1. /\ spc = "refuseSend" /\ spc' = "idle" /\ SendSingle(m) /\ svcMsg' = NoMessage
        /\ conn' = Accept(Close(c)) /\ tasks' = CloseTask(c, q)
        /\ UNCHANGED <<connRefs, protoRefs, dpc, dspLoaded, svcLoaded, stops, protocol>>
        /\ UNCHANGED <<autoSend, toSend, dspMsg, outputBuffer>>
    BY <1>11 DEF RefuseSend, NextRead
  <2>2. m \in Messages /\ conn.state = "OPEN" /\ c \in Conns /\ c.state = "OPEN" /\ c.socket = "open"
    <3>1. conn.state = "OPEN" /\ m \in Messages /\ conn.socket = "open"
      BY <1>0, <2>1 DEF BusyInv, OpenInv, OpenConn
    <3> QED
      BY <1>c, <1>0, <3>1, SendFacts DEF OpenInv
  <2>3. /\ \/ /\ writing = NoMessage /\ writing' = m /\ addQueue' = addQueue /\ q = tasks
           \/ /\ writing' = writing /\ addQueue' = Append(addQueue, m) /\ q = tasks
           \/ /\ writing' = writing /\ addQueue' = addQueue /\ q = <<m>> \o tasks
    BY <1>0, <1>c, <2>1, <2>2, SendMoves
  <2> HIDE DEF m, q, c
  <2>m. m = svcMsg
    BY DEF m
  <2>4. ~InSeq(m, tasks) /\ ~InSeq(m, addQueue) /\ ~InSeq(m, autoSend) /\ ~InSeq(m, toSend)
        /\ m # writing /\ m # dspMsg /\ m # outputBuffer /\ m # NoMessage
    <3>1. Apart(m)
      BY <1>0, <2>2 DEF Placed
    <3> QED
      BY <1>m, <2>2, <2>m, <3>1 DEF Apart
  <2>5. addQueue \in Seq(Messages) /\ m \in Entries
    BY <1>0, <2>2 DEF TypeOK, Entries
  <2>6. /\ Once(Append(addQueue, m))
        /\ \A n : InSeq(n, Append(addQueue, m)) <=> InSeq(n, addQueue) \/ n = m
    BY <1>0, <2>2, <2>4, <2>5, OnceAppend DEF Placed
  <2>7. /\ <<m>> \o tasks \in Seq(Entries) /\ Once(<<m>> \o tasks)
        /\ \A n : InSeq(n, <<m>> \o tasks) <=> InSeq(n, tasks) \/ n = m
    BY <1>c, <2>4, <2>5, OnceCons
  <2>8. q \in Seq(Entries) /\ Once(q)
    BY <1>c, <2>3, <2>7
  <2>9. Once(tasks') /\ \A n \in Messages : InSeq(n, tasks') <=> InSeq(n, q)
    BY <2>1, <2>8, CloseTaskMessages
  <2>10. ASSUME NEW n \in Messages
         PROVE  Apart(n)' /\ (Held(n)' <=> Held(n))
    <3>1. Apart(n) /\ n # NoMessage /\ (InSeq(n, tasks') <=> InSeq(n, q))
      BY <1>0, <1>m, <2>9 DEF Placed
    <3>2. CASE writing = NoMessage /\ writing' = m /\ addQueue' = addQueue /\ q = tasks
      BY <2>1, <2>m, <2>4, <3>1, <3>2 DEF Apart, Held
    <3>3. CASE writing' = writing /\ addQueue' = Append(addQueue, m) /\ q = tasks
      <4>1. InSeq(n, addQueue') <=> InSeq(n, addQueue) \/ n = m
        BY <2>6, <3>3
      <4> QED
        BY <2>1, <2>m, <2>4, <3>1, <3>3, <4>1 DEF Apart, Held
    <3>4. CASE writing' = writing /\ addQueue' = addQueue /\ q = <<m>> \o tasks
      <4>1. InSeq(n, tasks') <=> InSeq(n, tasks) \/ n = m
        BY <2>7, <3>1, <3>4
      <4> QED
        BY <2>1, <2>m, <2>4, <3>1, <3>4, <4>1 DEF Apart, Held
    <3> QED
      BY <2>3, <3>2, <3>3, <3>4
  <2>11. Placed'
    BY <1>0, <2>1, <2>3, <2>6, <2>9, <2>10 DEF Placed
  <2>12. Counted' /\ InUse' = InUse
    BY <1>0, <2>1, <2>10, Kept
  <2>13. Loaded'
    BY <1>0, <2>1 DEF Loaded, Current
  <2>14. Gone'
    <3>1. Close(c) \in Conns /\ Close(c).state = "REQUEST_CLOSE" /\ Close(c).socket = "open"
      BY <2>2, CloseFacts DEF Close, MayClose, Conns
    <3>2. conn'.state = "REQUEST_CLOSE" /\ conn'.socket = "open"
      BY <2>1, <3>1 DEF Accept, Conns
    <3> QED
      BY <1>0, <2>1, <2>12, <3>2, StillGone
  <2> QED
    BY <1>f, <2>11, <2>12, <2>13, <2>14 DEF LiveInv
<1>12. ASSUME NEW result, WriteEnds(result)
       PROVE  LiveInv'
  <2> DEFINE m == writing
             r == <<m>> \o tasks
  <2>1. /\ spc = "idle" /\ spc' = "idle" /\ m # NoMessage /\ writing' = NoMessage
        /\ UNCHANGED <<connRefs, protoRefs, dpc, dspLoaded, svcLoaded, stops, protocol, reading>>
        /\ UNCHANGED <<autoSend, toSend, addQueue, svcMsg, dspMsg, outputBuffer>>
        /\ \/ conn'.state = conn.state /\ conn'.socket = conn.socket /\ tasks' = r
           \/ /\ conn' = Close(CloseSocket([conn EXCEPT !.writeError = @ \/ result # "ok"]))
              /\ tasks' = CloseTask(conn, r)
    BY <1>12, <1>c DEF WriteEnds, Conns
  <2> HIDE DEF m, r
  <2>m. m = writing /\ m \in Messages /\ m \in Entries
    BY <1>0, <2>1 DEF m, TypeOK, Entries
  <2>2. ~InSeq(m, tasks) /\ ~InSeq(m, addQueue) /\ ~InSeq(m, autoSend) /\ ~InSeq(m, toSend)
        /\ m # svcMsg /\ m # dspMsg /\ m # outputBuffer
    <3>1. Apart(m)
      BY <1>0, <2>m DEF Placed
    <3> QED
      BY <2>m, <3>1 DEF Apart
  <2>3. /\ r \in Seq(Entries) /\ Once(r)
        /\ \A n : InSeq(n, r) <=> InSeq(n, tasks) \/ n = m
    BY <1>c, <2>m, <2>2, OnceCons DEF r
  <2>4. Once(tasks') /\ \A n \in Messages : InSeq(n, tasks') <=> InSeq(n, r)
    BY <2>1, <2>3, CloseTaskMessages
  <2>5. ASSUME NEW n \in Messages
        PROVE  Apart(n)' /\ (Held(n)' <=> Held(n))
    <3>1. Apart(n) /\ n # NoMessage /\ (InSeq(n, tasks') <=> InSeq(n, tasks) \/ n = m)
      BY <1>0, <1>m, <2>3, <2>4 DEF Placed
    <3> QED
      BY <2>1, <2>m, <2>2, <3>1 DEF Apart, Held
  <2>6. Placed'
    BY <1>0, <2>1, <2>4, <2>5 DEF Placed
  <2>7. Counted' /\ InUse' = InUse
    BY <1>0, <2>1, <2>5, Kept
  <2>8. Loaded'
    BY <1>0, <2>1 DEF Loaded, Current
  <2>9. /\ conn'.state \in {"CLOSING", "CLOSED"} => conn.state \in {"CLOSING", "CLOSED"}
        /\ conn'.socket = "deleted" => conn.socket = "deleted"
    <3> DEFINE e == [conn EXCEPT !.writeError = @ \/ result # "ok"]
    <3>1. e \in Conns /\ e.state = conn.state /\ e.socket = conn.socket
      BY <1>c DEF Conns
    <3>2. CASE conn' = Close(CloseSocket(e))
      <4> HIDE DEF e
      <4>1. /\ CloseSocket(e) \in Conns /\ CloseSocket(e).state = e.state
            /\ CloseSocket(e).socket = "deleted" <=> e.socket = "deleted"
        BY <3>1, CloseSocketFacts
      <4> QED
        BY <3>1, <3>2, <4>1, Shutting
    <3>3. CASE conn'.state = conn.state /\ conn'.socket = conn.socket
      BY <3>3
    <3> QED
      BY <2>1, <3>2, <3>3
  <2>10. Gone'
    BY <1>0, <2>1, <2>7, <2>9, StillGone
  <2> QED
    BY <1>f, <2>6, <2>7, <2>8, <2>10 DEF LiveInv
<1> QED
  BY <1>1, <1>2, <1>4, <1>5, <1>6, <1>7, <1>8, <1>9, <1>10, <1>11, <1>12 DEF ServiceStep
-------------------------------------------------------------------------------
(* The dispatcher and the timers *)

LEMMA TimerLive ==
  ASSUME IInv, LiveInv, GameTaskAdded \/ ReadTimerExpires \/ WriteTimerExpires
  PROVE  LiveInv'
<1>0. TypeOK /\ Placed /\ Counted /\ Loaded /\ Gone /\ Fresh
  BY DEF IInv, LiveInv
<1>c. tasks \in Seq(Entries) /\ Once(tasks)
  BY <1>0, ConnType DEF Placed
<1> USE DEF ioVars, readVars, writeVars, refVars, svcVars, dspVars, dspRest, closeVars,
            queueVars, poolVars
<1>1. /\ UNCHANGED <<connRefs, protoRefs, conn, protocol, reading, stops>>
      /\ UNCHANGED <<spc, svcLoaded, dpc, dspLoaded>>
      /\ UNCHANGED <<autoSend, toSend, addQueue, writing, svcMsg, dspMsg, outputBuffer>>
      /\ tasks' = tasks \/ tasks' = Append(tasks, "game")
  BY DEF GameTaskAdded, ReadTimerExpires, WriteTimerExpires
<1>2. "game" \in Entries /\ "game" \notin Messages
  BY ConnectionAssumption DEF Entries
<1>3. Once(tasks') /\ \A n \in Messages : InSeq(n, tasks') <=> InSeq(n, tasks)
  <2>1. /\ Once(Append(tasks, "game"))
        /\ \A n \in Messages : InSeq(n, Append(tasks, "game")) <=> InSeq(n, tasks)
    BY <1>c, <1>2, OnceAppend
  <2> QED
    BY <1>c, <1>1, <2>1, Zenon
<1>4. Placed' /\ Counted' /\ InUse' = InUse
  BY <1>0, <1>1, <1>3, Unmoved
<1>5. Loaded'
  BY <1>0, <1>1 DEF Loaded, Current
<1>6. Gone' /\ Fresh'
  BY <1>0, <1>1, <1>4 DEF Gone, Fresh
<1> QED
  BY <1>4, <1>5, <1>6 DEF LiveInv

LEMMA DispatcherLive ==
  ASSUME IInv, LiveInv, ~Racing, DispatcherStep
  PROVE  LiveInv'
<1>0. /\ TypeOK /\ OpenInv /\ BusyInv /\ LifeInv
      /\ Placed /\ Counted /\ Loaded /\ Gone /\ Fresh
  BY DEF IInv, LiveInv
<1>c. conn \in Conns /\ tasks \in Seq(Entries) /\ Once(tasks)
  BY <1>0, ConnType DEF Placed
<1>q. /\ autoSend \in Seq(Messages) /\ toSend \in Seq(Messages) /\ addQueue \in Seq(Messages)
      /\ Once(autoSend) /\ Once(toSend) /\ Once(addQueue)
  BY <1>0 DEF TypeOK, Placed
<1>m. NoMessage \notin Messages
  BY ConnectionAssumption
<1>z. /\ connRefs = 0 => InUse = {}
      /\ protoRefs = 0 => InUse = {}
  BY <1>0, FS_EmptySet DEF Counted
<1> USE DEF ioVars, readVars, writeVars, refVars, svcVars, dspVars, dspRest, closeVars,
            queueVars, poolVars
<1>f. ASSUME InUse' \subseteq InUse
      PROVE  Fresh'
  <2>1. protocol' = "none" => protocol = "none"
    BY DEF DispatcherStep, QueuedTask, CloseConnection, UnRefLoad, Login, LoginRefused, KickTask,
           OutputTask, OtherTask, TakeGameTask, RetryConnection, RetryProtocol, UnRefStore,
           Disconnect, Collect, DropOld, Collected, SkipNext, SendNext, SendAllEnds
  <2> QED
    BY <1>0, <1>f, <2>1 DEF Fresh
<1>t. ASSUME tasks # <<>>, Head(tasks) \notin Messages
      PROVE  Once(Tail(tasks)) /\ \A n \in Messages : InSeq(n, Tail(tasks)) <=> InSeq(n, tasks)
  BY <1>c, <1>t, OnceTail
<1>1. CASE Login \/ KickTask \/ OtherTask
  <2>1. /\ UNCHANGED <<connRefs, protoRefs, conn, protocol, reading, stops>>
        /\ UNCHANGED <<spc, svcLoaded, dspLoaded>>
        /\ UNCHANGED <<autoSend, toSend, addQueue, writing, svcMsg, dspMsg, outputBuffer>>
        /\ dpc = "idle" /\ dpc' \in {"ran", "close"}
        /\ tasks # <<>> /\ Head(tasks) \in {"login", "game"} /\ tasks' = Tail(tasks)
    BY <1>1 DEF Login, KickTask, OtherTask, TakeGameTask
  <2>2. Head(tasks) \notin Messages
    BY <2>1, ConnectionAssumption
  <2>3. Placed' /\ Counted' /\ InUse' = InUse
    BY <1>0, <1>t, <2>1, <2>2, Unmoved
  <2>4. Loaded'
    BY <1>0, <2>1 DEF Loaded, Current
  <2>5. Gone' /\ Fresh'
    BY <1>0, <1>f, <2>1, <2>3 DEF Gone
  <2> QED
    BY <2>3, <2>4, <2>5 DEF LiveInv
<1>2. CASE CloseConnection
  <2>1. /\ UNCHANGED <<connRefs, protoRefs, reading>>
        /\ UNCHANGED <<spc, svcLoaded, dspLoaded>>
        /\ UNCHANGED <<autoSend, toSend, addQueue, writing, svcMsg, dspMsg, outputBuffer>>
        /\ dpc = "idle" /\ dpc' = "ran" /\ spc = "idle"
        /\ tasks # <<>> /\ Head(tasks) = "close" /\ tasks' = Tail(tasks)
    BY <1>2 DEF CloseConnection, ConnectionUnlocked
  <2>2. Head(tasks) \notin Messages
    BY <2>1, ConnectionAssumption
  <2>3. Placed' /\ Counted' /\ InUse' = InUse
    BY <1>0, <1>t, <2>1, <2>2, Unmoved
  <2>4. Loaded'
    BY <1>0, <2>1 DEF Loaded, Current
  <2>5. Gone'
    <3>1. CASE conn.state # "REQUEST_CLOSE"
      <4>1. UNCHANGED <<conn, protocol, stops>>
        BY <1>2, <3>1 DEF CloseConnection
      <4> QED
        BY <1>0, <2>1, <2>3, <4>1 DEF Gone
    <3>2. CASE conn.state = "REQUEST_CLOSE"
      <4>1. /\ protocol' = IF protocol # "attached" THEN protocol
                           ELSE IF protoRefs # 0 THEN "releasing" ELSE "deleted"
            /\ \/ conn' = [CloseSocket(conn) EXCEPT !.state = "CLOSED"]
               \/ conn' = [conn EXCEPT !.state = "CLOSING"]
            /\ stops' = stops \/ connRefs = 0
        BY <1>2, <3>2 DEF CloseConnection, ReleaseConnection
      <4>2. conn'.socket = "deleted" => conn.socket = "deleted"
        BY <1>c, <4>1, CloseSocketFacts DEF Conns
      <4> QED
        BY <1>0, <1>z, <2>1, <2>3, <4>1, <4>2 DEF Gone
    <3> QED
      BY <3>1, <3>2
  <2> QED
    BY <1>f, <2>3, <2>4, <2>5 DEF LiveInv
<1>3. CASE RetryConnection \/ RetryProtocol
  <2>1. /\ UNCHANGED <<connRefs, protoRefs, conn, reading, tasks>>
        /\ UNCHANGED <<spc, svcLoaded, dspLoaded>>
        /\ UNCHANGED <<autoSend, toSend, addQueue, writing, svcMsg, dspMsg, outputBuffer>>
        /\ dpc = "idle" /\ dpc' = "ran"
        /\ stops' = stops \/ connRefs = 0
        /\ protocol' = protocol \/ (protocol' = "deleted" /\ protoRefs = 0)
    BY <1>3 DEF RetryConnection, RetryProtocol, ReleaseConnection
  <2>2. Placed' /\ Counted' /\ InUse' = InUse
    BY <1>0, <1>c, <2>1, Unmoved
  <2>3. Loaded'
    BY <1>0, <2>1 DEF Loaded, Current
  <2>4. Gone'
    BY <1>0, <1>z, <2>1, <2>2 DEF Gone
  <2> QED
    BY <1>f, <2>2, <2>3, <2>4 DEF LiveInv
<1>4. CASE UnRefLoad
  <2> DEFINE m == Head(tasks)
  <2>1. /\ UNCHANGED <<connRefs, protoRefs, conn, protocol, reading, stops>>
        /\ UNCHANGED <<spc, svcLoaded>>
        /\ UNCHANGED <<autoSend, toSend, addQueue, writing, svcMsg, outputBuffer>>
        /\ dpc = "idle" /\ dpc' = "unRef" /\ dspMsg' = m
        /\ dspLoaded' = [conn |-> connRefs, proto |-> protoRefs]
        /\ tasks # <<>> /\ m \in Messages /\ tasks' = Tail(tasks)
    BY <1>4 DEF UnRefLoad
  <2> HIDE DEF m
  <2>2. /\ Once(tasks') /\ InSeq(m, tasks)
        /\ \A n \in Messages : InSeq(n, tasks') <=> InSeq(n, tasks) /\ n # m
    BY <1>c, <2>1, OnceTail DEF m
  <2>3. dspMsg = NoMessage
    BY <1>0, <2>1 DEF Loaded
  <2>4. ASSUME NEW n \in Messages
        PROVE  Apart(n)' /\ (Held(n)' <=> Held(n))
    <3>1. Apart(n) /\ n # NoMessage /\ (InSeq(n, tasks') <=> InSeq(n, tasks) /\ n # m)
      BY <1>0, <1>m, <2>2 DEF Placed
    <3> QED
      BY <2>1, <2>2, <2>3, <3>1 DEF Apart, Held
  <2>5. Placed'
    BY <1>0, <2>1, <2>2, <2>4 DEF Placed
  <2>6. Counted' /\ InUse' = InUse
    BY <1>0, <2>1, <2>4, Kept
  <2>7. Loaded'
    BY <1>0, <1>m, <2>1 DEF Loaded, Current
  <2>8. Gone'
    BY <1>0, <2>1, <2>6 DEF Gone
  <2> QED
    BY <1>f, <2>5, <2>6, <2>7, <2>8 DEF LiveInv
<1>5. CASE UnRefStore
  <2>1. /\ UNCHANGED <<conn, protocol, reading, stops, spc, svcLoaded, tasks>>
        /\ UNCHANGED <<autoSend, toSend, addQueue, writing, svcMsg, outputBuffer>>
        /\ dpc = "unRef" /\ dpc' = "ran" /\ dspMsg' = NoMessage
        /\ connRefs' \in {dspLoaded.conn - 1, connRefs - 1}
        /\ protoRefs' \in {dspLoaded.proto - 1, protoRefs - 1}
    BY <1>5 DEF UnRefStore
  <2>2. Current(dspLoaded) /\ dspMsg # NoMessage /\ spc \notin {"opcodeStore", "refuseStore"}
    BY <1>0, <2>1 DEF Loaded, Racing
  <2>3. connRefs' = connRefs - 1 /\ protoRefs' = protoRefs - 1
    BY <2>1, <2>2 DEF Current
  <2>4. dspMsg \in Messages /\ Held(dspMsg)
    BY <1>0, <2>2 DEF TypeOK, Held
  <2>5. ASSUME NEW n \in Messages
        PROVE  Apart(n)' /\ (Held(n)' <=> Held(n) /\ n # dspMsg)
    <3>1. Apart(n) /\ n # NoMessage
      BY <1>0, <1>m DEF Placed
    <3> QED
      BY <2>1, <3>1 DEF Apart, Held
  <2>6. Placed'
    BY <1>0, <2>1, <2>5 DEF Placed
  <2>7. Counted' /\ InUse' \subseteq InUse
    BY <1>0, <2>3, <2>4, <2>5, Returned
  <2>8. Loaded'
    BY <1>0, <2>1, <2>2 DEF Loaded
  <2>9. Gone'
    BY <1>0, <2>1, <2>7 DEF Gone
  <2> QED
    BY <1>f, <2>6, <2>7, <2>8, <2>9 DEF LiveInv
<1>6. CASE LoginRefused
  <2> DEFINE m == FromPool
             t == Tail(tasks)
             q == SendTasks(m, t)
  <2>1. m \in Messages /\ ~Held(m)
    BY <1>6, PoolMessage DEF LoginRefused, Allocate
  <2>2. /\ UNCHANGED <<protocol, reading, stops, spc, svcLoaded, dspLoaded>>
        /\ UNCHANGED <<autoSend, toSend, svcMsg, dspMsg, outputBuffer>>
        /\ dpc = "idle" /\ dpc' = "close" /\ spc = "idle" /\ protocol = "attached"
        /\ tasks # <<>> /\ Head(tasks) = "login" /\ SendSingle(m) /\ tasks' = q
        /\ conn' = AfterSend(conn)
        /\ connRefs' = connRefs + 1 /\ protoRefs' = protoRefs + 1
    BY <1>6 DEF LoginRefused, Allocate, ConnectionUnlocked
  <2>3. /\ t \in Seq(Entries) /\ Once(t) /\ \A n \in Messages : InSeq(n, t) <=> InSeq(n, tasks)
    <3>1. Head(tasks) \notin Messages
      BY <2>2, ConnectionAssumption
    <3> QED
      BY <1>c, <1>t, <2>2, <3>1, OnceTail
  <2> HIDE DEF t
  <2>4. /\ \/ /\ writing = NoMessage /\ writing' = m /\ addQueue' = addQueue /\ q = t
           \/ /\ writing' = writing /\ addQueue' = Append(addQueue, m) /\ q = t
           \/ /\ writing' = writing /\ addQueue' = addQueue /\ q = <<m>> \o t
    BY <1>0, <2>1, <2>2, <2>3, SendMoves
  <2> HIDE DEF m, q
  <2>5. ~InSeq(m, t) /\ ~InSeq(m, tasks) /\ ~InSeq(m, addQueue) /\ ~InSeq(m, autoSend)
        /\ ~InSeq(m, toSend) /\ m # writing /\ m # dspMsg /\ m # svcMsg /\ m # outputBuffer
    BY <2>1, <2>3 DEF Held
  <2>6. m \in Entries
    BY <2>1 DEF Entries
  <2>7. /\ Once(Append(addQueue, m))
        /\ \A n : InSeq(n, Append(addQueue, m)) <=> InSeq(n, addQueue) \/ n = m
    BY <1>q, <2>1, <2>5, OnceAppend
  <2>8. /\ Once(<<m>> \o t)
        /\ \A n : InSeq(n, <<m>> \o t) <=> InSeq(n, t) \/ n = m
    BY <2>3, <2>5, <2>6, OnceCons
  <2>9. ASSUME NEW n \in Messages
        PROVE  Apart(n)' /\ (Held(n)' <=> Held(n) \/ n = m)
    <3>1. Apart(n) /\ n # NoMessage /\ (InSeq(n, t) <=> InSeq(n, tasks))
      BY <1>0, <1>m, <2>3 DEF Placed
    <3>2. CASE writing = NoMessage /\ writing' = m /\ addQueue' = addQueue /\ q = t
      BY <2>2, <2>5, <3>1, <3>2 DEF Apart, Held
    <3>3. CASE writing' = writing /\ addQueue' = Append(addQueue, m) /\ q = t
      <4>1. InSeq(n, addQueue') <=> InSeq(n, addQueue) \/ n = m
        BY <2>7, <3>3
      <4> QED
        BY <2>2, <2>5, <3>1, <3>3, <4>1 DEF Apart, Held
    <3>4. CASE writing' = writing /\ addQueue' = addQueue /\ q = <<m>> \o t
      <4>1. InSeq(n, tasks') <=> InSeq(n, tasks) \/ n = m
        BY <2>2, <2>8, <3>1, <3>4
      <4> QED
        BY <2>2, <2>5, <3>1, <3>4, <4>1 DEF Apart, Held
    <3> QED
      BY <2>4, <3>2, <3>3, <3>4
  <2>10. Placed'
    <3>1. Once(addQueue') /\ Once(tasks')
      BY <1>q, <2>2, <2>3, <2>4, <2>7, <2>8
    <3> QED
      BY <1>q, <2>2, <2>9, <3>1 DEF Placed
  <2>11. Counted'
    BY <1>0, <2>1, <2>2, <2>9, Taken
  <2>12. Loaded'
    BY <1>0, <2>2 DEF Loaded
  <2>13. Gone'
    <3>1. conn'.state = conn.state /\ conn'.socket = conn.socket
      BY <1>0, <1>c, <2>2, SendFacts DEF OpenInv
    <3>2. stops = 0 /\ conn.socket # "deleted"
      <4>1. conn.state \notin {"CLOSING", "CLOSED"}
        BY <1>0, <2>2 DEF Gone
      <4>2. ReleasedOnce /\ stops \in Nat
        BY <1>0 DEF LifeInv, TypeOK
      <4> QED
        BY <4>1, <4>2 DEF ReleasedOnce
    <3> QED
      BY <1>0, <2>2, <3>1, <3>2 DEF Gone
  <2>14. Fresh'
    BY <2>2 DEF Fresh
  <2> QED
    BY <2>10, <2>11, <2>12, <2>13, <2>14 DEF LiveInv
<1>7. CASE Disconnect
  <2>1. /\ UNCHANGED <<connRefs, protoRefs, protocol, reading, stops, spc, svcLoaded, dspLoaded>>
        /\ UNCHANGED <<autoSend, toSend, addQueue, writing, svcMsg, dspMsg, outputBuffer>>
        /\ dpc = "close" /\ dpc' = "ran"
        /\ \/ conn' = Close(conn) /\ tasks' = CloseTask(conn, tasks)
           \/ UNCHANGED <<conn, tasks>>
    BY <1>7 DEF Disconnect
  <2>2. Once(tasks') /\ \A n \in Messages : InSeq(n, tasks') <=> InSeq(n, tasks)
    BY <1>c, <2>1, CloseTaskMessages
  <2>3. Placed' /\ Counted' /\ InUse' = InUse
    BY <1>0, <2>1, <2>2, Unmoved
  <2>4. Loaded'
    BY <1>0, <2>1 DEF Loaded, Current
  <2>5. /\ conn'.state \in {"CLOSING", "CLOSED"} => conn.state \in {"CLOSING", "CLOSED"}
        /\ conn'.socket = conn.socket
    BY <1>c, <2>1, Shutting
  <2>6. Gone'
    BY <1>0, <2>1, <2>3, <2>5, StillGone
  <2> QED
    BY <1>f, <2>3, <2>4, <2>6 DEF LiveInv
<1>8. CASE OutputTask
  <2> DEFINE m == FromPool
  <2>1. m \in Messages /\ ~Held(m)
    BY <1>8, PoolMessage DEF OutputTask, Allocate
  <2>2. /\ UNCHANGED <<protocol, conn, reading, stops, spc, svcLoaded, dspLoaded>>
        /\ UNCHANGED <<toSend, addQueue, writing, svcMsg, dspMsg>>
        /\ dpc = "idle" /\ dpc' = "ran" /\ spc \notin {"opcodeStore", "refuseStore"}
        /\ protocol = "attached"
        /\ tasks # <<>> /\ Head(tasks) = "game" /\ tasks' = Tail(tasks)
        /\ connRefs' = connRefs + 1 /\ protoRefs' = protoRefs + 1
        /\ outputBuffer' = m /\ autoSend' = Append(autoSend, m)
    BY <1>8 DEF OutputTask, TakeGameTask, Allocate, PoolUnlocked
  <2> HIDE DEF m
  <2>3. Once(tasks') /\ \A n \in Messages : InSeq(n, tasks') <=> InSeq(n, tasks)
    <3>1. Head(tasks) \notin Messages
      BY <2>2, ConnectionAssumption
    <3> QED
      BY <1>t, <2>2, <3>1
  <2>4. ~InSeq(m, autoSend)
    BY <2>1 DEF Held
  <2>5. /\ Once(autoSend')
        /\ \A n : InSeq(n, autoSend') <=> InSeq(n, autoSend) \/ n = m
    <3>1. /\ Once(Append(autoSend, m))
          /\ \A n : InSeq(n, Append(autoSend, m)) <=> InSeq(n, autoSend) \/ n = m
      BY <1>q, <2>1, <2>4, OnceAppend
    <3> QED
      BY <2>2, <3>1
  <2>6. ASSUME NEW n \in Messages
        PROVE  Apart(n)' /\ (Held(n)' <=> Held(n) \/ n = m)
    <3>1. Apart(n) /\ n # NoMessage /\ (InSeq(n, tasks') <=> InSeq(n, tasks))
          /\ (InSeq(n, autoSend') <=> InSeq(n, autoSend) \/ n = m)
      BY <1>0, <1>m, <2>3, <2>5 DEF Placed
    <3> QED
      BY <2>1, <2>2, <3>1 DEF Apart, Held
  <2>7. Placed'
    BY <1>q, <2>2, <2>3, <2>5, <2>6 DEF Placed
  <2>8. Counted'
    BY <1>0, <2>1, <2>2, <2>6, Taken
  <2>9. Loaded'
    BY <1>0, <2>2 DEF Loaded
  <2>10. Gone'
    <3>1. stops = 0 /\ conn.socket # "deleted"
      <4>1. conn.state \notin {"CLOSING", "CLOSED"}
        BY <1>0, <2>2 DEF Gone
      <4>2. ReleasedOnce /\ stops \in Nat
        BY <1>0 DEF LifeInv, TypeOK
      <4> QED
        BY <4>1, <4>2 DEF ReleasedOnce
    <3> QED
      BY <1>0, <2>2, <3>1 DEF Gone
  <2>11. Fresh'
    BY <2>2 DEF Fresh
  <2> QED
    BY <2>7, <2>8, <2>9, <2>10, <2>11 DEF LiveInv
<1>9. ASSUME UNCHANGED <<connRefs, protoRefs, protocol, stops, spc, svcLoaded, dspLoaded>>,
             UNCHANGED <<svcMsg, dspMsg, reading>>,
             conn'.state = conn.state, conn'.socket = conn.socket,
             dpc \in {"ran", "collect", "sendAll"}, dpc' \in {"collect", "sendAll", "idle"},
             toSend' # <<>> => dpc' = "sendAll",
             \A n \in Messages : Apart(n)' /\ (Held(n)' <=> Held(n)),
             Once(autoSend'), Once(toSend'), Once(addQueue'), Once(tasks')
      PROVE  LiveInv'
  <2>1. Placed'
    BY <1>9 DEF Placed
  <2>2. Counted' /\ InUse' = InUse
    BY <1>0, <1>9, Kept
  <2>3. Loaded'
    BY <1>0, <1>9 DEF Loaded, Current
  <2>4. Gone'
    BY <1>0, <1>9, <2>2 DEF Gone
  <2> QED
    BY <1>f, <2>1, <2>2, <2>3, <2>4 DEF LiveInv
<1>10. CASE Collect \/ DropOld
  <2> DEFINE m == Head(addQueue)
  <2>1. /\ UNCHANGED <<connRefs, protoRefs, protocol, stops, spc, svcLoaded, dspLoaded>>
        /\ UNCHANGED <<svcMsg, dspMsg, reading, conn, toSend, writing>>
        /\ dpc \in {"ran", "collect"} /\ dpc' = "collect"
        /\ addQueue # <<>> /\ addQueue' = Tail(addQueue)
        /\ \/ autoSend' = Append(autoSend, m) /\ UNCHANGED <<tasks, outputBuffer>>
           \/ /\ outputBuffer' = IF outputBuffer = m THEN NoMessage ELSE outputBuffer
              /\ tasks' = <<m>> \o tasks /\ autoSend' = autoSend
    BY <1>10 DEF Collect, DropOld, Collecting
  <2>2. /\ m \in Messages /\ InSeq(m, addQueue) /\ Once(Tail(addQueue))
        /\ \A n \in Messages : InSeq(n, Tail(addQueue)) <=> InSeq(n, addQueue) /\ n # m
    BY <1>q, <2>1, OnceTail
  <2> HIDE DEF m
  <2>3. ~InSeq(m, autoSend) /\ ~InSeq(m, toSend) /\ ~InSeq(m, tasks)
        /\ m \notin {writing, svcMsg, dspMsg} /\ m \in Entries
    <3>1. Apart(m)
      BY <1>0, <2>2 DEF Placed
    <3> QED
      BY <2>2, <3>1 DEF Apart, Entries
  <2>4. /\ Once(Append(autoSend, m))
        /\ \A n : InSeq(n, Append(autoSend, m)) <=> InSeq(n, autoSend) \/ n = m
    BY <1>q, <2>2, <2>3, OnceAppend
  <2>5. /\ Once(<<m>> \o tasks)
        /\ \A n : InSeq(n, <<m>> \o tasks) <=> InSeq(n, tasks) \/ n = m
    BY <1>c, <2>3, OnceCons
  <2>6. ASSUME NEW n \in Messages
        PROVE  Apart(n)' /\ (Held(n)' <=> Held(n))
    <3>1. Apart(n) /\ n # NoMessage /\ (InSeq(n, addQueue') <=> InSeq(n, addQueue) /\ n # m)
      BY <1>0, <1>m, <2>1, <2>2 DEF Placed
    <3>2. CASE autoSend' = Append(autoSend, m) /\ UNCHANGED <<tasks, outputBuffer>>
      <4>1. InSeq(n, autoSend') <=> InSeq(n, autoSend) \/ n = m
        BY <2>4, <3>2
      <4> QED
        BY <2>1, <2>2, <2>3, <3>1, <3>2, <4>1 DEF Apart, Held
    <3>3. CASE /\ outputBuffer' = IF outputBuffer = m THEN NoMessage ELSE outputBuffer
               /\ tasks' = <<m>> \o tasks /\ autoSend' = autoSend
      <4>1. InSeq(n, tasks') <=> InSeq(n, tasks) \/ n = m
        BY <2>5, <3>3
      <4>2. (n = outputBuffer' <=> n = outputBuffer /\ n # m) /\ autoSend' = autoSend
        BY <3>1, <3>3
      <4> QED
        BY <2>1, <2>2, <2>3, <3>1, <4>1, <4>2 DEF Apart, Held
    <3> QED
      BY <2>1, <3>2, <3>3
  <2>7. Once(autoSend') /\ Once(toSend') /\ Once(addQueue') /\ Once(tasks')
    BY <1>c, <1>q, <2>1, <2>2, <2>4, <2>5
  <2>8. toSend' = <<>>
    BY <1>0, <2>1 DEF Loaded
  <2> QED
    BY <1>9, <2>1, <2>6, <2>7, <2>8
<1>11. ASSUME NEW due, Collected(due)
       PROVE  LiveInv'
  <2>1. /\ UNCHANGED <<connRefs, protoRefs, protocol, stops, spc, svcLoaded, dspLoaded>>
        /\ UNCHANGED <<svcMsg, dspMsg, reading, conn, writing, tasks, addQueue, outputBuffer>>
        /\ dpc \in {"ran", "collect"} /\ dpc' = "sendAll"
        /\ toSend' = autoSend /\ autoSend' = <<>>
    BY <1>11 DEF Collected, Collecting
  <2>2. toSend = <<>>
    BY <1>0, <2>1 DEF Loaded
  <2>3. Once(<<>>) /\ \A n : ~InSeq(n, <<>>)
    BY DEF Once, InSeq
  <2>4. ASSUME NEW n \in Messages
        PROVE  Apart(n)' /\ (Held(n)' <=> Held(n))
    <3>1. Apart(n) /\ ~InSeq(n, toSend) /\ ~InSeq(n, autoSend')
      BY <1>0, <2>1, <2>2, <2>3 DEF Placed
    <3>2. InSeq(n, toSend') <=> InSeq(n, autoSend)
      BY <2>1
    <3> QED
      BY <2>1, <3>1, <3>2 DEF Apart, Held
  <2> QED
    BY <1>9, <1>c, <1>q, <2>1, <2>3, <2>4
<1>12. CASE SkipNext
  <2> DEFINE m == Head(toSend)
  <2>1. /\ UNCHANGED <<connRefs, protoRefs, protocol, stops, spc, svcLoaded, dspLoaded>>
        /\ UNCHANGED <<svcMsg, dspMsg, reading, conn, writing, tasks, addQueue, outputBuffer>>
        /\ dpc = "sendAll" /\ dpc' = dpc
        /\ toSend # <<>> /\ toSend' = Tail(toSend) /\ autoSend' = Append(autoSend, m)
    BY <1>12 DEF SkipNext
  <2>2. /\ m \in Messages /\ InSeq(m, toSend) /\ Once(Tail(toSend))
        /\ \A n \in Messages : InSeq(n, Tail(toSend)) <=> InSeq(n, toSend) /\ n # m
    BY <1>q, <2>1, OnceTail
  <2> HIDE DEF m
  <2>3. Apart(m)
    BY <1>0, <2>2 DEF Placed
  <2>4. ~InSeq(m, autoSend)
    BY <2>2, <2>3 DEF Apart
  <2>5. /\ Once(Append(autoSend, m))
        /\ \A n : InSeq(n, Append(autoSend, m)) <=> InSeq(n, autoSend) \/ n = m
    BY <1>q, <2>2, <2>4, OnceAppend
  <2>6. ASSUME NEW n \in Messages
        PROVE  Apart(n)' /\ (Held(n)' <=> Held(n))
    <3>1. /\ Apart(n)
          /\ InSeq(n, toSend') <=> InSeq(n, toSend) /\ n # m
          /\ InSeq(n, autoSend') <=> InSeq(n, autoSend) \/ n = m
      BY <1>0, <2>1, <2>2, <2>5 DEF Placed
    <3> QED
      BY <2>1, <2>2, <2>3, <3>1 DEF Apart, Held
  <2> QED
    BY <1>9, <1>c, <1>q, <2>1, <2>2, <2>5, <2>6
<1>13. CASE SendNext
  <2> DEFINE m == Head(toSend)
  <2>1. /\ UNCHANGED <<connRefs, protoRefs, protocol, stops, spc, svcLoaded, dspLoaded>>
        /\ UNCHANGED <<svcMsg, dspMsg, reading, autoSend>>
        /\ dpc = "sendAll" /\ dpc' = dpc /\ conn' = AfterSend(conn)
        /\ toSend # <<>> /\ toSend' = Tail(toSend) /\ SendSingle(m)
        /\ IF outputBuffer = m /\ (Defers(conn) \/ Slow(conn))
           THEN /\ outputBuffer' = outputBuffer
                /\ tasks' = IF Slow(conn) THEN CloseTask(conn, tasks) ELSE tasks
           ELSE /\ outputBuffer' = IF outputBuffer = m THEN NoMessage ELSE outputBuffer
                /\ tasks' = SendTasks(m, tasks)
    BY <1>13 DEF SendNext
  <2>2. /\ m \in Messages /\ InSeq(m, toSend) /\ Once(Tail(toSend))
        /\ \A n \in Messages : InSeq(n, Tail(toSend)) <=> InSeq(n, toSend) /\ n # m
    BY <1>q, <2>1, OnceTail
  <2> HIDE DEF m
  <2>3. ~Slow(conn) /\ conn'.state = conn.state /\ conn'.socket = conn.socket
    BY <1>0, <1>c, <2>1, NeverSlow, SendFacts DEF OpenInv
  <2>4. \/ /\ writing = NoMessage /\ writing' = m /\ ~Defers(conn)
           /\ addQueue' = addQueue /\ SendTasks(m, tasks) = tasks
        \/ /\ writing' = writing
           /\ addQueue' = Append(addQueue, m) /\ SendTasks(m, tasks) = tasks
        \/ /\ writing' = writing /\ ~Defers(conn)
           /\ addQueue' = addQueue /\ SendTasks(m, tasks) = <<m>> \o tasks
    BY <1>0, <1>c, <2>1, <2>2, SendMoves
  <2>5. \/ /\ writing = NoMessage /\ writing' = m /\ addQueue' = addQueue /\ tasks' = tasks
           /\ outputBuffer' # m
        \/ /\ writing' = writing /\ addQueue' = Append(addQueue, m) /\ tasks' = tasks
        \/ /\ writing' = writing /\ addQueue' = addQueue /\ tasks' = <<m>> \o tasks
           /\ outputBuffer' # m
    BY <1>m, <2>1, <2>2, <2>3, <2>4
  <2>6. outputBuffer' \in {outputBuffer, NoMessage}
    BY <2>1
  <2>7. /\ ~InSeq(m, autoSend) /\ ~InSeq(m, addQueue) /\ ~InSeq(m, tasks)
        /\ m \notin {writing, svcMsg, dspMsg} /\ m \in Entries
    <3>1. Apart(m)
      BY <1>0, <2>2 DEF Placed
    <3> QED
      BY <2>2, <3>1 DEF Apart, Entries
  <2>8. /\ Once(Append(addQueue, m))
        /\ \A n : InSeq(n, Append(addQueue, m)) <=> InSeq(n, addQueue) \/ n = m
    BY <1>q, <2>2, <2>7, OnceAppend
  <2>9. /\ Once(<<m>> \o tasks)
        /\ \A n : InSeq(n, <<m>> \o tasks) <=> InSeq(n, tasks) \/ n = m
    BY <1>c, <2>7, OnceCons
  <2>10. ASSUME NEW n \in Messages
         PROVE  Apart(n)' /\ (Held(n)' <=> Held(n))
    <3>1. /\ Apart(n) /\ n # NoMessage
          /\ InSeq(n, toSend') <=> InSeq(n, toSend) /\ n # m
          /\ n = outputBuffer' => n = outputBuffer
      BY <1>0, <1>m, <2>1, <2>2, <2>6 DEF Placed
    <3>2. UNCHANGED <<autoSend, svcMsg, dspMsg>>
      BY <2>1
    <3>3. CASE /\ writing = NoMessage /\ writing' = m /\ addQueue' = addQueue /\ tasks' = tasks
               /\ outputBuffer' # m
      BY <2>2, <2>7, <3>1, <3>2, <3>3 DEF Apart, Held
    <3>4. CASE writing' = writing /\ addQueue' = Append(addQueue, m) /\ tasks' = tasks
      <4>1. InSeq(n, addQueue') <=> InSeq(n, addQueue) \/ n = m
        BY <2>8, <3>4
      <4> QED
        BY <2>2, <2>7, <3>1, <3>2, <3>4, <4>1 DEF Apart, Held
    <3>5. CASE /\ writing' = writing /\ addQueue' = addQueue /\ tasks' = <<m>> \o tasks
               /\ outputBuffer' # m
      <4>1. InSeq(n, tasks') <=> InSeq(n, tasks) \/ n = m
        BY <2>9, <3>5
      <4> QED
        BY <2>2, <2>7, <3>1, <3>2, <3>5, <4>1 DEF Apart, Held
    <3> QED
      BY <2>5, <3>3, <3>4, <3>5
  <2>11. Once(autoSend') /\ Once(toSend') /\ Once(addQueue') /\ Once(tasks')
    BY <1>c, <1>q, <2>1, <2>2, <2>5, <2>8, <2>9
  <2> QED
    BY <1>9, <2>1, <2>3, <2>10, <2>11
<1>14. CASE SendAllEnds
  <2>1. /\ UNCHANGED <<connRefs, protoRefs, protocol, stops, spc, svcLoaded, dspLoaded>>
        /\ UNCHANGED <<svcMsg, dspMsg, reading, conn, writing, tasks, addQueue, outputBuffer>>
        /\ UNCHANGED <<autoSend, toSend>> /\ toSend = <<>>
        /\ dpc = "sendAll" /\ dpc' = "idle"
    BY <1>14 DEF SendAllEnds
  <2>2. ASSUME NEW n \in Messages
        PROVE  Apart(n)' /\ (Held(n)' <=> Held(n))
    <3>1. Apart(n)
      BY <1>0 DEF Placed
    <3> QED
      BY <2>1, <3>1 DEF Apart, Held
  <2> QED
    BY <1>9, <1>c, <1>q, <2>1, <2>2
<1> QED
  BY <1>1, <1>2, <1>3, <1>4, <1>5, <1>6, <1>7, <1>8, <1>10, <1>11, <1>12, <1>13, <1>14
     DEF DispatcherStep, QueuedTask

LEMMA LiveInit == Init => LiveInv
<1> SUFFICES ASSUME Init
             PROVE  LiveInv
  OBVIOUS
<1>1. \A n : ~InSeq(n, <<>>)
  BY DEF InSeq
<1>2. \A n \in Messages : ~Held(n) /\ Apart(n)
  BY <1>1, ConnectionAssumption DEF Init, Held, Apart
<1>3. InUse = {}
  BY <1>2 DEF InUse
<1>4. Placed
  BY <1>2 DEF Init, Placed, Once
<1>5. Counted
  BY <1>3, FS_EmptySet DEF Init, Counted
<1> QED
  BY <1>3, <1>4, <1>5 DEF Init, LiveInv, Loaded, Gone, Fresh

LEMMA LiveStep ==
  ASSUME IInv, IInv', LiveInv, ~Racing, [Next]_vars
  PROVE  LiveInv'
<1>1. CASE ServiceStep
  BY <1>1, ServiceLive
<1>2. CASE DispatcherStep
  BY <1>2, DispatcherLive
<1>3. CASE GameTaskAdded \/ ReadTimerExpires \/ WriteTimerExpires
  BY <1>3, TimerLive
<1>4. CASE UNCHANGED vars
  <2>1. UNCHANGED <<conn, protocol, refVars, ioVars, svcVars, dspVars, queueVars, poolVars>>
    BY <1>4 DEF vars
  <2> QED
    BY <2>1 DEF refVars, ioVars, readVars, writeVars, svcVars, dspVars, dspRest, queueVars,
                closeVars, poolVars, LiveInv, Placed, Apart, Counted, InUse, Held, Loaded, Current,
                Gone, Fresh
<1> QED
  BY <1>1, <1>2, <1>3, <1>4 DEF Next

LEMMA LiveIsSafe == IInv /\ LiveInv => NothingDangles
<1> SUFFICES ASSUME IInv, LiveInv
             PROVE  NothingDangles
  OBVIOUS
<1>0. /\ TypeOK /\ OpenInv /\ QueueInv /\ LifeInv
      /\ Counted /\ Loaded /\ Gone
  BY DEF IInv, LiveInv
<1>1. ASSUME conn.socket = "deleted"
      PROVE  conn.state = "CLOSED"
  <2>1. ReleasedOnce /\ stops \in Nat
    BY <1>0 DEF LifeInv, TypeOK
  <2> QED
    BY <1>1, <2>1 DEF ReleasedOnce
<1>2. StoppedIsUnreferenced
  BY <1>0, <1>1 DEF StoppedIsUnreferenced, Referenced, Gone, InUse, QueueInv, CloseInv
<1>3. NoDanglingProtocol
  BY <1>0 DEF NoDanglingProtocol, Gone, InUse
<1>4. RefsCountMessages
  BY <1>0, FS_EmptySet DEF RefsCountMessages, Counted
<1> QED
  BY <1>2, <1>3, <1>4 DEF NothingDangles

\* As long as the two threads do not change m_refCount at the same time, no
\* message, handler, task or retry outlives the socket, the connection or the
\* protocol it points to.
THEOREM NothingDanglesUnlessRaced == Spec /\ []~Racing => []NothingDangles
<1>1. IInv /\ IInv' /\ LiveInv /\ ~Racing /\ [Next]_vars => LiveInv'
  BY LiveStep
<1> QED
  BY <1>1, Invariant, LiveInit, LiveIsSafe, PTL DEF Spec
-------------------------------------------------------------------------------
(* When they cannot *)

\* The service thread asks for a message of its own, to refuse a login or to
\* answer an OTClient, only when the protocol has had no message before.
Silent == "single" \notin Sockets \/ (~OtClient /\ "refuse" \notin Verdicts)

Busy == spc \in {"answer", "refuse", "refuseStore"}

QuietInv ==
  /\ protocol = "none" \/ Busy => InUse = {} /\ ~player /\ ~InSeq("login", tasks)
  /\ spc \notin {"opcode", "opcodeStore"}
  /\ "single" \notin Sockets => (protocol = "none" \/ conn.receivedFirst) /\ spc # "verdict"

LEMMA QuietNoRace ==
  ASSUME IInv, LiveInv, QuietInv
  PROVE  ~Racing
<1>1. ASSUME dpc = "unRef"
      PROVE  InUse # {}
  <2>1. dspMsg \in Messages
    BY <1>1 DEF IInv, TypeOK, LiveInv, Loaded
  <2> QED
    BY <2>1 DEF InUse, Held
<1> QED
  BY <1>1 DEF QuietInv, Busy, Racing

\* Before its first message of its own the service thread finds no other; then
\* only a login or a player can ask for one.
LEMMA QuietPast ==
  ASSUME IInv, QuietInv, Silent, Next, protocol' = "none" \/ Busy'
  PROVE  protocol = "none" \/ Busy
<1> USE DEF ioVars, readVars, writeVars, refVars, svcVars, dspVars, dspRest, closeVars,
            queueVars, poolVars, Busy
<1>1. CASE ParseFirst
  BY <1>1 DEF ParseFirst
<1>2. CASE VerdictRefuse
  BY <1>2 DEF VerdictRefuse, Deciding, Silent, QuietInv
<1>3. CASE AddRefLoad
  BY <1>3 DEF AddRefLoad, QuietInv
<1>4. CASE AddRefStore
  BY <1>4 DEF AddRefStore
<1>5. CASE HandleSingleSocket \/ HandleShared
  BY <1>5 DEF HandleSingleSocket, HandleShared, IInv, BusyInv
<1>6. CASE \/ ParseHeader \/ ParsePacket \/ ParseUnknown \/ VerdictClose \/ VerdictAccept
           \/ RefuseSend \/ ReadTimeout \/ WriteTimeout \/ OnStop
           \/ (\E result \in Outcomes : ReadEnds(result) \/ WriteEnds(result))
  BY <1>6 DEF ParseHeader, ParsePacket, ParseUnknown, VerdictClose, VerdictAccept, RefuseSend,
              ReadTimeout, WriteTimeout, OnStop, ReadEnds, WriteEnds, NextRead
<1>7. CASE DispatcherStep
  <2>1. spc' = spc /\ (protocol' = "none" => protocol = "none")
    BY <1>7 DEF DispatcherStep, QueuedTask, CloseConnection, UnRefLoad, Login, LoginRefused, KickTask,
           OutputTask, OtherTask, TakeGameTask, RetryConnection, RetryProtocol, UnRefStore,
           Disconnect, Collect, DropOld, Collected, SkipNext, SendNext, SendAllEnds
  <2> QED
    BY <2>1
<1>8. CASE GameTaskAdded \/ ReadTimerExpires \/ WriteTimerExpires
  BY <1>8 DEF GameTaskAdded, ReadTimerExpires, WriteTimerExpires
<1> QED
  BY <1>1, <1>2, <1>3, <1>4, <1>5, <1>6, <1>7, <1>8 DEF Next, ServiceStep

LEMMA QuietQueue ==
  ASSUME IInv, LiveInv, QuietInv, Next, protocol = "none" \/ Busy,
         protocol' = "none" \/ Busy'
  PROVE  /\ connRefs' = 0 /\ player' = FALSE
         /\ \/ tasks' = tasks \/ (tasks # <<>> /\ tasks' = Tail(tasks))
            \/ tasks' = Append(tasks, "game") \/ \E c : tasks' = CloseTask(c, tasks)
<1> USE DEF ioVars, readVars, writeVars, refVars, svcVars, dspVars, dspRest, closeVars,
            queueVars, poolVars
<1>0. /\ InUse = {} /\ player = FALSE /\ ~InSeq("login", tasks)
      /\ TypeOK /\ BusyInv /\ Counted /\ Loaded
  BY DEF IInv, LiveInv, QuietInv, TypeOK
<1>1. \A n \in Messages : ~Held(n)
  BY <1>0 DEF InUse
<1>2. connRefs = 0
  BY <1>0, FS_EmptySet DEF Counted
<1>3. writing = NoMessage /\ svcMsg = NoMessage /\ dspMsg = NoMessage /\ dpc # "unRef"
  <2>1. writing \notin Messages /\ svcMsg \notin Messages /\ dspMsg \notin Messages
    BY <1>1 DEF Held
  <2> QED
    BY <1>0, <2>1 DEF TypeOK, Loaded
<1>4. toSend = <<>> /\ addQueue = <<>>
  <2>1. ASSUME NEW q \in Seq(Messages), q # <<>>, \A n \in Messages : ~InSeq(n, q)
        PROVE  FALSE
    BY <2>1, OnceTail
  <2>2. \A n \in Messages : ~InSeq(n, toSend) /\ ~InSeq(n, addQueue)
    BY <1>1 DEF Held
  <2> QED
    BY <1>0, <2>1, <2>2 DEF TypeOK
<1>5. ASSUME tasks # <<>>
      PROVE  Head(tasks) # "login" /\ Head(tasks) \notin Messages
  <2>1. tasks \in Seq(Entries)
    BY <1>0, ConnType
  <2>2. InSeq(Head(tasks), tasks)
    BY <1>5, <2>1, TailQueue
  <2>3. \A n \in Messages : ~InSeq(n, tasks)
    BY <1>1 DEF Held
  <2> QED
    BY <1>0, <2>2, <2>3
<1>6. CASE HandleSingleSocket
  BY <1>6 DEF HandleSingleSocket, Busy
<1>7. CASE AddRefStore \/ VerdictAccept \/ RefuseSend
  <2>1. /\ spc \notin {"idle", "handle"} /\ spc' \notin {"answer", "refuse", "refuseStore"}
        /\ protocol' = protocol
    BY <1>7 DEF AddRefStore, VerdictAccept, RefuseSend, NextRead
  <2> QED
    BY <1>0, <2>1 DEF BusyInv, Busy
<1>8. CASE \/ HandleShared \/ ParseHeader \/ ParsePacket \/ ParseUnknown \/ ParseFirst
           \/ VerdictClose \/ VerdictRefuse \/ AddRefLoad
           \/ ReadTimeout \/ WriteTimeout \/ OnStop
           \/ (\E result \in Outcomes : ReadEnds(result) \/ WriteEnds(result))
  <2>1. UNCHANGED <<connRefs, player>>
    BY <1>8 DEF HandleShared, ParseHeader, ParsePacket, ParseUnknown, ParseFirst, VerdictClose,
                VerdictRefuse, AddRefLoad, ReadTimeout, WriteTimeout, OnStop, ReadEnds, WriteEnds
  <2>2. tasks' = tasks \/ \E c : tasks' = CloseTask(c, tasks)
    BY <1>3, <1>8
       DEF HandleShared, ParseHeader, ParsePacket, ParseUnknown, ParseFirst, VerdictClose,
           VerdictRefuse, AddRefLoad, ReadTimeout, WriteTimeout, OnStop, ReadEnds, WriteEnds
  <2> QED
    BY <1>0, <1>2, <2>1, <2>2
<1>9. CASE \/ Login \/ LoginRefused \/ UnRefLoad \/ UnRefStore \/ DropOld \/ Collect
           \/ SendNext \/ SkipNext \/ OutputTask
  BY <1>0, <1>3, <1>4, <1>5, <1>9
     DEF Login, LoginRefused, UnRefLoad, UnRefStore, DropOld, Collect, SendNext, SkipNext,
         OutputTask
<1>10. CASE \/ CloseConnection \/ KickTask \/ OtherTask \/ RetryConnection \/ RetryProtocol
            \/ Disconnect \/ (\E due \in SUBSET Listed : Collected(due)) \/ SendAllEnds
  <2>1. UNCHANGED <<connRefs, player>>
    BY <1>10 DEF CloseConnection, KickTask, OtherTask, RetryConnection, RetryProtocol, Disconnect,
                 Collected, SendAllEnds, TakeGameTask
  <2>2. tasks' = tasks \/ (tasks # <<>> /\ tasks' = Tail(tasks)) \/ \E c : tasks' = CloseTask(c, tasks)
    BY <1>10 DEF CloseConnection, KickTask, OtherTask, RetryConnection, RetryProtocol, Disconnect,
                 Collected, SendAllEnds, TakeGameTask
  <2> QED
    BY <1>0, <1>2, <2>1, <2>2
<1>11. CASE GameTaskAdded \/ ReadTimerExpires \/ WriteTimerExpires
  BY <1>0, <1>2, <1>11 DEF GameTaskAdded, ReadTimerExpires, WriteTimerExpires
<1> QED
  BY <1>6, <1>7, <1>8, <1>9, <1>10, <1>11
     DEF Next, ServiceStep, DispatcherStep, QueuedTask

LEMMA FirstStays ==
  ASSUME NEW c \in Conns
  PROVE  /\ Close(c).receivedFirst = c.receivedFirst
         /\ CloseSocket(c).receivedFirst = c.receivedFirst
         /\ AfterSend(c).receivedFirst = c.receivedFirst
         /\ Accept(c).receivedFirst = c.receivedFirst
BY DEF Close, CloseSocket, AfterSend, Accept, Conns

LEMMA QuietStep ==
  ASSUME IInv, IInv', LiveInv, LiveInv', QuietInv, Silent, Next
  PROVE  QuietInv'
<1>0. TypeOK /\ OpenInv /\ BusyInv /\ conn \in Conns /\ tasks \in Seq(Entries)
  BY ConnType DEF IInv
<1>1. ASSUME protocol' = "none" \/ Busy'
      PROVE  InUse' = {} /\ ~player' /\ ~InSeq("login", tasks')
  <2>1. protocol = "none" \/ Busy
    BY <1>1, QuietPast
  <2>2. /\ connRefs' = 0 /\ player' = FALSE
        /\ \/ tasks' = tasks \/ (tasks # <<>> /\ tasks' = Tail(tasks))
           \/ tasks' = Append(tasks, "game") \/ \E c : tasks' = CloseTask(c, tasks)
    BY <1>1, <2>1, QuietQueue
  <2>3. InUse' = {}
    BY <2>2, FS_EmptySet DEF LiveInv, Counted
  <2>4. ~InSeq("login", tasks)
    BY <2>1 DEF QuietInv
  <2>5. ASSUME NEW e \in {"game", "close"}
        PROVE  ~InSeq("login", Append(tasks, e))
    <3>1. e \in Entries /\ e # "login"
      BY DEF Entries
    <3> QED
      BY <1>0, <2>4, <3>1, AppendQueue
  <2>6. \A c : ~InSeq("login", CloseTask(c, tasks))
    BY <2>4, <2>5 DEF CloseTask
  <2>7. tasks # <<>> => ~InSeq("login", Tail(tasks))
    BY <1>0, <2>4, TailQueue
  <2> QED
    BY <2>2, <2>3, <2>4, <2>5, <2>6, <2>7
<1> USE DEF ioVars, readVars, writeVars, refVars, svcVars, dspVars, dspRest, closeVars,
            queueVars, poolVars
<1>2. CASE ParseFirst
  <2>1. ~conn.receivedFirst
    BY <1>2 DEF ParseFirst
  <2>2. protocol = "none" \/ ~OtClient
    BY <2>1 DEF Silent, QuietInv
  <2>3. spc' \in {"answer", "verdict"} /\ (protocol = "none" => spc' = "answer")
    BY <1>2, <2>2 DEF ParseFirst
  <2>4. conn'.receivedFirst
    BY <1>0, <1>2 DEF ParseFirst, Conns
  <2> QED
    BY <1>1, <2>1, <2>3, <2>4 DEF QuietInv
<1>3. CASE HandleSingleSocket
  BY <1>1, <1>3 DEF HandleSingleSocket, QuietInv
<1>4. ASSUME protocol' = protocol \/ protocol # "none", conn.receivedFirst => conn'.receivedFirst,
             \/ spc' \in {spc, "idle", "refuse", "refuseSend"}
             \/ spc \in {"refuse", "refuseStore"} /\ spc' \notin {"verdict", "opcode", "opcodeStore"}
      PROVE  QuietInv'
  BY <1>1, <1>4 DEF QuietInv
<1>5. CASE ServiceStep /\ ~ParseFirst /\ ~HandleSingleSocket
  <2>1. protocol' = protocol
    BY <1>5 DEF ServiceStep, HandleShared, ParseHeader, ParsePacket, ParseUnknown, VerdictClose,
                VerdictAccept, VerdictRefuse, AddRefLoad, AddRefStore, RefuseSend, ReadEnds,
                WriteEnds, ReadTimeout, WriteTimeout, OnStop
  <2>2. \/ spc' \in {spc, "idle", "refuse", "refuseSend"}
        \/ spc \in {"refuse", "refuseStore"} /\ spc' \notin {"verdict", "opcode", "opcodeStore"}
    BY <1>5 DEF QuietInv, ServiceStep, HandleShared, ParseHeader, ParsePacket, ParseUnknown, VerdictClose,
                VerdictAccept, VerdictRefuse, AddRefLoad, AddRefStore, RefuseSend, ReadEnds,
                WriteEnds, ReadTimeout, WriteTimeout, OnStop, NextRead
  <2>3. conn.receivedFirst => conn'.receivedFirst
    <3>1. CASE \/ ParseHeader \/ ParsePacket \/ VerdictRefuse \/ AddRefLoad \/ AddRefStore
      BY <3>1 DEF ParseHeader, ParsePacket, VerdictRefuse, AddRefLoad, AddRefStore
    <3>2. CASE HandleShared \/ VerdictAccept \/ OnStop
      <4>1. conn' = Accept(conn) \/ conn' = [conn EXCEPT !.socket = "deleted"]
        BY <3>2 DEF HandleShared, VerdictAccept, OnStop
      <4> QED
        BY <1>0, <4>1, FirstStays DEF Conns
    <3>3. CASE VerdictClose \/ RefuseSend
      <4>1. conn' = Accept(Close(conn)) \/ conn' = Accept(Close(AfterSend(conn)))
        BY <3>3 DEF VerdictClose, RefuseSend
      <4>2. AfterSend(conn) \in Conns /\ Close(conn) \in Conns /\ Close(AfterSend(conn)) \in Conns
        BY <1>0, SendFacts, CloseFacts DEF OpenInv
      <4> QED
        BY <1>0, <4>1, <4>2, FirstStays
    <3>4. CASE ReadTimeout \/ WriteTimeout
      <4>1. conn' = conn \/ conn' = Close(CloseSocket(conn))
        BY <3>4 DEF ReadTimeout, WriteTimeout
      <4> QED
        BY <1>0, <4>1, CloseSocketFacts, FirstStays
    <3>5. CASE ParseUnknown
      BY <3>5 DEF ParseUnknown
    <3>6. ASSUME NEW result, ReadEnds(result)
          PROVE  conn.receivedFirst => conn'.receivedFirst
      <4> DEFINE d == [conn EXCEPT !.readError = @ \/ result # "ok"]
      <4>1. d \in Conns /\ d.receivedFirst = conn.receivedFirst
        BY <1>0 DEF Conns
      <4>2. conn' = Close(d)
        BY <3>6 DEF ReadEnds
      <4> HIDE DEF d
      <4> QED
        BY <4>1, <4>2, FirstStays
    <3>7. ASSUME NEW result, WriteEnds(result)
          PROVE  conn.receivedFirst => conn'.receivedFirst
      <4> DEFINE d == [conn EXCEPT !.writeError = @ \/ result # "ok"]
      <4>1. d \in Conns /\ d.receivedFirst = conn.receivedFirst
        BY <1>0 DEF Conns
      <4>2. conn' = Close(CloseSocket(d)) \/ conn' = [conn EXCEPT !.pendingWrite = @ - 1]
        BY <3>7 DEF WriteEnds
      <4> HIDE DEF d
      <4>3. CloseSocket(d) \in Conns /\ CloseSocket(d).receivedFirst = d.receivedFirst
        BY <4>1, CloseSocketFacts, FirstStays
      <4> QED
        BY <1>0, <4>1, <4>2, <4>3, FirstStays DEF Conns
    <3> QED
      BY <1>5, <3>1, <3>2, <3>3, <3>4, <3>5, <3>6, <3>7 DEF ServiceStep
  <2> QED
    BY <1>4, <2>1, <2>2, <2>3
<1>6. CASE DispatcherStep
  <2>1. spc' = spc /\ (protocol' = protocol \/ protocol # "none")
    BY <1>6 DEF DispatcherStep, QueuedTask, CloseConnection, UnRefLoad, Login, LoginRefused, KickTask,
           OutputTask, OtherTask, TakeGameTask, RetryConnection, RetryProtocol, UnRefStore,
           Disconnect, Collect, DropOld, Collected, SkipNext, SendNext, SendAllEnds, IInv, LifeInv, TypeOK
  <2>2. \/ conn' = conn \/ conn' = Close(conn) \/ conn' = AfterSend(conn)
        \/ conn' = [CloseSocket(conn) EXCEPT !.state = "CLOSED"]
        \/ conn' = [conn EXCEPT !.state = "CLOSING"]
    BY <1>6 DEF DispatcherStep, QueuedTask, CloseConnection, UnRefLoad, Login, LoginRefused, KickTask,
           OutputTask, OtherTask, TakeGameTask, RetryConnection, RetryProtocol, UnRefStore,
           Disconnect, Collect, DropOld, Collected, SkipNext, SendNext, SendAllEnds
  <2>3. conn.receivedFirst => conn'.receivedFirst
    <3>1. CloseSocket(conn) \in Conns
      BY <1>0, CloseSocketFacts
    <3> QED
      BY <1>0, <2>2, <3>1, FirstStays DEF Conns
  <2> QED
    BY <1>4, <2>1, <2>3
<1>7. CASE GameTaskAdded \/ ReadTimerExpires \/ WriteTimerExpires
  <2>1. UNCHANGED <<conn, protocol, spc>>
    BY <1>7 DEF GameTaskAdded, ReadTimerExpires, WriteTimerExpires
  <2> QED
    BY <1>4, <2>1
<1> QED
  BY <1>2, <1>3, <1>5, <1>6, <1>7 DEF Next

\* For such connections the counters are never raced for, and nothing dangles.
THEOREM NothingDanglesHolds == Silent /\ Spec => []NothingDangles
<1>1. Init => QuietInv
  <2> SUFFICES ASSUME Init
               PROVE  QuietInv
    OBVIOUS
  <2>1. InUse = {} /\ ~InSeq("login", tasks)
    <3>1. \A n : ~InSeq(n, <<>>)
      BY DEF InSeq
    <3> QED
      BY <3>1, ConnectionAssumption DEF Init, InUse, Held
  <2> QED
    BY <2>1 DEF Init, QuietInv
<1>2. ASSUME IInv, IInv', LiveInv, QuietInv, Silent, [Next]_vars
      PROVE  LiveInv' /\ QuietInv'
  <2>1. LiveInv'
    BY <1>2, QuietNoRace, LiveStep
  <2>2. CASE Next
    BY <1>2, <2>1, <2>2, QuietStep
  <2>3. CASE UNCHANGED vars
    <3>1. /\ UNCHANGED <<conn, protocol, spc, tasks, player, svcMsg, dspMsg, writing>>
          /\ UNCHANGED <<autoSend, toSend, addQueue, outputBuffer>>
      BY <2>3 DEF vars, ioVars, writeVars, svcVars, dspVars, dspRest, queueVars, poolVars
    <3>2. InUse' = InUse
      BY <3>1 DEF InUse, Held
    <3>3. Busy' = Busy
      BY <3>1 DEF Busy
    <3>4. protocol' = "none" \/ Busy' => InUse' = {} /\ ~player' /\ ~InSeq("login", tasks')
      BY <1>2, <3>1, <3>2, <3>3, Zenon DEF QuietInv
    <3>5. spc' \notin {"opcode", "opcodeStore"}
      BY <1>2, <3>1 DEF QuietInv
    <3>6. "single" \notin Sockets
            => (protocol' = "none" \/ conn'.receivedFirst) /\ spc' # "verdict"
      BY <1>2, <3>1, Zenon DEF QuietInv
    <3> QED
      BY <2>1, <3>4, <3>5, <3>6 DEF QuietInv
  <2> QED
    BY <1>2, <2>1, <2>2, <2>3
<1>3. (IInv /\ IInv' /\ LiveInv /\ QuietInv /\ Silent /\ [Next]_vars) => LiveInv' /\ QuietInv'
  BY <1>2
<1>4. Silent \in BOOLEAN
  BY DEF Silent
<1>5. CASE Silent
  <2>1. (IInv /\ IInv' /\ LiveInv /\ QuietInv /\ [Next]_vars) => LiveInv' /\ QuietInv'
    BY <1>3, <1>5
  <2> QED
    BY <1>1, <2>1, Invariant, LiveInit, LiveIsSafe, PTL DEF Spec
<1>6. CASE ~Silent
  BY <1>6
<1> QED
  BY <1>5, <1>6
===============================================================================
