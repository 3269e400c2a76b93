---------------------------- MODULE QueueProofs ----------------------------
(***************************************************************************)
(* What TLC checks of Dispatcher on a few tasks, proved for all Producers, *)
(* Tasks and kinds of task; and the safety properties of WaitingList, for  *)
(* any players and limit.                                                  *)
(*                                                                         *)
(* ListedOnce, Fifo and ReleasesFirst are not inductive one by one: that a *)
(* finished task left no copy in m_taskList needs the list free of         *)
(* duplicates, and that the next one taken is the oldest needs the list    *)
(* sorted by ticket.  QueueInv is their inductive strengthening; its steps *)
(* fall into three kinds: push, pop, and a change to the task in hand.     *)
(*                                                                         *)
(* Cleaned of WaitingList is a recursive function.  That its equation has  *)
(* a solution, and what that computes, is shown by induction over the      *)
(* length of the list; the library's induction theorems take an operator   *)
(* and cannot be instantiated here, so the induction is stated over a set  *)
(* of numbers (NatInductionOnSets) and follows from the well-foundedness   *)
(* of <.  CleanedKeeps is what all proofs use: cleanup keeps exactly the   *)
(* entries that are alive, in their order.  PromiseKept is inductive       *)
(* together with the types; NoOvertaking needs OnePlaceEach too, without   *)
(* which the place found for a name would not tell where an entry stood.   *)
(***************************************************************************)
EXTENDS Dispatcher, WaitingList, FiniteSetTheorems, SequenceTheorems, TLAPS

\* The task the thread holds has left the list.
CurrentTask ==
  /\ pc = "ready" => current \in Tasks /\ status[current] = "taken"
  /\ pc \in {"running", "stopping", "sending"} \cup FlushPC
       => current \in Tasks /\ status[current] = "executing"

TicketBound == \A t \in Tasks : ticket[t] <= accepted

ListOrdered ==
  \A i, j \in DOMAIN taskList :
    i < j /\ taskList[i] \in Back /\ taskList[j] \in Back
      => ticket[taskList[i]] < ticket[taskList[j]]

ListInv  == ListedOnce /\ TicketBound /\ ListOrdered /\ Fifo /\ ReleasesFirst
QueueInv == CurrentTask /\ ListInv

\* The effects on the queue of taking the first task and of dealing with it.
Popped(s) ==
  /\ taskList # <<>>
  /\ taskList' = Tail(taskList)
  /\ status' = [status EXCEPT ![Head(taskList)] = s]
  /\ UNCHANGED <<ticket, accepted>>

Handled(s) ==
  /\ status' = [status EXCEPT ![current] = s]
  /\ UNCHANGED <<taskList, ticket, accepted>>

Gone == {"taken", "executing", "executed", "discarded"}
-------------------------------------------------------------------------------
LEMMA PushProperties ==
  ASSUME NEW list \in Seq(Tasks), NEW t \in Tasks
  PROVE  /\ Push(t, list) \in Seq(Tasks)
         /\ Push(t, list) # <<>>
         /\ Len(Push(t, list)) = Len(list) + 1
         /\ t \in ToFront => /\ Push(t, list)[1] = t
                           /\ \A i \in 2 .. Len(list) + 1 : Push(t, list)[i] = list[i - 1]
         /\ t \notin ToFront => /\ Push(t, list)[Len(list) + 1] = t
                              /\ \A i \in 1 .. Len(list) : Push(t, list)[i] = list[i]
<1>1. CASE t \in ToFront
  <2>1. <<t>> \in Seq(Tasks) /\ Len(<<t>>) = 1 /\ <<t>>[1] = t
    OBVIOUS
  <2>2. /\ <<t>> \o list \in Seq(Tasks)
        /\ Len(<<t>> \o list) = 1 + Len(list)
        /\ \A i \in 1 .. 1 + Len(list) :
             (<<t>> \o list)[i] = IF i <= 1 THEN <<t>>[i] ELSE list[i - 1]
    BY <2>1, ConcatProperties, Zenon
  <2>3. Len(list) \in Nat
    OBVIOUS
  <2>4. Push(t, list) = <<t>> \o list
    BY <1>1 DEF Push
  <2>5. <<t>> \o list # <<>>
    BY <2>2, <2>3, EmptySeq
  <2> QED
    BY <1>1, <2>1, <2>2, <2>3, <2>4, <2>5
<1>2. CASE t \notin ToFront
  BY <1>2, AppendProperties DEF Push
<1> QED
  BY <1>1, <1>2

\* The shape of the variables is as TypeOK says, in every reachable state.
THEOREM TypeCorrect == Spec => []TypeOK
<1>1. Init => TypeOK
  <2> SUFFICES ASSUME Init
               PROVE  TypeOK
    OBVIOUS
  <2>1. taskList \in Seq(Tasks)
    BY EmptySeq DEF Init
  <2> QED
    BY <2>1 DEF Init, TypeOK, ThreadState, PC, FlushPC, ProducerPC, Status
<1>2. TypeOK /\ [Next]_vars => TypeOK'
  <2> SUFFICES ASSUME TypeOK, [Next]_vars
               PROVE  TypeOK'
    OBVIOUS
  <2> USE DispatcherAssumption DEF TypeOK, ThreadState, PC, FlushPC, ProducerPC, Status
  <2>1. ASSUME NEW t \in Tasks, Enqueue(t)
        PROVE  /\ taskList' \in Seq(Tasks) /\ status' \in [Tasks -> Status]
               /\ ticket' \in [Tasks -> Nat] /\ accepted' \in Nat
    <3>1. Push(t, taskList) \in Seq(Tasks)
      BY PushProperties
    <3>2. taskList' \in Seq(Tasks)
      BY <2>1, <3>1 DEF Enqueue
    <3>3. status' \in [Tasks -> Status]
      BY <2>1 DEF Enqueue
    <3>4. ticket' \in [Tasks -> Nat] /\ accepted' \in Nat
      <4>1. accepted + 1 \in Nat
        OBVIOUS
      <4> QED
        BY <2>1, <4>1 DEF Enqueue
    <3> QED
      BY <3>2, <3>3, <3>4
  <2>2. ASSUME TakeFirst
        PROVE  /\ taskList' \in Seq(Tasks) /\ status' \in [Tasks -> Status]
               /\ current' \in Tasks \cup {NoTask} /\ pc' \in PC
    <3>1. taskList # <<>> => Head(taskList) \in Tasks /\ Tail(taskList) \in Seq(Tasks)
      BY HeadTailProperties
    <3> QED
      BY <2>2, <3>1 DEF TakeFirst
  <2>3. ASSUME NEW p \in Producers, NEW t \in Tasks, AddTask(p, t)
        PROVE  TypeOK'
    BY <2>1, <2>3 DEF AddTask
  <2>4. ASSUME NEW p \in Producers, NEW t \in Tasks, SigTerm(p, t)
        PROVE  TypeOK'
    BY <2>1, <2>4 DEF SigTerm
  <2>5. ASSUME NEW p \in Producers, Notify(p)
        PROVE  TypeOK'
    BY <2>5 DEF Notify
  <2>6. ASSUME NEW p \in Producers, StopBySignal(p)
        PROVE  TypeOK'
    BY <2>6 DEF StopBySignal
  <2>7. ASSUME NEW t \in Tasks, Expire(t)
        PROVE  TypeOK'
    BY <2>7 DEF Expire
  <2>8. CASE CheckState
    BY <2>8 DEF CheckState
  <2>9. CASE Acquire
    BY <2>2, <2>9 DEF Acquire
  <2>10. CASE SpuriousWake
    BY <2>10 DEF SpuriousWake
  <2>11. CASE Wake
    BY <2>2, <2>11 DEF Wake
  <2>12. CASE Execute
    BY <2>12 DEF Execute
  <2>13. ASSUME NEW t \in Tasks, RunAdd(t)
         PROVE  TypeOK'
    BY <2>1, <2>13 DEF RunAdd
  <2>14. ASSUME NEW t \in Tasks, RequestShutdown(t)
         PROVE  TypeOK'
    BY <2>1, <2>14 DEF RequestShutdown
  <2>15. CASE Stop
    BY <2>15 DEF Stop
  <2>16. CASE Shutdown
    BY <2>16 DEF Shutdown
  <2>17. CASE FlushOne
    BY <2>17, HeadTailProperties DEF FlushOne
  <2>18. CASE FlushRelock
    BY <2>18, HeadTailProperties DEF FlushRelock
  <2>19. CASE FlushEnd
    BY <2>19 DEF FlushEnd
  <2>20. CASE Finish
    BY <2>20 DEF Finish
  <2>21. CASE UNCHANGED vars
    BY <2>21 DEF vars
  <2> QED
    BY <2>3, <2>4, <2>5, <2>6, <2>7, <2>8, <2>9, <2>10, <2>11, <2>12, <2>13,
       <2>14, <2>15, <2>16, <2>17, <2>18, <2>19, <2>20, <2>21 DEF Next, DispatcherStep
<1>3. QED
  BY <1>1, <1>2, PTL DEF Spec
-------------------------------------------------------------------------------
\* addTask signals only when it found the list empty, and still no task is ever
\* left in the list with the dispatcher thread asleep and nobody to wake it.
THEOREM NoLostWakeupHolds == Spec => []NoLostWakeup
<1>1. Init => NoLostWakeup
  BY DEF Init, NoLostWakeup
<1>2. TypeOK /\ NoLostWakeup /\ [Next]_vars => NoLostWakeup'
  <2> SUFFICES ASSUME TypeOK, NoLostWakeup, [Next]_vars
               PROVE  NoLostWakeup'
    OBVIOUS
  <2> USE DEF NoLostWakeup
  <2>1. ASSUME NEW p \in Producers, NEW t \in Tasks, AddTask(p, t) \/ SigTerm(p, t)
        PROVE  NoLostWakeup'
    <3>1. SUFFICES ASSUME pc' = "waiting", taskList' # <<>>
                   PROVE  \E q \in Producers : ppc'[q] \in {"notify", "notifyThenStop"}
      OBVIOUS
    <3>2. pc = "waiting" /\ ppc[p] = "idle" /\ ppc \in [Producers -> ProducerPC]
      BY <2>1, <3>1 DEF AddTask, SigTerm, TypeOK
    <3>3. CASE \E q \in Producers : ppc[q] \in {"notify", "notifyThenStop"}
      <4>1. PICK q \in Producers : ppc[q] \in {"notify", "notifyThenStop"}
        BY <3>3
      <4>2. q # p
        BY <3>2, <4>1
      <4>3. ppc'[q] = ppc[q]
        BY <2>1, <3>2, <4>2 DEF AddTask, SigTerm
      <4> QED
        BY <4>1, <4>3
    <3>4. CASE taskList = <<>> /\ MustSignal
      BY <2>1, <3>2, <3>4 DEF AddTask, SigTerm
    <3>5. CASE taskList = <<>> /\ ~MustSignal
      \* the dispatcher is not running and the list stays empty
      BY <2>1, <3>1, <3>5 DEF AddTask, SigTerm, Enqueue, MustSignal
    <3> QED
      BY <3>2, <3>3, <3>4, <3>5
  <2>2. ASSUME NEW p \in Producers, Notify(p)
        PROVE  NoLostWakeup'
    BY <2>2 DEF Notify
  <2>3. ASSUME NEW p \in Producers, StopBySignal(p)
        PROVE  NoLostWakeup'
    <3>1. \A q \in Producers : ppc[q] \in {"notify", "notifyThenStop"} => ppc'[q] = ppc[q]
      BY <2>3 DEF StopBySignal, TypeOK
    <3> QED
      BY <2>3, <3>1 DEF StopBySignal
  <2>4. ASSUME NEW t \in Tasks, RunAdd(t) \/ RequestShutdown(t)
        PROVE  NoLostWakeup'
    BY <2>4 DEF RunAdd, RequestShutdown
  <2>5. ASSUME NEW t \in Tasks, Expire(t)
        PROVE  NoLostWakeup'
    BY <2>5 DEF Expire
  <2>6. CASE Acquire
    BY <2>6 DEF Acquire, TakeFirst
  <2>7. CASE Wake
    BY <2>7 DEF Wake, TakeFirst
  <2>8. CASE CheckState \/ SpuriousWake \/ Execute \/ Stop \/ Shutdown
    BY <2>8 DEF CheckState, SpuriousWake, Execute, Stop, Shutdown
  <2>9. CASE FlushOne \/ FlushRelock \/ FlushEnd \/ Finish
    BY <2>9 DEF FlushOne, FlushRelock, FlushEnd, Finish
  <2>10. CASE UNCHANGED vars
    BY <2>10 DEF vars
  <2> QED
    BY <2>1, <2>2, <2>3, <2>4, <2>5, <2>6, <2>7, <2>8, <2>9, <2>10
    DEF Next, DispatcherStep
<1>3. QED
  BY <1>1, <1>2, TypeCorrect, PTL DEF Spec
-------------------------------------------------------------------------------
LEMMA EnqueueKeepsListInv ==
  ASSUME TypeOK, ListInv, NEW t \in Tasks, Enqueue(t)
  PROVE  ListInv'
<1>1. CASE threadState # "running"
  <2>1. /\ taskList' = taskList /\ ticket' = ticket /\ accepted' = accepted
        /\ status' = [status EXCEPT ![t] = "refused"] /\ status[t] = "new"
    BY <1>1 DEF Enqueue
  <2>2. ListedOnce'
    BY <2>1 DEF ListInv, ListedOnce, Listed, TypeOK
  <2>3. Fifo'
    BY <2>1 DEF ListInv, Fifo, TypeOK, Back
  <2> QED
    BY <2>1, <2>2, <2>3 DEF ListInv, TicketBound, ListOrdered, ReleasesFirst
<1>2. CASE threadState = "running"
  <2>1. /\ taskList' = Push(t, taskList) /\ accepted' = accepted + 1
        /\ ticket' = [ticket EXCEPT ![t] = accepted + 1]
        /\ status' = [status EXCEPT ![t] = "queued"] /\ status[t] = "new"
    BY <1>2 DEF Enqueue
  <2>2. /\ taskList \in Seq(Tasks) /\ Len(taskList) \in Nat
        /\ DOMAIN taskList = 1 .. Len(taskList)
        /\ DOMAIN taskList' = 1 .. Len(taskList) + 1
        /\ taskList' \in Seq(Tasks)
    BY <2>1, PushProperties, LenProperties DEF TypeOK
  <2>3. /\ t \in ToFront => /\ taskList'[1] = t
                          /\ \A i \in 2 .. Len(taskList) + 1 : taskList'[i] = taskList[i - 1]
        /\ t \notin ToFront => /\ taskList'[Len(taskList) + 1] = t
                             /\ \A i \in 1 .. Len(taskList) : taskList'[i] = taskList[i]
    BY ZenonT(60), <2>1, <2>2, PushProperties
  <2>4. \A i \in DOMAIN taskList : taskList[i] \in Tasks /\ taskList[i] # t
    BY <2>1, <2>2, ElementOfSeq, SMTT(30) DEF ListInv, ListedOnce, Listed
  <2>5. \A u \in Tasks : u # t => ticket'[u] = ticket[u] /\ status'[u] = status[u]
    BY <2>1 DEF TypeOK
  <2>6. /\ ticket'[t] = accepted + 1 /\ status'[t] = "queued"
        /\ accepted \in Nat /\ ticket \in [Tasks -> Nat]
    BY <2>1 DEF TypeOK
  <2> DEFINE old(i) == IF t \in ToFront THEN i - 1 ELSE i
             new    == IF t \in ToFront THEN 1 ELSE Len(taskList) + 1
  <2>31. /\ new \in DOMAIN taskList' /\ taskList'[new] = t
         /\ \A i \in DOMAIN taskList' :
              /\ i \in Int
              /\ i # new => old(i) \in DOMAIN taskList /\ taskList'[i] = taskList[old(i)]
         /\ \A i, j \in DOMAIN taskList' : i < j => old(i) < old(j)
         /\ \A k \in DOMAIN taskList : \E i \in DOMAIN taskList' : i # new /\ old(i) = k
    <3>1. CASE t \in ToFront
      <4>1. ASSUME NEW i \in DOMAIN taskList', i # new
            PROVE  old(i) \in DOMAIN taskList /\ taskList'[i] = taskList[old(i)]
        <5>1. i \in 2 .. Len(taskList) + 1 /\ i - 1 \in 1 .. Len(taskList)
          BY <2>2, <3>1, <4>1
        <5> QED
          BY <2>2, <2>3, <3>1, <5>1
      <4>2. ASSUME NEW k \in DOMAIN taskList
            PROVE  k + 1 \in DOMAIN taskList' /\ k + 1 # new /\ old(k + 1) = k
        BY <2>2, <3>1
      <4>3. new \in DOMAIN taskList' /\ taskList'[new] = t
        BY <2>2, <2>3, <3>1
      <4>4. \A i, j \in DOMAIN taskList' : i \in Int /\ (i < j => old(i) < old(j))
        BY <2>2, <3>1
      <4> QED
        BY <4>1, <4>2, <4>3, <4>4
    <3>2. CASE t \notin ToFront
      BY <2>2, <2>3, <3>2
    <3> QED
      BY <3>1, <3>2
  <2>32. t \in ToFront => \A i \in DOMAIN taskList' : i # new => new < i
    BY <2>2
  <2>33. t \notin ToFront => \A i \in DOMAIN taskList' : i # new => i < new
    BY <2>2
  <2> HIDE DEF old, new
  <2>7. ListedOnce'
    <3>1. Listed' = Listed \cup {t}
      <4>1. ASSUME NEW u \in Listed'
            PROVE  u \in Listed \cup {t}
        <5>1. PICK i \in DOMAIN taskList' : u = taskList'[i]
          BY DEF Listed
        <5> QED
          BY <2>31, <5>1 DEF Listed
      <4>2. ASSUME NEW u \in Listed
            PROVE  u \in Listed'
        <5>1. PICK k \in DOMAIN taskList : u = taskList[k]
          BY DEF Listed
        <5>2. PICK i \in DOMAIN taskList' : i # new /\ old(i) = k
          BY <2>31
        <5> QED
          BY <2>31, <5>1, <5>2 DEF Listed
      <4>3. t \in Listed'
        BY <2>31 DEF Listed
      <4> QED
        BY <4>1, <4>2, <4>3
    <3>2. \A u \in Tasks : status'[u] = "queued" <=> u \in Listed'
      BY <2>5, <2>6, <3>1 DEF ListInv, ListedOnce
    <3>3. ASSUME NEW i \in DOMAIN taskList', NEW j \in DOMAIN taskList',
                 taskList'[i] = taskList'[j]
          PROVE  i = j
      <4>1. i # new /\ j # new => old(i) = old(j)
        BY <2>31, <3>3 DEF ListInv, ListedOnce
      <4>2. i = new <=> j = new
        BY <2>31, <2>4, <3>3
      <4>3. i < j \/ j < i => old(i) # old(j)
        <5>1. \A k \in DOMAIN taskList' : k # new => old(k) \in Int
          BY <2>2, <2>31
        <5> QED
          BY <2>31, <4>1, <4>2, <5>1 DEF old
      <4> QED
        BY <2>31, <4>1, <4>2, <4>3
    <3> QED
      BY <3>2, <3>3 DEF ListedOnce
  <2>8. TicketBound'
    BY <2>1, <2>5, <2>6 DEF ListInv, TicketBound
  <2>9. ListOrdered'
    <3> SUFFICES ASSUME NEW i \in DOMAIN taskList', NEW j \in DOMAIN taskList', i < j,
                        taskList'[i] \in Back, taskList'[j] \in Back
                 PROVE  ticket'[taskList'[i]] < ticket'[taskList'[j]]
      BY DEF ListOrdered
    <3>1. i # new
      <4>1. i = new => t \notin ToFront
        BY <2>31 DEF Back
      <4>2. j # i /\ ~(j < i)
        BY <2>31
      <4> QED
        BY <2>33, <4>1, <4>2
    <3>2. CASE j = new
      <4>1. taskList'[i] = taskList[old(i)] /\ taskList'[j] = t /\ old(i) \in DOMAIN taskList
        BY <2>31, <3>1, <3>2
      <4>2. ticket'[taskList'[i]] \in Nat /\ ticket'[taskList'[i]] <= accepted
        BY <2>4, <2>5, <2>6, <4>1 DEF ListInv, TicketBound
      <4> QED
        BY <2>6, <4>1, <4>2
    <3>3. CASE j # new
      <4>1. /\ taskList'[i] = taskList[old(i)] /\ old(i) \in DOMAIN taskList
            /\ taskList'[j] = taskList[old(j)] /\ old(j) \in DOMAIN taskList
            /\ old(i) < old(j)
        BY <2>31, <3>1, <3>3
      <4>2. ticket[taskList[old(i)]] < ticket[taskList[old(j)]]
        BY <4>1 DEF ListInv, ListOrdered
      <4> QED
        BY <2>4, <2>5, <4>1, <4>2
    <3> QED
      BY <3>2, <3>3
  <2>10. Fifo'
    <3> SUFFICES ASSUME NEW x \in Back, NEW u \in Back,
                        status'[x] = "queued", status'[u] \in Gone
                 PROVE  ticket'[u] < ticket'[x]
      BY DEF Fifo, Gone
    <3>1. u # t /\ u \in Tasks /\ x \in Tasks
      BY <2>6 DEF Gone, Back
    <3>2. CASE x = t
      BY <2>5, <2>6, <3>1, <3>2 DEF ListInv, TicketBound
    <3>3. CASE x # t
      BY <2>5, <3>1, <3>3 DEF ListInv, Fifo, Gone
    <3> QED
      BY <3>2, <3>3
  <2>11. ReleasesFirst'
    <3> SUFFICES ASSUME NEW i \in DOMAIN taskList', NEW j \in DOMAIN taskList', i < j,
                        taskList'[j] \in ToFront
                 PROVE  taskList'[i] \in ToFront
      BY DEF ReleasesFirst
    <3>1. CASE i = new
      <4>1. j # i /\ ~(j < i)
        BY <2>31
      <4> QED
        BY <2>31, <2>33, <3>1, <4>1
    <3>2. CASE i # new /\ j = new
      <4>1. t \in ToFront
        BY <2>31, <3>2
      <4> QED
        BY <2>31, <2>32, <3>2, <4>1
    <3>3. CASE i # new /\ j # new
      <4>1. /\ taskList'[i] = taskList[old(i)] /\ old(i) \in DOMAIN taskList
            /\ taskList'[j] = taskList[old(j)] /\ old(j) \in DOMAIN taskList
            /\ old(i) < old(j)
        BY <2>31, <3>3
      <4> QED
        BY <4>1 DEF ListInv, ReleasesFirst
    <3> QED
      BY <3>1, <3>2, <3>3
  <2> QED
    BY <2>7, <2>8, <2>9, <2>10, <2>11 DEF ListInv
<1> QED
  BY <1>1, <1>2

LEMMA PopKeepsListInv ==
  ASSUME TypeOK, ListInv, NEW s \in Gone, Popped(s)
  PROVE  ListInv'
<1> DEFINE h == Head(taskList)
<1>1. /\ taskList \in Seq(Tasks) /\ Len(taskList) \in Nat \ {0}
      /\ DOMAIN taskList = 1 .. Len(taskList)
      /\ taskList' \in Seq(Tasks)
      /\ DOMAIN taskList' = 1 .. Len(taskList) - 1
      /\ \A i \in 1 .. Len(taskList) - 1 : taskList'[i] = taskList[i + 1]
  BY HeadTailProperties, LenProperties, EmptySeq DEF TypeOK, Popped
<1>2. h = taskList[1] /\ h \in Tasks
  BY <1>1, HeadTailProperties DEF Popped
<1>3. /\ status'[h] = s /\ \A u \in Tasks : u # h => status'[u] = status[u]
      /\ ticket' = ticket /\ accepted' = accepted
  BY <1>2 DEF Popped, TypeOK
<1>31. \A i \in DOMAIN taskList' :
         i \in Int /\ i + 1 \in DOMAIN taskList /\ i + 1 # 1 /\ taskList'[i] = taskList[i + 1]
  BY <1>1
<1> HIDE DEF h
<1>4. status[h] = "queued" /\ s # "queued"
  BY <1>1, <1>2 DEF ListInv, ListedOnce, Listed, Gone
<1>5. ListedOnce'
  <2>1. Listed' = Listed \ {h}
    <3>1. ASSUME NEW u \in Listed'
          PROVE  u \in Listed /\ u # h
      <4>1. PICK i \in DOMAIN taskList' : u = taskList'[i]
        BY DEF Listed
      <4>2. u = taskList[i + 1] /\ i + 1 \in DOMAIN taskList /\ i + 1 # 1
        BY <1>31, <4>1
      <4>3. 1 \in DOMAIN taskList
        BY <1>1
      <4>4. u # h
        BY <1>2, <4>2, <4>3 DEF ListInv, ListedOnce
      <4> QED
        BY <4>2, <4>4 DEF Listed
    <3>2. ASSUME NEW u \in Listed, u # h
          PROVE  u \in Listed'
      <4>1. PICK i \in DOMAIN taskList : u = taskList[i]
        BY DEF Listed
      <4>2. i - 1 \in DOMAIN taskList' /\ taskList'[i - 1] = u
        BY <1>1, <1>2, <3>2, <4>1
      <4> QED
        BY <4>2 DEF Listed
    <3> QED
      BY <3>1, <3>2
  <2>2. \A u \in Tasks : status'[u] = "queued" <=> u \in Listed'
    BY <1>3, <1>4, <2>1 DEF ListInv, ListedOnce
  <2>3. \A i, j \in DOMAIN taskList' : taskList'[i] = taskList'[j] => i = j
    <3> SUFFICES ASSUME NEW i \in DOMAIN taskList', NEW j \in DOMAIN taskList',
                        taskList'[i] = taskList'[j]
                 PROVE  i = j
      OBVIOUS
    <3>1. i + 1 = j + 1
      BY <1>31 DEF ListInv, ListedOnce
    <3> QED
      BY <1>31, <3>1
  <2> QED
    BY <2>2, <2>3 DEF ListedOnce
<1>6. TicketBound'
  BY <1>3 DEF ListInv, TicketBound
<1>7. ListOrdered'
  <2> SUFFICES ASSUME NEW i \in DOMAIN taskList', NEW j \in DOMAIN taskList', i < j,
                      taskList'[i] \in Back, taskList'[j] \in Back
               PROVE  ticket[taskList'[i]] < ticket[taskList'[j]]
    BY <1>3 DEF ListOrdered
  <2>1. i + 1 < j + 1
    BY <1>31
  <2> QED
    BY <1>31, <2>1 DEF ListInv, ListOrdered
<1>8. Fifo'
  <2> SUFFICES ASSUME NEW x \in Back, NEW u \in Back,
                      status'[x] = "queued", status'[u] \in Gone
               PROVE  ticket[u] < ticket[x]
    BY <1>3 DEF Fifo, Gone
  <2>1. x # h /\ x \in Tasks /\ u \in Tasks /\ status[x] = "queued"
    BY <1>3, <1>4 DEF Back
  <2>2. CASE u = h
    <3>1. PICK i \in DOMAIN taskList : x = taskList[i]
      BY <2>1 DEF ListInv, ListedOnce, Listed
    <3>2. 1 < i /\ 1 \in DOMAIN taskList
      BY <1>1, <1>2, <2>1, <3>1
    <3> QED
      BY <1>2, <2>2, <3>1, <3>2 DEF ListInv, ListOrdered
  <2>3. CASE u # h
    BY <1>3, <2>1, <2>3 DEF ListInv, Fifo, Gone
  <2> QED
    BY <2>2, <2>3
<1>9. ReleasesFirst'
  <2> SUFFICES ASSUME NEW i \in DOMAIN taskList', NEW j \in DOMAIN taskList', i < j,
                      taskList'[j] \in ToFront
               PROVE  taskList'[i] \in ToFront
    BY DEF ReleasesFirst
  <2>1. i + 1 < j + 1
    BY <1>31
  <2> QED
    BY <1>31, <2>1 DEF ListInv, ReleasesFirst
<1> QED
  BY <1>5, <1>6, <1>7, <1>8, <1>9 DEF ListInv

LEMMA HandleKeepsListInv ==
  ASSUME TypeOK, ListInv, current \in Tasks, status[current] \in Gone,
         NEW s \in Gone, Handled(s)
  PROVE  ListInv'
<1>1. /\ status'[current] = s /\ \A u \in Tasks : u # current => status'[u] = status[u]
      /\ ticket' = ticket /\ accepted' = accepted /\ taskList' = taskList
  BY DEF Handled, TypeOK
<1>2. ListedOnce'
  BY <1>1 DEF ListInv, ListedOnce, Listed, Gone
<1>3. Fifo'
  BY <1>1 DEF ListInv, Fifo, Gone, Back
<1> QED
  BY <1>1, <1>2, <1>3 DEF ListInv, TicketBound, ListOrdered, ReleasesFirst
-------------------------------------------------------------------------------
\* An action that pushes is Enqueue and leaves the task in hand alone.
LEMMA EnqueueKeepsQueueInv ==
  ASSUME TypeOK, QueueInv, NEW t \in Tasks, Enqueue(t), UNCHANGED current,
         pc' = pc \/ (pc = "running" /\ pc' = "stopping")
  PROVE  QueueInv'
<1>1. ListInv'
  BY EnqueueKeepsListInv DEF QueueInv
<1>2. \A u \in Tasks : status[u] # "new" => status'[u] = status[u]
  BY DEF Enqueue, TypeOK
<1>3. CurrentTask'
  BY <1>2 DEF QueueInv, CurrentTask, FlushPC
<1> QED
  BY <1>1, <1>3 DEF QueueInv

LEMMA TakeFirstKeepsQueueInv ==
  ASSUME TypeOK, QueueInv, TakeFirst, UNCHANGED <<ticket, accepted>>
  PROVE  QueueInv'
<1>1. CASE taskList # <<>> /\ threadState # "terminated"
  <2>1. Popped("taken") /\ current' = Head(taskList) /\ pc' = "ready"
    BY <1>1 DEF TakeFirst, Popped
  <2>2. ListInv'
    BY <2>1, PopKeepsListInv DEF QueueInv, Gone
  <2>3. Head(taskList) \in Tasks
    BY <1>1, HeadTailProperties DEF TypeOK
  <2>4. CurrentTask'
    BY <2>1, <2>3 DEF CurrentTask, Popped, TypeOK, FlushPC
  <2> QED
    BY <2>2, <2>4 DEF QueueInv
<1>2. CASE ~(taskList # <<>> /\ threadState # "terminated")
  BY <1>2 DEF TakeFirst, QueueInv, CurrentTask, ListInv, ListedOnce, Listed, TicketBound,
              ListOrdered, Fifo, ReleasesFirst, FlushPC
<1> QED
  BY <1>1, <1>2

\* flush() takes tasks out of the list while it holds another one.
LEMMA FlushKeepsQueueInv ==
  ASSUME TypeOK, QueueInv, pc = "flush", NEW s \in Gone, Popped(s),
         pc' \in FlushPC, UNCHANGED current
  PROVE  QueueInv'
<1>1. ListInv'
  BY PopKeepsListInv DEF QueueInv
<1>2. current \in Tasks /\ status[current] = "executing"
  BY DEF QueueInv, CurrentTask, FlushPC
<1>3. Head(taskList) # current
  <2>1. 1 \in DOMAIN taskList /\ Head(taskList) = taskList[1] /\ Head(taskList) \in Tasks
    BY HeadTailProperties, LenProperties, EmptySeq DEF TypeOK, Popped
  <2>2. status[Head(taskList)] = "queued"
    BY <2>1 DEF QueueInv, ListInv, ListedOnce, Listed
  <2> QED
    BY <1>2, <2>2
<1>4. status'[current] = "executing"
  BY <1>2, <1>3 DEF Popped, TypeOK
<1>5. CurrentTask'
  BY <1>2, <1>4 DEF CurrentTask, FlushPC
<1> QED
  BY <1>1, <1>5 DEF QueueInv

LEMMA HandleKeepsQueueInv ==
  ASSUME TypeOK, QueueInv, current \in Tasks, status[current] \in Gone,
         NEW s \in Gone, Handled(s),
         \/ pc' = "check"
         \/ pc' = "running" /\ s = "executing" /\ UNCHANGED current
  PROVE  QueueInv'
<1>1. ListInv'
  BY HandleKeepsListInv DEF QueueInv
<1>2. status'[current] = s
  BY DEF Handled, TypeOK
<1>3. CurrentTask'
  BY <1>2 DEF CurrentTask, FlushPC
<1> QED
  BY <1>1, <1>3 DEF QueueInv

LEMMA QueueInvHolds == Spec => []QueueInv
<1>1. Init => QueueInv
  BY DEF Init, QueueInv, CurrentTask, ListInv, ListedOnce, Listed, TicketBound, ListOrdered,
         Fifo, ReleasesFirst, FlushPC, Back
<1>2. TypeOK /\ QueueInv /\ [Next]_vars => QueueInv'
  <2> SUFFICES ASSUME TypeOK, QueueInv, [Next]_vars
               PROVE  QueueInv'
    OBVIOUS
  \* Steps that touch neither the list nor any status.
  <2>1. ASSUME UNCHANGED <<taskList, status, ticket, accepted, current>>,
               \/ pc' = pc
               \/ pc' \in {"check", "acquire", "waiting", "woken", "done"}
               \/ /\ pc \in {"running", "stopping"} \cup FlushPC
                  /\ pc' \in {"running", "sending"} \cup FlushPC
        PROVE  QueueInv'
    <3>1. ListInv'
      BY <2>1 DEF QueueInv, ListInv, ListedOnce, Listed, TicketBound, ListOrdered, Fifo, ReleasesFirst
    <3>2. CurrentTask'
      BY <2>1 DEF QueueInv, CurrentTask, FlushPC
    <3> QED
      BY <3>1, <3>2 DEF QueueInv
  <2>2. ASSUME NEW t \in Tasks, NEW p \in Producers, AddTask(p, t) \/ SigTerm(p, t)
        PROVE  QueueInv'
    BY <2>2, EnqueueKeepsQueueInv DEF AddTask, SigTerm
  <2>3. ASSUME NEW t \in Tasks, RunAdd(t) \/ RequestShutdown(t)
        PROVE  QueueInv'
    BY <2>3, EnqueueKeepsQueueInv DEF RunAdd, RequestShutdown
  <2>4. ASSUME NEW p \in Producers, Notify(p) \/ StopBySignal(p)
        PROVE  QueueInv'
    BY <2>1, <2>4 DEF Notify, StopBySignal
  <2>5. ASSUME NEW t \in Tasks, Expire(t)
        PROVE  QueueInv'
    BY <2>1, <2>5 DEF Expire
  <2>6. CASE CheckState \/ SpuriousWake
    BY <2>1, <2>6 DEF CheckState, SpuriousWake
  <2>7. CASE Acquire
    BY <2>1, <2>7, TakeFirstKeepsQueueInv DEF Acquire
  <2>8. CASE Wake
    BY <2>8, TakeFirstKeepsQueueInv DEF Wake
  <2>9. CASE Execute
    <3>1. current \in Tasks /\ status[current] \in Gone
      BY <2>9 DEF Execute, QueueInv, CurrentTask, Gone
    <3>2. CASE current \in expired
      BY <2>9, <3>1, <3>2, HandleKeepsQueueInv DEF Execute, Handled, Gone
    <3>3. CASE current \notin expired
      BY <2>9, <3>1, <3>3, HandleKeepsQueueInv DEF Execute, Handled, Gone
    <3> QED
      BY <3>2, <3>3
  <2>10. CASE Stop \/ Shutdown \/ FlushEnd
    BY <2>1, <2>10 DEF Stop, Shutdown, FlushEnd, FlushPC
  <2>11. CASE FlushOne
    BY <2>11, FlushKeepsQueueInv DEF FlushOne, Popped, Gone, FlushPC
  <2>12. CASE FlushRelock
    BY <2>12, FlushKeepsQueueInv DEF FlushRelock, Popped, Gone, FlushPC
  <2>13. CASE Finish
    <3>1. current \in Tasks /\ status[current] \in Gone
      BY <2>13 DEF Finish, QueueInv, CurrentTask, Gone
    <3> QED
      BY <2>13, <3>1, HandleKeepsQueueInv DEF Finish, Handled, Gone
  <2>14. CASE UNCHANGED vars
    BY <2>1, <2>14 DEF vars
  <2> QED
    BY <2>2, <2>3, <2>4, <2>5, <2>6, <2>7, <2>8, <2>9, <2>10, <2>11, <2>12, <2>13, <2>14
    DEF Next, DispatcherStep
<1>3. QED
  BY <1>1, <1>2, TypeCorrect, PTL DEF Spec

\* A Task object is in the list while it is accepted and not yet taken, once.
THEOREM ListedOnceHolds == Spec => []ListedOnce
BY QueueInvHolds, PTL DEF QueueInv, ListInv

\* Tasks added at the back start in the order addTask accepted them, for any
\* number of threads, through stop() and flush().
THEOREM FifoHolds == Spec => []Fifo
BY QueueInvHolds, PTL DEF QueueInv, ListInv

\* Message releases stay in front of all other work.
THEOREM ReleasesFirstHolds == Spec => []ReleasesFirst
BY QueueInvHolds, PTL DEF QueueInv, ListInv
-----------------------------------------------------------------------------
(* The waiting list.                                                         *)

LEMMA LeastOf ==
  ASSUME NEW S \in SUBSET Nat, S # {}
  PROVE  \E x \in S : \A y \in S : x <= y
<1> DEFINE R == OpToRel(<, Nat)
<1>1. IsWellFoundedOn(R, Nat)
  BY NatLessThanWellFounded
<1> HIDE DEF R
<1>2. PICK x \in S : \A y \in S : ~ (<<y, x>> \in R)
  BY <1>1, WFMin
<1>3. \A y \in S : ~ (y < x)
  BY <1>2 DEF R, OpToRel
<1> QED
  BY <1>3

LEMMA NatInductionOnSets ==
  ASSUME NEW S \in SUBSET Nat, 0 \in S, \A n \in S : n + 1 \in S
  PROVE  S = Nat
<1>1. SUFFICES ASSUME Nat \ S # {} PROVE FALSE
  OBVIOUS
<1>2. PICK x \in Nat \ S : \A y \in Nat \ S : x <= y
  BY <1>1, LeastOf
<1>3. x # 0 /\ x - 1 \in Nat /\ ~ (x <= x - 1) /\ (x - 1) + 1 = x
  BY SMT
<1>4. x - 1 \in S
  BY <1>2, <1>3
<1> QED
  BY <1>3, <1>4

Step(list, f, i) ==
  IF i = 0 THEN <<>>
  ELSE IF Alive(list[i]) THEN Append(f[i - 1], list[i]) ELSE f[i - 1]

LEMMA KeptExists ==
  ASSUME NEW list
  PROVE  \A n \in Nat : \E f : f = [i \in 0 .. n |-> Step(list, f, i)]
<1> DEFINE S == {n \in Nat : \E f : f = [i \in 0 .. n |-> Step(list, f, i)]}
<1>1. 0 \in S
  <2> DEFINE f == [i \in 0 .. 0 |-> <<>>]
  <2>1. f = [i \in 0 .. 0 |-> Step(list, f, i)]
    BY DEF Step
  <2> QED
    BY <2>1
<1>2. \A n \in S : n + 1 \in S
  <2> TAKE n \in S
  <2>1. PICK f : f = [i \in 0 .. n |-> Step(list, f, i)]
    OBVIOUS
  <2> DEFINE g == [i \in 0 .. n + 1 |-> Step(list, f, i)]
  <2>2. \A i \in 0 .. n : g[i] = f[i]
    <3> HIDE DEF g
    <3>1. \A i \in 0 .. n : g[i] = Step(list, f, i)
      BY DEF g
    <3>2. \A i \in 0 .. n : f[i] = Step(list, f, i)
      BY <2>1
    <3> QED BY <3>1, <3>2
  <2>3. \A i \in 0 .. n + 1 : Step(list, f, i) = Step(list, g, i)
    <3> HIDE DEF g
    <3> TAKE i \in 0 .. n + 1
    <3>1. CASE i = 0
      BY <3>1 DEF Step
    <3>2. CASE i # 0
      <4>1. i - 1 \in 0 .. n
        BY <3>2
      <4> QED
        BY <4>1, <2>2, <3>2 DEF Step
    <3> QED
      BY <3>1, <3>2
  <2>4. g = [i \in 0 .. n + 1 |-> Step(list, g, i)]
    <3> HIDE DEF g
    <3>1. g = [i \in 0 .. n + 1 |-> Step(list, f, i)]
      BY DEF g
    <3> QED
      BY <3>1, <2>3, Zenon
  <2> HIDE DEF g
  <2>5. n + 1 \in Nat
    OBVIOUS
  <2> QED
    BY <2>4, <2>5
<1> HIDE DEF S
<1>3. S = Nat
  <2>1. S \in SUBSET Nat
    BY DEF S
  <2> QED
    BY <1>1, <1>2, <2>1, NatInductionOnSets
<1> QED
  BY <1>3 DEF S

LEMMA CleanedUnfolds ==
  ASSUME NEW list, Len(list) \in Nat
  PROVE  \E f : /\ f = [i \in 0 .. Len(list) |-> Step(list, f, i)]
                /\ Cleaned(list) = f[Len(list)]
<1> DEFINE k == CHOOSE f : f = [i \in 0 .. Len(list) |-> Step(list, f, i)]
<1>1. k = [i \in 0 .. Len(list) |-> Step(list, k, i)]
  BY KeptExists, Zenon
<1>2. Cleaned(list) = k[Len(list)]
  BY DEF Cleaned, Step
<1> HIDE DEF k
<1> QED
  BY <1>1, <1>2

(* The sequence kept holds the entries of the first k places of a list that  *)
(* are alive, and g tells where each of them stands.                         *)
Keeps(list, kept, k, g) ==
    /\ kept \in Seq(Entry)
    /\ g \in [1 .. Len(kept) -> 1 .. k]
    /\ \A m \in 1 .. Len(kept) : kept[m] = list[g[m]] /\ Alive(list[g[m]])
    /\ \A m, n \in 1 .. Len(kept) : m < n => g[m] < g[n]
    /\ \A i \in 1 .. k : Alive(list[i]) => \E m \in 1 .. Len(kept) : g[m] = i

LEMMA KeepsOneMore ==
  ASSUME NEW list \in Seq(Entry), NEW k \in Nat, k + 1 <= Len(list),
         NEW kept, NEW g, Keeps(list, kept, k, g)
  PROVE  \E h : Keeps(list, IF Alive(list[k + 1]) THEN Append(kept, list[k + 1]) ELSE kept,
                      k + 1, h)
<1>1. list[k + 1] \in Entry
  BY ElementOfSeq
<1>2. Len(kept) \in Nat
  BY LenProperties DEF Keeps
<1>3. CASE ~ Alive(list[k + 1])
  <2>1. g \in [1 .. Len(kept) -> 1 .. k + 1]
    BY <1>2 DEF Keeps
  <2>2. \A i \in 1 .. k + 1 : Alive(list[i]) => i \in 1 .. k
    BY <1>3
  <2>3. Keeps(list, kept, k + 1, g)
    BY <2>1, <2>2 DEF Keeps
  <2> QED
    BY <1>3, <2>3
<1>4. CASE Alive(list[k + 1])
  <2> DEFINE more == Append(kept, list[k + 1])
             h == [m \in 1 .. Len(kept) + 1 |-> IF m <= Len(kept) THEN g[m] ELSE k + 1]
  <2>1. /\ more \in Seq(Entry)
        /\ Len(more) = Len(kept) + 1
        /\ \A m \in 1 .. Len(kept) : more[m] = kept[m]
        /\ more[Len(kept) + 1] = list[k + 1]
    BY <1>1, AppendProperties DEF Keeps
  <2>2. /\ \A m \in 1 .. Len(kept) : h[m] = g[m] /\ g[m] \in 1 .. k
        /\ h[Len(kept) + 1] = k + 1
        /\ h \in [1 .. Len(kept) + 1 -> 1 .. k + 1]
    BY SMTT(40), <1>2 DEF Keeps
  <2> HIDE DEF more, h
  <2>3. \A m \in 1 .. Len(kept) + 1 : m \in 1 .. Len(kept) \/ m = Len(kept) + 1
    BY <1>2
  <2>4. \A m \in 1 .. Len(more) : more[m] = list[h[m]] /\ Alive(list[h[m]])
    BY <1>4, <2>1, <2>2, <2>3 DEF Keeps
  <2>5. \A m, n \in 1 .. Len(more) : m < n => h[m] < h[n]
    <3> TAKE m, n \in 1 .. Len(more)
    <3> HAVE m < n
    <3>1. m \in 1 .. Len(kept)
      BY <1>2, <2>1
    <3>2. CASE n \in 1 .. Len(kept)
      BY <2>2, <3>1, <3>2 DEF Keeps
    <3>3. CASE n = Len(kept) + 1
      BY <2>2, <3>1, <3>3
    <3> QED
      BY <2>1, <2>3, <3>2, <3>3
  <2>6. \A i \in 1 .. k + 1 : Alive(list[i]) => \E m \in 1 .. Len(more) : h[m] = i
    <3> TAKE i \in 1 .. k + 1
    <3> HAVE Alive(list[i])
    <3>1. CASE i \in 1 .. k
      <4>1. PICK m \in 1 .. Len(kept) : g[m] = i
        BY <3>1 DEF Keeps
      <4>2. m \in 1 .. Len(more) /\ h[m] = i
        BY <1>2, <2>1, <2>2, <4>1
      <4> QED
        BY <4>2
    <3>2. CASE i = k + 1
      <4>1. Len(kept) + 1 \in 1 .. Len(more)
        BY <1>2, <2>1
      <4> QED
        BY <2>2, <3>2, <4>1
    <3> QED
      BY <3>1, <3>2
  <2>7. Keeps(list, more, k + 1, h)
    BY <2>1, <2>2, <2>4, <2>5, <2>6 DEF Keeps
  <2> QED
    BY <1>4, <2>7 DEF more
<1> QED
  BY <1>3, <1>4

LEMMA CleanedKeeps ==
  ASSUME NEW list \in Seq(Entry)
  PROVE  \E g : Keeps(list, Cleaned(list), Len(list), g)
<1>1. Len(list) \in Nat
  BY LenProperties
<1>2. PICK f : /\ f = [i \in 0 .. Len(list) |-> Step(list, f, i)]
               /\ Cleaned(list) = f[Len(list)]
  BY <1>1, CleanedUnfolds
<1>3. /\ f[0] = <<>>
      /\ \A k \in Nat : k + 1 <= Len(list) =>
             f[k + 1] = IF Alive(list[k + 1]) THEN Append(f[k], list[k + 1]) ELSE f[k]
  <2>1. \A i \in 0 .. Len(list) : f[i] = Step(list, f, i)
    BY <1>2
  <2>2. f[0] = <<>>
    BY <1>1, <2>1 DEF Step
  <2>3. ASSUME NEW k \in Nat, k + 1 <= Len(list)
        PROVE  f[k + 1] = IF Alive(list[k + 1]) THEN Append(f[k], list[k + 1]) ELSE f[k]
    <3>1. k + 1 \in 0 .. Len(list) /\ k + 1 # 0 /\ (k + 1) - 1 = k
      BY <1>1, <2>3
    <3>2. f[k + 1] = Step(list, f, k + 1)
      BY <2>1, <3>1
    <3> QED
      BY <3>1, <3>2 DEF Step
  <2> QED
    BY <2>2, <2>3
<1> DEFINE S == {k \in Nat : k <= Len(list) => \E g : Keeps(list, f[k], k, g)}
<1>4. 0 \in S
  <2>1. <<>> \in Seq(Entry) /\ Len(<<>>) = 0
    BY EmptySeq
  <2>2. Keeps(list, <<>>, 0, [m \in 1 .. 0 |-> m])
    BY <2>1 DEF Keeps
  <2> QED
    BY <1>3, <2>2
<1>5. \A k \in S : k + 1 \in S
  <2> TAKE k \in S
  <2> SUFFICES ASSUME k + 1 <= Len(list)
               PROVE  \E g : Keeps(list, f[k + 1], k + 1, g)
    OBVIOUS
  <2>1. PICK g : Keeps(list, f[k], k, g)
    BY <1>1
  <2> QED
    BY <1>3, <2>1, KeepsOneMore
<1> HIDE DEF S
<1>6. S = Nat
  <2>1. S \in SUBSET Nat
    BY DEF S
  <2> QED
    BY <1>4, <1>5, <2>1, NatInductionOnSets
<1> QED
  BY <1>1, <1>2, <1>6 DEF S

-----------------------------------------------------------------------------
(* The operators on lists.                                                   *)

LEMMA SlotFacts ==
  ASSUME NEW list \in Seq(Entry), NEW p
  PROVE  /\ Slot(list, p) \in 0 .. Len(list)
         /\ Slot(list, p) # 0 =>
              /\ list[Slot(list, p)].name = p
              /\ \A i \in 1 .. Len(list) : list[i].name = p => Slot(list, p) <= i
         /\ Slot(list, p) = 0 => \A i \in 1 .. Len(list) : list[i].name # p
<1> DEFINE places == {i \in DOMAIN list : list[i].name = p}
<1>1. Len(list) \in Nat /\ DOMAIN list = 1 .. Len(list)
  BY LenProperties
<1>2. CASE places = {}
  <2>1. Slot(list, p) = 0
    BY <1>2 DEF Slot
  <2> QED
    BY <1>1, <1>2, <2>1
<1>3. CASE places # {}
  <2>1. places \in SUBSET Nat
    BY <1>1
  <2>2. \E i \in places : \A j \in places : i <= j
    <3> HIDE DEF places
    <3> QED
      BY <1>3, <2>1, LeastOf
  <2>3. Slot(list, p) = CHOOSE i \in places : \A j \in places : i <= j
    BY <1>3 DEF Slot
  <2>4. Slot(list, p) \in places /\ \A j \in places : Slot(list, p) <= j
    <3> HIDE DEF places
    <3> QED
      BY <2>2, <2>3
  <2> QED
    BY <1>1, <2>4
<1> QED
  BY <1>2, <1>3

LEMMA NewSlotFacts ==
  ASSUME NEW list \in Seq(Entry), NEW p
  PROVE  /\ NewSlot(list, p) \in 1 .. Len(list) + 1
         /\ p \in premium => \A i \in 1 .. Len(list) :
                                i < NewSlot(list, p) => list[i].premium
         /\ p \in premium /\ NewSlot(list, p) <= Len(list) =>
                ~ list[NewSlot(list, p)].premium
         /\ p \notin premium => NewSlot(list, p) = Len(list) + 1
<1> DEFINE others == {i \in DOMAIN list : ~ list[i].premium}
<1>1. Len(list) \in Nat /\ DOMAIN list = 1 .. Len(list)
  BY LenProperties
<1>2. CASE p \notin premium \/ others = {}
  <2>1. NewSlot(list, p) = Len(list) + 1
    BY <1>2 DEF NewSlot
  <2> QED
    BY <1>1, <1>2, <2>1
<1>3. CASE p \in premium /\ others # {}
  <2>1. others \in SUBSET Nat
    BY <1>1
  <2>2. \E i \in others : \A j \in others : i <= j
    <3> HIDE DEF others
    <3> QED
      BY <1>3, <2>1, LeastOf
  <2>3. NewSlot(list, p) = CHOOSE i \in others : \A j \in others : i <= j
    BY <1>3 DEF NewSlot
  <2>4. NewSlot(list, p) \in others /\ \A j \in others : NewSlot(list, p) <= j
    <3> HIDE DEF others
    <3> QED
      BY <2>2, <2>3
  <2> QED
    BY <1>1, <1>3, <2>4
<1> QED
  BY <1>2, <1>3

LEMMA RemoveFacts ==
  ASSUME NEW list \in Seq(Entry), NEW k \in 1 .. Len(list)
  PROVE  /\ RemoveAt(list, k) \in Seq(Entry)
         /\ Len(RemoveAt(list, k)) = Len(list) - 1
         /\ \A i \in 1 .. Len(list) - 1 :
               RemoveAt(list, k)[i] = IF i < k THEN list[i] ELSE list[i + 1]
<1> DEFINE s == SubSeq(list, 1, k - 1)
           t == SubSeq(list, k + 1, Len(list))
<1>1. Len(list) \in Nat /\ \A i \in 1 .. Len(list) : list[i] \in Entry
  BY LenProperties, ElementOfSeq
<1>2. /\ s \in Seq(Entry) /\ Len(s) = k - 1
      /\ \A i \in 1 .. k - 1 : s[i] = list[i]
  <2>1. \A i \in 1 .. k - 1 : list[i] \in Entry
    BY <1>1
  <2>2. /\ s \in Seq(Entry)
        /\ Len(s) = IF 1 <= k - 1 THEN (k - 1) - 1 + 1 ELSE 0
        /\ \A i \in 1 .. (k - 1) - 1 + 1 : s[i] = list[1 + i - 1]
    BY <1>1, <2>1, SubSeqProperties
  <2> HIDE DEF s
  <2> QED
    BY <1>1, <2>2
<1>3. /\ t \in Seq(Entry) /\ Len(t) = Len(list) - k
      /\ \A i \in 1 .. Len(list) - k : t[i] = list[k + i]
  <2>1. \A i \in k + 1 .. Len(list) : list[i] \in Entry
    BY <1>1
  <2>2. /\ t \in Seq(Entry)
        /\ Len(t) = IF k + 1 <= Len(list) THEN Len(list) - (k + 1) + 1 ELSE 0
        /\ \A i \in 1 .. Len(list) - (k + 1) + 1 : t[i] = list[(k + 1) + i - 1]
    BY <1>1, <2>1, SubSeqProperties
  <2> HIDE DEF t
  <2>3. \A i \in 1 .. Len(list) - k : (k + 1) + i - 1 = k + i
    BY <1>1
  <2> QED
    BY <1>1, <2>2, <2>3
<1>4. RemoveAt(list, k) = s \o t
  BY DEF RemoveAt
<1> HIDE DEF s, t
<1>5. /\ s \o t \in Seq(Entry)
      /\ Len(s \o t) = Len(s) + Len(t)
      /\ \A i \in 1 .. Len(s) + Len(t) :
            (s \o t)[i] = IF i <= Len(s) THEN s[i] ELSE t[i - Len(s)]
  BY <1>2, <1>3, ConcatProperties
<1>6. ASSUME NEW i \in 1 .. Len(list) - 1
      PROVE  (s \o t)[i] = IF i < k THEN list[i] ELSE list[i + 1]
  <2>1. (s \o t)[i] = IF i <= Len(s) THEN s[i] ELSE t[i - Len(s)]
    BY <1>1, <1>2, <1>3, <1>5
  <2>2. CASE i < k
    BY <1>1, <1>2, <2>1, <2>2
  <2>3. CASE ~ (i < k)
    <3>1. i - Len(s) \in 1 .. Len(list) - k /\ k + (i - Len(s)) = i + 1
      BY <1>1, <1>2, <2>3
    <3> QED
      BY <1>1, <1>2, <1>3, <2>1, <2>3, <3>1
  <2> QED
    BY <2>2, <2>3
<1> QED
  BY <1>1, <1>2, <1>3, <1>4, <1>5, <1>6

LEMMA InsertFacts ==
  ASSUME NEW list \in Seq(Entry), NEW k \in 1 .. Len(list) + 1, NEW e \in Entry
  PROVE  /\ InsertAt(list, k, e) \in Seq(Entry)
         /\ Len(InsertAt(list, k, e)) = Len(list) + 1
         /\ \A i \in 1 .. Len(list) + 1 :
               InsertAt(list, k, e)[i] = IF i < k THEN list[i]
                                         ELSE IF i = k THEN e ELSE list[i - 1]
<1> DEFINE s == SubSeq(list, 1, k - 1)
           t == SubSeq(list, k, Len(list))
           u == s \o <<e>>
<1>1. Len(list) \in Nat /\ \A i \in 1 .. Len(list) : list[i] \in Entry
  BY LenProperties, ElementOfSeq
<1>2. /\ s \in Seq(Entry) /\ Len(s) = k - 1
      /\ \A i \in 1 .. k - 1 : s[i] = list[i]
  <2>1. \A i \in 1 .. k - 1 : list[i] \in Entry
    BY <1>1
  <2>2. /\ s \in Seq(Entry)
        /\ Len(s) = IF 1 <= k - 1 THEN (k - 1) - 1 + 1 ELSE 0
        /\ \A i \in 1 .. (k - 1) - 1 + 1 : s[i] = list[1 + i - 1]
    BY <1>1, <2>1, SubSeqProperties
  <2> HIDE DEF s
  <2> QED
    BY <1>1, <2>2
<1>3. /\ t \in Seq(Entry) /\ Len(t) = Len(list) + 1 - k
      /\ \A i \in 1 .. Len(list) + 1 - k : t[i] = list[k + i - 1]
  <2> DEFINE n == Len(list)
  <2>1. k \in Int /\ n \in Int /\ \A i \in k .. n : list[i] \in Entry
    BY <1>1
  <2> HIDE DEF n
  <2>2. /\ t \in Seq(Entry)
        /\ Len(t) = IF k <= n THEN n - k + 1 ELSE 0
        /\ \A i \in 1 .. n - k + 1 : t[i] = list[k + i - 1]
    <3>1. /\ SubSeq(list, k, n) \in Seq(Entry)
          /\ Len(SubSeq(list, k, n)) = IF k <= n THEN n - k + 1 ELSE 0
          /\ \A i \in 1 .. n - k + 1 : SubSeq(list, k, n)[i] = list[k + i - 1]
      BY <2>1, SubSeqProperties
    <3> QED
      BY <3>1 DEF n
  <2> HIDE DEF t
  <2>3. n - k + 1 = n + 1 - k /\ (k <= n \/ n + 1 - k = 0)
    BY <1>1, <2>1 DEF n
  <2>4. Len(t) = n + 1 - k /\ \A i \in 1 .. n + 1 - k : t[i] = list[k + i - 1]
    BY <2>1, <2>2, <2>3
  <2> QED
    BY <2>2, <2>4 DEF n
<1>4. InsertAt(list, k, e) = u \o t
  BY DEF InsertAt
<1>5. /\ u \in Seq(Entry) /\ Len(u) = k
      /\ \A i \in 1 .. k : u[i] = IF i < k THEN list[i] ELSE e
  <2>1. <<e>> \in Seq(Entry) /\ Len(<<e>>) = 1 /\ <<e>>[1] = e
    OBVIOUS
  <2> HIDE DEF s
  <2>2. /\ u \in Seq(Entry)
        /\ Len(u) = Len(s) + Len(<<e>>)
        /\ \A i \in 1 .. Len(s) + Len(<<e>>) :
              u[i] = IF i <= Len(s) THEN s[i] ELSE <<e>>[i - Len(s)]
    BY <1>2, <2>1, ConcatProperties
  <2> HIDE DEF u
  <2>3. Len(s) + Len(<<e>>) = k
    BY <1>1, <1>2, <2>1
  <2>4. ASSUME NEW i \in 1 .. k
        PROVE  u[i] = IF i < k THEN list[i] ELSE e
    <3>1. u[i] = IF i <= Len(s) THEN s[i] ELSE <<e>>[i - Len(s)]
      BY <2>2, <2>3
    <3>2. CASE i < k
      BY <1>1, <1>2, <3>1, <3>2
    <3>3. CASE ~ (i < k)
      <4>1. i - Len(s) = 1 /\ ~ (i <= Len(s))
        BY <1>1, <1>2, <3>3
      <4> QED
        BY <2>1, <3>1, <3>3, <4>1
    <3> QED
      BY <3>2, <3>3
  <2> QED
    BY <2>2, <2>3, <2>4
<1> HIDE DEF s, t, u
<1>6. /\ u \o t \in Seq(Entry)
      /\ Len(u \o t) = Len(u) + Len(t)
      /\ \A i \in 1 .. Len(u) + Len(t) :
            (u \o t)[i] = IF i <= Len(u) THEN u[i] ELSE t[i - Len(u)]
  BY <1>3, <1>5, ConcatProperties
<1>7. Len(u) + Len(t) = Len(list) + 1
  BY <1>1, <1>3, <1>5
<1>8. ASSUME NEW i \in 1 .. Len(list) + 1
      PROVE  (u \o t)[i] = IF i < k THEN list[i] ELSE IF i = k THEN e ELSE list[i - 1]
  <2>1. (u \o t)[i] = IF i <= k THEN u[i] ELSE t[i - k]
    BY <1>5, <1>6, <1>7
  <2>2. CASE i <= k
    BY <1>1, <1>5, <2>1, <2>2
  <2>3. CASE ~ (i <= k)
    <3>1. i - k \in 1 .. Len(list) + 1 - k /\ k + (i - k) - 1 = i - 1
      BY <1>1, <2>3
    <3>2. t[i - k] = list[i - 1]
      BY <1>3, <3>1
    <3> QED
      BY <1>1, <2>1, <2>3, <3>2
  <2> QED
    BY <2>2, <2>3
<1> QED
  BY <1>4, <1>6, <1>7, <1>8

-----------------------------------------------------------------------------
(* The invariant, as a statement about any list and any countdowns.          *)

Single(list) ==
    \A i, j \in 1 .. Len(list) : list[i].name = list[j].name => i = j

Sorted(list) ==
    \A i, j \in 1 .. Len(list) : i < j /\ list[j].premium => list[i].premium

Holds(list, p, n) ==
    \E i \in 1 .. Len(list) : list[i].name = p /\ list[i].timeout = n + Slack

Inv == WaitingTypeOK /\ IsFiniteSet(online) /\ OnePlaceEach /\ PremiumsFirst /\ PromiseKept

LEMMA InvParts ==
  ASSUME WaitingTypeOK
  PROVE  /\ OnePlaceEach <=> Single(waitList)
         /\ PremiumsFirst <=> Sorted(waitList)
         /\ PromiseKept <=> \A p \in Players :
                left[p] # NotWaiting => Holds(waitList, p, left[p])
<1>1. DOMAIN waitList = 1 .. Len(waitList)
  BY LenProperties DEF WaitingTypeOK
<1> QED
  BY <1>1 DEF OnePlaceEach, PremiumsFirst, PromiseKept, Single, Sorted, Holds

LEMMA InvPartsNext ==
  ASSUME WaitingTypeOK'
  PROVE  /\ OnePlaceEach' <=> Single(waitList')
         /\ PremiumsFirst' <=> Sorted(waitList')
         /\ PromiseKept' <=> \A p \in Players :
                left'[p] # NotWaiting => Holds(waitList', p, left'[p])
<1>1. DOMAIN waitList' = 1 .. Len(waitList')
  BY LenProperties DEF WaitingTypeOK
<1> QED
  BY <1>1 DEF OnePlaceEach, PremiumsFirst, PromiseKept, Single, Sorted, Holds

LEMMA GetTimeRange ==
  ASSUME NEW n \in Nat
  PROVE  GetTime(n) \in 1 .. GetTime(50) /\ GetTimeout(n) \in 0 .. GetTimeout(50)
BY DEF GetTime, GetTimeout, Slack

LEMMA CleanedFacts ==
  ASSUME NEW list \in Seq(Entry)
  PROVE  /\ Cleaned(list) \in Seq(Entry)
         /\ Single(list) => Single(Cleaned(list))
         /\ Sorted(list) => Sorted(Cleaned(list))
         /\ \A p, n : n \in Int /\ n > NotWaiting /\ Holds(list, p, n)
                       => Holds(Cleaned(list), p, n)
<1> DEFINE c == Cleaned(list)
<1>1. PICK g : Keeps(list, c, Len(list), g)
  BY CleanedKeeps
<1> HIDE DEF c
<1>2. c \in Seq(Entry) /\ Len(c) \in Nat /\ Len(list) \in Nat
  BY <1>1, LenProperties DEF Keeps
<1>3. ASSUME Single(list) PROVE Single(c)
  <2> SUFFICES ASSUME NEW i \in 1 .. Len(c), NEW j \in 1 .. Len(c),
                      c[i].name = c[j].name
               PROVE  i = j
    BY DEF Single
  <2>1. g[i] \in 1 .. Len(list) /\ g[j] \in 1 .. Len(list)
        /\ c[i] = list[g[i]] /\ c[j] = list[g[j]]
    BY <1>1 DEF Keeps
  <2>2. g[i] = g[j]
    BY <1>3, <2>1 DEF Single
  <2>3. ~ (i < j) /\ ~ (j < i)
    BY <1>1, <2>1, <2>2 DEF Keeps
  <2> QED
    BY <1>2, <2>3
<1>4. ASSUME Sorted(list) PROVE Sorted(c)
  <2> SUFFICES ASSUME NEW i \in 1 .. Len(c), NEW j \in 1 .. Len(c),
                      i < j, c[j].premium
               PROVE  c[i].premium
    BY DEF Sorted
  <2>1. g[i] \in 1 .. Len(list) /\ g[j] \in 1 .. Len(list) /\ g[i] < g[j]
        /\ c[i] = list[g[i]] /\ c[j] = list[g[j]]
    BY <1>1 DEF Keeps
  <2> QED
    BY <1>4, <2>1 DEF Sorted
<1>5. ASSUME NEW p, NEW n \in Int, n > NotWaiting, Holds(list, p, n)
      PROVE  Holds(c, p, n)
  <2>1. PICK i \in 1 .. Len(list) : list[i].name = p /\ list[i].timeout = n + Slack
    BY <1>5 DEF Holds
  <2>2. Alive(list[i])
    BY <1>5, <2>1 DEF Alive, NotWaiting, Slack
  <2>3. PICK m \in 1 .. Len(c) : g[m] = i
    BY <1>1, <2>2 DEF Keeps
  <2>4. c[m] = list[i]
    BY <1>1, <2>3 DEF Keeps
  <2> QED
    BY <2>1, <2>4 DEF Holds
<1> QED
  BY <1>2, <1>3, <1>4, <1>5 DEF c

LEMMA SameSlot ==
  ASSUME NEW s \in Seq(Entry), NEW t \in Seq(Entry), Len(t) = Len(s),
         \A i \in 1 .. Len(s) : t[i].name = s[i].name, Single(s), NEW p
  PROVE  Slot(t, p) = Slot(s, p)
<1>1. Len(s) \in Nat
  BY LenProperties
<1>2. /\ Slot(t, p) \in 0 .. Len(s)
      /\ Slot(t, p) # 0 => t[Slot(t, p)].name = p
      /\ Slot(t, p) = 0 => \A i \in 1 .. Len(s) : t[i].name # p
  BY SlotFacts
<1>3. /\ Slot(s, p) \in 0 .. Len(s)
      /\ Slot(s, p) # 0 => s[Slot(s, p)].name = p
      /\ Slot(s, p) = 0 => \A i \in 1 .. Len(s) : s[i].name # p
  BY SlotFacts
<1>4. CASE Slot(t, p) = 0 \/ Slot(s, p) = 0
  BY <1>1, <1>2, <1>3, <1>4
<1>5. CASE Slot(t, p) # 0 /\ Slot(s, p) # 0
  <2>1. Slot(t, p) \in 1 .. Len(s) /\ Slot(s, p) \in 1 .. Len(s)
    BY <1>1, <1>2, <1>3, <1>5
  <2> QED
    BY <1>2, <1>3, <1>5, <2>1 DEF Single
<1> QED
  BY <1>4, <1>5

LEMMA RemoveKeeps ==
  ASSUME NEW list \in Seq(Entry), NEW k \in 1 .. Len(list), Single(list), Sorted(list)
  PROVE  /\ Single(RemoveAt(list, k)) /\ Sorted(RemoveAt(list, k))
         /\ \A q, n : q # list[k].name /\ Holds(list, q, n) => Holds(RemoveAt(list, k), q, n)
<1> DEFINE s == RemoveAt(list, k)
           old == [i \in 1 .. Len(list) - 1 |-> IF i < k THEN i ELSE i + 1]
<1>1. /\ s \in Seq(Entry) /\ Len(s) = Len(list) - 1 /\ Len(list) \in Nat
      /\ \A i \in 1 .. Len(list) - 1 : s[i] = IF i < k THEN list[i] ELSE list[i + 1]
  BY RemoveFacts, LenProperties
<1> HIDE DEF s
<1>2. \A i \in 1 .. Len(s) : old[i] \in 1 .. Len(list) /\ s[i] = list[old[i]]
  BY <1>1
<1>3. \A i, j \in 1 .. Len(s) : i < j => old[i] < old[j]
  BY <1>1
<1> HIDE DEF old
<1>4. Single(s)
  <2> SUFFICES ASSUME NEW i \in 1 .. Len(s), NEW j \in 1 .. Len(s), s[i].name = s[j].name
               PROVE  i = j
    BY DEF Single
  <2>1. /\ old[i] \in 1 .. Len(list) /\ old[j] \in 1 .. Len(list)
        /\ list[old[i]].name = list[old[j]].name
    BY <1>2
  <2>2. old[i] = old[j] /\ old[i] \in Int
    BY <2>1 DEF Single
  <2>3. ~ (i < j) /\ ~ (j < i)
    BY <1>3, <2>2
  <2> QED
    BY <2>3
<1>5. Sorted(s)
  <2> SUFFICES ASSUME NEW i \in 1 .. Len(s), NEW j \in 1 .. Len(s), i < j, s[j].premium
               PROVE  s[i].premium
    BY DEF Sorted
  <2>1. old[i] < old[j]
    BY <1>3
  <2> QED
    BY <1>2, <2>1 DEF Sorted
<1>6. ASSUME NEW q, NEW n, q # list[k].name, Holds(list, q, n)
      PROVE  Holds(s, q, n)
  <2>1. PICK i \in 1 .. Len(list) : list[i].name = q /\ list[i].timeout = n + Slack
    BY <1>6 DEF Holds
  <2>2. i # k
    BY <1>6, <2>1
  <2>3. CASE i < k
    <3>1. i \in 1 .. Len(s) /\ s[i] = list[i]
      BY <1>1, <2>3
    <3> QED
      BY <2>1, <3>1 DEF Holds
  <2>4. CASE i > k
    <3>1. i - 1 \in 1 .. Len(s) /\ s[i - 1] = list[i]
      <4>1. i - 1 \in 1 .. Len(list) - 1 /\ ~ (i - 1 < k) /\ (i - 1) + 1 = i
        BY <1>1, <2>4
      <4> QED
        BY <1>1, <4>1
    <3> QED
      BY <2>1, <3>1 DEF Holds
  <2> QED
    BY <1>1, <2>2, <2>3, <2>4
<1> QED
  BY <1>4, <1>5, <1>6 DEF s

LEMMA InsertKeeps ==
  ASSUME NEW list \in Seq(Entry), NEW k \in 1 .. Len(list) + 1, NEW e \in Entry,
         Single(list), Sorted(list),
         \A i \in 1 .. Len(list) : list[i].name # e.name,
         e.premium => \A i \in 1 .. Len(list) : i < k => list[i].premium,
         ~ e.premium => k = Len(list) + 1
  PROVE  /\ Single(InsertAt(list, k, e)) /\ Sorted(InsertAt(list, k, e))
         /\ \A q, n : Holds(list, q, n) => Holds(InsertAt(list, k, e), q, n)
<1> DEFINE s == InsertAt(list, k, e)
           old == [i \in 1 .. Len(list) + 1 |-> IF i < k THEN i ELSE i - 1]
<1>1. /\ s \in Seq(Entry) /\ Len(s) = Len(list) + 1 /\ Len(list) \in Nat
      /\ \A i \in 1 .. Len(list) + 1 :
            s[i] = IF i < k THEN list[i] ELSE IF i = k THEN e ELSE list[i - 1]
  BY InsertFacts, LenProperties
<1> HIDE DEF s
<1>2. \A i \in 1 .. Len(s) : i # k => old[i] \in 1 .. Len(list) /\ s[i] = list[old[i]]
  <2> SUFFICES ASSUME NEW i \in 1 .. Len(s), i # k
               PROVE  old[i] \in 1 .. Len(list) /\ s[i] = list[old[i]]
    OBVIOUS
  <2>1. old[i] = IF i < k THEN i ELSE i - 1
    BY <1>1
  <2> QED
    BY <1>1, <2>1
<1>3. \A i, j \in 1 .. Len(s) : i # k /\ j # k /\ i < j => old[i] < old[j]
  BY <1>1
<1>4. k \in 1 .. Len(s) /\ s[k] = e
  BY <1>1
<1>5. \A i \in 1 .. Len(s) : i < k => old[i] = i
  BY <1>1
<1> HIDE DEF old
<1>6. Single(s)
  <2> SUFFICES ASSUME NEW i \in 1 .. Len(s), NEW j \in 1 .. Len(s), s[i].name = s[j].name
               PROVE  i = j
    BY DEF Single
  <2>1. CASE i = k \/ j = k
    BY <1>2, <1>4, <2>1
  <2>2. CASE i # k /\ j # k
    <3>1. /\ old[i] \in 1 .. Len(list) /\ old[j] \in 1 .. Len(list)
          /\ list[old[i]].name = list[old[j]].name
      BY <1>2, <2>2
    <3>2. old[i] = old[j] /\ old[i] \in Int
      BY SMTT(40), <3>1 DEF Single
    <3>3. ~ (i < j) /\ ~ (j < i)
      BY <1>3, <2>2, <3>2
    <3> QED
      BY <1>1, <3>3
  <2> QED
    BY <2>1, <2>2
<1>7. Sorted(s)
  <2> SUFFICES ASSUME NEW i \in 1 .. Len(s), NEW j \in 1 .. Len(s), i < j, s[j].premium
               PROVE  s[i].premium
    BY DEF Sorted
  <2>1. CASE i # k /\ j # k
    <3>1. old[i] < old[j]
      BY <1>3, <2>1
    <3> QED
      BY <1>2, <2>1, <3>1 DEF Sorted
  <2>2. CASE j = k
    <3>1. e.premium /\ i < k
      BY <1>4, <2>2
    <3>2. i \in 1 .. Len(list) /\ s[i] = list[i]
      BY <1>1, <3>1
    <3> QED
      BY <3>1, <3>2
  <2>3. CASE i = k
    <3>1. k # Len(list) + 1
      BY <1>1, <2>3
    <3> QED
      BY <1>4, <2>3, <3>1
  <2> QED
    BY <2>1, <2>2, <2>3
<1>8. ASSUME NEW q, NEW n, Holds(list, q, n)
      PROVE  Holds(s, q, n)
  <2>1. PICK i \in 1 .. Len(list) : list[i].name = q /\ list[i].timeout = n + Slack
    BY <1>8 DEF Holds
  <2>2. CASE i < k
    <3>1. i \in 1 .. Len(s) /\ s[i] = list[i]
      BY <1>1, <2>2
    <3> QED
      BY <2>1, <3>1 DEF Holds
  <2>3. CASE i >= k
    <3>1. i + 1 \in 1 .. Len(s) /\ s[i + 1] = list[i]
      <4>1. i + 1 \in 1 .. Len(list) + 1 /\ ~ (i + 1 < k) /\ i + 1 # k /\ (i + 1) - 1 = i
        BY <1>1, <2>3
      <4> QED
        BY <1>1, <4>1
    <3> QED
      BY <2>1, <3>1 DEF Holds
  <2> QED
    BY <1>1, <2>2, <2>3
<1> QED
  BY <1>6, <1>7, <1>8 DEF s

LEMMA RetimeKeeps ==
  ASSUME NEW list \in Seq(Entry), NEW k \in 1 .. Len(list), NEW n \in 0 .. GetTimeout(50),
         Single(list), Sorted(list)
  PROVE  LET s == [list EXCEPT ![k].timeout = n]
         IN  /\ s \in Seq(Entry) /\ Single(s) /\ Sorted(s)
             /\ Slot(s, list[k].name) = k
             /\ Holds(s, list[k].name, n - Slack)
             /\ \A q, m : q # list[k].name /\ Holds(list, q, m) => Holds(s, q, m)
<1> DEFINE e == [list[k] EXCEPT !.timeout = n]
           s == [list EXCEPT ![k].timeout = n]
<1>1. /\ e \in Entry /\ e.name = list[k].name /\ e.premium = list[k].premium
      /\ e.timeout = n
  <2>1. list[k] \in Entry
    BY ElementOfSeq
  <2> QED
    BY <2>1 DEF Entry
<1>2. /\ s \in Seq(Entry) /\ Len(s) = Len(list) /\ Len(list) \in Nat
      /\ \A i \in 1 .. Len(list) : s[i] = IF i = k THEN e ELSE list[i]
  <2>1. s = [list EXCEPT ![k] = e]
    OBVIOUS
  <2> HIDE DEF e, s
  <2> QED
    BY <1>1, <2>1, ExceptSeq, LenProperties
<1> HIDE DEF e, s
<1>3. \A i \in 1 .. Len(list) : s[i].name = list[i].name /\ s[i].premium = list[i].premium
  BY <1>1, <1>2
<1>4. Single(s) /\ Sorted(s)
  BY <1>2, <1>3 DEF Single, Sorted
<1>5. Slot(s, list[k].name) = k
  <2>1. Slot(s, list[k].name) = Slot(list, list[k].name)
    BY <1>2, <1>3, SameSlot
  <2>2. Slot(list, list[k].name) = k
    <3>1. /\ Slot(list, list[k].name) \in 0 .. Len(list)
          /\ Slot(list, list[k].name) # 0 =>
                list[Slot(list, list[k].name)].name = list[k].name
          /\ Slot(list, list[k].name) # 0
      BY SlotFacts
    <3>2. Slot(list, list[k].name) \in 1 .. Len(list)
      BY <1>2, <3>1
    <3> QED
      BY <3>1, <3>2 DEF Single
  <2> QED
    BY <2>1, <2>2
<1>6. Holds(s, list[k].name, n - Slack)
  <2>1. s[k].name = list[k].name /\ s[k].timeout = (n - Slack) + Slack
    BY <1>1, <1>2 DEF Slack
  <2> QED
    BY <1>2, <2>1 DEF Holds
<1>7. \A q, m : q # list[k].name /\ Holds(list, q, m) => Holds(s, q, m)
  <2> SUFFICES ASSUME NEW q, NEW m, q # list[k].name, Holds(list, q, m)
               PROVE  Holds(s, q, m)
    OBVIOUS
  <2>1. PICK i \in 1 .. Len(list) : list[i].name = q /\ list[i].timeout = m + Slack
    BY DEF Holds
  <2>2. s[i] = list[i]
    BY <1>2, <2>1
  <2> QED
    BY <1>2, <2>1, <2>2 DEF Holds
<1> QED
  BY <1>2, <1>4, <1>5, <1>6, <1>7 DEF s

-----------------------------------------------------------------------------
(* What a login of p makes of the list: it stays in order, and nobody else   *)
(* loses its place.                                                          *)

Follows(old, new, p) ==
    /\ new \in Seq(Entry) /\ Single(new) /\ Sorted(new)
    /\ \A q, n : n \in Int /\ n > NotWaiting /\ q # p /\ Holds(old, q, n) => Holds(new, q, n)

(* Retimed, Removed and Inserted: the list when p has to wait on, when it is *)
(* let in, and when it gets a place.                                         *)
Retimed(list, slot) == [list EXCEPT ![slot].timeout = GetTimeout(slot)]

Inserted(list, p, slot) ==
    InsertAt(list, slot, [name |-> p, premium |-> p \in premium, timeout |-> GetTimeout(slot)])

LEMMA RetimedFollows ==
  ASSUME NEW list \in Seq(Entry), Single(list), Sorted(list), NEW p,
         NEW slot, slot = Slot(Cleaned(list), p), slot # 0
  PROVE  /\ Follows(list, Retimed(Cleaned(list), slot), p)
         /\ Slot(Retimed(Cleaned(list), slot), p) = slot
         /\ slot \in Nat
         /\ Holds(Retimed(Cleaned(list), slot), p, GetTime(slot))
<1> DEFINE c == Cleaned(list)
<1>1. /\ c \in Seq(Entry) /\ Single(c) /\ Sorted(c)
      /\ \A q, n : n \in Int /\ n > NotWaiting /\ Holds(list, q, n) => Holds(c, q, n)
  BY CleanedFacts
<1> HIDE DEF c
<1>2. slot \in 1 .. Len(c) /\ c[slot].name = p /\ slot \in Nat
  <2>1. slot \in 0 .. Len(c) /\ c[slot].name = p
    BY <1>1, SlotFacts DEF c
  <2> QED
    BY <1>1, <2>1, LenProperties
<1>3. GetTimeout(slot) \in 0 .. GetTimeout(50) /\ GetTimeout(slot) - Slack = GetTime(slot)
  BY SMTT(40), <1>2, GetTimeRange DEF GetTimeout, Slack
<1> SUFFICES /\ Follows(list, Retimed(c, slot), p)
             /\ Slot(Retimed(c, slot), p) = slot
             /\ Holds(Retimed(c, slot), p, GetTime(slot))
  BY <1>2 DEF c
<1>4. /\ Retimed(c, slot) \in Seq(Entry) /\ Single(Retimed(c, slot)) /\ Sorted(Retimed(c, slot))
      /\ Slot(Retimed(c, slot), c[slot].name) = slot
      /\ Holds(Retimed(c, slot), c[slot].name, GetTimeout(slot) - Slack)
      /\ \A q, m : q # c[slot].name /\ Holds(c, q, m) => Holds(Retimed(c, slot), q, m)
  <2> HIDE <1>3
  <2>1. ASSUME NEW d \in Seq(Entry), NEW i \in 1 .. Len(d), NEW n \in 0 .. GetTimeout(50),
               Single(d), Sorted(d), n = GetTimeout(i)
        PROVE  /\ Retimed(d, i) \in Seq(Entry) /\ Single(Retimed(d, i)) /\ Sorted(Retimed(d, i))
               /\ Slot(Retimed(d, i), d[i].name) = i
               /\ Holds(Retimed(d, i), d[i].name, n - Slack)
               /\ \A q, m : q # d[i].name /\ Holds(d, q, m) => Holds(Retimed(d, i), q, m)
    BY <2>1, RetimeKeeps, Zenon DEF Retimed
  <2> QED
    BY <1>1, <1>2, <1>3, <2>1
<1> QED
  BY <1>1, <1>2, <1>3, <1>4 DEF Follows

LEMMA RemovedFollows ==
  ASSUME NEW list \in Seq(Entry), Single(list), Sorted(list), NEW p,
         Slot(Cleaned(list), p) # 0
  PROVE  Follows(list, RemoveAt(Cleaned(list), Slot(Cleaned(list), p)), p)
<1> DEFINE c == Cleaned(list)
<1>1. /\ c \in Seq(Entry) /\ Single(c) /\ Sorted(c)
      /\ \A q, n : n \in Int /\ n > NotWaiting /\ Holds(list, q, n) => Holds(c, q, n)
  BY CleanedFacts
<1>2. Slot(c, p) # 0
  OBVIOUS
<1> HIDE DEF c
<1>3. Slot(c, p) \in 1 .. Len(c) /\ c[Slot(c, p)].name = p
  BY <1>1, <1>2, SlotFacts, LenProperties
<1>4. Follows(list, RemoveAt(c, Slot(c, p)), p)
  BY <1>1, <1>3, RemoveFacts, RemoveKeeps DEF Follows
<1> QED
  BY <1>4 DEF c

LEMMA InsertedFollows ==
  ASSUME NEW list \in Seq(Entry), Single(list), Sorted(list), NEW p \in Players,
         NEW slot, slot = NewSlot(Cleaned(list), p), Slot(Cleaned(list), p) = 0
  PROVE  /\ Follows(list, Inserted(Cleaned(list), p, slot), p)
         /\ Slot(Inserted(Cleaned(list), p, slot), p) = slot
         /\ slot \in Nat
         /\ Holds(Inserted(Cleaned(list), p, slot), p, GetTime(slot))
<1> DEFINE c == Cleaned(list)
           e == [name |-> p, premium |-> p \in premium, timeout |-> GetTimeout(slot)]
           s == InsertAt(c, slot, e)
<1>1. /\ c \in Seq(Entry) /\ Single(c) /\ Sorted(c)
      /\ \A q, n : n \in Int /\ n > NotWaiting /\ Holds(list, q, n) => Holds(c, q, n)
  BY CleanedFacts
<1>2. Len(c) \in Nat
  BY <1>1, LenProperties
<1>3. /\ slot \in 1 .. Len(c) + 1
      /\ p \in premium => \A i \in 1 .. Len(c) : i < slot => c[i].premium
      /\ p \notin premium => slot = Len(c) + 1
  <2> HIDE DEF c
  <2>1. slot = NewSlot(c, p)
    BY DEF c
  <2> QED
    BY <1>1, <2>1, NewSlotFacts
<1>4. \A i \in 1 .. Len(c) : c[i].name # p
  <2>1. Slot(c, p) = 0
    OBVIOUS
  <2> HIDE DEF c
  <2> QED
    BY <1>1, <2>1, SlotFacts
<1> HIDE DEF c
<1>5. slot \in Nat /\ GetTimeout(slot) \in 0 .. GetTimeout(50) /\ GetTimeout(slot) = GetTime(slot) + Slack
  BY <1>2, <1>3, GetTimeRange DEF GetTimeout
<1>6. e \in Entry /\ e.name = p /\ e.premium = (p \in premium) /\ e.timeout = GetTime(slot) + Slack
  BY <1>5 DEF Entry
<1> HIDE DEF e
<1>7. /\ s \in Seq(Entry) /\ Len(s) = Len(c) + 1
      /\ s[slot] = e
  BY <1>1, <1>2, <1>3, <1>6, InsertFacts
<1>8. /\ Single(s) /\ Sorted(s)
      /\ \A q, n : Holds(c, q, n) => Holds(s, q, n)
  BY <1>1, <1>3, <1>4, <1>6, InsertKeeps
<1> HIDE DEF s
<1>9. Holds(s, p, GetTime(slot))
  BY <1>2, <1>3, <1>6, <1>7 DEF Holds
<1>10. Slot(s, p) = slot
  <2>1. /\ Slot(s, p) \in 0 .. Len(s)
        /\ Slot(s, p) # 0 => s[Slot(s, p)].name = p
        /\ Slot(s, p) = 0 => \A i \in 1 .. Len(s) : s[i].name # p
    BY <1>7, SlotFacts
  <2>2. slot \in 1 .. Len(s) /\ s[slot].name = p
    BY <1>2, <1>3, <1>6, <1>7
  <2>3. Slot(s, p) \in 1 .. Len(s)
    BY <1>2, <1>7, <2>1, <2>2
  <2> QED
    BY <1>8, <2>1, <2>2, <2>3 DEF Single
<1>11. Follows(list, s, p)
  BY <1>1, <1>7, <1>8 DEF Follows
<1> QED
  BY <1>5, <1>9, <1>10, <1>11 DEF s, e, c, Inserted

-----------------------------------------------------------------------------
(* Each action preserves the invariant.                                      *)

LEMMA TurnedAwayKeeps ==
  ASSUME Inv, NEW p \in Players, premium' = premium, Follows(waitList, waitList', p),
         Slot(waitList', p) \in Nat, Holds(waitList', p, GetTime(Slot(waitList', p))),
         TurnedAway(p)
  PROVE  Inv'
<1> DEFINE n == GetTime(Slot(waitList', p))
<1>1. left' = [left EXCEPT ![p] = n] /\ online' = online
  BY DEF TurnedAway
<1>2. n \in 1 .. GetTime(50) /\ Holds(waitList', p, n)
  BY GetTimeRange
<1> HIDE DEF n
<1>3. WaitingTypeOK'
  BY <1>1, <1>2 DEF Inv, WaitingTypeOK, NotWaiting, Slack, Follows
<1>4. ASSUME NEW q \in Players, left'[q] # NotWaiting
      PROVE  Holds(waitList', q, left'[q])
  <2>1. CASE q = p
    BY <1>1, <1>2, <2>1 DEF Inv, WaitingTypeOK
  <2>2. CASE q # p
    <3>1. left'[q] = left[q] /\ left[q] # NotWaiting /\ left[q] \in NotWaiting .. GetTime(50)
      BY <1>1, <1>4, <2>2 DEF Inv, WaitingTypeOK
    <3>2. Holds(waitList, q, left[q])
      BY <3>1, InvParts DEF Inv
    <3>3. left[q] \in Int /\ left[q] > NotWaiting
      BY <3>1 DEF NotWaiting, Slack, GetTime
    <3> QED
      BY <2>2, <3>1, <3>2, <3>3 DEF Follows
  <2> QED
    BY <2>1, <2>2
<1> QED
  BY <1>1, <1>3, <1>4, InvPartsNext DEF Inv, Follows

LEMMA EnterKeeps ==
  ASSUME Inv, NEW p \in Players, premium' = premium, Follows(waitList, waitList', p), Enter(p)
  PROVE  Inv'
<1>1. /\ left' = [left EXCEPT ![p] = NotWaiting]
      /\ online' = online \/ online' = online \cup {p}
  BY DEF Enter
<1>2. IsFiniteSet(online')
  BY <1>1, FS_AddElement DEF Inv
<1>3. WaitingTypeOK'
  BY <1>1 DEF Inv, WaitingTypeOK, NotWaiting, Slack, GetTime, Follows
<1>4. ASSUME NEW q \in Players, left'[q] # NotWaiting
      PROVE  Holds(waitList', q, left'[q])
  <2>1. q # p /\ left'[q] = left[q] /\ left[q] \in NotWaiting .. GetTime(50)
    BY <1>1, <1>4 DEF Inv, WaitingTypeOK
  <2>2. Holds(waitList, q, left[q])
    BY <1>4, <2>1, InvParts DEF Inv
  <2>3. left[q] \in Int /\ left[q] > NotWaiting
    BY <1>4, <2>1 DEF NotWaiting, Slack, GetTime
  <2> QED
    BY <2>1, <2>2, <2>3 DEF Follows
<1> QED
  BY <1>2, <1>3, <1>4, InvPartsNext DEF Inv, Follows

LEMMA LoginKeeps ==
  ASSUME Inv, NEW p \in Players, Login(p)
  PROVE  Inv'
<1>1. waitList \in Seq(Entry) /\ Single(waitList) /\ Sorted(waitList)
  BY InvParts DEF Inv, WaitingTypeOK
<1>2. premium' = premium
  BY DEF Login
<1>3. CASE Pass(p)
  <2>1. Enter(p) /\ waitList' = waitList
    BY <1>3 DEF Pass
  <2>2. Follows(waitList, waitList', p)
    BY <1>1, <2>1 DEF Follows
  <2> QED
    BY <1>2, <2>1, <2>2, EnterKeeps
<1>4. CASE Return(p)
  <2> DEFINE c == Cleaned(waitList)
             slot == Slot(c, p)
  <2>1. slot # 0
    BY <1>4 DEF Return
  <2>2. CASE waitList' = Retimed(c, slot) /\ TurnedAway(p)
    <3>1. /\ Follows(waitList, Retimed(c, slot), p)
          /\ Slot(Retimed(c, slot), p) = slot /\ slot \in Nat
          /\ Holds(Retimed(c, slot), p, GetTime(slot))
      BY <1>1, <2>1, RetimedFollows
    <3> HIDE DEF c, slot
    <3>2. /\ Follows(waitList, waitList', p) /\ Slot(waitList', p) \in Nat
          /\ Holds(waitList', p, GetTime(Slot(waitList', p)))
      BY <2>2, <3>1
    <3> QED
      BY <1>2, <2>2, <3>2, TurnedAwayKeeps
  <2>3. CASE waitList' = RemoveAt(c, slot) /\ Enter(p)
    <3>1. Follows(waitList, RemoveAt(c, slot), p)
      BY <1>1, <2>1, RemovedFollows
    <3> QED
      BY <1>2, <2>3, <3>1, EnterKeeps
  <2> QED
    BY <1>4, <2>2, <2>3 DEF Return, Retimed
<1>5. CASE Queue(p)
  <2> DEFINE c == Cleaned(waitList)
             slot == NewSlot(c, p)
  <2>1. Slot(c, p) = 0 /\ waitList' = Inserted(c, p, slot) /\ TurnedAway(p)
    BY <1>5 DEF Queue, Inserted
  <2>2. /\ Follows(waitList, Inserted(c, p, slot), p)
        /\ Slot(Inserted(c, p, slot), p) = slot /\ slot \in Nat
        /\ Holds(Inserted(c, p, slot), p, GetTime(slot))
    BY <1>1, <2>1, InsertedFollows
  <2> HIDE DEF c, slot
  <2>3. /\ Follows(waitList, waitList', p) /\ Slot(waitList', p) \in Nat
        /\ Holds(waitList', p, GetTime(Slot(waitList', p)))
    BY <2>1, <2>2
  <2> QED
    BY <1>2, <2>1, <2>3, TurnedAwayKeeps
<1> QED
  BY <1>3, <1>4, <1>5 DEF Login

LEMMA TickKeeps ==
  ASSUME Inv, Tick
  PROVE  Inv'
<1> DEFINE aged(e) == [e EXCEPT !.timeout = IF @ > 0 THEN @ - 1 ELSE 0]
<1>1. Len(waitList) \in Nat /\ DOMAIN waitList = 1 .. Len(waitList)
  BY LenProperties DEF Inv, WaitingTypeOK
<1>2. ASSUME NEW i \in 1 .. Len(waitList)
      PROVE  /\ waitList[i] \in Entry
             /\ aged(waitList[i]) \in Entry
             /\ aged(waitList[i]).name = waitList[i].name
             /\ aged(waitList[i]).premium = waitList[i].premium
             /\ waitList[i].timeout \in Nat
             /\ aged(waitList[i]).timeout =
                    IF waitList[i].timeout > 0 THEN waitList[i].timeout - 1 ELSE 0
  <2>1. waitList[i] \in Entry
    BY ElementOfSeq DEF Inv, WaitingTypeOK
  <2>2. GetTimeout(50) = 27
    BY DEF GetTimeout, GetTime, Slack
  <2>3. /\ waitList[i].timeout \in 0 .. 27
        /\ waitList[i] \in [name : Players, premium : BOOLEAN, timeout : 0 .. 27]
    BY <2>1, <2>2 DEF Entry
  <2>4. \A x \in 0 .. 27 : (IF x > 0 THEN x - 1 ELSE 0) \in 0 .. 27
    OBVIOUS
  <2> QED
    BY <2>1, <2>2, <2>3, <2>4 DEF Entry
<1>3. /\ waitList' = [i \in 1 .. Len(waitList) |-> aged(waitList[i])]
      /\ left' = [p \in Players |-> IF left[p] = NotWaiting THEN NotWaiting ELSE left[p] - 1]
      /\ online' = online /\ premium' = premium
  BY <1>1 DEF Tick
<1> HIDE DEF aged
<1>4. /\ waitList' \in Seq(Entry) /\ Len(waitList') = Len(waitList)
      /\ \A i \in 1 .. Len(waitList) : waitList'[i] = aged(waitList[i])
  BY <1>1, <1>2, <1>3
<1>5. WaitingTypeOK'
  BY <1>3, <1>4 DEF Inv, WaitingTypeOK, NotWaiting, Slack, GetTime
<1>6. Single(waitList') /\ Sorted(waitList')
  <2>1. Single(waitList) /\ Sorted(waitList)
    BY InvParts DEF Inv
  <2> QED
    BY <1>2, <1>4, <2>1 DEF Single, Sorted
<1>7. ASSUME NEW p \in Players, left'[p] # NotWaiting
      PROVE  Holds(waitList', p, left'[p])
  <2>1. left[p] # NotWaiting /\ left'[p] = left[p] - 1 /\ left[p] \in Int /\ left[p] > NotWaiting + 1
    <3>1. left[p] \in -3 .. 24 /\ NotWaiting = -3
      BY DEF Inv, WaitingTypeOK, NotWaiting, Slack, GetTime
    <3>2. left'[p] = IF left[p] = NotWaiting THEN NotWaiting ELSE left[p] - 1
      BY <1>3
    <3> QED
      BY <1>7, <3>1, <3>2
  <2>2. Holds(waitList, p, left[p])
    BY <2>1, InvParts DEF Inv
  <2>3. PICK i \in 1 .. Len(waitList) :
           waitList[i].name = p /\ waitList[i].timeout = left[p] + Slack
    BY <2>2 DEF Holds
  <2>4. waitList'[i].name = p /\ waitList'[i].timeout = (left[p] - 1) + Slack
    BY SMTT(40), <1>2, <1>4, <2>1, <2>3 DEF NotWaiting, Slack
  <2> QED
    BY <1>4, <2>1, <2>4 DEF Holds
<1> QED
  BY <1>3, <1>5, <1>6, <1>7, InvPartsNext DEF Inv

LEMMA InvHolds == WaitingSpec => []Inv
<1>1. WaitingInit => Inv
  <2> SUFFICES ASSUME WaitingInit PROVE Inv
    OBVIOUS
  <2>1. <<>> \in Seq(Entry)
    BY EmptySeq
  <2>2. WaitingTypeOK
    BY <2>1, PlayersAssumption DEF WaitingInit, WaitingTypeOK, NotWaiting, Slack, GetTime
  <2>3. DOMAIN waitList = {}
    BY DEF WaitingInit
  <2> QED
    BY <2>2, <2>3, FS_EmptySet DEF WaitingInit, Inv, OnePlaceEach, PremiumsFirst, PromiseKept
<1>2. Inv /\ [WaitingNext]_waitingVars => Inv'
  <2> SUFFICES ASSUME Inv, [WaitingNext]_waitingVars PROVE Inv'
    OBVIOUS
  <2>1. ASSUME NEW p \in Players, Login(p) PROVE Inv'
    BY <2>1, LoginKeeps
  <2>2. ASSUME NEW p \in Players, Logout(p) PROVE Inv'
    <3>1. IsFiniteSet(online')
      BY <2>2, FS_RemoveElement DEF Inv, Logout
    <3> QED
      BY <2>2, <3>1 DEF Inv, Logout, WaitingTypeOK, OnePlaceEach, PremiumsFirst, PromiseKept
  <2>3. ASSUME NEW p \in Players, PremiumChanges(p) PROVE Inv'
    BY <2>3 DEF Inv, PremiumChanges, WaitingTypeOK, OnePlaceEach, PremiumsFirst, PromiseKept
  <2>4. CASE Tick
    BY <2>4, TickKeeps
  <2>5. CASE UNCHANGED waitingVars
    BY <2>5 DEF waitingVars, Inv, WaitingTypeOK, OnePlaceEach, PremiumsFirst, PromiseKept
  <2> QED
    BY <2>1, <2>2, <2>3, <2>4, <2>5 DEF WaitingNext
<1> QED
  BY <1>1, <1>2, PTL DEF WaitingSpec

(* What a client was told keeps its place: the entry of a client whose       *)
(* countdown runs, or ended less than fifteen seconds ago, is in the list    *)
(* and agrees with the countdown (waitlist.cpp:66-71, 107, 112).             *)
THEOREM PromisesKept == WaitingSpec => []PromiseKept
BY InvHolds, PTL DEF Inv

(* Nobody has two places, whatever mixture of early, late and repeated       *)
(* attempts it makes, and those who queued with premium time come first      *)
(* (waitlist.cpp:66-98).                                                     *)
THEOREM ListInOrder == WaitingSpec => [](WaitingTypeOK /\ OnePlaceEach /\ PremiumsFirst)
BY InvHolds, PTL DEF Inv

-----------------------------------------------------------------------------
(* Nobody is overtaken.                                                      *)

LEMMA SlotOfPlace ==
  ASSUME NEW list \in Seq(Entry), Single(list), NEW i \in 1 .. Len(list)
  PROVE  Slot(list, list[i].name) = i
<1>1. Len(list) \in Nat
  BY LenProperties
<1>2. /\ Slot(list, list[i].name) \in 0 .. Len(list)
      /\ Slot(list, list[i].name) # 0 =>
            list[Slot(list, list[i].name)].name = list[i].name
      /\ Slot(list, list[i].name) # 0
  BY SlotFacts
<1>3. Slot(list, list[i].name) \in 1 .. Len(list)
  BY <1>1, <1>2
<1> QED
  BY <1>2, <1>3 DEF Single

(* Of those that stay when p leaves the list, only the ones before its place *)
(* in the cleaned list stood before it in the old one.                       *)
LEMMA AheadAreBefore ==
  ASSUME NEW list \in Seq(Entry), Single(list), NEW p,
         NEW slot, slot = Slot(Cleaned(list), p), slot # 0
  PROVE  LET new == RemoveAt(Cleaned(list), slot)
         IN  /\ slot \in Nat /\ Slot(list, p) # 0
             /\ \A i \in DOMAIN new :
                   Slot(list, new[i].name) < Slot(list, p) => i \in 1 .. slot - 1
<1> DEFINE c == Cleaned(list)
           new == RemoveAt(c, slot)
<1>1. PICK g : Keeps(list, c, Len(list), g)
  BY CleanedKeeps
<1>2. c \in Seq(Entry) /\ Len(c) \in Nat
  BY <1>1, LenProperties DEF Keeps
<1>3. slot \in 1 .. Len(c) /\ c[slot].name = p
  <2>1. slot = Slot(c, p)
    OBVIOUS
  <2> HIDE DEF c
  <2>2. slot \in 0 .. Len(c) /\ c[slot].name = p
    BY <1>2, <2>1, SlotFacts
  <2> QED
    BY <1>2, <2>2
<1> HIDE DEF c
<1>4. /\ new \in Seq(Entry) /\ DOMAIN new = 1 .. Len(c) - 1
      /\ \A i \in 1 .. Len(c) - 1 : new[i] = IF i < slot THEN c[i] ELSE c[i + 1]
  BY <1>2, <1>3, RemoveFacts, LenProperties
<1> HIDE DEF new
<1>5. ASSUME NEW m \in 1 .. Len(c)
      PROVE  Slot(list, c[m].name) = g[m] /\ g[m] \in Nat \ {0}
  <2>1. g[m] \in 1 .. Len(list) /\ c[m] = list[g[m]]
    BY <1>1, <1>5 DEF Keeps
  <2>2. Slot(list, list[g[m]].name) = g[m]
    BY <2>1, SlotOfPlace
  <2> QED
    BY <2>1, <2>2
<1>6. Slot(list, p) = g[slot] /\ Slot(list, p) # 0
  BY <1>3, <1>5
<1>7. ASSUME NEW i \in DOMAIN new, Slot(list, new[i].name) < Slot(list, p)
      PROVE  i \in 1 .. slot - 1
  <2>1. SUFFICES ASSUME ~ (i < slot) PROVE FALSE
    BY <1>2, <1>3, <1>4
  <2>2. i + 1 \in 1 .. Len(c) /\ slot < i + 1 /\ new[i] = c[i + 1]
    BY <1>2, <1>3, <1>4, <2>1
  <2>3. g[slot] < g[i + 1]
    BY <1>1, <1>3, <2>2 DEF Keeps
  <2>4. Slot(list, new[i].name) = g[i + 1] /\ g[i + 1] \in Nat /\ g[slot] \in Nat
    BY <1>3, <1>5, <2>2
  <2> QED
    BY <1>6, <1>7, <2>3, <2>4
<1>8. slot \in Nat
  BY <1>3
<1> QED
  BY <1>6, <1>7, <1>8 DEF new, c

LEMMA EntersInOrder ==
  ASSUME Inv, [WaitingNext]_waitingVars, NEW p \in online' \ online, Ordinary(p)
  PROVE  Cardinality(online') + Cardinality(Ahead(p)) <= MaxPlayers
<1>1. PICK q \in Players : Login(q)
  BY DEF WaitingNext, waitingVars, Logout, PremiumChanges, Tick
<1>2. /\ waitList \in Seq(Entry) /\ Single(waitList)
      /\ IsFiniteSet(online) /\ Cardinality(online) \in Nat
  BY InvParts, FS_CardinalityType DEF Inv, WaitingTypeOK
<1>3. ~ TurnedAway(q)
  BY DEF TurnedAway
<1>4. Enter(q)
  BY <1>1, <1>3 DEF Login, Pass, Return, Queue
<1>5. q = p /\ online' = online \cup {p}
  BY <1>4 DEF Enter
<1>6. Cardinality(online') = Cardinality(online) + 1
  BY <1>2, <1>5, FS_AddElement
<1>7. CASE Pass(p)
  <2>1. waitList = <<>> /\ waitList' = <<>> /\ Cardinality(online) < MaxPlayers
    BY <1>7 DEF Pass, Ordinary, Skips, NoNeedToWait
  <2>2. Slot(waitList, p) = 0
    BY <2>1 DEF Slot
  <2>3. Ahead(p) = {}
    BY <2>1, <2>2 DEF Ahead
  <2>4. Cardinality(Ahead(p)) = 0
    BY <2>3, FS_EmptySet
  <2> QED
    BY <1>2, <1>6, <2>1, <2>4, MaxPlayersAssumption
<1>8. CASE Return(p)
  <2> DEFINE slot == Slot(Cleaned(waitList), p)
  <2>1. /\ slot # 0 /\ ~ MustWait(slot)
        /\ waitList' = RemoveAt(Cleaned(waitList), slot)
    BY <1>3, <1>5, <1>8 DEF Return
  <2>2. /\ slot \in Nat /\ Slot(waitList, p) # 0
        /\ \A i \in DOMAIN waitList' :
              Slot(waitList, waitList'[i].name) < Slot(waitList, p) => i \in 1 .. slot - 1
    BY <1>2, <2>1, AheadAreBefore
  <2> HIDE DEF slot
  <2>3. Ahead(p) \subseteq 1 .. slot - 1
    BY <2>2 DEF Ahead
  <2>4. IsFiniteSet(1 .. slot - 1) /\ Cardinality(1 .. slot - 1) = slot - 1
    BY SMTT(40), <2>1, <2>2, FS_Interval
  <2>5. Cardinality(Ahead(p)) \in Nat /\ Cardinality(Ahead(p)) <= slot - 1
    BY <2>3, <2>4, FS_Subset, FS_CardinalityType
  <2>6. Cardinality(online) + slot <= MaxPlayers
    BY <1>2, <2>1, <2>2, MaxPlayersAssumption DEF MustWait
  <2> QED
    BY <1>2, <1>6, <2>2, <2>5, <2>6, MaxPlayersAssumption
<1> QED
  BY <1>1, <1>3, <1>5, <1>7, <1>8 DEF Login, Queue

(* An ordinary player is let in only if, with it, there is a seat left for   *)
(* every entry that stood before its own (waitlist.cpp:59, 69).              *)
THEOREM NobodyOvertaken == WaitingSpec => NoOvertaking
<1>1. Inv /\ [WaitingNext]_waitingVars =>
        [\A p \in online' \ online :
            Ordinary(p) => Cardinality(online') + Cardinality(Ahead(p)) <= MaxPlayers]_waitingVars
  BY EntersInOrder
<1> QED
  BY <1>1, InvHolds, PTL DEF WaitingSpec, NoOvertaking
=============================================================================
