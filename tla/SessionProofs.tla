----------------------------- MODULE SessionProofs -----------------------------
(* The pointers of the sessions, proved for any number of connections and any *)
(* players; and the properties of Scheduler, for any events, callers, delays  *)
(* and ids, with the proof that it implements Timers.                         *)
(*                                                                            *)
(* PointersLive and OneController are not inductive.  What keeps a task from  *)
(* finding its protocol deleted is the queue: nothing that the service        *)
(* threads queue follows the close task of a protocol, a protocol has one     *)
(* release and one connect on their way at most, and the latter holds its     *)
(* m_refCount (QueueSound).  What keeps the pointers of a Spectators object   *)
(* right is that a protocol either watches or plays, and is taken out of the  *)
(* object when it is released (WorldSound).  Both are stated of any           *)
(* protocols, players and queues, so that a handler is proved in the steps it *)
(* takes: close clients, remove the player, detach the protocol, clean up.    *)
(*                                                                            *)
(* EventInv ties the three records of an event together: m_eventList, the     *)
(* ids of m_eventIds, and what stopEvent has told its caller.  SleepInv       *)
(* follows the deadline of the thread from the moment it goes to sleep.       *)
EXTENDS Session, Scheduler, TLAPS, FiniteSetTheorems, SequenceTheorems

Fresh  == {"login", "spectate"}
Urgent == Fresh \cup {"logout", "disconnect"}
Timed  == {"release", "connect"}

Jobs == [kind : Urgent \cup {"close"} \cup Timed, p : Protocols, id : Players \cup {NoPlayer}]

ProtocolRecords ==
  [conn : {"none", "open", "closing", "released", "deleted"}, player : Players \cup {NoPlayer},
   watch : BOOLEAN, accept : BOOLEAN, event : BOOLEAN, refs : 0 .. 1]

PlayerRecords ==
  [stage : {"none", "new", "world", "removed", "deleted"},
   owner : Protocols \cup {NoProtocol}, spectators : SUBSET Watchers,
   broadcast : BOOLEAN, connecting : BOOLEAN, refs : Nat, freed : Nat,
   checked : BOOLEAN, inVector : BOOLEAN]

ProtTyped(pr) == pr \in [Protocols -> ProtocolRecords]
PlrTyped(pl)  == pl \in [Players -> PlayerRecords]

(* What is so while a task or an event is on its way. *)
Sane(pr, t) ==
  LET c == pr[t.p] IN
  /\ t.kind \in Urgent => c.conn \in {"open", "closing"}
  /\ t.kind \in Fresh => c.player = NoPlayer /\ ~c.watch /\ ~c.accept /\ c.refs = 0
  /\ t.kind = "spectate" => t.p \in Watchers
  /\ t.kind = "logout" => c.accept /\ ~c.watch
  /\ t.kind = "close" => c.conn = "closing"
  /\ t.kind = "release" => c.conn = "released"
  /\ t.kind = "connect" => /\ c.conn \in {"open", "closing", "released"}
                           /\ c.player = NoPlayer /\ ~c.watch /\ c.refs = 1 /\ t.id \in Players

(* Two tasks of one protocol of which the second never waits with the first. *)
Clash(t, u) ==
  /\ t.p = u.p
  /\ \/ t.kind \in Fresh /\ u.kind \in Fresh
     \/ t.kind = u.kind /\ t.kind \in Timed \cup {"close"}
     \/ t.kind = "close" /\ u.kind \in Urgent

ClashFree(s) == \A i, j \in 1 .. Len(s) : i < j => ~Clash(s[i], s[j])

Apart(s, t) == \A i \in 1 .. Len(s), j \in 1 .. Len(t) : ~Clash(s[i], t[j])

QueueSound(pr, ts, tm) ==
  /\ ts \in Seq(Jobs) /\ tm \in Seq(Jobs)
  /\ \A i \in 1 .. Len(ts) : Sane(pr, ts[i])
  /\ \A i \in 1 .. Len(tm) : Sane(pr, tm[i]) /\ tm[i].kind \in Timed
  /\ ClashFree(ts) /\ ClashFree(tm) /\ Apart(ts, tm)

Users(pr, y) == {p \in Protocols : pr[p].player = y}

There(r) == r.stage \notin {"none", "deleted"}

\* What the protocols point to ...
Bound(pr, pl) ==
  \A p \in Protocols :
    /\ pr[p].conn = "none" =>
         pr[p].player = NoPlayer /\ ~pr[p].watch /\ ~pr[p].accept /\ pr[p].refs = 0
    /\ pr[p].player # NoPlayer => There(pl[pr[p].player])
    /\ ~pr[p].watch /\ pr[p].player # NoPlayer /\ pr[p].conn \in {"open", "closing"} =>
         pl[pr[p].player].owner = p

\* ... what points to the protocols, ...
Held(pr, pl) ==
  \A y \in Players :
    /\ \A p \in pl[y].spectators :
         pr[p].watch /\ pr[p].player = y /\ pr[p].conn \in {"open", "closing"}
    /\ pl[y].owner # NoProtocol =>
         /\ ~pr[pl[y].owner].watch /\ pr[pl[y].owner].player = y
         /\ pr[pl[y].owner].conn \in {"open", "closing", "released"}
    /\ pl[y].spectators # {} => pl[y].stage = "world" /\ pl[y].broadcast

\* ... and how often.
Counted(pr, pl) ==
  \A y \in Players :
    /\ ~There(pl[y]) => pl[y].refs = 0 /\ pl[y].freed = 0 /\ ~pl[y].inVector
    /\ There(pl[y]) =>
         pl[y].refs = Cardinality(Users(pr, y)) + pl[y].freed
                      + (IF pl[y].stage = "world" THEN 1 ELSE 0)
                      + (IF pl[y].inVector THEN 1 ELSE 0)

WorldSound(pr, pl) == Bound(pr, pl) /\ Held(pr, pl) /\ Counted(pr, pl)

Good(pr, pl, ts, tm) ==
  ProtTyped(pr) /\ PlrTyped(pl) /\ QueueSound(pr, ts, tm) /\ WorldSound(pr, pl)

IInv == Good(prot, plr, tasks, timers)

--------------------------------------------------------------------------------
(* The queues *)

LEMMA QueueTail ==
  ASSUME NEW pr, NEW ts, NEW tm, QueueSound(pr, ts, tm), ts # <<>>
  PROVE  /\ QueueSound(pr, Tail(ts), tm)
         /\ Head(ts) \in Jobs /\ Sane(pr, Head(ts))
         /\ \A i \in 1 .. Len(Tail(ts)) : ~Clash(Head(ts), Tail(ts)[i])
         /\ \A i \in 1 .. Len(tm) : ~Clash(Head(ts), tm[i])
<1>1. /\ Len(ts) \in Nat \ {0} /\ ts[1] \in Jobs /\ Head(ts) = ts[1]
      /\ Tail(ts) \in Seq(Jobs) /\ Len(Tail(ts)) = Len(ts) - 1
      /\ \A i \in 1 .. Len(ts) - 1 : Tail(ts)[i] = ts[i + 1]
  <2>1. ts \in Seq(Jobs)
    BY DEF QueueSound
  <2>2. Len(ts) \in Nat /\ Len(ts) # 0
    BY <2>1, LenProperties, EmptySeq
  <2>3. 1 \in 1 .. Len(ts)
    BY <2>2
  <2> QED
    BY <2>1, <2>2, <2>3, HeadTailProperties, ElementOfSeq
<1> DEFINE h == Head(ts)
           rest == Tail(ts)
<1>2. \A i \in 1 .. Len(rest) : i + 1 \in 1 .. Len(ts) /\ rest[i] = ts[i + 1]
  BY <1>1
<1>3. 1 \in 1 .. Len(ts) /\ \A i \in 1 .. Len(rest) : 1 < i + 1
  BY <1>1
<1>4. \A i, j \in 1 .. Len(rest) : i < j => i + 1 < j + 1
  BY <1>1
<1>5. h = ts[1] /\ h \in Jobs /\ rest \in Seq(Jobs)
  BY <1>1
<1> HIDE DEF h, rest
<1>6. \A i \in 1 .. Len(rest) : ~Clash(h, rest[i])
  BY <1>2, <1>3, <1>5 DEF QueueSound, ClashFree
<1>7. \A i \in 1 .. Len(tm) : ~Clash(h, tm[i])
  BY <1>3, <1>5 DEF QueueSound, Apart
<1>8. Sane(pr, h)
  BY <1>3, <1>5 DEF QueueSound
<1>9. QueueSound(pr, rest, tm)
  <2>1. ClashFree(rest)
    BY <1>2, <1>4 DEF QueueSound, ClashFree
  <2>2. Apart(rest, tm)
    BY <1>2 DEF QueueSound, Apart
  <2>3. \A i \in 1 .. Len(rest) : Sane(pr, rest[i])
    BY <1>2 DEF QueueSound
  <2> QED
    BY <1>5, <2>1, <2>2, <2>3 DEF QueueSound
<1> QED
  BY <1>5, <1>6, <1>7, <1>8, <1>9 DEF h, rest

LEMMA QueueMore ==
  ASSUME NEW pr, NEW ts, NEW tm, QueueSound(pr, ts, tm), NEW q \in Seq(Jobs),
         \A i \in 1 .. Len(q) : Sane(pr, q[i]), ClashFree(q), Apart(ts, q), Apart(q, tm)
  PROVE  QueueSound(pr, ts \o q, tm)
<1> DEFINE s == ts \o q
<1>1. /\ s \in Seq(Jobs) /\ Len(s) = Len(ts) + Len(q)
      /\ Len(ts) \in Nat /\ Len(q) \in Nat
      /\ \A i \in 1 .. Len(ts) + Len(q) : s[i] = IF i <= Len(ts) THEN ts[i] ELSE q[i - Len(ts)]
  BY ConcatProperties, LenProperties DEF QueueSound
<1> HIDE DEF s
<1>2. ASSUME NEW i \in 1 .. Len(s)
      PROVE  \/ i \in 1 .. Len(ts) /\ s[i] = ts[i]
             \/ /\ i > Len(ts) /\ i - Len(ts) \in 1 .. Len(q)
                /\ s[i] = q[i - Len(ts)]
  BY <1>1
<1>3. \A i \in 1 .. Len(s) : Sane(pr, s[i])
  BY <1>2 DEF QueueSound
<1>4. Apart(s, tm)
  BY <1>2 DEF QueueSound, Apart
<1>5. ClashFree(s)
  <2> SUFFICES ASSUME NEW i \in 1 .. Len(s), NEW j \in 1 .. Len(s), i < j
               PROVE  ~Clash(s[i], s[j])
    BY DEF ClashFree
  <2>1. CASE j \in 1 .. Len(ts) /\ s[j] = ts[j]
    <3>1. i \in 1 .. Len(ts) /\ s[i] = ts[i]
      BY <1>1, <1>2, <2>1
    <3> QED
      BY <2>1, <3>1 DEF QueueSound, ClashFree
  <2>2. CASE j > Len(ts) /\ j - Len(ts) \in 1 .. Len(q) /\ s[j] = q[j - Len(ts)]
    <3>1. CASE i \in 1 .. Len(ts) /\ s[i] = ts[i]
      BY <2>2, <3>1 DEF Apart
    <3>2. CASE i > Len(ts) /\ i - Len(ts) \in 1 .. Len(q) /\ s[i] = q[i - Len(ts)]
      <4>1. i - Len(ts) < j - Len(ts)
        BY <1>1
      <4> QED
        BY <2>2, <3>2, <4>1 DEF ClashFree
    <3> QED
      BY <1>2, <3>1, <3>2
  <2> QED
    BY <1>2, <2>1, <2>2
<1>6. QueueSound(pr, s, tm)
  BY <1>1, <1>3, <1>4, <1>5 DEF QueueSound
<1> QED
  BY <1>6 DEF s

LEMMA QueueAppend ==
  ASSUME NEW pr, NEW ts, NEW tm, QueueSound(pr, ts, tm), NEW t \in Jobs, Sane(pr, t),
         \A i \in 1 .. Len(ts) : ~Clash(ts[i], t), \A i \in 1 .. Len(tm) : ~Clash(t, tm[i])
  PROVE  QueueSound(pr, Append(ts, t), tm)
<1> DEFINE q == <<t>>
<1>1. q \in Seq(Jobs) /\ Len(q) = 1 /\ q[1] = t
  OBVIOUS
<1>2. Append(ts, t) = ts \o q
  BY AppendIsConcat DEF QueueSound
<1> HIDE DEF q
<1>3. \A i \in 1 .. Len(q) : q[i] = t
  BY <1>1
<1>4. ClashFree(q)
  BY <1>1 DEF ClashFree
<1>5. Apart(ts, q) /\ Apart(q, tm)
  BY <1>3 DEF Apart
<1>6. \A i \in 1 .. Len(q) : Sane(pr, q[i])
  BY <1>3
<1> QED
  BY <1>1, <1>2, <1>4, <1>5, <1>6, QueueMore

LEMMA QueueTimer ==
  ASSUME NEW pr, NEW ts, NEW tm, QueueSound(pr, ts, tm), NEW t \in Jobs, Sane(pr, t),
         t.kind \in Timed,
         \A i \in 1 .. Len(ts) : ~Clash(ts[i], t), \A i \in 1 .. Len(tm) : ~Clash(tm[i], t)
  PROVE  QueueSound(pr, ts, Append(tm, t))
<1> DEFINE s == Append(tm, t)
<1>1. /\ s \in Seq(Jobs) /\ Len(s) = Len(tm) + 1 /\ Len(tm) \in Nat
      /\ \A i \in 1 .. Len(tm) : s[i] = tm[i]
      /\ s[Len(tm) + 1] = t
  BY AppendProperties, LenProperties DEF QueueSound
<1> HIDE DEF s
<1>2. \A i \in 1 .. Len(s) : \/ i \in 1 .. Len(tm) /\ s[i] = tm[i]
                             \/ i = Len(tm) + 1 /\ s[i] = t
  BY <1>1
<1>3. \A i \in 1 .. Len(s) : Sane(pr, s[i]) /\ s[i].kind \in Timed
  BY <1>2 DEF QueueSound
<1>4. Apart(ts, s)
  BY <1>2 DEF QueueSound, Apart
<1>5. ClashFree(s)
  <2> SUFFICES ASSUME NEW i \in 1 .. Len(s), NEW j \in 1 .. Len(s), i < j
               PROVE  ~Clash(s[i], s[j])
    BY DEF ClashFree
  <2>1. i \in 1 .. Len(tm) /\ s[i] = tm[i]
    BY <1>1
  <2> QED
    BY <1>2, <2>1 DEF QueueSound, ClashFree
<1>6. QueueSound(pr, ts, s)
  BY <1>1, <1>3, <1>4, <1>5 DEF QueueSound
<1> QED
  BY <1>6 DEF s

(* An event becomes a task. *)
LEMMA QueueFires ==
  ASSUME NEW pr, NEW ts, NEW tm, QueueSound(pr, ts, tm), NEW k \in 1 .. Len(tm)
  PROVE  QueueSound(pr, Append(ts, tm[k]), SubSeq(tm, 1, k - 1) \o SubSeq(tm, k + 1, Len(tm)))
<1> DEFINE a == SubSeq(tm, 1, k - 1)
           b == SubSeq(tm, k + 1, Len(tm))
           s == a \o b
           old == [i \in 1 .. Len(tm) - 1 |-> IF i < k THEN i ELSE i + 1]
<1>1. tm \in Seq(Jobs) /\ Len(tm) \in Nat /\ \A i \in 1 .. Len(tm) : tm[i] \in Jobs
  BY LenProperties, ElementOfSeq DEF QueueSound
<1>2. a \in Seq(Jobs) /\ Len(a) = k - 1 /\ \A i \in 1 .. k - 1 : a[i] = tm[i]
  <2>1. \A i \in 1 .. k - 1 : tm[i] \in Jobs
    BY <1>1
  <2>2. /\ a \in Seq(Jobs) /\ Len(a) = IF 1 <= k - 1 THEN (k - 1) - 1 + 1 ELSE 0
        /\ \A i \in 1 .. (k - 1) - 1 + 1 : a[i] = tm[1 + i - 1]
    BY <1>1, <2>1, SubSeqProperties
  <2> HIDE DEF a
  <2> QED
    BY <1>1, <2>2
<1>3. /\ b \in Seq(Jobs) /\ Len(b) = Len(tm) - k
      /\ \A i \in 1 .. Len(tm) - k : b[i] = tm[k + i]
  <2>1. \A i \in k + 1 .. Len(tm) : tm[i] \in Jobs
    BY <1>1
  <2>2. /\ b \in Seq(Jobs) /\ Len(b) = IF k + 1 <= Len(tm) THEN Len(tm) - (k + 1) + 1 ELSE 0
        /\ \A i \in 1 .. Len(tm) - (k + 1) + 1 : b[i] = tm[(k + 1) + i - 1]
    BY <1>1, <2>1, SubSeqProperties
  <2> HIDE DEF b
  <2>3. \A i \in 1 .. Len(tm) - k : (k + 1) + i - 1 = k + i
    BY <1>1
  <2> QED
    BY <1>1, <2>2, <2>3
<1> HIDE DEF a, b
<1>4. /\ s \in Seq(Jobs) /\ Len(s) = Len(a) + Len(b)
      /\ \A i \in 1 .. Len(a) + Len(b) : s[i] = IF i <= Len(a) THEN a[i] ELSE b[i - Len(a)]
  BY <1>2, <1>3, ConcatProperties
<1> HIDE DEF s
<1>5. ASSUME NEW i \in 1 .. Len(s)
      PROVE  /\ old[i] \in 1 .. Len(tm) /\ old[i] # k /\ s[i] = tm[old[i]]
             /\ \A j \in 1 .. Len(s) : i < j => old[i] < old[j]
  <2>1. Len(s) = Len(tm) - 1 /\ s[i] = IF i <= k - 1 THEN a[i] ELSE b[i - (k - 1)]
    <3>1. Len(a) = k - 1 /\ Len(b) = Len(tm) - k /\ Len(s) = Len(a) + Len(b)
      BY <1>2, <1>3, <1>4
    <3>2. Len(a) + Len(b) = Len(tm) - 1
      BY <1>1, <3>1
    <3>3. i \in 1 .. Len(a) + Len(b)
      BY <3>1
    <3>4. s[i] = IF i <= Len(a) THEN a[i] ELSE b[i - Len(a)]
      BY <1>4, <3>3
    <3> QED
      BY <3>1, <3>2, <3>4
  <2>2. CASE i < k
    BY <1>1, <1>2, <2>1, <2>2
  <2>3. CASE ~(i < k)
    <3>1. i - (k - 1) \in 1 .. Len(tm) - k /\ k + (i - (k - 1)) = i + 1
      BY <1>1, <2>1, <2>3
    <3>2. s[i] = tm[i + 1]
      BY <1>1, <1>3, <2>1, <2>3, <3>1
    <3> QED
      BY <1>1, <2>1, <2>3, <3>2
  <2> QED
    BY <2>2, <2>3
<1> HIDE DEF old
<1>6. \A i \in 1 .. Len(tm) : i # k => ~Clash(tm[k], tm[i]) /\ ~Clash(tm[i], tm[k])
  <2>1. \A i \in 1 .. Len(tm) : tm[i].kind \in Timed
    BY DEF QueueSound
  <2>2. \A i, j \in 1 .. Len(tm) : Clash(tm[i], tm[j]) => Clash(tm[j], tm[i])
    BY <2>1 DEF Clash, Timed, Fresh, Urgent
  <2>3. \A i \in 1 .. Len(tm) : i # k => i < k \/ k < i
    BY <1>1
  <2> QED
    BY <2>2, <2>3 DEF QueueSound, ClashFree
<1>7. QueueSound(pr, ts, s)
  <2>1. \A i \in 1 .. Len(s) : Sane(pr, s[i]) /\ s[i].kind \in Timed
    BY <1>5 DEF QueueSound
  <2>2. ClashFree(s)
    BY <1>5 DEF QueueSound, ClashFree
  <2>3. Apart(ts, s)
    BY <1>5 DEF QueueSound, Apart
  <2> QED
    BY <1>4, <2>1, <2>2, <2>3 DEF QueueSound
<1>8. \A i \in 1 .. Len(ts) : ~Clash(ts[i], tm[k])
  BY DEF QueueSound, Apart
<1>9. \A i \in 1 .. Len(s) : ~Clash(tm[k], s[i])
  BY <1>5, <1>6
<1>10. Sane(pr, tm[k]) /\ tm[k] \in Jobs
  BY <1>1 DEF QueueSound
<1>11. QueueSound(pr, Append(ts, tm[k]), s)
  BY <1>7, <1>8, <1>9, <1>10, QueueAppend
<1> QED
  BY <1>11 DEF s, a, b

(* A handler that changes the protocol p only. *)
LEMMA QueueOther ==
  ASSUME NEW pr, NEW ts, NEW tm, QueueSound(pr, ts, tm), NEW p \in Protocols, NEW pr2,
         \A r \in Protocols \ {p} : pr2[r] = pr[r],
         \A i \in 1 .. Len(ts) : ts[i].p = p => Sane(pr2, ts[i]),
         \A i \in 1 .. Len(tm) : tm[i].p = p => Sane(pr2, tm[i])
  PROVE  QueueSound(pr2, ts, tm)
<1>1. ASSUME NEW t \in Jobs, t.p # p, Sane(pr, t)
      PROVE  Sane(pr2, t)
  <2>1. pr2[t.p] = pr[t.p]
    BY <1>1 DEF Jobs
  <2> QED
    BY <1>1, <2>1 DEF Sane
<1>2. (\A i \in 1 .. Len(ts) : ts[i] \in Jobs) /\ (\A i \in 1 .. Len(tm) : tm[i] \in Jobs)
  BY ElementOfSeq DEF QueueSound
<1> QED
  BY <1>1, <1>2 DEF QueueSound

--------------------------------------------------------------------------------
(* Clients are closed *)

LEMMA LeastOf ==
  ASSUME NEW S \in SUBSET Nat, S # {}
  PROVE  \E x \in S : \A y \in S : x <= y
<1> DEFINE R == OpToRel(<, Nat)
<1>1. IsWellFoundedOn(R, Nat)
  BY NatLessThanWellFounded
<1> HIDE DEF R
<1>2. PICK x \in S : \A y \in S : ~(<<y, x>> \in R)
  BY <1>1, WFMin
<1>3. \A y \in S : ~(y < x)
  BY <1>2 DEF R, OpToRel
<1> QED
  BY <1>3

LEMMA NatInductionOnSets ==
  ASSUME NEW S \in SUBSET Nat, 0 \in S, \A n \in S : n + 1 \in S
  PROVE  S = Nat
<1>1. SUFFICES ASSUME Nat \ S # {} PROVE FALSE
  OBVIOUS
<1>2. PICK x \in Nat \ S : \A y \in Nat \ S : x <= y
  BY <1>1, LeastOf
<1>3. x # 0 /\ x - 1 \in Nat /\ ~(x <= x - 1) /\ (x - 1) + 1 = x
  BY SMT
<1>4. x - 1 \in S
  BY <1>2, <1>3
<1> QED
  BY <1>3, <1>4

UpToStep(S, f, p) ==
  IF p = 0 THEN <<>>
  ELSE IF p \in S /\ prot[p].conn = "open" THEN Append(f[p - 1], Task("close", p))
  ELSE f[p - 1]

(* The equation of Closes has a solution. *)
LEMMA UpToExists ==
  ASSUME NEW S
  PROVE  \A n \in Nat : \E f : f = [p \in 0 .. n |-> UpToStep(S, f, p)]
<1> DEFINE M == {n \in Nat : \E f : f = [p \in 0 .. n |-> UpToStep(S, f, p)]}
<1>1. 0 \in M
  <2> DEFINE f == [p \in 0 .. 0 |-> <<>>]
  <2>1. f = [p \in 0 .. 0 |-> UpToStep(S, f, p)]
    BY DEF UpToStep
  <2> QED
    BY <2>1
<1>2. \A n \in M : n + 1 \in M
  <2> TAKE n \in M
  <2>1. PICK f : f = [p \in 0 .. n |-> UpToStep(S, f, p)]
    OBVIOUS
  <2> DEFINE g == [p \in 0 .. n + 1 |-> UpToStep(S, f, p)]
  <2>2. \A p \in 0 .. n : g[p] = f[p]
    <3> HIDE DEF g
    <3>1. \A p \in 0 .. n : g[p] = UpToStep(S, f, p)
      BY DEF g
    <3>2. \A p \in 0 .. n : f[p] = UpToStep(S, f, p)
      BY <2>1
    <3> QED
      BY <3>1, <3>2
  <2>3. \A p \in 0 .. n + 1 : UpToStep(S, f, p) = UpToStep(S, g, p)
    <3> HIDE DEF g
    <3> TAKE p \in 0 .. n + 1
    <3>1. CASE p = 0
      BY <3>1 DEF UpToStep
    <3>2. CASE p # 0
      <4>1. p - 1 \in 0 .. n
        BY <3>2
      <4> QED
        BY <4>1, <2>2, <3>2 DEF UpToStep
    <3> QED
      BY <3>1, <3>2
  <2>4. g = [p \in 0 .. n + 1 |-> UpToStep(S, g, p)]
    <3> HIDE DEF g
    <3>1. g = [p \in 0 .. n + 1 |-> UpToStep(S, f, p)]
      BY DEF g
    <3> QED
      BY <3>1, <2>3, Zenon
  <2> HIDE DEF g
  <2>5. n + 1 \in Nat
    OBVIOUS
  <2> QED
    BY <2>4, <2>5
<1> HIDE DEF M
<1>3. M = Nat
  <2>1. M \in SUBSET Nat
    BY DEF M
  <2> QED
    BY <1>1, <1>2, <2>1, NatInductionOnSets
<1> QED
  BY <1>3 DEF M

(* q holds one close task for some protocols of S that are open. *)
Farewell(S, q) ==
  /\ q \in Seq(Jobs)
  /\ \A i \in 1 .. Len(q) : /\ q[i].kind = "close" /\ q[i].p \in S \cap Protocols
                           /\ prot[q[i].p].conn = "open"
  /\ \A i, j \in 1 .. Len(q) : q[i].p = q[j].p => i = j

LEMMA FarewellOneMore ==
  ASSUME NEW S, NEW q, NEW p \in Protocols, Farewell(S, q), prot[p].conn = "open", p \in S,
         \A i \in 1 .. Len(q) : q[i].p # p
  PROVE  Farewell(S, Append(q, Task("close", p)))
<1> DEFINE t == Task("close", p)
           s == Append(q, t)
<1>1. t \in Jobs /\ t.kind = "close" /\ t.p = p
  BY DEF Task, Jobs, Timed, Fresh, Urgent
<1> HIDE DEF t
<1>2. /\ s \in Seq(Jobs) /\ Len(s) = Len(q) + 1 /\ Len(q) \in Nat
      /\ \A i \in 1 .. Len(q) : s[i] = q[i]
      /\ s[Len(q) + 1] = t
  BY <1>1, AppendProperties, LenProperties DEF Farewell
<1> HIDE DEF s
<1>3. \A i \in 1 .. Len(s) : \/ i \in 1 .. Len(q) /\ s[i] = q[i]
                             \/ i = Len(q) + 1 /\ s[i] = t
  BY <1>2
<1>4. Farewell(S, s)
  BY <1>1, <1>2, <1>3 DEF Farewell
<1> QED
  BY <1>4 DEF s, t

LEMMA ClosesFarewell ==
  ASSUME NEW S
  PROVE  Farewell(S, Closes(S))
<1>1. N \in Nat
  BY SessionAssumption
<1>2. PICK f : f = [p \in 0 .. N |-> UpToStep(S, f, p)] /\ Closes(S) = f[N]
  <2> DEFINE k == CHOOSE f : f = [p \in 0 .. N |-> UpToStep(S, f, p)]
  <2>1. k = [p \in 0 .. N |-> UpToStep(S, k, p)]
    BY <1>1, UpToExists, Zenon
  <2>2. Closes(S) = k[N]
    BY DEF Closes, UpToStep
  <2> HIDE DEF k
  <2> QED
    BY <2>1, <2>2
<1>3. /\ f[0] = <<>>
      /\ \A n \in Nat : n + 1 <= N =>
            f[n + 1] = IF n + 1 \in S /\ prot[n + 1].conn = "open"
                       THEN Append(f[n], Task("close", n + 1)) ELSE f[n]
  <2>1. \A p \in 0 .. N : f[p] = UpToStep(S, f, p)
    BY <1>2
  <2>2. f[0] = <<>>
    BY <1>1, <2>1 DEF UpToStep
  <2>3. ASSUME NEW n \in Nat, n + 1 <= N
        PROVE  f[n + 1] = IF n + 1 \in S /\ prot[n + 1].conn = "open"
                          THEN Append(f[n], Task("close", n + 1)) ELSE f[n]
    <3>1. n + 1 \in 0 .. N /\ n + 1 # 0 /\ (n + 1) - 1 = n
      BY <1>1, <2>3
    <3>2. f[n + 1] = UpToStep(S, f, n + 1)
      BY <2>1, <3>1
    <3> QED
      BY <3>1, <3>2 DEF UpToStep
  <2> QED
    BY <2>2, <2>3
<1> DEFINE Fine(n) == Farewell(S, f[n]) /\ \A i \in 1 .. Len(f[n]) : f[n][i].p <= n
           M == {n \in Nat : n <= N => Fine(n)}
<1>4. 0 \in M
  <2>1. <<>> \in Seq(Jobs) /\ Len(<<>>) = 0
    BY EmptySeq
  <2>2. Fine(0)
    BY <1>3, <2>1 DEF Farewell
  <2> QED
    BY <2>2
<1>5. \A n \in M : n + 1 \in M
  <2> TAKE n \in M
  <2> SUFFICES ASSUME n + 1 <= N PROVE Fine(n + 1)
    OBVIOUS
  <2>1. Farewell(S, f[n]) /\ \A i \in 1 .. Len(f[n]) : f[n][i].p <= n
    BY <1>1
  <2>2. Len(f[n]) \in Nat /\ f[n] \in Seq(Jobs) /\ \A i \in 1 .. Len(f[n]) : f[n][i].p \in Nat
    BY <2>1, LenProperties DEF Farewell, Protocols
  <2>3. CASE n + 1 \in S /\ prot[n + 1].conn = "open"
    <3>1. n + 1 \in Protocols
      BY <1>1 DEF Protocols
    <3>2. f[n + 1] = Append(f[n], Task("close", n + 1))
      BY <1>3, <2>3
    <3>3. \A i \in 1 .. Len(f[n]) : f[n][i].p # n + 1
      BY <2>1, <2>2
    <3>4. Farewell(S, f[n + 1])
      BY <2>1, <2>3, <3>1, <3>2, <3>3, FarewellOneMore
    <3>5. Task("close", n + 1) \in Jobs /\ Task("close", n + 1).p = n + 1
      BY <3>1 DEF Task, Jobs, Timed, Fresh, Urgent
    <3>6. /\ Len(f[n + 1]) = Len(f[n]) + 1
          /\ \A i \in 1 .. Len(f[n]) : f[n + 1][i] = f[n][i]
          /\ f[n + 1][Len(f[n]) + 1] = Task("close", n + 1)
      BY <2>2, <3>2, <3>5, AppendProperties
    <3>7. ASSUME NEW i \in 1 .. Len(f[n + 1]) PROVE f[n + 1][i].p <= n + 1
      <4>1. CASE i \in 1 .. Len(f[n])
        BY SMTT(40), <2>1, <2>2, <3>6, <4>1
      <4>2. CASE i = Len(f[n]) + 1
        BY <3>5, <3>6, <4>2
      <4> QED
        BY <2>2, <3>6, <4>1, <4>2
    <3> QED
      BY <3>4, <3>7
  <2>4. CASE ~(n + 1 \in S /\ prot[n + 1].conn = "open")
    <3>1. f[n + 1] = f[n]
      BY <1>3, <2>4
    <3>2. \A i \in 1 .. Len(f[n]) : f[n][i].p <= n + 1
      BY <2>1, <2>2
    <3> QED
      BY <2>1, <3>1, <3>2
  <2> QED
    BY <2>3, <2>4
<1>6. M = Nat
  <2> HIDE DEF M
  <2>1. M \in SUBSET Nat
    BY DEF M
  <2> QED
    BY <1>4, <1>5, <2>1, NatInductionOnSets
<1>7. Fine(N)
  BY <1>1, <1>6
<1> QED
  BY <1>2, <1>7

LEMMA FarewellTwo ==
  ASSUME NEW S, NEW Q, NEW q, NEW r, Farewell(S, q), Farewell(Q, r),
         \A p \in S \cap Q \cap Protocols : prot[p].conn # "open"
  PROVE  Farewell(S \cup Q, q \o r)
<1> DEFINE s == q \o r
<1>1. /\ s \in Seq(Jobs) /\ Len(s) = Len(q) + Len(r) /\ Len(q) \in Nat /\ Len(r) \in Nat
      /\ \A i \in 1 .. Len(q) + Len(r) : s[i] = IF i <= Len(q) THEN q[i] ELSE r[i - Len(q)]
  BY ConcatProperties, LenProperties DEF Farewell
<1> HIDE DEF s
<1>2. ASSUME NEW i \in 1 .. Len(s)
      PROVE  \/ i \in 1 .. Len(q) /\ s[i] = q[i]
             \/ i > Len(q) /\ i - Len(q) \in 1 .. Len(r) /\ s[i] = r[i - Len(q)]
  BY <1>1
<1>3. ASSUME NEW i \in 1 .. Len(s), NEW j \in 1 .. Len(s), s[i].p = s[j].p
      PROVE  i = j
  <2>1. CASE i \in 1 .. Len(q) /\ s[i] = q[i]
    <3>1. CASE j \in 1 .. Len(q) /\ s[j] = q[j]
      BY <1>3, <2>1, <3>1 DEF Farewell
    <3>2. CASE j - Len(q) \in 1 .. Len(r) /\ s[j] = r[j - Len(q)]
      BY <1>3, <2>1, <3>2 DEF Farewell
    <3> QED
      BY <1>2, <3>1, <3>2
  <2>2. CASE i - Len(q) \in 1 .. Len(r) /\ s[i] = r[i - Len(q)]
    <3>1. CASE j \in 1 .. Len(q) /\ s[j] = q[j]
      BY SMTT(40), <1>3, <2>2, <3>1 DEF Farewell
    <3>2. CASE j - Len(q) \in 1 .. Len(r) /\ s[j] = r[j - Len(q)]
      <4>1. i - Len(q) = j - Len(q)
        BY <1>3, <2>2, <3>2 DEF Farewell
      <4> QED
        BY <1>1, <4>1
    <3> QED
      BY <1>2, <3>1, <3>2
  <2> QED
    BY <1>2, <2>1, <2>2
<1>4. ASSUME NEW i \in 1 .. Len(s)
      PROVE  /\ s[i].kind = "close" /\ s[i].p \in (S \cup Q) \cap Protocols
             /\ prot[s[i].p].conn = "open"
  <2>1. CASE i \in 1 .. Len(q) /\ s[i] = q[i]
    BY <2>1 DEF Farewell
  <2>2. CASE i - Len(q) \in 1 .. Len(r) /\ s[i] = r[i - Len(q)]
    BY <2>2 DEF Farewell
  <2> QED
    BY <1>2, <2>1, <2>2
<1>5. Farewell(S \cup Q, s)
  BY <1>1, <1>3, <1>4 DEF Farewell
<1> QED
  BY <1>5 DEF s

LEMMA ClosedFacts ==
  ASSUME NEW pr, ProtTyped(pr), NEW S
  PROVE  /\ ProtTyped(Closed(pr, S))
         /\ \A p \in Protocols :
              /\ Closed(pr, S)[p].player = pr[p].player
              /\ Closed(pr, S)[p].watch = pr[p].watch
              /\ Closed(pr, S)[p].accept = pr[p].accept
              /\ Closed(pr, S)[p].event = pr[p].event
              /\ Closed(pr, S)[p].refs = pr[p].refs
              /\ Closed(pr, S)[p].conn =
                    IF p \in S /\ pr[p].conn = "open" THEN "closing" ELSE pr[p].conn
<1> DEFINE c == Closed(pr, S)
<1>1. c = [p \in Protocols |->
            IF p \in S /\ pr[p].conn = "open" THEN [pr[p] EXCEPT !.conn = "closing"] ELSE pr[p]]
  BY DEF Closed
<1>2. ASSUME NEW p \in Protocols
      PROVE  /\ c[p] \in
                  ProtocolRecords
             /\ c[p].player = pr[p].player /\ c[p].watch = pr[p].watch
             /\ c[p].accept = pr[p].accept /\ c[p].event = pr[p].event /\ c[p].refs = pr[p].refs
             /\ c[p].conn = IF p \in S /\ pr[p].conn = "open" THEN "closing" ELSE pr[p].conn
  <2>1. c[p] = IF p \in S /\ pr[p].conn = "open" THEN [pr[p] EXCEPT !.conn = "closing"] ELSE pr[p]
    BY <1>1
  <2> HIDE DEF c
  <2> QED
    BY <2>1 DEF ProtTyped, ProtocolRecords
<1>3. ProtTyped(c)
  <2> HIDE DEF c
  <2> QED
    BY <1>1, <1>2 DEF ProtTyped
<1> QED
  BY <1>2, <1>3 DEF c

LEMMA ClosingQueue ==
  ASSUME ProtTyped(prot), NEW ts, NEW tm, QueueSound(prot, ts, tm), NEW S, NEW q, Farewell(S, q)
  PROVE  QueueSound(Closed(prot, S), ts \o q, tm)
<1> DEFINE c == Closed(prot, S)
<1>1. \A p \in Protocols :
        /\ c[p].player = prot[p].player /\ c[p].watch = prot[p].watch
        /\ c[p].accept = prot[p].accept /\ c[p].refs = prot[p].refs
        /\ c[p].conn = IF p \in S /\ prot[p].conn = "open" THEN "closing" ELSE prot[p].conn
  BY ClosedFacts
<1> HIDE DEF c
<1>2. ASSUME NEW t \in Jobs, Sane(prot, t) PROVE Sane(c, t)
  <2>1. t.p \in Protocols
    BY DEF Jobs
  <2> QED
    BY <1>1, <1>2, <2>1 DEF Sane, Urgent, Fresh
<1>3. (\A i \in 1 .. Len(ts) : ts[i] \in Jobs) /\ (\A i \in 1 .. Len(tm) : tm[i] \in Jobs)
  BY ElementOfSeq DEF QueueSound
<1>4. QueueSound(c, ts, tm)
  BY <1>2, <1>3 DEF QueueSound
<1>5. ASSUME NEW i \in 1 .. Len(q) PROVE Sane(c, q[i])
  <2>1. q[i].kind = "close" /\ c[q[i].p].conn = "closing"
    BY <1>1 DEF Farewell
  <2> QED
    BY <2>1 DEF Sane, Urgent, Fresh
<1>6. ClashFree(q)
  <2>1. Len(q) \in Nat
    BY LenProperties DEF Farewell
  <2> QED
    BY <2>1 DEF ClashFree, Clash, Farewell
<1>7. ASSUME NEW t \in Jobs, Sane(prot, t), NEW i \in 1 .. Len(q)
      PROVE  ~Clash(t, q[i]) /\ (t.kind \in Timed => ~Clash(q[i], t))
  <2>1. q[i].kind = "close" /\ prot[q[i].p].conn = "open"
    BY DEF Farewell
  <2> QED
    BY <1>7, <2>1 DEF Clash, Sane, Urgent, Fresh, Timed
<1>8. Apart(ts, q) /\ Apart(q, tm)
  BY <1>3, <1>7 DEF QueueSound, Apart
<1> QED
  BY <1>4, <1>5, <1>6, <1>8, QueueMore DEF c, Farewell

--------------------------------------------------------------------------------
(* The references to a player *)

LEMMA UsersFinite ==
  ASSUME NEW pr, NEW y
  PROVE  IsFiniteSet(Users(pr, y)) /\ Cardinality(Users(pr, y)) \in Nat
<1>1. IsFiniteSet(Protocols)
  BY SessionAssumption, FS_Interval DEF Protocols
<1>2. Users(pr, y) \subseteq Protocols
  BY DEF Users
<1> QED
  BY <1>1, <1>2, FS_Subset, FS_CardinalityType

LEMMA UsersSame ==
  ASSUME NEW pr, NEW pr2, NEW y,
         \A p \in Protocols : pr2[p].player = y <=> pr[p].player = y
  PROVE  Users(pr2, y) = Users(pr, y)
BY DEF Users

LEMMA UsersJoin ==
  ASSUME NEW pr, NEW pr2, NEW y, NEW p \in Protocols,
         pr[p].player # y, pr2[p].player = y,
         \A q \in Protocols \ {p} : pr2[q].player = pr[q].player
  PROVE  Cardinality(Users(pr2, y)) = Cardinality(Users(pr, y)) + 1
<1>1. Users(pr2, y) = Users(pr, y) \cup {p} /\ p \notin Users(pr, y)
  BY DEF Users
<1> QED
  BY ZenonT(60), <1>1, UsersFinite, FS_AddElement

LEMMA UsersLeave ==
  ASSUME NEW pr, NEW pr2, NEW y, NEW p \in Protocols,
         pr[p].player = y, pr2[p].player # y,
         \A q \in Protocols \ {p} : pr2[q].player = pr[q].player
  PROVE  Cardinality(Users(pr, y)) = Cardinality(Users(pr2, y)) + 1
BY UsersJoin

--------------------------------------------------------------------------------
(* What the parts of the handlers do to players and protocols *)

LEMMA HeldAre ==
  ASSUME NEW pl, PlrTyped(pl), NEW y \in Players
  PROVE  /\ pl[y].spectators \subseteq Protocols
         /\ pl[y].owner # NoProtocol => pl[y].owner \in Protocols
BY SessionAssumption DEF PlrTyped, PlayerRecords

LEMMA ClosedWorld ==
  ASSUME NEW pr, NEW pl, ProtTyped(pr), PlrTyped(pl), WorldSound(pr, pl), NEW S
  PROVE  WorldSound(Closed(pr, S), pl)
<1> DEFINE c == Closed(pr, S)
<1>1. \A p \in Protocols :
        /\ c[p].player = pr[p].player /\ c[p].watch = pr[p].watch
        /\ c[p].accept = pr[p].accept /\ c[p].refs = pr[p].refs
        /\ c[p].conn = IF p \in S /\ pr[p].conn = "open" THEN "closing" ELSE pr[p].conn
  BY ClosedFacts
<1> HIDE DEF c
<1>2. Bound(c, pl)
  BY <1>1 DEF WorldSound, Bound
<1>3. Held(c, pl)
  BY <1>1, HeldAre DEF WorldSound, Held
<1>4. Counted(c, pl)
  <2>1. \A y \in Players : Users(c, y) = Users(pr, y)
    BY <1>1, UsersSame
  <2> QED
    BY <2>1 DEF WorldSound, Counted
<1> QED
  BY <1>2, <1>3, <1>4 DEF WorldSound, c

LEMMA RemovedRecord ==
  ASSUME NEW r \in PlayerRecords
  PROVE  /\ Removed(r) \in PlayerRecords
         /\ Removed(r).stage = "removed" /\ Removed(r).owner = r.owner
         /\ Removed(r).spectators = {} /\ Removed(r).broadcast = FALSE
         /\ Removed(r).refs = r.refs /\ Removed(r).freed = r.freed + 1
         /\ Removed(r).inVector = r.inVector
<1> DEFINE n == r.freed + 1
<1>1. n \in Nat
  BY DEF PlayerRecords
<1>2. Removed(r) = [r EXCEPT !.stage = "removed", !.spectators = {}, !.broadcast = FALSE,
                             !.freed = n, !.checked = FALSE]
  BY DEF Removed
<1> HIDE DEF n
<1>3. Removed(r) \in PlayerRecords
  BY <1>1, <1>2 DEF PlayerRecords
<1>4. /\ Removed(r).stage = "removed" /\ Removed(r).owner = r.owner
      /\ Removed(r).spectators = {} /\ Removed(r).broadcast = FALSE
      /\ Removed(r).refs = r.refs /\ Removed(r).freed = n
      /\ Removed(r).inVector = r.inVector
  BY <1>2 DEF PlayerRecords
<1> QED
  BY <1>3, <1>4 DEF n

(* A change of one player that keeps its pointers. *)
LEMMA OtherPlayersStay ==
  ASSUME NEW pl, PlrTyped(pl), NEW y \in Players, NEW r \in PlayerRecords
  PROVE  /\ PlrTyped([pl EXCEPT ![y] = r])
         /\ [pl EXCEPT ![y] = r][y] = r
         /\ \A z \in Players : z # y => [pl EXCEPT ![y] = r][z] = pl[z]
BY DEF PlrTyped

LEMMA BoundKept ==
  ASSUME NEW pr, NEW pl, NEW pl2, ProtTyped(pr), Bound(pr, pl),
         \A y \in Players : /\ There(pl[y]) => There(pl2[y])
                           /\ pl2[y].owner = pl[y].owner
  PROVE  Bound(pr, pl2)
<1>1. \A p \in Protocols : pr[p].player # NoPlayer => pr[p].player \in Players
  BY DEF ProtTyped, ProtocolRecords
<1> QED
  BY <1>1 DEF Bound

Removing(pl, y) == [pl EXCEPT ![y] = Removed(@)]

LEMMA RemovedWorld ==
  ASSUME NEW pr, NEW pl, ProtTyped(pr), PlrTyped(pl), WorldSound(pr, pl),
         NEW y \in Players, pl[y].stage = "world"
  PROVE  PlrTyped(Removing(pl, y)) /\ WorldSound(pr, Removing(pl, y))
<1> DEFINE r == Removed(pl[y])
           pl2 == [pl EXCEPT ![y] = r]
<1>1. pl[y] \in PlayerRecords
  BY DEF PlrTyped
<1>2. /\ r.stage = "removed" /\ r.owner = pl[y].owner /\ r.spectators = {}
      /\ r.freed = pl[y].freed + 1 /\ r.refs = pl[y].refs /\ r.inVector = pl[y].inVector
      /\ r \in PlayerRecords
  BY <1>1, RemovedRecord
<1> HIDE DEF r
<1>3. PlrTyped(pl2) /\ pl2[y] = r /\ \A z \in Players : z # y => pl2[z] = pl[z]
  BY <1>2, OtherPlayersStay
<1> HIDE DEF pl2
<1>4. Bound(pr, pl2)
  BY <1>2, <1>3, BoundKept DEF WorldSound, There
<1>5. Held(pr, pl2)
  BY <1>2, <1>3 DEF WorldSound, Held
<1>6. Counted(pr, pl2)
  <2>1. pl[y].freed \in Nat /\ pl[y].refs \in Nat /\ Cardinality(Users(pr, y)) \in Nat
    BY UsersFinite DEF PlrTyped, PlayerRecords
  <2>2. pl2[y].refs = Cardinality(Users(pr, y)) + pl2[y].freed + 0
                      + (IF pl2[y].inVector THEN 1 ELSE 0)
    BY <1>2, <1>3, <2>1 DEF WorldSound, Counted, There
  <2> QED
    BY <1>2, <1>3, <2>2 DEF WorldSound, Counted, There
<1> QED
  BY <1>3, <1>4, <1>5, <1>6 DEF WorldSound, r, pl2, Removing

Unchecking(pl, y) == [pl EXCEPT ![y].inVector = FALSE, ![y].freed = @ + 1]

LEMMA UncheckedWorld ==
  ASSUME NEW pr, NEW pl, ProtTyped(pr), PlrTyped(pl), WorldSound(pr, pl),
         NEW y \in Players, pl[y].inVector
  PROVE  PlrTyped(Unchecking(pl, y)) /\ WorldSound(pr, Unchecking(pl, y))
<1> DEFINE n == pl[y].freed + 1
           r == [pl[y] EXCEPT !.inVector = FALSE, !.freed = n]
           pl2 == [pl EXCEPT ![y] = r]
<1>1. pl[y] \in PlayerRecords /\ n \in Nat
  BY DEF PlrTyped, PlayerRecords
<1>2. pl2 = Unchecking(pl, y)
  BY DEF PlrTyped, Unchecking
<1> HIDE DEF n
<1>3. /\ r \in PlayerRecords /\ r.stage = pl[y].stage /\ r.owner = pl[y].owner
      /\ r.spectators = pl[y].spectators /\ r.broadcast = pl[y].broadcast
      /\ r.refs = pl[y].refs /\ r.freed = n /\ ~r.inVector
  BY <1>1 DEF PlayerRecords
<1> HIDE DEF r
<1>4. PlrTyped(pl2) /\ pl2[y] = r /\ \A z \in Players : z # y => pl2[z] = pl[z]
  BY <1>3, OtherPlayersStay
<1> HIDE DEF pl2
<1>5. Bound(pr, pl2)
  BY <1>3, <1>4, BoundKept DEF WorldSound, There
<1>6. Held(pr, pl2)
  BY <1>3, <1>4 DEF WorldSound, Held
<1>7. Counted(pr, pl2)
  <2>1. pl[y].freed \in Nat /\ pl[y].refs \in Nat /\ Cardinality(Users(pr, y)) \in Nat
    BY UsersFinite DEF PlrTyped, PlayerRecords
  <2>2. There(pl[y])
    BY DEF WorldSound, Counted
  <2>3. pl2[y].refs = Cardinality(Users(pr, y)) + pl2[y].freed
                      + (IF pl2[y].stage = "world" THEN 1 ELSE 0) + 0
    BY <1>3, <1>4, <2>1, <2>2 DEF WorldSound, Counted, n
  <2> QED
    BY <1>3, <1>4, <2>2, <2>3 DEF WorldSound, Counted, There
<1> QED
  BY <1>2, <1>4, <1>5, <1>6, <1>7 DEF WorldSound

LEMMA DeletedRecord ==
  LET r == [NewPlayer EXCEPT !.stage = "deleted"]
  IN  /\ r \in PlayerRecords /\ r.stage = "deleted" /\ r.owner = NoProtocol
      /\ r.spectators = {} /\ r.refs = 0 /\ r.freed = 0 /\ ~r.inVector
BY DEF NewPlayer, PlayerRecords

LEMMA CleanedWorld ==
  ASSUME NEW pr, NEW pl, ProtTyped(pr), PlrTyped(pl), WorldSound(pr, pl)
  PROVE  PlrTyped(Cleaned(pl)) /\ WorldSound(pr, Cleaned(pl))
<1> DEFINE c == Cleaned(pl)
           dead(y) == pl[y].freed > 0 /\ pl[y].refs = pl[y].freed
<1>1. ASSUME NEW y \in Players
      PROVE  /\ pl[y].freed \in Nat /\ pl[y].refs \in Nat /\ pl[y].refs - pl[y].freed \in Nat
             /\ dead(y) => /\ There(pl[y]) /\ pl[y].stage # "world" /\ ~pl[y].inVector
                           /\ Cardinality(Users(pr, y)) = 0
  <2>1. pl[y].freed \in Nat /\ pl[y].refs \in Nat /\ Cardinality(Users(pr, y)) \in Nat
    BY UsersFinite DEF PlrTyped, PlayerRecords
  <2>2. CASE There(pl[y])
    <3> DEFINE a == IF pl[y].stage = "world" THEN 1 ELSE 0
               b == IF pl[y].inVector THEN 1 ELSE 0
    <3>1. pl[y].refs = Cardinality(Users(pr, y)) + pl[y].freed + a + b
      BY <2>2 DEF WorldSound, Counted
    <3>2. a \in Nat /\ b \in Nat /\ (a = 0 => pl[y].stage # "world") /\ (b = 0 => ~pl[y].inVector)
      OBVIOUS
    <3> HIDE DEF a, b
    <3>3. pl[y].refs - pl[y].freed \in Nat
      BY <2>1, <3>1, <3>2
    <3>4. dead(y) => Cardinality(Users(pr, y)) = 0 /\ a = 0 /\ b = 0
      BY <2>1, <3>1, <3>2
    <3> QED
      BY <2>1, <2>2, <3>2, <3>3, <3>4
  <2>3. CASE ~There(pl[y])
    BY <2>1, <2>3 DEF WorldSound, Counted
  <2> QED
    BY <2>2, <2>3
<1>2. ASSUME NEW y \in Players, dead(y)
      PROVE  /\ \A p \in Protocols : pr[p].player # y
             /\ pl[y].owner = NoProtocol /\ pl[y].spectators = {}
  <2>1. Users(pr, y) = {}
    BY <1>1, <1>2, UsersFinite, FS_EmptySet
  <2>2. \A p \in Protocols : pr[p].player # y
    BY <2>1 DEF Users
  <2> QED
    BY <2>2, HeldAre DEF WorldSound, Held
<1>3. ASSUME NEW y \in Players
      PROVE  /\ c[y] \in PlayerRecords
             /\ dead(y) => /\ c[y].stage = "deleted" /\ c[y].owner = NoProtocol
                           /\ c[y].spectators = {} /\ c[y].refs = 0 /\ c[y].freed = 0
                           /\ ~c[y].inVector
             /\ ~dead(y) => /\ c[y].stage = pl[y].stage /\ c[y].owner = pl[y].owner
                            /\ c[y].spectators = pl[y].spectators
                            /\ c[y].broadcast = pl[y].broadcast
                            /\ c[y].refs = pl[y].refs - pl[y].freed /\ c[y].freed = 0
                            /\ c[y].inVector = pl[y].inVector
  <2>1. CASE dead(y)
    <3>1. c[y] = [NewPlayer EXCEPT !.stage = "deleted"]
      BY <2>1 DEF Cleaned
    <3> HIDE DEF c
    <3> QED
      BY <2>1, <3>1, DeletedRecord
  <2>2. CASE ~dead(y)
    <3> DEFINE n == pl[y].refs - pl[y].freed
    <3>1. c[y] = [pl[y] EXCEPT !.refs = n, !.freed = 0]
      BY <2>2 DEF Cleaned
    <3>2. n \in Nat /\ pl[y] \in PlayerRecords
      BY <1>1 DEF PlrTyped
    <3> HIDE DEF c, n
    <3>3. /\ c[y].stage = pl[y].stage /\ c[y].owner = pl[y].owner
          /\ c[y].spectators = pl[y].spectators /\ c[y].broadcast = pl[y].broadcast
          /\ c[y].refs = n /\ c[y].freed = 0 /\ c[y].inVector = pl[y].inVector
      BY <3>1, <3>2 DEF PlayerRecords
    <3>4. c[y] \in PlayerRecords
      <4>1. \A r \in PlayerRecords, m \in Nat : [r EXCEPT !.refs = m, !.freed = 0] \in PlayerRecords
        BY DEF PlayerRecords
      <4> QED
        BY <3>1, <3>2, <4>1
    <3> QED
      BY <2>2, <3>3, <3>4 DEF n
  <2> QED
    BY <2>1, <2>2
<1>4. PlrTyped(c)
  <2>1. c = [y \in Players |-> c[y]]
    BY DEF Cleaned
  <2> HIDE DEF c
  <2> QED
    BY <1>3, <2>1 DEF PlrTyped
<1> HIDE DEF c, dead
<1>5. Bound(pr, c)
  <2> SUFFICES ASSUME NEW p \in Protocols, pr[p].player # NoPlayer
               PROVE  /\ There(c[pr[p].player])
                      /\ c[pr[p].player].owner = pl[pr[p].player].owner
    BY DEF WorldSound, Bound
  <2>1. pr[p].player \in Players
    BY DEF ProtTyped, ProtocolRecords
  <2>2. There(pl[pr[p].player]) /\ ~dead(pr[p].player)
    BY <1>2, <2>1 DEF WorldSound, Bound
  <2> QED
    BY <1>3, <2>1, <2>2 DEF There
<1>6. Held(pr, c)
  BY <1>3 DEF WorldSound, Held
<1>7. Counted(pr, c)
  <2> SUFFICES ASSUME NEW y \in Players
               PROVE  /\ ~There(c[y]) => c[y].refs = 0 /\ c[y].freed = 0 /\ ~c[y].inVector
                      /\ There(c[y]) =>
                           c[y].refs = Cardinality(Users(pr, y)) + c[y].freed
                                       + (IF c[y].stage = "world" THEN 1 ELSE 0)
                                       + (IF c[y].inVector THEN 1 ELSE 0)
    BY DEF Counted
  <2>1. CASE dead(y)
    BY <1>3, <2>1 DEF There
  <2>2. CASE ~dead(y)
    <3>1. Cardinality(Users(pr, y)) \in Nat
      BY UsersFinite
    <3>2. CASE There(pl[y])
      BY <1>1, <1>3, <2>2, <3>1, <3>2 DEF WorldSound, Counted, There
    <3>3. CASE ~There(pl[y])
      BY <1>1, <1>3, <2>2, <3>3 DEF WorldSound, Counted, There
    <3> QED
      BY <3>2, <3>3
  <2> QED
    BY <2>1, <2>2
<1> QED
  BY <1>4, <1>5, <1>6, <1>7 DEF WorldSound, c

Repointed(s, o, e) == [s EXCEPT !.owner = o, !.spectators = e]

LEMMA PointersRecord ==
  ASSUME NEW s \in PlayerRecords, NEW o \in Protocols \cup {NoProtocol}, NEW e \in SUBSET Watchers
  PROVE  /\ Repointed(s, o, e) \in PlayerRecords
         /\ Repointed(s, o, e).owner = o /\ Repointed(s, o, e).spectators = e
         /\ Repointed(s, o, e).stage = s.stage /\ Repointed(s, o, e).broadcast = s.broadcast
         /\ Repointed(s, o, e).refs = s.refs /\ Repointed(s, o, e).freed = s.freed
         /\ Repointed(s, o, e).inVector = s.inVector
<1> DEFINE r == [s EXCEPT !.owner = o, !.spectators = e]
<1>1. r \in PlayerRecords
  BY DEF PlayerRecords
<1>2. /\ r.owner = o /\ r.spectators = e /\ r.stage = s.stage /\ r.broadcast = s.broadcast
      /\ r.refs = s.refs /\ r.freed = s.freed /\ r.inVector = s.inVector
  BY DEF PlayerRecords
<1> QED
  BY <1>1, <1>2 DEF Repointed

LEMMA DetachedFacts ==
  ASSUME ProtTyped(prot), PlrTyped(plr), WorldSound(prot, plr), NEW p \in Protocols
  PROVE  /\ PlrTyped(Detached(p))
         /\ \A y \in Players :
              /\ Detached(p)[y].owner = IF plr[y].owner = p THEN NoProtocol ELSE plr[y].owner
              /\ Detached(p)[y].spectators = plr[y].spectators \ {p}
              /\ Detached(p)[y].stage = plr[y].stage
              /\ Detached(p)[y].broadcast = plr[y].broadcast
              /\ Detached(p)[y].refs = plr[y].refs
              /\ Detached(p)[y].freed = plr[y].freed
              /\ Detached(p)[y].inVector = plr[y].inVector
<1> DEFINE d == Detached(p)
           x == prot[p].player
<1>1. NoProtocol \notin Protocols /\ NoPlayer \notin Players
  BY SessionAssumption
<1>2. \A y \in Players : y # x => p \notin plr[y].spectators /\ plr[y].owner # p
  BY <1>1 DEF WorldSound, Held
<1>3. x \in Players \/ x = NoPlayer
  BY DEF ProtTyped, ProtocolRecords
<1>4. CASE x = NoPlayer
  <2>1. d = plr
    BY <1>4 DEF Detached
  <2>2. \A y \in Players : y # x
    BY <1>1, <1>4
  <2> QED
    BY <1>2, <2>1, <2>2
<1>5. CASE x \in Players
  <2> DEFINE r == [plr[x] EXCEPT !.owner = IF plr[x].owner = p THEN NoProtocol ELSE @,
                                 !.spectators = @ \ {p}]
  <2>1. plr[x] \in PlayerRecords
    BY <1>5 DEF PlrTyped
  <2>2. /\ r \in PlayerRecords
        /\ r.owner = IF plr[x].owner = p THEN NoProtocol ELSE plr[x].owner
        /\ r.spectators = plr[x].spectators \ {p}
        /\ r.stage = plr[x].stage /\ r.broadcast = plr[x].broadcast
        /\ r.refs = plr[x].refs /\ r.freed = plr[x].freed /\ r.inVector = plr[x].inVector
    <3> DEFINE o == IF plr[x].owner = p THEN NoProtocol ELSE plr[x].owner
               e == plr[x].spectators \ {p}
    <3>2. o \in Protocols \cup {NoProtocol} /\ e \in SUBSET Watchers
      BY <2>1 DEF PlayerRecords
    <3>3. r = Repointed(plr[x], o, e)
      BY DEF Repointed
    <3> HIDE DEF o, e, r
    <3>4. /\ r \in PlayerRecords /\ r.owner = o /\ r.spectators = e
          /\ r.stage = plr[x].stage /\ r.broadcast = plr[x].broadcast
          /\ r.refs = plr[x].refs /\ r.freed = plr[x].freed /\ r.inVector = plr[x].inVector
      <4> HIDE DEF x
      <4> QED
        BY <2>1, <3>2, <3>3, PointersRecord
    <3> QED
      BY <3>4 DEF o, e
  <2>3. d = [plr EXCEPT ![x] = r]
    <3>1. x # NoPlayer
      BY <1>1, <1>5
    <3>2. CASE ~prot[p].watch
      <4>1. p \notin plr[x].spectators
        BY <1>5, <3>2 DEF WorldSound, Held
      <4>2. plr[x].spectators \ {p} = plr[x].spectators
        BY <4>1
      <4>3. CASE plr[x].owner = p
        <5>1. d = [plr EXCEPT ![x].owner = NoProtocol]
          BY <3>1, <3>2, <4>3 DEF Detached, IsSpectator
        <5>2. r = [plr[x] EXCEPT !.owner = NoProtocol]
          BY <2>1, <4>2, <4>3 DEF PlayerRecords
        <5> HIDE DEF r
        <5> QED
          BY <5>1, <5>2
      <4>4. CASE plr[x].owner # p
        <5>1. d = plr
          BY <3>1, <3>2, <4>4 DEF Detached, IsSpectator
        <5>2. r = plr[x]
          BY <2>1, <4>2, <4>4 DEF PlayerRecords
        <5> HIDE DEF r
        <5> QED
          BY <5>1, <5>2 DEF PlrTyped
      <4> QED
        BY <4>3, <4>4
    <3>3. CASE prot[p].watch
      <4>1. plr[x].owner # p
        BY <1>1, <1>5, <3>3 DEF WorldSound, Held
      <4>2. CASE plr[x].broadcast
        <5>1. d = [plr EXCEPT ![x].spectators = @ \ {p}]
          BY <3>1, <3>3, <4>2 DEF Detached, IsSpectator
        <5>2. r = [plr[x] EXCEPT !.spectators = @ \ {p}]
          BY <2>1, <4>1 DEF PlayerRecords
        <5> HIDE DEF r
        <5> QED
          BY <5>1, <5>2
      <4>3. CASE ~plr[x].broadcast
        <5>1. d = plr
          BY <3>1, <3>3, <4>3 DEF Detached, IsSpectator
        <5>2. plr[x].spectators = {}
          BY <1>5, <4>3 DEF WorldSound, Held
        <5>3. r = plr[x]
          BY <2>1, <4>1, <5>2 DEF PlayerRecords
        <5> HIDE DEF r
        <5> QED
          BY <5>1, <5>3 DEF PlrTyped
      <4> QED
        BY <4>2, <4>3
    <3> QED
      BY <3>2, <3>3 DEF ProtTyped, ProtocolRecords
  <2> HIDE DEF r, d
  <2>4. PlrTyped(d) /\ d[x] = r /\ \A y \in Players : y # x => d[y] = plr[y]
    <3> HIDE DEF x
    <3>1. r \in PlayerRecords
      BY <2>2
    <3>2. LET e == [plr EXCEPT ![x] = r]
          IN  PlrTyped(e) /\ e[x] = r /\ \A y \in Players : y # x => e[y] = plr[y]
      BY <1>5, <3>1, OtherPlayersStay
    <3> QED
      BY <2>3, <3>2, Zenon
  <2> QED
    BY <1>2, <1>5, <2>2, <2>4 DEF d
<1> QED
  BY <1>3, <1>4, <1>5

(* A protocol is released, and deleted with its player's reference freed. *)
LEMMA ReleasedWorld ==
  ASSUME ProtTyped(prot), PlrTyped(plr), WorldSound(prot, plr), NEW p \in Protocols,
         NEW pr2, pr2 = [prot EXCEPT ![p].conn = "released"]
  PROVE  ProtTyped(pr2) /\ PlrTyped(Detached(p)) /\ WorldSound(pr2, Detached(p))
<1> DEFINE d == Detached(p)
<1>1. PlrTyped(d) /\ \A y \in Players :
        /\ d[y].owner = IF plr[y].owner = p THEN NoProtocol ELSE plr[y].owner
        /\ d[y].spectators = plr[y].spectators \ {p}
        /\ d[y].stage = plr[y].stage /\ d[y].broadcast = plr[y].broadcast
        /\ d[y].refs = plr[y].refs /\ d[y].freed = plr[y].freed /\ d[y].inVector = plr[y].inVector
  BY DetachedFacts
<1> HIDE DEF d
<1>2. /\ ProtTyped(pr2) /\ \A q \in Protocols \ {p} : pr2[q] = prot[q]
      /\ pr2[p].conn = "released"
      /\ \A q \in Protocols : pr2[q].player = prot[q].player /\ pr2[q].watch = prot[q].watch
  BY DEF ProtTyped, ProtocolRecords
<1>3. Bound(pr2, d)
  <2> SUFFICES ASSUME NEW q \in Protocols
               PROVE  /\ pr2[q].conn = "none" =>
                           pr2[q].player = NoPlayer /\ ~pr2[q].watch /\ ~pr2[q].accept /\ pr2[q].refs = 0
                      /\ pr2[q].player # NoPlayer => There(d[pr2[q].player])
                      /\ ~pr2[q].watch /\ pr2[q].player # NoPlayer
                         /\ pr2[q].conn \in {"open", "closing"} => d[pr2[q].player].owner = q
    BY DEF Bound
  <2>1. prot[q].player # NoPlayer => prot[q].player \in Players
    BY DEF ProtTyped, ProtocolRecords
  <2>2. CASE q = p
    BY <1>1, <1>2, <2>1, <2>2 DEF WorldSound, Bound, There
  <2>3. CASE q # p
    BY <1>1, <1>2, <2>1, <2>3 DEF WorldSound, Bound, There
  <2> QED
    BY <2>2, <2>3
<1>4. Held(pr2, d)
  <2>1. \A y \in Players : /\ d[y].owner # p
                           /\ d[y].owner # NoProtocol => d[y].owner = plr[y].owner /\ d[y].owner \in Protocols
    BY <1>1, HeldAre, SessionAssumption
  <2> QED
    BY <1>1, <1>2, <2>1, HeldAre DEF WorldSound, Held
<1>5. Counted(pr2, d)
  <2>1. \A y \in Players : Users(pr2, y) = Users(prot, y)
    BY <1>2 DEF Users
  <2> QED
    BY ZenonT(60), <1>1, <2>1 DEF WorldSound, Counted, There
<1> QED
  BY <1>1, <1>2, <1>3, <1>4, <1>5 DEF WorldSound, d

LEMMA PointersDropped ==
  ASSUME ProtTyped(prot), PlrTyped(plr), WorldSound(prot, plr), NEW p \in Protocols,
         NEW pr2, ProtTyped(pr2), \A q \in Protocols \ {p} : pr2[q] = prot[q],
         pr2[p].conn = "deleted", pr2[p].player = NoPlayer,
         NEW pl2, PlrTyped(pl2),
         \A y \in Players :
           /\ pl2[y].owner = IF plr[y].owner = p THEN NoProtocol ELSE plr[y].owner
           /\ pl2[y].spectators = plr[y].spectators \ {p}
           /\ pl2[y].stage = plr[y].stage /\ pl2[y].broadcast = plr[y].broadcast
           /\ pl2[y].refs = plr[y].refs /\ pl2[y].inVector = plr[y].inVector
           /\ (y = prot[p].player => pl2[y].freed = plr[y].freed + 1)
           /\ (y # prot[p].player => pl2[y].freed = plr[y].freed)
  PROVE  WorldSound(pr2, pl2)
<1> DEFINE x == prot[p].player
<1>1. NoProtocol \notin Protocols /\ NoPlayer \notin Players /\ (x \in Players \/ x = NoPlayer)
  BY SessionAssumption DEF ProtTyped, ProtocolRecords
<1>2. Bound(pr2, pl2)
  <2> SUFFICES ASSUME NEW q \in Protocols
               PROVE  /\ pr2[q].conn = "none" =>
                           pr2[q].player = NoPlayer /\ ~pr2[q].watch /\ ~pr2[q].accept /\ pr2[q].refs = 0
                      /\ pr2[q].player # NoPlayer => There(pl2[pr2[q].player])
                      /\ ~pr2[q].watch /\ pr2[q].player # NoPlayer
                         /\ pr2[q].conn \in {"open", "closing"} => pl2[pr2[q].player].owner = q
    BY DEF Bound
  <2>1. CASE q = p
    BY <2>1
  <2>2. CASE q # p
    <3>1. pr2[q] = prot[q] /\ (prot[q].player # NoPlayer => prot[q].player \in Players)
      BY <2>2 DEF ProtTyped, ProtocolRecords
    <3> QED
      BY <1>1, <2>2, <3>1 DEF WorldSound, Bound, There
  <2> QED
    BY <2>1, <2>2
<1>3. Held(pr2, pl2)
  <2>1. \A y \in Players :
          /\ pl2[y].owner # p
          /\ pl2[y].owner # NoProtocol => pl2[y].owner = plr[y].owner /\ pl2[y].owner \in Protocols
          /\ pl2[y].spectators = plr[y].spectators \ {p}
          /\ pl2[y].stage = plr[y].stage /\ pl2[y].broadcast = plr[y].broadcast
    BY <1>1, HeldAre
  <2> SUFFICES ASSUME NEW y \in Players
               PROVE  /\ \A q \in pl2[y].spectators :
                           pr2[q].watch /\ pr2[q].player = y /\ pr2[q].conn \in {"open", "closing"}
                      /\ pl2[y].owner # NoProtocol =>
                           /\ ~pr2[pl2[y].owner].watch /\ pr2[pl2[y].owner].player = y
                           /\ pr2[pl2[y].owner].conn \in {"open", "closing", "released"}
                      /\ pl2[y].spectators # {} => pl2[y].stage = "world" /\ pl2[y].broadcast
    BY DEF Held
  <2>2. ASSUME NEW q \in pl2[y].spectators
        PROVE  pr2[q].watch /\ pr2[q].player = y /\ pr2[q].conn \in {"open", "closing"}
    <3>1. q \in plr[y].spectators /\ q # p /\ q \in Protocols
      BY <2>1, HeldAre
    <3>2. pr2[q] = prot[q]
      BY <3>1
    <3> QED
      BY <3>1, <3>2 DEF WorldSound, Held
  <2>3. ASSUME pl2[y].owner # NoProtocol
        PROVE  /\ ~pr2[pl2[y].owner].watch /\ pr2[pl2[y].owner].player = y
               /\ pr2[pl2[y].owner].conn \in {"open", "closing", "released"}
    <3>1. pr2[pl2[y].owner] = prot[plr[y].owner] /\ plr[y].owner # NoProtocol
      BY <2>1, <2>3
    <3> QED
      BY <3>1 DEF WorldSound, Held
  <2>4. pl2[y].spectators # {} => pl2[y].stage = "world" /\ pl2[y].broadcast
    BY <2>1 DEF WorldSound, Held
  <2> QED
    BY <2>2, <2>3, <2>4
<1>4. Counted(pr2, pl2)
  <2> SUFFICES ASSUME NEW y \in Players
               PROVE  /\ ~There(pl2[y]) => pl2[y].refs = 0 /\ pl2[y].freed = 0 /\ ~pl2[y].inVector
                      /\ There(pl2[y]) =>
                           pl2[y].refs = Cardinality(Users(pr2, y)) + pl2[y].freed
                                       + (IF pl2[y].stage = "world" THEN 1 ELSE 0)
                                       + (IF pl2[y].inVector THEN 1 ELSE 0)
    BY DEF Counted
  <2>1. /\ pl2[y].stage = plr[y].stage /\ pl2[y].refs = plr[y].refs
        /\ pl2[y].inVector = plr[y].inVector
        /\ (y = x => pl2[y].freed = plr[y].freed + 1)
        /\ (y # x => pl2[y].freed = plr[y].freed)
    BY <1>1
  <2>2. plr[y].freed \in Nat /\ plr[y].refs \in Nat /\ Cardinality(Users(pr2, y)) \in Nat
    BY UsersFinite DEF PlrTyped, PlayerRecords
  <2>3. CASE y = x
    <3>1. prot[p].player = y /\ pr2[p].player # y
      BY <1>1, <2>3 DEF x
    <3>4. \A q \in Protocols \ {p} : pr2[q].player = prot[q].player
      BY Zenon
    <3>2. Cardinality(Users(prot, y)) = Cardinality(Users(pr2, y)) + 1
      <4>1. Users(prot, y) = Users(pr2, y) \cup {p} /\ p \notin Users(pr2, y)
        BY <3>1, <3>4 DEF Users
      <4> QED
        BY ZenonT(60), <4>1, UsersFinite, FS_AddElement
    <3>3. There(plr[y])
      BY <1>1, <3>1 DEF WorldSound, Bound
    <3> QED
      BY <2>1, <2>2, <2>3, <3>2, <3>3 DEF WorldSound, Counted, There
  <2>4. CASE y # x
    <3>1. Users(pr2, y) = Users(prot, y)
      BY <1>1, <2>4 DEF Users, x
    <3> QED
      BY <2>1, <2>4, <3>1 DEF WorldSound, Counted, There
  <2> QED
    BY <2>3, <2>4
<1> QED
  BY <1>2, <1>3, <1>4 DEF WorldSound

Forgotten(p) == [prot EXCEPT ![p].conn = "deleted", ![p].player = NoPlayer]

Freeing(p) == LET y == prot[p].player IN
              IF y = NoPlayer THEN plr ELSE [Detached(p) EXCEPT ![y].freed = @ + 1]

LEMMA DeletedWorld ==
  ASSUME ProtTyped(prot), PlrTyped(plr), WorldSound(prot, plr), NEW p \in Protocols
  PROVE  ProtTyped(Forgotten(p)) /\ PlrTyped(Freeing(p)) /\ WorldSound(Forgotten(p), Freeing(p))
<1> DEFINE pr2 == Forgotten(p)
           pl2 == Freeing(p)
           d == Detached(p)
           x == prot[p].player
<1>1. PlrTyped(d) /\ \A y \in Players :
        /\ d[y].owner = IF plr[y].owner = p THEN NoProtocol ELSE plr[y].owner
        /\ d[y].spectators = plr[y].spectators \ {p}
        /\ d[y].stage = plr[y].stage /\ d[y].broadcast = plr[y].broadcast
        /\ d[y].refs = plr[y].refs /\ d[y].freed = plr[y].freed /\ d[y].inVector = plr[y].inVector
  BY DetachedFacts
<1>2. NoProtocol \notin Protocols /\ NoPlayer \notin Players /\ (x \in Players \/ x = NoPlayer)
  BY SessionAssumption DEF ProtTyped, ProtocolRecords
<1>3. pl2 = IF x = NoPlayer THEN d ELSE [d EXCEPT ![x].freed = @ + 1]
  <2>1. CASE x = NoPlayer
    <3>1. pl2 = plr
      BY <2>1, Zenon DEF Freeing
    <3>2. d = plr
      BY <2>1, Zenon DEF Detached
    <3> QED
      BY <2>1, <3>1, <3>2, Zenon
  <2>2. CASE x # NoPlayer
    BY <2>2, Zenon DEF Freeing
  <2> QED
    BY <2>1, <2>2
<1>4. /\ ProtTyped(pr2) /\ \A q \in Protocols \ {p} : pr2[q] = prot[q]
      /\ pr2[p].conn = "deleted" /\ pr2[p].player = NoPlayer
  BY ZenonT(60) DEF ProtTyped, ProtocolRecords, Forgotten
<1> HIDE DEF d, x, pr2, pl2
<1>5. /\ PlrTyped(pl2)
      /\ \A y \in Players :
           /\ pl2[y].owner = d[y].owner /\ pl2[y].spectators = d[y].spectators
           /\ pl2[y].stage = d[y].stage /\ pl2[y].broadcast = d[y].broadcast
           /\ pl2[y].refs = d[y].refs /\ pl2[y].inVector = d[y].inVector
           /\ (y = x => pl2[y].freed = d[y].freed + 1)
           /\ (y # x => pl2[y].freed = d[y].freed)
  <2>1. CASE x = NoPlayer
    BY <1>1, <1>2, <1>3, <2>1
  <2>2. CASE x \in Players
    <3> DEFINE n == d[x].freed + 1
               r == [d[x] EXCEPT !.freed = n]
    <3>1. d[x] \in PlayerRecords /\ n \in Nat
      BY <1>1, <2>2 DEF PlrTyped, PlayerRecords
    <3>2. pl2 = [d EXCEPT ![x] = r]
      BY <1>2, <1>3, <2>2
    <3> HIDE DEF n
    <3>3. /\ r \in PlayerRecords /\ r.owner = d[x].owner /\ r.spectators = d[x].spectators
          /\ r.stage = d[x].stage /\ r.broadcast = d[x].broadcast
          /\ r.refs = d[x].refs /\ r.inVector = d[x].inVector /\ r.freed = n
      BY <3>1 DEF PlayerRecords
    <3> HIDE DEF r
    <3>4. LET e == [d EXCEPT ![x] = r]
          IN  PlrTyped(e) /\ e[x] = r /\ \A y \in Players : y # x => e[y] = d[y]
      BY <1>1, <2>2, <3>3, OtherPlayersStay
    <3>5. PlrTyped(pl2) /\ pl2[x] = r /\ \A y \in Players : y # x => pl2[y] = d[y]
      BY <3>2, <3>4, Zenon
    <3>6. n = d[x].freed + 1
      BY DEF n
    <3> SUFFICES ASSUME NEW y \in Players
                 PROVE  /\ pl2[y].owner = d[y].owner /\ pl2[y].spectators = d[y].spectators
                        /\ pl2[y].stage = d[y].stage /\ pl2[y].broadcast = d[y].broadcast
                        /\ pl2[y].refs = d[y].refs /\ pl2[y].inVector = d[y].inVector
                        /\ (y = x => pl2[y].freed = d[y].freed + 1)
                        /\ (y # x => pl2[y].freed = d[y].freed)
      BY <3>5, Zenon
    <3>7. CASE y = x
      BY <3>3, <3>5, <3>6, <3>7, Zenon
    <3>8. CASE y # x
      <4>1. pl2[y] = d[y]
        BY <3>5, <3>8, Zenon
      <4> QED
        BY <3>8, <4>1, Zenon
    <3> QED
      BY <3>7, <3>8
  <2> QED
    BY <1>2, <2>1, <2>2
<1> QED
  <2>1. ProtTyped(pr2) /\ PlrTyped(pl2)
    BY <1>4, <1>5
  <2>2. \A y \in Players :
          /\ pl2[y].owner = IF plr[y].owner = p THEN NoProtocol ELSE plr[y].owner
          /\ pl2[y].spectators = plr[y].spectators \ {p}
          /\ pl2[y].stage = plr[y].stage /\ pl2[y].broadcast = plr[y].broadcast
          /\ pl2[y].refs = plr[y].refs /\ pl2[y].inVector = plr[y].inVector
          /\ (y = prot[p].player => pl2[y].freed = plr[y].freed + 1)
          /\ (y # prot[p].player => pl2[y].freed = plr[y].freed)
    <3>1. x = prot[p].player
      BY DEF x
    <3> TAKE y \in Players
    <3>2. /\ d[y].owner = IF plr[y].owner = p THEN NoProtocol ELSE plr[y].owner
          /\ d[y].spectators = plr[y].spectators \ {p}
          /\ d[y].stage = plr[y].stage /\ d[y].broadcast = plr[y].broadcast
          /\ d[y].refs = plr[y].refs /\ d[y].freed = plr[y].freed /\ d[y].inVector = plr[y].inVector
      BY <1>1, Zenon
    <3>3. /\ pl2[y].owner = d[y].owner /\ pl2[y].spectators = d[y].spectators
          /\ pl2[y].stage = d[y].stage /\ pl2[y].broadcast = d[y].broadcast
          /\ pl2[y].refs = d[y].refs /\ pl2[y].inVector = d[y].inVector
          /\ (y = x => pl2[y].freed = d[y].freed + 1)
          /\ (y # x => pl2[y].freed = d[y].freed)
      BY <1>5, Zenon
    <3> QED
      BY <3>1, <3>2, <3>3, Zenon
  <2>3. /\ \A q \in Protocols \ {p} : pr2[q] = prot[q]
        /\ pr2[p].conn = "deleted" /\ pr2[p].player = NoPlayer
    BY <1>4, Zenon
  <2>4. WorldSound(pr2, pl2)
    BY <2>1, <2>2, <2>3, PointersDropped
  <2> QED
    BY <2>1, <2>4 DEF pr2, pl2

(* A protocol without a player becomes the client, or a spectator, of y. *)
LEMMA JoinedWorld ==
  ASSUME NEW pr, NEW pl, ProtTyped(pr), PlrTyped(pl), WorldSound(pr, pl),
         NEW p \in Protocols, NEW y \in Players, pr[p].player = NoPlayer,
         NEW pr2, ProtTyped(pr2), \A q \in Protocols \ {p} : pr2[q] = pr[q],
         pr2[p].player = y, pr2[p].conn \in {"open", "closing", "released"},
         NEW pl2, PlrTyped(pl2), \A z \in Players \ {y} : pl2[z] = pl[z],
         There(pl2[y]),
         \/ pl2[y].owner = p /\ ~pr2[p].watch /\ pl[y].owner = NoProtocol
         \/ pl2[y].owner = pl[y].owner /\ pr2[p].watch,
         \/ pl2[y].spectators \subseteq pl[y].spectators
         \/ /\ pl2[y].spectators = pl[y].spectators \cup {p}
            /\ pr2[p].watch /\ pr2[p].conn \in {"open", "closing"},
         pl2[y].spectators # {} => pl2[y].stage = "world" /\ pl2[y].broadcast,
         pl2[y].refs = (Cardinality(Users(pr, y)) + 1) + pl2[y].freed
                       + (IF pl2[y].stage = "world" THEN 1 ELSE 0)
                       + (IF pl2[y].inVector THEN 1 ELSE 0)
  PROVE  WorldSound(pr2, pl2)
<1>1. NoProtocol \notin Protocols /\ NoPlayer \notin Players
  BY SessionAssumption
<1>2. \A q \in Protocols : pr[q].player # NoPlayer => pr[q].player \in Players
  BY DEF ProtTyped, ProtocolRecords
<1>3. Bound(pr2, pl2)
  <2> SUFFICES ASSUME NEW q \in Protocols
               PROVE  /\ pr2[q].conn = "none" =>
                           pr2[q].player = NoPlayer /\ ~pr2[q].watch /\ ~pr2[q].accept /\ pr2[q].refs = 0
                      /\ pr2[q].player # NoPlayer => There(pl2[pr2[q].player])
                      /\ ~pr2[q].watch /\ pr2[q].player # NoPlayer
                         /\ pr2[q].conn \in {"open", "closing"} => pl2[pr2[q].player].owner = q
    BY DEF Bound
  <2>1. CASE q = p
    BY <2>1
  <2>2. CASE q # p
    <3>1. pr2[q] = pr[q]
      BY <2>2
    <3>2. CASE pr[q].player = y
      <4>1. pl[y].owner = NoProtocol =>
              ~(~pr[q].watch /\ pr[q].player # NoPlayer /\ pr[q].conn \in {"open", "closing"})
        BY <1>1, <3>2 DEF WorldSound, Bound
      <4> QED
        BY <1>1, <3>1, <3>2, <4>1 DEF WorldSound, Bound
    <3>3. CASE pr[q].player # y
      <4>1. pr[q].player # NoPlayer => pl2[pr[q].player] = pl[pr[q].player]
        BY <1>2, <3>3
      <4> QED
        BY <3>1, <4>1 DEF WorldSound, Bound
    <3> QED
      BY <3>2, <3>3
  <2> QED
    BY <2>1, <2>2
<1>4. \A z \in Players : p \notin pl[z].spectators /\ pl[z].owner # p
  BY <1>1 DEF WorldSound, Held
<1>5. Held(pr2, pl2)
  <2> SUFFICES ASSUME NEW z \in Players
               PROVE  /\ \A q \in pl2[z].spectators :
                           pr2[q].watch /\ pr2[q].player = z /\ pr2[q].conn \in {"open", "closing"}
                      /\ pl2[z].owner # NoProtocol =>
                           /\ ~pr2[pl2[z].owner].watch /\ pr2[pl2[z].owner].player = z
                           /\ pr2[pl2[z].owner].conn \in {"open", "closing", "released"}
                      /\ pl2[z].spectators # {} => pl2[z].stage = "world" /\ pl2[z].broadcast
    BY DEF Held
  <2>1. pl[z].owner # NoProtocol => pl[z].owner \in Protocols \ {p}
    BY <1>4, HeldAre
  <2>2. pl[z].spectators \subseteq Protocols \ {p}
    BY <1>4, HeldAre
  <2>3. \A q \in pl[z].spectators :
          pr2[q].watch /\ pr2[q].player = z /\ pr2[q].conn \in {"open", "closing"}
    BY <2>2 DEF WorldSound, Held
  <2>4. pl[z].owner # NoProtocol =>
          /\ ~pr2[pl[z].owner].watch /\ pr2[pl[z].owner].player = z
          /\ pr2[pl[z].owner].conn \in {"open", "closing", "released"}
    BY <2>1 DEF WorldSound, Held
  <2>5. CASE z = y
    BY <2>3, <2>4, <2>5
  <2>6. CASE z # y
    <3>1. pl2[z] = pl[z]
      BY <2>6
    <3> QED
      BY <2>3, <2>4, <3>1 DEF WorldSound, Held
  <2> QED
    BY <2>5, <2>6
<1>6. Counted(pr2, pl2)
  <2>1. \A q \in Protocols \ {p} : pr2[q].player = pr[q].player
    BY Zenon
  <2>2. Cardinality(Users(pr2, y)) = Cardinality(Users(pr, y)) + 1
    <3>1. Users(pr2, y) = Users(pr, y) \cup {p} /\ p \notin Users(pr, y)
      BY <1>1, <2>1 DEF Users
    <3>2. IsFiniteSet(Users(pr, y))
      BY UsersFinite
    <3>3. Cardinality(Users(pr, y) \cup {p}) = Cardinality(Users(pr, y)) + 1
      <4> DEFINE U == Users(pr, y)
      <4>1. IsFiniteSet(U) /\ p \notin U
        BY <3>1, <3>2
      <4> HIDE DEF U
      <4>2. Cardinality(U \cup {p}) = IF p \in U THEN Cardinality(U) ELSE Cardinality(U) + 1
        BY <4>1, FS_AddElement, ZenonT(60)
      <4> QED
        BY <4>1, <4>2 DEF U
    <3> QED
      BY <3>1, <3>3, Zenon
  <2>3. \A z \in Players : z # y => Users(pr2, z) = Users(pr, z) /\ pl2[z] = pl[z]
    BY <1>1, <2>1 DEF Users
  <2> SUFFICES ASSUME NEW z \in Players
               PROVE  /\ ~There(pl2[z]) => pl2[z].refs = 0 /\ pl2[z].freed = 0 /\ ~pl2[z].inVector
                      /\ There(pl2[z]) =>
                           pl2[z].refs = Cardinality(Users(pr2, z)) + pl2[z].freed
                                       + (IF pl2[z].stage = "world" THEN 1 ELSE 0)
                                       + (IF pl2[z].inVector THEN 1 ELSE 0)
    BY DEF Counted
  <2>4. CASE z = y
    BY <2>2, <2>4
  <2>5. CASE z # y
    BY <2>3, <2>5 DEF WorldSound, Counted
  <2> QED
    BY <2>4, <2>5
<1> QED
  BY <1>3, <1>5, <1>6 DEF WorldSound

(* Neither protocols nor players change what they point to. *)
LEMMA SamePointers ==
  ASSUME NEW pr, NEW pl, ProtTyped(pr), PlrTyped(pl), WorldSound(pr, pl),
         NEW pr2, ProtTyped(pr2),
         \A q \in Protocols :
           /\ pr2[q].player = pr[q].player /\ pr2[q].watch = pr[q].watch /\ pr2[q].conn = pr[q].conn
           /\ pr[q].conn = "none" => pr2[q].accept = pr[q].accept /\ pr2[q].refs = pr[q].refs,
         NEW pl2, PlrTyped(pl2),
         \A z \in Players :
           /\ pl2[z].owner = pl[z].owner /\ pl2[z].stage = pl[z].stage
           /\ pl2[z].refs = pl[z].refs /\ pl2[z].freed = pl[z].freed /\ pl2[z].inVector = pl[z].inVector
           /\ pl2[z].spectators \subseteq pl[z].spectators
           /\ pl2[z].spectators # {} /\ pl[z].broadcast => pl2[z].broadcast
  PROVE  WorldSound(pr2, pl2)
<1>1. Bound(pr2, pl2)
  <2>1. \A q \in Protocols : pr[q].player # NoPlayer => pr[q].player \in Players
    BY DEF ProtTyped, ProtocolRecords
  <2> QED
    BY <2>1 DEF WorldSound, Bound, There
<1>2. Held(pr2, pl2)
  <2> SUFFICES ASSUME NEW z \in Players
               PROVE  /\ \A q \in pl2[z].spectators :
                           pr2[q].watch /\ pr2[q].player = z /\ pr2[q].conn \in {"open", "closing"}
                      /\ pl2[z].owner # NoProtocol =>
                           /\ ~pr2[pl2[z].owner].watch /\ pr2[pl2[z].owner].player = z
                           /\ pr2[pl2[z].owner].conn \in {"open", "closing", "released"}
                      /\ pl2[z].spectators # {} => pl2[z].stage = "world" /\ pl2[z].broadcast
    BY DEF Held
  <2>1. /\ pl[z].owner # NoProtocol => pl[z].owner \in Protocols
        /\ pl[z].spectators \subseteq Protocols
    BY HeldAre
  <2> QED
    BY <2>1 DEF WorldSound, Held
<1>3. Counted(pr2, pl2)
  <2>1. \A z \in Players : Users(pr2, z) = Users(pr, z)
    BY DEF Users
  <2> QED
    BY <2>1 DEF WorldSound, Counted, There
<1> QED
  BY <1>1, <1>2, <1>3 DEF WorldSound

--------------------------------------------------------------------------------
(* What may wait with the task that runs *)

(* The tasks and events of p are of the kinds K. *)
Waiting(ts, tm, p, K) ==
  /\ \A i \in 1 .. Len(ts) : ts[i].p = p => ts[i].kind \in K
  /\ \A i \in 1 .. Len(tm) : tm[i].p = p => tm[i].kind \in K

LEMMA WaitingQueue ==
  ASSUME NEW pr, NEW ts, NEW tm, QueueSound(pr, ts, tm), NEW p \in Protocols, NEW pr2,
         \A q \in Protocols \ {p} : pr2[q] = pr[q],
         NEW K, Waiting(ts, tm, p, K),
         \A t \in Jobs : t.p = p /\ t.kind \in K /\ Sane(pr, t) => Sane(pr2, t)
  PROVE  QueueSound(pr2, ts, tm)
<1>1. (\A i \in 1 .. Len(ts) : ts[i] \in Jobs) /\ (\A i \in 1 .. Len(tm) : tm[i] \in Jobs)
  BY ElementOfSeq DEF QueueSound
<1>2. /\ \A i \in 1 .. Len(ts) : Sane(pr, ts[i])
      /\ \A i \in 1 .. Len(tm) : Sane(pr, tm[i])
  BY DEF QueueSound
<1>3. \A i \in 1 .. Len(ts) : ts[i].p = p => Sane(pr2, ts[i])
  BY <1>1, <1>2 DEF Waiting
<1>4. \A i \in 1 .. Len(tm) : tm[i].p = p => Sane(pr2, tm[i])
  BY <1>1, <1>2 DEF Waiting
<1> QED
  BY <1>3, <1>4, QueueOther

LEMMA WaitingMore ==
  ASSUME NEW ts \in Seq(Jobs), NEW tm, NEW p, NEW K, Waiting(ts, tm, p, K), "close" \in K,
         NEW S, NEW q, Farewell(S, q)
  PROVE  Waiting(ts \o q, tm, p, K)
<1> DEFINE s == ts \o q
<1>1. /\ Len(s) = Len(ts) + Len(q) /\ Len(ts) \in Nat /\ Len(q) \in Nat
      /\ \A i \in 1 .. Len(ts) + Len(q) : s[i] = IF i <= Len(ts) THEN ts[i] ELSE q[i - Len(ts)]
  BY ConcatProperties, LenProperties DEF Farewell
<1> HIDE DEF s
<1>2. ASSUME NEW i \in 1 .. Len(s)
      PROVE  \/ i \in 1 .. Len(ts) /\ s[i] = ts[i]
             \/ i - Len(ts) \in 1 .. Len(q) /\ s[i] = q[i - Len(ts)]
  BY <1>1
<1>3. \A i \in 1 .. Len(q) : q[i].kind \in K
  BY Zenon DEF Farewell
<1>4. \A i \in 1 .. Len(s) : s[i].p = p => s[i].kind \in K
  <2> TAKE i \in 1 .. Len(s)
  <2>1. CASE i \in 1 .. Len(ts) /\ s[i] = ts[i]
    BY <2>1 DEF Waiting
  <2>2. CASE i - Len(ts) \in 1 .. Len(q) /\ s[i] = q[i - Len(ts)]
    BY <1>3, <2>2
  <2> QED
    BY <1>2, <2>1, <2>2
<1>5. Waiting(s, tm, p, K)
  BY <1>4 DEF Waiting
<1> QED
  BY <1>5 DEF s

LEMMA Taken ==
  ASSUME IInv, NEW t, Takes(t)
  PROVE  /\ t \in Jobs /\ Sane(prot, t)
         /\ QueueSound(prot, Tail(tasks), timers)
         /\ \A i \in 1 .. Len(Tail(tasks)) :
              /\ ~Clash(t, Tail(tasks)[i]) /\ Tail(tasks)[i] \in Jobs
              /\ Sane(prot, Tail(tasks)[i])
         /\ \A i \in 1 .. Len(timers) :
              /\ ~Clash(t, timers[i]) /\ timers[i] \in Jobs
              /\ Sane(prot, timers[i]) /\ timers[i].kind \in Timed
<1>1. QueueSound(prot, tasks, timers) /\ tasks # <<>> /\ Head(tasks) = t
  BY DEF IInv, Good, Takes
<1> DEFINE r == Tail(tasks)
<1>2. /\ QueueSound(prot, r, timers) /\ t \in Jobs /\ Sane(prot, t)
      /\ \A i \in 1 .. Len(r) : ~Clash(t, r[i])
      /\ \A i \in 1 .. Len(timers) : ~Clash(t, timers[i])
  BY <1>1, QueueTail
<1> HIDE DEF r
<1>3. (\A i \in 1 .. Len(r) : r[i] \in Jobs) /\ (\A i \in 1 .. Len(timers) : timers[i] \in Jobs)
  BY <1>2, ElementOfSeq DEF QueueSound
<1>4. /\ \A i \in 1 .. Len(r) : Sane(prot, r[i])
      /\ \A i \in 1 .. Len(timers) : Sane(prot, timers[i]) /\ timers[i].kind \in Timed
  BY <1>2 DEF QueueSound
<1> QED
  BY <1>2, <1>3, <1>4 DEF r

(* After a login or a spectate task of p, only its connection may close. *)
LEMMA FreshAlone ==
  ASSUME IInv, NEW t, Takes(t), t.kind \in Fresh
  PROVE  Waiting(Tail(tasks), timers, t.p, {"disconnect", "close"})
<1>1. \A u \in Jobs : ~Clash(t, u) /\ Sane(prot, u) /\ u.p = t.p => u.kind \in {"disconnect", "close"}
  <2> TAKE u \in Jobs
  <2> HAVE ~Clash(t, u) /\ Sane(prot, u) /\ u.p = t.p
  <2>1. Sane(prot, t)
    BY Taken
  <2>2. u.kind \in Urgent \cup {"close"} \cup Timed
    BY DEF Jobs
  <2> QED
    BY <2>1, <2>2 DEF Clash, Sane, Urgent, Fresh, Timed
<1> QED
  BY <1>1, Taken DEF Waiting

(* With a connect task of p, no login and no other connect. *)
LEMMA ConnectAlone ==
  ASSUME IInv, NEW t, Takes(t), t.kind = "connect"
  PROVE  Waiting(Tail(tasks), timers, t.p, {"logout", "disconnect", "close", "release"})
<1>1. \A u \in Jobs : ~Clash(t, u) /\ Sane(prot, u) /\ u.p = t.p =>
                       u.kind \in {"logout", "disconnect", "close", "release"}
  <2> TAKE u \in Jobs
  <2> HAVE ~Clash(t, u) /\ Sane(prot, u) /\ u.p = t.p
  <2>1. Sane(prot, t)
    BY Taken
  <2>2. u.kind \in Urgent \cup {"close"} \cup Timed
    BY DEF Jobs
  <2> QED
    BY <2>1, <2>2 DEF Clash, Sane, Urgent, Fresh, Timed
<1> QED
  BY <1>1, Taken DEF Waiting

(* With a task that releases p, a connect that holds its m_refCount. *)
LEMMA ReleaseAlone ==
  ASSUME IInv, NEW t, Takes(t), t.kind \in {"close", "release"}
  PROVE  /\ Waiting(Tail(tasks), timers, t.p, {"connect"})
         /\ prot[t.p].refs = 0 => Waiting(Tail(tasks), timers, t.p, {})
<1>1. \A u \in Jobs : ~Clash(t, u) /\ Sane(prot, u) /\ u.p = t.p =>
                       u.kind = "connect" /\ prot[t.p].refs # 0
  <2> TAKE u \in Jobs
  <2> HAVE ~Clash(t, u) /\ Sane(prot, u) /\ u.p = t.p
  <2>1. Sane(prot, t)
    BY Taken
  <2>2. u.kind \in Urgent \cup {"close"} \cup Timed
    BY DEF Jobs
  <2> QED
    BY <2>1, <2>2 DEF Clash, Sane, Urgent, Fresh, Timed
<1> QED
  BY <1>1, Taken DEF Waiting

--------------------------------------------------------------------------------
(* The handlers *)

LEMMA OtherProtocolsStay ==
  ASSUME NEW pr, ProtTyped(pr), NEW p \in Protocols, NEW c \in ProtocolRecords
  PROVE  /\ ProtTyped([pr EXCEPT ![p] = c])
         /\ [pr EXCEPT ![p] = c][p] = c
         /\ \A q \in Protocols \ {p} : [pr EXCEPT ![p] = c][q] = pr[q]
BY DEF ProtTyped

LEMMA ClosedNone ==
  ASSUME NEW pr, ProtTyped(pr)
  PROVE  Closed(pr, {}) = pr
BY DEF Closed, ProtTyped

LEMMA EmptyFarewell == Farewell({}, <<>>)
<1>1. <<>> \in Seq(Jobs) /\ Len(<<>>) = 0
  BY EmptySeq
<1> QED
  BY <1>1 DEF Farewell

(* A login or spectate task closes the protocols of S, and changes what it *)
(* likes of its own protocol but the connection.                           *)
LEMMA FreshQueue ==
  ASSUME IInv, NEW t, Takes(t), t.kind \in Fresh, NEW S, NEW q, Farewell(S, q), NEW pr2,
         \A r \in Protocols \ {t.p} : pr2[r] = Closed(prot, S)[r],
         pr2[t.p].conn = Closed(prot, S)[t.p].conn
  PROVE  QueueSound(pr2, Tail(tasks) \o q, timers)
<1> DEFINE c == Closed(prot, S)
           rest == Tail(tasks)
           ts == rest \o q
           K == {"disconnect", "close"}
<1>1. QueueSound(prot, rest, timers) /\ t.p \in Protocols
  BY Taken DEF Jobs
<1>2. ProtTyped(prot)
  BY DEF IInv, Good
<1>3. Waiting(rest, timers, t.p, K)
  BY FreshAlone
<1> HIDE DEF rest
<1>4. rest \in Seq(Jobs)
  BY <1>1 DEF QueueSound
<1>5. QueueSound(c, ts, timers)
  BY <1>1, <1>2, ClosingQueue
<1>6. Waiting(ts, timers, t.p, K)
  BY <1>3, <1>4, WaitingMore
<1> HIDE DEF ts, c
<1>7. (\A r \in Protocols \ {t.p} : pr2[r] = c[r]) /\ pr2[t.p].conn = c[t.p].conn
  BY DEF c
<1> HIDE DEF K
<1>8. \A u \in Jobs : u.p = t.p /\ u.kind \in K /\ Sane(c, u) => Sane(pr2, u)
  BY <1>7 DEF K, Sane, Urgent, Fresh
<1>9. QueueSound(pr2, ts, timers)
  BY <1>1, <1>5, <1>6, <1>7, <1>8, WaitingQueue
<1> QED
  BY <1>9 DEF ts, rest

LEMMA RefusedKeeps ==
  ASSUME IInv, NEW p \in Protocols, NEW t, Refuses(t, p), UNCHANGED <<plr, timers>>
  PROVE  IInv'
<1>1. /\ prot' = Closed(prot, {p}) /\ tasks' = Tail(tasks) \o Closes({p})
      /\ plr' = plr /\ timers' = timers /\ Takes(t)
  BY DEF Refuses, Runs
<1>2. QueueSound(prot, Tail(tasks), timers)
  BY <1>1, Taken
<1>3. QueueSound(Closed(prot, {p}), Tail(tasks) \o Closes({p}), timers)
  BY <1>2, ClosesFarewell, ClosingQueue DEF IInv, Good
<1>4. ProtTyped(Closed(prot, {p})) /\ PlrTyped(plr) /\ WorldSound(Closed(prot, {p}), plr)
  BY ClosedFacts, ClosedWorld DEF IInv, Good
<1> QED
  BY <1>1, <1>3, <1>4, Zenon DEF IInv, Good

LEMMA HangUpKeeps ==
  ASSUME IInv, NEW p \in Protocols, HangUp(p)
  PROVE  IInv'
<1>1. /\ prot' = Closed(prot, {p}) /\ tasks' = tasks \o Closes({p})
      /\ plr' = plr /\ timers' = timers
  BY DEF HangUp
<1>2. QueueSound(Closed(prot, {p}), tasks \o Closes({p}), timers)
  BY ClosesFarewell, ClosingQueue DEF IInv, Good
<1>3. ProtTyped(Closed(prot, {p})) /\ PlrTyped(plr) /\ WorldSound(Closed(prot, {p}), plr)
  BY ClosedFacts, ClosedWorld DEF IInv, Good
<1> QED
  BY <1>1, <1>2, <1>3, Zenon DEF IInv, Good

LEMMA FirstMessageGood ==
  ASSUME IInv, NEW p \in Protocols, prot[p].conn = "none", NEW k \in Fresh,
         k = "spectate" => p \in Watchers
  PROVE  Good([prot EXCEPT ![p].conn = "open"], plr, Append(tasks, Task(k, p)), timers)
<1> DEFINE c == [prot[p] EXCEPT !.conn = "open"]
           pr == [prot EXCEPT ![p] = c]
           t == Task(k, p)
<1>1. ProtTyped(prot) /\ prot[p] \in ProtocolRecords /\ PlrTyped(plr)
  BY DEF IInv, Good, ProtTyped
<1>2. pr = [prot EXCEPT ![p].conn = "open"]
  BY <1>1 DEF ProtTyped
<1>3. /\ prot[p].player = NoPlayer /\ ~prot[p].watch /\ ~prot[p].accept /\ prot[p].refs = 0
  BY DEF IInv, Good, WorldSound, Bound
<1>4. /\ c \in ProtocolRecords /\ c.conn = "open" /\ c.player = NoPlayer /\ ~c.watch /\ ~c.accept
      /\ c.refs = 0 /\ c.watch = prot[p].watch
  BY <1>1, <1>3 DEF ProtocolRecords
<1> HIDE DEF c
<1>5. ProtTyped(pr) /\ pr[p] = c /\ \A q \in Protocols \ {p} : pr[q] = prot[q]
  BY <1>1, <1>4, OtherProtocolsStay
<1> HIDE DEF pr
<1>6. t \in Jobs /\ t.p = p /\ t.kind = k
  BY DEF Task, Jobs, Timed, Urgent
<1> HIDE DEF t
<1>7. Waiting(tasks, timers, p, {})
  <2>1. \A u \in Jobs : Sane(prot, u) => u.p # p
    BY DEF Jobs, Sane, Urgent, Fresh, Timed
  <2>2. tasks \in Seq(Jobs) /\ timers \in Seq(Jobs)
    BY DEF IInv, Good, QueueSound
  <2>3. /\ \A i \in 1 .. Len(tasks) : tasks[i] \in Jobs /\ Sane(prot, tasks[i])
        /\ \A i \in 1 .. Len(timers) : timers[i] \in Jobs /\ Sane(prot, timers[i])
    BY <2>2, ElementOfSeq DEF IInv, Good, QueueSound
  <2> QED
    BY <2>1, <2>3 DEF Waiting
<1>8. QueueSound(pr, tasks, timers)
  <2>1. QueueSound(prot, tasks, timers)
    BY DEF IInv, Good
  <2> QED
    BY <1>5, <1>7, <2>1, WaitingQueue
<1>9. QueueSound(pr, Append(tasks, t), timers)
  <2>1. Sane(pr, t)
    BY <1>4, <1>5, <1>6 DEF Sane, Fresh, Urgent, Timed
  <2>2. /\ \A i \in 1 .. Len(tasks) : ~Clash(tasks[i], t)
        /\ \A i \in 1 .. Len(timers) : ~Clash(t, timers[i])
    BY <1>6, <1>7 DEF Waiting, Clash
  <2> QED
    BY <1>6, <1>8, <2>1, <2>2, QueueAppend
<1>10. WorldSound(pr, plr)
  <2>1. Bound(prot, plr) /\ Held(prot, plr) /\ Counted(prot, plr)
    BY DEF IInv, Good, WorldSound
  <2>2. \A q \in Protocols : pr[q].player = prot[q].player /\ pr[q].watch = prot[q].watch
    BY <1>3, <1>4, <1>5
  <2>3. Bound(pr, plr)
    BY <1>4, <1>5, <2>1 DEF Bound
  <2>4. Held(pr, plr)
    <3>1. \A y \in Players :
            /\ plr[y].spectators \subseteq Protocols \ {p}
            /\ plr[y].owner # NoProtocol => plr[y].owner \in Protocols \ {p}
      BY <1>1, <1>3, <2>1, HeldAre, SessionAssumption DEF Held
    <3> QED
      BY <1>5, <2>1, <3>1 DEF Held
  <2>5. Counted(pr, plr)
    <3>1. \A y \in Players : Users(pr, y) = Users(prot, y)
      BY <2>2 DEF Users
    <3> QED
      BY <2>1, <3>1 DEF Counted
  <2> QED
    BY <2>3, <2>4, <2>5 DEF WorldSound
<1> QED
  BY <1>1, <1>2, <1>5, <1>9, <1>10 DEF Good, t

LEMMA FirstMessageKeeps ==
  ASSUME IInv, NEW p \in Protocols, FirstMessage(p)
  PROVE  IInv'
<1>1. PICK k \in Fresh : /\ tasks' = Append(tasks, Task(k, p))
                         /\ k = "spectate" => p \in Watchers
  BY DEF FirstMessage, Fresh
<1>2. Good([prot EXCEPT ![p].conn = "open"], plr, Append(tasks, Task(k, p)), timers)
  <2>1. prot[p].conn = "none"
    BY DEF FirstMessage
  <2>2. k = "spectate" => p \in Watchers
    BY <1>1
  <2> QED
    BY <2>1, <2>2, FirstMessageGood
<1>3. prot' = [prot EXCEPT ![p].conn = "open"] /\ plr' = plr /\ timers' = timers
  BY DEF FirstMessage
<1> QED
  BY <1>1, <1>2, <1>3, Zenon DEF IInv

LEMMA LogoutPacketKeeps ==
  ASSUME IInv, NEW p \in Protocols, LogoutPacket(p)
  PROVE  IInv'
<1> DEFINE t == Task(IF IsSpectator(p) THEN "disconnect" ELSE "logout", p)
<1>1. /\ t \in Jobs /\ t.p = p /\ t.kind \in {"disconnect", "logout"}
      /\ t.kind = "logout" => ~prot[p].watch
  BY DEF Task, Jobs, Timed, Urgent, IsSpectator
<1>2. /\ prot[p].conn = "open" /\ prot[p].accept /\ tasks' = Append(tasks, t)
      /\ prot' = prot /\ plr' = plr /\ timers' = timers
  BY DEF LogoutPacket
<1> HIDE DEF t
<1>3. Sane(prot, t)
  BY <1>1, <1>2 DEF Sane, Fresh, Urgent
<1>4. QueueSound(prot, tasks, timers)
  BY DEF IInv, Good
<1>5. /\ \A i \in 1 .. Len(tasks) : ~Clash(tasks[i], t)
      /\ \A i \in 1 .. Len(timers) : ~Clash(t, timers[i])
  BY <1>1, <1>2, <1>4 DEF QueueSound, Clash, Sane, Fresh, Urgent, Timed
<1>6. QueueSound(prot, Append(tasks, t), timers)
  BY <1>1, <1>3, <1>4, <1>5, QueueAppend
<1> QED
  BY <1>2, <1>6, Zenon DEF IInv, Good

LEMMA FireKeeps ==
  ASSUME IInv, NEW i \in DOMAIN timers, Fire(i)
  PROVE  IInv'
<1>1. /\ tasks' = Append(tasks, timers[i])
      /\ timers' = SubSeq(timers, 1, i - 1) \o SubSeq(timers, i + 1, Len(timers))
      /\ prot' = prot /\ plr' = plr
  BY DEF Fire
<1>2. QueueSound(prot, tasks, timers) /\ i \in 1 .. Len(timers)
  BY LenProperties DEF IInv, Good, QueueSound
<1>3. QueueSound(prot, Append(tasks, timers[i]),
                 SubSeq(timers, 1, i - 1) \o SubSeq(timers, i + 1, Len(timers)))
  BY <1>2, QueueFires
<1> QED
  BY <1>1, <1>3, Zenon DEF IInv, Good

(* A login or spectate task gives its protocol the player y. *)
LEMMA JoinedGood ==
  ASSUME IInv, NEW t, Takes(t), t.kind \in Fresh, NEW y \in Players,
         NEW S, NEW q, Farewell(S, q),
         NEW c \in ProtocolRecords, c.conn = Closed(prot, S)[t.p].conn, c.player = y,
         NEW r \in PlayerRecords, There(r),
         \/ r.owner = t.p /\ ~c.watch /\ plr[y].owner = NoProtocol
         \/ r.owner = plr[y].owner /\ c.watch,
         \/ r.spectators \subseteq plr[y].spectators
         \/ r.spectators = plr[y].spectators \cup {t.p} /\ c.watch,
         r.spectators # {} => r.stage = "world" /\ r.broadcast,
         r.refs = (Cardinality(Users(prot, y)) + 1) + r.freed
                  + (IF r.stage = "world" THEN 1 ELSE 0) + (IF r.inVector THEN 1 ELSE 0)
  PROVE  Good([Closed(prot, S) EXCEPT ![t.p] = c], [plr EXCEPT ![y] = r], Tail(tasks) \o q, timers)
<1> DEFINE d == Closed(prot, S)
           pr2 == [d EXCEPT ![t.p] = c]
           pl2 == [plr EXCEPT ![y] = r]
<1>1. ProtTyped(prot) /\ PlrTyped(plr) /\ WorldSound(prot, plr)
  BY DEF IInv, Good
<1>2. t.p \in Protocols /\ Sane(prot, t)
  BY Taken DEF Jobs
<1>3. /\ ProtTyped(d) /\ WorldSound(d, plr)
      /\ \A p \in Protocols : d[p].player = prot[p].player
      /\ d[t.p].player = NoPlayer /\ d[t.p].conn \in {"open", "closing"}
  BY <1>1, <1>2, ClosedFacts, ClosedWorld DEF Sane, Fresh, Urgent
<1>4. Users(d, y) = Users(prot, y)
  BY <1>3, UsersSame
<1>5. d[t.p].conn = c.conn
  OBVIOUS
<1> HIDE DEF d
<1>6. ProtTyped(pr2) /\ pr2[t.p] = c /\ \A p \in Protocols \ {t.p} : pr2[p] = d[p]
  BY <1>2, <1>3, OtherProtocolsStay
<1>7. PlrTyped(pl2) /\ pl2[y] = r /\ \A z \in Players : z # y => pl2[z] = plr[z]
  BY <1>1, OtherPlayersStay
<1> HIDE DEF pr2, pl2
<1>8. QueueSound(pr2, Tail(tasks) \o q, timers)
  BY <1>2, <1>5, <1>6, FreshQueue DEF d
<1>9. WorldSound(pr2, pl2)
  <2>1. pl2[y].refs = (Cardinality(Users(d, y)) + 1) + pl2[y].freed
                      + (IF pl2[y].stage = "world" THEN 1 ELSE 0)
                      + (IF pl2[y].inVector THEN 1 ELSE 0)
    BY <1>4, <1>7
  <2>2. pr2[t.p].player = y /\ pr2[t.p].conn \in {"open", "closing", "released"} /\ There(pl2[y])
    BY <1>3, <1>5, <1>6, <1>7
  <2>3. \/ pl2[y].owner = t.p /\ ~pr2[t.p].watch /\ plr[y].owner = NoProtocol
        \/ pl2[y].owner = plr[y].owner /\ pr2[t.p].watch
    BY <1>6, <1>7
  <2>4. \/ pl2[y].spectators \subseteq plr[y].spectators
        \/ /\ pl2[y].spectators = plr[y].spectators \cup {t.p}
           /\ pr2[t.p].watch /\ pr2[t.p].conn \in {"open", "closing"}
    BY <1>3, <1>5, <1>6, <1>7
  <2>5. pl2[y].spectators # {} => pl2[y].stage = "world" /\ pl2[y].broadcast
    BY <1>7
  <2>6. \A z \in Players \ {y} : pl2[z] = plr[z]
    BY <1>7
  <2> QED
    BY <1>1, <1>2, <1>3, <1>6, <1>7, <2>1, <2>2, <2>3, <2>4, <2>5, <2>6, JoinedWorld
<1> QED
  BY <1>6, <1>7, <1>8, <1>9 DEF Good, pr2, pl2, d

LEMMA LoginNewFacts ==
  ASSUME IInv, NEW p \in Protocols, NEW y \in Players, LoginNew(p, y)
  PROVE  /\ Users(prot, y) = {} /\ Cardinality(Users(prot, y)) = 0
         /\ plr[y].owner = NoProtocol /\ plr[y].spectators = {} /\ plr[y].freed = 0
         /\ ~plr[y].inVector /\ plr[y].refs = 0 /\ plr[y] \in PlayerRecords
         /\ plr[y].stage = "none"
         /\ prot[p] \in ProtocolRecords /\ ~prot[p].watch
<1>1. ProtTyped(prot) /\ PlrTyped(plr) /\ WorldSound(prot, plr)
  BY DEF IInv, Good
<1>2. ~There(plr[y]) /\ y # NoPlayer /\ plr[y].stage = "none"
  BY SessionAssumption DEF LoginNew, There
<1>3. \A q \in Protocols : prot[q].player # y
  BY <1>1, <1>2 DEF WorldSound, Bound
<1>4. Users(prot, y) = {}
  BY <1>3 DEF Users
<1>5. Cardinality(Users(prot, y)) = 0
  BY <1>4, FS_EmptySet
<1>6. plr[y].owner = NoProtocol /\ plr[y].spectators = {}
  BY <1>1, <1>3, HeldAre DEF WorldSound, Held
<1>7. plr[y].freed = 0 /\ ~plr[y].inVector /\ plr[y].refs = 0
  BY <1>1, <1>2 DEF WorldSound, Counted
<1>8. Task("login", p).kind \in Fresh /\ Task("login", p).p = p
  BY DEF Task, Fresh
<1>9. Sane(prot, Task("login", p))
  BY Taken DEF LoginNew
<1>10. ~prot[p].watch
  BY <1>8, <1>9 DEF Sane
<1> QED
  BY <1>1, <1>2, <1>4, <1>5, <1>6, <1>7, <1>10 DEF PlrTyped, ProtTyped

(* A new player that p owns, whatever becomes of it. *)
LEMMA EnteredGood ==
  ASSUME IInv, NEW p \in Protocols, NEW y \in Players, LoginNew(p, y),
         NEW S, NEW q, Farewell(S, q),
         NEW c \in ProtocolRecords, c.conn = Closed(prot, S)[p].conn, c.player = y, ~c.watch,
         NEW r \in PlayerRecords, There(r), r.owner = p, r.spectators = {},
         r.refs = 1 + r.freed + (IF r.stage = "world" THEN 1 ELSE 0)
                  + (IF r.inVector THEN 1 ELSE 0)
  PROVE  Good([Closed(prot, S) EXCEPT ![p] = c], [plr EXCEPT ![y] = r], Tail(tasks) \o q, timers)
<1> DEFINE t == Task("login", p)
<1>1. t.kind \in Fresh /\ t.p = p /\ Takes(t)
  BY DEF Task, Fresh, LoginNew
<1> HIDE DEF t
<1>2. plr[y].owner = NoProtocol /\ Cardinality(Users(prot, y)) = 0
  BY LoginNewFacts
<1>3. r.refs = (Cardinality(Users(prot, y)) + 1) + r.freed
               + (IF r.stage = "world" THEN 1 ELSE 0) + (IF r.inVector THEN 1 ELSE 0)
  BY <1>2
<1>4. /\ \/ r.owner = t.p /\ ~c.watch /\ plr[y].owner = NoProtocol
         \/ r.owner = plr[y].owner /\ c.watch
      /\ \/ r.spectators \subseteq plr[y].spectators
         \/ r.spectators = plr[y].spectators \cup {t.p} /\ c.watch
      /\ r.spectators # {} => r.stage = "world" /\ r.broadcast
      /\ c.conn = Closed(prot, S)[t.p].conn
  BY <1>1, <1>2
<1>5. Good([Closed(prot, S) EXCEPT ![t.p] = c], [plr EXCEPT ![y] = r], Tail(tasks) \o q, timers)
  BY <1>1, <1>3, <1>4, JoinedGood
<1> QED
  BY <1>1, <1>5, Zenon

(* What a login makes of its protocol. *)
LEMMA LoginRecord ==
  ASSUME IInv, NEW p \in Protocols, NEW y \in Players, NEW S, NEW a \in BOOLEAN, ~prot[p].watch
  PROVE  /\ [Closed(prot, S)[p] EXCEPT !.player = y, !.accept = a] \in ProtocolRecords
         /\ [Closed(prot, S)[p] EXCEPT !.player = y, !.accept = a].conn = Closed(prot, S)[p].conn
         /\ [Closed(prot, S)[p] EXCEPT !.player = y, !.accept = a].player = y
         /\ ~[Closed(prot, S)[p] EXCEPT !.player = y, !.accept = a].watch
<1> DEFINE d == Closed(prot, S)[p]
<1>1. d \in ProtocolRecords /\ ~d.watch
  BY ClosedFacts DEF IInv, Good, ProtTyped
<1> HIDE DEF d
<1>2. [d EXCEPT !.player = y, !.accept = a] \in ProtocolRecords
  BY <1>1 DEF ProtocolRecords
<1>3. /\ [d EXCEPT !.player = y, !.accept = a].conn = d.conn
      /\ [d EXCEPT !.player = y, !.accept = a].player = y
      /\ ~[d EXCEPT !.player = y, !.accept = a].watch
  BY <1>1 DEF ProtocolRecords
<1> QED
  BY <1>2, <1>3 DEF d

LEMMA PlacedRecord ==
  ASSUME NEW p \in Protocols
  PROVE  /\ Placed(p) \in PlayerRecords /\ Placed(p).stage = "world" /\ Placed(p).owner = p
         /\ Placed(p).spectators = {} /\ Placed(p).refs = 3 /\ Placed(p).freed = 0
         /\ Placed(p).inVector
BY DEF Placed, NewPlayer, PlayerRecords

LEMMA LoginRefusedKeeps ==
  ASSUME IInv, NEW p \in Protocols, NEW y \in Players, LoginRefused(p, y)
  PROVE  IInv'
<1> DEFINE d == Closed(prot, {p})
           c == [d[p] EXCEPT !.player = y]
           r == [plr[y] EXCEPT !.stage = "new", !.owner = p, !.refs = 1]
<1>1. LoginNew(p, y)
  BY DEF LoginRefused
<1>2. /\ prot' = [d EXCEPT ![p].player = y]
      /\ plr' = [plr EXCEPT ![y] = r]
      /\ tasks' = Tail(tasks) \o Closes({p}) /\ timers' = timers
  BY DEF LoginRefused, Runs
<1>3. ProtTyped(d) /\ d[p] \in ProtocolRecords /\ d[p].watch = prot[p].watch
  BY ClosedFacts DEF IInv, Good, ProtTyped
<1>4. /\ plr[y] \in PlayerRecords /\ plr[y].spectators = {} /\ plr[y].freed = 0
      /\ ~plr[y].inVector /\ ~prot[p].watch
  BY <1>1, LoginNewFacts
<1> HIDE DEF d
<1>5. prot' = [d EXCEPT ![p] = c]
  BY <1>2, <1>3 DEF ProtTyped
<1>6. c \in ProtocolRecords /\ c.conn = d[p].conn /\ c.player = y /\ ~c.watch
  BY <1>3, <1>4 DEF ProtocolRecords
<1>7. /\ r \in PlayerRecords /\ r.owner = p /\ r.spectators = {} /\ r.refs = 1
      /\ r.freed = 0 /\ ~r.inVector /\ r.stage = "new"
  BY <1>4 DEF PlayerRecords
<1> HIDE DEF c, r
<1>8. There(r) /\ r.refs = 1 + r.freed + (IF r.stage = "world" THEN 1 ELSE 0)
                           + (IF r.inVector THEN 1 ELSE 0)
  BY <1>7 DEF There
<1>9. Farewell({p}, Closes({p}))
  BY ClosesFarewell
<1>10. Good([d EXCEPT ![p] = c], [plr EXCEPT ![y] = r], Tail(tasks) \o Closes({p}), timers)
  BY <1>1, <1>6, <1>7, <1>8, <1>9, EnteredGood DEF d
<1> QED
  BY <1>2, <1>5, <1>10, Zenon DEF IInv

LEMMA LoginPlacedKeeps ==
  ASSUME IInv, NEW p \in Protocols, NEW y \in Players, LoginPlaced(p, y)
  PROVE  IInv'
<1> DEFINE d == Closed(prot, {})
           c == [d[p] EXCEPT !.player = y, !.accept = TRUE]
           r == Placed(p)
<1>1. LoginNew(p, y)
  BY DEF LoginPlaced
<1>2. /\ prot' = [prot EXCEPT ![p].player = y, ![p].accept = TRUE]
      /\ plr' = [plr EXCEPT ![y] = r]
      /\ tasks' = Tail(tasks) \o <<>> /\ timers' = timers
  BY DEF LoginPlaced, Runs
<1>3. d = prot /\ ProtTyped(prot)
  BY ClosedNone DEF IInv, Good
<1>4. ~prot[p].watch
  BY <1>1, LoginNewFacts
<1>5. c \in ProtocolRecords /\ c.conn = d[p].conn /\ c.player = y /\ ~c.watch
  BY ZenonT(60), <1>4, LoginRecord
<1> HIDE DEF d
<1>6. prot' = [d EXCEPT ![p] = c]
  BY <1>2, <1>3 DEF ProtTyped
<1>7. /\ r \in PlayerRecords /\ r.owner = p /\ r.spectators = {} /\ r.refs = 3
      /\ r.freed = 0 /\ r.inVector /\ r.stage = "world"
  BY PlacedRecord
<1> HIDE DEF c, r
<1>8. There(r) /\ r.refs = 1 + r.freed + (IF r.stage = "world" THEN 1 ELSE 0)
                           + (IF r.inVector THEN 1 ELSE 0)
  BY <1>7 DEF There
<1>9. Good([d EXCEPT ![p] = c], [plr EXCEPT ![y] = r], Tail(tasks) \o <<>>, timers)
  BY <1>1, <1>5, <1>7, <1>8, EmptyFarewell, EnteredGood DEF d
<1> QED
  BY <1>2, <1>6, <1>9, Zenon DEF IInv

LEMMA LoginKickedKeeps ==
  ASSUME IInv, NEW p \in Protocols, NEW y \in Players, LoginKicked(p, y)
  PROVE  IInv'
<1> DEFINE d == Closed(prot, {p})
           c == [d[p] EXCEPT !.player = y, !.accept = TRUE]
           r == Removed(Placed(p))
<1>1. LoginNew(p, y)
  BY DEF LoginKicked
<1>2. /\ prot' = [d EXCEPT ![p].player = y, ![p].accept = TRUE]
      /\ plr' = [plr EXCEPT ![y] = r]
      /\ tasks' = Tail(tasks) \o Closes({p}) /\ timers' = timers
  BY DEF LoginKicked, Runs
<1>3. ProtTyped(d)
  BY ClosedFacts DEF IInv, Good
<1>4. ~prot[p].watch
  BY <1>1, LoginNewFacts
<1>5. c \in ProtocolRecords /\ c.conn = d[p].conn /\ c.player = y /\ ~c.watch
  BY ZenonT(60), <1>4, LoginRecord
<1> HIDE DEF d
<1>6. prot' = [d EXCEPT ![p] = c]
  BY <1>2, <1>3 DEF ProtTyped
<1>7. /\ r \in PlayerRecords /\ r.owner = p /\ r.spectators = {} /\ r.refs = 3
      /\ r.freed = 0 + 1 /\ r.inVector /\ r.stage = "removed"
  <2> DEFINE b == Placed(p)
  <2>1. /\ b \in PlayerRecords /\ b.owner = p /\ b.refs = 3 /\ b.freed = 0 /\ b.inVector
    BY PlacedRecord
  <2> HIDE DEF b
  <2>2. LET e == Removed(b)
        IN  /\ e \in PlayerRecords /\ e.owner = p /\ e.spectators = {} /\ e.refs = 3
            /\ e.freed = 0 + 1 /\ e.inVector /\ e.stage = "removed"
    BY <2>1, RemovedRecord
  <2> QED
    BY <2>2 DEF b
<1> HIDE DEF c, r
<1>8. There(r) /\ r.refs = 1 + r.freed + (IF r.stage = "world" THEN 1 ELSE 0)
                           + (IF r.inVector THEN 1 ELSE 0)
  BY <1>7 DEF There
<1>9. Farewell({p}, Closes({p}))
  BY ClosesFarewell
<1>10. Good([d EXCEPT ![p] = c], [plr EXCEPT ![y] = r], Tail(tasks) \o Closes({p}), timers)
  BY <1>1, <1>5, <1>7, <1>8, <1>9, EnteredGood DEF d
<1> QED
  BY <1>2, <1>6, <1>10, Zenon DEF IInv

(* What connect() makes of the protocol and of the player. *)
AttachedRecord(p, y, n) ==
  [prot[p] EXCEPT !.player = y, !.accept = TRUE, !.event = FALSE, !.refs = n]

OwnedRecord(p, y) == [plr[y] EXCEPT !.owner = p, !.connecting = FALSE, !.refs = @ + 1]

LEMMA AttachedFacts ==
  ASSUME IInv, NEW p \in Protocols, NEW y \in Players, ~prot[p].watch, NEW n \in 0 .. 1
  PROVE  /\ AttachedRecord(p, y, n) \in ProtocolRecords
         /\ AttachedRecord(p, y, n).conn = prot[p].conn /\ AttachedRecord(p, y, n).player = y
         /\ ~AttachedRecord(p, y, n).watch /\ AttachedRecord(p, y, n).accept
<1> DEFINE c == AttachedRecord(p, y, n)
<1>1. prot[p] \in ProtocolRecords
  BY DEF IInv, Good, ProtTyped
<1>2. c \in ProtocolRecords /\ c.conn = prot[p].conn /\ c.player = y /\ ~c.watch /\ c.accept
  BY <1>1 DEF AttachedRecord, ProtocolRecords
<1> QED
  BY <1>2

LEMMA AttachedIs ==
  ASSUME IInv, NEW p \in Protocols, NEW y \in Players, NEW n, Attached(p, y, n)
  PROVE  /\ prot' = [prot EXCEPT ![p] = AttachedRecord(p, y, n)]
         /\ plr' = [plr EXCEPT ![y] = OwnedRecord(p, y)]
<1>1. ProtTyped(prot) /\ PlrTyped(plr)
  BY DEF IInv, Good
<1>2. prot' = [prot EXCEPT ![p] = AttachedRecord(p, y, n)]
  BY <1>1 DEF ProtTyped, AttachedRecord, Attached
<1>3. plr' = [plr EXCEPT ![y] = OwnedRecord(p, y)]
  BY <1>1 DEF PlrTyped, OwnedRecord, Attached
<1> QED
  BY <1>2, <1>3

LEMMA OwnedFacts ==
  ASSUME IInv, NEW p \in Protocols, NEW y \in Players, Connectable(y)
  PROVE  /\ OwnedRecord(p, y) \in PlayerRecords /\ There(OwnedRecord(p, y))
         /\ OwnedRecord(p, y).owner = p /\ plr[y].owner = NoProtocol
         /\ OwnedRecord(p, y).spectators = plr[y].spectators
         /\ OwnedRecord(p, y).spectators # {} =>
              OwnedRecord(p, y).stage = "world" /\ OwnedRecord(p, y).broadcast
         /\ OwnedRecord(p, y).refs =
              (Cardinality(Users(prot, y)) + 1) + OwnedRecord(p, y).freed
              + (IF OwnedRecord(p, y).stage = "world" THEN 1 ELSE 0)
              + (IF OwnedRecord(p, y).inVector THEN 1 ELSE 0)
<1> DEFINE r == OwnedRecord(p, y)
           m == plr[y].refs + 1
<1>1. /\ ProtTyped(prot) /\ PlrTyped(plr) /\ WorldSound(prot, plr)
      /\ prot[p] \in ProtocolRecords /\ plr[y] \in PlayerRecords
  BY DEF IInv, Good, ProtTyped, PlrTyped
<1>2. plr[y].stage = "world" /\ plr[y].owner = NoProtocol
  BY DEF Connectable, InWorld, HasClient
<1>6. m \in Nat /\ plr[y].refs \in Nat /\ plr[y].freed \in Nat
  BY <1>1 DEF PlayerRecords
<1>7. r = [plr[y] EXCEPT !.owner = p, !.connecting = FALSE, !.refs = m]
  BY DEF OwnedRecord
<1>8. m = plr[y].refs + 1
  OBVIOUS
<1> HIDE DEF m, r
<1>9. /\ r \in PlayerRecords /\ r.owner = p /\ r.spectators = plr[y].spectators
      /\ r.stage = "world" /\ r.broadcast = plr[y].broadcast /\ r.refs = m
      /\ r.freed = plr[y].freed /\ r.inVector = plr[y].inVector
  BY <1>1, <1>2, <1>6, <1>7 DEF PlayerRecords
<1>10. There(r) /\ (r.spectators # {} => r.stage = "world" /\ r.broadcast)
  BY <1>1, <1>9 DEF There, WorldSound, Held
<1>11. r.refs = (Cardinality(Users(prot, y)) + 1) + r.freed
               + (IF r.stage = "world" THEN 1 ELSE 0) + (IF r.inVector THEN 1 ELSE 0)
  <2> DEFINE v == IF plr[y].inVector THEN 1 ELSE 0
             k == Cardinality(Users(prot, y))
  <2>1. plr[y].refs = k + plr[y].freed + 1 + v
    BY <1>1, <1>2 DEF WorldSound, Counted, There
  <2>2. v \in Nat /\ k \in Nat
    BY UsersFinite
  <2>3. r.refs = m /\ r.freed = plr[y].freed /\ r.stage = "world"
        /\ v = IF r.inVector THEN 1 ELSE 0
    BY <1>9
  <2> HIDE DEF v, k
  <2>4. m = (k + 1) + plr[y].freed + 1 + v
    BY <1>6, <1>8, <2>1, <2>2
  <2> QED
    BY <2>3, <2>4 DEF k
<1> QED
  BY <1>2, <1>9, <1>10, <1>11 DEF r

LEMMA LoginResumesKeeps ==
  ASSUME IInv, NEW p \in Protocols, NEW y \in Players, LoginResumes(p, y)
  PROVE  IInv'
<1> DEFINE t == Task("login", p)
           c == AttachedRecord(p, y, 0)
           r == OwnedRecord(p, y)
<1>1. Takes(t) /\ Connectable(y) /\ t.kind \in Fresh /\ t.p = p
  BY DEF LoginResumes, LoginFound, Connectable, Task, Fresh
<1> HIDE DEF t
<1>2. ~prot[p].watch /\ prot[p].refs = 0
  BY <1>1, Taken DEF Sane
<1>3. Attached(p, y, 0) /\ tasks' = Tail(tasks) \o <<>> /\ timers' = timers
  BY <1>2 DEF LoginResumes, Runs
<1> HIDE DEF c, r
<1>4. /\ c \in ProtocolRecords /\ c.conn = prot[p].conn /\ c.player = y /\ ~c.watch
      /\ prot' = [prot EXCEPT ![p] = c] /\ plr' = [plr EXCEPT ![y] = r]
      /\ r \in PlayerRecords /\ There(r) /\ r.owner = p /\ plr[y].owner = NoProtocol
      /\ r.spectators = plr[y].spectators
      /\ r.spectators # {} => r.stage = "world" /\ r.broadcast
      /\ r.refs = (Cardinality(Users(prot, y)) + 1) + r.freed
                  + (IF r.stage = "world" THEN 1 ELSE 0) + (IF r.inVector THEN 1 ELSE 0)
  <2>1. 0 \in 0 .. 1
    OBVIOUS
  <2>2. /\ c \in ProtocolRecords /\ c.conn = prot[p].conn /\ c.player = y /\ ~c.watch
    BY <1>2, <2>1, AttachedFacts DEF c
  <2>3. /\ r \in PlayerRecords /\ There(r) /\ r.owner = p /\ plr[y].owner = NoProtocol
        /\ r.spectators = plr[y].spectators
        /\ r.spectators # {} => r.stage = "world" /\ r.broadcast
        /\ r.refs = (Cardinality(Users(prot, y)) + 1) + r.freed
                    + (IF r.stage = "world" THEN 1 ELSE 0) + (IF r.inVector THEN 1 ELSE 0)
    BY <1>1, OwnedFacts DEF r
  <2>4. prot' = [prot EXCEPT ![p] = c] /\ plr' = [plr EXCEPT ![y] = r]
    BY <1>3, AttachedIs DEF c, r
  <2> QED
    BY <2>2, <2>3, <2>4, Zenon
<1>5. Closed(prot, {}) = prot
  BY ClosedNone DEF IInv, Good
<1>6. Good([Closed(prot, {}) EXCEPT ![t.p] = c], [plr EXCEPT ![y] = r], Tail(tasks) \o <<>>, timers)
  <2>1. c.conn = Closed(prot, {})[t.p].conn
    BY <1>1, <1>4, <1>5
  <2>2. /\ \/ r.owner = t.p /\ ~c.watch /\ plr[y].owner = NoProtocol
           \/ r.owner = plr[y].owner /\ c.watch
        /\ \/ r.spectators \subseteq plr[y].spectators
           \/ r.spectators = plr[y].spectators \cup {t.p} /\ c.watch
    BY <1>1, <1>4
  <2> QED
    BY <1>1, <1>4, <2>1, <2>2, EmptyFarewell, JoinedGood
<1> QED
  BY <1>1, <1>3, <1>4, <1>5, <1>6, Zenon DEF IInv

LEMMA SpectateKeeps ==
  ASSUME IInv, NEW p \in Protocols, NEW y \in Players, Spectate(p, y)
  PROVE  IInv'
<1> DEFINE t == Task("spectate", p)
           c == [prot[p] EXCEPT !.player = y, !.watch = TRUE, !.accept = TRUE]
           m == plr[y].refs + 1
           e == plr[y].spectators \cup {p}
           r == [plr[y] EXCEPT !.spectators = e, !.refs = m]
<1>1. Takes(t) /\ t.kind \in Fresh /\ t.p = p
  BY DEF Spectate, Runs, Task, Fresh
<1>2. plr[y].stage = "world" /\ plr[y].broadcast
  BY DEF Spectate, InWorld
<1>3. /\ prot' = [prot EXCEPT ![p].player = y, ![p].watch = TRUE, ![p].accept = TRUE]
      /\ plr' = [plr EXCEPT ![y].spectators = @ \cup {p}, ![y].refs = @ + 1]
      /\ tasks' = Tail(tasks) \o <<>> /\ timers' = timers
  BY DEF Spectate, Runs
<1>4. /\ ProtTyped(prot) /\ PlrTyped(plr) /\ WorldSound(prot, plr)
      /\ prot[p] \in ProtocolRecords /\ plr[y] \in PlayerRecords
  BY DEF IInv, Good, ProtTyped, PlrTyped
<1>5. prot' = [prot EXCEPT ![p] = c] /\ plr' = [plr EXCEPT ![y] = r]
  BY <1>3, <1>4 DEF ProtTyped, PlrTyped
<1>6. c \in ProtocolRecords /\ c.conn = prot[p].conn /\ c.player = y /\ c.watch
  BY <1>4 DEF ProtocolRecords
<1>7. m \in Nat /\ plr[y].refs \in Nat /\ plr[y].freed \in Nat /\ m = plr[y].refs + 1
  BY <1>4 DEF PlayerRecords
<1>8. e \in SUBSET Watchers /\ e = plr[y].spectators \cup {p}
  <2>1. t.kind = "spectate"
    BY DEF Task
  <2>2. p \in Watchers
    <3> HIDE DEF t
    <3> QED
      BY <1>1, <2>1, Taken DEF Sane
  <2> QED
    BY <1>4, <2>2 DEF PlayerRecords
<1> HIDE DEF m, c, e, t
<1>9. /\ r \in PlayerRecords /\ r.owner = plr[y].owner /\ r.spectators = e
      /\ r.stage = "world" /\ r.broadcast /\ r.refs = m
      /\ r.freed = plr[y].freed /\ r.inVector = plr[y].inVector
  BY <1>2, <1>4, <1>7, <1>8 DEF PlayerRecords
<1> HIDE DEF r
<1>10. r.refs = (Cardinality(Users(prot, y)) + 1) + r.freed
                + (IF r.stage = "world" THEN 1 ELSE 0) + (IF r.inVector THEN 1 ELSE 0)
  <2> DEFINE v == IF plr[y].inVector THEN 1 ELSE 0
             k == Cardinality(Users(prot, y))
  <2>1. plr[y].refs = k + plr[y].freed + 1 + v
    BY <1>2, <1>4 DEF WorldSound, Counted, There
  <2>2. v \in Nat /\ k \in Nat
    BY UsersFinite
  <2>3. v = IF r.inVector THEN 1 ELSE 0
    BY <1>9
  <2> HIDE DEF v, k
  <2>4. m = (k + 1) + plr[y].freed + 1 + v
    BY <1>7, <2>1, <2>2
  <2> QED
    BY <1>9, <2>3, <2>4 DEF k
<1>11. Closed(prot, {}) = prot
  BY <1>4, ClosedNone
<1>12. Good([Closed(prot, {}) EXCEPT ![t.p] = c], [plr EXCEPT ![y] = r], Tail(tasks) \o <<>>, timers)
  <2>1. c.conn = Closed(prot, {})[t.p].conn
    BY <1>1, <1>6, <1>11
  <2>2. /\ There(r)
        /\ \/ r.owner = t.p /\ ~c.watch /\ plr[y].owner = NoProtocol
           \/ r.owner = plr[y].owner /\ c.watch
        /\ \/ r.spectators \subseteq plr[y].spectators
           \/ r.spectators = plr[y].spectators \cup {t.p} /\ c.watch
        /\ r.spectators # {} => r.stage = "world" /\ r.broadcast
    BY <1>1, <1>6, <1>8, <1>9 DEF There
  <2> QED
    BY <1>1, <1>6, <1>9, <1>10, <2>1, <2>2, EmptyFarewell, JoinedGood
<1> QED
  BY <1>1, <1>3, <1>5, <1>11, <1>12, Zenon DEF IInv

LEMMA ConnectTaskFacts ==
  ASSUME NEW p \in Protocols, NEW y \in Players
  PROVE  /\ ConnectTask(p, y) \in Jobs /\ ConnectTask(p, y).kind = "connect"
         /\ ConnectTask(p, y).p = p /\ ConnectTask(p, y).id = y
BY DEF ConnectTask, Jobs, Timed

LEMMA ConnectKeeps ==
  ASSUME IInv, NEW p \in Protocols, NEW y \in Players, Connect(p, y)
  PROVE  IInv'
<1> DEFINE t == ConnectTask(p, y)
           c == AttachedRecord(p, y, 0)
           r == OwnedRecord(p, y)
           pr2 == [prot EXCEPT ![p] = c]
           pl2 == [plr EXCEPT ![y] = r]
           rest == Tail(tasks)
           K == {"logout", "disconnect", "close", "release"}
<1>1. t.kind = "connect" /\ t.p = p
  BY ConnectTaskFacts
<1>2. Takes(t) /\ Connectable(y)
  BY DEF Connect, Runs
<1> HIDE DEF t
<1>3. /\ ~prot[p].watch /\ prot[p].player = NoPlayer /\ prot[p].refs = 1
      /\ prot[p].conn \in {"open", "closing", "released"}
  BY <1>1, <1>2, Taken DEF Sane
<1>4. Attached(p, y, 0) /\ tasks' = rest \o <<>> /\ timers' = timers
  BY <1>3 DEF Connect, Runs
<1>5. QueueSound(prot, rest, timers) /\ Waiting(rest, timers, p, K)
  BY <1>1, <1>2, Taken, ConnectAlone
<1>6. rest \o <<>> = rest
  BY <1>5, ConcatEmptySeq DEF QueueSound
<1>7. c \in ProtocolRecords /\ c.conn = prot[p].conn /\ c.player = y /\ ~c.watch /\ c.accept
  <2>1. 0 \in 0 .. 1
    OBVIOUS
  <2> QED
    BY <1>3, <2>1, AttachedFacts
<1>8. /\ r \in PlayerRecords /\ There(r) /\ r.owner = p /\ plr[y].owner = NoProtocol
      /\ r.spectators = plr[y].spectators
      /\ r.spectators # {} => r.stage = "world" /\ r.broadcast
      /\ r.refs = (Cardinality(Users(prot, y)) + 1) + r.freed
                  + (IF r.stage = "world" THEN 1 ELSE 0) + (IF r.inVector THEN 1 ELSE 0)
  BY <1>2, OwnedFacts
<1>9. prot' = pr2 /\ plr' = pl2
  BY <1>4, AttachedIs
<1>10. ProtTyped(prot) /\ PlrTyped(plr) /\ WorldSound(prot, plr)
  BY DEF IInv, Good
<1> HIDE DEF c, r, rest
<1>11. ProtTyped(pr2) /\ pr2[p] = c /\ \A q \in Protocols \ {p} : pr2[q] = prot[q]
  BY <1>7, <1>10, OtherProtocolsStay
<1>12. PlrTyped(pl2) /\ pl2[y] = r /\ \A z \in Players : z # y => pl2[z] = plr[z]
  BY <1>8, <1>10, OtherPlayersStay
<1> HIDE DEF pr2, pl2
<1>13. QueueSound(pr2, rest, timers)
  <2> HIDE DEF K
  <2>1. \A u \in Jobs : u.p = p /\ u.kind \in K /\ Sane(prot, u) => Sane(pr2, u)
    BY <1>7, <1>11 DEF K, Sane, Urgent, Fresh
  <2> QED
    BY <1>5, <1>11, <2>1, WaitingQueue
<1>14. WorldSound(pr2, pl2)
  <2>1. pl2[y].refs = (Cardinality(Users(prot, y)) + 1) + pl2[y].freed
                      + (IF pl2[y].stage = "world" THEN 1 ELSE 0)
                      + (IF pl2[y].inVector THEN 1 ELSE 0)
    BY <1>8, <1>12
  <2>2. pr2[p].player = y /\ pr2[p].conn \in {"open", "closing", "released"} /\ There(pl2[y])
    BY <1>3, <1>7, <1>8, <1>11, <1>12
  <2>3. pl2[y].owner = p /\ ~pr2[p].watch /\ plr[y].owner = NoProtocol
    BY <1>7, <1>8, <1>11, <1>12
  <2>4. pl2[y].spectators \subseteq plr[y].spectators
    BY <1>8, <1>12
  <2>5. pl2[y].spectators # {} => pl2[y].stage = "world" /\ pl2[y].broadcast
    BY <1>8, <1>12
  <2>6. \A z \in Players \ {y} : pl2[z] = plr[z]
    BY <1>12
  <2> QED
    BY <1>3, <1>10, <1>11, <1>12, <2>1, <2>2, <2>3, <2>4, <2>5, <2>6, JoinedWorld
<1> QED
  BY <1>4, <1>6, <1>9, <1>11, <1>12, <1>13, <1>14, Zenon DEF IInv, Good

LEMMA ConnectRefusedKeeps ==
  ASSUME IInv, NEW p \in Protocols, NEW y \in Players, ConnectRefused(p, y)
  PROVE  IInv'
<1> DEFINE t == ConnectTask(p, y)
           d == Closed(prot, {p})
           c == [d[p] EXCEPT !.refs = 0, !.event = FALSE]
           pr2 == [d EXCEPT ![p] = c]
           q == Closes({p})
           rest == Tail(tasks)
           K == {"logout", "disconnect", "close", "release"}
<1>1. t.kind = "connect" /\ t.p = p
  BY ConnectTaskFacts
<1>2. Takes(t)
  BY DEF ConnectRefused, Runs
<1> HIDE DEF t
<1>3. prot[p].refs = 1 /\ prot[p].conn # "none"
  BY <1>1, <1>2, Taken DEF Sane
<1>4. /\ prot' = [d EXCEPT ![p].refs = @ - 1, ![p].event = FALSE]
      /\ tasks' = rest \o q /\ timers' = timers /\ plr' = plr
  BY DEF ConnectRefused, Runs
<1>5. /\ ProtTyped(prot) /\ PlrTyped(plr) /\ WorldSound(prot, plr)
  BY DEF IInv, Good
<1>6. /\ ProtTyped(d) /\ WorldSound(d, plr) /\ d[p].refs = 1
      /\ prot[p].conn # "none" => d[p].conn # "none"
  BY <1>3, <1>5, ClosedFacts, ClosedWorld
<1>7. Farewell({p}, q)
  BY ClosesFarewell
<1>8. QueueSound(prot, rest, timers) /\ Waiting(rest, timers, p, K)
  BY <1>1, <1>2, Taken, ConnectAlone
<1> HIDE DEF q, rest
<1>9. QueueSound(d, rest \o q, timers)
  BY <1>5, <1>7, <1>8, ClosingQueue
<1>10. Waiting(rest \o q, timers, p, K)
  <2>1. rest \in Seq(Jobs)
    BY <1>8 DEF QueueSound
  <2> QED
    BY <1>7, <1>8, <2>1, WaitingMore
<1> HIDE DEF d
<1>11. d[p] \in ProtocolRecords
  BY <1>6 DEF ProtTyped
<1>12. prot' = pr2
  <2>1. d[p].refs - 1 = 0
    BY <1>6
  <2> QED
    BY <1>4, <1>6, <2>1 DEF ProtTyped
<1>13. /\ c \in ProtocolRecords /\ c.conn = d[p].conn /\ c.player = d[p].player
       /\ c.watch = d[p].watch /\ c.accept = d[p].accept
  <2> DEFINE b == d[p]
             e == [b EXCEPT !.refs = 0, !.event = FALSE]
  <2>1. b \in ProtocolRecords
    BY <1>11
  <2> HIDE DEF b
  <2>2. e \in ProtocolRecords
    <3>1. \A m \in 0 .. 1 : [b EXCEPT !.refs = m, !.event = FALSE] \in ProtocolRecords
      BY <2>1 DEF ProtocolRecords
    <3>2. 0 \in 0 .. 1
      OBVIOUS
    <3> QED
      BY <3>1, <3>2, Zenon
  <2>3. e.conn = b.conn /\ e.player = b.player /\ e.watch = b.watch /\ e.accept = b.accept
    BY <2>1 DEF ProtocolRecords
  <2> QED
    BY <2>2, <2>3 DEF b
<1> HIDE DEF c
<1>14. ProtTyped(pr2) /\ pr2[p] = c /\ \A r \in Protocols \ {p} : pr2[r] = d[r]
  BY <1>6, <1>13, OtherProtocolsStay
<1> HIDE DEF pr2
<1>15. QueueSound(pr2, rest \o q, timers)
  <2> HIDE DEF K
  <2>1. \A u \in Jobs : u.p = p /\ u.kind \in K /\ Sane(d, u) => Sane(pr2, u)
    BY <1>13, <1>14 DEF K, Sane, Urgent, Fresh
  <2> QED
    BY <1>9, <1>10, <1>14, <2>1, WaitingQueue
<1>16. WorldSound(pr2, plr)
  <2>1. \A r \in Protocols :
          /\ pr2[r].player = d[r].player /\ pr2[r].watch = d[r].watch /\ pr2[r].conn = d[r].conn
          /\ d[r].conn = "none" => pr2[r].accept = d[r].accept /\ pr2[r].refs = d[r].refs
    <3> TAKE r \in Protocols
    <3>1. CASE r = p
      BY <1>3, <1>6, <1>13, <1>14, <3>1
    <3>2. CASE r # p
      BY <1>14, <3>2
    <3> QED
      BY <3>1, <3>2
  <2> QED
    BY <1>5, <1>6, <1>14, <2>1, SamePointers
<1> QED
  BY <1>4, <1>5, <1>12, <1>14, <1>15, <1>16, Zenon DEF IInv, Good

LEMMA LoginReplacesKeeps ==
  ASSUME IInv, NEW p \in Protocols, NEW y \in Players, LoginReplaces(p, y)
  PROVE  IInv'
<1> DEFINE t == Task("login", p)
           u == ConnectTask(p, y)
           S == {plr[y].owner}
           d == Closed(prot, S)
           c == [d[p] EXCEPT !.refs = 1, !.event = TRUE]
           r == [plr[y] EXCEPT !.connecting = TRUE]
           pr2 == [d EXCEPT ![p] = c]
           pl2 == [plr EXCEPT ![y] = r]
           q == Closes(S)
           ts == Tail(tasks) \o q
           K == {"disconnect", "close"}
<1>1. Takes(t) /\ t.kind \in Fresh /\ t.p = p
  BY DEF LoginReplaces, LoginFound, Task, Fresh
<1> HIDE DEF t
<1>2. u \in Jobs /\ u.kind = "connect" /\ u.p = p /\ u.id = y
  BY ConnectTaskFacts
<1> HIDE DEF u
<1>3. /\ prot' = [d EXCEPT ![p].refs = @ + 1, ![p].event = TRUE]
      /\ plr' = [plr EXCEPT ![y].connecting = TRUE]
      /\ tasks' = ts /\ timers' = Append(timers, u)
  BY DEF LoginReplaces, Runs, u
<1>4. /\ ProtTyped(prot) /\ PlrTyped(plr) /\ WorldSound(prot, plr)
      /\ plr[y] \in PlayerRecords
  BY DEF IInv, Good, PlrTyped
<1>5. /\ prot[p].refs = 0 /\ prot[p].player = NoPlayer /\ ~prot[p].watch
      /\ prot[p].conn \in {"open", "closing"}
  BY <1>1, Taken DEF Sane, Urgent
<1>6. /\ ProtTyped(d) /\ WorldSound(d, plr) /\ d[p].refs = 0
      /\ d[p].player = NoPlayer /\ ~d[p].watch /\ d[p].conn \in {"open", "closing"}
  BY <1>4, <1>5, ClosedFacts, ClosedWorld
<1>7. Farewell(S, q)
  BY ClosesFarewell
<1> HIDE DEF S, q
<1>8. Waiting(ts, timers, p, K)
  <2>1. Tail(tasks) \in Seq(Jobs) /\ Waiting(Tail(tasks), timers, p, K)
    BY <1>1, Taken, FreshAlone DEF QueueSound
  <2> HIDE DEF K
  <2>2. "close" \in K
    BY DEF K
  <2> QED
    BY <1>7, <2>1, <2>2, WaitingMore
<1> HIDE DEF d
<1>9. d[p] \in ProtocolRecords
  BY <1>6 DEF ProtTyped
<1>10. prot' = pr2
  <2>1. d[p].refs + 1 = 1
    BY <1>6
  <2> QED
    BY <1>3, <1>6, <2>1 DEF ProtTyped
<1>11. plr' = pl2
  BY <1>3, <1>4 DEF PlrTyped
<1>12. /\ c \in ProtocolRecords /\ c.conn = d[p].conn /\ c.player = d[p].player
       /\ c.watch = d[p].watch /\ c.accept = d[p].accept /\ c.refs = 1
  <2> DEFINE b == d[p]
             e == [b EXCEPT !.refs = 1, !.event = TRUE]
  <2>1. b \in ProtocolRecords
    BY <1>9
  <2> HIDE DEF b
  <2>2. e \in ProtocolRecords
    <3>1. \A m \in 0 .. 1 : [b EXCEPT !.refs = m, !.event = TRUE] \in ProtocolRecords
      BY <2>1 DEF ProtocolRecords
    <3>2. 1 \in 0 .. 1
      OBVIOUS
    <3> QED
      BY <3>1, <3>2, Zenon
  <2>3. /\ e.conn = b.conn /\ e.player = b.player /\ e.watch = b.watch
        /\ e.accept = b.accept /\ e.refs = 1
    BY <2>1 DEF ProtocolRecords
  <2> QED
    BY <2>2, <2>3 DEF b
<1>13. /\ r \in PlayerRecords /\ r.owner = plr[y].owner /\ r.stage = plr[y].stage
       /\ r.refs = plr[y].refs /\ r.freed = plr[y].freed /\ r.inVector = plr[y].inVector
       /\ r.spectators = plr[y].spectators /\ r.broadcast = plr[y].broadcast
  BY <1>4 DEF PlayerRecords
<1> HIDE DEF c, r
<1>14. ProtTyped(pr2) /\ pr2[p] = c /\ \A z \in Protocols \ {p} : pr2[z] = d[z]
  BY <1>6, <1>12, OtherProtocolsStay
<1>15. PlrTyped(pl2) /\ pl2[y] = r /\ \A z \in Players : z # y => pl2[z] = plr[z]
  BY <1>4, <1>13, OtherPlayersStay
<1> HIDE DEF pr2, pl2
<1>16. QueueSound(pr2, ts, timers)
  BY <1>1, <1>7, <1>12, <1>14, FreshQueue DEF d
<1>17. QueueSound(pr2, ts, Append(timers, u))
  <2>1. Sane(pr2, u)
    BY <1>2, <1>6, <1>12, <1>14 DEF Sane, Urgent, Fresh
  <2> HIDE DEF ts
  <2>2. \A i \in 1 .. Len(ts) : ~Clash(ts[i], u)
    BY <1>2, <1>8 DEF Waiting, Clash, Fresh, Urgent
  <2>3. \A i \in 1 .. Len(timers) : ~Clash(timers[i], u)
    BY <1>2, <1>8 DEF Waiting, Clash, Fresh, Urgent
  <2>4. u.kind \in Timed
    BY <1>2 DEF Timed
  <2> QED
    BY <1>2, <1>16, <2>1, <2>2, <2>3, <2>4, QueueTimer
<1>18. WorldSound(pr2, pl2)
  <2>1. \A z \in Protocols :
          /\ pr2[z].player = d[z].player /\ pr2[z].watch = d[z].watch /\ pr2[z].conn = d[z].conn
          /\ d[z].conn = "none" => pr2[z].accept = d[z].accept /\ pr2[z].refs = d[z].refs
    <3> TAKE z \in Protocols
    <3>1. CASE z = p
      BY <1>6, <1>12, <1>14, <3>1
    <3>2. CASE z # p
      BY <1>14, <3>2
    <3> QED
      BY <3>1, <3>2
  <2>2. \A z \in Players :
          /\ pl2[z].owner = plr[z].owner /\ pl2[z].stage = plr[z].stage
          /\ pl2[z].refs = plr[z].refs /\ pl2[z].freed = plr[z].freed
          /\ pl2[z].inVector = plr[z].inVector
          /\ pl2[z].spectators \subseteq plr[z].spectators
          /\ pl2[z].spectators # {} /\ plr[z].broadcast => pl2[z].broadcast
    <3> TAKE z \in Players
    <3>1. CASE z = y
      BY <1>13, <1>15, <3>1
    <3>2. CASE z # y
      BY <1>15, <3>2
    <3> QED
      BY <3>1, <3>2
  <2> QED
    BY <1>4, <1>6, <1>14, <1>15, <2>1, <2>2, SamePointers
<1> QED
  BY <1>3, <1>10, <1>11, <1>14, <1>15, <1>17, <1>18, Zenon DEF IInv, Good

--------------------------------------------------------------------------------
(* Leaving *)

(* Spectators::clear, and the clients of S, none of whom watches. *)
LEMMA DisconnectedGood ==
  ASSUME IInv, NEW y \in Players, NEW S, NEW q, QueueSound(prot, q, timers),
         \A p \in S \cap Protocols : ~prot[p].watch
  PROVE  /\ ProtTyped(Closed(prot, plr[y].spectators \cup S))
         /\ WorldSound(Closed(prot, plr[y].spectators \cup S), plr)
         /\ QueueSound(Closed(prot, plr[y].spectators \cup S),
                       q \o Closes(plr[y].spectators) \o Closes(S), timers)
<1> DEFINE e == plr[y].spectators
<1>1. ProtTyped(prot) /\ PlrTyped(plr) /\ WorldSound(prot, plr)
  BY DEF IInv, Good
<1>2. \A p \in e : prot[p].watch
  BY <1>1 DEF WorldSound, Held
<1> HIDE DEF e
<1>3. Farewell(e, Closes(e)) /\ Farewell(S, Closes(S))
  BY ClosesFarewell
<1>4. Farewell(e \cup S, Closes(e) \o Closes(S))
  BY <1>2, <1>3, FarewellTwo
<1>5. QueueSound(Closed(prot, e \cup S), q \o (Closes(e) \o Closes(S)), timers)
  BY <1>1, <1>4, ClosingQueue
<1>6. q \o (Closes(e) \o Closes(S)) = q \o Closes(e) \o Closes(S)
  <2>1. q \in Seq(Jobs) /\ Closes(e) \in Seq(Jobs) /\ Closes(S) \in Seq(Jobs)
    BY <1>3 DEF QueueSound, Farewell
  <2> DEFINE a == Closes(e)
             b == Closes(S)
  <2> HIDE DEF a, b
  <2>2. \A u, v, w \in Seq(Jobs) : u \o (v \o w) = (u \o v) \o w
    BY SMTT(40), ConcatAssociative
  <2> QED
    BY <2>1, <2>2, Zenon DEF a, b
<1>7. ProtTyped(Closed(prot, e \cup S)) /\ WorldSound(Closed(prot, e \cup S), plr)
  BY <1>1, ClosedFacts, ClosedWorld
<1> QED
  BY <1>5, <1>6, <1>7 DEF e

LEMMA GoneGood ==
  ASSUME IInv, NEW y \in Players, NEW pr, ProtTyped(pr), WorldSound(pr, plr)
  PROVE  PlrTyped(Gone(y)) /\ WorldSound(pr, Gone(y))
<1>1. PlrTyped(plr)
  BY DEF IInv, Good
<1>2. CASE InWorld(y)
  <2>1. Gone(y) = Removing(plr, y) /\ plr[y].stage = "world"
    BY <1>2 DEF Gone, InWorld, Removing
  <2> QED
    BY <1>1, <2>1, RemovedWorld
<1>3. CASE ~InWorld(y)
  BY <1>1, <1>3 DEF Gone
<1> QED
  BY <1>2, <1>3

(* A character is disconnected and leaves the world, if it is in it. *)
LEMMA LeavesGood ==
  ASSUME IInv, NEW y \in Players, NEW S, NEW q, QueueSound(prot, q, timers),
         \A p \in S \cap Protocols : ~prot[p].watch
  PROVE  LET ts == q \o Closes(plr[y].spectators) \o Closes(S)
             pr == Closed(prot, plr[y].spectators \cup S)
         IN  /\ Good(pr, Gone(y), ts, timers)
             /\ Good(pr, Cleaned(Gone(y)), ts, timers)
<1> DEFINE ts == q \o Closes(plr[y].spectators) \o Closes(S)
           pr == Closed(prot, plr[y].spectators \cup S)
           g == Gone(y)
<1>1. ProtTyped(pr) /\ WorldSound(pr, plr) /\ QueueSound(pr, ts, timers)
  BY DisconnectedGood
<1> HIDE DEF pr, ts
<1>2. PlrTyped(g) /\ WorldSound(pr, g)
  BY <1>1, GoneGood
<1> HIDE DEF g
<1>3. PlrTyped(Cleaned(g)) /\ WorldSound(pr, Cleaned(g))
  BY <1>1, <1>2, CleanedWorld
<1>4. Good(pr, g, ts, timers) /\ Good(pr, Cleaned(g), ts, timers)
  BY <1>1, <1>2, <1>3 DEF Good
<1> QED
  BY <1>4 DEF pr, ts, g

LEMMA LogoutKeeps ==
  ASSUME IInv, NEW p \in Protocols, Logout(p)
  PROVE  IInv'
<1> DEFINE y == prot[p].player
           t == Task("logout", p)
           q == Tail(tasks)
<1>1. Takes(t) /\ y # NoPlayer /\ timers' = timers /\ plr' = Gone(y)
  BY DEF Logout
<1>2. t.kind = "logout" /\ t.p = p
  BY DEF Task
<1>3. /\ prot' = Closed(prot, plr[y].spectators \cup {p})
      /\ tasks' = q \o Closes(plr[y].spectators) \o Closes({p})
  BY DEF Logout, Disconnected
<1>4. y \in Players
  BY <1>1 DEF IInv, Good, ProtTyped, ProtocolRecords
<1> HIDE DEF t
<1>5. ~prot[p].watch /\ QueueSound(prot, q, timers)
  BY <1>1, <1>2, Taken DEF Sane
<1>6. \A r \in {p} \cap Protocols : ~prot[r].watch
  BY <1>5
<1> HIDE DEF y, q
<1>7. Good(Closed(prot, plr[y].spectators \cup {p}), Gone(y),
           q \o Closes(plr[y].spectators) \o Closes({p}), timers)
  BY <1>4, <1>5, <1>6, LeavesGood
<1> QED
  BY <1>1, <1>3, <1>7, Zenon DEF IInv

LEMMA LogoutDeniedKeeps ==
  ASSUME IInv, NEW p \in Protocols, LogoutDenied(p)
  PROVE  IInv'
<1>1. /\ Takes(Task("logout", p)) /\ tasks' = Tail(tasks) \o <<>>
      /\ prot' = prot /\ plr' = plr /\ timers' = timers
  BY DEF LogoutDenied, Runs
<1>2. QueueSound(prot, Tail(tasks), timers)
  BY <1>1, Taken
<1>3. Tail(tasks) \o <<>> = Tail(tasks)
  BY <1>2, ConcatEmptySeq DEF QueueSound
<1> QED
  BY <1>1, <1>2, <1>3, Zenon DEF IInv, Good

LEMMA OwnersPlay ==
  ASSUME IInv, NEW y \in Players
  PROVE  \A p \in Owner(y) \cap Protocols : ~prot[p].watch
BY DEF Owner, IInv, Good, WorldSound, Held

LEMMA LeavingKeeps ==
  ASSUME IInv, NEW y \in Players, Die(y) \/ IdleLogout(y) \/ Kick(y)
  PROVE  IInv'
<1>1. QueueSound(prot, tasks, timers)
  BY DEF IInv, Good
<1>2. CASE Die(y)
  <2>1. /\ prot' = Closed(prot, plr[y].spectators \cup {})
        /\ tasks' = tasks \o Closes(plr[y].spectators) \o Closes({})
        /\ plr' = Cleaned(Gone(y)) /\ timers' = timers
    BY <1>2 DEF Die, Disconnected
  <2>2. \A r \in {} \cap Protocols : ~prot[r].watch
    OBVIOUS
  <2>3. Good(Closed(prot, plr[y].spectators \cup {}), Cleaned(Gone(y)),
             tasks \o Closes(plr[y].spectators) \o Closes({}), timers)
    BY <1>1, <2>2, LeavesGood
  <2> QED
    BY <2>1, <2>3, Zenon DEF IInv
<1>3. CASE IdleLogout(y)
  <2>1. /\ prot' = Closed(prot, plr[y].spectators \cup Owner(y))
        /\ tasks' = tasks \o Closes(plr[y].spectators) \o Closes(Owner(y))
        /\ plr' = Cleaned(Gone(y)) /\ timers' = timers
    BY <1>3 DEF IdleLogout, Disconnected
  <2>2. Good(Closed(prot, plr[y].spectators \cup Owner(y)), Cleaned(Gone(y)),
             tasks \o Closes(plr[y].spectators) \o Closes(Owner(y)), timers)
    BY <1>1, OwnersPlay, LeavesGood
  <2> QED
    BY <2>1, <2>2, Zenon DEF IInv
<1>4. CASE Kick(y)
  <2>1. /\ prot' = Closed(prot, plr[y].spectators \cup Owner(y))
        /\ tasks' = tasks \o Closes(plr[y].spectators) \o Closes(Owner(y))
        /\ plr' = Gone(y) /\ timers' = timers
    BY <1>4 DEF Kick, Disconnected
  <2>2. Good(Closed(prot, plr[y].spectators \cup Owner(y)), Gone(y),
             tasks \o Closes(plr[y].spectators) \o Closes(Owner(y)), timers)
    BY <1>1, OwnersPlay, LeavesGood
  <2> QED
    BY <2>1, <2>2, Zenon DEF IInv
<1> QED
  BY <1>2, <1>3, <1>4

LEMMA UncheckKeeps ==
  ASSUME IInv, NEW y \in Players, Uncheck(y)
  PROVE  IInv'
<1> DEFINE u == Unchecking(plr, y)
<1>1. /\ plr[y].inVector /\ plr' = Cleaned(u)
      /\ prot' = prot /\ tasks' = tasks /\ timers' = timers
  BY DEF Uncheck, Unchecking
<1>2. PlrTyped(u) /\ WorldSound(prot, u)
  BY <1>1, UncheckedWorld DEF IInv, Good
<1> HIDE DEF u
<1>3. PlrTyped(Cleaned(u)) /\ WorldSound(prot, Cleaned(u))
  BY <1>2, CleanedWorld DEF IInv, Good
<1> QED
  BY <1>1, <1>3, Zenon DEF IInv, Good

LEMMA CleanupKeeps ==
  ASSUME IInv, plr' = Cleaned(plr), UNCHANGED <<prot, tasks, timers>>
  PROVE  IInv'
<1>1. PlrTyped(Cleaned(plr)) /\ WorldSound(prot, Cleaned(plr))
  BY CleanedWorld DEF IInv, Good
<1>2. prot' = prot /\ tasks' = tasks /\ timers' = timers /\ plr' = Cleaned(plr)
  OBVIOUS
<1> QED
  BY <1>1, <1>2, Zenon DEF IInv, Good

(* The stream of y goes on or ends, and the spectators of e are cleared. *)
StreamRecord(y, e, b) == [plr[y] EXCEPT !.spectators = @ \ e, !.broadcast = b]

LEMMA StreamGood ==
  ASSUME IInv, NEW y \in Players, InWorld(y), NEW b \in BOOLEAN, NEW e, NEW S,
         plr[y].broadcast /\ ~b => e = plr[y].spectators
  PROVE  Good(Closed(prot, S), [plr EXCEPT ![y] = StreamRecord(y, e, b)],
              tasks \o Closes(S), timers)
<1> DEFINE d == Closed(prot, S)
           f == plr[y].spectators \ e
           r == StreamRecord(y, e, b)
           pl2 == [plr EXCEPT ![y] = r]
<1>1. /\ ProtTyped(prot) /\ PlrTyped(plr) /\ WorldSound(prot, plr)
      /\ QueueSound(prot, tasks, timers) /\ plr[y] \in PlayerRecords
  BY DEF IInv, Good, PlrTyped
<1>2. ProtTyped(d) /\ WorldSound(d, plr)
  BY <1>1, ClosedFacts, ClosedWorld
<1>3. QueueSound(d, tasks \o Closes(S), timers)
  BY <1>1, ClosesFarewell, ClosingQueue
<1> HIDE DEF d
<1>4. f \in SUBSET Watchers /\ r = [plr[y] EXCEPT !.spectators = f, !.broadcast = b]
  BY <1>1 DEF StreamRecord, PlayerRecords
<1>5. f \subseteq plr[y].spectators /\ (f # {} /\ plr[y].broadcast => b)
  OBVIOUS
<1> HIDE DEF f, r
<1>6. /\ r \in PlayerRecords /\ r.owner = plr[y].owner /\ r.stage = plr[y].stage
      /\ r.refs = plr[y].refs /\ r.freed = plr[y].freed /\ r.inVector = plr[y].inVector
      /\ r.spectators = f /\ r.broadcast = b
  BY <1>1, <1>4 DEF PlayerRecords
<1>7. PlrTyped(pl2) /\ pl2[y] = r /\ \A z \in Players : z # y => pl2[z] = plr[z]
  BY <1>1, <1>6, OtherPlayersStay
<1> HIDE DEF pl2
<1>8. WorldSound(d, pl2)
  <2>1. \A z \in Players :
          /\ pl2[z].owner = plr[z].owner /\ pl2[z].stage = plr[z].stage
          /\ pl2[z].refs = plr[z].refs /\ pl2[z].freed = plr[z].freed
          /\ pl2[z].inVector = plr[z].inVector
          /\ pl2[z].spectators \subseteq plr[z].spectators
          /\ pl2[z].spectators # {} /\ plr[z].broadcast => pl2[z].broadcast
    <3> TAKE z \in Players
    <3>1. CASE z = y
      BY <1>5, <1>6, <1>7, <3>1
    <3>2. CASE z # y
      BY <1>7, <3>2
    <3> QED
      BY <3>1, <3>2
  <2> QED
    BY <1>1, <1>2, <1>7, <2>1, SamePointers
<1> QED
  BY <1>2, <1>3, <1>7, <1>8 DEF Good, pl2, r, d

LEMMA StreamKeeps ==
  ASSUME IInv, NEW y \in Players, NEW b \in BOOLEAN, NEW n \in BOOLEAN, NEW K \in SUBSET Watchers,
         SetSpectators(y, b, n, K)
  PROVE  IInv'
<1> DEFINE e == IF n \/ (plr[y].broadcast /\ ~b) THEN plr[y].spectators ELSE {}
           S == e \cup K
<1>1. /\ InWorld(y) /\ prot' = Closed(prot, S) /\ tasks' = tasks \o Closes(S) /\ timers' = timers
      /\ plr' = [plr EXCEPT ![y].spectators = @ \ e, ![y].broadcast = b]
  BY DEF SetSpectators
<1>2. plr[y].broadcast /\ ~b => e = plr[y].spectators
  OBVIOUS
<1> HIDE DEF e, S
<1>3. plr' = [plr EXCEPT ![y] = StreamRecord(y, e, b)]
  BY <1>1 DEF StreamRecord, IInv, Good, PlrTyped
<1>4. Good(Closed(prot, S), [plr EXCEPT ![y] = StreamRecord(y, e, b)],
           tasks \o Closes(S), timers)
  <2>1. InWorld(y)
    BY <1>1
  <2> QED
    BY <1>2, <2>1, StreamGood
<1> QED
  BY <1>1, <1>3, <1>4, Zenon DEF IInv

LEMMA ReleaseTaken ==
  ASSUME IInv, NEW p \in Protocols, ReleaseTask(p)
  PROVE  /\ QueueSound(prot, Tail(tasks), timers)
         /\ Waiting(Tail(tasks), timers, p, {"connect"})
         /\ prot[p].refs = 0 => Waiting(Tail(tasks), timers, p, {})
         /\ prot[p].conn \in {"closing", "released"}
<1>1. PICK k \in {"close", "release"} : Takes(Task(k, p))
  BY DEF ReleaseTask
<1> DEFINE t == Task(k, p)
<1>2. t.kind = k /\ t.p = p /\ Takes(t)
  BY <1>1 DEF Task
<1> HIDE DEF t
<1>3. QueueSound(prot, Tail(tasks), timers) /\ Sane(prot, t)
  BY <1>2, Taken
<1>4. /\ Waiting(Tail(tasks), timers, p, {"connect"})
      /\ prot[p].refs = 0 => Waiting(Tail(tasks), timers, p, {})
  BY <1>2, ReleaseAlone
<1>5. prot[p].conn \in {"closing", "released"}
  BY <1>2, <1>3 DEF Sane
<1> QED
  BY <1>3, <1>4, <1>5

LEMMA DeleteProtocolKeeps ==
  ASSUME IInv, NEW p \in Protocols, DeleteProtocol(p)
  PROVE  IInv'
<1>1. /\ prot' = Forgotten(p) /\ plr' = Freeing(p) /\ tasks' = Tail(tasks) /\ timers' = timers
      /\ ReleaseTask(p)
  BY DEF DeleteProtocol, Forgotten, Freeing
<1>2. prot[p].refs = 0
  <2>1. ~(prot[p].refs > 0) /\ prot[p].refs \in 0 .. 1
    BY DEF DeleteProtocol, MustWait, IInv, Good, ProtTyped, ProtocolRecords
  <2> QED
    BY <2>1
<1>3. QueueSound(prot, Tail(tasks), timers) /\ Waiting(Tail(tasks), timers, p, {})
  BY <1>1, <1>2, ReleaseTaken
<1>4. ProtTyped(Forgotten(p)) /\ PlrTyped(Freeing(p)) /\ WorldSound(Forgotten(p), Freeing(p))
  BY DeletedWorld DEF IInv, Good
<1>5. \A q \in Protocols \ {p} : Forgotten(p)[q] = prot[q]
  BY DEF Forgotten, IInv, Good, ProtTyped
<1>6. QueueSound(Forgotten(p), Tail(tasks), timers)
  <2> DEFINE pr2 == Forgotten(p)
  <2>1. \A q \in Protocols \ {p} : pr2[q] = prot[q]
    BY <1>5
  <2> HIDE DEF pr2
  <2>2. QueueSound(pr2, Tail(tasks), timers)
    BY <1>3, <2>1, WaitingQueue
  <2> QED
    BY <2>2 DEF pr2
<1> QED
  BY <1>1, <1>4, <1>6, Zenon DEF IInv, Good

LEMMA ReleaseWaitsKeeps ==
  ASSUME IInv, NEW p \in Protocols, NEW busy \in BOOLEAN, ReleaseWaits(p, busy)
  PROVE  IInv'
<1> DEFINE pr2 == [prot EXCEPT ![p].conn = "released"]
           t == Task("release", p)
           rest == Tail(tasks)
           K == {"connect"}
<1>1. /\ prot' = pr2 /\ plr' = Detached(p) /\ tasks' = rest /\ timers' = Append(timers, t)
      /\ ReleaseTask(p)
  BY DEF ReleaseWaits
<1>2. ProtTyped(pr2) /\ PlrTyped(Detached(p)) /\ WorldSound(pr2, Detached(p))
  BY ReleasedWorld DEF IInv, Good
<1>3. QueueSound(prot, rest, timers) /\ Waiting(rest, timers, p, K)
  BY <1>1, ReleaseTaken
<1>4. /\ \A q \in Protocols \ {p} : pr2[q] = prot[q]
      /\ pr2[p].conn = "released" /\ pr2[p].player = prot[p].player
      /\ pr2[p].watch = prot[p].watch /\ pr2[p].refs = prot[p].refs
  BY DEF IInv, Good, ProtTyped, ProtocolRecords
<1>5. t \in Jobs /\ t.kind = "release" /\ t.p = p
  BY DEF Task, Jobs, Timed
<1> HIDE DEF pr2, t, rest, K
<1>6. QueueSound(pr2, rest, timers)
  <2>1. \A u \in Jobs : u.p = p /\ u.kind \in K /\ Sane(prot, u) => Sane(pr2, u)
    BY <1>4 DEF K, Sane, Urgent, Fresh
  <2> QED
    BY <1>3, <1>4, <2>1, WaitingQueue
<1>7. QueueSound(pr2, rest, Append(timers, t))
  <2>1. Sane(pr2, t)
    BY <1>4, <1>5 DEF Sane, Urgent, Fresh
  <2>2. /\ \A i \in 1 .. Len(rest) : ~Clash(rest[i], t)
        /\ \A i \in 1 .. Len(timers) : ~Clash(timers[i], t)
    BY <1>3, <1>5 DEF K, Waiting, Clash, Fresh, Urgent
  <2>3. t.kind \in Timed
    BY <1>5 DEF Timed
  <2> QED
    BY <1>5, <1>6, <2>1, <2>2, <2>3, QueueTimer
<1> QED
  BY <1>1, <1>2, <1>7, Zenon DEF IInv, Good

--------------------------------------------------------------------------------
(* The invariant *)

LEMMA InitInv ==
  ASSUME SessionInit
  PROVE  IInv
<1>1. /\ prot = [p \in Protocols |-> NewProtocol] /\ plr = [y \in Players |-> NewPlayer]
      /\ tasks = <<>> /\ timers = <<>>
  BY DEF SessionInit
<1>2. NewProtocol \in ProtocolRecords /\ NewPlayer \in PlayerRecords
  BY DEF NewProtocol, NewPlayer, ProtocolRecords, PlayerRecords
<1>3. /\ \A p \in Protocols :
           /\ prot[p].player = NoPlayer /\ ~prot[p].watch /\ ~prot[p].accept /\ prot[p].refs = 0
      /\ \A y \in Players :
           /\ ~There(plr[y]) /\ plr[y].spectators = {} /\ plr[y].owner = NoProtocol
           /\ plr[y].refs = 0 /\ plr[y].freed = 0 /\ ~plr[y].inVector
  BY <1>1 DEF NewProtocol, NewPlayer, There
<1>4. ProtTyped(prot) /\ PlrTyped(plr)
  BY <1>1, <1>2 DEF ProtTyped, PlrTyped
<1>5. QueueSound(prot, tasks, timers)
  <2>1. <<>> \in Seq(Jobs) /\ Len(<<>>) = 0
    BY EmptySeq
  <2> QED
    BY <1>1, <2>1 DEF QueueSound, ClashFree, Apart
<1>6. WorldSound(prot, plr)
  BY <1>3 DEF WorldSound, Bound, Held, Counted
<1> QED
  BY <1>4, <1>5, <1>6 DEF IInv, Good

LEMMA NextInv ==
  ASSUME IInv, [SessionNext]_sessionVars
  PROVE  IInv'
<1>1. CASE \E p \in Protocols : Service(p) \/ SessionTask(p)
  <2>1. PICK p \in Protocols : Service(p) \/ SessionTask(p)
    BY <1>1
  <2>2. CASE Service(p)
    BY <2>2, FirstMessageKeeps, HangUpKeeps, LogoutPacketKeeps DEF Service
  <2>3. CASE SessionTask(p)
    <3>1. CASE \E y \in Players :
                 \/ LoginRefused(p, y) \/ LoginPlaced(p, y) \/ LoginKicked(p, y)
                 \/ LoginReplaces(p, y) \/ LoginResumes(p, y)
                 \/ Connect(p, y) \/ ConnectRefused(p, y) \/ Spectate(p, y)
      BY <3>1, LoginRefusedKeeps, LoginPlacedKeeps, LoginKickedKeeps, LoginReplacesKeeps,
         LoginResumesKeeps, ConnectKeeps, ConnectRefusedKeeps, SpectateKeeps
    <3>2. CASE \E y \in Players : LoginDenied(p, y)
      BY <3>2, RefusedKeeps DEF LoginDenied
    <3>3. CASE SpectateRefused(p) \/ SpectatorLeaves(p)
      BY <3>3, RefusedKeeps DEF SpectateRefused, SpectatorLeaves
    <3>4. CASE Logout(p) \/ LogoutDenied(p) \/ DeleteProtocol(p)
      BY <3>4, LogoutKeeps, LogoutDeniedKeeps, DeleteProtocolKeeps
    <3>5. CASE \E busy \in BOOLEAN : ReleaseWaits(p, busy)
      BY <3>5, ReleaseWaitsKeeps
    <3> QED
      BY <2>3, <3>1, <3>2, <3>3, <3>4, <3>5 DEF SessionTask
  <2> QED
    BY <2>1, <2>2, <2>3
<1>2. CASE \E i \in DOMAIN timers : Fire(i)
  BY <1>2, FireKeeps
<1>3. CASE \E y \in Players : Game(y)
  <2>1. PICK y \in Players : Game(y)
    BY <1>3
  <2>2. CASE Check(y)
    BY <2>2, CleanupKeeps DEF Check
  <2>3. CASE Die(y) \/ IdleLogout(y) \/ Kick(y)
    BY <2>3, LeavingKeeps
  <2>4. CASE Uncheck(y)
    BY <2>4, UncheckKeeps
  <2>5. CASE \E b, n \in BOOLEAN, K \in SUBSET Watchers : SetSpectators(y, b, n, K)
    BY <2>5, StreamKeeps
  <2> QED
    BY <2>1, <2>2, <2>3, <2>4, <2>5 DEF Game
<1>4. CASE Cleanup
  BY <1>4, CleanupKeeps DEF Cleanup
<1>5. CASE UNCHANGED sessionVars
  <2>1. prot' = prot /\ plr' = plr /\ tasks' = tasks /\ timers' = timers
    BY <1>5 DEF sessionVars
  <2> QED
    BY <2>1, Zenon DEF IInv
<1> QED
  BY <1>1, <1>2, <1>3, <1>4, <1>5 DEF SessionNext

LEMMA InvHolds == SessionSpec => []IInv
BY InitInv, NextInv, PTL DEF SessionSpec

LEMMA InvTasks ==
  ASSUME IInv
  PROVE  NoDanglingTask
<1>1. QueueSound(prot, tasks, timers)
  BY DEF IInv, Good
<1>2. \A t \in Jobs : Sane(prot, t) =>
        /\ prot[t.p].conn # "deleted"
        /\ t.kind \in {"login", "spectate", "logout", "disconnect"} =>
             prot[t.p].conn \in {"open", "closing"}
  BY DEF Jobs, Sane, Urgent, Fresh, Timed
<1>3. /\ DOMAIN tasks = 1 .. Len(tasks) /\ DOMAIN timers = 1 .. Len(timers)
      /\ Len(tasks) \in Nat /\ Len(timers) \in Nat
      /\ \A i \in 1 .. Len(tasks) : tasks[i] \in Jobs /\ Sane(prot, tasks[i])
      /\ \A i \in 1 .. Len(timers) : timers[i] \in Jobs /\ Sane(prot, timers[i])
  BY <1>1, LenProperties, ElementOfSeq DEF QueueSound
<1>4. ASSUME NEW i \in DOMAIN tasks \cup {-j : j \in DOMAIN timers}
      PROVE  LET t == IF i > 0 THEN tasks[i] ELSE timers[-i] IN t \in Jobs /\ Sane(prot, t)
  <2>1. CASE i \in 1 .. Len(tasks)
    BY <1>3, <2>1
  <2>2. CASE i \in {-j : j \in 1 .. Len(timers)}
    <3>1. -i \in 1 .. Len(timers) /\ ~(i > 0)
      BY <1>3, <2>2
    <3> QED
      BY <1>3, <3>1
  <2> QED
    BY <1>3, <2>1, <2>2
<1> QED
  BY <1>2, <1>4 DEF NoDanglingTask

LEMMA InvClients ==
  ASSUME IInv
  PROVE  NoDanglingClient /\ SpectatorsOnAir /\ OneController
<1>1. ProtTyped(prot) /\ PlrTyped(plr) /\ WorldSound(prot, plr)
  BY DEF IInv, Good
<1>2. NoDanglingClient
  BY <1>1 DEF NoDanglingClient, Owner, WorldSound, Held
<1>3. SpectatorsOnAir
  BY <1>1 DEF SpectatorsOnAir, InWorld, WorldSound, Held
<1>4. OneController
  BY <1>1 DEF OneController, IsSpectator, WorldSound, Bound
<1> QED
  BY <1>2, <1>3, <1>4

LEMMA InvPlayers ==
  ASSUME IInv
  PROVE  NoDanglingPlayer /\ RefsAccounted
<1>1. ProtTyped(prot) /\ PlrTyped(plr) /\ WorldSound(prot, plr)
  BY DEF IInv, Good
<1>2. \A y \in Players : Exists(y) <=> There(plr[y])
  BY DEF Exists, There
<1>3. NoDanglingPlayer
  <2>1. \A p \in Protocols : prot[p].player # NoPlayer => Exists(prot[p].player)
    BY <1>1 DEF WorldSound, Bound, There, Exists
  <2>2. \A y \in Players : plr[y].inVector => Exists(y)
    BY <1>1, <1>2 DEF WorldSound, Counted
  <2> QED
    BY <2>1, <2>2 DEF NoDanglingPlayer
<1>4. RefsAccounted
  BY <1>1, <1>2 DEF RefsAccounted, WorldSound, Counted, Users, InWorld
<1> QED
  BY <1>3, <1>4

LEMMA InvTypes ==
  ASSUME IInv
  PROVE  SessionTypeOK
BY DEF IInv, Good, ProtTyped, PlrTyped, ProtocolRecords, PlayerRecords, SessionTypeOK

(* Whatever connects, replaces, watches, kicks or dies, and however the tasks *)
(* of the service threads and the scheduler's events interleave: no task is   *)
(* left with a deleted protocol, no Spectators object with a deleted client,  *)
(* no protocol and no check vector with a deleted player, and every reference *)
(* to a player is counted once (protocolgame.cpp, Game::cleanup).             *)
THEOREM PointersStayLive == SessionSpec => []PointersLive
<1>1. IInv => PointersLive
  BY InvTasks, InvClients, InvPlayers DEF PointersLive
<1> QED
  BY <1>1, InvHolds, PTL

(* Two clients that have not been released never control one character: the   *)
(* owner in its Spectators object is the one whose packets are obeyed.        *)
THEOREM OneControllerAlways == SessionSpec => []OneController
<1>1. IInv => OneController
  BY InvClients
<1> QED
  BY <1>1, InvHolds, PTL

(* The types, at most one reference of a connect() to a protocol among them;  *)
(* and nobody watches who does not broadcast, or is out of the world.         *)
THEOREM StreamsAreOnAir == SessionSpec => [](SessionTypeOK /\ SpectatorsOnAir)
<1>1. IInv => SessionTypeOK /\ SpectatorsOnAir
  BY InvTypes, InvClients
<1> QED
  BY <1>1, InvHolds, PTL
--------------------------------------------------------------------------------
(* The scheduler (module Scheduler). *)

Ids ==
  /\ \A e \in Events : life[e] \in {"new", "refused"} <=> eventId[e] = 0
  /\ \A e, f \in Events : eventId[e] = eventId[f] /\ eventId[e] # 0 => e = f
  /\ \A i \in eventIds : \E e \in Listed : eventId[e] = i

Stopped ==
  /\ \A e \in stopped : /\ life[e] \in {"listed", "void", "deleted", "lost"}
                        /\ life[e] = "listed" => eventId[e] \notin eventIds
  /\ \A e \in Events : life[e] = "listed" /\ eventId[e] \notin eventIds => e \in stopped
  /\ \A e \in Events : life[e] \in {"void", "deleted"} => e \in stopped

\* Only the dispatcher thread learns ids, and only when it leaves addEvent.
Known ==
  /\ stopped \subseteq returned
  /\ \A e \in returned : life[e] \notin {"new", "refused"}
  /\ \A c \in Callers : cpc[c] # "idle" => adding[c] \in Events /\ life[adding[c]] # "new"
  /\ cpc[DispatcherThread] # "idle" =>
       /\ adding[DispatcherThread] \notin returned
       /\ life[adding[DispatcherThread]] # "executed"
  /\ \A c \in Callers : c # DispatcherThread /\ cpc[c] # "idle" => adding[c] \notin returned
  /\ \A c, d \in Callers : cpc[c] # "idle" /\ cpc[d] # "idle" /\ adding[c] = adding[d] => c = d

Popped == spc = "dispatch" => cur \in Events /\ life[cur] \in {"taken", "void"}

EventInv == Ids /\ Stopped /\ Known /\ Popped

SleepInv ==
  /\ spc \in {"loop", "acquire", "wait", "dispatch", "done"} => deadline = NoDeadline
  /\ spc = "timedWait" => deadline # NoDeadline
  /\ deadline # NoDeadline /\ spc # "crashed"
       => (\E e \in Listed : due[e] <= deadline) \/ shutdownTask = "done"
  /\ spc = "woken" /\ ~action /\ deadline # NoDeadline => deadline <= now
-------------------------------------------------------------------------------
LEMMA CycleInNat ==
  ASSUME now \in Nat, NEW d \in Delays
  PROVE  Cycle(d) \in Nat
BY SchedulerAssumption DEF Cycle

LEMMA NextIdInRange ==
  ASSUME lastEvent \in 0 .. MaxId
  PROVE  NextId \in 1 .. MaxId
BY SchedulerAssumption DEF NextId

\* The variables keep their types.
THEOREM TypeCorrect == Spec => []TypeOK
<1>1. Init => TypeOK
  <2> SUFFICES ASSUME Init
               PROVE  TypeOK
    OBVIOUS
  <2>1. lastEvent \in 0 .. MaxId
    BY SchedulerAssumption DEF Init
  <2>2. 0 \in 0 .. MaxId /\ 0 \in Nat
    BY SchedulerAssumption
  <2> QED
    BY <2>1, <2>2, SchedulerAssumption DEF Init, TypeOK, Life, SPC
<1>2. TypeOK /\ [Next]_vars => TypeOK'
  <2> SUFFICES ASSUME TypeOK, [Next]_vars
               PROVE  TypeOK'
    OBVIOUS
  <2> USE SchedulerAssumption DEF TypeOK, Life, SPC, threadVars, callVars, idVars, serverVars
  <2>1. ASSUME NEW c \in Callers, NEW e \in Events, NEW d \in Delays, AddEvent(c, e, d)
        PROVE  TypeOK'
    <3>1. CASE threadState = "running"
      <4>1. NextId \in 1 .. MaxId /\ Cycle(d) \in Nat
        BY CycleInNat, NextIdInRange
      <4>2. NextId \in 0 .. MaxId
        BY <4>1
      <4>3. /\ cpc' \in [Callers -> {"idle", "notify", "return"}]
            /\ \A b \in Callers : adding'[b] = NoEvent <=> cpc'[b] = "idle"
        BY <2>1, <3>1 DEF AddEvent
      <4> HIDE DEF TypeOK
      <4>4. /\ now' = now /\ threadState' = threadState /\ spc' = spc /\ deadline' = deadline
            /\ action' = action /\ cur' = cur /\ returned' = returned /\ stopped' = stopped
            /\ dispatcherRunning' = dispatcherRunning /\ shutdownTask' = shutdownTask
            /\ signalPc' = signalPc
            /\ adding' = [adding EXCEPT ![c] = e]
            /\ lastEvent' = NextId /\ eventId' = [eventId EXCEPT ![e] = NextId]
            /\ eventIds' = eventIds \cup {NextId} /\ due' = [due EXCEPT ![e] = Cycle(d)]
            /\ life' = [life EXCEPT ![e] = "listed"]
        BY <2>1, <3>1 DEF AddEvent
      <4> QED
        BY <4>1, <4>2, <4>3, <4>4 DEF TypeOK
    <3>2. CASE threadState # "running"
      <4>1. UNCHANGED <<now, threadState, due, eventId, eventIds, lastEvent, spc, deadline,
                        action, cur, returned, stopped, dispatcherRunning, shutdownTask, signalPc>>
        BY <2>1, <3>2 DEF AddEvent
      <4>2. /\ adding' \in [Callers -> Events \cup {NoEvent}]
            /\ cpc' \in [Callers -> {"idle", "notify", "return"}]
            /\ \A b \in Callers : adding'[b] = NoEvent <=> cpc'[b] = "idle"
            /\ life' \in [Events -> Life]
        BY <2>1, <3>2 DEF AddEvent
      <4> QED
        BY <4>1, <4>2
    <3> QED
      BY <3>1, <3>2
  <2>2. ASSUME NEW c \in Callers, Notify(c)
        PROVE  TypeOK'
    <3>1. action' \in BOOLEAN
      BY <2>2, Zenon DEF Notify
    <3>2. spc' \in SPC /\ cpc' \in [Callers -> {"idle", "notify", "return"}]
      BY <2>2 DEF Notify
    <3>3. \A b \in Callers : adding'[b] = NoEvent <=> cpc'[b] = "idle"
      BY <2>2 DEF Notify
    <3>4. UNCHANGED <<now, threadState, life, due, eventId, eventIds, lastEvent, deadline,
                      cur, adding, returned, stopped, dispatcherRunning, shutdownTask, signalPc>>
      BY <2>2 DEF Notify
    <3> QED
      BY <3>1, <3>2, <3>3, <3>4
  <2>3. ASSUME NEW c \in Callers, Return(c)
        PROVE  TypeOK'
    <3>1. /\ cpc' \in [Callers -> {"idle", "notify", "return"}]
          /\ adding' \in [Callers -> Events \cup {NoEvent}]
          /\ returned' \subseteq Events
          /\ \A b \in Callers : adding'[b] = NoEvent <=> cpc'[b] = "idle"
      BY <2>3 DEF Return
    <3> QED
      BY <2>3, <3>1 DEF Return
  <2>4. ASSUME NEW e \in Events, StopEvent(e)
        PROVE  TypeOK'
    <3>1. eventIds' \subseteq 1 .. MaxId /\ stopped' \subseteq Events
      BY <2>4 DEF StopEvent
    <3>2. UNCHANGED <<now, threadState, life, due, eventId, lastEvent, spc, deadline, action,
                      cur, cpc, adding, returned, dispatcherRunning, shutdownTask, signalPc>>
      BY <2>4 DEF StopEvent
    <3> QED
      BY <3>1, <3>2
  <2>5. ASSUME NEW e \in Events, Run(e)
        PROVE  TypeOK'
    BY <2>5 DEF Run
  <2>6. ASSUME NEW e \in Events, Pop(e)
        PROVE  TypeOK'
    BY <2>6 DEF Pop
  <2>7. CASE Acquire
    BY <2>7 DEF Acquire, Top, Listed
  <2>8. CASE CheckState
    BY <2>8 DEF CheckState
  <2>9. CASE TimedOut
    BY <2>9 DEF TimedOut
  <2>17. CASE PopEmpty
    BY <2>17 DEF PopEmpty
  <2>10. CASE WokenEarly
    BY <2>10 DEF WokenEarly
  <2>18. CASE SpuriousWake
    BY <2>18 DEF SpuriousWake
  <2>11. CASE Tick
    BY <2>11 DEF Tick
  <2>12. CASE PassOn
    BY <2>12 DEF PassOn
  <2>13. CASE CloseGame
    BY <2>13 DEF CloseGame
  <2>19. CASE Signal
    BY <2>19 DEF Signal
  <2>14. CASE StopBySignal
    BY <2>14 DEF StopBySignal
  <2>20. CASE DispatcherStops
    <3>1. UNCHANGED <<now, threadState, life, due, idVars, threadVars, callVars>>
          /\ dispatcherRunning' \in BOOLEAN /\ shutdownTask' = shutdownTask
          /\ signalPc' = signalPc
      BY <2>20 DEF DispatcherStops
    <3> QED
      BY <3>1
  <2>15. CASE Shutdown
    BY <2>15 DEF Shutdown
  <2>16. CASE UNCHANGED vars
    BY <2>16 DEF vars
  <2> QED
    BY <2>1, <2>2, <2>3, <2>4, <2>5, <2>6, <2>7, <2>8, <2>9, <2>10, <2>11, <2>12, <2>13,
       <2>14, <2>15, <2>16, <2>17, <2>18,
       <2>19, <2>20 DEF Next, SchedulerStep
<1>3. QED
  BY <1>1, <1>2, PTL DEF Spec
-------------------------------------------------------------------------------
\* The thread never sleeps beyond the first cycle in the list unless a caller
\* is about to notify it.
THEOREM NoOversleepHolds == Spec => []NoOversleep
<1>1. Init => NoOversleep
  BY DEF Init, NoOversleep, Listed
<1>2. TypeOK /\ NoOversleep /\ [Next]_vars => NoOversleep'
  <2> SUFFICES ASSUME TypeOK, NoOversleep, [Next]_vars,
                      NEW e \in Listed',
                      spc' = "wait" \/ (spc' = "timedWait" /\ due'[e] < deadline')
               PROVE  \E c \in Callers : cpc'[c] = "notify"
    BY DEF NoOversleep
  <2> USE DEF threadVars, callVars, idVars, serverVars
  <2>1. ASSUME NEW c \in Callers, NEW f \in Events, NEW d \in Delays, AddEvent(c, f, d)
        PROVE  \E b \in Callers : cpc'[b] = "notify"
    <3>1. spc' = spc /\ deadline' = deadline /\ e \in Events /\ cpc[c] = "idle"
      BY <2>1 DEF AddEvent, Listed
    <3>2. ASSUME \E b \in Callers : cpc[b] = "notify"
          PROVE  \E b \in Callers : cpc'[b] = "notify"
      BY <2>1, <3>1, <3>2 DEF AddEvent, TypeOK
    <3>3. CASE threadState # "running" \/ e # f
      <4>1. e \in Listed /\ due'[e] = due[e]
        BY <2>1, <3>1, <3>3 DEF AddEvent, Listed, TypeOK
      <4> QED
        BY <3>1, <3>2, <4>1 DEF NoOversleep
    <3>4. CASE threadState = "running" /\ e = f
      <4>1. due'[e] = Cycle(d) /\ cpc' \in {[cpc EXCEPT ![c] = "notify"], [cpc EXCEPT ![c] = "return"]}
        BY <2>1, <3>4 DEF AddEvent, TypeOK
      <4>2. CASE cpc' = [cpc EXCEPT ![c] = "notify"]
        BY <4>2 DEF TypeOK
      <4>3. CASE cpc' # [cpc EXCEPT ![c] = "notify"]
        <5>1. FALSE \in Signals(f, Cycle(d))
          BY <2>1, <3>4, <4>3 DEF AddEvent, Signals
        <5>2. PICK g \in Listed : due[g] <= Cycle(d)
          <6>1. Cycle(d) \in Nat
            BY CycleInNat DEF TypeOK
          <6>2. (\E g \in Listed : due[g] < Cycle(d)) \/ (\E g \in Listed : due[g] = Cycle(d))
            BY <5>1, Zenon DEF Signals
          <6>3. \A g \in Listed : due[g] \in Nat
            BY DEF Listed, TypeOK
          <6> QED
            BY <6>1, <6>2, <6>3
        <5>3. due[g] \in Nat /\ Cycle(d) \in Nat /\ deadline \in Nat \cup {NoDeadline}
          BY CycleInNat DEF TypeOK, Listed
        <5>4. spc = "timedWait" => due[g] < deadline
          \* deadline exceeds the new cycle, so it is a number or the claim is empty
          BY <3>1, <4>1, <5>2, <5>3
        <5> QED
          BY <3>1, <3>2, <5>2, <5>4 DEF NoOversleep
      <4> QED
        BY <4>2, <4>3
    <3> QED
      BY <3>3, <3>4
  \* The rest either leaves the sleeper and the list alone or wakes the sleeper.
  <2>2. ASSUME spc' = spc, deadline' = deadline, due' = due, Listed' \subseteq Listed,
               \A c \in Callers : cpc[c] = "notify" => cpc'[c] = "notify"
        PROVE  \E c \in Callers : cpc'[c] = "notify"
    BY <2>2 DEF NoOversleep
  <2>3. ASSUME NEW c \in Callers, Notify(c)
        PROVE  \E b \in Callers : cpc'[b] = "notify"
    BY <2>3 DEF Notify
  <2>4. ASSUME NEW c \in Callers, Return(c)
        PROVE  \E b \in Callers : cpc'[b] = "notify"
    <3>1. \A b \in Callers : cpc[b] = "notify" => cpc'[b] = "notify"
      BY <2>4 DEF Return, TypeOK
    <3> QED
      BY <2>2, <2>4, <3>1 DEF Return, Listed
  <2>5. ASSUME NEW f \in Events, StopEvent(f) \/ Run(f)
        PROVE  \E b \in Callers : cpc'[b] = "notify"
    <3>1. Listed' \subseteq Listed
      BY <2>5 DEF StopEvent, Run, Listed, TypeOK
    <3> QED
      BY <2>2, <2>5, <3>1 DEF StopEvent, Run
  <2>6. CASE Acquire
    <3>1. Listed' = Listed /\ due' = due /\ \A f \in Listed : due[f] \in Nat
      BY <2>6 DEF Acquire, Listed, TypeOK
    <3>2. deadline' \in {due[f] : f \in Top}
      BY <2>6, <3>1 DEF Acquire
    <3>3. spc' = "timedWait" /\ due[e] < deadline'
      BY <2>6, <3>1 DEF Acquire
    <3>4. deadline' <= due[e] /\ deadline' \in Nat /\ due[e] \in Nat
      BY <3>1, <3>2 DEF Top, Listed
    <3> QED
      BY <3>3, <3>4
  <2>7. ASSUME NEW f \in Events, Pop(f)
        PROVE  \E b \in Callers : cpc'[b] = "notify"
    BY <2>7 DEF Pop
  <2>8. CASE CheckState \/ TimedOut \/ PopEmpty \/ WokenEarly \/ SpuriousWake \/ PassOn
    BY <2>8 DEF CheckState, TimedOut, PopEmpty, WokenEarly, SpuriousWake, PassOn
  <2>9. CASE Tick \/ CloseGame \/ Signal \/ StopBySignal \/ DispatcherStops
    BY <2>2, <2>9 DEF Tick, CloseGame, Signal, StopBySignal, DispatcherStops, Listed
  <2>10. CASE Shutdown
    BY <2>10 DEF Shutdown, Listed
  <2>11. CASE UNCHANGED vars
    BY <2>2, <2>11 DEF vars, Listed
  <2> QED
    BY <2>1, <2>3, <2>4, <2>5, <2>6, <2>7, <2>8, <2>9, <2>10, <2>11 DEF Next, SchedulerStep
<1>3. QED
  BY <1>1, <1>2, TypeCorrect, PTL DEF Spec
-------------------------------------------------------------------------------
LEMMA SleepInvHolds == Spec => []SleepInv
<1>1. Init => SleepInv
  BY DEF Init, SleepInv
<1>2. TypeOK /\ SleepInv /\ [Next]_vars => SleepInv'
  <2> SUFFICES ASSUME TypeOK, SleepInv, [Next]_vars
               PROVE  SleepInv'
    OBVIOUS
  <2> USE SchedulerAssumption DEF threadVars, callVars, idVars, serverVars
  <2>1. ASSUME UNCHANGED <<spc, deadline, action, shutdownTask>>,
               now' = now \/ (now' = now + 1),
               \A e \in Listed : e \in Listed' /\ due'[e] = due[e]
        PROVE  SleepInv'
    <3>1. deadline # NoDeadline /\ deadline <= now => deadline <= now'
      BY <2>1 DEF TypeOK
    <3> QED
      BY <2>1, <3>1 DEF SleepInv
  <2>2. ASSUME NEW c \in Callers, NEW f \in Events, NEW d \in Delays, AddEvent(c, f, d)
        PROVE  SleepInv'
    <3>1. \A e \in Listed : e \in Listed' /\ due'[e] = due[e]
      BY <2>2 DEF AddEvent, Listed, TypeOK
    <3> QED
      BY <2>1, <2>2, <3>1 DEF AddEvent
  <2>3. ASSUME NEW c \in Callers, Notify(c)
        PROVE  SleepInv'
    <3>1. Listed' = Listed
      BY <2>3 DEF Notify, Listed
    <3> QED
      BY <2>3, <3>1 DEF Notify, SleepInv
  <2>4. ASSUME NEW c \in Callers, Return(c)
        PROVE  SleepInv'
    BY <2>1, <2>4 DEF Return, Listed
  <2>5. ASSUME NEW e \in Events, StopEvent(e)
        PROVE  SleepInv'
    BY <2>1, <2>5 DEF StopEvent, Listed
  <2>6. ASSUME NEW e \in Events, Run(e)
        PROVE  SleepInv'
    BY <2>1, <2>6 DEF Run, Listed, TypeOK
  <2>7. ASSUME NEW e \in Events, Pop(e)
        PROVE  SleepInv'
    BY <2>7 DEF Pop, SleepInv
  <2>8. CASE Acquire
    <3>1. CASE Listed = {}
      BY <2>8, <3>1 DEF Acquire, SleepInv
    <3>2. CASE Listed # {}
      <4>1. PICK e \in Top : deadline' = due[e]
        BY <2>8, <3>2 DEF Acquire
      <4>2. e \in Listed' /\ due'[e] <= deadline' /\ deadline' \in Nat
        BY <2>8, <4>1 DEF Acquire, Top, Listed, TypeOK
      <4> QED
        BY <2>8, <3>2, <4>2 DEF Acquire, SleepInv
    <3> QED
      BY <3>1, <3>2
  <2>9. CASE CheckState \/ TimedOut
    BY <2>9 DEF CheckState, TimedOut, SleepInv, Listed
  <2>10. CASE PopEmpty \/ WokenEarly
    BY <2>10 DEF PopEmpty, WokenEarly, SleepInv
  <2>11. CASE SpuriousWake
    BY <2>11 DEF SpuriousWake, SleepInv, Listed
  <2>12. CASE PassOn
    BY <2>12 DEF PassOn, SleepInv
  <2>13. CASE Tick
    BY <2>1, <2>13 DEF Tick, Listed
  <2>14. CASE CloseGame \/ Signal
    BY <2>14 DEF CloseGame, Signal, SleepInv, Listed
  <2>15. CASE StopBySignal \/ DispatcherStops
    BY <2>1, <2>15 DEF StopBySignal, DispatcherStops, Listed
  <2>16. CASE Shutdown
    BY <2>16 DEF Shutdown, SleepInv
  <2>17. CASE UNCHANGED vars
    BY <2>1, <2>17 DEF vars, Listed
  <2> QED
    BY <2>2, <2>3, <2>4, <2>5, <2>6, <2>7, <2>8, <2>9, <2>10, <2>11, <2>12, <2>13, <2>14,
       <2>15, <2>16, <2>17 DEF Next, SchedulerStep
<1>3. QED
  BY <1>1, <1>2, TypeCorrect, PTL DEF Spec

\* A timeout of timed_wait finds a due event on top of the queue.
THEOREM TimeoutFindsDueEventHolds == Spec => []TimeoutFindsDueEvent
<1>1. TypeOK /\ SleepInv => TimeoutFindsDueEvent
  <2> SUFFICES ASSUME TypeOK, SleepInv, spc = "woken", ~action, deadline # NoDeadline,
                      shutdownTask # "done"
               PROVE  \E e \in Listed : due[e] <= now
    BY DEF TimeoutFindsDueEvent
  <2>1. PICK e \in Listed : due[e] <= deadline
    BY DEF SleepInv
  <2>2. deadline <= now /\ deadline \in Nat /\ now \in Nat /\ due[e] \in Nat
    BY DEF SleepInv, TypeOK, Listed
  <2> QED
    BY <2>1, <2>2
<1>2. QED
  BY <1>1, SleepInvHolds, TypeCorrect, PTL
-------------------------------------------------------------------------------
LEMMA EventInvHolds == Spec => []EventInv
<1>1. Init => EventInv
  BY SchedulerAssumption DEF Init, EventInv, Ids, Stopped, Known, Popped
<1>2. TypeOK /\ EventInv /\ [Next]_vars => EventInv'
  <2> SUFFICES ASSUME TypeOK, EventInv, [Next]_vars
               PROVE  EventInv'
    OBVIOUS
  <2> USE SchedulerAssumption DEF threadVars, callVars, idVars, serverVars
  <2>1. ASSUME UNCHANGED <<life, eventId, eventIds, cpc, adding, returned, stopped, cur>>,
               spc' # "dispatch" \/ spc' = spc
        PROVE  EventInv'
    BY <2>1 DEF EventInv, Ids, Stopped, Known, Popped, Listed
  <2>2. ASSUME NEW c \in Callers, NEW e \in Events, NEW d \in Delays, AddEvent(c, e, d)
        PROVE  EventInv'
    <3>1. /\ life[e] = "new" /\ eventId[e] = 0 /\ e \notin stopped /\ e \notin returned
          /\ \A b \in Callers : cpc[b] # "idle" => adding[b] # e
          /\ cpc[c] = "idle" /\ adding' = [adding EXCEPT ![c] = e]
          /\ UNCHANGED <<returned, stopped, spc, cur>>
      BY <2>2 DEF AddEvent, EventInv, Ids, Stopped, Known
    <3>2. Known'
      <4>1. life'[e] \in {"listed", "refused"} /\ \A f \in Events : f # e => life'[f] = life[f]
        BY <2>2 DEF AddEvent, TypeOK
      <4>2. \A b \in Callers : b # c => cpc'[b] = cpc[b] /\ adding'[b] = adding[b]
        BY <2>2 DEF AddEvent, TypeOK
      <4>3. adding'[c] = e
        BY <3>1 DEF TypeOK
      <4>4. \A b \in Callers : b # c /\ cpc'[b] # "idle"
               => adding'[b] \in Events /\ adding'[b] # e /\ life'[adding'[b]] = life[adding[b]]
        BY <3>1, <4>1, <4>2 DEF EventInv, Known
      <4>5. \A f \in returned : f # e /\ life'[f] = life[f]
        BY <3>1, <4>1 DEF TypeOK
      <4> QED
        BY <3>1, <4>1, <4>2, <4>3, <4>4, <4>5 DEF EventInv, Known
    <3>3. CASE threadState = "running"
      <4>1. /\ IdFree(NextId)
            /\ eventId' = [eventId EXCEPT ![e] = NextId]
            /\ eventIds' = eventIds \cup {NextId}
            /\ life' = [life EXCEPT ![e] = "listed"]
        BY <2>2, <3>3 DEF AddEvent
      <4>2. NextId \in 1 .. MaxId
        BY NextIdInRange DEF TypeOK
      <4>3. /\ eventId'[e] = NextId /\ life'[e] = "listed" /\ NextId # 0
            /\ \A f \in Events : f # e => /\ eventId'[f] = eventId[f] /\ life'[f] = life[f]
                                         /\ eventId[f] # NextId
        BY <4>1, <4>2 DEF TypeOK, IdFree
      <4>4. Ids'
        <5>1. \A f \in Events : life'[f] \in {"new", "refused"} <=> eventId'[f] = 0
          BY <4>3 DEF EventInv, Ids
        <5>2. \A f, g \in Events : eventId'[f] = eventId'[g] /\ eventId'[f] # 0 => f = g
          BY <4>3 DEF EventInv, Ids
        <5>3. \A i \in eventIds' : \E f \in Listed' : eventId'[f] = i
          <6>1. \A f \in Listed : f \in Listed' /\ eventId'[f] = eventId[f]
            BY <3>1, <4>3 DEF Listed
          <6>2. e \in Listed' /\ eventId'[e] = NextId
            BY <4>3 DEF Listed
          <6> QED
            BY <4>1, <6>1, <6>2 DEF EventInv, Ids
        <5> QED
          BY <5>1, <5>2, <5>3 DEF Ids
      <4>5. Stopped'
        BY <3>1, <4>1, <4>3 DEF EventInv, Stopped, TypeOK
      <4>6. Popped'
        BY <3>1, <4>3 DEF EventInv, Popped
      <4> QED
        BY <3>2, <4>4, <4>5, <4>6 DEF EventInv
    <3>4. CASE threadState # "running"
      <4>1. life' = [life EXCEPT ![e] = "refused"] /\ eventId' = eventId /\ eventIds' = eventIds
        BY <2>2, <3>4 DEF AddEvent
      <4>2. life'[e] = "refused" /\ \A f \in Events : f # e => life'[f] = life[f]
        BY <4>1 DEF TypeOK
      <4>3. Listed' = Listed
        BY <3>1, <4>2 DEF Listed
      <4>4. Ids'
        BY <3>1, <4>1, <4>2, <4>3 DEF EventInv, Ids
      <4>5. Stopped'
        BY <3>1, <4>1, <4>2 DEF EventInv, Stopped, TypeOK
      <4>6. Popped'
        BY <3>1, <4>2 DEF EventInv, Popped
      <4> QED
        BY <3>2, <4>4, <4>5, <4>6 DEF EventInv
    <3> QED
      BY <3>3, <3>4
  <2>3. ASSUME NEW c \in Callers, Notify(c)
        PROVE  EventInv'
    <3>1. \A b \in Callers : cpc'[b] = "idle" <=> cpc[b] = "idle"
      BY <2>3 DEF Notify, TypeOK
    <3>2. UNCHANGED <<life, eventId, eventIds, adding, returned, stopped, cur>>
          /\ (spc' # "dispatch" \/ spc' = spc)
      BY <2>3 DEF Notify
    <3>3. Known'
      BY <3>1, <3>2 DEF EventInv, Known
    <3> QED
      BY <3>2, <3>3 DEF EventInv, Ids, Stopped, Popped, Listed
  <2>4. ASSUME NEW c \in Callers, Return(c)
        PROVE  EventInv'
    <3>1. /\ cpc[c] = "return" /\ UNCHANGED <<life, eventId, eventIds, spc, stopped, cur>>
          /\ cpc' = [cpc EXCEPT ![c] = "idle"] /\ adding' = [adding EXCEPT ![c] = NoEvent]
          /\ returned' = IF c = DispatcherThread /\ life[adding[c]] # "refused"
                          THEN returned \cup {adding[c]} ELSE returned
      BY <2>4 DEF Return
    <3>2. adding[c] \in Events /\ life[adding[c]] # "new"
      BY <3>1 DEF EventInv, Known
    <3>3. \A b \in Callers : cpc'[b] # "idle" =>
            b # c /\ cpc[b] = cpc'[b] /\ adding'[b] = adding[b] /\ adding[b] # adding[c]
      BY <3>1 DEF TypeOK, EventInv, Known
    <3>4. /\ returned \subseteq returned' /\ returned' \subseteq returned \cup {adding[c]}
          /\ \A e \in returned' : life[e] \notin {"new", "refused"}
      <4>1. \A e \in returned : life[e] \notin {"new", "refused"}
        BY DEF EventInv, Known
      <4> QED
        BY <3>1, <3>2, <4>1
    <3>5. Known'
      BY <3>1, <3>2, <3>3, <3>4 DEF EventInv, Known
    <3> QED
      BY <3>1, <3>5 DEF EventInv, Ids, Stopped, Popped, Listed
  <2>5. ASSUME NEW e \in Events, StopEvent(e)
        PROVE  EventInv'
    <3>1. /\ e \in returned /\ eventId[e] \in eventIds
          /\ eventIds' = eventIds \ {eventId[e]} /\ stopped' = stopped \cup {e}
          /\ UNCHANGED <<life, eventId, cpc, adding, returned, spc, cur>>
      BY <2>5 DEF StopEvent
    <3>2. life[e] = "listed"
      <4>1. PICK f \in Listed : eventId[f] = eventId[e]
        BY <3>1 DEF EventInv, Ids
      <4>2. eventId[e] # 0
        BY <3>1 DEF TypeOK
      <4> QED
        BY <4>1, <4>2 DEF EventInv, Ids, Listed
    <3>3. \A f \in Events : f # e /\ life[f] = "listed" /\ eventId[f] \notin eventIds'
            => eventId[f] \notin eventIds
      <4>1. eventId[e] # 0
        BY <3>1 DEF TypeOK
      <4> QED
        BY <3>1, <4>1 DEF EventInv, Ids
    <3>4. Ids'
      <4>1. Listed' = Listed
        BY <3>1 DEF Listed
      <4> QED
        BY <3>1, <4>1 DEF EventInv, Ids
    <3>5. Stopped'
      BY <3>1, <3>2, <3>3 DEF EventInv, Stopped
    <3>6. Known'
      BY <3>1 DEF EventInv, Known
    <3> QED
      BY <3>1, <3>4, <3>5, <3>6 DEF EventInv, Popped
  <2>6. ASSUME NEW e \in Events, Run(e)
        PROVE  EventInv'
    <3>1. /\ cpc[DispatcherThread] = "idle" /\ life[e] = "handed"
          /\ life'[e] = "executed" /\ \A f \in Events : f # e => life'[f] = life[f]
          /\ UNCHANGED <<eventId, eventIds, cpc, adding, returned, stopped, spc, cur>>
      BY <2>6 DEF Run, TypeOK
    <3>2. Listed' = Listed
      BY <3>1 DEF Listed
    <3>3. Ids'
      BY <3>1, <3>2 DEF EventInv, Ids
    <3>4. Stopped'
      BY <3>1 DEF EventInv, Stopped, TypeOK
    <3>5. Known'
      BY <3>1 DEF EventInv, Known, TypeOK
    <3>6. Popped'
      BY <3>1 DEF EventInv, Popped
    <3> QED
      BY <3>3, <3>4, <3>5, <3>6 DEF EventInv
  <2>7. ASSUME NEW e \in Events, Pop(e)
        PROVE  EventInv'
    <3>1. /\ life[e] = "listed" /\ cur' = e /\ spc' = "dispatch"
          /\ life'[e] = IF eventId[e] \in eventIds THEN "taken" ELSE "void"
          /\ \A f \in Events : f # e => life'[f] = life[f]
          /\ eventIds' = eventIds \ {eventId[e]}
          /\ UNCHANGED <<eventId, cpc, adding, returned, stopped>>
      BY <2>7 DEF Pop, Top, Listed, TypeOK
    <3>2. eventId[e] # 0 /\ \A f \in Events : f # e => eventId[f] # eventId[e]
      BY <3>1 DEF EventInv, Ids
    <3>3. Ids'
      <4>1. \A f \in Events : life'[f] \in {"new", "refused"} <=> eventId'[f] = 0
        BY <3>1 DEF EventInv, Ids
      <4>2. \A i \in eventIds' : \E f \in Listed' : eventId'[f] = i
        BY <3>1, <3>2 DEF EventInv, Ids, Listed
      <4> QED
        BY <3>1, <4>1, <4>2 DEF EventInv, Ids
    <3>4. Stopped'
      BY <3>1, <3>2 DEF EventInv, Stopped, TypeOK
    <3>5. Known'
      BY <3>1 DEF EventInv, Known, TypeOK
    <3>6. Popped'
      BY <3>1 DEF Popped
    <3> QED
      BY <3>3, <3>4, <3>5, <3>6 DEF EventInv
  <2>8. CASE CheckState \/ Acquire \/ TimedOut
    BY <2>1, <2>8 DEF CheckState, Acquire, TimedOut
  <2>9. CASE PopEmpty \/ WokenEarly \/ SpuriousWake \/ Tick
    BY <2>1, <2>9 DEF PopEmpty, WokenEarly, SpuriousWake, Tick
  <2>10. CASE PassOn
    <3>1. /\ cur \in Events /\ life[cur] \in {"taken", "void"}
          /\ life'[cur] = IF life[cur] = "void" THEN "deleted"
                          ELSE IF dispatcherRunning THEN "handed" ELSE "lost"
          /\ \A f \in Events : f # cur => life'[f] = life[f]
          /\ spc' = "loop" /\ UNCHANGED <<eventId, eventIds, cpc, adding, returned, stopped>>
      BY <2>10 DEF PassOn, EventInv, Popped, TypeOK
    <3>2. Listed' = Listed
      BY <3>1 DEF Listed
    <3>3. Ids'
      BY <3>1, <3>2 DEF EventInv, Ids
    <3>4. Stopped'
      BY <3>1 DEF EventInv, Stopped, TypeOK
    <3>5. Known'
      BY <3>1 DEF EventInv, Known, TypeOK
    <3> QED
      BY <3>1, <3>3, <3>4, <3>5 DEF EventInv, Popped
  <2>11. CASE CloseGame \/ Signal \/ StopBySignal \/ DispatcherStops
    BY <2>1, <2>11 DEF CloseGame, Signal, StopBySignal, DispatcherStops
  <2>12. CASE Shutdown
    <3>1. /\ \A e \in Events : life'[e] = IF life[e] = "listed" THEN "lost" ELSE life[e]
          /\ eventIds' = {} /\ UNCHANGED <<eventId, cpc, adding, returned, stopped, spc, cur>>
      BY <2>12 DEF Shutdown
    <3>2. Ids'
      BY <3>1 DEF EventInv, Ids
    <3>3. Stopped'
      BY <3>1 DEF EventInv, Stopped, TypeOK
    <3>4. Known'
      BY <3>1 DEF EventInv, Known, TypeOK
    <3>5. Popped'
      BY <3>1 DEF EventInv, Popped
    <3> QED
      BY <3>2, <3>3, <3>4, <3>5 DEF EventInv
  <2>13. CASE UNCHANGED vars
    BY <2>1, <2>13 DEF vars
  <2> QED
    BY <2>2, <2>3, <2>4, <2>5, <2>6, <2>7, <2>8, <2>9, <2>10, <2>11, <2>12, <2>13
    DEF Next, SchedulerStep
<1>3. QED
  BY <1>1, <1>2, TypeCorrect, PTL DEF Spec

\* Once stopEvent has said true for an event, its task is never run.
THEOREM StoppedNeverRunsHolds == Spec => []StoppedNeverRuns
<1>1. EventInv => StoppedNeverRuns
  BY DEF EventInv, Stopped, StoppedNeverRuns
<1>2. QED
  BY <1>1, EventInvHolds, PTL

\* Each id in m_eventIds names one task, and that task is in m_eventList.
THEOREM IdsMatchEventsHolds == Spec => []IdsMatchEvents
<1>1. EventInv => IdsMatchEvents
  BY DEF EventInv, Ids, IdsMatchEvents
<1>2. QED
  BY <1>1, EventInvHolds, PTL

\* addEvent called by the dispatcher thread reads the id of a live task.
THEOREM DispatcherReadsLiveTaskHolds == Spec => []DispatcherReadsLiveTask
<1>1. EventInv => DispatcherReadsLiveTask
  <2> SUFFICES ASSUME EventInv, cpc[DispatcherThread] # "idle"
               PROVE  ~Freed(adding[DispatcherThread])
    BY DEF DispatcherReadsLiveTask
  <2>1. /\ adding[DispatcherThread] \in Events
        /\ adding[DispatcherThread] \notin stopped
        /\ life[adding[DispatcherThread]] # "executed"
    BY SchedulerAssumption DEF EventInv, Known
  <2> QED
    BY <2>1 DEF EventInv, Stopped, Freed
<1>2. QED
  BY <1>1, EventInvHolds, PTL
-------------------------------------------------------------------------------
LEMMA OneTimerMoves ==
  ASSUME NEW e \in Events, NEW to,
         \A f \in Events : f # e => TimerOf(f)' = TimerOf(f),
         TimerOf(e)' = to
  PROVE  T!Move(e, TimerOf(e), to)
BY DEF T!Move, timerState

\* Every step of the scheduler is a step of the abstract timer service or leaves
\* all timers as they are.
THEOREM SchedulerImplementsTimers == Spec => ImplementsTimers
<1>1. Init => T!Init
  BY DEF Init, T!Init, timerState, TimerOf
<1>2. TypeOK /\ EventInv /\ [Next]_vars => [T!Next]_timerState
  <2> SUFFICES ASSUME TypeOK, EventInv, [Next]_vars
               PROVE  T!Next \/ UNCHANGED timerState
    BY DEF T!Next
  <2> USE DEF threadVars, callVars, idVars, serverVars
  <2>1. ASSUME UNCHANGED <<life, stopped>>
        PROVE  UNCHANGED timerState
    BY <2>1 DEF timerState, TimerOf
  <2>2. ASSUME NEW c \in Callers, NEW e \in Events, NEW d \in Delays, AddEvent(c, e, d)
        PROVE  T!Next
    <3>1. /\ life[e] = "new" /\ life'[e] \in {"listed", "refused"} /\ stopped' = stopped
          /\ \A f \in Events : f # e => life'[f] = life[f]
      BY <2>2 DEF AddEvent, TypeOK
    <3>2. e \notin stopped
      BY <3>1 DEF EventInv, Stopped
    <3>3. /\ TimerOf(e) = "idle" /\ TimerOf(e)' \in {"pending", "lost"}
          /\ \A f \in Events : f # e => TimerOf(f)' = TimerOf(f)
      BY <3>1, <3>2 DEF TimerOf
    <3>4. T!Schedule(e) \/ T!Refuse(e)
      BY <3>3, OneTimerMoves DEF T!Schedule, T!Refuse
    <3> QED
      BY <3>4 DEF T!Next
  <2>3. ASSUME NEW c \in Callers, Notify(c) \/ Return(c)
        PROVE  UNCHANGED timerState
    BY <2>1, <2>3 DEF Notify, Return
  <2>4. ASSUME NEW e \in Events, StopEvent(e)
        PROVE  T!Next
    <3>1. stopped' = stopped \cup {e} /\ life' = life /\ e \in stopped'
      BY <2>4 DEF StopEvent
    <3>2. life[e] = "listed" /\ e \notin stopped
      <4>1. PICK f \in Listed : eventId[f] = eventId[e]
        BY <2>4 DEF StopEvent, EventInv, Ids
      <4>2. eventId[e] # 0
        BY <2>4 DEF StopEvent, TypeOK
      <4>3. life[e] = "listed"
        BY <4>1, <4>2 DEF EventInv, Ids, Listed
      <4> QED
        BY <2>4, <4>3 DEF StopEvent, EventInv, Stopped
    <3>3. /\ TimerOf(e) = "pending" /\ TimerOf(e)' = "cancelled"
          /\ \A f \in Events : f # e => TimerOf(f)' = TimerOf(f)
      BY <3>1, <3>2 DEF TimerOf
    <3>4. T!Cancel(e)
      BY <3>3, OneTimerMoves DEF T!Cancel
    <3> QED
      BY <3>4 DEF T!Next
  <2>5. ASSUME NEW e \in Events, Run(e)
        PROVE  T!Next
    <3>1. /\ life[e] = "handed" /\ life'[e] = "executed" /\ stopped' = stopped
          /\ \A f \in Events : f # e => life'[f] = life[f]
      BY <2>5 DEF Run, TypeOK
    <3>2. /\ TimerOf(e) = "committed" /\ TimerOf(e)' = "executed"
          /\ \A f \in Events : f # e => TimerOf(f)' = TimerOf(f)
      BY <3>1 DEF TimerOf
    <3>3. T!Execute(e)
      BY <3>2, OneTimerMoves DEF T!Execute
    <3> QED
      BY <3>3 DEF T!Next
  <2>6. ASSUME NEW e \in Events, Pop(e)
        PROVE  T!Next \/ UNCHANGED timerState
    <3>1. /\ life[e] = "listed" /\ stopped' = stopped
          /\ life'[e] = IF eventId[e] \in eventIds THEN "taken" ELSE "void"
          /\ \A f \in Events : f # e => life'[f] = life[f]
      BY <2>6 DEF Pop, Top, Listed, TypeOK
    <3>2. \A f \in Events : f # e => TimerOf(f)' = TimerOf(f)
      BY <3>1 DEF TimerOf
    <3>3. CASE eventId[e] \in eventIds
      <4>1. e \notin stopped
        BY <3>1, <3>3 DEF EventInv, Stopped
      <4>2. TimerOf(e) = "pending" /\ TimerOf(e)' = "committed"
        BY <3>1, <3>3, <4>1 DEF TimerOf
      <4>3. T!Commit(e)
        BY <3>2, <4>2, OneTimerMoves DEF T!Commit
      <4> QED
        BY <4>3 DEF T!Next
    <3>4. CASE eventId[e] \notin eventIds
      <4>1. e \in stopped
        BY <3>1, <3>4 DEF EventInv, Stopped
      <4>2. TimerOf(e)' = TimerOf(e)
        BY <3>1, <3>4, <4>1 DEF TimerOf
      <4> QED
        BY <3>2, <4>2 DEF timerState
    <3> QED
      BY <3>3, <3>4
  <2>7. CASE PassOn
    <3>0. PICK e \in Events : e = cur
      BY <2>7 DEF PassOn, EventInv, Popped
    <3>1. /\ life[e] \in {"taken", "void"} /\ stopped' = stopped
          /\ life'[e] = IF life[e] = "void" THEN "deleted"
                          ELSE IF dispatcherRunning THEN "handed" ELSE "lost"
          /\ \A f \in Events : f # e => life'[f] = life[f]
      BY <2>7, <3>0 DEF PassOn, EventInv, Popped, TypeOK
    <3>2. \A f \in Events : f # e => TimerOf(f)' = TimerOf(f)
      BY <3>1 DEF TimerOf
    <3>3. CASE life[e] = "taken" /\ ~dispatcherRunning
      <4>1. e \notin stopped
        BY <3>3 DEF EventInv, Stopped
      <4>2. TimerOf(e) = "committed" /\ TimerOf(e)' = "lost"
        BY <3>1, <3>3, <4>1 DEF TimerOf
      <4>3. T!Lose(e)
        BY <3>1, <3>2, <4>2, OneTimerMoves DEF T!Lose
      <4> QED
        BY <3>1, <4>3 DEF T!Next
    <3>4. CASE ~(life[e] = "taken" /\ ~dispatcherRunning)
      <4>1. life[e] = "void" => e \in stopped
        BY <3>1 DEF EventInv, Stopped
      <4>2. TimerOf(e)' = TimerOf(e)
        BY <3>1, <3>4, <4>1 DEF TimerOf
      <4> QED
        BY <3>2, <4>2 DEF timerState
    <3> QED
      BY <3>3, <3>4
  <2>8. CASE Shutdown
    <3>1. /\ \A e \in Events : life'[e] = IF life[e] = "listed" THEN "lost" ELSE life[e]
          /\ stopped' = stopped
      BY <2>8 DEF Shutdown
    <3>2. \A e \in Events : TimerOf(e)' = IF TimerOf(e) = "pending" THEN "lost" ELSE TimerOf(e)
      BY <3>1 DEF TimerOf
    <3>3. T!Forget
      BY <3>2 DEF T!Forget, timerState
    <3> QED
      BY <3>3 DEF T!Next
  <2>9. CASE CheckState \/ Acquire \/ TimedOut
    BY <2>1, <2>9 DEF CheckState, Acquire, TimedOut
  <2>10. CASE PopEmpty \/ WokenEarly \/ SpuriousWake \/ Tick
    BY <2>1, <2>10 DEF PopEmpty, WokenEarly, SpuriousWake, Tick
  <2>11. CASE CloseGame \/ Signal \/ StopBySignal \/ DispatcherStops
    BY <2>1, <2>11 DEF CloseGame, Signal, StopBySignal, DispatcherStops
  <2>12. CASE UNCHANGED vars
    BY <2>1, <2>12 DEF vars
  <2> QED
    BY <2>2, <2>3, <2>4, <2>5, <2>6, <2>7, <2>8, <2>9, <2>10, <2>11, <2>12
    DEF Next, SchedulerStep
<1>3. QED
  BY <1>1, <1>2, TypeCorrect, EventInvHolds, PTL DEF Spec, ImplementsTimers, T!Spec
================================================================================
