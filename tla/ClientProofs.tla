---------------------------- MODULE ClientProofs ----------------------------
(* The scenes of World that are about what clients see: private channels,    *)
(* reports, and a tile.  Of each, that the property which the run checks on  *)
(* a small instance holds for any players, channels and things.              *)
EXTENDS World, SequenceTheorems, FiniteSetTheorems, WellFoundedInduction, TLAPS

-----------------------------------------------------------------------------
(* Private channels and reports (module Channels).                           *)

ChannelsAssumption(A) == None \notin Members /\ A \subseteq Members

ChannelRecord ==
  [owner : Members \cup {None}, invites : SUBSET Members, users : SUBSET Members,
   stray : SUBSET Members]
ReportRecord == [state : {"none", "open", "taken"}, gamemaster : Members \cup {None}]
ViewRecord(I) ==
  [windows : SUBSET I, rvr : {"closed", "full", "bare", "orphan"}, reports : SUBSET Members]

ChannelsType(I) ==
  [online : SUBSET Members, may : SUBSET Members, chat : [I -> ChannelRecord],
   rvr : SUBSET Members, reports : [Members -> ReportRecord], view : [Members -> ViewRecord(I)],
   orphans : SUBSET (Members \X I), forgotten : SUBSET Members]

\* A channel: its owner has no other, its users are online and invited, and
\* their clients show it; one that nobody owns has no users.
ChannelOf(I, s, c) ==
  /\ s.chat[c].owner = None => s.chat[c].users = {}
  /\ s.chat[c].owner # None =>
       /\ s.chat[c].owner \in s.chat[c].users
       /\ \A d \in I : s.chat[d].owner = s.chat[c].owner => d = c
  /\ \A p \in s.chat[c].users :
       /\ p \in s.online
       /\ p = s.chat[c].owner \/ p \in s.chat[c].invites
  /\ \A p \in Members :
       /\ p \in s.chat[c].users => c \in s.view[p].windows
       /\ c \in s.view[p].windows => p \in s.chat[c].users \/ <<p, c>> \in s.orphans

\* A report and those who see it.
ReportOf(s, r) ==
  /\ s.reports[r].state # "none" => r \in s.online
  /\ s.reports[r].state = "taken" => s.reports[r].gamemaster \in s.online \/ r \in s.forgotten
  /\ s.reports[r].state # "taken" => s.reports[r].gamemaster = None

ListOf(s, p) ==
  p \in s.rvr =>
    /\ p \in s.online
    /\ s.view[p].rvr = "full" =>
         \A r \in Members : r \in s.view[p].reports <=> s.reports[r].state = "open"
    /\ s.view[p].rvr = "bare" =>
         \A r \in s.view[p].reports : s.reports[r].state = "open"

ChatSound(I, s) == \A c \in I : ChannelOf(I, s, c)
ReportsSound(s) == \A p \in Members : ReportOf(s, p) /\ ListOf(s, p)
ChannelsSound(I, A, s) ==
  /\ ChannelsAssumption(A)
  /\ s \in ChannelsType(I) /\ ChatSound(I, s) /\ ReportsSound(s)

LEMMA ChannelsSoundAgrees ==
  ASSUME NEW I, NEW A,
         ChannelsSound(I, A, w), ChannelsAssumption(A)
  PROVE  Chat(I, A)!ChannelsAgree
<1> USE DEF ChannelsSound
<1>1. ASSUME NEW c \in I, Chat(I, A)!Live(c)
      PROVE  /\ w.chat[c].owner \in w.chat[c].users /\ Chat(I, A)!Owned(w.chat[c].owner) = {c}
             /\ \A p \in w.chat[c].users : Chat(I, A)!IsInvited(p, c) /\ p \in w.online
  BY <1>1 DEF ChatSound, ChannelOf, Chat!Live, Chat!Owned, Chat!IsInvited
<1>2. ASSUME NEW p \in Members, NEW c \in I
      PROVE  /\ p \in w.chat[c].users => c \in w.view[p].windows
             /\ c \in w.view[p].windows => p \in w.chat[c].users \/ <<p, c>> \in w.orphans
  BY DEF ChatSound, ChannelOf
<1>3. Chat(I, A)!WindowsAgree
  BY <1>1, <1>2 DEF Chat!WindowsAgree
<1>4. ASSUME NEW r \in Members
      PROVE  /\ w.reports[r].state # "none" => r \in w.online
             /\ w.reports[r].state = "taken" => w.reports[r].gamemaster \in w.online \/ r \in w.forgotten
  BY DEF ReportsSound, ReportOf
<1>5. ASSUME NEW p \in w.rvr
      PROVE  /\ p \in w.online
             /\ w.view[p].rvr = "full" => w.view[p].reports = Chat(I, A)!OpenReports(w.reports)
             /\ w.view[p].rvr = "bare" => w.view[p].reports \subseteq Chat(I, A)!OpenReports(w.reports)
  <2>1. p \in Members /\ w.view[p].reports \subseteq Members
    BY DEF ChannelsType, ViewRecord
  <2> QED
    BY <2>1 DEF ReportsSound, ListOf, Chat!OpenReports
<1>6. Chat(I, A)!ReportsAgree
  BY <1>4, <1>5 DEF Chat!ReportsAgree
<1> QED
  BY <1>3, <1>6 DEF Chat!ChannelsAgree

LEMMA ChannelsInit ==
  ASSUME NEW I, NEW A,
         ChannelsAssumption(A), Chat(I, A)!Init
  PROVE  ChannelsSound(I, A, w)
<1>1. w \in ChannelsType(I)
  BY DEF ChannelsAssumption, Chat!Init, ChannelsType, ChannelRecord, ReportRecord, ViewRecord,
         Chat!Closed, Chat!NoReport, Chat!NoView
<1>2. ChatSound(I, w)
  BY DEF Chat!Init, ChatSound, ChannelOf, Chat!Closed, Chat!NoView
<1>3. ReportsSound(w)
  BY DEF Chat!Init, ReportsSound, ReportOf, ListOf, Chat!NoReport, Chat!NoView
<1> QED
  BY <1>1, <1>2, <1>3 DEF ChannelsSound

-----------------------------------------------------------------------------
(* What leaves channels, or reports, as they are.                            *)

LEMMA SameChannels ==
  ASSUME NEW I, NEW A,
         NEW s, ChatSound(I, s), NEW t, t.chat = s.chat, s.online \subseteq t.online,
         t.orphans = s.orphans, \A p \in Members : t.view[p].windows = s.view[p].windows
  PROVE  ChatSound(I, t)
BY DEF ChatSound, ChannelOf

LEMMA SameReports ==
  ASSUME NEW I, NEW A,
         NEW s, ReportsSound(s), NEW t, t.reports = s.reports, s.online \subseteq t.online,
         t.rvr = s.rvr, s.forgotten \subseteq t.forgotten,
         \A p \in Members : t.view[p].rvr = s.view[p].rvr /\ t.view[p].reports = s.view[p].reports
  PROVE  ReportsSound(t)
<1>1. ASSUME NEW p \in Members
      PROVE  ReportOf(t, p) /\ ListOf(t, p)
  BY DEF ReportsSound, ReportOf, ListOf
<1> QED
  BY <1>1 DEF ReportsSound

-----------------------------------------------------------------------------
(* Private channels.                                                         *)

LEMMA CreateKeeps ==
  ASSUME NEW I, NEW A,
         ChannelsAssumption(A), ChannelsSound(I, A, w),
         NEW p \in Members, Chat(I, A)!CreatePrivateChannel(p)
  PROVE  ChannelsSound(I, A, w')
<1>1. PICK c \in I :
        /\ p \in w.online /\ \A d \in I : w.chat[d].owner # p
        /\ w.chat[c].owner = None
        /\ w' = [w EXCEPT !.chat[c] = [Chat(I, A)!Closed EXCEPT !.owner = p, !.users = {p}],
                          !.view[p].windows = @ \cup {c}, !.orphans = @ \ {<<p, c>>}]
  BY DEF Chat!CreatePrivateChannel, Chat!Owned, Chat!Live
<1> DEFINE new == [Chat(I, A)!Closed EXCEPT !.owner = p, !.users = {p}]
<1>2. new \in ChannelRecord /\ new.owner = p /\ new.users = {p}
  BY DEF ChannelRecord, Chat!Closed
<1> HIDE DEF new
<1> DEFINE chat == [w.chat EXCEPT ![c] = new]
           view == [w.view EXCEPT ![p].windows = @ \cup {c}]
<1>3. chat \in [I -> ChannelRecord] /\ chat[c] = new /\ \A d \in I \ {c} : chat[d] = w.chat[d]
  BY <1>2 DEF ChannelsSound, ChannelsType
<1>6. /\ view \in [Members -> ViewRecord(I)]
      /\ \A q \in Members : view[q].rvr = w.view[q].rvr /\ view[q].reports = w.view[q].reports
      /\ view[p].windows = w.view[p].windows \cup {c}
      /\ \A q \in Members \ {p} : view[q].windows = w.view[q].windows
  BY DEF ChannelsSound, ChannelsType, ViewRecord
<1>7. w' = [w EXCEPT !.chat = chat, !.view = view, !.orphans = @ \ {<<p, c>>}]
  BY <1>1 DEF new
<1> HIDE DEF chat, view
<1>8. /\ w' \in ChannelsType(I) /\ w'.online = w.online /\ w'.rvr = w.rvr /\ w'.reports = w.reports
      /\ w'.forgotten = w.forgotten /\ w'.orphans = w.orphans \ {<<p, c>>}
      /\ w'.chat = chat /\ w'.view = view
  BY <1>3, <1>6, <1>7 DEF ChannelsSound, ChannelsType
<1>4. ReportsSound(w')
  BY <1>6, <1>8, SameReports DEF ChannelsSound
<1>5. ASSUME NEW d \in I
      PROVE  ChannelOf(I, w', d)
  <2>1. ChannelOf(I, w, d)
    BY DEF ChannelsSound, ChatSound
  <2>2. CASE d = c
    BY <1>1, <1>2, <1>3, <1>6, <1>8, <2>1, <2>2 DEF ChannelOf, ChannelsAssumption
  <2>3. CASE d # c
    BY <1>1, <1>2, <1>3, <1>6, <1>8, <2>1, <2>3 DEF ChannelOf
  <2> QED
    BY <2>2, <2>3
<1> QED
  BY <1>8, <1>4, <1>5 DEF ChannelsSound, ChatSound

LEMMA InviteChannelKeeps ==
  ASSUME NEW I, NEW A,
         ChannelsAssumption(A), ChannelsSound(I, A, w),
         NEW p \in Members, NEW q \in Members,
         Chat(I, A)!ChannelInvite(p, q)
  PROVE  ChannelsSound(I, A, w')
<1>1. PICK c \in I : w' = [w EXCEPT !.chat[c].invites = @ \cup {q}]
  BY DEF Chat!ChannelInvite, Chat!Owned
<1> DEFINE chat == [w.chat EXCEPT ![c].invites = @ \cup {q}]
<1>5. /\ chat \in [I -> ChannelRecord]
      /\ \A d \in I : /\ chat[d].owner = w.chat[d].owner /\ chat[d].users = w.chat[d].users
                        /\ w.chat[d].invites \subseteq chat[d].invites
  BY DEF ChannelsSound, ChannelsType, ChannelRecord
<1>6. w' = [w EXCEPT !.chat = chat]
  BY <1>1
<1> HIDE DEF chat
<1>2. /\ w' \in ChannelsType(I) /\ w'.online = w.online /\ w'.rvr = w.rvr /\ w'.reports = w.reports
      /\ w'.forgotten = w.forgotten /\ w'.orphans = w.orphans /\ w'.view = w.view
      /\ w'.chat = chat
  BY <1>5, <1>6 DEF ChannelsSound, ChannelsType
<1>3. ReportsSound(w')
  BY <1>2, SameReports DEF ChannelsSound
<1>4. ASSUME NEW d \in I
      PROVE  ChannelOf(I, w', d)
  BY <1>2, <1>5 DEF ChannelsSound, ChatSound, ChannelOf
<1> QED
  BY <1>2, <1>3, <1>4 DEF ChannelsSound, ChatSound

LEMMA ExcludeKeeps ==
  ASSUME NEW I, NEW A,
         ChannelsAssumption(A), ChannelsSound(I, A, w),
         NEW p \in Members, NEW q \in Members,
         Chat(I, A)!ChannelExclude(p, q)
  PROVE  ChannelsSound(I, A, w')
<1>1. PICK c \in I :
        /\ w.chat[c].owner = p /\ p # q
        /\ w' = [w EXCEPT !.chat[c] = [w.chat[c] EXCEPT !.invites = @ \ {q}, !.users = @ \ {q}],
                          !.view[q].windows = @ \ {c}, !.orphans = @ \ {<<q, c>>}]
  BY DEF Chat!ChannelExclude, Chat!Owned, Chat!Exclude
<1> DEFINE kept == [w.chat[c] EXCEPT !.invites = @ \ {q}, !.users = @ \ {q}]
           chat == [w.chat EXCEPT ![c] = kept]
           view == [w.view EXCEPT ![q].windows = @ \ {c}]
<1>8. /\ kept \in ChannelRecord /\ kept.owner = w.chat[c].owner
      /\ kept.users = w.chat[c].users \ {q} /\ kept.invites = w.chat[c].invites \ {q}
  BY ZenonT(60) DEF ChannelsSound, ChannelsType, ChannelRecord
<1>9. w' = [w EXCEPT !.chat[c] = kept, !.view[q].windows = @ \ {c}, !.orphans = @ \ {<<q, c>>}]
  BY <1>1
<1> HIDE DEF kept
<1>5. /\ chat \in [I -> ChannelRecord]
      /\ \A d \in I : chat[d].owner = w.chat[d].owner
      /\ chat[c].users = w.chat[c].users \ {q} /\ chat[c].invites = w.chat[c].invites \ {q}
      /\ \A d \in I \ {c} : chat[d] = w.chat[d]
  BY <1>8 DEF ChannelsSound, ChannelsType
<1>6. /\ view \in [Members -> ViewRecord(I)]
      /\ \A r \in Members : view[r].rvr = w.view[r].rvr /\ view[r].reports = w.view[r].reports
      /\ view[q].windows = w.view[q].windows \ {c}
      /\ \A r \in Members \ {q} : view[r].windows = w.view[r].windows
  BY DEF ChannelsSound, ChannelsType, ViewRecord
<1>7. w' = [w EXCEPT !.chat = chat, !.view = view, !.orphans = @ \ {<<q, c>>}]
  BY <1>9
<1> HIDE DEF chat, view
<1>2. /\ w' \in ChannelsType(I) /\ w'.online = w.online /\ w'.rvr = w.rvr /\ w'.reports = w.reports
      /\ w'.forgotten = w.forgotten /\ w'.orphans = w.orphans \ {<<q, c>>}
      /\ w'.chat = chat /\ w'.view = view
  BY <1>5, <1>6, <1>7 DEF ChannelsSound, ChannelsType
<1>3. ReportsSound(w')
  BY <1>2, <1>6, SameReports DEF ChannelsSound
<1>4. ASSUME NEW d \in I
      PROVE  ChannelOf(I, w', d)
  <2>1. ChannelOf(I, w, d)
    BY DEF ChannelsSound, ChatSound
  <2>2. CASE d = c
    <3>1. w'.chat[c].owner = p /\ p \in w'.chat[c].users
      BY <1>1, <1>2, <1>5, <2>1, <2>2 DEF ChannelOf, ChannelsAssumption
    <3>2. \A e \in I : w'.chat[e].owner = p => e = c
      BY <1>1, <1>2, <1>5, <2>1, <2>2 DEF ChannelOf, ChannelsAssumption
    <3>3. \A r \in w'.chat[c].users :
           r \in w'.online /\ (r = w'.chat[c].owner \/ r \in w'.chat[c].invites)
      BY <1>2, <1>5, <2>1, <2>2 DEF ChannelOf
    <3>4. ASSUME NEW r \in Members
          PROVE  /\ r \in w'.chat[c].users => c \in w'.view[r].windows
                 /\ c \in w'.view[r].windows => r \in w'.chat[c].users \/ <<r, c>> \in w'.orphans
      BY <1>2, <1>5, <1>6, <2>1, <2>2 DEF ChannelOf
    <3> QED
      BY <2>2, <3>1, <3>2, <3>3, <3>4 DEF ChannelOf, ChannelsAssumption
  <2>3. CASE d # c
    BY SMTT(90), <1>1, <1>2, <1>5, <1>6, <2>1, <2>3 DEF ChannelOf
  <2> QED
    BY <2>2, <2>3
<1> QED
  BY <1>2, <1>3, <1>4 DEF ChannelsSound, ChatSound

LEMMA OpenChannelKeeps ==
  ASSUME NEW I, NEW A,
         ChannelsAssumption(A), ChannelsSound(I, A, w),
         NEW p \in Members, NEW c \in I, Chat(I, A)!OpenChannel(p, c)
  PROVE  ChannelsSound(I, A, w')
<1>1. /\ p \in w.online /\ w.chat[c].owner # None /\ (p = w.chat[c].owner \/ p \in w.chat[c].invites)
      /\ w' = [w EXCEPT !.chat[c].users = @ \cup {p}, !.view[p].windows = @ \cup {c},
                        !.orphans = @ \ {<<p, c>>}]
  BY DEF Chat!OpenChannel, Chat!Live, Chat!IsInvited
<1> DEFINE chat == [w.chat EXCEPT ![c].users = @ \cup {p}]
           view == [w.view EXCEPT ![p].windows = @ \cup {c}]
<1>5. /\ chat \in [I -> ChannelRecord]
      /\ \A d \in I : chat[d].owner = w.chat[d].owner /\ chat[d].invites = w.chat[d].invites
      /\ chat[c].users = w.chat[c].users \cup {p}
      /\ \A d \in I \ {c} : chat[d] = w.chat[d]
  BY DEF ChannelsSound, ChannelsType, ChannelRecord
<1>6. /\ view \in [Members -> ViewRecord(I)]
      /\ \A r \in Members : view[r].rvr = w.view[r].rvr /\ view[r].reports = w.view[r].reports
      /\ view[p].windows = w.view[p].windows \cup {c}
      /\ \A r \in Members \ {p} : view[r].windows = w.view[r].windows
  BY DEF ChannelsSound, ChannelsType, ViewRecord
<1>7. w' = [w EXCEPT !.chat = chat, !.view = view, !.orphans = @ \ {<<p, c>>}]
  BY <1>1
<1> HIDE DEF chat, view
<1>2. /\ w' \in ChannelsType(I) /\ w'.online = w.online /\ w'.rvr = w.rvr /\ w'.reports = w.reports
      /\ w'.forgotten = w.forgotten /\ w'.orphans = w.orphans \ {<<p, c>>}
      /\ w'.chat = chat /\ w'.view = view
  BY <1>5, <1>6, <1>7 DEF ChannelsSound, ChannelsType
<1>3. ReportsSound(w')
  BY <1>2, <1>6, SameReports DEF ChannelsSound
<1>4. ASSUME NEW d \in I
      PROVE  ChannelOf(I, w', d)
  <2>1. ChannelOf(I, w, d)
    BY DEF ChannelsSound, ChatSound
  <2>2. CASE d = c
    BY SMTT(90), <1>1, <1>2, <1>5, <1>6, <2>1, <2>2 DEF ChannelOf, ChannelsAssumption
  <2>3. CASE d # c
    BY SMTT(90), <1>1, <1>2, <1>5, <1>6, <2>1, <2>3 DEF ChannelOf
  <2> QED
    BY <2>2, <2>3
<1> QED
  BY <1>2, <1>3, <1>4 DEF ChannelsSound, ChatSound

\* The owner takes the channel with him, and everybody's window.
LEMMA CloseChannelKeeps ==
  ASSUME NEW I, NEW A,
         ChannelsAssumption(A), ChannelsSound(I, A, w),
         NEW p \in Members, NEW c \in I, Chat(I, A)!CloseChannel(p, c)
  PROVE  ChannelsSound(I, A, w')
<1> DEFINE view == [w.view EXCEPT ![p].windows = @ \ {c}]
           chat == IF w.chat[c].owner # None /\ (p = w.chat[c].owner \/ p \in w.chat[c].invites)
                     THEN [w.chat EXCEPT ![c].users = @ \ {p}] ELSE w.chat
           ends == w.chat[c].owner = p
           chat2 == IF ends THEN [chat EXCEPT ![c] = Chat(I, A)!Closed] ELSE chat
           view2 == IF ends
                      THEN [q \in Members |-> IF q \in chat[c].users
                                                THEN [view[q] EXCEPT !.windows = @ \ {c}] ELSE view[q]]
                      ELSE view
<1>1. w' = [w EXCEPT !.chat = chat2, !.view = view2, !.orphans = @ \ {<<p, c>>}]
  BY DEF Chat!CloseChannel, Chat!DeleteChannel, Chat!Live, Chat!IsInvited
<1>2. /\ view \in [Members -> ViewRecord(I)]
      /\ \A q \in Members : view[q].rvr = w.view[q].rvr /\ view[q].reports = w.view[q].reports
      /\ view[p].windows = w.view[p].windows \ {c}
      /\ \A q \in Members \ {p} : view[q].windows = w.view[q].windows
  BY DEF ChannelsSound, ChannelsType, ViewRecord
<1>3. /\ chat \in [I -> ChannelRecord]
      /\ \A d \in I : chat[d].owner = w.chat[d].owner /\ chat[d].invites = w.chat[d].invites
      /\ \A d \in I \ {c} : chat[d] = w.chat[d]
  BY DEF ChannelsSound, ChannelsType, ChannelRecord
<1>4. chat[c].users = w.chat[c].users \ {p}
  <2>1. ChannelOf(I, w, c)
    BY DEF ChannelsSound, ChatSound
  <2>2. CASE w.chat[c].owner # None /\ (p = w.chat[c].owner \/ p \in w.chat[c].invites)
    BY <2>2 DEF ChannelsSound, ChannelsType, ChannelRecord
  <2>3. CASE ~(w.chat[c].owner # None /\ (p = w.chat[c].owner \/ p \in w.chat[c].invites))
    <3>1. p \notin w.chat[c].users /\ chat = w.chat
      BY <2>1, <2>3 DEF ChannelOf
    <3> QED
      BY <3>1
  <2> QED
    BY <2>2, <2>3
<1> HIDE DEF view, chat
<1>5. /\ chat2 \in [I -> ChannelRecord]
      /\ ends => chat2[c].owner = None /\ chat2[c].users = {}
      /\ ~ends => chat2 = chat
      /\ \A d \in I \ {c} : chat2[d] = w.chat[d]
  <2>1. Chat(I, A)!Closed \in ChannelRecord /\ Chat(I, A)!Closed.owner = None /\ Chat(I, A)!Closed.users = {}
    BY DEF Chat!Closed, ChannelRecord
  <2> QED
    BY <1>3, <2>1
<1>6. /\ view2 \in [Members -> ViewRecord(I)]
      /\ \A q \in Members : /\ view2[q].rvr = w.view[q].rvr /\ view2[q].reports = w.view[q].reports
                            /\ view2[q].windows \subseteq view[q].windows
                            /\ view[q].windows \subseteq view2[q].windows \cup {c}
                            /\ ends /\ q \in w.chat[c].users => c \notin view2[q].windows
                            /\ ~ends => view2[q] = view[q]
  <2>1. CASE ~ends
    BY <1>2, <2>1
  <2>2. CASE ends
    <3>1. ASSUME NEW q \in Members
          PROVE  /\ view2[q] \in ViewRecord(I)
                 /\ view2[q].rvr = view[q].rvr /\ view2[q].reports = view[q].reports
                 /\ view2[q].windows \subseteq view[q].windows
                 /\ view[q].windows \subseteq view2[q].windows \cup {c}
                 /\ q \in chat[c].users => c \notin view2[q].windows
      <4>1. view[q] \in ViewRecord(I)
        BY <1>2
      <4>2. CASE q \in chat[c].users
        <5>1. view2[q] = [view[q] EXCEPT !.windows = @ \ {c}]
          BY <2>2, <4>2
        <5> HIDE DEF view2
        <5> QED
          BY <4>1, <5>1 DEF ViewRecord
      <4>3. CASE q \notin chat[c].users
        <5>1. view2[q] = view[q]
          BY <2>2, <4>3
        <5> HIDE DEF view2
        <5> QED
          BY <4>1, <4>3, <5>1
      <4> QED
        BY <4>2, <4>3
    <3>2. DOMAIN view2 = Members /\ view2 = [q \in Members |-> view2[q]]
      BY <2>2
    <3> HIDE DEF view2
    <3>3. view2 \in [Members -> ViewRecord(I)]
      BY <3>1, <3>2
    <3>4. c \notin view2[p].windows
      BY <1>2, <3>1
    <3> QED
      BY <1>2, <1>4, <2>2, <3>1, <3>3, <3>4
  <2> QED
    BY <2>1, <2>2
<1>7. ends <=> w.chat[c].owner = p
  OBVIOUS
<1> HIDE DEF chat2, view2, ends
<1>8. /\ w' \in ChannelsType(I) /\ w'.online = w.online /\ w'.rvr = w.rvr /\ w'.reports = w.reports
      /\ w'.forgotten = w.forgotten /\ w'.orphans = w.orphans \ {<<p, c>>}
      /\ w'.chat = chat2 /\ w'.view = view2
  BY <1>1, <1>5, <1>6 DEF ChannelsSound, ChannelsType
<1>9. ReportsSound(w')
  BY <1>6, <1>8, SameReports DEF ChannelsSound
<1>10. ASSUME NEW d \in I
       PROVE  ChannelOf(I, w', d)
  <2>1. ChannelOf(I, w, d)
    BY DEF ChannelsSound, ChatSound
  <2>2. CASE d = c /\ ends
    BY <1>2, <1>5, <1>6, <1>8, <2>1, <2>2 DEF ChannelOf
  <2>3. CASE d = c /\ ~ends
    BY <1>2, <1>3, <1>4, <1>5, <1>6, <1>7, <1>8, <2>1, <2>3 DEF ChannelOf
  <2>4. CASE d # c
    <3>1. \A e \in I : chat2[e].owner = w.chat[e].owner \/ (e = c /\ chat2[e].owner = None)
      BY <1>3, <1>5
    <3>2. \A q \in Members : d \in view2[q].windows <=> d \in w.view[q].windows
      BY <1>2, <1>6, <2>4
    <3> QED
      BY <1>5, <1>8, <2>1, <2>4, <3>1, <3>2 DEF ChannelOf
  <2> QED
    BY <2>2, <2>3, <2>4
<1> QED
  BY <1>8, <1>9, <1>10 DEF ChannelsSound, ChatSound

-----------------------------------------------------------------------------
(* Reports.                                                                  *)

\* What one report's change asks of those who see the list.
LEMMA ReportPut ==
  ASSUME NEW I, NEW A,
         NEW s, s \in ChannelsType(I), ReportsSound(s), NEW r \in Members, NEW new \in ReportRecord,
         new.state # "none" => r \in s.online,
         new.state = "taken" => new.gamemaster \in s.online,
         new.state # "taken" => new.gamemaster = None,
         NEW t, t.online = s.online, t.rvr = s.rvr, s.forgotten \ {r} \subseteq t.forgotten,
         t.reports = [s.reports EXCEPT ![r] = new],
         \A q \in Members : t.view[q].rvr = s.view[q].rvr,
         \A q \in s.rvr, x \in Members : s.view[q].rvr = "full" =>
            (x \in t.view[q].reports <=> IF x = r THEN new.state = "open" ELSE x \in s.view[q].reports),
         \A q \in s.rvr, x \in Members : s.view[q].rvr = "bare" /\ x \in t.view[q].reports =>
            IF x = r THEN new.state = "open" ELSE x \in s.view[q].reports,
         \A q \in Members : t.view[q].reports \subseteq Members
  PROVE  ReportsSound(t)
<1>1. t.reports[r] = new /\ \A x \in Members \ {r} : t.reports[x] = s.reports[x]
  BY DEF ChannelsType
<1>2. ASSUME NEW x \in Members
      PROVE  ReportOf(t, x)
  <2>1. ReportOf(s, x)
    BY DEF ReportsSound
  <2> QED
    BY <1>1, <2>1 DEF ReportOf
<1>3. ASSUME NEW q \in Members
      PROVE  ListOf(t, q)
  <2>1. ListOf(s, q)
    BY DEF ReportsSound
  <2>2. ASSUME q \in s.rvr, s.view[q].rvr = "full", NEW x \in Members
        PROVE  x \in t.view[q].reports <=> t.reports[x].state = "open"
    BY <1>1, <2>1, <2>2 DEF ListOf
  <2>3. ASSUME q \in s.rvr, s.view[q].rvr = "bare", NEW x \in t.view[q].reports
        PROVE  t.reports[x].state = "open"
    <3>1. x \in Members
      OBVIOUS
    <3> QED
      BY <1>1, <2>1, <2>3, <3>1 DEF ListOf
  <2> QED
    BY <2>1, <2>2, <2>3 DEF ListOf
<1> QED
  BY <1>2, <1>3 DEF ReportsSound

\* RemoveReport changes nothing but the lists.
LEMMA RemoveReportLists ==
  ASSUME NEW I, NEW A,
         ChannelsSound(I, A, w), NEW r \in Members
  PROVE  /\ Chat(I, A)!RemoveReport(w.view, r) \in [Members -> ViewRecord(I)]
         /\ \A q \in Members :
              /\ Chat(I, A)!RemoveReport(w.view, r)[q].rvr = w.view[q].rvr
              /\ Chat(I, A)!RemoveReport(w.view, r)[q].windows = w.view[q].windows
              /\ q \in w.rvr => Chat(I, A)!RemoveReport(w.view, r)[q].reports = w.view[q].reports \ {r}
<1> DEFINE view == Chat(I, A)!RemoveReport(w.view, r)
<1>1. ASSUME NEW q \in Members
      PROVE  /\ view[q] \in ViewRecord(I)
             /\ view[q].rvr = w.view[q].rvr /\ view[q].windows = w.view[q].windows
             /\ q \in w.rvr => view[q].reports = w.view[q].reports \ {r}
  <2>1. w.view[q] \in ViewRecord(I)
    BY DEF ChannelsSound, ChannelsType
  <2>2. CASE q \in w.rvr
    <3>1. view[q] = [w.view[q] EXCEPT !.reports = @ \ {r}]
      BY <2>2 DEF Chat!RemoveReport
    <3> HIDE DEF view
    <3> QED
      BY <2>1, <3>1 DEF ViewRecord
  <2>3. CASE q \notin w.rvr
    <3>1. view[q] = w.view[q]
      BY <2>3 DEF Chat!RemoveReport
    <3> HIDE DEF view
    <3> QED
      BY <2>1, <2>3, <3>1
  <2> QED
    BY <2>2, <2>3
<1>2. view = [q \in Members |-> view[q]]
  BY DEF Chat!RemoveReport
<1> HIDE DEF view
<1>3. view \in [Members -> ViewRecord(I)]
  BY <1>1, <1>2
<1> QED
  BY <1>1, <1>3 DEF view

LEMMA TakenIsOnNoList ==
  ASSUME NEW I, NEW A,
         ChannelsSound(I, A, w), NEW r \in Members, w.reports[r].state # "open",
         NEW q \in w.rvr, w.view[q].rvr \in {"full", "bare"}
  PROVE  r \notin w.view[q].reports
<1>1. q \in Members
  BY DEF ChannelsSound, ChannelsType
<1> QED
  BY <1>1 DEF ChannelsSound, ReportsSound, ListOf

LEMMA ErasedReport ==
  ASSUME NEW I, NEW A,
         ChannelsAssumption(A), ChannelsSound(I, A, w),
         NEW r \in Members, NEW view \in [Members -> ViewRecord(I)],
         \A q \in Members : view[q].rvr = w.view[q].rvr /\ view[q].windows = w.view[q].windows,
         \A q \in w.rvr : w.view[q].rvr \in {"full", "bare"} =>
            view[q].reports = w.view[q].reports \ {r},
         NEW t, t \in ChannelsType(I), t.online = w.online, t.chat = w.chat, t.rvr = w.rvr,
         t.orphans = w.orphans, t.view = view, t.forgotten = w.forgotten \ {r},
         t.reports = [w.reports EXCEPT ![r] = Chat(I, A)!NoReport]
  PROVE  ChannelsSound(I, A, t)
<1>1. Chat(I, A)!NoReport \in ReportRecord /\ Chat(I, A)!NoReport.state = "none" /\ Chat(I, A)!NoReport.gamemaster = None
  BY DEF Chat!NoReport, ReportRecord
<1>4. ChatSound(I, t)
  BY SameChannels DEF ChannelsSound
<1>5. \A q \in Members : t.view[q].reports \subseteq Members
  BY DEF ViewRecord
<1>6. w \in ChannelsType(I) /\ ReportsSound(w) /\ w.rvr \subseteq Members
  BY DEF ChannelsSound, ChannelsType
<1>7. /\ \A q \in w.rvr, x \in Members : w.view[q].rvr = "full" =>
            (x \in t.view[q].reports <=> IF x = r THEN Chat(I, A)!NoReport.state = "open"
                                                  ELSE x \in w.view[q].reports)
      /\ \A q \in w.rvr, x \in Members : w.view[q].rvr = "bare" /\ x \in t.view[q].reports =>
            IF x = r THEN Chat(I, A)!NoReport.state = "open" ELSE x \in w.view[q].reports
  BY <1>1
<1>8. ReportsSound(t)
  <2>1. /\ Chat(I, A)!NoReport.state # "none" => r \in w.online
        /\ Chat(I, A)!NoReport.state = "taken" => Chat(I, A)!NoReport.gamemaster \in w.online
        /\ Chat(I, A)!NoReport.state # "taken" => Chat(I, A)!NoReport.gamemaster = None
        /\ w.forgotten \ {r} \subseteq t.forgotten
        /\ \A q \in Members : t.view[q].rvr = w.view[q].rvr
    BY <1>1
  <2> QED
    <3> DEFINE new == Chat(I, A)!NoReport
    <3>1. new \in ReportRecord /\ t.reports = [w.reports EXCEPT ![r] = new]
      BY <1>1
    <3>2. /\ \A q \in w.rvr, x \in Members : w.view[q].rvr = "full" =>
                (x \in t.view[q].reports <=> IF x = r THEN new.state = "open"
                                                      ELSE x \in w.view[q].reports)
          /\ \A q \in w.rvr, x \in Members : w.view[q].rvr = "bare" /\ x \in t.view[q].reports =>
                IF x = r THEN new.state = "open" ELSE x \in w.view[q].reports
      BY <1>7
    <3>3. /\ new.state # "none" => r \in w.online
          /\ new.state = "taken" => new.gamemaster \in w.online
          /\ new.state # "taken" => new.gamemaster = None
      BY <2>1
    <3> HIDE DEF new
    <3> QED
      BY <1>5, <1>6, <2>1, <3>1, <3>2, <3>3, ReportPut
<1> QED
  BY <1>4, <1>8 DEF ChannelsSound

LEMMA CancelledReport ==
  ASSUME NEW I, NEW A,
         ChannelsAssumption(A), ChannelsSound(I, A, w),
         NEW r \in Members
  PROVE  /\ ChannelsSound(I, A, Chat(I, A)!Cancelled(w, r)) /\ Chat(I, A)!Cancelled(w, r).reports[r] = Chat(I, A)!NoReport
         /\ Chat(I, A)!Cancelled(w, r).online = w.online /\ Chat(I, A)!Cancelled(w, r).may = w.may
         /\ Chat(I, A)!Cancelled(w, r).chat = w.chat /\ Chat(I, A)!Cancelled(w, r).rvr = w.rvr
         /\ Chat(I, A)!Cancelled(w, r).orphans = w.orphans
         /\ \A q \in Members : Chat(I, A)!Cancelled(w, r).view[q].rvr = w.view[q].rvr
<1> DEFINE view == IF w.reports[r].state = "open" THEN Chat(I, A)!RemoveReport(w.view, r) ELSE w.view
<1>1. Chat(I, A)!Cancelled(w, r) =
        [w EXCEPT !.reports[r] = Chat(I, A)!NoReport, !.forgotten = @ \ {r}, !.view = view]
  BY DEF Chat!Cancelled
<1>2. /\ view \in [Members -> ViewRecord(I)]
      /\ \A q \in Members : view[q].rvr = w.view[q].rvr /\ view[q].windows = w.view[q].windows
      /\ \A q \in w.rvr : w.view[q].rvr \in {"full", "bare"} =>
            view[q].reports = w.view[q].reports \ {r}
  <2>1. CASE w.reports[r].state = "open"
    <3>1. w.rvr \subseteq Members
      BY DEF ChannelsSound, ChannelsType
    <3>2. /\ Chat(I, A)!RemoveReport(w.view, r) \in [Members -> ViewRecord(I)]
          /\ \A q \in Members :
               /\ Chat(I, A)!RemoveReport(w.view, r)[q].rvr = w.view[q].rvr
               /\ Chat(I, A)!RemoveReport(w.view, r)[q].windows = w.view[q].windows
               /\ q \in w.rvr => Chat(I, A)!RemoveReport(w.view, r)[q].reports = w.view[q].reports \ {r}
      BY RemoveReportLists
    <3> QED
      BY <2>1, <3>1, <3>2
  <2>2. CASE w.reports[r].state # "open"
    <3>1. \A q \in w.rvr : w.view[q].rvr \in {"full", "bare"} => r \notin w.view[q].reports
      BY <2>2, TakenIsOnNoList
    <3> QED
      BY <2>2, <3>1 DEF ChannelsSound, ChannelsType
  <2> QED
    BY <2>1, <2>2
<1> HIDE DEF view
<1>3. Chat(I, A)!NoReport \in ReportRecord
  BY DEF Chat!NoReport, ReportRecord
<1>4. [w.reports EXCEPT ![r] = Chat(I, A)!NoReport] \in [Members -> ReportRecord]
  BY <1>3 DEF ChannelsSound, ChannelsType
<1> DEFINE v == Chat(I, A)!Cancelled(w, r)
<1>5. /\ v \in ChannelsType(I) /\ v.online = w.online /\ v.may = w.may /\ v.chat = w.chat
      /\ v.rvr = w.rvr /\ v.orphans = w.orphans /\ v.view = view
      /\ v.forgotten = w.forgotten \ {r} /\ v.reports = [w.reports EXCEPT ![r] = Chat(I, A)!NoReport]
  BY ZenonT(60), <1>1, <1>2, <1>4 DEF ChannelsSound, ChannelsType
<1>6. v.reports[r] = Chat(I, A)!NoReport
  BY <1>5 DEF ChannelsSound, ChannelsType
<1> HIDE DEF v
<1>7. ChannelsSound(I, A, v)
  BY <1>2, <1>5, ErasedReport
<1> QED
  BY <1>2, <1>5, <1>6, <1>7 DEF v

LEMMA CancelReportKeeps ==
  ASSUME NEW I, NEW A,
         ChannelsAssumption(A), ChannelsSound(I, A, w),
         NEW p \in Members, Chat(I, A)!CancelRuleViolation(p)
  PROVE  ChannelsSound(I, A, w')
<1>1. w' = Chat(I, A)!Cancelled(w, p)
  BY DEF Chat!CancelRuleViolation
<1> QED
  BY <1>1, CancelledReport

LEMMA CloseReportKeeps ==
  ASSUME NEW I, NEW A,
         ChannelsAssumption(A), ChannelsSound(I, A, w),
         NEW p \in Members, NEW r \in Members,
         Chat(I, A)!CloseRuleViolation(p, r)
  PROVE  ChannelsSound(I, A, w')
<1> DEFINE view == Chat(I, A)!RemoveReport(w.view, r)
<1>1. w' = [w EXCEPT !.reports[r] = Chat(I, A)!NoReport, !.forgotten = @ \ {r}, !.view = view]
  BY DEF Chat!CloseRuleViolation
<1>2. /\ view \in [Members -> ViewRecord(I)]
      /\ \A q \in Members : view[q].rvr = w.view[q].rvr /\ view[q].windows = w.view[q].windows
      /\ \A q \in w.rvr : view[q].reports = w.view[q].reports \ {r}
  <2>1. w.rvr \subseteq Members
    BY DEF ChannelsSound, ChannelsType
  <2>3. /\ Chat(I, A)!RemoveReport(w.view, r) \in [Members -> ViewRecord(I)]
        /\ \A q \in Members :
             /\ Chat(I, A)!RemoveReport(w.view, r)[q].rvr = w.view[q].rvr
             /\ Chat(I, A)!RemoveReport(w.view, r)[q].windows = w.view[q].windows
             /\ q \in w.rvr => Chat(I, A)!RemoveReport(w.view, r)[q].reports = w.view[q].reports \ {r}
    BY RemoveReportLists
  <2> QED
    BY <2>1, <2>3
<1> HIDE DEF view
<1>3. Chat(I, A)!NoReport \in ReportRecord
  BY DEF Chat!NoReport, ReportRecord
<1>4. [w.reports EXCEPT ![r] = Chat(I, A)!NoReport] \in [Members -> ReportRecord]
  BY <1>3 DEF ChannelsSound, ChannelsType
<1>5. /\ w' \in ChannelsType(I) /\ w'.online = w.online /\ w'.chat = w.chat
      /\ w'.rvr = w.rvr /\ w'.orphans = w.orphans /\ w'.view = view
      /\ w'.forgotten = w.forgotten \ {r} /\ w'.reports = [w.reports EXCEPT ![r] = Chat(I, A)!NoReport]
  BY <1>1, <1>2, <1>4 DEF ChannelsSound, ChannelsType
<1> QED
  BY <1>2, <1>5, ErasedReport

LEMMA ProcessReportKeeps ==
  ASSUME NEW I, NEW A,
         ChannelsAssumption(A), ChannelsSound(I, A, w),
         NEW p \in Members, NEW r \in Members,
         Chat(I, A)!ProcessRuleViolation(p, r)
  PROVE  ChannelsSound(I, A, w')
<1> DEFINE view == Chat(I, A)!RemoveReport(w.view, r)
           new == [state |-> "taken", gamemaster |-> p]
<1>1. /\ p \in w.online /\ r \in w.online
      /\ w' = [w EXCEPT !.reports[r] = new, !.view = view]
  BY DEF Chat!ProcessRuleViolation
<1>2. /\ view \in [Members -> ViewRecord(I)]
      /\ \A q \in Members : view[q].rvr = w.view[q].rvr /\ view[q].windows = w.view[q].windows
      /\ \A q \in w.rvr : view[q].reports = w.view[q].reports \ {r}
  <2>1. w.rvr \subseteq Members
    BY DEF ChannelsSound, ChannelsType
  <2>3. /\ Chat(I, A)!RemoveReport(w.view, r) \in [Members -> ViewRecord(I)]
        /\ \A q \in Members :
             /\ Chat(I, A)!RemoveReport(w.view, r)[q].rvr = w.view[q].rvr
             /\ Chat(I, A)!RemoveReport(w.view, r)[q].windows = w.view[q].windows
             /\ q \in w.rvr => Chat(I, A)!RemoveReport(w.view, r)[q].reports = w.view[q].reports \ {r}
    BY RemoveReportLists
  <2> QED
    BY <2>1, <2>3
<1>3. new \in ReportRecord /\ new.state = "taken" /\ new.gamemaster = p
  BY DEF ReportRecord
<1> HIDE DEF view, new
<1>4. [w.reports EXCEPT ![r] = new] \in [Members -> ReportRecord]
  BY <1>3 DEF ChannelsSound, ChannelsType
<1>5. /\ w' \in ChannelsType(I) /\ w'.online = w.online /\ w'.chat = w.chat
      /\ w'.rvr = w.rvr /\ w'.orphans = w.orphans /\ w'.view = view
      /\ w'.forgotten = w.forgotten /\ w'.reports = [w.reports EXCEPT ![r] = new]
  BY <1>1, <1>2, <1>4 DEF ChannelsSound, ChannelsType
<1>6. ChatSound(I, w')
  BY <1>2, <1>5, SameChannels DEF ChannelsSound
<1>7. /\ w \in ChannelsType(I) /\ ReportsSound(w) /\ w.rvr \subseteq Members
      /\ \A q \in Members : view[q].reports \subseteq Members
  BY <1>2 DEF ChannelsSound, ChannelsType, ViewRecord
<1>8. /\ \A q \in w.rvr, x \in Members : w.view[q].rvr = "full" =>
            (x \in w'.view[q].reports <=> IF x = r THEN new.state = "open"
                                                   ELSE x \in w.view[q].reports)
      /\ \A q \in w.rvr, x \in Members : w.view[q].rvr = "bare" /\ x \in w'.view[q].reports =>
            IF x = r THEN new.state = "open" ELSE x \in w.view[q].reports
  BY <1>2, <1>3, <1>5
<1>9. /\ new.state # "none" => r \in w.online
      /\ new.state = "taken" => new.gamemaster \in w.online
      /\ new.state # "taken" => new.gamemaster = None
      /\ w.forgotten \ {r} \subseteq w'.forgotten
      /\ \A q \in Members : w'.view[q].rvr = w.view[q].rvr
      /\ \A q \in Members : w'.view[q].reports \subseteq Members
  BY <1>1, <1>2, <1>3, <1>5, <1>7
<1>10. ReportsSound(w')
  BY <1>3, <1>5, <1>7, <1>8, <1>9, ReportPut
<1> QED
  BY <1>5, <1>6, <1>10 DEF ChannelsSound

LEMMA ReportKeeps ==
  ASSUME NEW I, NEW A,
         ChannelsAssumption(A), ChannelsSound(I, A, w),
         NEW p \in Members, Chat(I, A)!ReportRuleViolation(p)
  PROVE  ChannelsSound(I, A, w')
<1> DEFINE v == Chat(I, A)!Cancelled(w, p)
           new == [state |-> "open", gamemaster |-> None]
           view == [q \in Members |->
                      IF q \in w.rvr /\ w.view[q].rvr # "closed"
                        THEN [v.view[q] EXCEPT !.reports = @ \cup {p}] ELSE v.view[q]]
<1>1. p \in w.online /\ w' = [v EXCEPT !.reports[p] = new, !.view = view]
  BY DEF Chat!ReportRuleViolation
<1>2. /\ ChannelsSound(I, A, v) /\ v.online = w.online /\ v.rvr = w.rvr
      /\ \A q \in Members : v.view[q].rvr = w.view[q].rvr
  BY CancelledReport
<1> HIDE DEF v
<1>3. ASSUME NEW q \in Members
      PROVE  /\ view[q] \in ViewRecord(I)
             /\ view[q].rvr = v.view[q].rvr /\ view[q].windows = v.view[q].windows
             /\ q \in v.rvr /\ v.view[q].rvr # "closed" => view[q].reports = v.view[q].reports \cup {p}
  <2>1. v.view[q] \in ViewRecord(I)
    BY <1>2 DEF ChannelsSound, ChannelsType
  <2>2. CASE q \in w.rvr /\ w.view[q].rvr # "closed"
    <3>1. view[q] = [v.view[q] EXCEPT !.reports = @ \cup {p}]
      BY <2>2
    <3> HIDE DEF view
    <3> QED
      BY <2>1, <3>1 DEF ViewRecord
  <2>3. CASE ~(q \in w.rvr /\ w.view[q].rvr # "closed")
    <3>1. view[q] = v.view[q]
      BY <2>3
    <3> HIDE DEF view
    <3> QED
      BY <1>2, <2>1, <2>3, <3>1
  <2> QED
    BY <2>2, <2>3
<1>4. view = [q \in Members |-> view[q]]
  OBVIOUS
<1>5. new \in ReportRecord /\ new.state = "open" /\ new.gamemaster = None
  BY DEF ReportRecord
<1> HIDE DEF view, new
<1>6. view \in [Members -> ViewRecord(I)]
  BY <1>3, <1>4
<1>7. [v.reports EXCEPT ![p] = new] \in [Members -> ReportRecord]
  BY <1>2, <1>5 DEF ChannelsSound, ChannelsType
<1>8. /\ w' \in ChannelsType(I) /\ w'.online = v.online /\ w'.chat = v.chat
      /\ w'.rvr = v.rvr /\ w'.orphans = v.orphans /\ w'.view = view
      /\ w'.forgotten = v.forgotten /\ w'.reports = [v.reports EXCEPT ![p] = new]
  BY <1>1, <1>2, <1>6, <1>7 DEF ChannelsSound, ChannelsType
<1>9. ChatSound(I, w')
  BY <1>2, <1>3, <1>8, SameChannels DEF ChannelsSound
<1>10. /\ v \in ChannelsType(I) /\ ReportsSound(v) /\ v.rvr \subseteq Members
       /\ \A q \in Members : view[q].reports \subseteq Members
  BY <1>2, <1>6 DEF ChannelsSound, ChannelsType, ViewRecord
<1>11. /\ \A q \in v.rvr, x \in Members : v.view[q].rvr = "full" =>
            (x \in w'.view[q].reports <=> IF x = p THEN new.state = "open"
                                                   ELSE x \in v.view[q].reports)
       /\ \A q \in v.rvr, x \in Members : v.view[q].rvr = "bare" /\ x \in w'.view[q].reports =>
            IF x = p THEN new.state = "open" ELSE x \in v.view[q].reports
  BY <1>3, <1>5, <1>8, <1>10
<1>12. /\ new.state # "none" => p \in v.online
       /\ new.state = "taken" => new.gamemaster \in v.online
       /\ new.state # "taken" => new.gamemaster = None
       /\ v.forgotten \ {p} \subseteq w'.forgotten
       /\ \A q \in Members : w'.view[q].rvr = v.view[q].rvr
       /\ \A q \in Members : w'.view[q].reports \subseteq Members
  BY <1>1, <1>2, <1>3, <1>5, <1>8, <1>10
<1>13. ReportsSound(w')
  BY <1>5, <1>8, <1>10, <1>11, <1>12, ReportPut
<1> QED
  BY <1>8, <1>9, <1>13 DEF ChannelsSound

LEMMA OpenReportsKeeps ==
  ASSUME NEW I, NEW A,
         ChannelsAssumption(A), ChannelsSound(I, A, w),
         NEW p \in Members, Chat(I, A)!OpenReportsChannel(p)
  PROVE  ChannelsSound(I, A, w')
<1> DEFINE shown == [w.view[p] EXCEPT !.rvr = "full", !.reports = Chat(I, A)!OpenReports(w.reports)]
           view == [w.view EXCEPT ![p] = shown]
<1>1. p \in w.online /\ w' = [w EXCEPT !.rvr = @ \cup {p}, !.view[p] = shown]
  BY DEF Chat!OpenReportsChannel
<1>2. Chat(I, A)!OpenReports(w.reports) \subseteq Members
  BY DEF Chat!OpenReports
<1>9. w.view[p] \in ViewRecord(I)
  BY DEF ChannelsSound, ChannelsType
<1>3. /\ shown \in ViewRecord(I) /\ shown.rvr = "full" /\ shown.windows = w.view[p].windows
      /\ shown.reports = Chat(I, A)!OpenReports(w.reports)
  BY <1>2, <1>9 DEF ViewRecord
<1>4. /\ view \in [Members -> ViewRecord(I)] /\ view[p] = shown
      /\ \A q \in Members \ {p} : view[q] = w.view[q]
  BY <1>3 DEF ChannelsSound, ChannelsType
<1>5. w' = [w EXCEPT !.rvr = @ \cup {p}, !.view = view]
  BY <1>1 DEF ChannelsSound, ChannelsType, ViewRecord
<1> HIDE DEF shown, view
<1>6. /\ w' \in ChannelsType(I) /\ w'.online = w.online /\ w'.chat = w.chat /\ w'.orphans = w.orphans
      /\ w'.rvr = w.rvr \cup {p} /\ w'.view = view /\ w'.reports = w.reports
      /\ w'.forgotten = w.forgotten
  BY <1>4, <1>5 DEF ChannelsSound, ChannelsType
<1>7. ChatSound(I, w')
  <2>1. \A q \in Members : w'.view[q].windows = w.view[q].windows
    BY <1>3, <1>4, <1>6
  <2> QED
    BY <1>6, <2>1, SameChannels DEF ChannelsSound
<1>8. ASSUME NEW q \in Members
      PROVE  ReportOf(w', q) /\ ListOf(w', q)
  <2>1. ReportOf(w, q) /\ ListOf(w, q)
    BY DEF ChannelsSound, ReportsSound
  <2>2. ReportOf(w', q)
    BY <1>6, <2>1 DEF ReportOf
  <2>3. CASE q = p
    BY <1>1, <1>3, <1>4, <1>6, <2>2, <2>3 DEF ListOf, Chat!OpenReports
  <2>4. CASE q # p
    BY <1>4, <1>6, <2>1, <2>2, <2>4 DEF ListOf
  <2> QED
    BY <2>2, <2>3, <2>4
<1> QED
  BY <1>6, <1>7, <1>8 DEF ChannelsSound, ReportsSound

LEMMA CloseReportsKeeps ==
  ASSUME NEW I, NEW A,
         ChannelsAssumption(A), ChannelsSound(I, A, w),
         NEW p \in Members, Chat(I, A)!CloseReportsChannel(p)
  PROVE  ChannelsSound(I, A, w')
<1> DEFINE shown == [w.view[p] EXCEPT !.rvr = "closed", !.reports = {}]
           view == [w.view EXCEPT ![p] = shown]
           rvr == IF p \in w.may THEN w.rvr \ {p} ELSE w.rvr
<1>1. p \in w.online /\ w' = [w EXCEPT !.rvr = rvr, !.view[p] = shown]
  BY DEF Chat!CloseReportsChannel
<1>2. rvr \subseteq w.rvr
  OBVIOUS
<1>9. w.view[p] \in ViewRecord(I)
  BY DEF ChannelsSound, ChannelsType
<1>3. shown \in ViewRecord(I) /\ shown.rvr = "closed" /\ shown.windows = w.view[p].windows
  BY <1>9 DEF ViewRecord
<1>4. /\ view \in [Members -> ViewRecord(I)] /\ view[p] = shown
      /\ \A q \in Members \ {p} : view[q] = w.view[q]
  BY <1>3 DEF ChannelsSound, ChannelsType
<1>5. w' = [w EXCEPT !.rvr = rvr, !.view = view]
  BY <1>1 DEF ChannelsSound, ChannelsType, ViewRecord
<1> HIDE DEF shown, view, rvr
<1>6. /\ w' \in ChannelsType(I) /\ w'.online = w.online /\ w'.chat = w.chat /\ w'.orphans = w.orphans
      /\ w'.rvr = rvr /\ w'.view = view /\ w'.reports = w.reports
      /\ w'.forgotten = w.forgotten
  BY <1>2, <1>4, <1>5 DEF ChannelsSound, ChannelsType
<1>7. ChatSound(I, w')
  <2>1. \A q \in Members : w'.view[q].windows = w.view[q].windows
    BY <1>3, <1>4, <1>6
  <2> QED
    BY <1>6, <2>1, SameChannels DEF ChannelsSound
<1>8. ASSUME NEW q \in Members
      PROVE  ReportOf(w', q) /\ ListOf(w', q)
  <2>1. ReportOf(w, q) /\ ListOf(w, q)
    BY DEF ChannelsSound, ReportsSound
  <2>2. ReportOf(w', q)
    BY <1>6, <2>1 DEF ReportOf
  <2>3. CASE q = p
    BY <1>1, <1>2, <1>3, <1>4, <1>6, <2>1, <2>2, <2>3 DEF ListOf
  <2>4. CASE q # p
    BY <1>2, <1>4, <1>6, <2>1, <2>2, <2>4 DEF ListOf
  <2> QED
    BY <2>2, <2>3, <2>4
<1> QED
  BY <1>6, <1>7, <1>8 DEF ChannelsSound, ReportsSound

LEMMA SetGroupKeeps ==
  ASSUME NEW I, NEW A,
         ChannelsAssumption(A), ChannelsSound(I, A, w),
         NEW p \in Members, Chat(I, A)!SetGroup(p)
  PROVE  ChannelsSound(I, A, w')
<1> DEFINE may == IF p \in w.may THEN w.may \ {p} ELSE w.may \cup {p}
<1>1. w' = [w EXCEPT !.may = may]
  BY DEF Chat!SetGroup
<1>2. may \subseteq Members
  BY DEF ChannelsSound, ChannelsType
<1> HIDE DEF may
<1>3. /\ w' \in ChannelsType(I) /\ w'.online = w.online /\ w'.chat = w.chat /\ w'.orphans = w.orphans
      /\ w'.rvr = w.rvr /\ w'.view = w.view /\ w'.reports = w.reports
      /\ w'.forgotten = w.forgotten
  BY <1>1, <1>2 DEF ChannelsSound, ChannelsType
<1>4. ChatSound(I, w')
  BY <1>3, SameChannels DEF ChannelsSound
<1>5. ReportsSound(w')
  BY <1>3, SameReports DEF ChannelsSound
<1> QED
  BY <1>3, <1>4, <1>5 DEF ChannelsSound

-----------------------------------------------------------------------------
(* Who comes, who goes, and the reload.                                      *)

LEMMA ChannelsLoginKeeps ==
  ASSUME NEW I, NEW A,
         ChannelsAssumption(A), ChannelsSound(I, A, w),
         NEW p \in Members, Chat(I, A)!Login(p)
  PROVE  ChannelsSound(I, A, w')
<1> DEFINE view == [w.view EXCEPT ![p] = Chat(I, A)!NoView]
<1>1. p \notin w.online /\ w' = [w EXCEPT !.online = @ \cup {p}, !.view = view]
  BY DEF Chat!Login
<1>2. Chat(I, A)!NoView \in ViewRecord(I) /\ Chat(I, A)!NoView.windows = {}
  BY DEF Chat!NoView, ViewRecord
<1>3. /\ view \in [Members -> ViewRecord(I)] /\ view[p] = Chat(I, A)!NoView
      /\ \A q \in Members \ {p} : view[q] = w.view[q]
  BY <1>2 DEF ChannelsSound, ChannelsType
<1> HIDE DEF view
<1>4. /\ w' \in ChannelsType(I) /\ w'.online = w.online \cup {p} /\ w'.chat = w.chat
      /\ w'.orphans = w.orphans /\ w'.rvr = w.rvr /\ w'.view = view /\ w'.reports = w.reports
      /\ w'.forgotten = w.forgotten
  BY <1>1, <1>3 DEF ChannelsSound, ChannelsType
<1>5. ASSUME NEW c \in I
      PROVE  ChannelOf(I, w', c)
  <2>1. ChannelOf(I, w, c)
    BY DEF ChannelsSound, ChatSound
  <2>2. ASSUME NEW q \in Members
        PROVE  /\ q \in w.chat[c].users => c \in view[q].windows
               /\ c \in view[q].windows => q \in w.chat[c].users \/ <<q, c>> \in w.orphans
    <3>1. CASE q = p
      <4>1. p \notin w.chat[c].users
        BY <1>1, <2>1 DEF ChannelOf
      <4> QED
        BY <1>2, <1>3, <3>1, <4>1
    <3>2. CASE q # p
      BY <1>3, <2>1, <3>2 DEF ChannelOf
    <3> QED
      BY <3>1, <3>2
  <2> QED
    BY <1>4, <2>1, <2>2 DEF ChannelOf
<1>6. ASSUME NEW q \in Members
      PROVE  ReportOf(w', q) /\ ListOf(w', q)
  <2>1. ReportOf(w, q) /\ ListOf(w, q)
    BY DEF ChannelsSound, ReportsSound
  <2>2. ReportOf(w', q)
    BY <1>4, <2>1 DEF ReportOf
  <2>3. CASE q = p
    BY <1>1, <1>4, <2>1, <2>2, <2>3 DEF ListOf
  <2>4. CASE q # p
    BY <1>3, <1>4, <2>1, <2>2, <2>4 DEF ListOf
  <2> QED
    BY <2>2, <2>3, <2>4
<1> QED
  BY <1>4, <1>5, <1>6 DEF ChannelsSound, ChatSound, ReportsSound

LEMMA ReconnectKeeps ==
  ASSUME NEW I, NEW A,
         ChannelsAssumption(A), ChannelsSound(I, A, w),
         NEW p \in Members, Chat(I, A)!Reconnect(p)
  PROVE  ChannelsSound(I, A, w')
<1> DEFINE shown == [windows |-> {c \in I : p \in w.chat[c].users},
                     rvr |-> IF p \in w.rvr THEN "bare" ELSE "closed", reports |-> {}]
           view == [w.view EXCEPT ![p] = shown]
           orphans == {o \in w.orphans : o[1] # p}
<1>1. p \in w.online /\ w' = [w EXCEPT !.view = view, !.orphans = orphans]
  BY DEF Chat!Reconnect
<1>2. /\ shown \in ViewRecord(I) /\ shown.windows = {c \in I : p \in w.chat[c].users}
      /\ shown.reports = {} /\ shown.rvr # "full"
  BY DEF ViewRecord
<1>3. /\ view \in [Members -> ViewRecord(I)] /\ view[p] = shown
      /\ \A q \in Members \ {p} : view[q] = w.view[q]
  BY <1>2 DEF ChannelsSound, ChannelsType
<1>4. /\ orphans \subseteq w.orphans
      /\ \A q \in Members \ {p}, c \in I : <<q, c>> \in w.orphans => <<q, c>> \in orphans
  OBVIOUS
<1> HIDE DEF shown, view, orphans
<1>5. /\ w' \in ChannelsType(I) /\ w'.online = w.online /\ w'.chat = w.chat
      /\ w'.orphans = orphans /\ w'.rvr = w.rvr /\ w'.view = view /\ w'.reports = w.reports
      /\ w'.forgotten = w.forgotten
  BY <1>1, <1>3, <1>4 DEF ChannelsSound, ChannelsType
<1>6. ASSUME NEW c \in I
      PROVE  ChannelOf(I, w', c)
  <2>1. ChannelOf(I, w, c)
    BY DEF ChannelsSound, ChatSound
  <2>2. ASSUME NEW q \in Members
        PROVE  /\ q \in w.chat[c].users => c \in view[q].windows
               /\ c \in view[q].windows => q \in w.chat[c].users \/ <<q, c>> \in orphans
    <3>1. CASE q = p
      BY <1>2, <1>3, <3>1
    <3>2. CASE q # p
      BY <1>3, <1>4, <2>1, <3>2 DEF ChannelOf
    <3> QED
      BY <3>1, <3>2
  <2> QED
    BY <1>5, <2>1, <2>2 DEF ChannelOf
<1>7. ASSUME NEW q \in Members
      PROVE  ReportOf(w', q) /\ ListOf(w', q)
  <2>1. ReportOf(w, q) /\ ListOf(w, q)
    BY DEF ChannelsSound, ReportsSound
  <2>2. ReportOf(w', q)
    BY <1>5, <2>1 DEF ReportOf
  <2>3. CASE q = p
    BY <1>1, <1>2, <1>3, <1>5, <2>2, <2>3 DEF ListOf
  <2>4. CASE q # p
    BY <1>3, <1>5, <2>1, <2>2, <2>4 DEF ListOf
  <2> QED
    BY <2>2, <2>3, <2>4
<1> QED
  BY <1>5, <1>6, <1>7 DEF ChannelsSound, ChatSound, ReportsSound

LEMMA ReloadKeeps ==
  ASSUME NEW I, NEW A,
         ChannelsAssumption(A), ChannelsSound(I, A, w), Chat(I, A)!Reload
  PROVE  ChannelsSound(I, A, w')
<1> DEFINE chat == [c \in I |-> Chat(I, A)!Closed]
           view == [p \in Members |-> IF w.view[p].rvr = "closed" THEN w.view[p]
                                      ELSE [w.view[p] EXCEPT !.rvr = "orphan"]]
           orphans == {o \in Members \X I : o[2] \in w.view[o[1]].windows}
<1>1. w' = [w EXCEPT !.chat = chat, !.rvr = {}, !.view = view, !.orphans = orphans]
  BY DEF Chat!Reload
<1>2. ASSUME NEW p \in Members
      PROVE  view[p] \in ViewRecord(I) /\ view[p].windows = w.view[p].windows
  BY DEF ChannelsSound, ChannelsType, ViewRecord
<1>3. view = [p \in Members |-> view[p]]
  OBVIOUS
<1>4. /\ orphans \subseteq Members \X I
      /\ \A p \in Members, c \in I : c \in w.view[p].windows => <<p, c>> \in orphans
  OBVIOUS
<1>5. /\ chat \in [I -> ChannelRecord]
      /\ \A c \in I : chat[c].owner = None /\ chat[c].users = {}
  BY DEF Chat!Closed, ChannelRecord
<1> HIDE DEF chat, view, orphans
<1>6. view \in [Members -> ViewRecord(I)]
  BY <1>2, <1>3
<1>7. /\ w' \in ChannelsType(I) /\ w'.online = w.online /\ w'.chat = chat
      /\ w'.orphans = orphans /\ w'.rvr = {} /\ w'.view = view /\ w'.reports = w.reports
      /\ w'.forgotten = w.forgotten
  BY <1>1, <1>4, <1>5, <1>6 DEF ChannelsSound, ChannelsType
<1>8. ASSUME NEW c \in I
      PROVE  ChannelOf(I, w', c)
  BY <1>2, <1>4, <1>5, <1>7 DEF ChannelOf
<1>9. ASSUME NEW q \in Members
      PROVE  ReportOf(w', q) /\ ListOf(w', q)
  BY <1>7 DEF ChannelsSound, ReportsSound, ReportOf, ListOf
<1> QED
  BY <1>7, <1>8, <1>9 DEF ChannelsSound, ChatSound, ReportsSound

\* A leaver takes his channels with him and is no user of any other.
LEMMA RemovedFacts ==
  ASSUME NEW I, NEW A,
         ChannelsSound(I, A, w), NEW chat \in [I -> ChannelRecord], NEW view \in [Members -> ViewRecord(I)],
         NEW p \in Members, NEW skips \in BOOLEAN
  PROVE  LET out == Chat(I, A)!RemovedFromChannels(chat, view, p, skips) IN
         /\ out.chat \in [I -> ChannelRecord] /\ out.view \in [Members -> ViewRecord(I)]
         /\ \A c \in I :
              IF chat[c].owner = p THEN out.chat[c].owner = None /\ out.chat[c].users = {}
              ELSE /\ out.chat[c].owner = chat[c].owner /\ out.chat[c].invites = chat[c].invites
                   /\ out.chat[c].users = chat[c].users \ {p}
         /\ \A q \in Members : /\ out.view[q].rvr = view[q].rvr /\ out.view[q].reports = view[q].reports
              /\ out.view[q].windows =
                   {c \in view[q].windows : ~(chat[c].owner = p /\ q \in chat[c].users \ {p})}
<1> DEFINE own == {c \in I : chat[c].owner = p}
           passed == {c \in I : skips /\ \E d \in own : c > d /\ p \in chat[c].users}
           stray(c) == IF c \in passed THEN chat[c].stray \cup {p} ELSE chat[c].stray
           left == [c \in I |-> [chat[c] EXCEPT !.users = @ \ {p}, !.stray = stray(c)]]
           chat2 == [c \in I |-> IF c \in own THEN Chat(I, A)!Closed ELSE left[c]]
           view2 == [q \in Members |-> [view[q] EXCEPT
                       !.windows = @ \ {c \in own : q \in left[c].users}]]
           out == Chat(I, A)!RemovedFromChannels(chat, view, p, skips)
<1>1. out.chat = chat2 /\ out.view = view2
  BY DEF Chat!RemovedFromChannels
<1>2. ASSUME NEW c \in I
      PROVE  /\ left[c] \in ChannelRecord /\ left[c].owner = chat[c].owner
             /\ left[c].invites = chat[c].invites /\ left[c].users = chat[c].users \ {p}
  <2>1. chat[c] \in ChannelRecord
    OBVIOUS
  <2>2. stray(c) \subseteq Members
    BY <2>1 DEF ChannelRecord
  <2>3. left[c] = [chat[c] EXCEPT !.users = @ \ {p}, !.stray = stray(c)]
    OBVIOUS
  <2> HIDE DEF left, stray
  <2> QED
    BY <2>1, <2>2, <2>3 DEF ChannelRecord
<1>3. Chat(I, A)!Closed \in ChannelRecord /\ Chat(I, A)!Closed.owner = None /\ Chat(I, A)!Closed.users = {}
  BY DEF Chat!Closed, ChannelRecord
<1> HIDE DEF left
<1>4. ASSUME NEW c \in I
      PROVE  /\ chat2[c] \in ChannelRecord
             /\ IF chat[c].owner = p THEN chat2[c].owner = None /\ chat2[c].users = {}
                ELSE /\ chat2[c].owner = chat[c].owner /\ chat2[c].invites = chat[c].invites
                     /\ chat2[c].users = chat[c].users \ {p}
  <2>1. CASE chat[c].owner = p
    <3>1. chat2[c] = Chat(I, A)!Closed
      BY <2>1
    <3> HIDE DEF chat2
    <3> QED
      BY <1>3, <2>1, <3>1
  <2>2. CASE chat[c].owner # p
    <3>1. chat2[c] = left[c]
      BY <2>2
    <3> HIDE DEF chat2
    <3> QED
      BY <1>2, <2>2, <3>1
  <2> QED
    BY <2>1, <2>2
<1>5. chat2 = [c \in I |-> chat2[c]]
  OBVIOUS
<1>6. ASSUME NEW q \in Members
      PROVE  /\ view2[q] \in ViewRecord(I)
             /\ view2[q].rvr = view[q].rvr /\ view2[q].reports = view[q].reports
             /\ view2[q].windows =
                  {c \in view[q].windows : ~(chat[c].owner = p /\ q \in chat[c].users \ {p})}
  <2> DEFINE lost == {c \in own : q \in left[c].users}
  <2>1. view2[q] = [view[q] EXCEPT !.windows = @ \ lost]
    OBVIOUS
  <2>2. view[q] \in ViewRecord(I)
    OBVIOUS
  <2> HIDE DEF view2, lost
  <2>3. /\ view2[q] \in ViewRecord(I) /\ view2[q].windows = view[q].windows \ lost
        /\ view2[q].rvr = view[q].rvr /\ view2[q].reports = view[q].reports
    BY <2>1, <2>2 DEF ViewRecord
  <2>4. \A c \in I : c \in lost <=> (chat[c].owner = p /\ q \in chat[c].users \ {p})
    BY <1>2 DEF lost
  <2>5. view[q].windows \subseteq I
    BY <2>2 DEF ViewRecord
  <2> QED
    BY <2>3, <2>4, <2>5
<1>7. view2 = [q \in Members |-> view2[q]]
  OBVIOUS
<1> HIDE DEF chat2, view2, out
<1>8. chat2 \in [I -> ChannelRecord] /\ view2 \in [Members -> ViewRecord(I)]
  BY <1>4, <1>5, <1>6, <1>7
<1> QED
  BY <1>1, <1>4, <1>6, <1>8 DEF out

LEMMA ChannelsLogoutKeeps ==
  ASSUME NEW I, NEW A,
         ChannelsAssumption(A), ChannelsSound(I, A, w),
         NEW p \in Members, Chat(I, A)!Logout(p)
  PROVE  ChannelsSound(I, A, w')
<1>2. p \in w.online
  BY DEF Chat!Logout
<1>20. PICK skips \in BOOLEAN, v \in {Chat(I, A)!Cancelled(w, p)} :
         \E done \in {Chat(I, A)!Closes(v, p)} :
           LET out == Chat(I, A)!RemovedFromChannels(v.chat, v.view, p, skips)
           IN w' = [v EXCEPT !.online = @ \ {p},
                      !.reports = [r \in Members |-> IF r \in done THEN Chat(I, A)!NoReport ELSE @[r]],
                      !.forgotten = (@ \ done) \cup (Chat(I, A)!TakenBy(v, p) \ done),
                      !.chat = out.chat, !.rvr = @ \ {p},
                      !.view = [out.view EXCEPT ![p] = Chat(I, A)!NoView],
                      !.orphans = {o \in @ : o[1] # p}]
  BY DEF Chat!Logout
<1> DEFINE done == Chat(I, A)!Closes(v, p)
           taken == Chat(I, A)!TakenBy(v, p)
           reports == [r \in Members |-> IF r \in done THEN Chat(I, A)!NoReport ELSE v.reports[r]]
           forgotten == (v.forgotten \ done) \cup (taken \ done)
           orphans == {o \in v.orphans : o[1] # p}
<1>1. w' = [v EXCEPT !.online = @ \ {p}, !.reports = reports, !.forgotten = forgotten,
                     !.chat = Chat(I, A)!RemovedFromChannels(v.chat, v.view, p, skips).chat,
                     !.rvr = @ \ {p},
                     !.view = [Chat(I, A)!RemovedFromChannels(v.chat, v.view, p, skips).view
                                 EXCEPT ![p] = Chat(I, A)!NoView],
                     !.orphans = orphans]
  BY <1>20
<1>3. ChannelsSound(I, A, v) /\ v.reports[p] = Chat(I, A)!NoReport /\ v.online = w.online
  BY CancelledReport
<1>4. done \subseteq taken /\ taken = {r \in Members : v.reports[r].gamemaster = p}
  BY DEF Chat!Closes, Chat!TakenBy
<1> HIDE DEF done, taken
<1> DEFINE out == Chat(I, A)!RemovedFromChannels(v.chat, v.view, p, skips)
           view == [out.view EXCEPT ![p] = Chat(I, A)!NoView]
<1>5. v.chat \in [I -> ChannelRecord] /\ v.view \in [Members -> ViewRecord(I)]
  BY <1>3 DEF ChannelsSound, ChannelsType
<1>6. /\ out.chat \in [I -> ChannelRecord] /\ out.view \in [Members -> ViewRecord(I)]
      /\ \A c \in I :
           IF v.chat[c].owner = p THEN out.chat[c].owner = None /\ out.chat[c].users = {}
           ELSE /\ out.chat[c].owner = v.chat[c].owner /\ out.chat[c].invites = v.chat[c].invites
                /\ out.chat[c].users = v.chat[c].users \ {p}
      /\ \A q \in Members : /\ out.view[q].rvr = v.view[q].rvr /\ out.view[q].reports = v.view[q].reports
           /\ out.view[q].windows =
                {c \in v.view[q].windows : ~(v.chat[c].owner = p /\ q \in v.chat[c].users \ {p})}
  BY SMTT(40), <1>5, RemovedFacts
<1> DEFINE chat == out.chat
<1>7. w' = [v EXCEPT !.online = @ \ {p}, !.reports = reports, !.forgotten = forgotten,
                     !.chat = chat, !.rvr = @ \ {p}, !.view = view, !.orphans = orphans]
  BY <1>1
<1> HIDE DEF out
<1>8. Chat(I, A)!NoView \in ViewRecord(I) /\ Chat(I, A)!NoView.windows = {} /\ Chat(I, A)!NoReport \in ReportRecord
      /\ Chat(I, A)!NoReport.state = "none" /\ Chat(I, A)!NoReport.gamemaster = None
  BY DEF Chat!NoView, ViewRecord, Chat!NoReport, ReportRecord
<1>9. /\ view \in [Members -> ViewRecord(I)] /\ view[p] = Chat(I, A)!NoView
      /\ \A q \in Members \ {p} : view[q] = out.view[q]
  BY <1>6, <1>8
<1>10. ASSUME NEW r \in Members
       PROVE  /\ reports[r] \in ReportRecord
              /\ reports[r] = IF r \in done THEN Chat(I, A)!NoReport ELSE v.reports[r]
  <2>1. v.reports[r] \in ReportRecord
    BY <1>3 DEF ChannelsSound, ChannelsType
  <2> QED
    BY <1>8, <2>1
<1>11. reports = [r \in Members |-> reports[r]]
  OBVIOUS
<1>12. /\ forgotten \subseteq Members /\ orphans \subseteq Members \X I
       /\ v.forgotten \ done \subseteq forgotten /\ taken \ done \subseteq forgotten
  BY <1>3, <1>4 DEF ChannelsSound, ChannelsType
<1>13. \A q \in Members \ {p}, c \in I : <<q, c>> \in v.orphans => <<q, c>> \in orphans
  OBVIOUS
<1> HIDE DEF view, reports, forgotten, orphans
<1>14. reports \in [Members -> ReportRecord]
  BY <1>10, <1>11
<1>15. /\ w' \in ChannelsType(I) /\ w'.online = v.online \ {p} /\ w'.chat = chat /\ w'.view = view
       /\ w'.orphans = orphans /\ w'.rvr = v.rvr \ {p} /\ w'.reports = reports
       /\ w'.forgotten = forgotten
  BY <1>3, <1>6, <1>7, <1>9, <1>12, <1>14 DEF ChannelsSound, ChannelsType
<1>16. p # None
  BY DEF ChannelsAssumption
<1>17. ASSUME NEW c \in I
       PROVE  ChannelOf(I, w', c)
  <2>1. ChannelOf(I, v, c)
    BY <1>3 DEF ChannelsSound, ChatSound
  <2>2. ASSUME NEW q \in Members
        PROVE  /\ q \in chat[c].users => c \in view[q].windows
               /\ c \in view[q].windows => q \in chat[c].users \/ <<q, c>> \in orphans
    <3>1. CASE q = p
      BY <1>6, <1>8, <1>9, <3>1
    <3>2. CASE q # p /\ v.chat[c].owner = p
      BY <1>6, <1>9, <1>13, <2>1, <3>2 DEF ChannelOf
    <3>3. CASE q # p /\ v.chat[c].owner # p
      BY <1>6, <1>9, <1>13, <2>1, <3>3 DEF ChannelOf
    <3> QED
      BY <3>1, <3>2, <3>3
  <2>3. chat[c].owner = None => chat[c].users = {}
    BY <1>6, <2>1 DEF ChannelOf
  <2>4. ASSUME chat[c].owner # None
        PROVE  /\ chat[c].owner \in chat[c].users
               /\ \A d \in I : chat[d].owner = chat[c].owner => d = c
    BY <1>6, <2>1, <2>4 DEF ChannelOf
  <2>5. \A q \in chat[c].users :
           q \in v.online \ {p} /\ (q = chat[c].owner \/ q \in chat[c].invites)
    BY <1>6, <2>1 DEF ChannelOf
  <2> QED
    BY <1>15, <2>2, <2>3, <2>4, <2>5 DEF ChannelOf
<1>18. ASSUME NEW r \in Members
       PROVE  ReportOf(w', r)
  <2>1. ReportOf(v, r)
    BY <1>3 DEF ChannelsSound, ReportsSound
  <2>2. CASE r \in done
    BY <1>8, <1>10, <1>15, <2>2 DEF ReportOf
  <2>3. CASE r \notin done
    <3>1. reports[r] = v.reports[r]
      BY <1>10, <2>3
    <3>2. v.reports[r].state # "none" => r # p
      BY <1>3, <1>8
    <3>3. v.reports[r].gamemaster = p => r \in forgotten
      BY <1>4, <1>12, <2>3
    <3>4. r \in v.forgotten => r \in forgotten
      BY <1>12, <2>3
    <3> QED
      BY <1>15, <2>1, <3>1, <3>2, <3>3, <3>4 DEF ReportOf
  <2> QED
    BY <2>2, <2>3
<1>19. ASSUME NEW q \in Members
       PROVE  ListOf(w', q)
  <2>1. ListOf(v, q)
    BY <1>3 DEF ChannelsSound, ReportsSound
  <2>2. ASSUME NEW r \in Members
        PROVE  reports[r].state = "open" <=> v.reports[r].state = "open"
    <3>1. ReportOf(v, r)
      BY <1>3 DEF ChannelsSound, ReportsSound
    <3>2. CASE r \in done
      BY <1>4, <1>8, <1>10, <1>16, <3>1, <3>2 DEF ReportOf
    <3>3. CASE r \notin done
      BY <1>10, <3>3
    <3> QED
      BY <3>2, <3>3
  <2>3. q # p => view[q].rvr = v.view[q].rvr /\ view[q].reports = v.view[q].reports
    BY <1>6, <1>9
  <2>4. q # p => v.view[q].reports \subseteq Members
    BY <1>5 DEF ViewRecord
  <2> QED
    BY <1>15, <2>1, <2>2, <2>3, <2>4 DEF ListOf
<1> QED
  BY <1>15, <1>17, <1>18, <1>19 DEF ChannelsSound, ChatSound, ReportsSound

LEMMA ChannelsNext ==
  ASSUME NEW I, NEW A,
         ChannelsAssumption(A), ChannelsSound(I, A, w), Chat(I, A)!Next
  PROVE  ChannelsSound(I, A, w')
<1>1. CASE Chat(I, A)!Reload
  BY <1>1, ReloadKeeps
<1>2. ASSUME NEW p \in Members,
             \/ Chat(I, A)!Login(p) \/ Chat(I, A)!Reconnect(p) \/ Chat(I, A)!Logout(p)
             \/ Chat(I, A)!CreatePrivateChannel(p)
      PROVE  ChannelsSound(I, A, w')
  BY <1>2, ChannelsLoginKeeps, ReconnectKeeps, ChannelsLogoutKeeps, CreateKeeps
<1>3. ASSUME NEW p \in Members,
             \/ Chat(I, A)!OpenReportsChannel(p) \/ Chat(I, A)!CloseReportsChannel(p)
             \/ Chat(I, A)!ReportRuleViolation(p) \/ Chat(I, A)!CancelRuleViolation(p)
             \/ Chat(I, A)!SetGroup(p)
      PROVE  ChannelsSound(I, A, w')
  BY <1>3, OpenReportsKeeps, CloseReportsKeeps, ReportKeeps, CancelReportKeeps, SetGroupKeeps
<1>4. ASSUME NEW p \in Members, NEW c \in I,
             Chat(I, A)!OpenChannel(p, c) \/ Chat(I, A)!CloseChannel(p, c)
      PROVE  ChannelsSound(I, A, w')
  BY <1>4, OpenChannelKeeps, CloseChannelKeeps
<1>5. ASSUME NEW p \in Members, NEW q \in Members,
             \/ Chat(I, A)!ChannelInvite(p, q) \/ Chat(I, A)!ChannelExclude(p, q)
             \/ Chat(I, A)!ProcessRuleViolation(p, q) \/ Chat(I, A)!CloseRuleViolation(p, q)
      PROVE  ChannelsSound(I, A, w')
  BY <1>5, InviteChannelKeeps, ExcludeKeeps, ProcessReportKeeps, CloseReportKeeps
<1> QED
  BY <1>1, <1>2, <1>3, <1>4, <1>5 DEF Chat!Next

-----------------------------------------------------------------------------
(* A tile and what a client knows of it (module Tiles).                      *)

\* A set of numbers has a least one; one closed under successor has them all.
LEMMA LeastOf ==
  ASSUME NEW S \in SUBSET Nat, S # {}
  PROVE  \E x \in S : \A y \in S : x <= y
<1> DEFINE R == OpToRel(<, Nat)
<1>1. IsWellFoundedOn(R, Nat)
  BY NatLessThanWellFounded
<1> HIDE DEF R
<1>2. PICK x \in S : \A y \in S : ~(<<y, x>> \in R)
  BY <1>1, WFMin
<1>3. \A y \in S : ~(y < x)
  BY <1>2 DEF R, OpToRel
<1> QED
  BY <1>3

LEMMA NatInductionOnSets ==
  ASSUME NEW S \in SUBSET Nat, 0 \in S, \A n \in S : n + 1 \in S
  PROVE  S = Nat
<1>1. SUFFICES ASSUME Nat \ S # {} PROVE FALSE
  OBVIOUS
<1>2. PICK x \in Nat \ S : \A y \in Nat \ S : x <= y
  BY <1>1, LeastOf
<1>3. x # 0 /\ x - 1 \in Nat /\ ~(x <= x - 1) /\ (x - 1) + 1 = x
  BY SMT
<1>4. x - 1 \in S
  BY <1>2, <1>3
<1> QED
  BY <1>3, <1>4

Things == Members \cup Ground \cup Top \cup Down

\* A stack cut at one thing.
LEMMA CutFacts ==
  ASSUME NEW S, NEW A \in Seq(S), NEW x \in S, NEW B \in Seq(S)
  PROVE  /\ (A \o <<x>>) \o B \in Seq(S) /\ Len((A \o <<x>>) \o B) = Len(A) + 1 + Len(B)
         /\ \A k \in 1 .. Len(A) : ((A \o <<x>>) \o B)[k] = A[k]
         /\ ((A \o <<x>>) \o B)[Len(A) + 1] = x
         /\ \A k \in 1 .. Len(B) : ((A \o <<x>>) \o B)[Len(A) + 1 + k] = B[k]
<1> DEFINE C == A \o <<x>>
<1>1. /\ C \in Seq(S) /\ Len(C) = Len(A) + 1 /\ Len(A) \in Nat /\ Len(B) \in Nat
      /\ \A k \in 1 .. Len(A) : C[k] = A[k]
      /\ C[Len(A) + 1] = x
  OBVIOUS
<1> HIDE DEF C
<1>2. /\ C \o B \in Seq(S) /\ Len(C \o B) = Len(C) + Len(B)
      /\ \A k \in 1 .. Len(C) : (C \o B)[k] = C[k]
      /\ \A k \in 1 .. Len(B) : (C \o B)[Len(C) + k] = B[k]
  BY <1>1, SMTT(60)
<1>3. /\ \A k \in 1 .. Len(A) : (C \o B)[k] = A[k]
      /\ (C \o B)[Len(A) + 1] = x
      /\ \A k \in 1 .. Len(B) : (C \o B)[Len(A) + 1 + k] = B[k]
  BY <1>1, <1>2
<1> QED
  BY <1>1, <1>2, <1>3 DEF C

LEMMA JoinFacts ==
  ASSUME NEW S, NEW A \in Seq(S), NEW B \in Seq(S)
  PROVE  /\ A \o B \in Seq(S) /\ Len(A \o B) = Len(A) + Len(B)
         /\ Len(A) \in Nat /\ Len(B) \in Nat
         /\ \A k \in 1 .. Len(A) : (A \o B)[k] = A[k]
         /\ \A k \in 1 .. Len(B) : (A \o B)[Len(A) + k] = B[k]
OBVIOUS

LEMMA SubSeqFacts ==
  ASSUME NEW S, NEW s \in Seq(S), NEW m \in 1 .. Len(s) + 1, NEW n \in 0 .. Len(s)
  PROVE  /\ SubSeq(s, m, n) \in Seq(S)
         /\ Len(SubSeq(s, m, n)) = IF m <= n THEN n - m + 1 ELSE 0
         /\ \A k \in 1 .. Len(SubSeq(s, m, n)) : SubSeq(s, m, n)[k] = s[m + k - 1]
<1>1. Len(s) \in Nat /\ m \in Nat /\ n \in Nat
  OBVIOUS
<1>2. CASE m <= n
  BY <1>1, <1>2, SubSeqProperties
<1>3. CASE ~(m <= n)
  <2>1. SubSeq(s, m, n) = << >>
    BY <1>1, <1>3, SubSeqEmpty
  <2> QED
    BY <1>3, <2>1
<1> QED
  BY <1>2, <1>3

\* Where a sequence can be cut.
Before(s, k) == SubSeq(s, 1, k - 1)
After(s, k) == SubSeq(s, k + 1, Len(s))

CutsAt(S, s, k) ==
  /\ Before(s, k) \in Seq(S) /\ After(s, k) \in Seq(S) /\ Len(Before(s, k)) = k - 1
  /\ s = (Before(s, k) \o <<s[k]>>) \o After(s, k)
  /\ Tile!RemoveAt(s, k) = Before(s, k) \o After(s, k)
  /\ \A y \in S : [s EXCEPT ![k] = y] = (Before(s, k) \o <<y>>) \o After(s, k)

LEMMA CutAt ==
  ASSUME NEW S, NEW s \in Seq(S), NEW k \in 1 .. Len(s)
  PROVE  CutsAt(S, s, k)
<1> DEFINE A == SubSeq(s, 1, k - 1)
           B == SubSeq(s, k + 1, Len(s))
<1>0. Len(s) \in Nat /\ k \in Nat /\ s[k] \in S
  OBVIOUS
<1>1. /\ A \in Seq(S) /\ Len(A) = k - 1 /\ \A j \in 1 .. Len(A) : A[j] = s[j]
  <2>1. 1 \in 1 .. Len(s) + 1 /\ k - 1 \in 0 .. Len(s)
    BY <1>0
  <2>2. /\ A \in Seq(S) /\ Len(A) = IF 1 <= k - 1 THEN (k - 1) - 1 + 1 ELSE 0
        /\ \A j \in 1 .. Len(A) : A[j] = s[1 + j - 1]
    BY <2>1, SubSeqFacts
  <2> HIDE DEF A
  <2>3. Len(A) = k - 1
    BY <1>0, <2>2
  <2>4. \A j \in 1 .. Len(A) : 1 + j - 1 = j
    BY <2>3, <1>0
  <2> QED
    BY <2>2, <2>3, <2>4
<1>2. /\ B \in Seq(S) /\ Len(B) = Len(s) - k /\ \A j \in 1 .. Len(B) : B[j] = s[k + j]
  <2>1. k + 1 \in 1 .. Len(s) + 1 /\ Len(s) \in 0 .. Len(s)
    BY <1>0
  <2>2. /\ B \in Seq(S) /\ Len(B) = IF k + 1 <= Len(s) THEN Len(s) - (k + 1) + 1 ELSE 0
        /\ \A j \in 1 .. Len(B) : B[j] = s[k + 1 + j - 1]
    BY <2>1, SubSeqFacts
  <2> HIDE DEF B
  <2>3. Len(B) = Len(s) - k
    BY <1>0, <2>2
  <2>4. \A j \in 1 .. Len(B) : k + 1 + j - 1 = k + j
    BY <2>3, <1>0
  <2> QED
    BY <2>2, <2>3, <2>4
<1>3. Tile!RemoveAt(s, k) = A \o B
  BY DEF Tile!RemoveAt
<1> HIDE DEF A, B
<1>4. ASSUME NEW y \in S, NEW t \in Seq(S), Len(t) = Len(s), t[k] = y,
             \A j \in 1 .. Len(s) : j # k => t[j] = s[j]
      PROVE  t = (A \o <<y>>) \o B
  <2> DEFINE D == (A \o <<y>>) \o B
  <2>1. /\ D \in Seq(S) /\ Len(D) = Len(A) + 1 + Len(B)
        /\ \A j \in 1 .. Len(A) : D[j] = A[j]
        /\ D[Len(A) + 1] = y
        /\ \A j \in 1 .. Len(B) : D[Len(A) + 1 + j] = B[j]
    <3>1. A \in Seq(S) /\ B \in Seq(S) /\ y \in S
      BY <1>1, <1>2, <1>4
    <3> QED
      BY <3>1, CutFacts
  <2> HIDE DEF D
  <2>2. Len(D) = Len(t)
    BY <1>0, <1>1, <1>2, <1>4, <2>1
  <2>3. ASSUME NEW j \in 1 .. Len(t)
        PROVE  t[j] = D[j]
    <3>1. CASE j < k
      <4>1. j \in 1 .. Len(A) /\ j # k /\ j \in 1 .. Len(s)
        BY <1>0, <1>1, <1>4, <3>1
      <4> QED
        BY <1>1, <1>4, <2>1, <4>1
    <3>2. CASE j = k
      <4>1. Len(A) + 1 = k
        BY <1>0, <1>1
      <4> QED
        BY <1>4, <2>1, <3>2, <4>1
    <3>3. CASE j > k
      <4>1. j - k \in 1 .. Len(B) /\ Len(A) + 1 + (j - k) = j /\ k + (j - k) = j
            /\ j # k /\ j \in 1 .. Len(s)
        BY <1>0, <1>1, <1>2, <1>4, <3>3
      <4>2. D[j] = B[j - k] /\ B[j - k] = s[j]
        BY <1>2, <2>1, <4>1
      <4> QED
        BY <1>4, <4>1, <4>2
    <3> QED
      BY <1>0, <1>4, <3>1, <3>2, <3>3
  <2>4. t = D
    BY <1>4, <2>1, <2>2, <2>3, SeqEqual
  <2> QED
    BY <2>4 DEF D
<1>5. s = (A \o <<s[k]>>) \o B
  BY <1>0, <1>4
<1>6. ASSUME NEW y \in S
      PROVE  [s EXCEPT ![k] = y] = (A \o <<y>>) \o B
  <2> DEFINE t == [s EXCEPT ![k] = y]
  <2>1. t \in Seq(S) /\ Len(t) = Len(s) /\ t[k] = y
        /\ \A j \in 1 .. Len(s) : j # k => t[j] = s[j]
    BY <1>6
  <2> HIDE DEF t
  <2>2. t = (A \o <<y>>) \o B
    BY <1>4, <2>1
  <2> QED
    BY <2>2 DEF t
<1> QED
  <2>1. Before(s, k) = A /\ After(s, k) = B
    BY DEF A, B, Before, After
  <2> QED
    BY <1>1, <1>2, <1>3, <1>5, <1>6, <2>1 DEF CutsAt

CutsBefore(S, s, k) ==
  /\ Before(s, k) \in Seq(S) /\ After(s, k - 1) \in Seq(S) /\ Len(Before(s, k)) = k - 1
  /\ s = Before(s, k) \o After(s, k - 1)
  /\ \A y \in S : Tile!InsertAt(s, k, y) = (Before(s, k) \o <<y>>) \o After(s, k - 1)

LEMMA CutBefore ==
  ASSUME NEW S, NEW s \in Seq(S), NEW k \in 1 .. Len(s) + 1
  PROVE  CutsBefore(S, s, k)
<1> DEFINE A == SubSeq(s, 1, k - 1)
           B == SubSeq(s, k, Len(s))
<1>0. Len(s) \in Nat /\ k \in Nat
  OBVIOUS
<1>1. /\ A \in Seq(S) /\ Len(A) = k - 1 /\ \A j \in 1 .. Len(A) : A[j] = s[j]
  <2>1. 1 \in 1 .. Len(s) + 1 /\ k - 1 \in 0 .. Len(s)
    BY <1>0
  <2>2. /\ A \in Seq(S) /\ Len(A) = IF 1 <= k - 1 THEN (k - 1) - 1 + 1 ELSE 0
        /\ \A j \in 1 .. Len(A) : A[j] = s[1 + j - 1]
    BY <2>1, SubSeqFacts
  <2> HIDE DEF A
  <2>3. Len(A) = k - 1
    BY <1>0, <2>2
  <2>4. \A j \in 1 .. Len(A) : 1 + j - 1 = j
    BY <2>3, <1>0
  <2> QED
    BY <2>2, <2>3, <2>4
<1>2. /\ B \in Seq(S) /\ Len(B) = Len(s) - k + 1 /\ \A j \in 1 .. Len(B) : B[j] = s[k + j - 1]
  <2>1. k \in 1 .. Len(s) + 1 /\ Len(s) \in 0 .. Len(s)
    BY <1>0
  <2>2. /\ B \in Seq(S) /\ Len(B) = IF k <= Len(s) THEN Len(s) - k + 1 ELSE 0
        /\ \A j \in 1 .. Len(B) : B[j] = s[k + j - 1]
    BY <2>1, SubSeqFacts
  <2> HIDE DEF B
  <2> QED
    BY <1>0, <2>2
<1>3. \A y \in S : Tile!InsertAt(s, k, y) = (A \o <<y>>) \o B
  BY DEF Tile!InsertAt
<1> HIDE DEF A, B
<1>4. s = A \o B
  <2> DEFINE D == A \o B
  <2>1. /\ D \in Seq(S) /\ Len(D) = Len(A) + Len(B)
        /\ \A j \in 1 .. Len(A) : D[j] = A[j]
        /\ \A j \in 1 .. Len(B) : D[Len(A) + j] = B[j]
    <3>1. A \in Seq(S) /\ B \in Seq(S)
      BY <1>1, <1>2
    <3> QED
      BY <3>1
  <2> HIDE DEF D
  <2>2. Len(D) = Len(s)
    BY <1>0, <1>1, <1>2, <2>1
  <2>3. ASSUME NEW j \in 1 .. Len(s)
        PROVE  s[j] = D[j]
    <3>1. CASE j < k
      <4>1. j \in 1 .. Len(A)
        BY <1>0, <1>1, <3>1
      <4> QED
        BY <1>1, <2>1, <4>1
    <3>2. CASE ~(j < k)
      <4>1. j - k + 1 \in 1 .. Len(B) /\ Len(A) + (j - k + 1) = j /\ k + (j - k + 1) - 1 = j
        BY <1>0, <1>1, <1>2, <3>2
      <4> QED
        BY <1>2, <2>1, <4>1, ZenonT(60)
    <3> QED
      BY <3>1, <3>2
  <2>4. s = D
    BY <2>1, <2>2, <2>3, SeqEqual
  <2> QED
    BY <2>4 DEF D
<1> QED
  <2>1. k - 1 + 1 = k
    BY <1>0
  <2>2. Before(s, k) = A /\ After(s, k - 1) = B
    BY <2>1, Zenon DEF A, B, Before, After
  <2> QED
    BY <1>1, <1>2, <1>3, <1>4, <2>2 DEF CutsBefore

-----------------------------------------------------------------------------
(* What the client does.                                                     *)

Seeing(u, v) ==
  [ground |-> u.ground, top |-> u.top, creatures |-> u.creatures, down |-> u.down,
   hidden |-> u.hidden, view |-> v]
IsTile(u) == u = Seeing(u, u.view)

\* The client knows that its view is wrong, or has the beginning of s.
Knows(v, s) == v = Tile!Lost \/ v = Tile!First(s)

LEMMA FirstFacts ==
  ASSUME TilesAssumption, NEW s \in Seq(Things)
  PROVE  /\ Tile!First(s) \in Seq(Things)
         /\ Len(Tile!First(s)) = IF Len(s) > Limit THEN Limit ELSE Len(s)
         /\ \A k \in 1 .. Len(Tile!First(s)) : Tile!First(s)[k] = s[k]
         /\ Len(s) <= Limit => Tile!First(s) = s
<1> DEFINE n == IF Len(s) > Limit THEN Limit ELSE Len(s)
           f == SubSeq(s, 1, n)
<1>1. Limit \in Nat /\ Len(s) \in Nat
  BY DEF TilesAssumption
<1>2. n \in 0 .. Len(s) /\ 1 \in 1 .. Len(s) + 1 /\ n \in Nat
  BY <1>1
<1>3. Tile!First(s) = f
  BY DEF Tile!First
<1> HIDE DEF n
<1>4. /\ f \in Seq(Things) /\ Len(f) = (IF 1 <= n THEN n - 1 + 1 ELSE 0)
      /\ \A k \in 1 .. Len(f) : f[k] = s[1 + k - 1]
  BY <1>2, SubSeqFacts
<1> HIDE DEF f
<1>5. Len(f) = n
  BY <1>2, <1>4
<1>6. \A k \in 1 .. Len(f) : f[k] = s[k]
  <2>1. \A k \in 1 .. Len(f) : 1 + k - 1 = k
    BY <1>2, <1>5
  <2> QED
    BY <1>4, <2>1
<1>7. ASSUME Len(s) <= Limit
      PROVE  f = s
  <2>1. n = Len(s)
    BY <1>1, <1>7 DEF n
  <2> QED
    BY <1>4, <1>5, <1>6, <2>1, SeqEqual
<1> QED
  BY <1>3, <1>4, <1>5, <1>6, <1>7 DEF n

\* Two stacks begin alike.
LEMMA SameFirst ==
  ASSUME TilesAssumption, NEW s \in Seq(Things), NEW t \in Seq(Things),
         Len(s) = Len(t) \/ (Len(s) >= Limit /\ Len(t) >= Limit),
         \A k \in 1 .. Len(s) : k <= Limit => s[k] = t[k]
  PROVE  Tile!First(s) = Tile!First(t)
<1> DEFINE f == Tile!First(s)
           g == Tile!First(t)
<1>1. Limit \in Nat /\ Len(s) \in Nat /\ Len(t) \in Nat
  BY DEF TilesAssumption
<1>2. /\ f \in Seq(Things) /\ Len(f) = IF Len(s) > Limit THEN Limit ELSE Len(s)
      /\ \A k \in 1 .. Len(f) : f[k] = s[k]
  BY FirstFacts
<1>3. /\ g \in Seq(Things) /\ Len(g) = IF Len(t) > Limit THEN Limit ELSE Len(t)
      /\ \A k \in 1 .. Len(g) : g[k] = t[k]
  BY FirstFacts
<1> HIDE DEF f, g
<1>4. Len(f) = Len(g)
  BY <1>1, <1>2, <1>3
<1>5. ASSUME NEW k \in 1 .. Len(f)
      PROVE  f[k] = g[k]
  <2>1. k \in 1 .. Len(s) /\ k <= Limit /\ k \in 1 .. Len(g)
    BY <1>1, <1>2, <1>4
  <2> QED
    BY <1>2, <1>3, <2>1
<1>6. f = g
  BY <1>2, <1>3, <1>4, <1>5, SeqEqual
<1> QED
  BY <1>6 DEF f, g

\* A thing is put into the beginning of a stack.
LEMMA AddToFirst ==
  ASSUME TilesAssumption, NEW A \in Seq(Things), NEW B \in Seq(Things), NEW x \in Things,
         Len(A) + 1 <= Limit
  PROVE  LET v == Tile!First(A \o B)
             i == Len(A) + 1 IN
         Tile!First(IF i > Len(v) THEN Append(v, x) ELSE Tile!InsertAt(v, i, x))
           = Tile!First((A \o <<x>>) \o B)
<1> DEFINE s == A \o B
           t == (A \o <<x>>) \o B
           v == Tile!First(s)
           i == Len(A) + 1
           r == IF i > Len(v) THEN Append(v, x) ELSE Tile!InsertAt(v, i, x)
<1>0. Limit \in Nat /\ Len(A) \in Nat /\ Len(B) \in Nat
  BY DEF TilesAssumption
<1>1. /\ s \in Seq(Things) /\ Len(s) = Len(A) + Len(B)
      /\ \A k \in 1 .. Len(A) : s[k] = A[k]
      /\ \A k \in 1 .. Len(B) : s[Len(A) + k] = B[k]
  OBVIOUS
<1>2. /\ t \in Seq(Things) /\ Len(t) = Len(A) + 1 + Len(B)
      /\ \A k \in 1 .. Len(A) : t[k] = A[k]
      /\ t[Len(A) + 1] = x
      /\ \A k \in 1 .. Len(B) : t[Len(A) + 1 + k] = B[k]
  BY CutFacts
<1> HIDE DEF s, t
<1>3. /\ v \in Seq(Things) /\ Len(v) = IF Len(s) > Limit THEN Limit ELSE Len(s)
      /\ \A k \in 1 .. Len(v) : v[k] = s[k]
  BY <1>1, FirstFacts
<1> HIDE DEF v
<1>4. CASE i > Len(v)
  <2>1. Len(B) = 0 /\ Len(v) = Len(A)
    BY <1>0, <1>1, <1>3, <1>4
  <2>2. /\ r \in Seq(Things) /\ Len(r) = Len(v) + 1
        /\ \A k \in 1 .. Len(v) : r[k] = v[k]
        /\ r[Len(v) + 1] = x
    BY <1>3, <1>4
  <2> HIDE DEF r
  <2>3. ASSUME NEW k \in 1 .. Len(r)
        PROVE  r[k] = t[k]
    <3>1. CASE k = Len(A) + 1
      BY <1>2, <2>1, <2>2, <3>1
    <3>2. CASE k # Len(A) + 1
      <4>1. k \in 1 .. Len(A) /\ k \in 1 .. Len(v)
        BY <1>0, <2>1, <2>2, <3>2
      <4> QED
        BY <1>1, <1>2, <1>3, <2>2, <4>1
    <3> QED
      BY <3>1, <3>2
  <2>4. Len(r) = Len(t)
    BY <1>0, <1>2, <2>1, <2>2
  <2>5. Tile!First(r) = Tile!First(t)
    BY <1>2, <2>2, <2>3, <2>4, SameFirst
  <2> QED
    BY <2>5 DEF r, v, s, t
<1>5. CASE ~(i > Len(v))
  <2>1. i \in 1 .. Len(v) + 1
    BY <1>0, <1>3, <1>5
  <2>0. r = Tile!InsertAt(v, i, x)
    BY <1>5
  <2> HIDE DEF r
  <2> DEFINE P == Before(v, i)
             Q == After(v, i - 1)
  <2>2. /\ P \in Seq(Things) /\ Q \in Seq(Things) /\ Len(P) = i - 1 /\ v = P \o Q
        /\ \A y \in Things : Tile!InsertAt(v, i, y) = (P \o <<y>>) \o Q
    <3>1. v \in Seq(Things)
      BY <1>3
    <3> HIDE DEF i
    <3> QED
      BY <2>1, <3>1, CutBefore DEF CutsBefore
  <2> HIDE DEF P, Q
  <2>3. /\ r \in Seq(Things) /\ Len(r) = Len(P) + 1 + Len(Q)
        /\ \A k \in 1 .. Len(P) : r[k] = P[k]
        /\ r[Len(P) + 1] = x
        /\ \A k \in 1 .. Len(Q) : r[Len(P) + 1 + k] = Q[k]
    <3>1. r = (P \o <<x>>) \o Q
      BY <2>0, <2>2
    <3>2. P \in Seq(Things) /\ Q \in Seq(Things)
      BY <2>2
    <3>3. LET D == (P \o <<x>>) \o Q IN
          /\ D \in Seq(Things) /\ Len(D) = Len(P) + 1 + Len(Q)
          /\ \A k \in 1 .. Len(P) : D[k] = P[k]
          /\ D[Len(P) + 1] = x
          /\ \A k \in 1 .. Len(Q) : D[Len(P) + 1 + k] = Q[k]
      BY <3>2, CutFacts
    <3> QED
      BY <3>1, <3>3
  <2>4. /\ Len(v) = Len(P) + Len(Q) /\ Len(P) = Len(A) /\ Len(Q) \in Nat
        /\ \A k \in 1 .. Len(P) : v[k] = P[k]
        /\ \A k \in 1 .. Len(Q) : v[Len(P) + k] = Q[k]
    <3>1. v = P \o Q
      BY <2>2
    <3>2. /\ Len(v) = Len(P) + Len(Q) /\ Len(Q) \in Nat
          /\ \A k \in 1 .. Len(P) : v[k] = P[k]
          /\ \A k \in 1 .. Len(Q) : v[Len(P) + k] = Q[k]
      BY <3>1
    <3> QED
      BY <1>0, <2>2, <3>2, SMTT(60)
  <2>5. ASSUME NEW k \in 1 .. Len(r), k <= Limit
        PROVE  r[k] = t[k]
    <3>1. CASE k = Len(A) + 1
      BY <1>2, <2>3, <2>4, <3>1
    <3>2. CASE k < Len(A) + 1
      <4>1. k \in 1 .. Len(A) /\ k \in 1 .. Len(P) /\ k \in 1 .. Len(v)
        BY <1>0, <2>3, <2>4, <3>2
      <4> QED
        BY <1>1, <1>2, <1>3, <2>3, <2>4, <4>1
    <3>3. CASE k > Len(A) + 1
      <4> DEFINE j == k - Len(A) - 1
      <4>1. /\ j \in 1 .. Len(Q) /\ Len(P) + 1 + j = k /\ Len(A) + 1 + j = k
            /\ Len(P) + j \in 1 .. Len(v) /\ Len(A) + j = Len(P) + j /\ j \in Nat
        BY <1>0, <2>3, <2>4, <3>3
      <4> HIDE DEF j
      <4>5. Len(v) <= Len(s)
        BY <1>0, <1>1, <1>3
      <4>2. Len(A) + j \in 1 .. Len(s) /\ j \in 1 .. Len(B)
        BY <1>0, <1>1, <2>4, <4>1, <4>5
      <4>3. r[k] = Q[j] /\ Q[j] = v[Len(P) + j] /\ v[Len(P) + j] = s[Len(P) + j]
        BY <1>3, <2>3, <2>4, <4>1
      <4>4. s[Len(A) + j] = B[j] /\ t[k] = B[j]
        BY <1>1, <1>2, <4>1, <4>2
      <4> QED
        BY <4>1, <4>3, <4>4
    <3> QED
      BY <1>0, <2>3, <3>1, <3>2, <3>3
  <2>6. Len(r) = Len(t) \/ (Len(r) >= Limit /\ Len(t) >= Limit)
    BY <1>0, <1>1, <1>2, <1>3, <1>5, <2>3, <2>4
  <2>7. Tile!First(r) = Tile!First(t)
    BY <1>2, <2>3, <2>5, <2>6, SameFirst
  <2> QED
    BY <2>7 DEF r, v, s, t
<1> QED
  BY <1>4, <1>5

\* A thing is taken out of a stack.
LEMMA RemoveMiddle ==
  ASSUME NEW S, NEW A \in Seq(S), NEW x \in S, NEW B \in Seq(S)
  PROVE  Tile!RemoveAt((A \o <<x>>) \o B, Len(A) + 1) = A \o B
<1> DEFINE s == (A \o <<x>>) \o B
           i == Len(A) + 1
           P == Before(s, i)
           Q == After(s, i)
<1>0. Len(A) \in Nat /\ Len(B) \in Nat
  OBVIOUS
<1>1. /\ s \in Seq(S) /\ Len(s) = Len(A) + 1 + Len(B)
      /\ \A k \in 1 .. Len(A) : s[k] = A[k]
      /\ \A k \in 1 .. Len(B) : s[Len(A) + 1 + k] = B[k]
  BY CutFacts
<1> HIDE DEF s
<1>2. i \in 1 .. Len(s)
  BY <1>0, <1>1
<1> HIDE DEF i
<1>3. /\ P \in Seq(S) /\ Q \in Seq(S) /\ Len(P) = i - 1
      /\ s = (P \o <<s[i]>>) \o Q /\ Tile!RemoveAt(s, i) = P \o Q
  <2>1. s \in Seq(S)
    BY <1>1
  <2>2. CutsAt(S, s, i)
    BY <1>2, <2>1, CutAt
  <2> QED
    BY <2>2 DEF CutsAt
<1> HIDE DEF P, Q
<1>4. s[i] \in S
  BY <1>1, <1>2
<1>5. LET D == (P \o <<s[i]>>) \o Q IN
      /\ Len(D) = Len(P) + 1 + Len(Q)
      /\ \A k \in 1 .. Len(P) : D[k] = P[k]
      /\ \A k \in 1 .. Len(Q) : D[Len(P) + 1 + k] = Q[k]
  <2>1. P \in Seq(S) /\ Q \in Seq(S)
    BY <1>3
  <2> QED
    BY <1>4, <2>1, CutFacts
<1>6. /\ Len(s) = Len(P) + 1 + Len(Q)
      /\ \A k \in 1 .. Len(P) : s[k] = P[k]
      /\ \A k \in 1 .. Len(Q) : s[Len(P) + 1 + k] = Q[k]
  BY <1>3, <1>5
<1>7. Len(P) = Len(A) /\ Len(Q) = Len(B)
  <2>1. Len(P) \in Nat /\ Len(Q) \in Nat
    BY <1>3
  <2> QED
    BY <1>0, <1>1, <1>3, <1>6, <2>1 DEF i
<1>8. P = A
  <2>1. \A k \in 1 .. Len(P) : P[k] = A[k]
    BY <1>1, <1>6, <1>7
  <2> QED
    BY <1>3, <1>7, <2>1, SeqEqual
<1>9. Q = B
  <2>1. \A k \in 1 .. Len(Q) : Q[k] = B[k]
    BY <1>1, <1>6, <1>7
  <2> QED
    BY <1>3, <1>7, <2>1, SeqEqual
<1> QED
  BY <1>3, <1>8, <1>9 DEF s, i

\* A thing is changed in the beginning of a stack.
LEMMA ChangeInFirst ==
  ASSUME TilesAssumption, NEW A \in Seq(Things), NEW B \in Seq(Things), NEW x \in Things,
         NEW y \in Things, Len(A) + 1 <= Limit
  PROVE  LET v == Tile!First((A \o <<y>>) \o B)
             i == Len(A) + 1 IN
         Tile!First(IF i > Len(v) THEN Append(v, x) ELSE Tile!ReplaceAt(v, i, x))
           = Tile!First((A \o <<x>>) \o B)
<1> DEFINE s == (A \o <<y>>) \o B
           t == (A \o <<x>>) \o B
           v == Tile!First(s)
           i == Len(A) + 1
           r == [v EXCEPT ![i] = x]
<1>0. Limit \in Nat /\ Len(A) \in Nat /\ Len(B) \in Nat
  BY DEF TilesAssumption
<1>1. /\ s \in Seq(Things) /\ Len(s) = Len(A) + 1 + Len(B)
      /\ \A k \in 1 .. Len(A) : s[k] = A[k]
      /\ \A k \in 1 .. Len(B) : s[Len(A) + 1 + k] = B[k]
  BY CutFacts
<1>2. /\ t \in Seq(Things) /\ Len(t) = Len(A) + 1 + Len(B)
      /\ \A k \in 1 .. Len(A) : t[k] = A[k]
      /\ t[Len(A) + 1] = x
      /\ \A k \in 1 .. Len(B) : t[Len(A) + 1 + k] = B[k]
  BY CutFacts
<1> HIDE DEF s, t
<1>3. /\ v \in Seq(Things) /\ Len(v) = IF Len(s) > Limit THEN Limit ELSE Len(s)
      /\ \A k \in 1 .. Len(v) : v[k] = s[k]
  BY <1>1, FirstFacts
<1> HIDE DEF v
<1>4. ~(i > Len(v)) /\ i \in 1 .. Len(v)
  BY <1>0, <1>1, <1>3
<1>5. /\ r \in Seq(Things) /\ Len(r) = Len(v) /\ r[i] = x
      /\ \A k \in 1 .. Len(v) : k # i => r[k] = v[k]
  BY <1>3, <1>4
<1>6. Tile!ReplaceAt(v, i, x) = r
  BY DEF Tile!ReplaceAt
<1> HIDE DEF r
<1>7. ASSUME NEW k \in 1 .. Len(r), k <= Limit
      PROVE  r[k] = t[k]
  <2>1. CASE k = i
    BY <1>2, <1>5, <2>1
  <2>2. CASE k < i
    <3>1. k \in 1 .. Len(A) /\ k # i /\ k \in 1 .. Len(v)
      BY <1>0, <1>5, <2>2
    <3> QED
      BY <1>1, <1>2, <1>3, <1>5, <3>1
  <2>3. CASE k > i
    <3>0. Len(v) <= Len(s)
      BY <1>0, <1>1, <1>3
    <3>1. /\ k - i \in 1 .. Len(B) /\ Len(A) + 1 + (k - i) = k /\ k # i /\ k \in 1 .. Len(v)
      BY <1>0, <1>1, <1>5, <2>3, <3>0
    <3> HIDE DEF i
    <3>2. r[k] = s[k] /\ s[k] = B[k - i] /\ t[k] = B[k - i]
      <4>1. s[Len(A) + 1 + (k - i)] = B[k - i] /\ t[Len(A) + 1 + (k - i)] = B[k - i]
        BY <1>1, <1>2, <3>1
      <4> QED
        BY <1>3, <1>5, <3>1, <4>1
    <3> QED
      BY <3>2
  <2> QED
    BY <1>0, <2>1, <2>2, <2>3
<1>8. Len(r) = Len(t) \/ (Len(r) >= Limit /\ Len(t) >= Limit)
  BY <1>0, <1>1, <1>2, <1>3, <1>5
<1>9. Tile!First(r) = Tile!First(t)
  BY <1>2, <1>5, <1>7, <1>8, SameFirst
<1> QED
  BY <1>4, <1>6, <1>9 DEF v, s, t

-----------------------------------------------------------------------------
(* What the client is told, of a tile that was changed where it was cut.     *)

LEMMA SeeingFacts ==
  ASSUME NEW u, NEW v
  PROVE  /\ IsTile(u) => [u EXCEPT !.view = v] = Seeing(u, v)
         /\ IsTile(Seeing(u, v)) /\ Seeing(u, v).view = v
         /\ \A x : Seeing(Seeing(u, v), x) = Seeing(u, x)
<1>1. ASSUME IsTile(u)
      PROVE  [u EXCEPT !.view = v] = Seeing(u, v)
  <2>1. u = Seeing(u, u.view)
    BY <1>1 DEF IsTile
  <2> DEFINE z == u.view
  <2> HIDE DEF z
  <2>2. [Seeing(u, z) EXCEPT !.view = v] = Seeing(u, v)
    BY DEF Seeing
  <2> QED
    BY <2>1, <2>2 DEF z
<1>2. Seeing(u, v).view = v /\ \A x : Seeing(Seeing(u, v), x) = Seeing(u, x)
  BY DEF Seeing
<1>3. IsTile(Seeing(u, v))
  BY <1>2 DEF IsTile
<1> QED
  BY <1>1, <1>2, <1>3

LEMMA ToldFacts ==
  ASSUME NEW u, IsTile(u), NEW i, NEW view
  PROVE  Tile!Told(u, i, view) = Seeing(u, IF u.view = Tile!Lost \/ i > Limit THEN u.view ELSE Tile!First(view))
<1>1. CASE u.view = Tile!Lost \/ i > Limit
  BY <1>1 DEF Tile!Told, IsTile
<1>2. CASE ~(u.view = Tile!Lost \/ i > Limit)
  BY <1>2, SeeingFacts DEF Tile!Told
<1> QED
  BY <1>1, <1>2

\* What lies beyond the limit is not told.
LEMMA BeyondFirst ==
  ASSUME TilesAssumption, NEW A \in Seq(Things), NEW B \in Seq(Things), NEW C \in Seq(Things),
         Len(A) >= Limit
  PROVE  Tile!First(A \o B) = Tile!First(A \o C)
<1>0. Limit \in Nat /\ Len(A) \in Nat
  BY DEF TilesAssumption
<1> DEFINE s == A \o B
           t == A \o C
<1>1. /\ s \in Seq(Things) /\ Len(s) = Len(A) + Len(B) /\ Len(B) \in Nat
      /\ \A k \in 1 .. Len(A) : s[k] = A[k]
  BY JoinFacts
<1>2. /\ t \in Seq(Things) /\ Len(t) = Len(A) + Len(C) /\ Len(C) \in Nat
      /\ \A k \in 1 .. Len(A) : t[k] = A[k]
  BY JoinFacts
<1> HIDE DEF s, t
<1>3. Len(s) >= Limit /\ Len(t) >= Limit
  BY <1>0, <1>1, <1>2
<1>4. ASSUME NEW k \in 1 .. Len(s), k <= Limit
      PROVE  s[k] = t[k]
  <2>1. k \in 1 .. Len(A)
    BY <1>0, <1>4
  <2> QED
    BY <1>1, <1>2, <2>1
<1>5. Tile!First(s) = Tile!First(t)
  BY <1>1, <1>2, <1>3, <1>4, SameFirst
<1> QED
  BY <1>5 DEF s, t

LEMMA CutJoins ==
  ASSUME NEW S, NEW A \in Seq(S), NEW x \in S, NEW B \in Seq(S)
  PROVE  (A \o <<x>>) \o B = A \o (<<x>> \o B) /\ <<x>> \o B \in Seq(S)
<1>1. <<x>> \in Seq(S)
  OBVIOUS
<1> QED
  BY <1>1, ConcatAssociative, JoinFacts

LEMMA AddKnows ==
  ASSUME TilesAssumption, NEW A \in Seq(Things), NEW B \in Seq(Things), NEW x \in Things,
         NEW u, IsTile(u), Knows(u.view, A \o B), NEW i, i = Len(A) + 1
  PROVE  \E v : Tile!ClientAdd(u, i, x) = Seeing(u, v) /\ Knows(v, (A \o <<x>>) \o B)
<1> DEFINE n == IF i > Len(u.view) THEN Append(u.view, x) ELSE Tile!InsertAt(u.view, i, x)
           v == IF u.view = Tile!Lost \/ i > Limit THEN u.view ELSE Tile!First(n)
<1>0. Limit \in Nat /\ Len(A) \in Nat
  BY DEF TilesAssumption
<1>1. Tile!ClientAdd(u, i, x) = Seeing(u, v)
  BY ToldFacts DEF Tile!ClientAdd
<1>2. Knows(v, (A \o <<x>>) \o B)
  <2>1. CASE u.view = Tile!Lost
    BY <2>1 DEF Knows
  <2>2. CASE u.view # Tile!Lost /\ i > Limit
    <3>1. Len(A) >= Limit
      BY <1>0, <2>2
    <3>2. Tile!First(A \o B) = Tile!First((A \o <<x>>) \o B)
      <4>1. (A \o <<x>>) \o B = A \o (<<x>> \o B) /\ <<x>> \o B \in Seq(Things)
        BY CutJoins
      <4>2. Tile!First(A \o B) = Tile!First(A \o (<<x>> \o B))
        BY <3>1, <4>1, BeyondFirst
      <4> QED
        BY <4>1, <4>2
    <3> QED
      BY <2>2, <3>2 DEF Knows
  <2>3. CASE u.view # Tile!Lost /\ ~(i > Limit)
    <3>1. Len(A) + 1 <= Limit
      BY <1>0, <2>3
    <3>2. u.view = Tile!First(A \o B)
      BY <2>3 DEF Knows
    <3>3. Tile!First(n) = Tile!First((A \o <<x>>) \o B)
      BY <3>1, <3>2, AddToFirst
    <3> HIDE DEF n
    <3> QED
      BY <2>3, <3>3 DEF Knows
  <2> QED
    BY <2>1, <2>2, <2>3
<1> HIDE DEF v
<1> QED
  BY <1>1, <1>2

LEMMA ChangeKnows ==
  ASSUME TilesAssumption, NEW A \in Seq(Things), NEW B \in Seq(Things), NEW x \in Things,
         NEW y \in Things,
         NEW u, IsTile(u), Knows(u.view, (A \o <<y>>) \o B), NEW i, i = Len(A) + 1
  PROVE  \E v : Tile!ClientUpdate(u, i, x) = Seeing(u, v) /\ Knows(v, (A \o <<x>>) \o B)
<1> DEFINE n == IF i > Len(u.view) THEN Append(u.view, x) ELSE Tile!ReplaceAt(u.view, i, x)
           v == IF u.view = Tile!Lost \/ i > Limit THEN u.view ELSE Tile!First(n)
<1>0. Limit \in Nat /\ Len(A) \in Nat
  BY DEF TilesAssumption
<1>1. Tile!ClientUpdate(u, i, x) = Seeing(u, v)
  BY ToldFacts DEF Tile!ClientUpdate
<1>2. Knows(v, (A \o <<x>>) \o B)
  <2>1. CASE u.view = Tile!Lost
    BY <2>1 DEF Knows
  <2>2. CASE u.view # Tile!Lost /\ i > Limit
    <3>1. Len(A) >= Limit
      BY <1>0, <2>2
    <3>2. Tile!First((A \o <<y>>) \o B) = Tile!First((A \o <<x>>) \o B)
      <4>1. (A \o <<y>>) \o B = A \o (<<y>> \o B) /\ <<y>> \o B \in Seq(Things)
        BY CutJoins
      <4>2. (A \o <<x>>) \o B = A \o (<<x>> \o B) /\ <<x>> \o B \in Seq(Things)
        BY CutJoins
      <4>3. Tile!First(A \o (<<y>> \o B)) = Tile!First(A \o (<<x>> \o B))
        BY <3>1, <4>1, <4>2, BeyondFirst
      <4> QED
        BY <4>1, <4>2, <4>3
    <3> QED
      BY <2>2, <3>2 DEF Knows
  <2>3. CASE u.view # Tile!Lost /\ ~(i > Limit)
    <3>1. Len(A) + 1 <= Limit
      BY <1>0, <2>3
    <3>2. u.view = Tile!First((A \o <<y>>) \o B)
      BY <2>3 DEF Knows
    <3>3. Tile!First(n) = Tile!First((A \o <<x>>) \o B)
      BY <3>1, <3>2, ChangeInFirst
    <3> HIDE DEF n
    <3> QED
      BY <2>3, <3>3 DEF Knows
  <2> QED
    BY <2>1, <2>2, <2>3
<1> HIDE DEF v
<1> QED
  BY <1>1, <1>2

LEMMA RemoveKnows ==
  ASSUME TilesAssumption, NEW A \in Seq(Things), NEW B \in Seq(Things), NEW x \in Things,
         NEW u, IsTile(u), Knows(u.view, (A \o <<x>>) \o B), NEW i, i = Len(A) + 1
  PROVE  \E v : /\ Tile!ClientRemove(u, i) = Seeing(u, v)
                /\ i > Limit \/ Len(A) + 1 + Len(B) <= Limit => Knows(v, A \o B)
<1> DEFINE n == IF i > Len(u.view) THEN u.view ELSE Tile!RemoveAt(u.view, i)
           v == IF u.view = Tile!Lost \/ i > Limit THEN u.view ELSE Tile!First(n)
<1>0. Limit \in Nat /\ Len(A) \in Nat /\ Len(B) \in Nat
  BY DEF TilesAssumption
<1>1. Tile!ClientRemove(u, i) = Seeing(u, v)
  BY ToldFacts DEF Tile!ClientRemove
<1>2. ASSUME i > Limit \/ Len(A) + 1 + Len(B) <= Limit
      PROVE  Knows(v, A \o B)
  <2>1. CASE u.view = Tile!Lost
    BY <2>1 DEF Knows
  <2>2. CASE u.view # Tile!Lost /\ i > Limit
    <3>1. Len(A) >= Limit
      BY <1>0, <2>2
    <3>2. Tile!First((A \o <<x>>) \o B) = Tile!First(A \o B)
      <4>1. (A \o <<x>>) \o B = A \o (<<x>> \o B) /\ <<x>> \o B \in Seq(Things)
        BY CutJoins
      <4>2. Tile!First(A \o (<<x>> \o B)) = Tile!First(A \o B)
        BY <3>1, <4>1, BeyondFirst
      <4> QED
        BY <4>1, <4>2
    <3> QED
      BY <2>2, <3>2 DEF Knows
  <2>3. CASE u.view # Tile!Lost /\ ~(i > Limit)
    <3> DEFINE s == (A \o <<x>>) \o B
    <3>1. Len(A) + 1 + Len(B) <= Limit
      BY <1>2, <2>3
    <3>2. s \in Seq(Things) /\ Len(s) = Len(A) + 1 + Len(B)
      BY CutFacts
    <3>3. Tile!RemoveAt(s, i) = A \o B
      BY RemoveMiddle
    <3> HIDE DEF s
    <3>4. u.view = s
      <4>1. u.view = Tile!First(s)
        BY <2>3 DEF Knows, s
      <4>2. Tile!First(s) = s
        BY <3>1, <3>2, FirstFacts
      <4> QED
        BY <4>1, <4>2
    <3>5. ~(i > Len(u.view))
      BY <1>0, <3>2, <3>4
    <3>6. n = A \o B
      BY <3>3, <3>4, <3>5
    <3> HIDE DEF n
    <3> QED
      BY <2>3, <3>6 DEF Knows
  <2> QED
    BY <2>1, <2>2, <2>3
<1> HIDE DEF v
<1> QED
  BY <1>1, <1>2

-----------------------------------------------------------------------------
(* The creatures that are seen.                                              *)

\* The last but k - 1 of a tile's creatures, and what is seen with it.
Nth(u, k) == u.creatures[Len(u.creatures) - k + 1]
SeenStep(u, f, k) ==
  IF k = 0 THEN << >>
  ELSE IF Nth(u, k) \in u.hidden THEN f[k - 1] ELSE Append(f[k - 1], Nth(u, k))

LEMMA SeenExist ==
  ASSUME NEW u
  PROVE  \A n \in Nat : \E f : f = [k \in 0 .. n |-> SeenStep(u, f, k)]
<1> DEFINE M == {n \in Nat : \E f : f = [k \in 0 .. n |-> SeenStep(u, f, k)]}
<1>1. 0 \in M
  <2> DEFINE f == [k \in 0 .. 0 |-> << >>]
  <2>1. \A k \in 0 .. 0 : SeenStep(u, f, k) = << >>
    <3>1. \A k \in 0 .. 0 : k = 0
      OBVIOUS
    <3> HIDE DEF f
    <3> QED
      BY <3>1, Zenon DEF SeenStep
  <2>2. f = [k \in 0 .. 0 |-> SeenStep(u, f, k)]
    BY <2>1
  <2> QED
    BY <2>2
<1>2. \A n \in M : n + 1 \in M
  <2> TAKE n \in M
  <2>1. PICK f : f = [k \in 0 .. n |-> SeenStep(u, f, k)]
    OBVIOUS
  <2> DEFINE g == [k \in 0 .. n + 1 |-> SeenStep(u, f, k)]
  <2>2. \A k \in 0 .. n : g[k] = f[k]
    <3> HIDE DEF g
    <3>1. \A k \in 0 .. n : g[k] = SeenStep(u, f, k)
      BY DEF g
    <3>2. \A k \in 0 .. n : f[k] = SeenStep(u, f, k)
      BY <2>1
    <3> QED
      BY <3>1, <3>2
  <2>3. \A k \in 0 .. n + 1 : SeenStep(u, f, k) = SeenStep(u, g, k)
    <3> HIDE DEF g
    <3> TAKE k \in 0 .. n + 1
    <3>1. CASE k = 0
      BY <3>1, Zenon DEF SeenStep
    <3>2. CASE k # 0
      <4>1. k - 1 \in 0 .. n
        BY <3>2
      <4>2. g[k - 1] = f[k - 1]
        BY <2>2, <4>1
      <4> QED
        BY <4>2, <3>2, Zenon DEF SeenStep
    <3> QED
      BY <3>1, <3>2
  <2>4. g = [k \in 0 .. n + 1 |-> SeenStep(u, g, k)]
    <3> HIDE DEF g
    <3>1. g = [k \in 0 .. n + 1 |-> SeenStep(u, f, k)]
      BY DEF g
    <3> QED
      BY <3>1, <2>3, Zenon
  <2> HIDE DEF g
  <2>5. n + 1 \in Nat
    OBVIOUS
  <2> QED
    BY <2>4, <2>5
<1> HIDE DEF M
<1>3. M = Nat
  <2>1. M \in SUBSET Nat
    BY DEF M
  <2> QED
    BY <1>1, <1>2, <2>1, NatInductionOnSets
<1> QED
  BY <1>3 DEF M

LEMMA SeenFunction ==
  ASSUME NEW u, NEW n \in Nat
  PROVE  \E f : /\ Tile!SeenOf(u, n) = f[n]
                /\ \A k \in 0 .. n : f[k] = SeenStep(u, f, k)
<1> DEFINE h == CHOOSE f : f = [k \in 0 .. n |-> SeenStep(u, f, k)]
<1>1. h = [k \in 0 .. n |-> SeenStep(u, h, k)]
  BY SeenExist, Zenon
<1>2. Tile!SeenOf(u, n) = h[n]
  BY DEF Tile!SeenOf, SeenStep, Nth
<1> HIDE DEF h
<1>3. \A k \in 0 .. n : h[k] = SeenStep(u, h, k)
  BY <1>1
<1> QED
  BY <1>2, <1>3

LEMMA SeenSteps ==
  ASSUME NEW u
  PROVE  /\ Tile!SeenOf(u, 0) = << >>
         /\ \A n \in Nat :
              Tile!SeenOf(u, n + 1) =
                IF Nth(u, n + 1) \in u.hidden THEN Tile!SeenOf(u, n)
                ELSE Append(Tile!SeenOf(u, n), Nth(u, n + 1))
<1>1. Tile!SeenOf(u, 0) = << >>
  <2>1. PICK f : Tile!SeenOf(u, 0) = f[0] /\ \A k \in 0 .. 0 : f[k] = SeenStep(u, f, k)
    BY SeenFunction
  <2>2. 0 \in 0 .. 0
    OBVIOUS
  <2> QED
    BY <2>1, <2>2, Zenon DEF SeenStep
<1>2. ASSUME NEW n \in Nat
      PROVE  Tile!SeenOf(u, n + 1) =
               IF Nth(u, n + 1) \in u.hidden THEN Tile!SeenOf(u, n)
               ELSE Append(Tile!SeenOf(u, n), Nth(u, n + 1))
  <2>0. n + 1 \in Nat /\ n + 1 \in 0 .. n + 1 /\ n + 1 # 0 /\ (n + 1) - 1 = n /\ n \in 0 .. n
    OBVIOUS
  <2>1. PICK f : Tile!SeenOf(u, n) = f[n] /\ \A k \in 0 .. n : f[k] = SeenStep(u, f, k)
    BY SeenFunction
  <2>2. PICK g : Tile!SeenOf(u, n + 1) = g[n + 1] /\ \A k \in 0 .. n + 1 : g[k] = SeenStep(u, g, k)
    BY <2>0, SeenFunction
  <2> DEFINE M == {k \in Nat : k <= n => f[k] = g[k]}
  <2>3. 0 \in M
    <3>1. 0 \in 0 .. n /\ 0 \in 0 .. n + 1
      OBVIOUS
    <3>2. f[0] = SeenStep(u, f, 0) /\ g[0] = SeenStep(u, g, 0)
      BY <2>1, <2>2, <3>1
    <3>3. f[0] = g[0]
      BY <3>2, Zenon DEF SeenStep
    <3> QED
      BY <3>3
  <2>4. \A k \in M : k + 1 \in M
    <3> TAKE k \in M
    <3> SUFFICES ASSUME k + 1 <= n PROVE f[k + 1] = g[k + 1]
      OBVIOUS
    <3>1. k + 1 \in 0 .. n /\ k + 1 \in 0 .. n + 1 /\ (k + 1) - 1 = k /\ k + 1 # 0
      OBVIOUS
    <3>2. f[k + 1] = SeenStep(u, f, k + 1) /\ g[k + 1] = SeenStep(u, g, k + 1)
      BY <2>1, <2>2, <3>1
    <3>3. f[(k + 1) - 1] = g[(k + 1) - 1]
      BY <3>1
    <3> HIDE DEF M
    <3> QED
      BY <3>1, <3>2, <3>3, Zenon DEF SeenStep
  <2>5. M = Nat
    <3> HIDE DEF M
    <3>1. M \in SUBSET Nat
      BY DEF M
    <3> QED
      BY <2>3, <2>4, <3>1, NatInductionOnSets
  <2>6. f[n] = g[n]
    BY <2>5
  <2>7. g[(n + 1) - 1] = g[n]
    BY <2>0
  <2>8. g[n + 1] = SeenStep(u, g, n + 1)
    BY <2>0, <2>2
  <2> HIDE DEF M
  <2> QED
    BY <2>0, <2>1, <2>2, <2>6, <2>7, <2>8, Zenon DEF SeenStep
<1> QED
  BY <1>1, <1>2

\* A tile's creatures, each standing there once.
Standing(u) ==
  /\ u.creatures \in Seq(Members) /\ u.hidden \subseteq Members
  /\ \A i, j \in 1 .. Len(u.creatures) : u.creatures[i] = u.creatures[j] => i = j

LEMMA NthFacts ==
  ASSUME NEW u, Standing(u), NEW n \in Nat, n + 1 <= Len(u.creatures)
  PROVE  Nth(u, n + 1) \in Members /\ Nth(u, n + 1) = u.creatures[Len(u.creatures) - n]
<1>1. Len(u.creatures) - (n + 1) + 1 = Len(u.creatures) - n
      /\ Len(u.creatures) - n \in 1 .. Len(u.creatures)
  BY DEF Standing
<1> QED
  BY <1>1 DEF Nth, Standing

LEMMA SeenType ==
  ASSUME NEW u, Standing(u), NEW n \in Nat, n <= Len(u.creatures)
  PROVE  Tile!SeenOf(u, n) \in Seq(Members) /\ Len(Tile!SeenOf(u, n)) <= n
<1> DEFINE M == {k \in Nat : k <= Len(u.creatures) =>
                   Tile!SeenOf(u, k) \in Seq(Members) /\ Len(Tile!SeenOf(u, k)) <= k}
<1>1. 0 \in M
  <2>1. Tile!SeenOf(u, 0) = << >>
    BY SeenSteps
  <2>2. << >> \in Seq(Members) /\ Len(<< >>) <= 0
    OBVIOUS
  <2>3. Tile!SeenOf(u, 0) \in Seq(Members) /\ Len(Tile!SeenOf(u, 0)) <= 0
    BY <2>1, <2>2
  <2> QED
    BY <2>3
<1>2. \A k \in M : k + 1 \in M
  <2> TAKE k \in M
  <2> SUFFICES ASSUME k + 1 <= Len(u.creatures)
               PROVE  Tile!SeenOf(u, k + 1) \in Seq(Members) /\ Len(Tile!SeenOf(u, k + 1)) <= k + 1
    OBVIOUS
  <2>0. k \in Nat /\ Len(u.creatures) \in Nat
    BY DEF Standing
  <2>1. Tile!SeenOf(u, k) \in Seq(Members) /\ Len(Tile!SeenOf(u, k)) <= k
    BY <2>0
  <2>2. Nth(u, k + 1) \in Members
    BY <2>0, NthFacts
  <2> HIDE DEF M
  <2>3. Tile!SeenOf(u, k + 1) =
          IF Nth(u, k + 1) \in u.hidden THEN Tile!SeenOf(u, k)
          ELSE Append(Tile!SeenOf(u, k), Nth(u, k + 1))
    BY <2>0, SeenSteps
  <2> DEFINE s == Tile!SeenOf(u, k)
             t == Tile!SeenOf(u, k + 1)
             c == Nth(u, k + 1)
  <2> HIDE DEF s, t, c
  <2>4. s \in Seq(Members) /\ Len(s) <= k /\ c \in Members /\ (t = s \/ t = Append(s, c))
    BY <2>1, <2>2, <2>3 DEF s, t, c
  <2>5. t \in Seq(Members) /\ Len(t) <= k + 1
    BY <2>0, <2>4
  <2> QED
    BY <2>5 DEF t
<1>3. M = Nat
  <2> HIDE DEF M
  <2>1. M \in SUBSET Nat
    BY DEF M
  <2> QED
    BY <1>1, <1>2, <2>1, NatInductionOnSets
<1> QED
  BY <1>3

Joins(A, B, C) == (A \o B) \o C = A \o (B \o C)

LEMMA JoinOne ==
  ASSUME NEW S, NEW A \in Seq(S), NEW B \in Seq(S), NEW C \in Seq(S)
  PROVE  Joins(A, B, C)
BY ConcatAssociative DEF Joins

\* Two tiles where the same creatures come after others: what is seen of them is the same.
Alike(u, m, v, n, k) ==
  \A j \in 1 .. k : Nth(u, m + j) = Nth(v, n + j)
                    /\ (Nth(u, m + j) \in u.hidden <=> Nth(v, n + j) \in v.hidden)

Followed(u, m, v, n, k) ==
  \E R \in Seq(Members) : /\ Tile!SeenOf(u, m + k) = Tile!SeenOf(u, m) \o R
                          /\ Tile!SeenOf(v, n + k) = Tile!SeenOf(v, n) \o R

LEMMA SeenAlike ==
  ASSUME NEW u, Standing(u), NEW v, Standing(v), NEW m \in Nat, NEW n \in Nat, NEW k \in Nat,
         m + k <= Len(u.creatures), n + k <= Len(v.creatures), Alike(u, m, v, n, k)
  PROVE  Followed(u, m, v, n, k)
<1> DEFINE P == Tile!SeenOf(u, m)
           Q == Tile!SeenOf(v, n)
           Both(j) == \E R \in Seq(Members) :
                        Tile!SeenOf(u, m + j) = P \o R /\ Tile!SeenOf(v, n + j) = Q \o R
           M == {j \in Nat : j <= k => Both(j)}
<1>6. M = {j \in Nat : j <= k => Both(j)}
  OBVIOUS
<1> HIDE DEF M, Both
<1>0. Len(u.creatures) \in Nat /\ Len(v.creatures) \in Nat
  BY DEF Standing
<1>1. P \in Seq(Members) /\ Q \in Seq(Members)
  <2>1. m <= Len(u.creatures) /\ n <= Len(v.creatures)
    BY <1>0
  <2> QED
    BY <2>1, SeenType
<1>2. 0 \in M
  <2>1. P \o << >> = P /\ Q \o << >> = Q /\ << >> \in Seq(Members)
    BY <1>1, ConcatEmptySeq
  <2>2. m + 0 = m /\ n + 0 = n
    OBVIOUS
  <2>3. Tile!SeenOf(u, m + 0) = P /\ Tile!SeenOf(v, n + 0) = Q
    BY <2>2
  <2> HIDE DEF P, Q
  <2>4. Both(0)
    BY <2>1, <2>3 DEF Both
  <2> QED
    BY <1>6, <2>4
<1>3. \A j \in M : j + 1 \in M
  <2> TAKE j \in M
  <2> SUFFICES ASSUME j + 1 <= k PROVE Both(j + 1)
    BY <1>6
  <2>9. j \in Nat /\ (j <= k => Both(j))
    BY <1>6
  <2>0. j \in Nat /\ j <= k /\ m + j \in Nat /\ n + j \in Nat /\ (m + j) + 1 <= Len(u.creatures)
        /\ j + 1 \in 1 .. k /\ m + (j + 1) = (m + j) + 1 /\ n + (j + 1) = (n + j) + 1
    BY <1>0, <2>9
  <2>1. Both(j)
    BY <2>0, <2>9
  <2> DEFINE c == Nth(u, (m + j) + 1)
             d == Nth(v, (n + j) + 1)
             s == Tile!SeenOf(u, m + j)
             t == Tile!SeenOf(v, n + j)
             x == Tile!SeenOf(u, (m + j) + 1)
             y == Tile!SeenOf(v, (n + j) + 1)
  <2>2. c = d /\ (c \in u.hidden <=> d \in v.hidden)
    <3>1. Nth(u, m + (j + 1)) = Nth(v, n + (j + 1))
          /\ (Nth(u, m + (j + 1)) \in u.hidden <=> Nth(v, n + (j + 1)) \in v.hidden)
      BY <2>0 DEF Alike
    <3> QED
      BY <2>0, <3>1
  <2>3. c \in Members
    BY <2>0, NthFacts
  <2>4. x = (IF c \in u.hidden THEN s ELSE Append(s, c)) /\ y = (IF d \in v.hidden THEN t ELSE Append(t, d))
    BY <2>0, SeenSteps
  <2>5. PICK R \in Seq(Members) : s = P \o R /\ t = Q \o R
    BY <2>1 DEF Both
  <2>6. Tile!SeenOf(u, m + (j + 1)) = x /\ Tile!SeenOf(v, n + (j + 1)) = y
    BY <2>0
  <2> HIDE DEF c, d, s, t, x, y, P, Q
  <2>7. CASE c \in u.hidden
    BY <2>2, <2>4, <2>5, <2>6, <2>7 DEF Both
  <2>8. CASE c \notin u.hidden
    <3> DEFINE T == R \o <<c>>
    <3>1. T \in Seq(Members) /\ <<c>> \in Seq(Members)
      BY <2>3
    <3>2. /\ Append(s, c) = s \o <<c>> /\ (P \o R) \o <<c>> = P \o T
      <4>1. s \in Seq(Members)
        BY <1>1, <2>5
      <4>2. Append(s, c) = s \o <<c>>
        BY <2>3, <4>1, AppendIsConcat
      <4>3. (P \o R) \o <<c>> = P \o (R \o <<c>>)
        <5>1. P \in Seq(Members) /\ R \in Seq(Members) /\ <<c>> \in Seq(Members)
          BY <1>1, <3>1
        <5>2. Joins(P, R, <<c>>)
          BY <5>1, JoinOne
        <5> HIDE DEF T
        <5> QED
          BY <5>2, Zenon DEF Joins
      <4> QED
        BY <4>2, <4>3
    <3>3. /\ Append(t, c) = t \o <<c>> /\ (Q \o R) \o <<c>> = Q \o T
      <4>1. t \in Seq(Members)
        BY <1>1, <2>5
      <4>2. Append(t, c) = t \o <<c>>
        BY <2>3, <4>1, AppendIsConcat
      <4>3. (Q \o R) \o <<c>> = Q \o (R \o <<c>>)
        <5>1. Q \in Seq(Members) /\ R \in Seq(Members) /\ <<c>> \in Seq(Members)
          BY <1>1, <3>1
        <5>2. Joins(Q, R, <<c>>)
          BY <5>1, JoinOne
        <5> HIDE DEF T
        <5> QED
          BY <5>2, Zenon DEF Joins
      <4> QED
        BY <4>2, <4>3
    <3> HIDE DEF T
    <3>4. x = P \o T /\ y = Q \o T
      BY <2>2, <2>4, <2>5, <2>8, <3>2, <3>3
    <3> QED
      BY <2>6, <3>1, <3>4 DEF Both
  <2> QED
    BY <2>7, <2>8
<1>4. M = Nat
  <2>1. M \in SUBSET Nat
    BY <1>6
  <2> QED
    BY <1>2, <1>3, <2>1, NatInductionOnSets
<1>5. Both(k)
  <2>1. k \in M
    BY <1>4
  <2>2. k <= k
    OBVIOUS
  <2> QED
    BY <1>6, <2>1, <2>2
<1> QED
  BY <1>5, Zenon DEF Both, P, Q, Followed

-----------------------------------------------------------------------------
(* The whole stack, cut in one of its parts.                                 *)
Whole(G, T, C, W) == G \o T \o C \o W

GroundCut(S, T, C, W) ==
  /\ Whole(<< >>, T, C, W) = << >> \o ((T \o C) \o W) /\ (T \o C) \o W \in Seq(S)
  /\ \A X \in Seq(S) : Whole(X, T, C, W) = (<< >> \o X) \o ((T \o C) \o W)

LEMMA WholeInGround ==
  ASSUME NEW S, NEW T \in Seq(S), NEW C \in Seq(S), NEW W \in Seq(S)
  PROVE  GroundCut(S, T, C, W)
<1> DEFINE R == (T \o C) \o W
<1>1. T \o C \in Seq(S) /\ R \in Seq(S) /\ << >> \in Seq(S)
  BY JoinFacts
<1>2. ASSUME NEW X \in Seq(S)
      PROVE  Whole(X, T, C, W) = (<< >> \o X) \o R
  <2>1. << >> \o X = X
    BY ConcatEmptySeq
  <2>2. Joins(X, T, C)
    BY JoinOne
  <2>3. Joins(X, T \o C, W)
    BY <1>1, JoinOne
  <2> QED
    BY <2>1, <2>2, <2>3, Zenon DEF Joins, Whole
<1>3. Whole(<< >>, T, C, W) = << >> \o R
  <2>1. << >> \o << >> = << >>
    BY <1>1, ConcatEmptySeq
  <2>2. Whole(<< >>, T, C, W) = (<< >> \o << >>) \o R
    BY <1>1, <1>2
  <2> QED
    BY <2>1, <2>2
<1> QED
  BY <1>1, <1>2, <1>3 DEF GroundCut

TopCut(S, G, P, Q, C, W) ==
  /\ G \o P \in Seq(S) /\ (Q \o C) \o W \in Seq(S)
  /\ Whole(G, P \o Q, C, W) = (G \o P) \o ((Q \o C) \o W)
  /\ \A X \in Seq(S) :
       Whole(G, (P \o X) \o Q, C, W) = ((G \o P) \o X) \o ((Q \o C) \o W)

LEMMA WholeInTop ==
  ASSUME NEW S, NEW G \in Seq(S), NEW P \in Seq(S), NEW Q \in Seq(S), NEW C \in Seq(S),
         NEW W \in Seq(S)
  PROVE  TopCut(S, G, P, Q, C, W)
<1>1. /\ G \o P \in Seq(S) /\ Q \o C \in Seq(S) /\ (Q \o C) \o W \in Seq(S)
  BY JoinFacts
<1>2. ASSUME NEW Y \in Seq(S)
      PROVE  Whole(G, Y \o Q, C, W) = (G \o Y) \o ((Q \o C) \o W)
  <2>0. G \o Y \in Seq(S)
    BY JoinFacts
  <2>1. Joins(G, Y, Q)
    BY JoinOne
  <2>2. Joins(G \o Y, Q, C)
    BY <2>0, JoinOne
  <2>3. Joins(G \o Y, Q \o C, W)
    BY <1>1, <2>0, JoinOne
  <2> QED
    BY <2>1, <2>2, <2>3, Zenon DEF Joins, Whole
<1>3. ASSUME NEW X \in Seq(S)
      PROVE  Whole(G, (P \o X) \o Q, C, W) = ((G \o P) \o X) \o ((Q \o C) \o W)
  <2>1. P \o X \in Seq(S)
    BY JoinFacts
  <2>2. Whole(G, (P \o X) \o Q, C, W) = (G \o (P \o X)) \o ((Q \o C) \o W)
    BY <1>2, <2>1
  <2>3. Joins(G, P, X)
    BY JoinOne
  <2> QED
    BY <2>2, <2>3, Zenon DEF Joins
<1> QED
  BY <1>1, <1>2, <1>3 DEF TopCut

CreaturesCut(S, G, T, P, Q, W) ==
  /\ (G \o T) \o P \in Seq(S) /\ Q \o W \in Seq(S)
  /\ Whole(G, T, P \o Q, W) = ((G \o T) \o P) \o (Q \o W)
  /\ \A X \in Seq(S) :
       Whole(G, T, (P \o X) \o Q, W) = (((G \o T) \o P) \o X) \o (Q \o W)

LEMMA WholeInCreatures ==
  ASSUME NEW S, NEW G \in Seq(S), NEW T \in Seq(S), NEW P \in Seq(S), NEW Q \in Seq(S),
         NEW W \in Seq(S)
  PROVE  CreaturesCut(S, G, T, P, Q, W)
<1>1. /\ G \o T \in Seq(S) /\ (G \o T) \o P \in Seq(S) /\ Q \o W \in Seq(S)
  BY JoinFacts
<1>2. ASSUME NEW Y \in Seq(S)
      PROVE  Whole(G, T, Y \o Q, W) = ((G \o T) \o Y) \o (Q \o W)
  <2>0. (G \o T) \o Y \in Seq(S)
    BY <1>1, JoinFacts
  <2>1. Joins(G \o T, Y, Q)
    BY <1>1, JoinOne
  <2>2. Joins((G \o T) \o Y, Q, W)
    BY <2>0, JoinOne
  <2> QED
    BY <2>1, <2>2, Zenon DEF Joins, Whole
<1>3. ASSUME NEW X \in Seq(S)
      PROVE  Whole(G, T, (P \o X) \o Q, W) = (((G \o T) \o P) \o X) \o (Q \o W)
  <2>1. P \o X \in Seq(S)
    BY JoinFacts
  <2>2. Whole(G, T, (P \o X) \o Q, W) = ((G \o T) \o (P \o X)) \o (Q \o W)
    BY <1>2, <2>1
  <2>3. Joins(G \o T, P, X)
    BY <1>1, JoinOne
  <2> QED
    BY <2>2, <2>3, Zenon DEF Joins
<1> QED
  BY <1>1, <1>2, <1>3 DEF CreaturesCut

DownCut(S, G, T, C, P, Q) ==
  /\ ((G \o T) \o C) \o P \in Seq(S)
  /\ Whole(G, T, C, P \o Q) = (((G \o T) \o C) \o P) \o Q
  /\ \A X \in Seq(S) :
       Whole(G, T, C, (P \o X) \o Q) = ((((G \o T) \o C) \o P) \o X) \o Q

LEMMA WholeInDown ==
  ASSUME NEW S, NEW G \in Seq(S), NEW T \in Seq(S), NEW C \in Seq(S), NEW P \in Seq(S),
         NEW Q \in Seq(S)
  PROVE  DownCut(S, G, T, C, P, Q)
<1>1. /\ G \o T \in Seq(S) /\ (G \o T) \o C \in Seq(S) /\ ((G \o T) \o C) \o P \in Seq(S)
  BY JoinFacts
<1>2. ASSUME NEW Y \in Seq(S)
      PROVE  Whole(G, T, C, Y \o Q) = (((G \o T) \o C) \o Y) \o Q
  <2>1. Joins((G \o T) \o C, Y, Q)
    BY <1>1, JoinOne
  <2> QED
    BY <2>1, Zenon DEF Joins, Whole
<1>3. ASSUME NEW X \in Seq(S)
      PROVE  Whole(G, T, C, (P \o X) \o Q) = ((((G \o T) \o C) \o P) \o X) \o Q
  <2>1. P \o X \in Seq(S)
    BY JoinFacts
  <2>2. Whole(G, T, C, (P \o X) \o Q) = (((G \o T) \o C) \o (P \o X)) \o Q
    BY <1>2, <2>1
  <2>3. Joins((G \o T) \o C, P, X)
    BY <1>1, JoinOne
  <2> QED
    BY <2>2, <2>3, Zenon DEF Joins
<1> QED
  BY <1>1, <1>2, <1>3 DEF DownCut

-----------------------------------------------------------------------------
(* The invariant: what lies where, and what the client knows.                *)
Laid(u) ==
  /\ IsTile(u) /\ Standing(u)
  /\ u.ground \in {<< >>} \cup {<<t>> : t \in Ground}
  /\ u.top \in Seq(Top) /\ u.down \in Seq(Down)

TileSound(u) == Laid(u) /\ Knows(u.view, Tile!Description(u))

LEMMA SameSeen ==
  ASSUME NEW u, Standing(u), NEW v, Standing(v), u.creatures = v.creatures, u.hidden = v.hidden
  PROVE  Tile!Seen(u) = Tile!Seen(v)
<1> DEFINE n == Len(u.creatures)
<1>1. n \in Nat /\ 0 \in Nat /\ 0 + n = n
  BY DEF Standing
<1>2. Alike(u, 0, v, 0, n)
  BY Zenon DEF Alike, Nth
<1> HIDE DEF n
<1>3. 0 + n <= Len(u.creatures) /\ 0 + n <= Len(v.creatures)
  BY <1>1 DEF n
<1>7. Followed(u, 0, v, 0, n)
  BY <1>1, <1>2, <1>3, SeenAlike
<1>4. PICK R \in Seq(Members) : /\ Tile!SeenOf(u, 0 + n) = Tile!SeenOf(u, 0) \o R
                                /\ Tile!SeenOf(v, 0 + n) = Tile!SeenOf(v, 0) \o R
  BY <1>7 DEF Followed
<1>5. Tile!SeenOf(u, 0) = << >> /\ Tile!SeenOf(v, 0) = << >>
  BY SeenSteps
<1>6. Tile!SeenOf(u, n) = Tile!SeenOf(v, n)
  BY <1>1, <1>4, <1>5
<1> QED
  BY <1>6 DEF Tile!Seen, n

LEMMA MoreIsMore ==
  \A a, b, c, d, e \in Nat : c <= e => a + b + c + d <= a + b + e + d /\ a + b + e + d \in Nat
OBVIOUS

\* The parts of a tile.
LEMMA PartsOf ==
  ASSUME NEW u, Laid(u)
  PROVE  /\ u.ground \in Seq(Things) /\ u.top \in Seq(Things) /\ Tile!Seen(u) \in Seq(Things)
         /\ u.down \in Seq(Things) /\ Tile!Description(u) \in Seq(Things)
         /\ Tile!Description(u) = Whole(u.ground, u.top, Tile!Seen(u), u.down)
         /\ Len(Tile!Description(u)) = Len(u.ground) + Len(u.top) + Len(Tile!Seen(u)) + Len(u.down)
         /\ Len(u.ground) \in Nat /\ Len(u.top) \in Nat /\ Len(Tile!Seen(u)) \in Nat
         /\ Len(u.down) \in Nat /\ Len(u.creatures) \in Nat
         /\ Len(Tile!Description(u)) <= Tile!Count(u) /\ Tile!Count(u) \in Nat
<1>1. u.ground \in Seq(Things)
  <2>1. << >> \in Seq(Things) /\ \A t \in Things : <<t>> \in Seq(Things)
    OBVIOUS
  <2>2. Ground \subseteq Things
    BY DEF Things
  <2> QED
    BY <2>1, <2>2, Zenon DEF Laid
<1>2. u.top \in Seq(Things) /\ u.down \in Seq(Things)
  BY DEF Laid, Things
<1>3. Tile!Seen(u) \in Seq(Members) /\ Len(Tile!Seen(u)) <= Len(u.creatures) /\ Len(u.creatures) \in Nat
  <2>1. Standing(u)
    BY DEF Laid
  <2>2. Len(u.creatures) \in Nat /\ Len(u.creatures) <= Len(u.creatures)
    BY <2>1 DEF Standing
  <2> QED
    BY <2>1, <2>2, SeenType DEF Tile!Seen
<1>4. Tile!Seen(u) \in Seq(Things)
  BY <1>3 DEF Things
<1>5. Tile!Description(u) = Whole(u.ground, u.top, Tile!Seen(u), u.down)
  BY DEF Tile!Description, Whole
<1> DEFINE g == u.ground
           t == u.top
           c == Tile!Seen(u)
           d == u.down
<1>6. Whole(g, t, c, d) \in Seq(Things) /\ Len(Whole(g, t, c, d)) = Len(g) + Len(t) + Len(c) + Len(d)
      /\ Len(g) \in Nat /\ Len(t) \in Nat /\ Len(c) \in Nat /\ Len(d) \in Nat
  <2>1. g \in Seq(Things) /\ t \in Seq(Things) /\ c \in Seq(Things) /\ d \in Seq(Things)
    BY <1>1, <1>2, <1>4
  <2> HIDE DEF g, t, c, d
  <2>2. g \o t \in Seq(Things) /\ Len(g \o t) = Len(g) + Len(t)
        /\ Len(g) \in Nat /\ Len(t) \in Nat /\ Len(c) \in Nat /\ Len(d) \in Nat
    BY <2>1
  <2> DEFINE x == g \o t
  <2> HIDE DEF x
  <2>3. x \o c \in Seq(Things) /\ Len(x \o c) = Len(x) + Len(c)
    BY <2>1, <2>2 DEF x
  <2> DEFINE y == x \o c
  <2> HIDE DEF y
  <2>4. y \o d \in Seq(Things) /\ Len(y \o d) = Len(y) + Len(d)
    BY <2>1, <2>3 DEF y
  <2>5. Whole(g, t, c, d) = y \o d
    BY DEF Whole, x, y
  <2> QED
    BY <2>2, <2>3, <2>4, <2>5 DEF x, y
<1>7. Tile!Count(u) = Len(g) + Len(t) + Len(u.creatures) + Len(d)
  BY DEF Tile!Count
<1> HIDE DEF g, t, c, d
<1>8. Len(c) <= Len(u.creatures) /\ Len(u.creatures) \in Nat
  BY <1>3 DEF c
<1>9. Len(Whole(g, t, c, d)) <= Tile!Count(u) /\ Tile!Count(u) \in Nat
  <2> DEFINE z == Whole(g, t, c, d)
  <2> HIDE DEF z
  <2>1. Len(z) = Len(g) + Len(t) + Len(c) + Len(d)
    BY <1>6 DEF z
  <2>2. Len(z) <= Tile!Count(u) /\ Tile!Count(u) \in Nat
    <3>1. /\ Len(g) \in Nat /\ Len(t) \in Nat /\ Len(c) \in Nat /\ Len(d) \in Nat
          /\ Tile!Count(u) = Len(g) + Len(t) + Len(u.creatures) + Len(d)
      BY <1>6, <1>7
    <3>2. /\ Len(g) + Len(t) + Len(c) + Len(d) <= Len(g) + Len(t) + Len(u.creatures) + Len(d)
          /\ Len(g) + Len(t) + Len(u.creatures) + Len(d) \in Nat
      BY <1>8, <3>1, MoreIsMore
    <3> QED
      BY <2>1, <3>1, <3>2
  <2> QED
    BY <2>2 DEF z
<1> QED
  BY <1>1, <1>2, <1>3, <1>4, <1>5, <1>6, <1>9 DEF g, t, c, d

\* A tile of which the client knows something else.
LEMMA SeeingSame ==
  ASSUME NEW u, Laid(u), NEW v
  PROVE  /\ Laid(Seeing(u, v)) /\ Tile!Seen(Seeing(u, v)) = Tile!Seen(u)
         /\ Tile!Description(Seeing(u, v)) = Tile!Description(u)
         /\ Tile!Count(Seeing(u, v)) = Tile!Count(u)
         /\ Seeing(u, v).view = v /\ Seeing(u, v).ground = u.ground /\ Seeing(u, v).top = u.top
         /\ Seeing(u, v).creatures = u.creatures /\ Seeing(u, v).down = u.down
         /\ Seeing(u, v).hidden = u.hidden
<1> DEFINE n == Seeing(u, v)
<1>1. /\ n.view = v /\ n.ground = u.ground /\ n.top = u.top
      /\ n.creatures = u.creatures /\ n.down = u.down /\ n.hidden = u.hidden
  BY DEF Seeing
<1>2. IsTile(n)
  BY SeeingFacts
<1> HIDE DEF n
<1>3. Standing(n) /\ Standing(u)
  BY <1>1 DEF Laid, Standing
<1>4. Laid(n)
  BY <1>1, <1>2, <1>3 DEF Laid
<1>5. Tile!Seen(n) = Tile!Seen(u)
  BY <1>1, <1>3, SameSeen
<1>6. Tile!Description(n) = Tile!Description(u)
  BY <1>1, <1>5 DEF Tile!Description
<1>7. Tile!Count(n) = Tile!Count(u)
  BY <1>1 DEF Tile!Count
<1> QED
  BY <1>1, <1>4, <1>5, <1>6, <1>7 DEF n

LEMMA SentAgain ==
  ASSUME NEW u, Laid(u)
  PROVE  /\ Tile!UpdateTile(u) = Seeing(u, Tile!First(Tile!Description(u)))
         /\ TileSound(Tile!UpdateTile(u))
<1>1. Tile!UpdateTile(u) = Seeing(u, Tile!First(Tile!Description(u)))
  <2>1. IsTile(u)
    BY DEF Laid
  <2> QED
    BY <2>1, SeeingFacts DEF Tile!UpdateTile, Tile!Shown
<1>2. TileSound(Seeing(u, Tile!First(Tile!Description(u))))
  BY SeeingSame DEF TileSound, Knows
<1> QED
  BY <1>1, <1>2

LEMMA PostRemoveKeeps ==
  ASSUME TilesAssumption, NEW u, Laid(u),
         Knows(u.view, Tile!Description(u)) \/ Tile!Count(u) > Limit - 2
  PROVE  TileSound(Tile!PostRemove(u)) /\ \E v : Tile!PostRemove(u) = Seeing(u, v)
<1>1. CASE Tile!Count(u) > Limit - 2
  BY <1>1, SentAgain DEF Tile!PostRemove
<1>2. CASE ~(Tile!Count(u) > Limit - 2)
  <2>1. Tile!PostRemove(u) = u
    BY <1>2 DEF Tile!PostRemove
  <2>2. u = Seeing(u, u.view)
    BY DEF Laid, IsTile
  <2> QED
    BY <1>2, <2>1, <2>2 DEF TileSound
<1> QED
  BY <1>1, <1>2

\* A thing is taken away, and the tile sent again where something may have come near.
TakenWell(u, i) ==
  /\ TileSound(Tile!PostRemove(Tile!ClientRemove(u, i)))
  /\ \E v : Tile!PostRemove(Tile!ClientRemove(u, i)) = Seeing(u, v)

LEMMA TakenKeeps ==
  ASSUME TilesAssumption, NEW A \in Seq(Things), NEW B \in Seq(Things), NEW x \in Things,
         NEW u, Laid(u), Knows(u.view, (A \o <<x>>) \o B), Tile!Description(u) = A \o B,
         NEW i, i = Len(A) + 1
  PROVE  TakenWell(u, i)
<1>0. Limit \in Nat /\ IsTile(u) /\ Len(A) \in Nat /\ Len(B) \in Nat
  BY DEF TilesAssumption, Laid
<1>1. PICK v : /\ Tile!ClientRemove(u, i) = Seeing(u, v)
               /\ i > Limit \/ Len(A) + 1 + Len(B) <= Limit => Knows(v, A \o B)
  BY <1>0, RemoveKnows
<1> DEFINE n == Seeing(u, v)
<1>2. /\ Laid(n) /\ Tile!Description(n) = A \o B /\ Tile!Count(n) = Tile!Count(u) /\ n.view = v
  BY SeeingSame
<1>3. \A z : Seeing(n, z) = Seeing(u, z)
  BY SeeingFacts
<1> HIDE DEF n
<1>4. Knows(n.view, Tile!Description(n)) \/ Tile!Count(n) > Limit - 2
  <2>1. Len(A \o B) <= Tile!Count(n) /\ Tile!Count(n) \in Nat
    BY <1>2, PartsOf
  <2>2. Len(A \o B) = Len(A) + Len(B)
    BY JoinFacts
  <2>3. CASE Tile!Count(n) <= Limit - 2
    <3>1. Len(A) + 1 + Len(B) <= Limit
      BY <1>0, <2>1, <2>2, <2>3
    <3> QED
      BY <1>1, <1>2, <3>1
  <2> QED
    BY <1>0, <2>1, <2>3
<1>5. TileSound(Tile!PostRemove(n)) /\ \E z : Tile!PostRemove(n) = Seeing(n, z)
  BY <1>2, <1>4, PostRemoveKeeps
<1> QED
  BY <1>1, <1>3, <1>5 DEF n, TakenWell

-----------------------------------------------------------------------------
(* Items come, go and become others.                                         *)

LEMMA AddKeeps ==
  ASSUME TilesAssumption, NEW A \in Seq(Things), NEW B \in Seq(Things), NEW x \in Things,
         NEW u, Laid(u), Knows(u.view, A \o B), Tile!Description(u) = (A \o <<x>>) \o B,
         NEW i, i = Len(A) + 1
  PROVE  TileSound(Tile!ClientAdd(u, i, x))
<1>1. IsTile(u)
  BY DEF Laid
<1>2. PICK v : Tile!ClientAdd(u, i, x) = Seeing(u, v) /\ Knows(v, (A \o <<x>>) \o B)
  BY <1>1, AddKnows
<1> DEFINE n == Seeing(u, v)
<1>3. Laid(n) /\ Tile!Description(n) = (A \o <<x>>) \o B /\ n.view = v
  BY SeeingSame
<1> HIDE DEF n
<1>4. TileSound(n)
  BY <1>2, <1>3 DEF TileSound
<1> QED
  BY <1>2, <1>4 DEF n

LEMMA ChangeKeeps ==
  ASSUME TilesAssumption, NEW A \in Seq(Things), NEW B \in Seq(Things), NEW x \in Things,
         NEW y \in Things, NEW u, Laid(u), Knows(u.view, (A \o <<y>>) \o B),
         Tile!Description(u) = (A \o <<x>>) \o B, NEW i, i = Len(A) + 1
  PROVE  TileSound(Tile!ClientUpdate(u, i, x))
<1>1. IsTile(u)
  BY DEF Laid
<1>2. PICK v : Tile!ClientUpdate(u, i, x) = Seeing(u, v) /\ Knows(v, (A \o <<x>>) \o B)
  BY <1>1, ChangeKnows
<1> DEFINE n == Seeing(u, v)
<1>3. Laid(n) /\ Tile!Description(n) = (A \o <<x>>) \o B /\ n.view = v
  BY SeeingSame
<1> HIDE DEF n
<1>4. TileSound(n)
  BY <1>2, <1>3 DEF TileSound
<1> QED
  BY <1>2, <1>4 DEF n

\* A part of a tile is another.
Grounds == {<< >>} \cup {<<t>> : t \in Ground}
Like(u, v) == u.creatures = v.creatures /\ u.hidden = v.hidden /\ u.view = v.view

LEMMA GroundChanged ==
  ASSUME NEW u, Laid(u), NEW g \in Grounds
  PROVE  /\ Laid([u EXCEPT !.ground = g]) /\ Like([u EXCEPT !.ground = g], u)
         /\ [u EXCEPT !.ground = g].top = u.top
         /\ Tile!Description([u EXCEPT !.ground = g]) = Whole(g, u.top, Tile!Seen(u), u.down)
<1> DEFINE n == [u EXCEPT !.ground = g]
<1>1. n = [ground |-> g, top |-> u.top, creatures |-> u.creatures, down |-> u.down,
           hidden |-> u.hidden, view |-> u.view]
  <2> DEFINE a == u.ground
             b == u.top
             c == u.creatures
             d == u.down
             h == u.hidden
             v == u.view
  <2>1. u = [ground |-> a, top |-> b, creatures |-> c, down |-> d, hidden |-> h, view |-> v]
    BY DEF Laid, IsTile, Seeing
  <2> HIDE DEF a, b, c, d, h, v
  <2>2. n = [ground |-> g, top |-> b, creatures |-> c, down |-> d, hidden |-> h, view |-> v]
    BY <2>1
  <2> QED
    BY <2>2 DEF a, b, c, d, h, v
<1> HIDE DEF n
<1>2. /\ n.ground = g /\ n.top = u.top /\ n.creatures = u.creatures /\ n.down = u.down
      /\ n.hidden = u.hidden /\ n.view = u.view
  BY <1>1
<1>3. IsTile(n)
  BY <1>1, <1>2 DEF IsTile, Seeing
<1>4. Standing(n) /\ Standing(u)
  BY <1>2 DEF Laid, Standing
<1>5. Laid(n)
  BY <1>2, <1>3, <1>4 DEF Laid, Grounds
<1>6. Tile!Seen(n) = Tile!Seen(u)
  BY <1>2, <1>4, SameSeen
<1> QED
  BY <1>2, <1>5, <1>6, PartsOf DEF n, Like

LEMMA TopChanged ==
  ASSUME NEW u, Laid(u), NEW g \in Seq(Top)
  PROVE  /\ Laid([u EXCEPT !.top = g]) /\ Like([u EXCEPT !.top = g], u)
         /\ [u EXCEPT !.top = g].ground = u.ground
         /\ Tile!Description([u EXCEPT !.top = g]) = Whole(u.ground, g, Tile!Seen(u), u.down)
<1> DEFINE n == [u EXCEPT !.top = g]
<1>1. n = [ground |-> u.ground, top |-> g, creatures |-> u.creatures, down |-> u.down,
           hidden |-> u.hidden, view |-> u.view]
  <2> DEFINE a == u.ground
             b == u.top
             c == u.creatures
             d == u.down
             h == u.hidden
             v == u.view
  <2>1. u = [ground |-> a, top |-> b, creatures |-> c, down |-> d, hidden |-> h, view |-> v]
    BY DEF Laid, IsTile, Seeing
  <2> HIDE DEF a, b, c, d, h, v
  <2>2. n = [ground |-> a, top |-> g, creatures |-> c, down |-> d, hidden |-> h, view |-> v]
    BY <2>1
  <2> QED
    BY <2>2 DEF a, b, c, d, h, v
<1> HIDE DEF n
<1>2. /\ n.ground = u.ground /\ n.top = g /\ n.creatures = u.creatures /\ n.down = u.down
      /\ n.hidden = u.hidden /\ n.view = u.view
  BY <1>1
<1>3. IsTile(n)
  BY <1>1, <1>2 DEF IsTile, Seeing
<1>4. Standing(n) /\ Standing(u)
  BY <1>2 DEF Laid, Standing
<1>5. Laid(n)
  BY <1>2, <1>3, <1>4 DEF Laid
<1>6. Tile!Seen(n) = Tile!Seen(u)
  BY <1>2, <1>4, SameSeen
<1> QED
  BY <1>2, <1>5, <1>6, PartsOf DEF n, Like

LEMMA DownChanged ==
  ASSUME NEW u, Laid(u), NEW g \in Seq(Down)
  PROVE  /\ Laid([u EXCEPT !.down = g]) /\ Like([u EXCEPT !.down = g], u)
         /\ Tile!Description([u EXCEPT !.down = g]) = Whole(u.ground, u.top, Tile!Seen(u), g)
<1> DEFINE n == [u EXCEPT !.down = g]
<1>1. n = [ground |-> u.ground, top |-> u.top, creatures |-> u.creatures, down |-> g,
           hidden |-> u.hidden, view |-> u.view]
  <2> DEFINE a == u.ground
             b == u.top
             c == u.creatures
             d == u.down
             h == u.hidden
             v == u.view
  <2>1. u = [ground |-> a, top |-> b, creatures |-> c, down |-> d, hidden |-> h, view |-> v]
    BY DEF Laid, IsTile, Seeing
  <2> HIDE DEF a, b, c, d, h, v
  <2>2. n = [ground |-> a, top |-> b, creatures |-> c, down |-> g, hidden |-> h, view |-> v]
    BY <2>1
  <2> QED
    BY <2>2 DEF a, b, c, d, h, v
<1> HIDE DEF n
<1>2. /\ n.ground = u.ground /\ n.top = u.top /\ n.creatures = u.creatures /\ n.down = g
      /\ n.hidden = u.hidden /\ n.view = u.view
  BY <1>1
<1>3. IsTile(n)
  BY <1>1, <1>2 DEF IsTile, Seeing
<1>4. Standing(n) /\ Standing(u)
  BY <1>2 DEF Laid, Standing
<1>5. Laid(n)
  BY <1>2, <1>3, <1>4 DEF Laid
<1>6. Tile!Seen(n) = Tile!Seen(u)
  BY <1>2, <1>4, SameSeen
<1> QED
  BY <1>2, <1>5, <1>6, PartsOf DEF n, Like

\* What lies in one part lies on the tile.
LEMMA PartThings ==
  /\ \A s \in Seq(Top) : s \in Seq(Things)
  /\ \A s \in Seq(Down) : s \in Seq(Things)
  /\ \A s \in Seq(Members) : s \in Seq(Things)
  /\ \A t \in Top : t \in Things /\ <<t>> \in Seq(Things) /\ <<t>> \in Seq(Top)
  /\ \A t \in Down : t \in Things /\ <<t>> \in Seq(Things) /\ <<t>> \in Seq(Down)
  /\ \A t \in Ground : t \in Things /\ <<t>> \in Seq(Things) /\ <<t>> \in Grounds
  /\ \A t \in Members : t \in Things /\ <<t>> \in Seq(Things) /\ <<t>> \in Seq(Members)
  /\ << >> \in Seq(Things) /\ << >> \in Grounds
<1>1. Top \subseteq Things /\ Down \subseteq Things /\ Ground \subseteq Things /\ Members \subseteq Things
  BY DEF Things
<1>2. \A S \in SUBSET Things : \A s \in Seq(S) : s \in Seq(Things)
  OBVIOUS
<1>3. \A S : \A t \in S : <<t>> \in Seq(S)
  OBVIOUS
<1>4. \A t \in Ground : <<t>> \in Grounds
  BY DEF Grounds
<1>5. << >> \in Seq(Things) /\ << >> \in Grounds
  BY DEF Grounds
<1> QED
  BY <1>1, <1>2, <1>3, <1>4, <1>5

\* The place of the first that one looks for.
Found(s, k) == k \in 0 .. Len(s)

LEMMA FirstSplash ==
  ASSUME NEW s, Len(s) \in Nat
  PROVE  Found(s, Tile!SelectInSeq(s, LAMBDA t : t \in Splashes))
<1> DEFINE I == {i \in 1 .. Len(s) : s[i] \in Splashes}
           k == Tile!SelectInSeq(s, LAMBDA t : t \in Splashes)
<1>1. k = IF I # {} THEN Tile!Min(I) ELSE 0
  BY DEF Tile!SelectInSeq
<1>2. I # {} => Tile!Min(I) \in I
  <2>1. I \in SUBSET Nat
    OBVIOUS
  <2> HIDE DEF I
  <2> QED
    BY <2>1, LeastOf, Zenon DEF Tile!Min
<1> HIDE DEF k
<1> QED
  BY <1>1, <1>2 DEF Found, k

LEMMA FirstField ==
  ASSUME NEW s, Len(s) \in Nat
  PROVE  Found(s, Tile!SelectInSeq(s, LAMBDA t : t \in Fields))
<1> DEFINE I == {i \in 1 .. Len(s) : s[i] \in Fields}
           k == Tile!SelectInSeq(s, LAMBDA t : t \in Fields)
<1>1. k = IF I # {} THEN Tile!Min(I) ELSE 0
  BY DEF Tile!SelectInSeq
<1>2. I # {} => Tile!Min(I) \in I
  <2>1. I \in SUBSET Nat
    OBVIOUS
  <2> HIDE DEF I
  <2> QED
    BY <2>1, LeastOf, Zenon DEF Tile!Min
<1> HIDE DEF k
<1> QED
  BY <1>1, <1>2 DEF Found, k

LEMMA LenOfThree ==
  ASSUME NEW S, NEW A \in Seq(S), NEW B \in Seq(S), NEW C \in Seq(S)
  PROVE  Len((A \o B) \o C) = Len(A) + Len(B) + Len(C)
<1> DEFINE X == A \o B
<1>1. X \in Seq(S) /\ Len(X) = Len(A) + Len(B)
  BY JoinFacts
<1> HIDE DEF X
<1>2. Len(X \o C) = Len(X) + Len(C)
  BY <1>1, JoinFacts
<1> QED
  BY <1>1, <1>2 DEF X

LEMMA LenOfFour ==
  ASSUME NEW S, NEW A \in Seq(S), NEW B \in Seq(S), NEW C \in Seq(S), NEW D \in Seq(S)
  PROVE  Len(((A \o B) \o C) \o D) = Len(A) + Len(B) + Len(C) + Len(D)
<1> DEFINE X == (A \o B) \o C
<1>1. X \in Seq(S)
  BY JoinFacts
<1>2. Len(X) = Len(A) + Len(B) + Len(C)
  BY LenOfThree
<1> HIDE DEF X
<1>3. Len(X \o D) = Len(X) + Len(D)
  BY <1>1, JoinFacts
<1> QED
  BY <1>2, <1>3 DEF X

\* Tile::__removeThing.
LEMMA GroundTaken ==
  ASSUME TilesAssumption, NEW u, TileSound(u), u.ground # << >>
  PROVE  TileSound(Tile!PostRemove(Tile!RemoveGround(u)))
<1> DEFINE n == [u EXCEPT !.ground = << >>]
           R == (u.top \o Tile!Seen(u)) \o u.down
<1>1. PICK t \in Ground : u.ground = <<t>>
  BY DEF TileSound, Laid
<1>2. Laid(u) /\ Knows(u.view, Tile!Description(u))
  BY DEF TileSound
<1>3. Laid(n) /\ n.view = u.view /\ Tile!Description(n) = Whole(<< >>, u.top, Tile!Seen(u), u.down)
  BY <1>2, PartThings, GroundChanged DEF Like
<1> HIDE DEF n
<1>4. /\ Tile!Description(n) = << >> \o R /\ R \in Seq(Things)
      /\ Tile!Description(u) = (<< >> \o <<t>>) \o R
  <2>1. u.top \in Seq(Things) /\ Tile!Seen(u) \in Seq(Things) /\ u.down \in Seq(Things)
        /\ Tile!Description(u) = Whole(<<t>>, u.top, Tile!Seen(u), u.down)
    BY <1>1, <1>2, PartsOf
  <2>2. <<t>> \in Seq(Things)
    BY PartThings
  <2>3. /\ Whole(<< >>, u.top, Tile!Seen(u), u.down) = << >> \o R /\ R \in Seq(Things)
        /\ Whole(<<t>>, u.top, Tile!Seen(u), u.down) = (<< >> \o <<t>>) \o R
    <3>1. GroundCut(Things, u.top, Tile!Seen(u), u.down)
      BY <2>1, WholeInGround
    <3> QED
      BY <2>2, <3>1 DEF GroundCut
  <2> QED
    BY <1>3, <2>1, <2>3
<1> HIDE DEF R
<1>5. /\ << >> \in Seq(Things) /\ t \in Things /\ Len(<< >>) + 1 = 1
      /\ Knows(n.view, (<< >> \o <<t>>) \o R)
  BY <1>2, <1>3, <1>4, PartThings
<1>6. TileSound(Tile!PostRemove(Tile!ClientRemove(n, 1)))
  BY <1>3, <1>4, <1>5, TakenKeeps DEF TakenWell
<1> QED
  BY <1>6 DEF Tile!RemoveGround, n

LEMMA TopTaken ==
  ASSUME TilesAssumption, NEW u, TileSound(u), NEW k \in 1 .. Len(u.top)
  PROVE  /\ TileSound(Tile!PostRemove(Tile!RemoveTop(u, k)))
         /\ Tile!PostRemove(Tile!RemoveTop(u, k)).ground = u.ground
<1> DEFINE T == u.top
           P == Before(T, k)
           Q == After(T, k)
           n == [u EXCEPT !.top = Tile!RemoveAt(T, k)]
           A == u.ground \o P
           B == (Q \o Tile!Seen(u)) \o u.down
           x == T[k]
           i == Tile!TopIndex(u, k)
<1>1. Laid(u) /\ Knows(u.view, Tile!Description(u)) /\ T \in Seq(Top) /\ x \in Top
  BY DEF TileSound, Laid
<1>2. CutsAt(Top, T, k)
  BY <1>1, CutAt
<1>3. /\ P \in Seq(Top) /\ Q \in Seq(Top) /\ Len(P) = k - 1 /\ T = (P \o <<x>>) \o Q
      /\ Tile!RemoveAt(T, k) = P \o Q
  BY <1>2 DEF CutsAt
<1>4. P \o Q \in Seq(Top)
  BY <1>3, JoinFacts
<1>5. /\ Laid(n) /\ n.view = u.view /\ n.ground = u.ground
      /\ Tile!Description(n) = Whole(u.ground, P \o Q, Tile!Seen(u), u.down)
  BY <1>1, <1>3, <1>4, TopChanged DEF Like
<1>6. /\ u.ground \in Seq(Things) /\ Tile!Seen(u) \in Seq(Things) /\ u.down \in Seq(Things)
      /\ Tile!Description(u) = Whole(u.ground, T, Tile!Seen(u), u.down) /\ Len(u.ground) \in Nat
  BY <1>1, PartsOf
<1>7. P \in Seq(Things) /\ Q \in Seq(Things) /\ x \in Things /\ <<x>> \in Seq(Things)
  BY <1>1, <1>3, PartThings
<1> HIDE DEF T, P, Q, n, x, i
<1>8. /\ A \in Seq(Things) /\ B \in Seq(Things)
      /\ Tile!Description(n) = A \o B /\ Tile!Description(u) = (A \o <<x>>) \o B
  <2>1. /\ A \in Seq(Things) /\ B \in Seq(Things)
        /\ Whole(u.ground, P \o Q, Tile!Seen(u), u.down) = A \o B
        /\ Whole(u.ground, (P \o <<x>>) \o Q, Tile!Seen(u), u.down) = (A \o <<x>>) \o B
    <3>1. TopCut(Things, u.ground, P, Q, Tile!Seen(u), u.down)
      BY <1>6, <1>7, WholeInTop
    <3> QED
      BY <1>7, <3>1 DEF TopCut
  <2> QED
    BY <1>3, <1>5, <1>6, <2>1
<1>9. i = Len(A) + 1
  <2>1. Len(A) = Len(u.ground) + Len(P)
    BY <1>6, <1>7, JoinFacts
  <2>2. k \in Nat /\ Len(P) = k - 1
    BY <1>1, <1>3 DEF T
  <2>3. i = Len(u.ground) + k
    BY DEF Tile!TopIndex, i
  <2> HIDE DEF A
  <2> QED
    BY <1>6, <2>1, <2>2, <2>3
<1> HIDE DEF A, B
<1>10. Knows(n.view, (A \o <<x>>) \o B)
  BY <1>1, <1>5, <1>8
<1>11. /\ TileSound(Tile!PostRemove(Tile!ClientRemove(n, i)))
       /\ \E v : Tile!PostRemove(Tile!ClientRemove(n, i)) = Seeing(n, v)
  <2>1. TakenWell(n, i)
    BY <1>5, <1>7, <1>8, <1>9, <1>10, TakenKeeps
  <2> QED
    BY <2>1 DEF TakenWell
<1>12. Tile!PostRemove(Tile!ClientRemove(n, i)).ground = n.ground
  BY <1>11 DEF Seeing
<1>13. Tile!RemoveTop(u, k) = Tile!ClientRemove(n, i)
  BY DEF Tile!RemoveTop, n, i, T
<1> QED
  BY <1>5, <1>11, <1>12, <1>13

LEMMA DownTaken ==
  ASSUME TilesAssumption, NEW u, TileSound(u), NEW k \in 1 .. Len(u.down)
  PROVE  TileSound(Tile!PostRemove(Tile!RemoveDown(u, k)))
<1> DEFINE D == u.down
           P == Before(D, k)
           Q == After(D, k)
           n == [u EXCEPT !.down = Tile!RemoveAt(D, k)]
           A == ((u.ground \o u.top) \o Tile!Seen(u)) \o P
           x == D[k]
           i == Tile!DownIndex(u, k)
<1>1. Laid(u) /\ Knows(u.view, Tile!Description(u)) /\ D \in Seq(Down) /\ x \in Down
  BY DEF TileSound, Laid
<1>2. CutsAt(Down, D, k)
  BY <1>1, CutAt
<1>3. /\ P \in Seq(Down) /\ Q \in Seq(Down) /\ Len(P) = k - 1 /\ D = (P \o <<x>>) \o Q
      /\ Tile!RemoveAt(D, k) = P \o Q
  BY <1>2 DEF CutsAt
<1>4. P \o Q \in Seq(Down)
  BY <1>3, JoinFacts
<1>5. /\ Laid(n) /\ n.view = u.view
      /\ Tile!Description(n) = Whole(u.ground, u.top, Tile!Seen(u), P \o Q)
  BY <1>1, <1>3, <1>4, DownChanged DEF Like
<1>6. /\ u.ground \in Seq(Things) /\ Tile!Seen(u) \in Seq(Things) /\ u.top \in Seq(Things)
      /\ Tile!Description(u) = Whole(u.ground, u.top, Tile!Seen(u), D)
  BY <1>1, PartsOf
<1>7. P \in Seq(Things) /\ Q \in Seq(Things) /\ x \in Things /\ <<x>> \in Seq(Things)
  BY <1>1, <1>3, PartThings
<1> HIDE DEF D, P, Q, n, x, i
<1>8. /\ A \in Seq(Things)
      /\ Tile!Description(n) = A \o Q /\ Tile!Description(u) = (A \o <<x>>) \o Q
  <2>1. /\ A \in Seq(Things)
        /\ Whole(u.ground, u.top, Tile!Seen(u), P \o Q) = A \o Q
        /\ Whole(u.ground, u.top, Tile!Seen(u), (P \o <<x>>) \o Q) = (A \o <<x>>) \o Q
    <3>1. DownCut(Things, u.ground, u.top, Tile!Seen(u), P, Q)
      BY <1>6, <1>7, WholeInDown
    <3> QED
      BY <1>7, <3>1 DEF DownCut
  <2> QED
    BY <1>3, <1>5, <1>6, <2>1
<1>9. i = Len(A) + 1
  <2>1. Len(A) = Len(u.ground) + Len(u.top) + Len(Tile!Seen(u)) + Len(P)
    BY <1>6, <1>7, LenOfFour
  <2>2. k \in Nat /\ Len(P) = k - 1
    BY <1>1, <1>3 DEF D
  <2>3. i = Len(u.ground) + Len(u.top) + Len(Tile!Seen(u)) + k
    BY DEF Tile!DownIndex, i
  <2>4. Len(u.ground) \in Nat /\ Len(u.top) \in Nat /\ Len(Tile!Seen(u)) \in Nat
    BY <1>1, PartsOf
  <2> HIDE DEF A
  <2> QED
    BY <2>1, <2>2, <2>3, <2>4
<1> HIDE DEF A
<1>10. Knows(n.view, (A \o <<x>>) \o Q)
  BY <1>1, <1>5, <1>8
<1>11. TileSound(Tile!PostRemove(Tile!ClientRemove(n, i)))
  BY <1>5, <1>7, <1>8, <1>9, <1>10, TakenKeeps DEF TakenWell
<1>13. Tile!RemoveDown(u, k) = Tile!ClientRemove(n, i)
  BY DEF Tile!RemoveDown, n, i, D
<1> QED
  BY <1>11, <1>13

\* Tile::__addThing.
LEMMA AddGroundKeeps ==
  ASSUME TilesAssumption, NEW u, TileSound(u), NEW t \in Ground
  PROVE  TileSound(Tile!AddGround(u, t))
<1> DEFINE n == [u EXCEPT !.ground = <<t>>]
           R == (u.top \o Tile!Seen(u)) \o u.down
<1>2. Laid(u) /\ Knows(u.view, Tile!Description(u))
  BY DEF TileSound
<1>3. Laid(n) /\ n.view = u.view /\ Tile!Description(n) = Whole(<<t>>, u.top, Tile!Seen(u), u.down)
  BY <1>2, PartThings, GroundChanged DEF Like
<1> HIDE DEF n
<1>1. CASE u.ground = << >>
  <2>4. /\ Tile!Description(u) = << >> \o R /\ R \in Seq(Things)
        /\ Tile!Description(n) = (<< >> \o <<t>>) \o R
    <3>1. u.top \in Seq(Things) /\ Tile!Seen(u) \in Seq(Things) /\ u.down \in Seq(Things)
          /\ Tile!Description(u) = Whole(<< >>, u.top, Tile!Seen(u), u.down)
      BY <1>1, <1>2, PartsOf
    <3>2. <<t>> \in Seq(Things)
      BY PartThings
    <3>3. GroundCut(Things, u.top, Tile!Seen(u), u.down)
      BY <3>1, WholeInGround
    <3> QED
      BY <1>3, <3>1, <3>2, <3>3 DEF GroundCut
  <2> HIDE DEF R
  <2>5. /\ << >> \in Seq(Things) /\ t \in Things /\ Len(<< >>) + 1 = 1
        /\ Knows(n.view, << >> \o R)
    BY <1>2, <1>3, <2>4, PartThings
  <2>6. TileSound(Tile!ClientAdd(n, 1, t))
    BY <1>3, <2>4, <2>5, AddKeeps
  <2> QED
    BY <1>1, <2>6 DEF Tile!AddGround, n
<1>4. CASE u.ground # << >>
  <2>1. Laid(Tile!PostRemove(n))
    <3>1. CASE Tile!Count(n) > Limit - 2
      BY <1>3, <3>1, SentAgain DEF Tile!PostRemove, TileSound
    <3>2. CASE ~(Tile!Count(n) > Limit - 2)
      BY <1>3, <3>2 DEF Tile!PostRemove
    <3> QED
      BY <3>1, <3>2
  <2>2. TileSound(Tile!UpdateTile(Tile!PostRemove(n)))
    BY <2>1, SentAgain
  <2> QED
    BY <1>4, <2>2 DEF Tile!AddGround, n
<1> QED
  BY <1>1, <1>4

LEMMA AddTopKeeps ==
  ASSUME TilesAssumption, NEW u, TileSound(u), NEW t \in Top
  PROVE  TileSound(Tile!AddTop(u, t))
<1> DEFINE T == u.top
           before == Tile!SelectInSeq(T, LAMBDA s : Order[t] <= Order[s])
           k == IF before = 0 THEN Len(T) + 1 ELSE before
           P == Before(T, k)
           Q == After(T, k - 1)
           n == [u EXCEPT !.top = Tile!InsertAt(T, k, t)]
           A == u.ground \o P
           B == (Q \o Tile!Seen(u)) \o u.down
           i == Tile!TopIndex(u, k)
<1>0. Tile!AddTop(u, t) = Tile!ClientAdd(n, i, t)
  BY DEF Tile!AddTop
<1>1. Laid(u) /\ Knows(u.view, Tile!Description(u)) /\ T \in Seq(Top) /\ Len(T) \in Nat
  BY DEF TileSound, Laid
<1>14. k \in 1 .. Len(T) + 1
  <2> DEFINE I == {j \in 1 .. Len(T) : Order[t] <= Order[T[j]]}
  <2>2. before = IF I # {} THEN Tile!Min(I) ELSE 0
    BY DEF Tile!SelectInSeq
  <2>3. I # {} => Tile!Min(I) \in I
    <3>1. I \in SUBSET Nat
      BY <1>1
    <3> HIDE DEF I
    <3> QED
      BY <3>1, LeastOf, Zenon DEF Tile!Min
  <2> HIDE DEF before
  <2>1. Found(T, before)
    BY <1>1, <2>2, <2>3 DEF Found
  <2> HIDE DEF before
  <2> QED
    BY <1>1, <2>1 DEF Found
<1> HIDE DEF k, before
<1>3. /\ P \in Seq(Top) /\ Q \in Seq(Top) /\ Len(P) = k - 1 /\ T = P \o Q
      /\ Tile!InsertAt(T, k, t) = (P \o <<t>>) \o Q
  <2>1. CutsBefore(Top, T, k)
    BY <1>1, <1>14, CutBefore
  <2> QED
    BY <2>1 DEF CutsBefore
<1>4. (P \o <<t>>) \o Q \in Seq(Top)
  BY <1>3, CutFacts
<1>5. /\ Laid(n) /\ n.view = u.view
      /\ Tile!Description(n) = Whole(u.ground, (P \o <<t>>) \o Q, Tile!Seen(u), u.down)
  BY <1>1, <1>3, <1>4, TopChanged DEF Like
<1>6. /\ u.ground \in Seq(Things) /\ Tile!Seen(u) \in Seq(Things) /\ u.down \in Seq(Things)
      /\ Tile!Description(u) = Whole(u.ground, T, Tile!Seen(u), u.down) /\ Len(u.ground) \in Nat
  BY <1>1, PartsOf
<1>7. P \in Seq(Things) /\ Q \in Seq(Things) /\ t \in Things /\ <<t>> \in Seq(Things)
  BY <1>1, <1>3, PartThings
<1> HIDE DEF T, P, Q, n, i
<1>8. /\ A \in Seq(Things) /\ B \in Seq(Things)
      /\ Tile!Description(u) = A \o B /\ Tile!Description(n) = (A \o <<t>>) \o B
  <2>1. TopCut(Things, u.ground, P, Q, Tile!Seen(u), u.down)
    BY <1>6, <1>7, WholeInTop
  <2>2. /\ A \in Seq(Things) /\ B \in Seq(Things)
        /\ Whole(u.ground, P \o Q, Tile!Seen(u), u.down) = A \o B
        /\ Whole(u.ground, (P \o <<t>>) \o Q, Tile!Seen(u), u.down) = (A \o <<t>>) \o B
    BY <1>7, <2>1 DEF TopCut
  <2> QED
    BY <1>3, <1>5, <1>6, <2>2
<1>9. i = Len(A) + 1
  <2>1. Len(A) = Len(u.ground) + Len(P)
    BY <1>6, <1>7, JoinFacts
  <2>2. k \in Nat /\ Len(P) = k - 1
    BY <1>1, <1>3, <1>14
  <2>3. i = Len(u.ground) + k
    BY DEF Tile!TopIndex, i
  <2> HIDE DEF A
  <2> QED
    BY <1>6, <2>1, <2>2, <2>3
<1> HIDE DEF A, B
<1>10. Knows(n.view, A \o B)
  BY <1>1, <1>5, <1>8
<1>11. TileSound(Tile!ClientAdd(n, i, t))
  BY <1>5, <1>7, <1>8, <1>9, <1>10, AddKeeps
<1> QED
  BY <1>0, <1>11

LEMMA AddDownKeeps ==
  ASSUME TilesAssumption, NEW u, TileSound(u), NEW t \in Down
  PROVE  TileSound(Tile!AddDown(u, t))
<1> DEFINE D == u.down
           n == [u EXCEPT !.down = <<t>> \o D]
           A == ((u.ground \o u.top) \o Tile!Seen(u)) \o << >>
           i == Tile!DownIndex(u, 1)
<1>0. Tile!AddDown(u, t) = Tile!ClientAdd(n, i, t)
  BY DEF Tile!AddDown
<1>1. Laid(u) /\ Knows(u.view, Tile!Description(u)) /\ D \in Seq(Down)
  BY DEF TileSound, Laid
<1>2. /\ D \in Seq(Things) /\ t \in Things /\ <<t>> \in Seq(Things) /\ << >> \in Seq(Things)
      /\ <<t>> \in Seq(Down)
  BY <1>1, PartThings
<1>3. << >> \o D = D /\ (<< >> \o <<t>>) = <<t>> /\ << >> \o <<t>> \in Seq(Things)
  BY <1>2, ConcatEmptySeq
<1>4. <<t>> \o D \in Seq(Down)
  BY <1>1, <1>2, JoinFacts
<1>5. /\ Laid(n) /\ n.view = u.view
      /\ Tile!Description(n) = Whole(u.ground, u.top, Tile!Seen(u), <<t>> \o D)
  BY <1>1, <1>4, DownChanged DEF Like
<1>6. /\ u.ground \in Seq(Things) /\ Tile!Seen(u) \in Seq(Things) /\ u.top \in Seq(Things)
      /\ Tile!Description(u) = Whole(u.ground, u.top, Tile!Seen(u), D)
  BY <1>1, PartsOf
<1> HIDE DEF D, n, i
<1>8. /\ A \in Seq(Things)
      /\ Tile!Description(u) = A \o D /\ Tile!Description(n) = (A \o <<t>>) \o D
  <2>1. DownCut(Things, u.ground, u.top, Tile!Seen(u), << >>, D)
    BY <1>2, <1>6, WholeInDown
  <2>2. /\ A \in Seq(Things)
        /\ Whole(u.ground, u.top, Tile!Seen(u), << >> \o D) = A \o D
        /\ Whole(u.ground, u.top, Tile!Seen(u), (<< >> \o <<t>>) \o D) = (A \o <<t>>) \o D
    BY <1>2, <2>1 DEF DownCut
  <2> HIDE DEF A
  <2> QED
    BY <1>3, <1>5, <1>6, <2>2
<1>9. i = Len(A) + 1
  <2>1. Len(A) = Len(u.ground) + Len(u.top) + Len(Tile!Seen(u)) + Len(<< >>)
    BY <1>2, <1>6, LenOfFour
  <2>3. i = Len(u.ground) + Len(u.top) + Len(Tile!Seen(u)) + 1
    BY DEF Tile!DownIndex, i
  <2>4. Len(u.ground) \in Nat /\ Len(u.top) \in Nat /\ Len(Tile!Seen(u)) \in Nat /\ Len(<< >>) = 0
    BY <1>1, PartsOf
  <2> HIDE DEF A
  <2> QED
    BY <2>1, <2>3, <2>4
<1> HIDE DEF A
<1>10. Knows(n.view, A \o D)
  BY <1>1, <1>5, <1>8
<1>11. TileSound(Tile!ClientAdd(n, i, t))
  BY <1>2, <1>5, <1>8, <1>9, <1>10, AddKeeps
<1> QED
  BY <1>0, <1>11

LEMMA WithoutSplashKeeps ==
  ASSUME TilesAssumption, NEW u, TileSound(u)
  PROVE  TileSound(Tile!WithoutSplash(u))
<1> DEFINE k == Tile!SelectInSeq(u.top, LAMBDA t : t \in Splashes)
<1>1. Len(u.top) \in Nat
  BY PartsOf DEF TileSound
<1>2. Found(u.top, k)
  BY <1>1, FirstSplash
<1>3. Tile!WithoutSplash(u) = IF k = 0 THEN u ELSE Tile!PostRemove(Tile!RemoveTop(u, k))
  BY DEF Tile!WithoutSplash
<1> HIDE DEF k
<1>4. CASE k = 0
  BY <1>3, <1>4
<1>5. CASE k # 0
  <2>1. k \in 1 .. Len(u.top)
    BY <1>1, <1>2, <1>5 DEF Found
  <2> QED
    BY <1>3, <1>5, <2>1, TopTaken
<1> QED
  BY <1>4, <1>5

LEMMA AddFieldKeeps ==
  ASSUME TilesAssumption, NEW u, TileSound(u), NEW t \in Down
  PROVE  TileSound(Tile!AddField(u, t))
<1> DEFINE k == Tile!SelectInSeq(u.down, LAMBDA s : s \in Fields)
           Other == Tile!AddDown(Tile!PostRemove(Tile!RemoveDown(u, k)), t)
<1>1. Len(u.down) \in Nat
  BY PartsOf DEF TileSound
<1>2. Found(u.down, k)
  BY <1>1, FirstField
<1>3. Tile!AddField(u, t) = CASE k = 0 -> Tile!AddDown(u, t)
                           [] k # 0 /\ u.down[k] \in Fixed -> u
                           [] OTHER -> Other
  BY DEF Tile!AddField
<1> HIDE DEF k
<1>4. CASE k = 0
  <2>1. Tile!AddField(u, t) = Tile!AddDown(u, t)
    BY <1>3, <1>4
  <2> QED
    BY <2>1, AddDownKeeps
<1>5. CASE k # 0
  <2>1. k \in 1 .. Len(u.down)
    BY <1>1, <1>2, <1>5 DEF Found
  <2>2. TileSound(Tile!PostRemove(Tile!RemoveDown(u, k)))
    BY <2>1, DownTaken
  <2>3. TileSound(Other)
    BY <2>2, AddDownKeeps
  <2> HIDE DEF Other
  <2>4. Tile!AddField(u, t) = u \/ Tile!AddField(u, t) = Other
    BY <1>3, <1>5
  <2> QED
    BY <2>3, <2>4
<1> QED
  BY <1>4, <1>5

LEMMA AddItemKeeps ==
  ASSUME TilesAssumption, NEW u, TileSound(u), NEW t \in Ground \cup Top \cup Down
  PROVE  TileSound(Tile!Add(u, t))
<1>0. /\ Splashes \subseteq Top /\ Fields \subseteq Down /\ Down \cap Ground = {}
      /\ Down \cap Top = {} /\ Ground \cap Top = {}
  BY DEF TilesAssumption
<1>1. CASE t \in Ground
  <2>1. t \notin Splashes /\ t \notin Top /\ t \notin Fields
    BY <1>0, <1>1
  <2>2. Tile!Add(u, t) = Tile!AddGround(u, t)
    BY <1>1, <2>1, Zenon DEF Tile!Add
  <2> QED
    BY <1>1, <2>2, AddGroundKeeps
<1>2. CASE t \in Splashes
  <2>1. t \in Top /\ t \notin Ground /\ t \notin Top \ Splashes /\ t \notin Fields
    BY <1>0, <1>2
  <2>2. Tile!Add(u, t) = Tile!AddTop(Tile!WithoutSplash(u), t)
    BY <1>2, <2>1, Zenon DEF Tile!Add
  <2> QED
    BY <2>1, <2>2, WithoutSplashKeeps, AddTopKeeps
<1>3. CASE t \in Top \ Splashes
  <2>1. t \notin Ground /\ t \notin Splashes /\ t \notin Fields
    BY <1>0, <1>3
  <2>2. Tile!Add(u, t) = Tile!AddTop(u, t)
    BY <1>3, <2>1, Zenon DEF Tile!Add
  <2> QED
    BY <1>3, <2>2, AddTopKeeps
<1>4. CASE t \in Fields
  <2>1. t \in Down /\ t \notin Ground /\ t \notin Splashes /\ t \notin Top \ Splashes
    BY <1>0, <1>4
  <2>2. Tile!Add(u, t) = Tile!AddField(u, t)
    BY <1>4, <2>1, Zenon DEF Tile!Add
  <2> QED
    BY <2>1, <2>2, AddFieldKeeps
<1>5. CASE t \in Down \ Fields
  <2>1. t \notin Ground /\ t \notin Splashes /\ t \notin Top \ Splashes /\ t \notin Fields
    BY <1>0, <1>5
  <2>2. Tile!Add(u, t) = Tile!AddDown(u, t)
    BY <2>1, Zenon DEF Tile!Add
  <2> QED
    BY <1>5, <2>2, AddDownKeeps
<1> QED
  BY <1>0, <1>1, <1>2, <1>3, <1>4, <1>5

LEMMA TakenFrom ==
  ASSUME TilesAssumption, NEW u, TileSound(u), NEW p \in Tile!Stacked(u)
  PROVE  TileSound(Tile!Taken(u, p))
<1>1. CASE p[1] = "ground"
  <2>1. u.ground # << >>
    BY <1>1 DEF Tile!Stacked
  <2>2. Tile!Taken(u, p) = Tile!PostRemove(Tile!RemoveGround(u))
    BY <1>1, Zenon DEF Tile!Taken
  <2> QED
    BY <2>1, <2>2, GroundTaken
<1>2. CASE p[1] = "top"
  <2>1. p[2] \in DOMAIN u.top
    BY <1>2 DEF Tile!Stacked
  <2>2. p[2] \in 1 .. Len(u.top)
    BY <2>1 DEF TileSound, Laid
  <2>3. Tile!Taken(u, p) = Tile!PostRemove(Tile!RemoveTop(u, p[2]))
    BY <1>2 DEF Tile!Taken
  <2> QED
    BY <2>2, <2>3, TopTaken
<1>3. CASE p[1] # "ground" /\ p[1] # "top"
  <2>1. p[2] \in DOMAIN u.down
    BY <1>3 DEF Tile!Stacked
  <2>2. p[2] \in 1 .. Len(u.down)
    BY <2>1 DEF TileSound, Laid
  <2>3. Tile!Taken(u, p) = Tile!PostRemove(Tile!RemoveDown(u, p[2]))
    BY <1>3 DEF Tile!Taken
  <2> QED
    BY <2>2, <2>3, DownTaken
<1> QED
  BY <1>1, <1>2, <1>3

\* An item becomes another in its place: what lies before and after it.
Became(u, n, t, i) ==
  /\ Laid(n) /\ n.view = u.view
  /\ \E A, B \in Seq(Things), y \in Things :
       /\ Tile!Description(u) = (A \o <<y>>) \o B
       /\ Tile!Description(n) = (A \o <<t>>) \o B
       /\ i = Len(A) + 1

LEMMA BecomeGround ==
  ASSUME NEW u, Laid(u), u.ground # << >>, NEW t \in Ground
  PROVE  Became(u, [u EXCEPT !.ground = <<t>>], t, 1)
<1> DEFINE n == [u EXCEPT !.ground = <<t>>]
           R == (u.top \o Tile!Seen(u)) \o u.down
<1>1. PICK y \in Ground : u.ground = <<y>>
  BY DEF Laid
<1>2. /\ <<t>> \in Grounds /\ y \in Things /\ <<y>> \in Seq(Things) /\ <<t>> \in Seq(Things)
      /\ << >> \in Seq(Things)
  BY PartThings
<1>3. Laid(n) /\ n.view = u.view /\ Tile!Description(n) = Whole(<<t>>, u.top, Tile!Seen(u), u.down)
  BY <1>2, GroundChanged DEF Like
<1> HIDE DEF n
<1>4. /\ u.top \in Seq(Things) /\ Tile!Seen(u) \in Seq(Things) /\ u.down \in Seq(Things)
      /\ Tile!Description(u) = Whole(<<y>>, u.top, Tile!Seen(u), u.down)
  BY <1>1, PartsOf
<1>5. GroundCut(Things, u.top, Tile!Seen(u), u.down)
  BY <1>4, WholeInGround
<1>6. /\ R \in Seq(Things) /\ Tile!Description(u) = (<< >> \o <<y>>) \o R
      /\ Tile!Description(n) = (<< >> \o <<t>>) \o R
  BY <1>2, <1>3, <1>4, <1>5 DEF GroundCut
<1> HIDE DEF R
<1>7. Len(<< >>) + 1 = 1
  OBVIOUS
<1>8. \E A, B \in Seq(Things), x \in Things :
       /\ Tile!Description(u) = (A \o <<x>>) \o B
       /\ Tile!Description(n) = (A \o <<t>>) \o B
       /\ 1 = Len(A) + 1
  BY <1>2, <1>6, <1>7, Zenon
<1> QED
  BY <1>3, <1>8, Zenon DEF Became, n

LEMMA BecomeTop ==
  ASSUME NEW u, Laid(u), NEW k \in 1 .. Len(u.top), NEW t \in Top
  PROVE  Became(u, [u EXCEPT !.top = Tile!ReplaceAt(u.top, k, t)], t, Tile!TopIndex(u, k))
<1> DEFINE T == u.top
           P == Before(T, k)
           Q == After(T, k)
           n == [u EXCEPT !.top = Tile!ReplaceAt(T, k, t)]
           A == u.ground \o P
           B == (Q \o Tile!Seen(u)) \o u.down
           x == T[k]
           i == Tile!TopIndex(u, k)
<1>1. T \in Seq(Top) /\ x \in Top
  BY DEF Laid
<1>2. CutsAt(Top, T, k)
  BY <1>1, CutAt
<1>3. /\ P \in Seq(Top) /\ Q \in Seq(Top) /\ Len(P) = k - 1 /\ T = (P \o <<x>>) \o Q
      /\ Tile!ReplaceAt(T, k, t) = (P \o <<t>>) \o Q
  BY <1>2 DEF CutsAt, Tile!ReplaceAt
<1>4. (P \o <<t>>) \o Q \in Seq(Top)
  BY <1>3, CutFacts
<1>5. /\ Laid(n) /\ n.view = u.view
      /\ Tile!Description(n) = Whole(u.ground, (P \o <<t>>) \o Q, Tile!Seen(u), u.down)
  BY <1>1, <1>3, <1>4, TopChanged DEF Like
<1>6. /\ u.ground \in Seq(Things) /\ Tile!Seen(u) \in Seq(Things) /\ u.down \in Seq(Things)
      /\ Tile!Description(u) = Whole(u.ground, T, Tile!Seen(u), u.down) /\ Len(u.ground) \in Nat
  BY <1>1, PartsOf
<1>7. /\ P \in Seq(Things) /\ Q \in Seq(Things) /\ x \in Things /\ <<x>> \in Seq(Things)
      /\ t \in Things /\ <<t>> \in Seq(Things)
  BY <1>1, <1>3, PartThings
<1> HIDE DEF T, P, Q, n, x, i
<1>8. /\ A \in Seq(Things) /\ B \in Seq(Things)
      /\ Tile!Description(n) = (A \o <<t>>) \o B /\ Tile!Description(u) = (A \o <<x>>) \o B
  <2>1. TopCut(Things, u.ground, P, Q, Tile!Seen(u), u.down)
    BY <1>6, <1>7, WholeInTop
  <2>2. /\ A \in Seq(Things) /\ B \in Seq(Things)
        /\ Whole(u.ground, (P \o <<t>>) \o Q, Tile!Seen(u), u.down) = (A \o <<t>>) \o B
        /\ Whole(u.ground, (P \o <<x>>) \o Q, Tile!Seen(u), u.down) = (A \o <<x>>) \o B
    BY <1>7, <2>1 DEF TopCut
  <2> QED
    BY <1>3, <1>5, <1>6, <2>2
<1>9. i = Len(A) + 1
  <2>1. Len(A) = Len(u.ground) + Len(P)
    BY <1>6, <1>7, JoinFacts
  <2>2. k \in Nat /\ Len(P) = k - 1
    BY <1>1, <1>3 DEF T
  <2>3. i = Len(u.ground) + k
    BY DEF Tile!TopIndex, i
  <2> HIDE DEF A
  <2> QED
    BY <1>6, <2>1, <2>2, <2>3
<1> HIDE DEF A, B
<1>10. Became(u, n, t, i)
  BY <1>5, <1>7, <1>8, <1>9, Zenon DEF Became
<1> QED
  BY <1>10 DEF n, i, T

LEMMA BecomeDown ==
  ASSUME NEW u, Laid(u), NEW k \in 1 .. Len(u.down), NEW t \in Down
  PROVE  Became(u, [u EXCEPT !.down = Tile!ReplaceAt(u.down, k, t)], t, Tile!DownIndex(u, k))
<1> DEFINE D == u.down
           P == Before(D, k)
           Q == After(D, k)
           n == [u EXCEPT !.down = Tile!ReplaceAt(D, k, t)]
           A == ((u.ground \o u.top) \o Tile!Seen(u)) \o P
           x == D[k]
           i == Tile!DownIndex(u, k)
<1>1. D \in Seq(Down) /\ x \in Down
  BY DEF Laid
<1>2. CutsAt(Down, D, k)
  BY <1>1, CutAt
<1>3. /\ P \in Seq(Down) /\ Q \in Seq(Down) /\ Len(P) = k - 1 /\ D = (P \o <<x>>) \o Q
      /\ Tile!ReplaceAt(D, k, t) = (P \o <<t>>) \o Q
  BY <1>2 DEF CutsAt, Tile!ReplaceAt
<1>4. (P \o <<t>>) \o Q \in Seq(Down)
  BY <1>3, CutFacts
<1>5. /\ Laid(n) /\ n.view = u.view
      /\ Tile!Description(n) = Whole(u.ground, u.top, Tile!Seen(u), (P \o <<t>>) \o Q)
  BY <1>1, <1>3, <1>4, DownChanged DEF Like
<1>6. /\ u.ground \in Seq(Things) /\ Tile!Seen(u) \in Seq(Things) /\ u.top \in Seq(Things)
      /\ Tile!Description(u) = Whole(u.ground, u.top, Tile!Seen(u), D)
  BY <1>1, PartsOf
<1>7. /\ P \in Seq(Things) /\ Q \in Seq(Things) /\ x \in Things /\ <<x>> \in Seq(Things)
      /\ t \in Things /\ <<t>> \in Seq(Things)
  BY <1>1, <1>3, PartThings
<1> HIDE DEF D, P, Q, n, x, i
<1>8. /\ A \in Seq(Things)
      /\ Tile!Description(n) = (A \o <<t>>) \o Q /\ Tile!Description(u) = (A \o <<x>>) \o Q
  <2>1. DownCut(Things, u.ground, u.top, Tile!Seen(u), P, Q)
    BY <1>6, <1>7, WholeInDown
  <2>2. /\ A \in Seq(Things)
        /\ Whole(u.ground, u.top, Tile!Seen(u), (P \o <<t>>) \o Q) = (A \o <<t>>) \o Q
        /\ Whole(u.ground, u.top, Tile!Seen(u), (P \o <<x>>) \o Q) = (A \o <<x>>) \o Q
    BY <1>7, <2>1 DEF DownCut
  <2> QED
    BY <1>3, <1>5, <1>6, <2>2
<1>9. i = Len(A) + 1
  <2>1. Len(A) = Len(u.ground) + Len(u.top) + Len(Tile!Seen(u)) + Len(P)
    BY <1>6, <1>7, LenOfFour
  <2>2. k \in Nat /\ Len(P) = k - 1
    BY <1>1, <1>3 DEF D
  <2>3. i = Len(u.ground) + Len(u.top) + Len(Tile!Seen(u)) + k
    BY DEF Tile!DownIndex, i
  <2>4. Len(u.ground) \in Nat /\ Len(u.top) \in Nat /\ Len(Tile!Seen(u)) \in Nat
    BY <1>1, PartsOf
  <2> HIDE DEF A
  <2> QED
    BY <2>1, <2>2, <2>3, <2>4
<1> HIDE DEF A
<1>10. Became(u, n, t, i)
  BY <1>3, <1>5, <1>7, <1>8, <1>9, Zenon DEF Became
<1> QED
  BY <1>10 DEF n, i, D

\* What an item can become: ground is ground, and on top stays on top.
LEMMA BecomeFacts ==
  ASSUME TilesAssumption, NEW u, Laid(u), NEW p \in Tile!Stacked(u),
         NEW t \in Ground \cup Top \cup Down,
         Tile!TypeAt(u, p) \in Ground <=> t \in Ground, Tile!TypeAt(u, p) \in Top <=> t \in Top
  PROVE  Became(u, Tile!Become(u, p, t), t, Tile!IndexAt(u, p))
<1>0. /\ Down \cap Ground = {} /\ Down \cap Top = {} /\ Ground \cap Top = {}
  BY DEF TilesAssumption
<1>1. CASE p[1] = "ground"
  <2>1. u.ground # << >> /\ p[2] \in DOMAIN u.ground
    BY <1>1 DEF Tile!Stacked
  <2>2. PICK y \in Ground : u.ground = <<y>>
    BY <2>1 DEF Laid
  <2>3. Tile!TypeAt(u, p) = y
    <3>1. Tile!TypeAt(u, p) = u.ground[p[2]]
      BY <1>1, Zenon DEF Tile!TypeAt
    <3>2. p[2] = 1
      BY <2>1, <2>2
    <3> QED
      BY <2>2, <3>1, <3>2
  <2>4. t \in Ground
    BY <2>3
  <2>5. Tile!Become(u, p, t) = [u EXCEPT !.ground = <<t>>] /\ Tile!IndexAt(u, p) = 1
    BY <1>1, Zenon DEF Tile!Become, Tile!IndexAt
  <2> QED
    BY <2>1, <2>4, <2>5, BecomeGround
<1>2. CASE p[1] = "top"
  <2>1. p[2] \in DOMAIN u.top
    BY <1>2 DEF Tile!Stacked
  <2>2. p[2] \in 1 .. Len(u.top) /\ u.top[p[2]] \in Top
    BY <2>1 DEF Laid
  <2>3. p[1] # "ground"
    BY <1>2
  <2>4. /\ Tile!TypeAt(u, p) = u.top[p[2]] /\ Tile!IndexAt(u, p) = Tile!TopIndex(u, p[2])
        /\ Tile!Become(u, p, t) = [u EXCEPT !.top = Tile!ReplaceAt(u.top, p[2], t)]
    BY <1>2, <2>3 DEF Tile!Become, Tile!IndexAt, Tile!TypeAt
  <2>5. t \in Top
    BY <2>2, <2>4
  <2> QED
    BY <2>2, <2>4, <2>5, BecomeTop
<1>3. CASE p[1] # "ground" /\ p[1] # "top"
  <2>1. p[2] \in DOMAIN u.down
    BY <1>3 DEF Tile!Stacked
  <2>2. p[2] \in 1 .. Len(u.down) /\ u.down[p[2]] \in Down
    BY <2>1 DEF Laid
  <2>4. /\ Tile!TypeAt(u, p) = u.down[p[2]] /\ Tile!IndexAt(u, p) = Tile!DownIndex(u, p[2])
        /\ Tile!Become(u, p, t) = [u EXCEPT !.down = Tile!ReplaceAt(u.down, p[2], t)]
    BY <1>3 DEF Tile!Become, Tile!IndexAt, Tile!TypeAt
  <2>5. t \in Down
    BY <1>0, <2>2, <2>4
  <2> QED
    BY <2>2, <2>4, <2>5, BecomeDown
<1> QED
  BY <1>1, <1>2, <1>3

LEMMA UpdateKeeps ==
  ASSUME TilesAssumption, NEW u, TileSound(u), NEW n, NEW t \in Things, NEW i, Became(u, n, t, i)
  PROVE  TileSound(Tile!ClientUpdate(n, i, t))
<1>1. PICK A, B \in Seq(Things), y \in Things :
        /\ Tile!Description(u) = (A \o <<y>>) \o B
        /\ Tile!Description(n) = (A \o <<t>>) \o B
        /\ i = Len(A) + 1
  BY DEF Became
<1>2. Laid(n) /\ Knows(n.view, (A \o <<y>>) \o B)
  BY <1>1 DEF Became, TileSound
<1> QED
  BY <1>1, <1>2, ChangeKeeps

LEMMA ReplaceKeeps ==
  ASSUME TilesAssumption, NEW u, TileSound(u), NEW p, NEW t \in Things,
         Became(u, Tile!Become(u, p, t), t, Tile!IndexAt(u, p))
  PROVE  TileSound(Tile!Replace(u, p, t))
<1> DEFINE n == Tile!Become(u, p, t)
           i == Tile!IndexAt(u, p)
<1>0. Tile!Replace(u, p, t) = IF i <= Limit THEN [n EXCEPT !.view = Tile!Lost] ELSE n
  BY DEF Tile!Replace
<1> HIDE DEF n, i
<1>1. PICK A, B \in Seq(Things), y \in Things :
        /\ Tile!Description(u) = (A \o <<y>>) \o B
        /\ Tile!Description(n) = (A \o <<t>>) \o B
        /\ i = Len(A) + 1
  BY Zenon DEF Became, n, i
<1>2. Laid(n) /\ n.view = u.view /\ Knows(u.view, Tile!Description(u))
  BY DEF Became, TileSound, n
<1>3. CASE i <= Limit
  <2>1. [n EXCEPT !.view = Tile!Lost] = Seeing(n, Tile!Lost)
    BY <1>2, SeeingFacts DEF Laid
  <2>2. TileSound(Seeing(n, Tile!Lost))
    BY <1>2, SeeingSame DEF TileSound, Knows
  <2> QED
    BY <1>0, <1>3, <2>1, <2>2
<1>4. CASE ~(i <= Limit)
  <2>1. Len(A) >= Limit
    BY <1>1, <1>4 DEF TilesAssumption
  <2>2. (A \o <<y>>) \o B = A \o (<<y>> \o B) /\ <<y>> \o B \in Seq(Things)
    BY CutJoins
  <2>3. (A \o <<t>>) \o B = A \o (<<t>> \o B) /\ <<t>> \o B \in Seq(Things)
    BY CutJoins
  <2>4. Tile!First(A \o (<<y>> \o B)) = Tile!First(A \o (<<t>> \o B))
    BY <2>1, <2>2, <2>3, BeyondFirst
  <2>5. Tile!First(Tile!Description(u)) = Tile!First(Tile!Description(n))
    BY <1>1, <2>2, <2>3, <2>4
  <2>6. TileSound(n)
    BY <1>2, <2>5 DEF TileSound, Knows
  <2> QED
    BY <1>0, <1>4, <2>6
<1> QED
  BY <1>3, <1>4

\* Notified of what did not go, and what lies there as before.
LEMMA NotifiedSame ==
  ASSUME TilesAssumption, NEW u, TileSound(u)
  PROVE  /\ TileSound(Tile!PostRemove(u))
         /\ \E v : Tile!PostRemove(u) = Seeing(u, v)
BY PostRemoveKeeps DEF TileSound

LEMMA TransformKeeps ==
  ASSUME TilesAssumption, TileSound(w), NEW p \in Tile!Stacked(w),
         NEW t \in Ground \cup Top \cup Down, Tile!TransformItem(p, t)
  PROVE  TileSound(w')
<1> DEFINE old == Tile!TypeAt(w, p)
<1>1. CASE (old \in Top) # (t \in Top)
  <2>1. w' = Tile!Add(Tile!Taken(w, p), t)
    BY <1>1 DEF Tile!TransformItem
  <2>2. TileSound(Tile!Taken(w, p))
    BY TakenFrom
  <2> QED
    BY <2>1, <2>2, AddItemKeeps
<1>2. CASE (old \in Top) = (t \in Top)
  <2>1. (old \in Ground <=> t \in Ground) /\ (old \in Top <=> t \in Top) /\ t \in Things
    BY <1>2 DEF Tile!TransformItem, Things
  <2>2. CASE Kind[old] = Kind[t]
    <3> DEFINE u == Tile!PostRemove(w)
    <3>1. w' = Tile!Update(u, p, t)
      BY <1>2, <2>2 DEF Tile!TransformItem
    <3>2. TileSound(u) /\ \E v : u = Seeing(w, v)
      BY NotifiedSame
    <3>3. Laid(w) /\ Laid(u)
      BY <3>2 DEF TileSound
    <3>4. Tile!Stacked(u) = Tile!Stacked(w) /\ Tile!TypeAt(u, p) = old
      <4>1. u.ground = w.ground /\ u.top = w.top /\ u.down = w.down
        BY <3>2 DEF Seeing
      <4> HIDE DEF u
      <4> QED
        BY <4>1 DEF Tile!Stacked, Tile!TypeAt
    <3> HIDE DEF u, old
    <3>5. Became(u, Tile!Become(u, p, t), t, Tile!IndexAt(u, p))
      BY <2>1, <3>3, <3>4, BecomeFacts
    <3>6. TileSound(Tile!ClientUpdate(Tile!Become(u, p, t), Tile!IndexAt(u, p), t))
      BY <2>1, <3>2, <3>5, UpdateKeeps
    <3> QED
      BY <3>1, <3>6 DEF Tile!Update
  <2>3. CASE Kind[old] # Kind[t]
    <3>1. w' = Tile!PostRemove(Tile!Replace(w, p, t))
      BY <1>2, <2>3 DEF Tile!TransformItem
    <3>2. Laid(w)
      BY DEF TileSound
    <3>3. Became(w, Tile!Become(w, p, t), t, Tile!IndexAt(w, p))
      BY <2>1, <3>2, BecomeFacts
    <3>4. TileSound(Tile!Replace(w, p, t))
      BY <2>1, <3>3, ReplaceKeeps
    <3> QED
      BY <3>1, <3>4, NotifiedSame
  <2> QED
    BY <2>2, <2>3
<1> QED
  BY <1>1, <1>2

-----------------------------------------------------------------------------
(* Creatures come and go, hide and show themselves.                          *)
TileWith(u, s, h) ==
  [ground |-> u.ground, top |-> u.top, creatures |-> s, down |-> u.down, hidden |-> h,
   view |-> u.view]

\* A tile where other creatures stand, or others are hidden.
OnceEach(s) == \A i, j \in 1 .. Len(s) : s[i] = s[j] => i = j

LEMMA CreaturesChanged ==
  ASSUME NEW u, Laid(u), NEW s \in Seq(Members), OnceEach(s), NEW h \in SUBSET Members
  PROVE  /\ Laid(TileWith(u, s, h)) /\ Standing(TileWith(u, s, h))
         /\ TileWith(u, s, h).ground = u.ground
         /\ TileWith(u, s, h).top = u.top /\ TileWith(u, s, h).down = u.down
         /\ TileWith(u, s, h).creatures = s /\ TileWith(u, s, h).hidden = h
         /\ TileWith(u, s, h).view = u.view
         /\ Tile!Description(TileWith(u, s, h))
              = Whole(u.ground, u.top, Tile!Seen(TileWith(u, s, h)), u.down)
<1> DEFINE n == TileWith(u, s, h)
<1>1. /\ n.ground = u.ground /\ n.top = u.top /\ n.down = u.down
      /\ n.creatures = s /\ n.hidden = h /\ n.view = u.view
  BY DEF TileWith
<1>2. IsTile(n)
  BY DEF IsTile, Seeing, TileWith
<1> HIDE DEF n
<1>3. Standing(n)
  BY <1>1 DEF Standing, OnceEach
<1>4. Laid(n)
  BY <1>1, <1>2, <1>3 DEF Laid
<1>5. Tile!Description(n) = Whole(u.ground, u.top, Tile!Seen(n), u.down)
  BY <1>1, <1>4, PartsOf
<1> QED
  BY <1>1, <1>3, <1>4, <1>5 DEF n

LEMMA CreaturesExcept ==
  ASSUME NEW u, Laid(u), NEW s, NEW h
  PROVE  /\ [u EXCEPT !.creatures = s] = TileWith(u, s, u.hidden)
         /\ [u EXCEPT !.hidden = h] = TileWith(u, u.creatures, h)
<1> DEFINE a == u.ground
           b == u.top
           c == u.creatures
           d == u.down
           g == u.hidden
           v == u.view
<1>1. u = [ground |-> a, top |-> b, creatures |-> c, down |-> d, hidden |-> g, view |-> v]
  BY DEF Laid, IsTile, Seeing
<1> HIDE DEF a, b, c, d, g, v
<1>2. /\ [u EXCEPT !.creatures = s]
           = [ground |-> a, top |-> b, creatures |-> s, down |-> d, hidden |-> g, view |-> v]
      /\ [u EXCEPT !.hidden = h]
           = [ground |-> a, top |-> b, creatures |-> c, down |-> d, hidden |-> h, view |-> v]
  BY <1>1
<1> QED
  BY <1>2 DEF TileWith, a, b, c, d, g, v

\* Two tiles that differ in a creature, seen on one of them only.
SeenOnOne(u, n, c, i) ==
  \E A, B \in Seq(Things) :
    /\ Tile!Description(u) = (A \o <<c>>) \o B /\ Tile!Description(n) = A \o B
    /\ i = Len(A) + 1

LEMMA OneIsSeen ==
  ASSUME NEW u, Laid(u), NEW n, Laid(n), u.ground = n.ground, u.top = n.top, u.down = n.down,
         NEW c \in Members, NEW P \in Seq(Members), NEW R \in Seq(Members),
         Tile!Seen(u) = (P \o <<c>>) \o R, Tile!Seen(n) = P \o R
  PROVE  SeenOnOne(u, n, c, Len(u.ground) + Len(u.top) + Len(P) + 1)
<1> DEFINE A == (u.ground \o u.top) \o P
           B == R \o u.down
<1>1. /\ u.ground \in Seq(Things) /\ u.top \in Seq(Things) /\ u.down \in Seq(Things)
      /\ Tile!Description(u) = Whole(u.ground, u.top, Tile!Seen(u), u.down)
  BY PartsOf
<1>2. Tile!Description(n) = Whole(u.ground, u.top, Tile!Seen(n), u.down)
  BY PartsOf
<1>3. P \in Seq(Things) /\ R \in Seq(Things) /\ <<c>> \in Seq(Things)
  BY PartThings
<1>4. CreaturesCut(Things, u.ground, u.top, P, R, u.down)
  BY <1>1, <1>3, WholeInCreatures
<1>5. /\ A \in Seq(Things) /\ B \in Seq(Things)
      /\ Tile!Description(u) = (A \o <<c>>) \o B /\ Tile!Description(n) = A \o B
  BY <1>1, <1>2, <1>3, <1>4 DEF CreaturesCut
<1>6. Len(A) = Len(u.ground) + Len(u.top) + Len(P)
  BY <1>1, <1>3, LenOfThree
<1> HIDE DEF A, B
<1>7. Len(u.ground) + Len(u.top) + Len(P) + 1 = Len(A) + 1
  BY <1>6
<1> QED
  BY <1>5, <1>7, Zenon DEF SeenOnOne

\* A creature's place.
LEMMA PlaceFacts ==
  ASSUME NEW u, Laid(u), NEW c, c \in Tile!ToSet(u.creatures)
  PROVE  /\ Tile!PlaceOf(u, c) \in 1 .. Len(u.creatures) /\ u.creatures[Tile!PlaceOf(u, c)] = c
         /\ \A i \in 1 .. Len(u.creatures) : u.creatures[i] = c => i = Tile!PlaceOf(u, c)
         /\ c \in Members
<1>1. u.creatures \in Seq(Members) /\ OnceEach(u.creatures)
  BY DEF Laid, Standing, OnceEach
<1>2. DOMAIN u.creatures = 1 .. Len(u.creatures)
  BY <1>1
<1>3. \E k \in DOMAIN u.creatures : u.creatures[k] = c
  BY DEF Tile!ToSet
<1>4. Tile!PlaceOf(u, c) \in DOMAIN u.creatures /\ u.creatures[Tile!PlaceOf(u, c)] = c
  BY <1>3, Zenon DEF Tile!PlaceOf
<1> QED
  BY <1>1, <1>2, <1>4 DEF OnceEach

\* What is seen up to a creature, and what with it.
LEMMA SeenUpTo ==
  ASSUME NEW u, Laid(u), NEW p \in 1 .. Len(u.creatures)
  PROVE  LET m == Len(u.creatures) - p
             P == Tile!SeenOf(u, m)
             c == u.creatures[p] IN
         /\ P \in Seq(Members) /\ m \in Nat /\ Nth(u, m + 1) = c
         /\ Tile!SeenOf(u, m + 1) = IF c \in u.hidden THEN P ELSE P \o <<c>>
<1> DEFINE m == Len(u.creatures) - p
           P == Tile!SeenOf(u, m)
           c == u.creatures[p]
<1>1. Standing(u) /\ Len(u.creatures) \in Nat /\ c \in Members
  BY DEF Laid, Standing
<1>2. m \in Nat /\ m + 1 <= Len(u.creatures) /\ m <= Len(u.creatures) /\ Len(u.creatures) - m = p
  BY <1>1
<1> HIDE DEF m
<1>3. P \in Seq(Members)
  BY <1>1, <1>2, SeenType
<1>4. Nth(u, m + 1) = c
  BY <1>1, <1>2, NthFacts
<1>5. Tile!SeenOf(u, m + 1) = IF Nth(u, m + 1) \in u.hidden THEN P ELSE Append(P, Nth(u, m + 1))
  BY <1>2, SeenSteps
<1> HIDE DEF P, c
<1>6. Append(P, c) = P \o <<c>>
  BY <1>1, <1>3, AppendIsConcat
<1>7. Tile!SeenOf(u, m + 1) = IF c \in u.hidden THEN P ELSE P \o <<c>>
  BY <1>4, <1>5, <1>6
<1> QED
  BY <1>2, <1>3, <1>4, <1>7 DEF m, P, c

\* Begun alike, seen alike.
LEMMA SeenFromStart ==
  ASSUME NEW u, Standing(u), NEW v, Standing(v), NEW k \in Nat,
         k <= Len(u.creatures), k <= Len(v.creatures), Alike(u, 0, v, 0, k)
  PROVE  Tile!SeenOf(u, k) = Tile!SeenOf(v, k)
<1>1. 0 + k = k /\ 0 \in Nat
  OBVIOUS
<1>2. 0 + k <= Len(u.creatures) /\ 0 + k <= Len(v.creatures)
  BY <1>1
<1>3. Followed(u, 0, v, 0, k)
  BY <1>1, <1>2, SeenAlike
<1>4. PICK R \in Seq(Members) : Tile!SeenOf(u, 0 + k) = Tile!SeenOf(u, 0) \o R
                                /\ Tile!SeenOf(v, 0 + k) = Tile!SeenOf(v, 0) \o R
  BY <1>3 DEF Followed
<1>5. Tile!SeenOf(u, 0) = << >> /\ Tile!SeenOf(v, 0) = << >>
  BY SeenSteps
<1> QED
  BY <1>1, <1>4, <1>5

\* A creature that stands there is hidden, or not: u sees it, n does not.
LEMMA HiddenOnOne ==
  ASSUME NEW u, Laid(u), NEW n, Laid(n), u.ground = n.ground, u.top = n.top, u.down = n.down,
         u.creatures = n.creatures, NEW c, c \in Tile!ToSet(u.creatures),
         c \notin u.hidden, n.hidden = u.hidden \cup {c}
  PROVE  /\ Tile!CreatureIndex(u, c) = Tile!CreatureIndex(n, c)
         /\ SeenOnOne(u, n, c, Tile!CreatureIndex(u, c))
<1> DEFINE s == u.creatures
           p == Tile!PlaceOf(u, c)
           m == Len(s) - p
           P == Tile!SeenOf(u, m)
<1>1. Standing(u) /\ Standing(n) /\ Len(s) \in Nat
  BY DEF Laid, Standing
<1>2. /\ p \in 1 .. Len(s) /\ s[p] = c /\ c \in Members
      /\ \A i \in 1 .. Len(s) : s[i] = c => i = p
  BY PlaceFacts
<1>3. Tile!PlaceOf(n, c) = p
  BY Zenon DEF Tile!PlaceOf
<1> HIDE DEF p
<1>4. m \in Nat /\ m + 1 <= Len(s) /\ m <= Len(s) /\ p - 1 \in Nat /\ (m + 1) + (p - 1) = Len(s)
      /\ m + 1 \in Nat
  BY <1>1, <1>2
<1>5. \A k : Nth(u, k) = Nth(n, k)
  BY Zenon DEF Nth
<1>6. \A k \in 1 .. Len(s) : k # m + 1 => (Nth(u, k) \in u.hidden <=> Nth(n, k) \in n.hidden)
  <2> TAKE k \in 1 .. Len(s)
  <2>0. k \in 1 .. Len(s) /\ Len(s) \in Nat /\ p \in 1 .. Len(s)
    BY <1>1, <1>2
  <2>1. Len(s) - k + 1 \in 1 .. Len(s) /\ (k # m + 1 => Len(s) - k + 1 # p)
    BY <2>0, SMTT(40)
  <2>2. k # m + 1 => s[Len(s) - k + 1] # c
    BY <1>2, <2>1
  <2>3. Nth(u, k) = s[Len(s) - k + 1]
    BY DEF Nth
  <2> QED
    BY <1>5, <2>2, <2>3
<1>7. Tile!SeenOf(n, m) = P
  <2>1. Alike(u, 0, n, 0, m)
    <3>1. \A j \in 1 .. m : 0 + j \in 1 .. Len(s) /\ 0 + j # m + 1
      BY <1>4
    <3> HIDE DEF m, s
    <3> QED
      BY <1>5, <1>6, <3>1 DEF Alike
  <2>2. m <= Len(u.creatures) /\ m <= Len(n.creatures)
    BY <1>4
  <2> HIDE DEF m
  <2> QED
    BY <1>1, <1>4, <2>1, <2>2, SeenFromStart
<1>8. Followed(u, m + 1, n, m + 1, p - 1)
  <2>1. Alike(u, m + 1, n, m + 1, p - 1)
    <3>1. \A j \in 1 .. p - 1 : (m + 1) + j \in 1 .. Len(s) /\ (m + 1) + j # m + 1
      BY <1>4
    <3> HIDE DEF m, s
    <3> QED
      BY <1>5, <1>6, <3>1 DEF Alike
  <2>2. (m + 1) + (p - 1) <= Len(u.creatures) /\ (m + 1) + (p - 1) <= Len(n.creatures)
    BY <1>4
  <2> HIDE DEF m, s
  <2> QED
    BY <1>1, <1>4, <2>1, <2>2, SeenAlike
<1>9. PICK R \in Seq(Members) : /\ Tile!SeenOf(u, (m + 1) + (p - 1)) = Tile!SeenOf(u, m + 1) \o R
                                /\ Tile!SeenOf(n, (m + 1) + (p - 1)) = Tile!SeenOf(n, m + 1) \o R
  BY <1>8 DEF Followed
<1>10. P \in Seq(Members) /\ Tile!SeenOf(u, m + 1) = P \o <<c>>
  <2>1. P \in Seq(Members) /\ Tile!SeenOf(u, m + 1) = IF s[p] \in u.hidden THEN P ELSE P \o <<s[p]>>
    BY <1>2, SeenUpTo
  <2> HIDE DEF P
  <2> QED
    BY <1>2, <2>1
<1>11. Tile!SeenOf(n, m + 1) = P
  <2>1. p \in 1 .. Len(n.creatures) /\ n.creatures[p] = c /\ Len(n.creatures) - p = m /\ c \in n.hidden
    BY <1>2
  <2>2. Tile!SeenOf(n, m + 1) = Tile!SeenOf(n, m)
    BY <2>1, SeenUpTo
  <2> QED
    BY <1>7, <2>2
<1>12. Tile!Seen(u) = (P \o <<c>>) \o R /\ Tile!Seen(n) = P \o R
  <2>1. Tile!Seen(u) = Tile!SeenOf(u, Len(s)) /\ Tile!Seen(n) = Tile!SeenOf(n, Len(s))
    BY DEF Tile!Seen
  <2> HIDE DEF m, s, P
  <2> QED
    BY <1>4, <1>9, <1>10, <1>11, <2>1
<1>13. Tile!CreatureIndex(u, c) = Len(u.ground) + Len(u.top) + Len(P) + 1
  BY DEF Tile!CreatureIndex, p
<1>14. Tile!CreatureIndex(n, c) = Len(u.ground) + Len(u.top) + Len(P) + 1
  BY <1>3, <1>7 DEF Tile!CreatureIndex
<1> HIDE DEF P, m, s
<1>15. SeenOnOne(u, n, c, Len(u.ground) + Len(u.top) + Len(P) + 1)
  BY <1>2, <1>10, <1>12, OneIsSeen
<1> QED
  BY <1>13, <1>14, <1>15

\* What the client knows, of a creature that is seen on one tile only.
LEMMA HideKeeps ==
  ASSUME TilesAssumption, TileSound(w), NEW c \in Members, Tile!Hide(c)
  PROVE  TileSound(w')
<1> DEFINE n == [w EXCEPT !.hidden = w.hidden \cup {c}]
<1>1. Laid(w) /\ Knows(w.view, Tile!Description(w)) /\ c \notin w.hidden
  BY DEF TileSound, Tile!Hide
<1>2. n = TileWith(w, w.creatures, w.hidden \cup {c})
  BY <1>1, CreaturesExcept
<1>3. w.creatures \in Seq(Members) /\ OnceEach(w.creatures) /\ w.hidden \cup {c} \in SUBSET Members
  BY <1>1 DEF Laid, Standing, OnceEach
<1>4. /\ Laid(n) /\ Standing(n) /\ n.ground = w.ground /\ n.top = w.top /\ n.down = w.down
      /\ n.creatures = w.creatures /\ n.hidden = w.hidden \cup {c} /\ n.view = w.view
  BY <1>1, <1>2, <1>3, CreaturesChanged
<1>5. w' = CASE c \notin Tile!ToSet(w.creatures) -> n
             [] /\ c \in Tile!ToSet(w.creatures) /\ Tile!CreatureIndex(w, c) <= Limit
                /\ Len(Tile!Description(w)) > Limit -> [n EXCEPT !.view = Tile!Lost]
             [] OTHER -> Tile!ClientRemove(n, Tile!CreatureIndex(w, c))
  BY DEF Tile!Hide
<1> HIDE DEF n
<1>6. CASE c \notin Tile!ToSet(w.creatures)
  <2>1. w' = n
    BY <1>5, <1>6
  <2>2. Alike(w, 0, n, 0, Len(w.creatures))
    <3>1. \A k \in 1 .. Len(w.creatures) : w.creatures[k] # c
      BY <1>3, <1>6 DEF Tile!ToSet
    <3>2. \A j \in 1 .. Len(w.creatures) : Len(w.creatures) - (0 + j) + 1 \in 1 .. Len(w.creatures)
      BY <1>3
    <3>3. \A j \in 1 .. Len(w.creatures) : Nth(w, 0 + j) # c
      BY <3>1, <3>2 DEF Nth
    <3>4. \A k : Nth(w, k) = Nth(n, k)
      BY <1>4, Zenon DEF Nth
    <3> QED
      BY <1>4, <3>3, <3>4 DEF Alike
  <2>3. Tile!Seen(w) = Tile!Seen(n)
    <3>1. Standing(w) /\ Standing(n) /\ Len(w.creatures) \in Nat /\ Len(w.creatures) <= Len(w.creatures)
          /\ Len(w.creatures) = Len(n.creatures)
      BY <1>1, <1>3, <1>4 DEF Laid
    <3>2. Tile!SeenOf(w, Len(w.creatures)) = Tile!SeenOf(n, Len(w.creatures))
      BY <2>2, <3>1, SeenFromStart
    <3> QED
      BY <3>1, <3>2 DEF Tile!Seen
  <2>4. Tile!Description(n) = Tile!Description(w)
    BY <1>4, <2>3 DEF Tile!Description
  <2> QED
    BY <1>1, <1>4, <2>1, <2>4 DEF TileSound
<1>7. CASE c \in Tile!ToSet(w.creatures)
  <2> DEFINE i == Tile!CreatureIndex(w, c)
  <2>1. SeenOnOne(w, n, c, i)
    BY <1>1, <1>4, <1>7, HiddenOnOne
  <2> HIDE DEF i
  <2>2. PICK A, B \in Seq(Things) :
          /\ Tile!Description(w) = (A \o <<c>>) \o B /\ Tile!Description(n) = A \o B
          /\ i = Len(A) + 1
    BY <2>1 DEF SeenOnOne
  <2>3. CASE i <= Limit /\ Len(Tile!Description(w)) > Limit
    <3>1. w' = [n EXCEPT !.view = Tile!Lost]
      BY <1>5, <1>7, <2>3 DEF i
    <3>2. [n EXCEPT !.view = Tile!Lost] = Seeing(n, Tile!Lost)
      BY <1>4, SeeingFacts DEF Laid
    <3>3. TileSound(Seeing(n, Tile!Lost))
      BY <1>4, SeeingSame DEF TileSound, Knows
    <3> QED
      BY <3>1, <3>2, <3>3
  <2>4. CASE ~(i <= Limit /\ Len(Tile!Description(w)) > Limit)
    <3>1. w' = Tile!ClientRemove(n, i)
      BY <1>5, <1>7, <2>4 DEF i
    <3>2. c \in Things /\ IsTile(n) /\ Knows(n.view, (A \o <<c>>) \o B)
      BY <1>1, <1>4, <2>2, PartThings DEF Laid
    <3>3. PICK v : /\ Tile!ClientRemove(n, i) = Seeing(n, v)
                   /\ i > Limit \/ Len(A) + 1 + Len(B) <= Limit => Knows(v, A \o B)
      BY <2>2, <3>2, RemoveKnows
    <3>4. Len((A \o <<c>>) \o B) = Len(A) + 1 + Len(B)
      BY <3>2, CutFacts
    <3>5. i > Limit \/ Len(A) + 1 + Len(B) <= Limit
      <4>1. i \in Nat /\ Limit \in Nat /\ Len(Tile!Description(w)) \in Nat
            /\ Len(Tile!Description(w)) = Len(A) + 1 + Len(B)
        BY <1>1, <2>2, <3>4, PartsOf DEF TilesAssumption
      <4> QED
        BY <2>4, <4>1
    <3> DEFINE z == Seeing(n, v)
    <3>6. Laid(z) /\ Tile!Description(z) = Tile!Description(n) /\ z.view = v
      BY <1>4, SeeingSame
    <3> HIDE DEF z
    <3>7. TileSound(z)
      BY <2>2, <3>3, <3>5, <3>6 DEF TileSound
    <3> QED
      BY <3>1, <3>3, <3>7 DEF z
  <2> QED
    BY <2>3, <2>4
<1> QED
  BY <1>6, <1>7

LEMMA ShowKeeps ==
  ASSUME TilesAssumption, TileSound(w), NEW c \in Members, Tile!Show(c)
  PROVE  TileSound(w')
<1> DEFINE n == [w EXCEPT !.hidden = w.hidden \ {c}]
           i == Tile!CreatureIndex(n, c)
<1>1. Laid(w) /\ Knows(w.view, Tile!Description(w)) /\ c \in w.hidden
  BY DEF TileSound, Tile!Show
<1>2. n = TileWith(w, w.creatures, w.hidden \ {c})
  BY <1>1, CreaturesExcept
<1>3. w.creatures \in Seq(Members) /\ OnceEach(w.creatures) /\ w.hidden \ {c} \in SUBSET Members
  BY <1>1 DEF Laid, Standing, OnceEach
<1>4. /\ Laid(n) /\ Standing(n) /\ n.ground = w.ground /\ n.top = w.top /\ n.down = w.down
      /\ n.creatures = w.creatures /\ n.hidden = w.hidden \ {c} /\ n.view = w.view
  BY <1>1, <1>2, <1>3, CreaturesChanged
<1>5. w' = IF c \in Tile!ToSet(w.creatures) THEN Tile!ClientAdd(n, i, c) ELSE n
  BY DEF Tile!Show
<1> HIDE DEF n, i
<1>6. CASE c \notin Tile!ToSet(w.creatures)
  <2>1. w' = n
    BY <1>5, <1>6
  <2>2. Alike(w, 0, n, 0, Len(w.creatures))
    <3>1. \A k \in 1 .. Len(w.creatures) : w.creatures[k] # c
      BY <1>3, <1>6 DEF Tile!ToSet
    <3>2. \A j \in 1 .. Len(w.creatures) : Len(w.creatures) - (0 + j) + 1 \in 1 .. Len(w.creatures)
      BY <1>3
    <3>3. \A j \in 1 .. Len(w.creatures) : Nth(w, 0 + j) # c
      BY <3>1, <3>2 DEF Nth
    <3>4. \A k : Nth(w, k) = Nth(n, k)
      BY <1>4, Zenon DEF Nth
    <3> QED
      BY <1>4, <3>3, <3>4 DEF Alike
  <2>3. Tile!Seen(w) = Tile!Seen(n)
    <3>1. Standing(w) /\ Standing(n) /\ Len(w.creatures) \in Nat /\ Len(w.creatures) <= Len(w.creatures)
          /\ Len(w.creatures) = Len(n.creatures)
      BY <1>1, <1>3, <1>4 DEF Laid
    <3>2. Tile!SeenOf(w, Len(w.creatures)) = Tile!SeenOf(n, Len(w.creatures))
      BY <2>2, <3>1, SeenFromStart
    <3> QED
      BY <3>1, <3>2 DEF Tile!Seen
  <2>4. Tile!Description(n) = Tile!Description(w)
    BY <1>4, <2>3 DEF Tile!Description
  <2> QED
    BY <1>1, <1>4, <2>1, <2>4 DEF TileSound
<1>7. CASE c \in Tile!ToSet(w.creatures)
  <2>1. SeenOnOne(n, w, c, i)
    <3>1. w.hidden = n.hidden \cup {c} /\ c \notin n.hidden /\ c \in Tile!ToSet(n.creatures)
      BY <1>1, <1>4, <1>7
    <3> QED
      BY <1>1, <1>4, <3>1, HiddenOnOne DEF i
  <2>2. PICK A, B \in Seq(Things) :
          /\ Tile!Description(n) = (A \o <<c>>) \o B /\ Tile!Description(w) = A \o B
          /\ i = Len(A) + 1
    BY <2>1 DEF SeenOnOne
  <2>3. c \in Things /\ Knows(n.view, A \o B)
    BY <1>1, <1>4, <2>2, PartThings
  <2>4. TileSound(Tile!ClientAdd(n, i, c))
    BY <1>4, <2>2, <2>3, AddKeeps
  <2> QED
    BY <1>5, <1>7, <2>4
<1> QED
  BY <1>6, <1>7

\* Tile::moveCreature, Game::removeCreature.
LEMMA GoneFacts ==
  ASSUME NEW s \in Seq(Members), OnceEach(s), NEW p \in 1 .. Len(s)
  PROVE  /\ Tile!RemoveAt(s, p) \in Seq(Members) /\ OnceEach(Tile!RemoveAt(s, p))
         /\ Len(Tile!RemoveAt(s, p)) = Len(s) - 1
         /\ \A k \in 1 .. Len(s) - 1 :
              Tile!RemoveAt(s, p)[k] = IF k < p THEN s[k] ELSE s[k + 1]
<1> DEFINE P == Before(s, p)
           Q == After(s, p)
           r == Tile!RemoveAt(s, p)
<1>0. Len(s) \in Nat /\ p \in Nat /\ s[p] \in Members
  OBVIOUS
<1>1. CutsAt(Members, s, p)
  BY CutAt
<1>2. /\ P \in Seq(Members) /\ Q \in Seq(Members) /\ Len(P) = p - 1 /\ s = (P \o <<s[p]>>) \o Q
      /\ r = P \o Q
  BY <1>1 DEF CutsAt
<1> HIDE DEF P, Q, r
<1>3. /\ r \in Seq(Members) /\ Len(r) = Len(P) + Len(Q) /\ Len(Q) \in Nat
      /\ \A k \in 1 .. Len(P) : r[k] = P[k]
      /\ \A k \in 1 .. Len(Q) : r[Len(P) + k] = Q[k]
  <2>1. P \in Seq(Members) /\ Q \in Seq(Members) /\ r = P \o Q
    BY <1>2
  <2>2. \A A, B \in Seq(Members) :
          /\ A \o B \in Seq(Members) /\ Len(A \o B) = Len(A) + Len(B) /\ Len(B) \in Nat
          /\ \A k \in 1 .. Len(A) : (A \o B)[k] = A[k]
          /\ \A k \in 1 .. Len(B) : (A \o B)[Len(A) + k] = B[k]
    <3> TAKE A, B \in Seq(Members)
    <3> QED
      OBVIOUS
  <2> QED
    BY <2>1, <2>2
<1>4. LET D == (P \o <<s[p]>>) \o Q IN
      /\ Len(D) = Len(P) + 1 + Len(Q)
      /\ \A k \in 1 .. Len(P) : D[k] = P[k]
      /\ \A k \in 1 .. Len(Q) : D[Len(P) + 1 + k] = Q[k]
  <2>1. P \in Seq(Members) /\ Q \in Seq(Members)
    BY <1>2
  <2> QED
    BY <1>0, <2>1, CutFacts
<1>5. /\ Len(s) = Len(P) + 1 + Len(Q)
      /\ \A k \in 1 .. Len(P) : s[k] = P[k]
      /\ \A k \in 1 .. Len(Q) : s[Len(P) + 1 + k] = Q[k]
  BY <1>2, <1>4
<1>6. Len(r) = Len(s) - 1
  BY <1>0, <1>2, <1>3, <1>5
<1>7. ASSUME NEW k \in 1 .. Len(s) - 1
      PROVE  r[k] = IF k < p THEN s[k] ELSE s[k + 1]
  <2>1. CASE k < p
    <3>1. k \in 1 .. Len(P)
      BY <1>0, <1>2, <2>1
    <3> QED
      BY <1>3, <1>5, <2>1, <3>1
  <2>2. CASE ~(k < p)
    <3>1. k - Len(P) \in 1 .. Len(Q) /\ Len(P) + (k - Len(P)) = k /\ Len(P) + 1 + (k - Len(P)) = k + 1
      BY <1>0, <1>2, <1>3, <1>5, <2>2
    <3>2. r[Len(P) + (k - Len(P))] = Q[k - Len(P)] /\ s[Len(P) + 1 + (k - Len(P))] = Q[k - Len(P)]
      BY <1>3, <1>5, <3>1
    <3> QED
      BY <2>2, <3>1, <3>2
  <2> QED
    BY <2>1, <2>2
<1>8. OnceEach(r)
  <2> SUFFICES ASSUME NEW i \in 1 .. Len(r), NEW j \in 1 .. Len(r), r[i] = r[j] PROVE i = j
    BY DEF OnceEach
  <2>1. i \in 1 .. Len(s) - 1 /\ j \in 1 .. Len(s) - 1 /\ i \in Nat /\ j \in Nat
    BY <1>0, <1>6
  <2>2. PICK a \in 1 .. Len(s) : r[i] = s[a] /\ a = IF i < p THEN i ELSE i + 1
    <3>1. i \in 1 .. Len(s) /\ i + 1 \in 1 .. Len(s)
      BY <1>0, <2>1
    <3> QED
      BY <1>7, <2>1, <3>1
  <2>3. PICK b \in 1 .. Len(s) : r[j] = s[b] /\ b = IF j < p THEN j ELSE j + 1
    <3>1. j \in 1 .. Len(s) /\ j + 1 \in 1 .. Len(s)
      BY <1>0, <2>1
    <3> QED
      BY <1>7, <2>1, <3>1
  <2>4. a = b
    BY <2>2, <2>3 DEF OnceEach
  <2> QED
    BY <1>0, <2>1, <2>2, <2>3, <2>4
<1> QED
  BY <1>3, <1>6, <1>7, <1>8 DEF r

LEMMA LeaveKeeps ==
  ASSUME TilesAssumption, TileSound(w), NEW c \in Members, Tile!Leave(c)
  PROVE  TileSound(w')
<1> DEFINE s == w.creatures
           p == Tile!PlaceOf(w, c)
           r == Tile!RemoveAt(s, p)
           n == [w EXCEPT !.creatures = r]
           i == Tile!CreatureIndex(w, c)
           m == Len(s) - p
           P == Tile!SeenOf(w, m)
<1>1. Laid(w) /\ Knows(w.view, Tile!Description(w)) /\ c \in Tile!ToSet(s)
  BY DEF TileSound, Tile!Leave
<1>2. w' = Tile!PostRemove(IF c \in w.hidden THEN n ELSE Tile!ClientRemove(n, i))
  BY DEF Tile!Leave
<1>3. /\ s \in Seq(Members) /\ OnceEach(s) /\ w.hidden \in SUBSET Members /\ Len(s) \in Nat
      /\ Standing(w)
  BY <1>1 DEF Laid, Standing, OnceEach
<1>4. p \in 1 .. Len(s) /\ s[p] = c
  BY <1>1, PlaceFacts
<1>5. i = Len(w.ground) + Len(w.top) + Len(P) + 1
  BY DEF Tile!CreatureIndex
<1> HIDE DEF p, i
<1>6. /\ r \in Seq(Members) /\ OnceEach(r) /\ Len(r) = Len(s) - 1
      /\ \A k \in 1 .. Len(s) - 1 : r[k] = IF k < p THEN s[k] ELSE s[k + 1]
  BY <1>3, <1>4, GoneFacts
<1> HIDE DEF r
<1>7. n = TileWith(w, r, w.hidden)
  BY <1>1, CreaturesExcept
<1>8. /\ Laid(n) /\ Standing(n) /\ n.ground = w.ground /\ n.top = w.top /\ n.down = w.down
      /\ n.creatures = r /\ n.hidden = w.hidden /\ n.view = w.view
  BY <1>1, <1>3, <1>6, <1>7, CreaturesChanged
<1> HIDE DEF n
<1>9. /\ m \in Nat /\ m <= Len(s) /\ m <= Len(r) /\ m + 1 <= Len(s) /\ p - 1 \in Nat /\ m + 1 \in Nat
      /\ (m + 1) + (p - 1) = Len(s) /\ m + (p - 1) = Len(r)
  BY <1>3, <1>4, <1>6
<1>10. Tile!SeenOf(n, m) = P
  <2>1. Alike(w, 0, n, 0, m)
    <3> SUFFICES ASSUME NEW j \in 1 .. m PROVE Nth(w, 0 + j) = Nth(n, 0 + j)
      BY <1>8, Zenon DEF Alike
    <3>1. /\ 0 + j = j /\ Len(s) - j + 1 = (Len(r) - j + 1) + 1 /\ ~(Len(r) - j + 1 < p)
          /\ Len(r) - j + 1 \in 1 .. Len(s) - 1
      <4>1. Len(s) \in Nat /\ p \in 1 .. Len(s) /\ Len(r) = Len(s) - 1
        BY <1>3, <1>4, <1>6
      <4>2. \A x \in Nat : \A q \in 1 .. x : \A k \in 1 .. x - q :
              /\ 0 + k = k /\ x - k + 1 = ((x - 1) - k + 1) + 1 /\ ~((x - 1) - k + 1 < q)
              /\ (x - 1) - k + 1 \in 1 .. x - 1
        OBVIOUS
      <4> QED
        BY <4>1, <4>2
    <3> DEFINE a == Len(r) - j + 1
               b == Len(s) - j + 1
    <3>2. a \in 1 .. Len(s) - 1 /\ ~(a < p) /\ b = a + 1
      BY <3>1
    <3> HIDE DEF a, b
    <3>3. r[a] = s[b]
      BY <1>6, <3>2
    <3>4. Nth(w, j) = s[b] /\ Nth(n, j) = r[a]
      BY <1>8, Zenon DEF Nth, a, b
    <3> QED
      BY <3>1, <3>3, <3>4
  <2>2. m <= Len(w.creatures) /\ m <= Len(n.creatures)
    BY <1>8, <1>9
  <2> HIDE DEF m, s
  <2> QED
    BY <1>3, <1>8, <1>9, <2>1, <2>2, SeenFromStart
<1>11. Followed(w, m + 1, n, m, p - 1)
  <2>1. Alike(w, m + 1, n, m, p - 1)
    <3> SUFFICES ASSUME NEW j \in 1 .. p - 1 PROVE Nth(w, (m + 1) + j) = Nth(n, m + j)
      BY <1>8, Zenon DEF Alike
    <3>1. /\ Len(s) - ((m + 1) + j) + 1 = Len(r) - (m + j) + 1 /\ Len(r) - (m + j) + 1 < p
          /\ Len(r) - (m + j) + 1 \in 1 .. Len(s) - 1
      <4>1. Len(s) \in Nat /\ p \in 1 .. Len(s) /\ Len(r) = Len(s) - 1
        BY <1>3, <1>4, <1>6
      <4>2. \A x \in Nat : \A q \in 1 .. x : \A k \in 1 .. q - 1 :
              /\ x - ((x - q + 1) + k) + 1 = (x - 1) - (x - q + k) + 1
              /\ (x - 1) - (x - q + k) + 1 < q
              /\ (x - 1) - (x - q + k) + 1 \in 1 .. x - 1
        OBVIOUS
      <4> QED
        BY <4>1, <4>2
    <3> DEFINE a == Len(r) - (m + j) + 1
               b == Len(s) - ((m + 1) + j) + 1
    <3>2. a \in 1 .. Len(s) - 1 /\ a < p /\ b = a
      BY <3>1
    <3> HIDE DEF a, b
    <3>3. r[a] = s[b]
      BY <1>6, <3>2
    <3>4. Nth(w, (m + 1) + j) = s[b] /\ Nth(n, m + j) = r[a]
      BY <1>8, Zenon DEF Nth, a, b
    <3> QED
      BY <3>3, <3>4
  <2>2. (m + 1) + (p - 1) <= Len(w.creatures) /\ m + (p - 1) <= Len(n.creatures)
    BY <1>8, <1>9
  <2> HIDE DEF m, s
  <2> QED
    BY <1>3, <1>8, <1>9, <2>1, <2>2, SeenAlike
<1>12. PICK R \in Seq(Members) : /\ Tile!SeenOf(w, (m + 1) + (p - 1)) = Tile!SeenOf(w, m + 1) \o R
                                 /\ Tile!SeenOf(n, m + (p - 1)) = Tile!SeenOf(n, m) \o R
  BY <1>11 DEF Followed
<1>13. P \in Seq(Members) /\ Tile!SeenOf(w, m + 1) = IF c \in w.hidden THEN P ELSE P \o <<c>>
  <2>1. P \in Seq(Members) /\ Tile!SeenOf(w, m + 1) = IF s[p] \in w.hidden THEN P ELSE P \o <<s[p]>>
    BY <1>1, <1>4, SeenUpTo
  <2> HIDE DEF P
  <2> QED
    BY <1>4, <2>1
<1>14. Tile!Seen(w) = Tile!SeenOf(w, (m + 1) + (p - 1)) /\ Tile!Seen(n) = Tile!SeenOf(n, m + (p - 1))
  <2>1. Tile!Seen(w) = Tile!SeenOf(w, Len(s)) /\ Tile!Seen(n) = Tile!SeenOf(n, Len(r))
    BY <1>8 DEF Tile!Seen
  <2> HIDE DEF m, s
  <2> QED
    BY <1>9, <2>1
<1> HIDE DEF m, s, P
<1>15. CASE c \in w.hidden
  <2>1. Tile!Seen(n) = Tile!Seen(w)
    BY <1>10, <1>12, <1>13, <1>14, <1>15
  <2>2. Tile!Description(n) = Tile!Description(w)
    BY <1>8, <2>1 DEF Tile!Description
  <2>3. TileSound(n)
    BY <1>1, <1>8, <2>2 DEF TileSound
  <2> QED
    BY <1>2, <1>15, <2>3, NotifiedSame
<1>16. CASE c \notin w.hidden
  <2>1. Tile!Seen(w) = (P \o <<c>>) \o R /\ Tile!Seen(n) = P \o R
    BY <1>10, <1>12, <1>13, <1>14, <1>16
  <2>2. SeenOnOne(w, n, c, i)
    BY <1>1, <1>5, <1>8, <1>13, <2>1, OneIsSeen
  <2>3. PICK A, B \in Seq(Things) :
          /\ Tile!Description(w) = (A \o <<c>>) \o B /\ Tile!Description(n) = A \o B
          /\ i = Len(A) + 1
    BY <2>2 DEF SeenOnOne
  <2>4. c \in Things /\ Knows(n.view, (A \o <<c>>) \o B)
    BY <1>1, <1>8, <2>3, PartThings
  <2>5. TakenWell(n, i)
    BY <1>8, <2>3, <2>4, TakenKeeps
  <2> QED
    BY <1>2, <1>16, <2>5 DEF TakenWell
<1> QED
  BY <1>15, <1>16

\* Where the client puts who walks in.
Upper == Ground \cup Top \cup Members

LEMMA ClientPlaceFacts ==
  ASSUME TilesAssumption, NEW A \in Seq(Upper), NEW W \in Seq(Down), NEW u,
         u.view = Tile!First(A \o W)
  PROVE  Tile!ClientPlace(u) = (IF Len(A) > Limit THEN Limit ELSE Len(A)) + 1
<1> DEFINE s == A \o W
           v == Tile!First(s)
           m == IF Len(A) > Limit THEN Limit ELSE Len(A)
           I == {k \in DOMAIN u.view : u.view[k] \notin Down}
<1>0. Limit \in Nat /\ Len(A) \in Nat /\ Len(W) \in Nat /\ Upper \cap Down = {}
  BY DEF TilesAssumption, Upper
<1>1. A \in Seq(Things) /\ W \in Seq(Things)
  <2>1. Upper \subseteq Things /\ Down \subseteq Things
    BY DEF Upper, Things
  <2> QED
    BY <2>1
<1>2. /\ s \in Seq(Things) /\ Len(s) = Len(A) + Len(W)
      /\ \A k \in 1 .. Len(A) : s[k] = A[k]
      /\ \A k \in 1 .. Len(W) : s[Len(A) + k] = W[k]
  BY <1>1, JoinFacts
<1> HIDE DEF s
<1>3. /\ v \in Seq(Things) /\ Len(v) = IF Len(s) > Limit THEN Limit ELSE Len(s)
      /\ \A k \in 1 .. Len(v) : v[k] = s[k]
  BY <1>2, FirstFacts
<1>4. u.view = v
  BY DEF s
<1> HIDE DEF v
<1>5. I = {k \in 1 .. Len(v) : v[k] \notin Down}
  BY <1>3, <1>4
<1>6. \A k \in 1 .. Len(v) : v[k] \notin Down <=> k \in 1 .. m
  <2> TAKE k \in 1 .. Len(v)
  <2>1. k \in 1 .. Len(s) /\ k <= Limit /\ k \in Nat
    BY <1>0, <1>2, <1>3
  <2>2. CASE k <= Len(A)
    <3>1. k \in 1 .. Len(A) /\ k \in 1 .. m
      BY <1>0, <2>1, <2>2
    <3>2. v[k] \in Upper
      <4>1. A[k] \in Upper
        BY <3>1
      <4>2. v[k] = s[k] /\ s[k] = A[k]
        BY <1>2, <1>3, <3>1
      <4> QED
        BY <4>1, <4>2
    <3> QED
      BY <1>0, <3>1, <3>2
  <2>3. CASE ~(k <= Len(A))
    <3>1. k - Len(A) \in 1 .. Len(W) /\ Len(A) + (k - Len(A)) = k /\ k \notin 1 .. m
      BY <1>0, <1>2, <2>1, <2>3
    <3>2. s[Len(A) + (k - Len(A))] = W[k - Len(A)] /\ W[k - Len(A)] \in Down
      BY <1>2, <3>1
    <3> QED
      BY <1>3, <3>1, <3>2
  <2> QED
    BY <2>2, <2>3
<1>7. 1 .. m \subseteq 1 .. Len(v) /\ m \in Nat
  BY <1>0, <1>2, <1>3
<1> HIDE DEF m
<1>8. I = 1 .. m
  BY <1>5, <1>6, <1>7
<1> HIDE DEF I
<1>9. Cardinality(1 .. m) = m
  <2>1. 1 \in Int /\ m \in Int /\ (1 > m => m = 0) /\ m - 1 + 1 = m
    BY <1>7
  <2>2. Cardinality(1 .. m) = IF 1 > m THEN 0 ELSE m - 1 + 1
    BY <2>1, FS_Interval
  <2> QED
    BY <2>1, <2>2
<1>10. Tile!ClientPlace(u) = Cardinality(I) + 1
  BY Zenon DEF Tile!ClientPlace, I, Tile!Cardinality, Cardinality
<1> QED
  BY <1>8, <1>9, <1>10 DEF m

\* Tile::__addThing of a creature.
LEMMA ArriveKeeps ==
  ASSUME TilesAssumption, TileSound(w), NEW c \in Members, NEW seen \in BOOLEAN,
         Tile!Arrive(c, seen)
  PROVE  TileSound(w')
<1> DEFINE s == w.creatures
           t == <<c>> \o s
           n == [w EXCEPT !.creatures = t]
           P == Tile!Seen(w)
           A == (w.ground \o w.top) \o P
           W == w.down
           i == Tile!CreatureIndex(n, c)
<1>1. Laid(w) /\ Knows(w.view, Tile!Description(w)) /\ c \notin Tile!ToSet(s)
  BY DEF TileSound, Tile!Arrive
<1>2. w' = CASE c \in w.hidden -> n
             [] c \notin w.hidden /\ seen /\ w.view # Tile!Lost ->
                  Tile!ClientAdd(n, Tile!ClientPlace(w), c)
             [] OTHER -> Tile!ClientAdd(n, i, c)
  BY DEF Tile!Arrive
<1>3. /\ s \in Seq(Members) /\ OnceEach(s) /\ w.hidden \in SUBSET Members /\ Len(s) \in Nat
      /\ Standing(w)
  BY <1>1 DEF Laid, Standing, OnceEach
<1>4. /\ t \in Seq(Members) /\ Len(t) = Len(s) + 1 /\ t[1] = c
      /\ \A k \in 1 .. Len(s) : t[k + 1] = s[k]
  <2>1. <<c>> \in Seq(Members) /\ Len(<<c>>) = 1 /\ <<c>>[1] = c
    OBVIOUS
  <2> DEFINE C == <<c>>
  <2> HIDE DEF C
  <2>2. /\ C \o s \in Seq(Members) /\ Len(C \o s) = Len(C) + Len(s)
        /\ \A k \in 1 .. Len(C) : (C \o s)[k] = C[k]
        /\ \A k \in 1 .. Len(s) : (C \o s)[Len(C) + k] = s[k]
    BY <1>3, <2>1, JoinFacts DEF C
  <2>3. Len(C) = 1 /\ C[1] = c
    BY <2>1 DEF C
  <2> DEFINE z == C \o s
  <2> HIDE DEF z
  <2>4. /\ z \in Seq(Members) /\ Len(z) = Len(s) + 1 /\ z[1] = c
        /\ \A k \in 1 .. Len(s) : z[1 + k] = s[k]
    BY <1>3, <2>2, <2>3 DEF z
  <2>5. \A k \in 1 .. Len(s) : 1 + k = k + 1
    OBVIOUS
  <2> QED
    BY <2>4, <2>5 DEF z, C
<1> HIDE DEF t
<1>5. OnceEach(t)
  <2>1. \A k \in 1 .. Len(s) : s[k] # c
    BY <1>1, <1>3 DEF Tile!ToSet
  <2> SUFFICES ASSUME NEW a \in 1 .. Len(t), NEW b \in 1 .. Len(t), t[a] = t[b] PROVE a = b
    BY DEF OnceEach
  <2>2. ASSUME NEW k \in 1 .. Len(t), k # 1
        PROVE  k - 1 \in 1 .. Len(s) /\ t[k] = s[k - 1]
    <3>1. k - 1 \in 1 .. Len(s) /\ (k - 1) + 1 = k
      BY <1>3, <1>4, <2>2
    <3>2. t[(k - 1) + 1] = s[k - 1]
      BY <1>4, <3>1
    <3> QED
      BY <3>1, <3>2
  <2>3. CASE a = 1 \/ b = 1
    <3>1. a # 1 => t[a] # c
      BY <2>1, <2>2
    <3>2. b # 1 => t[b] # c
      BY <2>1, <2>2
    <3> QED
      BY <1>4, <2>3, <3>1, <3>2
  <2>4. CASE a # 1 /\ b # 1
    <3>1. /\ a - 1 \in 1 .. Len(s) /\ t[a] = s[a - 1] /\ b - 1 \in 1 .. Len(s) /\ t[b] = s[b - 1]
      BY <2>2, <2>4
    <3>2. a - 1 = b - 1
      BY <1>3, <3>1 DEF OnceEach
    <3> QED
      BY <3>2
  <2> QED
    BY <2>3, <2>4
<1>6. n = TileWith(w, t, w.hidden)
  BY <1>1, CreaturesExcept
<1>7. /\ Laid(n) /\ Standing(n) /\ n.ground = w.ground /\ n.top = w.top /\ n.down = w.down
      /\ n.creatures = t /\ n.hidden = w.hidden /\ n.view = w.view
  BY <1>1, <1>3, <1>4, <1>5, <1>6, CreaturesChanged
<1> HIDE DEF n, i
<1>8. Tile!SeenOf(n, Len(s)) = P
  <2>1. Alike(w, 0, n, 0, Len(s))
    <3> SUFFICES ASSUME NEW j \in 1 .. Len(s) PROVE Nth(w, 0 + j) = Nth(n, 0 + j)
      BY <1>7, Zenon DEF Alike
    <3> DEFINE a == Len(t) - j + 1
               b == Len(s) - j + 1
    <3>2. b \in 1 .. Len(s) /\ a = b + 1 /\ 0 + j = j
      BY <1>3, <1>4
    <3> HIDE DEF a, b
    <3>3. t[a] = s[b]
      BY <1>4, <3>2
    <3>4. Nth(w, j) = s[b] /\ Nth(n, j) = t[a]
      BY <1>7, Zenon DEF Nth, a, b
    <3> QED
      BY <3>2, <3>3, <3>4
  <2>2. Len(s) <= Len(w.creatures) /\ Len(s) <= Len(n.creatures)
    BY <1>3, <1>4, <1>7
  <2>3. Tile!SeenOf(w, Len(s)) = Tile!SeenOf(n, Len(s))
    BY <1>3, <1>7, <2>1, <2>2, SeenFromStart
  <2> QED
    BY <2>3 DEF Tile!Seen
<1>9. Tile!Seen(n) = IF c \in w.hidden THEN P ELSE P \o <<c>>
  <2> DEFINE r == n.creatures
  <2>1. 1 \in 1 .. Len(r) /\ Len(r) - 1 = Len(s) /\ r[1] = c /\ Len(s) + 1 = Len(r)
    BY <1>3, <1>4, <1>7
  <2>2. Tile!SeenOf(n, (Len(r) - 1) + 1) = IF r[1] \in n.hidden THEN Tile!SeenOf(n, Len(r) - 1)
                                         ELSE Tile!SeenOf(n, Len(r) - 1) \o <<r[1]>>
    BY <1>7, <2>1, SeenUpTo
  <2>3. Tile!Seen(n) = Tile!SeenOf(n, Len(r))
    BY DEF Tile!Seen
  <2> HIDE DEF r, P
  <2> QED
    BY <1>7, <1>8, <2>1, <2>2, <2>3
<1>10. /\ w.ground \in Seq(Things) /\ w.top \in Seq(Things) /\ W \in Seq(Things)
       /\ P \in Seq(Things) /\ Tile!Description(w) = A \o W
  BY <1>1, PartsOf DEF Whole
<1>11. CASE c \in w.hidden
  <2>1. Tile!Description(n) = Tile!Description(w)
    BY <1>7, <1>9, <1>11 DEF Tile!Description
  <2>2. TileSound(n)
    BY <1>1, <1>7, <2>1 DEF TileSound
  <2> QED
    BY <1>2, <1>11, <2>2
<1>12. CASE c \notin w.hidden
  <2>1. c \in Things /\ <<c>> \in Seq(Things) /\ A \in Seq(Things) /\ w.ground \o w.top \in Seq(Things)
    BY <1>10, PartThings, JoinFacts
  <2>2. Tile!Description(n) = (A \o <<c>>) \o W
    <3>1. Tile!Description(n) = Whole(w.ground, w.top, P \o <<c>>, W)
      BY <1>7, <1>9, <1>12, PartsOf
    <3>2. Joins(w.ground \o w.top, P, <<c>>)
      BY <1>10, <2>1, JoinOne
    <3> QED
      BY <3>1, <3>2, Zenon DEF Whole, Joins
  <2>3. Len(A) = Len(w.ground) + Len(w.top) + Len(P)
    BY <1>10, LenOfThree
  <2>4. i = Len(A) + 1
    <3>1. c \in Tile!ToSet(n.creatures)
      <4>1. 1 \in DOMAIN t /\ t[1] = c
        BY <1>3, <1>4
      <4> QED
        BY <1>7, <4>1 DEF Tile!ToSet
    <3>2. Tile!PlaceOf(n, c) = 1
      <4>1. 1 \in 1 .. Len(n.creatures) /\ n.creatures[1] = c
        BY <1>3, <1>4, <1>7
      <4> QED
        BY <1>7, <3>1, <4>1, PlaceFacts
    <3>3. Len(n.creatures) - 1 = Len(s)
      BY <1>3, <1>4, <1>7
    <3>4. i = Len(n.ground) + Len(n.top) + Len(Tile!SeenOf(n, Len(s))) + 1
      BY <3>2, <3>3 DEF Tile!CreatureIndex, i
    <3> HIDE DEF A, P
    <3> QED
      BY <1>7, <1>8, <2>3, <3>4
  <2>5. Knows(n.view, A \o W)
    BY <1>1, <1>7, <1>10
  <2>6. TileSound(Tile!ClientAdd(n, i, c))
    BY <1>7, <1>10, <2>1, <2>2, <2>4, <2>5, AddKeeps
  <2>7. CASE seen /\ w.view # Tile!Lost
    <3>1. w' = Tile!ClientAdd(n, Tile!ClientPlace(w), c)
      BY <1>2, <1>12, <2>7
    <3>2. w.view = Tile!First(A \o W)
      BY <1>1, <1>10, <2>7 DEF Knows
    <3>3. A \in Seq(Upper) /\ W \in Seq(Down)
      <4>1. w.ground \in Seq(Upper) /\ w.top \in Seq(Upper) /\ P \in Seq(Upper)
        <5>1. Ground \subseteq Upper /\ Top \subseteq Upper /\ Members \subseteq Upper
          BY DEF Upper
        <5>2. w.ground \in Seq(Ground)
          <6>1. << >> \in Seq(Ground) /\ \A x \in Ground : <<x>> \in Seq(Ground)
            OBVIOUS
          <6> QED
            BY <1>1, <6>1, Zenon DEF Laid
        <5>3. w.top \in Seq(Top)
          BY <1>1 DEF Laid
        <5>4. P \in Seq(Members)
          <6>1. Len(s) <= Len(w.creatures)
            BY <1>3
          <6> QED
            BY <1>3, <6>1, SeenType DEF Tile!Seen
        <5> HIDE DEF P
        <5> QED
          BY <5>1, <5>2, <5>3, <5>4
      <4>2. A \in Seq(Upper)
        BY <4>1, JoinFacts
      <4> QED
        BY <1>1, <4>2 DEF Laid
    <3> HIDE DEF A, W
    <3>4. Tile!ClientPlace(w) = (IF Len(A) > Limit THEN Limit ELSE Len(A)) + 1
      BY <3>2, <3>3, ClientPlaceFacts
    <3>5. CASE Len(A) < Limit
      <4>1. Tile!ClientPlace(w) = i
        BY <2>4, <3>4, <3>5 DEF TilesAssumption
      <4> QED
        BY <2>6, <3>1, <4>1
    <3>6. CASE ~(Len(A) < Limit)
      <4>1. Tile!ClientPlace(w) > Limit /\ Len(A) >= Limit
        BY <2>1, <3>4, <3>6 DEF TilesAssumption
      <4>2. Tile!ClientAdd(n, Tile!ClientPlace(w), c) = Seeing(n, n.view)
        <5>1. IsTile(n)
          BY <1>7 DEF Laid
        <5> QED
          BY <4>1, <5>1, ToldFacts DEF Tile!ClientAdd
      <4>3. n = Seeing(n, n.view)
        BY <1>7 DEF Laid, IsTile
      <4>4. Tile!First((A \o <<c>>) \o W) = Tile!First(A \o W)
        <5>1. (A \o <<c>>) \o W = A \o (<<c>> \o W) /\ <<c>> \o W \in Seq(Things)
          BY <1>10, <2>1, CutJoins
        <5>2. Tile!First(A \o (<<c>> \o W)) = Tile!First(A \o W)
          BY <1>10, <2>1, <4>1, <5>1, BeyondFirst
        <5> QED
          BY <5>1, <5>2
      <4>5. TileSound(n)
        BY <1>7, <2>2, <2>5, <4>4 DEF TileSound, Knows
      <4> QED
        BY <3>1, <4>2, <4>3, <4>5
    <3> QED
      BY <3>5, <3>6
  <2>8. CASE ~(seen /\ w.view # Tile!Lost)
    BY <1>2, <1>12, <2>6, <2>8
  <2> QED
    BY <2>7, <2>8
<1> QED
  BY <1>11, <1>12

-----------------------------------------------------------------------------
LEMMA TileInit ==
  ASSUME TilesAssumption, Tile!Init
  PROVE  TileSound(w)
<1>1. PICK t \in Ground :
        w = [ground |-> <<t>>, top |-> << >>, creatures |-> << >>, down |-> << >>,
             hidden |-> {}, view |-> <<t>>]
  BY DEF Tile!Init
<1>2. /\ w.ground = <<t>> /\ w.top = << >> /\ w.creatures = << >> /\ w.down = << >>
      /\ w.hidden = {} /\ w.view = <<t>>
  BY <1>1
<1>3. Standing(w)
  BY <1>2 DEF Standing
<1>4. IsTile(w)
  BY <1>1, <1>2 DEF IsTile, Seeing
<1>5. Laid(w)
  BY <1>2, <1>3, <1>4 DEF Laid
<1>6. Tile!Description(w) = <<t>>
  <2>1. Tile!Seen(w) = << >>
    <3>1. Len(w.creatures) = 0
      BY <1>2
    <3> QED
      BY <3>1, SeenSteps DEF Tile!Seen
  <2>2. <<t>> \in Seq(Things) /\ <<t>> \o << >> = <<t>>
    BY PartThings, ConcatEmptySeq
  <2> QED
    BY <1>2, <2>1, <2>2 DEF Tile!Description
<1>7. Tile!First(<<t>>) = <<t>>
  <2>1. <<t>> \in Seq(Things) /\ Len(<<t>>) = 1
    BY PartThings
  <2>2. Len(<<t>>) <= Limit
    BY <2>1 DEF TilesAssumption
  <2> QED
    BY <2>1, <2>2, FirstFacts
<1> QED
  BY <1>2, <1>5, <1>6, <1>7 DEF TileSound, Knows

LEMMA TileKeeps ==
  ASSUME TilesAssumption, TileSound(w), Tile!Next
  PROVE  TileSound(w')
<1>1. ASSUME NEW t \in Ground \cup Top \cup Down, Tile!AddItem(t)
      PROVE  TileSound(w')
  BY <1>1, AddItemKeeps DEF Tile!AddItem
<1>2. ASSUME NEW p \in Tile!Stacked(w), Tile!RemoveItem(p)
      PROVE  TileSound(w')
  BY <1>2, TakenFrom DEF Tile!RemoveItem
<1>3. ASSUME NEW p \in Tile!Stacked(w), NEW t \in Ground \cup Top \cup Down, Tile!TransformItem(p, t)
      PROVE  TileSound(w')
  BY <1>3, TransformKeeps
<1>4. ASSUME NEW c \in Members, NEW seen \in BOOLEAN, Tile!Arrive(c, seen)
      PROVE  TileSound(w')
  BY <1>4, ArriveKeeps
<1>5. ASSUME NEW c \in Members, Tile!Leave(c) \/ Tile!Hide(c) \/ Tile!Show(c)
      PROVE  TileSound(w')
  BY <1>5, LeaveKeeps, HideKeeps, ShowKeeps
<1> QED
  BY <1>1, <1>2, <1>3, <1>4, <1>5 DEF Tile!Next

LEMMA TileSoundAgrees ==
  ASSUME TileSound(w)
  PROVE  Tile!ClientAgrees
BY DEF TileSound, Knows, Tile!ClientAgrees, Tile!Shown

\* What clients are told suffices: a client's stack of a tile is always the
\* beginning of what it would be shown anew (tile.cpp:430-1010); its windows of
\* private channels are those its player uses or a reload has left, whose
\* owners are in the game among those who use them; who has the list of reports
\* open sees exactly those that nobody has taken (chat.cpp:386-528,
\* game.cpp:2309-2452, 5396-5433).
THEOREM ClientAlwaysAgrees == Spec => []ClientAgrees
<1> DEFINE Inv == /\ scene = "tile" => TileSound(w)
                  /\ scene = "chat" => ChannelsSound(ChatIds, {}, w)
                  /\ scene = "reports" => ChannelsSound({}, Members, w)
<1>0. ChannelsAssumption({}) /\ ChannelsAssumption(Members)
  BY WorldAssumption DEF WorldAssumption, GuildsAssumption, ChannelsAssumption
<1>1. Init => Inv
  BY <1>0, WorldAssumption, TileInit, ChannelsInit DEF Init, WorldAssumption
<1>2. Inv /\ [Next]_<<scene, w>> => Inv'
  <2>1. ASSUME Inv, [Next]_<<scene, w>>, scene' = "tile"
        PROVE  TileSound(w')
    <3>1. scene = "tile" /\ (Tile!Next \/ w' = w)
      BY <2>1 DEF Next
    <3>2. CASE Tile!Next
      BY <2>1, <3>1, <3>2, WorldAssumption, TileKeeps DEF WorldAssumption
    <3>3. CASE w' = w
      BY <2>1, <3>1, <3>3
    <3> QED
      BY <3>1, <3>2, <3>3
  <2>2. ASSUME Inv, [Next]_<<scene, w>>, scene' = "chat"
        PROVE  ChannelsSound(ChatIds, {}, w')
    <3>1. scene = "chat" /\ (Chat(ChatIds, {})!Next \/ w' = w)
      BY <2>2 DEF Next
    <3>2. CASE Chat(ChatIds, {})!Next
      BY <1>0, <2>2, <3>1, <3>2, ChannelsNext
    <3>3. CASE w' = w
      BY <2>2, <3>1, <3>3
    <3> QED
      BY <3>1, <3>2, <3>3
  <2>3. ASSUME Inv, [Next]_<<scene, w>>, scene' = "reports"
        PROVE  ChannelsSound({}, Members, w')
    <3>1. scene = "reports" /\ (Chat({}, Members)!Next \/ w' = w)
      BY <2>3 DEF Next
    <3>2. CASE Chat({}, Members)!Next
      BY <1>0, <2>3, <3>1, <3>2, ChannelsNext
    <3>3. CASE w' = w
      BY <2>3, <3>1, <3>3
    <3> QED
      BY <3>1, <3>2, <3>3
  <2> QED
    BY <2>1, <2>2, <2>3
<1>3. Inv => ClientAgrees
  <2>1. TileSound(w) => Tile!ClientAgrees
    BY TileSoundAgrees
  <2>2. ChannelsSound(ChatIds, {}, w) => Chat(ChatIds, {})!WindowsAgree
    BY <1>0, ChannelsSoundAgrees DEF Chat!ChannelsAgree
  <2>3. ChannelsSound({}, Members, w) => Chat({}, Members)!ReportsAgree
    BY <1>0, ChannelsSoundAgrees DEF Chat!ChannelsAgree
  <2> QED
    BY <2>1, <2>2, <2>3 DEF ClientAgrees
<1> QED
  BY <1>1, <1>2, <1>3, PTL DEF Spec
=============================================================================
