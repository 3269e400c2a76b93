-------------------------------- MODULE Talks --------------------------------
(* The talks of one npc with several players (npc.cpp): a state for each     *)
(* player it has to do with, the queue of those that were told to wait, and  *)
(* whom it looks at.  What a response says and gives is left out but for     *)
(* what it does to the talk: <focus> and ADDQUEUE.  An npc without a script  *)
(* that sets the focus.                                                      *)
EXTENDS Integers, Sequences, SequencesExt

CONSTANTS
    Players,
    Responses,      \* what the npc responds to, of {"hi", "bye", "busy", "leave", "close"}
    Idling,         \* those of them that say focus = 0
    IdleTime,       \* whether idleTime > 0
    MaxTalks        \* states at a time (bound)

Nobody == 0
NoText == ""
Words == {"hi", "bye"}

(* The state: where each player is; stateList; queueList; focusCreature;     *)
(* whether hasBusyReply.  A talk's last says how long ago prevInteraction    *)
(* is: "never", "lately", or longer than idleTime.                           *)
VARIABLE w

NewTalk(who) ==
    [who |-> who, text |-> NoText, prev |-> NoText,
     isIdle |-> TRUE, isQueued |-> FALSE, last |-> "never"]

TalksTypeOK ==
    /\ w.at \in [Players -> {"near", "far", "out"}]
    /\ w.talks \in Seq([who : Players \cup {Nobody}, text : Words \cup {NoText},
                        prev : Words \cup {NoText}, isIdle : BOOLEAN, isQueued : BOOLEAN,
                        last : {"never", "lately", "long ago"}])
    /\ w.queue \in Seq(Players) /\ w.focus \in Players \cup {Nobody}

Init == w = [at |-> [p \in Players |-> "out"], talks |-> <<>>, queue |-> <<>>, focus |-> Nobody]

hasBusyReply == "busy" \in Responses

(* Where the state of p is, 0 if there is none.                              *)
TalkOf(talks, p) ==
    LET at == {i \in DOMAIN talks : talks[i].who = p} IN
    IF at = {} THEN 0 ELSE CHOOSE i \in at : \A j \in at : i <= j

(* Npc::executeResponse: only a response that says focus = 0 leaves the talk *)
(* idle.                                                                     *)
Executed(talk, response) ==
    IF response \notin Responses THEN talk
    ELSE [talk EXCEPT !.isIdle = response \in Idling, !.last = "lately"]

(* Npc::getState(player), and the response to an event for the state.  The   *)
(* callers that are told of a player's going or talking name him in it;      *)
(* those that are told of a closed channel or window do not.                 *)
Told(talks, p, named, response) ==
    IF TalkOf(talks, p) # 0
    THEN [talks EXCEPT ![TalkOf(talks, p)] = Executed(@, response)]
    ELSE Append(talks, Executed(NewTalk(IF named THEN p ELSE Nobody), response))

Room(p) == Len(w.talks) < MaxTalks \/ TalkOf(w.talks, p) # 0          \* bound

(* --------------------------- what players do ----------------------------- *)

(* Npc::onCreatureAppear, onCreatureMove and onCreatureDisappear.            *)
Come(p) ==
    /\ w.at[p] # "near" /\ Room(p)
    /\ w' = [w EXCEPT !.at[p] = "near", !.talks = Told(@, p, TRUE, "enter")]

Go(p) ==
    /\ w.at[p] = "near" /\ Room(p)
    /\ \E place \in {"far", "out"} :
          w' = [w EXCEPT !.at[p] = place, !.talks = Told(@, p, TRUE, "leave")]

LogoutElsewhere(p) ==
    /\ w.at[p] = "far"
    /\ w' = [w EXCEPT !.at[p] = "out"]

(* Npc::onCreatureSay.                                                       *)
Say(p, word) ==
    /\ w.at[p] = "near" /\ Room(p)
    /\ LET talks == Told(w.talks, p, TRUE, "say") IN
       w' = [w EXCEPT !.talks = [talks EXCEPT ![TalkOf(talks, p)].text = word]]

(* Npc::onPlayerCloseChannel and onPlayerEndTrade.                           *)
CloseChannel(p) ==
    /\ w.at[p] = "near" /\ Room(p)
    /\ w' = [w EXCEPT !.talks = Told(@, p, FALSE, "close")]

(* idleTime passes.                                                          *)
Wait ==
    /\ \E i \in DOMAIN w.talks : w.talks[i].last = "lately"
    /\ w' = [w EXCEPT !.talks = [i \in DOMAIN w.talks |->
                [w.talks[i] EXCEPT !.last = IF @ = "lately" THEN "long ago" ELSE @]]]

(* ------------------------------ Npc::onThink ----------------------------- *)

(* A state of the think: the world, and the places the loop has deleted.     *)
InTalks(s, i) == i \notin s.deleted

Waiting(s, p) ==
    /\ s.at[p] # "out"
    /\ \E i \in DOMAIN s.talks : InTalks(s, i) /\ s.talks[i].who = p

(* Mutant: the one whose turn it is leaves the queue, and his talk stays as  *)
(* it was.                                                                   *)
ServedQuietly(s) ==
    LET first == SelectInSeq(s.queue, LAMBDA p : Waiting(s, p)) IN
    IF first = 0 THEN [s EXCEPT !.queue = <<>>]
    ELSE [s EXCEPT !.queue = SubSeq(@, first + 1, Len(@))]

(* The next in the queue that is in the game and has a state is asked again  *)
(* what he said last.  He stays at the head of the queue.                    *)
Served(s) ==
    LET first == SelectInSeq(s.queue, LAMBDA p : Waiting(s, p)) IN
    IF first = 0 THEN [s EXCEPT !.queue = <<>>]
    ELSE [s EXCEPT
            !.queue = SubSeq(@, first, Len(@)),
            !.talks = [i \in DOMAIN @ |->
                IF @[i].who # s.queue[first] THEN @[i]
                ELSE [@[i] EXCEPT !.text = s.talks[i].prev, !.isQueued = FALSE]]]

(* A talk is closed: somebody else waits, or nothing was said for long.      *)
Closes(s, talk) ==
    /\ ~ talk.isQueued
    /\ \/ s.queue # <<>> /\ talk.isIdle /\ talk.text = NoText
       \/ IdleTime /\ talk.last = "long ago"

Enqueued(s, i) ==
    IF "busy" \notin Responses \/ Contains(s.queue, s.talks[i].who) THEN s
    ELSE [s EXCEPT !.queue = Append(@, s.talks[i].who), !.talks[i].isQueued = TRUE]

(* What was said is answered: with the busy reply once a talk before it in   *)
(* the list was found not to be idle.                                        *)
Answered(s, i) ==
    LET talk == s.talks[i]
        busy == hasBusyReply /\ ~ s.isIdle
        done(t) == [t EXCEPT !.prev = talk.text, !.text = NoText]
    IN  IF talk.text = NoText THEN s
        ELSE IF busy
        THEN Enqueued([s EXCEPT !.talks[i] = done(Executed(talk, "busy"))], i)
        ELSE [s EXCEPT !.talks[i] = done(Executed(talk, talk.text)),
                       !.focus = IF talk.text \in Responses THEN talk.who ELSE @]

Looked(s, i) ==
    IF s.talks[i].isIdle THEN s
    ELSE [s EXCEPT !.isIdle = FALSE,
                   !.focus = IF hasBusyReply THEN s.talks[i].who ELSE @]

(* One turn of the loop, as the set of its one result.                       *)
Turn(s, i) ==
    LET talk == s.talks[i] IN
    IF talk.who # Nobody /\ s.at[talk.who] # "out" /\ ~ Closes(s, talk)
    THEN {Looked(t, i) : t \in {Answered(s, i)}}
    ELSE {[t EXCEPT !.deleted = @ \cup {i}] : t \in {Served(s)}}

Turned(s) ==
    LET f[n \in 0 .. Len(s.talks)] ==
            IF n = 0 THEN {s} ELSE UNION {Turn(t, n) : t \in f[n - 1]}
    IN  f[Len(s.talks)]

Begun(s) ==
    [at |-> s.at, queue |-> s.queue, focus |-> s.focus, isIdle |-> TRUE, deleted |-> {},
     talks |-> [i \in DOMAIN s.talks |-> [s.talks[i] EXCEPT
        !.last = IF @ = "never" /\ ~ s.talks[i].isQueued THEN "lately" ELSE @]]]

(* The talks that the loop has left.                                         *)
TalksLeft(s) ==
    LET f[n \in 0 .. Len(s.talks)] ==
            IF n = 0 THEN <<>>
            ELSE IF n \in s.deleted THEN f[n - 1] ELSE Append(f[n - 1], s.talks[n])
    IN  f[Len(s.talks)]

Thought(s) ==
    {[at |-> s.at, talks |-> TalksLeft(t), queue |-> t.queue,
      focus |-> IF t.isIdle THEN Nobody ELSE t.focus] : t \in Turned(Begun(s))}

onThink == w' \in Thought(w)

(* Npc::reload.                                                              *)
Reload == w' = [w EXCEPT !.talks = <<>>, !.queue = <<>>, !.focus = Nobody]

Act(p) ==
    Come(p) \/ Go(p) \/ LogoutElsewhere(p) \/ CloseChannel(p) \/ \E word \in Words : Say(p, word)

Next == (\E p \in Players : Act(p)) \/ Wait \/ onThink \/ Reload

-----------------------------------------------------------------------------
(* Whoever is told to wait has a place in the queue, and only one, and one   *)
(* talk: no order in which the others come, go and close their windows takes *)
(* him out of the line while his talk still waits, where nothing would ever  *)
(* call him (npc.cpp:1144-1174, 1380-1440, 1614-1622).                       *)
WaitersAreQueued ==
    /\ \A i, j \in DOMAIN w.talks :
          i # j => w.talks[i].who = Nobody \/ w.talks[i].who # w.talks[j].who
    /\ \A i \in DOMAIN w.talks :
          w.talks[i].isQueued => Contains(w.queue, w.talks[i].who)
    /\ \A i, j \in DOMAIN w.queue : i # j => w.queue[i] # w.queue[j]
==============================================================================
