---------------------------- MODULE WaitingList ----------------------------
(* The waiting list of the login (waitlist.cpp, waitlist.h) and the seats of  *)
(* the world.  ProtocolGame::login asks WaitingList::login for a seat in the  *)
(* middle of one dispatcher task and either places the player in that same    *)
(* task or answers 0x16 with a place and a number of seconds; the client      *)
(* counts them down and logs in again.  An entry of the list outlives the     *)
(* countdown by fifteen seconds, and is only looked at when somebody logs in. *)
(*                                                                            *)
(* Time is in units of five seconds, of which every period of the code is a   *)
(* multiple, and relative: a timeout is the time an entry has left, 0 when it *)
(* has expired.                                                               *)
EXTENDS Integers, Sequences, FiniteSets, SequencesExt

CONSTANTS
    Players,        \* characters, told apart by name and address (find)
    AlwaysLogin,    \* those with CanAlwaysLogin, and account managers
    Premium,        \* those that are premium at first
    Varying,        \* those who buy premium time, or lose it, meanwhile
    PremiumSkips,   \* premiumPlayerSkipWaitList
    Patient,        \* whose clients come back before their entry expires
    MaxPlayers      \* maxPlayers

ASSUME MaxPlayersAssumption == MaxPlayers \in Nat
ASSUME PlayersAssumption ==
    /\ AlwaysLogin \subseteq Players
    /\ Premium \subseteq Players
    /\ Varying \subseteq Players
    /\ Patient \subseteq Players
ASSUME SwitchAssumption == PremiumSkips \in BOOLEAN

VARIABLES
    online,     \* Player::autoList, the players getPlayersOnline() counts
    premium,    \* the players with premium time
    waitList,   \* WaitingList::waitList
    left        \* what is left of the countdown of each client

waitingVars == <<online, premium, waitList, left>>

Slack == 3                 \* the fifteen seconds of getTimeout
NotWaiting == - Slack      \* a client that is not coming back in time

(* WaitingList::getTime: seconds between two attempts, by place in the list. *)
GetTime(slot) ==
    CASE slot < 5  -> 1
      [] slot >= 5  /\ slot < 10 -> 2
      [] slot >= 10 /\ slot < 20 -> 4
      [] slot >= 20 /\ slot < 50 -> 12
      [] OTHER -> 24

(* Mutant: an entry lives no longer than the countdown.                      *)
GetTimeoutBare(slot) == GetTime(slot)

GetTimeout(slot) == GetTime(slot) + Slack

Entry == [name : Players, premium : BOOLEAN, timeout : 0..GetTimeout(50)]

WaitingInit ==
    /\ online = {}
    /\ premium = Premium
    /\ waitList = <<>>
    /\ left = [p \in Players |-> NotWaiting]

(* Mutant: find does not look at the first entry.                            *)
SlotAfterFirst(list, p) ==
    LET places == {i \in DOMAIN list : i > 1 /\ list[i].name = p}
    IN  IF places = {} THEN 0 ELSE CHOOSE i \in places : \A j \in places : i <= j

(* WaitingList::find: the place of a player, 0 if it has none.               *)
Slot(list, p) ==
    LET places == {i \in DOMAIN list : list[i].name = p}
    IN  IF places = {} THEN 0 ELSE CHOOSE i \in places : \A j \in places : i <= j

(* Mutant: cleanup throws out those that have time left.                     *)
Expired(entry) == entry.timeout = 0

(* WaitingList::cleanup: entries whose time is up leave.                     *)
Alive(entry) == entry.timeout > 0
Cleaned(list) ==
    LET kept[i \in 0 .. Len(list)] ==
          IF i = 0 THEN <<>>
          ELSE IF Alive(list[i]) THEN Append(kept[i - 1], list[i]) ELSE kept[i - 1]
    IN  kept[Len(list)]

(* Mutant: everyone at the back.                                             *)
NewSlotBack(list, p) == Len(list) + 1

(* Where a newcomer is put: the premium before the first that is not.        *)
NewSlot(list, p) ==
    LET others == {i \in DOMAIN list : ~ list[i].premium}
    IN  IF p \in premium /\ others # {}
        THEN CHOOSE i \in others : \A j \in others : i <= j
        ELSE Len(list) + 1

(* The conditions under which login() does not look at the list.             *)
Skips(p) == p \in AlwaysLogin \/ (PremiumSkips /\ p \in premium)
NoNeedToWait == waitList = <<>> /\ Cardinality(online) < MaxPlayers

(* Mutant: the places before a player are not counted.                       *)
MustWaitForOne(slot) == Cardinality(online) + 1 > MaxPlayers

(* Not yet: online players and the places up to this one are too many.       *)
MustWait(slot) == Cardinality(online) + slot > MaxPlayers

-----------------------------------------------------------------------------
(* The rest of ProtocolGame::login after a yes: the character is loaded and  *)
(* placed, unless one of the two fails and the client is told so.            *)
Enter(p) ==
    /\ \/ online' = online \cup {p}
       \/ UNCHANGED online
    /\ left' = [left EXCEPT ![p] = NotWaiting]

(* The rest after a no: the client is told its place and when to come back.  *)
TurnedAway(p) ==
    /\ left' = [left EXCEPT ![p] = GetTime(Slot(waitList', p))]
    /\ UNCHANGED online

(* A login that the list does not hold up.                                   *)
Pass(p) ==
    /\ Skips(p) \/ NoNeedToWait
    /\ Enter(p)
    /\ UNCHANGED waitList

(* A player that has a place comes back: its turn, or some more waiting.     *)
Return(p) ==
    LET list == Cleaned(waitList)
        slot == Slot(list, p)
    IN  /\ slot # 0
        /\ \/ /\ MustWait(slot)
              /\ waitList' = [list EXCEPT ![slot].timeout = GetTimeout(slot)]
              /\ TurnedAway(p)
           \/ /\ ~ MustWait(slot)
              /\ waitList' = RemoveAt(list, slot)
              /\ Enter(p)

(* A player without a place gets one and is turned away.                     *)
Queue(p) ==
    LET list == Cleaned(waitList)
        slot == NewSlot(list, p)
    IN  /\ Slot(list, p) = 0
        /\ waitList' = InsertAt(list, slot,
               [name |-> p, premium |-> p \in premium, timeout |-> GetTimeout(slot)])
        /\ TurnedAway(p)

(* ProtocolGame::login of a character that is not in the world, as far as    *)
(* the waiting list is concerned.                                            *)
Login(p) ==
    /\ p \notin online
    /\ \/ Pass(p)
       \/ /\ ~ Skips(p)
          /\ ~ NoNeedToWait
          /\ Return(p) \/ Queue(p)
    /\ UNCHANGED premium

(* Player::removeList: the player leaves the world.                          *)
Logout(p) ==
    /\ p \in online
    /\ online' = online \ {p}
    /\ UNCHANGED <<premium, waitList, left>>

(* Player::isPremium changes its answer.                                     *)
PremiumChanges(p) ==
    /\ p \in Varying
    /\ premium' = IF p \in premium THEN premium \ {p} ELSE premium \cup {p}
    /\ UNCHANGED <<online, waitList, left>>

(* Five seconds pass.  A patient client does not sit on its turn until its   *)
(* entry expires; any other may.                                             *)
Tick ==
    /\ \A p \in Patient : left[p] # NotWaiting + 1
    /\ waitList' = [i \in DOMAIN waitList |->
           [waitList[i] EXCEPT !.timeout = IF @ > 0 THEN @ - 1 ELSE 0]]
    /\ left' = [p \in Players |->
           IF left[p] = NotWaiting THEN NotWaiting ELSE left[p] - 1]
    /\ UNCHANGED <<online, premium>>

WaitingNext ==
    \/ \E p \in Players : Login(p) \/ Logout(p) \/ PremiumChanges(p)
    \/ Tick

WaitingSpec == WaitingInit /\ [][WaitingNext]_waitingVars

(* The time of the day passes, players do log out in the end, and a patient  *)
(* client whose countdown is over logs in again.                             *)
WaitingFairSpec ==
    /\ WaitingSpec
    /\ WF_waitingVars(Tick)
    /\ \A p \in Players : WF_waitingVars(Logout(p))
    /\ \A p \in Patient : WF_waitingVars(left[p] # NotWaiting /\ Login(p))

-----------------------------------------------------------------------------
WaitingTypeOK ==
    /\ online \subseteq Players
    /\ premium \subseteq Players
    /\ waitList \in Seq(Entry)
    /\ left \in [Players -> NotWaiting..GetTime(50)]

Ordinary(p) == p \notin AlwaysLogin /\ ~ (PremiumSkips /\ p \in premium)

(* The entries of the list that stay before a player who is let in: all of   *)
(* them if it had no place.                                                  *)
Ahead(p) ==
    IF Slot(waitList, p) = 0
    THEN DOMAIN waitList'
    ELSE {i \in DOMAIN waitList' : Slot(waitList, waitList'[i].name) < Slot(waitList, p)}

(* A player that may not skip the list is let in only if, with it, the world *)
(* is not over its limit and keeps a seat for everyone before it in the list *)
(* (waitlist.cpp:59, 69).                                                    *)
NoOvertaking ==
    [][\A p \in online' \ online :
          Ordinary(p) => Cardinality(online') + Cardinality(Ahead(p)) <= MaxPlayers]_waitingVars

(* Nobody is in the list twice, whatever mixture of early, late and repeated *)
(* attempts it makes (waitlist.cpp:66-68).                                   *)
OnePlaceEach ==
    \A i, j \in DOMAIN waitList : waitList[i].name = waitList[j].name => i = j

(* Those who were premium when they queued come before those who were not,   *)
(* however premium time comes and goes (waitlist.cpp:81-98).                 *)
PremiumsFirst ==
    \A i, j \in DOMAIN waitList : i < j /\ waitList[j].premium => waitList[i].premium

(* What the client is told keeps its place: until fifteen seconds after the  *)
(* end of its countdown its entry is in the list and has not expired, so the *)
(* place told and the place the timeout was computed from are one            *)
(* (waitlist.cpp:71, 107, 112; protocolgame.cpp:270-286).                    *)
PromiseKept ==
    \A p \in Players : left[p] # NotWaiting =>
        \E i \in DOMAIN waitList :
            waitList[i].name = p /\ waitList[i].timeout = left[p] + Slack

(* A step in which somebody passes the list or enters it before the end.     *)
Overtakes ==
    \E q \in Players :
        \/ q \in online' \ online /\ Skips(q)
        \/ Slot(Cleaned(waitList), q) = 0 /\ Slot(waitList', q) \notin {0, Len(waitList')}

(* If from some time on nobody overtakes, every patient client gets its turn *)
(* again and again, however many impatient ones come, go and are forgotten   *)
(* meanwhile (waitlist.cpp:56-112).                                          *)
EveryoneGetsATurn ==
    <>[][~ Overtakes]_waitingVars =>
        \A p \in Patient : left[p] # NotWaiting ~> left[p] = NotWaiting

(* config.lua:63: "maxPlayers set to 0 means no limit".                      *)
ZeroIsNoLimit == MaxPlayers = 0 => waitList = <<>>
=============================================================================
