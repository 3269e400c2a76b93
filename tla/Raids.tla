------------------------------- MODULE Raids -------------------------------
(* Raids (raids.h, raids.cpp): a raid is a list of events that the scheduler *)
(* runs one after the other.  One raid runs at a time; a monster or an item  *)
(* that an event made may hold a reference of its raid, and the raid may     *)
(* wait for all of them (REF_BLOCK) or keep others from starting it again    *)
(* while one is left (REF_SINGLE).                                           *)
(*                                                                           *)
(* Left out: loading and reloading (a raid is deleted while monsters and     *)
(* items hold its address), margins and chances (a raid that may start       *)
(* does so at any check, or not), and what an event shows or places.         *)
EXTENDS Naturals, Sequences

CONSTANTS
    Raids,          \* Raids::raidList
    RefType,        \* "none", "single" or "block" for each
    Events,         \* what its events are, by delay
    MaxRefs         \* bound: references of one raid

NoRaid == "no raid"

VARIABLES
    running,        \* Raids::running
    refCount,
    eventCount,     \* events taken from the list
    nextEvent,      \* the id of the last event added to the scheduler, zero or not
    pending         \* an executeRaidEvent is in the scheduler

vars == <<running, refCount, eventCount, nextEvent, pending>>

TypeOK ==
    /\ running \in Raids \cup {NoRaid}
    /\ refCount \in [Raids -> 0..MaxRefs]
    /\ eventCount \in [Raids -> Nat]
    /\ nextEvent \in [Raids -> BOOLEAN]
    /\ pending \in [Raids -> BOOLEAN]

Init ==
    /\ running = NoRaid
    /\ refCount = [r \in Raids |-> 0]
    /\ eventCount = [r \in Raids |-> 0]
    /\ nextEvent = [r \in Raids |-> FALSE]
    /\ pending = [r \in Raids |-> FALSE]

-----------------------------------------------------------------------------
(* Raid::getNextRaidEvent gave an event, and it is put in the scheduler.     *)
Schedule(r) ==
    /\ eventCount[r] < Len(Events[r])
    /\ eventCount' = [eventCount EXCEPT ![r] = @ + 1]
    /\ nextEvent' = [nextEvent EXCEPT ![r] = TRUE]
    /\ pending' = [pending EXCEPT ![r] = TRUE]

(* Raid::startRaid: a raid with references, or without an event, does not    *)
(* start.                                                                    *)
StartRaid(r) ==
    /\ refCount[r] = 0
    /\ Schedule(r)
    /\ running' = r
    /\ UNCHANGED refCount

(* Mutant: only a raid that is running is not started.                       *)
MayStartOthers(r) == running # r

(* Raids::checkRaids and doExecuteRaid look at the raid that runs.           *)
MayStart(r) == running = NoRaid

Start(r) == MayStart(r) /\ StartRaid(r)

EventsLeft(r, refs) ==
    IF RefType[r] # "single" \/ refs = 0 THEN 0 ELSE eventCount[r]

(* Mutant: every raid that has references waits for them.                    *)
EndsAlone(r, refs) == refs = 0

Ends(r, refs) == ~ (RefType[r] = "block" /\ refs > 0)

(* Raid::resetRaid, with the references that are left.                       *)
Reset(r, refs) ==
    /\ nextEvent' = [nextEvent EXCEPT ![r] = FALSE]
    /\ pending' = [pending EXCEPT ![r] = FALSE]
    /\ IF Ends(r, refs)
       THEN /\ eventCount' = [eventCount EXCEPT ![r] = EventsLeft(r, refs)]
            /\ running' = IF running = r THEN NoRaid ELSE running
       ELSE UNCHANGED <<eventCount, running>>

(* executeEvent of each kind of event: how many monsters or items it places, *)
(* and whether it succeeds.  A pile of items or an area may fail half-way.   *)
Announced == {<<0, TRUE>>}
OneSpawned == {<<1, TRUE>>, <<0, FALSE>>}
ItemsSpawned == {<<0, TRUE>>} \cup (0..2) \X BOOLEAN
AreaSpawned == (0..2) \X BOOLEAN
Scripted == {0} \X BOOLEAN

Outcomes(kind) ==
    CASE kind = "announce" -> Announced
      [] kind = "single" -> OneSpawned
      [] kind = "item" -> ItemsSpawned
      [] kind = "area" -> AreaSpawned
      [] kind = "script" -> Scripted

(* Raid::executeRaidEvent: what the event places takes references if the     *)
(* raid uses them; when it fails, or was the last, the raid is reset.        *)
ExecuteRaidEvent(r) ==
    /\ pending[r]
    /\ \E outcome \in Outcomes(Events[r][eventCount[r]]) :
          LET refs == refCount[r] + (IF RefType[r] = "none" THEN 0 ELSE outcome[1]) IN
          /\ refs <= MaxRefs
          /\ refCount' = [refCount EXCEPT ![r] = refs]
          /\ IF outcome[2] /\ eventCount[r] < Len(Events[r])
             THEN Schedule(r) /\ UNCHANGED running
             ELSE Reset(r, refs)

(* A monster dies, is convinced or freed, an item is removed: Raid::unRef.   *)
Lose(r) ==
    /\ refCount[r] > 0
    /\ refCount' = [refCount EXCEPT ![r] = @ - 1]
    /\ IF refCount[r] = 1 /\ ~ nextEvent[r]
       THEN Reset(r, 0)
       ELSE UNCHANGED <<running, eventCount, nextEvent, pending>>

Next == \E r \in Raids : Start(r) \/ ExecuteRaidEvent(r) \/ Lose(r)

-----------------------------------------------------------------------------
(* Two raids never run together, also when one of them is kept by what it    *)
(* left behind; the raid that runs will go on, by an event or by the last of *)
(* the references it waits for; and one that does not run, and of which      *)
(* nothing is left, would start with its first event (raids.cpp:269-340).    *)
RaidsGoOn ==
    /\ \A r \in Raids : pending[r] => running = r /\ nextEvent[r]
    /\ running # NoRaid =>
         pending[running] \/ (RefType[running] = "block" /\ refCount[running] > 0)
    /\ \A r \in Raids : running # r /\ refCount[r] = 0 => eventCount[r] = 0

(* Again and again no raid runs, or one that waits for its monsters: raids   *)
(* end even if nothing they made is ever killed (raids.cpp:301-338).         *)
RaidsEnd ==
    []<>(running = NoRaid \/ (RefType[running] = "block" /\ refCount[running] > 0))
=============================================================================
