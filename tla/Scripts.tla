------------------------------ MODULE Scripts ------------------------------
(* The scripts' environments (luascript.cpp): a stack of them for scripts    *)
(* that start scripts, the items a script makes before it puts them          *)
(* somewhere, its timers, and the events that are loaded anew by a reload    *)
(* while creatures are still registered for them.                            *)
(*                                                                           *)
(* One lua state is modelled.  What a script does is its choice among the    *)
(* functions below; conditions and database results, which reset() frees in  *)
(* the same way as items, are left out.                                      *)
EXTENDS Integers, Sequences, FiniteSets

CONSTANTS Items,           \* those made with doCreateItemEx
          Timers,          \* a number of them, 1 .. n
          Events,          \* by name
          Type,            \* of an event: "creature", "global" or "moveitem"
          Buffers,         \* the events that are kept as text and loaded when they run
          Depth,           \* environments (21, luascript.h:247)
          MaxFrames        \* bound on scripts within scripts

(* The state, one record:
     frames      the scripts that run, the last one innermost; how is "event",
                 "buffer", "load" or "timer", what the event, timer the timer
     envs        m_scriptEnv up to m_scriptEnvIndex; script is the place in
                 `frames' of the one it was set for (0 after reset), and
                 `knows' the items in its local map
     lists       m_tempItems, pairs of an environment and an item
     items       where each item is, how often it is in releaseThings, and
                 (of its history) whether a script used it after another had
                 released it (late), and took it off the lists unplaced (lost)
     wanted      m_timerEvents
     pending     the timers the scheduler has; due, those it has handed on
     fate        what became of each timer; "cut", stopped in its own run
     last        m_lastTimer
     loaded      the events whose isLoaded() holds
     registered  the eventsList of a creature
     crowded     an environment was refused to a script that ran without one
     broken      an iterator or pointer that is gone was used                *)
VARIABLE w

Innermost(stack) == stack[Len(stack)]
Outer(stack) == SubSeq(stack, 1, Len(stack) - 1)

Idle == w.frames = <<>>
Running == ~Idle /\ w.envs # <<>>       \* a script may act
Env == Innermost(w.envs)

NewEnv(script) == [script |-> script, knows |-> {}]
NoItem == [place |-> "none", releases |-> 0, late |-> FALSE, lost |-> FALSE]

Init ==
    w = [frames |-> <<>>, envs |-> <<>>, lists |-> {}, items |-> [i \in Items |-> NoItem],
         wanted |-> {}, pending |-> {}, due |-> {}, fate |-> [t \in Timers |-> "unused"], last |-> 0,
         loaded |-> Events, registered |-> {}, crowded |-> FALSE, broken |-> FALSE]

-----------------------------------------------------------------------------
(* Environments.                                                             *)

Room(s) == Len(s.envs) < Depth

Reserved(s, script) == [s EXCEPT !.envs = Append(@, NewEnv(script))]

(* What was made and is nowhere is freed, whoever made it.                   *)
ReleasedBy(s, i) ==
    IF s.items[i].place = "virtual" THEN Cardinality({l \in s.lists : l[2] = i}) ELSE 0

Counted(x, n) == [x EXCEPT !.releases = @ + n]

(* Mutant: the lists are not emptied.                                        *)
ResetListed(s) == [s EXCEPT !.items = [i \in Items |-> Counted(@[i], ReleasedBy(s, i))]]

Reset(s) == [s EXCEPT !.items = [i \in Items |-> Counted(@[i], ReleasedBy(s, i))], !.lists = {}]

Released(s) == IF s.envs = <<>> THEN s ELSE [Reset(s) EXCEPT !.envs = Outer(@)]

(* loadBuffer and loadFile go on without the environment they asked for.     *)
Loading(s, script) ==
    IF Room(s)
      THEN Reserved(s, script)
      ELSE [s EXCEPT !.crowded = TRUE, !.envs[Len(s.envs)].script = script]

Entered(s, how, what, timer) ==
    [s EXCEPT !.frames = Append(@, [how |-> how, what |-> what, timer |-> timer])]

-----------------------------------------------------------------------------
(* Events.                                                                   *)

MayNest == Idle \/ (Running /\ Len(w.frames) < MaxFrames)
Started == Len(w.frames) + 1

(* executePlayer and its like.  Text is loaded in a second environment; a    *)
(* full stack refuses the event.                                             *)
Executed(e) ==
    IF e \in Buffers
      THEN Entered(Loading(Reserved(w, Started), Started), "buffer", e, 0)
      ELSE Entered(Reserved(w, Started), "event", e, 0)

ExecuteIf(ready, e) ==
    /\ MayNest
    /\ ready
    /\ w' = IF Room(w) THEN Executed(e) ELSE w

(* Events of a creature, from a copy of its list.                            *)
CreatureEvents == {e \in w.registered : Type[e] = "creature" /\ e \in w.loaded}
ExecuteCreatureEvent(e) == ExecuteIf(e \in CreatureEvents, e)

PlayerLogin(e) == ExecuteIf(Type[e] = "global" /\ e \in w.loaded, e)

(* Nobody asks here whether the event is loaded; one that is not has no      *)
(* interface.                                                                *)
ExecuteMoveItems(e) ==
    /\ MayNest
    /\ Type[e] = "moveitem"
    /\ w' = IF ~Room(w) THEN w ELSE IF e \in w.loaded THEN Executed(e) ELSE [w EXCEPT !.broken = TRUE]

Return ==
    /\ ~Idle
    /\ LET f == Innermost(w.frames)
           s == [w EXCEPT !.frames = Outer(@)]
           t == IF f.how = "buffer" THEN Released(Released(s)) ELSE Released(s)
           ended == [t EXCEPT !.crowded = @ /\ s.frames # <<>>]
       IN w' = IF f.how # "timer" THEN ended
               ELSE IF f.timer \in w.wanted THEN [ended EXCEPT !.wanted = @ \ {f.timer}]
               ELSE [ended EXCEPT !.broken = TRUE]

RegisterCreatureEvent(e) ==
    /\ Running
    /\ e \in w.loaded \ w.registered
    /\ w' = [w EXCEPT !.registered = @ \cup {e}]

UnregisterCreatureEvent(e) ==
    /\ Running
    /\ e \in w.loaded \cap w.registered
    /\ w' = [w EXCEPT !.registered = @ \ {e}]

(* A script that makes an npc loads the npc's file.                          *)
LoadFile ==
    /\ Running /\ Len(w.frames) < MaxFrames
    /\ w' = Entered(Loading(w, Started), "load", "file", 0)

-----------------------------------------------------------------------------
(* Items.                                                                    *)

Listed(i) == <<Len(w.envs), i>>
MaxReleases == 2           \* bound: after two it is a dangling pointer anyhow

Virtual(i) ==
    Running /\ i \in Env.knows /\ w.items[i].place = "virtual" /\ w.items[i].releases < MaxReleases

CreateItemEx(i) ==
    /\ Running
    /\ w.items[i].place = "none"
    /\ w' = [w EXCEPT !.items[i].place = "virtual", !.lists = @ \cup {Listed(i)},
                      !.envs[Len(w.envs)].knows = @ \cup {i}]

Used(i) == [w EXCEPT !.items[i].late = @ \/ w.items[i].releases > 0]
Off(s, i) == [s EXCEPT !.lists = @ \ {Listed(i)}]

(* doTileAddItemEx and doAddContainerItemEx: the whole item may go into a    *)
(* stack that is already there.                                              *)
PlaceItemEx(i) ==
    /\ Virtual(i)
    /\ \/ w' = [Off(Used(i), i) EXCEPT !.items[i].place = "world"]
       \/ w' = [Off(Used(i), i) EXCEPT !.items[i].lost = TRUE]

(* doPlayerAddItemEx takes it off the list first, and puts it back if the    *)
(* player cannot have it.                                                    *)
PlayerAddItemEx(i) ==
    /\ Virtual(i)
    /\ \/ w' = [Off(Used(i), i) EXCEPT !.items[i].place = "world"]
       \/ w' = [Off(Used(i), i) EXCEPT !.items[i].lost = TRUE]
       \/ w' = [Used(i) EXCEPT !.lists = @ \cup {Listed(i)}]

(* doRemoveItem: the virtual cylinder lets go of everything, and keeps it.   *)
RemoveVirtual(i) ==
    /\ Virtual(i)
    /\ w' = [w EXCEPT !.lists = {l \in @ : l[2] # i}, !.items[i].lost = TRUE]

RemoveItem(i) ==
    /\ w.items[i].place = "world"
    /\ w' = [w EXCEPT !.items[i] = [Counted(w.items[i], 1) EXCEPT !.place = "removed"],
                      !.lists = {l \in @ : l[2] # i}]

(* Game::cleanup, in a task of its own: an item that was released is freed.  *)
Freed(x) ==
    IF x.releases = 0 THEN x
    ELSE IF x.releases = 1 /\ x.place # "world" THEN NoItem
    ELSE [x EXCEPT !.place = "dangling", !.releases = 0]

Cleanup ==
    /\ Idle
    /\ w' = [w EXCEPT !.items = [i \in Items |-> Freed(@[i])]]

-----------------------------------------------------------------------------
(* Timers.                                                                   *)

AddEvent ==
    /\ Running
    /\ w.last + 1 \in Timers
    /\ LET t == w.last + 1
       IN w' = [w EXCEPT !.last = t, !.wanted = @ \cup {t}, !.pending = @ \cup {t}, !.fate[t] = "wanted"]

StopEvent(t) ==
    /\ Running
    /\ t \in w.wanted
    /\ w' = [w EXCEPT !.wanted = @ \ {t}, !.pending = @ \ {t},
                      !.fate[t] = IF @ = "run" THEN "cut" ELSE "stopped"]

(* The scheduler hands an event to the dispatcher.                           *)
Fire(t) ==
    /\ t \in w.pending
    /\ w' = [w EXCEPT !.pending = @ \ {t}, !.due = @ \cup {t}]

Found(t) == t \in w.wanted

ExecuteTimer(t) ==
    /\ Idle
    /\ t \in w.due
    /\ w' = IF ~Found(t)
              THEN [w EXCEPT !.due = @ \ {t}]
              ELSE [Entered(Reserved(w, Started), "timer", "timer", t)
                      EXCEPT !.due = @ \ {t}, !.fate[t] = IF @ = "wanted" THEN "run" ELSE "revived"]

(* Reloads are left to the scheduler, so that no script runs in the state    *)
(* that is closed (luascript.cpp:10291).  The scheduler keeps its events.    *)
Closed(s) == [s EXCEPT !.wanted = {}, !.fate = [t \in Timers |-> IF @[t] = "wanted" THEN "closed" ELSE @[t]]]

Reload(found) ==
    /\ Idle
    /\ w' = [Closed(w) EXCEPT !.loaded = found]

Next ==
    /\ ~w.broken
    /\ \/ \E e \in Events : \/ ExecuteCreatureEvent(e) \/ PlayerLogin(e) \/ ExecuteMoveItems(e)
                            \/ RegisterCreatureEvent(e) \/ UnregisterCreatureEvent(e)
       \/ Return \/ LoadFile \/ Cleanup \/ AddEvent
       \/ \E i \in Items : \/ CreateItemEx(i) \/ PlaceItemEx(i) \/ PlayerAddItemEx(i)
                           \/ RemoveVirtual(i) \/ RemoveItem(i)
       \/ \E t \in Timers : StopEvent(t) \/ Fire(t) \/ ExecuteTimer(t)
       \/ \E found \in SUBSET Events : Reload(found)

-----------------------------------------------------------------------------
(* Every script runs in its own environment and leaves none behind, unless   *)
(* a full stack refused one to a load that went on without it                *)
(* (luascript.h:245, luascript.cpp:700, 735).                                *)
EnvsAgree ==
    /\ Idle => w.envs = <<>> /\ w.lists = {}
    /\ ~Idle /\ ~w.crowded => Running /\ Env.script = Len(w.frames)

(* What a script made is placed or freed, once.  The code's exceptions: what *)
(* a script placed, or had refused, after a script that it started had freed *)
(* it (reset() frees everybody's items); and what it merged into a stack or  *)
(* removed before it was placed, which is never freed (luascript.cpp:121,    *)
(* game.cpp:1755).                                                           *)
TempsAccounted ==
    \A i \in Items : LET x == w.items[i] IN ~x.late =>
        /\ x.place = "virtual" => x.lost \/ x.releases > 0 \/ \E l \in w.lists : l[2] = i
        /\ x.place = "world" => x.releases = 0
        /\ x.place # "dangling"

(* A timer runs once, and never after it was stopped or its state closed,    *)
(* though the scheduler may already have handed it on (luascript.cpp:928).   *)
TimersKept == \A t \in Timers : w.fate[t] # "revived"

(* Only events that are loaded run, whoever is still registered for others.  *)
(* And no pointer or iterator that is gone is used but in two cases: events  *)
(* for moved items are not asked whether they are loaded                     *)
(* (creatureevent.cpp:136), and a timer that is stopped in its own run is    *)
(* erased a second time at its end (luascript.cpp:958).                      *)
LoadedRun ==
    /\ \A k \in DOMAIN w.frames :
          w.frames[k].how \in {"event", "buffer"} => w.frames[k].what \in w.loaded
    /\ w.broken => \/ \E e \in Events \ w.loaded : Type[e] = "moveitem"
                   \/ \E t \in Timers : w.fate[t] = "cut"

ScriptsAgree == EnvsAgree /\ TempsAccounted /\ TimersKept /\ LoadedRun

=============================================================================
