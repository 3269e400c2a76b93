-------------------------------- MODULE Timers --------------------------------
(***************************************************************************)
(* What the rest of the server relies on when it hands a delayed call to   *)
(* Scheduler::addEvent and maybe takes it back with Scheduler::stopEvent:  *)
(* a call runs at most once, never after stopEvent said true for it, and a *)
(* call that has been taken for execution can no longer be taken back.     *)
(* Time is left out; Scheduler states when a call may run.                 *)
(***************************************************************************)
CONSTANT Events

VARIABLE timer

TimerState == {"idle", "pending", "cancelled", "committed", "executed", "lost"}

Init == timer = [e \in Events |-> "idle"]

Move(e, from, to) ==
  /\ timer[e] = from
  /\ timer' = [timer EXCEPT ![e] = to]

Schedule(e) == Move(e, "idle", "pending")
Refuse(e)   == Move(e, "idle", "lost")
Cancel(e)   == Move(e, "pending", "cancelled")
Commit(e)   == Move(e, "pending", "committed")
Execute(e)  == Move(e, "committed", "executed")
Lose(e)     == Move(e, "committed", "lost")

\* The server shuts down: what is pending is forgotten.
Forget == timer' = [e \in Events |-> IF timer[e] = "pending" THEN "lost" ELSE timer[e]]

Next ==
  \/ \E e \in Events : \/ Schedule(e) \/ Refuse(e) \/ Cancel(e)
                       \/ Commit(e) \/ Execute(e) \/ Lose(e)
  \/ Forget

Spec == Init /\ [][Next]_timer
===============================================================================
