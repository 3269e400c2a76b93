------------------------------ MODULE MCScheduler -----------------------------
(* A small instance of Scheduler.  The theorems of SessionProofs hold for      *)
(* any number of callers; for the liveness property one is enough.             *)
EXTENDS Scheduler, TLC

CONSTANTS dispatcher, e1, e2

MCCallers   == {dispatcher}
MCEvents    == {e1, e2}
MCDelays    == {0, 2}
MCShutdowns == {"setGameState", "SIGTERM"}
===============================================================================
