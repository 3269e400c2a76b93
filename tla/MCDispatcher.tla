----------------------------- MODULE MCDispatcher -----------------------------
(* Small instances of Dispatcher. *)
EXTENDS Dispatcher, TLC

CONSTANTS p1, p2, t1, t2, t3, s1, s2

MCProducers == {p1, p2}
MCSignalled == {p1}
MCTimed     == {t2}
MCFront     == {t3}
MCNone      == {}

\* Two shutdowns: Game::setGameState(GAMESTATE_SHUTDOWN) and the SIGTERM handler.
MCTasks     == {t1, t2, t3, s1, s2}
MCShutdown  == {s1, s2}

\* SIGTERM alone.
MCTasksTerm    == {t1, s1}
MCShutdownTerm == {s1}
===============================================================================
