SPECIFICATION FairSpec
CONSTANTS
  p1 = p1
  p2 = p2
  t1 = t1
  t2 = t2
  t3 = t3
  s1 = s1
  s2 = s2
  NoTask = NoTask
  Producers <- MCProducers
  Signalled <- MCSignalled
  Tasks <- MCTasksTerm
  Timed <- MCNone
  ToFront <- MCNone
  ShutdownTasks <- MCShutdownTerm
PROPERTY SigTermEndsThread
CHECK_DEADLOCK FALSE
