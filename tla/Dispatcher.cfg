SPECIFICATION FairSpec
CONSTANTS
  p1 = p1
  p2 = p2
  t1 = t1
  t2 = t2
  t3 = t3
  s1 = s1
  s2 = s2
  NoTask = NoTask
  Producers <- MCProducers
  Signalled <- MCSignalled
  Tasks <- MCTasks
  Timed <- MCTimed
  ToFront <- MCFront
  ShutdownTasks <- MCShutdown
INVARIANTS NoLostWakeup Fifo
PROPERTIES AcceptedTaskEnds ShutdownEndsThread
CHECK_DEADLOCK FALSE
