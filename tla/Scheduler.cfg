SPECIFICATION FairSpec
CONSTANTS
  dispatcher = dispatcher
  e1 = e1
  e2 = e2
  NoEvent = NoEvent
  NoDeadline = NoDeadline
  Callers <- MCCallers
  DispatcherThread = dispatcher
  Events <- MCEvents
  Delays <- MCDelays
  MinTicks = 1
  MaxTime = 2
  MaxId = 2
  Shutdowns <- MCShutdowns
INVARIANTS NoOversleep
PROPERTIES ImplementsTimers ListedEventEnds
CHECK_DEADLOCK FALSE
