SPECIFICATION FairSpec
CONSTANTS
  l1 = l1
  l2 = l2
  c1 = c1
  c2 = c2
  NoCall = NoCall
  Loggers <- MCLoggers
  Calls <- MCCalls
  EventsCap = 2
INVARIANTS StreamExact RecordedForAll
PROPERTIES KeepsBroadcast AddEventReturns LogReachesClient
CHECK_DEADLOCK FALSE
