SPECIFICATION Spec
CONSTANTS
  l1 = l1
  s1 = s1
  c1 = c1
  c2 = c2
  c3 = c3
  a1 = a1
  user = user
  admin = admin
  mLog = mLog
  mStat = mStat
  mCheck = mCheck
  NoCall = NoCall
  Calls <- MCFourCalls
  Anonymous <- MCAnonymous
  Consumers <- MCConsumers
  Methods <- MCMethods
  Consumer <- MCConsumer
  Method <- MCMethod
  LoggingMethod = mLog
  StatisticsMethod = mStat
  ACLs <- MCTwoACLs
  EventsCap = 1
INVARIANTS Audited OneMutex OnlyAllowedSubscribe LogAndBoardAgree
PROPERTIES KeepsEventLog KeepsStatBoard
CHECK_DEADLOCK FALSE
