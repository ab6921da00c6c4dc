SPECIFICATION FairSpec
CONSTANTS
  l1 = l1
  s1 = s1
  c1 = c1
  c2 = c2
  c3 = c3
  a1 = a1
  user = user
  admin = admin
  mLog = mLog
  mStat = mStat
  mCheck = mCheck
  NoCall = NoCall
  Calls <- MCNoLogger
  Anonymous <- MCAnonymous
  Consumers <- MCConsumers
  Methods <- MCMethods
  Consumer <- MCConsumer
  Method <- MCMethod
  LoggingMethod = mLog
  StatisticsMethod = mStat
  ACLs <- MCAllowAll
  EventsCap = 1
PROPERTIES NoLeak
CHECK_DEADLOCK FALSE
