SPECIFICATION FairSpec
CONSTANTS
  s1 = s1
  s2 = s2
  c1 = c1
  user = user
  admin = admin
  mStat = mStat
  mCheck = mCheck
  NoCall = NoCall
  Calls <- MCCalls
  StatCalls <- MCStatCalls
  Consumers <- MCConsumers
  Methods <- MCMethods
  Consumer <- MCConsumer
  Method <- MCMethod
INVARIANTS PutNeverBlocks Conservation
PROPERTIES WedgedForever CountingReturns StatReachesClient
CHECK_DEADLOCK FALSE
