SPECIFICATION CallsFairSpec
CONSTANTS
  t1 = t1
  t2 = t2
  client = client
  none = none
  big = big
  tight = tight
  Threads = {t1, t2}
  Client <- client
  Names <- MCNames
  New <- MCNew
  NoOne <- none
  MaxMethods = 2
  MaxCalls = 2
  Callers = {big, tight}
  NBlocks <- MCBlocks
  Capacity <- MCBuffers
  SizeKnown = {tight}
INVARIANTS
  StackLive
  GetFaithful
  FindsRegistered
  SameCallback
PROPERTIES
  GetReturns
  CallsEnd
CHECK_DEADLOCK FALSE
