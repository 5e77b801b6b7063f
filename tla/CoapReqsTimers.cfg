CONSTANTS
  get = get
  put = put
  obs = obs
  None = None
  OneShots = {get}
  Observes = {obs}
  NBlocks <- MCBlocks
  MaxRetries = 1
  AckTimeouts = {2}
  PollMax = 8
  MaxSkew = 1
  MaxLag = 1
  HalfRange = 5
SPECIFICATION FairSpec
INVARIANTS TypeOK BlocksInOrder NoLostWakeup TimeoutAfterAllRetries
PROPERTY EventuallySettled
