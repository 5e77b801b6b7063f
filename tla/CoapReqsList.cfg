CONSTANTS
  get = get
  put = put
  obs = obs
  None = None
  OneShots = {get, put}
  Observes = {obs}
  NBlocks <- MCBlocks
  MaxRetries = 0
  AckTimeouts = {1}
  PollMax = 2
  MaxSkew = 0
  MaxLag = 0
  HalfRange = 2
SPECIFICATION Spec
INVARIANTS ExactlyOnce CursorSafe DownMeansDrained
PROPERTY ImplementsContract
