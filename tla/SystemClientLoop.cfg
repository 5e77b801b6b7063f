CONSTANTS
  RecvTimeout = 2
  PingInterval = 1
  ReqTimeouts = {0, 3}
  PollMayFail = TRUE
  None = None
SPECIFICATION FairSpec
INVARIANTS PollCovered WorkEndsWithSession
PROPERTIES StopHonoured StartHonoured CredentialsApplied
