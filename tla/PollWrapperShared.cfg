CONSTANTS
  t1 = t1
  t2 = t2
  c1 = c1
  c2 = c2
  f1 = f1
  f2 = f2
  None = None
  Threads = {t1, t2}
  Contexts = {c1, c2}
  Fds = {f1, f2}
SPECIFICATION WrapperFairSpec
INVARIANTS WorkerStaysHome
PROPERTIES PollReturns CloseReturns
\* The system may stop: see PollEndsWithSocket.
CHECK_DEADLOCK FALSE
