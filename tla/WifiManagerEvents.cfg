SPECIFICATION FairSpec
CONSTANT MaxEvents = 4
INVARIANTS
  ReadyIsConnected
  NoInvalidEvent
PROPERTY BecomesReady
\* The manager may rest in CONNECTING: see Reconnects.
CHECK_DEADLOCK FALSE
