SPECIFICATION Spec
CONSTANT MaxEvents = 2
INVARIANT Reconnects
\* The manager may rest in CONNECTING: see Reconnects.
CHECK_DEADLOCK FALSE
