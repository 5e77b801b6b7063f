SPECIFICATION Spec
CONSTANTS
  Half = 5
  Fresh = 3
  Life = 1
  MaxTime = 14
INVARIANTS
  InOrder
  AckedIsSeen
\* Time is bounded.
CHECK_DEADLOCK FALSE
