SPECIFICATION Spec
CONSTANTS
  Wanted = {"settings", "version"}
  Keys <- MCKeys
  Maps <- MCMaps
  Labels = {"a", "b"}
  MaxItems = 3
  Room = 9
  KeyRoom = 3
INVARIANTS
  DistinctMeansAll
  WellFormedIsJudged
  StatusFaithful
  GivenInOrder
\* on_setting returns.
CHECK_DEADLOCK FALSE
