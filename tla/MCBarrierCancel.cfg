SPECIFICATION Spec
CONSTANTS
  N = 2
  S = 2
  Pipelines <- WithBarrier
  Pool <- MCPool
  Capacity = 1
  Faults = {"cancel"}
INVARIANTS
  NothingLost
\* The run is over when Run has returned.
CHECK_DEADLOCK FALSE
