SPECIFICATION LifecycleSpec
CONSTANTS
  Modes = {{"override", "periodic", "strict"}}
  MaxTicks = 1
  Faults = {}
INVARIANTS
  FailureHasCause
\* Nothing happens after Run has returned.
CHECK_DEADLOCK FALSE
