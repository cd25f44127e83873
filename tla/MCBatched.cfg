SPECIFICATION Spec
CONSTANTS
  N = 3
  Groupings <- MCGroupings
  Attempts = 2
  MaxRetries = 2
INVARIANTS
  RepairsLandInPlace
  ObserversToldRight
  ReportExact
PROPERTIES
  SnapshotsGrow
\* The Run is over, or the runtime has ended the process.
CHECK_DEADLOCK FALSE
