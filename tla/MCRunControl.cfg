SPECIFICATION ControlSpec
CONSTANTS
  a = a
  b = b
  None = None
  Blank = Blank
  Names <- MCNames
  Resources <- MCResources
  Requests <- MCRequests
  Gates <- MCGates
  Modes = {{}, {"periodic"}, {"strict"}, {"periodic", "strict"}, {"override"}, {"override", "periodic"}, {"override", "strict"}}
  MaxTicks = 3
  Faults = {"invalid", "ledger", "reporter", "work", "cancel"}
  MaxDuration = 31
  DefaultBase = 2
  DefaultCap = 12
  MaxRetries = 6
INVARIANTS
  AllOrNothing
  BudgetNeverRefilled
  GateHolds
  AgreesWithValidate
  TypeOK
  WaitWithinPolicy
  JournalTellsOutcome
  SnapshotsInOrder
  FailureHasCause
PROPERTIES
  RunEnds
\* A Run that has returned, and a call after its last retry, have nothing to do.
CHECK_DEADLOCK FALSE
