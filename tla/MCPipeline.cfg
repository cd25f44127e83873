SPECIFICATION FairSpec
CONSTANTS
  N = 2
  S = 2
  Pipelines <- EveryKind
  Pool <- MCPool
  Capacity = 1
  Faults = {"cancel", "reporter", "ledger", "fatal"}
INVARIANTS
  LossOnlyByCancel
  NoDuplicate
  NoSendOnClosed
  BarrierWaits
PROPERTIES
  FlaggedUntouched
  AllGoroutinesEnd
\* The run is over when Run has returned.
CHECK_DEADLOCK FALSE
