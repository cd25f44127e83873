SPECIFICATION FairSpec
CONSTANTS
  k1 = k1
  k2 = k2
  k3 = k3
  k4 = k4
  k5 = k5
  None = None
  N = 6
  Keys <- MCKeys
  KeyOf <- MCKeyOf
  Engines = {"Bulk", "BulkUncached", "MapCached", "MapCachedBatches"}
  BatchSize = 2
  Pool = 2
  Attempts = 2
  OnError = "Quarantine"
  MaxRuns = 2
  Faults = {"load", "store", "observer", "strict", "meter", "refuse", "cost", "short", "cancel", "transient", "data", "fatal"}
INVARIANTS
  ResultsAligned
  PaidWorkIsKept
  OutcomesTruthful
PROPERTIES
  MapEnds
\* The program is over when the run has ended.
CHECK_DEADLOCK FALSE
