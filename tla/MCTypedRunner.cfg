SPECIFICATION FairSpec
CONSTANTS
  a = a
  b = b
  k1 = k1
  k2 = k2
  None = None
  Items <- MCItems
  Inputs <- MCInputs
  Runners <- MCRunners
  RunnerOf <- MCRunnerOf
  Keys <- MCKeys
  KeyOf <- MCKeyOf
  Cached <- MCCached
  Pool = 2
  Attempts = 2
  OnError <- MCOnError
  MaxRuns = 2
  Faults = {"key", "load", "store", "ledger", "hook", "meter", "refuse", "cancel", "transient", "data", "fatal"}
INVARIANTS
  KeyRunsOnce
  OutputMatchesStore
  PaidWorkIsKept
  ReportAddsUp
PROPERTIES
  StoredForGood
  ItemEnds
\* The program is over when every item has ended.
CHECK_DEADLOCK FALSE
