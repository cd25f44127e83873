SPECIFICATION FairSpec
CONSTANTS
  w1 = w1
  w2 = w2
  req = req
  tpm = tpm
  usd = usd
  Workers <- MCWorkers
  Resources <- MCResources
  Rated <- MCRated
  Names <- MCNames
  Sizes <- MCSizes
  Limit <- MCLimit
  Burst <- MCBurst
  MaxUnits = 3
  MaxCalls = 2
  MaxMinted = 1
INVARIANTS
  TypeOK
  BudgetConserved
  RateNeverExceeded
PROPERTIES
  ImplementsAtomic
  AdmissionEnds
\* Every worker may have used its calls or failed: the run is then over.
CHECK_DEADLOCK FALSE
