SPECIFICATION Spec
CONSTANTS
  s1 = s1
  s2 = s2
  ld = ld
  p1 = p1
  p2 = p2
  p3 = p3
  t1 = t1
  t2 = t2
  None = None
  Nothing = Nothing
  Writers <- MCWriters
  Readers <- MCReaders
  ShardExists = TRUE
  MaxLives = 3
  Procs <- MCProcs
  Tables <- MCTables
  TableOf <- MCTableOf
  Observed = t1
INVARIANTS
  NeverCorrupt
  AcknowledgedIsDurable
  ReadyMeansUsable
  RefusesOnlyForeign
PROPERTIES
  ImplementsCache
\* The last process has nothing left to do.
CHECK_DEADLOCK FALSE
