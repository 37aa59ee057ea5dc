CONSTANTS
  t1 = t1
  t2 = t2
  a = a
  b = b
  Nil = Nil
  Threads <- TwoThreads
  Points <- TwoPoints
  Windows <- TwoWindows
  WNAF_CACHE_MAX = 2
  Environments <- Everywhere
SPECIFICATION FairSpec
INVARIANTS
  MutexKeepsBound
  OverrunBounded
  UsesRightTable
  CachedTablesComplete
PROPERTIES
  EvictsOldestFirst
  CallsReturn
