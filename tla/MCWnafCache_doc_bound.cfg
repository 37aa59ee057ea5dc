CONSTANTS
  t1 = t1
  t2 = t2
  a = a
  b = b
  Nil = Nil
  Threads <- TwoThreads
  Points <- TwoPoints
  Windows <- OneWindow
  WNAF_CACHE_MAX = 1
  Environments <- Unlocked
SPECIFICATION Spec
INVARIANT
  CacheBounded
