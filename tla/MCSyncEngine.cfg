SPECIFICATION FairSpec
CONSTANTS
  Keys = {j, k}
  j = j
  k = k
  Queries = {p, q}
  p = p
  q = q
  MaxLimbo = 1
  Settings <- SmallSettings
INVARIANTS
  LimboIsTracked
  SyncedIsExact
PROPERTIES
  ListenMissesOnlyStale
  ViewsConverge
CHECK_DEADLOCK FALSE
