SPECIFICATION FairSpec
CONSTANTS
  Keys = {j}
  j = j
  k = k
  Queries = {p, q}
  p = p
  q = q
  MaxLimbo = 1
  Settings <- OvertakenSettings
PROPERTY WritesBecomeSynced
CHECK_DEADLOCK FALSE
