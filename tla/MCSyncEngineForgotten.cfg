SPECIFICATION Spec
CONSTANTS
  Keys = {j}
  j = j
  k = k
  Queries = {p, q}
  p = p
  q = q
  MaxLimbo = 1
  Settings <- ForgottenSettings
INVARIANT LimboIsLookedUp
CHECK_DEADLOCK FALSE
