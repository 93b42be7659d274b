SPECIFICATION Spec
CONSTANTS
  q1 = q1
  q2 = q2
  q3 = q3
  t1 = t1
  t2 = t2
  r1 = r1
  r2 = r2
  r3 = r3
  r4 = r4
  c1 = c1
  c2 = c2
  Queries = {q1, q2, q3}
  Targets = {t1, t2}
  TargetOf <- SharedTarget
  Listeners = {r1, r2, r3, r4, c1, c2}
  QueryOf <- ListenedQuery
  RemoteListeners = {r1, r2, r3, r4}
  MaxId = 5
  Settings <- RejectedSettings
INVARIANTS
  StoppedTargetIsWatched
CHECK_DEADLOCK FALSE
