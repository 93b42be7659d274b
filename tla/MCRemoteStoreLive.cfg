SPECIFICATION AnsweringSpec
CONSTANTS
  Targets = {t1, t2}
  t1 = t1
  t2 = t2
  Users = {u1, u2}
  u1 = u1
  u2 = u2
  Tokens = {u1, u2}
  FirstUser = u1
  NoToken = NoToken
  MaxDelay = 2
  MaxWatchStreamFailures = 1
  MaxPendingWrites = 2
  MaxEvents = 6
  Settings <- LiveSettings
PROPERTIES
  WritesResolve
  GoesOnline
CHECK_DEADLOCK FALSE
