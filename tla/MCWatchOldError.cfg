SPECIFICATION Spec
CONSTANTS
  qt = qt
  dt = dt
  k1 = k1
  k2 = k2
  Targets = {qt, dt}
  Keys = {k1, k2}
  DocTargets = {dt}
  DocOf <- Documents
  Match <- Matches
  NoToken = NoToken
  NoBloom = NoBloom
  MaxInbox = 2
  Settings <- OldErrorSettings
PROPERTIES
  RejectionsAreForThisListen
CHECK_DEADLOCK FALSE
