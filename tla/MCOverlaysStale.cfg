SPECIFICATION Spec
CONSTANTS
  a = a
  b = b
  Fields = {a, b}
  Settings <- StaleSettings
INVARIANTS
  ExistsAsReplayed
CHECK_DEADLOCK FALSE
