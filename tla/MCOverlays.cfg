SPECIFICATION Spec
CONSTANTS
  a = a
  b = b
  Fields = {a, b}
  Settings <- SmallSettings
INVARIANTS
  OverlaysArePending
  ViewIsReplayed
  SettledIsServer
PROPERTIES
  NoFlicker
CHECK_DEADLOCK FALSE
