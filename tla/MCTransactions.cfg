SPECIFICATION FairSpec
CONSTANTS
  Clients = {c1, c2, c3}
  c1 = c1
  c2 = c2
  c3 = c3
  Docs = {x, y}
  x = x
  y = y
  MaxAttempts = 3
  Settings <- SmallSettings
PROPERTIES
  ReadsAreCurrent
  ImplementsAtomicStore
  TransactionsEnd
CHECK_DEADLOCK FALSE
