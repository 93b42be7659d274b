SPECIFICATION Spec
CONSTANTS
  Callers = {a1}
  Disposers = {d1, d2}
  d1 = d1
  d2 = d2
  Worker = worker
  NoThread = NoThread
  MaxTasks = 2
  Settings <- OneDisposer
INVARIANT
  CancelIsHeeded
CHECK_DEADLOCK FALSE
