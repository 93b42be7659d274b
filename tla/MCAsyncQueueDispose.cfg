SPECIFICATION FairSpec
CONSTANTS
  Callers = {a1}
  Disposers = {d1, d2}
  d1 = d1
  d2 = d2
  Worker = worker
  NoThread = NoThread
  MaxTasks = 1
  Settings <- TwoDisposers
PROPERTIES
  DisposeEnds
CHECK_DEADLOCK FALSE
