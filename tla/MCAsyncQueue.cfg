SPECIFICATION FairSpec
CONSTANTS
  Callers = {a1}
  Disposers = {d1, d2}
  d1 = d1
  d2 = d2
  Worker = worker
  NoThread = NoThread
  MaxTasks = 3
  Settings <- OneDisposer
INVARIANTS
  RefsAreHolders
  CancelledNeverStarts
PROPERTIES
  DisposedIsQuiet
  DisposeEnds
CHECK_DEADLOCK FALSE
