SPECIFICATION FairSpec
CONSTANTS
  MaxWrites = 3
  MaxReads = 2
INVARIANTS
  CompletionsAreSafe
  MessagesFlow
PROPERTIES
  EveryCallEnds
CHECK_DEADLOCK FALSE
