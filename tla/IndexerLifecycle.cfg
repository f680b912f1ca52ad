SPECIFICATION FairSpec
CONSTANTS
  MaxVersion = 2
  MaxFaults = 2
  Operators = {}
  Rules = {"Action", "Event"}
INVARIANT SyncedIsCurrent
INVARIANT NeverStartsTwice
INVARIANT SupersedeClearsQueue
INVARIANT DeletedIsCleanedUp
PROPERTY Settles
