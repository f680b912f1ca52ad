SPECIFICATION FairSpec
CONSTANTS
  MaxMessages = 3
  PrefetchLimit = 2
  MaxFetchFaults = 1
  MaxFaults = 2
  MaxUpdates = 1
INVARIANT WorkerInv
PROPERTY ImplementsDelivery
PROPERTY KeepsUp
CHECK_DEADLOCK FALSE
