SPECIFICATION HandlerSpec
CONSTANTS
  Indexers = {a, b}
  Account = account
  ForeignKeys = FALSE
  MaxRetries = 2
  MaxTasks = 3
  MaxOverlaps = 1
  MaxRemovals = 2
  MaxFaults = 1
SYMMETRY Interchange
INVARIANT ProvisioningInv
INVARIANT CompleteIsProvisioned
INVARIANT RunningIsThere
INVARIANT DeprovisionedIsGone
CHECK_DEADLOCK FALSE
