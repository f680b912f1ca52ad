SPECIFICATION Spec
CONSTANTS
  MaxRequests = 5
  MaxAbandoned = 2
  MaxFaults = 2
INVARIANT ExecutorsInv
CHECK_DEADLOCK FALSE
