SPECIFICATION FairSpec
CONSTANTS
  MaxRequests = 5
  MaxAbandoned = 2
INVARIANT StreamsInv
PROPERTY AlwaysAnswers
CHECK_DEADLOCK FALSE
