SPECIFICATION CacheSpec
CONSTANTS
  Streams = {s1, s2, s3, s4}
  Objects = {p, q}
  CacheSize = 1
  MaxFutures = 4
  MaxFailures = 3
  MaxCancels = 1
INVARIANT CacheInv
INVARIANT ReportedIsForgotten
CHECK_DEADLOCK FALSE
