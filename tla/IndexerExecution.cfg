SPECIFICATION FairSpec
CONSTANTS
  MaxBlock = 3
  Statements = 2
  MaxFaults = 2
  MaxKills = 1
INVARIANT HeightIsIndexed
INVARIANT SuccessIsRecorded
PROPERTY HeightNeverDecreases
PROPERTY Indexes
CHECK_DEADLOCK FALSE
