SPECIFICATION FairSpec
CONSTANTS
  MaxVersion = 1
  MaxFaults = 1
  Operators = {o1}
  Rules = {"Action", "Event"}
INVARIANT MigratedBeforeManaged
PROPERTY SuspendsAfterStopping
PROPERTY Settles
