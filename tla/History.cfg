SPECIFICATION RowsSpec
CONSTANTS
  MaxIndex = 10
  Accounts <- FewAccounts
  PlainLabels = {"near", "pool", "a"}
  MaxElements = 2
  Names = {"mint", "burn"}
  MaxLogs = 2
  Receivers = {a, b}
  Tip = 6
  Day <- TwoDays
  Missing = {2}
  IndexedFrom = 1
  RestartsFrom = {5}
  MaxRestarts = 1
  MaxLag = 2
  StartHeights = {1, 2, 3, 4, 5}
  StreamsFrom = 5
  MaxRetries = 2
INVARIANT BackfillInv
INVARIANT RowsInv
INVARIANT HistoryHasReceived
INVARIANT ReportsMatches
INVARIANT EveryDayIsExact
PROPERTY ImplementsBackfill
CHECK_DEADLOCK FALSE
