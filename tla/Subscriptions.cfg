SPECIFICATION AllSpec
CONSTANTS
  contract = contract
  alice = alice
  f = f
  Accounts = {contract, alice}
  Functions = {f}
  Rules <- MCRules
  Contents = {c, d}
  Contract = contract
  InitialOwners = {}
  FirstHeight = 2
  MaxHeight = 4
  Indexers <- MCIndexers
INVARIANT HeightsInOrder
INVARIANT VersionNamesConfig
INVARIANT ActiveRunsRegistered
INVARIANT OutdatedIsOlder
INVARIANT ManagedIsRead
CONSTRAINT OnlyFollowed
CHECK_DEADLOCK FALSE
