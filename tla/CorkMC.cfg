SPECIFICATION FairSpec
CONSTANTS
  v1 = v1
  v2 = v2
  Validators = {v1, v2}
  Cellars = {cellarA, cellarB}
  ContractCalls = {rebalance}
  Domains = {publisher}
  PowerTables <- MCPowerTables
  MaxHeight = 5
  MaxGovHeight = 2
  MaxCount = 2
INVARIANTS
  TypeOK
  NothingLeftBehind
  CountsCoverScheduled
  CallsMatchResults
PROPERTIES
  SubscriptionsFollowCellars
  EveryCorkIsDecided
CHECK_DEADLOCK FALSE
