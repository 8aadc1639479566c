SPECIFICATION MigrationSpec
CONSTANTS
  v1 = v1
  v2 = v2
  Validators = {v1, v2}
  Cellars = {cellarA, cellarB}
  ContractCalls = {rebalance}
  Domains = {publisher}
  PowerTables <- MCPowerTables
  DefaultMaxCorks = 1000
  MaxHeight = 4
  MaxGovHeight = 2
  MaxCount = 1
INVARIANT
  OldCorksAreWiped
CHECK_DEADLOCK FALSE
