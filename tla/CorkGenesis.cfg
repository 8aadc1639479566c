SPECIFICATION Spec
CONSTANTS
  v1 = v1
  v2 = v2
  Validators = {v1, v2}
  Cellars = {cellarA, cellarB}
  ContractCalls = {rebalance}
  Domains = {publisher}
  PowerTables <- MCPowerTables
  MaxHeight = 4
  MaxGovHeight = 2
  MaxCount = 2
INVARIANT
  ExportCanBeImported
CHECK_DEADLOCK FALSE
