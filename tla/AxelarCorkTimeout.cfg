SPECIFICATION Spec
CONSTANTS
  v1 = v1
  v2 = v2
  cellarA = cellarA
  proxyA = proxyA
  Validators = {v1, v2}
  Chains = {1, 2}
  Cellars = {cellarA}
  Corks <- OneCork
  ChainConfigs <- MCChainConfigs
  Proxies = {proxyA}
  Domains = {publisher}
  PowerTables <- MCPowerTables
  Gmp = gmp
  Executor = executor
  Accounts = {gmp}
  CorkTimeoutBlocks = 2
  HeightThreshold = 2
  Word = 65536
  GenesisPublishers = {publisher}
  InitialPool = 1
  Fraction = 2
  Tax = 1
  IncentivesParams <- OnlyNoIncentives
  GenesisIncentives <- NoIncentives
  GenesisConfigs <- MCGenesisConfigs
  GenesisCellars <- MCGenesisCellars
  MaxHeight = 6
  GovHeights = {3, 4}
  MaxProposals = 1
  VoteHeights = {2, 3}
  MaxVotes = 2
  MaxPackets = 2
INVARIANT
  ApprovedStaysRelayable
CHECK_DEADLOCK FALSE
