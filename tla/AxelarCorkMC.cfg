SPECIFICATION Spec
CONSTANTS
  v1 = v1
  v2 = v2
  cellarA = cellarA
  proxyA = proxyA
  Validators = {v1, v2}
  Chains = {1, 2}
  Cellars = {cellarA}
  Corks <- MCCorks
  ChainConfigs <- MCChainConfigs
  Proxies = {proxyA}
  Domains = {publisher}
  PowerTables <- MCPowerTables
  Gmp = gmp
  Executor = executor
  Accounts = {gmp}
  CorkTimeoutBlocks = 5
  HeightThreshold = 2
  Word = 65536
  GenesisPublishers = {publisher}
  InitialPool = 1
  Fraction = 2
  Tax = 1
  IncentivesParams <- MCIncentivesParams
  GenesisIncentives <- MCGenesisIncentives
  GenesisConfigs <- MCGenesisConfigs
  GenesisCellars <- MCGenesisCellars
  MaxHeight = 5
  GovHeights = {3, 4}
  MaxProposals = 1
  VoteHeights = {2, 3}
  MaxVotes = 2
  MaxPackets = 2
INVARIANTS
  TypeOK
  RelayedAtMostOnce
  NoncesAreConsecutive
  RelayedWasApproved
  UpgradesWaitAndLeaveOnce
  PoolIsBacked
PROPERTIES
  SubscriptionsFollowCellars
CHECK_DEADLOCK FALSE
