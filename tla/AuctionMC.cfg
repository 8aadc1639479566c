SPECIFICATION Spec
CONSTANTS
  Unit = 10
  Exponents = {0, 1}
  CoinExponent = 1
  UintModulus = 1000
  Alice = Alice
  Bob = Bob
  Cellarfees = Cellarfees
  Auctions = Auctions
  usdc = usdc
  weth = weth
  usomm = usomm
  Usomm = usomm
  SaleDenoms = {usdc, weth}
  Bidders = {Alice, Bob}
  AuctionAccount = Auctions
  FundingModules = {Cellarfees}
  ProceedsModules = {Cellarfees}
  InitialBank <- MCBank
  ParamSets <- MCParams
  PriceProposals <- MCPrices
  Amounts = {2, 4}
  Rates = {6}
  Intervals = {1, 2}
  MaxBids = {2, 11}
  MinAmounts = {1, 2}
  MaxHeight = 6
  MaxStartHeight = 4
  MaxGovHeight = 2
  MaxBidCount = 2
SYMMETRY Symmetry
INVARIANTS
  TypeOK
  StoreWellFormed
  SaleTokensBacked
  ProceedsBacked
  EndBlockNeverPanics
  BidsAreFair
  SoldMatchesBids
  LaterBidsAreNotDearer
  SupplyConserved
PROPERTIES
  LatestEndedKept
  ImplementsSales
CHECK_DEADLOCK FALSE
