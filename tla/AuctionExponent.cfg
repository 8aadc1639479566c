SPECIFICATION Spec
CONSTANTS
  Unit = 10
  Exponents = {0, 1}
  CoinExponent = 1
  UintModulus = 1000
  Alice = Alice
  Bob = Bob
  Cellarfees = Cellarfees
  Auctions = Auctions
  usdc = usdc
  weth = weth
  usomm = usomm
  Usomm = usomm
  SaleDenoms = {usdc}
  Bidders = {Alice}
  AuctionAccount = Auctions
  FundingModules = {Cellarfees}
  ProceedsModules = {Cellarfees}
  InitialBank <- MCBank
  ParamSets <- MCParams
  PriceProposals <- PriceOfWholeToken
  Amounts = {2, 4}
  Rates = {6}
  Intervals = {2}
  MaxBids = {4, 11}
  MinAmounts = {1, 2}
  MaxHeight = 6
  MaxStartHeight = 4
  MaxGovHeight = 2
  MaxBidCount = 2
PROPERTY
  StartPriceUsesExponent
CHECK_DEADLOCK FALSE
