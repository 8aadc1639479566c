SPECIFICATION FeesSpec
CONSTANTS
  Unit = 10
  Exponents = {0, 1}
  CoinExponent = 1
  UintModulus = 1000
  Alice = Alice
  Cellarfees = Cellarfees
  Auctions = Auctions
  usdc = usdc
  weth = weth
  usomm = usomm
  Usomm = usomm
  SaleDenoms = {usdc, weth}
  Bidders = {Alice}
  AuctionAccount = Auctions
  FundingModules = {Cellarfees}
  ProceedsModules = {Cellarfees}
  InitialBank <- MCBank
  ParamSets <- MCParams
  PriceProposals <- MCPrices
  DenomOrder <- Order
  FeeParamSets <- MCFeeParams
  FeeAmounts = {0, 1}
  MaxFees = 2
  MaxFeeHeight = 2
  Amounts = {}
  Rates = {}
  Intervals = {}
  MaxBids = {4}
  MinAmounts = {1}
  MaxHeight = 10
  MaxStartHeight = 0
  MaxGovHeight = 2
  MaxBidCount = 1
INVARIANTS
  FeesTypeOK
  CountedFeesHeld
PROPERTIES
  ResetMeansOnSale
  RewardsAreEmitted
  AuctionsEnd
CHECK_DEADLOCK FALSE
