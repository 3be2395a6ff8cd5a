SPECIFICATION Spec
CONSTANTS
  b1 = b1
  b2 = b2
  Backings = {b1, b2}
  Iron = Iron
  Grid = Grid
  Precision = 100
  Quotes <- SomeQuotes
  Listings <- SomeListings
  Patches <- SomePatches
  RatioStep = 60
  PriceBand = 5
  MintPriceBias = 10
  RebackBonus = 50
  CooldownPeriod = 2
  GenesisRatios = {40, 100}
  InitialWallet <- SomeWallet
  Amounts = {0, 1, 2}
  LastHeight = 4
INVARIANT BooksMatchSupply
PROPERTIES
  LimitsHold
  EquityKept
  TradesTowardsRatio
  RatioFollowsPrice
CHECK_DEADLOCK FALSE
