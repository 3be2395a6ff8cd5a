SPECIFICATION Spec
CONSTANTS
  c1 = c1
  c2 = c2
  a1 = a1
  a2 = a2
  Accounts = {a1, a2}
  Collaterals = {c1, c2}
  Iron = Iron
  Grid = Grid
  Precision = 100
  Quotes <- SomeQuotes
  Listings <- SomeListings
  Patches <- SomePatches
  LiquidationCommissionFee = 100
  BlocksPerYear = 2
  Wallets <- SomeWallets
  InitialGrid = 1
  Amounts = {0, 1, 2}
  LastHeight = 3
SYMMETRY Interchangeable
INVARIANTS
  TotalsAreSums
  DebtCoversSupply
PROPERTIES
  SafeUnlessDue
CHECK_DEADLOCK FALSE
