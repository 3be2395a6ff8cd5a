SPECIFICATION Spec
CONSTANTS
  alice = alice
  lion = lion
  Accounts = {alice, bob}
  Minters = {maker}
  Pools = {maker}
  BankModule = bankModule
  Erc20Module = erc20Module
  Natives = {lion, usdm}
  Gas = iron
  Tokens = {weth}
  Genesis <- HeldGenesis
  MaxAmount = 2
  MaxSupply <- TwoLions
INVARIANTS
  TypeOK
  MirrorUntilEvm
  HeldIsRegistered
PROPERTY SuppliesOrdered
