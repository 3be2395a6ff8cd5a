SPECIFICATION Spec
CONSTANTS
  alice = alice
  lion = lion
  Accounts = {alice, bob}
  Minters = {maker}
  Pools = {maker}
  BankModule = bankModule
  Erc20Module = erc20Module
  Natives = {lion}
  Gas = iron
  Tokens = {}
  Genesis <- HeldGenesis
  MaxAmount = 2
  MaxSupply <- ThreeLions
INVARIANT ConsistentBalance
