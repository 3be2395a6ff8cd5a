SPECIFICATION Spec
CONSTANTS
    p1 = p1
    p2 = p2
    alice = alice
    bob = bob
    Ves = {1, 2}
    Denoms = {p1, p2}
    Pool = p1
    Precision = 2
    Owners = {alice, bob}
    Period = 2
    Explored <- Parts
INVARIANTS
    VotesAreSums
    ClaimableBacked
    DepositBooks
    PriorEpochExact
    RewardsFunded
