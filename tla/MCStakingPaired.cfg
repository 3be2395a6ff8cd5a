CONSTANTS
    Precision = 2
    Delegators = {d1}
    Validators = {v1, v2}
    d1 = d1
    v1 = v1
    v2 = v2
    Coins = 4
    Genesis <- EvenAndUnbonded
    Amounts = {2}
    UnbondingTime = 2
    MaxEntries = 2
    Gaps = {1}
    Powers = {2}
    Factors = {1}
    Lookbacks = {1}
    Restarts = FALSE
    MaxAge = 2
    MaxVeShares = 4
SPECIFICATION Spec
INVARIANT VeEntriesPaired
CHECK_DEADLOCK FALSE
