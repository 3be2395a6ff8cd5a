SPECIFICATION HistorySpec
CONSTANTS
    NoOne = NoOne
    Users = {u1, u2}
    MaxVeID = 2
    RegulatedPeriod = 2
    MaxLockTime = 4
    Amounts = {4, 6}
    Durations = {2, 4, 5}
    GenesisTimes = {3}
    InitialCoins = {4, 8}
    Gaps = {1, 3}
    LastTime = 7
    MaxAttached = 1
    Precision = 10
    Scenarios <- RecordedAndShared
SYMMETRY UserSymmetry
INVARIANTS
    TypeOK
    LocksBacked
    UserPowerExact
    ScheduleMatchesLocks
    TotalPowerIsSum
    PastPowersFound
PROPERTIES
    AttachedStays
    ImplementsEscrow
CHECK_DEADLOCK FALSE
