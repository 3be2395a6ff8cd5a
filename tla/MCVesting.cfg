SPECIFICATION FairSpec
CONSTANTS
  Precision = 100
  Addresses = {a1, a2}
  Nobody = Nobody
  Targets = {1, 2, 3}
  Blocked = {3}
  Allocation <- SomeAllocation
  StrategicReserve = 2
  VeVesting = 3
  AirdropCap = 6
  VestingTime = 4
  ClaimVestedPeriod = 2
  DisplayUnit = 2
  AirdropInputs <- SomeInputs
  MaxCounts = {1, 2}
  Gaps = {1, 3}
  MaxDonations = 1
INVARIANTS
  AllocationKept
  AirdropsWithinCap
PROPERTY AllReleased
