SPECIFICATION Spec
CONSTANTS
  v1 = v1
  v2 = v2
  v3 = v3
  Precision = 100
  Validators = {v1, v2, v3}
  Feeders = {}
  Power <- ThreePowers
  Denoms = {1, 2}
  Contents <- MixedContents
  VotePeriod = 1
  SlashWindow = 4
  RewardDistributionWindow = 2
  VoteThreshold = 50
  RewardBand = 2
  MinValidPerWindow = 50
  UnbondingTimes = {4}
  Delegators = {}
  InitialPool = 5
  LastHeight = 4
  Commitments <- MixedThenPrice
INVARIANTS
  RatesSupported
  RewardsBacked
  ReferenceOrderFree
PROPERTY AbstainAbsolves
CHECK_DEADLOCK FALSE
SYMMETRY TwinSymmetry
