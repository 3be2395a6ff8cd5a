SPECIFICATION FairSpec
CONSTANTS
  v1 = v1
  v2 = v2
  v3 = v3
  Precision = 100
  Validators = {v1, v2}
  Feeders = {f1}
  Power <- TwoPowers
  Denoms = {1}
  Contents <- PriceOnly
  VotePeriod = 2
  SlashWindow = 4
  RewardDistributionWindow = 4
  VoteThreshold = 50
  RewardBand = 2
  MinValidPerWindow = 60
  UnbondingTimes = {1, 4}
  Delegators = {v1}
  InitialPool = 4
  LastHeight = 8
  Commitments <- PriceInTime
INVARIANTS
  VotesFresh
  MissesOfThisWindow
  HaltsOnlyOnRemoval
PROPERTY AllSettled
CHECK_DEADLOCK FALSE
