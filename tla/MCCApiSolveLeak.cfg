SPECIFICATION ApiSpec
CONSTANTS
  CostMin <- MCCostMin
  CostMax = 127
  Unset = Unset
  NodeIdMax = 2
  MaxRowLength = 3
  None = None
  Models <- MCModels
  TimeLimits <- MCTimeLimits
  Seeds <- MCSeeds
  kHeldKarpCutoff = 3
  MaxResults = 1
INVARIANTS
  EveryResultReachable
