SPECIFICATION Spec
CHECK_DEADLOCK FALSE
CONSTANTS
  CostMin <- MCCostMin
  CostMax = 7
  Problems <- MCProblems
  StartNodes <- MCStartNodes
INVARIANTS
  TourIsPermutation
