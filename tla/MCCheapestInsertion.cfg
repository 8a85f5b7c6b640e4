SPECIFICATION Spec
CHECK_DEADLOCK FALSE
CONSTANTS
  CostMin <- MCCostMin
  CostMax = 31
  Problems <- MCProblems
  StartNodes <- MCStartNodes
INVARIANTS
  TypeOK
  RouteIfHasSecond
PROPERTIES
  InsertsCheapest
