SPECIFICATION Spec
CHECK_DEADLOCK FALSE
CONSTANTS
  CostMin <- MCCostMin
  CostMax = 31
  Problems <- MCProblems
INVARIANTS
  TypeOK
  StaysRoute
  CostMatchesOrder
  LocallyOptimal
  TrueLocalOptimum
PROPERTIES
  Terminates
