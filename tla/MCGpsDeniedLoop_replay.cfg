SPECIFICATION Spec
CONSTANTS
  AidingLimit = 9
  OuterDiv = 3
  Scenarios <- MCScenarios
  MaxTick = 21
  MaxLost = 3
INVARIANTS
  TypeOK
  CoastIsDeclared
  NavigableMeansAided
  AlignedRunIsAided
CHECK_DEADLOCK FALSE
