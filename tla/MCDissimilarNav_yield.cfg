SPECIFICATION Spec
CONSTANTS
  Positions <- MCPositions
  Uncerts <- MCUncerts
  Drifts <- MCDrifts
  MaxTanDrift = 25
INVARIANTS
  YieldsToAnAvailableSource
