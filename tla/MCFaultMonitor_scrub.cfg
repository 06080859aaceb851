SPECIFICATION FairSpec
CONSTANTS
  N = 2
  HealthLen = 2
  DropCap = 1
  Threshold = 4
  MaxStrikes = 2
  RecoveryRate = 1
  U32Max = 3
  Dts <- MCDts
INVARIANTS
  TypeOK
  RemovalNeedsEvidence
  VerdictMatchesCounters
PROPERTIES
  PermanentUntilReset
  PersistentFaultIsDropped
  TransientClears
