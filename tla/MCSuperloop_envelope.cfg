SPECIFICATION Spec
CONSTANTS
  Group <- MCGroup
  Period <- MCPeriod
  Gaps <- MCGaps
  BootTimes <- MCBootTimes
  ClockMod = 36
  Horizon = 27
  OuterLoop = "R200Hz"
  Targets <- MCTargets
  Yaws <- MCYaws
  KpYaw = 6
  MaxYawRate = 21
INVARIANT EnvelopeIsNonBypassable
CHECK_DEADLOCK FALSE
