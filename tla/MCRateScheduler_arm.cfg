SPECIFICATION SchedSpec
CONSTANTS
  Group <- MCGroup
  Period <- MCPeriod
  Gaps <- MCGaps
  ClockMod = 3
PROPERTY EveryGroupRunsAgain
