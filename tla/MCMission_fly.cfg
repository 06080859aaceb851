SPECIFICATION MissionSpec
CONSTANTS
  Axes = {"x", "z"}
  FenceMin <- MCFenceMin
  FenceMax <- MCFenceMax
  Margin = 2
  Step = 2
  Radius = 1
  ZRadius = 1
  SafeZs = {2, 5}
  Store = 2
  Waypoints <- MCWaypoints
  Starts <- MCStarts
  MaxCalls = 5
PROPERTIES FenceIsNeverCrossed TargetsAreReached
