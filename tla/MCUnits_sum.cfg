SPECIFICATION UnitsSpec
CONSTANTS
  short = short
  long = long
  oversized = oversized
  NoBytes = NoBytes
  Depth = 4
  SlotBytes = 2
  Msg <- MCMsg
  Size <- MCSize
  Rooms = {1, 2}
  BlockBytes = 4
  LengthBytes = 2
  MaxMessage = 14
  Base = 8
  Rs <- MCRs
  Blocks <- MCBlocks
  MaxBlocks = 3
  Burst = 13
  Seqs = {0, 1}
  CloudCap = 2
  AfdxMax = 20
  Secret <- MCSecret
  OtherSecret <- MCOtherSecret
  Telemetries <- MCTelemetries
  Commands <- MCCommands
  Motors <- MCMotors
  Clouds <- MCClouds
  Attitudes <- MCAttitudes
  Steps <- MCSteps
  TileSets <- MCTileSets
  Capacity = 3
  Samples = {0, 1, 2}
  Bytes = {0, 1}
  Ids = {0, 1, 3, 4}
  Yaws = {0, 1}
  Scans <- MCScans
  ScanCap = 2
  LandmarkRoom = 1
  RateGroups = {0, 1}
  Authorised = 3
  Sizes = {1, 2}
  Passes = {1, 2}
  MaxNow = 3
  Axes = {1, 2}
  MaxDepth = 2
  Cap = 6
  Pts = 2
  StackSlots = 64
  MaxAvoid = 1
  Landmarks <- MCLandmarks
  Radii = {3}
  Honest <- MCHonest
  Spoofed <- MCSpoofed
  MaxReceivers = 3
  Threshold = 3
  Columns <- MCColumns
  Wrenches <- MCWrenches
  Full = 10
  Kp = 2
  Ki = 1
  Kd = 4
  OutputMin <- MCOutputMin
  OutputMax = 4
  IntegralLimit = 9
  Errors <- MCErrors
  Measurements = {0, 1}
  Dts = {0, 1, 2}
  Terrains <- MCTerrains
  SearchRadius = 1
  Spacing = 1
  ProfileLen = 3
  Track <- MCTrack
  MaxDrift = 2
  Altitudes = {0, 2}
  GlideRatio = 2
  Lattice = 2
INVARIANTS
  TypeOK
  MacIsExact
  BurstIsDetected
  IntactFrameIsRead
  DamageIsNeverBelieved
  StoresHoldTheNewest
  TasksFollowHealth
  MapIsTheSet
  RaimBlamesTheLiar
  FaultsAreAbsorbed
  WindupIsShort
  TerrainIsMatched
PROPERTIES
  IsAFifo
  OnlyUnretainedAreLost
CHECK_DEADLOCK FALSE
