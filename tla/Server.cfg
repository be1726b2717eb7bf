CONSTANTS
  Steps = {1, 2}
  Periods = {0, 1, 3, 4}
  Cycle = 2
  VizPeriod = 5
  MaxWork = 5
  MaxCycles = 6
  MaySignal = TRUE
  All = all_layers
  LayerName <- MCLayerName
  Fixture <- MCFixture
  MaxLayers = 2
  GroupBits = 3
  MaxGroups = 2
  Name <- MCName
  Layer = ground
  NoName = NoName
  BodyCount = 2
  JointCount = 1
  PluginCount = 2
  no_file = no_file
  off_ground = off_ground
  Models = {m1, m2}
  Looks <- MCLooks
  GroundBodies <- MCGround
SPECIFICATION MCSpec
INVARIANTS
  AtMostOneCycleBehind
  NoDrift
  VizKeepsUp
  CollideInSharedLayer
  ObjectsPaired
  ReadsAsWritten
PROPERTIES
  SpawnIsAtomic
  SpawnedAsShown
  ViewerFollows
CHECK_DEADLOCK FALSE
