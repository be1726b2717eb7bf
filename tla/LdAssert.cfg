CONSTANTS
  Proxies = {1, 2, 3, 4}
  Scenes <- WorldScenes
  Kind <- WorldKind
  Sensors = {}
  Places = {0, 1, 2}
  Homes <- WorldHomes
  Driven = {2}
  Dragged = {3}
  Speeds = {1}
  Weldable <- Welds
  Patience = 1
  MaxCalls = 2
  LayerEntry <- MCLayers
  BodyEntry <- MCBodies
  JointEntry <- MCJoints
  LayerNames = {"low"}
  MaxLayers = 2
  MaxBodies = 3
  MaxJoints = 2
  Layouts <- MCLayouts
  Poses <- MCPoses
  WallLayouts <- MCWalls
  Layers = {"walls"}
  Origins <- MCOrigins
  Robots <- MCRobots
  Named = {"walls", "bot"}
  WallCounts = {0, 1, 2, 3}
  Distance = 5
  Patches <- MCPatches
  Unit = 4
  Dt = 1
  MinSpeed = 1
  Grounds = {0, 1, 2, 4}
  Velocities <- MCVelocities
  MaxTime = 3
  Model = {"robot", "crate", "wall"}
  Body = {"base", "probe", "box", "border"}
  ModelOf <- MCModelOf
  Carrier = "robot"
  SensorBody = "probe"
  Excluded = {"base"}
  Deletable = {"robot", "crate"}
  MaxSolves = 1
  MaxContacts = 3
SPECIFICATION MCSpec
INVARIANTS
  NoAssertionFails
CHECK_DEADLOCK FALSE
