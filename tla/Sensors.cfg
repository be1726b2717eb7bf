CONSTANTS
  Worker = {w1, w2}
  NoJob = NoJob
  Rays = 3
  ClusterSize = 2
  MaxRange = 4
  Growth = 2
  Scenes <- MCScenes
  Nan = 99
  Far = 99
  Gone = 88
  pallet = pallet
  box = box
SPECIFICATION MCSpec
INVARIANTS
  CloudsAndFramesAreTrue
PROPERTIES
  ScansAreTrue
  ScansEnd
  DetectsAndRemembers
  SamplesAddUp
CHECK_DEADLOCK FALSE
