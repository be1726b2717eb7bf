CONSTANTS
  Model = {r1, r2, p1}
  Carrier = {r1, r2}
  ForkCarrier = {r1}
  Deletable = {r1, r2, p1}
  Joint = {j1, j2}
  NoJoint = NoJoint
  None = None
  LiftHeight = 1
  CarryOffset = 0
  Drop = 1
  MaxGroups = 3
  q1 = q1
  q2 = q2
  load = load
  spare = spare
  Name <- MCName
  Draggable <- MCDraggable
  Removable <- MCDraggable
  Poses = 2
  Offsets = {0, 1}
  MayVanish = TRUE
  Quiet = 1
  Stale = 5
  MaxCycle = 3
  NoName = NoName
  NoPose = NoPose
SPECIFICATION MCSpec
INVARIANTS
  NoOrphanWeld
  GhostsAreWelded
PROPERTIES
  AttachmentsHold
  RaisedComesDown
  LoadsReachTheFloor
  MarkersFollow
  AbandonedDragUnpauses
CHECK_DEADLOCK FALSE
