CONSTANTS
  Model = {r1, r2, p1}
  Carrier = {r1, r2}
  ForkCarrier = {r1}
  Deletable = {p1}
  Joint = {j1, j2}
  NoJoint = NoJoint
  None = None
  LiftHeight = 1
  CarryOffset = 0
  Drop = 1
  MaxGroups = 2
SPECIFICATION Spec
INVARIANTS
  WeldedStopColliding
