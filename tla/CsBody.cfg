CONSTANTS
  robot = robot
  crate = crate
  wall = wall
  base = base
  probe = probe
  box = box
  border = border
  Model = {robot, crate, wall}
  Body = {base, probe, box, border}
  ModelOf <- RobotModelOf
  Carrier = robot
  SensorBody = probe
  Excluded = {}
  Deletable = {crate}
  MaxSolves = 0
  MaxContacts = 6
SPECIFICATION Spec
PROPERTIES
  SensesBody
