CONSTANTS
  MaxTurn = 1
  MaxTime = 2
  Speeds = {0, 1}
  Rate = 2
  Unset = 99
SPECIFICATION Spec
PROPERTY
  AccelerationInImuFrame
CHECK_DEADLOCK FALSE
