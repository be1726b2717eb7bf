CONSTANTS
  Steps = {2}
  Periods = {0}
  Cycle = 2
  VizPeriod = 5
  MaxWork = 1
  MaxCycles = 2
  MaySignal = TRUE
SPECIFICATION Spec
INVARIANTS
  ManagerOutlivesMain
CHECK_DEADLOCK FALSE
