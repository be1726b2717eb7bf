CONSTANTS
  Name = {a}
  NoName = NoName
  NoPose = NoPose
  Poses = 2
  Offsets = {0}
  Removable = {}
  Draggable = {a}
  MayVanish = FALSE
  Quiet = 1
  Stale = 5
  MaxCycle = 3
SPECIFICATION MarkersSpec
PROPERTIES
  OnlyStoppedStreamUnpauses
