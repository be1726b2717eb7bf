CONSTANTS
  LiftHeight = 5
  LiftSpeed = 2
  AttachHeight = 3
  DetachHeight = 1
  GoalTolerance = 0
  Commands <- MCCommands
  InitialLifted = FALSE
  ForkliftFirst = TRUE
  Wrap = 64
  Kinds <- AllKinds
  Speeds <- MCSpeeds
  Turns <- MCTurns
  Linear <- MCLinear
  Angular <- MCAngular
  MaxSteer = 2
  Poses = {0, 1}
  Impulses <- MCImpulses
  ModelOutputs <- MCOutputs
  Durations = {11, 22, 44}
SPECIFICATION MCSpec
INVARIANTS
  ReleasedOnGround
  WheelAndOdometry
  RunsAsIdentified
PROPERTIES
  LoadFollowsForks
  GoalsAreReported
  DriveRespectsLimits
  SteeringArrives
  MovesAsSteered
  TweenRuns
CHECK_DEADLOCK FALSE
