----------------------------- MODULE MCMotion -----------------------------
(* What moves a robot and its parts, with small whole numbers: the fork    *)
(* plugins, the limits and wheels of the five drives, the models that may  *)
(* stand in for them, the kinematics of two turrets, and a tween.  A       *)
(* behaviour is one of one of the five.                                    *)
EXTENDS Fork, Drives, Sequences

CONSTANTS Wrap, Durations

VARIABLES which,
  user, stage, file, hist, command, received, age, since, held, oe, queues,
  acc, ts, rows, quiet,
  turrets, wheels, motion, body,
  mode, easing, duration, progress, direction, triggered, place, arrived, elapsed

(* Commands on, between and beyond the thresholds of the forks.            *)
MCCommands == {-1, 0, 1, 2, 3, 5, 7}

(* Speeds and angles on both sides of zero, one beyond max_steer_angle.    *)
MCSpeeds == {-2, 1}
MCTurns == {-2, 3}
MCImpulses == {<<0, 0>>, <<-1, 1>>}
MCOutputs == {-3, 2}
MCLinear == Configure(1, <<2>>, 0)
MCAngular == Configure(1, << >>, 2)

(* A model whose lags reach two samples back, one of two coupled outputs,  *)
(* and three that are refused.                                             *)
term(weight, factors) == [theta |-> weight, factors |-> factors]
factor(var, lag) == [var |-> var, lag |-> lag]
Coupled ==
  << [output |-> "v", inputs |-> <<"speed", "w">>,
      terms |-> << term(1, <<factor(0, 1), factor(2, 2)>>),
                   term(1, <<factor(1, 0)>>) >>],
     [output |-> "w", inputs |-> <<"speed">>,
      terms |-> << term(2, <<factor(1, 2)>>), term(1, <<factor(0, 2)>>) >>] >>
ReadsItself ==
  << [output |-> "v", inputs |-> <<"speed">>,
      terms |-> << term(1, <<factor(0, 0)>>) >>] >>
ReadsAhead ==
  << [output |-> "v", inputs |-> <<"w">>, terms |-> << term(1, <<factor(1, 0)>>) >>],
     [output |-> "w", inputs |-> <<"steer">>,
      terms |-> << term(1, <<factor(1, 0)>>) >>] >>
Foreign ==
  << [output |-> "v", inputs |-> <<"gear">>,
      terms |-> << term(1, <<factor(1, 0)>>) >>] >>
Id == INSTANCE SystemIdDrive WITH
  Files <- {Coupled, ReadsItself, ReadsAhead, Foreign},
  Wanted <- {"v", "w"}, Known <- {"speed", "steer"}, Values <- {0, 1},
  OEs <- { [B |-> <<1, 2>>, F |-> <<1, 1>>, nk |-> 1],
           [B |-> <<1>>, F |-> << >>, nk |-> 0],
           [B |-> << >>, F |-> <<1>>, nk |-> 0] },
  SampleTimes <- {2, 5}, StepSize <- 3, Ring <- 3,
  Timeout <- 3, Period <- 2, MaxSamples <- 5, MaxRows <- 12, MaxSeed <- 1

Omni == INSTANCE OmniKinematics WITH
  Places <- {<<0, 1>>, <<0, -1>>, <<2, 1>>, <<-1, 0>>},
  Motions <- [vx : {-1, 2}, vy : {0, 1}, omega : {-1, 0, 2}]

Sides == {"In", "Out", "InOut"}
Tw == INSTANCE Tween WITH
  Step <- 3,
  Easings <- [family : {"power"}, degree : 1 .. 5, side : Sides]
             \cup [family : {"bounce", "back"}, degree : {0}, side : Sides]

ASSUME Tw!ParametersAccepted

idVars == <<user, stage, file, hist, command, received, age, since, held, oe,
            queues, acc, ts, rows, quiet>>
omniVars == <<turrets, wheels, motion, body>>
tweenVars == <<mode, easing, duration, progress, direction, triggered, place,
               arrived, elapsed>>
all == <<which, vars, driveVars, idVars, omniVars, tweenVars>>

ForkIdle == Init /\ ~inRange
DriveIdle == DriveInit /\ kind = "DiffDrive" /\ joint = "missing" /\ pose = 0
             /\ ~identified
IdIdle == Id!Init /\ user = "DiffDrive" /\ oe.nk = 1 /\ ts = 5
OmniIdle == Omni!Init /\ turrets = <<<<0, 1>>, <<0, 1>>>>
TweenIdle == /\ Tw!TweenInit /\ mode = "trigger"
             /\ easing = [family |-> "power", degree |-> 1, side |-> "In"]
             /\ duration = CHOOSE n \in Durations : TRUE

MCInit ==
  \/ /\ which = "fork" /\ Init
     /\ DriveIdle /\ IdIdle /\ OmniIdle /\ TweenIdle
  \/ /\ which = "drive" /\ DriveInit
     /\ ForkIdle /\ IdIdle /\ OmniIdle /\ TweenIdle
  \/ /\ which = "model" /\ Id!Init
     /\ ForkIdle /\ DriveIdle /\ OmniIdle /\ TweenIdle
  \/ /\ which = "omni" /\ Omni!Init
     /\ ForkIdle /\ DriveIdle /\ IdIdle /\ TweenIdle
  \/ /\ which = "tween" /\ Tw!TweenInit
     /\ ForkIdle /\ DriveIdle /\ IdIdle /\ OmniIdle

Forks == which = "fork" /\ UNCHANGED <<which, driveVars, idVars, omniVars, tweenVars>>
Driven == which = "drive" /\ UNCHANGED <<which, vars, idVars, omniVars, tweenVars>>
Identified == which = "model" /\ UNCHANGED <<which, vars, driveVars, omniVars, tweenVars>>
Turrets == which = "omni" /\ UNCHANGED <<which, vars, driveVars, idVars, tweenVars>>
Tweens == which = "tween" /\ UNCHANGED <<which, vars, driveVars, idVars, omniVars>>

MCNext ==
  \/ Forks /\ Next
  \/ Driven /\ DriveNext
  \/ Identified /\ Id!Next
  \/ Turrets /\ Omni!Next
  \/ Tweens /\ Tw!TweenNext

(* In each of the worlds the physics steps go on; what a step of a drive   *)
(* would do is spelled out by Turning, see Drives.                         *)
PhysicsStep ==
  \/ Forks /\ BeforePhysicsStep(TRUE)
  \/ Tweens /\ Tw!TweenStep

MCSpec == MCInit /\ [][MCNext]_all /\ WF_all(PhysicsStep) /\ StepsGoOn

(* Definitions of the instances under names a .cfg can use, some with the  *)
(* types they rest on.                                                     *)
RunsAsIdentified == Id!RunsAsIdentified
MovesAsSteered == Omni!MovesAsSteered
TweenRuns == Tw!TweenRuns
=============================================================================
