------------------------------- MODULE Drives -------------------------------
(***************************************************************************)
(* The five kinematic drive plugins: DiffDrive, DiffDriveCaster,           *)
(* TricycleDrive, TricycleDriveAckermann and OmniDrive.  A drive checks    *)
(* the model it is loaded for, latches the last command, and in every step *)
(* takes its velocities through the limits, turns the steered wheel, sets  *)
(* the velocities of the body and publishes odometry.                      *)
(*                                                                         *)
(* Abstractions.  Velocities and angles are whole numbers and a step takes *)
(* one unit of time.  A pose is a number: headings, frames, the offset of  *)
(* the centre of mass and noise are left out.  The two turrets of an       *)
(* OmniDrive do not interact before their velocities are combined          *)
(* (OmniKinematics), so one of them is modelled.  When the timer of the    *)
(* publications fires is left open.  What the impulses of casters make of  *)
(* the velocities of the body is any of Impulses, where the casters point  *)
(* is left open; what an identified model puts out is any of ModelOutputs  *)
(* (SystemIdDrive has the models).                                         *)
(***************************************************************************)
EXTENDS Integers

CONSTANTS
  Kinds,     \* drives a model may have
  Speeds,    \* commanded speeds
  Turns,     \* commanded angular velocities or steering angles
  Linear,    \* limits of the speed
  Angular,   \* limits of the angular velocity or of steering
  MaxSteer,  \* max_steer_angle_, 0 for none
  Poses,     \* places of the robot
  Impulses,  \* changes <<speed, turn>> that the casters may make
  ModelOutputs  \* velocities that the identified models may put out

VARIABLES
  kind,      \* the drive of the model
  phase,     \* "loading", "driving" or "refused"
  joint,     \* what the model has for a steered wheel joint
  rear,      \* what the model has for rear wheel joints
  inverted,  \* invert_steering_angle_
  casters,   \* whether casters_ names any
  identified,\* use_id_model_, with both models configured
  limits,    \* limits of that joint, None while they are off
  cmd,       \* twist_msg_, or the command of the turret
  v,         \* linear_velocity_, v_f_, current_speed
  d,         \* angular_velocity_, d_delta_, steering_velocity
  theta,     \* theta_f_, current_steering
  body_vel,  \* velocities a differential drive has set the body's to
  pose,      \* pose of the body
  initial,   \* initial_position_, None before the first step
  last,      \* last_odom_position_, None before the first publication
  odom,      \* the last publication, None before the first
  origin,    \* history: the first published pose
  reckoned   \* history: sum of the published displacements since then

config == <<kind, joint, rear, inverted, casters, identified>>
driveVars == <<config, phase, limits, cmd, v, d, theta, body_vel, pose,
               initial, last, odom, origin, reckoned>>
published == <<last, odom, origin, reckoned>>

-----------------------------------------------------------------------------
(* DynamicsLimits (dynamics_limits.cpp): the velocity and acceleration     *)
(* limits every drive passes its commands through.  The one quotient, the  *)
(* share of the step left after braking to zero, is rounded down; it is    *)
(* exact if dec divides acc.                                               *)
Abs(x) == IF x < 0 THEN -x ELSE x

(* Limits as Configure stores them: 0 disables a limit, and a deceleration *)
(* limit that is not given (<<>>) is the acceleration limit.               *)
Configure(acc, dec, vel) ==
  [acc |-> acc, dec |-> IF dec = <<>> THEN acc ELSE dec[1], vel |-> vel]

Saturate(in, lower, upper) ==
  CASE lower > upper -> in
    [] lower <= upper /\ in < lower -> lower
    [] lower <= upper /\ in > upper -> upper
    [] OTHER -> in

(* The limit on the change of velocity in this step, 0 for none.           *)
MutantRate(l, velocity, target) ==
  IF Abs(velocity) < Abs(target) THEN l.acc ELSE l.dec
Rate(l, velocity, target) ==
  LET speed == Abs(velocity)
      slowed == velocity + Saturate(target - velocity, -l.dec, l.dec)
  IN  CASE target = 0 -> l.dec
        [] target # 0 /\ velocity = 0 -> l.acc
        [] velocity * target > 0 -> IF speed < Abs(target) THEN l.acc ELSE l.dec
        [] velocity * target < 0 /\ l.dec = 0 -> l.acc
        [] velocity * target < 0 /\ l.dec # 0 /\ l.acc = 0 -> 0
        [] OTHER -> IF slowed * velocity > 0 THEN l.dec
                    ELSE speed + (l.acc * (l.dec - speed)) \div l.dec

(* Limit: the velocity after a step towards the target.  Without a         *)
(* deceleration limit a reversal starts from zero.                         *)
Limit(l, velocity, target_velocity) ==
  LET target == IF l.vel = 0 THEN target_velocity
                ELSE Saturate(target_velocity, -l.vel, l.vel)
      start == IF velocity * target < 0 /\ l.dec = 0 THEN 0 ELSE velocity
      rate == Rate(l, velocity, target)
  IN  start + IF rate = 0 THEN target - start ELSE Saturate(target - start, -rate, rate)

-----------------------------------------------------------------------------
(* A value not there yet is the empty sequence, another <<value>>.         *)
None == <<>>
Given(value) == <<value>>

AllKinds == {"DiffDrive", "DiffDriveCaster", "TricycleDrive",
             "TricycleDriveAckermann", "OmniDrive"}

(* Limits are not negative; 0 stands for none.                             *)
Limits == [acc : Nat, dec : Nat, vel : Nat]

DrivesAssumption ==
  /\ Linear \in Limits /\ Angular \in Limits
  /\ Speeds \subseteq Int /\ Turns \subseteq Int /\ Poses \subseteq Int
  /\ MaxSteer \in Nat
  /\ Kinds \subseteq AllKinds
  /\ Impulses \subseteq Int \X Int /\ ModelOutputs \subseteq Int

ASSUME DrivesAssumption

Steered == {"TricycleDrive", "TricycleDriveAckermann", "OmniDrive"}

(* Steered wheel joints a model may have: none of that name, of the wrong  *)
(* type, not attached to the body, not anchored at the origin of the       *)
(* wheel, not anchored at the origin of the body, or a revolute joint at   *)
(* both.                                                                   *)
Joints == {"missing", "weld", "elsewhere", "off wheel", "off body", "good"}

(* Rear wheel joints of a tricycle: one missing, one that is no weld, not  *)
(* attached to the body, not anchored at the origin of its wheel, or on an *)
(* axle whose middle is not straight behind the front wheel; or as meant.  *)
Tricycles == {"TricycleDrive", "TricycleDriveAckermann"}
RearJoints == {"missing", "revolute", "elsewhere", "off wheel", "uneven", "good"}

DriveTypeOK ==
  /\ kind \in Kinds /\ phase \in {"loading", "driving", "refused"}
  /\ joint \in Joints /\ rear \in RearJoints
  /\ inverted \in BOOLEAN /\ casters \in BOOLEAN /\ identified \in BOOLEAN
  /\ cmd \in [speed : Speeds \cup {0}, turn : Turns \cup {0}]
  /\ v \in Int /\ d \in Int /\ theta \in Int /\ body_vel \in Int \X Int
  /\ pose \in Poses
  /\ initial \in {None} \cup {Given(p) : p \in Poses}
  /\ last \in {None} \cup {Given(p) : p \in Poses}

-----------------------------------------------------------------------------
(* Loading.                                                                *)

DriveInit ==
  /\ kind \in Kinds
  /\ phase = "loading"
  /\ joint \in IF kind \in Steered THEN Joints ELSE {"good", "missing"}
  /\ rear \in IF kind \in Tricycles THEN RearJoints ELSE {"good"}
  /\ inverted \in IF kind \in Steered THEN BOOLEAN ELSE {FALSE}
  /\ casters \in IF kind = "DiffDriveCaster" THEN BOOLEAN ELSE {FALSE}
  /\ identified \in IF kind = "DiffDrive" THEN BOOLEAN ELSE {FALSE}
  /\ limits = None
  /\ cmd = [speed |-> 0, turn |-> 0]
  /\ v = 0 /\ d = 0 /\ theta = 0 /\ body_vel = <<0, 0>>
  /\ pose \in Poses
  /\ initial = None /\ last = None /\ odom = None
  /\ origin = 0 /\ reckoned = 0

(* ComputeJoints of the two tricycles, and ComputeTurretJoint.             *)
TricycleJoints == joint = "good" /\ rear = "good"
AckermannJoints == joint \in {"good", "off body"} /\ rear = "good"
MutantTurretJoint == joint # "missing"
TurretJoint == joint \in {"good", "off body", "off wheel"}

(* A drive needs the bodies and joints its configuration names ("missing"  *)
(* stands for any of them), and steered wheels that fit its kinematics.    *)
DiffDriveAccepts == joint # "missing"
DiffDriveCasterAccepts == joint # "missing"
TricycleAccepts == joint # "missing" /\ rear # "missing" /\ TricycleJoints
AckermannAccepts == joint # "missing" /\ rear # "missing" /\ AckermannJoints
OmniAccepts == joint # "missing" /\ TurretJoint

Accepts ==
  CASE kind = "DiffDrive" -> DiffDriveAccepts
    [] kind = "DiffDriveCaster" -> DiffDriveCasterAccepts
    [] kind = "TricycleDrive" -> TricycleAccepts
    [] kind = "TricycleDriveAckermann" -> AckermannAccepts
    [] kind = "OmniDrive" -> OmniAccepts

(* OnInitialize throws or subscribes.  It enables the limits of the joint; *)
(* their values are those of the yaml file until the first step.           *)
OnInitialize ==
  /\ phase = "loading"
  /\ phase' = IF Accepts THEN "driving" ELSE "refused"
  /\ UNCHANGED <<config, limits, cmd, v, d, theta, body_vel, pose, initial,
                 published>>

-----------------------------------------------------------------------------
(* Commands, and what moves the robot.                                     *)

(* TwistCallback, or the callback of a turret.                             *)
TwistCallback ==
  /\ phase = "driving"
  /\ cmd' \in [speed : Speeds, turn : Turns]
  /\ UNCHANGED <<config, phase, limits, v, d, theta, body_vel, pose, initial,
                 published>>

(* Between two calls of BeforePhysicsStep: the solver moves the body as    *)
(* velocities, contacts and joints allow, and a service may move it.       *)
Move ==
  /\ phase = "driving"
  /\ pose' \in Poses \ {pose}
  /\ UNCHANGED <<config, phase, limits, cmd, v, d, theta, body_vel, initial,
                 published>>

-----------------------------------------------------------------------------
(* A step.                                                                 *)

(* Equations (2) to (4) of the steering: aim at the commanded angle unless *)
(* the wheel cannot stop before it any more.                               *)
Aim ==
  LET error == cmd.turn - theta
  IN  IF Angular.acc = 0 \/ 2 * Angular.acc * Abs(error) >= d * d
      THEN error ELSE 0

(* Equation (1), and max_steer_angle_.                                     *)
MutantSteeredTo(rate) == theta + rate + 1
SteeredTo(rate) ==
  IF MaxSteer = 0 THEN theta + rate
  ELSE Saturate(theta + rate, -MaxSteer, MaxSteer)

Steer ==
  LET rate  == Limit(Angular, d, Aim)
      angle == SteeredTo(rate)
  IN  /\ d' = rate
      /\ theta' = angle
      /\ limits' = IF inverted THEN <<-angle, -angle>> ELSE <<angle, angle>>
      /\ v' = Limit(Linear, v, cmd.speed)
      /\ UNCHANGED body_vel

(* The limits on both velocities of a differential drive.                  *)
Spin ==
  /\ v' = Limit(Linear, v, cmd.speed)
  /\ d' = Limit(Angular, d, cmd.turn)
  /\ UNCHANGED <<theta, limits>>

(* The identified models in their place, as often as their sample time is  *)
(* up; in between their last outputs are held.                             *)
FollowModels ==
  /\ v' \in ModelOutputs \cup {v}
  /\ d' \in ModelOutputs \cup {d}
  /\ UNCHANGED <<theta, limits>>

(* The impulses are applied to the body that has been set to the limited   *)
(* velocities; the next step starts from these again.                      *)
PushCasters ==
  \E change \in IF casters THEN Impulses ELSE {<<0, 0>>} :
    body_vel' = <<v' + change[1], d' + change[2]>>

(* The pose at the first step is where odometry starts.                    *)
Started == IF initial = None THEN Given(pose) ELSE initial

(* Publication of odometry relative to the start, with the velocities of   *)
(* the body.                                                               *)
Publish(start) ==
  /\ odom' = Given([truth |-> pose, odom |-> pose - start])
  /\ UNCHANGED <<last, origin, reckoned>>

(* TricycleDriveAckermann derives the velocities from the poses of this    *)
(* and the previous publication.                                           *)
PublishDerived(start) ==
  /\ odom' = Given([truth |-> pose, odom |-> pose - start])
  /\ last' = Given(pose)
  /\ origin' = IF last = None THEN pose ELSE origin
  /\ reckoned' = IF last = None THEN 0 ELSE reckoned + (pose - last[1])

Unpublished == UNCHANGED published

DiffDriveStep(publish) ==
  /\ kind = "DiffDrive"
  /\ IF identified THEN FollowModels ELSE Spin
  /\ body_vel' = <<v', d'>>
  /\ initial' = Started
  /\ IF publish THEN Publish(initial'[1]) ELSE Unpublished

DiffDriveCasterStep(publish) ==
  /\ kind = "DiffDriveCaster"
  /\ Spin
  /\ PushCasters
  /\ initial' = Started
  /\ IF publish THEN Publish(initial'[1]) ELSE Unpublished

(* The odometry of TricycleDrive is the pose in the world.                 *)
TricycleStep(publish) ==
  /\ kind = "TricycleDrive"
  /\ Steer
  /\ IF publish THEN Publish(0) ELSE Unpublished
  /\ UNCHANGED initial

AckermannStep(publish) ==
  /\ kind = "TricycleDriveAckermann"
  /\ initial' = Started
  /\ IF publish THEN PublishDerived(initial'[1]) ELSE Unpublished
  /\ Steer

(* UpdateTurretState.                                                      *)
OmniStep(publish) ==
  /\ kind = "OmniDrive"
  /\ Steer
  /\ initial' = Started
  /\ IF publish THEN Publish(initial'[1]) ELSE Unpublished

(* BeforePhysicsStep *)
DriveStep ==
  /\ phase = "driving"
  /\ \E publish \in BOOLEAN :
       \/ DiffDriveStep(publish)
       \/ DiffDriveCasterStep(publish)
       \/ TricycleStep(publish)
       \/ AckermannStep(publish)
       \/ OmniStep(publish)
  /\ UNCHANGED <<config, phase, cmd, pose>>

DriveNext == OnInitialize \/ TwistCallback \/ Move \/ DriveStep

(* The physics steps go on.  This is WF_<<theta, d>>(DriveStep): Turning   *)
(* spells out when a step would turn the wheel, which TLC evaluates much   *)
(* faster than ENABLED.                                                    *)
Turning ==
  /\ phase = "driving" /\ kind \in Steered
  /\ LET rate == Limit(Angular, d, Aim)
     IN  rate # d \/ SteeredTo(rate) # theta

StepsGoOn == <>[]Turning => []<><<DriveStep>>_<<theta, d>>

DriveSpec == DriveInit /\ [][DriveNext]_driveVars /\ StepsGoOn
-----------------------------------------------------------------------------
(* Properties.                                                             *)

(* What dynamics_limits.h promises of a step from one velocity to another  *)
(* towards a target: away from zero the velocity changes at most by acc,   *)
(* towards zero at most by dec, it does not leave the interval between     *)
(* where it was and the target, and it enters the velocity limit as fast   *)
(* as dec allows and stays there.  Through zero it first brakes and        *)
(* accelerates in what is left of the step.  Exempted is a reversal with a *)
(* deceleration but no acceleration limit, which the code does not limit   *)
(* at all (the "odd corner case" in Limit).                                *)
Respects(l, from, to, target) ==
  LET goal == IF l.vel = 0 THEN target ELSE Saturate(target, -l.vel, l.vel)
  IN  /\ \/ from <= to /\ to <= goal
         \/ goal <= to /\ to <= from
      /\ from * to >= 0 /\ Abs(to) > Abs(from) /\ l.acc # 0 => Abs(to) - Abs(from) <= l.acc
      /\ /\ from * to >= 0 /\ Abs(to) < Abs(from) /\ l.dec # 0
         /\ ~ (from * goal < 0 /\ l.acc = 0)
         => Abs(from) - Abs(to) <= l.dec
      /\ from * to < 0 /\ l.acc # 0 =>
           /\ l.dec # 0 => Abs(from) <= l.dec
           /\ l.dec = 0 => Abs(to) <= l.acc
           /\ l.dec # 0 => Abs(to) * l.dec <= l.acc * (l.dec - Abs(from))

(* Whatever the order of commands, the speed, the angular velocity of a    *)
(* differential drive and the steering velocity of a steered one, this on  *)
(* its way to what equations (2) to (4) aim at, respect their limits       *)
(* (Respects).  The steered wheel turns with the steering velocity and     *)
(* stops nowhere but at max_steer_angle, and the body of a differential    *)
(* drive is given the velocities that respect the limits.  Exempted are a  *)
(* DiffDrive that follows its identified models, which know no limits, and *)
(* what the casters' impulses make of the velocities given to the body.    *)
DriveRespectsLimits ==
  [][/\ ~identified =>
          /\ Respects(Linear, v, v', cmd.speed)
          /\ Respects(Angular, d, d', IF kind \in Steered THEN Aim ELSE cmd.turn)
     /\ \/ 0 <= theta' - theta /\ theta' - theta <= d'
        \/ d' <= theta' - theta /\ theta' - theta <= 0
     /\ kind \in Steered /\ theta' # theta =>
          \/ theta' = theta + d'
          \/ MaxSteer # 0 /\ Abs(theta') = MaxSteer
     /\ kind \notin Steered /\ ~casters => body_vel' = <<v', d'>>]_driveVars

(* The wheel joint is drawn at the steering angle, mirrored if the joint   *)
(* was built from wheel to body, and never beyond max_steer_angle; a drive *)
(* that steers has a revolute joint, so that the dynamic_cast in its step  *)
(* is no null pointer.  The published velocities of TricycleDriveAckermann *)
(* add up to the way the robot went, also through contacts and services    *)
(* that move it; every other odometry that starts at the robot is the pose *)
(* relative to that of the first step.                                     *)
WheelAndOdometry ==
  /\ DriveTypeOK
  /\ phase = "driving" /\ kind \in Steered =>
       /\ joint \notin {"missing", "weld", "elsewhere"}
       /\ kind \in Tricycles => rear = "good"
       /\ limits # None => limits = IF inverted THEN <<-theta, -theta>>
                                    ELSE <<theta, theta>>
       /\ MaxSteer # 0 => Abs(theta) <= MaxSteer
  /\ kind = "TricycleDriveAckermann" /\ odom # None =>
       /\ odom[1].truth = origin + reckoned
       /\ last[1] = odom[1].truth
  /\ kind # "TricycleDrive" /\ odom # None =>
       odom[1].truth - odom[1].odom = initial[1]

(* The angle a wheel is commanded, within max_steer_angle.                 *)
Commanded == IF MaxSteer = 0 THEN cmd.turn
             ELSE Saturate(cmd.turn, -MaxSteer, MaxSteer)

(* A wheel whose command does not change any more reaches the angle it is  *)
(* commanded, or max_steer_angle, and stays there, provided the wheel      *)
(* brakes at least as well as it accelerates: the distance it needs to     *)
(* stop is computed from the acceleration limit.                           *)
SteeringArrives ==
  \A turn \in Turns :
    <>[](kind \in Steered /\ phase = "driving" /\ cmd.turn = turn)
      => <>[](theta = Commanded)
=============================================================================
