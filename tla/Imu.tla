-------------------------------- MODULE Imu --------------------------------
(***************************************************************************)
(* The rate gyro and the accelerometer of the Imu plugin                   *)
(* (flatland_plugins/src/imu.cpp): both are differences between samples,   *)
(* of the angle and of the velocity of a body, however many physics steps  *)
(* lie between two of them.                                                *)
(*                                                                         *)
(* Angles count quarter turns, on without end like those of Box2D, and     *)
(* time counts physics steps.  Vectors are pairs <<x, y>>; a yaw rate is   *)
(* kept as the turn and the time it is divided by.  Noise, covariances and *)
(* the identity transform that is broadcast are left out.                  *)
(***************************************************************************)
EXTENDS Integers

CONSTANTS
  MaxTurn,   \* bound: quarter turns of the body to either side
  MaxTime,   \* bound on the physics steps
  Speeds,    \* velocities of the body along each axis of the world
  Rate,      \* pub_rate_, given and finite: the default multiplies by infinity
  Unset      \* last_angle_ while have_last_angle_ is false

VARIABLES
  angle, velocity,              \* of the body, in the world
  now,                          \* simulated time
  last_angle, last_angle_time,  \* of the last sample
  linear_vel_local_prev,        \* of the last sample; not initialised
  sent,                         \* the message published in this step, or None
  turned, spent, gained         \* history: the heading, time and velocity of the
                                \* first sample and what the others add to them

vars == <<angle, velocity, now, last_angle, last_angle_time, linear_vel_local_prev,
          sent, turned, spent, gained>>

None == << >>

Init ==
  /\ angle = 0 /\ velocity = <<0, 0>> /\ now = 0
  /\ last_angle = Unset /\ last_angle_time = 0
  /\ linear_vel_local_prev \in Speeds \X Speeds
  /\ sent = None
  /\ turned = 0 /\ spent = 0 /\ gained = <<0, 0>>

(* Physics turns a body by less than half a turn and speeds it up; a       *)
(* service may set it down at any angle.                                   *)
Move ==
  /\ angle' \in {a \in {angle - 1, angle, angle + 1, angle + 4, angle - 4} :
                  a \in -MaxTurn .. MaxTurn}
  /\ velocity' \in Speeds \X Speeds
  /\ sent' = None
  /\ UNCHANGED <<now, last_angle, last_angle_time, linear_vel_local_prev,
                 turned, spent, gained>>

(* dtheta, wrapped into half a turn to either side.                        *)
Wrapped(d) == CASE d % 4 = 2 -> IF d > 0 THEN 2 ELSE -2
                [] d % 4 = 3 -> -1
                [] OTHER -> d % 4

cos(q) == CASE q % 4 = 0 -> 1 [] q % 4 = 2 -> -1 [] OTHER -> 0
sin(q) == cos(q - 1)

(* The change of velocity in the world into that of the message: not the   *)
(* rotation by -q, which has -sin in y.                                    *)
Into(q, g) == <<cos(q) * g[1] + sin(q) * g[2], sin(q) * g[1] + cos(q) * g[2]>>
(* The rotation from the frame of the body into the world.                 *)
World(q, a) == <<cos(q) * a[1] - sin(q) * a[2], sin(q) * a[1] + cos(q) * a[2]>>

(* The velocity difference is multiplied by pub_rate_, whatever time has   *)
(* passed since the last sample.                                           *)
linear_acceleration ==
  Into(angle, <<(velocity[1] - linear_vel_local_prev[1]) * Rate,
                (velocity[2] - linear_vel_local_prev[2]) * Rate>>)

(* The first yaw rate is the velocity of Box2D, the others what the body   *)
(* has turned over the time since the last sample.                         *)
angular_velocity(time) ==
  IF last_angle = Unset THEN {[turn |-> w, over |-> 1] : w \in {-1, 0, 1}}
  ELSE {[turn |-> Wrapped(angle - last_angle), over |-> time - last_angle_time]}

MutantKept(due) == angle
(* last_angle_ is that of the last sample, not of the last step.           *)
Kept(due) == IF due THEN angle ELSE last_angle

(* History: the first sample is where the sums begin.  Into is its own     *)
(* inverse at quarter turns.                                               *)
AddUp(gyro, accel) ==
  LET back == Into(angle, accel)
  IN  IF last_angle = Unset
      THEN /\ turned' = angle % 4 /\ spent' = now'
           /\ gained' = <<velocity[1] * Rate, velocity[2] * Rate>>
      ELSE /\ turned' = (turned + gyro.turn) % 4 /\ spent' = spent + gyro.over
           /\ gained' = <<gained[1] + back[1], gained[2] + back[2]>>

(* A physics step, and AfterPhysicsStep with a timer that fires or not.    *)
AfterPhysicsStep(due) ==
  /\ now < MaxTime /\ now' = now + 1
  /\ IF due
     THEN \E gyro \in angular_velocity(now') :
            /\ sent' = [gyro |-> gyro, accel |-> linear_acceleration]
            /\ AddUp(gyro, linear_acceleration)
            /\ last_angle_time' = now'
            /\ linear_vel_local_prev' = velocity
     ELSE /\ sent' = None
          /\ UNCHANGED <<last_angle_time, linear_vel_local_prev, turned, spent, gained>>
  /\ last_angle' = Kept(due)
  /\ UNCHANGED <<angle, velocity>>

Next ==
  \/ Move
  \/ \E due \in BOOLEAN : AfterPhysicsStep(due)

Spec == Init /\ [][Next]_vars
-----------------------------------------------------------------------------
(* The samples add up, from the first one on and whatever happened in the  *)
(* steps between two of them: the yaw rates, each over the time it is      *)
(* divided by, to the heading, and those times to the time that has        *)
(* passed; the accelerations, read back by the transform the code applies, *)
(* to pub_rate times the velocity.                                         *)
SamplesAddUp ==
  [][sent' # None =>
       /\ turned' = angle % 4 /\ spent' = now'
       /\ gained' = <<velocity[1] * Rate, velocity[2] * Rate>>]_vars

(* The messages are in the frame of the Imu, to which an identity          *)
(* transform leads from its body (imu.rst:44, "Both output topics use the  *)
(* namespaced imu_frame_id"): turned into the world, an acceleration is    *)
(* pub_rate times the change of velocity since the last sample.  The       *)
(* transform of the code is no rotation, so this fails; SamplesAddUp reads *)
(* the messages as the code writes them.                                   *)
AccelerationInImuFrame ==
  [][sent' # None /\ last_angle # Unset =>
       World(angle, sent'.accel) =
         <<(velocity[1] - linear_vel_local_prev[1]) * Rate,
           (velocity[2] - linear_vel_local_prev[2]) * Rate>>]_vars
=============================================================================
