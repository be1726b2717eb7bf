------------------------------ MODULE MCSensors ------------------------------
(* The sensors, each in a small world of its own: the scan of a Laser on a *)
(* pool of two threads, a MockLidar3D over a map of a few points, a camera *)
(* that looks for two targets, the frames of a fork lift with a Gps, and   *)
(* an Imu.  A behaviour is one of one of them.                             *)
EXTENDS Laser

CONSTANTS Far, Gone, pallet, box

VARIABLES which,
  map_pts, lidar, bodies, time, listened, pending, view, chunks, result,
  scan_stamp, dynamic_returns, cloud, alive, moments,
  at, lifted, camera, anchored, sent, frames,
  config, pose, elevation, tfs, fix, tf_truth, fix_truth,
  angle, velocity, now, last_angle, last_angle_time, linear_vel_local_prev,
  message, turned, spent, gained

(* A ray may meet nothing; a dull obstacle before a bright one; or a       *)
(* bright one at the end of the range behind a bright one that is no       *)
(* obstacle.  The second ray never meets the last.                         *)
hit(reach, seen, bright) == [at |-> reach, seen |-> seen, bright |-> bright]
MCNear == {hit(1, TRUE, FALSE), hit(3, TRUE, TRUE)}
MCFar == {hit(4, TRUE, TRUE), hit(1, FALSE, TRUE)}
MCScenes == {s \in [0 .. 2 -> {{}, MCNear, MCFar}] : s[1] # MCFar /\ s[0] # {}}

(* A map of three points, of which one is too steep and one too far, seen  *)
(* at the same place by two channels; a file whose rows are not all of the *)
(* same length, and one without points.                                    *)
file(fields, rows) == [fields |-> fields, rows |-> rows]
MCFiles == { file(4, <<<<3, 0, 1, 9>>, <<5, 0, 1, 9>>, <<-2, 1, 2, 9>>, <<3, 0, 3, 9>>>>),
             file(3, <<<<2, 0>>, <<1, 0, 1>>, <<4, 0, 2>>, <<-3, 0, 1>>>>),
             file(2, << >>) }
person(x, low, high, model) == [x |-> x, low |-> low, high |-> high, model |-> model]
MCCrowds == { {}, {person(2, 0, 1, TRUE), person(3, 0, 5, FALSE), person(-1, 1, 4, TRUE)} }

L3D == INSTANCE Lidar3D WITH
  pose <- lidar, subscribed <- listened, Files <- MCFiles, Channels <- <<0, 1>>,
  Tolerance <- 1, Chunks <- 2, MinRange <- 1, OriginZ <- 1, Heights <- {2, 3},
  Poses <- {[x |-> 0, yaw |-> 1], [x |-> 1, yaw |-> -1]}, Crowds <- MCCrowds,
  MaxTime <- 3

Cam == INSTANCE Detection WITH
  Model <- {pallet, box}, Matching <- {pallet}, Walls <- {4}, Offsets <- <<1, 0>>,
  Size <- 1, Places <- {-2, 0, 2, 3, 6}, MinRange <- 1, MaxRange <- 5

MCConfigs ==
  { [reference |-> "base", excluded |-> {}, world |-> TRUE],
    [reference |-> "fork", excluded |-> {}, world |-> FALSE],
    [reference |-> "fork", excluded |-> {"base"}, world |-> TRUE] }
at2(x, y, q) == [x |-> x, y |-> y, q |-> q]
Frm == INSTANCE Frames WITH
  Body <- {"base", "fork"}, Base <- "base", Configs <- MCConfigs,
  Mount <- at2(1, 0, 1), Poses <- {at2(0, 0, 0), at2(1, 2, 1), at2(-1, 0, 2)},
  Heights <- {0, 1}

Inertial == INSTANCE Imu WITH
  MaxTurn <- 3, MaxTime <- 4, Speeds <- {0, 1}, Rate <- 2, Unset <- 99,
  sent <- message

ASSUME ParametersAccepted /\ L3D!ParametersAccepted /\ Cam!ParametersAccepted
       /\ Frm!BodiesExist

lidarVars == <<map_pts, lidar, bodies, time, listened, pending, view, chunks, result,
               scan_stamp, dynamic_returns, cloud, alive, moments>>
cameraVars == <<at, lifted, camera, anchored, sent, frames>>
frameVars == <<config, pose, elevation, tfs, fix, tf_truth, fix_truth>>
imuVars == <<angle, velocity, now, last_angle, last_angle_time,
             linear_vel_local_prev, message, turned, spent, gained>>
all == <<which, vars, lidarVars, cameraVars, frameVars, imuVars>>

LaserIdle == Init /\ scene = [r \in Ray |-> MCNear]
LidarIdle == L3D!Init /\ map_pts = << >> /\ lidar.x = 0 /\ bodies = {}
CameraIdle == Cam!Init /\ at = [m \in {pallet, box} |-> Gone] /\ camera = [x |-> 0, yaw |-> 1]
FramesIdle == /\ Frm!Init /\ config.world /\ config.excluded = {}
              /\ pose["base"].x = 0 /\ pose["fork"].x = 0
              /\ elevation["base"] = 0 /\ elevation["fork"] = 0
ImuIdle == Inertial!Init /\ linear_vel_local_prev = <<0, 0>>

MCInit ==
  \/ which = "laser" /\ Init /\ LidarIdle /\ CameraIdle /\ FramesIdle /\ ImuIdle
  \/ which = "lidar" /\ LaserIdle /\ L3D!Init /\ CameraIdle /\ FramesIdle /\ ImuIdle
  \/ which = "camera" /\ LaserIdle /\ LidarIdle /\ Cam!Init /\ FramesIdle /\ ImuIdle
  \/ which = "frames" /\ LaserIdle /\ LidarIdle /\ CameraIdle /\ Frm!Init /\ ImuIdle
  \/ which = "imu" /\ LaserIdle /\ LidarIdle /\ CameraIdle /\ FramesIdle /\ Inertial!Init

LaserSteps == /\ which = "laser" /\ Next
              /\ UNCHANGED <<which, lidarVars, cameraVars, frameVars, imuVars>>
LidarSteps == /\ which = "lidar" /\ L3D!Next
              /\ UNCHANGED <<which, vars, cameraVars, frameVars, imuVars>>
CameraSteps == /\ which = "camera" /\ Cam!Next
               /\ UNCHANGED <<which, vars, lidarVars, frameVars, imuVars>>
FrameSteps == /\ which = "frames" /\ Frm!Next
              /\ UNCHANGED <<which, vars, lidarVars, cameraVars, imuVars>>
ImuSteps == /\ which = "imu" /\ Inertial!Next
            /\ UNCHANGED <<which, vars, lidarVars, cameraVars, frameVars>>

MCNext == LaserSteps \/ LidarSteps \/ CameraSteps \/ FrameSteps \/ ImuSteps

MCSpec == MCInit /\ [][MCNext]_all /\ (which = "laser" => Fairness)

(* Definitions of the instances under names a .cfg can use.                *)

(* A cloud shows one moment, that of its stamp; tf and fix lead to where   *)
(* the bodies are.                                                         *)
CloudsAndFramesAreTrue == L3D!CloudsKeepTheirMoment /\ Frm!FramesAreTrue

DetectsAndRemembers == Cam!DetectsAndRemembers
SamplesAddUp == Inertial!SamplesAddUp
=============================================================================
