----------------------------- MODULE ModelPoses -----------------------------
(***************************************************************************)
(* Where a model's bodies are: a model is placed when it is loaded and     *)
(* moved by the MoveModel service or its interactive marker; Model::SetPose*)
(* takes the first body's frame off all bodies and puts them into the      *)
(* commanded one (flatland_server/src/model.cpp, geometry.cpp).            *)
(*                                                                         *)
(* Angles are quarter turns, so that cosf and sinf are integers.           *)
(***************************************************************************)
EXTENDS Integers, Sequences

CONSTANTS
  Layouts,  \* sequences of body poses as the yaml lists them, none empty
  Poses     \* poses a model is loaded at or moved to

Frame == [x : Int, y : Int, theta : 0 .. 3]
ASSUME PoseAssumption ==
  Poses \subseteq Frame /\ \A layout \in Layouts : layout \in Seq(Frame) /\ layout # <<>>

VARIABLES
  bodies,  \* Model::bodies_: sequence of poses [x, y, theta]
  moved    \* history: the pose the last step set, or <<>>

poseVars == <<bodies, moved>>

-----------------------------------------------------------------------------
(* Geometry                                                                *)

Cos(a) == CASE a % 4 = 0 -> 1 [] a % 4 = 2 -> 0 - 1 [] OTHER -> 0
Sin(a) == CASE a % 4 = 1 -> 1 [] a % 4 = 3 -> 0 - 1 [] OTHER -> 0

CreateTransform(p) == [dx |-> p.x, dy |-> p.y, cos |-> Cos(p.theta), sin |-> Sin(p.theta)]

Transform(in, rt) == [x |-> in.x * rt.cos - in.y * rt.sin + rt.dx,
                      y |-> in.x * rt.sin + in.y * rt.cos + rt.dy]

MutantInverseTransform(in, rt) ==
  [x |-> (in.x - rt.dx) * rt.cos - (in.y - rt.dy) * rt.sin,
   y |-> (in.x - rt.dx) * rt.sin + (in.y - rt.dy) * rt.cos]
InverseTransform(in, rt) ==
  [x |-> (in.x - rt.dx) * rt.cos + (in.y - rt.dy) * rt.sin,
   y |-> (in.y - rt.dy) * rt.cos - (in.x - rt.dx) * rt.sin]

Pose(at, theta) == [x |-> at.x, y |-> at.y, theta |-> theta % 4]

-----------------------------------------------------------------------------
TransformAll(bs, pose) ==
  [i \in DOMAIN bs |-> Pose(Transform(bs[i], CreateTransform(pose)),
                            bs[i].theta + pose.theta)]

(* Every body's own angle becomes 0 before the pose is applied.            *)
ResetPoses(bs) ==
  [i \in DOMAIN bs |-> Pose(InverseTransform(bs[i], CreateTransform(bs[1])), 0)]

PoseInit == bodies = <<>> /\ moved = <<>>

LoadModel ==
  /\ bodies = <<>>
  /\ \E layout \in Layouts, pose \in Poses : bodies' = TransformAll(layout, pose)
  /\ moved' = <<>>

SetPose(pose) ==
  /\ bodies # <<>>
  /\ bodies' = TransformAll(ResetPoses(bodies), pose)
  /\ moved' = <<pose>>

(* A joint lets a body turn in its place.                                  *)
Turn(i, by) ==
  /\ bodies' = [bodies EXCEPT ![i].theta = (@ + by) % 4]
  /\ moved' = <<>>

PoseNext == \/ LoadModel
            \/ \E pose \in Poses : SetPose(pose)
            \/ \E i \in DOMAIN bodies, by \in {1, 3} : Turn(i, by)

PoseSpec == PoseInit /\ [][PoseNext]_poseVars

-----------------------------------------------------------------------------
(* Where a body is, seen from the model's first one                        *)
Seen(bs, i) == InverseTransform(bs[i], CreateTransform(bs[1]))
Gap(p, q) == (p.x - q.x) * (p.x - q.x) + (p.y - q.y) * (p.y - q.y)

(* A moved model keeps its shape: its first body is exactly where the pose *)
(* says, every other body is where it was as seen from the first, and no   *)
(* two bodies are nearer or farther than before.  (Only the positions: the *)
(* angle of every body becomes the commanded one, so a wheel that was      *)
(* steered, or a forklift's part that the yaml turned, is straight after   *)
(* the move.)                                                              *)
MovesRigidly ==
  [][bodies # <<>> /\ moved' # <<>> =>
       /\ bodies'[1] = moved'[1]
       /\ \A i \in DOMAIN bodies : Seen(bodies', i) = Seen(bodies, i)
       /\ \A i, j \in DOMAIN bodies : Gap(bodies'[i], bodies'[j]) = Gap(bodies[i], bodies[j])
    ]_poseVars
=============================================================================
