--------------------------- MODULE OmniKinematics ---------------------------
(***************************************************************************)
(* OmniDrive::ComputeBodyVelocity: the motion of a body from the           *)
(* velocities of its two turrets, every 2-vector a pair <<x, y>> of whole  *)
(* numbers in the frame of the body.                                       *)
(***************************************************************************)
EXTENDS Integers

CONSTANTS
  Places,   \* where turrets may sit
  Motions   \* motions [vx, vy, omega] the body is to make

VARIABLES
  turrets,  \* turret1_.pose and turret2_.pose
  wheels,   \* the velocities of the two wheels
  motion,   \* the motion the wheels are steered for
  body      \* the velocity given to the body

vars == <<turrets, wheels, motion, body>>

Rest == [vx |-> 0, vy |-> 0, omega |-> 0]

(* The velocity of a point of a rigid body.                                *)
At(m, r) == <<m.vx - m.omega * r[2], m.vy + m.omega * r[1]>>

MutantOrigin(wheel, r, omega) == <<wheel[1] - omega * r[2], wheel[2] + omega * r[1]>>
(* The velocity of the origin of the body, seen from a wheel.              *)
Origin(wheel, r, omega) == <<wheel[1] + omega * r[2], wheel[2] - omega * r[1]>>

ComputeBodyVelocity(r1, r2, w1, w2) ==
  LET dx == r1[1] - r2[1]
      dy == r1[2] - r2[2]
      turn == IF dx # 0 THEN (w1[2] - w2[2]) \div dx
              ELSE IF dy # 0 THEN (w2[1] - w1[1]) \div dy ELSE 0
      o1 == IF dx # 0 THEN Origin(w1, r1, turn) ELSE w1
      o2 == IF dx # 0 THEN Origin(w2, r2, turn) ELSE w2
  IN  [vx |-> (o1[1] + o2[1]) \div 2, vy |-> (o1[2] + o2[2]) \div 2,
       omega |-> turn]

Init ==
  /\ turrets \in Places \X Places
  /\ wheels = <<<<0, 0>>, <<0, 0>>>>
  /\ motion = Rest /\ body = Rest

(* A swerve controller steers both turrets for a motion of the body.       *)
Steer ==
  /\ motion' \in Motions
  /\ wheels' = [i \in {1, 2} |-> At(motion', turrets[i])]
  /\ UNCHANGED <<turrets, body>>

BeforePhysicsStep ==
  /\ body' = ComputeBodyVelocity(turrets[1], turrets[2], wheels[1], wheels[2])
  /\ UNCHANGED <<turrets, wheels, motion>>

Next == Steer \/ BeforePhysicsStep

Spec == Init /\ [][Next]_vars
-----------------------------------------------------------------------------
(* The configurations the computation is meant for: turrets one behind the *)
(* other, or side by side at the same distance from the origin.            *)
Supported ==
  \/ turrets[1][1] # turrets[2][1]
  \/ turrets[1][2] # turrets[2][2] /\ turrets[1][1] = 0
     /\ turrets[1][2] = - turrets[2][2]

(* Two wheels that turn and roll as the points of one rigid body move the  *)
(* body by exactly that motion, wherever the turrets are in front of one   *)
(* another.                                                                *)
MovesAsSteered ==
  [][body' # body /\ Supported => body' = motion]_vars
=============================================================================
