-------------------------- MODULE MCContactSensors --------------------------
(* A robot with two bodies, a crate and a wall layer.                      *)
EXTENDS ContactSensors

CONSTANTS robot, crate, wall, base, probe, box, border

RobotModelOf == [b \in {base, probe, box, border} |->
                   CASE b \in {base, probe} -> robot
                     [] b = box -> crate
                     [] b = border -> wall]
=============================================================================
