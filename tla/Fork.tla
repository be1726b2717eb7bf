-------------------------------- MODULE Fork --------------------------------
(***************************************************************************)
(* The cooperating fork plugins of one robot: Forklift animates the fork   *)
(* height, ForkController passes height goals to it and picks up and       *)
(* releases a load when the height crosses two thresholds                  *)
(* (flatland_plugins/src/forklift.cpp, fork_controller.cpp).               *)
(*                                                                         *)
(* Of the robot's LinkAttacher (module LinkAttacher) only the two answers  *)
(* the controller uses remain: whether a model is attached, and whether    *)
(* Attach finds a candidate in capture range.  Heights are whole numbers   *)
(* of an arbitrary unit.                                                   *)
(*                                                                         *)
(* Commands arrive between two updates (rclcpp::spin_some); an update runs *)
(* the BeforePhysicsStep of both plugins in the order of the model's yaml. *)
(***************************************************************************)
EXTENDS Integers

CONSTANTS
  LiftHeight,     \* lift_height
  LiftSpeed,      \* lift_speed * step size; 0 moves instantly
  AttachHeight,   \* attach_height
  DetachHeight,   \* detach_height
  GoalTolerance,  \* goal_tolerance
  Commands,       \* heights that clients ask for
  InitialLifted,  \* initial_lifted
  ForkliftFirst   \* the Forklift is loaded before the ForkController

(* fork_controller.rst asks for this order of the thresholds; nothing in   *)
(* the code enforces it.                                                   *)
ASSUME HeightsAssumption ==
  /\ {LiftHeight, LiftSpeed, AttachHeight, DetachHeight, GoalTolerance} \subseteq Nat
  /\ DetachHeight < AttachHeight
  /\ AttachHeight <= LiftHeight
  /\ Commands \subseteq Int
ASSUME FlagsAssumption == {InitialLifted, ForkliftFirst} \subseteq BOOLEAN

NoGoal == -1

VARIABLES
  current,   \* Forklift::current_elevation_
  target,    \* Forklift::target_elevation_
  goal,      \* ForkController::goal_z_, NoGoal before the first
  prev,      \* ForkController::prev_elevation_
  attached,  \* LinkAttacher::IsAttached
  inRange,   \* a candidate is in capture range
  feedback,  \* last published fork/pose height, fork/goal_reached, fork/loaded
  was,       \* history: current_elevation_ after the last update
  raised     \* history: the controller saw the load above DetachHeight

vars == <<current, target, goal, prev, attached, inRange, feedback, was, raised>>

Height == 0 .. LiftHeight

TypeOK ==
  /\ current \in Height
  /\ target \in Height
  /\ goal \in Height \cup {NoGoal}
  /\ prev \in Height
  /\ attached \in BOOLEAN
  /\ inRange \in BOOLEAN
  /\ feedback \in [height : Height, reached : BOOLEAN, loaded : BOOLEAN]
  /\ was \in Height
  /\ raised \in BOOLEAN

(* Forklift::OnInitialize starts at the target, without animation; the     *)
(* controller's prev_elevation_ starts at zero.                            *)
Init ==
  /\ target = IF InitialLifted THEN LiftHeight ELSE 0
  /\ current = target
  /\ goal = NoGoal
  /\ prev = 0
  /\ attached = FALSE
  /\ inRange \in BOOLEAN
  /\ feedback = [height |-> current, reached |-> TRUE, loaded |-> FALSE]
  /\ was = current
  /\ raised = FALSE

-----------------------------------------------------------------------------
(***************************************************************************)
(* Commands and the environment, between two updates                       *)
(***************************************************************************)

Clamp(z) == IF z < 0 THEN 0 ELSE IF z > LiftHeight THEN LiftHeight ELSE z

(* Forklift::SetTargetElevation                                            *)
SetTargetElevation(z) ==
  /\ target' = Clamp(z)
  /\ current' = IF LiftSpeed = 0 THEN target' ELSE current

OnForkGoal(z) ==
  /\ goal' = Clamp(z)
  /\ SetTargetElevation(goal')
  /\ UNCHANGED <<prev, attached, inRange, feedback, was, raised>>

(* The fork/lift service refuses a fraction outside of [0, 1] and does not *)
(* tell the controller.                                                    *)
OnLiftRequest(z) ==
  /\ z \in Height
  /\ SetTargetElevation(z)
  /\ UNCHANGED <<goal, prev, attached, inRange, feedback, was, raised>>

(* Clients of the attacher's services, a load that is deleted, and the     *)
(* robot's own driving, which brings candidates in and out of reach.       *)
OnAttachRequest ==
  /\ ~attached /\ inRange
  /\ attached' = TRUE
  /\ raised' = FALSE
  /\ UNCHANGED <<current, target, goal, prev, inRange, feedback, was>>

Release ==
  /\ attached
  /\ attached' = FALSE
  /\ UNCHANGED <<current, target, goal, prev, inRange, feedback, was, raised>>

Drive ==
  /\ inRange' = ~inRange
  /\ UNCHANGED <<current, target, goal, prev, attached, feedback, was, raised>>

-----------------------------------------------------------------------------
(***************************************************************************)
(* BeforePhysicsStep                                                       *)
(***************************************************************************)

(* Forklift::BeforePhysicsStep: at most one speed step towards the target. *)
MutantAnimated == IF target > current THEN current + LiftSpeed
                  ELSE IF target < current THEN current - LiftSpeed
                  ELSE current
Animated ==
  IF current = target \/ LiftSpeed = 0 THEN current
  ELSE IF target - current \in -LiftSpeed .. LiftSpeed THEN target
  ELSE IF target > current THEN current + LiftSpeed ELSE current - LiftSpeed

(* The elevation the controller reads.                                     *)
Seen == IF ForkliftFirst THEN Animated ELSE current

MutantRises == ~attached /\ Seen >= AttachHeight
Rises == ~attached /\ prev < AttachHeight /\ Seen >= AttachHeight

MutantFalls == attached /\ prev > DetachHeight /\ Seen < DetachHeight
Falls == attached /\ prev > DetachHeight /\ Seen <= DetachHeight

Attached == IF Rises THEN inRange ELSE attached /\ ~Falls

(* Before the first goal the controller reports that it reached it.        *)
Reached == \/ goal = NoGoal
           \/ Seen - goal \in -GoalTolerance .. GoalTolerance

(* The feedback is published when the update timer fires.                  *)
BeforePhysicsStep(due) ==
  /\ current' = Animated
  /\ was' = Animated
  /\ prev' = Seen
  /\ attached' = Attached
  /\ raised' = (Attached /\ (Seen > DetachHeight \/ (raised /\ attached)))
  /\ feedback' = IF due
                 THEN [height |-> Seen, reached |-> Reached, loaded |-> Attached]
                 ELSE feedback
  /\ UNCHANGED <<target, goal, inRange>>

Next ==
  \/ \E z \in Commands : OnForkGoal(z) \/ OnLiftRequest(z)
  \/ OnAttachRequest
  \/ Release
  \/ Drive
  \/ \E due \in BOOLEAN : BeforePhysicsStep(due)

Spec == Init /\ [][Next]_vars

(* The simulation keeps stepping and the update timer keeps firing.  No    *)
(* client has to do anything.                                              *)
FairSpec == Spec /\ WF_vars(BeforePhysicsStep(TRUE))

-----------------------------------------------------------------------------
(***************************************************************************)
(* Properties                                                              *)
(***************************************************************************)

(* A load that went up is not left welded to forks the controller has seen *)
(* on the ground, whatever goals, lift requests and manual attachments     *)
(* came in between.                                                        *)
ReleasedOnGround == attached /\ raised => prev > DetachHeight

(* A grounded load is never picked up by forks that stay or come down: a   *)
(* pickup in an update requires that the forks crossed attach_height       *)
(* upward since the previous update ("Merely waiting above the pickup      *)
(* threshold does not retry attachment", fork_controller.rst:94).          *)
PickupNeedsRise ==
  [][\A due \in BOOLEAN :
       BeforePhysicsStep(due) /\ ~attached /\ attached' =>
         was < AttachHeight]_vars

(* A goal in force is reported as reached, at its height, unless another   *)
(* command replaces it.                                                    *)
GoalReached ==
  \A z \in Height :
    (goal = z /\ target = z) ~>
      \/ goal # z
      \/ target # z
      \/ feedback.reached /\ feedback.height - z \in -GoalTolerance .. GoalTolerance

(* "Reached" is never reported more than the tolerance away from the goal  *)
(* that was in force: goals and the animation race with the publication.   *)
NoFalseArrival ==
  [][feedback' # feedback /\ feedback'.reached /\ goal # NoGoal =>
       was' - goal \in -(GoalTolerance + LiftSpeed) .. GoalTolerance + LiftSpeed]_vars

(* Forks that are sent to the ground and stay there put the load down.     *)
PutsLoadDown ==
  (attached /\ raised /\ target <= DetachHeight) ~>
    (~attached \/ target > DetachHeight)

(* A load is picked up only by rising forks, and put down by forks that    *)
(* are sent to the ground.                                                 *)
LoadFollowsForks == PickupNeedsRise /\ PutsLoadDown

(* A goal is reported as reached when it is, and not before.               *)
GoalsAreReported == NoFalseArrival /\ GoalReached
=============================================================================
