------------------------------ MODULE Carriage ------------------------------
(***************************************************************************)
(* A robot with a LinkAttacher, a Forklift and a ForkController, in any    *)
(* order in its yaml: in an update each of the three has its turn, and the *)
(* second and the third see what the earlier ones have just done.  It puts *)
(* the full attacher (module LinkAttacher) where Fork has only its two     *)
(* answers (flatland_plugins/src/forklift.cpp, fork_controller.cpp,        *)
(* link_attacher.cpp).                                                     *)
(*                                                                         *)
(* There is one robot, itself never deleted.  A load has one body and a    *)
(* name the attacher looks for.  The elevation source of the attacher is a *)
(* fork body, so its elevation is that of the Forklift.  The goal is left  *)
(* out: beside the target it sets, it is only reported.                    *)
(***************************************************************************)
EXTENDS LinkAttacher, Sequences

CONSTANTS
  robot,         \* the only Carrier and ForkCarrier
  LiftSpeed, AttachHeight, DetachHeight,  \* as in Fork
  Commands       \* heights that clients ask for

VARIABLES
  order,   \* the plugins of the robot as loaded
  turn,    \* those whose BeforePhysicsStep is still to run in this update
  target,  \* Forklift::target_elevation_
  prev,    \* ForkController::prev_elevation_
  near,    \* the loads in capture range of the capture point
  manual   \* history: the service made the attachment, not the controller

carriageVars == <<order, turn, target, prev, near, manual>>

Plugins == {"attacher", "forklift", "controller"}
Orders == {s \in [1 .. 3 -> Plugins] : \A p \in Plugins : \E i \in 1 .. 3 : s[i] = p}
Loads == Model \ {robot}
Load == attached[robot]

(* The two plugins as in Fork.  In its turn the controller sees the forks  *)
(* as they are, whoever was before it.                                     *)
F == INSTANCE Fork WITH
  GoalTolerance <- 0, InitialLifted <- FALSE, ForkliftFirst <- FALSE,
  current <- fork[robot], goal <- target, attached <- Load # None, inRange <- near # {},
  feedback <- near, was <- prev, raised <- manual

CarriageInit ==
  /\ live = Model /\ groups = 1 /\ nocollide = [c \in Carrier |-> -1]
  /\ welds = {} /\ joint = [c \in Carrier |-> NoJoint]
  /\ attached = [c \in Carrier |-> None] /\ settling = [c \in Carrier |-> None]
  /\ group = [m \in Model |-> 0] /\ elev = [m \in Model |-> 0]
  /\ fork = [c \in Carrier |-> 0] /\ pending = {}
  /\ order \in Orders /\ turn = << >>
  /\ target = 0 /\ prev = 0 /\ near = {} /\ manual = FALSE

-----------------------------------------------------------------------------
(* Between two updates.                                                    *)

(* A fork goal is clamped to the stroke, a lift request within it.         *)
Command(z) ==
  /\ turn = << >>
  /\ target' = F!Clamp(z)
  /\ fork' = IF LiftSpeed = 0 THEN Assign(fork, {robot}, target') ELSE fork
  /\ UNCHANGED <<live, groups, nocollide, welds, joint, attached, settling, group, elev,
                 pending, order, turn, prev, near, manual>>

OnAttach(m, j) ==
  /\ turn = << >> /\ m \in near
  /\ OnAttachRequest(robot, m, j)
  /\ manual' = TRUE
  /\ UNCHANGED <<order, turn, target, prev, near>>

OnDetach ==
  /\ turn = << >>
  /\ OnDetachRequest(robot)
  /\ UNCHANGED carriageVars

SpawnLoad(m) ==
  /\ turn = << >>
  /\ Spawn(m)
  /\ UNCHANGED carriageVars

DeleteLoad(m) ==
  /\ turn = << >> /\ m # robot
  /\ Delete(m)
  /\ near' = near \ {m}
  /\ UNCHANGED <<order, turn, target, prev, manual>>

(* The robot or somebody else moves.  A load that is welded on stays.      *)
Drive ==
  /\ turn = << >>
  /\ near' \in SUBSET (live \ {robot})
  /\ \A w \in welds : w.target \in near'
  /\ UNCHANGED <<vars, order, turn, target, prev, manual>>

-----------------------------------------------------------------------------
(* An update: the turns of the three plugins.                              *)

StartTurns ==
  /\ turn = << >>
  /\ StartUpdate
  /\ turn' = order
  /\ UNCHANGED <<order, target, prev, near, manual>>

Turn(plugin) == turn # << >> /\ Head(turn) = plugin /\ turn' = Tail(turn)

ForkliftTurn ==
  /\ Turn("forklift")
  /\ fork' = Assign(fork, {robot}, F!Animated)
  /\ UNCHANGED <<live, groups, nocollide, welds, joint, attached, settling, group, elev,
                 pending, order, target, prev, near, manual>>

AttacherTurn ==
  /\ Turn("attacher")
  /\ BeforePhysicsStep(robot)
  /\ UNCHANGED <<order, target, prev, near, manual>>

(* What the controller remembers, whether or not it reports in this step.  *)
MutantRemembered == target
Remembered == fork[robot]

(* Attach("") takes the nearest candidate, if any is in range.             *)
ControllerTurn ==
  /\ Turn("controller")
  /\ prev' = Remembered
  /\ \/ /\ F!Rises /\ near # {}
        /\ \E m \in near, j \in Joint : Attach(robot, m, j)
        /\ manual' = FALSE
     \/ /\ F!Falls /\ Detach(robot)
        /\ UNCHANGED manual
     \/ /\ ~(F!Rises /\ near # {}) /\ ~F!Falls
        /\ UNCHANGED <<welds, joint, attached, settling, group, elev, fork, manual>>
  /\ UNCHANGED <<live, groups, nocollide, pending, order, target, near>>

CarriageNext ==
  \/ \E z \in Commands : Command(z)
  \/ \E m \in Loads, j \in Joint : OnAttach(m, j)
  \/ OnDetach
  \/ \E m \in Loads : SpawnLoad(m) \/ DeleteLoad(m)
  \/ Drive
  \/ StartTurns \/ ForkliftTurn \/ AttacherTurn \/ ControllerTurn

(* The updates of the server go on; nobody else has to do anything.        *)
Updating == StartTurns \/ ForkliftTurn \/ AttacherTurn \/ ControllerTurn
CarriageSpec ==
  CarriageInit /\ [][CarriageNext]_<<vars, carriageVars>>
               /\ WF_<<vars, carriageVars>>(Updating)

-----------------------------------------------------------------------------
(* Nothing floats, in the middle of an update or between two: what is off  *)
(* the floor is on the forks or on its way down, and no higher than the    *)
(* forks can be.                                                           *)
NothingFloats ==
  \A m \in Loads : elev[m] > 0 =>
    /\ m \in live /\ m \in {Load, settling[robot]}
    /\ elev[m] <= LiftHeight + CarryOffset

(* What the controller picked up it puts down when the forks go to the     *)
(* ground, and what was up in the air reaches the floor, in every load     *)
(* order of the plugins and whatever clients attach, detach, delete and    *)
(* respawn on the way.                                                     *)
PutsDown ==
  \A m \in Loads : (Load = m /\ ~manual /\ target = 0) ~> (Load # m \/ manual \/ target # 0)
ComesDown == <>[](target = 0) => <>[](\A m \in Loads : elev[m] <= CarryOffset)

(* A load that the controller picks up ends on the floor.                  *)
LoadsReachTheFloor == []NothingFloats /\ PutsDown /\ ComesDown
=============================================================================
