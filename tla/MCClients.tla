----------------------------- MODULE MCClients ------------------------------
(* What happens on the orders of clients: the welds of two carriers that   *)
(* share a load and may all be deleted; two loads that are raised, taken   *)
(* over, released and settle, while nothing is deleted; a fork lift that   *)
(* picks loads up and puts them down; and the markers by which models are  *)
(* dragged.  A behaviour is one of one of the four.                        *)
EXTENDS LinkAttacher, InteractiveMarkers

CONSTANTS q1, q2, load, spare

VARIABLES which,
  s_live, s_groups, s_nocollide, s_welds, s_joint, s_attached, s_settling,
  s_group, s_elev, s_fork, s_pending,
  c_live, c_groups, c_nocollide, c_welds, c_joint, c_attached, c_settling,
  c_group, c_elev, c_fork, c_pending, order, turn, target, prev, near, manual

Settle == INSTANCE LinkAttacher WITH
  Model <- {q1, q2, load, spare}, Carrier <- {q1, q2}, ForkCarrier <- {q1},
  Deletable <- {}, LiftHeight <- 2, MaxGroups <- 2,
  live <- s_live, groups <- s_groups, nocollide <- s_nocollide, welds <- s_welds,
  joint <- s_joint, attached <- s_attached, settling <- s_settling,
  group <- s_group, elev <- s_elev, fork <- s_fork, pending <- s_pending

(* Forks that rise by two in an update, through 1 and 3.  One of the two   *)
(* loads is deleted and respawned; a goal may lie above the stroke.  With  *)
(* one robot there is never a second weld.                                 *)
OneAddress == {CHOOSE j \in Joint : TRUE}
Car == INSTANCE Carriage WITH
  Model <- {q1, load, spare}, Carrier <- {q1}, ForkCarrier <- {q1}, robot <- q1,
  Joint <- OneAddress, Deletable <- {load}, LiftHeight <- 4, MaxGroups <- 1,
  LiftSpeed <- 2, AttachHeight <- 3, DetachHeight <- 1, Commands <- {0, 1, 7},
  live <- c_live, groups <- c_groups, nocollide <- c_nocollide, welds <- c_welds,
  joint <- c_joint, attached <- c_attached, settling <- c_settling,
  group <- c_group, elev <- c_elev, fork <- c_fork, pending <- c_pending

(* Of two models, "b" is deleted and dragged.  A cycle may last 0.3 s.     *)
MCName == {"a", "b"}
MCDraggable == {"b"}

settleVars == <<s_live, s_groups, s_nocollide, s_welds, s_joint, s_attached,
                s_settling, s_group, s_elev, s_fork, s_pending>>
carVars == <<c_live, c_groups, c_nocollide, c_welds, c_joint, c_attached,
             c_settling, c_group, c_elev, c_fork, c_pending,
             order, turn, target, prev, near, manual>>
all == <<which, vars, settleVars, carVars, markerVars>>

(* The parts that a behaviour is not about.                                *)
WeldsIdle == Init
SettleIdle == Settle!Init
CarIdle == Car!CarriageInit /\ order = <<"forklift", "attacher", "controller">>
DragIdle == MarkersInit

MCInit ==
  \/ which = "welds" /\ Init /\ SettleIdle /\ CarIdle /\ DragIdle
  \/ which = "settling" /\ WeldsIdle /\ Settle!Init /\ CarIdle /\ DragIdle
  \/ which = "carriage" /\ WeldsIdle /\ SettleIdle /\ Car!CarriageInit /\ DragIdle
  \/ which = "drag" /\ WeldsIdle /\ SettleIdle /\ CarIdle /\ MarkersInit

WeldSteps == /\ which = "welds"
             /\ UNCHANGED <<which, settleVars, carVars, markerVars>>
SettleSteps == /\ which = "settling"
               /\ UNCHANGED <<which, vars, carVars, markerVars>>
CarSteps == /\ which = "carriage"
            /\ UNCHANGED <<which, vars, settleVars, markerVars>>
DragSteps == /\ which = "drag"
             /\ UNCHANGED <<which, vars, settleVars, carVars>>

MCNext ==
  \/ WeldSteps /\ Next
  \/ SettleSteps /\ Settle!Next
  \/ CarSteps /\ Car!CarriageNext
  \/ DragSteps /\ MarkersNext

(* The fairness of the FairSpec of Settle and Drag, and of CarriageSpec.   *)
Fair ==
  /\ WF_all(SettleSteps /\ Settle!StartUpdate)
  /\ \A c \in {q1, q2} : WF_all(SettleSteps /\ Settle!BeforePhysicsStep(c))
  /\ WF_all(CarSteps /\ Car!Updating)
  /\ WF_all(DragSteps /\ \E d \in 1 .. 3 : Cycle(d))

MCSpec == MCInit /\ [][MCNext]_all /\ Fair

(* Definitions of the instances under names a .cfg can use, some with the  *)
(* types they rest on.                                                     *)
RaisedComesDown == Settle!LoadsComeDown
LoadsReachTheFloor == Car!LoadsReachTheFloor
=============================================================================
