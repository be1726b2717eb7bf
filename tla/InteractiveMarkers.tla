------------------------- MODULE InteractiveMarkers -------------------------
(***************************************************************************)
(* The rviz markers by which a user drags models, and the pause they put   *)
(* on the simulation: InteractiveMarkerManager, World::Update and the      *)
(* World operations that touch a marker or the pause.                      *)
(*                                                                         *)
(* Main runs one cycle after the other; between two calls of World::Update *)
(* the executor delivers marker feedback and service requests.  Wall time  *)
(* is counted in ticks of 0.1 s and passes during the cycles.              *)
(*                                                                         *)
(* Abstractions.  A pose is a number; the root body of a model may have an *)
(* offset of its own in the yaml.  The marker server and rviz are external *)
(* and modelled from their use: feedback about a marker that was removed   *)
(* is dropped, a pose update moves the marker, a release carries the pose  *)
(* the marker was dragged to.                                              *)
(***************************************************************************)
EXTENDS Integers

CONSTANTS
  Name,       \* model names
  NoName,     \* no model
  NoPose,     \* no marker, or no entry in last_poses_
  Poses,      \* poses are 0..Poses-1
  Offsets,    \* offsets of a root body, a subset of the poses
  Removable,  \* models that the environment deletes
  Draggable,  \* models that the user drags
  MayVanish,  \* whether rviz may disappear in the middle of a drag
  Quiet,      \* ticks in 0.1 s: a stream this old has stopped
  Stale,      \* ticks in 1.0 s: and one this old is not looked at any more
  MaxCycle    \* longest duration of a cycle, in ticks

ConstantsAssumption ==
  /\ NoName \notin Name
  /\ Poses \in Nat \ {0}
  /\ Offsets \subseteq 0..(Poses - 1)
  /\ NoPose \notin 0..(Poses - 1)
  /\ Removable \subseteq Name /\ Draggable \subseteq Name
  /\ MayVanish \in BOOLEAN
  /\ Quiet \in Nat /\ Stale \in Nat /\ Quiet < Stale
  /\ MaxCycle \in Nat \ {0}

ASSUME ConstantsAssumption

VARIABLES
  models,          \* names of World::models_
  pose,            \* pose of the root body of each live model
  marker,          \* pose of the marker in the server, NoPose if none
  last_poses,      \* last_poses_: last pose update() gave the server
  service_paused,  \* service_paused_
  manipulating,    \* manipulating_model_
  age,             \* ticks since pose_update_stamp_, Stale and more as Stale
  holding,         \* the marker rviz holds with the mouse button down
  fresh            \* history: the MOUSE_DOWN came after the last cycle

markerVars == <<models, pose, marker, last_poses, service_paused, manipulating, age,
          holding, fresh>>

Pose == 0..(Poses - 1)

MarkersTypeOK ==
  /\ models \subseteq Name
  /\ pose \in [Name -> Pose]
  /\ marker \in [Name -> Pose \cup {NoPose}]
  /\ last_poses \in [Name -> Pose \cup {NoPose}]
  /\ service_paused \in BOOLEAN
  /\ manipulating \in BOOLEAN
  /\ age \in 0..Stale
  /\ holding \in Name \cup {NoName}
  /\ fresh \in BOOLEAN

(* pose_update_stamp_ starts at the epoch of the steady clock.             *)
MarkersInit ==
  /\ models = {}
  /\ pose = [m \in Name |-> 0]
  /\ marker = [m \in Name |-> NoPose]
  /\ last_poses = [m \in Name |-> NoPose]
  /\ service_paused = FALSE
  /\ manipulating = FALSE
  /\ age = Stale
  /\ holding = NoName
  /\ fresh = FALSE

IsPaused == service_paused \/ manipulating

-----------------------------------------------------------------------------
(***************************************************************************)
(* Services and the context menu                                           *)
(***************************************************************************)

(* The marker is inserted at the spawn pose, the root body is offset o     *)
(* away from it.  last_poses_ keeps what an earlier model of that name     *)
(* left there.                                                             *)
LoadModel(m, p, o) ==
  /\ m \notin models
  /\ models' = models \cup {m}
  /\ pose' = [pose EXCEPT ![m] = (p + o) % Poses]
  /\ marker' = [marker EXCEPT ![m] = p]
  /\ UNCHANGED <<last_poses, service_paused, manipulating, age, holding, fresh>>

Erased(m) == [marker EXCEPT ![m] = NoPose]

(* World::DeleteModel and deleteModelMenuCallback do the same; re-applying *)
(* the menu to the erased marker changes nothing.  A drag of the marker is *)
(* cut off, rviz drops the marker without a MOUSE_UP.                      *)
DeleteModel(m) ==
  /\ m \in models \cap Removable
  /\ models' = models \ {m}
  /\ pose' = [pose EXCEPT ![m] = 0]
  /\ marker' = Erased(m)
  /\ holding' = IF holding = m THEN NoName ELSE holding
  /\ UNCHANGED <<last_poses, service_paused, manipulating, age, fresh>>

MoveModel(m, p) ==
  /\ m \in models
  /\ pose' = [pose EXCEPT ![m] = p]
  /\ UNCHANGED <<models, marker, last_poses, service_paused, manipulating, age,
                 holding, fresh>>

SetServicePause(b) ==
  /\ service_paused' = b
  /\ UNCHANGED <<models, pose, marker, last_poses, manipulating, age, holding,
                 fresh>>

-----------------------------------------------------------------------------
(***************************************************************************)
(* Marker feedback                                                         *)
(***************************************************************************)

MouseDown(m) ==
  /\ holding = NoName
  /\ m \in models \cap Draggable
  /\ holding' = m
  /\ manipulating' = TRUE
  /\ fresh' = TRUE
  /\ UNCHANGED <<models, pose, marker, last_poses, service_paused, age>>

PoseUpdate(p) ==
  /\ holding # NoName
  /\ marker' = [marker EXCEPT ![holding] = p]
  /\ age' = 0
  /\ fresh' = FALSE
  /\ UNCHANGED <<models, pose, last_poses, service_paused, manipulating,
                 holding>>

(* MOUSE_UP puts the model where its marker was dropped.                   *)
MouseUp ==
  /\ holding # NoName
  /\ pose' = [pose EXCEPT ![holding] = marker[holding]]
  /\ manipulating' = FALSE
  /\ holding' = NoName
  /\ UNCHANGED <<models, marker, last_poses, service_paused, age, fresh>>

(* rviz is closed, or its connection lost, with the button down.           *)
Vanish ==
  /\ MayVanish
  /\ holding # NoName
  /\ holding' = NoName
  /\ UNCHANGED <<models, pose, marker, last_poses, service_paused,
                 manipulating, age, fresh>>

-----------------------------------------------------------------------------
(***************************************************************************)
(* One cycle: World::Update and the d ticks the cycle takes                *)
(***************************************************************************)

(* The physics step may move any model; a paused world does not step.      *)
Moves == IF IsPaused THEN {pose}
         ELSE {f \in [Name -> Pose] : \A m \in Name \ models : f[m] = pose[m]}

(* update(): the models whose marker is given a new pose, unless the user  *)
(* is manipulating one.                                                    *)
MutantOutdated(p) == {m \in models : last_poses[m] = NoPose}
Outdated(p) == IF manipulating THEN {}
               ELSE {m \in models : last_poses[m] # p[m]}

(* The time window in which update() takes a drag for abandoned.           *)
MutantStreamStopped == age = Quiet
StreamStopped == Quiet < age /\ age < Stale

(* The age of the stamp after d more ticks.                                *)
Later(d) == IF age + d < Stale THEN age + d ELSE Stale

Cycle(d) ==
  /\ pose' \in Moves
  /\ marker' = [m \in Name |-> IF m \in Outdated(pose') THEN pose'[m]
                                                        ELSE marker[m]]
  /\ last_poses' = [m \in Name |-> IF m \in Outdated(pose') THEN pose'[m]
                                                            ELSE last_poses[m]]
  /\ manipulating' = (manipulating /\ ~StreamStopped)
  /\ age' = Later(d)
  /\ fresh' = FALSE
  /\ UNCHANGED <<models, service_paused, holding>>

MarkersNext ==
  \/ \E m \in Name, p \in Pose, o \in Offsets : LoadModel(m, p, o)
  \/ \E m \in Name : DeleteModel(m)
  \/ \E m \in Name, p \in Pose : MoveModel(m, p)
  \/ \E b \in BOOLEAN : SetServicePause(b)
  \/ \E m \in Name : MouseDown(m)
  \/ \E p \in Pose : PoseUpdate(p)
  \/ MouseUp
  \/ Vanish
  \/ \E d \in 1..MaxCycle : Cycle(d)

MarkersSpec == MarkersInit /\ [][MarkersNext]_markerVars

(* Main never stops cycling; users and services owe nothing.               *)
FairMarkersSpec == MarkersSpec /\ WF_markerVars(\E d \in 1..MaxCycle : Cycle(d))

-----------------------------------------------------------------------------
(***************************************************************************)
(* Properties                                                              *)
(***************************************************************************)

(* Exactly the live models have a marker, whichever way they are deleted   *)
(* and whatever feedback still arrives.                                    *)
MarkerPerModel == \A m \in Name : marker[m] # NoPose <=> m \in models

(* A cycle that finds no drag in progress leaves every marker on its model *)
(* (interactive_marker_manager.h:53, "to synchronize the markers with the  *)
(* models").                                                               *)
SynchronizesMarkersOf(S) ==
  (\E d \in 1..MaxCycle : Cycle(d)) /\ ~manipulating /\ holding = NoName
    => \A m \in S : marker'[m] = pose'[m]

(* It is stated of the models that are neither dragged nor replaced, while *)
(* others are dragged, deleted and spawned around them: last_poses_ is not *)
(* erased with a model, nor told where a drag has left the marker.         *)
UntouchedSynchronized ==
  [][SynchronizesMarkersOf(models \ (Draggable \cup Removable))]_markerVars

(* Both: every model has its marker, and where it is.                      *)
MarkersFollow == [](MarkersTypeOK /\ MarkerPerModel) /\ UntouchedSynchronized

(* A drag whose stream of pose updates stops within sight of update() does *)
(* not pause the world for ever: the flag is cleared, or the user moves on.*)
(* Needs cycles shorter than the window between Quiet and Stale.           *)
AbandonedDragUnpauses ==
  (manipulating /\ age < Stale) ~> (~manipulating \/ age = 0)

(* interactive_marker_manager.cpp:230: the flag is cleared "when the       *)
(* stream of pose update feedback stops".  A drag that began after the     *)
(* last cycle has no stream yet that could have stopped, so the first      *)
(* cycle of a drag does not end its pause.                                 *)
OnlyStoppedStreamUnpauses ==
  [][(\E d \in 1..MaxCycle : Cycle(d)) /\ manipulating /\ ~manipulating'
     => ~fresh]_markerVars

=============================================================================
