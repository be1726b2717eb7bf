----------------------------- MODULE Detection -----------------------------
(***************************************************************************)
(* The MockDetection plugin (flatland_plugins/src/mock_detection.cpp): the *)
(* targets a camera sees between other bodies, and the frames by which it  *)
(* remembers where it saw them last.                                       *)
(*                                                                         *)
(* Space is a line and a yaw is 1 or -1.  Every body reaches Size to both  *)
(* sides of its origin.  Without noise and without an offset of the pose.  *)
(***************************************************************************)
EXTENDS Integers, Sequences, FiniteSetsExt

CONSTANTS
  Model,     \* models other than the robot of the camera
  Matching,  \* those whose name begins with one of model_prefixes_
  Walls,     \* origins of the bodies of layers
  Offsets,   \* of the bodies of a model, in the order of the yaml
  Size,      \* half the width of a body
  Places,    \* where models and the camera may be
  Gone,      \* the place of a model that is not in the world
  MinRange, MaxRange

VARIABLES
  at,        \* where the models are
  lifted,    \* those above max_target_elevation_
  camera,    \* the pose [x, yaw] of the camera
  anchored,  \* anchored_tfs_
  sent,      \* the poses published by the last update, none if it sent none
  frames     \* the frames of targets broadcast by the last update

vars == <<at, lifted, camera, anchored, sent, frames>>

(* What ParseParameters asks for.                                          *)
ParametersAccepted == MinRange < MaxRange

Alive == {m \in Model : at[m] # Gone}

Init ==
  /\ at \in [Model -> Places \cup {Gone}]
  /\ lifted = {}
  /\ camera \in [x : Places, yaw : {1, -1}]
  /\ anchored = << >> /\ sent = << >> /\ frames = << >>

(* The pose of a place in the frame of the camera, and back.               *)
Local(x) == camera.yaw * (x - camera.x)
Abs(n) == IF n < 0 THEN -n ELSE n

World(d) == camera.x + camera.yaw * d

-----------------------------------------------------------------------------
(***************************************************************************)
(* TargetVisible                                                           *)
(***************************************************************************)

(* The first body of a model in the list of Box2D, the one made last.      *)
Origin(m) == at[m] + Offsets[Len(Offsets)]

(* Where rays may end: entities and the origins of their bodies.           *)
Bodies == {<<m, at[m] + Offsets[i]>> : m \in Alive, i \in DOMAIN Offsets}
          \cup {<<"wall", x>> : x \in Walls}

(* Entities on the ray to a place and how far; a body around the camera    *)
(* and one beyond the place are not.                                       *)
Hits(place) ==
  LET side == IF place < camera.x THEN -1 ELSE 1
      length == (place - camera.x) * side
  IN  {h \in {<<b[1], (b[2] - camera.x) * side - Size>> : b \in Bodies} :
         h[2] > 0 /\ h[2] < length}

(* closest_entity_: of equally near ones the one Box2D reports first; none *)
(* at all if nothing is hit.                                               *)
Closest(hits) == {h[1] : h \in {h \in hits : \A g \in hits : h[2] <= g[2]}}
MayBeVisible(m) ==
  LET hits == Hits(Origin(m)) IN hits = {} \/ m \in Closest(hits)
MustBeVisible(m) ==
  LET hits == Hits(Origin(m)) IN hits = {} \/ Closest(hits) = {m}

(* Name, elevation, range and field of view, of the half plane ahead.      *)
Eligible(m) ==
  /\ m \in Alive \cap Matching
  /\ m \notin lifted
  /\ Local(Origin(m)) \in MinRange .. MaxRange

-----------------------------------------------------------------------------
(***************************************************************************)
(* BeforePhysicsStep, when the timer is due                                *)
(***************************************************************************)

MutantAnchors(poses) == [m \in DOMAIN poses |-> World(poses[m])]
(* The frames of what is seen now, and of what was seen before.            *)
Anchors(poses) ==
  [m \in DOMAIN anchored \cup DOMAIN poses |->
     IF m \in DOMAIN poses THEN World(poses[m]) ELSE anchored[m]]

See ==
  /\ \E seen \in SUBSET {m \in Model : Eligible(m) /\ MayBeVisible(m)} :
       /\ {m \in Model : Eligible(m) /\ MustBeVisible(m)} \subseteq seen
       /\ sent' = [m \in seen |-> Local(Origin(m))]
  /\ anchored' = Anchors(sent')
  /\ frames' = anchored'
  /\ UNCHANGED <<at, lifted, camera>>

(* A dropped frame.                                                        *)
Dropout ==
  /\ sent' = << >>
  /\ frames' = anchored
  /\ UNCHANGED <<at, lifted, camera, anchored>>

(* Models and the camera move, are spawned, deleted and lifted.            *)
MoveModel(m, place) ==
  /\ at' = [at EXCEPT ![m] = place]
  /\ lifted' = IF place = Gone THEN lifted \ {m} ELSE lifted
  /\ UNCHANGED <<camera, anchored, sent, frames>>

Lift(m) ==
  /\ m \in Alive
  /\ lifted' = IF m \in lifted THEN lifted \ {m} ELSE lifted \cup {m}
  /\ UNCHANGED <<at, camera, anchored, sent, frames>>

MoveCamera ==
  /\ camera' \in [x : Places, yaw : {1, -1}]
  /\ UNCHANGED <<at, lifted, anchored, sent, frames>>

Next ==
  \/ See
  \/ Dropout
  \/ \E m \in Model : \/ \E place \in Places \cup {Gone} : MoveModel(m, place)
                      \/ Lift(m)
  \/ MoveCamera

Spec == Init /\ [][Next]_vars
-----------------------------------------------------------------------------
(* How far the fronts of bodies are that stand on the way to a target.     *)
Fronts(S, m) ==
  {d \in 1 .. Abs(Origin(m) - camera.x) - 1 :
     \E b \in S : \/ b[2] = camera.x + d + Size /\ Origin(m) > camera.x
                  \/ b[2] = camera.x - d - Size /\ Origin(m) < camera.x}
Own(m) == {b \in Bodies : b[1] = m}
Hidden(m) == \E d \in Fronts(Bodies \ Own(m), m) : \A e \in Fronts(Own(m), m) : d < e
Unobstructed(m) == Fronts(Bodies \ Own(m), m) = {}

(* What a frame of detections holds was in view at that moment, and what   *)
(* is in view without anything in front of it is in every frame that is    *)
(* not dropped; a target once seen has a frame in every update for ever    *)
(* after, at the place where it was seen last, whether the frame is        *)
(* dropped, the target hidden, moved or deleted (mock_detection.h:70,      *)
(* "lost targets stay anchored in the world").                             *)
DetectsAndRemembers ==
  [][frames' # frames \/ sent' # sent =>
       /\ \A m \in DOMAIN sent' :
            /\ Eligible(m) /\ ~Hidden(m)
            /\ sent'[m] > 0 /\ frames'[m] = Origin(m)
       /\ sent' # << >> => \A m \in Model : Eligible(m) /\ Unobstructed(m) => m \in DOMAIN sent'
       /\ \A m \in DOMAIN frames \ DOMAIN sent' :
            m \in DOMAIN frames' /\ frames'[m] = frames[m]]_vars
=============================================================================
