------------------------------- MODULE Viewer -------------------------------
(***************************************************************************)
(* What is drawn: DebugVisualization keeps a topic of markers per model    *)
(* and two per layer (flatland_server/src/debug_visualization.cpp), and    *)
(* flatland_viz opens a display per topic it is told of                    *)
(* (flatland_viz/src/flatland_viz_node.cpp).                               *)
(*                                                                         *)
(* The server draws, publishes and answers services on one thread; the     *)
(* list of topics reaches the viewer's subscription some time later, and a *)
(* timer of 250 ms acts on the last list received.  A publisher keeps its  *)
(* last message for subscribers that come late; a list that is replaced in  *)
(* the call that sent it is not seen.  A display keeps a marker until      *)
(* another one with its number replaces it.  A marker is reduced to its    *)
(* type.                                                                   *)
(***************************************************************************)
EXTENDS Integers, Sequences, SequencesExt

CONSTANTS
  Models,  \* names of models
  Looks,   \* what a model may look like: [bodies, joints]
  GroundBodies   \* the bodies of the layer: one, or none without a map

VARIABLES
  world,     \* models in the world -> their look
  topics,    \* DebugVisualization::topics_: topic -> [markers, dirty]
  air,       \* topic -> the last markers its publisher has sent
  list,      \* the last DebugTopicList sent
  latest,    \* latest_topics of the viewer
  unread,    \* its flag dirty
  displays   \* debug_displays: topic -> the markers shown, by number

viewVars == <<world, topics, air, list, latest, unread, displays>>

Nothing == <<>>
Overlay(new, old) == [k \in DOMAIN new \cup DOMAIN old |->
                        IF k \in DOMAIN new THEN new[k] ELSE old[k]]
Without(f, gone) == [k \in DOMAIN f \ gone |-> f[k]]

-----------------------------------------------------------------------------
(* Markers of a body and of a joint                                        *)

(* A mesh is one marker, a wheel four cylinders, its spokes and its tread, *)
(* and a fork when it trails its pivot.                                    *)
Wheel == <<"cylinder", "cylinder", "cylinder", "cylinder", "lines", "lines">>

Shape(fixture) == CASE fixture = "circle" -> "spheres"
                    [] fixture \in {"polygon", "chain"} -> "strip"
                    [] fixture = "edge" -> "lines"

(* An edge extends the list of lines before it, if there is one.           *)
AddFixture(fixture, markers) ==
  IF fixture = "edge" /\ markers # <<>> /\ Last(markers) = "lines"
    THEN markers ELSE Append(markers, Shape(fixture))

BodyToMarkers(markers, body) ==
  CASE body.visual = "mesh" -> Append(markers, "mesh")
    [] body.visual = "wheel" -> markers \o Wheel
    [] body.visual = "caster" -> Append(markers \o Wheel, "lines")
    [] OTHER -> FoldLeft(LAMBDA m, f : AddFixture(f, m), markers, body.fixtures)

JointToMarkers(markers) == markers \o <<"lines", "cubes">>

Bodies(look) == FoldLeft(BodyToMarkers, <<>>, look.bodies)
Drawn == [look \in Looks |-> FoldLeft(LAMBDA m, j : JointToMarkers(m), Bodies(look),
                                      [j \in 1 .. look.joints |-> j])]

-----------------------------------------------------------------------------
(* DebugVisualization                                                      *)

(* Reset empties a topic that exists.                                      *)
Reset(t, names) == [k \in DOMAIN t |-> IF k \in names
                      THEN [markers |-> <<>>, dirty |-> TRUE] ELSE t[k]]

(* Visualize creates the topic when it does not exist.                     *)
Visualize(t, name, markers) ==
  Overlay(name :> [markers |-> markers, dirty |-> TRUE], t)

(* Model::DebugVisualize of every model that has something to draw         *)
DebugVisualize(t) ==
  LET shown == {m \in DOMAIN world : world[m].bodies # <<>>}
  IN  Overlay([m \in shown |-> [markers |-> Drawn[world[m]], dirty |-> TRUE]],
              Reset(t, DOMAIN world))

(* The triangles of a layer: none without fixtures                         *)
VisualizeLayer(t, body) ==
  Visualize(t, "layer_3d", IF body.fixtures = <<>> THEN <<>> ELSE <<"triangles">>)

(* Layer::DebugVisualize: a layer with a map is drawn once, both ways.     *)
DrawLayer(t) ==
  FoldLeft(LAMBDA s, b : VisualizeLayer(
             Visualize(s, "layer", BodyToMarkers(<<>>, b)), b), t, GroundBodies)

(* Empty topics are erased, the others sent; whoever erases or creates a   *)
(* topic publishes the list.                                               *)
Emptied(t) == {k \in DOMAIN t : t[k].dirty /\ t[k].markers = <<>>}
Sent(t) == {k \in DOMAIN t : t[k].dirty /\ t[k].markers # <<>>}

PublishTopicList(t) == DOMAIN t
MutantListAfter(t) == DOMAIN t
ListAfter(t) == PublishTopicList(Without(t, Emptied(t)))

Published(t) ==
  LET kept == Without(t, Emptied(t))
  IN  [topics |-> [k \in DOMAIN kept |-> [kept[k] EXCEPT !.dirty = FALSE]],
       air |-> Overlay([k \in Sent(t) |-> t[k].markers], Without(air, Emptied(t))),
       list |-> IF Emptied(t) = {} /\ DOMAIN t = DOMAIN topics
                  THEN list ELSE ListAfter(t),
       displays |-> [k \in DOMAIN displays |-> IF k \in Sent(t)
                       THEN Overlay(t[k].markers, displays[k]) ELSE displays[k]]]
Now == [topics |-> topics, air |-> air, list |-> list, displays |-> displays]

(* A cycle of the server that updates the visualization, unless nothing    *)
(* changes                                                                 *)
DrawAndPublish ==
  \E new \in {Published(DebugVisualize(topics))} :
    /\ new # Now
    /\ topics' = new.topics /\ air' = new.air
    /\ list' = new.list /\ displays' = new.displays
    /\ UNCHANGED <<world, latest, unread>>

(* The world's layers and models are drawn before the first cycle.         *)
ViewInit ==
  /\ world \in [Models -> Looks]
  /\ topics = DrawLayer(DebugVisualize(<<>>)) /\ list = DOMAIN topics
  /\ air = Nothing /\ latest = {} /\ unread = FALSE /\ displays = Nothing

-----------------------------------------------------------------------------
(* Models come and go                                                      *)

Spawn(m) ==
  /\ m \notin DOMAIN world
  /\ \E look \in Looks : world' = Overlay(m :> look, world)
  /\ UNCHANGED <<topics, air, list, latest, unread, displays>>

Delete(m) ==
  /\ m \in DOMAIN world
  /\ world' = Without(world, {m})
  /\ topics' = Reset(topics, {m})
  /\ UNCHANGED <<air, list, latest, unread, displays>>

-----------------------------------------------------------------------------
(* flatland_viz                                                            *)

Receive ==
  /\ latest # list
  /\ latest' = list /\ unread' = TRUE
  /\ UNCHANGED <<world, topics, air, list, displays>>

(* The timer: displays whose topic is gone are removed, new ones shown     *)
(* with what their publisher last sent.                                    *)
Closed == DOMAIN displays \ latest
DebugTimer ==
  /\ unread
  /\ unread' = FALSE
  /\ displays' = Overlay(Without(displays, Closed),
       [k \in latest |-> IF k \in DOMAIN air THEN air[k] ELSE Nothing])
  /\ UNCHANGED <<world, topics, air, list, latest>>

ViewNext == \/ DrawAndPublish \/ Receive \/ DebugTimer
            \/ \E m \in Models : Spawn(m) \/ Delete(m)

(* The server cycles, messages arrive, and the timer runs; nobody has to   *)
(* spawn or delete.                                                        *)
ViewFairness == /\ WF_viewVars(DrawAndPublish)
                /\ WF_viewVars(Receive) /\ WF_viewVars(DebugTimer)

ViewSpec == ViewInit /\ [][ViewNext]_viewVars /\ ViewFairness

-----------------------------------------------------------------------------
Shows(m, markers) == /\ m \in DOMAIN displays
                     /\ \A i \in DOMAIN markers : /\ i \in DOMAIN displays[m]
                                                  /\ displays[m][i] = markers[i]

(* The viewer catches up: when the models stop coming and going, each one  *)
(* that has a body ends up with a display that shows all its markers, and  *)
(* each that is gone, with its name unused, ends up without a display.     *)
(* (The converse, that nothing else is shown, does not hold: a model       *)
(* deleted and spawned again with fewer markers before the viewer's timer  *)
(* runs leaves the surplus of its predecessor on display.)                 *)
ViewerFollows == \A m \in Models :
  /\ (<>[](m \notin DOMAIN world)) => <>[](m \notin DOMAIN displays)
  /\ \A look \in Looks : look.bodies # <<>> /\ Bodies(look) # <<>> =>
       ((<>[](m \in DOMAIN world /\ world[m] = look)) => <>[]Shows(m, Drawn[look]))
=============================================================================
