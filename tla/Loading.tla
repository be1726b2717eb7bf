------------------------------ MODULE Loading ------------------------------
(***************************************************************************)
(* From the yaml files to the objects of the b2World: a layer becomes a    *)
(* static body with an edge per line segment or a loop per contour of its  *)
(* bitmap, a model becomes a body per entry of "bodies" with a fixture per *)
(* footprint, and a joint per entry of "joints"                            *)
(* (flatland_server/src/layer.cpp, model.cpp, model_body.cpp, joint.cpp,   *)
(* body.cpp).  WorldModels leaves what an entry says free; here an entry   *)
(* is a record and every check the loader makes on it is there.  A file's  *)
(* numbers are reduced to what the checks ask of them.  The contours of a  *)
(* bitmap are those OpenCV returns.                                        *)
(***************************************************************************)
EXTENDS Integers, Sequences, SequencesExt

CONSTANTS
  LayerEntry,  \* descriptions of a layer's map
  BodyEntry,   \* entries of "bodies"
  JointEntry,  \* entries of "joints"
  LayerNames,  \* layers the footprints can name
  MaxLayers,   \* layers of the world file
  MaxBodies,   \* entries of "bodies" in a model file
  MaxJoints    \* entries of "joints"

ASSUME LoadAssumption ==
  /\ MaxLayers \in Nat /\ MaxBodies \in Nat /\ MaxJoints \in Nat
  /\ \A e \in BodyEntry : e.enabled \in BOOLEAN /\ e.prints \in Seq(Range(e.prints))
  /\ \A e \in JointEntry : e.enabled \in BOOLEAN

VARIABLES
  stage,     \* "layers": MakeWorld reads the layers; "up": the world runs;
             \* "bodies", "joints": MakeModel; "loaded": the model is there;
             \* "failed": it was refused; "refused": MakeWorld threw;
             \* "aborted": an assertion of Box2D ended the process
  simplify,  \* parameter simplify_map
  fixtures,  \* b2Body -> its fixtures in the order they were created
  links,     \* b2Joints: [name, ends]
  model,     \* Model::bodies_: sequence of [name, body]
  making,    \* the body MakeBody is working on: <<>> or <<[entry, body, done]>>
  told,      \* history: the enabled entries the model's file held so far, and
             \* how many entries were read of the list
  before     \* history: the b2World without the model

loadVars == <<stage, simplify, fixtures, links, model, making, told, before>>

LoadInit ==
  /\ stage = "layers" /\ simplify \in 0 .. 2
  /\ fixtures = <<>> /\ links = {} /\ model = <<>> /\ making = <<>>
  /\ told = [bodies |-> <<>>, joints |-> <<>>, read |-> 0]
  /\ before = [fixtures |-> <<>>, links |-> {}]

(* b2World::CreateBody: some address no living body has                    *)
FreshBody == CHOOSE b \in 1 .. 1 + MaxLayers + MaxBodies : b \notin DOMAIN fixtures
With(b, shapes) == [x \in DOMAIN fixtures \cup {b} |->
                      IF x = b THEN shapes ELSE fixtures[x]]
Remaining(bs) == [x \in DOMAIN fixtures \ bs |-> fixtures[x]]

-----------------------------------------------------------------------------
(* Layers                                                                  *)

(* One edge per row of the file; a row without four numbers is an error,   *)
(* and an empty row has none.                                              *)
ReadLineSegmentsFile(e) == e.found /\ \A i \in DOMAIN e.rows : e.rows[i] = 4

(* At level 2 the opening erases what is thin; at level 1 and above the    *)
(* reduced outline replaces the contour if more than four points are left. *)
Outlines(e) ==
  LET seen == SelectSeq(e.contours, LAMBDA c : simplify < 2 \/ ~c.thin)
  IN  [i \in DOMAIN seen |-> IF simplify >= 1 /\ seen[i].reduced > 4
                               THEN seen[i].reduced ELSE seen[i].points]

(* The shapes of a layer, or none for one that has no map                  *)
Shapes(e) == CASE e.type = "line_segments" -> [i \in DOMAIN e.rows |-> "edge"]
               [] e.type = "" -> [i \in DOMAIN Outlines(e) |-> "loop"]
               [] OTHER -> <<>>

(* What MakeLayer throws on: an unreadable line file or image              *)
LayerThrows(e) == \/ e.type = "line_segments" /\ ~ReadLineSegmentsFile(e)
                  \/ e.type = "" /\ ~e.found

(* b2ChainShape::CreateLoop asserts that a loop has three vertices.        *)
LoopAsserts(e) == e.type = "" /\ \E i \in DOMAIN Outlines(e) : Outlines(e)[i] < 3

LoadLayer(e) ==
  /\ stage = "layers" /\ Len(model) = 0
  /\ Cardinality(DOMAIN fixtures) < MaxLayers
  /\ IF LayerThrows(e)
       THEN stage' = "refused" /\ fixtures' = <<>>
     ELSE IF LoopAsserts(e)
       THEN stage' = "aborted" /\ UNCHANGED fixtures
     ELSE /\ stage' = "layers"
          /\ fixtures' = IF e.type = "none" THEN fixtures
                         ELSE With(FreshBody, Shapes(e))
  /\ UNCHANGED <<simplify, links, model, making, told, before>>

LayersLoaded ==
  /\ stage = "layers"
  /\ stage' = "up"
  /\ before' = [fixtures |-> fixtures, links |-> links]
  /\ UNCHANGED <<simplify, fixtures, links, model, making, told>>

-----------------------------------------------------------------------------
(* Bodies of a model                                                       *)

StartModel ==
  /\ stage = "up"
  /\ stage' = "bodies" /\ model' = <<>> /\ making' = <<>>
  /\ told' = [bodies |-> <<>>, joints |-> <<>>, read |-> 0]
  /\ before' = [fixtures |-> fixtures, links |-> links]
  /\ UNCHANGED <<simplify, fixtures, links>>

(* ~Model: its joints, then its bodies, and with a b2Body its b2Joints     *)
Mine == {model[i].body : i \in DOMAIN model}
UnloadedLinks(bs) == {l \in links : Range(l.ends) \cap bs = {}}
DeleteModel(bs, next) ==
  /\ stage' = next
  /\ fixtures' = Remaining(bs) /\ links' = UnloadedLinks(bs)
  /\ model' = <<>> /\ making' = <<>>
  /\ UNCHANGED <<simplify, told, before>>

(* MakeBody deletes the body it was making, MakeModel the rest.            *)
MutantAlsoMine == {}
AlsoMine == {making[i].body : i \in DOMAIN making}
Throw == DeleteModel(Mine \cup AlsoMine, "failed")

Type == {"static", "kinematic", "dynamic"}

(* MakeBody up to the constructor: an unknown type is refused before       *)
(* anything exists; a disabled entry is passed over.                       *)
ReadBody(e) ==
  /\ stage = "bodies" /\ making = <<>> /\ told.read < MaxBodies
  /\ UNCHANGED <<stage, simplify, links, model, before>>
  /\ IF ~e.enabled
     THEN told' = [told EXCEPT !.read = @ + 1] /\ UNCHANGED <<fixtures, making>>
     ELSE /\ told' = [told EXCEPT !.bodies = Append(@, e), !.read = @ + 1]
          /\ fixtures' = With(FreshBody, <<>>)
          /\ making' = <<[entry |-> e, body |-> FreshBody, done |-> 0]>>

RefuseType(e) ==
  /\ stage = "bodies" /\ making = <<>> /\ told.read < MaxBodies
  /\ e.enabled /\ e.type \notin Type
  /\ Throw

(* Either a mesh or a wheel is drawn, a wheel has positive measures, and   *)
(* no key is left over.                                                    *)
BodyAccepted(e) == /\ e.wheel = "none" \/ (e.wheel = "sound" /\ ~e.mesh)
                   /\ ~e.extra

(* ConfigFootprintDef: the layers must exist; a fixture that does not      *)
(* collide has an empty mask.                                              *)
ConfigFootprintDef(p) == [category |-> p.layers,
                          mask |-> IF p.collision THEN p.layers ELSE {}]

PrintAccepted(p) ==
  /\ p.type \in {"circle", "polygon"}
  /\ p.type = "polygon" => p.points \in 3 .. 8
  /\ p.layers \subseteq LayerNames
  /\ ~p.extra

(* b2PolygonShape::Set asserts that the hull has three corners.            *)
PrintAsserts(p) ==
  p.type = "polygon" /\ p.points \in 3 .. 8 /\ p.layers \subseteq LayerNames /\ p.flat

Footprint == LET m == making[1] IN m.entry.prints[m.done + 1]
Unfinished == making # <<>> /\ making[1].done < Len(making[1].entry.prints)

LoadFootprint ==
  /\ stage = "bodies" /\ Unfinished /\ BodyAccepted(making[1].entry)
  /\ PrintAccepted(Footprint) /\ ~PrintAsserts(Footprint)
  /\ fixtures' = [fixtures EXCEPT ![making[1].body] =
                    Append(@, ConfigFootprintDef(Footprint))]
  /\ making' = [making EXCEPT ![1].done = @ + 1]
  /\ UNCHANGED <<stage, simplify, links, model, told, before>>

RefuseBody ==
  /\ stage = "bodies" /\ making # <<>>
  /\ \/ ~BodyAccepted(making[1].entry)
     \/ Unfinished /\ ~PrintAccepted(Footprint) /\ ~PrintAsserts(Footprint)
  /\ Throw

(* The body is pushed first and compared with the others afterwards.       *)
Twice(name) == \E i \in DOMAIN model : model[i].name = name
FinishBody ==
  /\ stage = "bodies" /\ making # <<>> /\ ~Unfinished
  /\ BodyAccepted(making[1].entry)
  /\ IF Twice(making[1].entry.name) THEN Throw
     ELSE /\ model' = Append(model, [name |-> making[1].entry.name,
                                     body |-> making[1].body])
          /\ making' = <<>>
          /\ UNCHANGED <<stage, simplify, fixtures, links, told, before>>

(* A list without entries is refused; one with nothing enabled is not.     *)
BodiesLoaded ==
  /\ stage = "bodies" /\ making = <<>>
  /\ IF told.read = 0 THEN Throw
     ELSE /\ stage' = "joints" /\ told' = [told EXCEPT !.read = 0]
          /\ UNCHANGED <<simplify, fixtures, links, model, making, before>>

-----------------------------------------------------------------------------
(* Joints of a model                                                       *)

(* Model::GetBody: the b2Body of the model's body with that name           *)
GetBody(name) == {model[i].body : i \in {j \in DOMAIN model : model[j].name = name}}

JointAccepted(e) ==
  /\ Len(e.bodies) = 2
  /\ \A i \in 1 .. 2 : GetBody(e.bodies[i]) # {}
  /\ e.type \in {"revolute", "weld"}
  /\ e.type = "revolute" => e.limits \in {0, 2}
  /\ \A l \in links : l \notin before.links => l.name # e.name
  /\ ~e.extra

(* The constructor of b2Joint asserts that the bodies are two.             *)
JointAsserts(e) == /\ Len(e.bodies) = 2 /\ e.bodies[1] = e.bodies[2]
                   /\ GetBody(e.bodies[1]) # {}
                   /\ e.type = "weld" \/ (e.type = "revolute" /\ e.limits \in {0, 2})

MakeJoint(e) ==
  [name |-> e.name, ends |-> [i \in 1 .. 2 |-> CHOOSE b \in GetBody(e.bodies[i]) : TRUE]]

LoadJoint(e) ==
  /\ stage = "joints" /\ told.read < MaxJoints
  /\ IF ~e.enabled THEN /\ told' = [told EXCEPT !.read = @ + 1]
                        /\ UNCHANGED <<stage, simplify, fixtures, links, model, making, before>>
     ELSE IF JointAccepted(e)
       THEN /\ ~JointAsserts(e)
            /\ links' = links \cup {MakeJoint(e)}
            /\ told' = [told EXCEPT !.joints = Append(@, e), !.read = @ + 1]
            /\ UNCHANGED <<stage, simplify, fixtures, model, making, before>>
     ELSE ~JointAsserts(e) /\ Throw

(* An assertion of Box2D ends the process.                                 *)
Abort ==
  /\ \/ /\ stage = "bodies" /\ Unfinished /\ BodyAccepted(making[1].entry)
        /\ PrintAsserts(Footprint)
     \/ /\ stage = "joints" /\ told.read < MaxJoints
        /\ \E e \in JointEntry : e.enabled /\ JointAsserts(e)
  /\ stage' = "aborted"
  /\ UNCHANGED <<simplify, fixtures, links, model, making, told, before>>

ModelLoaded ==
  /\ stage = "joints"
  /\ stage' = "loaded"
  /\ UNCHANGED <<simplify, fixtures, links, model, making, told, before>>

Unload == /\ stage = "loaded" /\ DeleteModel(Mine, "up")
Dismiss ==
  /\ stage = "failed"
  /\ stage' = "up"
  /\ UNCHANGED <<simplify, fixtures, links, model, making, told, before>>

LoadNext ==
  \/ \E e \in LayerEntry : LoadLayer(e)
  \/ LayersLoaded \/ StartModel
  \/ \E e \in BodyEntry : RefuseType(e) \/ (e.type \in Type /\ ReadBody(e))
  \/ LoadFootprint \/ RefuseBody \/ FinishBody \/ BodiesLoaded
  \/ \E e \in JointEntry : LoadJoint(e)
  \/ ModelLoaded \/ Abort \/ Unload \/ Dismiss

LoadSpec == LoadInit /\ [][LoadNext]_loadVars

-----------------------------------------------------------------------------
(* A model is loaded as its file says or not at all: when MakeModel or     *)
(* ~Model is through, the b2World is the one before MakeModel; when the    *)
(* model is there, it has a body of its own for each enabled entry, with   *)
(* one fixture per footprint and a mask inside its category, no two of one *)
(* name, a joint between two of them for each enabled joint, and nothing   *)
(* else of the world has changed.                                          *)
LoadedOrUntouched ==
  /\ stage \in {"failed", "up"} =>
       fixtures = before.fixtures /\ links = before.links
  /\ stage = "loaded" =>
       LET want == told.bodies
       IN  /\ Len(model) = Len(want)
           /\ \A i \in DOMAIN model :
                /\ model[i].name = want[i].name
                /\ model[i].body \notin DOMAIN before.fixtures
                /\ \A j \in DOMAIN model : j # i => /\ model[i].name # model[j].name
                                                    /\ model[i].body # model[j].body
                /\ LET f == fixtures[model[i].body]
                   IN  /\ Len(f) = Len(want[i].prints)
                       /\ \A k \in DOMAIN f : f[k].mask \subseteq f[k].category
           /\ Remaining(Mine) = before.fixtures
           /\ Cardinality(links \ before.links) = Len(told.joints)
           /\ \A l \in links \ before.links : Range(l.ends) \subseteq Mine

(* Whatever the files say, the loader answers with a world, a model or an  *)
(* exception: no assertion of Box2D fails (b2ChainShape.cpp:40 asserts     *)
(* that the contours LoadFromBitmap hands it have three vertices,          *)
(* b2PolygonShape.cpp:158 that a footprint has an area, b2Joint.cpp:185    *)
(* that a joint has two bodies).                                           *)
NoAssertionFails == stage # "aborted"
=============================================================================
