--------------------------- MODULE ContactSensors ---------------------------
(***************************************************************************)
(* Box2D contacts and the two plugins that keep a record of them: the      *)
(* BoolSensor and the Bumper of one model, the carrier.  Contacts begin    *)
(* and end while the physics steps (World and PluginManager pass the       *)
(* events on to the model plugins) and end when a model is deleted.        *)
(*                                                                         *)
(* Abstractions.  Geometry is left out: any two bodies of live models may  *)
(* start or stop touching in a step.  A body stands for one fixture, so a  *)
(* contact is the set of its two bodies, and the contact of a body with    *)
(* itself, which both plugins skip, does not exist.  When the timer of the *)
(* BoolSensor fires is left open.                                          *)
(***************************************************************************)
EXTENDS Integers, FiniteSets

CONSTANTS
  Model,       \* models, and the layers, which are never deleted
  Body,        \* bodies
  ModelOf,     \* the model (or layer) of each body
  Carrier,     \* the model with the two plugins
  SensorBody,  \* body_ of the BoolSensor
  Excluded,    \* excluded_bodies_ of the Bumper
  Deletable,   \* models that the environment deletes
  MaxSolves,   \* bound: PostSolve calls per contact and step
  MaxContacts  \* bound: contacts in the list at a time

ASSUME ConstantsAssumption ==
  /\ ModelOf \in [Body -> Model]
  /\ Carrier \in Model
  /\ SensorBody \in Body /\ ModelOf[SensorBody] = Carrier
  /\ Excluded \subseteq {b \in Body : ModelOf[b] = Carrier}
  /\ Deletable \subseteq Model
  /\ IsFiniteSet(Body)
  /\ MaxSolves \in Nat
  /\ MaxContacts \in Nat

VARIABLES
  live,            \* live models
  stepping,        \* the physics step is running
  touching,        \* touching contacts of the Box2D contact list
  collisions,      \* BoolSensor::collisions_
  hit_something,   \* BoolSensor::hit_something_
  out,             \* the last value the BoolSensor published
  contact_states,  \* Bumper::contact_states_: contact, body_A, num_count
  begun,           \* history: filtered contacts begun since that publication
  solved           \* history: PostSolve calls in the current step

vars == <<live, stepping, touching, collisions, hit_something, out,
          contact_states, begun, solved>>

Contact == {c \in SUBSET Body : Cardinality(c) = 2}

ContactState == [contact : Contact, body_A : Body, num_count : Nat]

TypeOK ==
  /\ live \subseteq Model
  /\ stepping \in BOOLEAN
  /\ touching \subseteq Contact
  /\ collisions \in Nat
  /\ hit_something \in BOOLEAN
  /\ out \in BOOLEAN
  /\ contact_states \subseteq ContactState
  /\ begun \subseteq Contact
  /\ solved \in [Contact -> Nat]

Init ==
  /\ live = Model
  /\ stepping = FALSE
  /\ touching = {}
  /\ collisions = 0
  /\ hit_something = FALSE
  /\ out = FALSE
  /\ contact_states = {}
  /\ begun = {}
  /\ solved = [c \in Contact |-> 0]

(* FilterContact: one of the two bodies belongs to the carrier.            *)
FilterContact(c) == \E b \in c : ModelOf[b] = Carrier

(* The contacts the plugins of the carrier are told of.                    *)
Own == {c \in touching : FilterContact(c)}

(* The carrier's plugins exist while the carrier does.                     *)
Loaded == Carrier \in live

-----------------------------------------------------------------------------
(***************************************************************************)
(* The physics step                                                        *)
(***************************************************************************)

(* Bumper::BeforePhysicsStep resets every record.                          *)
ResetState(r) == [r EXCEPT !.num_count = 0]

BeforePhysicsStep ==
  /\ ~stepping
  /\ stepping' = TRUE
  /\ contact_states' = {ResetState(r) : r \in contact_states}
  /\ solved' = [c \in Contact |-> 0]
  /\ UNCHANGED <<live, touching, collisions, hit_something, out, begun>>

(* By FilterContact, body_A is the carrier's body, and that of fixture A   *)
(* if both bodies are the carrier's.                                       *)
Recorded(c) ==
  {[contact |-> c, body_A |-> b, num_count |-> 0] : b \in
     {b \in c : ModelOf[b] = Carrier}}

BeginContact(c) ==
  /\ stepping
  /\ c \notin touching /\ Cardinality(touching) < MaxContacts
  /\ {ModelOf[b] : b \in c} \subseteq live
  /\ touching' = touching \cup {c}
  /\ IF FilterContact(c)
     THEN /\ begun' = begun \cup {c}
          /\ collisions' = collisions + 1
          /\ hit_something' = TRUE
          /\ \E r \in Recorded(c) :
               contact_states' = IF r.body_A \in Excluded THEN contact_states
                                 ELSE contact_states \cup {r}
     ELSE UNCHANGED <<collisions, hit_something, contact_states, begun>>
  /\ UNCHANGED <<live, stepping, out, solved>>

(* The contacts of a set end one after the other, each with an event.      *)
Told(ended) == {c \in ended : FilterContact(c)}

Uncounted(ended) == Cardinality(Told(ended))

MutantKept(ended) == contact_states
Kept(ended) == {r \in contact_states : r.contact \notin Told(ended)}

EndContacts(ended) ==
  /\ touching' = touching \ ended
  /\ collisions' = collisions - Uncounted(ended)
  /\ contact_states' = Kept(ended)

EndContact(c) ==
  /\ stepping
  /\ c \in touching
  /\ EndContacts({c})
  /\ UNCHANGED <<live, stepping, hit_something, out, begun, solved>>

(* Called once or more per step for a contact of two solid bodies.         *)
PostSolve(c) ==
  /\ stepping
  /\ c \in touching
  /\ solved[c] < MaxSolves
  /\ solved' = [solved EXCEPT ![c] = @ + 1]
  /\ contact_states' =
       {IF r.contact = c THEN [r EXCEPT !.num_count = @ + 1] ELSE r :
          r \in contact_states}
  /\ UNCHANGED <<live, stepping, touching, collisions, hit_something, out,
                 begun>>

(* BoolSensor::AfterPhysicsStep when the timer fires.                      *)
MutantReading == collisions > 0
Reading == hit_something \/ collisions > 0

Publish ==
  /\ out' = Reading
  /\ hit_something' = FALSE
  /\ begun' = {}

AfterPhysicsStep(due) ==
  /\ stepping
  /\ stepping' = FALSE
  /\ IF due /\ Loaded THEN Publish ELSE UNCHANGED <<out, hit_something, begun>>
  /\ UNCHANGED <<live, touching, collisions, contact_states, solved>>

-----------------------------------------------------------------------------
(***************************************************************************)
(* Spawn and delete, between two steps                                     *)
(***************************************************************************)

ModelSpawned(m) ==
  /\ ~stepping
  /\ m \notin live
  /\ live' = live \cup {m}
  /\ UNCHANGED <<stepping, touching, collisions, hit_something, out,
                 contact_states, begun, solved>>

(* The plugins of the model go first; destroying its bodies then ends all  *)
(* their contacts.                                                         *)
ModelDeleted(m) ==
  /\ ~stepping
  /\ m \in live \cap Deletable
  /\ live' = live \ {m}
  /\ IF m = Carrier
     THEN /\ touching' = {c \in touching : ~FilterContact(c)}
          /\ collisions' = 0
          /\ hit_something' = FALSE
          /\ out' = FALSE
          /\ contact_states' = {}
          /\ begun' = {}
     ELSE /\ EndContacts({c \in touching : \E b \in c : ModelOf[b] = m})
          /\ UNCHANGED <<hit_something, out, begun>>
  /\ UNCHANGED <<stepping, solved>>

Next ==
  \/ BeforePhysicsStep
  \/ \E c \in Contact : BeginContact(c) \/ EndContact(c) \/ PostSolve(c)
  \/ \E due \in BOOLEAN : AfterPhysicsStep(due)
  \/ \E m \in Model : ModelSpawned(m) \/ ModelDeleted(m)

Spec == Init /\ [][Next]_vars

(* The simulation steps for ever and the timer of the sensor fires again   *)
(* and again (UpdateTimer).                                                *)
Fairness ==
  /\ WF_vars(BeforePhysicsStep)
  /\ WF_vars(\E due \in BOOLEAN : AfterPhysicsStep(due))
  /\ SF_vars(AfterPhysicsStep(TRUE))

-----------------------------------------------------------------------------
(***************************************************************************)
(* Properties                                                              *)
(***************************************************************************)

(* Whichever way contacts end, the counter of the BoolSensor does not      *)
(* drift from the contact list, the Bumper's records never outlive their   *)
(* contact (the entity they point to may be gone), none is missing of a    *)
(* body that is not excluded, and the impulses a record averages are those *)
(* of the current step.                                                    *)
RecordsAreExact ==
  /\ TypeOK
  /\ \A r \in contact_states : /\ r.contact \in Own /\ r.body_A \notin Excluded
                              /\ r.num_count <= solved[r.contact]
  /\ Loaded => /\ collisions = Cardinality(Own)
               /\ \A c \in Own : c \cap Excluded = {} =>
                    \E r \in contact_states : r.contact = c

(* The sensor reports the contacts of its model as Detector describes.     *)
OfModel == INSTANCE Detector WITH loaded <- Loaded, touching <- Own
SensesModel == OfModel!Spec

(* bool_sensor.rst:4 says more: the sensor "attaches to a single body of a *)
(* model and publishes true if something collides with it".                *)
OfBody == INSTANCE Detector WITH
            loaded <- Loaded,
            touching <- {c \in touching : SensorBody \in c},
            begun <- {c \in begun : SensorBody \in c}
SensesBody == OfBody!Spec

(* Every collision is reported: the latch is set until a true went out, or *)
(* the carrier is deleted.                                                 *)
CollisionsAreReported == hit_something ~> (out \/ ~Loaded)

=============================================================================
