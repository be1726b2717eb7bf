------------------------ MODULE ContactSensorsProofs ------------------------
(***************************************************************************)
(* Proofs about the BoolSensor and the Bumper, for any models, bodies and  *)
(* contacts: their records are those of Box2D's contact list, and the      *)
(* BoolSensor implements Detector.                                         *)
(***************************************************************************)
EXTENDS ContactSensors, FiniteSetTheorems, TLAPS

(* Contacts are between live models, so those of the carrier go with it,   *)
(* and a carrier that is spawned again starts from nothing.                *)
ContactsLive == \A c \in touching : \A b \in c : ModelOf[b] \in live

(* A latch that is set stands for a contact that began and was not         *)
(* reported.                                                               *)
LatchMeansBegun == Loaded => (hit_something <=> begun # {})

Unloaded == ~Loaded => /\ collisions = 0 /\ contact_states = {} /\ begun = {}
                       /\ hit_something = FALSE /\ out = FALSE

IInv == RecordsAreExact /\ ContactsLive /\ LatchMeansBegun /\ Unloaded

-----------------------------------------------------------------------------
LEMMA FiniteContacts ==
  ASSUME ConstantsAssumption, NEW S, S \subseteq Contact
  PROVE  IsFiniteSet(S) /\ Cardinality(S) \in Nat
<1>1. IsFiniteSet(SUBSET Body)
  BY FS_SUBSET DEF ConstantsAssumption
<1>2. S \in SUBSET SUBSET Body
  BY DEF Contact
<1>3. IsFiniteSet(S)
  BY <1>1, <1>2, FS_Subset
<1> QED
  BY <1>3, FS_CardinalityType

LEMMA OwnIsFinite ==
  ASSUME ConstantsAssumption, TypeOK
  PROVE  Own \subseteq Contact /\ IsFiniteSet(Own) /\ Cardinality(Own) \in Nat
<1>1. Own \subseteq Contact
  BY DEF Own, TypeOK
<1> QED
  BY <1>1, FiniteContacts

(* Without the carrier nothing is filtered through to its plugins.         *)
LEMMA OwnNeedsCarrier == ContactsLive /\ ~Loaded => Own = {}
BY DEF ContactsLive, Loaded, Own, FilterContact

LEMMA InitInv == ConstantsAssumption /\ Init => IInv
<1> SUFFICES ASSUME ConstantsAssumption, Init PROVE IInv
  OBVIOUS
<1>1. Own = {} /\ Loaded
  BY DEF Init, Own, Loaded, ConstantsAssumption
<1>2. TypeOK
  BY DEF Init, TypeOK
<1> QED
  BY <1>1, <1>2, FS_EmptySet
  DEF Init, IInv, RecordsAreExact, ContactsLive, LatchMeansBegun, Unloaded

(* However many contacts of the list end at once, the counter follows and  *)
(* their records go.                                                       *)
LEMMA EndContactsExact ==
  ASSUME ConstantsAssumption, IInv, NEW ended \in SUBSET touching,
         EndContacts(ended), UNCHANGED <<stepping, solved>>,
         live' \subseteq Model, Loaded' => Loaded,
         hit_something' \in BOOLEAN, out' \in BOOLEAN, begun' \subseteq Contact
  PROVE  RecordsAreExact'
<1>1. Own' = Own \ Told(ended) /\ Told(ended) \subseteq Own /\ Own' \subseteq Own
  BY DEF EndContacts, Own, Told, FilterContact
<1>2. /\ IsFiniteSet(Own) /\ IsFiniteSet(Told(ended)) /\ IsFiniteSet(Own')
      /\ Cardinality(Own) \in Nat /\ Cardinality(Own') \in Nat
      /\ Cardinality(Told(ended)) \in Nat
  <2>1. Own \subseteq Contact /\ Told(ended) \subseteq Contact /\ Own' \subseteq Contact
    BY <1>1, OwnIsFinite DEF IInv, RecordsAreExact
  <2> QED
    BY <2>1, FiniteContacts
<1>3. Cardinality(Own') = Cardinality(Own) - Cardinality(Told(ended))
  <2>1. Own \cap Told(ended) = Told(ended)
    BY <1>1
  <2> QED
    BY <1>1, <1>2, <2>1, FS_Difference
<1>4. collisions' \in Nat /\ (Loaded' => collisions' = Cardinality(Own'))
  <2>1. CASE Loaded
    BY <2>1, <1>2, <1>3 DEF EndContacts, Uncounted, IInv, RecordsAreExact
  <2>2. CASE ~Loaded
    <3>1. Told(ended) = {} /\ collisions = 0
      BY <2>2, <1>1, OwnNeedsCarrier DEF IInv, Unloaded
    <3> QED
      BY <2>2, <3>1, FS_EmptySet DEF EndContacts, Uncounted
  <2> QED
    BY <2>1, <2>2
<1>5. contact_states' = {r \in contact_states : r.contact \notin Told(ended)}
  BY DEF EndContacts, Kept
<1>6. TypeOK'
  BY <1>4, <1>5 DEF EndContacts, IInv, RecordsAreExact, TypeOK
<1>7. \A r \in contact_states' : /\ r.contact \in Own' /\ r.body_A \notin Excluded
                                 /\ r.num_count <= solved'[r.contact]
  BY <1>1, <1>5 DEF IInv, RecordsAreExact
<1>8. Loaded' => \A c \in Own' : c \cap Excluded = {} =>
                   \E r \in contact_states' : r.contact = c
  BY <1>1, <1>5 DEF IInv, RecordsAreExact
<1> QED
  BY <1>4, <1>6, <1>7, <1>8 DEF RecordsAreExact

LEMMA BeforePhysicsStepInv ==
  ASSUME ConstantsAssumption, IInv, BeforePhysicsStep
  PROVE  IInv'
<1>1. Own' = Own /\ Loaded' = Loaded
  BY DEF BeforePhysicsStep, Own, Loaded, FilterContact
<1>2. \A r \in contact_states : r \in ContactState
  BY DEF IInv, RecordsAreExact, TypeOK
<1>3. \A r \in ContactState : /\ ResetState(r) \in ContactState
                              /\ ResetState(r).contact = r.contact
                              /\ ResetState(r).body_A = r.body_A
                              /\ ResetState(r).num_count = 0
  BY DEF ResetState, ContactState
<1>4. contact_states' = {ResetState(r) : r \in contact_states}
      /\ solved' = [c \in Contact |-> 0]
  BY DEF BeforePhysicsStep
<1>5. TypeOK'
  BY <1>2, <1>3, <1>4 DEF BeforePhysicsStep, IInv, RecordsAreExact, TypeOK
<1>6. \A r \in contact_states' : /\ r.contact \in Own' /\ r.body_A \notin Excluded
                                 /\ r.num_count <= solved'[r.contact]
  <2> SUFFICES ASSUME NEW r \in contact_states
               PROVE  /\ ResetState(r).contact \in Own'
                      /\ ResetState(r).body_A \notin Excluded
                      /\ ResetState(r).num_count <= solved'[ResetState(r).contact]
    BY <1>4
  <2>1. r.contact \in Contact /\ r.contact \in Own /\ r.body_A \notin Excluded
    BY <1>2 DEF IInv, RecordsAreExact, ContactState
  <2> QED
    BY <1>1, <1>2, <1>3, <1>4, <2>1
<1>7. Loaded' => /\ collisions' = Cardinality(Own')
                 /\ \A c \in Own' : c \cap Excluded = {} =>
                      \E r \in contact_states' : r.contact = c
  BY <1>1, <1>2, <1>3, <1>4 DEF BeforePhysicsStep, IInv, RecordsAreExact
<1>8. Unloaded'
  BY <1>1, <1>4 DEF BeforePhysicsStep, IInv, Unloaded
<1> QED
  BY <1>1, <1>5, <1>6, <1>7, <1>8
  DEF BeforePhysicsStep, IInv, RecordsAreExact, ContactsLive, LatchMeansBegun

LEMMA BeginContactInv ==
  ASSUME ConstantsAssumption, IInv, NEW c \in Contact, BeginContact(c)
  PROVE  IInv'
<1>1. Loaded' = Loaded /\ (FilterContact(c) => Loaded)
  BY DEF BeginContact, Loaded, FilterContact
<1>2. ContactsLive'
  BY DEF BeginContact, IInv, ContactsLive
<1>3. CASE ~FilterContact(c)
  <2>1. Own' = Own
    BY <1>3 DEF BeginContact, Own, FilterContact
  <2> QED
    BY <1>1, <1>2, <1>3, <2>1
    DEF BeginContact, IInv, RecordsAreExact, TypeOK, LatchMeansBegun, Unloaded
<1>4. CASE FilterContact(c)
  <2>1. Own' = Own \cup {c} /\ c \notin Own
    BY <1>4 DEF BeginContact, Own, FilterContact
  <2>2. Cardinality(Own') = Cardinality(Own) + 1
    BY <2>1, OwnIsFinite, FS_AddElement DEF IInv, RecordsAreExact
  <2>3. PICK r \in Recorded(c) :
          contact_states' = IF r.body_A \in Excluded THEN contact_states
                            ELSE contact_states \cup {r}
    BY <1>4 DEF BeginContact
  <2>4. r \in ContactState /\ r.contact = c /\ r.body_A \in c /\ r.num_count = 0
    BY <2>3 DEF Recorded, ContactState, Contact
  <2>5. /\ collisions' = collisions + 1 /\ hit_something' = TRUE
        /\ begun' = begun \cup {c} /\ touching' = touching \cup {c}
        /\ UNCHANGED <<live, stepping, out, solved>>
    BY <1>4 DEF BeginContact
  <2>6. TypeOK'
    BY <2>3, <2>4, <2>5 DEF IInv, RecordsAreExact, TypeOK
  <2>7. \A s \in contact_states' : /\ s.contact \in Own' /\ s.body_A \notin Excluded
                                   /\ s.num_count <= solved'[s.contact]
    BY <2>1, <2>3, <2>4, <2>5 DEF IInv, RecordsAreExact, TypeOK
  <2>8. /\ collisions' = Cardinality(Own')
        /\ \A d \in Own' : d \cap Excluded = {} =>
             \E s \in contact_states' : s.contact = d
    BY <1>1, <1>4, <2>1, <2>2, <2>3, <2>4, <2>5 DEF IInv, RecordsAreExact
  <2> QED
    BY <1>1, <1>2, <1>4, <2>5, <2>6, <2>7, <2>8
    DEF IInv, RecordsAreExact, LatchMeansBegun, Unloaded
<1> QED
  BY <1>3, <1>4

LEMMA EndContactInv ==
  ASSUME ConstantsAssumption, IInv, NEW c \in Contact, EndContact(c)
  PROVE  IInv'
<1>1. Loaded' = Loaded /\ UNCHANGED <<live, hit_something, out, begun>>
  BY DEF EndContact, Loaded
<1>2. RecordsAreExact'
  BY <1>1, EndContactsExact DEF EndContact, IInv, RecordsAreExact, TypeOK
<1>3. ContactsLive' /\ LatchMeansBegun'
  BY <1>1 DEF EndContact, EndContacts, IInv, ContactsLive, LatchMeansBegun
<1>4. Unloaded'
  <2> SUFFICES ASSUME ~Loaded' PROVE collisions' = 0 /\ contact_states' = {}
    BY <1>1 DEF IInv, Unloaded
  <2>1. Told({c}) = {}
    BY <1>1, OwnNeedsCarrier DEF IInv, Told, EndContact, Own
  <2>2. Uncounted({c}) = 0 /\ Kept({c}) = contact_states
    BY <2>1, FS_EmptySet DEF Uncounted, Kept
  <2> QED
    BY <1>1, <2>2 DEF EndContact, EndContacts, IInv, Unloaded
<1> QED
  BY <1>2, <1>3, <1>4 DEF IInv

(* A record counts no more impulses than the contact had in this step.     *)
LEMMA PostSolveInv ==
  ASSUME ConstantsAssumption, IInv, NEW c \in Contact, PostSolve(c)
  PROVE  IInv'
<1> DEFINE Count(r) == IF r.contact = c THEN [r EXCEPT !.num_count = @ + 1] ELSE r
<1>1. Own' = Own /\ Loaded' = Loaded
  BY DEF PostSolve, Own, Loaded, FilterContact
<1>2. \A r \in contact_states : r \in ContactState
  BY DEF IInv, RecordsAreExact, TypeOK
<1>3. /\ contact_states' = {Count(r) : r \in contact_states}
      /\ solved' = [solved EXCEPT ![c] = @ + 1] /\ solved \in [Contact -> Nat]
  BY DEF PostSolve, IInv, RecordsAreExact, TypeOK
<1>4. \A r \in ContactState :
        /\ Count(r) \in ContactState
        /\ Count(r).contact = r.contact /\ Count(r).body_A = r.body_A
        /\ Count(r).num_count = IF r.contact = c THEN r.num_count + 1 ELSE r.num_count
  BY DEF ContactState
<1> HIDE DEF Count
<1>5. TypeOK'
  BY <1>2, <1>3, <1>4 DEF PostSolve, IInv, RecordsAreExact, TypeOK
<1>6. \A r \in contact_states' : /\ r.contact \in Own' /\ r.body_A \notin Excluded
                                 /\ r.num_count <= solved'[r.contact]
  <2> SUFFICES ASSUME NEW r \in contact_states
               PROVE  /\ Count(r).contact \in Own' /\ Count(r).body_A \notin Excluded
                      /\ Count(r).num_count <= solved'[Count(r).contact]
    BY <1>3
  <2>1. /\ r.contact \in Contact /\ r.num_count \in Nat
        /\ r.contact \in Own /\ r.body_A \notin Excluded
        /\ r.num_count <= solved[r.contact]
    BY <1>2 DEF IInv, RecordsAreExact, ContactState
  <2> QED
    BY <1>1, <1>2, <1>3, <1>4, <2>1
<1>7. Loaded' => /\ collisions' = Cardinality(Own')
                 /\ \A d \in Own' : d \cap Excluded = {} =>
                      \E r \in contact_states' : r.contact = d
  BY <1>1, <1>2, <1>3, <1>4 DEF PostSolve, IInv, RecordsAreExact
<1>8. Unloaded'
  BY <1>1, <1>3 DEF PostSolve, IInv, Unloaded
<1> QED
  BY <1>1, <1>5, <1>6, <1>7, <1>8
  DEF PostSolve, IInv, RecordsAreExact, ContactsLive, LatchMeansBegun

LEMMA AfterPhysicsStepInv ==
  ASSUME ConstantsAssumption, IInv, NEW due \in BOOLEAN, AfterPhysicsStep(due)
  PROVE  IInv'
<1>1. /\ Own' = Own /\ Loaded' = Loaded
      /\ UNCHANGED <<live, touching, collisions, contact_states, solved>>
  BY DEF AfterPhysicsStep, Own, Loaded, FilterContact
<1>2. CASE due /\ Loaded
  <2>1. /\ out' \in BOOLEAN /\ hit_something' = FALSE /\ begun' = {}
        /\ stepping' = FALSE
    BY <1>2 DEF AfterPhysicsStep, Publish, Reading, IInv, RecordsAreExact, TypeOK
  <2> QED
    BY <1>1, <1>2, <2>1
    DEF IInv, RecordsAreExact, TypeOK, ContactsLive, LatchMeansBegun, Unloaded
<1>3. CASE ~(due /\ Loaded)
  BY <1>1, <1>3 DEF AfterPhysicsStep, IInv, RecordsAreExact, TypeOK, ContactsLive,
                    LatchMeansBegun, Unloaded
<1> QED
  BY <1>2, <1>3

LEMMA SpawnInv ==
  ASSUME ConstantsAssumption, IInv, NEW m \in Model, ModelSpawned(m)
  PROVE  IInv'
<1>1. Own' = Own /\ (Loaded => Loaded')
  BY DEF ModelSpawned, Own, Loaded, FilterContact
<1>2. ~Loaded => Own = {} /\ Cardinality(Own) = 0
  BY OwnNeedsCarrier, FS_EmptySet DEF IInv
<1> QED
  BY <1>1, <1>2 DEF ModelSpawned, IInv, RecordsAreExact, TypeOK, ContactsLive,
                    LatchMeansBegun, Unloaded

LEMMA DeleteInv ==
  ASSUME ConstantsAssumption, IInv, NEW m \in Model, ModelDeleted(m)
  PROVE  IInv'
<1>1. m \in live /\ live' = live \ {m} /\ UNCHANGED <<stepping, solved>>
  BY DEF ModelDeleted
<1>2. CASE m = Carrier
  <2>1. ~Loaded' /\ touching' = {c \in touching : ~FilterContact(c)}
    BY <1>1, <1>2 DEF ModelDeleted, Loaded
  <2>2. ContactsLive'
    BY <1>1, <1>2, <2>1 DEF IInv, ContactsLive, FilterContact
  <2>3. /\ collisions' = 0 /\ hit_something' = FALSE /\ out' = FALSE
        /\ contact_states' = {} /\ begun' = {}
    BY <1>2 DEF ModelDeleted
  <2>4. TypeOK'
    BY <1>1, <2>1, <2>3 DEF IInv, RecordsAreExact, TypeOK
  <2> QED
    BY <2>1, <2>2, <2>3, <2>4 DEF IInv, RecordsAreExact, LatchMeansBegun, Unloaded
<1>3. CASE m # Carrier
  <2> DEFINE ended == {c \in touching : \E b \in c : ModelOf[b] = m}
  <2>1. EndContacts(ended) /\ UNCHANGED <<hit_something, out, begun>>
    BY <1>3 DEF ModelDeleted
  <2>2. Loaded' = Loaded
    BY <1>1, <1>3 DEF Loaded
  <2>3. RecordsAreExact'
    <3>1. /\ live' \subseteq Model /\ hit_something' \in BOOLEAN /\ out' \in BOOLEAN
          /\ begun' \subseteq Contact
      BY <1>1, <2>1 DEF IInv, RecordsAreExact, TypeOK
    <3> HIDE DEF ended
    <3>2. ended \in SUBSET touching
      BY DEF ended
    <3> QED
      BY <1>1, <2>1, <2>2, <3>1, <3>2, EndContactsExact
  <2>4. ContactsLive'
    BY <1>1, <2>1 DEF EndContacts, IInv, ContactsLive
  <2>5. LatchMeansBegun'
    BY <2>1, <2>2 DEF IInv, LatchMeansBegun
  <2>6. Unloaded'
    <3> SUFFICES ASSUME ~Loaded' PROVE collisions' = 0 /\ contact_states' = {}
      BY <2>1, <2>2 DEF IInv, Unloaded
    <3>1. Told(ended) = {}
      BY <2>2, OwnNeedsCarrier DEF IInv, Told, Own
    <3> HIDE DEF ended
    <3>2. Uncounted(ended) = 0 /\ Kept(ended) = contact_states
      BY <3>1, FS_EmptySet DEF Uncounted, Kept
    <3> QED
      BY <2>1, <2>2, <3>2 DEF EndContacts, IInv, Unloaded
  <2> QED
    BY <2>3, <2>4, <2>5, <2>6 DEF IInv
<1> QED
  BY <1>2, <1>3

LEMMA NextInv == ConstantsAssumption /\ IInv /\ [Next]_vars => IInv'
<1> SUFFICES ASSUME ConstantsAssumption, IInv, [Next]_vars PROVE IInv'
  OBVIOUS
<1>1. CASE UNCHANGED vars
  BY <1>1 DEF vars, IInv, RecordsAreExact, TypeOK, ContactsLive, LatchMeansBegun,
              Unloaded, Own, Loaded, FilterContact
<1>2. CASE Next
  BY <1>2, BeforePhysicsStepInv, BeginContactInv, EndContactInv, PostSolveInv,
     AfterPhysicsStepInv, SpawnInv, DeleteInv DEF Next
<1> QED
  BY <1>1, <1>2

(* The counter of the BoolSensor and the records of the Bumper are those   *)
(* of Box2D's contact list, however contacts begin and end and models come *)
(* and go (BeginContact, EndContact, PostSolve, ~World's DeleteModel).     *)
THEOREM RecordsFollowContacts ==
  ASSUME ConstantsAssumption
  PROVE  Spec => []RecordsAreExact
<1>1. IInv => RecordsAreExact
  BY DEF IInv
<1> QED
  BY <1>1, InitInv, NextInv, PTL DEF Spec

-----------------------------------------------------------------------------
(***************************************************************************)
(* The BoolSensor implements Detector.                                     *)
(***************************************************************************)

(* What is published is whether a contact exists, or began since.          *)
LEMMA ReadingIsTrue ==
  ASSUME ConstantsAssumption, IInv, Loaded
  PROVE  Reading <=> Own \cup begun # {}
<1>1. Cardinality(Own) \in Nat /\ (Cardinality(Own) = 0 <=> Own = {})
  BY OwnIsFinite, FS_EmptySet DEF IInv, RecordsAreExact
<1>2. collisions > 0 <=> Own # {}
  BY <1>1 DEF IInv, RecordsAreExact
<1> QED
  BY <1>2 DEF Reading, IInv, LatchMeansBegun

LEMMA DetectorStep ==
  ASSUME ConstantsAssumption, IInv, [Next]_vars
  PROVE  [OfModel!Next]_(OfModel!vars)
<1> USE DEF OfModel!Next, OfModel!vars
<1>1. ASSUME NEW c \in Contact, BeginContact(c)
      PROVE  OfModel!Begin \/ UNCHANGED OfModel!vars
  <2>1. Loaded' = Loaded /\ out' = out
    BY <1>1 DEF BeginContact, Loaded
  <2>2. CASE FilterContact(c)
    <3>1. c \notin Own /\ Own' = Own \cup {c} /\ begun' = begun \cup {c}
      BY <1>1, <2>2 DEF BeginContact, Own, FilterContact
    <3> QED
      BY <2>1, <3>1 DEF OfModel!Begin
  <2>3. CASE ~FilterContact(c)
    <3>1. Own' = Own /\ begun' = begun
      BY <1>1, <2>3 DEF BeginContact, Own, FilterContact
    <3> QED
      BY <2>1, <3>1
  <2> QED
    BY <2>2, <2>3
<1>2. ASSUME NEW c \in Contact, EndContact(c) PROVE OfModel!End
  BY <1>2 DEF EndContact, EndContacts, Loaded, Own, FilterContact, OfModel!End
<1>3. ASSUME NEW c \in Contact, PostSolve(c) PROVE UNCHANGED OfModel!vars
  BY <1>3 DEF PostSolve, Loaded, Own, FilterContact
<1>4. CASE BeforePhysicsStep
  BY <1>4 DEF BeforePhysicsStep, Loaded, Own, FilterContact
<1>5. ASSUME NEW due \in BOOLEAN, AfterPhysicsStep(due)
      PROVE  OfModel!Publish \/ UNCHANGED OfModel!vars
  <2>1. Own' = Own /\ Loaded' = Loaded
    BY <1>5 DEF AfterPhysicsStep, Own, Loaded, FilterContact
  <2>2. CASE due /\ Loaded
    <3>1. out' = Reading /\ begun' = {} /\ Reading \in BOOLEAN
      BY <1>5, <2>2 DEF AfterPhysicsStep, Publish, Reading, IInv, RecordsAreExact, TypeOK
    <3>2. out' = (Own \cup begun # {})
      BY <3>1, <2>2, ReadingIsTrue, Zenon
    <3> QED
      BY <2>1, <3>1, <3>2 DEF OfModel!Publish
  <2>3. CASE ~(due /\ Loaded)
    BY <1>5, <2>1, <2>3 DEF AfterPhysicsStep
  <2> QED
    BY <2>2, <2>3
<1>6. ASSUME NEW m \in Model, ModelSpawned(m) PROVE OfModel!Load \/ UNCHANGED OfModel!vars
  <2>1. Own' = Own /\ UNCHANGED <<begun, out>>
    BY <1>6 DEF ModelSpawned, Own, FilterContact
  <2>2. CASE m = Carrier
    <3>1. ~Loaded /\ Loaded' = TRUE
      BY <1>6, <2>2 DEF ModelSpawned, Loaded
    <3> QED
      BY <2>1, <3>1 DEF OfModel!Load
  <2>3. CASE m # Carrier
    <3>1. Loaded' = Loaded
      BY <1>6, <2>3 DEF ModelSpawned, Loaded
    <3> QED
      BY <2>1, <3>1
  <2> QED
    BY <2>2, <2>3
<1>7. ASSUME NEW m \in Model, ModelDeleted(m) PROVE OfModel!Unload \/ OfModel!End
  <2>1. CASE m = Carrier
    <3>1. Loaded /\ Loaded' = FALSE /\ begun' = {} /\ out' = FALSE
      BY <1>7, <2>1 DEF ModelDeleted, Loaded
    <3>2. Own' = {}
      BY <1>7, <2>1 DEF ModelDeleted, Own, FilterContact
    <3> QED
      BY <3>1, <3>2 DEF OfModel!Unload
  <2>2. CASE m # Carrier
    <3>1. Loaded' = Loaded /\ UNCHANGED <<begun, out>>
      BY <1>7, <2>2 DEF ModelDeleted, Loaded
    <3>2. Own' \subseteq Own
      BY <1>7, <2>2 DEF ModelDeleted, EndContacts, Own, FilterContact
    <3> QED
      BY <3>1, <3>2 DEF OfModel!End
  <2> QED
    BY <2>1, <2>2
<1>8. CASE UNCHANGED vars
  BY <1>8 DEF vars, Loaded, Own, FilterContact
<1> QED
  BY <1>1, <1>2, <1>3, <1>4, <1>5, <1>6, <1>7, <1>8 DEF Next

(* The sensor publishes true if its model touches something or touched it  *)
(* since the last publication, false otherwise (BoolSensor).               *)
THEOREM SensorReportsContacts ==
  ASSUME ConstantsAssumption
  PROVE  Spec => SensesModel
<1>1. ConstantsAssumption /\ Init => OfModel!Init
  BY DEF Init, OfModel!Init, Own, Loaded, ConstantsAssumption
<1> QED
  BY <1>1, InitInv, NextInv, DetectorStep, PTL DEF Spec, SensesModel, OfModel!Spec
=============================================================================
