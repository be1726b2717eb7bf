-------------------------- MODULE WorldPartsProofs --------------------------
(***************************************************************************)
(* Proofs about what is put into the b2World and moved there: a model is   *)
(* loaded as its files say or not at all, a moved model keeps its shape,   *)
(* the walls a plugin adds close, and the terrain acts only where it       *)
(* should - for any files, poses, walls and patches.                       *)
(***************************************************************************)
EXTENDS Loading, Walls, ModelPoses, Terrain, FiniteSetTheorems, WellFoundedInduction,
        TLAPS

(***************************************************************************)
(* Products of whole numbers                                               *)
(***************************************************************************)

LEMMA ProductBounds ==
  ASSUME NEW a \in Int, NEW b \in Int, NEW c \in Int, 0 <= c, a <= b
  PROVE  a * c \in Int /\ b * c \in Int /\ a * c <= b * c
<1>1. b - a \in Nat /\ c \in Nat
  OBVIOUS
<1>2. \A d, e \in Nat : d * e \in Nat
  OBVIOUS
<1>3. (b - a) * c \in Nat
  BY <1>1, <1>2
<1>4. (b - a) * c = b * c - a * c
  OBVIOUS
<1>5. a * c \in Int /\ b * c \in Int
  OBVIOUS
<1> QED
  BY <1>3, <1>4, <1>5

(***************************************************************************)
(* Loading                                                                 *)
(***************************************************************************)

Fixture == [category : SUBSET LayerNames, mask : SUBSET LayerNames]
BodyName == {e.name : e \in BodyEntry}
IsFunction(f) == f = [x \in DOMAIN f |-> f[x]]

LoadTypeOK ==
  /\ stage \in {"layers", "up", "bodies", "joints", "loaded", "failed", "refused", "aborted"}
  /\ told \in [bodies : Seq(BodyEntry), joints : Seq(JointEntry), read : Nat]
  /\ making \in Seq([entry : BodyEntry, body : Nat, done : Nat]) /\ Len(making) <= 1
  /\ model \in Seq([name : BodyName, body : Nat])
  /\ IsFunction(fixtures)

(* A world of layers                                                       *)
IsGround(world) ==
  /\ IsFunction(world)
  /\ IsFiniteSet(DOMAIN world) /\ Cardinality(DOMAIN world) <= MaxLayers
LayersOnly ==
  /\ stage = "layers" => IsGround(fixtures) /\ links = {}
  /\ stage \in {"up", "failed", "bodies", "joints", "loaded"} =>
       IsGround(before.fixtures) /\ before.links = {}
  /\ stage \in {"up", "failed"} => fixtures = before.fixtures /\ links = {}

InTheMaking == stage \in {"bodies", "joints", "loaded"}

(* The b2World is that of the layers and what the model has of it.         *)
AddsToLayers ==
  /\ DOMAIN fixtures = DOMAIN before.fixtures \cup Mine \cup AlsoMine
  /\ (Mine \cup AlsoMine) \cap DOMAIN before.fixtures = {}
  /\ \A b \in DOMAIN before.fixtures : fixtures[b] = before.fixtures[b]
  /\ Mine \cap AlsoMine = {}

(* The model is as its file says, as far as it was read.                   *)
IsPrinted(f) == f \in Seq(Fixture) /\ \A k \in DOMAIN f : f[k].mask \subseteq f[k].category
Built ==
  \A i \in DOMAIN model :
    /\ model[i].name = told.bodies[i].name
    /\ IsPrinted(fixtures[model[i].body])
    /\ Len(fixtures[model[i].body]) = Len(told.bodies[i].prints)
    /\ \A j \in DOMAIN model :
         j # i => model[j].name # model[i].name /\ model[j].body # model[i].body
Building ==
  making # <<>> =>
    LET m == making[1]
    IN  /\ m.entry = told.bodies[Len(told.bodies)]
        /\ IsPrinted(fixtures[m.body])
        /\ Len(fixtures[m.body]) = m.done /\ m.done <= Len(m.entry.prints)
Follows == Len(told.bodies) = Len(model) + Len(making) /\ Built /\ Building

Joined ==
  /\ IsFiniteSet(links) /\ Cardinality(links) = Len(told.joints)
  /\ \A l \in links : Range(l.ends) # {} /\ Range(l.ends) \subseteq Mine
  /\ stage = "bodies" => links = {}
  /\ stage # "bodies" => making = <<>>

(* There is an address for another body.                                   *)
RoomLeft ==
  /\ stage = "bodies" => /\ IsFiniteSet(DOMAIN fixtures) /\ told.read <= MaxBodies
                         /\ Cardinality(DOMAIN fixtures) <= MaxLayers + told.read

LoadInv ==
  /\ LoadTypeOK /\ LayersOnly
  /\ InTheMaking => AddsToLayers /\ Follows /\ Joined /\ RoomLeft

(* b2World::CreateBody finds an address.                                   *)
LEMMA FreshBodyIs ==
  ASSUME LoadAssumption, IsFiniteSet(DOMAIN fixtures),
         Cardinality(DOMAIN fixtures) <= MaxLayers + MaxBodies
  PROVE  FreshBody \in Nat /\ FreshBody \notin DOMAIN fixtures
<1> DEFINE S == 1 .. 1 + MaxLayers + MaxBodies
<1>1. 1 + MaxLayers + MaxBodies \in Nat /\ MaxLayers + MaxBodies \in Nat
  BY DEF LoadAssumption
<1>2. Cardinality(S) = 1 + MaxLayers + MaxBodies
  <2>1. \A n \in Nat : n > 0 => 1 <= n /\ n - 1 + 1 = n
    OBVIOUS
  <2> QED
    BY <1>1, FS_Interval DEF LoadAssumption
<1>3. ~(S \subseteq DOMAIN fixtures)
  <2> SUFFICES ASSUME S \subseteq DOMAIN fixtures PROVE FALSE
    OBVIOUS
  <2>1. Cardinality(S) <= Cardinality(DOMAIN fixtures)
    BY FS_Subset
  <2>2. Cardinality(DOMAIN fixtures) \in Nat
    BY FS_CardinalityType
  <2> QED
    BY <1>2, <2>1, <2>2 DEF LoadAssumption
<1>4. \E b \in S : b \notin DOMAIN fixtures
  BY <1>3
<1>5. FreshBody \in S /\ FreshBody \notin DOMAIN fixtures
  BY <1>4 DEF FreshBody
<1> QED
  BY <1>5

(* A world with one more body                                              *)
LEMMA WithIs ==
  ASSUME IsFiniteSet(DOMAIN fixtures), NEW b, NEW shapes
  PROVE  /\ IsFunction(With(b, shapes))
         /\ DOMAIN With(b, shapes) = DOMAIN fixtures \cup {b}
         /\ With(b, shapes)[b] = shapes
         /\ \A x \in DOMAIN fixtures \ {b} : With(b, shapes)[x] = fixtures[x]
         /\ IsFiniteSet(DOMAIN With(b, shapes))
         /\ Cardinality(DOMAIN With(b, shapes)) <= Cardinality(DOMAIN fixtures) + 1
<1>1. DOMAIN With(b, shapes) = DOMAIN fixtures \cup {b}
  BY DEF With
<1>2. IsFunction(With(b, shapes))
  BY DEF With, IsFunction
<1>3. /\ IsFiniteSet(DOMAIN fixtures \cup {b})
      /\ Cardinality(DOMAIN fixtures \cup {b}) <= Cardinality(DOMAIN fixtures) + 1
  BY FS_AddElement, FS_CardinalityType
<1>4. /\ With(b, shapes)[b] = shapes
      /\ \A x \in DOMAIN fixtures \ {b} : With(b, shapes)[x] = fixtures[x]
  BY DEF With
<1> QED
  BY <1>1, <1>2, <1>3, <1>4

(* Deleting what the model has leaves the world of the layers.             *)
LEMMA DeletionRestores ==
  ASSUME LoadAssumption, LoadInv, InTheMaking, NEW next, next \in {"failed", "up"},
         DeleteModel(Mine \cup AlsoMine, next)
  PROVE  LoadInv'
<1>1. /\ stage' = next /\ model' = <<>> /\ making' = <<>>
      /\ told' = told /\ before' = before
      /\ fixtures' = Remaining(Mine \cup AlsoMine)
      /\ links' = UnloadedLinks(Mine \cup AlsoMine)
  BY DEF DeleteModel
<1>2. Remaining(Mine \cup AlsoMine) = before.fixtures
  <2>1. DOMAIN fixtures \ (Mine \cup AlsoMine) = DOMAIN before.fixtures
    BY DEF LoadInv, AddsToLayers
  <2>2. Remaining(Mine \cup AlsoMine) = [x \in DOMAIN before.fixtures |-> fixtures[x]]
    BY <2>1 DEF Remaining
  <2>3. before.fixtures = [x \in DOMAIN before.fixtures |-> before.fixtures[x]]
    BY DEF LoadInv, LayersOnly, IsGround, IsFunction, InTheMaking
  <2>4. \A x \in DOMAIN before.fixtures : fixtures[x] = before.fixtures[x]
    BY DEF LoadInv, AddsToLayers
  <2> QED
    BY <2>2, <2>3, <2>4
<1>3. UnloadedLinks(Mine \cup AlsoMine) = {}
  <2>1. \A l \in links : Range(l.ends) \cap (Mine \cup AlsoMine) # {}
    BY DEF LoadInv, Joined
  <2> QED
    BY <2>1 DEF UnloadedLinks
<1>4. IsGround(before.fixtures) /\ before.links = {}
  BY DEF LoadInv, LayersOnly, InTheMaking
<1>5. LoadTypeOK'
  <2>1. IsFunction(before.fixtures)
    BY <1>4 DEF IsGround
  <2> QED
    BY <1>1, <1>2, <2>1 DEF LoadInv, LoadTypeOK
<1>6. LayersOnly'
  BY <1>1, <1>2, <1>3, <1>4 DEF LayersOnly
<1>7. ~InTheMaking'
  BY <1>1 DEF InTheMaking
<1> QED
  BY <1>5, <1>6, <1>7 DEF LoadInv

LEMMA ThrowRestores ==
  ASSUME LoadAssumption, LoadInv, InTheMaking, Throw
  PROVE  LoadInv'
BY DeletionRestores DEF Throw

LEMMA LoadLayerInv ==
  ASSUME LoadAssumption, LoadInv, NEW e \in LayerEntry, LoadLayer(e)
  PROVE  LoadInv'
<1>1. /\ stage = "layers" /\ stage' \in {"layers", "refused", "aborted"}
      /\ IsGround(fixtures) /\ links = {}
      /\ links' = links /\ model' = model /\ making' = making /\ told' = told
  BY DEF LoadLayer, LoadInv, LayersOnly
<1>2. /\ IsFunction(fixtures')
      /\ stage' = "layers" => IsGround(fixtures')
  <2>1. CASE LayerThrows(e) \/ LoopAsserts(e)
    <3>1. stage' # "layers" /\ (fixtures' = <<>> \/ fixtures' = fixtures)
      BY <2>1 DEF LoadLayer
    <3>2. IsFunction(<<>>)
      BY DEF IsFunction
    <3> QED
      BY <1>1, <3>1, <3>2 DEF IsGround
  <2>2. CASE ~LayerThrows(e) /\ ~LoopAsserts(e) /\ e.type = "none"
    BY <1>1, <2>2 DEF LoadLayer, IsGround
  <2>3. CASE ~LayerThrows(e) /\ ~LoopAsserts(e) /\ e.type # "none"
    <3> DEFINE world == With(FreshBody, Shapes(e))
    <3>1. fixtures' = world /\ Cardinality(DOMAIN fixtures) < MaxLayers
      BY <2>3 DEF LoadLayer
    <3>2. IsFiniteSet(DOMAIN fixtures) /\ Cardinality(DOMAIN fixtures) \in Nat
      BY <1>1, FS_CardinalityType DEF IsGround
    <3>3. /\ IsFunction(world) /\ IsFiniteSet(DOMAIN world)
          /\ Cardinality(DOMAIN world) <= Cardinality(DOMAIN fixtures) + 1
      BY <3>2, WithIs
    <3>4. Cardinality(DOMAIN world) \in Nat
      BY <3>3, FS_CardinalityType
    <3> HIDE DEF world
    <3>5. Cardinality(DOMAIN world) <= MaxLayers
      BY <3>1, <3>2, <3>3, <3>4 DEF LoadAssumption
    <3> QED
      BY <3>1, <3>3, <3>5 DEF IsGround
  <2> QED
    BY <2>1, <2>2, <2>3
<1>3. LoadTypeOK'
  BY <1>1, <1>2 DEF LoadInv, LoadTypeOK
<1>4. LayersOnly' /\ ~InTheMaking'
  BY <1>1, <1>2 DEF LayersOnly, InTheMaking
<1> QED
  BY <1>3, <1>4 DEF LoadInv

LEMMA LayersLoadedInv ==
  ASSUME LoadAssumption, LoadInv, LayersLoaded
  PROVE  LoadInv'
<1>1. /\ stage = "layers" /\ stage' = "up" /\ fixtures' = fixtures /\ links' = links
      /\ before' = [fixtures |-> fixtures, links |-> links]
      /\ model' = model /\ making' = making /\ told' = told
  BY DEF LayersLoaded
<1>2. before'.fixtures = fixtures /\ before'.links = links
  BY <1>1
<1> QED
  BY <1>1, <1>2 DEF LoadInv, LoadTypeOK, LayersOnly, InTheMaking

LEMMA StartModelInv ==
  ASSUME LoadAssumption, LoadInv, StartModel
  PROVE  LoadInv'
<1>1. /\ stage = "up" /\ stage' = "bodies" /\ fixtures' = fixtures /\ links' = links
      /\ before' = [fixtures |-> fixtures, links |-> links]
      /\ model' = <<>> /\ making' = <<>>
      /\ told' = [bodies |-> <<>>, joints |-> <<>>, read |-> 0]
  BY DEF StartModel
<1>2. /\ before'.fixtures = fixtures /\ before'.links = links
      /\ told'.bodies = <<>> /\ told'.joints = <<>> /\ told'.read = 0
  BY <1>1
<1>3. IsGround(fixtures) /\ links = {}
  BY <1>1 DEF LoadInv, LayersOnly
<1>4. LoadTypeOK'
  BY <1>1 DEF LoadInv, LoadTypeOK
<1>5. LayersOnly'
  BY <1>1, <1>2, <1>3 DEF LayersOnly
<1>6. Mine' = {} /\ AlsoMine' = {}
  BY <1>1 DEF Mine, AlsoMine
<1>7. AddsToLayers'
  BY <1>1, <1>2, <1>6 DEF AddsToLayers
<1>8. Follows'
  BY <1>1, <1>2 DEF Follows, Built, Building
<1>9. Joined'
  BY <1>1, <1>2, <1>3, FS_EmptySet DEF Joined
<1>10. RoomLeft'
  BY <1>1, <1>2, <1>3 DEF RoomLeft, IsGround, LoadAssumption
<1> QED
  BY <1>4, <1>5, <1>7, <1>8, <1>9, <1>10 DEF LoadInv

(* What is told when an entry has been read                                *)
LEMMA ToldIs ==
  ASSUME LoadTypeOK
  PROVE  /\ [told EXCEPT !.read = @ + 1]
              = [bodies |-> told.bodies, joints |-> told.joints, read |-> told.read + 1]
         /\ \A e \in BodyEntry : [told EXCEPT !.bodies = Append(@, e), !.read = @ + 1]
              = [bodies |-> Append(told.bodies, e), joints |-> told.joints,
                 read |-> told.read + 1]
         /\ \A e \in JointEntry : [told EXCEPT !.joints = Append(@, e), !.read = @ + 1]
              = [bodies |-> told.bodies, joints |-> Append(told.joints, e),
                 read |-> told.read + 1]
         /\ [told EXCEPT !.read = 0]
              = [bodies |-> told.bodies, joints |-> told.joints, read |-> 0]
<1>1. told = [bodies |-> told.bodies, joints |-> told.joints, read |-> told.read]
  BY DEF LoadTypeOK
<1>2. \A r : [told EXCEPT !.read = r]
             = [bodies |-> told.bodies, joints |-> told.joints, read |-> r]
  BY <1>1
<1>3. \A s : [told EXCEPT !.bodies = s]
             = [bodies |-> s, joints |-> told.joints, read |-> told.read]
  BY <1>1
<1>4. \A s : [told EXCEPT !.joints = s]
             = [bodies |-> told.bodies, joints |-> s, read |-> told.read]
  BY <1>1
<1>5. ASSUME NEW e \in BodyEntry
      PROVE  [told EXCEPT !.bodies = Append(@, e), !.read = @ + 1]
              = [bodies |-> Append(told.bodies, e), joints |-> told.joints,
                 read |-> told.read + 1]
  <2>1. [told EXCEPT !.bodies = Append(@, e), !.read = @ + 1]
          = [[told EXCEPT !.bodies = Append(told.bodies, e)] EXCEPT !.read = @ + 1]
    OBVIOUS
  <2>2. [told EXCEPT !.bodies = Append(told.bodies, e)]
             = [bodies |-> Append(told.bodies, e), joints |-> told.joints,
                 read |-> told.read]
    BY <1>3
  <2>3. [[bodies |-> Append(told.bodies, e), joints |-> told.joints,
                 read |-> told.read]
           EXCEPT !.read = @ + 1]
             = [bodies |-> Append(told.bodies, e), joints |-> told.joints,
                 read |-> told.read + 1]
    OBVIOUS
  <2> QED
    BY <2>1, <2>2, <2>3
<1>6. ASSUME NEW e \in JointEntry
      PROVE  [told EXCEPT !.joints = Append(@, e), !.read = @ + 1]
              = [bodies |-> told.bodies, joints |-> Append(told.joints, e),
                 read |-> told.read + 1]
  <2> DEFINE more == Append(told.joints, e)
             told1 == [bodies |-> told.bodies, joints |-> more, read |-> told.read]
  <2>1. [told EXCEPT !.joints = Append(@, e), !.read = @ + 1]
          = [[told EXCEPT !.joints = more] EXCEPT !.read = @ + 1]
    OBVIOUS
  <2> HIDE DEF more
  <2>2. [told EXCEPT !.joints = more] = told1
    BY <1>3, <1>4
  <2>3. [told1 EXCEPT !.read = @ + 1]
          = [bodies |-> told.bodies, joints |-> more, read |-> told.read + 1]
    OBVIOUS
  <2> QED
    BY <2>1, <2>2, <2>3 DEF more
<1> QED
  BY <1>2, <1>5, <1>6

LEMMA ReadBodyInv ==
  ASSUME LoadAssumption, LoadInv, NEW e \in BodyEntry, ReadBody(e)
  PROVE  LoadInv'
<1>1. /\ stage = "bodies" /\ making = <<>> /\ told.read < MaxBodies
      /\ stage' = stage /\ links' = links /\ model' = model /\ before' = before
  BY DEF ReadBody
<1>2. /\ LoadTypeOK /\ LayersOnly /\ AddsToLayers /\ Follows /\ Joined /\ RoomLeft
      /\ MaxLayers \in Nat /\ MaxBodies \in Nat /\ told.read \in Nat
  BY <1>1 DEF LoadInv, InTheMaking, LoadAssumption, LoadTypeOK
<1>3. Mine' = Mine /\ AlsoMine = {}
  BY <1>1 DEF Mine, AlsoMine
<1>4. CASE ~e.enabled
  <2>1. /\ told' = [told EXCEPT !.read = @ + 1] /\ fixtures' = fixtures /\ making' = making
    BY <1>4 DEF ReadBody
  <2>2. /\ told'.bodies = told.bodies /\ told'.joints = told.joints
        /\ told'.read = told.read + 1
        /\ told' \in [bodies : Seq(BodyEntry), joints : Seq(JointEntry), read : Nat]
    <3>1. told' = [bodies |-> told.bodies, joints |-> told.joints, read |-> told.read + 1]
      BY <1>2, <2>1, ToldIs
    <3> QED
      BY <1>2, <3>1 DEF LoadTypeOK
  <2>3. LoadTypeOK' /\ LayersOnly'
    BY <1>1, <1>2, <2>1, <2>2 DEF LoadTypeOK, LayersOnly
  <2>4. AddsToLayers'
    BY <1>1, <1>2, <1>3, <2>1 DEF AddsToLayers, AlsoMine
  <2>5. Follows'
    BY <1>1, <1>2, <2>1, <2>2 DEF Follows, Built, Building
  <2>6. Joined'
    BY <1>1, <1>2, <1>3, <2>1, <2>2 DEF Joined
  <2>7. RoomLeft'
    <3>1. IsFiniteSet(DOMAIN fixtures) /\ Cardinality(DOMAIN fixtures) \in Nat
      BY <1>1, <1>2, FS_CardinalityType DEF RoomLeft
    <3> QED
      BY <1>1, <1>2, <2>1, <2>2, <3>1 DEF RoomLeft
  <2> QED
    BY <2>3, <2>4, <2>5, <2>6, <2>7 DEF LoadInv
<1>5. CASE e.enabled
  <2> DEFINE b == FreshBody
             world == With(b, <<>>)
             m == [entry |-> e, body |-> b, done |-> 0]
  <2>1. /\ told' = [told EXCEPT !.bodies = Append(@, e), !.read = @ + 1]
        /\ fixtures' = world /\ making' = <<m>>
    BY <1>5 DEF ReadBody
  <2>2. /\ told'.bodies = Append(told.bodies, e) /\ told'.joints = told.joints
        /\ told'.read = told.read + 1
        /\ told' \in [bodies : Seq(BodyEntry), joints : Seq(JointEntry), read : Nat]
    <3>1. told' = [bodies |-> Append(told.bodies, e), joints |-> told.joints,
                   read |-> told.read + 1]
      BY <1>2, <2>1, ToldIs
    <3> QED
      BY <1>2, <3>1 DEF LoadTypeOK
  <2>3. /\ IsFiniteSet(DOMAIN fixtures) /\ Cardinality(DOMAIN fixtures) \in Nat
        /\ Cardinality(DOMAIN fixtures) <= MaxLayers + told.read
    BY <1>1, <1>2, FS_CardinalityType DEF RoomLeft
  <2>4. b \in Nat /\ b \notin DOMAIN fixtures
    <3>1. Cardinality(DOMAIN fixtures) <= MaxLayers + MaxBodies
      BY <1>1, <1>2, <2>3
    <3> QED
      BY <2>3, <3>1, FreshBodyIs
  <2> HIDE DEF b
  <2>5. /\ IsFunction(world) /\ DOMAIN world = DOMAIN fixtures \cup {b}
        /\ world[b] = <<>>
        /\ \A x \in DOMAIN fixtures : world[x] = fixtures[x]
        /\ IsFiniteSet(DOMAIN world)
        /\ Cardinality(DOMAIN world) <= Cardinality(DOMAIN fixtures) + 1
    <3>1. /\ DOMAIN world = DOMAIN fixtures \cup {b} /\ world[b] = <<>>
          /\ \A x \in DOMAIN fixtures : world[x] = fixtures[x]
      BY <2>4 DEF With
    <3>2. /\ IsFunction(world) /\ IsFiniteSet(DOMAIN world)
          /\ Cardinality(DOMAIN world) <= Cardinality(DOMAIN fixtures) + 1
      BY <2>3, WithIs
    <3> HIDE DEF world
    <3> QED
      BY <3>1, <3>2
  <2> HIDE DEF world
  <2>6. LoadTypeOK'
    <3>1. m \in [entry : BodyEntry, body : Nat, done : Nat]
      BY <2>4
    <3> HIDE DEF m
    <3>2. making' \in Seq([entry : BodyEntry, body : Nat, done : Nat]) /\ Len(making') = 1
      BY <2>1, <3>1
    <3> QED
      BY <1>1, <1>2, <2>1, <2>2, <2>5, <3>2 DEF LoadTypeOK
  <2>7. LayersOnly'
    BY <1>1, <1>2 DEF LayersOnly
  <2>8. AlsoMine' = {b} /\ making'[1] = m /\ Len(making') = 1 /\ making' # <<>>
    BY <2>1 DEF AlsoMine
  <2>9. AddsToLayers'
    BY <1>1, <1>2, <1>3, <2>1, <2>4, <2>5, <2>8 DEF AddsToLayers
  <2>10. /\ Len(told'.bodies) = Len(told.bodies) + 1
         /\ told'.bodies[Len(told.bodies) + 1] = e
         /\ \A i \in 1 .. Len(told.bodies) : told'.bodies[i] = told.bodies[i]
         /\ Len(told.bodies) = Len(model) /\ DOMAIN model = 1 .. Len(model)
          /\ Len(model) \in Nat
    BY <1>1, <1>2, <2>2 DEF LoadTypeOK, Follows
  <2>11. Built'
    <3>1. \A i \in DOMAIN model : fixtures'[model[i].body] = fixtures[model[i].body]
      BY <1>2, <2>1, <2>5 DEF AddsToLayers, Mine
    <3> QED
      BY <1>1, <1>2, <2>10, <3>1 DEF Follows, Built
  <2>12. Building'
    <3>1. IsPrinted(<<>>) /\ Len(<<>>) = 0
      BY DEF IsPrinted
    <3>2. Len(e.prints) \in Nat
      BY DEF LoadAssumption
    <3>3. m.entry = e /\ m.body = b /\ m.done = 0
      OBVIOUS
    <3> HIDE DEF m
    <3> QED
      BY <2>1, <2>5, <2>8, <2>10, <3>1, <3>2, <3>3 DEF Building
  <2>13. Follows'
    BY <1>1, <2>8, <2>10, <2>11, <2>12 DEF Follows
  <2>14. Joined'
    BY <1>1, <1>2, <1>3, <2>2 DEF Joined
  <2>15. RoomLeft'
    <3>1. Cardinality(DOMAIN world) \in Nat
      BY <2>5, FS_CardinalityType
    <3> QED
      BY <1>1, <1>2, <2>1, <2>2, <2>3, <2>5, <3>1 DEF RoomLeft
  <2> QED
    BY <2>6, <2>7, <2>9, <2>13, <2>14, <2>15 DEF LoadInv
<1> QED
  BY <1>2, <1>4, <1>5 DEF LoadAssumption

(* The body MakeBody is working on is one more of the model's.             *)
LEMMA MakingIs ==
  ASSUME LoadInv, InTheMaking, making # <<>>
  PROVE  /\ stage = "bodies" /\ Len(making) = 1 /\ DOMAIN making = {1}
         /\ making[1] \in [entry : BodyEntry, body : Nat, done : Nat]
         /\ AlsoMine = {making[1].body}
         /\ making[1].body \in DOMAIN fixtures
         /\ making[1].body \notin DOMAIN before.fixtures /\ making[1].body \notin Mine
<1>1. LoadTypeOK /\ AddsToLayers /\ Joined
  BY DEF LoadInv
<1> DEFINE M == [entry : BodyEntry, body : Nat, done : Nat]
<1> HIDE DEF M
<1>2. /\ making \in Seq(M) /\ Len(making) = 1 /\ DOMAIN making = {1} /\ making[1] \in M
  <2>1. making \in Seq(M) /\ Len(making) \in Nat /\ Len(making) <= 1
    BY <1>1 DEF LoadTypeOK, M
  <2>2. Len(making) # 0
    BY <2>1
  <2>3. Len(making) = 1
    <3>1. \A n \in Nat : n <= 1 /\ n # 0 => n = 1
      OBVIOUS
    <3> QED
      BY <2>1, <2>2, <3>1, Zenon
  <2>4. DOMAIN making = 1 .. Len(making)
    BY <2>1
  <2>5. 1 .. 1 = {1}
    OBVIOUS
  <2>6. 1 \in DOMAIN making
    BY <2>3, <2>4
  <2> QED
    BY <2>1, <2>3, <2>4, <2>5, <2>6
<1>3. stage = "bodies"
  BY <1>1 DEF Joined
<1>4. AlsoMine = {making[1].body}
  BY <1>2 DEF AlsoMine
<1>5. /\ making[1].body \in DOMAIN fixtures
      /\ making[1].body \notin DOMAIN before.fixtures /\ making[1].body \notin Mine
  BY <1>1, <1>4 DEF AddsToLayers
<1> QED
  BY <1>2, <1>3, <1>4, <1>5 DEF M

LEMMA RefusalInv ==
  ASSUME LoadAssumption, LoadInv, RefuseBody \/ \E e \in BodyEntry : RefuseType(e)
  PROVE  LoadInv'
<1>1. InTheMaking /\ Throw
  BY DEF RefuseBody, RefuseType, InTheMaking
<1> QED
  BY <1>1, ThrowRestores

LEMMA LoadFootprintInv ==
  ASSUME LoadAssumption, LoadInv, LoadFootprint
  PROVE  LoadInv'
<1> DEFINE m == making[1]
           c == ConfigFootprintDef(Footprint)
<1>1. /\ stage = "bodies" /\ making # <<>> /\ m.done < Len(m.entry.prints)
      /\ stage' = stage /\ links' = links /\ model' = model /\ before' = before
      /\ told' = told
      /\ fixtures' = [fixtures EXCEPT ![m.body] = Append(@, c)]
      /\ making' = [making EXCEPT ![1].done = @ + 1]
      /\ Footprint.layers \subseteq LayerNames
  BY DEF LoadFootprint, Unfinished, PrintAccepted
<1>2. /\ LoadTypeOK /\ LayersOnly /\ AddsToLayers /\ Follows /\ Joined /\ RoomLeft
      /\ InTheMaking
  BY <1>1 DEF LoadInv, InTheMaking
<1>3. /\ Len(making) = 1 /\ DOMAIN making = {1}
      /\ m \in [entry : BodyEntry, body : Nat, done : Nat]
      /\ AlsoMine = {m.body} /\ m.body \in DOMAIN fixtures
      /\ m.body \notin DOMAIN before.fixtures /\ m.body \notin Mine
  BY <1>1, <1>2, MakingIs
<1>4. c \in Fixture /\ c.mask \subseteq c.category
  BY <1>1 DEF ConfigFootprintDef, Fixture
<1>5. /\ making'[1] = [entry |-> m.entry, body |-> m.body, done |-> m.done + 1]
      /\ Len(making') = 1 /\ DOMAIN making' = {1}
      /\ making' \in Seq([entry : BodyEntry, body : Nat, done : Nat])
  <2>1. making' = <<[m EXCEPT !.done = @ + 1]>>
    <3> DEFINE r == [m EXCEPT !.done = @ + 1]
    <3>1. making' = [making EXCEPT ![1] = r]
      BY <1>1
    <3>2. making \in Seq([entry : BodyEntry, body : Nat, done : Nat])
      BY <1>2 DEF LoadTypeOK
    <3> HIDE DEF r, m
    <3>3. [making EXCEPT ![1] = r] = <<r>>
      BY <1>3, <3>2
    <3> QED
      BY <3>1, <3>3 DEF r
  <2>2. [m EXCEPT !.done = @ + 1] = [entry |-> m.entry, body |-> m.body, done |-> m.done + 1]
    BY <1>3
  <2> QED
    BY <1>3, <2>1, <2>2
<1> HIDE DEF m, c
<1>6. /\ DOMAIN fixtures' = DOMAIN fixtures /\ IsFunction(fixtures')
      /\ fixtures'[m.body] = Append(fixtures[m.body], c)
      /\ \A b \in DOMAIN fixtures : b # m.body => fixtures'[b] = fixtures[b]
  BY <1>1, <1>3 DEF IsFunction
<1>7. Mine' = Mine /\ AlsoMine' = AlsoMine
  <2>1. AlsoMine' = {m.body}
    BY <1>5 DEF AlsoMine
  <2> QED
    BY <1>1, <1>3, <2>1 DEF Mine
<1>8. LoadTypeOK' /\ LayersOnly'
  BY <1>1, <1>2, <1>5, <1>6 DEF LoadTypeOK, LayersOnly
<1>9. AddsToLayers'
  BY <1>1, <1>2, <1>3, <1>6, <1>7 DEF AddsToLayers
<1>10. Built'
  <2>1. \A i \in DOMAIN model : model[i].body \in DOMAIN fixtures /\ model[i].body # m.body
    BY <1>2, <1>3 DEF AddsToLayers, Mine
  <2>2. \A i \in DOMAIN model : fixtures'[model[i].body] = fixtures[model[i].body]
    BY <1>6, <2>1
  <2> QED
    BY <1>1, <1>2, <2>2 DEF Follows, Built
<1>11. Building'
  <2>1. /\ m.entry = told.bodies[Len(told.bodies)]
        /\ IsPrinted(fixtures[m.body]) /\ Len(fixtures[m.body]) = m.done
        /\ Len(m.entry.prints) \in Nat /\ m.done \in Nat
    BY <1>1, <1>2, <1>3 DEF Follows, Building, m, LoadAssumption
  <2>2. IsPrinted(Append(fixtures[m.body], c)) /\ Len(Append(fixtures[m.body], c)) = m.done + 1
    BY <1>4, <2>1 DEF IsPrinted
  <2>3. m.done + 1 <= Len(m.entry.prints)
    BY <1>1, <2>1 DEF m
  <2> QED
    BY <1>1, <1>5, <1>6, <2>1, <2>2, <2>3 DEF Building
<1>12. Follows'
  BY <1>1, <1>2, <1>3, <1>5, <1>10, <1>11 DEF Follows
<1>13. Joined' /\ RoomLeft'
  BY <1>1, <1>2, <1>6, <1>7 DEF Joined, RoomLeft
<1> QED
  BY <1>8, <1>9, <1>12, <1>13 DEF LoadInv

LEMMA FinishBodyInv ==
  ASSUME LoadAssumption, LoadInv, FinishBody
  PROVE  LoadInv'
<1> DEFINE m == making[1]
           n == [name |-> m.entry.name, body |-> m.body]
<1>1. /\ stage = "bodies" /\ InTheMaking /\ making # <<>>
      /\ ~(m.done < Len(m.entry.prints))
  BY DEF FinishBody, InTheMaking, Unfinished
<1>2. CASE Twice(m.entry.name)
  BY <1>1, <1>2, ThrowRestores DEF FinishBody
<1>3. CASE ~Twice(m.entry.name)
  <2>1. /\ stage' = stage /\ fixtures' = fixtures /\ links' = links /\ told' = told
        /\ before' = before /\ model' = Append(model, n) /\ making' = <<>>
    BY <1>3 DEF FinishBody
  <2>2. /\ LoadTypeOK /\ LayersOnly /\ AddsToLayers /\ Follows /\ Joined /\ RoomLeft
    BY <1>1 DEF LoadInv
  <2>3. /\ Len(making) = 1 /\ DOMAIN making = {1}
        /\ m \in [entry : BodyEntry, body : Nat, done : Nat]
        /\ AlsoMine = {m.body} /\ m.body \in DOMAIN fixtures
        /\ m.body \notin DOMAIN before.fixtures /\ m.body \notin Mine
    BY <1>1, MakingIs
  <2>4. /\ \A i \in DOMAIN model : model[i].name # n.name /\ model[i].body # n.body
        /\ n \in [name : BodyName, body : Nat] /\ n.body = m.body /\ n.name = m.entry.name
    BY <1>3, <2>3 DEF Twice, Mine, BodyName
  <2>5. /\ m.entry = told.bodies[Len(told.bodies)]
        /\ IsPrinted(fixtures[m.body])
        /\ Len(fixtures[m.body]) = Len(m.entry.prints)
    <3>1. /\ m.entry = told.bodies[Len(told.bodies)]
          /\ IsPrinted(fixtures[m.body]) /\ Len(fixtures[m.body]) = m.done
          /\ m.done <= Len(m.entry.prints)
      BY <1>1, <2>2 DEF Follows, Building
    <3>2. Len(m.entry.prints) \in Nat /\ m.done \in Nat
      BY <2>3 DEF LoadAssumption
    <3> QED
      BY <1>1, <3>1, <3>2
  <2> HIDE DEF m, n
  <2>6. /\ model \in Seq([name : BodyName, body : Nat])
        /\ model' \in Seq([name : BodyName, body : Nat])
        /\ Len(model) \in Nat /\ Len(model') = Len(model) + 1
        /\ DOMAIN model = 1 .. Len(model) /\ DOMAIN model' = 1 .. Len(model) + 1
        /\ \A i \in DOMAIN model : model'[i] = model[i]
        /\ model'[Len(model) + 1] = n
    BY <2>1, <2>2, <2>4 DEF LoadTypeOK
  <2>7. Mine' = Mine \cup {m.body} /\ AlsoMine' = {}
    <3>1. AlsoMine' = {}
      BY <2>1 DEF AlsoMine
    <3>2. \A i \in DOMAIN model' : i \in DOMAIN model \/ i = Len(model) + 1
      BY <2>6
    <3>3. Mine' = Mine \cup {m.body}
      BY <2>4, <2>6, <3>2 DEF Mine
    <3> QED
      BY <3>1, <3>3
  <2>8. LoadTypeOK' /\ LayersOnly'
    BY <2>1, <2>2, <2>6 DEF LoadTypeOK, LayersOnly
  <2>9. AddsToLayers'
    BY <2>1, <2>2, <2>3, <2>7 DEF AddsToLayers
  <2>10. Len(told.bodies) = Len(model) + 1
    BY <2>2, <2>3 DEF Follows
  <2>11. Built'
    <3>1. ASSUME NEW i \in DOMAIN model'
          PROVE  /\ model'[i].name = told.bodies[i].name
                 /\ IsPrinted(fixtures[model'[i].body])
                 /\ Len(fixtures[model'[i].body]) = Len(told.bodies[i].prints)
      <4>1. CASE i \in DOMAIN model
        BY <2>2, <2>6, <4>1 DEF Follows, Built
      <4>2. CASE i = Len(model) + 1
        BY <2>4, <2>5, <2>6, <2>10, <4>2
      <4> QED
        BY <2>6, <4>1, <4>2
    <3>2. ASSUME NEW i \in DOMAIN model', NEW j \in DOMAIN model', j # i
          PROVE  model'[j].name # model'[i].name /\ model'[j].body # model'[i].body
      <4>1. CASE i \in DOMAIN model /\ j \in DOMAIN model
        BY <2>2, <2>6, <3>2, <4>1 DEF Follows, Built
      <4>2. CASE i = Len(model) + 1 /\ j \in DOMAIN model
        BY <2>4, <2>6, <4>2
      <4>3. CASE j = Len(model) + 1 /\ i \in DOMAIN model
        BY <2>4, <2>6, <4>3
      <4> QED
        BY <2>6, <3>2, <4>1, <4>2, <4>3
    <3> QED
      BY <2>1, <3>1, <3>2 DEF Built
  <2>12. Follows'
    BY <2>1, <2>6, <2>10, <2>11 DEF Follows, Building
  <2>13. Joined' /\ RoomLeft'
    BY <1>1, <2>1, <2>2, <2>7 DEF Joined, RoomLeft
  <2> QED
    BY <2>8, <2>9, <2>12, <2>13 DEF LoadInv
<1> QED
  BY <1>2, <1>3

LEMMA BodiesLoadedInv ==
  ASSUME LoadAssumption, LoadInv, BodiesLoaded
  PROVE  LoadInv'
<1>1. /\ stage = "bodies" /\ InTheMaking /\ making = <<>>
      /\ LoadTypeOK /\ LayersOnly /\ AddsToLayers /\ Follows /\ Joined
  BY DEF BodiesLoaded, InTheMaking, LoadInv
<1>2. CASE told.read = 0
  BY <1>1, <1>2, ThrowRestores DEF BodiesLoaded
<1>3. CASE told.read # 0
  <2>1. /\ stage' = "joints" /\ told' = [told EXCEPT !.read = 0]
        /\ fixtures' = fixtures /\ links' = links /\ model' = model
        /\ making' = making /\ before' = before
    BY <1>3 DEF BodiesLoaded
  <2>2. /\ told'.bodies = told.bodies /\ told'.joints = told.joints
        /\ told' \in [bodies : Seq(BodyEntry), joints : Seq(JointEntry), read : Nat]
    <3>1. told' = [bodies |-> told.bodies, joints |-> told.joints, read |-> 0]
      BY <1>1, <2>1, ToldIs
    <3> QED
      BY <1>1, <3>1 DEF LoadTypeOK
  <2>3. Mine' = Mine /\ AlsoMine' = AlsoMine
    BY <2>1 DEF Mine, AlsoMine
  <2>4. LoadTypeOK' /\ LayersOnly'
    BY <1>1, <2>1, <2>2 DEF LoadTypeOK, LayersOnly
  <2>5. AddsToLayers'
    BY <1>1, <2>1, <2>3 DEF AddsToLayers
  <2>6. Follows'
    BY <1>1, <2>1, <2>2 DEF Follows, Built, Building
  <2>7. Joined' /\ RoomLeft'
    BY <1>1, <2>1, <2>2, <2>3 DEF Joined, RoomLeft
  <2> QED
    BY <2>4, <2>5, <2>6, <2>7 DEF LoadInv
<1> QED
  BY <1>2, <1>3

LEMMA LoadJointInv ==
  ASSUME LoadAssumption, LoadInv, NEW e \in JointEntry, LoadJoint(e)
  PROVE  LoadInv'
<1>1. /\ stage = "joints" /\ InTheMaking
      /\ LoadTypeOK /\ LayersOnly /\ AddsToLayers /\ Follows /\ Joined /\ making = <<>>
  BY DEF LoadJoint, InTheMaking, LoadInv, Joined
<1>2. CASE e.enabled /\ ~JointAccepted(e)
  BY <1>1, <1>2, ThrowRestores DEF LoadJoint
<1>3. CASE ~e.enabled \/ JointAccepted(e)
  <2>1. /\ stage' = stage /\ fixtures' = fixtures /\ model' = model
        /\ making' = making /\ before' = before
    BY <1>3 DEF LoadJoint
  <2>2. Mine' = Mine /\ AlsoMine' = AlsoMine
    BY <2>1 DEF Mine, AlsoMine
  <2>3. /\ told'.bodies = told.bodies
        /\ told' \in [bodies : Seq(BodyEntry), joints : Seq(JointEntry), read : Nat]
        /\ IsFiniteSet(links') /\ Cardinality(links') = Len(told'.joints)
        /\ \A l \in links' : Range(l.ends) # {} /\ Range(l.ends) \subseteq Mine
    <3>1. CASE ~e.enabled
      <4>1. told' = [told EXCEPT !.read = @ + 1] /\ links' = links
        BY <3>1 DEF LoadJoint
      <4>2. told' = [bodies |-> told.bodies, joints |-> told.joints, read |-> told.read + 1]
        BY <1>1, <4>1, ToldIs
      <4>3. /\ told'.bodies = told.bodies /\ told'.joints = told.joints
            /\ told' \in [bodies : Seq(BodyEntry), joints : Seq(JointEntry), read : Nat]
        BY <1>1, <4>2 DEF LoadTypeOK
      <4> QED
        BY <1>1, <4>1, <4>3 DEF Joined
    <3>2. CASE e.enabled /\ JointAccepted(e)
      <4> DEFINE l == MakeJoint(e)
      <4>1. /\ told' = [told EXCEPT !.joints = Append(@, e), !.read = @ + 1]
            /\ links' = links \cup {l}
        BY <3>2 DEF LoadJoint
      <4>2. told' = [bodies |-> told.bodies, joints |-> Append(told.joints, e),
                     read |-> told.read + 1]
        BY <1>1, <4>1, ToldIs
      <4>3. /\ told'.bodies = told.bodies /\ Len(told'.joints) = Len(told.joints) + 1
            /\ told' \in [bodies : Seq(BodyEntry), joints : Seq(JointEntry), read : Nat]
        BY <1>1, <4>2 DEF LoadTypeOK
      <4>4. l \notin links
        <5>1. before.links = {}
          BY <1>1 DEF LayersOnly
        <5>2. \A k \in links : k.name # e.name
          BY <3>2, <5>1 DEF JointAccepted
        <5>3. l.name = e.name
          BY DEF MakeJoint
        <5> QED
          BY <5>2, <5>3
      <4>5. IsFiniteSet(links') /\ Cardinality(links') = Cardinality(links) + 1
        BY <1>1, <4>1, <4>4, FS_AddElement DEF Joined
      <4>6. Range(l.ends) # {} /\ Range(l.ends) \subseteq Mine
        <5>1. \A i \in 1 .. 2 : /\ GetBody(e.bodies[i]) # {}
                               /\ GetBody(e.bodies[i]) \subseteq Mine
          BY <3>2 DEF JointAccepted, GetBody, Mine
        <5>2. l.ends = [i \in 1 .. 2 |-> CHOOSE b \in GetBody(e.bodies[i]) : TRUE]
          BY DEF MakeJoint
        <5>3. DOMAIN l.ends = 1 .. 2 /\ \A i \in 1 .. 2 : l.ends[i] \in Mine
          BY <5>1, <5>2
        <5> HIDE DEF l
        <5> QED
          BY <5>3 DEF Range
      <4> HIDE DEF l
      <4>7. Cardinality(links') = Len(told'.joints)
        BY <1>1, <4>3, <4>5 DEF Joined
      <4>8. \A k \in links' : Range(k.ends) # {} /\ Range(k.ends) \subseteq Mine
        BY <1>1, <4>1, <4>6 DEF Joined
      <4> QED
        BY <4>3, <4>5, <4>7, <4>8
    <3> QED
      BY <1>3, <3>1, <3>2
  <2>4. LoadTypeOK' /\ LayersOnly'
    BY <1>1, <2>1, <2>3 DEF LoadTypeOK, LayersOnly
  <2>5. AddsToLayers'
    BY <1>1, <2>1, <2>2 DEF AddsToLayers
  <2>6. Follows'
    BY <1>1, <2>1, <2>3 DEF Follows, Built, Building
  <2>7. Joined' /\ RoomLeft'
    BY <1>1, <2>1, <2>2, <2>3 DEF Joined, RoomLeft
  <2> QED
    BY <2>4, <2>5, <2>6, <2>7 DEF LoadInv
<1> QED
  BY <1>2, <1>3

LEMMA LoadedInv ==
  ASSUME LoadAssumption, LoadInv, ModelLoaded \/ Abort \/ Unload \/ Dismiss
  PROVE  LoadInv'
<1>1. CASE ModelLoaded
  <2>1. /\ stage = "joints" /\ stage' = "loaded" /\ fixtures' = fixtures /\ links' = links
        /\ model' = model /\ making' = making /\ told' = told /\ before' = before
    BY <1>1 DEF ModelLoaded
  <2>2. /\ InTheMaking /\ LoadTypeOK /\ LayersOnly /\ AddsToLayers /\ Follows /\ Joined
    BY <2>1 DEF InTheMaking, LoadInv
  <2>3. Mine' = Mine /\ AlsoMine' = AlsoMine
    BY <2>1 DEF Mine, AlsoMine
  <2>4. LoadTypeOK' /\ LayersOnly' /\ AddsToLayers'
    BY <2>1, <2>2, <2>3 DEF LoadTypeOK, LayersOnly, AddsToLayers
  <2>5. Follows'
    BY <2>1, <2>2 DEF Follows, Built, Building
  <2>6. Joined' /\ RoomLeft'
    BY <2>1, <2>2, <2>3 DEF Joined, RoomLeft
  <2> QED
    BY <2>4, <2>5, <2>6 DEF LoadInv
<1>2. CASE Abort
  BY <1>2 DEF Abort, LoadInv, LoadTypeOK, LayersOnly, InTheMaking
<1>3. CASE Unload
  <2>1. stage = "loaded" /\ InTheMaking
    BY <1>3 DEF Unload, InTheMaking
  <2>2. AlsoMine = {}
    BY <2>1 DEF AlsoMine, LoadInv, Joined
  <2> QED
    BY <1>3, <2>1, <2>2, DeletionRestores DEF Unload
<1>4. CASE Dismiss
  BY <1>4 DEF Dismiss, LoadInv, LoadTypeOK, LayersOnly, InTheMaking
<1> QED
  BY <1>1, <1>2, <1>3, <1>4

LEMMA LoadInvInit ==
  ASSUME LoadAssumption, LoadInit
  PROVE  LoadInv
<1>1. /\ IsFunction(<<>>) /\ DOMAIN <<>> = {} /\ Cardinality({}) = 0 /\ IsFiniteSet({})
  BY FS_EmptySet DEF IsFunction
<1>2. IsGround(fixtures)
  BY <1>1 DEF LoadInit, IsGround, LoadAssumption
<1> QED
  BY <1>1, <1>2 DEF LoadInit, LoadInv, LoadTypeOK, LayersOnly, InTheMaking

LEMMA LoadInvNext ==
  ASSUME LoadAssumption, LoadInv, [LoadNext]_loadVars
  PROVE  LoadInv'
<1>1. CASE UNCHANGED loadVars
  <2>1. LoadTypeOK' /\ LayersOnly' /\ InTheMaking' = InTheMaking
    BY <1>1 DEF loadVars, LoadInv, LoadTypeOK, LayersOnly, InTheMaking
  <2>2. Mine' = Mine /\ AlsoMine' = AlsoMine
    BY <1>1 DEF loadVars, Mine, AlsoMine
  <2>3. AddsToLayers => AddsToLayers'
    BY <1>1, <2>2 DEF loadVars, AddsToLayers
  <2>4. Follows => Follows'
    BY <1>1 DEF loadVars, Follows, Built, Building
  <2>5. (Joined => Joined') /\ (RoomLeft => RoomLeft')
    BY <1>1, <2>2 DEF loadVars, Joined, RoomLeft
  <2> QED
    BY <2>1, <2>3, <2>4, <2>5 DEF LoadInv
<1>2. CASE \E e \in LayerEntry : LoadLayer(e)
  BY <1>2, LoadLayerInv
<1>3. CASE \E e \in BodyEntry : ReadBody(e)
  <2>1. PICK e \in BodyEntry : ReadBody(e)
    BY <1>3
  <2> QED
    BY <2>1, ReadBodyInv
<1>4. CASE RefuseBody \/ \E e \in BodyEntry : RefuseType(e)
  BY <1>4, RefusalInv
<1>5. CASE \E e \in JointEntry : LoadJoint(e)
  BY <1>5, LoadJointInv
<1>6. CASE LayersLoaded \/ StartModel \/ LoadFootprint \/ FinishBody \/ BodiesLoaded
  BY <1>6, LayersLoadedInv, StartModelInv, LoadFootprintInv, FinishBodyInv, BodiesLoadedInv
<1>7. CASE ModelLoaded \/ Abort \/ Unload \/ Dismiss
  BY <1>7, LoadedInv
<1> QED
  BY <1>1, <1>2, <1>3, <1>4, <1>5, <1>6, <1>7 DEF LoadNext

LEMMA LoadInvSuffices ==
  ASSUME LoadInv
  PROVE  LoadedOrUntouched
<1>1. stage \in {"failed", "up"} =>
        fixtures = before.fixtures /\ links = before.links
  BY DEF LoadInv, LayersOnly
<1>2. ASSUME stage = "loaded"
      PROVE  /\ Len(model) = Len(told.bodies)
             /\ \A i \in DOMAIN model :
                  /\ model[i].name = told.bodies[i].name
                  /\ model[i].body \notin DOMAIN before.fixtures
                  /\ \A j \in DOMAIN model : j # i => /\ model[i].name # model[j].name
                                                      /\ model[i].body # model[j].body
                  /\ LET f == fixtures[model[i].body]
                     IN  /\ Len(f) = Len(told.bodies[i].prints)
                         /\ \A k \in DOMAIN f : f[k].mask \subseteq f[k].category
             /\ Remaining(Mine) = before.fixtures
             /\ Cardinality(links \ before.links) = Len(told.joints)
             /\ \A l \in links \ before.links : Range(l.ends) \subseteq Mine
  <2>1. /\ LoadTypeOK /\ LayersOnly /\ AddsToLayers /\ Follows /\ Joined /\ making = <<>>
    BY <1>2 DEF LoadInv, InTheMaking, Joined
  <2>2. AlsoMine = {} /\ before.links = {} /\ IsFunction(before.fixtures)
    BY <1>2, <2>1 DEF AlsoMine, LayersOnly, IsGround
  <2>3. Remaining(Mine) = before.fixtures
    <3>1. DOMAIN fixtures \ Mine = DOMAIN before.fixtures
      BY <2>1, <2>2 DEF AddsToLayers
    <3> QED
      BY <2>1, <2>2, <3>1 DEF Remaining, IsFunction, AddsToLayers
  <2>4. links \ before.links = links
    BY <2>2
  <2>5. Len(model) = Len(told.bodies)
    BY <2>1 DEF Follows, LoadTypeOK
  <2>6. \A i \in DOMAIN model : model[i].body \notin DOMAIN before.fixtures
    BY <2>1 DEF AddsToLayers, Mine
  <2> QED
    BY <2>1, <2>3, <2>4, <2>5, <2>6 DEF Follows, Built, IsPrinted, Joined
<1> QED
  BY <1>1, <1>2 DEF LoadedOrUntouched

(* Whatever the files of the world and of the models say, in whatever      *)
(* order models are loaded, refused and deleted: a model is loaded as its  *)
(* file says or the b2World is as before MakeModel (model.cpp,             *)
(* model_body.cpp, body.cpp, joint.cpp).                                   *)
THEOREM LoadsAllOrNothing == LoadSpec => []LoadedOrUntouched
<1>1. LoadInit => LoadInv
  BY LoadInvInit, LoadAssumption
<1>2. LoadInv /\ [LoadNext]_loadVars => LoadInv'
  BY LoadInvNext, LoadAssumption
<1>3. LoadInv => LoadedOrUntouched
  BY LoadInvSuffices
<1> QED
  BY <1>1, <1>2, <1>3, PTL DEF LoadSpec

(***************************************************************************)
(* Poses of a model's bodies                                               *)
(***************************************************************************)

(* The bodies have frames of whole coordinates.                            *)
PosesInv == bodies = <<>> \/ (bodies \in Seq(Frame) /\ Len(bodies) > 0)

(* A body's frame is one of four turns.                                    *)
IsTurn(c, s) == \/ c = 1 /\ s = 0
                \/ c = 0 /\ s = 1
                \/ c = -1 /\ s = 0
                \/ c = 0 /\ s = -1
LEMMA Turns ==
  ASSUME NEW a \in 0 .. 3
  PROVE  IsTurn(Cos(a), Sin(a))
<1>1. a = 0 \/ a = 1 \/ a = 2 \/ a = 3
  OBVIOUS
<1>2. Cos(0) = 1 /\ Sin(0) = 0 /\ Cos(1) = 0 /\ Sin(1) = 1
  BY DEF Cos, Sin
<1>3. Cos(2) = -1 /\ Sin(2) = 0 /\ Cos(3) = 0 /\ Sin(3) = -1
  BY DEF Cos, Sin
<1> QED
  BY <1>1, <1>2, <1>3 DEF IsTurn

(* A frame and its inverse                                                 *)
LEMMA FrameOf ==
  ASSUME NEW p \in Frame
  PROVE  /\ CreateTransform(p).dx = p.x /\ CreateTransform(p).dy = p.y
         /\ p.x \in Int /\ p.y \in Int /\ p.theta \in Int
         /\ p = [x |-> p.x, y |-> p.y, theta |-> p.theta]
         /\ IsTurn(CreateTransform(p).cos, CreateTransform(p).sin)
<1>1. p.theta \in 0 .. 3 /\ p.x \in Int /\ p.y \in Int
  BY DEF Frame
<1>2. p = [x |-> p.x, y |-> p.y, theta |-> p.theta]
  BY DEF Frame
<1>3. p.theta \in Int
  BY <1>1
<1> QED
  BY <1>1, <1>2, <1>3, Turns DEF CreateTransform

(* Positions only *)
At(p) == [x |-> p.x, y |-> p.y]

LEMMA TransformIs ==
  ASSUME NEW f \in Frame, NEW p, p.x \in Int, p.y \in Int
  PROVE  LET rt == CreateTransform(f)
             q == Transform(p, rt)
             r == InverseTransform(p, rt)
         IN  /\ q.x \in Int /\ q.y \in Int /\ r.x \in Int /\ r.y \in Int
             /\ InverseTransform(q, rt) = At(p)
<1> DEFINE rt == CreateTransform(f)
           q == Transform(p, rt)
           r == InverseTransform(p, rt)
           c == rt.cos
           s == rt.sin
<1>1. /\ rt.dx = f.x /\ rt.dy = f.y /\ f.x \in Int /\ f.y \in Int
      /\ IsTurn(c, s)
  BY FrameOf
<1>2. /\ q.x = p.x * c - p.y * s + f.x /\ q.y = p.x * s + p.y * c + f.y
      /\ r.x = (p.x - f.x) * c + (p.y - f.y) * s /\ r.y = (p.y - f.y) * c - (p.x - f.x) * s
  BY <1>1 DEF Transform, InverseTransform
<1>3. InverseTransform(q, rt) = [x |-> (q.x - f.x) * c + (q.y - f.y) * s,
                                 y |-> (q.y - f.y) * c - (q.x - f.x) * s]
  BY <1>1 DEF InverseTransform
<1> HIDE DEF rt, q, r, c, s
<1>4. q.x \in Int /\ q.y \in Int /\ r.x \in Int /\ r.y \in Int
  BY <1>1, <1>2 DEF IsTurn
<1>5. (q.x - f.x) * c + (q.y - f.y) * s = p.x /\ (q.y - f.y) * c - (q.x - f.x) * s = p.y
  BY <1>1, <1>2 DEF IsTurn
<1>6. InverseTransform(q, rt) = At(p)
  BY <1>3, <1>5 DEF At
<1> QED
  BY <1>4, <1>6 DEF q, r, rt

LEMMA GapIs ==
  ASSUME NEW f \in Frame, NEW p, p.x \in Int, p.y \in Int, NEW o, o.x \in Int, o.y \in Int
  PROVE  LET rt == CreateTransform(f)
         IN  /\ Gap(Transform(p, rt), Transform(o, rt)) = Gap(p, o)
             /\ Gap(InverseTransform(p, rt), InverseTransform(o, rt)) = Gap(p, o)
<1> DEFINE rt == CreateTransform(f)
           c == rt.cos
           s == rt.sin
           P == Transform(p, rt)
           O == Transform(o, rt)
           Q == InverseTransform(p, rt)
           R == InverseTransform(o, rt)
<1>1. /\ rt.dx = f.x /\ rt.dy = f.y /\ f.x \in Int /\ f.y \in Int
      /\ IsTurn(c, s)
  BY FrameOf
<1>2. /\ P.x = p.x * c - p.y * s + f.x /\ P.y = p.x * s + p.y * c + f.y
      /\ O.x = o.x * c - o.y * s + f.x /\ O.y = o.x * s + o.y * c + f.y
      /\ Q.x = (p.x - f.x) * c + (p.y - f.y) * s /\ Q.y = (p.y - f.y) * c - (p.x - f.x) * s
      /\ R.x = (o.x - f.x) * c + (o.y - f.y) * s /\ R.y = (o.y - f.y) * c - (o.x - f.x) * s
  BY <1>1 DEF Transform, InverseTransform
<1> HIDE DEF c, s, P, O, Q, R, rt
<1>3. \/ P.x - O.x = p.x - o.x /\ P.y - O.y = p.y - o.y
      \/ P.x - O.x = o.y - p.y /\ P.y - O.y = p.x - o.x
      \/ P.x - O.x = o.x - p.x /\ P.y - O.y = o.y - p.y
      \/ P.x - O.x = p.y - o.y /\ P.y - O.y = o.x - p.x
  BY <1>1, <1>2 DEF IsTurn
<1>4. \/ Q.x - R.x = p.x - o.x /\ Q.y - R.y = p.y - o.y
      \/ Q.x - R.x = o.y - p.y /\ Q.y - R.y = p.x - o.x
      \/ Q.x - R.x = o.x - p.x /\ Q.y - R.y = o.y - p.y
      \/ Q.x - R.x = p.y - o.y /\ Q.y - R.y = o.x - p.x
  BY <1>1, <1>2 DEF IsTurn
<1>5. Gap(P, O) = Gap(p, o)
  BY <1>3 DEF Gap
<1>6. Gap(Q, R) = Gap(p, o)
  BY <1>4 DEF Gap
<1> QED
  BY <1>5, <1>6 DEF P, O, Q, R, rt

(* SetPose, body by body: its place in the first body's frame, taken to    *)
(* the commanded frame                                                     *)
LEMMA SetPoseIs ==
  ASSUME PoseAssumption, PosesInv, NEW pose \in Poses, SetPose(pose)
  PROVE  /\ pose \in Frame /\ bodies \in Seq(Frame) /\ Len(bodies) > 0
         /\ bodies' \in Seq(Frame) /\ DOMAIN bodies' = DOMAIN bodies
         /\ \A i \in DOMAIN bodies :
              LET q == Transform(Seen(bodies, i), CreateTransform(pose))
              IN  /\ bodies'[i].x = q.x /\ bodies'[i].y = q.y
                  /\ bodies'[i].theta = pose.theta
<1>1. pose \in Frame /\ bodies \in Seq(Frame) /\ Len(bodies) > 0
  BY DEF PoseAssumption, PosesInv, SetPose
<1>2. ASSUME NEW i \in DOMAIN bodies
      PROVE  LET q == Transform(Seen(bodies, i), CreateTransform(pose))
             IN  bodies'[i] = [x |-> q.x, y |-> q.y, theta |-> pose.theta]
  <2> DEFINE seen == Seen(bodies, i)
             r == ResetPoses(bodies)
  <2>1. DOMAIN r = DOMAIN bodies /\ r[i] = [x |-> seen.x, y |-> seen.y, theta |-> 0]
    BY DEF ResetPoses, Pose, Seen
  <2>2. bodies' = TransformAll(r, pose)
    BY DEF SetPose
  <2> HIDE DEF r
  <2>3. bodies'[i] = Pose(Transform(r[i], CreateTransform(pose)), r[i].theta + pose.theta)
    BY <2>1, <2>2 DEF TransformAll
  <2>4. (0 + pose.theta) % 4 = pose.theta
    <3>1. pose.theta \in 0 .. 3
      BY <1>1 DEF Frame
    <3> QED
      BY <3>1
  <2>5. Transform(r[i], CreateTransform(pose)) = Transform(seen, CreateTransform(pose))
    BY <2>1 DEF Transform
  <2> HIDE DEF seen
  <2> QED
    BY <2>1, <2>3, <2>4, <2>5 DEF Pose, seen
<1>3. DOMAIN bodies' = DOMAIN bodies /\ bodies' = [i \in DOMAIN bodies |-> bodies'[i]]
  BY DEF SetPose, TransformAll, ResetPoses
<1>4. ASSUME NEW i \in DOMAIN bodies PROVE bodies'[i] \in Frame
  <2>1. bodies[i] \in Frame /\ bodies[1] \in Frame
    BY <1>1
  <2>2. Seen(bodies, i).x \in Int /\ Seen(bodies, i).y \in Int
    <3>1. bodies[i].x \in Int /\ bodies[i].y \in Int
      BY <2>1, FrameOf
    <3> QED
      BY <2>1, <3>1, TransformIs DEF Seen
  <2> DEFINE q == Transform(Seen(bodies, i), CreateTransform(pose))
  <2>3. q.x \in Int /\ q.y \in Int
    BY <1>1, <2>2, TransformIs
  <2>4. bodies'[i] = [x |-> q.x, y |-> q.y, theta |-> pose.theta]
    BY <1>2
  <2> HIDE DEF q
  <2> QED
    BY <1>1, <2>3, <2>4 DEF Frame
<1>5. bodies' \in Seq(Frame)
  <2>1. DOMAIN bodies = 1 .. Len(bodies) /\ Len(bodies) \in Nat
    BY <1>1
  <2> QED
    BY <1>3, <1>4, <2>1
<1> QED
  BY <1>1, <1>2, <1>3, <1>5

LEMMA SetPoseIsRigid ==
  ASSUME PoseAssumption, PosesInv, NEW pose \in Poses, SetPose(pose)
  PROVE  /\ bodies'[1] = pose
         /\ \A i \in DOMAIN bodies : Seen(bodies', i) = Seen(bodies, i)
         /\ \A i, j \in DOMAIN bodies : Gap(bodies'[i], bodies'[j]) = Gap(bodies[i], bodies[j])
<1> DEFINE rt == CreateTransform(pose)
<1>1. /\ pose \in Frame /\ bodies \in Seq(Frame) /\ Len(bodies) > 0
      /\ bodies' \in Seq(Frame) /\ DOMAIN bodies' = DOMAIN bodies
      /\ \A i \in DOMAIN bodies :
           LET q == Transform(Seen(bodies, i), rt)
           IN  bodies'[i].x = q.x /\ bodies'[i].y = q.y /\ bodies'[i].theta = pose.theta
  BY SetPoseIs
<1>2. 1 \in DOMAIN bodies /\ bodies[1] \in Frame
  BY <1>1
<1>3. \A i \in DOMAIN bodies : /\ bodies[i] \in Frame /\ bodies'[i] \in Frame
                               /\ bodies[i].x \in Int /\ bodies[i].y \in Int
                               /\ Seen(bodies, i).x \in Int /\ Seen(bodies, i).y \in Int
  <2> TAKE i \in DOMAIN bodies
  <2>1. bodies[i] \in Frame /\ bodies'[i] \in Frame
    BY <1>1
  <2>2. bodies[i].x \in Int /\ bodies[i].y \in Int
    BY <2>1, FrameOf
  <2> QED
    BY <1>2, <2>1, <2>2, TransformIs DEF Seen
<1>4. bodies'[1] = pose
  <2>1. Seen(bodies, 1) = [x |-> 0, y |-> 0]
    <3>1. /\ CreateTransform(bodies[1]).dx = bodies[1].x
          /\ CreateTransform(bodies[1]).dy = bodies[1].y
          /\ bodies[1].x \in Int /\ bodies[1].y \in Int
          /\ IsTurn(CreateTransform(bodies[1]).cos, CreateTransform(bodies[1]).sin)
      BY <1>2, FrameOf
    <3> QED
      BY <3>1 DEF Seen, InverseTransform, IsTurn
  <2>2. /\ rt.dx = pose.x /\ rt.dy = pose.y /\ pose.x \in Int /\ pose.y \in Int
         /\ IsTurn(rt.cos, rt.sin)
    BY <1>1, FrameOf
  <2> HIDE DEF rt
  <2>3. Transform(Seen(bodies, 1), rt) = [x |-> pose.x, y |-> pose.y]
    BY <2>1, <2>2 DEF Transform, IsTurn
  <2>4. bodies'[1].x = pose.x /\ bodies'[1].y = pose.y /\ bodies'[1].theta = pose.theta
    BY <1>1, <1>2, <2>3 DEF rt
  <2>5. bodies'[1] = [x |-> bodies'[1].x, y |-> bodies'[1].y, theta |-> bodies'[1].theta]
    BY <1>2, <1>3, FrameOf
  <2>6. pose = [x |-> pose.x, y |-> pose.y, theta |-> pose.theta]
    BY <1>1, FrameOf
  <2> QED
    BY <2>4, <2>5, <2>6
<1>5. ASSUME NEW i \in DOMAIN bodies PROVE Seen(bodies', i) = Seen(bodies, i)
  <2> DEFINE seen == Seen(bodies, i)
             q == Transform(seen, rt)
  <2>1. bodies'[i].x = q.x /\ bodies'[i].y = q.y
    BY <1>1
  <2>2. InverseTransform(q, rt) = At(seen)
    BY <1>1, <1>3, TransformIs
  <2>3. At(seen) = seen
    BY DEF At, Seen, InverseTransform
  <2> HIDE DEF q, seen
  <2>4. Seen(bodies', i) = InverseTransform(q, rt)
    BY <1>4, <2>1 DEF Seen, InverseTransform
  <2> QED
    BY <2>2, <2>3, <2>4 DEF seen
<1>6. ASSUME NEW i \in DOMAIN bodies, NEW j \in DOMAIN bodies
      PROVE  Gap(bodies'[i], bodies'[j]) = Gap(bodies[i], bodies[j])
  <2> DEFINE p == Seen(bodies, i)
             o == Seen(bodies, j)
  <2>1. Gap(bodies'[i], bodies'[j]) = Gap(Transform(p, rt), Transform(o, rt))
    BY <1>1 DEF Gap
  <2>2. Gap(Transform(p, rt), Transform(o, rt)) = Gap(p, o)
    BY <1>1, <1>3, GapIs
  <2>3. Gap(p, o) = Gap(bodies[i], bodies[j])
    BY <1>2, <1>3, GapIs DEF Seen
  <2> QED
    BY <2>1, <2>2, <2>3
<1> QED
  BY <1>4, <1>5, <1>6

LEMMA PosesInvNext ==
  ASSUME PoseAssumption, PosesInv, [PoseNext]_poseVars
  PROVE  PosesInv'
<1>1. CASE LoadModel
  <2>1. PICK layout \in Layouts, pose \in Poses : bodies' = TransformAll(layout, pose)
    BY <1>1 DEF LoadModel
  <2>2. layout \in Seq(Frame) /\ layout # <<>> /\ pose \in Frame
    BY DEF PoseAssumption
  <2>3. ASSUME NEW i \in DOMAIN layout PROVE bodies'[i] \in Frame
    <3>1. layout[i] \in Frame /\ layout[i].theta \in Int /\ pose.theta \in Int
      <4>1. layout[i] \in Frame
        BY <2>2
      <4> QED
        BY <2>2, <4>1, FrameOf
    <3>2. layout[i].x \in Int /\ layout[i].y \in Int
      BY <3>1, FrameOf
    <3> DEFINE q == Transform(layout[i], CreateTransform(pose))
    <3>3. q.x \in Int /\ q.y \in Int
      BY <2>2, <3>2, TransformIs
    <3>4. bodies'[i] = [x |-> q.x, y |-> q.y, theta |-> (layout[i].theta + pose.theta) % 4]
      BY <2>1 DEF TransformAll, Pose
    <3>5. (layout[i].theta + pose.theta) % 4 \in 0 .. 3
      BY <3>1
    <3> HIDE DEF q
    <3> QED
      BY <3>3, <3>4, <3>5 DEF Frame
  <2>4. Len(layout) \in Nat /\ Len(layout) > 0 /\ DOMAIN layout = 1 .. Len(layout)
    BY <2>2
  <2>5. DOMAIN bodies' = 1 .. Len(layout) /\ bodies' = [i \in 1 .. Len(layout) |-> bodies'[i]]
    BY <2>1, <2>4 DEF TransformAll
  <2> QED
    BY <2>3, <2>4, <2>5 DEF PosesInv
<1>2. CASE \E pose \in Poses : SetPose(pose)
  <2>1. PICK pose \in Poses : SetPose(pose)
    BY <1>2
  <2>2. /\ bodies \in Seq(Frame) /\ Len(bodies) > 0
        /\ bodies' \in Seq(Frame) /\ DOMAIN bodies' = DOMAIN bodies
    BY <2>1, SetPoseIs
  <2>3. Len(bodies') > 0
    BY <2>2
  <2> QED
    BY <2>2, <2>3 DEF PosesInv
<1>3. CASE \E i \in DOMAIN bodies, by \in {1, 3} : Turn(i, by)
  <2>1. PICK i \in DOMAIN bodies, by \in {1, 3} : Turn(i, by)
    BY <1>3
  <2>2. bodies \in Seq(Frame) /\ Len(bodies) > 0
    BY <2>1 DEF PosesInv
  <2> DEFINE p == [bodies[i] EXCEPT !.theta = (@ + by) % 4]
  <2>3. bodies' = [bodies EXCEPT ![i] = p]
    BY <2>1 DEF Turn
  <2>4. p \in Frame
    <3>1. bodies[i] \in Frame /\ bodies[i].theta \in Int /\ by \in Int
      <4>1. bodies[i] \in Frame
        BY <2>2
      <4> QED
        BY <4>1, FrameOf
    <3>2. (bodies[i].theta + by) % 4 \in 0 .. 3
      BY <3>1
    <3> QED
      BY <3>1, <3>2 DEF Frame
  <2> HIDE DEF p
  <2>5. bodies' \in Seq(Frame) /\ Len(bodies') = Len(bodies)
    BY <2>2, <2>3, <2>4
  <2> QED
    BY <2>2, <2>5 DEF PosesInv
<1>4. CASE UNCHANGED poseVars
  BY <1>4 DEF poseVars, PosesInv
<1> QED
  BY <1>1, <1>2, <1>3, <1>4 DEF PoseNext

LEMMA EveryMoveIsRigid ==
  ASSUME PoseAssumption, PosesInv, PoseNext, bodies # <<>>, moved' # <<>>
  PROVE  /\ bodies'[1] = moved'[1]
         /\ \A i \in DOMAIN bodies : Seen(bodies', i) = Seen(bodies, i)
         /\ \A i, j \in DOMAIN bodies : Gap(bodies'[i], bodies'[j]) = Gap(bodies[i], bodies[j])
<1>1. PICK pose \in Poses : SetPose(pose)
  BY DEF PoseNext, LoadModel, Turn
<1>2. moved'[1] = pose
  BY <1>1 DEF SetPose
<1> QED
  BY <1>1, <1>2, SetPoseIsRigid

(* A model of any number of bodies, placed anywhere and moved anywhere,    *)
(* keeps its shape (Model::SetPose).                                       *)
THEOREM ModelsMoveRigidly == PoseSpec => MovesRigidly
<1>1. PoseInit => PosesInv
  BY DEF PoseInit, PosesInv
<1>2. PosesInv /\ [PoseNext]_poseVars => PosesInv'
  BY PosesInvNext, PoseAssumption
<1>3. PosesInv /\ [PoseNext]_poseVars
        => [bodies # <<>> /\ moved' # <<>> =>
             /\ bodies'[1] = moved'[1]
             /\ \A i \in DOMAIN bodies : Seen(bodies', i) = Seen(bodies, i)
             /\ \A i, j \in DOMAIN bodies :
                  Gap(bodies'[i], bodies'[j]) = Gap(bodies[i], bodies[j])]_poseVars
  BY EveryMoveIsRigid, PoseAssumption
<1> QED
  BY <1>1, <1>2, <1>3, PTL DEF PoseSpec, MovesRigidly

(***************************************************************************)
(* Walls                                                                   *)
(***************************************************************************)

LEMMA SquareIs ==
  ASSUME NEW x \in Int
  PROVE  x * x \in Nat /\ (x # 0 => x * x > 0)
<1>1. CASE x >= 0
  <2>1. x * x >= 0 * x
    BY <1>1, ProductBounds
  <2>2. x >= 1 => x * x >= 1 * x
    BY <1>1, ProductBounds
  <2> QED
    BY <1>1, <2>1, <2>2
<1>2. CASE x < 0
  <2>1. (-x) * (-x) >= 1 * (-x)
    BY <1>2, ProductBounds
  <2>2. (-x) * (-x) = x * x
    OBVIOUS
  <2> QED
    BY <1>2, <2>1, <2>2
<1> QED
  BY <1>1, <1>2

LEMMA LengthIs ==
  ASSUME NEW dx \in Int, NEW dy \in Int, dx # 0 \/ dy # 0
  PROVE  dy * dy + dx * dx \in Nat \ {0}
<1>1. dx * dx \in Nat /\ dy * dy \in Nat /\ (dx * dx > 0 \/ dy * dy > 0)
  BY SquareIs
<1> QED
  BY <1>1

Shift(d) == IF d < 0 THEN Distance ELSE -Distance

(* Where the ends of the new wall are                                      *)
LEMMA ShiftIs ==
  ASSUME WallAssumption, NEW wall \in Wall, NEW d \in Int
  PROVE  LET new == CalculateNewWall(d, wall)
             by == Shift(d)
             a == Along(wall)
         IN  /\ by \in Int \ {0} /\ a[1] \in Int /\ a[2] \in Int
             /\ new \in Wall
             /\ \A k \in 1 .. 2 :
                  /\ new[k][1] = IF a[1] # 0 /\ a[2] = 0 THEN wall[k][1] ELSE wall[k][1] + by
                  /\ new[k][2] = IF a[1] = 0 THEN wall[k][2] ELSE wall[k][2] + by
                  /\ wall[k][1] \in Int /\ wall[k][2] \in Int
             /\ Along(new) = a
<1> DEFINE new == CalculateNewWall(d, wall)
           by == Shift(d)
           a == Along(wall)
<1>1. \A k \in 1 .. 2 : wall[k][1] \in Int /\ wall[k][2] \in Int
  BY DEF Wall, Vertex
<1>2. by \in Int \ {0}
  BY DEF WallAssumption, Shift
<1>3. /\ a[1] = wall[2][1] - wall[1][1] /\ a[2] = wall[2][2] - wall[1][2]
      /\ a[1] \in Int /\ a[2] \in Int
      /\ a[1] = 0 <=> wall[1][1] = wall[2][1]
      /\ a[2] = 0 <=> wall[1][2] = wall[2][2]
  BY <1>1 DEF Along
<1>4. new = [k \in 1 .. 2 |->
               <<IF a[1] # 0 /\ a[2] = 0 THEN wall[k][1] ELSE wall[k][1] + by,
                 IF a[1] = 0 THEN wall[k][2] ELSE wall[k][2] + by>>]
  BY <1>3 DEF CalculateNewWall, Shift
<1> HIDE DEF new, by
<1>5. \A k \in 1 .. 2 :
        new[k] = <<IF a[1] # 0 /\ a[2] = 0 THEN wall[k][1] ELSE wall[k][1] + by,
                   IF a[1] = 0 THEN wall[k][2] ELSE wall[k][2] + by>>
  BY <1>4
<1>6. \A k \in 1 .. 2 :
        /\ new[k][1] = IF a[1] # 0 /\ a[2] = 0 THEN wall[k][1] ELSE wall[k][1] + by
        /\ new[k][2] = IF a[1] = 0 THEN wall[k][2] ELSE wall[k][2] + by
  BY <1>5
<1>7. new \in Wall
  <2>1. \A p, q \in Int : <<p, q>> \in Vertex
    BY DEF Vertex
  <2>2. ASSUME NEW k \in 1 .. 2 PROVE new[k] \in Vertex
    <3>1. wall[k][1] + by \in Int /\ wall[k][2] + by \in Int
      BY <1>1, <1>2
    <3>2. new[k] = <<IF a[1] # 0 /\ a[2] = 0 THEN wall[k][1] ELSE wall[k][1] + by,
                     IF a[1] = 0 THEN wall[k][2] ELSE wall[k][2] + by>>
      BY <1>5
    <3> HIDE DEF a
    <3>3. /\ (IF a[1] # 0 /\ a[2] = 0 THEN wall[k][1] ELSE wall[k][1] + by) \in Int
          /\ (IF a[1] = 0 THEN wall[k][2] ELSE wall[k][2] + by) \in Int
      BY <1>1, <3>1
    <3> QED
      BY <2>1, <3>2, <3>3, Zenon
  <2>3. new = [k \in 1 .. 2 |-> new[k]]
    BY <1>4
  <2>4. new \in [1 .. 2 -> Vertex]
    BY <2>2, <2>3, Zenon
  <2> QED
    BY <2>4 DEF Wall
<1>8. Along(new) = a
  <2>1. new[2][1] - new[1][1] = wall[2][1] - wall[1][1]
    BY <1>1, <1>2, <1>6
  <2>2. new[2][2] - new[1][2] = wall[2][2] - wall[1][2]
    BY <1>1, <1>2, <1>6
  <2> QED
    BY <2>1, <2>2 DEF Along
<1> QED
  BY <1>1, <1>2, <1>3, <1>6, <1>7, <1>8 DEF new, by

(* How far it is from the old one, and on which side                       *)
LEMMA OffsetIs ==
  ASSUME WallAssumption, NEW wall \in Wall, NEW d \in Int
  PROVE  LET new == CalculateNewWall(d, wall)
             by == Shift(d)
             a == Along(wall)
         IN  /\ Offset(wall, new) = <<IF a[1] # 0 /\ a[2] = 0 THEN 0 ELSE by,
                                      IF a[1] = 0 THEN 0 ELSE by>>
             /\ SideOf(wall, new[1]) = by * (a[2] - a[1])
             /\ RunsBeside(wall, new)
<1> DEFINE new == CalculateNewWall(d, wall)
           by == Shift(d)
           a1 == Along(wall)[1]
           a2 == Along(wall)[2]
           p == IF a1 # 0 /\ a2 = 0 THEN 0 ELSE by
           q == IF a1 = 0 THEN 0 ELSE by
           o == Offset(wall, new)
<1>1. /\ by \in Int \ {0} /\ a1 \in Int /\ a2 \in Int /\ Along(new) = Along(wall)
      /\ new[1][1] = IF a1 # 0 /\ a2 = 0 THEN wall[1][1] ELSE wall[1][1] + by
      /\ new[1][2] = IF a1 = 0 THEN wall[1][2] ELSE wall[1][2] + by
      /\ wall[1][1] \in Int /\ wall[1][2] \in Int
  BY ShiftIs
<1>2. Distance \in Int /\ (by = Distance \/ by = -Distance)
  BY DEF Shift, WallAssumption
<1>3. /\ Along(wall) = <<a1, a2>>
      /\ a1 = wall[2][1] - wall[1][1] /\ a2 = wall[2][2] - wall[1][2]
      /\ Straight(wall) => a1 = 0 \/ a2 = 0
  BY DEF Along, Straight
<1>4. SideOf(wall, new[1])
        = (new[1][1] - wall[1][1]) * a2 - (new[1][2] - wall[1][2]) * a1
  BY <1>3 DEF SideOf
<1>5. o = <<new[1][1] - wall[1][1], new[1][2] - wall[1][2]>>
  BY DEF Offset
<1> HIDE DEF new, by, a1, a2, o
<1>6. new[1][1] - wall[1][1] = p /\ new[1][2] - wall[1][2] = q
  BY <1>1
<1>7. o = <<p, q>> /\ SideOf(wall, new[1]) = p * a2 - q * a1
  BY <1>4, <1>5, <1>6
<1>8. p \in Int /\ q \in Int /\ p * a2 - q * a1 = by * (a2 - a1)
  <2>1. CASE a1 = 0
    BY <1>1, <2>1
  <2>2. CASE a1 # 0 /\ a2 = 0
    BY <1>1, <2>2
  <2>3. CASE a1 # 0 /\ a2 # 0
    BY <1>1, <2>3
  <2> QED
    BY <2>1, <2>2, <2>3
<1>9. a1 = 0 \/ a2 = 0 => p * a1 + q * a2 = 0 /\ p * p + q * q = Distance * Distance
  <2>1. by * by = Distance * Distance /\ by * by \in Int
    BY <1>1, <1>2
  <2>2. CASE a1 = 0
    <3>1. p = by /\ q = 0
      BY <2>2
    <3>2. p * a1 + q * a2 = 0 /\ p * p + q * q = by * by
      BY <1>1, <2>2, <3>1
    <3> QED
      BY <2>1, <3>2
  <2>3. CASE a1 # 0 /\ a2 = 0
    <3>1. p = 0 /\ q = by
      BY <2>3
    <3>2. p * a1 + q * a2 = 0 /\ p * p + q * q = by * by
      BY <1>1, <2>3, <3>1
    <3> QED
      BY <2>1, <3>2
  <2> QED
    BY <2>2, <2>3
<1> HIDE DEF p, q
<1>10. Dot(o, Along(wall)) = p * a1 + q * a2 /\ Dot(o, o) = p * p + q * q
  BY <1>3, <1>7 DEF Dot
<1>11. RunsBeside(wall, new)
  BY <1>1, <1>3, <1>9, <1>10 DEF RunsBeside, o
<1> QED
  BY <1>7, <1>8, <1>11 DEF new, by, a1, a2, p, q, o

LEMMA SignOf ==
  ASSUME NEW x \in Int, NEW e \in Int \ {0}
  PROVE  /\ e > 0 => (x * e > 0 <=> x > 0) /\ (x * e < 0 <=> x < 0)
         /\ e < 0 => (x * e > 0 <=> x < 0) /\ (x * e < 0 <=> x > 0)
<1>1. ASSUME NEW f \in Int, f > 0
      PROVE  (x * f > 0 <=> x > 0) /\ (x * f < 0 <=> x < 0)
  <2>1. x > 0 => x * f >= 1 * f
    BY <1>1, ProductBounds
  <2>2. x < 0 => x * f <= (-1) * f
    BY <1>1, ProductBounds
  <2>3. x = 0 => x * f = 0
    BY <1>1
  <2>4. x * f \in Int /\ 1 * f = f /\ (-1) * f = -f
    BY <1>1
  <2> QED
    BY <1>1, <2>1, <2>2, <2>3, <2>4
<1>2. x * (-e) = -(x * e) /\ x * e \in Int
  OBVIOUS
<1> QED
  BY <1>1, <1>2

LEMMA LiesAsDrawn ==
  ASSUME WallAssumption, NEW wall \in Wall, SideOf(wall, ini_pose) \in Int \ {0}
  PROVE  LiesByDrawing(wall, CalculateNewWall(SideOf(wall, ini_pose), wall))
<1> DEFINE d == SideOf(wall, ini_pose)
           new == CalculateNewWall(d, wall)
           a1 == Along(wall)[1]
           a2 == Along(wall)[2]
           x == Distance * (a1 - a2)
<1>1. d \in Int \ {0}
  OBVIOUS
<1> HIDE DEF d
<1>2. SideOf(wall, new[1]) = Shift(d) * (a2 - a1) /\ a1 \in Int /\ a2 \in Int
  BY <1>1, OffsetIs, ShiftIs
<1>3. Distance \in Int
  BY DEF WallAssumption
<1> HIDE DEF a1, a2, new
<1>4. x \in Int
  BY <1>2, <1>3
<1>5. SideOf(wall, new[1]) = IF d < 0 THEN -x ELSE x
  <2>1. Distance * (a2 - a1) = -x /\ (-Distance) * (a2 - a1) = x
    BY <1>2, <1>3
  <2> QED
    BY <1>2, <2>1 DEF Shift
<1> HIDE DEF x
<1>6. /\ SideOf(wall, new[1]) * d > 0 <=> x > 0
      /\ SideOf(wall, new[1]) * d < 0 <=> x < 0
  <2>1. CASE d < 0
    <3>1. (-x) * d > 0 <=> -x < 0
      BY <1>1, <1>4, <2>1, SignOf
    <3>2. (-x) * d < 0 <=> -x > 0
      BY <1>1, <1>4, <2>1, SignOf
    <3> QED
      BY <1>4, <1>5, <2>1, <3>1, <3>2
  <2>2. CASE d > 0
    <3>1. (x * d > 0 <=> x > 0) /\ (x * d < 0 <=> x < 0)
      BY <1>1, <1>4, <2>2, SignOf
    <3>2. SideOf(wall, new[1]) = x
      BY <1>1, <1>5, <2>2
    <3> QED
      BY <3>1, <3>2, Zenon
  <2>3. d < 0 \/ d > 0
    BY <1>1
  <2> QED
    BY <2>1, <2>2, <2>3, Zenon
<1> QED
  BY <1>6 DEF LiesByDrawing, d, new, a1, a2, x

(* The foot of an end of the new wall, times the old one's length squared  *)
LEMMA FootIs ==
  ASSUME NEW a \in Int, NEW b \in Int, NEW p \in Int, NEW q \in Int, NEW n, NEW c,
         n = b * b + a * a, c = b * p - a * q
  PROVE  /\ (-(c * b)) * a + (c * a) * b = 0
         /\ (n * p - c * b) * b = (n * q + c * a) * a
<1>1. c \in Int /\ n \in Int /\ c * b \in Int /\ c * a \in Int
  OBVIOUS
<1>2. (-(c * b)) * a + (c * a) * b = 0
  BY <1>1
<1>3. (n * p - c * b) * b = n * p * b - c * (b * b)
  BY <1>1
<1>4. (n * q + c * a) * a = n * q * a + c * (a * a)
  BY <1>1
<1>5. n * p * b - n * q * a = n * c
  BY <1>1
<1>6. c * (b * b) + c * (a * a) = n * c
  BY <1>1
<1>7. /\ n * p * b \in Int /\ n * q * a \in Int /\ c * (b * b) \in Int
      /\ c * (a * a) \in Int /\ n * c \in Int
  BY <1>1
<1> QED
  BY <1>2, <1>3, <1>4, <1>5, <1>6, <1>7

LEMMA SideIs ==
  ASSUME WallAssumption, NEW wall \in Wall, NEW d \in Int, NEW k \in 1 .. 2,
         Along(wall)[1] # 0 \/ Along(wall)[2] # 0
  PROVE  LET v == CalculateNewWall(d, wall)[k]
             e == SideWall(wall, v)
         IN  StandsOn(wall, k, e) /\ e.top = v /\ e \in Side
<1> DEFINE v == CalculateNewWall(d, wall)[k]
           e == SideWall(wall, v)
           by == Shift(d)
           a == Along(wall)[1]
           b == Along(wall)[2]
           n == b * b + a * a
           x == wall[1][1]
           y == wall[1][2]
           v1 == v[1]
           v2 == v[2]
           p == v1 - x
           q == v2 - y
           c == b * p - a * q
           X == n * v1 - c * b
           Y == n * v2 + c * a
<1>1. /\ by \in Int \ {0} /\ a \in Int /\ b \in Int
      /\ v1 = IF a # 0 /\ b = 0 THEN wall[k][1] ELSE wall[k][1] + by
      /\ v2 = IF a = 0 THEN wall[k][2] ELSE wall[k][2] + by
      /\ \A j \in 1 .. 2 : wall[j][1] \in Int /\ wall[j][2] \in Int
      /\ v \in Vertex
  BY ShiftIs DEF Wall
<1>2. /\ a = wall[2][1] - wall[1][1] /\ b = wall[2][2] - wall[1][2]
      /\ Along(wall) = <<a, b>> /\ (Straight(wall) => a = 0 \/ b = 0)
  BY DEF Along, Straight
<1>3. e = [top |-> v, foot |-> <<X, Y>>, scale |-> n]
  BY <1>2 DEF SideWall
<1>4. n \in Nat \ {0}
  BY <1>1, LengthIs
<1>5. v1 \in Int /\ v2 \in Int /\ x \in Int /\ y \in Int
  BY <1>1 DEF Vertex
<1> HIDE DEF a, b, v, v1, v2, x, y, by
<1>6. /\ p \in Int /\ q \in Int /\ c \in Int /\ X \in Int /\ Y \in Int
      /\ n * v1 \in Int /\ n * v2 \in Int /\ c * b \in Int /\ c * a \in Int
  <2>1. p \in Int /\ q \in Int
    BY <1>5
  <2> HIDE DEF p, q
  <2>2. c \in Int
    BY <1>1, <2>1
  <2> HIDE DEF n, c
  <2>3. n * v1 \in Int /\ n * v2 \in Int /\ c * b \in Int /\ c * a \in Int
    BY <1>1, <1>4, <1>5, <2>2
  <2> QED
    BY <2>1, <2>2, <2>3
<1>7. (-(c * b)) * a + (c * a) * b = 0 /\ (n * p - c * b) * b = (n * q + c * a) * a
  <2> HIDE DEF p, q
  <2> QED
    BY <1>1, <1>6, FootIs
<1>8. e.top = v /\ e.foot = <<X, Y>> /\ e.scale = n /\ e \in Side
  <2> HIDE DEF X, Y, n
  <2>1. <<X, Y>> \in Vertex
    BY <1>6 DEF Vertex
  <2> QED
    BY <1>1, <1>3, <1>4, <2>1 DEF Side
<1>9. X - n * v1 = -(c * b) /\ Y - n * v2 = c * a
  <2> HIDE DEF n, c
  <2> QED
    BY <1>6
<1>10. X - n * x = n * p - c * b /\ Y - n * y = n * q + c * a
  <2>1. n * p = n * v1 - n * x /\ n * q = n * v2 - n * y
    BY <1>4, <1>5
  <2> HIDE DEF n, p, q, c
  <2>2. n * x \in Int /\ n * y \in Int
    BY <1>4, <1>5
  <2> QED
    BY <1>6, <2>1, <2>2
<1>11. ASSUME Straight(wall)
       PROVE  X = n * wall[k][1] /\ Y = n * wall[k][2]
  <2> DEFINE w1 == wall[k][1]
             w2 == wall[k][2]
  <2>1. w1 \in Int /\ w2 \in Int
    BY <1>1
  <2>2. k = 1 => w1 = x /\ w2 = y
    BY DEF x, y
  <2>3. k = 2 => w1 = x + a /\ w2 = y + b
    BY <1>1, <1>2 DEF x, y
  <2>4. k = 1 \/ k = 2
    OBVIOUS
  <2>5. /\ v1 = IF a # 0 /\ b = 0 THEN w1 ELSE w1 + by
        /\ v2 = IF a = 0 THEN w2 ELSE w2 + by
    BY <1>1
  <2> HIDE DEF w1, w2
  <2>6. CASE a = 0
    <3>1. w1 = x /\ v1 = x + by /\ v2 = w2
      BY <1>5, <2>2, <2>3, <2>4, <2>5, <2>6
    <3>2. n = b * b /\ c = b * by
      BY <1>1, <1>5, <2>6, <3>1
    <3>3. X = (b * b) * (x + by) - (b * by) * b /\ Y = n * v2 + c * 0
      BY <2>6, <3>1, <3>2
    <3>4. (b * b) * (x + by) - (b * by) * b = (b * b) * x
      BY <1>1, <1>5
    <3>5. Y = n * v2
      BY <1>4, <1>5, <1>6, <3>3
    <3> QED
      BY <3>1, <3>2, <3>3, <3>4, <3>5 DEF w1, w2
  <2>7. CASE a # 0 /\ b = 0
    <3>1. w2 = y /\ v1 = w1 /\ v2 = y + by
      BY <1>5, <2>2, <2>3, <2>4, <2>5, <2>7
    <3>2. n = a * a /\ c = -(a * by)
      <4>1. q = by
        BY <1>1, <1>5, <3>1
      <4>2. n = a * a
        BY <1>1, <2>7
      <4>3. c = 0 * p - a * by
        BY <2>7, <4>1
      <4> HIDE DEF n, c, p, q
      <4>4. 0 * p = 0 /\ a * by \in Int
        BY <1>1, <1>6
      <4> QED
        BY <4>2, <4>3, <4>4
    <3>3. X = n * v1 - c * 0 /\ Y = (a * a) * (y + by) + (-(a * by)) * a
      BY <2>7, <3>1, <3>2
    <3>4. (a * a) * (y + by) + (-(a * by)) * a = (a * a) * y
      BY <1>1, <1>5
    <3>5. X = n * v1
      BY <1>4, <1>5, <1>6, <3>3
    <3> QED
      BY <3>1, <3>2, <3>3, <3>4, <3>5 DEF w1, w2
  <2> QED
    BY <1>2, <1>11, <2>6, <2>7
<1>12. StandsOn(wall, k, e)
  <2> HIDE DEF X, Y, n, c, p, q
  <2>1. Dot(<<e.foot[1] - e.scale * e.top[1], e.foot[2] - e.scale * e.top[2]>>, Along(wall)) = 0
    <3>1. e.foot[1] - e.scale * e.top[1] = -(c * b) /\ e.foot[2] - e.scale * e.top[2] = c * a
      BY <1>8, <1>9 DEF v1, v2
    <3> QED
      BY <1>2, <1>7, <3>1 DEF Dot
  <2>2. /\ e.foot[1] - e.scale * wall[1][1] = n * p - c * b
        /\ e.foot[2] - e.scale * wall[1][2] = n * q + c * a
    BY <1>8, <1>10 DEF x, y
  <2>3. Along(wall)[1] = a /\ Along(wall)[2] = b
    BY <1>2
  <2>4. Straight(wall) => e.foot = <<e.scale * wall[k][1], e.scale * wall[k][2]>>
    BY <1>8, <1>11
  <2> QED
    BY <1>4, <1>7, <1>8, <2>1, <2>2, <2>3, <2>4 DEF StandsOn
<1> QED
  BY <1>8, <1>12 DEF e, v

(* What is added to a wall                                                 *)
Edge == Wall \cup Side
LEMMA ObstacleIs ==
  ASSUME WallAssumption, NEW wall \in Wall, NEW d \in Int,
         Along(wall)[1] # 0 \/ Along(wall)[2] # 0
  PROVE  LET o == Obstacle(wall, d)
         IN  /\ o \in Seq(Edge) /\ Len(o) = 3
             /\ o[1] = CalculateNewWall(d, wall)
             /\ \A k \in 1 .. 2 : StandsOn(wall, k, o[1 + k]) /\ o[1 + k].top = o[1][k]
<1> DEFINE new == CalculateNewWall(d, wall)
           o == Obstacle(wall, d)
           e1 == SideWall(wall, new[1])
           e2 == SideWall(wall, new[2])
<1>1. o = <<new, e1, e2>>
  BY DEF Obstacle
<1>2. new \in Edge
  BY ShiftIs DEF Edge
<1>3. /\ StandsOn(wall, 1, e1) /\ e1.top = new[1] /\ e1 \in Edge
      /\ StandsOn(wall, 2, e2) /\ e2.top = new[2] /\ e2 \in Edge
  BY SideIs DEF Edge
<1> HIDE DEF new, e1, e2, o
<1>4. o \in Seq(Edge) /\ Len(o) = 3 /\ o[1] = new /\ o[2] = e1 /\ o[3] = e2
  BY <1>1, <1>2, <1>3
<1>5. \A k \in 1 .. 2 : StandsOn(wall, k, o[1 + k]) /\ o[1 + k].top = o[1][k]
  <2>1. \A k \in 1 .. 2 : k = 1 \/ k = 2
    OBVIOUS
  <2>2. 1 + 1 = 2 /\ 1 + 2 = 3
    OBVIOUS
  <2> QED
    BY <1>3, <1>4, <2>1, <2>2
<1> QED
  BY <1>4, <1>5 DEF o, new

LEMMA ConcatIs ==
  ASSUME NEW s \in Seq(Edge), NEW r \in Seq(Edge)
  PROVE  /\ s \o r \in Seq(Edge) /\ Len(s \o r) = Len(s) + Len(r)
         /\ \A k \in DOMAIN s : (s \o r)[k] = s[k]
         /\ \A k \in DOMAIN r : (s \o r)[Len(s) + k] = r[k]
OBVIOUS

Stride == IF double_wall THEN 6 ELSE 3
Edges(wall, d) == Obstacle(wall, d) \o (IF double_wall THEN Obstacle(wall, -d) ELSE << >>)

LEMMA EdgesAre ==
  ASSUME WallAssumption, double_wall \in BOOLEAN, NEW wall \in Wall,
         SideOf(wall, ini_pose) \in Int \ {0},
         Along(wall)[1] # 0 \/ Along(wall)[2] # 0
  PROVE  LET edges == Edges(wall, SideOf(wall, ini_pose))
         IN  edges \in Seq(Edge) /\ Len(edges) = Stride /\ Closes(wall, edges)
<1> DEFINE d == SideOf(wall, ini_pose)
           o == Obstacle(wall, d)
           p == Obstacle(wall, -d)
           edges == Edges(wall, d)
<1>1. /\ o \in Seq(Edge) /\ Len(o) = 3
      /\ \A k \in 1 .. 2 : StandsOn(wall, k, o[1 + k]) /\ o[1 + k].top = o[1][k]
  BY ObstacleIs
<1>2. /\ p \in Seq(Edge) /\ Len(p) = 3
      /\ \A k \in 1 .. 2 : StandsOn(wall, k, p[1 + k]) /\ p[1 + k].top = p[1][k]
  BY ObstacleIs
<1>3. /\ RunsBeside(wall, o[1]) /\ RunsBeside(wall, p[1]) /\ LiesByDrawing(wall, o[1])
      /\ \A k \in 1 .. 2 : Offset(wall, p[1])[k] = -Offset(wall, o[1])[k]
  <2>1. o[1] = CalculateNewWall(d, wall) /\ p[1] = CalculateNewWall(-d, wall)
    BY ObstacleIs
  <2>2. LiesByDrawing(wall, o[1])
    BY <2>1, LiesAsDrawn
  <2>3. d \in Int \ {0} /\ -d \in Int
    OBVIOUS
  <2> HIDE DEF d, o, p
  <2>4. RunsBeside(wall, o[1]) /\ RunsBeside(wall, p[1])
    BY <2>1, <2>3, OffsetIs
  <2> DEFINE a == Along(wall)
  <2>5. /\ Offset(wall, o[1]) = <<IF a[1] # 0 /\ a[2] = 0 THEN 0 ELSE Shift(d),
                                  IF a[1] = 0 THEN 0 ELSE Shift(d)>>
        /\ Offset(wall, p[1]) = <<IF a[1] # 0 /\ a[2] = 0 THEN 0 ELSE Shift(-d),
                                  IF a[1] = 0 THEN 0 ELSE Shift(-d)>>
    BY <2>1, <2>3, OffsetIs
  <2>6. Shift(d) \in Int /\ Shift(-d) = -Shift(d)
    BY <2>3 DEF Shift, WallAssumption
  <2>7. \A k \in 1 .. 2 : Offset(wall, p[1])[k] = -Offset(wall, o[1])[k]
    <3> HIDE DEF a
    <3>1. /\ Offset(wall, p[1])[1] = -Offset(wall, o[1])[1]
          /\ Offset(wall, p[1])[2] = -Offset(wall, o[1])[2]
      BY <2>5, <2>6
    <3>2. \A k \in 1 .. 2 : k = 1 \/ k = 2
      OBVIOUS
    <3> QED
      BY <3>1, <3>2
  <2> QED
    BY <2>2, <2>4, <2>7
<1>4. edges = o \o (IF double_wall THEN p ELSE << >>)
  BY DEF Edges
<1> HIDE DEF o, p, edges, d
<1>5. CASE ~double_wall
  <2>1. edges = o
    BY <1>1, <1>4, <1>5
  <2> QED
    BY <1>1, <1>3, <1>5, <2>1 DEF Closes, Stride, edges, d
<1>6. CASE double_wall
  <2>1. edges = o \o p
    BY <1>4, <1>6
  <2>2. o \in Seq(Edge) /\ p \in Seq(Edge) /\ DOMAIN o = 1 .. 3 /\ DOMAIN p = 1 .. 3
        /\ Len(o) = 3 /\ Len(p) = 3
    BY <1>1, <1>2
  <2>3. /\ edges \in Seq(Edge) /\ Len(edges) = 3 + 3
        /\ \A k \in 1 .. 3 : edges[k] = o[k]
        /\ \A k \in 1 .. 3 : edges[3 + k] = p[k]
    <3>1. /\ o \o p \in Seq(Edge) /\ Len(o \o p) = Len(o) + Len(p)
          /\ \A k \in DOMAIN o : (o \o p)[k] = o[k]
          /\ \A k \in DOMAIN p : (o \o p)[Len(o) + k] = p[k]
      BY <2>2, ConcatIs
    <3> QED
      BY <2>1, <2>2, <3>1, Zenon
  <2>4. Len(edges) = 6 /\ edges[1] = o[1] /\ edges[4] = p[1]
    <3>1. 1 \in 1 .. 3 /\ 3 + 1 = 4 /\ 3 + 3 = 6
      OBVIOUS
    <3> QED
      BY <2>3, <3>1
  <2>5. \A k \in 1 .. 2 : edges[1 + k] = o[1 + k] /\ edges[4 + k] = p[1 + k]
    <3>1. \A k \in 1 .. 2 : 1 + k \in 1 .. 3 /\ 3 + (1 + k) = 4 + k
      OBVIOUS
    <3> QED
      BY <2>3, <3>1
  <2> QED
    BY <1>1, <1>2, <1>3, <1>6, <2>3, <2>4, <2>5 DEF Closes, Stride, edges, d
<1> QED
  BY <1>5, <1>6 DEF edges, d

-----------------------------------------------------------------------------
(* The walls of the layer come after those that were added, each addition  *)
(* of one length (Stride), so that an index drawn from the list stands for *)
(* the wall it stood for when the list was made.                           *)
WallsInv ==
  /\ double_wall \in BOOLEAN /\ ini_pose \in Vertex /\ models \in Robots
  /\ origin \in Origins /\ walls \in Seq(Edge)
  /\ obstacles \in Seq([old : Wall, edges : Seq(Edge)])
  /\ phase = "parsed" => obstacles = << >>
  /\ \E ws \in WallLayouts :
       /\ Len(walls) = Len(obstacles) * Stride + Len(ws)
       /\ \A i \in DOMAIN ws : walls[Len(obstacles) * Stride + i] = ws[i]
       /\ wall_list \subseteq DOMAIN ws
       /\ \A n \in DOMAIN obstacles : \E i \in DOMAIN ws \ wall_list : obstacles[n].old = ws[i]
  /\ \A n \in DOMAIN obstacles : Closes(obstacles[n].old, obstacles[n].edges)
  /\ \A m, n \in DOMAIN obstacles : m # n => obstacles[m].old # obstacles[n].old
  /\ phase = "done" => Len(obstacles) = wanted

LEMMA SideMeansLength ==
  ASSUME NEW wall \in Wall, NEW p \in Vertex, SideOf(wall, p) # 0
  PROVE  Along(wall)[1] # 0 \/ Along(wall)[2] # 0
<1>1. /\ Along(wall)[1] = wall[2][1] - wall[1][1] /\ Along(wall)[2] = wall[2][2] - wall[1][2]
      /\ p[1] - wall[1][1] \in Int /\ p[2] - wall[1][2] \in Int
      /\ wall[2][1] - wall[1][1] \in Int /\ wall[2][2] - wall[1][2] \in Int
  BY DEF Along, Wall, Vertex
<1>2. \A a, b \in Int : a * 0 - b * 0 = 0
  OBVIOUS
<1> QED
  BY <1>1, <1>2 DEF SideOf

LEMMA SideIsWhole ==
  ASSUME NEW wall \in Wall, NEW p \in Vertex
  PROVE  SideOf(wall, p) \in Int
<1>1. /\ p[1] - wall[1][1] \in Int /\ p[2] - wall[1][2] \in Int
      /\ wall[2][1] - wall[1][1] \in Int /\ wall[2][2] - wall[1][2] \in Int
  BY DEF Wall, Vertex
<1> QED
  BY <1>1 DEF SideOf

(* CreateFixture puts the new edges in front of what was there.            *)
LEMMA InFront ==
  ASSUME NEW e \in Seq(Edge), NEW w \in Seq(Edge)
  PROVE  LET r == [i \in 1 .. Len(e) |-> e[Len(e) + 1 - i]] \o w
         IN  /\ r \in Seq(Edge) /\ Len(r) = Len(e) + Len(w)
             /\ \A j \in DOMAIN w : r[Len(e) + j] = w[j]
<1> DEFINE f == [i \in 1 .. Len(e) |-> e[Len(e) + 1 - i]]
<1>1. Len(e) \in Nat /\ \A i \in 1 .. Len(e) : Len(e) + 1 - i \in 1 .. Len(e)
  OBVIOUS
<1>2. \A i \in 1 .. Len(e) : f[i] \in Edge
  BY <1>1
<1>3. f \in Seq(Edge) /\ Len(f) = Len(e)
  BY <1>1, <1>2
<1> HIDE DEF f
<1>4. /\ f \o w \in Seq(Edge) /\ Len(f \o w) = Len(e) + Len(w)
      /\ \A j \in DOMAIN w : (f \o w)[Len(e) + j] = w[j]
  BY <1>1, <1>3
<1> QED
  BY <1>4 DEF f

LEMMA WallsInvStays ==
  ASSUME WallsInv,
         UNCHANGED <<double_wall, ini_pose, models, origin, walls, obstacles, wall_list,
                     wanted>>,
         phase' = "parsed" => phase = "parsed", phase' = "done" => Len(obstacles) = wanted
  PROVE  WallsInv'
<1>1. Stride' = Stride
  BY DEF Stride
<1>2. PICK ws \in WallLayouts :
        /\ Len(walls) = Len(obstacles) * Stride + Len(ws)
        /\ \A i \in DOMAIN ws : walls[Len(obstacles) * Stride + i] = ws[i]
        /\ wall_list \subseteq DOMAIN ws
        /\ \A n \in DOMAIN obstacles :
              \E i \in DOMAIN ws \ wall_list : obstacles[n].old = ws[i]
  BY DEF WallsInv
<1>3. (\E s \in WallLayouts :
         /\ Len(walls) = Len(obstacles) * Stride + Len(s)
         /\ \A i \in DOMAIN s : walls[Len(obstacles) * Stride + i] = s[i]
         /\ wall_list \subseteq DOMAIN s
         /\ \A n \in DOMAIN obstacles :
              \E i \in DOMAIN s \ wall_list : obstacles[n].old = s[i])'
  BY <1>1, <1>2
<1>4. \A n \in DOMAIN obstacles : Closes(obstacles[n].old, obstacles[n].edges)'
  BY DEF WallsInv, Closes, LiesByDrawing
<1>5. /\ double_wall \in BOOLEAN /\ ini_pose \in Vertex /\ models \in Robots
      /\ walls \in Seq(Edge) /\ obstacles \in Seq([old : Wall, edges : Seq(Edge)])
      /\ origin \in Origins
      /\ phase = "parsed" => obstacles = << >>
      /\ \A m, n \in DOMAIN obstacles : m # n => obstacles[m].old # obstacles[n].old
  BY DEF WallsInv
<1> QED
  BY <1>3, <1>4, <1>5 DEF WallsInv

LEMMA AddAnotherInv ==
  ASSUME WallAssumption, WallsInv, AddAnother
  PROVE  WallsInv'
<1>1. /\ phase = "adding" /\ double_wall' = double_wall /\ ini_pose' = ini_pose
      /\ models' = models /\ origin' = origin /\ wanted' = wanted /\ Stride' = Stride
  BY DEF AddAnother, Stride
<1>2. CASE UNCHANGED <<walls, obstacles, wall_list>> /\ phase' = "undefined"
  BY <1>1, <1>2, WallsInvStays
<1>3. CASE ~(UNCHANGED <<walls, obstacles, wall_list>> /\ phase' = "undefined")
  <2> DEFINE N == Len(obstacles)
  <2>1. PICK i \in wall_list :
          LET added == N * (IF double_wall THEN 6 ELSE 3)
              wall == walls[added + i]
          IN  /\ SideOf(wall, ini_pose) # 0 /\ AddFullWall(wall)
              /\ wall_list' = wall_list \ {i} /\ phase' = phase
    BY <1>1, <1>3 DEF AddAnother
  <2>2. PICK ws \in WallLayouts :
          /\ Len(walls) = N * Stride + Len(ws)
          /\ \A j \in DOMAIN ws : walls[N * Stride + j] = ws[j]
          /\ wall_list \subseteq DOMAIN ws
          /\ \A n \in DOMAIN obstacles :
                \E j \in DOMAIN ws \ wall_list : obstacles[n].old = ws[j]
    BY DEF WallsInv
  <2> DEFINE wall == walls[N * Stride + i]
             d == SideOf(wall, ini_pose)
             edges == Edges(wall, d)
  <2>3. /\ d # 0 /\ wall_list' = wall_list \ {i} /\ phase' = phase
        /\ walls' = [j \in 1 .. Len(edges) |-> edges[Len(edges) + 1 - j]] \o walls
        /\ obstacles' = Append(obstacles, [old |-> wall, edges |-> edges])
    BY <2>1 DEF AddFullWall, Stride, Edges
  <2>4. /\ i \in DOMAIN ws /\ wall = ws[i] /\ wall \in Wall
        /\ ws \in Seq(Wall) /\ Len(ws) \in Nat /\ DOMAIN ws = 1 .. Len(ws)
        /\ \A j, k \in DOMAIN ws : j # k => ws[j] # ws[k]
    BY <2>1, <2>2 DEF WallAssumption
  <2>5. /\ double_wall \in BOOLEAN /\ ini_pose \in Vertex /\ walls \in Seq(Edge)
        /\ obstacles \in Seq([old : Wall, edges : Seq(Edge)]) /\ N \in Nat
        /\ DOMAIN obstacles = 1 .. N /\ Stride \in Nat
    BY DEF WallsInv, Stride
  <2> HIDE DEF wall
  <2>6. d \in Int \ {0} /\ (Along(wall)[1] # 0 \/ Along(wall)[2] # 0)
    BY <2>3, <2>4, <2>5, SideIsWhole, SideMeansLength
  <2>7. edges \in Seq(Edge) /\ Len(edges) = Stride /\ Closes(wall, edges)
    BY <2>4, <2>5, <2>6, EdgesAre
  <2> HIDE DEF d
  <2> HIDE DEF edges
  <2>8. /\ walls' \in Seq(Edge) /\ Len(walls') = Stride + Len(walls)
        /\ \A j \in DOMAIN walls : walls'[Stride + j] = walls[j]
    BY <2>3, <2>5, <2>7, InFront
  <2> DEFINE new == [old |-> wall, edges |-> edges]
  <2>9. /\ obstacles' \in Seq([old : Wall, edges : Seq(Edge)]) /\ Len(obstacles') = N + 1
        /\ DOMAIN obstacles' = 1 .. N + 1
        /\ \A n \in 1 .. N : obstacles'[n] = obstacles[n]
        /\ obstacles'[N + 1].old = wall /\ obstacles'[N + 1].edges = edges
    <3>1. new \in [old : Wall, edges : Seq(Edge)] /\ new.old = wall /\ new.edges = edges
      BY <2>4, <2>7
    <3> HIDE DEF new
    <3> QED
      BY <2>3, <2>5, <3>1 DEF new
  <2> HIDE DEF N
  <2>10. /\ Len(walls') = (N + 1) * Stride + Len(ws)
         /\ \A j \in DOMAIN ws : walls'[(N + 1) * Stride + j] = ws[j]
    <3>1. (N + 1) * Stride = Stride + N * Stride /\ N * Stride \in Nat
      BY <2>5
    <3>2. DOMAIN walls = 1 .. N * Stride + Len(ws)
      BY <2>2, <2>5
    <3>3. \A j \in DOMAIN ws : N * Stride + j \in DOMAIN walls
      BY <2>4, <3>1, <3>2
    <3>4. \A j \in DOMAIN ws : (N + 1) * Stride + j = Stride + (N * Stride + j)
      BY <2>4, <2>5, <3>1
    <3>5. Len(walls') = (N + 1) * Stride + Len(ws)
      BY <2>2, <2>4, <2>5, <2>8, <3>1
    <3>6. \A j \in DOMAIN ws : walls'[(N + 1) * Stride + j] = ws[j]
      BY <2>2, <2>8, <3>3, <3>4, Zenon
    <3> QED
      BY <3>5, <3>6
  <2>11. ASSUME NEW n \in DOMAIN obstacles'
         PROVE  /\ \E j \in DOMAIN ws \ wall_list' : obstacles'[n].old = ws[j]
                /\ Closes(obstacles'[n].old, obstacles'[n].edges)
    <3>1. CASE n = N + 1
      BY <2>3, <2>4, <2>7, <2>9, <3>1
    <3>2. CASE n \in 1 .. N
      BY <2>2, <2>3, <2>5, <2>9, <3>2 DEF WallsInv
    <3> QED
      BY <2>5, <2>9, <3>1, <3>2
  <2>12. \A n \in 1 .. N : obstacles[n].old # wall
    BY <2>1, <2>2, <2>4, <2>5
  <2>13. \A m, n \in DOMAIN obstacles' : m # n => obstacles'[m].old # obstacles'[n].old
    <3> TAKE m, n \in DOMAIN obstacles'
    <3>1. CASE m \in 1 .. N /\ n \in 1 .. N
      BY <2>5, <2>9, <3>1 DEF WallsInv
    <3>2. CASE m = N + 1 /\ n \in 1 .. N
      BY <2>9, <2>12, <3>2
    <3>3. CASE n = N + 1 /\ m \in 1 .. N
      BY <2>9, <2>12, <3>3
    <3> QED
      BY <2>5, <2>9, <3>1, <3>2, <3>3
  <2>14. \E s \in WallLayouts :
           /\ Len(walls') = Len(obstacles') * Stride + Len(s)
           /\ \A j \in DOMAIN s : walls'[Len(obstacles') * Stride + j] = s[j]
           /\ wall_list' \subseteq DOMAIN s
           /\ \A n \in DOMAIN obstacles' :
                \E j \in DOMAIN s \ wall_list' : obstacles'[n].old = s[j]
    <3>1. wall_list' \subseteq DOMAIN ws
      BY <2>2, <2>3
    <3> QED
      BY <2>9, <2>10, <2>11, <3>1
  <2>15. \A n \in DOMAIN obstacles' : Closes(obstacles[n].old, obstacles[n].edges)'
    BY <1>1, <2>11 DEF Closes, LiesByDrawing
  <2>16. models' \in Robots /\ origin' \in Origins /\ phase' = "adding"
    BY <1>1, <2>3 DEF WallsInv
  <2> QED
    BY <1>1, <2>5, <2>8, <2>9, <2>13, <2>14, <2>15, <2>16 DEF WallsInv
<1> QED
  BY <1>2, <1>3

LEMMA MulTIs ==
  ASSUME WallAssumption, NEW o \in Origins, NEW p \in Vertex
  PROVE  b2MulT(o, p) \in Vertex
<1>1. /\ o.place[1] \in Int /\ o.place[2] \in Int /\ o.turn[1] \in Int /\ o.turn[2] \in Int
      /\ p[1] \in Int /\ p[2] \in Int
  BY DEF WallAssumption, Vertex, QuarterTurns
<1>2. \A a, b \in Int : <<a, b>> \in Vertex
  BY DEF Vertex
<1> QED
  BY <1>1, <1>2 DEF b2MulT

LEMMA OnInitializeInv ==
  ASSUME WallAssumption, WallsInv, OnInitialize
  PROVE  WallsInv'
<1>1. /\ phase = "parsed" /\ double_wall' = double_wall /\ walls' = walls
      /\ obstacles' = obstacles /\ models' = models /\ wanted' = wanted
      /\ phase' \in {"thrown", "adding"} /\ obstacles = << >>
      /\ origin' = origin /\ origin' \in Origins
  BY DEF OnInitialize, WallsInv
<1>2. ini_pose' \in Vertex
  <2>1. CASE UNCHANGED ini_pose
    BY <2>1 DEF WallsInv
  <2>2. CASE \E i \in DOMAIN models : ini_pose' = b2MulT(origin, models[i].pose)
    BY <2>2, MulTIs DEF WallsInv, WallAssumption
  <2> QED
    BY <2>1, <2>2 DEF OnInitialize
<1>3. PICK ws \in WallLayouts :
        /\ Len(walls) = Len(obstacles) * Stride + Len(ws)
        /\ \A j \in DOMAIN ws : walls[Len(obstacles) * Stride + j] = ws[j]
        /\ wall_list \subseteq DOMAIN ws
  BY DEF WallsInv
<1>4. wall_list' \subseteq DOMAIN ws
  <2>1. Len(obstacles) = 0 /\ Stride \in Nat
    BY <1>1 DEF Stride
  <2>2. Len(walls) = Len(ws)
    <3>1. ws \in Seq(Wall)
      BY DEF WallAssumption
    <3> QED
      BY <1>3, <2>1, <3>1
  <2>3. DOMAIN walls = DOMAIN ws
    <3>1. ws \in Seq(Wall) /\ walls \in Seq(Edge)
      BY DEF WallAssumption, WallsInv
    <3> QED
      BY <2>2, <3>1
  <2>4. wall_list' = wall_list \/ wall_list' = DOMAIN walls
    BY DEF OnInitialize
  <2> QED
    BY <1>3, <2>3, <2>4
<1>5. DOMAIN obstacles = {}
  BY <1>1
<1>6. Stride' = Stride
  BY <1>1 DEF Stride
<1>7. \E s \in WallLayouts :
        /\ Len(walls') = Len(obstacles') * Stride' + Len(s)
        /\ \A j \in DOMAIN s : walls'[Len(obstacles') * Stride' + j] = s[j]
        /\ wall_list' \subseteq DOMAIN s
        /\ \A n \in DOMAIN obstacles' :
             \E j \in DOMAIN s \ wall_list' : obstacles'[n].old = s[j]
  BY <1>1, <1>3, <1>4, <1>5, <1>6
<1>8. /\ double_wall \in BOOLEAN /\ models \in Robots /\ walls \in Seq(Edge)
      /\ obstacles \in Seq([old : Wall, edges : Seq(Edge)])
  BY DEF WallsInv
<1> QED
  BY <1>1, <1>2, <1>5, <1>7, <1>8 DEF WallsInv

LEMMA WallsInvNext ==
  ASSUME WallAssumption, WallsInv, [WallsNext]_wallVars
  PROVE  WallsInv'
<1>1. CASE Return
  BY <1>1, WallsInvStays DEF Return
<1>2. CASE UNCHANGED wallVars
  BY <1>2, WallsInvStays DEF wallVars, WallsInv
<1> QED
  BY <1>1, <1>2, OnInitializeInv, AddAnotherInv DEF WallsNext

LEMMA WallsInvInit ==
  ASSUME WallAssumption, WallsInit
  PROVE  WallsInv
<1>1. /\ double_wall \in BOOLEAN /\ models \in Robots /\ walls \in WallLayouts
      /\ obstacles = << >> /\ wall_list = {} /\ phase = "parsed" /\ ini_pose = <<0, 0>>
      /\ origin \in Origins
  BY DEF WallsInit
<1>2. ini_pose \in Vertex
  BY <1>1 DEF Vertex
<1>3. walls \in Seq(Edge) /\ Len(walls) \in Nat /\ DOMAIN walls = 1 .. Len(walls)
  BY <1>1 DEF WallAssumption, Edge
<1>4. Len(obstacles) = 0 /\ DOMAIN obstacles = {} /\ Stride \in Nat
  BY <1>1 DEF Stride
<1>5. /\ Len(walls) = Len(obstacles) * Stride + Len(walls)
      /\ \A i \in DOMAIN walls : walls[Len(obstacles) * Stride + i] = walls[i]
  <2>1. Len(obstacles) * Stride = 0
    BY <1>4
  <2>2. \A i \in DOMAIN walls : 0 + i = i
    BY <1>3
  <2> QED
    BY <1>3, <2>1, <2>2
<1>6. \E ws \in WallLayouts :
        /\ Len(walls) = Len(obstacles) * Stride + Len(ws)
        /\ \A i \in DOMAIN ws : walls[Len(obstacles) * Stride + i] = ws[i]
        /\ wall_list \subseteq DOMAIN ws
        /\ \A n \in DOMAIN obstacles :
              \E i \in DOMAIN ws \ wall_list : obstacles[n].old = ws[i]
  BY <1>1, <1>4, <1>5
<1> QED
  BY <1>1, <1>2, <1>3, <1>4, <1>6 DEF WallsInv

LEMMA WallsInvSuffices ==
  ASSUME WallsInv
  PROVE  WallsClose
BY DEF WallsInv, WallsClose

(* However many walls a layer has, wherever they, the layer and the robot  *)
(* are, at whatever distance and in whatever order they are drawn: every   *)
(* wall that is drawn is closed (Closes), on the side that follows from    *)
(* how it runs, and none is drawn twice (world_random_wall.cpp,            *)
(* world_modifier.cpp).                                                    *)
THEOREM AddedWallsClose == WallsSpec => []WallsClose
<1>1. WallsInit => WallsInv
  BY WallsInvInit, WallAssumption
<1>2. WallsInv /\ [WallsNext]_wallVars => WallsInv'
  BY WallsInvNext, WallAssumption
<1>3. WallsInv => WallsClose
  BY WallsInvSuffices
<1> QED
  BY <1>1, <1>2, <1>3, PTL DEF WallsSpec

(***************************************************************************)
(* Terrain                                                                 *)
(***************************************************************************)

(* No slip state is held longer than its patch says.                       *)
Slip == [v : Int, w : Int, drift : Int, next : Int]
TerrainInv ==
  /\ enable \in BOOLEAN /\ patches \in Patches /\ t \in Int
  /\ velocity \in Velocity /\ facing \in Facing /\ ground \in Grounds
  /\ slips \in [DOMAIN patches -> Slip]
  /\ \A i \in DOMAIN patches : slips[i].next <= t + Hold(patches[i])

(* A share of a whole is between nothing and the whole.                    *)
LEMMA WholeShare ==
  ASSUME NEW x \in Nat, NEW k \in Nat, NEW u \in Nat \ {0}, k <= u
  PROVE  (x * k) \div u \in 0 .. x
<1> DEFINE y == x * k
           q == y \div u
<1>1. y \in Nat /\ y <= x * u /\ x * u \in Nat
  <2>1. k * x <= u * x /\ k * x \in Int /\ u * x \in Int
    BY ProductBounds
  <2>2. \A d, e \in Nat : d * e \in Nat /\ d * e = e * d
    OBVIOUS
  <2> QED
    BY <2>1, <2>2
<1> HIDE DEF y
<1>2. q \in Int /\ u * q <= y /\ y < u * q + u
  BY <1>1
<1> HIDE DEF q
<1>3. q >= 0
  <2> SUFFICES ASSUME q <= -1 PROVE FALSE
    BY <1>2
  <2>1. q * u <= -1 * u /\ q * u \in Int
    BY <1>2, ProductBounds
  <2> QED
    BY <1>1, <1>2, <2>1
<1>4. q <= x
  <2> SUFFICES ASSUME x + 1 <= q PROVE FALSE
    BY <1>2
  <2>1. (x + 1) * u <= q * u /\ q * u \in Int
    BY <1>2, ProductBounds
  <2>2. (x + 1) * u = x * u + u
    OBVIOUS
  <2> QED
    BY <1>1, <1>2, <2>1, <2>2
<1> QED
  BY <1>2, <1>3, <1>4 DEF q, y

(* A part of a part is a part, and so is what a clamp around zero leaves.  *)
LEMMA PartOfPart ==
  ASSUME NEW x \in Int, NEW y \in Int, NEW z, PartOf(y, x), PartOf(z, y)
  PROVE  PartOf(z, x)
BY DEF PartOf

LEMMA PartIs ==
  ASSUME NEW x \in Int, NEW y, PartOf(y, x)
  PROVE  y \in Int /\ Abs(y) <= Abs(x)
BY DEF PartOf, Abs

LEMMA ClampIs ==
  ASSUME NEW x \in Int, NEW b \in Nat
  PROVE  PartOf(Clamp(x, -b, b), x) /\ Abs(Clamp(x, -b, b)) <= b
BY DEF PartOf, Clamp, Abs

(* Slip neither speeds up nor throws back.                                 *)
LEMMA ShareIs ==
  ASSUME NEW x \in Int, NEW k \in Nat, k <= Unit, Unit \in Nat \ {0}
  PROVE  PartOf(Share(x, k), x)
<1>1. CASE x >= 0
  <2>1. (x * k) \div Unit \in 0 .. x
    BY <1>1, WholeShare
  <2>2. Share(x, k) = (x * k) \div Unit
    BY <1>1 DEF Share
  <2> DEFINE q == (x * k) \div Unit
  <2> HIDE DEF q
  <2>3. q \in 0 .. x /\ Share(x, k) = q
    BY <2>1, <2>2 DEF q
  <2> QED
    BY <1>1, <2>3 DEF PartOf
<1>2. CASE x < 0
  <2>1. (-x * k) \div Unit \in 0 .. -x
    BY <1>2, WholeShare
  <2>2. Share(x, k) = -((-x * k) \div Unit)
    BY <1>2 DEF Share
  <2> DEFINE q == (-x * k) \div Unit
  <2> HIDE DEF q
  <2>3. q \in 0 .. -x /\ Share(x, k) = -q
    BY <2>1, <2>2 DEF q
  <2> QED
    BY <1>2, <2>3 DEF PartOf
<1> QED
  BY <1>1, <1>2

LEMMA LeastIs ==
  ASSUME NEW S \in SUBSET Nat, S # {}
  PROVE  Min(S) \in S
<1> DEFINE Less == {p \in Nat \X Nat : p[1] < p[2]}
<1>1. IsWellFoundedOn(Less, Nat)
  BY NatLessThanWellFounded DEF OpToRel
<1> HIDE DEF Less
<1>2. PICK i \in S : \A j \in S : <<j, i>> \notin Less
  BY <1>1, WFMin, Zenon
<1>3. \A j \in S : ~(j < i)
  BY <1>2 DEF Less
<1>4. \A j \in S : i <= j
  BY <1>3
<1> QED
  BY <1>4 DEF Min

(* A parameter is a whole number.                                          *)
LEMMA PatchIs ==
  ASSUME NEW p, IsPatch(p)
  PROVE  /\ p.slip \in BOOLEAN /\ p.rubble \in BOOLEAN /\ p.slope \in BOOLEAN
         /\ p.max_v \in Int /\ p.max_w \in Int /\ p.drift \in Int /\ p.hold \in Int
         /\ p.amp \in Int /\ p.speed_gain \in Int /\ p.accel \in Int /\ p.damp \in Int
         /\ p.cap \in Int /\ p.side_gain \in Int /\ p.damp <= Unit
BY DEF IsPatch

(* UpdateSlipState                                                         *)
LEMMA SlipIs ==
  ASSUME TerrainAssumption, NEW p, IsPatch(p), NEW s \in Slip, NEW now \in Int,
         NEW r \in UpdateSlipState(p, s, now)
  PROVE  /\ r \in Slip /\ Hold(p) \in Nat \ {0}
         /\ p.slip => /\ now < r.next
                      /\ s.next <= now + Hold(p) => r.next <= now + Hold(p)
                      /\ r # s => now >= s.next
         /\ ~p.slip => r = s
<1>1. Hold(p) \in Nat \ {0}
  BY PatchIs DEF Hold, TerrainAssumption
<1>2. CASE ~p.slip \/ now < s.next
  <2>1. r = s
    BY <1>2 DEF UpdateSlipState
  <2> QED
    BY <1>1, <1>2, <2>1 DEF Slip
<1>3. CASE p.slip /\ ~(now < s.next)
  <2>1. PICK v \in 0 .. p.max_v, w \in 0 .. p.max_w, d \in -p.drift .. p.drift :
          r = [v |-> v, w |-> w, drift |-> d, next |-> now + Hold(p)]
    BY <1>3 DEF UpdateSlipState
  <2>2. v \in Int /\ w \in Int /\ d \in Int
    BY <2>1, PatchIs
  <2>3. r.next = now + Hold(p) /\ r \in Slip
    BY <1>1, <2>1, <2>2 DEF Slip
  <2> QED
    BY <1>1, <1>3, <2>3 DEF Slip
<1> QED
  BY <1>2, <1>3

LEMMA SlopedIs ==
  ASSUME TerrainAssumption, NEW p, IsPatch(p), NEW v \in Velocity, facing \in Facing
  PROVE  /\ Sloped(p, v) \in Velocity /\ v.x + Pull(p) \in Int
         /\ Sloped(p, v).w = v.w /\ Sloped(p, v).y = v.y
         /\ ~p.slope => Sloped(p, v) = v
         /\ p.slope /\ p.cap > 0 => Abs(Sloped(p, v).x) <= p.cap
         /\ PartOf(Sloped(p, v).x, v.x + Pull(p))
<1>1. CASE ~p.slope
  BY <1>1 DEF Sloped, Velocity, Pull, PartOf
<1>2. CASE p.slope
  <2> DEFINE x == v.x + p.accel * facing
             damped == IF p.damp > 0 THEN Share(x, p.damp) ELSE x
             capped == IF p.cap > 0 THEN Clamp(damped, -p.cap, p.cap) ELSE damped
  <2>1. Sloped(p, v) = [v EXCEPT !.x = capped] /\ x = v.x + Pull(p)
    BY <1>2 DEF Sloped, Pull
  <2>2. x \in Int
    <3>1. v.x \in Int /\ p.accel \in Int /\ facing \in Int
      BY PatchIs DEF Velocity, Facing
    <3> QED
      BY <3>1
  <2> HIDE DEF x
  <2>3. PartOf(damped, x) /\ damped \in Int
    <3>1. Unit \in Nat \ {0} /\ p.damp \in Int /\ p.damp <= Unit
      BY PatchIs DEF TerrainAssumption
    <3>2. CASE p.damp > 0
      <4>1. damped = Share(x, p.damp) /\ p.damp \in Nat
        BY <3>1, <3>2
      <4>2. PartOf(Share(x, p.damp), x)
        BY <2>2, <3>1, <4>1, ShareIs
      <4> HIDE DEF damped
      <4> QED
        BY <2>2, <4>1, <4>2, PartIs
    <3>3. CASE ~(p.damp > 0)
      BY <2>2, <3>3 DEF PartOf
    <3> QED
      BY <3>2, <3>3
  <2> HIDE DEF damped
  <2>4. PartOf(capped, x) /\ capped \in Int /\ (p.cap > 0 => Abs(capped) <= p.cap)
    <3>1. CASE p.cap > 0
      <4>1. p.cap \in Nat
        BY <3>1, PatchIs
      <4> QED
        BY <2>2, <2>3, <3>1, <4>1, ClampIs, PartOfPart, PartIs
    <3>2. CASE ~(p.cap > 0)
      BY <2>2, <2>3, <3>2
    <3> QED
      BY <3>1, <3>2
  <2> HIDE DEF capped
  <2>5. Sloped(p, v) = [x |-> capped, y |-> v.y, w |-> v.w]
    BY <2>1 DEF Velocity
  <2> QED
    BY <1>2, <2>1, <2>2, <2>4, <2>5 DEF Velocity
<1> QED
  BY <1>1, <1>2 DEF IsPatch

(* Slip keeps the side of the velocity and takes from its size.            *)
LEMMA SlippedIs ==
  ASSUME TerrainAssumption, NEW p, IsPatch(p), NEW s \in Slip, NEW v \in Velocity,
         facing \in Facing
  PROVE  LET r == Slipped(p, s, v)
         IN  r \in Velocity /\ PartOf(r.x, v.x) /\ PartOf(r.w, v.w)
<1> DEFINE r == Slipped(p, s, v)
<1>1. v.x \in Int /\ v.y \in Int /\ v.w \in Int /\ v = [x |-> v.x, y |-> v.y, w |-> v.w]
  BY DEF Velocity
<1>2. CASE ~p.slip
  <2>1. r = v
    BY <1>2 DEF Slipped
  <2> QED
    BY <1>1, <2>1 DEF PartOf
<1>3. CASE p.slip
  <2> DEFINE k == Unit - Clamp(s.v * SlipScale(p), 0, Unit - 1)
             l == Unit - Clamp(s.w * SlipScale(p), 0, Unit - 1)
             side == v.y + s.drift * SlipScale(p)
  <2>1. r = [x |-> Share(v.x, k), y |-> side, w |-> Share(v.w, l)]
    BY <1>3 DEF Slipped
  <2>2. SlipScale(p) \in Int
    <3>1. Abs(facing) \in Int
      BY DEF Abs, Facing
    <3> QED
      BY <3>1, PatchIs DEF SlipScale
  <2>3. Unit \in Nat \ {0} /\ s.v \in Int /\ s.w \in Int /\ s.drift \in Int
    BY DEF Slip, TerrainAssumption
  <2>4. \A y \in Int : /\ Unit - Clamp(y, 0, Unit - 1) \in Nat
                        /\ Unit - Clamp(y, 0, Unit - 1) <= Unit
    BY <2>3 DEF Clamp
  <2>5. k \in Nat /\ k <= Unit /\ l \in Nat /\ l <= Unit /\ side \in Int
    <3>1. /\ s.v * SlipScale(p) \in Int /\ s.w * SlipScale(p) \in Int
           /\ s.drift * SlipScale(p) \in Int
      BY <2>2, <2>3
    <3> QED
      BY <1>1, <2>4, <3>1
  <2> HIDE DEF k, l, side
  <2>6. /\ PartOf(Share(v.x, k), v.x) /\ Share(v.x, k) \in Int
        /\ PartOf(Share(v.w, l), v.w) /\ Share(v.w, l) \in Int
    BY <1>1, <2>3, <2>5, ShareIs, PartIs
  <2> HIDE DEF r
  <2> QED
    BY <2>1, <2>5, <2>6 DEF Velocity, r
<1> QED
  BY <1>2, <1>3 DEF IsPatch

(* The sways are whole numbers.                                            *)
LEMMA SwaysAre ==
  ASSUME TerrainAssumption, NEW p, IsPatch(p), NEW square \in Int, NEW a \in Sways(p, square)
  PROVE  a \in Int
<1> DEFINE top == p.amp + p.speed_gain * square
<1>1. top \in Int
  BY PatchIs
<1> HIDE DEF top
<1>2. a \in -top .. top
  BY DEF Sways, top
<1> QED
  BY <1>1, <1>2

(* What the patch makes of a velocity                                      *)
LEMMA ApplyPatchIs ==
  ASSUME TerrainAssumption, NEW p, IsPatch(p), NEW s \in Slip, NEW v \in Velocity,
         facing \in Facing, NEW r \in ApplyPatch(p, s, v)
  PROVE  /\ r \in Velocity
         /\ ~p.slope /\ ~InMotion(v) => r = v
         /\ ~p.rubble => PartOf(r.x, v.x + Pull(p)) /\ PartOf(r.w, v.w)
         /\ p.slope /\ ~p.rubble /\ p.cap > 0 => Abs(r.x) <= p.cap
<1> DEFINE rolled == Sloped(p, v)
           slipped == Slipped(p, s, rolled)
           x == v.x + Pull(p)
<1>1. /\ rolled \in Velocity /\ rolled.w = v.w /\ x \in Int
      /\ ~p.slope => rolled = v
      /\ p.slope /\ p.cap > 0 => Abs(rolled.x) <= p.cap
      /\ PartOf(rolled.x, x)
  BY SlopedIs
<1>2. slipped \in Velocity /\ PartOf(slipped.x, rolled.x) /\ PartOf(slipped.w, rolled.w)
  BY <1>1, SlippedIs
<1>3. r \in IF InMotion(rolled) THEN Shaken(p, rolled, slipped) ELSE {rolled}
  BY DEF ApplyPatch
<1>4. p.slip \in BOOLEAN /\ p.rubble \in BOOLEAN /\ p.slope \in BOOLEAN /\ p.cap \in Int
  BY PatchIs
<1> HIDE DEF rolled, slipped, x
<1>5. /\ rolled.x \in Int /\ rolled.w \in Int /\ rolled.y \in Int
      /\ slipped.x \in Int /\ slipped.w \in Int /\ slipped.y \in Int
  BY <1>1, <1>2 DEF Velocity
<1>6. CASE ~InMotion(rolled)
  <2>1. r = rolled
    BY <1>3, <1>6
  <2>2. PartOf(rolled.w, v.w)
    BY <1>1, <1>5 DEF PartOf
  <2>3. ~p.slope /\ ~InMotion(v) => r = v
    BY <1>1, <2>1
  <2> QED
    BY <1>1, <2>1, <2>2, <2>3 DEF x
<1>7. CASE InMotion(rolled) /\ ~p.rubble
  <2>1. r = slipped
    BY <1>3, <1>7 DEF Shaken
  <2>2. Abs(rolled.x) \in Int /\ Abs(slipped.x) \in Int /\ Abs(slipped.x) <= Abs(rolled.x)
    BY <1>2, <1>5, PartIs DEF Abs
  <2>3. p.slope /\ p.cap > 0 => Abs(slipped.x) <= p.cap
    BY <1>1, <1>4, <2>2
  <2>4. PartOf(slipped.x, x)
    BY <1>1, <1>2, <1>5, PartOfPart
  <2>5. ~p.slope => InMotion(v)
    BY <1>1, <1>7
  <2> QED
    BY <1>1, <1>2, <2>1, <2>3, <2>4, <2>5 DEF x
<1>8. CASE InMotion(rolled) /\ p.rubble
  <2> DEFINE xy == rolled.x * rolled.x + rolled.y * rolled.y
             yaw == slipped.w * slipped.w
  <2>1. xy \in Int /\ yaw \in Int
    BY <1>5
  <2>2. PICK a \in Sways(p, xy), b \in Sways(p, xy), c \in Sways(p, yaw) :
          r = [x |-> slipped.x + a, y |-> slipped.y + b, w |-> slipped.w + c]
    BY <1>3, <1>8 DEF Shaken
  <2> HIDE DEF xy, yaw
  <2>3. a \in Int /\ b \in Int /\ c \in Int
    BY <2>1, <2>2, SwaysAre
  <2>4. r \in Velocity
    <3>1. slipped.x + a \in Int /\ slipped.y + b \in Int /\ slipped.w + c \in Int
      BY <1>5, <2>3
    <3> QED
      BY <2>2, <3>1 DEF Velocity
  <2>5. ~p.slope => InMotion(v)
    BY <1>1, <1>8
  <2> QED
    BY <1>8, <2>4, <2>5
<1> QED
  BY <1>4, <1>6, <1>7, <1>8

LEMMA FirstPatchIs ==
  ASSUME TerrainAssumption, TerrainInv, On # {}
  PROVE  Min(On) \in DOMAIN patches /\ IsPatch(patches[Min(On)])
<1>1. /\ DOMAIN patches = 1 .. Len(patches) /\ Len(patches) \in Nat
      /\ \A i \in 1 .. Len(patches) : IsPatch(patches[i])
  BY DEF TerrainAssumption, TerrainInv
<1>2. On \in SUBSET Nat /\ On \subseteq DOMAIN patches
  BY <1>1 DEF On
<1>3. Min(On) \in On
  BY <1>2, LeastIs
<1> QED
  BY <1>1, <1>2, <1>3

(* A step on a patch, by its parts                                         *)
LEMMA StepIs ==
  ASSUME TerrainAssumption, TerrainInv, TerrainStep, enable, On # {},
         NEW i, i = Min(On), NEW p, p = patches[i]
  PROVE  /\ i \in DOMAIN patches /\ IsPatch(p) /\ t' = t + Dt
         /\ slips' \in [DOMAIN patches -> Slip]
         /\ slips'[i] \in UpdateSlipState(p, slips[i], t + Dt)
         /\ velocity' \in ApplyPatch(p, slips'[i], velocity)
         /\ \A k \in DOMAIN slips \ {i} : slips'[k] = slips[k]
<1>1. i \in DOMAIN patches /\ IsPatch(p)
  BY FirstPatchIs
<1>2. PICK s \in UpdateSlipState(p, slips[i], t + Dt) :
        slips' = [slips EXCEPT ![i] = s] /\ velocity' \in ApplyPatch(p, s, velocity)
  BY DEF TerrainStep
<1>3. slips \in [DOMAIN patches -> Slip] /\ t + Dt \in Int
  BY DEF TerrainInv, TerrainAssumption
<1>4. slips[i] \in Slip
  BY <1>1, <1>3
<1>5. s \in Slip
  BY <1>1, <1>2, <1>3, <1>4, SlipIs
<1>6. /\ slips' \in [DOMAIN patches -> Slip] /\ slips'[i] = s
      /\ \A k \in DOMAIN slips \ {i} : slips'[k] = slips[k]
  BY <1>1, <1>2, <1>3, <1>5
<1>7. t' = t + Dt
  BY DEF TerrainStep
<1> QED
  BY <1>1, <1>2, <1>6, <1>7

LEMMA TerrainInvNext ==
  ASSUME TerrainAssumption, TerrainInv, [TerrainNext]_terrainVars
  PROVE  TerrainInv'
<1>1. t \in Int /\ Dt \in Nat /\ slips \in [DOMAIN patches -> Slip]
  BY DEF TerrainInv, TerrainAssumption
<1>2. \A k \in DOMAIN patches : Hold(patches[k]) \in Int /\ slips[k].next \in Int
  <2> TAKE k \in DOMAIN patches
  <2>1. IsPatch(patches[k])
    BY DEF TerrainInv, TerrainAssumption
  <2>2. slips[k] \in Slip
    BY <1>1
  <2> QED
    BY <2>1, <2>2, PatchIs DEF Hold, Slip, TerrainAssumption
<1>3. CASE TerrainStep /\ enable /\ On # {}
  <2> DEFINE i == Min(On)
             p == patches[i]
  <2>1. /\ i \in DOMAIN patches /\ IsPatch(p) /\ t' = t + Dt
        /\ slips' \in [DOMAIN patches -> Slip]
        /\ slips'[i] \in UpdateSlipState(p, slips[i], t + Dt)
        /\ velocity' \in ApplyPatch(p, slips'[i], velocity)
        /\ \A k \in DOMAIN slips \ {i} : slips'[k] = slips[k]
    BY <1>3, StepIs
  <2>2. /\ enable' = enable /\ patches' = patches /\ ground' = ground /\ facing' = facing
    BY <1>3 DEF TerrainStep
  <2> HIDE DEF i, p
  <2>3. slips[i] \in Slip /\ slips'[i] \in Slip /\ t + Dt \in Int /\ facing \in Facing
        /\ velocity \in Velocity
    BY <1>1, <2>1 DEF TerrainInv
  <2>4. velocity' \in Velocity
    BY <2>1, <2>3, ApplyPatchIs
  <2>5. ASSUME NEW k \in DOMAIN patches
        PROVE  slips'[k].next <= t' + Hold(patches[k])
    <3>1. slips[k].next <= t + Hold(patches[k])
      BY DEF TerrainInv
    <3>2. slips[k].next <= (t + Dt) + Hold(patches[k])
      BY <1>1, <1>2, <3>1
    <3>3. CASE k # i
      BY <1>1, <2>1, <3>2, <3>3
    <3>4. CASE k = i
      <4>1. slips[i].next <= (t + Dt) + Hold(p)
        BY <3>2, <3>4 DEF p
      <4>2. slips'[i].next <= (t + Dt) + Hold(p)
        <5>1. p.slip => slips'[i].next <= (t + Dt) + Hold(p)
          BY <2>1, <2>3, <4>1, SlipIs
        <5>2. ~p.slip => slips'[i] = slips[i]
          BY <2>1, <2>3, SlipIs
        <5> QED
          BY <4>1, <5>1, <5>2
      <4> QED
        BY <2>1, <3>4, <4>2 DEF p
    <3> QED
      BY <3>3, <3>4
  <2>6. t' \in Int
    BY <2>1, <2>3
  <2> QED
    BY <2>1, <2>2, <2>4, <2>5, <2>6 DEF TerrainInv
<1>4. CASE TerrainStep /\ ~(enable /\ On # {})
  <2>1. /\ enable' = enable /\ patches' = patches /\ ground' = ground /\ facing' = facing
        /\ slips' = slips /\ velocity' = velocity /\ (t' = t + Dt \/ t' = t)
    BY <1>4 DEF TerrainStep
  <2>2. t' \in Int /\ t <= t'
    BY <1>1, <2>1
  <2>3. \A k \in DOMAIN patches : slips[k].next <= t' + Hold(patches[k])
    BY <1>1, <1>2, <2>2 DEF TerrainInv
  <2> QED
    BY <2>1, <2>2, <2>3 DEF TerrainInv
<1>5. CASE Travel
  <2>1. velocity' \in Velocity
    BY <1>5 DEF Travel, TerrainAssumption
  <2> QED
    BY <1>5, <2>1 DEF Travel, TerrainInv
<1>6. CASE UNCHANGED terrainVars
  BY <1>6 DEF terrainVars, TerrainInv
<1> QED
  BY <1>3, <1>4, <1>5, <1>6 DEF TerrainNext

LEMMA TerrainInvInit ==
  ASSUME TerrainAssumption, TerrainInit
  PROVE  TerrainInv
<1>1. patches \in Patches /\ velocity \in Velocity /\ t = 0
  BY DEF TerrainInit, TerrainAssumption
<1>2. slips = [i \in DOMAIN patches |-> [v |-> 0, w |-> 0, drift |-> 0, next |-> 0]]
  BY DEF TerrainInit
<1>3. slips \in [DOMAIN patches -> Slip]
  BY <1>2 DEF Slip
<1>4. \A i \in DOMAIN patches : 0 <= Hold(patches[i])
  <2> TAKE i \in DOMAIN patches
  <2>1. IsPatch(patches[i])
    BY <1>1 DEF TerrainAssumption
  <2> QED
    BY <2>1, PatchIs DEF Hold, TerrainAssumption
<1>5. \A i \in DOMAIN patches : slips[i].next <= t + Hold(patches[i])
  <2> TAKE i \in DOMAIN patches
  <2>1. IsPatch(patches[i])
    BY <1>1 DEF TerrainAssumption
  <2>2. Hold(patches[i]) \in Int
    BY <2>1, PatchIs DEF Hold, TerrainAssumption
  <2> QED
    BY <1>1, <1>2, <1>4, <2>2
<1> QED
  BY <1>1, <1>3, <1>5 DEF TerrainInit, TerrainInv

LEMMA StepIsTame ==
  ASSUME TerrainAssumption, TerrainInv, TerrainStep, NEW i, i = Min(On), NEW p, p = patches[i]
  PROVE  IF ~enable \/ On = {} THEN UNCHANGED <<velocity, slips>>
         ELSE /\ \A k \in DOMAIN slips \ {i} : slips'[k] = slips[k]
              /\ ~p.slope /\ ~InMotion(velocity) => velocity' = velocity
              /\ ~p.rubble => /\ PartOf(velocity'.x, velocity.x + Pull(p))
                              /\ PartOf(velocity'.w, velocity.w)
              /\ p.slope /\ ~p.rubble /\ p.cap > 0 => Abs(velocity'.x) <= p.cap
              /\ p.slip => /\ t' < slips'[i].next
                           /\ slips'[i].next <= t' + Hold(p)
                           /\ slips'[i] # slips[i] => t' >= slips[i].next
<1>1. CASE ~enable \/ On = {}
  BY <1>1 DEF TerrainStep
<1>2. CASE enable /\ On # {}
  <2>1. /\ i \in DOMAIN patches /\ IsPatch(p) /\ t' = t + Dt
        /\ slips' \in [DOMAIN patches -> Slip]
        /\ slips'[i] \in UpdateSlipState(p, slips[i], t + Dt)
        /\ velocity' \in ApplyPatch(p, slips'[i], velocity)
        /\ \A k \in DOMAIN slips \ {i} : slips'[k] = slips[k]
    BY <1>2, StepIs
  <2>2. /\ slips[i] \in Slip /\ slips'[i] \in Slip /\ t \in Int /\ t + Dt \in Int
        /\ facing \in Facing /\ velocity \in Velocity
        /\ slips[i].next <= t + Hold(p)
    BY <2>1 DEF TerrainInv, TerrainAssumption
  <2>3. /\ ~p.slope /\ ~InMotion(velocity) => velocity' = velocity
        /\ ~p.rubble => /\ PartOf(velocity'.x, velocity.x + Pull(p))
                        /\ PartOf(velocity'.w, velocity.w)
        /\ p.slope /\ ~p.rubble /\ p.cap > 0 => Abs(velocity'.x) <= p.cap
    BY <2>1, <2>2, ApplyPatchIs
  <2>4. slips[i].next <= (t + Dt) + Hold(p)
    <3>1. Hold(p) \in Int /\ slips[i].next \in Int /\ Dt \in Nat
      BY <2>1, <2>2, PatchIs DEF Hold, Slip, TerrainAssumption
    <3> QED
      BY <2>2, <3>1
  <2>5. p.slip => /\ t + Dt < slips'[i].next
                  /\ slips'[i].next <= (t + Dt) + Hold(p)
                  /\ slips'[i] # slips[i] => t + Dt >= slips[i].next
    BY <2>1, <2>2, <2>4, SlipIs
  <2> QED
    BY <1>2, <2>1, <2>3, <2>5
<1> QED
  BY <1>1, <1>2

(* Whatever the patches, however they overlap and however the draws fall,  *)
(* off the patches nothing changes, and on one without rubble what is left *)
(* of the forward speed is a part of what it was with the pull of the      *)
(* slope, and of the turn a part of what it was (terrain_modifier.cpp).    *)
THEOREM TerrainStaysTame == TerrainSpec => TerrainIsTame
<1>1. TerrainInit => TerrainInv
  BY TerrainInvInit, TerrainAssumption
<1>2. TerrainInv /\ [TerrainNext]_terrainVars => TerrainInv'
  BY TerrainInvNext, TerrainAssumption
<1> DEFINE v == velocity
           i == Min(On)
           p == patches[i]
           Tame ==
             IF ~enable \/ On = {} THEN UNCHANGED <<velocity, slips>>
             ELSE /\ \A k \in DOMAIN slips \ {i} : slips'[k] = slips[k]
                  /\ ~p.slope /\ ~InMotion(v) => velocity' = v
                  /\ ~p.rubble => /\ PartOf(velocity'.x, v.x + Pull(p))
                                  /\ PartOf(velocity'.w, v.w)
                  /\ p.slope /\ ~p.rubble /\ p.cap > 0 => Abs(velocity'.x) <= p.cap
                  /\ p.slip => /\ t' < slips'[i].next
                               /\ slips'[i].next <= t' + Hold(p)
                               /\ slips'[i] # slips[i] => t' >= slips[i].next
<1>3. TerrainInv /\ TerrainStep => Tame
  BY StepIsTame, TerrainAssumption
<1>4. TerrainIsTame <=> [][TerrainStep => Tame]_terrainVars
  BY DEF TerrainIsTame
<1> HIDE DEF Tame
<1> QED
  BY <1>1, <1>2, <1>3, <1>4, PTL DEF TerrainSpec

=============================================================================
