---------------------------- MODULE ClientsProofs ----------------------------
(***************************************************************************)
(* Proofs about what clients order: the welds of the LinkAttacher plugin,  *)
(* for any number of models, carriers, joint addresses and heights, and    *)
(* the interactive markers, for any models, poses and durations.           *)
(***************************************************************************)
EXTENDS LinkAttacher, InteractiveMarkers, TLAPS

-----------------------------------------------------------------------------
(***************************************************************************)
(* The interactive markers: who has a marker, and that update() leaves the *)
(* markers of undisturbed models where the models are.                     *)
(***************************************************************************)

(* Only the marker of a live model is held: a drag ends with its marker.   *)
HeldIsLive == holding \in (models \cap Draggable) \cup {NoName}

(* As long as nobody drags or deletes a model, last_poses_ is either still *)
(* empty for it or tells where its marker is.                              *)
Undisturbed == Name \ (Draggable \cup Removable)

LastPosesTrue ==
  \A m \in Undisturbed :
    last_poses[m] = NoPose \/ (m \in models /\ last_poses[m] = marker[m])

MarkersInv == MarkersTypeOK /\ MarkerPerModel /\ HeldIsLive /\ LastPosesTrue

LEMMA MarkersInitInv == ConstantsAssumption /\ MarkersInit => MarkersInv
<1> SUFFICES ASSUME ConstantsAssumption, MarkersInit PROVE MarkersInv
  OBVIOUS
<1>1. 0 \in Pose /\ Stale \in 0..Stale
  BY DEF ConstantsAssumption, Pose
<1>2. MarkersTypeOK
  BY <1>1 DEF MarkersInit, MarkersTypeOK
<1>3. MarkerPerModel /\ HeldIsLive /\ LastPosesTrue
  BY DEF MarkersInit, MarkerPerModel, HeldIsLive, LastPosesTrue, Undisturbed
<1> QED
  BY <1>2, <1>3 DEF MarkersInv

LEMMA SpawnPoseInPose ==
  ASSUME ConstantsAssumption, NEW p \in Pose, NEW o \in Offsets
  PROVE  (p + o) % Poses \in Pose
<1>1. Poses \in Nat \ {0} /\ p + o \in Nat
  BY DEF ConstantsAssumption, Pose
<1>2. \A x \in Nat, q \in Nat \ {0} : x % q \in 0 .. q - 1
  BY Z3
<1> QED
  BY <1>1, <1>2 DEF Pose

LEMMA LoadModelInv ==
  ASSUME ConstantsAssumption, MarkersInv, NEW m \in Name, NEW p \in Pose,
         NEW o \in Offsets, LoadModel(m, p, o)
  PROVE  MarkersInv'
<1>1. (p + o) % Poses \in Pose
  BY SpawnPoseInPose
<1>2. MarkersTypeOK'
  BY <1>1 DEF LoadModel, MarkersInv, MarkersTypeOK
<1>3. p # NoPose
  BY DEF ConstantsAssumption, Pose
<1>4. MarkerPerModel' /\ HeldIsLive' /\ LastPosesTrue'
  BY <1>3 DEF LoadModel, MarkersInv, MarkersTypeOK, MarkerPerModel, HeldIsLive, LastPosesTrue,
              Undisturbed
<1> QED
  BY <1>2, <1>4 DEF MarkersInv

LEMMA DeleteModelInv ==
  ASSUME ConstantsAssumption, MarkersInv, NEW m \in Name, DeleteModel(m)
  PROVE  MarkersInv'
<1>1. 0 \in Pose
  BY DEF ConstantsAssumption, Pose
<1> QED
  BY <1>1 DEF ConstantsAssumption, DeleteModel, Erased, MarkersInv, MarkersTypeOK,
              MarkerPerModel, HeldIsLive, LastPosesTrue, Undisturbed

(* A drag moves the marker of a model that is dragged.                     *)
LEMMA PoseUpdateInv ==
  ASSUME ConstantsAssumption, MarkersInv, NEW p \in Pose, PoseUpdate(p)
  PROVE  MarkersInv'
<1>1. holding \in models \cap Draggable /\ holding \in Name /\ p # NoPose
  BY DEF PoseUpdate, MarkersInv, HeldIsLive, MarkersTypeOK, ConstantsAssumption, Pose
<1>2. 0 \in 0 .. Stale
  BY DEF ConstantsAssumption
<1> QED
  BY <1>1, <1>2 DEF PoseUpdate, MarkersInv, MarkersTypeOK, MarkerPerModel, HeldIsLive,
                    LastPosesTrue, Undisturbed

LEMMA MouseUpInv ==
  ASSUME ConstantsAssumption, MarkersInv, MouseUp
  PROVE  MarkersInv'
<1>1. marker[holding] \in Pose
  BY DEF MouseUp, MarkersInv, HeldIsLive, MarkersTypeOK, MarkerPerModel
<1> QED
  BY <1>1 DEF MouseUp, MarkersInv, MarkersTypeOK, MarkerPerModel, HeldIsLive, LastPosesTrue

(* A marker is moved together with what last_poses_ says of it.            *)
LEMMA CycleInv ==
  ASSUME ConstantsAssumption, MarkersInv, NEW d \in 1..MaxCycle, Cycle(d)
  PROVE  MarkersInv'
<1>1. pose' \in [Name -> Pose]
  BY DEF Cycle, Moves, MarkersInv, MarkersTypeOK
<1>2. Later(d) \in 0..Stale
  BY DEF ConstantsAssumption, MarkersInv, MarkersTypeOK, Later
<1>3. \A m \in Name : pose'[m] # NoPose
  BY <1>1 DEF ConstantsAssumption, Pose
<1>4. MarkersTypeOK'
  BY <1>1, <1>2 DEF Cycle, MarkersInv, MarkersTypeOK
<1>5. Outdated(pose') \subseteq models
  BY DEF Outdated
<1>6. MarkerPerModel' /\ HeldIsLive'
  BY <1>3, <1>5 DEF Cycle, MarkersInv, MarkerPerModel, HeldIsLive
<1>7. LastPosesTrue'
  BY <1>5 DEF Cycle, MarkersInv, LastPosesTrue, Undisturbed
<1> QED
  BY <1>4, <1>6, <1>7 DEF MarkersInv

LEMMA MarkersNextInv ==
  ConstantsAssumption /\ MarkersInv /\ [MarkersNext]_markerVars => MarkersInv'
<1> SUFFICES ASSUME ConstantsAssumption, MarkersInv, [MarkersNext]_markerVars PROVE MarkersInv'
  OBVIOUS
<1>1. ASSUME NEW m \in Name, NEW p \in Pose, NEW o \in Offsets, LoadModel(m, p, o)
      PROVE  MarkersInv'
  BY <1>1, LoadModelInv
<1>2. ASSUME NEW m \in Name, DeleteModel(m) PROVE MarkersInv'
  BY <1>2, DeleteModelInv
<1>3. ASSUME NEW m \in Name, NEW p \in Pose, MoveModel(m, p) PROVE MarkersInv'
  BY <1>3 DEF MoveModel, MarkersInv, MarkersTypeOK, MarkerPerModel, HeldIsLive, LastPosesTrue
<1>4. ASSUME NEW b \in BOOLEAN, SetServicePause(b) PROVE MarkersInv'
  BY <1>4 DEF SetServicePause, MarkersInv, MarkersTypeOK, MarkerPerModel, HeldIsLive,
              LastPosesTrue
<1>5. ASSUME NEW m \in Name, MouseDown(m) PROVE MarkersInv'
  BY <1>5 DEF MouseDown, MarkersInv, MarkersTypeOK, MarkerPerModel, HeldIsLive, LastPosesTrue
<1>6. ASSUME NEW p \in Pose, PoseUpdate(p) PROVE MarkersInv'
  BY <1>6, PoseUpdateInv
<1>7. CASE MouseUp
  BY <1>7, MouseUpInv
<1>8. CASE Vanish
  BY <1>8 DEF Vanish, MarkersInv, MarkersTypeOK, MarkerPerModel, HeldIsLive, LastPosesTrue
<1>9. ASSUME NEW d \in 1..MaxCycle, Cycle(d) PROVE MarkersInv'
  BY <1>9, CycleInv
<1>10. CASE UNCHANGED markerVars
  BY <1>10 DEF markerVars, MarkersInv, MarkersTypeOK, MarkerPerModel, HeldIsLive, LastPosesTrue
<1> QED
  BY <1>1, <1>2, <1>3, <1>4, <1>5, <1>6, <1>7, <1>8, <1>9, <1>10 DEF MarkersNext

(* update() may skip a model because its pose is the last one it gave the  *)
(* server: then the marker of an undisturbed model is still there.         *)
LEMMA CycleSynchronizes ==
  ASSUME ConstantsAssumption, MarkersInv
  PROVE  SynchronizesMarkersOf(models \ (Draggable \cup Removable))
<1> SUFFICES ASSUME NEW d \in 1..MaxCycle, Cycle(d), ~manipulating,
                    NEW m \in models \ (Draggable \cup Removable)
             PROVE  marker'[m] = pose'[m]
  BY DEF SynchronizesMarkersOf
<1>1. m \in Undisturbed /\ m \in Name
  BY DEF MarkersInv, MarkersTypeOK, Undisturbed
<1>2. pose'[m] # NoPose
  BY <1>1 DEF Cycle, Moves, MarkersInv, MarkersTypeOK, Pose, ConstantsAssumption
<1>3. CASE last_poses[m] # pose'[m]
  BY <1>1, <1>3 DEF Cycle, Outdated
<1>4. CASE last_poses[m] = pose'[m]
  BY <1>1, <1>2, <1>4 DEF Cycle, Outdated, MarkersInv, LastPosesTrue
<1> QED
  BY <1>3, <1>4

(* Exactly the live models have a marker, whatever is spawned, deleted and *)
(* dragged in between, and a cycle without a drag leaves the markers of    *)
(* all models that are neither dragged nor deleted on their models         *)
(* (InteractiveMarkerManager::createInteractiveMarker, update,             *)
(* World::DeleteModel).                                                    *)
THEOREM MarkersAreTrue ==
  ASSUME ConstantsAssumption
  PROVE  MarkersSpec => MarkersFollow
<1>1. MarkersInv => MarkersTypeOK /\ MarkerPerModel
  BY DEF MarkersInv
<1>2. ConstantsAssumption /\ MarkersInv /\ [MarkersNext]_markerVars =>
        [SynchronizesMarkersOf(models \ (Draggable \cup Removable))]_markerVars
  BY CycleSynchronizes
<1> QED
  BY <1>1, <1>2, MarkersInitInv, MarkersNextInv, PTL
  DEF MarkersSpec, MarkersFollow, UntouchedSynchronized

-----------------------------------------------------------------------------
(***************************************************************************)
(* The welds.  The inductive invariant is IInv of LinkAttacher; one lemma  *)
(* per action shows that the action keeps it.                              *)
(***************************************************************************)

USE DEF Loaded, Finds, Ends

LEMMA InitInv == Init => IInv
BY NamesAssumption
   DEF Init, IInv, TypeOK, Weld, NamesOthers, OneWeldPerAddress, GoneIsReset,
       NoOrphanWeld, FreshGroups, GroupMeansWeld, SharedGroupHasOwner

(* A spawned model starts in group 0 with a group nobody is in yet.        *)
LEMMA SpawnInv ==
  ASSUME IInv, NEW m \in Model, Spawn(m)
  PROVE  IInv'
<1> USE NamesAssumption
<1>1. TypeOK'
  BY DEF IInv, TypeOK, Spawn, FreshGroup, Weld
<1>2. NamesOthers' /\ OneWeldPerAddress' /\ GoneIsReset' /\ NoOrphanWeld'
  BY DEF IInv, TypeOK, Spawn, FreshGroup, NamesOthers, OneWeldPerAddress, GoneIsReset,
         NoOrphanWeld
<1>3. FreshGroups'
  BY DEF IInv, TypeOK, Spawn, FreshGroup, FreshGroups
<1>4. GroupMeansWeld'
  BY DEF IInv, TypeOK, Spawn, FreshGroup, GroupMeansWeld, FreshGroups, GoneIsReset
<1>5. SharedGroupHasOwner'
  BY DEF IInv, TypeOK, Spawn, FreshGroup, SharedGroupHasOwner, GoneIsReset
<1> QED BY <1>1, <1>2, <1>3, <1>4, <1>5 DEF IInv

(* Deleting a model takes its welds along; the group it may leave on one   *)
(* other model has no owner any more, but stays on that model alone.       *)
LEMMA DeleteInv ==
  ASSUME IInv, NEW m \in Model, Delete(m)
  PROVE  IInv'
<1> USE NamesAssumption
<1>1. TypeOK'
  BY DEF IInv, TypeOK, Delete, Weld, Assign
<1>2. /\ live' = live \ {m}
      /\ groups' = groups
      /\ welds' = {w \in welds : m \notin {w.owner, w.target}}
      /\ \A c \in Carrier : c # m =>
           /\ nocollide'[c] = nocollide[c]
           /\ joint'[c] = joint[c]
           /\ attached'[c] = attached[c]
           /\ settling'[c] = settling[c]
      /\ m \in Carrier => /\ nocollide'[m] = 0
                          /\ attached'[m] = None
                          /\ settling'[m] = None
      /\ \A x \in Model : group'[x] = IF x = m THEN 0 ELSE group[x]
  BY DEF IInv, TypeOK, Delete, Assign
<1>3. NamesOthers' /\ OneWeldPerAddress' /\ GoneIsReset' /\ NoOrphanWeld'
  BY <1>2 DEF IInv, TypeOK, Weld, NamesOthers, OneWeldPerAddress, GoneIsReset,
              NoOrphanWeld
<1>4. FreshGroups'
  BY <1>2 DEF IInv, TypeOK, FreshGroups
<1>5. GroupMeansWeld'
  BY <1>2 DEF IInv, TypeOK, GroupMeansWeld
<1>6. SharedGroupHasOwner'
  BY <1>2 DEF IInv, TypeOK, SharedGroupHasOwner
<1> QED BY <1>1, <1>3, <1>4, <1>5, <1>6 DEF IInv

(* Only the new weld gives a model the group of the attacher: were another *)
(* model in that group, the attacher would be welded to it already.        *)
LEMMA AttachInv ==
  ASSUME IInv, NEW c \in Loaded, NEW m \in Model, NEW j \in Joint,
         Attach(c, m, j), UNCHANGED <<live, groups, nocollide, pending>>
  PROVE  IInv'
<1> USE NamesAssumption
<1> DEFINE new == [at |-> j, owner |-> c, target |-> m]
<1>1. /\ m \in live /\ m # c /\ attached[c] = None /\ m # None
      /\ welds' = welds \cup {new}
      /\ \A w \in welds : w.at # j
      /\ joint' = [joint EXCEPT ![c] = j]
      /\ attached' = [attached EXCEPT ![c] = m]
      /\ settling' = [settling EXCEPT ![c] = IF @ = m THEN None ELSE @]
      /\ \A x \in Model : group'[x] = IF x \in {c, m} THEN nocollide[c] ELSE group[x]
      /\ new \in Weld
  BY DEF IInv, TypeOK, Attach, IsFree, Ghosts, FreeAddress, SetCollisionGroup, Weld, Assign
<1>2. TypeOK'
  BY <1>1 DEF IInv, TypeOK, Attach, IsFree, Ghosts, SetCollisionGroup, Assign
<1>3. \A w \in welds : w.owner # c
  BY <1>1 DEF IInv, TypeOK, Weld, NoOrphanWeld
<1>4. NamesOthers'
  BY <1>1 DEF IInv, TypeOK, NamesOthers
<1>5. OneWeldPerAddress'
  BY <1>1 DEF IInv, OneWeldPerAddress
<1>6. GoneIsReset'
  BY <1>1 DEF IInv, TypeOK, GoneIsReset
<1>7. NoOrphanWeld'
  <2> SUFFICES ASSUME NEW w \in welds' PROVE
        {w.owner, w.target} \subseteq live /\ joint'[w.owner] = w.at
        /\ attached'[w.owner] = w.target
    BY DEF NoOrphanWeld
  <2>1. CASE w \in welds
    BY <2>1, <1>1, <1>3 DEF IInv, TypeOK, Weld, NoOrphanWeld
  <2>2. CASE w = new
    BY <2>2, <1>1 DEF IInv, TypeOK
  <2> QED BY <2>1, <2>2, <1>1
<1>8. FreshGroups'
  BY <1>1 DEF IInv, TypeOK, FreshGroups
<1>9. GroupMeansWeld'
  <2> SUFFICES ASSUME NEW d \in Loaded, NEW x \in live \ {d},
                      group'[x] = nocollide[d]
               PROVE  \E w \in welds' : w.owner = d /\ w.target = x
    BY DEF GroupMeansWeld
  <2>1. CASE x \in {c, m}
    <3>1. d = c
      BY <2>1, <1>1 DEF IInv, TypeOK, FreshGroups
    <3> QED BY <3>1, <2>1, <1>1
  <2>2. CASE x \notin {c, m}
    BY <2>2, <1>1 DEF IInv, TypeOK, GroupMeansWeld
  <2> QED BY <2>1, <2>2
<1>10. SharedGroupHasOwner'
  <2> SUFFICES ASSUME NEW x \in live, NEW y \in live, x # y,
                      group'[x] = group'[y], group'[x] # 0
               PROVE  \E d \in {x, y} \cap Carrier : nocollide[d] = group'[x]
    BY DEF SharedGroupHasOwner
  <2>1. \A z \in live \ {c, m} : group[z] # nocollide[c]
    BY <1>1, <1>3 DEF IInv, GroupMeansWeld
  <2>2. CASE x \in {c, m} \/ y \in {c, m}
    BY <2>1, <2>2, <1>1 DEF IInv, TypeOK
  <2>3. CASE x \notin {c, m} /\ y \notin {c, m}
    BY <2>3, <1>1 DEF IInv, TypeOK, SharedGroupHasOwner
  <2> QED BY <2>2, <2>3
<1> QED BY <1>2, <1>4, <1>5, <1>6, <1>7, <1>8, <1>9, <1>10 DEF IInv

(* The joint that Detach destroys may, after an address was reused, be the *)
(* weld by which another attacher holds this model: this model then leaves *)
(* the group of that attacher in the same step.                            *)
LEMMA DetachInv ==
  ASSUME IInv, NEW c \in Loaded,
         Detach(c), UNCHANGED <<live, groups, nocollide, pending>>
  PROVE  IInv'
<1> USE NamesAssumption
<1> DEFINE m == attached[c]
<1>1. /\ m \in Model
      /\ welds' = {w \in welds : ~(w.at = joint[c] /\ c \in {w.owner, w.target})}
      /\ joint' = [joint EXCEPT ![c] = NoJoint]
      /\ attached' = [attached EXCEPT ![c] = None]
      /\ settling' \in [Carrier -> Model \cup {None}]
      /\ \A d \in Carrier : settling'[d] \in {settling[d], attached[d]}
      /\ \A x \in Model : group'[x] = IF x \in {c, m} THEN 0 ELSE group[x]
  BY DEF IInv, TypeOK, Detach, Destroyed, Lifted, Grounded, SetCollisionGroup, Assign
<1>2. TypeOK'
  BY <1>1 DEF IInv, TypeOK, Detach, Destroyed, Lifted, Grounded, SetCollisionGroup, Assign
<1>3. NamesOthers' /\ OneWeldPerAddress' /\ GoneIsReset' /\ FreshGroups'
  BY <1>1 DEF IInv, TypeOK, NamesOthers, OneWeldPerAddress, GoneIsReset,
              FreshGroups
<1>4. NoOrphanWeld'
  BY <1>1 DEF IInv, TypeOK, Weld, NoOrphanWeld
<1>5. GroupMeansWeld'
  <2> SUFFICES ASSUME NEW d \in Loaded, NEW x \in live \ {d},
                      group'[x] = nocollide[d]
               PROVE  \E w \in welds' : w.owner = d /\ w.target = x
    BY DEF GroupMeansWeld
  <2>1. x \notin {c, m} /\ group[x] = nocollide[d]
    BY <1>1 DEF IInv, TypeOK, FreshGroups
  <2>2. PICK w \in welds : w.owner = d /\ w.target = x
    BY <2>1 DEF IInv, GroupMeansWeld
  <2>3. w \in welds'
    BY <2>1, <2>2, <1>1 DEF IInv, NoOrphanWeld
  <2> QED BY <2>2, <2>3
<1>6. SharedGroupHasOwner'
  BY <1>1 DEF IInv, TypeOK, SharedGroupHasOwner
<1> QED BY <1>2, <1>3, <1>4, <1>5, <1>6 DEF IInv

(* The step of a plugin leaves the welds alone; an attacher that gives up  *)
(* has none of its own, so nothing else is in its group.                   *)
LEMMA StepInv ==
  ASSUME IInv, NEW c \in Carrier, BeforePhysicsStep(c)
  PROVE  IInv'
<1> USE NamesAssumption
<1> DEFINE Raised(f) == Assign(f, IF Carries(c) THEN {attached[c]} ELSE {},
                               fork[c] + CarryOffset)
           m == settling[c]
<1>1. fork[c] + CarryOffset \in Nat
  BY HeightsAssumption DEF IInv, TypeOK
<1>2. m \in Model => SettledHeight(c) \in Nat
  BY <1>1, HeightsAssumption DEF IInv, TypeOK, SettledHeight
<1>3. elev' \in [Model -> Nat] /\ fork' \in [Carrier -> Nat]
  <2>1. Raised(elev) \in [Model -> Nat] /\ Raised(fork) \in [Carrier -> Nat]
    BY <1>1 DEF IInv, TypeOK, Assign
  <2>2. m \in Model =>
          /\ Assign(Raised(elev), {m}, SettledHeight(c)) \in [Model -> Nat]
          /\ Assign(Raised(fork), {m}, SettledHeight(c)) \in [Carrier -> Nat]
    BY <1>2, <2>1 DEF Assign
  <2> QED BY <2>1, <2>2 DEF IInv, TypeOK, BeforePhysicsStep
<1>4. /\ UNCHANGED <<live, groups, nocollide, welds>>
      /\ pending' \subseteq pending
      /\ settling' \in [Carrier -> Model \cup {None}]
      /\ \A d \in Carrier : settling'[d] \in {settling[d], None}
  BY DEF IInv, TypeOK, BeforePhysicsStep
<1>5. CASE Lost(c)
  <2>1. /\ joint' = [joint EXCEPT ![c] = NoJoint]
        /\ attached' = [attached EXCEPT ![c] = None]
        /\ \A x \in Model : group'[x] = IF x = c THEN 0 ELSE group[x]
        /\ group' \in [Model -> Int]
    BY <1>5 DEF IInv, TypeOK, BeforePhysicsStep, SetCollisionGroup, Assign
  <2>2. \A w \in welds : w.owner # c
    BY <1>5 DEF IInv, NoOrphanWeld, Lost, JointAlive
  <2>3. TypeOK'
    BY <1>3, <1>4, <2>1 DEF IInv, TypeOK
  <2>4. NamesOthers' /\ OneWeldPerAddress' /\ GoneIsReset' /\ FreshGroups'
    BY <1>4, <2>1 DEF IInv, TypeOK, NamesOthers, OneWeldPerAddress,
                      GoneIsReset, FreshGroups
  <2>5. NoOrphanWeld'
    BY <1>4, <2>1, <2>2 DEF IInv, TypeOK, Weld, NoOrphanWeld
  <2>6. GroupMeansWeld'
    BY <1>4, <2>1 DEF IInv, TypeOK, GroupMeansWeld, FreshGroups
  <2>7. SharedGroupHasOwner'
    BY <1>4, <2>1 DEF IInv, TypeOK, SharedGroupHasOwner
  <2> QED BY <2>3, <2>4, <2>5, <2>6, <2>7 DEF IInv
<1>6. CASE ~Lost(c)
  <2>1. UNCHANGED <<joint, attached>> /\ group' = group
    BY <1>6 DEF IInv, TypeOK, BeforePhysicsStep, SetCollisionGroup, Assign
  <2>2. TypeOK'
    BY <1>3, <1>4, <2>1 DEF IInv, TypeOK
  <2> QED
    BY <1>4, <2>1, <2>2
    DEF IInv, TypeOK, NamesOthers, OneWeldPerAddress, GoneIsReset,
        NoOrphanWeld, FreshGroups, GroupMeansWeld, SharedGroupHasOwner
<1> QED BY <1>5, <1>6

LEMMA NextInv == IInv /\ [Next]_vars => IInv'
<1> SUFFICES ASSUME IInv, [Next]_vars PROVE IInv'
  OBVIOUS
<1> USE NamesAssumption
<1>1. ASSUME NEW m \in Model, Spawn(m) \/ Delete(m) PROVE IInv'
  BY <1>1, SpawnInv, DeleteInv
<1>2. ASSUME NEW c \in Carrier, NEW m \in Model, NEW j \in Joint,
             OnAttachRequest(c, m, j)
      PROVE  IInv'
  BY <1>2, AttachInv DEF OnAttachRequest
<1>3. ASSUME NEW c \in Carrier, OnDetachRequest(c) PROVE IInv'
  BY <1>3, DetachInv DEF OnDetachRequest
<1>4. ASSUME NEW c \in Carrier, NEW h \in 0..LiftHeight, MoveForks(c, h)
      PROVE  IInv'
  BY <1>4, HeightsAssumption
  DEF MoveForks, IInv, TypeOK, NamesOthers, OneWeldPerAddress, GoneIsReset,
      NoOrphanWeld, FreshGroups, GroupMeansWeld, SharedGroupHasOwner
<1>5. CASE StartUpdate
  BY <1>5
  DEF StartUpdate, IInv, TypeOK, NamesOthers, OneWeldPerAddress, GoneIsReset,
      NoOrphanWeld, FreshGroups, GroupMeansWeld, SharedGroupHasOwner
<1>6. ASSUME NEW c \in Carrier, BeforePhysicsStep(c) PROVE IInv'
  BY <1>6, StepInv
<1>7. CASE UNCHANGED vars
  BY <1>7
  DEF vars, IInv, TypeOK, NamesOthers, OneWeldPerAddress, GoneIsReset,
      NoOrphanWeld, FreshGroups, GroupMeansWeld, SharedGroupHasOwner
<1> QED BY <1>1, <1>2, <1>3, <1>4, <1>5, <1>6, <1>7 DEF Next

(* The strengthened invariant holds in every reachable state.              *)
THEOREM Inductive == Spec => []IInv
BY InitInv, NextInv, PTL DEF Spec

(* Every variable keeps its type.                                          *)
THEOREM TypeCorrect == Spec => []TypeOK
<1>1. IInv => TypeOK
  BY DEF IInv
<1> QED BY <1>1, Inductive, PTL

(* A weld always has an attacher that knows it and can remove it.          *)
THEOREM WeldsAreOwned == Spec => []NoOrphanWeld
<1>1. IInv => NoOrphanWeld
  BY DEF IInv
<1> QED BY <1>1, Inductive, PTL

(* Collisions are never switched off between models that are not welded:   *)
(* the owner of a shared group is one of the two, and its group on the     *)
(* other one means a weld between them.                                    *)
THEOREM GhostingNeedsWeld == Spec => []GhostsAreWelded
<1>1. IInv => GhostsAreWelded
  <2> SUFFICES ASSUME IInv, NEW m \in live, NEW n \in live,
                      m # n, group[m] = group[n], group[m] # 0
               PROVE  \E w \in welds : {w.owner, w.target} = {m, n}
                                       /\ group[m] = nocollide[w.owner]
    BY DEF GhostsAreWelded
  <2>1. PICK c \in {m, n} \cap Carrier : nocollide[c] = group[m]
    BY DEF IInv, SharedGroupHasOwner
  <2>2. PICK x \in {m, n} : {c, x} = {m, n} /\ x # c
    OBVIOUS
  <2>3. PICK w \in welds : w.owner = c /\ w.target = x
    BY <2>1, <2>2 DEF IInv, GroupMeansWeld
  <2> QED BY <2>1, <2>2, <2>3
<1> QED BY <1>1, Inductive, PTL

-----------------------------------------------------------------------------
(***************************************************************************)
(* What an attacher reports holds.                                         *)
(***************************************************************************)

(* Only the plugins run inside an update, and each of them looks for its   *)
(* joint before it is done.                                                *)
LEMMA LostTargetNoticedNext ==
  ASSUME IInv, LostTargetNoticed, [Next]_vars
  PROVE  LostTargetNoticed'
<1>1. ASSUME NEW c \in Carrier, BeforePhysicsStep(c) PROVE LostTargetNoticed'
  <2> SUFFICES ASSUME NEW d \in Loaded', d \notin pending', pending' # {},
                      attached'[d] # None
               PROVE  \E w \in welds' : \/ w.owner = d /\ w.target = attached'[d]
                                        \/ w.target = d /\ w.at = joint'[d]
    BY DEF LostTargetNoticed
  <2>1. /\ pending # {} /\ pending' = pending \ {c} /\ UNCHANGED <<live, welds>>
        /\ joint \in [Carrier -> Joint \cup {NoJoint}]
        /\ attached \in [Carrier -> Model \cup {None}]
        /\ joint' = IF Lost(c) THEN [joint EXCEPT ![c] = NoJoint] ELSE joint
        /\ attached' = IF Lost(c) THEN [attached EXCEPT ![c] = None] ELSE attached
    BY <1>1 DEF BeforePhysicsStep, IsNext, IInv, TypeOK
  <2>2. CASE d = c
    <3>1. ~Lost(c) /\ joint'[c] = joint[c] /\ attached'[c] = attached[c]
      BY <2>1, <2>2
    <3>2. PICK w \in welds : w.at = joint[c] /\ c \in {w.owner, w.target}
      BY <2>2, <3>1 DEF Lost, JointAlive
    <3> QED
      BY <2>1, <2>2, <3>1, <3>2 DEF IInv, NoOrphanWeld
  <2>3. CASE d # c
    <3>1. joint'[d] = joint[d] /\ attached'[d] = attached[d] /\ d \notin pending
      BY <2>1, <2>3
    <3>2. d \in live \cap Carrier /\ attached[d] # None
      BY <2>1, <3>1
    <3>3. PICK w \in welds : \/ w.owner = d /\ w.target = attached[d]
                             \/ w.target = d /\ w.at = joint[d]
      BY <2>1, <3>1, <3>2 DEF LostTargetNoticed
    <3> QED
      BY <2>1, <3>1, <3>3
  <2> QED
    BY <2>2, <2>3
<1>2. CASE StartUpdate
  BY <1>2 DEF StartUpdate, LostTargetNoticed
<1>3. ASSUME NEW m \in Model, Spawn(m) \/ Delete(m) PROVE LostTargetNoticed'
  BY <1>3 DEF Spawn, Delete, LostTargetNoticed
<1>4. ASSUME NEW c \in Carrier, NEW m \in Model, NEW j \in Joint,
             OnAttachRequest(c, m, j)
      PROVE  LostTargetNoticed'
  BY <1>4 DEF OnAttachRequest, LostTargetNoticed
<1>5. ASSUME NEW c \in Carrier, OnDetachRequest(c) PROVE LostTargetNoticed'
  BY <1>5 DEF OnDetachRequest, LostTargetNoticed
<1>6. ASSUME NEW c \in Carrier, NEW h \in 0..LiftHeight, MoveForks(c, h)
      PROVE  LostTargetNoticed'
  BY <1>6 DEF MoveForks, LostTargetNoticed
<1>7. CASE UNCHANGED vars
  BY <1>7 DEF vars, LostTargetNoticed
<1> QED BY <1>1, <1>2, <1>3, <1>4, <1>5, <1>6, <1>7 DEF Next

(* A weld that was ghosted keeps its groups unless somebody meddles.       *)
GhostedStep ==
  \A w \in welds' :
    \/ IsGhosted(w)'
    \/ w \in welds /\ ~IsGhosted(w)
    \/ w \in welds /\ \E d \in Carrier : Meddles(d, w)

LEMMA GhostedNext ==
  ASSUME IInv, [Next]_vars
  PROVE  GhostedStep
<1> USE NamesAssumption DEF IsGhosted
<1>1. ASSUME UNCHANGED <<welds, group>>,
             \A w \in welds : nocollide'[w.owner] = nocollide[w.owner]
      PROVE  GhostedStep
  BY <1>1 DEF GhostedStep
<1>2. ASSUME NEW m \in Model, Spawn(m) PROVE GhostedStep
  <2>1. \A w \in welds : w.owner # m /\ w.owner \in Carrier
    BY <1>2 DEF Spawn, IInv, TypeOK, Weld, NoOrphanWeld
  <2> QED
    BY <1>1, <1>2, <2>1 DEF Spawn, IInv, TypeOK
<1>3. ASSUME NEW m \in Model, Delete(m) PROVE GhostedStep
  <2>1. /\ welds' \subseteq welds /\ \A w \in welds' : m \notin {w.owner, w.target}
        /\ \A w \in welds : w.owner \in Carrier /\ w.target \in Model
        /\ \A x \in Model \ {m} : group'[x] = group[x]
        /\ \A x \in Carrier \ {m} : nocollide'[x] = nocollide[x]
    BY <1>3 DEF Delete, Assign, IInv, TypeOK, Weld
  <2> QED
    BY <2>1 DEF GhostedStep
<1>4. ASSUME NEW c \in Carrier, NEW m \in Model, NEW j \in Joint,
             OnAttachRequest(c, m, j)
      PROVE  GhostedStep
  <2> DEFINE new == [at |-> j, owner |-> c, target |-> m]
  <2>1. /\ welds' = welds \cup {new} /\ nocollide' = nocollide
        /\ attached[c] = None /\ attached'[c] = m /\ m # None
        /\ \A x \in Model : group'[x] = IF x \in {c, m} THEN nocollide[c] ELSE group[x]
        /\ \A w \in welds : /\ w.owner \in Carrier /\ w.target \in Model
                            /\ attached[w.owner] = w.target
    BY <1>4 DEF OnAttachRequest, Attach, IsFree, Ghosts, SetCollisionGroup, Assign,
                IInv, TypeOK, Weld, NoOrphanWeld
  <2>2. IsGhosted(new)'
    BY <2>1
  <2>3. ASSUME NEW w \in welds
        PROVE  IsGhosted(w)' \/ ~IsGhosted(w) \/ Meddles(c, w)
    BY <2>1, <2>3 DEF Meddles
  <2> QED
    BY <2>1, <2>2, <2>3 DEF GhostedStep
<1>5. ASSUME NEW c \in Carrier, OnDetachRequest(c) PROVE GhostedStep
  <2>1. /\ welds' = {w \in welds : ~(w.at = joint[c] /\ c \in {w.owner, w.target})}
        /\ nocollide' = nocollide
        /\ attached[c] # None /\ attached'[c] = None
        /\ \A x \in Model : group'[x] = IF x \in {c, attached[c]} THEN 0 ELSE group[x]
        /\ \A w \in welds : /\ w.owner \in Carrier /\ w.target \in Model
                            /\ joint[w.owner] = w.at
    BY <1>5 DEF OnDetachRequest, Detach, Destroyed, SetCollisionGroup, Assign, IInv,
                TypeOK, Weld, NoOrphanWeld
  <2>2. ASSUME NEW w \in welds'
        PROVE  IsGhosted(w)' \/ ~IsGhosted(w) \/ Meddles(c, w)
    BY <2>1, <2>2 DEF Meddles
  <2> QED
    BY <2>1, <2>2 DEF GhostedStep
<1>6. ASSUME NEW c \in Carrier, BeforePhysicsStep(c) PROVE GhostedStep
  <2>1. UNCHANGED <<nocollide, welds>>
    BY <1>6 DEF BeforePhysicsStep
  <2>2. CASE Lost(c)
    <3>1. /\ attached[c] # None /\ attached'[c] = None
          /\ \A x \in Model : group'[x] = IF x = c THEN 0 ELSE group[x]
          /\ \A w \in welds : /\ w.owner \in Carrier /\ w.target \in Model
                              /\ w.owner # c
      BY <1>6, <2>2 DEF BeforePhysicsStep, Lost, JointAlive, SetCollisionGroup, Assign,
                        IInv, TypeOK, Weld, NoOrphanWeld
    <3>2. ASSUME NEW w \in welds
          PROVE  IsGhosted(w)' \/ ~IsGhosted(w) \/ Meddles(c, w)
      BY <2>1, <3>1, <3>2 DEF Meddles
    <3> QED
      BY <2>1, <3>2 DEF GhostedStep
  <2>3. CASE ~Lost(c)
    <3>1. group' = group
      BY <1>6, <2>3 DEF BeforePhysicsStep, SetCollisionGroup, Assign, IInv, TypeOK
    <3> QED
      BY <1>1, <2>1, <3>1
  <2> QED
    BY <2>2, <2>3
<1>7. ASSUME NEW c \in Carrier, NEW h \in 0..LiftHeight, MoveForks(c, h)
      PROVE  GhostedStep
  BY <1>1, <1>7 DEF MoveForks
<1>8. CASE StartUpdate
  BY <1>1, <1>8 DEF StartUpdate
<1>9. CASE UNCHANGED vars
  BY <1>1, <1>9 DEF vars
<1> QED BY <1>2, <1>3, <1>4, <1>5, <1>6, <1>7, <1>8, <1>9 DEF Next

(* An attacher that has run in an update and reports a model has a joint   *)
(* to it, and what it has welded and ghosted stays ghosted until another   *)
(* attacher meddles (BeforePhysicsStep, Attach and Detach).                *)
THEOREM ReportsHold == Spec => AttachmentsHold
<1>1. Init => LostTargetNoticed
  BY DEF Init, LostTargetNoticed
<1>2. IInv /\ [Next]_vars => [GhostedStep]_vars
  BY GhostedNext
<1> QED
  BY <1>1, <1>2, Inductive, LostTargetNoticedNext, PTL
  DEF Spec, AttachmentsHold, WeldsStayGhosted, GhostedStep

-----------------------------------------------------------------------------
(***************************************************************************)
(* Nothing is left hanging in the air.                                     *)
(***************************************************************************)

(* While nothing is deleted no attacher loses its weld, so none gives up a *)
(* load without letting it settle.                                         *)
HoldsByWeld ==
  \A c \in Carrier : attached[c] # None =>
    /\ c \in live /\ attached[c] \in live \ {c}
    /\ \E w \in welds : w.owner = c /\ w.at = joint[c]

GoneAreDown == \A m \in Model \ live : elev[m] = 0

AloftInv == HoldsByWeld /\ GoneAreDown /\ HeldOrSettling

LEMMA AloftStep ==
  ASSUME IInv, AloftInv, NEW c \in Carrier, BeforePhysicsStep(c)
  PROVE  AloftInv'
<1> USE NamesAssumption
<1> DEFINE m == settling[c]
           settles == m # None /\ m \in live \ {c}
           Raised == Assign(elev, IF Carries(c) THEN {attached[c]} ELSE {},
                            fork[c] + CarryOffset)
<1>1. ~Lost(c) /\ UNCHANGED <<live, welds, joint, attached>>
  BY DEF BeforePhysicsStep, Lost, JointAlive, AloftInv, HoldsByWeld
<1>2. HoldsByWeld'
  BY <1>1 DEF AloftInv, HoldsByWeld
<1>3. \A x \in Model : x \notin live \/ x \notin {attached[c], m} =>
        elev'[x] = elev[x]
  BY DEF BeforePhysicsStep, Assign, Carries, IInv, TypeOK
<1>4. elev' = IF settles THEN Assign(Raised, {m}, SettledHeight(c)) ELSE Raised
  BY DEF BeforePhysicsStep
<1>5. /\ settling' = [settling EXCEPT ![c] =
                        IF settles /\ SettledHeight(c) > 0 THEN m ELSE None]
      /\ settling \in [Carrier -> Model \cup {None}]
  BY DEF BeforePhysicsStep, IInv, TypeOK
<1>6. settles => elev'[m] = SettledHeight(c)
  BY <1>4, <1>5 DEF Assign, IInv, TypeOK
<1>7. m \in live => settles
  BY <1>5 DEF IInv, TypeOK, NamesOthers
<1>8. HeldOrSettling'
  <2> SUFFICES ASSUME NEW x \in live, elev'[x] > 0
               PROVE  \E d \in live \cap Carrier : x \in {attached[d], settling'[d]}
    BY <1>1 DEF HeldOrSettling
  <2>1. CASE x = attached[c]
    BY <2>1 DEF AloftInv, HoldsByWeld, IInv, TypeOK
  <2>2. CASE x # attached[c] /\ x = m
    <3>1. elev[x] > 0
      BY <1>4, <1>6, <1>7, <2>2, HeightsAssumption DEF SettledHeight, IInv, TypeOK
    <3>2. settling'[c] = x
      BY <1>5, <1>6, <1>7, <2>2
    <3>3. PICK d \in live \cap Carrier : x \in {attached[d], settling[d]}
      BY <3>1 DEF AloftInv, HeldOrSettling
    <3> QED
      BY <1>5, <3>2, <3>3
  <2>3. CASE x \notin {attached[c], m}
    <3>1. PICK d \in live \cap Carrier : x \in {attached[d], settling[d]}
      BY <1>3, <2>3 DEF AloftInv, HeldOrSettling, IInv, TypeOK
    <3> QED
      BY <1>5, <2>3, <3>1
  <2> QED
    BY <2>1, <2>2, <2>3
<1>9. GoneAreDown'
  BY <1>1, <1>3 DEF AloftInv, GoneAreDown
<1> QED
  BY <1>2, <1>8, <1>9 DEF AloftInv

(* A model let go in the air settles, and the one that was settling before *)
(* is put on the floor.                                                    *)
LEMMA AloftDetach ==
  ASSUME IInv, AloftInv, NEW c \in Loaded, Detach(c),
         UNCHANGED <<live, groups, nocollide, pending>>
  PROVE  AloftInv'
<1> USE NamesAssumption
<1> DEFINE m == attached[c]
<1>1. /\ m # None /\ m \in live \ {c} /\ m \in Model
      /\ welds' = {w \in welds : ~(w.at = joint[c] /\ c \in {w.owner, w.target})}
      /\ joint' = [joint EXCEPT ![c] = NoJoint]
      /\ attached' = [attached EXCEPT ![c] = None]
      /\ settling' = [settling EXCEPT ![c] = IF Lifted(c) THEN m ELSE @]
      /\ \A x \in Model : elev'[x] = IF x \in Grounded(c) THEN 0 ELSE elev[x]
  BY DEF Detach, Destroyed, Assign, IInv, TypeOK, AloftInv, HoldsByWeld
<1>2. /\ joint \in [Carrier -> Joint \cup {NoJoint}]
      /\ attached \in [Carrier -> Model \cup {None}]
      /\ settling \in [Carrier -> Model \cup {None}]
      /\ elev \in [Model -> Nat]
  BY DEF IInv, TypeOK
<1>3. HoldsByWeld'
  <2>1. PICK own \in welds : own.owner = c /\ own.at = joint[c]
    BY <1>1 DEF AloftInv, HoldsByWeld
  <2>2. \A w \in welds : w.owner # c => w \in welds'
    BY <1>1, <2>1 DEF IInv, OneWeldPerAddress
  <2> QED
    BY <1>1, <1>2, <2>2 DEF AloftInv, HoldsByWeld
<1>4. HeldOrSettling'
  <2> SUFFICES ASSUME NEW x \in live, elev'[x] > 0
               PROVE  \E d \in live \cap Carrier : x \in {attached'[d], settling'[d]}
    BY DEF HeldOrSettling
  <2>1. elev[x] > 0 /\ x \notin Grounded(c) /\ x \in Model
    BY <1>1, <1>2 DEF IInv, TypeOK
  <2>2. PICK d \in live \cap Carrier : x \in {attached[d], settling[d]}
    BY <2>1 DEF AloftInv, HeldOrSettling
  <2>3. CASE x = m
    BY <1>1, <1>2, <2>1, <2>3 DEF Lifted
  <2>4. CASE x # m
    <3>1. ~(Lifted(c) /\ x = settling[c])
      BY <2>1, <2>4, NamesAssumption DEF Grounded, IInv, NamesOthers
    <3> QED
      BY <1>1, <1>2, <2>2, <2>4, <3>1
  <2> QED
    BY <2>3, <2>4
<1>5. GoneAreDown'
  BY <1>1, <1>2 DEF AloftInv, GoneAreDown
<1> QED
  BY <1>3, <1>4, <1>5 DEF AloftInv

LEMMA AloftAttach ==
  ASSUME IInv, AloftInv, NEW c \in Loaded, NEW m \in Model, NEW j \in Joint,
         Attach(c, m, j), UNCHANGED <<live, groups, nocollide, pending>>
  PROVE  AloftInv'
<1> USE NamesAssumption
<1> DEFINE new == [at |-> j, owner |-> c, target |-> m]
<1>1. /\ m \in live \ {c} /\ m # None /\ attached[c] = None
      /\ welds' = welds \cup {new}
      /\ joint' = [joint EXCEPT ![c] = j]
      /\ attached' = [attached EXCEPT ![c] = m]
      /\ settling' = [settling EXCEPT ![c] = IF @ = m THEN None ELSE @]
      /\ elev' = elev
  BY DEF Attach, IsFree
<1>2. /\ joint \in [Carrier -> Joint \cup {NoJoint}]
      /\ attached \in [Carrier -> Model \cup {None}]
      /\ settling \in [Carrier -> Model \cup {None}]
  BY DEF IInv, TypeOK
<1>3. HoldsByWeld'
  <2>1. live' = live /\ welds \subseteq welds'
    BY <1>1
  <2>2. \A d \in Carrier : d # c => attached'[d] = attached[d] /\ joint'[d] = joint[d]
    BY <1>1, <1>2
  <2>3. attached'[c] = m /\ \E w \in welds' : w.owner = c /\ w.at = joint'[c]
    <3>1. /\ new \in welds' /\ new.owner = c /\ new.at = j
          /\ joint'[c] = j /\ attached'[c] = m
      BY <1>1, <1>2
    <3> QED
      BY <3>1
  <2> QED
    BY <1>1, <2>1, <2>2, <2>3 DEF AloftInv, HoldsByWeld
<1>4. HeldOrSettling'
  <2> SUFFICES ASSUME NEW x \in live, elev[x] > 0
               PROVE  \E d \in live \cap Carrier : x \in {attached'[d], settling'[d]}
    BY <1>1 DEF HeldOrSettling
  <2>1. PICK d \in live \cap Carrier : x \in {attached[d], settling[d]}
    BY DEF AloftInv, HeldOrSettling
  <2> QED
    BY <1>1, <1>2, <2>1 DEF IInv, TypeOK
<1>5. GoneAreDown'
  BY <1>1 DEF AloftInv, GoneAreDown
<1> QED
  BY <1>3, <1>4, <1>5 DEF AloftInv

LEMMA AloftNext ==
  ASSUME Deletable = {}, IInv, AloftInv, [Next]_vars
  PROVE  AloftInv'
<1> USE NamesAssumption
<1>1. ASSUME NEW m \in Model, Spawn(m) PROVE AloftInv'
  BY <1>1 DEF Spawn, AloftInv, HoldsByWeld, GoneAreDown, HeldOrSettling, IInv, TypeOK
<1>2. ASSUME NEW m \in Model, Delete(m) PROVE AloftInv'
  BY <1>2 DEF Delete
<1>3. ASSUME NEW c \in Carrier, NEW m \in Model, NEW j \in Joint,
             OnAttachRequest(c, m, j)
      PROVE  AloftInv'
  BY <1>3, AloftAttach DEF OnAttachRequest
<1>4. ASSUME NEW c \in Carrier, OnDetachRequest(c) PROVE AloftInv'
  BY <1>4, AloftDetach DEF OnDetachRequest
<1>5. ASSUME NEW c \in Carrier, NEW h \in 0..LiftHeight, MoveForks(c, h)
      PROVE  AloftInv'
  BY <1>5 DEF MoveForks, AloftInv, HoldsByWeld, GoneAreDown, HeldOrSettling
<1>6. CASE StartUpdate \/ UNCHANGED vars
  BY <1>6 DEF StartUpdate, vars, AloftInv, HoldsByWeld, GoneAreDown, HeldOrSettling
<1>7. ASSUME NEW c \in Carrier, BeforePhysicsStep(c) PROVE AloftInv'
  BY <1>7, AloftStep
<1> QED BY <1>1, <1>2, <1>3, <1>4, <1>5, <1>6, <1>7 DEF Next

(* In a world where nothing is deleted, what is raised is attached to some *)
(* attacher or on its way down (Attach, Detach, UpdateSettling).           *)
THEOREM NothingHangs ==
  ASSUME Deletable = {}
  PROVE  Spec => []HeldOrSettling
<1>1. Init => AloftInv
  BY DEF Init, AloftInv, HoldsByWeld, GoneAreDown, HeldOrSettling
<1>2. AloftInv => HeldOrSettling
  BY DEF AloftInv
<1> QED
  BY <1>1, <1>2, Inductive, AloftNext, PTL DEF Spec

=============================================================================
