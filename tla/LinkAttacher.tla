---------------------------- MODULE LinkAttacher ----------------------------
(***************************************************************************)
(* The LinkAttacher plugin: robots ("carriers") that weld another model to *)
(* their attach body at run time, carry it on their forks and let it       *)
(* settle after release (flatland_plugins/src/link_attacher.cpp), together *)
(* with the part of World and PluginManager the plugin depends on: models  *)
(* are spawned and deleted by service calls between two updates, and an    *)
(* update runs the BeforePhysicsStep of the plugins in load order.         *)
(*                                                                         *)
(* A model name stands for the live model of that name: World::LoadModel   *)
(* refuses a second one, so a name denotes at most one object at a time,   *)
(* and it may denote another object after a delete and a respawn.          *)
(*                                                                         *)
(* Abstractions.  Geometry is left out: whether a target is within         *)
(* capture_range of the capture point is a free choice of the action that  *)
(* attaches it, and a refused request changes nothing.  Heights are whole  *)
(* numbers of an arbitrary unit.  The attach body is the first body of its *)
(* model, so a weld to a carrier (Attach accepts any named model) shows up *)
(* in that carrier's own joint list.                                       *)
(***************************************************************************)
EXTENDS Integers

CONSTANTS
  Model,        \* names a model can be given
  Carrier,      \* the models whose yaml holds a LinkAttacher plugin
  ForkCarrier,  \* the carriers configured with an elevation_source_body
  Deletable,    \* the models the environment deletes (and may respawn)
  Joint,        \* addresses the Box2D block allocator hands out for welds
  NoJoint,      \* the null b2Joint pointer
  None,         \* the empty model name
  LiftHeight,   \* highest elevation of a fork body
  CarryOffset,  \* carry_elevation_offset
  Drop,         \* drop_speed * step size
  MaxGroups     \* bound: how many LinkAttachers are ever initialized

ASSUME NamesAssumption ==
  /\ ForkCarrier \subseteq Carrier
  /\ Carrier \subseteq Model
  /\ Deletable \subseteq Model
  /\ None \notin Model
  /\ NoJoint \notin Joint
ASSUME HeightsAssumption ==
  /\ LiftHeight \in Nat
  /\ CarryOffset \in Nat
  /\ Drop \in Nat \ {0}
ASSUME BoundAssumption == MaxGroups \in Nat

VARIABLES
  live,       \* names of World::models_
  groups,     \* how often RegisterNoCollide was called
  nocollide,  \* nocollide_group_ of each carrier's attacher, 0 if not loaded
  welds,      \* live weld joints: address, the attacher's model, its target
  joint,      \* joint_ of each attacher
  attached,   \* attached_model_name_ of each attacher
  settling,   \* settling_model_ of each attacher
  group,      \* groupIndex of the fixtures of each model
  elev,       \* elevation_ of the first body of each model
  fork,       \* elevation_ of the elevation source body of each carrier
  pending     \* attachers whose BeforePhysicsStep is still to run in the
              \* current World::Update; {} between two updates

vars == <<live, groups, nocollide, welds, joint, attached, settling, group,
          elev, fork, pending>>

Weld == [at : Joint, owner : Carrier, target : Model]

TypeOK ==
  /\ live \subseteq Model
  /\ groups \in Nat
  /\ nocollide \in [Carrier -> Int]
  /\ welds \subseteq Weld
  /\ joint \in [Carrier -> Joint \cup {NoJoint}]
  /\ attached \in [Carrier -> Model \cup {None}]
  /\ settling \in [Carrier -> Model \cup {None}]
  /\ group \in [Model -> Int]
  /\ elev \in [Model -> Nat]
  /\ fork \in [Carrier -> Nat]
  /\ pending \subseteq Carrier

Init ==
  /\ live = {}
  /\ groups = 0
  /\ nocollide = [c \in Carrier |-> 0]
  /\ welds = {}
  /\ joint = [c \in Carrier |-> NoJoint]
  /\ attached = [c \in Carrier |-> None]
  /\ settling = [c \in Carrier |-> None]
  /\ group = [m \in Model |-> 0]
  /\ elev = [m \in Model |-> 0]
  /\ fork = [c \in Carrier |-> 0]
  /\ pending = {}

-----------------------------------------------------------------------------
(***************************************************************************)
(* Helpers                                                                 *)
(***************************************************************************)

Loaded == live \cap Carrier

(* f with the value v at every argument in S.                              *)
Assign(f, S, v) == [x \in DOMAIN f |-> IF x \in S THEN v ELSE f[x]]

(* FindModelByName: skips the attacher's own model.                        *)
Finds(c, m) == m \in live \ {c}

Ends(w) == {w.owner, w.target}

FreeAddress == Joint \ {w.at : w \in welds}

(* The joint list of the attach body still holds an edge whose joint       *)
(* pointer equals joint_.                                                  *)
JointAlive(c) == \E w \in welds : w.at = joint[c] /\ c \in Ends(w)

SetCollisionGroup(S, g) == group' = Assign(group, S, g)

-----------------------------------------------------------------------------
(***************************************************************************)
(* World: spawn and delete services, handled between two updates           *)
(***************************************************************************)

(* RegisterNoCollide: the fresh negative group of a new attacher.          *)
MutantStaleGroup == -1
FreshGroup == -(groups + 1)

(* LoadModel: fixtures start in group 0, bodies at the elevation of the    *)
(* yaml (0 here), and the attacher registers a fresh negative group.       *)
Spawn(m) ==
  /\ pending = {}
  /\ m \notin live
  /\ live' = live \cup {m}
  /\ IF m \in Carrier
     THEN /\ groups < MaxGroups
          /\ groups' = groups + 1
          /\ nocollide' = [nocollide EXCEPT ![m] = FreshGroup]
     ELSE UNCHANGED <<groups, nocollide>>
  /\ UNCHANGED <<welds, joint, attached, settling, group, elev, fork, pending>>

(* DeleteModel: the plugin goes first and touches no physics, then Box2D   *)
(* destroys the bodies with every joint connected to them.  The variables  *)
(* of the deleted object are reset here because the object no longer       *)
(* exists; those of the other models keep their values.                    *)
Delete(m) ==
  /\ pending = {}
  /\ m \in live \cap Deletable
  /\ live' = live \ {m}
  /\ welds' = {w \in welds : m \notin Ends(w)}
  /\ nocollide' = Assign(nocollide, {m}, 0)
  /\ joint' = Assign(joint, {m}, NoJoint)
  /\ attached' = Assign(attached, {m}, None)
  /\ settling' = Assign(settling, {m}, None)
  /\ group' = Assign(group, {m}, 0)
  /\ elev' = Assign(elev, {m}, 0)
  /\ fork' = Assign(fork, {m}, 0)
  /\ UNCHANGED <<groups, pending>>

-----------------------------------------------------------------------------
(***************************************************************************)
(* The attacher's services.  The effects are operators of their own: a     *)
(* ForkController calls them from its BeforePhysicsStep as well.           *)
(***************************************************************************)

(* Attach a live model other than c that is in range: weld it at the       *)
(* address j, put both models in the group of the attacher, and take the   *)
(* model back from settling if it was still on its way down.               *)
MutantFree(c) == TRUE
IsFree(c) == attached[c] = None

MutantGhosts(c, m) == {m}
Ghosts(c, m) == {c, m}

Attach(c, m, j) ==
  /\ IsFree(c)
  /\ Finds(c, m)
  /\ j \in FreeAddress
  /\ welds' = welds \cup {[at |-> j, owner |-> c, target |-> m]}
  /\ joint' = [joint EXCEPT ![c] = j]
  /\ SetCollisionGroup(Ghosts(c, m), nocollide[c])
  /\ attached' = [attached EXCEPT ![c] = m]
  /\ settling' = [settling EXCEPT ![c] = IF @ = m THEN None ELSE @]
  /\ UNCHANGED <<elev, fork>>

(* Detach: destroy the joint if the attach body still lists it, restore    *)
(* group 0, and let a lifted target settle, grounding the model that was   *)
(* settling before.                                                        *)
Destroyed(c) == {w \in welds : w.at = joint[c] /\ c \in Ends(w)}

Lifted(c) == Finds(c, attached[c]) /\ elev[attached[c]] > 0

Grounded(c) == IF Lifted(c) /\ settling[c] # attached[c] /\ Finds(c, settling[c])
               THEN {settling[c]} ELSE {}

Detach(c) ==
  LET m == attached[c]
  IN /\ m # None
     /\ welds' = welds \ Destroyed(c)
     /\ joint' = [joint EXCEPT ![c] = NoJoint]
     /\ SetCollisionGroup({c, m}, 0)
     /\ elev' = Assign(elev, Grounded(c), 0)
     /\ fork' = Assign(fork, Grounded(c), 0)
     /\ settling' = [settling EXCEPT ![c] = IF Lifted(c) THEN m ELSE @]
     /\ attached' = [attached EXCEPT ![c] = None]

(* The services run in the executor, between two updates.                  *)
OnAttachRequest(c, m, j) ==
  /\ pending = {}
  /\ c \in Loaded
  /\ Attach(c, m, j)
  /\ UNCHANGED <<live, groups, nocollide, pending>>

OnDetachRequest(c) ==
  /\ pending = {}
  /\ c \in Loaded
  /\ Detach(c)
  /\ UNCHANGED <<live, groups, nocollide, pending>>

-----------------------------------------------------------------------------
(***************************************************************************)
(* The update                                                              *)
(***************************************************************************)

(* World::Update of a world that is not paused.                            *)
StartUpdate ==
  /\ pending = {}
  /\ pending' = Loaded
  /\ UNCHANGED <<live, groups, nocollide, welds, joint, attached, settling,
                 group, elev, fork>>

(* PluginManager runs the plugins in load order, which is the order in     *)
(* which they registered their groups -1, -2, ...                          *)
IsNext(c) == c \in pending /\ \A d \in pending : nocollide[d] <= nocollide[c]

(* First half of BeforePhysicsStep: give up an attachment whose joint is   *)
(* gone, or else let the target ride the forks.                            *)
Carries(c) == c \in ForkCarrier /\ attached[c] # None /\ JointAlive(c)
              /\ Finds(c, attached[c])
Lost(c) == attached[c] # None /\ ~JointAlive(c)

(* Second half: the height a settling model has after the step.  It starts *)
(* from what the first half may just have written.                         *)
MutantSettledHeight(c) == elev[settling[c]]
SettledHeight(c) ==
  LET m == settling[c]
      h == IF Carries(c) /\ attached[c] = m THEN fork[c] + CarryOffset
                                            ELSE elev[m]
  IN IF h > Drop THEN h - Drop ELSE 0

BeforePhysicsStep(c) ==
  LET m == settling[c]
      settles == m # None /\ Finds(c, m)
      ridden == IF Carries(c) THEN {attached[c]} ELSE {}
      Raise(f) == Assign(f, ridden, fork[c] + CarryOffset)
      Lower(f) == IF settles THEN Assign(f, {m}, SettledHeight(c)) ELSE f
  IN /\ IsNext(c)
     /\ pending' = pending \ {c}
     /\ joint' = IF Lost(c) THEN [joint EXCEPT ![c] = NoJoint] ELSE joint
     /\ attached' = IF Lost(c) THEN [attached EXCEPT ![c] = None] ELSE attached
     /\ SetCollisionGroup(IF Lost(c) THEN {c} ELSE {}, 0)
     /\ elev' = Lower(Raise(elev))
     /\ fork' = Lower(Raise(fork))
     /\ settling' = [settling EXCEPT ![c] =
                       IF settles /\ SettledHeight(c) > 0 THEN m ELSE None]
     /\ UNCHANGED <<live, groups, nocollide, welds>>

(* The Forklift plugin of c puts its fork bodies at a height of its own    *)
(* stroke, from its BeforePhysicsStep or from a service call.              *)
MoveForks(c, h) ==
  /\ c \in Loaded \cap ForkCarrier
  /\ fork' = [fork EXCEPT ![c] = h]
  /\ UNCHANGED <<live, groups, nocollide, welds, joint, attached, settling,
                 group, elev, pending>>

Next ==
  \/ \E m \in Model : Spawn(m) \/ Delete(m)
  \/ \E c \in Carrier, m \in Model, j \in Joint : OnAttachRequest(c, m, j)
  \/ \E c \in Carrier : OnDetachRequest(c)
  \/ \E c \in Carrier, h \in 0..LiftHeight : MoveForks(c, h)
  \/ StartUpdate
  \/ \E c \in Carrier : BeforePhysicsStep(c)

Spec == Init /\ [][Next]_vars

-----------------------------------------------------------------------------
(***************************************************************************)
(* Properties                                                              *)
(***************************************************************************)

(* A weld is never orphaned: as long as the joint exists, the attacher     *)
(* that created it is loaded, still holds its pointer and still reports    *)
(* the model at its other end, so that a detach request can remove it.     *)
NoOrphanWeld ==
  \A w \in welds :
    /\ {w.owner, w.target} \subseteq live
    /\ joint[w.owner] = w.at
    /\ attached[w.owner] = w.target

(* Collisions are switched off only between models that are welded         *)
(* together: two live models share a non-zero group only if one of them    *)
(* owns the group and a live weld of its attacher holds the other one.     *)
GhostsAreWelded ==
  \A m, n \in live :
    (m # n /\ group[m] = group[n] /\ group[m] # 0) =>
      \E w \in welds : Ends(w) = {m, n} /\ group[m] = nocollide[w.owner]

(* The strengthening that makes the two invariants above inductive.        *)
NamesOthers == \A c \in Carrier : c \notin {attached[c], settling[c]}

OneWeldPerAddress == \A v, w \in welds : v.at = w.at => v = w

GoneIsReset ==
  /\ \A m \in Model \ live : group[m] = 0
  /\ \A c \in Carrier \ live : nocollide[c] = 0 /\ attached[c] = None

FreshGroups ==
  /\ \A m \in Model : -groups <= group[m] /\ group[m] <= 0
  /\ \A c \in Loaded : -groups <= nocollide[c] /\ nocollide[c] < 0
  /\ \A c, d \in Loaded : nocollide[c] = nocollide[d] => c = d

(* Outside its own model, the group of an attacher is found only on the    *)
(* model it is welded to.                                                  *)
GroupMeansWeld ==
  \A c \in Loaded : \A m \in live \ {c} : group[m] = nocollide[c] =>
    \E w \in welds : w.owner = c /\ w.target = m

(* A group left behind by a deleted attacher is on one model only.         *)
SharedGroupHasOwner ==
  \A m, n \in live : (m # n /\ group[m] = group[n] /\ group[m] # 0) =>
    \E c \in {m, n} \cap Carrier : nocollide[c] = group[m]

IInv ==
  /\ TypeOK
  /\ NamesOthers
  /\ OneWeldPerAddress
  /\ GoneIsReset
  /\ NoOrphanWeld
  /\ FreshGroups
  /\ GroupMeansWeld
  /\ SharedGroupHasOwner

(* b2ContactFilter::ShouldCollide of two models on the same layers: a      *)
(* common negative group keeps them apart.                                 *)
Collide(m, n) == ~(group[m] = group[n] /\ group[m] < 0)

(* "While attached the two models stop colliding with each other"          *)
(* (link_attacher.h:28), said of a load, a model without an attacher of    *)
(* its own, on a carrier that is not carried itself.                       *)
WeldedStopColliding ==
  \A w \in welds :
    w.target \notin Carrier /\ (\A v \in welds : v.target # w.owner)
      => ~Collide(w.owner, w.target)

(* Both ends of a weld are in the owner's group, and so do not collide.    *)
IsGhosted(w) == \A m \in Ends(w) : group[m] = nocollide[w.owner]

(* What is true of them: a new weld is ghosted, and stays so until the     *)
(* attacher of another carrier attaches or lets go of something while that *)
(* carrier or what it holds is an end of the weld.                         *)
Meddles(d, w) ==
  /\ d # w.owner
  /\ attached'[d] # attached[d]
  /\ {d, attached[d], attached'[d]} \cap Ends(w) # {}

WeldsStayGhosted ==
  [][\A w \in welds' :
       \/ IsGhosted(w)'
       \/ w \in welds /\ ~IsGhosted(w)
       \/ w \in welds /\ \E d \in Carrier : Meddles(d, w)]_vars

(* The deletion of an attached target is noticed (link_attacher.cpp:329,   *)
(* "detect that by checking the attach body's joint list"): an attacher    *)
(* that has run in the current update and still reports a model has a weld *)
(* of its own to it.  Nothing but the plugins runs inside an update.  The  *)
(* pointer comparison is blind in one case only: another carrier welded    *)
(* itself to this one and its joint got the address of the lost one.       *)
LostTargetNoticed ==
  \A c \in Loaded \ pending :
    (pending # {} /\ attached[c] # None) =>
      \E w \in welds : \/ w.owner = c /\ w.target = attached[c]
                       \/ w.target = c /\ w.at = joint[c]

(* What an attacher reports holds: its weld is there, and ghosted.         *)
AttachmentsHold == []LostTargetNoticed /\ WeldsStayGhosted

(* Nothing is left hanging in the air: a raised model is either attached   *)
(* to some attacher or on its way down.  It is stated of a world where     *)
(* nothing is deleted: an attacher deleted with its load, or one that      *)
(* notices that its weld is gone while the load lives on, settles nothing. *)
HeldOrSettling ==
  \A m \in live : elev[m] > 0 =>
    \E c \in Loaded : m \in {attached[c], settling[c]}

(* The simulator keeps running: updates are started and finished.  Spawn   *)
(* requests, attach requests and fork commands may stop or go on for ever. *)
FairSpec ==
  Spec /\ WF_vars(StartUpdate) /\ \A c \in Carrier : WF_vars(BeforePhysicsStep(c))

(* A released model reaches the floor (or is picked up again, or deleted)  *)
(* unless some attacher, possibly another one, still reports it attached   *)
(* and keeps pushing it back up.                                           *)
ReleasedSettles ==
  \A c \in Carrier, m \in Model :
    settling[c] = m ~>
      (settling[c] # m \/ \E d \in Loaded : attached[d] = m)

(* Both: what is raised comes down.                                        *)
LoadsComeDown == []HeldOrSettling /\ ReleasedSettles

=============================================================================
