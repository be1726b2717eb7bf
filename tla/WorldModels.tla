---------------------------- MODULE WorldModels ----------------------------
(***************************************************************************)
(* The life of models and of everything that hangs on them: World loads a  *)
(* model body by body, joint by joint and plugin by plugin, any of which   *)
(* may throw, deletes models, and is itself destroyed                      *)
(* (flatland_server/src/world.cpp, model.cpp, model_body.cpp, joint.cpp,   *)
(* plugin_manager.cpp, service_manager.cpp).                               *)
(*                                                                         *)
(* A part of a model is a pair of the model's name and a number.  Box2D's  *)
(* own objects (b2Body, b2Joint) are tracked apart from the Body and Joint *)
(* objects that point to them.  There is one layer.  What a yaml file      *)
(* contains is a free choice of the actions: a part may be loaded, be      *)
(* disabled, or throw.                                                     *)
(***************************************************************************)
EXTENDS Integers, FiniteSets

CONSTANTS
  Name,        \* names of models
  Layer,       \* the layer
  NoName,      \* no model is being loaded
  BodyCount,   \* bodies listed in a model's yaml
  JointCount,  \* joints listed, each between the bodies 1 and 2
  PluginCount  \* plugins listed

NamesAssumption == Layer \notin Name /\ NoName \notin Name
CountsAssumption ==
  /\ BodyCount \in Nat \ {0, 1}
  /\ {JointCount, PluginCount} \subseteq Nat

ASSUME NamesAssumption /\ CountsAssumption

VARIABLES
  models,     \* names of World::models_
  loading,    \* the model LoadModel is working on
  stage,      \* "bodies", "joints", "plugins" of that model; "down" once
              \* ~World has begun
  at,         \* number of the part of the stage that is loaded next
  bodies,     \* Body objects
  joints,     \* Joint objects
  b2bodies,   \* b2Body objects
  b2joints,   \* b2Joint objects
  plugins,    \* PluginManager::model_plugins_
  markers,    \* interactive markers
  touching,   \* touching contacts, sets of two b2Bodies
  listening,  \* the World is the contact listener of the b2World
  answer,     \* success of the last service call
  misuse      \* history: uses of an object that is gone

lifeVars == <<models, loading, stage, at, bodies, joints, b2bodies, b2joints,
          plugins, markers, touching, listening, answer, misuse>>

Part(count) == Name \X (1 .. count)
Ground == <<Layer, 1>>
AllBodies == Part(BodyCount) \cup {Ground}
Of(n, parts) == {p \in parts : p[1] = n}
Ends(n) == {<<n, 1>>, <<n, 2>>}

Contact == {c \in SUBSET AllBodies : \E p, q \in c : c = {p, q} /\ p[1] # q[1]}

Idle == loading = NoName /\ stage # "down"

LifeTypeOK ==
  /\ models \subseteq Name
  /\ loading \in Name \cup {NoName}
  /\ stage \in {"bodies", "joints", "plugins", "down"}
  /\ at \in 1 .. 1 + BodyCount + JointCount + PluginCount
  /\ bodies \subseteq AllBodies /\ b2bodies \subseteq AllBodies
  /\ joints \subseteq Part(JointCount) /\ b2joints \subseteq Part(JointCount)
  /\ plugins \subseteq Part(PluginCount)
  /\ markers \subseteq Name
  /\ touching \subseteq Contact
  /\ listening \in BOOLEAN /\ answer \in BOOLEAN
  /\ misuse \subseteq {"joint", "contact"}

LifeInit ==
  /\ models = {} /\ loading = NoName /\ stage = "bodies" /\ at = 1
  /\ bodies = {Ground} /\ b2bodies = {Ground}
  /\ joints = {} /\ b2joints = {} /\ plugins = {} /\ markers = {}
  /\ touching = {} /\ listening = TRUE /\ answer = TRUE /\ misuse = {}

-----------------------------------------------------------------------------
(***************************************************************************)
(* ~Model: first the joints, then the bodies                               *)
(***************************************************************************)

(* The b2Joints that are left when the Joint objects are deleted:          *)
(* destroying a b2Body destroys the b2Joints on it.                        *)
JointsLeft(n) == b2joints

(* ~Body destroys its b2Body.                                              *)
Freed(n) == Of(n, bodies)

Ending(n) == {c \in touching : \E p \in c : p[1] = n}

(* DestroyBody ends the contacts of the body; the listener passes that on  *)
(* to every plugin, whose FilterContact looks at both Body objects.        *)
Misused(n, listeners) ==
  {"joint" : j \in Of(n, joints) \ JointsLeft(n)} \cup
  {"contact" : c \in {c \in Ending(n) : /\ listening /\ listeners # {}
                                        /\ ~(c \subseteq bodies)}}

DestroyModel(n, listeners) ==
  /\ joints' = joints \ Of(n, joints)
  /\ b2joints' = b2joints \ Of(n, b2joints)
  /\ bodies' = bodies \ Of(n, bodies)
  /\ b2bodies' = b2bodies \ Freed(n)
  /\ touching' = touching \ Ending(n)
  /\ misuse' = misuse \cup Misused(n, listeners)

-----------------------------------------------------------------------------
(***************************************************************************)
(* spawn_model                                                             *)
(***************************************************************************)

RefuseDuplicate(n) ==
  /\ Idle
  /\ n \in models
  /\ answer' = FALSE
  /\ UNCHANGED <<models, loading, stage, at, bodies, joints, b2bodies,
                 b2joints, plugins, markers, touching, listening, misuse>>

MutantUnique(n) == TRUE
Unique(n) == n \notin models

StartLoad(n) ==
  /\ Idle
  /\ Unique(n)
  /\ loading' = n /\ stage' = "bodies" /\ at' = 1
  /\ UNCHANGED <<models, bodies, joints, b2bodies, b2joints, plugins, markers,
                 touching, listening, answer, misuse>>

(* The loop over the parts of a stage goes on, or the next stage begins.   *)
More(count) == at < count

Continue(count, next) ==
  IF More(count) THEN at' = at + 1 /\ stage' = stage ELSE at' = 1 /\ stage' = next

(* MakeBody and push_back, or `enabled: false`.                            *)
LoadBody(enabled) ==
  /\ loading # NoName /\ stage = "bodies"
  /\ IF enabled THEN /\ bodies' = bodies \cup {<<loading, at>>}
                     /\ b2bodies' = b2bodies \cup {<<loading, at>>}
                ELSE UNCHANGED <<bodies, b2bodies>>
  /\ Continue(BodyCount, IF JointCount > 0 THEN "joints" ELSE "plugins")
  /\ UNCHANGED <<models, loading, joints, b2joints, plugins, markers, touching,
                 listening, answer, misuse>>

(* MakeJoint finds both bodies, or `enabled: false`.                       *)
LoadJoint(enabled) ==
  /\ loading # NoName /\ stage = "joints"
  /\ IF enabled THEN /\ Ends(loading) \subseteq bodies
                     /\ joints' = joints \cup {<<loading, at>>}
                     /\ b2joints' = b2joints \cup {<<loading, at>>}
                ELSE UNCHANGED <<joints, b2joints>>
  /\ Continue(JointCount, "plugins")
  /\ UNCHANGED <<models, loading, bodies, b2bodies, plugins, markers, touching,
                 listening, answer, misuse>>

(* LoadModelPlugin: the plugin is listed once Initialize returned.         *)
LoadPlugin(enabled) ==
  /\ loading # NoName /\ stage = "plugins" /\ at <= PluginCount
  /\ plugins' = IF enabled THEN plugins \cup {<<loading, at>>} ELSE plugins
  /\ at' = at + 1
  /\ UNCHANGED <<models, loading, stage, bodies, joints, b2bodies, b2joints,
                 markers, touching, listening, answer, misuse>>

FinishLoad ==
  /\ loading # NoName /\ stage = "plugins" /\ at > PluginCount
  /\ models' = models \cup {loading}
  /\ markers' = markers \cup {loading}
  /\ answer' = TRUE
  /\ loading' = NoName
  /\ UNCHANGED <<stage, at, bodies, joints, b2bodies, b2joints, plugins,
                 touching, listening, misuse>>

(* PluginManager::DeleteModelPlugin                                        *)
OtherPlugins(n) == plugins \ Of(n, plugins)

(* A body or joint that throws: MakeBody and MakeJoint delete what they    *)
(* made; a second body or joint of one name was pushed already, and ~Model *)
(* deletes it with the rest.  No plugin of the model exists yet.           *)
AbortBodiesOrJoints ==
  /\ loading # NoName /\ stage \in {"bodies", "joints"}
  /\ DestroyModel(loading, plugins)
  /\ loading' = NoName
  /\ answer' = FALSE
  /\ UNCHANGED <<models, stage, at, plugins, markers, listening>>

(* A plugin that throws, whatever std::exception, or has a known name.     *)
AbortPlugins ==
  /\ loading # NoName /\ stage = "plugins" /\ at <= PluginCount
  /\ plugins' = OtherPlugins(loading)
  /\ DestroyModel(loading, OtherPlugins(loading))
  /\ loading' = NoName
  /\ answer' = FALSE
  /\ UNCHANGED <<models, stage, at, markers, listening>>

-----------------------------------------------------------------------------
(***************************************************************************)
(* delete_model, physics and ~World                                        *)
(***************************************************************************)

RefuseUnknown(n) ==
  /\ Idle
  /\ n \notin models
  /\ answer' = FALSE
  /\ UNCHANGED <<models, loading, stage, at, bodies, joints, b2bodies,
                 b2joints, plugins, markers, touching, listening, misuse>>

DeleteModel(n) ==
  /\ Idle
  /\ n \in models
  /\ plugins' = OtherPlugins(n)
  /\ DestroyModel(n, OtherPlugins(n))
  /\ models' = models \ {n}
  /\ markers' = markers \ {n}
  /\ answer' = TRUE
  /\ UNCHANGED <<loading, stage, at, listening>>

(* Contacts begin and end in a physics step.                               *)
Touch(c) ==
  /\ Idle
  /\ c \subseteq b2bodies
  /\ touching' = IF c \in touching THEN touching \ {c} ELSE touching \cup {c}
  /\ UNCHANGED <<models, loading, stage, at, bodies, joints, b2bodies,
                 b2joints, plugins, markers, listening, answer, misuse>>

(* ~World takes itself off the b2World and deletes the layer, whose b2Body *)
(* it leaves to the b2World.                                               *)
MutantSilenced == listening
Silenced == FALSE

DestroyLayers ==
  /\ Idle
  /\ stage' = "down"
  /\ listening' = Silenced
  /\ bodies' = bodies \ {Ground}
  /\ UNCHANGED <<models, loading, at, joints, b2bodies, b2joints, plugins,
                 markers, touching, answer, misuse>>

(* Then it deletes the models, one by one; the plugins are still there.    *)
DestroyNextModel(n) ==
  /\ stage = "down"
  /\ n \in models
  /\ DestroyModel(n, plugins)
  /\ models' = models \ {n}
  /\ UNCHANGED <<loading, stage, at, plugins, markers, listening, answer>>

(* At last the b2World, the markers and the plugins.                       *)
DestroyRest ==
  /\ stage = "down" /\ models = {}
  /\ plugins' = {} /\ markers' = {}
  /\ b2bodies' = {} /\ b2joints' = {} /\ touching' = {}
  /\ UNCHANGED <<models, loading, stage, at, bodies, joints, listening, answer,
                 misuse>>

LifeNext ==
  \/ \E n \in Name : \/ RefuseDuplicate(n) \/ StartLoad(n)
                     \/ RefuseUnknown(n) \/ DeleteModel(n)
                     \/ DestroyNextModel(n)
  \/ \E enabled \in BOOLEAN :
       LoadBody(enabled) \/ LoadJoint(enabled) \/ LoadPlugin(enabled)
  \/ FinishLoad
  \/ AbortBodiesOrJoints
  \/ AbortPlugins
  \/ \E c \in Contact : Touch(c)
  \/ DestroyLayers
  \/ DestroyRest

LifeSpec == LifeInit /\ [][LifeNext]_lifeVars

-----------------------------------------------------------------------------
(***************************************************************************)
(* Properties                                                              *)
(***************************************************************************)

Rest(n) == UNION {Of(n, bodies), Of(n, b2bodies), Of(n, joints),
                  Of(n, b2joints), Of(n, plugins)}

(* Every Body and Joint object has its Box2D object (or it would be        *)
(* destroyed a second time) and the other way round (or it would leak), at *)
(* every point of a load, an abort, a delete and ~World; no plugin outlives*)
(* its model while plugins are called; and no joint is destroyed twice and *)
(* no contact event reaches a plugin with a Body that is gone: the order   *)
(* in which ~Model and ~World destroy things.                              *)
Paired ==
  /\ joints = b2joints
  /\ bodies \subseteq b2bodies
  /\ b2bodies \subseteq bodies \cup {Ground}
  /\ stage # "down" => \A p \in plugins : p[1] \in models \cup {loading}
  /\ misuse = {}

ObjectsPaired == LifeTypeOK /\ Paired

(* The models of a World that is up, and those of which it holds anything. *)
Present == IF stage = "down" THEN {} ELSE models
Residue == IF stage = "down" THEN {}
           ELSE {n \in Name \ {loading} : Rest(n) # {} \/ n \in models \cup markers}

(* Loading as ModelRegistry describes it.  While ~World runs, models are   *)
(* gone from the moment it begins.                                         *)
Registry == INSTANCE ModelRegistry WITH present <- Present, residue <- Residue
SpawnIsAtomic == Registry!Spec
=============================================================================
