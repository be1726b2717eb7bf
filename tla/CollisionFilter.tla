-------------------------- MODULE CollisionFilter --------------------------
(***************************************************************************)
(* Which fixtures collide: the CollisionFilterRegistry hands out an id for *)
(* every layer and a group for every LinkAttacher, World::LoadLayers and   *)
(* ModelBody::ConfigFootprintDef turn layer names into the category and    *)
(* mask bits of Box2D fixtures, and b2ContactFilter decides               *)
(* (flatland_server/src/collision_filter_registry.cpp, world.cpp,          *)
(* model_body.cpp, thirdparty/Box2D/Dynamics/b2WorldCallbacks.cpp).        *)
(*                                                                         *)
(* A 16 bit mask is the set of the positions of its one bits.  A layer has *)
(* one fixture; so has the body of a model.                                *)
(***************************************************************************)
EXTENDS Integers, Sequences, FiniteSets, SequencesExt

CONSTANTS
  LayerName,  \* names for layers in world yamls
  All,        \* the name "all"
  Fixture,    \* fixtures
  MaxLayers,  \* MAX_LAYERS, 16 in the code: the bits of a category
  GroupBits,  \* width of b2Filter::groupIndex, 16 in the code
  MaxGroups   \* bound: calls of RegisterNoCollide

BoundsAssumption ==
  /\ MaxLayers \in Nat
  /\ GroupBits \in Nat \ {0}
  /\ MaxGroups \in Nat
  /\ IsFiniteSet(LayerName)

ASSUME BoundsAssumption

VARIABLES
  status,    \* what MakeWorld loads: "layers", then "models"; or "failed"
  table,     \* layer_id_table_
  layers,    \* the name lists of the loaded layers
  fixtures,  \* the existing fixtures: names, solid, ofLayer, category, mask
  group,     \* groupIndex of the existing fixtures
  pairs,     \* history: the pairs of fixtures ghosted now
  registered \* -no_collide_group_cnt_

filterVars == <<status, table, layers, fixtures, group, pairs, registered>>

Id == 0 .. MaxLayers - 1

GroupIndex == -(2 ^ (GroupBits - 1)) .. 2 ^ (GroupBits - 1) - 1

Names == SUBSET (LayerName \cup {All})

Filter == [names : Names, solid : BOOLEAN, ofLayer : BOOLEAN,
           category : SUBSET Id, mask : SUBSET Id]

PartialFunctions(S, T) == UNION {[D -> T] : D \in SUBSET S}

FilterTypeOK ==
  /\ status \in {"layers", "models", "failed"}
  /\ DOMAIN table \subseteq LayerName /\ Range(table) \subseteq Id
  /\ layers \subseteq Names
  /\ DOMAIN fixtures \subseteq Fixture /\ Range(fixtures) \subseteq Filter
  /\ group \in [DOMAIN fixtures -> GroupIndex]
  /\ \A p \in pairs : p \subseteq DOMAIN fixtures
  /\ registered \in Nat

FilterInit ==
  /\ status = "layers"
  /\ table = << >>
  /\ layers = {}
  /\ fixtures = << >>
  /\ group = << >>
  /\ pairs = {}
  /\ registered = 0

Extend(f, x, v) == [y \in DOMAIN f \cup {x} |-> IF y = x THEN v ELSE f[y]]

-----------------------------------------------------------------------------
(***************************************************************************)
(* Layers                                                                  *)
(***************************************************************************)

LayersCount(t) == Cardinality(DOMAIN t)

(* The lowest id that no layer has.                                        *)
UnusedId(t) == CHOOSE i \in Id : /\ i \notin Range(t)
                                 /\ \A j \in 0 .. i - 1 : j \in Range(t)

(* RegisterLayer; LAYERS_FULL, which World::LoadLayers does not look at,   *)
(* leaves the table alone.                                                 *)
RegisterLayer(t, name) ==
  IF LayersCount(t) >= MaxLayers THEN t ELSE Extend(t, name, UnusedId(t))

(* LAYER_ALREADY_EXIST for one of the names, also within the list.         *)
Known(names) == \/ \E i \in DOMAIN names : names[i] \in DOMAIN table
                \/ \E i, j \in DOMAIN names : i # j /\ names[i] = names[j]

Fits(names) == LayersCount(table) + Len(names) <= MaxLayers

(* GetCategoryBits: the list ["all"] stands for all bits, in any other     *)
(* list names without an id are skipped.                                   *)
CategoryBits(t, names) ==
  IF names = {All} THEN Id ELSE {t[n] : n \in names \cap DOMAIN t}

(* RegisterLayer for one name of the list after the other.                 *)
Registered(names) ==
  LET tables[i \in 0 .. Len(names)] ==
        IF i = 0 THEN table ELSE RegisterLayer(tables[i - 1], names[i])
  IN  tables[Len(names)]

Create(f, filter) ==
  /\ fixtures' = Extend(fixtures, f, filter)
  /\ group' = Extend(group, f, 0)

(* World::LoadLayers for one entry of the list, a layer with a map.        *)
LoadLayer(names, f) ==
  /\ status = "layers"
  /\ f \notin DOMAIN fixtures
  /\ Fits(names) /\ ~Known(names)
  /\ table' = Registered(names)
  /\ layers' = layers \cup {Range(names)}
  /\ LET bits == CategoryBits(table', Range(names)) IN
     Create(f, [names |-> Range(names), solid |-> TRUE, ofLayer |-> TRUE,
                category |-> bits, mask |-> bits])
  /\ UNCHANGED <<status, pairs, registered>>

(* A layer without a map has no body.                                      *)
LoadEmptyLayer(names) ==
  /\ status = "layers"
  /\ Fits(names) /\ ~Known(names)
  /\ table' = Registered(names)
  /\ layers' = layers \cup {Range(names)}
  /\ UNCHANGED <<status, fixtures, group, pairs, registered>>

(* An exception abandons the world.                                        *)
RefuseLayer(names) ==
  /\ status = "layers"
  /\ ~Fits(names) \/ Known(names)
  /\ status' = "failed"
  /\ UNCHANGED <<table, layers, fixtures, group, pairs, registered>>

LayersLoaded ==
  /\ status = "layers"
  /\ status' = "models"
  /\ UNCHANGED <<table, layers, fixtures, group, pairs, registered>>

-----------------------------------------------------------------------------
(***************************************************************************)
(* Models                                                                  *)
(***************************************************************************)

MutantMask(bits, solid) == bits
Mask(bits, solid) == IF solid THEN bits ELSE {}

(* ModelBody::ConfigFootprintDef: a name without a layer is an exception.  *)
LoadFootprint(f, names, solid) ==
  /\ status = "models"
  /\ f \notin DOMAIN fixtures
  /\ names = {All} \/ names \subseteq DOMAIN table
  /\ LET bits == CategoryBits(table, names) IN
     Create(f, [names |-> names, solid |-> solid, ofLayer |-> FALSE,
                category |-> bits, mask |-> Mask(bits, solid)])
  /\ UNCHANGED <<status, table, layers, pairs, registered>>

(* The model of a fixture is deleted, detached from its attacher before.   *)
DeleteFootprint(f) ==
  /\ f \in DOMAIN fixtures
  /\ ~fixtures[f].ofLayer
  /\ \A p \in pairs : f \notin p
  /\ fixtures' = [g \in DOMAIN fixtures \ {f} |-> fixtures[g]]
  /\ group' = [g \in DOMAIN fixtures \ {f} |-> group[g]]
  /\ UNCHANGED <<status, table, layers, pairs, registered>>

(* The conversion of an int to int16.                                      *)
Int16(g) == LET half == 2 ^ (GroupBits - 1) IN ((g + half) % (2 * half)) - half

(* RegisterNoCollide decrements its counter before it returns it.          *)
NewGroup == -(registered + 1)

(* A LinkAttacher registers a group when it is loaded and gives it to its  *)
(* model and its target when it attaches; here at the same time, for a     *)
(* model that attaches once.                                               *)
Ghost(f, g) ==
  /\ registered < MaxGroups
  /\ {f, g} \subseteq DOMAIN fixtures /\ f # g
  /\ ~fixtures[f].ofLayer /\ ~fixtures[g].ofLayer
  /\ \A p \in pairs : p \cap {f, g} = {}
  /\ registered' = registered + 1
  /\ group' = [group EXCEPT ![f] = Int16(NewGroup), ![g] = Int16(NewGroup)]
  /\ pairs' = pairs \cup {{f, g}}
  /\ UNCHANGED <<status, table, layers, fixtures>>

(* Detach puts the group of both back to zero.                             *)
Unghost(p) ==
  /\ p \in pairs
  /\ pairs' = pairs \ {p}
  /\ group' = [f \in DOMAIN group |-> IF f \in p THEN 0 ELSE group[f]]
  /\ UNCHANGED <<status, table, layers, fixtures, registered>>

NameLists == {<<n>> : n \in LayerName} \cup (LayerName \X LayerName)

FilterNext ==
  \/ \E names \in NameLists :
       \/ \E f \in Fixture : LoadLayer(names, f)
       \/ LoadEmptyLayer(names)
       \/ RefuseLayer(names)
  \/ LayersLoaded
  \/ \E f \in Fixture, names \in Names, solid \in BOOLEAN :
       LoadFootprint(f, names, solid)
  \/ \E f \in Fixture : DeleteFootprint(f)
  \/ \E f, g \in Fixture : Ghost(f, g)
  \/ \E p \in pairs : Unghost(p)

FilterSpec == FilterInit /\ [][FilterNext]_filterVars

-----------------------------------------------------------------------------
(***************************************************************************)
(* Properties                                                              *)
(***************************************************************************)

(* b2ContactFilter::ShouldCollide                                          *)
ShouldCollide(f, g) ==
  IF group[f] = group[g] /\ group[f] # 0 THEN group[f] > 0
  ELSE /\ fixtures[f].mask \cap fixtures[g].category # {}
       /\ fixtures[f].category \cap fixtures[g].mask # {}

(* The layers a list of names means to a user: "all" in a footprint means  *)
(* every layer, as the name of a layer it means that layer.                *)
Meant(f) == IF fixtures[f].names = {All} /\ ~fixtures[f].ofLayer
            THEN Id ELSE {table[n] : n \in fixtures[f].names \cap DOMAIN table}

(* "Collisions/contacts only occurs between objects in the same layer"     *)
(* (docs/core_functions/models.rst:51), and they do occur there, unless    *)
(* one of the two is told not to collide or the two are ghosted (a fresh   *)
(* negative group, link_attacher.cpp:69).  Ids of layers never clash, also *)
(* when the table is full, and every layer has one.                        *)
CollideInSharedLayer ==
  /\ FilterTypeOK
  /\ IsInjective(table) /\ \A names \in layers : names \subseteq DOMAIN table
  /\ \A f, g \in DOMAIN fixtures : f # g =>
       (ShouldCollide(f, g) <=>
          /\ fixtures[f].solid /\ fixtures[g].solid
          /\ Meant(f) \cap Meant(g) # {}
          /\ \A p \in pairs : ~({f, g} \subseteq p))
=============================================================================
