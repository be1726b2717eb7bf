---------------------------- MODULE ServerProofs ----------------------------
(***************************************************************************)
(* Proofs about two parts of flatland_server.  Collision filters: for any  *)
(* layers, fixtures and groups, what Box2D lets collide is what the world  *)
(* file and the attachments say.  The life of models, for any names and    *)
(* any number of bodies, joints and plugins: nothing dangles and nothing   *)
(* is destroyed twice, and loading a model is atomic as ModelRegistry      *)
(* describes it.                                                           *)
(***************************************************************************)
EXTENDS CollisionFilter, WorldModels, FiniteSetTheorems, WellFoundedInduction, TLAPS

(***************************************************************************)
(* Collision filters                                                       *)
(***************************************************************************)

(* Arithmetic of the group: half the range of an int16, and a bound on the *)
(* groups that keeps the counter in it.                                    *)
Half == 2 ^ (GroupBits - 1)

FilterAssumption ==
  /\ BoundsAssumption
  /\ All \notin LayerName
  /\ Half \in Nat \ {0}
  /\ MaxGroups <= Half

(* A table gives different ids to layers.                                  *)
IsTable(t) == /\ DOMAIN t \subseteq LayerName /\ Range(t) \subseteq Id
              /\ t = [n \in DOMAIN t |-> t[n]]
              /\ IsInjective(t)

-----------------------------------------------------------------------------
LEMMA LeastOf ==
  ASSUME NEW S \in SUBSET Nat, S # {}
  PROVE  \E i \in S : \A j \in S : i <= j
<1> DEFINE Less == {p \in Nat \X Nat : p[1] < p[2]}
<1>1. IsWellFoundedOn(Less, Nat)
  BY NatLessThanWellFounded DEF OpToRel
<1> HIDE DEF Less
<1>2. PICK i \in S : \A j \in S : <<j, i>> \notin Less
  BY <1>1, WFMin, Zenon
<1>3. \A j \in S : ~(j < i)
  BY <1>2 DEF Less
<1> QED
  BY <1>3

LEMMA UnusedIdIs ==
  ASSUME FilterAssumption, NEW t, IsTable(t), LayersCount(t) < MaxLayers
  PROVE  UnusedId(t) \in Id \ Range(t)
<1>1. IsFiniteSet(DOMAIN t)
  BY FS_Subset DEF IsTable, FilterAssumption, BoundsAssumption
<1>2. t \in Surjection(DOMAIN t, Range(t))
  BY DEF IsTable, Surjection, Range
<1>3. Cardinality(Range(t)) <= LayersCount(t) /\ IsFiniteSet(Range(t))
  BY <1>1, <1>2, FS_Surjection DEF LayersCount
<1>4. Cardinality(Id) = MaxLayers
  BY FS_Interval DEF Id, FilterAssumption, BoundsAssumption
<1>5. Range(t) # Id
  <2>1. Cardinality(Range(t)) \in Nat /\ LayersCount(t) \in Nat
    BY <1>1, <1>3, FS_CardinalityType DEF LayersCount
  <2> QED
    BY <1>3, <1>4, <2>1 DEF FilterAssumption, BoundsAssumption
<1>6. PICK i \in Id \ Range(t) : \A j \in Id \ Range(t) : i <= j
  <2>1. Id \ Range(t) \in SUBSET Nat /\ Id \ Range(t) # {}
    <3>1. Range(t) \subseteq Id
      BY DEF IsTable
    <3>2. Id \in SUBSET Nat
      BY DEF Id, FilterAssumption, BoundsAssumption
    <3> QED
      BY <1>5, <3>1, <3>2, Zenon
  <2> QED
    BY <2>1, LeastOf
<1>7. \A j \in 0 .. i - 1 : j \in Range(t)
  BY <1>6 DEF Id, FilterAssumption, BoundsAssumption
<1> QED
  BY <1>6, <1>7 DEF UnusedId

LEMMA RegisterLayerIs ==
  ASSUME FilterAssumption, NEW t, IsTable(t), NEW name \in LayerName,
         name \notin DOMAIN t, LayersCount(t) < MaxLayers
  PROVE  LET u == RegisterLayer(t, name)
         IN  /\ IsTable(u) /\ DOMAIN u = DOMAIN t \cup {name}
             /\ \A n \in DOMAIN t : u[n] = t[n]
             /\ LayersCount(u) = LayersCount(t) + 1
<1> DEFINE u == RegisterLayer(t, name)
<1>1. LayersCount(t) \in Nat /\ IsFiniteSet(DOMAIN t)
  BY FS_Subset, FS_CardinalityType
     DEF IsTable, LayersCount, FilterAssumption, BoundsAssumption
<1>2. u = Extend(t, name, UnusedId(t))
  BY <1>1 DEF RegisterLayer, FilterAssumption, BoundsAssumption
<1>3. PICK i \in Id \ Range(t) : i = UnusedId(t)
  BY UnusedIdIs
<1>4. /\ DOMAIN u = DOMAIN t \cup {name}
      /\ u = [n \in DOMAIN u |-> u[n]]
      /\ \A n \in DOMAIN t : u[n] = t[n]
      /\ u[name] = i
  BY <1>2, <1>3 DEF Extend
<1>5. IsTable(u)
  BY <1>3, <1>4 DEF IsTable, IsInjective, Range
<1>6. LayersCount(u) = LayersCount(t) + 1
  BY <1>1, <1>4, FS_AddElement DEF LayersCount
<1> QED
  BY <1>4, <1>5, <1>6

(* The layers of a list of one or two new names all get an id.             *)
LEMMA RegisteredIs ==
  ASSUME FilterAssumption, IsTable(table), NEW names \in NameLists,
         Fits(names), ~Known(names)
  PROVE  /\ IsTable(Registered(names))
         /\ DOMAIN Registered(names) = DOMAIN table \cup Range(names)
         /\ \A n \in DOMAIN table : Registered(names)[n] = table[n]
         /\ Range(names) \subseteq LayerName
<1> DEFINE Step(tables, i) ==
             IF i = 0 THEN table ELSE RegisterLayer(tables[i - 1], names[i])
           Tables == CHOOSE tables :
                       tables = [i \in 0 .. Len(names) |-> Step(tables, i)]
<1>1. Registered(names) = Tables[Len(names)]
  BY DEF Registered
<1>2. LayersCount(table) \in Nat
  BY FS_Subset, FS_CardinalityType
     DEF IsTable, LayersCount, FilterAssumption, BoundsAssumption
<1>3. CASE \E n \in LayerName : names = <<n>>
  <2>1. PICK n \in LayerName : names = <<n>>
    BY <1>3
  <2> DEFINE one == RegisterLayer(table, n)
             found == [i \in 0 .. 1 |-> IF i = 0 THEN table ELSE one]
  <2>2. Len(names) = 1 /\ names[1] = n /\ DOMAIN names = {1} /\ Range(names) = {n}
    BY <2>1 DEF Range
  <2>3. found = [i \in 0 .. Len(names) |-> Step(found, i)]
    BY <2>2
  <2>4. Tables = [i \in 0 .. Len(names) |-> Step(Tables, i)]
    BY <2>3, Zenon
  <2> HIDE DEF Tables
  <2>5. Registered(names) = one
    <3>1. Tables[0] = table
      BY <2>2, <2>4
    <3>2. Tables[1] = RegisterLayer(Tables[0], n)
      BY <2>2, <2>4
    <3> QED
      BY <1>1, <2>2, <3>1, <3>2
  <2>6. n \notin DOMAIN table /\ LayersCount(table) < MaxLayers
    BY <1>2, <2>2 DEF Known, Fits, FilterAssumption, BoundsAssumption
  <2> QED
    BY <2>2, <2>5, <2>6, RegisterLayerIs
<1>4. CASE \E m, n \in LayerName : names = <<m, n>>
  <2>1. PICK m \in LayerName, n \in LayerName : names = <<m, n>>
    BY <1>4
  <2> DEFINE one == RegisterLayer(table, m)
             two == RegisterLayer(one, n)
             found == [i \in 0 .. 2 |-> IF i = 0 THEN table
                                        ELSE IF i = 1 THEN one ELSE two]
  <2>2. /\ Len(names) = 2 /\ names[1] = m /\ names[2] = n
        /\ DOMAIN names = {1, 2} /\ Range(names) = {m, n}
    BY <2>1 DEF Range
  <2>3. found = [i \in 0 .. Len(names) |-> Step(found, i)]
    BY <2>2
  <2>4. Tables = [i \in 0 .. Len(names) |-> Step(Tables, i)]
    BY <2>3, Zenon
  <2> HIDE DEF Tables
  <2>5. Registered(names) = two
    <3>1. Tables[0] = table
      BY <2>2, <2>4
    <3>2. Tables[1] = RegisterLayer(Tables[0], m)
      BY <2>2, <2>4
    <3>3. Tables[2] = RegisterLayer(Tables[1], n)
      BY <2>2, <2>4
    <3> QED
      BY <1>1, <2>2, <3>1, <3>2, <3>3
  <2>6. /\ m \notin DOMAIN table /\ n \notin DOMAIN table /\ m # n
        /\ LayersCount(table) < MaxLayers /\ LayersCount(table) + 1 < MaxLayers
    BY <1>2, <2>2 DEF Known, Fits, FilterAssumption, BoundsAssumption
  <2>7. /\ IsTable(one) /\ DOMAIN one = DOMAIN table \cup {m}
        /\ \A k \in DOMAIN table : one[k] = table[k]
        /\ LayersCount(one) = LayersCount(table) + 1
    BY <2>6, RegisterLayerIs
  <2> HIDE DEF one
  <2>8. /\ IsTable(two) /\ DOMAIN two = DOMAIN one \cup {n}
        /\ \A k \in DOMAIN one : two[k] = one[k]
    BY <2>6, <2>7, RegisterLayerIs
  <2> QED
    BY <2>2, <2>5, <2>7, <2>8
<1> QED
  BY <1>3, <1>4 DEF NameLists

-----------------------------------------------------------------------------
(* The names of a filter mean what they meant when it was made: they have  *)
(* ids by now, or stand for all layers.                                    *)
FiltersMean ==
  \A f \in DOMAIN fixtures :
    /\ fixtures[f].names \subseteq DOMAIN table
         \/ (fixtures[f].names = {All} /\ ~fixtures[f].ofLayer)
    /\ fixtures[f].category = Meant(f)
    /\ fixtures[f].mask = Mask(fixtures[f].category, fixtures[f].solid)

(* Ghosted pairs are disjoint, exactly the fixtures of one share a group   *)
(* other than zero, and the groups still to come are below all others.     *)
GroupsPair ==
  /\ registered \in 0 .. MaxGroups
  /\ \A f \in DOMAIN fixtures : group[f] \in -registered .. 0
  /\ \A f \in DOMAIN fixtures : group[f] # 0 <=> \E p \in pairs : f \in p
  /\ \A f, g \in DOMAIN fixtures :
       f # g => ( group[f] = group[g] /\ group[f] # 0
                    <=> \E p \in pairs : {f, g} \subseteq p )
  /\ \A p, q \in pairs : p \cap q # {} => p = q

LayersKnown == \A names \in layers : names \subseteq DOMAIN table

FilterInv == FilterTypeOK /\ IsTable(table) /\ LayersKnown /\ FiltersMean /\ GroupsPair

LEMMA InitialInvariant == FilterAssumption /\ FilterInit => FilterInv
<1> SUFFICES ASSUME FilterAssumption, FilterInit PROVE FilterInv
  OBVIOUS
<1>1. DOMAIN table = {} /\ DOMAIN fixtures = {} /\ DOMAIN group = {}
  BY DEF FilterInit
<1>2. Range(table) = {} /\ Range(fixtures) = {}
  BY <1>1 DEF Range
<1>3. FilterTypeOK
  BY <1>1, <1>2 DEF FilterInit, FilterTypeOK
<1>4. IsTable(table)
  BY <1>1, <1>2 DEF FilterInit, IsTable, IsInjective
<1> QED
  BY <1>1, <1>3, <1>4 DEF FilterInit, FilterInv, LayersKnown, FiltersMean, GroupsPair,
     FilterAssumption, BoundsAssumption

(* The table after a layer is loaded; what was loaded before keeps its ids.*)
LEMMA TableGrows ==
  ASSUME FilterAssumption, FilterInv, NEW names \in NameLists,
         Fits(names), ~Known(names),
         table' = Registered(names), layers' = layers \cup {Range(names)}
  PROVE  /\ IsTable(table') /\ LayersKnown'
         /\ DOMAIN table' = DOMAIN table \cup Range(names)
         /\ \A n \in DOMAIN table : table'[n] = table[n]
         /\ Range(names) \subseteq LayerName
         /\ layers' \subseteq Names
         /\ DOMAIN table' \subseteq LayerName /\ Range(table') \subseteq Id
<1>1. /\ IsTable(table')
      /\ DOMAIN table' = DOMAIN table \cup Range(names)
      /\ \A n \in DOMAIN table : table'[n] = table[n]
      /\ Range(names) \subseteq LayerName
  BY RegisteredIs DEF FilterInv
<1> QED
  BY <1>1 DEF FilterInv, IsTable, LayersKnown, FilterTypeOK, Names

(* The filters there are keep their meaning when the table grows.          *)
LEMMA MeaningsStay ==
  ASSUME FilterInv, DOMAIN table \subseteq DOMAIN table',
         \A n \in DOMAIN table : table'[n] = table[n],
         NEW f \in DOMAIN fixtures, f \in DOMAIN fixtures',
         fixtures'[f] = fixtures[f]
  PROVE  /\ fixtures'[f].names \subseteq DOMAIN table'
              \/ (fixtures'[f].names = {All} /\ ~fixtures'[f].ofLayer)
         /\ fixtures'[f].category = Meant(f)'
         /\ fixtures'[f].mask = Mask(fixtures'[f].category, fixtures'[f].solid)
<1>1. CASE fixtures[f].names \subseteq DOMAIN table
  <2>1. /\ fixtures[f].names \cap DOMAIN table = fixtures[f].names
        /\ fixtures[f].names \cap DOMAIN table' = fixtures[f].names
    BY <1>1
  <2>2. {table'[n] : n \in fixtures[f].names} = {table[n] : n \in fixtures[f].names}
    BY <1>1
  <2> QED
    BY <1>1, <2>1, <2>2 DEF FilterInv, FiltersMean, Meant
<1>2. CASE fixtures[f].names = {All} /\ ~fixtures[f].ofLayer
  BY <1>2 DEF FilterInv, FiltersMean, Meant
<1> QED
  BY <1>1, <1>2 DEF FilterInv, FiltersMean

(* A new fixture is in no pair.                                            *)
LEMMA CreateKeeps ==
  ASSUME FilterAssumption, FilterInv, NEW f \in Fixture \ DOMAIN fixtures,
         NEW filter \in Filter, Create(f, filter), UNCHANGED <<pairs, registered>>,
         DOMAIN table \subseteq DOMAIN table',
         \A n \in DOMAIN table : table'[n] = table[n],
         filter.names \subseteq DOMAIN table'
           \/ (filter.names = {All} /\ ~filter.ofLayer),
         filter.category = IF filter.names = {All} /\ ~filter.ofLayer THEN Id
                           ELSE {table'[n] : n \in filter.names \cap DOMAIN table'},
         filter.mask = Mask(filter.category, filter.solid)
  PROVE  /\ FiltersMean' /\ GroupsPair'
         /\ DOMAIN fixtures' \subseteq Fixture /\ Range(fixtures') \subseteq Filter
         /\ group' \in [DOMAIN fixtures' -> GroupIndex]
         /\ \A p \in pairs' : p \subseteq DOMAIN fixtures'
<1>1. /\ DOMAIN fixtures' = DOMAIN fixtures \cup {f}
      /\ fixtures'[f] = filter
      /\ \A g \in DOMAIN fixtures : g # f /\ fixtures'[g] = fixtures[g]
  BY DEF Create, Extend
<1>2. /\ DOMAIN group = DOMAIN fixtures
      /\ group' = [g \in DOMAIN fixtures' |-> IF g = f THEN 0 ELSE group[g]]
  BY <1>1 DEF Create, Extend, FilterInv, FilterTypeOK
<1>3. FiltersMean'
  <2> SUFFICES ASSUME NEW g \in DOMAIN fixtures'
               PROVE  /\ fixtures'[g].names \subseteq DOMAIN table'
                           \/ (fixtures'[g].names = {All} /\ ~fixtures'[g].ofLayer)
                      /\ fixtures'[g].category = Meant(g)'
                      /\ fixtures'[g].mask = Mask(fixtures'[g].category, fixtures'[g].solid)
    BY DEF FiltersMean, Mask
  <2>1. CASE g = f
    BY <1>1, <2>1 DEF Meant
  <2>2. CASE g \in DOMAIN fixtures
    BY <1>1, <2>2, MeaningsStay
  <2> QED
    BY <1>1, <2>1, <2>2
<1>4. 0 \in GroupIndex
  BY DEF GroupIndex, FilterAssumption, Half
<1>5. \A p \in pairs : f \notin p
  BY DEF FilterInv, FilterTypeOK
<1>6. GroupsPair'
  BY <1>1, <1>2, <1>5 DEF FilterInv, GroupsPair
<1>7. Range(fixtures') \subseteq Filter
  BY <1>1 DEF Range, FilterInv, FilterTypeOK
<1>8. group' \in [DOMAIN fixtures' -> GroupIndex]
  BY <1>1, <1>2, <1>4 DEF FilterInv, FilterTypeOK
<1> QED
  BY <1>1, <1>3, <1>6, <1>7, <1>8 DEF FilterInv, FilterTypeOK

-----------------------------------------------------------------------------
LEMMA LoadLayerKeeps ==
  ASSUME FilterAssumption, FilterInv, NEW names \in NameLists, NEW f \in Fixture,
         LoadLayer(names, f)
  PROVE  FilterInv'
<1> DEFINE bits == CategoryBits(table', Range(names))
           filter == [names |-> Range(names), solid |-> TRUE, ofLayer |-> TRUE,
                      category |-> bits, mask |-> bits]
<1>1. /\ f \notin DOMAIN fixtures /\ Fits(names) /\ ~Known(names)
      /\ table' = Registered(names) /\ layers' = layers \cup {Range(names)}
      /\ Create(f, filter)
      /\ UNCHANGED <<status, pairs, registered>>
  BY DEF LoadLayer
<1>2. /\ IsTable(table') /\ LayersKnown'
      /\ DOMAIN table' = DOMAIN table \cup Range(names)
      /\ \A n \in DOMAIN table : table'[n] = table[n]
      /\ Range(names) \subseteq LayerName
      /\ layers' \subseteq Names
      /\ DOMAIN table' \subseteq LayerName /\ Range(table') \subseteq Id
  BY <1>1, TableGrows
<1>3. bits = {table'[n] : n \in Range(names) \cap DOMAIN table'}
  BY <1>2 DEF CategoryBits, FilterAssumption
<1>4. bits \subseteq Id
  BY <1>2, <1>3 DEF Range
<1>5. filter \in Filter
  BY <1>2, <1>4 DEF Filter, Names
<1>6. filter.mask = Mask(filter.category, filter.solid)
  BY DEF Mask
<1>7. /\ filter.names \subseteq DOMAIN table'
      /\ filter.ofLayer
      /\ filter.category = {table'[n] : n \in filter.names \cap DOMAIN table'}
  BY <1>2, <1>3
<1> HIDE DEF filter
<1>8. /\ FiltersMean' /\ GroupsPair'
      /\ DOMAIN fixtures' \subseteq Fixture /\ Range(fixtures') \subseteq Filter
      /\ group' \in [DOMAIN fixtures' -> GroupIndex]
      /\ \A p \in pairs' : p \subseteq DOMAIN fixtures'
  BY <1>1, <1>2, <1>5, <1>6, <1>7, CreateKeeps
<1> QED
  BY <1>1, <1>2, <1>8 DEF FilterInv, FilterTypeOK

LEMMA LoadEmptyLayerKeeps ==
  ASSUME FilterAssumption, FilterInv, NEW names \in NameLists, LoadEmptyLayer(names)
  PROVE  FilterInv'
<1>1. /\ IsTable(table') /\ LayersKnown'
      /\ DOMAIN table' = DOMAIN table \cup Range(names)
      /\ \A n \in DOMAIN table : table'[n] = table[n]
      /\ layers' \subseteq Names
      /\ DOMAIN table' \subseteq LayerName /\ Range(table') \subseteq Id
  BY TableGrows DEF LoadEmptyLayer
<1>2. UNCHANGED <<status, fixtures, group, pairs, registered>>
  BY DEF LoadEmptyLayer
<1>3. FiltersMean'
  <2> SUFFICES ASSUME NEW g \in DOMAIN fixtures'
               PROVE  /\ fixtures'[g].names \subseteq DOMAIN table'
                           \/ (fixtures'[g].names = {All} /\ ~fixtures'[g].ofLayer)
                      /\ fixtures'[g].category = Meant(g)'
                      /\ fixtures'[g].mask = Mask(fixtures'[g].category, fixtures'[g].solid)
    BY DEF FiltersMean, Mask
  <2> QED
    BY <1>1, <1>2, MeaningsStay
<1>4. GroupsPair'
  BY <1>2 DEF FilterInv, GroupsPair
<1> QED
  BY <1>1, <1>2, <1>3, <1>4 DEF FilterInv, FilterTypeOK

LEMMA LoadFootprintKeeps ==
  ASSUME FilterAssumption, FilterInv, NEW f \in Fixture, NEW names \in Names,
         NEW solid \in BOOLEAN, LoadFootprint(f, names, solid)
  PROVE  FilterInv'
<1> DEFINE bits == CategoryBits(table, names)
           filter == [names |-> names, solid |-> solid, ofLayer |-> FALSE,
                      category |-> bits, mask |-> Mask(bits, solid)]
<1>1. /\ f \notin DOMAIN fixtures
      /\ names = {All} \/ names \subseteq DOMAIN table
      /\ Create(f, filter)
      /\ UNCHANGED <<status, table, layers, pairs, registered>>
  BY DEF LoadFootprint
<1>2. bits = IF names = {All} THEN Id ELSE {table[n] : n \in names \cap DOMAIN table}
  BY DEF CategoryBits
<1>3. bits \subseteq Id
  BY <1>2 DEF Range, FilterInv, FilterTypeOK
<1>4. filter \in Filter
  BY <1>3 DEF Filter, Mask
<1>5. /\ filter.names \subseteq DOMAIN table'
           \/ (filter.names = {All} /\ ~filter.ofLayer)
      /\ filter.category = IF filter.names = {All} /\ ~filter.ofLayer THEN Id
                           ELSE {table'[n] : n \in filter.names \cap DOMAIN table'}
      /\ filter.mask = Mask(filter.category, filter.solid)
  BY <1>1, <1>2
<1> HIDE DEF filter
<1>6. /\ FiltersMean' /\ GroupsPair'
      /\ DOMAIN fixtures' \subseteq Fixture /\ Range(fixtures') \subseteq Filter
      /\ group' \in [DOMAIN fixtures' -> GroupIndex]
      /\ \A p \in pairs' : p \subseteq DOMAIN fixtures'
  BY <1>1, <1>4, <1>5, CreateKeeps
<1> QED
  BY <1>1, <1>6 DEF FilterInv, FilterTypeOK, LayersKnown, IsTable

LEMMA DeleteFootprintKeeps ==
  ASSUME FilterAssumption, FilterInv, NEW f \in Fixture, DeleteFootprint(f)
  PROVE  FilterInv'
<1>1. /\ DOMAIN fixtures' = DOMAIN fixtures \ {f}
      /\ \A g \in DOMAIN fixtures' : fixtures'[g] = fixtures[g]
      /\ DOMAIN group = DOMAIN fixtures
      /\ group' = [g \in DOMAIN fixtures' |-> group[g]]
      /\ \A p \in pairs : f \notin p
      /\ UNCHANGED <<status, table, layers, pairs, registered>>
  BY DEF DeleteFootprint, FilterInv, FilterTypeOK
<1>2. FiltersMean'
  <2> SUFFICES ASSUME NEW g \in DOMAIN fixtures'
               PROVE  /\ fixtures'[g].names \subseteq DOMAIN table'
                           \/ (fixtures'[g].names = {All} /\ ~fixtures'[g].ofLayer)
                      /\ fixtures'[g].category = Meant(g)'
                      /\ fixtures'[g].mask = Mask(fixtures'[g].category, fixtures'[g].solid)
    BY DEF FiltersMean, Mask
  <2> QED
    BY <1>1, MeaningsStay
<1>3. GroupsPair'
  BY <1>1 DEF FilterInv, GroupsPair
<1>4. FilterTypeOK'
  BY <1>1 DEF FilterInv, FilterTypeOK, Range
<1> QED
  BY <1>1, <1>2, <1>3, <1>4 DEF FilterInv, LayersKnown, IsTable

(* No group that is registered wraps around.                               *)
LEMMA GroupIs ==
  ASSUME FilterAssumption, GroupsPair, registered < MaxGroups
  PROVE  Int16(NewGroup) = -(registered + 1) /\ Int16(NewGroup) \in GroupIndex
<1>1. registered \in Nat /\ registered + 1 <= Half /\ Half \in Nat \ {0}
  BY DEF GroupsPair, FilterAssumption, BoundsAssumption
<1>2. NewGroup + Half \in 0 .. 2 * Half - 1
  BY <1>1 DEF NewGroup
<1>3. (NewGroup + Half) % (2 * Half) = NewGroup + Half
  <2>1. \A m \in Nat \ {0} : \A x \in 0 .. m - 1 : x % m = x
    BY Z3
  <2> QED
    BY <1>1, <1>2, <2>1
<1> QED
  BY <1>1, <1>2, <1>3 DEF Int16, NewGroup, GroupIndex, Half

LEMMA GhostKeeps ==
  ASSUME FilterAssumption, FilterInv, NEW f \in Fixture, NEW g \in Fixture, Ghost(f, g)
  PROVE  FilterInv'
<1> DEFINE new == Int16(NewGroup)
<1>1. new = -(registered + 1) /\ new \in GroupIndex
  BY GroupIs DEF Ghost, FilterInv
<1>2. /\ f \in DOMAIN fixtures /\ g \in DOMAIN fixtures /\ f # g
      /\ \A p \in pairs : f \notin p /\ g \notin p
      /\ registered' = registered + 1 /\ registered < MaxGroups
      /\ pairs' = pairs \cup {{f, g}}
      /\ DOMAIN group = DOMAIN fixtures
      /\ group' = [h \in DOMAIN fixtures |-> IF h \in {f, g} THEN new ELSE group[h]]
      /\ UNCHANGED <<status, table, layers, fixtures>>
  BY DEF Ghost, FilterInv, FilterTypeOK
<1> HIDE DEF new
<1>3. FiltersMean'
  <2>1. fixtures' = fixtures /\ table' = table
    BY <1>2
  <2> QED
    BY <2>1 DEF FilterInv, FiltersMean, Meant, Mask
<1>4. GroupsPair'
  <2>1. registered' \in 0 .. MaxGroups /\ registered \in Nat
    BY <1>2 DEF FilterInv, GroupsPair, FilterAssumption, BoundsAssumption
  <2>2. \A h \in DOMAIN fixtures : group[h] \in -registered .. 0 /\ group[h] # new
    BY <1>1, <2>1 DEF FilterInv, GroupsPair
  <2>3. \A h \in DOMAIN fixtures' : group'[h] \in -registered' .. 0
    BY <1>1, <1>2, <2>1, <2>2
  <2>4. \A h \in DOMAIN fixtures' : group'[h] # 0 <=> \E p \in pairs' : h \in p
    <3> TAKE h \in DOMAIN fixtures'
    <3>1. CASE h \in {f, g}
      <4>1. group'[h] # 0 /\ {f, g} \in pairs'
        BY <1>1, <1>2, <2>1, <3>1
      <4> QED
        BY <3>1, <4>1
    <3>2. CASE h \notin {f, g}
      <4>1. group'[h] = group[h] /\ (group[h] # 0 <=> \E p \in pairs : h \in p)
        BY <1>2, <3>2 DEF FilterInv, GroupsPair
      <4>2. \A p : p \in pairs' /\ h \in p <=> p \in pairs /\ h \in p
        BY <1>2, <3>2
      <4> QED
        BY <4>1, <4>2
    <3> QED
      BY <3>1, <3>2
  <2>5. ASSUME NEW h \in DOMAIN fixtures, NEW k \in DOMAIN fixtures, h # k
        PROVE  group'[h] = group'[k] /\ group'[h] # 0
                 <=> \E p \in pairs' : {h, k} \subseteq p
    <3>1. CASE h \in {f, g} /\ k \in {f, g}
      <4>1. group'[h] = new /\ group'[k] = new /\ new # 0
        BY <1>1, <1>2, <2>1, <3>1
      <4>2. {f, g} \in pairs' /\ {h, k} \subseteq {f, g}
        BY <1>2, <3>1
      <4> QED
        BY <4>1, <4>2
    <3>2. CASE h \in {f, g} /\ k \notin {f, g}
      BY <1>2, <2>2, <3>2
    <3>3. CASE h \notin {f, g} /\ k \in {f, g}
      BY <1>2, <2>2, <3>3
    <3>4. CASE h \notin {f, g} /\ k \notin {f, g}
      <4>1. (\E p \in pairs' : {h, k} \subseteq p)
              <=> (\E p \in pairs : {h, k} \subseteq p)
        <5>1. ~({h, k} \subseteq {f, g})
          BY <3>4
        <5>2. pairs' = pairs \cup {{f, g}}
          BY <1>2
        <5> QED
          BY <5>1, <5>2
      <4>2. group[h] = group[k] /\ group[h] # 0 <=> \E p \in pairs : {h, k} \subseteq p
        BY <1>2, <2>5 DEF FilterInv, GroupsPair
      <4>3. group'[h] = group[h] /\ group'[k] = group[k]
        BY <1>2, <3>4
      <4> QED
        BY <4>1, <4>2, <4>3
    <3> QED
      BY <3>1, <3>2, <3>3, <3>4
  <2>6. \A p, q \in pairs' : p \cap q # {} => p = q
    <3>1. \A p \in pairs : p \cap {f, g} = {}
      BY <1>2
    <3>2. \A p, q \in pairs : p \cap q # {} => p = q
      BY DEF FilterInv, GroupsPair
    <3> QED
      BY <1>2, <3>1, <3>2
  <2> QED
    BY <1>2, <2>1, <2>3, <2>4, <2>5, <2>6 DEF GroupsPair
<1>5. FilterTypeOK'
  BY <1>1, <1>2 DEF FilterInv, FilterTypeOK
<1> QED
  BY <1>2, <1>3, <1>4, <1>5 DEF FilterInv, LayersKnown, IsTable

LEMMA UnghostKeeps ==
  ASSUME FilterAssumption, FilterInv, NEW p \in pairs, Unghost(p)
  PROVE  FilterInv'
<1>1. /\ pairs' = pairs \ {p}
      /\ DOMAIN group = DOMAIN fixtures
      /\ group' = [h \in DOMAIN fixtures |-> IF h \in p THEN 0 ELSE group[h]]
      /\ UNCHANGED <<status, table, layers, fixtures, registered>>
  BY DEF Unghost, FilterInv, FilterTypeOK
<1>2. FiltersMean'
  BY <1>1 DEF FilterInv, FiltersMean, Meant, Mask
<1>3. \A h \in p : ~\E q \in pairs' : h \in q
  BY <1>1 DEF FilterInv, GroupsPair
<1>4. GroupsPair'
  <2>1. /\ registered' \in 0 .. MaxGroups
        /\ \A h \in DOMAIN fixtures' : group'[h] \in -registered' .. 0
    BY <1>1 DEF FilterInv, GroupsPair
  <2>2. \A h \in DOMAIN fixtures' : group'[h] # 0 <=> \E q \in pairs' : h \in q
    BY <1>1, <1>3 DEF FilterInv, GroupsPair
  <2>3. ASSUME NEW h \in DOMAIN fixtures, NEW k \in DOMAIN fixtures, h # k
        PROVE  group'[h] = group'[k] /\ group'[h] # 0
                 <=> \E q \in pairs' : {h, k} \subseteq q
    <3>1. CASE h \in p \/ k \in p
      BY <1>1, <1>3, <3>1
    <3>2. CASE h \notin p /\ k \notin p
      BY <1>1, <2>3, <3>2 DEF FilterInv, GroupsPair
    <3> QED
      BY <3>1, <3>2
  <2>4. \A q, r \in pairs' : q \cap r # {} => q = r
    BY <1>1 DEF FilterInv, GroupsPair
  <2> QED
    BY <1>1, <2>1, <2>2, <2>3, <2>4 DEF GroupsPair
<1>5. FilterTypeOK'
  <2>1. 0 \in GroupIndex
    BY DEF GroupIndex, FilterAssumption, Half
  <2> QED
    BY <1>1, <2>1 DEF FilterInv, FilterTypeOK
<1> QED
  BY <1>1, <1>2, <1>4, <1>5 DEF FilterInv, LayersKnown, IsTable

LEMMA OtherStepsKeep ==
  ASSUME FilterInv,
         LayersLoaded \/ (\E names \in NameLists : RefuseLayer(names))
           \/ UNCHANGED filterVars
  PROVE  FilterInv'
<1>1. /\ UNCHANGED <<table, layers, fixtures, group, pairs, registered>>
      /\ status' \in {"layers", "models", "failed"}
  BY DEF LayersLoaded, RefuseLayer, filterVars, FilterInv, FilterTypeOK
<1>2. FilterTypeOK' /\ GroupsPair'
  BY <1>1 DEF FilterInv, FilterTypeOK, GroupsPair
<1>3. FiltersMean'
  BY <1>1 DEF FilterInv, FiltersMean, Meant, Mask
<1> QED
  BY <1>1, <1>2, <1>3 DEF FilterInv, IsTable, LayersKnown

LEMMA StepKeepsInvariant ==
  FilterAssumption /\ FilterInv /\ [FilterNext]_filterVars => FilterInv'
BY LoadLayerKeeps, LoadEmptyLayerKeeps, LoadFootprintKeeps, DeleteFootprintKeeps,
   GhostKeeps, UnghostKeeps, OtherStepsKeep DEF FilterNext

LEMMA SharedLayersCollide == FilterAssumption /\ FilterInv => CollideInSharedLayer
<1> SUFFICES ASSUME FilterAssumption, FilterInv PROVE CollideInSharedLayer
  OBVIOUS
<1>1. ASSUME NEW f \in DOMAIN fixtures, NEW g \in DOMAIN fixtures, f # g
      PROVE  ShouldCollide(f, g) <=>
               /\ fixtures[f].solid /\ fixtures[g].solid
               /\ Meant(f) \cap Meant(g) # {}
               /\ \A p \in pairs : ~({f, g} \subseteq p)
  <2>1. CASE group[f] = group[g] /\ group[f] # 0
    <3>1. \E p \in pairs : {f, g} \subseteq p
      BY <1>1, <2>1 DEF FilterInv, GroupsPair
    <3>2. ~(group[f] > 0)
      BY DEF FilterInv, GroupsPair
    <3> QED
      BY <2>1, <3>1, <3>2 DEF ShouldCollide
  <2>2. CASE ~(group[f] = group[g] /\ group[f] # 0)
    <3>1. \A p \in pairs : ~({f, g} \subseteq p)
      BY <1>1, <2>2 DEF FilterInv, GroupsPair
    <3>2. \A h \in DOMAIN fixtures :
            /\ fixtures[h].category = Meant(h)
            /\ fixtures[h].mask = IF fixtures[h].solid THEN Meant(h) ELSE {}
      BY DEF FilterInv, FiltersMean, Mask
    <3> QED
      BY <2>2, <3>1, <3>2 DEF ShouldCollide
  <2> QED
    BY <2>1, <2>2
<1>2. IsInjective(table) /\ \A names \in layers : names \subseteq DOMAIN table
  BY DEF FilterInv, IsTable, LayersKnown
<1> QED
  BY <1>1, <1>2 DEF CollideInSharedLayer, FilterInv

(* Two fixtures collide exactly when both are solid, share a layer and are *)
(* not ghosted, and layers never share an id, as long as no layer is named *)
(* "all" and the groups fit an int16 (CollisionFilterRegistry,             *)
(* ModelBody::ConfigFootprintDef, LinkAttacher::Attach).                   *)
THEOREM FiltersAreTrue ==
  FilterAssumption => (FilterSpec => []CollideInSharedLayer)
<1> SUFFICES ASSUME FilterAssumption PROVE FilterSpec => []CollideInSharedLayer
  OBVIOUS
<1>1. FilterInit => FilterInv
  BY InitialInvariant
<1>2. FilterInv /\ [FilterNext]_filterVars => FilterInv'
  BY StepKeepsInvariant
<1>3. FilterInv => CollideInSharedLayer
  BY SharedLayersCollide
<1> QED
  BY <1>1, <1>2, <1>3, PTL DEF FilterSpec

(***************************************************************************)
(* The life of models                                                      *)
(***************************************************************************)

(* The models that may have anything: those of the World, and the one that *)
(* is being loaded.                                                        *)
KnownModel == models \cup (IF loading = NoName THEN {} ELSE {loading})

Typed == models \subseteq Name /\ loading \in Name \cup {NoName}

(* What exists belongs to a known model, or is the ground.                 *)
Belongs ==
  /\ \A p \in bodies : p = Ground \/ p[1] \in KnownModel
  /\ \A p \in joints : p[1] \in KnownModel
  /\ stage # "down" => \A p \in plugins : p[1] \in KnownModel

(* Loading: no model of that name is there, and plugins come last.         *)
LoadingIsNew ==
  loading # NoName =>
    /\ loading \notin models /\ stage # "down"
    /\ stage \in {"bodies", "joints"} => \A p \in plugins : p[1] # loading

(* The ground is there until the World goes down; from then on the World   *)
(* does not listen.  Contacts are between existing b2Bodies.               *)
Grounded ==
  /\ stage # "down" => Ground \in bodies
  /\ stage = "down" => ~listening /\ Ground \notin bodies
  /\ \A c \in touching : c \subseteq b2bodies

(* The markers are those of the models.                                    *)
MarkersPaired == stage # "down" => markers = models

ModelsInv == /\ Typed /\ Belongs /\ LoadingIsNew /\ Grounded /\ MarkersPaired
        /\ Paired

-----------------------------------------------------------------------------
(* ~Model takes everything of a model that is not the ground, and nothing  *)
(* else; joints still have their b2Joints, and while the World listens the *)
(* bodies of a contact that ends are there.                                *)
LEMMA DestroyModelPairs ==
  ASSUME NamesAssumption, ModelsInv, NEW n \in Name, NEW listeners,
         DestroyModel(n, listeners)
  PROVE  /\ joints' = {p \in joints : p[1] # n}
         /\ bodies' = {p \in bodies : p[1] # n}
         /\ joints' = b2joints'
         /\ bodies' \subseteq b2bodies'
         /\ b2bodies' \subseteq bodies' \cup {Ground}
         /\ \A c \in touching' : c \subseteq b2bodies'
         /\ misuse' = {}
         /\ Ground \in bodies' <=> Ground \in bodies
<1>1. Ground[1] # n
  BY DEF NamesAssumption, Ground
<1>2. /\ joints' = {p \in joints : p[1] # n}
      /\ bodies' = {p \in bodies : p[1] # n}
      /\ joints' = b2joints'
  BY DEF DestroyModel, Of, ModelsInv, Paired
<1>3. b2bodies' = {p \in b2bodies : p[1] # n}
  BY <1>1 DEF DestroyModel, Freed, Of, ModelsInv, Paired
<1>4. \A c \in touching' : c \subseteq b2bodies'
  BY <1>3 DEF DestroyModel, Ending, ModelsInv, Grounded
<1>5. misuse' = {}
  <2>1. listening => b2bodies = bodies
    BY DEF ModelsInv, Grounded, Paired
  <2>2. \A c \in Ending(n) : listening => c \subseteq bodies
    BY <2>1 DEF Ending, ModelsInv, Grounded
  <2>3. Of(n, joints) \ JointsLeft(n) = {}
    BY DEF Of, JointsLeft, ModelsInv, Paired
  <2>4. Misused(n, listeners) = {}
    BY <2>2, <2>3 DEF Misused
  <2> QED
    BY <2>4 DEF DestroyModel, ModelsInv, Paired
<1> QED
  BY <1>1, <1>2, <1>3, <1>4, <1>5 DEF ModelsInv, Paired

LEMMA InitInv == NamesAssumption /\ LifeInit => ModelsInv
BY DEF NamesAssumption, LifeInit, ModelsInv, Typed, KnownModel, Belongs, LoadingIsNew,
       Grounded, MarkersPaired, Paired

LEMMA StartLoadInv ==
  ASSUME NamesAssumption, ModelsInv, NEW n \in Name, StartLoad(n)
  PROVE  ModelsInv'
BY DEF NamesAssumption, ModelsInv, Typed, KnownModel, Belongs, LoadingIsNew, Grounded,
       MarkersPaired, Paired, StartLoad, Idle, Unique

LEMMA LoadBodyInv ==
  ASSUME NamesAssumption, ModelsInv, NEW enabled \in BOOLEAN, LoadBody(enabled)
  PROVE  ModelsInv'
<1>1. /\ loading # NoName /\ stage = "bodies" /\ stage' # "down"
      /\ stage' = "bodies" \/ stage' = "joints" \/ stage' = "plugins"
      /\ \/ UNCHANGED <<bodies, b2bodies>>
         \/ /\ bodies' = bodies \cup {<<loading, at>>}
            /\ b2bodies' = b2bodies \cup {<<loading, at>>}
  BY DEF LoadBody, Continue
<1> QED
  BY <1>1 DEF LoadBody, ModelsInv, Typed, KnownModel, Belongs, LoadingIsNew, Grounded,
              MarkersPaired, Paired

LEMMA LoadJointInv ==
  ASSUME NamesAssumption, ModelsInv, NEW enabled \in BOOLEAN, LoadJoint(enabled)
  PROVE  ModelsInv'
<1>1. /\ loading # NoName /\ stage = "joints" /\ stage' # "down"
      /\ UNCHANGED <<models, loading, bodies, b2bodies, plugins, markers, touching,
                     listening, misuse>>
      /\ \/ UNCHANGED <<joints, b2joints>>
         \/ /\ joints' = joints \cup {<<loading, at>>}
            /\ b2joints' = b2joints \cup {<<loading, at>>}
  BY DEF LoadJoint, Continue
<1>2. Typed' /\ Belongs'
  BY <1>1 DEF ModelsInv, Typed, KnownModel, Belongs
<1>3. LoadingIsNew' /\ Grounded' /\ MarkersPaired'
  BY <1>1 DEF ModelsInv, LoadingIsNew, Grounded, MarkersPaired
<1>4. Paired'
  BY <1>1 DEF ModelsInv, Paired
<1> QED
  BY <1>2, <1>3, <1>4 DEF ModelsInv

LEMMA LoadPluginInv ==
  ASSUME NamesAssumption, ModelsInv, NEW enabled \in BOOLEAN, LoadPlugin(enabled)
  PROVE  ModelsInv'
BY DEF LoadPlugin, ModelsInv, Typed, KnownModel, Belongs, LoadingIsNew, Grounded,
       MarkersPaired, Paired

LEMMA FinishLoadInv ==
  ASSUME NamesAssumption, ModelsInv, FinishLoad
  PROVE  ModelsInv'
BY DEF NamesAssumption, FinishLoad, ModelsInv, Typed, KnownModel, Belongs, LoadingIsNew,
       Grounded, MarkersPaired, Paired

(* A load that fails, whatever it has made already, leaves nothing.        *)
LEMMA AbortInv ==
  ASSUME NamesAssumption, ModelsInv, AbortBodiesOrJoints \/ AbortPlugins
  PROVE  ModelsInv'
<1>1. /\ loading \in Name /\ loading \notin models /\ stage # "down"
      /\ loading' = NoName /\ stage' = stage
      /\ UNCHANGED <<models, markers, listening>>
  BY DEF ModelsInv, Typed, LoadingIsNew, AbortBodiesOrJoints, AbortPlugins
<1>2. PICK listeners : DestroyModel(loading, listeners)
  BY DEF AbortBodiesOrJoints, AbortPlugins
<1>3. \A p \in plugins' : p \in plugins /\ p[1] # loading
  BY <1>1 DEF AbortBodiesOrJoints, AbortPlugins, OtherPlugins, Of, ModelsInv, LoadingIsNew
<1>4. KnownModel = models \cup {loading} /\ KnownModel' = models
  BY <1>1 DEF KnownModel, NamesAssumption
<1>5. Belongs'
  BY <1>1, <1>2, <1>3, <1>4, DestroyModelPairs DEF ModelsInv, Belongs
<1>6. Grounded' /\ Paired'
  BY <1>1, <1>2, <1>3, <1>4, DestroyModelPairs
  DEF ModelsInv, Belongs, Grounded, Paired
<1> QED
  BY <1>1, <1>5, <1>6 DEF ModelsInv, Typed, LoadingIsNew, MarkersPaired

LEMMA DeleteInv ==
  ASSUME NamesAssumption, ModelsInv, NEW n \in Name, DeleteModel(n)
  PROVE  ModelsInv'
<1>1. /\ loading = NoName /\ loading' = NoName /\ stage' = stage /\ stage # "down"
      /\ models' = models \ {n} /\ markers' = markers \ {n}
      /\ listening' = listening
      /\ DestroyModel(n, OtherPlugins(n))
      /\ plugins' = {p \in plugins : p[1] # n}
  BY DEF DeleteModel, Idle, OtherPlugins, Of
<1>2. KnownModel = models /\ KnownModel' = models \ {n}
  BY <1>1 DEF KnownModel
<1>3. Belongs'
  BY <1>1, <1>2, DestroyModelPairs DEF ModelsInv, Belongs
<1>4. Grounded' /\ Paired'
  BY <1>1, <1>2, <1>3, DestroyModelPairs DEF ModelsInv, Belongs, Grounded, Paired
<1> QED
  BY <1>1, <1>3, <1>4 DEF ModelsInv, Typed, LoadingIsNew, MarkersPaired

LEMMA TouchInv ==
  ASSUME NamesAssumption, ModelsInv, NEW c \in Contact, Touch(c)
  PROVE  ModelsInv'
BY DEF Touch, ModelsInv, Typed, KnownModel, Belongs, LoadingIsNew, Grounded, MarkersPaired,
       Paired

(* ~World: the World no longer listens when the layer's Body goes, so the  *)
(* contacts that end later reach nobody.                                   *)
LEMMA DestroyLayersInv ==
  ASSUME NamesAssumption, ModelsInv, DestroyLayers
  PROVE  ModelsInv'
BY DEF DestroyLayers, Silenced, Idle, ModelsInv, Typed, KnownModel, Belongs, LoadingIsNew,
       Grounded, MarkersPaired, Paired

LEMMA DestroyNextInv ==
  ASSUME NamesAssumption, ModelsInv, NEW n \in Name, DestroyNextModel(n)
  PROVE  ModelsInv'
<1>1. /\ stage = "down" /\ stage' = "down" /\ loading' = loading
      /\ models' = models \ {n} /\ listening' = listening
      /\ DestroyModel(n, plugins)
  BY DEF DestroyNextModel
<1>2. loading = NoName /\ KnownModel = models /\ KnownModel' = models \ {n}
  BY <1>1 DEF ModelsInv, LoadingIsNew, KnownModel
<1>3. Belongs'
  BY <1>1, <1>2, DestroyModelPairs DEF ModelsInv, Belongs
<1>4. Grounded' /\ Paired'
  BY <1>1, <1>2, <1>3, DestroyModelPairs DEF ModelsInv, Belongs, Grounded, Paired
<1> QED
  BY <1>1, <1>2, <1>3, <1>4 DEF ModelsInv, Typed, LoadingIsNew, MarkersPaired

(* No Body and no Joint is left when the b2World goes.                     *)
LEMMA DestroyRestInv ==
  ASSUME NamesAssumption, ModelsInv, DestroyRest
  PROVE  ModelsInv'
<1>1. stage = "down" /\ stage' = "down" /\ loading = NoName /\ models = {}
  BY DEF DestroyRest, ModelsInv, LoadingIsNew
<1>2. KnownModel = {} /\ bodies = {} /\ joints = {}
  BY <1>1 DEF KnownModel, ModelsInv, Belongs, Grounded
<1> QED
  BY <1>1, <1>2 DEF DestroyRest, ModelsInv, Typed, KnownModel, Belongs, LoadingIsNew, Grounded,
                    MarkersPaired, Paired

LEMMA NextInv == NamesAssumption /\ ModelsInv /\ [LifeNext]_lifeVars => ModelsInv'
<1> SUFFICES ASSUME NamesAssumption, ModelsInv, [LifeNext]_lifeVars PROVE ModelsInv'
  OBVIOUS
<1>1. ASSUME NEW n \in Name, RefuseDuplicate(n) \/ RefuseUnknown(n) PROVE ModelsInv'
  BY <1>1 DEF RefuseDuplicate, RefuseUnknown, ModelsInv, Typed, KnownModel, Belongs,
              LoadingIsNew, Grounded, MarkersPaired, Paired
<1>2. ASSUME NEW n \in Name, StartLoad(n) PROVE ModelsInv'
  BY <1>2, StartLoadInv
<1>3. ASSUME NEW n \in Name, DeleteModel(n) PROVE ModelsInv'
  BY <1>3, DeleteInv
<1>4. ASSUME NEW n \in Name, DestroyNextModel(n) PROVE ModelsInv'
  BY <1>4, DestroyNextInv
<1>5. ASSUME NEW enabled \in BOOLEAN,
             LoadBody(enabled) \/ LoadJoint(enabled) \/ LoadPlugin(enabled)
      PROVE  ModelsInv'
  BY <1>5, LoadBodyInv, LoadJointInv, LoadPluginInv
<1>6. CASE FinishLoad
  BY <1>6, FinishLoadInv
<1>7. CASE AbortBodiesOrJoints \/ AbortPlugins
  BY <1>7, AbortInv
<1>8. ASSUME NEW c \in Contact, Touch(c) PROVE ModelsInv'
  BY <1>8, TouchInv
<1>9. CASE DestroyLayers
  BY <1>9, DestroyLayersInv
<1>10. CASE DestroyRest
  BY <1>10, DestroyRestInv
<1>11. CASE UNCHANGED lifeVars
  BY <1>11 DEF lifeVars, ModelsInv, Typed, KnownModel, Belongs, LoadingIsNew, Grounded,
               MarkersPaired, Paired
<1> QED
  BY <1>1, <1>2, <1>3, <1>4, <1>5, <1>6, <1>7, <1>8, <1>9, <1>10, <1>11 DEF LifeNext

-----------------------------------------------------------------------------
(* The number of the next part is one of those listed in the yaml, or one  *)
(* more when all plugins are loaded.                                       *)
Counted ==
  /\ at \in Nat \ {0}
  /\ stage = "bodies" => at <= BodyCount
  /\ stage = "joints" => at <= JointCount
  /\ stage = "plugins" => at <= PluginCount + 1

TypeInv == LifeTypeOK /\ Counted

LEMMA CountsAreBounded ==
  ASSUME CountsAssumption, Counted, stage \in {"bodies", "joints", "plugins"}
  PROVE  at \in 1 .. 1 + BodyCount + JointCount + PluginCount
BY DEF CountsAssumption, Counted

LEMMA ContinueCounted ==
  ASSUME CountsAssumption, TypeInv, loading # NoName, stage = "bodies" \/ stage = "joints",
         Continue(IF stage = "bodies" THEN BodyCount ELSE JointCount,
                  IF stage = "bodies" /\ JointCount > 0 THEN "joints" ELSE "plugins")
  PROVE  /\ Counted' /\ stage' \in {"bodies", "joints", "plugins"}
         /\ at' \in 1 .. 1 + BodyCount + JointCount + PluginCount
BY DEF CountsAssumption, TypeInv, Counted, Continue, More

LEMMA DestroyModelTypes ==
  ASSUME LifeTypeOK, NEW n, NEW listeners, DestroyModel(n, listeners)
  PROVE  /\ bodies' \subseteq AllBodies /\ b2bodies' \subseteq AllBodies
         /\ joints' \subseteq Part(JointCount) /\ b2joints' \subseteq Part(JointCount)
         /\ touching' \subseteq Contact
         /\ misuse' \subseteq {"joint", "contact"}
BY DEF LifeTypeOK, DestroyModel, Misused

LEMMA TypeNext ==
  ASSUME NamesAssumption, CountsAssumption, TypeInv, [LifeNext]_lifeVars
  PROVE  TypeInv'
<1> USE DEF TypeInv
<1>1. ASSUME NEW n \in Name, RefuseDuplicate(n) \/ RefuseUnknown(n) PROVE TypeInv'
  BY <1>1 DEF RefuseDuplicate, RefuseUnknown, LifeTypeOK, Counted
<1>2. ASSUME NEW n \in Name, StartLoad(n) PROVE TypeInv'
  BY <1>2 DEF StartLoad, LifeTypeOK, Counted, CountsAssumption
<1>3. ASSUME NEW n \in Name, DeleteModel(n) PROVE TypeInv'
  BY <1>3, DestroyModelTypes DEF DeleteModel, OtherPlugins, Of, LifeTypeOK, Counted
<1>4. ASSUME NEW n \in Name, DestroyNextModel(n) PROVE TypeInv'
  BY <1>4, DestroyModelTypes DEF DestroyNextModel, LifeTypeOK, Counted
<1>5. ASSUME NEW enabled \in BOOLEAN, LoadBody(enabled) PROVE TypeInv'
  <2>1. /\ Counted' /\ stage' \in {"bodies", "joints", "plugins"}
        /\ at' \in 1 .. 1 + BodyCount + JointCount + PluginCount
    BY <1>5, ContinueCounted DEF LoadBody
  <2>2. <<loading, at>> \in AllBodies
    BY <1>5 DEF LoadBody, LifeTypeOK, Counted, AllBodies, Part, CountsAssumption
  <2> QED
    BY <1>5, <2>1, <2>2 DEF LoadBody, LifeTypeOK
<1>6. ASSUME NEW enabled \in BOOLEAN, LoadJoint(enabled) PROVE TypeInv'
  <2>1. /\ Counted' /\ stage' \in {"bodies", "joints", "plugins"}
        /\ at' \in 1 .. 1 + BodyCount + JointCount + PluginCount
    BY <1>6, ContinueCounted DEF LoadJoint
  <2>2. <<loading, at>> \in Part(JointCount)
    BY <1>6 DEF LoadJoint, LifeTypeOK, Counted, Part, CountsAssumption
  <2> QED
    BY <1>6, <2>1, <2>2 DEF LoadJoint, LifeTypeOK
<1>7. ASSUME NEW enabled \in BOOLEAN, LoadPlugin(enabled) PROVE TypeInv'
  <2>1. <<loading, at>> \in Part(PluginCount)
    BY <1>7 DEF LoadPlugin, LifeTypeOK, Counted, Part, CountsAssumption
  <2>2. Counted' /\ at' \in 1 .. 1 + BodyCount + JointCount + PluginCount
    BY <1>7 DEF LoadPlugin, LifeTypeOK, Counted, CountsAssumption
  <2> QED
    BY <1>7, <2>1, <2>2 DEF LoadPlugin, LifeTypeOK
<1>8. CASE FinishLoad
  BY <1>8 DEF FinishLoad, LifeTypeOK, Counted
<1>9. CASE AbortBodiesOrJoints \/ AbortPlugins
  BY <1>9, DestroyModelTypes
  DEF AbortBodiesOrJoints, AbortPlugins, OtherPlugins, Of, LifeTypeOK, Counted
<1>10. ASSUME NEW c \in Contact, Touch(c) PROVE TypeInv'
  BY <1>10 DEF Touch, LifeTypeOK, Counted
<1>11. CASE DestroyLayers \/ DestroyRest
  BY <1>11 DEF DestroyLayers, DestroyRest, Silenced, LifeTypeOK, Counted
<1>12. CASE UNCHANGED lifeVars
  BY <1>12 DEF lifeVars, LifeTypeOK, Counted
<1> QED
  BY <1>1, <1>2, <1>3, <1>4, <1>5, <1>6, <1>7, <1>8, <1>9, <1>10, <1>11, <1>12 DEF LifeNext

(* A load walks through the parts of its model and no further; what it     *)
(* makes are parts of models.                                              *)
THEOREM TypeCorrect ==
  ASSUME NamesAssumption, CountsAssumption
  PROVE  LifeSpec => []LifeTypeOK
<1>1. LifeInit => TypeInv
  BY DEF LifeInit, TypeInv, LifeTypeOK, Counted, AllBodies, CountsAssumption
<1>2. TypeInv => LifeTypeOK
  BY DEF TypeInv
<1> QED
  BY <1>1, <1>2, TypeNext, PTL DEF LifeSpec

(* At every point of a load, an abort, a delete and ~World each Body and   *)
(* Joint has its Box2D object, plugins belong to models that are there,    *)
(* and nothing that is gone is used.                                       *)
THEOREM NothingDangles ==
  ASSUME NamesAssumption, CountsAssumption
  PROVE  LifeSpec => []ObjectsPaired
<1>1. ModelsInv => Paired
  BY DEF ModelsInv
<1>2. ObjectsPaired <=> LifeTypeOK /\ Paired
  BY DEF ObjectsPaired
<1>3. LifeSpec => []LifeTypeOK
  BY TypeCorrect
<1> QED
  BY <1>1, <1>2, <1>3, InitInv, NextInv, PTL DEF LifeSpec

-----------------------------------------------------------------------------
(***************************************************************************)
(* WorldModels implements ModelRegistry: the steps that end a call are its *)
(* steps, and everything in between changes nothing that it can see.       *)
(***************************************************************************)

(* Nothing is held of models that are not there.                           *)
LEMMA ResidueIsPresent == NamesAssumption /\ ModelsInv => Residue = Present
<1> SUFFICES ASSUME NamesAssumption, ModelsInv, stage # "down", NEW n \in Name
             PROVE  n # loading /\ (Rest(n) # {} \/ n \in models \cup markers)
                      <=> n \in models
  BY DEF Residue, Present, ModelsInv, Typed
<1>1. loading \notin models /\ markers = models
  BY DEF ModelsInv, LoadingIsNew, MarkersPaired, NamesAssumption, Typed
<1>2. ASSUME n # loading, Rest(n) # {} PROVE n \in models
  <2>1. PICK p \in bodies \cup joints \cup plugins : p[1] = n /\ p # Ground
    BY <1>2 DEF Rest, Of, ModelsInv, Paired, NamesAssumption, Ground
  <2> QED
    BY <2>1, <1>2 DEF ModelsInv, Belongs, KnownModel
<1> QED
  BY <1>1, <1>2

LEMMA ResidueStaysPresent == NamesAssumption /\ ModelsInv' => Residue' = Present'
<1>1. NamesAssumption' /\ ModelsInv' => (Residue = Present)'
  BY ResidueIsPresent, PTL
<1>2. NamesAssumption => NamesAssumption'
  BY DEF NamesAssumption
<1> QED
  BY <1>1, <1>2

LEMMA RegistryStep ==
  ASSUME NamesAssumption, ModelsInv, [LifeNext]_lifeVars
  PROVE  [Registry!Next \/ Registry!Shutdown]_(Registry!vars)
<1> USE DEF Registry!Next, Registry!Shutdown, Registry!Spawned, Registry!Deleted,
            Registry!Refused, Registry!vars
<1>1. Residue = Present /\ Residue' = Present'
  BY NextInv, ResidueIsPresent, ResidueStaysPresent
<1>2. ASSUME NEW n \in Name, RefuseDuplicate(n) \/ RefuseUnknown(n)
      PROVE  Registry!Next
  BY <1>1, <1>2 DEF RefuseDuplicate, RefuseUnknown, Present
<1>3. ASSUME NEW n \in Name, DeleteModel(n) PROVE Registry!Next
  BY <1>1, <1>3 DEF DeleteModel, Idle, Present
<1>4. CASE FinishLoad
  <2>1. loading \in Name /\ loading \notin models /\ stage # "down"
    BY <1>4 DEF FinishLoad, ModelsInv, Typed, LoadingIsNew
  <2> QED
    BY <1>1, <1>4, <2>1 DEF FinishLoad, Present
<1>5. CASE AbortBodiesOrJoints \/ AbortPlugins
  BY <1>1, <1>5 DEF AbortBodiesOrJoints, AbortPlugins, Present
<1>6. CASE DestroyLayers
  BY <1>1, <1>6 DEF DestroyLayers, Present
<1>7. ASSUME NEW n \in Name, StartLoad(n) PROVE UNCHANGED Registry!vars
  BY <1>1, <1>7 DEF StartLoad, Idle, Present
<1>8. ASSUME NEW enabled \in BOOLEAN,
             LoadBody(enabled) \/ LoadJoint(enabled) \/ LoadPlugin(enabled)
      PROVE  UNCHANGED Registry!vars
  <2>1. stage # "down" /\ stage' # "down" /\ UNCHANGED <<models, answer>>
    BY <1>8 DEF LoadBody, LoadJoint, LoadPlugin, Continue
  <2> QED
    BY <1>1, <2>1 DEF Present
<1>9. ASSUME NEW c \in Contact, Touch(c) PROVE UNCHANGED Registry!vars
  BY <1>1, <1>9 DEF Touch, Present
<1>10. ASSUME NEW n \in Name, DestroyNextModel(n) PROVE UNCHANGED Registry!vars
  BY <1>1, <1>10 DEF DestroyNextModel, Present
<1>11. CASE DestroyRest
  BY <1>1, <1>11 DEF DestroyRest, Present
<1>12. CASE UNCHANGED lifeVars
  BY <1>1, <1>12 DEF lifeVars, Present
<1> QED
  BY <1>2, <1>3, <1>4, <1>5, <1>6, <1>7, <1>8, <1>9, <1>10, <1>11, <1>12 DEF LifeNext

(* Every spawn is answered and happens wholly or not at all, every delete  *)
(* takes everything, and the World holds nothing of models that are not    *)
(* there (World::LoadModel, World::DeleteModel, ~World).                   *)
THEOREM SpawnsAreAtomic ==
  ASSUME NamesAssumption
  PROVE  LifeSpec => SpawnIsAtomic
<1>1. LifeInit => Registry!Init
  BY DEF LifeInit, Registry!Init, Present, Residue, Rest, Of, Ground, NamesAssumption
<1> QED
  BY <1>1, InitInv, NextInv, RegistryStep, PTL DEF LifeSpec, SpawnIsAtomic, Registry!Spec

=============================================================================
