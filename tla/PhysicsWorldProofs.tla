------------------------- MODULE PhysicsWorldProofs -------------------------
(***************************************************************************)
(* Proofs about the part of Box2D that the plugins see, for any bodies,    *)
(* places, speeds, welds and scenes, any patience of sleepers and any      *)
(* number of calls between two steps.                                      *)
(*                                                                         *)
(* A world is sound when contacts and their listener agree, every pair     *)
(* that may soon touch has its contact or a body in the move buffer, and   *)
(* who sleeps stands still.  Every call keeps a world sound, a Step also   *)
(* settles it: the move buffer is empty, and no sleeper is coupled to a    *)
(* body in motion.  One lemma per operation of PhysicsWorld says what it   *)
(* leaves alone, one per call and phase of the Step that it keeps this.    *)
(***************************************************************************)
EXTENDS PhysicsWorld, FiniteSetTheorems, TLAPS

BodyRecord == [at : Places, fat : [lo : Int, hi : Int], v : Int, awake : BOOLEAN,
               rest : 0 .. Patience, ghost : BOOLEAN]
ContactRecord == [touching : BOOLEAN, refilter : BOOLEAN]

(* A world that is put together as one should be.                          *)
IsRecord(s) ==
  s = [scene |-> s.scene, body |-> s.body, contacts |-> s.contacts, list |-> s.list,
       welds |-> s.welds, moved |-> s.moved, newFixture |-> s.newFixture, open |-> s.open]
IsWorld(s) ==
  /\ IsRecord(s)
  /\ s.scene \subseteq Proxies /\ DOMAIN s.body \subseteq Proxies
  /\ s.body \in [DOMAIN s.body -> BodyRecord]
  /\ s.contacts \in [DOMAIN s.contacts -> ContactRecord]
  /\ \A p \in DOMAIN s.contacts \cup s.welds : p \in Pairs /\ p \subseteq DOMAIN s.body
  /\ s.moved \subseteq DOMAIN s.body
  /\ s.newFixture \in BOOLEAN
  /\ s.open \in [Pairs -> Int]

(* BeginContact less EndContact is one for a contact that touches.         *)
Exact(s) ==
  \A p \in Pairs : s.open[p] = IF HasContact(s, p) /\ s.contacts[p].touching THEN 1 ELSE 0

(* A pair that is to collide and may soon touch has its contact, or a body *)
(* in the move buffer.                                                     *)
Covers(s) ==
  \A p \in Pairs : p \subseteq DOMAIN s.body /\ Overlapping(s, p) /\ ShouldCollide(s, p)
                     => HasContact(s, p) \/ p \cap s.moved # {}

(* Who sleeps stands still.                                                *)
Standing(s) == \A b \in DOMAIN s.body : Moving(b) /\ ~s.body[b].awake => s.body[b].v = 0

(* Nobody sleeps next to a body in motion.                                 *)
Together(s) ==
  \A a, b \in DOMAIN s.body :
    Moving(a) /\ Moving(b) /\ Linked(s, a, b) /\ s.body[a].v # 0 => s.body[b].awake

(* What only concerns contacts, and wakes.                                 *)
Alike(s, t) ==
  /\ DOMAIN t.body = DOMAIN s.body
  /\ t.scene = s.scene /\ t.welds = s.welds /\ t.newFixture = s.newFixture
  /\ \A b \in DOMAIN s.body :
       /\ t.body[b].at = s.body[b].at /\ t.body[b].fat = s.body[b].fat
       /\ t.body[b].v = s.body[b].v /\ t.body[b].ghost = s.body[b].ghost
       /\ s.body[b].awake => t.body[b].awake

-----------------------------------------------------------------------------
(***************************************************************************)
(* What the operations of the world change                                 *)
(***************************************************************************)

(* Waking bodies changes nothing but that they are awake, and how long     *)
(* they have rested.                                                       *)
LEMMA SetAwakeIs ==
  ASSUME NEW s, IsWorld(s), NEW bs, WorldAssumption
  PROVE  LET t == SetAwake(s, bs)
         IN  /\ IsWorld(t) /\ Alike(s, t)
             /\ t.contacts = s.contacts /\ t.open = s.open /\ t.moved = s.moved
             /\ \A b \in bs \cap DOMAIN s.body : t.body[b].awake
<1> DEFINE t == SetAwake(s, bs)
           body == [b \in DOMAIN s.body |->
             IF b \in bs THEN [s.body[b] EXCEPT !.awake = TRUE, !.rest = 0] ELSE s.body[b]]
<1>0. 0 \in 0 .. Patience
  BY DEF WorldAssumption
<1>1. /\ IsRecord(t) /\ t.body = body
      /\ t.scene = s.scene /\ t.contacts = s.contacts /\ t.list = s.list /\ t.welds = s.welds
      /\ t.moved = s.moved /\ t.newFixture = s.newFixture /\ t.open = s.open
  <2>1. t = [s EXCEPT !.body = body]
    BY DEF SetAwake
  <2> HIDE DEF t, body
  <2> QED
    BY <2>1 DEF IsWorld, IsRecord
<1>2. ASSUME NEW b \in DOMAIN s.body
      PROVE  /\ body[b] \in BodyRecord
             /\ body[b].at = s.body[b].at /\ body[b].fat = s.body[b].fat
             /\ body[b].v = s.body[b].v /\ body[b].ghost = s.body[b].ghost
             /\ s.body[b].awake \/ b \in bs => body[b].awake
  BY <1>0, s.body[b] \in BodyRecord DEF IsWorld, BodyRecord
<1>3. DOMAIN body = DOMAIN s.body /\ body \in [DOMAIN s.body -> BodyRecord]
  BY <1>2
<1>4. IsWorld(t)
  BY <1>1, <1>3 DEF IsWorld
<1> QED
  BY <1>1, <1>2, <1>3, <1>4 DEF Alike

(* EndContact is told of the contacts that touch, and of no other.         *)
LEMMA DestroyContactsIs ==
  ASSUME NEW s, IsWorld(s), NEW P \in SUBSET DOMAIN s.contacts, WorldAssumption
  PROVE  LET t == DestroyContacts(s, P)
         IN  /\ IsWorld(t) /\ Alike(s, t) /\ t.moved = s.moved
             /\ DOMAIN t.contacts = DOMAIN s.contacts \ P
             /\ \A p \in DOMAIN t.contacts : t.contacts[p] = s.contacts[p]
             /\ Exact(s) => Exact(t)
<1> DEFINE ended == {p \in P : s.contacts[p].touching}
           contacts == [p \in DOMAIN s.contacts \ P |-> s.contacts[p]]
           list == Without(s.list, P)
           open == [p \in Pairs |-> IF p \in ended THEN s.open[p] - 1 ELSE s.open[p]]
           t == [s EXCEPT !.contacts = contacts, !.list = list, !.open = open]
           bs == UNION {p \in ended : Solid(p)}
<1>1. DestroyContacts(s, P) = SetAwake(t, bs)
  BY DEF DestroyContacts
<1>2. /\ IsRecord(t) /\ t.body = s.body /\ t.contacts = contacts /\ t.open = open
      /\ t.scene = s.scene /\ t.welds = s.welds
      /\ t.moved = s.moved /\ t.newFixture = s.newFixture
  <2> DEFINE t1 == [s EXCEPT !.contacts = contacts]
             t2 == [t1 EXCEPT !.list = list]
  <2>1. t = [t2 EXCEPT !.open = open]
    OBVIOUS
  <2> HIDE DEF t, contacts, list, open
  <2>2. /\ IsRecord(t1) /\ t1.contacts = contacts
        /\ t1.body = s.body /\ t1.scene = s.scene /\ t1.welds = s.welds
        /\ t1.moved = s.moved /\ t1.newFixture = s.newFixture
    BY DEF IsRecord, IsWorld
  <2> HIDE DEF t1
  <2>3. /\ IsRecord(t2) /\ t2.contacts = contacts
        /\ t2.body = s.body /\ t2.scene = s.scene /\ t2.welds = s.welds
        /\ t2.moved = s.moved /\ t2.newFixture = s.newFixture
    BY <2>2 DEF IsRecord
  <2> HIDE DEF t2
  <2> QED
    BY <2>1, <2>3 DEF IsRecord
<1> HIDE DEF t, bs
<1>3. open \in [Pairs -> Int]
  BY DEF IsWorld
<1>4. /\ contacts \in [DOMAIN contacts -> ContactRecord]
      /\ DOMAIN contacts = DOMAIN s.contacts \ P
      /\ \A p \in DOMAIN contacts : contacts[p] = s.contacts[p]
  BY DEF IsWorld
<1>5. IsWorld(t)
  BY <1>2, <1>3, <1>4 DEF IsWorld
<1>6. ASSUME Exact(s) PROVE Exact(t)
  BY <1>2, <1>4, <1>6 DEF Exact, HasContact, IsWorld
<1> DEFINE u == SetAwake(t, bs)
<1>7. /\ IsWorld(u) /\ Alike(t, u)
      /\ u.contacts = t.contacts /\ u.open = t.open /\ u.moved = t.moved
  BY <1>5, SetAwakeIs
<1> HIDE DEF u
<1>8. Alike(s, u)
  BY <1>2, <1>7 DEF Alike
<1>9. Exact(t) => Exact(u)
  BY <1>7 DEF Exact, HasContact
<1> QED
  BY <1>1, <1>2, <1>4, <1>6, <1>7, <1>8, <1>9 DEF u

(* BeginContact and EndContact are told of exactly what changes.           *)
LEMMA UpdateIs ==
  ASSUME NEW s, IsWorld(s), NEW P \in SUBSET DOMAIN s.contacts, WorldAssumption
  PROVE  LET t == Update(s, P)
         IN  /\ IsWorld(t) /\ Alike(s, t) /\ t.moved = s.moved
             /\ DOMAIN t.contacts = DOMAIN s.contacts
             /\ \A p \in DOMAIN s.contacts \ P : t.contacts[p] = s.contacts[p]
             /\ Exact(s) => Exact(t)
<1> DEFINE changed == {p \in P : s.contacts[p].touching # Meet(s, p)}
           contacts == [p \in DOMAIN s.contacts |->
                          IF p \in changed THEN [s.contacts[p] EXCEPT !.touching = Meet(s, p)]
                          ELSE s.contacts[p]]
           open == [p \in Pairs |-> IF p \notin changed THEN s.open[p]
                                    ELSE IF Meet(s, p) THEN s.open[p] + 1 ELSE s.open[p] - 1]
           t == [s EXCEPT !.contacts = contacts, !.open = open]
           bs == UNION {p \in changed : Solid(p)}
<1>1. Update(s, P) = SetAwake(t, bs)
  BY DEF Update
<1>2. /\ IsRecord(t) /\ t.body = s.body /\ t.contacts = contacts /\ t.open = open
      /\ t.scene = s.scene /\ t.welds = s.welds
      /\ t.moved = s.moved /\ t.newFixture = s.newFixture
  <2> DEFINE t1 == [s EXCEPT !.contacts = contacts]
  <2>1. t = [t1 EXCEPT !.open = open]
    OBVIOUS
  <2> HIDE DEF t, contacts, open
  <2>2. /\ IsRecord(t1) /\ t1.contacts = contacts
        /\ t1.body = s.body /\ t1.scene = s.scene /\ t1.welds = s.welds
        /\ t1.moved = s.moved /\ t1.newFixture = s.newFixture
    BY DEF IsRecord, IsWorld
  <2> HIDE DEF t1
  <2> QED
    BY <2>1, <2>2 DEF IsRecord
<1> HIDE DEF t, bs
<1>3. open \in [Pairs -> Int]
  BY DEF IsWorld
<1>4. ASSUME NEW p \in DOMAIN s.contacts
      PROVE  /\ contacts[p] \in ContactRecord
             /\ p \notin changed => contacts[p] = s.contacts[p]
             /\ p \in changed => (contacts[p].touching <=> ~s.contacts[p].touching)
  <2>1. s.contacts[p] \in ContactRecord
    BY DEF IsWorld
  <2>2. ASSUME p \in changed
        PROVE  /\ [s.contacts[p] EXCEPT !.touching = Meet(s, p)] \in ContactRecord
               /\ [s.contacts[p] EXCEPT !.touching = Meet(s, p)].touching
                    <=> ~s.contacts[p].touching
    <3> DEFINE m == Meet(s, p)
               c == s.contacts[p]
    <3>1. m \in BOOLEAN /\ c.touching # m /\ c \in ContactRecord
      BY <2>1, <2>2 DEF Meet
    <3> HIDE DEF m, c
    <3>2. /\ [c EXCEPT !.touching = m] \in ContactRecord
          /\ [c EXCEPT !.touching = m].touching <=> ~c.touching
      BY <3>1 DEF ContactRecord
    <3> QED
      BY <3>2 DEF m, c
  <2> QED
    BY <2>1, <2>2
<1>5. DOMAIN contacts = DOMAIN s.contacts /\ contacts \in [DOMAIN contacts -> ContactRecord]
  BY <1>4
<1>6. IsWorld(t)
  BY <1>2, <1>3, <1>5 DEF IsWorld
<1>7. ASSUME Exact(s) PROVE Exact(t)
  <2> SUFFICES ASSUME NEW p \in Pairs
               PROVE  open[p] = IF p \in DOMAIN contacts /\ contacts[p].touching THEN 1 ELSE 0
    BY <1>2 DEF Exact, HasContact
  <2>1. s.open[p] = IF p \in DOMAIN s.contacts /\ s.contacts[p].touching THEN 1 ELSE 0
    BY <1>7 DEF Exact, HasContact
  <2>2. CASE p \notin changed
    BY <1>4, <1>5, <2>1, <2>2
  <2>3. CASE p \in changed
    <3>1. p \in DOMAIN s.contacts
      BY <2>3
    <3>2. s.contacts[p].touching \in BOOLEAN
      BY <3>1 DEF IsWorld, ContactRecord
    <3>3. Meet(s, p) <=> ~s.contacts[p].touching
      <4>1. Meet(s, p) \in BOOLEAN /\ s.contacts[p].touching # Meet(s, p)
        BY <2>3 DEF Meet
      <4> QED
        BY <4>1, <3>2
    <3>4. contacts[p].touching <=> ~s.contacts[p].touching
      BY <3>1, <2>3, <1>4
    <3>5. open[p] = IF Meet(s, p) THEN s.open[p] + 1 ELSE s.open[p] - 1
      BY <2>3
    <3> HIDE DEF contacts, open, changed
    <3> QED
      BY <3>1, <3>2, <3>3, <3>4, <3>5, <2>1, <1>5
  <2> QED
    BY <2>2, <2>3
<1> DEFINE u == SetAwake(t, bs)
<1>8. /\ IsWorld(u) /\ Alike(t, u)
      /\ u.contacts = t.contacts /\ u.open = t.open /\ u.moved = t.moved
  BY <1>6, SetAwakeIs
<1> HIDE DEF u
<1>9. Alike(s, u)
  BY <1>2, <1>8 DEF Alike
<1>10. Exact(t) => Exact(u)
  BY <1>8 DEF Exact, HasContact
<1> QED
  BY <1>1, <1>2, <1>4, <1>5, <1>7, <1>8, <1>9, <1>10 DEF u

(* With the move buffer emptied every pair that it covered has a contact,  *)
(* and a new contact does not touch yet.                                   *)
LEMMA FindNewContactsIs ==
  ASSUME NEW s, IsWorld(s), WorldAssumption
  PROVE  LET t == FindNewContacts(s)
         IN  /\ IsWorld(t) /\ Alike(s, t) /\ t.moved = {}
             /\ DOMAIN s.contacts \subseteq DOMAIN t.contacts
             /\ \A p \in DOMAIN t.contacts :
                  IF p \in DOMAIN s.contacts THEN t.contacts[p] = s.contacts[p]
                  ELSE ~t.contacts[p].touching
             /\ Exact(s) => Exact(t)
             /\ Covers(s) => Covers(t)
<1> DEFINE new == {p \in Pairs : /\ p \subseteq DOMAIN s.body /\ p \cap s.moved # {}
                                 /\ Overlapping(s, p) /\ AddsPair(s, p)}
           contacts == [p \in DOMAIN s.contacts \cup new |->
                          IF p \in new THEN [touching |-> FALSE, refilter |-> FALSE]
                          ELSE s.contacts[p]]
           list == Listed(new, s.list)
           t == [s EXCEPT !.contacts = contacts, !.list = list, !.moved = {}]
           bs == UNION {p \in new : Solid(p)}
<1>1. FindNewContacts(s) = SetAwake(t, bs)
  BY DEF FindNewContacts
<1>2. /\ IsRecord(t) /\ t.body = s.body /\ t.contacts = contacts /\ t.moved = {}
      /\ t.scene = s.scene /\ t.welds = s.welds
      /\ t.open = s.open /\ t.newFixture = s.newFixture
  <2> DEFINE t1 == [s EXCEPT !.contacts = contacts]
             t2 == [t1 EXCEPT !.list = list]
  <2>1. t = [t2 EXCEPT !.moved = {}]
    OBVIOUS
  <2> HIDE DEF t, contacts, list
  <2>2. /\ IsRecord(t1) /\ t1.contacts = contacts
        /\ t1.body = s.body /\ t1.scene = s.scene /\ t1.welds = s.welds
        /\ t1.open = s.open /\ t1.newFixture = s.newFixture
    BY DEF IsRecord, IsWorld
  <2> HIDE DEF t1
  <2>3. /\ IsRecord(t2) /\ t2.contacts = contacts
        /\ t2.body = s.body /\ t2.scene = s.scene /\ t2.welds = s.welds
        /\ t2.open = s.open /\ t2.newFixture = s.newFixture
    BY <2>2 DEF IsRecord
  <2> HIDE DEF t2
  <2> QED
    BY <2>1, <2>3 DEF IsRecord
<1> HIDE DEF t, bs
<1>3. /\ DOMAIN contacts = DOMAIN s.contacts \cup new
      /\ \A p \in new : p \in Pairs /\ p \subseteq DOMAIN s.body /\ p \notin DOMAIN s.contacts
      /\ \A p \in DOMAIN s.contacts : contacts[p] = s.contacts[p]
      /\ \A p \in new : contacts[p] = [touching |-> FALSE, refilter |-> FALSE]
  BY DEF AddsPair, HasContact
<1>4. contacts \in [DOMAIN contacts -> ContactRecord]
  <2>1. [touching |-> FALSE, refilter |-> FALSE] \in ContactRecord
    BY DEF ContactRecord
  <2> QED
    BY <2>1 DEF IsWorld
<1>5. IsWorld(t)
  <2> HIDE DEF contacts
  <2> QED
    BY <1>2, <1>3, <1>4 DEF IsWorld
<1>6. ASSUME Exact(s) PROVE Exact(t)
  <2>1. \A p \in new : ~contacts[p].touching
    BY <1>3
  <2> HIDE DEF contacts, new
  <2> QED
    BY <1>2, <1>3, <1>6, <2>1 DEF Exact, HasContact
<1> DEFINE u == SetAwake(t, bs)
<1>7. /\ IsWorld(u) /\ Alike(t, u)
      /\ u.contacts = t.contacts /\ u.open = t.open /\ u.moved = t.moved
  BY <1>5, SetAwakeIs
<1> HIDE DEF u
<1>8. Alike(s, u)
  BY <1>2, <1>7 DEF Alike
<1>9. Exact(t) => Exact(u)
  BY <1>7 DEF Exact, HasContact
<1>10. ASSUME Covers(s) PROVE Covers(u)
  <2> SUFFICES ASSUME NEW p \in Pairs, p \subseteq DOMAIN u.body, Overlapping(u, p),
                      ShouldCollide(u, p)
               PROVE  HasContact(u, p)
    BY DEF Covers
  <2>1. p \subseteq DOMAIN s.body /\ Overlapping(s, p) /\ ShouldCollide(s, p)
    BY <1>8 DEF Alike, Overlapping, ShouldCollide
  <2>2. HasContact(s, p) \/ p \in new
    BY <1>10, <2>1 DEF Covers, AddsPair
  <2> QED
    BY <2>2, <1>2, <1>3, <1>7 DEF HasContact
<1>11. /\ DOMAIN s.contacts \subseteq DOMAIN u.contacts
       /\ \A p \in DOMAIN u.contacts :
            IF p \in DOMAIN s.contacts THEN u.contacts[p] = s.contacts[p]
            ELSE ~u.contacts[p].touching
  <2>1. \A p \in new : ~contacts[p].touching
    BY <1>3
  <2> HIDE DEF contacts, new
  <2> QED
    BY <1>2, <1>3, <1>7, <2>1
<1> QED
  BY <1>1, <1>2, <1>6, <1>7, <1>8, <1>9, <1>10, <1>11 DEF u

(* A fat shape made anew is a box.                                         *)
LEMMA MoveProxyIs ==
  ASSUME NEW x \in Int, NEW y \in Int
  PROVE  MoveProxy(Combine(Shape(x), Shape(y)), 2 * (y - x)) \in [lo : Int, hi : Int]
<1> DEFINE swept == Combine(Shape(x), Shape(y))
           d == 2 * (y - x)
<1>1. swept.lo \in Int /\ swept.hi \in Int
  BY DEF Combine, Shape
<1>2. d \in Int
  OBVIOUS
<1> HIDE DEF swept, d
<1>3. Fat(swept).lo \in Int /\ Fat(swept).hi \in Int
  BY <1>1 DEF Fat, Extension
<1>4. MoveProxy(swept, d) \in [lo : Int, hi : Int]
  BY <1>2, <1>3 DEF MoveProxy
<1> QED
  BY <1>4 DEF swept, d

(* Who gets a new fat shape is in the move buffer.                         *)
LEMMA SynchronizeIs ==
  ASSUME NEW s, IsWorld(s), WorldAssumption, NEW bs \in SUBSET DOMAIN s.body, NEW from,
         \A b \in bs : from[b].at \in Places
  PROVE  LET t == Synchronize(s, bs, from)
         IN  /\ IsWorld(t)
             /\ DOMAIN t.body = DOMAIN s.body
             /\ t.scene = s.scene /\ t.welds = s.welds /\ t.contacts = s.contacts
             /\ t.open = s.open /\ s.moved \subseteq t.moved
             /\ \A b \in DOMAIN s.body :
                  /\ t.body[b].at = s.body[b].at /\ t.body[b].v = s.body[b].v
                  /\ t.body[b].awake = s.body[b].awake /\ t.body[b].ghost = s.body[b].ghost
                  /\ t.body[b].fat = s.body[b].fat \/ b \in t.moved
<1> DEFINE swept(b) == Combine(Shape(from[b].at), Shape(s.body[b].at))
           left == {b \in bs : Leaves(s.body[b].fat, swept(b))}
           ahead(b) == MoveProxy(swept(b), 2 * (s.body[b].at - from[b].at))
           body == [b \in DOMAIN s.body |->
                      IF b \in left THEN [s.body[b] EXCEPT !.fat = ahead(b)] ELSE s.body[b]]
           t1 == [s EXCEPT !.body = body]
           t == [t1 EXCEPT !.moved = s.moved \cup left]
<1>1. IsRecord(s) /\ Places \subseteq Int
  BY DEF IsWorld, WorldAssumption
<1>2. /\ IsRecord(t1) /\ t1.body = body /\ t1.contacts = s.contacts /\ t1.moved = s.moved
      /\ t1.scene = s.scene /\ t1.welds = s.welds
      /\ t1.open = s.open /\ t1.newFixture = s.newFixture
  <2> HIDE DEF body
  <2> QED
    BY <1>1 DEF IsRecord
<1>3. Synchronize(s, bs, from) = t
  <2>1. Synchronize(s, bs, from) = BufferMove(t1, left)
    BY DEF Synchronize
  <2> HIDE DEF t1, left
  <2> QED
    BY <2>1, <1>2 DEF BufferMove
<1>4. /\ IsRecord(t) /\ t.body = body /\ t.contacts = s.contacts /\ t.moved = s.moved \cup left
      /\ t.scene = s.scene /\ t.welds = s.welds
      /\ t.open = s.open /\ t.newFixture = s.newFixture
  <2>1. t = [t1 EXCEPT !.moved = s.moved \cup left]
    OBVIOUS
  <2> HIDE DEF body, t1, left, t
  <2> QED
    BY <2>1, <1>2 DEF IsRecord
<1> HIDE DEF t1, t
<1>5. ASSUME NEW b \in DOMAIN s.body
      PROVE  /\ body[b] \in BodyRecord
             /\ body[b].at = s.body[b].at /\ body[b].v = s.body[b].v
             /\ body[b].awake = s.body[b].awake /\ body[b].ghost = s.body[b].ghost
             /\ body[b].fat = s.body[b].fat \/ b \in left
  <2> DEFINE r == s.body[b]
             f == ahead(b)
  <2>1. r \in BodyRecord /\ r.at \in Places
    BY DEF IsWorld, BodyRecord
  <2>2. CASE b \notin left
    BY <2>1, <2>2
  <2>3. CASE b \in left
    <3>1. from[b].at \in Int /\ r.at \in Int
      BY <2>3, <2>1, <1>1
    <3>2. f \in [lo : Int, hi : Int]
      BY <3>1, MoveProxyIs
    <3>3. body[b] = [r EXCEPT !.fat = f]
      BY <2>3
    <3> HIDE DEF r, f, body
    <3>4. /\ body[b] \in BodyRecord
          /\ body[b].at = r.at /\ body[b].v = r.v
          /\ body[b].awake = r.awake /\ body[b].ghost = r.ghost
      BY <2>1, <3>2, <3>3 DEF BodyRecord
    <3> QED
      BY <2>3, <3>4 DEF r
  <2> QED
    BY <2>2, <2>3
<1>6. DOMAIN body = DOMAIN s.body /\ left \subseteq DOMAIN s.body
  OBVIOUS
<1> HIDE DEF body, left
<1>7. body \in [DOMAIN s.body -> BodyRecord]
  <2>1. body = [b \in DOMAIN s.body |-> body[b]]
    BY DEF body
  <2> QED
    BY <2>1, <1>5
<1>8. IsWorld(t)
  BY <1>4, <1>6, <1>7 DEF IsWorld
<1> QED
  BY <1>3, <1>4, <1>5, <1>6, <1>8

(* A flag says nothing of touching.                                        *)
LEMMA FlagForFilteringIs ==
  ASSUME NEW s, IsWorld(s), NEW P
  PROVE  LET t == FlagForFiltering(s, P)
         IN  /\ IsWorld(t)
             /\ t.body = s.body /\ t.scene = s.scene /\ t.welds = s.welds
             /\ t.moved = s.moved /\ t.open = s.open /\ t.newFixture = s.newFixture
             /\ DOMAIN t.contacts = DOMAIN s.contacts
             /\ \A p \in DOMAIN s.contacts : t.contacts[p].touching = s.contacts[p].touching
<1> DEFINE contacts == [p \in DOMAIN s.contacts |->
                          IF p \in P THEN [s.contacts[p] EXCEPT !.refilter = TRUE]
                          ELSE s.contacts[p]]
           t == [s EXCEPT !.contacts = contacts]
<1>1. FlagForFiltering(s, P) = t
  BY DEF FlagForFiltering
<1>2. /\ IsRecord(t) /\ t.contacts = contacts
      /\ t.body = s.body /\ t.scene = s.scene /\ t.welds = s.welds
      /\ t.moved = s.moved /\ t.open = s.open /\ t.newFixture = s.newFixture
  <2> HIDE DEF contacts
  <2> QED
    BY DEF IsWorld, IsRecord
<1> HIDE DEF t
<1>3. \A p \in DOMAIN s.contacts : /\ contacts[p] \in ContactRecord
                                   /\ contacts[p].touching = s.contacts[p].touching
  BY DEF IsWorld, ContactRecord
<1>4. DOMAIN contacts = DOMAIN s.contacts /\ contacts \in [DOMAIN contacts -> ContactRecord]
  BY <1>3
<1> HIDE DEF contacts
<1>5. IsWorld(t)
  BY <1>2, <1>4 DEF IsWorld
<1> QED
  BY <1>1, <1>2, <1>3, <1>4, <1>5

(* A weld leaves its contact to be filtered; it ends none by itself.       *)
LEMMA CreateJointIs ==
  ASSUME NEW s, IsWorld(s), NEW p \in Pairs, p \subseteq DOMAIN s.body
  PROVE  LET t == CreateJoint(s, p)
         IN  /\ IsWorld(t)
             /\ t.body = s.body /\ t.scene = s.scene /\ t.welds = s.welds \cup {p}
             /\ t.moved = s.moved /\ t.open = s.open /\ t.newFixture = s.newFixture
             /\ DOMAIN t.contacts = DOMAIN s.contacts
             /\ \A q \in DOMAIN s.contacts : t.contacts[q].touching = s.contacts[q].touching
<1> DEFINE welds == s.welds \cup {p}
           t1 == [s EXCEPT !.welds = welds]
<1>1. /\ IsRecord(t1) /\ t1.body = s.body /\ t1.contacts = s.contacts /\ t1.moved = s.moved
      /\ t1.scene = s.scene /\ t1.welds = welds
      /\ t1.open = s.open /\ t1.newFixture = s.newFixture
  <2> HIDE DEF welds
  <2> QED
    BY DEF IsRecord, IsWorld
<1>2. CreateJoint(s, p) = FlagForFiltering(t1, {p})
  BY DEF CreateJoint
<1> HIDE DEF t1
<1>3. IsWorld(t1)
  BY <1>1 DEF IsWorld
<1> QED
  BY <1>1, <1>2, <1>3, FlagForFilteringIs

(* Joints that are destroyed wake their bodies.                            *)
LEMMA DestroyJointsIs ==
  ASSUME NEW s, IsWorld(s), WorldAssumption, NEW P
  PROVE  LET t == DestroyJoints(s, P)
         IN  /\ IsWorld(t)
             /\ DOMAIN t.body = DOMAIN s.body
             /\ t.scene = s.scene /\ t.welds = s.welds \ P
             /\ t.moved = s.moved /\ t.open = s.open /\ t.newFixture = s.newFixture
             /\ DOMAIN t.contacts = DOMAIN s.contacts
             /\ \A q \in DOMAIN s.contacts : t.contacts[q].touching = s.contacts[q].touching
             /\ \A b \in DOMAIN s.body :
                  /\ t.body[b].at = s.body[b].at /\ t.body[b].fat = s.body[b].fat
                  /\ t.body[b].v = s.body[b].v /\ t.body[b].ghost = s.body[b].ghost
                  /\ s.body[b].awake => t.body[b].awake
<1> DEFINE welds == s.welds \ P
           t1 == [s EXCEPT !.welds = welds]
           t2 == SetAwake(t1, UNION P)
<1>1. /\ IsRecord(t1) /\ t1.body = s.body /\ t1.contacts = s.contacts /\ t1.moved = s.moved
      /\ t1.scene = s.scene /\ t1.welds = welds
      /\ t1.open = s.open /\ t1.newFixture = s.newFixture
  <2> HIDE DEF welds
  <2> QED
    BY DEF IsRecord, IsWorld
<1>2. DestroyJoints(s, P) = FlagForFiltering(t2, P)
  BY DEF DestroyJoints
<1> HIDE DEF t1
<1>3. IsWorld(t1)
  BY <1>1 DEF IsWorld
<1>4. /\ IsWorld(t2) /\ Alike(t1, t2)
      /\ t2.contacts = t1.contacts /\ t2.open = t1.open /\ t2.moved = t1.moved
  BY <1>3, SetAwakeIs
<1> HIDE DEF t2
<1> DEFINE t == FlagForFiltering(t2, P)
<1>5. /\ IsWorld(t)
      /\ t.body = t2.body /\ t.scene = t2.scene /\ t.welds = t2.welds
      /\ t.moved = t2.moved /\ t.open = t2.open /\ t.newFixture = t2.newFixture
      /\ DOMAIN t.contacts = DOMAIN t2.contacts
      /\ \A q \in DOMAIN t2.contacts : t.contacts[q].touching = t2.contacts[q].touching
  BY <1>4, FlagForFilteringIs
<1> HIDE DEF t
<1>6. /\ DOMAIN t.body = DOMAIN s.body
      /\ \A b \in DOMAIN s.body :
           /\ t.body[b].at = s.body[b].at /\ t.body[b].fat = s.body[b].fat
           /\ t.body[b].v = s.body[b].v /\ t.body[b].ghost = s.body[b].ghost
           /\ s.body[b].awake => t.body[b].awake
  BY <1>1, <1>4, <1>5 DEF Alike
<1>7. /\ t.scene = s.scene /\ t.welds = s.welds \ P
      /\ t.moved = s.moved /\ t.open = s.open /\ t.newFixture = s.newFixture
      /\ DOMAIN t.contacts = DOMAIN s.contacts
      /\ \A q \in DOMAIN s.contacts : t.contacts[q].touching = s.contacts[q].touching
  BY <1>1, <1>4, <1>5 DEF Alike
<1> QED
  BY <1>2, <1>5, <1>6, <1>7 DEF t

(* Filtered contacts are flagged no more.                                  *)
LEMMA UnflagIs ==
  ASSUME NEW s, IsWorld(s)
  PROVE  LET t == Unflag(s)
         IN  /\ IsWorld(t)
             /\ t.body = s.body /\ t.scene = s.scene /\ t.welds = s.welds
             /\ t.moved = s.moved /\ t.open = s.open /\ t.newFixture = s.newFixture
             /\ DOMAIN t.contacts = DOMAIN s.contacts
             /\ \A p \in DOMAIN s.contacts : t.contacts[p].touching = s.contacts[p].touching
<1> DEFINE contacts == [p \in DOMAIN s.contacts |-> [s.contacts[p] EXCEPT !.refilter = FALSE]]
           t == [s EXCEPT !.contacts = contacts]
<1>1. Unflag(s) = t
  BY DEF Unflag
<1>2. /\ IsRecord(t) /\ t.contacts = contacts
      /\ t.body = s.body /\ t.scene = s.scene /\ t.welds = s.welds
      /\ t.moved = s.moved /\ t.open = s.open /\ t.newFixture = s.newFixture
  <2> HIDE DEF contacts
  <2> QED
    BY DEF IsWorld, IsRecord
<1> HIDE DEF t
<1>3. \A p \in DOMAIN s.contacts : /\ contacts[p] \in ContactRecord
                                   /\ contacts[p].touching = s.contacts[p].touching
  BY DEF IsWorld, ContactRecord
<1>4. DOMAIN contacts = DOMAIN s.contacts /\ contacts \in [DOMAIN contacts -> ContactRecord]
  BY <1>3
<1> HIDE DEF contacts
<1>5. IsWorld(t)
  BY <1>2, <1>4 DEF IsWorld
<1> QED
  BY <1>1, <1>2, <1>3, <1>4, <1>5

(* Whatever the walk along the list looks at, Collide only ends contacts   *)
(* of pairs that are apart or are not to collide.                          *)
LEMMA CollideIs ==
  ASSUME NEW s, IsWorld(s), WorldAssumption
  PROVE  LET t == Collide(s)
         IN  /\ IsWorld(t) /\ Alike(s, t) /\ t.moved = s.moved
             /\ Exact(s) => Exact(t)
             /\ Covers(s) => Covers(t)
<1> DEFINE seen == LookedAt(s)
           ended == {p \in seen : Ends(s, p)}
           t1 == Unflag(s)
           t2 == DestroyContacts(t1, ended)
           t == Update(t2, seen \ ended)
<1>1. Collide(s) = t
  BY DEF Collide
<1>2. ended \in SUBSET DOMAIN s.contacts /\ seen \in SUBSET DOMAIN s.contacts
  BY DEF LookedAt
<1>3. /\ IsWorld(t1)
      /\ t1.body = s.body /\ t1.scene = s.scene /\ t1.welds = s.welds
      /\ t1.moved = s.moved /\ t1.open = s.open /\ t1.newFixture = s.newFixture
      /\ DOMAIN t1.contacts = DOMAIN s.contacts
      /\ \A p \in DOMAIN s.contacts : t1.contacts[p].touching = s.contacts[p].touching
  BY UnflagIs
<1> HIDE DEF t1
<1>4. /\ IsWorld(t2) /\ Alike(t1, t2) /\ t2.moved = t1.moved
      /\ DOMAIN t2.contacts = DOMAIN t1.contacts \ ended
      /\ \A p \in DOMAIN t2.contacts : t2.contacts[p] = t1.contacts[p]
      /\ Exact(t1) => Exact(t2)
  <2> HIDE DEF ended
  <2> QED
    BY <1>2, <1>3, DestroyContactsIs
<1> HIDE DEF t2
<1>5. /\ IsWorld(t) /\ Alike(t2, t) /\ t.moved = t2.moved
      /\ DOMAIN t.contacts = DOMAIN t2.contacts
      /\ Exact(t2) => Exact(t)
  <2>1. seen \ ended \in SUBSET DOMAIN t2.contacts
    BY <1>2, <1>3, <1>4
  <2> HIDE DEF ended, seen
  <2> QED
    BY <2>1, <1>4, UpdateIs
<1> HIDE DEF t
<1>6. Exact(s) => Exact(t1)
  BY <1>3 DEF Exact, HasContact
<1>7. Alike(s, t)
  BY <1>3, <1>4, <1>5 DEF Alike
<1>8. ASSUME Covers(s) PROVE Covers(t)
  <2> SUFFICES ASSUME NEW p \in Pairs, p \subseteq DOMAIN t.body, Overlapping(t, p),
                      ShouldCollide(t, p)
               PROVE  HasContact(t, p) \/ p \cap t.moved # {}
    BY DEF Covers
  <2>1. p \subseteq DOMAIN s.body /\ Overlapping(s, p) /\ ShouldCollide(s, p)
    BY <1>7 DEF Alike, Overlapping, ShouldCollide
  <2>2. p \notin ended
    BY <2>1 DEF Ends, Filtered
  <2>3. HasContact(s, p) \/ p \cap s.moved # {}
    BY <1>8, <2>1 DEF Covers
  <2> HIDE DEF ended
  <2> QED
    BY <2>2, <2>3, <1>3, <1>4, <1>5 DEF HasContact
<1> QED
  BY <1>1, <1>3, <1>4, <1>5, <1>6, <1>7, <1>8

(* An island holds moving bodies, and no link leaves it.                   *)
LEMMA IslandsAreClosed ==
  ASSUME NEW s
  PROVE  /\ \A i \in Islands(s) : i \subseteq Movers(s) /\ Closed(s, i)
         /\ \A b \in DOMAIN s.body : Awake(s, b) => b \in UNION Islands(s)
<1>1. ASSUME NEW b PROVE Reach(s, b) \subseteq Movers(s) /\ Closed(s, Reach(s, b))
  <2>1. Reach(s, b) \subseteq Movers(s)
    BY DEF Reach
  <2>2. ASSUME NEW a \in Reach(s, b), NEW c \in Movers(s) \ Reach(s, b), Linked(s, a, c)
        PROVE  FALSE
    <3>1. PICK B \in SUBSET Movers(s) : b \in B /\ Closed(s, B) /\ c \notin B
      BY DEF Reach
    <3>2. a \in B
      BY <3>1 DEF Reach
    <3> QED
      BY <2>2, <3>1, <3>2 DEF Closed
  <2> QED
    BY <2>1, <2>2 DEF Closed
<1>2. ASSUME NEW b \in DOMAIN s.body, Awake(s, b) PROVE b \in UNION Islands(s)
  <2>1. b \in Reach(s, b)
    BY <1>2 DEF Reach, Movers, Awake
  <2> QED
    BY <1>2, <2>1 DEF Islands
<1> QED
  BY <1>1, <1>2 DEF Islands

(* The solver moves an island as one: when it is done, who touches or is   *)
(* held by a body in motion is awake.                                      *)
LEMMA IntegrateIs ==
  ASSUME NEW s, IsWorld(s), WorldAssumption, NEW settled \in BOOLEAN,
         NEW v \in Solved(s, Islands(s))
  PROVE  LET t == Integrate(s, Islands(s), v, settled)
         IN  /\ IsWorld(t)
             /\ DOMAIN t.body = DOMAIN s.body
             /\ t.scene = s.scene /\ t.welds = s.welds /\ t.contacts = s.contacts
             /\ t.open = s.open /\ t.moved = s.moved
             /\ \A b \in DOMAIN s.body : /\ t.body[b].fat = s.body[b].fat
                                         /\ t.body[b].ghost = s.body[b].ghost
             /\ Standing(s) => Standing(t) /\ Together(t)
<1> DEFINE islands == Islands(s)
           sleeps(b) == \E i \in islands : b \in i /\ settled
                          /\ \A a \in i : Rest(s, v, a) = Patience
           solved(b) ==
             IF sleeps(b)
             THEN [s.body[b] EXCEPT !.v = 0, !.rest = 0, !.awake = FALSE, !.at = @ + v[b]]
             ELSE [s.body[b] EXCEPT !.v = v[b], !.rest = Rest(s, v, b), !.awake = TRUE,
                                    !.at = @ + v[b]]
           body == [b \in DOMAIN s.body |->
                      IF b \in UNION islands THEN solved(b) ELSE s.body[b]]
           t == [s EXCEPT !.body = body]
<1>1. Integrate(s, Islands(s), v, settled) = t
  BY DEF Integrate
<1>2. /\ IsRecord(t) /\ t.body = body /\ t.contacts = s.contacts /\ t.moved = s.moved
      /\ t.scene = s.scene /\ t.welds = s.welds
      /\ t.open = s.open /\ t.newFixture = s.newFixture
  <2> HIDE DEF body
  <2> QED
    BY DEF IsRecord, IsWorld
<1> HIDE DEF t
<1>3. ASSUME NEW b \in DOMAIN s.body
      PROVE  /\ body[b] \in BodyRecord
             /\ body[b].fat = s.body[b].fat /\ body[b].ghost = s.body[b].ghost
             /\ b \in UNION islands /\ sleeps(b) => body[b].v = 0
             /\ b \in UNION islands /\ ~sleeps(b) => body[b].v = v[b] /\ body[b].awake
             /\ b \notin UNION islands => body[b] = s.body[b]
  <2> DEFINE r == s.body[b]
             n == Rest(s, v, b)
             x == r.at + v[b]
             w == v[b]
  <2>1. r \in BodyRecord
    BY DEF IsWorld
  <2>2. CASE b \notin UNION islands
    BY <2>1, <2>2
  <2>3. CASE b \in UNION islands
    <3>1. w \in Int /\ x \in Places
      <4>1. PICK i \in islands : b \in i
        BY <2>3
      <4>2. w \in {0} \cup {s.body[a].v : a \in i} /\ x \in Places
        BY <4>1 DEF Solved
      <4>3. i \subseteq DOMAIN s.body
        BY <4>1, IslandsAreClosed DEF Movers
      <4>4. \A a \in i : s.body[a].v \in Int
        BY <4>3 DEF IsWorld, BodyRecord
      <4> QED
        BY <4>2, <4>4
    <3>2. n \in 0 .. Patience /\ 0 \in 0 .. Patience
      BY <2>1 DEF Rest, BodyRecord, WorldAssumption
    <3>3. CASE sleeps(b)
      <4>1. body[b] = [r EXCEPT !.v = 0, !.rest = 0, !.awake = FALSE, !.at = x]
        BY <2>3, <3>3
      <4>2. body[b] = [at |-> x, fat |-> r.fat, v |-> 0, awake |-> FALSE, rest |-> 0,
                       ghost |-> r.ghost]
        <5> HIDE DEF r, x, body
        <5> QED
          BY <2>1, <4>1 DEF BodyRecord
      <4> HIDE DEF r, x, body, sleeps
      <4>3. body[b] \in BodyRecord
        BY <2>1, <3>1, <3>2, <4>2 DEF BodyRecord
      <4>4. /\ body[b].fat = r.fat /\ body[b].ghost = r.ghost /\ body[b].v = 0
        BY <4>2
      <4> QED
        BY <2>3, <3>3, <4>3, <4>4 DEF r
    <3>4. CASE ~sleeps(b)
      <4>1. body[b] = [r EXCEPT !.v = w, !.rest = n, !.awake = TRUE, !.at = x]
        BY <2>3, <3>4
      <4>2. body[b] = [at |-> x, fat |-> r.fat, v |-> w, awake |-> TRUE, rest |-> n,
                       ghost |-> r.ghost]
        <5> HIDE DEF r, x, body, w, n
        <5> QED
          BY <2>1, <4>1 DEF BodyRecord
      <4> HIDE DEF r, x, body, sleeps, w, n
      <4>3. body[b] \in BodyRecord
        BY <2>1, <3>1, <3>2, <4>2 DEF BodyRecord
      <4>4. /\ body[b].fat = r.fat /\ body[b].ghost = r.ghost /\ body[b].v = w /\ body[b].awake
        BY <4>2
      <4> QED
        BY <2>3, <3>4, <4>3, <4>4 DEF r, w
    <3> QED
      BY <3>3, <3>4
  <2> QED
    BY <2>2, <2>3
<1>4. DOMAIN body = DOMAIN s.body /\ body \in [DOMAIN s.body -> BodyRecord]
  <2>1. body = [b \in DOMAIN s.body |-> body[b]]
    OBVIOUS
  <2> HIDE DEF body
  <2> QED
    BY <2>1, <1>3
<1>5. ASSUME NEW b \in UNION islands, sleeps(b), NEW a \in Movers(s), Linked(s, a, b)
      PROVE  v[a] = 0
  <2>1. PICK i \in islands : b \in i /\ \A c \in i : Rest(s, v, c) = Patience
    BY <1>5
  <2>2. Linked(s, b, a)
    <3>1. {a, b} = {b, a}
      OBVIOUS
    <3> QED
      BY <1>5, <3>1, Zenon DEF Linked
  <2>3. a \in i
    BY <2>1, <2>2, IslandsAreClosed DEF Closed
  <2>4. Rest(s, v, a) = Patience /\ Patience # 0
    BY <2>1, <2>3 DEF WorldAssumption
  <2> QED
    BY <2>4 DEF Rest
<1> HIDE DEF body, sleeps, solved
<1>6. IsWorld(t)
  BY <1>2, <1>4 DEF IsWorld
<1>7. ASSUME Standing(s) PROVE Standing(t) /\ Together(t)
  <2>1. Standing(t)
    <3> SUFFICES ASSUME NEW b \in DOMAIN t.body, Moving(b), ~t.body[b].awake
                 PROVE  t.body[b].v = 0
      BY DEF Standing
    <3> QED
      BY <1>2, <1>3, <1>4, <1>7 DEF Standing
  <2>2. Together(t)
    <3> SUFFICES ASSUME NEW a \in DOMAIN t.body, NEW b \in DOMAIN t.body, Moving(a), Moving(b),
                        Linked(t, a, b), t.body[a].v # 0
                 PROVE  t.body[b].awake
      BY DEF Together
    <3>1. a \in Movers(s) /\ b \in Movers(s) /\ Linked(s, a, b) /\ body[a].v # 0
      BY <1>2, <1>4 DEF Movers, Linked, HasContact
    <3>2. a \in UNION islands
      <4>1. CASE a \notin UNION islands
        <5>1. ~Awake(s, a)
          BY <3>1, <4>1, IslandsAreClosed DEF Movers
        <5>2. body[a].v = 0
          BY <1>3, <1>7, <3>1, <4>1, <5>1 DEF Awake, Standing, Movers
        <5> QED
          BY <3>1, <5>2
      <4> QED
        BY <4>1
    <3>3. v[a] # 0
      BY <1>3, <3>1, <3>2 DEF Movers
    <3>4. b \in UNION islands
      BY <3>1, <3>2, IslandsAreClosed DEF Closed
    <3>5. ~sleeps(b)
      BY <1>5, <3>1, <3>3, <3>4
    <3> QED
      BY <1>2, <1>3, <1>4, <3>4, <3>5
  <2> QED
    BY <2>1, <2>2
<1> QED
  BY <1>1, <1>2, <1>3, <1>4, <1>6, <1>7

(* What keeps a world covered.                                             *)
LEMMA CoversKept ==
  ASSUME NEW s, NEW t, Covers(s),
         DOMAIN t.body \subseteq DOMAIN s.body \cup t.moved,
         s.moved \cap DOMAIN t.body \subseteq t.moved,
         \A b \in DOMAIN s.body \cap DOMAIN t.body :
           \/ b \in t.moved
           \/ t.body[b].fat = s.body[b].fat /\ t.body[b].ghost = s.body[b].ghost,
         \A p \in s.welds : p \in t.welds \/ ~(p \subseteq DOMAIN t.body) \/ p \cap t.moved # {},
         \A p \in DOMAIN s.contacts : p \subseteq DOMAIN t.body => p \in DOMAIN t.contacts
  PROVE  Covers(t)
<1> SUFFICES ASSUME NEW p \in Pairs, p \subseteq DOMAIN t.body, Overlapping(t, p),
                    ShouldCollide(t, p), p \cap t.moved = {}
             PROVE  HasContact(t, p)
  BY DEF Covers
<1>1. /\ p \subseteq DOMAIN s.body
      /\ \A b \in p : t.body[b].fat = s.body[b].fat /\ t.body[b].ghost = s.body[b].ghost
  OBVIOUS
<1>2. Overlapping(s, p)
  BY <1>1 DEF Overlapping
<1>3. ShouldCollide(s, p)
  BY <1>1 DEF ShouldCollide
<1> QED
  BY <1>1, <1>2, <1>3 DEF Covers, HasContact

(* What keeps sleepers away from bodies in motion.                         *)
LEMMA TogetherKept ==
  ASSUME NEW s, NEW t, Together(s),
         DOMAIN t.body = DOMAIN s.body, t.welds \subseteq s.welds,
         \A b \in DOMAIN s.body : /\ t.body[b].v \in {0, s.body[b].v}
                                  /\ s.body[b].awake => t.body[b].awake,
         \A p \in DOMAIN t.contacts :
           t.contacts[p].touching /\ (\A b \in p : Moving(b))
             => p \in DOMAIN s.contacts /\ s.contacts[p].touching
  PROVE  Together(t)
<1> SUFFICES ASSUME NEW a \in DOMAIN s.body, NEW b \in DOMAIN s.body, Moving(a), Moving(b),
                    Linked(t, a, b), t.body[a].v # 0
             PROVE  t.body[b].awake
  BY DEF Together
<1>1. Linked(s, a, b)
  <2>1. CASE {a, b} \in t.welds
    BY <2>1 DEF Linked
  <2>2. CASE a # b /\ Solid({a, b}) /\ HasContact(t, {a, b}) /\ t.contacts[{a, b}].touching
    <3>1. \A c \in {a, b} : Moving(c)
      OBVIOUS
    <3>2. {a, b} \in DOMAIN s.contacts /\ s.contacts[{a, b}].touching
      BY <2>2, <3>1 DEF HasContact
    <3> QED
      BY <2>2, <3>2 DEF Linked, HasContact
  <2> QED
    BY <2>1, <2>2 DEF Linked
<1>2. s.body[a].v # 0
  OBVIOUS
<1> QED
  BY <1>1, <1>2 DEF Together

(* A world between two calls, and one after a Step                         *)
Sound(s) == IsWorld(s) /\ Exact(s) /\ Covers(s) /\ Standing(s)
Settled(s) == Sound(s) /\ s.moved = {} /\ Together(s)

(* Waking more bodies makes no sleeper move.                               *)
LEMMA AlikeStanding ==
  ASSUME NEW s, NEW t, Alike(s, t), Standing(s)
  PROVE  Standing(t)
BY DEF Alike, Standing

(* Solving the islands of a sound world settles it.                        *)
LEMMA SolveIs ==
  ASSUME NEW s, Sound(s), WorldAssumption, NEW settled \in BOOLEAN,
         NEW v \in Solved(s, Islands(s))
  PROVE  Settled(Solve(s, v, settled))
<1> DEFINE t1 == Integrate(s, Islands(s), v, settled)
           bs == UNION Islands(s)
           t2 == Synchronize(t1, bs, s.body)
           t == FindNewContacts(t2)
<1>1. Solve(s, v, settled) = t
  BY DEF Solve
<1>2. bs \in SUBSET DOMAIN s.body /\ \A b \in bs : s.body[b].at \in Places
  <2>1. bs \in SUBSET DOMAIN s.body
    BY IslandsAreClosed DEF Movers
  <2> QED
    BY <2>1 DEF Sound, IsWorld, BodyRecord
<1>3. /\ IsWorld(t1)
      /\ DOMAIN t1.body = DOMAIN s.body
      /\ t1.scene = s.scene /\ t1.welds = s.welds /\ t1.contacts = s.contacts
      /\ t1.open = s.open /\ t1.moved = s.moved
      /\ \A b \in DOMAIN s.body : /\ t1.body[b].fat = s.body[b].fat
                                  /\ t1.body[b].ghost = s.body[b].ghost
      /\ Standing(t1) /\ Together(t1)
  BY IntegrateIs DEF Sound
<1> HIDE DEF t1, bs
<1>4. /\ IsWorld(t2)
      /\ DOMAIN t2.body = DOMAIN t1.body
      /\ t2.scene = t1.scene /\ t2.welds = t1.welds /\ t2.contacts = t1.contacts
      /\ t2.open = t1.open /\ t1.moved \subseteq t2.moved
      /\ \A b \in DOMAIN t1.body :
           /\ t2.body[b].at = t1.body[b].at /\ t2.body[b].v = t1.body[b].v
           /\ t2.body[b].awake = t1.body[b].awake /\ t2.body[b].ghost = t1.body[b].ghost
           /\ t2.body[b].fat = t1.body[b].fat \/ b \in t2.moved
  BY <1>2, <1>3, SynchronizeIs
<1> HIDE DEF t2
<1>5. /\ IsWorld(t) /\ Alike(t2, t) /\ t.moved = {}
      /\ \A p \in DOMAIN t.contacts :
           IF p \in DOMAIN t2.contacts THEN t.contacts[p] = t2.contacts[p]
           ELSE ~t.contacts[p].touching
      /\ Exact(t2) => Exact(t)
      /\ Covers(t2) => Covers(t)
  BY <1>4, FindNewContactsIs
<1> HIDE DEF t
<1>6. Exact(t2)
  BY <1>3, <1>4 DEF Sound, Exact, HasContact
<1>7. Covers(t2)
  BY <1>3, <1>4, CoversKept DEF Sound
<1>8. Standing(t)
  <2>1. Standing(t2)
    BY <1>3, <1>4 DEF Standing
  <2> QED
    BY <2>1, <1>5, AlikeStanding
<1>9. Together(t)
  BY <1>3, <1>4, <1>5, TogetherKept DEF Alike
<1> QED
  BY <1>1, <1>5, <1>6, <1>7, <1>8, <1>9 DEF Settled, Sound

(* An impact keeps a world settled: the body that is put back to a wall    *)
(* has stopped, and what it touches among moving bodies is not looked at.  *)
LEMMA SolveTOIIs ==
  ASSUME NEW s, Settled(s), WorldAssumption, NEW from, NEW p \in Impacts(s, from)
  PROVE  Settled(SolveTOI(s, p))
<1> DEFINE w == CHOOSE a \in p : ~Moving(a)
           b == CHOOSE a \in p : Moving(a)
           at == s.body[w].at
           r == [s.body[b] EXCEPT !.at = at, !.v = 0]
           body == [s.body EXCEPT ![b] = r]
           t1 == [s EXCEPT !.body = body]
           t2 == Update(t1, {p})
           t3 == SetAwake(t2, p)
           t4 == Synchronize(t3, {b}, s.body)
           t == FindNewContacts(t4)
<1>1. /\ p \in DOMAIN s.contacts /\ p \subseteq DOMAIN s.body
      /\ w \in p /\ ~Moving(w) /\ b \in p /\ Moving(b)
  <2>1. p \in DOMAIN s.contacts /\ (\E a \in p : ~Moving(a)) /\ (\E a \in p : Moving(a))
    BY DEF Impacts, Awake
  <2>2. p \subseteq DOMAIN s.body
    BY <2>1 DEF Settled, Sound, IsWorld
  <2> QED
    BY <2>1, <2>2
<1> HIDE DEF w, b
<1>2. SolveTOI(s, p) = t
  <2>1. [s EXCEPT !.body[b] = r] = t1
    OBVIOUS
  <2>2. SolveTOI(s, p)
          = FindNewContacts(Synchronize(SetAwake(Update([s EXCEPT !.body[b] = r], {p}), p),
                                        {b}, s.body))
    BY DEF SolveTOI, w, b
  <2> HIDE DEF t1, r
  <2> QED
    BY <2>1, <2>2
<1>3. /\ IsRecord(t1) /\ t1.body = body /\ t1.contacts = s.contacts /\ t1.moved = s.moved
      /\ t1.scene = s.scene /\ t1.welds = s.welds
      /\ t1.open = s.open /\ t1.newFixture = s.newFixture
  <2> HIDE DEF body
  <2> QED
    BY DEF IsRecord, IsWorld, Sound, Settled
<1> HIDE DEF t1
<1>4. ASSUME NEW a \in DOMAIN s.body
      PROVE  /\ body[a] \in BodyRecord
             /\ body[a].v \in {0, s.body[a].v} /\ body[a].fat = s.body[a].fat
             /\ body[a].awake = s.body[a].awake /\ body[a].ghost = s.body[a].ghost
  <2>1. s.body[a] \in BodyRecord
    BY DEF IsWorld, Sound, Settled
  <2>2. CASE a = b
    <3> DEFINE q == s.body[b]
    <3>1. at \in Places /\ 0 \in Int /\ q \in BodyRecord
      BY <1>1, <2>1, <2>2 DEF IsWorld, Sound, Settled, BodyRecord
    <3>2. body[a] = [q EXCEPT !.at = at, !.v = 0]
      BY <1>1, <2>2
    <3> HIDE DEF q, at, body
    <3>3. body[a] = [at |-> at, fat |-> q.fat, v |-> 0, awake |-> q.awake, rest |-> q.rest,
                     ghost |-> q.ghost]
      BY <3>1, <3>2 DEF BodyRecord
    <3>4. body[a] \in BodyRecord
      BY <3>1, <3>3 DEF BodyRecord
    <3> QED
      BY <2>2, <3>3, <3>4 DEF q
  <2>3. CASE a # b
    BY <2>1, <2>3
  <2> QED
    BY <2>2, <2>3
<1>5. DOMAIN body = DOMAIN s.body /\ body \in [DOMAIN s.body -> BodyRecord]
  <2>1. DOMAIN body = DOMAIN s.body /\ body = [a \in DOMAIN s.body |-> body[a]]
    BY DEF IsWorld, Sound, Settled
  <2> HIDE DEF body
  <2> QED
    BY <2>1, <1>4
<1> HIDE DEF body
<1>6. IsWorld(t1)
  BY <1>3, <1>5 DEF IsWorld, Sound, Settled
<1>7. /\ IsWorld(t2) /\ Alike(t1, t2) /\ t2.moved = t1.moved
      /\ DOMAIN t2.contacts = DOMAIN t1.contacts
      /\ \A q \in DOMAIN t1.contacts \ {p} : t2.contacts[q] = t1.contacts[q]
      /\ Exact(t1) => Exact(t2)
  BY <1>1, <1>3, <1>6, UpdateIs
<1> HIDE DEF t2
<1>8. /\ IsWorld(t3) /\ Alike(t2, t3)
      /\ t3.contacts = t2.contacts /\ t3.open = t2.open /\ t3.moved = t2.moved
  BY <1>7, SetAwakeIs
<1> HIDE DEF t3
<1>9. /\ IsWorld(t4)
      /\ DOMAIN t4.body = DOMAIN t3.body
      /\ t4.scene = t3.scene /\ t4.welds = t3.welds /\ t4.contacts = t3.contacts
      /\ t4.open = t3.open /\ t3.moved \subseteq t4.moved
      /\ \A a \in DOMAIN t3.body :
           /\ t4.body[a].at = t3.body[a].at /\ t4.body[a].v = t3.body[a].v
           /\ t4.body[a].awake = t3.body[a].awake /\ t4.body[a].ghost = t3.body[a].ghost
           /\ t4.body[a].fat = t3.body[a].fat \/ a \in t4.moved
  <2>1. {b} \in SUBSET DOMAIN t3.body
    BY <1>1, <1>3, <1>5, <1>7, <1>8 DEF Alike
  <2>2. \A a \in {b} : s.body[a].at \in Places
    BY <1>1 DEF IsWorld, Sound, Settled, BodyRecord
  <2> QED
    BY <1>8, <2>1, <2>2, SynchronizeIs
<1> HIDE DEF t4
<1>10. /\ IsWorld(t) /\ Alike(t4, t) /\ t.moved = {}
       /\ \A q \in DOMAIN t.contacts :
            IF q \in DOMAIN t4.contacts THEN t.contacts[q] = t4.contacts[q]
            ELSE ~t.contacts[q].touching
       /\ Exact(t4) => Exact(t)
       /\ Covers(t4) => Covers(t)
  BY <1>9, FindNewContactsIs
<1> HIDE DEF t
<1>11. Exact(t4)
  <2>1. Exact(t1)
    BY <1>3 DEF Sound, Settled, Exact, HasContact
  <2> QED
    BY <2>1, <1>7, <1>8, <1>9 DEF Exact, HasContact
<1>12. /\ DOMAIN t4.body = DOMAIN s.body /\ t4.welds = s.welds
       /\ DOMAIN t4.contacts = DOMAIN s.contacts
       /\ \A q \in DOMAIN s.contacts \ {p} : t4.contacts[q] = s.contacts[q]
       /\ s.moved \subseteq t4.moved
       /\ \A a \in DOMAIN s.body :
            /\ t4.body[a].v \in {0, s.body[a].v}
            /\ s.body[a].awake => t4.body[a].awake
            /\ t4.body[a].ghost = s.body[a].ghost
            /\ t4.body[a].fat = s.body[a].fat \/ a \in t4.moved
  <2>1. /\ DOMAIN t4.body = DOMAIN s.body /\ t4.welds = s.welds
        /\ DOMAIN t4.contacts = DOMAIN s.contacts
        /\ \A q \in DOMAIN s.contacts \ {p} : t4.contacts[q] = s.contacts[q]
        /\ s.moved \subseteq t4.moved
    BY <1>3, <1>5, <1>7, <1>8, <1>9 DEF Alike
  <2>2. ASSUME NEW a \in DOMAIN s.body
        PROVE  /\ t4.body[a].v \in {0, s.body[a].v} /\ (s.body[a].awake => t4.body[a].awake)
               /\ t4.body[a].ghost = s.body[a].ghost
               /\ t4.body[a].fat = s.body[a].fat \/ a \in t4.moved
    BY <1>3, <1>4, <1>5, <1>7, <1>8, <1>9 DEF Alike
  <2> QED
    BY <2>1, <2>2
<1>13. Covers(t4)
  BY <1>12, CoversKept DEF Sound, Settled
<1>14. Standing(t)
  <2>1. Standing(t4)
    <3>1. \A a \in DOMAIN s.body : s.body[a].awake \/ ~Moving(a) \/ s.body[a].v = 0
      BY DEF Sound, Settled, Standing
    <3> QED
      BY <1>12, <3>1 DEF Standing
  <2> QED
    BY <2>1, <1>10, AlikeStanding
<1>15. Together(t)
  <2>1. /\ DOMAIN t.body = DOMAIN s.body /\ t.welds \subseteq s.welds
        /\ \A a \in DOMAIN s.body : /\ t.body[a].v \in {0, s.body[a].v}
                                    /\ s.body[a].awake => t.body[a].awake
    BY <1>10, <1>12 DEF Alike
  <2>2. ASSUME NEW q \in DOMAIN t.contacts, t.contacts[q].touching, \A a \in q : Moving(a)
        PROVE  q \in DOMAIN s.contacts /\ s.contacts[q].touching
    <3>1. q # p
      BY <1>1, <2>2
    <3> QED
      BY <1>10, <1>12, <2>2, <3>1
  <2> QED
    BY <2>1, <2>2, TogetherKept DEF Settled
<1> QED
  BY <1>2, <1>10, <1>11, <1>13, <1>14, <1>15 DEF Settled, Sound

-----------------------------------------------------------------------------
(***************************************************************************)
(* The calls between two steps keep a world sound                          *)
(***************************************************************************)

(* A new body is in the move buffer, so that it need not have contacts.    *)
LEMMA SpawnIs ==
  ASSUME NEW s, Sound(s), WorldAssumption,
         NEW b \in s.scene \ DOMAIN s.body, NEW at \in Homes[b]
  PROVE  Sound(CreateFixture(CreateBody(s, b, at), b))
<1> DEFINE new == NewBody(at)
           body == [a \in DOMAIN s.body \cup {b} |-> IF a = b THEN new ELSE s.body[a]]
           moved == s.moved \cup {b}
           t1 == [s EXCEPT !.body = body]
           t2 == [t1 EXCEPT !.moved = moved]
           t == [t2 EXCEPT !.newFixture = TRUE]
<1>1. b \in Proxies /\ at \in Places /\ at \in Int
  BY DEF Sound, IsWorld, WorldAssumption
<1>2. new \in BodyRecord /\ new.awake
  <2>1. Fat(Shape(at)) \in [lo : Int, hi : Int]
    BY <1>1 DEF Fat, Shape, Extension
  <2> QED
    BY <1>1, <2>1 DEF NewBody, BodyRecord, WorldAssumption
<1> HIDE DEF new
<1>3. /\ IsRecord(t1) /\ t1.body = body /\ t1.contacts = s.contacts /\ t1.moved = s.moved
      /\ t1.scene = s.scene /\ t1.welds = s.welds
      /\ t1.open = s.open /\ t1.newFixture = s.newFixture
  <2> HIDE DEF body
  <2> QED
    BY DEF IsRecord, IsWorld, Sound
<1>4. CreateFixture(CreateBody(s, b, at), b) = t
  <2>1. CreateBody(s, b, at) = t1
    BY DEF CreateBody, new
  <2> HIDE DEF t1
  <2>2. BufferMove(t1, {b}) = t2
    BY <1>3 DEF BufferMove
  <2> HIDE DEF t2
  <2> QED
    BY <2>1, <2>2 DEF CreateFixture
<1> HIDE DEF t1
<1>5. /\ IsRecord(t2) /\ t2.body = body /\ t2.contacts = s.contacts /\ t2.moved = moved
      /\ t2.scene = s.scene /\ t2.welds = s.welds /\ t2.open = s.open
  <2> HIDE DEF body, moved
  <2> QED
    BY <1>3 DEF IsRecord
<1> HIDE DEF t2
<1>6. /\ IsRecord(t) /\ t.body = body /\ t.contacts = s.contacts /\ t.moved = moved
      /\ t.scene = s.scene /\ t.welds = s.welds /\ t.open = s.open /\ t.newFixture = TRUE
  <2>1. t = [t2 EXCEPT !.newFixture = TRUE]
    OBVIOUS
  <2> HIDE DEF body, moved, t
  <2> QED
    BY <1>5, <2>1 DEF IsRecord
<1> HIDE DEF t
<1>7. /\ DOMAIN body = DOMAIN s.body \cup {b}
      /\ body \in [DOMAIN body -> BodyRecord]
      /\ body[b] = new
      /\ \A a \in DOMAIN s.body : body[a] = s.body[a]
  BY <1>2 DEF Sound, IsWorld
<1> HIDE DEF body
<1>8. IsWorld(t)
  BY <1>1, <1>6, <1>7 DEF Sound, IsWorld
<1>9. Exact(t)
  BY <1>6 DEF Sound, Exact, HasContact
<1>10. Covers(t)
  BY <1>6, <1>7, CoversKept DEF Sound
<1>11. Standing(t)
  BY <1>2, <1>6, <1>7 DEF Sound, Standing
<1> QED
  BY <1>4, <1>8, <1>9, <1>10, <1>11 DEF Sound

(* With a body go its joints, its contacts and its place in the move       *)
(* buffer.                                                                 *)
LEMMA DestroyBodyIs ==
  ASSUME NEW s, Sound(s), WorldAssumption, NEW b \in DOMAIN s.body
  PROVE  Sound(DestroyBody(s, b))
<1> DEFINE P == {p \in s.welds : b \in p}
           t1 == DestroyJoints(s, P)
           Q == {p \in DOMAIN t1.contacts : b \in p}
           t2 == DestroyContacts(t1, Q)
           body == [a \in DOMAIN t2.body \ {b} |-> t2.body[a]]
           moved == t2.moved \ {b}
           t3 == [t2 EXCEPT !.moved = moved]
           t == [t3 EXCEPT !.body = body]
<1>1. /\ IsWorld(t1)
      /\ DOMAIN t1.body = DOMAIN s.body
      /\ t1.scene = s.scene /\ t1.welds = s.welds \ P
      /\ t1.moved = s.moved /\ t1.open = s.open /\ t1.newFixture = s.newFixture
      /\ DOMAIN t1.contacts = DOMAIN s.contacts
      /\ \A q \in DOMAIN s.contacts : t1.contacts[q].touching = s.contacts[q].touching
      /\ \A a \in DOMAIN s.body :
           /\ t1.body[a].at = s.body[a].at /\ t1.body[a].fat = s.body[a].fat
           /\ t1.body[a].v = s.body[a].v /\ t1.body[a].ghost = s.body[a].ghost
           /\ s.body[a].awake => t1.body[a].awake
  BY DestroyJointsIs DEF Sound
<1>2. DestroyBody(s, b) = [UnBufferMove(t2, b) EXCEPT !.body = [a \in DOMAIN @ \ {b} |-> @[a]]]
  BY DEF DestroyBody
<1> HIDE DEF t1
<1>3. /\ IsWorld(t2) /\ Alike(t1, t2) /\ t2.moved = t1.moved
      /\ DOMAIN t2.contacts = DOMAIN t1.contacts \ Q
      /\ \A p \in DOMAIN t2.contacts : t2.contacts[p] = t1.contacts[p]
      /\ Exact(t1) => Exact(t2)
  <2>1. Q \in SUBSET DOMAIN t1.contacts
    OBVIOUS
  <2> HIDE DEF Q
  <2> QED
    BY <1>1, <2>1, DestroyContactsIs
<1> HIDE DEF t2
<1>4. /\ IsRecord(t3) /\ t3.body = t2.body /\ t3.contacts = t2.contacts /\ t3.moved = moved
      /\ t3.scene = t2.scene /\ t3.welds = t2.welds
      /\ t3.open = t2.open /\ t3.newFixture = t2.newFixture
  <2> HIDE DEF moved
  <2> QED
    BY <1>3 DEF IsRecord, IsWorld
<1>5. DestroyBody(s, b) = t
  <2>1. UnBufferMove(t2, b) = t3
    BY DEF UnBufferMove
  <2> HIDE DEF t3
  <2> QED
    BY <1>2, <1>4, <2>1
<1> HIDE DEF t3
<1>6. /\ IsRecord(t) /\ t.body = body /\ t.contacts = t2.contacts /\ t.moved = moved
      /\ t.scene = t2.scene /\ t.welds = t2.welds
      /\ t.open = t2.open /\ t.newFixture = t2.newFixture
  <2> HIDE DEF moved, body
  <2> QED
    BY <1>4 DEF IsRecord
<1> HIDE DEF t
<1>7. /\ DOMAIN body = DOMAIN s.body \ {b}
      /\ body \in [DOMAIN body -> BodyRecord]
      /\ \A a \in DOMAIN s.body \ {b} : body[a] = t2.body[a]
  BY <1>1, <1>3 DEF IsWorld, Alike
<1> HIDE DEF body
<1>8. /\ t.scene = s.scene /\ t.welds = s.welds \ P /\ t.moved = s.moved \ {b}
      /\ DOMAIN t.contacts = DOMAIN s.contacts \ Q
      /\ \A p \in s.welds \ P : b \notin p
      /\ \A p \in DOMAIN s.contacts : p \in Q <=> b \in p
  BY <1>1, <1>3, <1>6 DEF Alike
<1> HIDE DEF P, Q
<1>9. IsWorld(t)
  <2>1. \A p \in DOMAIN t.contacts \cup t.welds : p \in Pairs /\ p \subseteq DOMAIN t.body
    BY <1>6, <1>7, <1>8 DEF Sound, IsWorld
  <2> QED
    BY <1>3, <1>6, <1>7, <1>8, <2>1 DEF Sound, IsWorld
<1>10. Exact(t)
  <2>1. Exact(t1)
    BY <1>1 DEF Sound, Exact, HasContact
  <2> QED
    BY <2>1, <1>3, <1>6 DEF Exact, HasContact
<1>11. \A a \in DOMAIN t.body :
         /\ a \in DOMAIN s.body
         /\ t.body[a].fat = s.body[a].fat /\ t.body[a].ghost = s.body[a].ghost
         /\ t.body[a].v = s.body[a].v
         /\ s.body[a].awake => t.body[a].awake
  BY <1>1, <1>3, <1>6, <1>7 DEF Alike
<1>12. Covers(t)
  <2>1. /\ DOMAIN t.body = DOMAIN s.body \ {b}
        /\ \A p \in s.welds : p \in t.welds \/ ~(p \subseteq DOMAIN t.body)
        /\ \A p \in DOMAIN s.contacts : p \subseteq DOMAIN t.body => p \in DOMAIN t.contacts
    <3>1. \A p \in P : b \in p
      BY DEF P
    <3> QED
      BY <3>1, <1>6, <1>7, <1>8
  <2> QED
    BY <2>1, <1>8, <1>11, CoversKept DEF Sound
<1>13. Standing(t)
  BY <1>11 DEF Sound, Standing
<1> QED
  BY <1>5, <1>9, <1>10, <1>12, <1>13 DEF Sound

(* Filtering anew, bodies of which all pairs are covered but their own.    *)
(* Covered, but for pairs with a body of bs                                *)
CoversBut(s, bs) ==
  \A q \in Pairs : q \subseteq DOMAIN s.body /\ Overlapping(s, q) /\ ShouldCollide(s, q)
                   /\ q \cap bs = {} => HasContact(s, q) \/ q \cap s.moved # {}

LEMMA SetFilterDataIs ==
  ASSUME NEW s, IsWorld(s), Exact(s), Standing(s),
         NEW bs, bs \subseteq DOMAIN s.body, CoversBut(s, bs),
         NEW ghost, ghost \in BOOLEAN
  PROVE  Sound(SetFilterData(s, bs, ghost))
<1> DEFINE body == [b \in DOMAIN s.body |->
                      IF b \in bs THEN [s.body[b] EXCEPT !.ghost = ghost] ELSE s.body[b]]
           t1 == [s EXCEPT !.body = body]
           P == {p \in Pairs : p \cap bs # {}}
           t2 == FlagForFiltering(t1, P)
           t == [t2 EXCEPT !.moved = t2.moved \cup bs]
<1>1. SetFilterData(s, bs, ghost) = t
  <2>1. SetFilterData(s, bs, ghost) = Refilter(t1, bs)
    BY DEF SetFilterData
  <2> HIDE DEF t1
  <2> QED
    BY <2>1 DEF Refilter, BufferMove
<1>2. /\ IsRecord(t1) /\ t1.body = body /\ t1.contacts = s.contacts /\ t1.moved = s.moved
      /\ t1.scene = s.scene /\ t1.welds = s.welds
      /\ t1.open = s.open /\ t1.newFixture = s.newFixture
  <2> HIDE DEF body
  <2> QED
    BY DEF IsRecord, IsWorld
<1> HIDE DEF t1
<1>3. ASSUME NEW b \in DOMAIN s.body
      PROVE  /\ body[b] \in BodyRecord
             /\ body[b].at = s.body[b].at /\ body[b].v = s.body[b].v
             /\ body[b].awake = s.body[b].awake /\ body[b].fat = s.body[b].fat
             /\ body[b].ghost = s.body[b].ghost \/ b \in bs
  BY s.body[b] \in BodyRecord DEF IsWorld, BodyRecord
<1>4. DOMAIN body = DOMAIN s.body /\ body \in [DOMAIN s.body -> BodyRecord]
  BY <1>3
<1> HIDE DEF body
<1>5. IsWorld(t1)
  BY <1>2, <1>4 DEF IsWorld
<1>6. /\ IsWorld(t2)
      /\ t2.body = body /\ t2.scene = s.scene /\ t2.welds = s.welds
      /\ t2.moved = s.moved /\ t2.open = s.open /\ t2.newFixture = s.newFixture
      /\ DOMAIN t2.contacts = DOMAIN s.contacts
      /\ \A p \in DOMAIN s.contacts : t2.contacts[p].touching = s.contacts[p].touching
  BY <1>2, <1>5, FlagForFilteringIs
<1>7. /\ IsRecord(t) /\ t.body = body /\ t.contacts = t2.contacts /\ t.moved = s.moved \cup bs
      /\ t.scene = s.scene /\ t.welds = s.welds
      /\ t.open = s.open /\ t.newFixture = s.newFixture
  <2>1. t = [t2 EXCEPT !.moved = t2.moved \cup bs]
    OBVIOUS
  <2> HIDE DEF t2, t
  <2> QED
    BY <2>1, <1>6 DEF IsRecord, IsWorld
<1> HIDE DEF t2, t
<1>8. IsWorld(t)
  BY <1>4, <1>6, <1>7 DEF IsWorld
<1>9. Exact(t)
  BY <1>6, <1>7 DEF Exact, HasContact
<1>10. Covers(t)
  <2> SUFFICES ASSUME NEW p \in Pairs, p \subseteq DOMAIN t.body, Overlapping(t, p),
                      ShouldCollide(t, p), p \cap t.moved = {}
               PROVE  HasContact(t, p)
    BY DEF Covers
  <2>1. p \subseteq DOMAIN s.body /\ p \cap bs = {} /\ p \cap s.moved = {}
    BY <1>4, <1>7
  <2>2. \A b \in p : t.body[b].fat = s.body[b].fat /\ t.body[b].ghost = s.body[b].ghost
    BY <1>3, <1>7, <2>1
  <2>3. Overlapping(s, p)
    BY <2>2 DEF Overlapping
  <2>4. ShouldCollide(s, p)
    BY <1>7, <2>2 DEF ShouldCollide
  <2> QED
    BY <1>6, <1>7, <2>1, <2>3, <2>4 DEF HasContact, CoversBut
<1>11. Standing(t)
  BY <1>3, <1>4, <1>7 DEF Standing
<1> QED
  BY <1>1, <1>8, <1>9, <1>10, <1>11 DEF Sound

(* A weld makes ghosts of its bodies and filters their contacts anew.      *)
LEMMA WeldIs ==
  ASSUME NEW s, Sound(s), NEW p \in Pairs, p \subseteq DOMAIN s.body
  PROVE  Sound(SetFilterData(CreateJoint(s, p), p, TRUE))
<1> DEFINE t == CreateJoint(s, p)
<1>1. /\ IsWorld(t)
      /\ t.body = s.body /\ t.scene = s.scene /\ t.welds = s.welds \cup {p}
      /\ t.moved = s.moved /\ t.open = s.open /\ t.newFixture = s.newFixture
      /\ DOMAIN t.contacts = DOMAIN s.contacts
      /\ \A q \in DOMAIN s.contacts : t.contacts[q].touching = s.contacts[q].touching
  BY CreateJointIs DEF Sound
<1> HIDE DEF t
<1>2. Exact(t) /\ Standing(t)
  BY <1>1 DEF Sound, Exact, HasContact, Standing
<1>3. Covers(t)
  BY <1>1, CoversKept DEF Sound
<1>4. p \subseteq DOMAIN t.body
  BY <1>1
<1>5. CoversBut(t, p)
  BY <1>3 DEF Covers, CoversBut
<1>6. IsWorld(t)
  BY <1>1
<1>7. Sound(SetFilterData(t, p, TRUE))
  BY <1>2, <1>4, <1>5, <1>6, SetFilterDataIs, Zenon
<1> QED
  BY <1>7 DEF t

(* Bodies that are released collide again: both are in the move buffer.    *)
LEMMA UnweldIs ==
  ASSUME NEW s, Sound(s), WorldAssumption, NEW p \in s.welds
  PROVE  Sound(SetFilterData(DestroyJoints(s, {p}), p, FALSE))
<1> DEFINE t == DestroyJoints(s, {p})
<1>1. p \in Pairs /\ p \subseteq DOMAIN s.body
  BY DEF Sound, IsWorld
<1>2. /\ IsWorld(t)
      /\ DOMAIN t.body = DOMAIN s.body
      /\ t.scene = s.scene /\ t.welds = s.welds \ {p}
      /\ t.moved = s.moved /\ t.open = s.open /\ t.newFixture = s.newFixture
      /\ DOMAIN t.contacts = DOMAIN s.contacts
      /\ \A q \in DOMAIN s.contacts : t.contacts[q].touching = s.contacts[q].touching
      /\ \A a \in DOMAIN s.body :
           /\ t.body[a].at = s.body[a].at /\ t.body[a].fat = s.body[a].fat
           /\ t.body[a].v = s.body[a].v /\ t.body[a].ghost = s.body[a].ghost
           /\ s.body[a].awake => t.body[a].awake
  BY DestroyJointsIs DEF Sound
<1> HIDE DEF t
<1>3. Exact(t) /\ Standing(t)
  BY <1>2 DEF Sound, Exact, HasContact, Standing
<1>4. CoversBut(t, p)
  <2> SUFFICES ASSUME NEW q \in Pairs, q \subseteq DOMAIN t.body /\ Overlapping(t, q)
                                         /\ ShouldCollide(t, q) /\ q \cap p = {}
               PROVE  HasContact(t, q) \/ q \cap t.moved # {}
    BY Zenon DEF CoversBut
  <2>1. q # p
    <3>1. q # {}
      BY FS_EmptySet DEF Pairs
    <3> QED
      BY <3>1
  <2>2. Overlapping(s, q) /\ ShouldCollide(s, q) /\ q \subseteq DOMAIN s.body
    BY <1>2, <2>1 DEF Overlapping, ShouldCollide
  <2> QED
    BY <1>2, <2>2 DEF Sound, Covers, HasContact
<1>5. p \subseteq DOMAIN t.body
  BY <1>1, <1>2
<1>6. IsWorld(t)
  BY <1>2
<1>7. Sound(SetFilterData(t, p, FALSE))
  BY <1>3, <1>4, <1>5, <1>6, SetFilterDataIs, Zenon
<1> QED
  BY <1>7 DEF t

(* One body changed in place.                                              *)
LEMMA BodyChangedIs ==
  ASSUME NEW s, Sound(s), NEW b \in DOMAIN s.body, NEW r \in BodyRecord,
         r.fat = s.body[b].fat, r.ghost = s.body[b].ghost,
         Moving(b) /\ ~r.awake => r.v = 0
  PROVE  LET t == [s EXCEPT !.body[b] = r]
         IN  /\ Sound(t)
             /\ DOMAIN t.body = DOMAIN s.body /\ t.body[b] = r
<1> DEFINE body == [s.body EXCEPT ![b] = r]
           t == [s EXCEPT !.body = body]
<1>1. [s EXCEPT !.body[b] = r] = t
  OBVIOUS
<1>2. /\ IsRecord(t) /\ t.body = body /\ t.contacts = s.contacts /\ t.moved = s.moved
      /\ t.scene = s.scene /\ t.welds = s.welds
      /\ t.open = s.open /\ t.newFixture = s.newFixture
  <2> HIDE DEF body
  <2> QED
    BY DEF IsRecord, IsWorld, Sound
<1> HIDE DEF t
<1>3. /\ DOMAIN body = DOMAIN s.body /\ body \in [DOMAIN s.body -> BodyRecord]
      /\ body[b] = r /\ \A a \in DOMAIN s.body : a # b => body[a] = s.body[a]
  BY DEF Sound, IsWorld
<1> HIDE DEF body
<1>4. IsWorld(t)
  BY <1>2, <1>3 DEF Sound, IsWorld
<1>5. Exact(t)
  BY <1>2 DEF Sound, Exact, HasContact
<1>6. Covers(t)
  BY <1>2, <1>3, CoversKept DEF Sound
<1>7. Standing(t)
  BY <1>2, <1>3 DEF Sound, Standing
<1> QED
  BY <1>1, <1>2, <1>3, <1>4, <1>5, <1>6, <1>7 DEF Sound

(* A body that is put elsewhere takes its fat shape with it.               *)
LEMMA SetTransformIs ==
  ASSUME NEW s, Sound(s), WorldAssumption, NEW b \in DOMAIN s.body, NEW at \in Places
  PROVE  LET t == [s EXCEPT !.body[b].at = at] IN Sound(Synchronize(t, {b}, t.body))
<1> DEFINE r == [s.body[b] EXCEPT !.at = at]
           t1 == [s EXCEPT !.body[b] = r]
           t == Synchronize(t1, {b}, t1.body)
<1>1. [s EXCEPT !.body[b].at = at] = t1
  OBVIOUS
<1>2. /\ r \in BodyRecord /\ r.fat = s.body[b].fat /\ r.ghost = s.body[b].ghost
      /\ r.awake = s.body[b].awake /\ r.v = s.body[b].v
  <2>1. s.body[b] \in BodyRecord
    BY DEF Sound, IsWorld
  <2> QED
    BY <2>1 DEF BodyRecord
<1>3. Moving(b) /\ ~r.awake => r.v = 0
  BY <1>2 DEF Sound, Standing
<1> HIDE DEF r
<1>4. Sound(t1) /\ DOMAIN t1.body = DOMAIN s.body
  BY <1>2, <1>3, BodyChangedIs
<1> HIDE DEF t1
<1>5. {b} \in SUBSET DOMAIN t1.body /\ \A a \in {b} : t1.body[a].at \in Places
  BY <1>4 DEF Sound, IsWorld, BodyRecord
<1>6. /\ IsWorld(t)
      /\ DOMAIN t.body = DOMAIN t1.body
      /\ t.scene = t1.scene /\ t.welds = t1.welds /\ t.contacts = t1.contacts
      /\ t.open = t1.open /\ t1.moved \subseteq t.moved
      /\ \A a \in DOMAIN t1.body :
           /\ t.body[a].at = t1.body[a].at /\ t.body[a].v = t1.body[a].v
           /\ t.body[a].awake = t1.body[a].awake /\ t.body[a].ghost = t1.body[a].ghost
           /\ t.body[a].fat = t1.body[a].fat \/ a \in t.moved
  BY <1>4, <1>5, SynchronizeIs DEF Sound
<1> HIDE DEF t
<1>7. Exact(t)
  BY <1>4, <1>6 DEF Sound, Exact, HasContact
<1>8. Covers(t)
  BY <1>4, <1>6, CoversKept DEF Sound
<1>9. Standing(t)
  BY <1>4, <1>6 DEF Sound, Standing
<1>10. Sound(t)
  BY <1>6, <1>7, <1>8, <1>9 DEF Sound
<1> QED
  BY <1>1, <1>10 DEF t

(* A body is awake when it is given a velocity.                            *)
LEMMA SetLinearVelocityIs ==
  ASSUME NEW s, Sound(s), WorldAssumption, NEW b \in DOMAIN s.body, NEW v \in Speeds
  PROVE  Sound([(IF v # 0 THEN SetAwake(s, {b}) ELSE s) EXCEPT !.body[b].v = v])
<1> DEFINE t1 == IF v # 0 THEN SetAwake(s, {b}) ELSE s
           r == [t1.body[b] EXCEPT !.v = v]
           t == [t1 EXCEPT !.body[b] = r]
<1>1. /\ Sound(t1) /\ DOMAIN t1.body = DOMAIN s.body
      /\ v # 0 => t1.body[b].awake
  <2>1. CASE v = 0
    BY <2>1
  <2>2. CASE v # 0
    <3> DEFINE u == SetAwake(s, {b})
    <3>1. /\ IsWorld(u) /\ Alike(s, u)
          /\ u.contacts = s.contacts /\ u.open = s.open /\ u.moved = s.moved
          /\ \A a \in {b} \cap DOMAIN s.body : u.body[a].awake
      BY SetAwakeIs DEF Sound
    <3> HIDE DEF u
    <3>2. Exact(u) /\ Standing(u)
      BY <3>1, AlikeStanding DEF Sound, Exact, HasContact
    <3>3. Covers(u)
      BY <3>1, CoversKept DEF Sound, Alike
    <3>4. Sound(u) /\ DOMAIN u.body = DOMAIN s.body /\ u.body[b].awake
      BY <3>1, <3>2, <3>3 DEF Sound, Alike
    <3> QED
      BY <2>2, <3>4 DEF u
  <2> QED
    BY <2>1, <2>2
<1> HIDE DEF t1
<1>2. /\ r \in BodyRecord /\ r.fat = t1.body[b].fat /\ r.ghost = t1.body[b].ghost
      /\ r.awake = t1.body[b].awake /\ r.v = v
  <2>1. t1.body[b] \in BodyRecord /\ v \in Int
    BY <1>1 DEF Sound, IsWorld, WorldAssumption
  <2> QED
    BY <2>1 DEF BodyRecord
<1>3. [t1 EXCEPT !.body[b].v = v] = t
  OBVIOUS
<1> HIDE DEF r
<1>4. Sound(t)
  BY <1>1, <1>2, BodyChangedIs
<1> QED
  BY <1>3, <1>4 DEF t1

-----------------------------------------------------------------------------
(***************************************************************************)
(* The inductive invariant                                                 *)
(***************************************************************************)

WorldTypeOK == IsWorld(phys) /\ calls \in 0 .. MaxCalls

IInv ==
  /\ Sound(phys) /\ calls \in 0 .. MaxCalls
  /\ calls = 0 => Settled(phys)

(* A new world is empty, sound and settled.                                *)
LEMMA InitialInvariant ==
  ASSUME WorldAssumption, WorldInit
  PROVE  IInv
<1>1. PICK scene \in Scenes :
        phys = [scene |-> scene, body |-> [b \in {} |-> 0], contacts |-> [p \in {} |-> 0],
                list |-> <<>>, welds |-> {}, moved |-> {}, newFixture |-> FALSE,
                open |-> [p \in Pairs |-> 0]]
  BY DEF WorldInit
<1>2. /\ IsRecord(phys) /\ phys.scene = scene /\ phys.body = [b \in {} |-> 0]
      /\ phys.contacts = [p \in {} |-> 0] /\ phys.welds = {} /\ phys.moved = {}
      /\ phys.newFixture = FALSE /\ phys.open = [p \in Pairs |-> 0]
  BY <1>1 DEF IsRecord
<1>3. DOMAIN phys.body = {} /\ DOMAIN phys.contacts = {}
  BY <1>2
<1>4. IsWorld(phys)
  <2>1. phys.scene \subseteq Proxies
    BY <1>2 DEF WorldAssumption
  <2>2. phys.body \in [DOMAIN phys.body -> BodyRecord]
    BY <1>2, <1>3
  <2>3. phys.contacts \in [DOMAIN phys.contacts -> ContactRecord]
    BY <1>2, <1>3
  <2>4. phys.open \in [Pairs -> Int]
    BY <1>2
  <2> QED
    BY <1>2, <1>3, <2>1, <2>2, <2>3, <2>4 DEF IsWorld
<1>5. Exact(phys)
  BY <1>2, <1>3 DEF Exact, HasContact
<1>6. Covers(phys)
  <2>1. \A p \in Pairs : p # {}
    BY FS_EmptySet DEF Pairs
  <2> QED
    BY <1>3, <2>1 DEF Covers
<1>7. Standing(phys) /\ Together(phys)
  BY <1>3 DEF Standing, Together
<1>8. calls = 0 /\ calls \in 0 .. MaxCalls
  BY DEF WorldInit, WorldAssumption
<1> QED
  BY <1>2, <1>4, <1>5, <1>6, <1>7, <1>8 DEF IInv, Sound, Settled

(* A Step settles a sound world, whether or not there are new fixtures and *)
(* whether or not there is an impact.                                      *)
LEMMA StepSettles ==
  ASSUME WorldAssumption, IInv, Step
  PROVE  Settled(phys') /\ calls' = 0
<1> DEFINE start == IF phys.newFixture THEN [FindNewContacts(phys) EXCEPT !.newFixture = FALSE]
                    ELSE phys
           s == Collide(start)
<1>1. Sound(start)
  <2>1. CASE ~phys.newFixture
    BY <2>1 DEF IInv
  <2>2. CASE phys.newFixture
    <3> DEFINE u == FindNewContacts(phys)
               w == [u EXCEPT !.newFixture = FALSE]
    <3>1. /\ IsWorld(u) /\ Alike(phys, u) /\ Exact(u) /\ Covers(u)
      BY FindNewContactsIs DEF IInv, Sound
    <3>2. Standing(u)
      BY <3>1, AlikeStanding DEF IInv, Sound
    <3> HIDE DEF u
    <3>3. /\ IsRecord(w) /\ w.body = u.body /\ w.contacts = u.contacts /\ w.moved = u.moved
          /\ w.scene = u.scene /\ w.welds = u.welds /\ w.open = u.open
          /\ w.newFixture = FALSE
      <4>1. w = [u EXCEPT !.newFixture = FALSE]
        OBVIOUS
      <4> HIDE DEF w
      <4> QED
        BY <3>1, <4>1 DEF IsRecord, IsWorld
    <3> HIDE DEF w
    <3>4. IsWorld(w)
      BY <3>1, <3>3 DEF IsWorld
    <3>5. Exact(w) /\ Standing(w)
      BY <3>1, <3>2, <3>3 DEF Exact, HasContact, Standing
    <3>6. Covers(w)
      BY <3>1, <3>3, CoversKept
    <3>7. Sound(w)
      BY <3>4, <3>5, <3>6 DEF Sound
    <3> QED
      BY <2>2, <3>7 DEF w, u
  <2> QED
    BY <2>1, <2>2
<1>2. /\ \E v \in Solved(s, Islands(s)), settled \in BOOLEAN :
           LET t == Solve(s, v, settled)
           IN  phys' \in {t} \cup {SolveTOI(t, p) : p \in Impacts(t, s.body)}
      /\ calls' = 0
  BY DEF Step
<1> HIDE DEF start
<1>3. Sound(s)
  BY <1>1, CollideIs, AlikeStanding DEF Sound
<1> HIDE DEF s
<1>4. PICK v \in Solved(s, Islands(s)), settled \in BOOLEAN :
        LET t == Solve(s, v, settled)
        IN  phys' \in {t} \cup {SolveTOI(t, p) : p \in Impacts(t, s.body)}
  BY <1>2
<1> DEFINE t == Solve(s, v, settled)
<1>5. Settled(t)
  BY <1>3, SolveIs
<1> HIDE DEF t
<1>6. phys' = t \/ \E p \in Impacts(t, s.body) : phys' = SolveTOI(t, p)
  BY <1>4 DEF t
<1>7. CASE phys' = t
  BY <1>2, <1>5, <1>7
<1>8. CASE \E p \in Impacts(t, s.body) : phys' = SolveTOI(t, p)
  BY <1>2, <1>5, <1>8, SolveTOIIs
<1> QED
  BY <1>6, <1>7, <1>8

(* Every call keeps a world sound, and every Step settles it.              *)
LEMMA StepKeepsInvariant ==
  ASSUME WorldAssumption, IInv, [WorldNext]_worldVars
  PROVE  IInv'
<1>1. ASSUME NEW s, Between(s), Sound(s) PROVE IInv'
  <2>1. calls' = calls + 1 /\ calls < MaxCalls /\ phys' = s
    BY <1>1 DEF Between
  <2>2. calls' \in 0 .. MaxCalls /\ calls' # 0
    BY <2>1 DEF IInv, WorldAssumption
  <2>3. Sound(phys')
    BY <1>1, <2>1
  <2> QED
    BY <2>2, <2>3 DEF IInv, Sound
<1>2. CASE Step
  BY <1>2, StepSettles DEF IInv, Settled, WorldAssumption
<1>3. ASSUME NEW b \in Proxies, Delete(b) PROVE IInv'
  <2>1. b \in DOMAIN phys.body /\ Between(DestroyBody(phys, b))
    BY <1>3 DEF Delete
  <2> QED
    BY <1>1, <2>1, DestroyBodyIs DEF IInv
<1>4. ASSUME NEW b \in Proxies, NEW at \in Homes[b], Spawn(b, at) PROVE IInv'
  <2>1. /\ b \in phys.scene \ DOMAIN phys.body
        /\ Between(CreateFixture(CreateBody(phys, b, at), b))
    BY <1>4 DEF Spawn
  <2> QED
    BY <1>1, <2>1, SpawnIs DEF IInv
<1>5. ASSUME NEW b \in Proxies, NEW at \in Places, SetTransform(b, at) PROVE IInv'
  <2> DEFINE t == [phys EXCEPT !.body[b].at = at]
  <2>1. b \in DOMAIN phys.body /\ Between(Synchronize(t, {b}, t.body))
    BY <1>5 DEF SetTransform
  <2> QED
    BY <1>1, <2>1, SetTransformIs DEF IInv
<1>6. ASSUME NEW b \in Proxies, NEW v \in Speeds, SetLinearVelocity(b, v) PROVE IInv'
  <2> DEFINE t == [(IF v # 0 THEN SetAwake(phys, {b}) ELSE phys) EXCEPT !.body[b].v = v]
  <2>1. b \in DOMAIN phys.body /\ Between(t)
    BY <1>6 DEF SetLinearVelocity
  <2>2. Sound(t)
    BY <2>1, SetLinearVelocityIs DEF IInv
  <2> HIDE DEF t
  <2> QED
    BY <1>1, <2>1, <2>2
<1>7. ASSUME NEW p \in Weldable, Weld(p) PROVE IInv'
  <2>1. /\ p \subseteq DOMAIN phys.body /\ p \in Pairs
        /\ Between(SetFilterData(CreateJoint(phys, p), p, TRUE))
    BY <1>7 DEF Weld, WorldAssumption
  <2> DEFINE t == SetFilterData(CreateJoint(phys, p), p, TRUE)
  <2>2. Sound(t) /\ Between(t)
    BY <2>1, WeldIs DEF IInv
  <2> HIDE DEF t
  <2> QED
    BY <1>1, <2>2
<1>8. ASSUME NEW p \in Weldable, Unweld(p) PROVE IInv'
  <2>1. p \in phys.welds /\ Between(SetFilterData(DestroyJoints(phys, {p}), p, FALSE))
    BY <1>8 DEF Unweld
  <2> DEFINE t == SetFilterData(DestroyJoints(phys, {p}), p, FALSE)
  <2>2. Sound(t) /\ Between(t)
    BY <2>1, UnweldIs DEF IInv
  <2> HIDE DEF t
  <2> QED
    BY <1>1, <2>2
<1>9. CASE UNCHANGED worldVars
  BY <1>9 DEF worldVars, IInv, Sound, Settled
<1> QED
  BY <1>2, <1>3, <1>4, <1>5, <1>6, <1>7, <1>8, <1>9 DEF WorldNext

(* The world is always sound, and settled after a Step.                    *)
LEMMA InvariantHolds == WorldSpec => []IInv
<1>1. WorldInit => IInv
  BY InitialInvariant, WorldAssumption
<1>2. IInv /\ [WorldNext]_worldVars => IInv'
  BY StepKeepsInvariant, WorldAssumption
<1> QED
  BY <1>1, <1>2, PTL DEF WorldSpec

(* What the world refers to is there: contacts, joints and the move buffer *)
(* are of bodies that live, with values of their types                     *)
(* (b2World::CreateBody, DestroyBody, CreateJoint, DestroyJoint).          *)
THEOREM WorldTypeCorrect == WorldSpec => []WorldTypeOK
<1>1. IInv => WorldTypeOK
  BY DEF IInv, Sound, WorldTypeOK
<1> QED
  BY <1>1, InvariantHolds, PTL

(* Every BeginContact is followed by one EndContact before the next, also  *)
(* when a body is deleted or refiltered while it touches, and after a Step *)
(* every pair that is to collide and whose fat shapes overlap has its      *)
(* contact (b2ContactManager::Destroy, AddPair, Collide,                   *)
(* b2Contact::Update, b2BroadPhase::UpdatePairs, b2Fixture::Refilter,      *)
(* Synchronize).                                                           *)
THEOREM ContactsStayExact == WorldSpec => []ContactsAreExact
<1>1. IInv => ContactsAreExact
  <2> SUFFICES ASSUME IInv PROVE ContactsAreExact
    OBVIOUS
  <2>1. Sound(phys) /\ (calls = 0 => phys.moved = {})
    BY DEF IInv, Settled
  <2>2. \A p \in Pairs :
          phys.open[p] = IF HasContact(phys, p) /\ phys.contacts[p].touching THEN 1 ELSE 0
    BY <2>1 DEF Sound, Exact
  <2>3. /\ \A p \in DOMAIN phys.contacts : p \subseteq DOMAIN phys.body
        /\ UNION phys.welds \subseteq DOMAIN phys.body /\ phys.moved \subseteq DOMAIN phys.body
    BY <2>1 DEF Sound, IsWorld
  <2>4. calls = 0 => \A p \in Pairs : p \subseteq DOMAIN phys.body /\ Overlapping(phys, p)
                                      /\ ShouldCollide(phys, p) => HasContact(phys, p)
    BY <2>1 DEF Sound, Covers
  <2> QED
    BY <2>2, <2>3, <2>4 DEF ContactsAreExact
<1> QED
  BY <1>1, InvariantHolds, PTL

(* Who sleeps stands still, and after a Step nobody sleeps who touches or  *)
(* is held by a body in motion, whatever the solver made of velocities     *)
(* (b2Body::SetAwake, b2World::Solve, SolveTOI, b2Island::Solve).          *)
THEOREM SleepersStayAtRest == WorldSpec => []SleepersRest
<1>1. IInv => SleepersRest
  BY DEF IInv, Sound, Settled, Standing, Together, SleepersRest
<1> QED
  BY <1>1, InvariantHolds, PTL
=============================================================================
