---------------------------- MODULE PhysicsWorld ----------------------------
(***************************************************************************)
(* The part of Box2D that the plugins see: bodies that wake and sleep,     *)
(* contacts that begin and end, joints that couple bodies, and one Step of *)
(* the world (Box2D/Dynamics/b2World.cpp, b2Body.cpp, b2Fixture.cpp,       *)
(* b2ContactManager.cpp, b2Contact.cpp, b2Island.cpp, b2BroadPhase.cpp).   *)
(*                                                                         *)
(* A body has one fixture, a box two units wide on a line, and is named by *)
(* the number of its broad-phase proxy.  What the constraint solver makes  *)
(* of velocities is left open: any velocity some body of the island had,   *)
(* or standstill.  A pair has one contact; the list of the contacts is     *)
(* kept in the code's order, newest first.  Of the time-of-impact phase at *)
(* most one impact is taken.                                               *)
(***************************************************************************)
EXTENDS Integers, FiniteSets, SequencesExt

CONSTANTS
  Proxies,   \* numbers of the bodies there may be
  Scenes,    \* sets of bodies that share a world, one of which is taken
  Kind,      \* [Proxies -> {"static", "dynamic"}]
  Sensors,   \* bodies whose fixture is a sensor
  Places,    \* where a body may be, an interval of integers
  Homes,     \* [Proxies -> SUBSET Places], where it may be spawned
  Driven,    \* bodies with a drive plugin
  Dragged,   \* bodies whose model is moved by hand or by a tween
  Speeds,    \* velocities that are commanded
  Weldable,  \* pairs of bodies that may be welded
  Patience,  \* steps of standstill before an island may sleep
  MaxCalls   \* bound on the calls between two steps

Pairs == {p \in SUBSET Proxies : Cardinality(p) = 2}

ASSUME WorldAssumption ==
  /\ Scenes \subseteq SUBSET Proxies /\ Weldable \subseteq Pairs
  /\ Places \subseteq Int /\ Homes \in [Proxies -> SUBSET Places]
  /\ Speeds \subseteq Int /\ Patience \in Nat \ {0} /\ MaxCalls \in Nat

VARIABLES
  phys,      \* the world: see WorldInit
  calls      \* history: what was called since the last Step

worldVars == <<phys, calls>>

Extension == 1
Moving(b) == Kind[b] # "static"
Solid(p) == p \cap Sensors = {}

Shape(at) == [lo |-> 2 * at, hi |-> 2 * at + 1]
Combine(x, y) == [lo |-> IF x.lo < y.lo THEN x.lo ELSE y.lo,
                  hi |-> IF x.hi > y.hi THEN x.hi ELSE y.hi]
Overlap(x, y) == x.lo <= y.hi /\ y.lo <= x.hi
Overlapping(s, p) == \A a, b \in p : Overlap(s.body[a].fat, s.body[b].fat)

WorldInit ==
  /\ \E scene \in Scenes :
     phys = [scene |-> scene,
             body |-> [b \in {} |-> 0],      \* [at, fat, v, awake, rest, ghost] of each
             contacts |-> [p \in {} |-> 0],  \* [touching, refilter] of a pair's contact
             list |-> <<>>,       \* the pairs that have a contact, newest first
             welds |-> {},        \* joints that keep their bodies from colliding
             moved |-> {},        \* the move buffer
             newFixture |-> FALSE,
             open |-> [p \in Pairs |-> 0]]  \* BeginContact less EndContact
  /\ calls = 0

-----------------------------------------------------------------------------
(* Bodies and contacts                                                     *)

SetAwake(s, bs) == [s EXCEPT !.body = [b \in DOMAIN @ |->
  IF b \in bs THEN [@[b] EXCEPT !.awake = TRUE, !.rest = 0] ELSE @[b]]]

ShouldCollide(s, p) ==
  /\ \E b \in p : Kind[b] = "dynamic"
  /\ p \notin s.welds
  /\ ~\A b \in p : s.body[b].ghost

HasContact(s, p) == p \in DOMAIN s.contacts
Without(list, P) == SelectSeq(list, LAMBDA p : p \notin P)

DestroyContacts(s, P) ==
  LET ended == {p \in P : s.contacts[p].touching}
      t == [s EXCEPT !.contacts = [p \in DOMAIN @ \ P |-> @[p]], !.list = Without(@, P),
                     !.open = [p \in Pairs |-> IF p \in ended THEN @[p] - 1 ELSE @[p]]]
  IN  SetAwake(t, UNION {p \in ended : Solid(p)})

(* Narrow phase; the listener hears of the changes.                        *)
Meet(s, p) == \A a, b \in p : Overlap(Shape(s.body[a].at), Shape(s.body[b].at))
Update(s, P) ==
  LET changed == {p \in P : s.contacts[p].touching # Meet(s, p)}
      t == [s EXCEPT !.contacts = [p \in DOMAIN @ |->
                       IF p \in changed THEN [@[p] EXCEPT !.touching = Meet(s, p)] ELSE @[p]],
                     !.open = [p \in Pairs |-> IF p \notin changed THEN @[p]
                                               ELSE IF Meet(s, p) THEN @[p] + 1 ELSE @[p] - 1]]
  IN  SetAwake(t, UNION {p \in changed : Solid(p)})

(* Pairs are sorted by their lower, then their higher proxy, and each new  *)
(* contact becomes the first of the list.                                  *)
PairLess(p, q) == LET low(r) == CHOOSE a \in r : \A b \in r : a <= b
                      high(r) == CHOOSE a \in r : \A b \in r : a >= b
                  IN  low(p) < low(q) \/ (low(p) = low(q) /\ high(p) < high(q))
Listed(P, list) == SetToSortSeq(P, LAMBDA p, q : PairLess(q, p)) \o list

MutantAddsPair(s, p) == ShouldCollide(s, p)
AddsPair(s, p) == ~HasContact(s, p) /\ ShouldCollide(s, p)
FindNewContacts(s) ==
  LET new == {p \in Pairs : /\ p \subseteq DOMAIN s.body /\ p \cap s.moved # {}
                            /\ Overlapping(s, p) /\ AddsPair(s, p)}
      t == [s EXCEPT !.contacts = [p \in DOMAIN @ \cup new |->
                       IF p \in new THEN [touching |-> FALSE, refilter |-> FALSE] ELSE @[p]],
                     !.list = Listed(new, @), !.moved = {}]
  IN  SetAwake(t, UNION {p \in new : Solid(p)})

BufferMove(s, bs) == [s EXCEPT !.moved = @ \cup bs]
UnBufferMove(s, b) == [s EXCEPT !.moved = @ \ {b}]
Fat(x) == [lo |-> x.lo - Extension, hi |-> x.hi + Extension]

(* A fat shape that its body leaves is made anew, and reaches ahead.       *)
Leaves(fat, swept) == ~(fat.lo <= swept.lo /\ swept.hi <= fat.hi)
MoveProxy(swept, d) == [lo |-> Fat(swept).lo + (IF d < 0 THEN 2 * d ELSE 0),
                        hi |-> Fat(swept).hi + (IF d > 0 THEN 2 * d ELSE 0)]

(* The bodies bs have moved since they were at the places of from.         *)
Synchronize(s, bs, from) ==
  LET swept(b) == Combine(Shape(from[b].at), Shape(s.body[b].at))
      left == {b \in bs : Leaves(s.body[b].fat, swept(b))}
      ahead(b) == MoveProxy(swept(b), 2 * (s.body[b].at - from[b].at))
  IN  BufferMove([s EXCEPT !.body = [b \in DOMAIN @ |->
        IF b \in left THEN [@[b] EXCEPT !.fat = ahead(b)] ELSE @[b]]], left)

FlagForFiltering(s, P) == [s EXCEPT !.contacts = [p \in DOMAIN @ |->
  IF p \in P THEN [@[p] EXCEPT !.refilter = TRUE] ELSE @[p]]]
Refilter(s, bs) == BufferMove(FlagForFiltering(s, {p \in Pairs : p \cap bs # {}}), bs)
SetFilterData(s, bs, ghost) ==
  Refilter([s EXCEPT !.body = [b \in DOMAIN @ |->
              IF b \in bs THEN [@[b] EXCEPT !.ghost = ghost] ELSE @[b]]], bs)

CreateJoint(s, p) ==
  FlagForFiltering([s EXCEPT !.welds = @ \cup {p}], {p})
DestroyJoints(s, P) ==
  FlagForFiltering(SetAwake([s EXCEPT !.welds = @ \ P], UNION P), P)

NewBody(at) == [at |-> at, v |-> 0, awake |-> TRUE, rest |-> 0, ghost |-> FALSE,
                fat |-> Fat(Shape(at))]
CreateBody(s, b, at) ==
  [s EXCEPT !.body = [a \in DOMAIN @ \cup {b} |-> IF a = b THEN NewBody(at) ELSE @[a]]]
CreateFixture(s, b) == [BufferMove(s, {b}) EXCEPT !.newFixture = TRUE]

DestroyBody(s, b) ==
  LET t == DestroyJoints(s, {p \in s.welds : b \in p})
      u == DestroyContacts(t, {p \in DOMAIN t.contacts : b \in p})
  IN  [UnBufferMove(u, b) EXCEPT !.body = [a \in DOMAIN @ \ {b} |-> @[a]]]

-----------------------------------------------------------------------------
(* Step                                                                    *)

Awake(s, b) == Moving(b) /\ s.body[b].awake

(* A contact ends when its bodies are to collide no more, or are apart. It *)
(* wakes them when they begin to touch and when they stop.                 *)
Filtered(s, p) == s.contacts[p].refilter /\ ~ShouldCollide(s, p)
Ends(s, p) == Filtered(s, p) \/ ~Overlapping(s, p)
Wakes(s, p) == Solid(p) /\ s.contacts[p].touching # (~Ends(s, p) /\ Meet(s, p))

(* A walk along the list looks at the contacts to be filtered, and at those *)
(* with a body awake, from the start or by a contact before it.            *)
Walk(s) ==
  LET look(w, p) ==
        IF Filtered(s, p) \/ p \cap w.awake # {}
        THEN [seen |-> w.seen \cup {p},
              awake |-> w.awake \cup {b \in p : Moving(b) /\ Wakes(s, p)}]
        ELSE w
  IN  FoldLeft(look, [seen |-> {}, awake |-> {b \in DOMAIN s.body : Awake(s, b)}], s.list)
LookedAt(s) == DOMAIN s.contacts \cap Walk(s).seen

Unflag(s) == [s EXCEPT !.contacts = [p \in DOMAIN @ |-> [@[p] EXCEPT !.refilter = FALSE]]]
Collide(s) ==
  LET seen == LookedAt(s)
      ended == {p \in seen : Ends(s, p)}
  IN  Update(DestroyContacts(Unflag(s), ended), seen \ ended)

(* What couples two bodies in an island                                    *)
Linked(s, a, b) ==
  \/ {a, b} \in s.welds
  \/ a # b /\ Solid({a, b}) /\ HasContact(s, {a, b}) /\ s.contacts[{a, b}].touching

(* What a depth first search from a moving body finds: the smallest set of *)
(* moving bodies with it that no link leaves.  The search does not pass    *)
(* static bodies, which are left out.                                      *)
Movers(s) == {b \in DOMAIN s.body : Moving(b)}
Closed(s, B) == \A a \in B, b \in Movers(s) \ B : ~Linked(s, a, b)
Reach(s, b) ==
  LET closed == {B \in SUBSET Movers(s) : b \in B /\ Closed(s, B)}
  IN  {c \in Movers(s) : \A B \in closed : c \in B}
MutantIslands(s) == {{b} : b \in {a \in DOMAIN s.body : Awake(s, a)}}
Islands(s) == {Reach(s, b) : b \in {a \in DOMAIN s.body : Awake(s, a)}}

(* The solver gives every body of an island a velocity.                    *)
Solved(s, islands) ==
  {v \in [UNION islands -> {0} \cup {s.body[b].v : b \in UNION islands}] :
     \A i \in islands : \A b \in i :
       /\ v[b] \in {0} \cup {s.body[a].v : a \in i}
       /\ s.body[b].at + v[b] \in Places}

(* An island sleeps as one, when its last body has rested long enough.     *)
Rest(s, v, b) == IF v[b] # 0 THEN 0
                 ELSE IF s.body[b].rest < Patience THEN s.body[b].rest + 1 ELSE Patience
Integrate(s, islands, v, settled) ==
  LET sleeps(b) == \E i \in islands : b \in i /\ settled
                     /\ \A a \in i : Rest(s, v, a) = Patience
      solved(b) ==
        IF sleeps(b) THEN [s.body[b] EXCEPT !.v = 0, !.rest = 0, !.awake = FALSE, !.at = @ + v[b]]
        ELSE [s.body[b] EXCEPT !.v = v[b], !.rest = Rest(s, v, b), !.awake = TRUE,
                               !.at = @ + v[b]]
  IN  [s EXCEPT !.body = [b \in DOMAIN @ |-> IF b \in UNION islands THEN solved(b) ELSE @[b]]]

Solve(s, v, settled) ==
  LET islands == Islands(s)
      t == Integrate(s, islands, v, settled)
  IN  FindNewContacts(Synchronize(t, UNION islands, s.body))

(* A time of impact: an awake body that its motion from the places of from *)
(* brought over a static one is put back to where it touches.              *)
Impacts(s, from) ==
  {p \in DOMAIN s.contacts :
     /\ Solid(p) /\ \E b \in p : Awake(s, b)
     /\ \E w \in p : ~Moving(w)
     /\ \A w \in p, b \in p : ~Moving(w) /\ Moving(b) =>
          Overlap(Shape(s.body[w].at), Combine(Shape(from[b].at), Shape(s.body[b].at)))}
SolveTOI(s, p) ==
  LET w == CHOOSE a \in p : ~Moving(a)
      b == CHOOSE a \in p : Moving(a)
      stopped == [s EXCEPT !.body[b] = [@ EXCEPT !.at = s.body[w].at, !.v = 0]]
      t == SetAwake(Update(stopped, {p}), p)
  IN  FindNewContacts(Synchronize(t, {b}, s.body))

Step ==
  LET start == IF phys.newFixture THEN [FindNewContacts(phys) EXCEPT !.newFixture = FALSE]
               ELSE phys
      s == Collide(start)
  IN  \E v \in Solved(s, Islands(s)), settled \in BOOLEAN :
        LET t == Solve(s, v, settled)
        IN  /\ phys' \in {t} \cup {SolveTOI(t, p) : p \in Impacts(t, s.body)}
            /\ calls' = 0

-----------------------------------------------------------------------------
(* What the simulator does between steps                                   *)

Between(s) == calls < MaxCalls /\ phys' = s /\ calls' = calls + 1

(* A body with its fixture                                                 *)
Spawn(b, at) ==
  /\ b \in phys.scene \ DOMAIN phys.body
  /\ Between(CreateFixture(CreateBody(phys, b, at), b))

(* The body of a layer stays, and stays where it is.                       *)
Delete(b) == b \in DOMAIN phys.body /\ Moving(b) /\ Between(DestroyBody(phys, b))

(* LinkAttacher's Attach and Detach                                        *)
Weld(p) ==
  /\ p \subseteq DOMAIN phys.body /\ p \notin phys.welds
  /\ Between(SetFilterData(CreateJoint(phys, p), p, TRUE))
Unweld(p) ==
  /\ p \in phys.welds
  /\ Between(SetFilterData(DestroyJoints(phys, {p}), p, FALSE))

SetTransform(b, at) ==
  /\ b \in DOMAIN phys.body /\ Moving(b)
  /\ LET s == [phys EXCEPT !.body[b].at = at] IN Between(Synchronize(s, {b}, s.body))

SetLinearVelocity(b, v) ==
  /\ b \in DOMAIN phys.body /\ Moving(b)
  /\ Between([(IF v # 0 THEN SetAwake(phys, {b}) ELSE phys) EXCEPT !.body[b].v = v])

WorldNext ==
  \/ Step
  \/ \E b \in Proxies :
       \/ Delete(b)
       \/ \E at \in Homes[b] : Spawn(b, at)
       \/ b \in Dragged /\ \E at \in Places : SetTransform(b, at)
       \/ b \in Driven /\ \E v \in Speeds : SetLinearVelocity(b, v)
  \/ \E p \in Weldable : Weld(p) \/ Unweld(p)

WorldSpec == WorldInit /\ [][WorldNext]_worldVars

-----------------------------------------------------------------------------
(* Every BeginContact is followed by one EndContact before the next, also  *)
(* when a body is deleted or a filter set while it touches: ContactSensors *)
(* counts on it.  Nothing refers to a body that is gone.  And after a step *)
(* every pair that is to collide and may soon touch has its contact,       *)
(* whoever moved, was spawned, carried or released: no body goes through   *)
(* another unnoticed.                                                      *)
ContactsAreExact ==
  /\ \A p \in Pairs :
       phys.open[p] = IF HasContact(phys, p) /\ phys.contacts[p].touching THEN 1 ELSE 0
  /\ \A p \in DOMAIN phys.contacts : p \subseteq DOMAIN phys.body
  /\ UNION phys.welds \subseteq DOMAIN phys.body /\ phys.moved \subseteq DOMAIN phys.body
  /\ calls = 0 => \A p \in Pairs : p \subseteq DOMAIN phys.body /\ Overlapping(phys, p)
                                   /\ ShouldCollide(phys, p) => HasContact(phys, p)

(* Who sleeps stands still, and after a step nobody sleeps next to a body  *)
(* in motion that touches or holds it.                                     *)
SleepersRest ==
  /\ \A b \in DOMAIN phys.body : Moving(b) /\ ~phys.body[b].awake => phys.body[b].v = 0
  /\ calls = 0 => \A a, b \in DOMAIN phys.body :
       Moving(a) /\ Moving(b) /\ Linked(phys, a, b) /\ phys.body[a].v # 0
         => phys.body[b].awake

(* b2Body.h:160 of SetTransform: "contacts are updated on the next call to *)
(* b2World::Step", so no contact still touches after a step when its       *)
(* fixtures were apart before it and are apart after it.                   *)
ContactsFollowTransform ==
  [][calls' = 0 => \A p \in DOMAIN phys'.contacts :
       phys'.contacts[p].touching => Overlapping(phys, p) \/ Overlapping(phys', p)]_worldVars
=============================================================================
