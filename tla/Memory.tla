------------------------------- MODULE Memory -------------------------------
(***************************************************************************)
(* The memory of a b2World: the block allocator for what outlives a step,  *)
(* with a free list per size, the stack allocator for the islands of a     *)
(* step, and the objects that the layers and models of the server place in *)
(* them (Box2D/Common/b2BlockAllocator.cpp, b2StackAllocator.cpp,          *)
(* Dynamics/b2Fixture.cpp, b2World.cpp, b2Island.cpp).                     *)
(*                                                                         *)
(* An address is a pair: an allocation of the heap, 0 for the array of the *)
(* stack allocator, and an offset.  b2Alloc returns the least number that  *)
(* is free.  Between two fixtures there is at most one contact.  The nodes *)
(* of the broad phase have a pool of their own (DynamicTree).              *)
(***************************************************************************)
EXTENDS Integers, FiniteSets, SequencesExt

CONSTANTS
  BlockSizes,  \* s_blockSizes, ascending
  ChunkSize,   \* b2_chunkSize
  Increment,   \* b2_chunkArrayIncrement
  StackSize,   \* b2_stackSize
  MaxEntries,  \* b2_maxStackEntries
  SizeOf,      \* sizeof, by the name of a type
  LayerShapes, ModelShapes,  \* shapes [type, vertices]
  JointTypes,
  MaxBodies, MaxFixtures, MaxMade  \* bounds: bodies alive, fixtures of one, creations

VARIABLES
  mem,     \* [heap, table, space, chunks, free]: m_chunks is table
  bodies,  \* b2Bodies: [layer, at, fixtures]
  joints,  \* b2Joints: [type, at, ends]
  contacts,  \* b2Contacts: [at, ends], ends being b2Fixtures
  frames,  \* m_entries: [at, size, malloc]
  held,    \* the pointers a step got from the stack allocator, by name
  stage,   \* "up", within a step "solve" or "toi", then "constraints"; "down"
  made     \* objects created so far, only for the bound

memoryVars == <<mem, bodies, joints, contacts, frames, held, stage, made>>

-----------------------------------------------------------------------------
(* The heap                                                                *)

Alloc(m, n) ==
  LET at == CHOOSE a \in 1 .. Cardinality(DOMAIN m.heap) + 1 :
              /\ a \notin DOMAIN m.heap
              /\ \A b \in 1 .. a - 1 : b \in DOMAIN m.heap
  IN [m |-> [m EXCEPT !.heap = [a \in DOMAIN @ \cup {at} |-> IF a = at THEN n ELSE @[a]]],
      at |-> at]
Release(m, at) ==
  [m EXCEPT !.heap = [a \in DOMAIN @ \ {at} |-> @[a]]]

-----------------------------------------------------------------------------
(* b2BlockAllocator                                                        *)

MaxBlock == BlockSizes[Len(BlockSizes)]
Nowhere == <<0, 0>>

(* s_blockSizeLookup, filled from 1 upwards.                               *)
BlockSizeLookup ==
  LET class[n \in 1 .. MaxBlock] ==
        IF n = 1 THEN 1
        ELSE IF n <= BlockSizes[class[n - 1]] THEN class[n - 1] ELSE class[n - 1] + 1
  IN class

NewAllocator ==
  [heap |-> [a \in {1} |-> Increment], table |-> 1, space |-> Increment,
   chunks |-> << >>, free |-> [k \in DOMAIN BlockSizes |-> << >>]]

Blocks(at, k) ==
  [i \in 1 .. ChunkSize \div BlockSizes[k] |-> <<at, (i - 1) * BlockSizes[k]>>]

(* The array of chunks is copied to a longer one when it is full.          *)
WithSpace(m) ==
  IF Len(m.chunks) < m.space THEN m
  ELSE LET longer == Alloc(m, m.space + Increment)
       IN [Release(longer.m, m.table) EXCEPT !.table = longer.at,
                                             !.space = @ + Increment]

Allocate(m, size) ==
  IF size = 0 THEN [m |-> m, at |-> Nowhere]
  ELSE IF size > MaxBlock THEN LET a == Alloc(m, size) IN [m |-> a.m, at |-> <<a.at, 0>>]
  ELSE LET k == BlockSizeLookup[size]
       IN IF m.free[k] # << >>
          THEN [m |-> [m EXCEPT !.free[k] = Tail(@)], at |-> Head(m.free[k])]
          ELSE LET chunk == Alloc(WithSpace(m), ChunkSize)
                   blocks == Blocks(chunk.at, k)
               IN [m |-> [chunk.m EXCEPT !.chunks = Append(@, [at |-> chunk.at, class |-> k]),
                                         !.free[k] = Tail(blocks)],
                   at |-> Head(blocks)]

Free(m, at, size) ==
  IF size = 0 THEN m
  ELSE IF size > MaxBlock THEN Release(m, at[1])
  ELSE [m EXCEPT !.free[BlockSizeLookup[size]] = <<at>> \o @]

(* ~b2BlockAllocator                                                       *)
Dissolve(m) ==
  Release(FoldLeft(LAMBDA n, c : Release(n, c.at), m, m.chunks), m.table)

-----------------------------------------------------------------------------
(* Fixtures: the b2Fixture, its copy of the shape, the vertices of a chain *)
(* (straight from the heap), and a proxy per child.                        *)

GetChildCount(shape) == IF shape.type = "chain" THEN shape.vertices - 1 ELSE 1

ProxyBytes(shape) == GetChildCount(shape) * SizeOf.proxy
VertexBytes(shape) == shape.vertices * SizeOf.vertex

Create(m, shape) ==
  LET f == Allocate(m, SizeOf.fixture)
      s == Allocate(f.m, SizeOf[shape.type])
      v == IF shape.type = "chain" THEN Alloc(s.m, VertexBytes(shape)) ELSE [m |-> s.m, at |-> 0]
      p == Allocate(v.m, ProxyBytes(shape))
  IN [m |-> p.m,
      fixture |-> [kind |-> shape, at |-> f.at, shape |-> s.at, vertices |-> v.at,
                   proxies |-> p.at]]

MutantReturned(kind) == kind.vertices * SizeOf.proxy
Returned(kind) == GetChildCount(kind) * SizeOf.proxy

(* b2Fixture::Destroy: all but the b2Fixture itself.                       *)
Destroy(m, f) ==
  LET p == Free(m, f.proxies, Returned(f.kind))
      v == IF f.kind.type = "chain" THEN Release(p, f.vertices) ELSE p
  IN Free(v, f.shape, SizeOf[f.kind.type])

-----------------------------------------------------------------------------
(* b2World                                                                 *)

MemoryInit ==
  /\ mem = NewAllocator
  /\ bodies = << >> /\ joints = {} /\ contacts = {}
  /\ frames = << >> /\ held = << >> /\ stage = "up" /\ made = 0

(* The bound on a run.                                                    *)
Counted == made < MaxMade /\ made' = made + 1

CreateBody(layer) ==
  LET b == Allocate(mem, SizeOf.body)
  IN /\ stage = "up" /\ Counted /\ Len(bodies) < MaxBodies
     /\ mem' = b.m
     /\ bodies' = Append(bodies, [layer |-> layer, at |-> b.at, fixtures |-> << >>])
     /\ UNCHANGED <<joints, contacts, frames, held, stage>>

(* The layer's own chain goes when the fixture has its copy.               *)
CreateFixture(i, shape) ==
  LET own == Alloc(mem, VertexBytes(shape))
      f == IF shape.type = "chain" THEN Create(own.m, shape) ELSE Create(mem, shape)
  IN /\ stage = "up" /\ Counted /\ Len(bodies[i].fixtures) < MaxFixtures
     /\ mem' = IF shape.type = "chain" THEN Release(f.m, own.at) ELSE f.m
     /\ bodies' = [bodies EXCEPT ![i].fixtures = <<f.fixture>> \o @]
     /\ UNCHANGED <<joints, contacts, frames, held, stage>>

CreateJoint(type, i, j) ==
  LET a == Allocate(mem, SizeOf[type])
  IN /\ stage = "up" /\ Counted /\ i # j /\ joints = {}
     /\ mem' = a.m
     /\ joints' = {[type |-> type, at |-> a.at, ends |-> {bodies[i].at, bodies[j].at}]}
     /\ UNCHANGED <<bodies, contacts, frames, held, stage>>

DestroyJoint(j) ==
  /\ stage = "up"
  /\ mem' = Free(mem, j.at, SizeOf[j.type])
  /\ joints' = joints \ {j}
  /\ UNCHANGED <<bodies, contacts, frames, held, stage, made>>

(* The pairs of shapes that AddType registers.                             *)
Registered ==
  { {"circle"}, {"polygon", "circle"}, {"polygon"}, {"edge", "circle"},
    {"edge", "polygon"}, {"chain", "circle"}, {"chain", "polygon"} }

FixturesOf(b) == ToSet(b.fixtures)

CreateContact(i, j) ==
  /\ stage = "up" /\ Counted /\ i # j /\ ~bodies[j].layer
  /\ \E f \in FixturesOf(bodies[i]), g \in FixturesOf(bodies[j]) :
       LET c == Allocate(mem, SizeOf.contact)
       IN /\ {f.kind.type, g.kind.type} \in Registered
          /\ {f.at, g.at} \notin {d.ends : d \in contacts}
          /\ mem' = c.m
          /\ contacts' = contacts \cup {[at |-> c.at, ends |-> {f.at, g.at}]}
  /\ UNCHANGED <<bodies, joints, frames, held, stage>>

DestroyContact(c) ==
  /\ stage = "up"
  /\ mem' = Free(mem, c.at, SizeOf.contact)
  /\ contacts' = contacts \ {c}
  /\ UNCHANGED <<bodies, joints, frames, held, stage, made>>

JointsAt(b) == {j \in joints : b.at \in j.ends}
ContactsAt(b) == {c \in contacts : \E f \in FixturesOf(b) : f.at \in c.ends}

(* What b2World::DestroyBody frees: joints, contacts, fixtures, the body.  *)
WithoutBody(m, b) ==
  LET j == FoldLeft(LAMBDA n, x : Free(n, x.at, SizeOf[x.type]), m, SetToSeq(JointsAt(b)))
      c == FoldLeft(LAMBDA n, x : Free(n, x.at, SizeOf.contact), j, SetToSeq(ContactsAt(b)))
      f == FoldLeft(LAMBDA n, x : Free(Destroy(n, x), x.at, SizeOf.fixture), c, b.fixtures)
  IN Free(f, b.at, SizeOf.body)

DestroyBody(i) ==
  /\ stage = "up" /\ ~bodies[i].layer
  /\ mem' = WithoutBody(mem, bodies[i])
  /\ bodies' = RemoveAt(bodies, i)
  /\ joints' = joints \ JointsAt(bodies[i])
  /\ contacts' = contacts \ ContactsAt(bodies[i])
  /\ UNCHANGED <<frames, held, stage, made>>

(* ~World deletes the models, but leaves the bodies of layers to ~b2World, *)
(* which destroys their fixtures for what those have on the heap, and the  *)
(* rest with the allocator.                                                *)
DestroyWorld ==
  /\ stage = "up" /\ \A i \in DOMAIN bodies : bodies[i].layer
  /\ mem' = Dissolve(FoldLeft(LAMBDA m, b : FoldLeft(Destroy, m, b.fixtures), mem, bodies))
  /\ bodies' = << >> /\ joints' = {} /\ contacts' = {} /\ stage' = "down"
  /\ UNCHANGED <<frames, held, made>>

-----------------------------------------------------------------------------
(* A step: b2StackAllocator under b2Island and b2ContactSolver             *)

Index(s) == FoldLeft(LAMBDA n, e : IF e.malloc THEN n ELSE n + e.size, 0, s)

Push(s, name, size) ==
  LET fits == Index(s.frames) + size <= StackSize
      a == Alloc(s.m, size)
      at == IF fits THEN <<0, Index(s.frames)>> ELSE <<a.at, 0>>
  IN [s EXCEPT !.m = IF fits THEN @ ELSE a.m,
               !.frames = Append(@, [at |-> at, size |-> size, malloc |-> ~fits]),
               !.held = [n \in DOMAIN @ \cup {name} |-> IF n = name THEN at ELSE @[n]]]

Pop(s, name) ==
  LET top == Last(s.frames)
  IN IF s.held[name] # top.at THEN [s EXCEPT !.aborted = TRUE]
     ELSE [s EXCEPT !.m = IF top.malloc THEN Release(@, top.at[1]) ELSE @,
                    !.frames = Front(@),
                    !.held = [n \in DOMAIN @ \ {name} |-> @[n]]]

Island(nb, nc, nj) ==
  << <<"bodies", nb * SizeOf.pointer>>, <<"contacts", nc * SizeOf.pointer>>,
     <<"joints", nj * SizeOf.pointer>>, <<"velocities", nb * SizeOf.velocity>>,
     <<"positions", nb * SizeOf.position>> >>
Constraints(n) ==
  << <<"position constraints", n * SizeOf.constraint>>,
     <<"velocity constraints", n * SizeOf.constraint>> >>

(* The destructors free in the reverse of the order in which the           *)
(* constructors allocate.                                                  *)
IslandFreed == <<"positions", "velocities", "joints", "contacts", "bodies">>
ConstraintsFreed == <<"velocity constraints", "position constraints">>

Stack == [m |-> mem, frames |-> frames, held |-> held, aborted |-> FALSE]
PushAll(parts) == FoldLeft(LAMBDA s, p : Push(s, p[1], p[2]), Stack, parts)
PopAll(names) == FoldLeft(Pop, Stack, names)
Becomes(s, next) ==
  /\ mem' = s.m /\ frames' = s.frames /\ held' = s.held
  /\ stage' = IF s.aborted THEN "aborted" ELSE next
  /\ UNCHANGED <<bodies, joints, contacts, made>>

Solve ==
  /\ stage = "up"
  /\ Becomes(PushAll(Append(Island(Len(bodies), Cardinality(contacts), Cardinality(joints)),
                            <<"seeds", Len(bodies) * SizeOf.pointer>>)), "solve")

(* The touching contacts of one island are given to the solver.            *)
BeginIsland ==
  /\ stage \in {"solve", "toi"}
  /\ \E n \in 0 .. Cardinality(contacts) : Becomes(PushAll(Constraints(n)), "constraints")

EndIsland ==
  /\ stage = "constraints"
  /\ Becomes(PopAll(ConstraintsFreed), IF "seeds" \in DOMAIN held THEN "solve" ELSE "toi")

EndSolve == stage = "solve" /\ Becomes(PopAll(<<"seeds">> \o IslandFreed), "solved")

SolveTOI ==
  /\ stage = "solved"
  /\ Becomes(PushAll(Island(2 * SizeOf.toi, SizeOf.toi, 0)), "toi")

EndTOI == stage = "toi" /\ Becomes(PopAll(IslandFreed), "up")

MemoryNext ==
  \/ \E layer \in BOOLEAN : CreateBody(layer)
  \/ \E i \in DOMAIN bodies :
       \/ \E s \in IF bodies[i].layer THEN LayerShapes ELSE ModelShapes : CreateFixture(i, s)
       \/ DestroyBody(i)
       \/ \E j \in DOMAIN bodies :
            CreateContact(i, j) \/ \E t \in JointTypes : CreateJoint(t, i, j)
  \/ \E j \in joints : DestroyJoint(j)
  \/ \E c \in contacts : DestroyContact(c)
  \/ DestroyWorld
  \/ Solve \/ BeginIsland \/ EndIsland \/ EndSolve \/ SolveTOI \/ EndTOI

MemorySpec == MemoryInit /\ [][MemoryNext]_memoryVars

-----------------------------------------------------------------------------
(* Everything that is alive, with its size, one entry for each.            *)
Live ==
  LET region(at, size) == [at |-> at, size |-> size]
      ofFixture(f) ==
        << region(f.at, SizeOf.fixture), region(f.shape, SizeOf[f.kind.type]),
           region(f.proxies, ProxyBytes(f.kind)) >>
        \o IF f.kind.type = "chain" THEN << region(<<f.vertices, 0>>, VertexBytes(f.kind)) >>
           ELSE << >>
      ofBody(b) == FoldLeft(LAMBDA s, f : s \o ofFixture(f),
                            << region(b.at, SizeOf.body) >>, b.fixtures)
  IN FoldLeft(LAMBDA s, b : s \o ofBody(b), << >>, bodies)
     \o SetToSeq({region(j.at, SizeOf[j.type]) : j \in joints})
     \o SetToSeq({region(c.at, SizeOf.contact) : c \in contacts})
     \o [i \in DOMAIN frames |-> region(frames[i].at, frames[i].size)]

(* Whatever comes and goes in any order, no two objects overlap, each has  *)
(* the room it asked for, every block of a chunk is in use or in the free  *)
(* list of its size once, nothing stays on the heap that nobody owns, the  *)
(* frames of a step are freed in the order the stack allocator asserts,    *)
(* and after the world is deleted, with its layers still in it, the heap   *)
(* is empty.                                                               *)
MemoryIsSound ==
  LET live == Live
      last(r) == r.at[2] + r.size
      room(at) == IF at = 0 THEN StackSize
                  ELSE IF at \in DOMAIN mem.heap THEN mem.heap[at] ELSE -1
      Block(c, i) == Blocks(c.at, c.class)[i]
      users(c, i) == {n \in DOMAIN live : live[n].at = Block(c, i)}
      lists(c, i) == {n \in DOMAIN mem.free[c.class] : mem.free[c.class][n] = Block(c, i)}
      chunks == ToSet(mem.chunks)
  IN /\ stage # "aborted" /\ Len(frames) <= MaxEntries
     /\ \A n \in DOMAIN live : last(live[n]) <= room(live[n].at[1])
     /\ \A n, k \in DOMAIN live : n # k /\ live[n].at[1] = live[k].at[1] =>
          last(live[n]) <= live[k].at[2] \/ last(live[k]) <= live[n].at[2]
     /\ stage = "down" => DOMAIN mem.heap = {}
     /\ stage # "down" =>
          /\ \A c \in chunks : \A i \in 1 .. ChunkSize \div BlockSizes[c.class] :
               /\ Cardinality(users(c, i)) + Cardinality(lists(c, i)) = 1
               /\ \A n \in users(c, i) : live[n].size <= BlockSizes[c.class]
          /\ \A k \in DOMAIN mem.free : \A at \in ToSet(mem.free[k]) :
               \E c \in chunks : c.class = k /\ c.at = at[1]
          /\ DOMAIN mem.heap = {mem.table} \cup {c.at : c \in chunks}
                               \cup ({live[n].at[1] : n \in DOMAIN live} \ {0})
=============================================================================
