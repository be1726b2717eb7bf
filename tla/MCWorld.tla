------------------------------- MODULE MCWorld -------------------------------
(* The simulated world, each part in small numbers: the bodies of Box2D,   *)
(* the tree of its broad phase, its memory, the loading of layers and      *)
(* models into it, the poses of a model's bodies, the walls and the        *)
(* terrain that plugins add, and the sensors that count contacts.  A       *)
(* behaviour is about one of the eight.                                    *)
EXTENDS PhysicsWorld, Loading, Walls, ModelPoses, Terrain, ContactSensors

VARIABLES which,
  tree, tight,
  mem, m_bodies, m_joints, m_contacts, frames, held, m_stage, made

(* A wall and two robots on a line, one of which drives; a third body that *)
(* may be there instead of the wall.                                       *)
WorldKind == <<"static", "dynamic", "dynamic", "dynamic">>
WorldHomes == <<{2}, {0}, {1}, {2}>>
Welds == {{2, 3}}
WorldScenes == {{1, 2, 3}, {2, 3, 4}}

(* The bodies of a robot, a crate and a wall layer.                        *)
MCModelOf == [b \in Body |-> CASE b = "box" -> "crate" [] b = "border" -> "wall"
                               [] OTHER -> "robot"]

(* Boxes that are small and wide, windows and rays beside and across them. *)
box(x, y, w) == [lx |-> x, ly |-> y, ux |-> x + w, uy |-> y + 1]
ray(x, y, dx, dy) == [x |-> x, y |-> y, dx |-> dx, dy |-> dy]
Tree == INSTANCE DynamicTree WITH
  Boxes <- {box(0, 0, 1), box(9, 0, 2)}, Shifts <- {[x |-> -2, y |-> 1]},
  Windows <- {box(2, 0, 3), box(-4, 2, 6), box(10, 0, 1), box(5, 7, 3)},
  Rays <- {ray(-3, -2, 6, 3), ray(13, 1, -14, -1)},
  Capacity <- 4, MaxProxies <- 4

(* Maps, bodies and joints that load, and one of each kind that does not.  *)
MCLayers ==
  { [type |-> "none"],
    [type |-> "line_segments", found |-> TRUE, rows |-> <<4, 4>>],
    [type |-> "line_segments", found |-> TRUE, rows |-> <<4, 0>>],
    [type |-> "", found |-> FALSE, contours |-> << >>],
    [type |-> "", found |-> TRUE,
     contours |-> <<[points |-> 8, reduced |-> 6, thin |-> FALSE],
                    [points |-> 4, reduced |-> 3, thin |-> TRUE]>>],
    [type |-> "", found |-> TRUE,
     contours |-> <<[points |-> 1, reduced |-> 1, thin |-> TRUE]>>] }
print == [type |-> "polygon", points |-> 4, flat |-> FALSE, layers |-> {"low"},
          collision |-> TRUE, extra |-> FALSE]
part == [enabled |-> TRUE, name |-> "a", type |-> "dynamic", mesh |-> FALSE,
         wheel |-> "none", extra |-> FALSE, prints |-> << >>]
MCBodies ==
  { [part EXCEPT !.prints = <<print>>],
    [part EXCEPT !.name = "b", !.wheel = "sound"],
    [part EXCEPT !.enabled = FALSE],
    [part EXCEPT !.type = "soft"],
    [part EXCEPT !.mesh = TRUE, !.wheel = "sound"],
    [part EXCEPT !.extra = TRUE],
    [part EXCEPT !.name = "b",
                 !.prints = <<print, [print EXCEPT !.type = "circle", !.collision = FALSE]>>],
    [part EXCEPT !.prints = <<print, [print EXCEPT !.layers = {"none"}]>>],
    [part EXCEPT !.prints = <<[print EXCEPT !.points = 9]>>],
    [part EXCEPT !.prints = <<[print EXCEPT !.flat = TRUE]>>] }
link == [enabled |-> TRUE, name |-> "j", type |-> "weld", bodies |-> <<"a", "b">>,
         limits |-> 0, extra |-> FALSE]
MCJoints ==
  { link, [link EXCEPT !.name = "k", !.type = "revolute", !.limits = 2],
    [link EXCEPT !.bodies = <<"b", "b">>], [link EXCEPT !.bodies = <<"a", "c">>],
    [link EXCEPT !.bodies = <<"a">>], [link EXCEPT !.type = "revolute", !.limits = 1],
    [link EXCEPT !.enabled = FALSE], [link EXCEPT !.extra = TRUE],
    [link EXCEPT !.type = "rope"] }

at(x, y, theta) == [x |-> x, y |-> y, theta |-> theta]
MCLayouts == {<<at(0, 0, 0), at(1, 0, 0), at(-1, 2, 1)>>, <<at(1, 1, 1), at(2, 1, 0)>>}
MCPoses == {at(0, 0, 0), at(2, -1, 1), at(-3, 1, 2), at(1, 1, 3)}

(* Walls drawn upwards, downwards, level and at an angle; a robot on       *)
(* either side of each, one of another name, and none; a layer at the      *)
(* world's origin and one that is moved and turned.                        *)
up == <<<<0, 0>>, <<0, 2>>>>
down == <<<<4, 2>>, <<4, 0>>>>
flat == <<<<1, 0>>, <<3, 0>>>>
angled == <<<<-4, 0>>, <<-2, 1>>>>
named(name, x, y) == [name |-> name, pose |-> <<x, y>>]
diagonal == <<<<-4, -5>>, <<-2, -3>>>>
MCWalls == {<<up, down, flat>>, <<angled, diagonal>>, << >>}
MCOrigins == { [place |-> <<0, 0>>, turn |-> <<1, 0>>],
               [place |-> <<1, -2>>, turn |-> <<0, 1>>] }
MCRobots == { <<named("other", 0, 0), named("bot", 2, 1)>>,
              <<named("bot", -1, -1), named("bot", 5, 5)>>, << >> }

(* Slipping and shaking ground, and a slope; they overlap, in one order    *)
(* and in the other.                                                       *)
level == [box |-> <<0, 1>>, slip |-> TRUE, max_v |-> 2, max_w |-> 1, drift |-> 1,
          hold |-> 2, rubble |-> FALSE, amp |-> 0, speed_gain |-> 0,
          slope |-> FALSE, accel |-> 0, damp |-> 0, cap |-> 0, side_gain |-> 0]
hill == [level EXCEPT !.box = <<3, 1>>, !.hold = 0, !.slope = TRUE, !.accel = 3,
                      !.damp = 3, !.cap = 4, !.side_gain = 1, !.drift = 0]
rubble == [level EXCEPT !.box = <<2, 2>>, !.slip = FALSE, !.rubble = TRUE,
                        !.amp = 1, !.speed_gain = 1]
twist(x, y, w) == [x |-> x, y |-> y, w |-> w]
MCPatches == {<<level, hill, rubble>>, <<rubble, hill>>, << >>}
MCVelocities == {twist(0, 0, 0), twist(3, 0, -2), twist(-1, 1, 0)}

(* Blocks of 2 and 3 in chunks of 7, a table of chunks that grows by 2, and *)
(* chains whose proxies fit a block (4 vertices) and do not (5).           *)
shape(type, n) == [type |-> type, vertices |-> n]
MCSizeOf ==
  [body |-> 3, fixture |-> 2, polygon |-> 3, chain |-> 2, contact |-> 3, weld |-> 2,
   proxy |-> 1, vertex |-> 1, pointer |-> 1, velocity |-> 1, position |-> 1,
   constraint |-> 2, toi |-> 1]
Mem == INSTANCE Memory WITH
  BlockSizes <- <<2, 3>>, ChunkSize <- 7, Increment <- 2, StackSize <- 7, MaxEntries <- 8,
  SizeOf <- MCSizeOf, LayerShapes <- {shape("chain", 4), shape("chain", 5)},
  ModelShapes <- {shape("polygon", 4)}, JointTypes <- {"weld"},
  MaxBodies <- 2, MaxFixtures <- 1, MaxMade <- 7,
  bodies <- m_bodies, joints <- m_joints, contacts <- m_contacts, stage <- m_stage

treeVars == <<tree, tight>>
memoryVars == <<mem, m_bodies, m_joints, m_contacts, frames, held, m_stage, made>>
all == <<which, worldVars, treeVars, loadVars, poseVars, wallVars, terrainVars,
         memoryVars, vars>>

(* The worlds that a behaviour is not about.                               *)
WorldIdle == WorldInit /\ phys.scene = {1, 2, 3}
TreeIdle == Tree!TreeInit
LoadIdle == LoadInit /\ simplify = 0
PosesIdle == PoseInit
WallsIdle == /\ WallsInit /\ layer = "bot" /\ robot = "bot" /\ models = << >>
             /\ wanted = 0 /\ ~double_wall /\ walls = << >> /\ origin.turn = <<1, 0>>
TerrainIdle == /\ TerrainInit /\ ~enable /\ patches = << >>
               /\ ground = 0 /\ facing = 1 /\ velocity = twist(0, 0, 0)

MCInit ==
  /\ Init /\ Mem!MemoryInit
  /\ \/ which = "physics" /\ WorldInit
          /\ TreeIdle /\ LoadIdle /\ PosesIdle /\ WallsIdle /\ TerrainIdle
     \/ which = "tree" /\ Tree!TreeInit
          /\ WorldIdle /\ LoadIdle /\ PosesIdle /\ WallsIdle /\ TerrainIdle
     \/ which = "loading" /\ LoadInit
          /\ WorldIdle /\ TreeIdle /\ PosesIdle /\ WallsIdle /\ TerrainIdle
     \/ which = "poses" /\ PoseInit
          /\ WorldIdle /\ TreeIdle /\ LoadIdle /\ WallsIdle /\ TerrainIdle
     \/ which = "walls" /\ WallsInit
          /\ WorldIdle /\ TreeIdle /\ LoadIdle /\ PosesIdle /\ TerrainIdle
     \/ which = "terrain" /\ TerrainInit
          /\ WorldIdle /\ TreeIdle /\ LoadIdle /\ PosesIdle /\ WallsIdle
     \/ which \in {"memory", "contacts"} /\ WorldIdle /\ TreeIdle
          /\ LoadIdle /\ PosesIdle /\ WallsIdle /\ TerrainIdle

MCNext ==
  \/ /\ which = "physics"
     /\ UNCHANGED <<which, vars, treeVars, loadVars, poseVars, wallVars, terrainVars, memoryVars>>
     /\ WorldNext
  \/ /\ which = "tree"
     /\ UNCHANGED <<which, vars, worldVars, loadVars, poseVars, wallVars, terrainVars, memoryVars>>
     /\ Tree!TreeNext
  \/ /\ which = "loading"
     /\ UNCHANGED <<which, vars, worldVars, treeVars, poseVars, wallVars, terrainVars, memoryVars>>
     /\ LoadNext
  \/ /\ which = "poses"
     /\ UNCHANGED <<which, vars, worldVars, treeVars, loadVars, wallVars, terrainVars, memoryVars>>
     /\ PoseNext
  \/ /\ which = "walls"
     /\ UNCHANGED <<which, vars, worldVars, treeVars, loadVars, poseVars, terrainVars, memoryVars>>
     /\ WallsNext
  \/ /\ which = "terrain"
     /\ UNCHANGED <<which, vars, worldVars, treeVars, loadVars, poseVars, wallVars, memoryVars>>
     /\ TerrainNext
  \/ /\ which = "memory"
     /\ UNCHANGED <<which, vars, worldVars, treeVars, loadVars, poseVars, wallVars, terrainVars>>
     /\ Mem!MemoryNext
  \/ /\ which = "contacts"
     /\ UNCHANGED <<which, worldVars, treeVars, loadVars, poseVars, wallVars, terrainVars,
                    memoryVars>>
     /\ Next

MCSpec == MCInit /\ [][MCNext]_all /\ (which = "contacts" => Fairness)

(* The broad phase finds whatever overlaps, and blocks never overlap.      *)
BoxesAndBlocksAreSound == Tree!TreeAnswers /\ Mem!MemoryIsSound
=============================================================================
