-------------------------------- MODULE Walls --------------------------------
(***************************************************************************)
(* The RandomWall world plugin and the WorldModifier it uses: some walls   *)
(* of a layer, taken at random, get a parallel wall and two sides          *)
(* (flatland_plugins/src/world_random_wall.cpp, world_modifier.cpp).       *)
(*                                                                         *)
(* A vertex is a pair of whole numbers in the layer's frame, which is at a *)
(* whole place and a number of quarter turns in the world.  A wall is a    *)
(* pair of vertices.  The foot of a side need not be whole: a side has its *)
(* foot times scale, the square of the wall's length.  What the code       *)
(* leaves unset is not modelled further: the plugin ends "undefined".      *)
(***************************************************************************)
EXTENDS Integers, Sequences

CONSTANTS
  WallLayouts, \* sequences of walls a layer may have
  Layers,      \* names of the world's layers
  Origins,     \* transforms a layer's body may have, quarter turns as <<c, s>>
  Robots,      \* lists of models [name, pose] of the world yaml, << >> for no list
  Named,       \* layer and robot names the plugin's yaml may give
  WallCounts,  \* num_of_walls
  Distance     \* wall_wall_dist

Vertex == [1 .. 2 -> Int]
Wall == [1 .. 2 -> Vertex]
Side == [top : Vertex, foot : Vertex, scale : Int]
QuarterTurns == {<<1, 0>>, <<0, 1>>, <<-1, 0>>, <<0, -1>>}
ASSUME WallAssumption ==
  /\ Distance \in Int \ {0}
  /\ \A ws \in WallLayouts :
       ws \in Seq(Wall) /\ \A i, j \in DOMAIN ws : i # j => ws[i] # ws[j]
  /\ \A ms \in Robots : \A i \in DOMAIN ms : ms[i].pose \in Vertex
  /\ Origins \subseteq [place : Vertex, turn : QuarterTurns]

VARIABLES
  layer, robot, models, wanted, double_wall,  \* the yamls
  origin,     \* transform of the layer's body
  phase,      \* "parsed", "adding", "done", "thrown" or "undefined"
  walls,      \* walls of the layer's body, newest first
  wall_list,  \* Wall_List that is not used yet, in any order
  ini_pose,   \* robot_ini_pose
  obstacles   \* history: what AddFullWall added, by its wall

wallVars == <<layer, robot, models, wanted, double_wall, origin, phase,
              walls, wall_list, ini_pose, obstacles>>

WallsInit ==
  /\ layer \in Named /\ robot \in Named /\ models \in Robots
  /\ wanted \in WallCounts /\ double_wall \in BOOLEAN /\ origin \in Origins
  /\ phase = "parsed" /\ walls \in WallLayouts
  /\ wall_list = {} /\ ini_pose = <<0, 0>> /\ obstacles = << >>

b2MulT(tran, p) ==
  LET x == p[1] - tran.place[1]
      y == p[2] - tran.place[2]
      c == tran.turn[1]
      s == tran.turn[2]
  IN  << c * x + s * y, c * y - s * x >>

(* The loop over the models ends with a throw at the last one.             *)
OnInitialize ==
  /\ phase = "parsed"
  /\ IF layer \notin Layers \/ \A i \in DOMAIN models : models[i].name # robot
     THEN phase' = "thrown" /\ UNCHANGED <<wall_list, ini_pose>>
     ELSE /\ phase' = "adding"
          /\ wall_list' = DOMAIN walls
          /\ \E i \in DOMAIN models :
               /\ models[i].name = robot
               /\ \A k \in 1 .. i - 1 : models[k].name # robot
               /\ ini_pose' = b2MulT(origin, models[i].pose)
  /\ UNCHANGED <<layer, robot, models, wanted, double_wall, origin, walls, obstacles>>

-----------------------------------------------------------------------------
(* The side of the wall that the robot is on.                              *)
SideOf(wall, p) ==
  (p[1] - wall[1][1]) * (wall[2][2] - wall[1][2])
    - (p[2] - wall[1][2]) * (wall[2][1] - wall[1][1])

MutantCalculateNewWall(d, wall) ==
  LET by == IF d < 0 THEN Distance ELSE -Distance
  IN [i \in 1 .. 2 |-> <<wall[i][1] + by, wall[i][2] + by>>]
CalculateNewWall(d, wall) ==
  LET by == IF d < 0 THEN Distance ELSE -Distance
      vertical == wall[1][1] = wall[2][1]
      horizontal == ~vertical /\ wall[1][2] = wall[2][2]
  IN [i \in 1 .. 2 |-> << IF horizontal THEN wall[i][1] ELSE wall[i][1] + by,
                          IF vertical THEN wall[i][2] ELSE wall[i][2] + by >>]

(* From an end of the new wall to its projection on the old.               *)
SideWall(old, v) ==
  LET dx == old[2][1] - old[1][1]
      dy == old[2][2] - old[1][2]
      n == dy * dy + dx * dx
      across == dy * (v[1] - old[1][1]) - dx * (v[2] - old[1][2])
  IN  [top |-> v, foot |-> <<n * v[1] - across * dy, n * v[2] + across * dx>>,
       scale |-> n]

Obstacle(wall, d) ==
  LET new == CalculateNewWall(d, wall)
  IN << new, SideWall(wall, new[1]), SideWall(wall, new[2]) >>

(* CreateFixture puts the fixture in front of the list.                    *)
AddFullWall(wall) ==
  LET d == SideOf(wall, ini_pose)
      edges == Obstacle(wall, d) \o (IF double_wall THEN Obstacle(wall, -d) ELSE << >>)
  IN /\ walls' = [i \in 1 .. Len(edges) |-> edges[Len(edges) + 1 - i]] \o walls
     /\ obstacles' = Append(obstacles, [old |-> wall, edges |-> edges])

(* A robot on the wall's line leaves the new vertices unset, and there may *)
(* be fewer walls than wanted: neither stops the code.  Wall_List holds    *)
(* pointers: wall i of the list at the start is found again after others   *)
(* were added in front of it.                                              *)
AddAnother ==
  /\ phase = "adding"
  /\ Len(obstacles) < wanted
  /\ IF wall_list = {}
     THEN phase' = "undefined" /\ UNCHANGED <<walls, obstacles, wall_list>>
     ELSE \E i \in wall_list :
            LET added == Len(obstacles) * (IF double_wall THEN 6 ELSE 3)
                wall == walls[added + i]
            IN IF SideOf(wall, ini_pose) = 0
               THEN phase' = "undefined" /\ UNCHANGED <<walls, obstacles, wall_list>>
               ELSE /\ AddFullWall(wall)
                    /\ wall_list' = wall_list \ {i}
                    /\ UNCHANGED phase
  /\ UNCHANGED <<layer, robot, models, wanted, double_wall, origin, ini_pose>>

Return ==
  /\ phase = "adding" /\ Len(obstacles) = wanted
  /\ phase' = "done"
  /\ UNCHANGED <<layer, robot, models, wanted, double_wall, origin, walls,
                 wall_list, ini_pose, obstacles>>

WallsNext == OnInitialize \/ AddAnother \/ Return
WallsSpec == WallsInit /\ [][WallsNext]_wallVars

-----------------------------------------------------------------------------
Along(wall) == <<wall[2][1] - wall[1][1], wall[2][2] - wall[1][2]>>
Dot(a, b) == a[1] * b[1] + a[2] * b[2]
Straight(wall) == 0 \in {Along(wall)[1], Along(wall)[2]}
Offset(old, new) == <<new[1][1] - old[1][1], new[1][2] - old[1][2]>>

(* The new wall runs as the old one does, a straight one Distance beside.  *)
RunsBeside(old, new) ==
  /\ Along(new) = Along(old)
  /\ Straight(old) => /\ Dot(Offset(old, new), Along(old)) = 0
                      /\ Dot(Offset(old, new), Offset(old, new)) = Distance * Distance

(* Its side follows from how the old one was drawn, from its first vertex  *)
(* to its second: the robot's if it goes further in x than in y, the other *)
(* if it goes further in y, and none, on the old one's own line, if it     *)
(* goes as far in both.  A negative Distance turns this about.             *)
LiesByDrawing(old, new) ==
  LET d == SideOf(old, new[1]) * SideOf(old, ini_pose)
      drawn == Distance * (Along(old)[1] - Along(old)[2])
  IN  (d > 0 <=> drawn > 0) /\ (d < 0 <=> drawn < 0)

(* A side stands upright on the old wall's line, on the very end of a      *)
(* straight wall.                                                          *)
StandsOn(old, k, side) ==
  LET n == side.scale
      up == <<side.foot[1] - n * side.top[1], side.foot[2] - n * side.top[2]>>
      out == <<side.foot[1] - n * old[1][1], side.foot[2] - n * old[1][2]>>
  IN  /\ n > 0
      /\ Dot(up, Along(old)) = 0
      /\ out[1] * Along(old)[2] = out[2] * Along(old)[1]
      /\ Straight(old) => side.foot = <<n * old[k][1], n * old[k][2]>>

(* What is added to a wall closes: the new wall runs beside it, on the     *)
(* side that follows from how the wall was drawn, the sides lead from the  *)
(* new wall's ends to the old one's line, and of a double wall the second  *)
(* is as far on the other side.                                            *)
Closes(old, edges) ==
  /\ Len(edges) = (IF double_wall THEN 6 ELSE 3)
  /\ RunsBeside(old, edges[1]) /\ LiesByDrawing(old, edges[1])
  /\ \A k \in 1 .. 2 : StandsOn(old, k, edges[1 + k]) /\ edges[1 + k].top = edges[1][k]
  /\ double_wall =>
       /\ RunsBeside(old, edges[4])
       /\ \A k \in 1 .. 2 : Offset(old, edges[4])[k] = -Offset(old, edges[1])[k]
       /\ \A k \in 1 .. 2 : StandsOn(old, k, edges[4 + k]) /\ edges[4 + k].top = edges[4][k]

(* Every wall that was drawn is closed, wherever layer and robot are, no   *)
(* wall is drawn twice although each addition shifts the fixtures the list *)
(* was made from, whatever the order it was shuffled in, and the plugin is *)
(* done when as many walls as wanted are.                                  *)
WallsClose ==
  /\ \A n \in DOMAIN obstacles : Closes(obstacles[n].old, obstacles[n].edges)
  /\ \A m, n \in DOMAIN obstacles : m # n => obstacles[m].old # obstacles[n].old
  /\ phase = "done" => Len(obstacles) = wanted
=============================================================================
