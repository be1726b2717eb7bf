---------------------------- MODULE DynamicTree ----------------------------
(***************************************************************************)
(* The tree of fattened boxes that Box2D's broad phase keeps, and that     *)
(* every query and ray cast of the simulator goes through                  *)
(* (Box2D/Collision/b2DynamicTree.cpp, b2DynamicTree.h): proxies come, go  *)
(* and move in any order, rotations keep the tree flat, nodes are recycled *)
(* through a free list that grows the pool when it is empty.               *)
(*                                                                         *)
(* Boxes have integer corners, in units of b2_aabbExtension.  Nodes are    *)
(* numbered from 1, Null is no node.  A tree is a record: its root, the    *)
(* nodes in use and the free list as a sequence.                           *)
(***************************************************************************)
EXTENDS Integers, Sequences, FiniteSets

CONSTANTS
  Boxes,     \* boxes [lx, ly, ux, uy] a fixture may have
  Shifts,    \* displacements [x, y] of a moved fixture
  Windows,   \* boxes that are queried
  Rays,      \* rays [x, y, dx, dy] that are cast, dx and dy not both 0
  Capacity,  \* nodes of the pool at first
  MaxProxies \* bound on the proxies alive

VARIABLES
  tree,      \* [root, nodes, free]
  tight      \* history: proxy -> the box its fixture has

treeVars == <<tree, tight>>

Null == 0
Extension == 1    \* b2_aabbExtension
Multiplier == 2   \* b2_aabbMultiplier

Less(a, b) == IF a < b THEN a ELSE b
More(a, b) == IF a < b THEN b ELSE a

Combine(a, b) == [lx |-> Less(a.lx, b.lx), ly |-> Less(a.ly, b.ly),
                  ux |-> More(a.ux, b.ux), uy |-> More(a.uy, b.uy)]
GetPerimeter(a) == 2 * (a.ux - a.lx + a.uy - a.ly)
Contains(a, b) == a.lx <= b.lx /\ a.ly <= b.ly /\ b.ux <= a.ux /\ b.uy <= a.uy
TestOverlap(a, b) == a.lx <= b.ux /\ b.lx <= a.ux /\ a.ly <= b.uy /\ b.ly <= a.uy

-----------------------------------------------------------------------------
(* The pool                                                                *)

Size(t) == Cardinality(DOMAIN t.nodes) + Len(t.free)
Grown(t) == IF t.free # <<>> THEN t
            ELSE [t EXCEPT !.free = [i \in 1 .. Size(t) |-> Size(t) + i]]

NewNode(box) == [box |-> box, parent |-> Null, child1 |-> Null, child2 |-> Null,
                 height |-> 0]
AllocateNode(t, box) ==
  LET g == Grown(t)
  IN  [t |-> [g EXCEPT !.free = Tail(@),
                       !.nodes = [i \in DOMAIN @ \cup {Head(g.free)} |->
                                    IF i = Head(g.free) THEN NewNode(box) ELSE @[i]]],
       id |-> Head(g.free)]

FreeNode(t, id) == [t EXCEPT !.free = <<id>> \o @,
                             !.nodes = [i \in DOMAIN @ \ {id} |-> @[i]]]

IsLeaf(t, i) == t.nodes[i].child1 = Null

(* The parent of old, or the root, points to new.                          *)
Repoint(t, old, new) ==
  LET p == t.nodes[old].parent
      s == IF p = Null THEN [t EXCEPT !.root = new]
           ELSE IF t.nodes[p].child1 = old
             THEN [t EXCEPT !.nodes[p].child1 = new]
             ELSE [t EXCEPT !.nodes[p].child2 = new]
  IN  [s EXCEPT !.nodes[new].parent = p]

(* Height and box of an inner node from its children                       *)
Refit(t, i) ==
  LET a == t.nodes[t.nodes[i].child1]
      b == t.nodes[t.nodes[i].child2]
  IN  [t EXCEPT !.nodes[i].height = 1 + More(a.height, b.height),
                !.nodes[i].box = Combine(a.box, b.box)]

-----------------------------------------------------------------------------
(* Balance: the higher child of iA takes its place and keeps the higher of *)
(* its own children; iA gets the other one.                                *)
MutantRotate(t, iA, iUp, isSecond) ==
  LET keep == IF t.nodes[t.nodes[iUp].child1].height > t.nodes[t.nodes[iUp].child2].height
                THEN t.nodes[iUp].child1 ELSE t.nodes[iUp].child2
      give == IF keep = t.nodes[iUp].child1
                THEN t.nodes[iUp].child2 ELSE t.nodes[iUp].child1
      s == Repoint(t, iA, iUp)
      r == [s EXCEPT !.nodes[iUp].child1 = iA, !.nodes[iUp].child2 = keep,
                     !.nodes[iA].parent = iUp, !.nodes[give].parent = iA]
  IN  Refit(IF isSecond THEN [r EXCEPT !.nodes[iA].child2 = give]
                        ELSE [r EXCEPT !.nodes[iA].child1 = give], iUp)
Rotate(t, iA, iUp, isSecond) ==
  LET keep == IF t.nodes[t.nodes[iUp].child1].height > t.nodes[t.nodes[iUp].child2].height
                THEN t.nodes[iUp].child1 ELSE t.nodes[iUp].child2
      give == IF keep = t.nodes[iUp].child1
                THEN t.nodes[iUp].child2 ELSE t.nodes[iUp].child1
      s == Repoint(t, iA, iUp)
      r == [s EXCEPT !.nodes[iUp].child1 = iA, !.nodes[iUp].child2 = keep,
                     !.nodes[iA].parent = iUp, !.nodes[give].parent = iA]
      q == IF isSecond THEN [r EXCEPT !.nodes[iA].child2 = give]
                       ELSE [r EXCEPT !.nodes[iA].child1 = give]
  IN  Refit(Refit(q, iA), iUp)

Balance(t, iA) ==
  LET iB == t.nodes[iA].child1
      iC == t.nodes[iA].child2
      balance == t.nodes[iC].height - t.nodes[iB].height
  IN  IF t.nodes[iA].height < 2 \/ balance \in {0 - 1, 0, 1} THEN [t |-> t, id |-> iA]
      ELSE IF balance > 1 THEN [t |-> Rotate(t, iA, iC, TRUE), id |-> iC]
      ELSE [t |-> Rotate(t, iA, iB, FALSE), id |-> iB]

(* Up to the root: balance, then refit.                                    *)
RECURSIVE FixUp(_, _)
FixUp(t, i) ==
  IF i = Null THEN t
  ELSE LET b == Balance(t, i)
           r == Refit(b.t, b.id)
       IN  FixUp(r, r.nodes[b.id].parent)

-----------------------------------------------------------------------------
(* Insertion                                                               *)

(* What it costs to go down to child c with a new box                      *)
Cost(t, c, box) ==
  GetPerimeter(Combine(box, t.nodes[c].box))
    - (IF IsLeaf(t, c) THEN 0 ELSE GetPerimeter(t.nodes[c].box))

RECURSIVE Sibling(_, _, _)
Sibling(t, i, box) ==
  IF IsLeaf(t, i) THEN i
  ELSE LET combined == GetPerimeter(Combine(t.nodes[i].box, box))
           inherit == 2 * (combined - GetPerimeter(t.nodes[i].box))
           cost1 == Cost(t, t.nodes[i].child1, box) + inherit
           cost2 == Cost(t, t.nodes[i].child2, box) + inherit
       IN  IF 2 * combined < cost1 /\ 2 * combined < cost2 THEN i
           ELSE Sibling(t, IF cost1 < cost2 THEN t.nodes[i].child1
                                            ELSE t.nodes[i].child2, box)

InsertLeaf(t, leaf) ==
  IF t.root = Null
    THEN [t EXCEPT !.root = leaf, !.nodes[leaf].parent = Null]
    ELSE LET sibling == Sibling(t, t.root, t.nodes[leaf].box)
             new == AllocateNode(t, Combine(t.nodes[leaf].box, t.nodes[sibling].box))
             s == Repoint(new.t, sibling, new.id)
             r == [s EXCEPT !.nodes[new.id].child1 = sibling,
                            !.nodes[new.id].child2 = leaf,
                            !.nodes[new.id].height = t.nodes[sibling].height + 1,
                            !.nodes[sibling].parent = new.id,
                            !.nodes[leaf].parent = new.id]
         IN  FixUp(r, new.id)

RemoveLeaf(t, leaf) ==
  IF t.root = leaf THEN [t EXCEPT !.root = Null]
  ELSE LET parent == t.nodes[leaf].parent
           sibling == IF t.nodes[parent].child1 = leaf THEN t.nodes[parent].child2
                                                       ELSE t.nodes[parent].child1
           s == FreeNode(Repoint(t, parent, sibling), parent)
       IN  FixUp(s, s.nodes[sibling].parent)

-----------------------------------------------------------------------------
(* Proxies                                                                 *)

Fat(box) == [lx |-> box.lx - Extension, ly |-> box.ly - Extension,
             ux |-> box.ux + Extension, uy |-> box.uy + Extension]

(* The fat box reaches ahead in the direction of the motion.               *)
Predicted(box, d) ==
  LET dx == Multiplier * d.x
      dy == Multiplier * d.y
  IN  [lx |-> box.lx + Less(dx, 0), ly |-> box.ly + Less(dy, 0),
       ux |-> box.ux + More(dx, 0), uy |-> box.uy + More(dy, 0)]

CreateProxy(box) ==
  /\ Cardinality(DOMAIN tight) < MaxProxies
  /\ LET new == AllocateNode(tree, Fat(box))
     IN  /\ tree' = InsertLeaf(new.t, new.id)
         /\ tight' = [p \in DOMAIN tight \cup {new.id} |->
                        IF p = new.id THEN box ELSE tight[p]]

DestroyProxy(p) ==
  /\ tree' = FreeNode(RemoveLeaf(tree, p), p)
  /\ tight' = [q \in DOMAIN tight \ {p} |-> tight[q]]

(* A box that has not left the fat one changes nothing.                    *)
MoveProxy(p, box, d) ==
  /\ tight' = [tight EXCEPT ![p] = box]
  /\ tree' = IF Contains(tree.nodes[p].box, box) THEN tree
             ELSE InsertLeaf([RemoveLeaf(tree, p) EXCEPT
                                !.nodes[p].box = Predicted(Fat(box), d)], p)

TreeInit == /\ tree = [root |-> Null, nodes |-> <<>>, free |-> [i \in 1 .. Capacity |-> i]]
            /\ tight = <<>>

TreeNext ==
  \/ \E box \in Boxes : CreateProxy(box)
  \/ \E p \in DOMAIN tight :
       DestroyProxy(p) \/ \E box \in Boxes, d \in Shifts : MoveProxy(p, box, d)

TreeSpec == TreeInit /\ [][TreeNext]_treeVars

-----------------------------------------------------------------------------
(* Query: subtrees whose box misses the window are passed over.            *)
RECURSIVE Query(_, _)
Query(i, window) ==
  IF i = Null \/ ~TestOverlap(tree.nodes[i].box, window) THEN {}
  ELSE IF IsLeaf(tree, i) THEN {i}
  ELSE Query(tree.nodes[i].child1, window) \cup Query(tree.nodes[i].child2, window)

(* Places on a ray are numbers of N-th parts of it; at every corner and on *)
(* every edge of a box it passes the place is a whole number of them.      *)
Abs(n) == IF n < 0 THEN 0 - n ELSE n
Parts(ray) == More(1, Abs(ray.dx)) * More(1, Abs(ray.dy))
Meets(ray, k, box) ==
  /\ Parts(ray) * box.lx <= Parts(ray) * ray.x + k * ray.dx
  /\ Parts(ray) * ray.x + k * ray.dx <= Parts(ray) * box.ux
  /\ Parts(ray) * box.ly <= Parts(ray) * ray.y + k * ray.dy
  /\ Parts(ray) * ray.y + k * ray.dy <= Parts(ray) * box.uy

(* Where the ray enters the fixture of a proxy, at most one place: a ray   *)
(* that starts inside does not enter it.                                   *)
Entries(ray, p) ==
  {k \in 1 .. Parts(ray) : Meets(ray, k, tight[p]) /\ ~Meets(ray, k - 1, tight[p])}

(* The box of a node may meet the first max parts of the ray: their boxes  *)
(* overlap and the normal of the ray does not separate them.               *)
Crosses(ray, max, box) ==
  LET n == Parts(ray)
      ex == n * ray.x + max * ray.dx
      ey == n * ray.y + max * ray.dy
      distance == ray.dx * (2 * ray.y - box.ly - box.uy) - ray.dy * (2 * ray.x - box.lx - box.ux)
  IN  /\ TestOverlap([lx |-> n * box.lx, ly |-> n * box.ly, ux |-> n * box.ux, uy |-> n * box.uy],
                     [lx |-> Less(n * ray.x, ex), ly |-> Less(n * ray.y, ey),
                      ux |-> More(n * ray.x, ex), uy |-> More(n * ray.y, ey)])
      /\ Abs(distance) <= Abs(ray.dx) * (box.uy - box.ly) + Abs(ray.dy) * (box.ux - box.lx)

(* RayCast with a callback that shortens the ray to what it hits: the way  *)
(* the lasers and the detection cast.  Returns where the ray ends.         *)
RECURSIVE RayCast(_, _, _)
RayCast(ray, stack, max) ==
  IF stack = <<>> THEN max
  ELSE LET i == Head(stack)
           rest == Tail(stack)
       IN  IF i = Null \/ ~Crosses(ray, max, tree.nodes[i].box) THEN RayCast(ray, rest, max)
           ELSE IF IsLeaf(tree, i)
             THEN RayCast(ray, rest, IF \E k \in Entries(ray, i) : k <= max
                                       THEN CHOOSE k \in Entries(ray, i) : TRUE ELSE max)
             ELSE RayCast(ray, <<tree.nodes[i].child2, tree.nodes[i].child1>> \o rest, max)

(* Validate: parents and children agree, heights and boxes are those of    *)
(* the children, and every node is either in the tree or free, once.       *)
Validate ==
  /\ \A i \in DOMAIN tree.nodes :
       LET n == tree.nodes[i]
       IN  /\ (i = tree.root) = (n.parent = Null)
           /\ IF IsLeaf(tree, i)
                THEN i \in DOMAIN tight /\ n.height = 0 /\ n.child2 = Null
                ELSE /\ {n.child1, n.child2} \subseteq DOMAIN tree.nodes
                     /\ tree.nodes[n.child1].parent = i
                     /\ tree.nodes[n.child2].parent = i
                     /\ Refit(tree, i) = tree
  /\ Cardinality(DOMAIN tree.nodes) = More(0, 2 * Cardinality(DOMAIN tight) - 1)
  /\ {tree.free[k] : k \in DOMAIN tree.free} = 1 .. Size(tree) \ DOMAIN tree.nodes

(* After any sequence of creations, moves and destructions the tree is     *)
(* valid (what the asserts of b2DynamicTree::Validate say, which no code   *)
(* calls) and it misses nobody: a query returns exactly the proxies whose  *)
(* fat boxes overlap the window, among them all those whose fixtures do,   *)
(* and a ray ends at the nearest fixture it enters.                        *)
TreeAnswers ==
  /\ Validate
  /\ \A w \in Windows :
       /\ Query(tree.root, w) = {p \in DOMAIN tight : TestOverlap(tree.nodes[p].box, w)}
       /\ {p \in DOMAIN tight : TestOverlap(tight[p], w)} \subseteq Query(tree.root, w)
  /\ \A ray \in Rays :
       LET hits == UNION {Entries(ray, p) : p \in DOMAIN tight}
           end == RayCast(ray, <<tree.root>>, Parts(ray))
       IN  IF hits = {} THEN end = Parts(ray)
           ELSE end \in hits /\ \A k \in hits : end <= k
=============================================================================
