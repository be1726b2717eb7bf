------------------------------- MODULE Frames -------------------------------
(***************************************************************************)
(* The frames of a model and what is measured in them: ModelTfPublisher    *)
(* (flatland_plugins/src/model_tf_publisher.cpp) and the position of the   *)
(* Gps (gps.cpp).                                                          *)
(*                                                                         *)
(* Positions are whole numbers and angles count quarter turns.  The        *)
(* conversion of a position to latitude and longitude is left out.         *)
(***************************************************************************)
EXTENDS Integers

CONSTANTS
  Body,     \* the bodies of the model
  Base,     \* the body of the Gps
  Configs,  \* reference body, excluded bodies and publish_tf_world
  Mount,    \* pose of the Gps antenna on its body
  Poses,    \* poses [x, y, q] of bodies
  Heights   \* their elevations

VARIABLES
  config,      \* of the ModelTfPublisher
  pose,        \* where the bodies are
  elevation,   \* Body::elevation_
  tfs,         \* the frames broadcast last: parent, child, transform
  fix,         \* the position published last
  tf_truth,    \* history: pose and elevation when the frames were sent
  fix_truth    \* history: pose of the base when the fix was published

vars == <<config, pose, elevation, tfs, fix, tf_truth, fix_truth>>

Rot(q, v) == CASE q % 4 = 0 -> v
               [] q % 4 = 1 -> <<-v[2], v[1]>>
               [] q % 4 = 2 -> <<-v[1], -v[2]>>
               [] q % 4 = 3 -> <<v[2], -v[1]>>
Compose(a, b) ==
  LET v == Rot(a.q, <<b.x, b.y>>) IN [x |-> a.x + v[1], y |-> a.y + v[2], q |-> (a.q + b.q) % 4]
Inverse(a) ==
  LET v == Rot(-a.q, <<-a.x, -a.y>>) IN [x |-> v[1], y |-> v[2], q |-> (-a.q) % 4]
Same(a, b) == a.x = b.x /\ a.y = b.y /\ a.q % 4 = b.q % 4

(* OnInitialize of the publisher and ParseParameters of the Gps refuse     *)
(* bodies the model does not have.                                         *)
BodiesExist ==
  /\ \A c \in Configs : c.reference \in Body /\ c.excluded \subseteq Body
  /\ Base \in Body

Init ==
  /\ config \in Configs
  /\ pose \in [Body -> Poses]
  /\ elevation \in [Body -> Heights]
  /\ tfs = {} /\ fix = << >> /\ tf_truth = << >> /\ fix_truth = << >>

-----------------------------------------------------------------------------
(* ModelTfPublisher: the other bodies hang on the reference body, and that *)
(* on the world.                                                           *)
MutantRelative(b) == Compose(pose[b], Inverse(pose[config.reference]))
Relative(b) == Compose(Inverse(pose[config.reference]), pose[b])

Children == Body \ (config.excluded \cup {config.reference})

Broadcast ==
  {[parent |-> config.reference, child |-> b, tf |-> Relative(b),
    z |-> elevation[b] - elevation[config.reference]] : b \in Children}
  \cup {[parent |-> "world", child |-> config.reference,
         tf |-> pose[config.reference], z |-> elevation[config.reference]] :
          w \in IF config.world THEN {TRUE} ELSE {}}

(* BeforePhysicsStep of the publisher and of the Gps, which need not be    *)
(* due in the same step.                                                   *)
BeforePhysicsStep(tf_due, fix_due) ==
  /\ tfs' = IF tf_due THEN Broadcast ELSE tfs
  /\ fix' = IF fix_due THEN Compose(pose[Base], Mount) ELSE fix
  /\ tf_truth' = IF tf_due THEN [pose |-> pose, elevation |-> elevation] ELSE tf_truth
  /\ fix_truth' = IF fix_due THEN pose[Base] ELSE fix_truth
  /\ UNCHANGED <<config, pose, elevation>>

(* Bodies are moved by physics, plugins and services.                      *)
Move(b) ==
  /\ pose' \in {[pose EXCEPT ![b] = p] : p \in Poses}
  /\ elevation' \in {[elevation EXCEPT ![b] = h] : h \in Heights}
  /\ UNCHANGED <<config, tfs, fix, tf_truth, fix_truth>>

Next ==
  \/ \E tf_due, fix_due \in BOOLEAN : BeforePhysicsStep(tf_due, fix_due)
  \/ \E b \in Body : Move(b)

Spec == Init /\ [][Next]_vars
-----------------------------------------------------------------------------
(* Followed from the world, the frames lead to where every body was when   *)
(* they were sent, at its height, and the fix is of the antenna.           *)
FramesAreTrue ==
  /\ \A t \in tfs :
       LET then == tf_truth
           parent == IF t.parent = "world" THEN [x |-> 0, y |-> 0, q |-> 0]
                     ELSE then.pose[t.parent]
           floor == IF t.parent = "world" THEN 0 ELSE then.elevation[t.parent]
       IN  /\ Same(Compose(parent, t.tf), then.pose[t.child])
           /\ floor + t.z = then.elevation[t.child]
  /\ fix # << >> => Same(Compose(fix, Inverse(Mount)), fix_truth)
=============================================================================
