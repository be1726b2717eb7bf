------------------------------ MODULE Lidar3D ------------------------------
(***************************************************************************)
(* The MockLidar3D plugin (flatland_plugins/src/mock_lidar3d.cpp) and the  *)
(* PcdSampler that projects its map on threads of its own                  *)
(* (include/flatland_plugins/pcd_sampler.h): a scan is captured in one     *)
(* physics step, finished beside the steps that follow, and published in   *)
(* the first of them that finds it ready.                                  *)
(*                                                                         *)
(* Space has one horizontal axis; a yaw is 1 or -1 and so is an azimuth.   *)
(* The elevation of a channel is the rise per length.  A return is the     *)
(* square of its range, Far without one.  Without noise.                   *)
(***************************************************************************)
EXTENDS Integers, Sequences, FiniteSetsExt, SequencesExt

CONSTANTS
  Files,       \* pcd files: number of fields, and rows of numbers
  Channels,    \* elevations_, a sequence of slopes
  Tolerance,   \* elev_tolerance_, in whole slopes
  Chunks,      \* chunks of the map
  MinRange, MaxRange,
  Far,         \* no return
  OriginZ,     \* height of the sensor
  Heights,     \* heights_ of the extrusion mode
  Poses,       \* poses [x, yaw] of the sensor
  Crowds,      \* sets of bodies [x, low, high, model] around it
  MaxTime      \* bound: physics steps

VARIABLES
  map_pts,     \* map_pts_
  pose,        \* of the body of the plugin
  bodies,      \* what rays may hit
  time,        \* simulated time, in steps
  subscribed,  \* somebody listens to the cloud
  pending,     \* pending_scan_: "none", "running" or "ready"
  view,        \* the pose captured for the running scan
  chunks,      \* the chunks projected for it so far
  result,      \* the cached projection and its pose, << >> at first
  scan_stamp, dynamic_returns,
  cloud,       \* the cloud published last
  alive,       \* "yes", "waiting" in ~MockLidar3D, then "no"
  moments      \* history: pose and bodies of every step

vars == <<map_pts, pose, bodies, time, subscribed, pending, view, chunks,
          result, scan_stamp, dynamic_returns, cloud, alive, moments>>

(* ParseParameters refuses a range that does not begin before it ends; at  *)
(* most as many chunks as the threads of the pool are made.                *)
ParametersAccepted == MinRange < MaxRange /\ Chunks \in 1 .. 64 /\ Len(Channels) >= 1

Bins == {1, -1} \X DOMAIN Channels
Nothing == [b \in Bins |-> Far]
Abs(n) == IF n < 0 THEN -n ELSE n
Square(n) == n * n
Nearer(f, g) == [b \in Bins |-> Min({f[b], g[b]})]

(* LoadPcd: up to three numbers of every row; a file without three fields  *)
(* or without points is refused.                                           *)
Loads(file) == file.fields >= 3 /\ file.rows # << >>
LoadPcd(file) ==
  FoldLeft(LAMBDA pts, row : pts \o SubSeq(row, 1, Min({Len(row), 3})), << >>, file.rows)

(* SamplePcdMode without a map, or with one that turned out empty.         *)
Extrudes == map_pts = << >>

Init ==
  /\ \/ map_pts = << >>
     \/ \E file \in Files : Loads(file) /\ map_pts = LoadPcd(file)
  /\ pose \in Poses /\ bodies \in Crowds
  /\ time = 0 /\ subscribed = TRUE
  /\ pending = "none" /\ view = pose
  /\ chunks = << >> /\ result = << >>
  /\ scan_stamp = 0 /\ dynamic_returns = Nothing
  /\ cloud = << >> /\ alive = "yes"
  /\ moments = <<[pose |-> pose, bodies |-> bodies]>>

-----------------------------------------------------------------------------
(***************************************************************************)
(* PcdSampler                                                              *)
(***************************************************************************)

Point(i) == <<map_pts[3 * i - 2], map_pts[3 * i - 1], map_pts[3 * i]>>
PointCount == Len(map_pts) \div 3

(* The points of a chunk.                                                  *)
Points(chunk) ==
  (PointCount * (chunk - 1)) \div Chunks + 1 .. (PointCount * chunk) \div Chunks

(* The channel with the elevation nearest to that of a point.              *)
Misses(dx, dz) == [k \in DOMAIN Channels |-> Abs(dz - Channels[k] * Abs(dx))]
Channel(dx, dz) ==
  LET miss == Misses(dx, dz)
  IN  CHOOSE k \in DOMAIN Channels :
        \A j \in DOMAIN Channels : miss[k] < miss[j] \/ (miss[k] = miss[j] /\ k <= j)

(* The bin and the return of a point seen from a pose, none if it is out   *)
(* of range, above or below the sensor, or between the channels.           *)
Seen(p, from) ==
  LET dx == p[1] - from.x
      dz == p[3] - OriginZ
      r2 == Square(dx) + Square(p[2]) + Square(dz)
      k == Channel(dx, dz)
  IN  IF \/ r2 > Square(MaxRange) \/ r2 < Square(MinRange) \/ dx = 0
         \/ Misses(dx, dz)[k] > Tolerance * Abs(dx)
      THEN {} ELSE {<<(IF dx > 0 THEN 1 ELSE -1) * from.yaw, k, r2>>}

(* Project keeps the nearest point of a chunk in every bin.                *)
Project(chunk, from) ==
  LET seen == UNION {Seen(Point(i), from) : i \in Points(chunk)}
  IN  [b \in Bins |-> Min({Far} \cup {s[3] : s \in {s \in seen : <<s[1], s[2]>> = b}})]

-----------------------------------------------------------------------------
(***************************************************************************)
(* Rays against the bodies                                                 *)
(***************************************************************************)

(* Lidar3DRayCallback: of the bodies in front of the sensor the nearest;   *)
(* only models count where the map has the rest.                           *)
InFront(crowd, from, azimuth, models) ==
  {o \in crowd : /\ (models => o.model)
                 /\ (o.x - from.x) * azimuth * from.yaw \in 1 .. MaxRange}
Hit(crowd, from, azimuth, models) ==
  LET seen == InFront(crowd, from, azimuth, models)
  IN  {o \in seen : \A q \in seen : Abs(o.x - from.x) <= Abs(q.x - from.x)}

(* SamplePcdMode: a hit fills the channels that meet the body between its  *)
(* foot and its top.                                                       *)
DynamicReturn(o, from, k) ==
  LET r == Abs(o.x - from.x)
      z == r * Channels[k]
      r2 == Square(r) + Square(z)
  IN  IF r < MinRange \/ r2 > Square(MaxRange) \/ z < o.low - OriginZ \/ z > o.high - OriginZ
      THEN Far ELSE r2
DynamicReturns(crowd, from) ==
  [b \in Bins |-> Min({Far} \cup {DynamicReturn(o, from, b[2]) :
                                    o \in Hit(crowd, from, b[1], TRUE)})]

(* SampleExtrusionMode: a hit is repeated at every height.                 *)
Extruded(crowd, from) ==
  UNION {{<<azimuth, Abs(o.x - from.x), h>> :
            o \in {o \in Hit(crowd, from, azimuth, FALSE) : Abs(o.x - from.x) >= MinRange},
            h \in Heights} : azimuth \in {1, -1}}

-----------------------------------------------------------------------------
(***************************************************************************)
(* The physics thread                                                      *)
(***************************************************************************)

Ready == pending = "ready"

(* A scan that is not finished keeps the next one from being captured.     *)
Busy == pending = "running"

(* FinishPcdScan merges the snapshot of the bodies into the map.           *)
Merged == [stamp |-> scan_stamp, returns |-> Nearer(result.returns, dynamic_returns)]

Captures(due) == due /\ subscribed /\ ~Extrudes /\ ~Busy

(* SamplePcdMode takes the stamp, the bodies and the pose of this step.    *)
Capture ==
  /\ scan_stamp' = time
  /\ dynamic_returns' = DynamicReturns(bodies, pose)
  /\ view' = pose
  /\ chunks' = << >>
  /\ pending' = "running"

(* One physics step: a finished scan is published, then the next captured; *)
(* after it the bodies have moved.                                         *)
BeforePhysicsStep(due) ==
  /\ alive = "yes" /\ time < MaxTime
  /\ cloud' = IF Ready THEN Merged
              ELSE IF due /\ subscribed /\ Extrudes
                   THEN [stamp |-> time, points |-> Extruded(bodies, pose)]
              ELSE cloud
  /\ IF Captures(due) THEN Capture
     ELSE /\ pending' = IF Ready THEN "none" ELSE pending
          /\ UNCHANGED <<scan_stamp, dynamic_returns, view, chunks>>
  /\ time' = time + 1
  /\ pose' \in Poses /\ bodies' \in Crowds
  /\ moments' = Append(moments, [pose |-> pose', bodies |-> bodies'])
  /\ subscribed' \in BOOLEAN
  /\ UNCHANGED <<map_pts, result, alive>>

-----------------------------------------------------------------------------
(***************************************************************************)
(* Sample, on the thread of std::async and those of the pool               *)
(***************************************************************************)

MutantCached == result # << >>
Cached == result # << >> /\ result.pose = view

ProjectChunk(chunk) ==
  /\ pending = "running" /\ ~Cached
  /\ chunk \notin DOMAIN chunks
  /\ chunks' = [c \in DOMAIN chunks \cup {chunk} |->
                 IF c = chunk THEN Project(chunk, view) ELSE chunks[c]]
  /\ UNCHANGED <<map_pts, pose, bodies, time, subscribed, pending, view, result,
                 scan_stamp, dynamic_returns, cloud, alive, moments>>

(* All jobs are waited for; the nearest of all chunks counts.              *)
Sample ==
  /\ pending = "running"
  /\ Cached \/ DOMAIN chunks = 1 .. Chunks
  /\ result' = IF Cached THEN result
               ELSE [pose |-> view,
                     returns |-> FoldFunction(Nearer, Nothing, chunks)]
  /\ pending' = "ready"
  /\ UNCHANGED <<map_pts, pose, bodies, time, subscribed, view, chunks,
                 scan_stamp, dynamic_returns, cloud, alive, moments>>

(* ~MockLidar3D destroys the future first, which waits for the thread of   *)
(* std::async, and only then the sampler and the map.                      *)
Released == pending # "running"

Destroy ==
  /\ alive = "yes" \/ alive = "waiting"
  /\ alive' = IF Released THEN "no" ELSE "waiting"
  /\ UNCHANGED <<map_pts, pose, bodies, time, subscribed, pending, view, chunks,
                 result, scan_stamp, dynamic_returns, cloud, moments>>

Next ==
  \/ \E due \in BOOLEAN : BeforePhysicsStep(due)
  \/ \E chunk \in 1 .. Chunks : ProjectChunk(chunk)
  \/ Sample
  \/ Destroy

Spec == Init /\ [][Next]_vars
-----------------------------------------------------------------------------
(* What the sensor sees of the map from a pose, chunks and caches aside.   *)
MapSeen(from) ==
  LET seen == UNION {Seen(Point(i), from) : i \in 1 .. PointCount}
  IN  [b \in Bins |-> Min({Far} \cup {s[3] : s \in {s \in seen : <<s[1], s[2]>> = b}})]

(* A cloud is of one moment, the one of its stamp: the map and the bodies  *)
(* are those seen from the pose of that step, though it is finished steps  *)
(* later (mock_lidar3d.cpp:169, "at the capture pose"), and no scan is     *)
(* left running on a sampler that is gone.                                 *)
CloudsKeepTheirMoment ==
  /\ pending = "running" => alive # "no"
  /\ cloud # << >> =>
       LET then == moments[cloud.stamp + 1] IN
       IF Extrudes THEN cloud.points = Extruded(then.bodies, then.pose)
       ELSE cloud.returns = Nearer(MapSeen(then.pose), DynamicReturns(then.bodies, then.pose))
=============================================================================
