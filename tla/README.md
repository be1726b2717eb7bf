# A TLA+ model of Flatland2

Flatland2 is a two-dimensional robot simulator for ROS 2. A world is read from
yaml files, its layers and models become Box2D bodies, and plugins loaded for
each model simulate sensors and actuators. This directory holds TLA+ modules
that model the simulator, its plugins, its viewer and the parts of Box2D that
decide what a simulation does, TLC configurations that check them on small
instances, and TLAPS proofs of what holds for all instances.

Paths such as `world.cpp` are files of `src/flatland_server`,
`src/flatland_plugins` and `src/flatland_viz`; Box2D is the copy under
`src/flatland_server/thirdparty`. `PROJECT.json` maps every definition to its
lines.

## The system

### How it runs

One thread does nearly everything. `SimulationManager::Main` repeats a cycle:

1. decide from the simulated time whether this cycle visualizes;
2. `World::Update`: unless paused, the `BeforePhysicsStep` of every plugin in
   load order, one Box2D step (which calls back into the plugins when contacts
   begin, end and are solved), `Timekeeper::StepTime`, and the
   `AfterPhysicsStep` of every plugin; then the interactive markers;
3. publish the visualization;
4. `rclcpp::spin_some`: services (spawn, delete, move, pause, attach, detach,
   lift), topics (goals, velocity commands) and the feedback of rviz;
5. sleep for the rest of the cycle.

So callbacks never interleave with a physics step, but they arrive in any
order and number between two steps, and what one plugin remembers may be
deleted, replaced or changed before its next call. Three things leave that
thread: the signal handler, which interrupts it anywhere; the thread pool on
which the laser casts its rays; and the lidar's scan, which is finished beside
later steps. `flatland_viz` is another process.

### Components

| component | state | operations | talks to | correct means |
|---|---|---|---|---|
| SimulationManager, main | loop time, iterations, the manager object | a cycle, SIGINT, exit | World, Timekeeper, executor | keeps the rate without running ahead or in bursts; stops safely |
| Timekeeper, UpdateTimer | simulated time; a period per timer | StepTime, SetRate, CheckUpdate | every plugin | no drift, no double firing |
| World, ServiceManager | models, layers, pause flag | spawn, delete, move, pause, update, destroy | everything | all-or-nothing loads, nothing dangling |
| PluginManager | the list of plugins | load, delete, dispatch | World, plugins | a plugin is called only while its model exists |
| Model, ModelBody, Joint, Geometry | bodies, joints, their Box2D objects and poses | load entry by entry, destroy, set pose | Box2D | one C++ object per Box2D object; moves are rigid |
| CollisionFilterRegistry, Layer | layer ids, group counters, edges and chains | register a layer, a group; bits of names; read a map | Box2D filters | things collide exactly in shared layers |
| InteractiveMarkerManager | markers, last poses, drag flag and stamp | create, delete, mouse feedback, update | World, rviz | markers follow models; a drag never blocks for ever |
| YamlPreprocessor, YamlReader | files being expanded; keys asked for | expand, read | files, Lua | every include resolved at its place; no key unused |
| DebugVisualization | topics and their markers | add, reset, publish | rviz, viewer | shows what there is |
| flatland_viz | dialog, preview and tool state; displays | spawn tool, topic list, timer | services, topics | spawns what it shows; displays follow topics |
| LinkAttacher | weld joint, names of the attached and the settling model, group | attach, detach, per-step check, ride, settle | other models by name, Box2D, ForkController | welds owned, collisions restored, loads come down |
| Forklift, ForkController | elevation, target, goal, previous elevation | goal, lift service, animation, threshold crossings | LinkAttacher | goals reached, loads picked up and put down |
| BoolSensor, Bumper | contact counter and latch; contact records | contact callbacks, publication | Box2D | agree with the contact list |
| Laser, ThreadPool | last scan, jobs, queue, workers | scan, cast, wait, stop | fixtures | a scan is of one moment; no lost wake-up |
| MockLidar3D, PcdSampler | map, pending scan, cloud | capture, project, publish | thread pool, bodies | a cloud is of the moment of its stamp |
| MockDetection | anchored transforms | detect, broadcast | other models | sees what is in view, remembers where |
| ModelTfPublisher, Gps, Imu | last sample | publish | tf | frames lead to the bodies; samples add up |
| five drives, DynamicsLimits | command, velocity, wheel angle, odometry | command, step | Box2D | limits respected, wheels arrive, odometry true |
| SystemIdDrive, NARX, DiscreteOEModel | histories, latched command, held output | load, command, tick | UpdateTimer | runs the identified model on the commands of the moment |
| TerrainModifier, Tween | slip and its hold; progress and direction | step, trigger | bodies | acts where it should; does not jump |
| RandomWall, WorldModifier | wall list | run once | layers | walls close |
| Box2D dynamics | bodies, contacts, joints, sleep | step, create, destroy, move | listeners, filter | contacts exact; sleepers at rest |
| Box2D broad phase | tree, node pool, move buffer | create, move, destroy, query, cast | dynamics, sensors | valid tree, nobody missed |
| Box2D memory | chunks, free lists, stack frames | allocate, free | all of Box2D | no overlap, no leak, frames freed in order |

### What is hard

* **Names and pointers across a deletion.** A plugin holds the name of another
  model or the address of a joint or contact; between two calls the model is
  deleted and another one takes its name, or Box2D reuses the address.
* **Two actors on one object.** Two attachers weld one load; the controller
  and a client both command the forks; the user drags what a service moves;
  the viewer hears of topics late.
* **Partial failure.** Loading a model stops at any body, joint or plugin.
* **Order of destruction.** Joints before bodies, plugins before models or
  after them, and contacts that end in the middle of it.
* **Sampling.** Timers, thresholds, latches, gyros and identified models look
  at the world once per step or less; what happens between two looks may be
  missed or counted twice.
* **Memory of a former state.** The hint of the last scan, anchored frames,
  held slip, sleeping bodies, previous elevations.
* **Threads.** A queue with a condition variable, a scan beside the physics.
* **Limits.** Sixteen layers, sixteen-bit groups, stack and node pools, time.

`PROJECT.json` lists the hazards at their lines, with the property that would
catch each going wrong or the reason why none does. Known beside those, and
covered by no property: an attacher whose joint another carrier destroyed
leaves its load raised (`link_attacher.cpp:341`); `groupIndex` has 16 bits and
wraps (`link_attacher.cpp:180`); a plugin that throws something other than a
`std::exception` ends the server (`world.cpp:275`); forks that move instantly
down and up between two updates cross a threshold unseen
(`fork_controller.cpp:140`); a layer may be named `all`.

## Modules

| module | models |
|---|---|
| `LinkAttacher` | LinkAttacher of several robots, with the part of World and PluginManager it depends on |
| `Fork` | Forklift and ForkController of one robot |
| `Carriage` | LinkAttacher, Forklift and ForkController of one robot together |
| `InteractiveMarkers` | InteractiveMarkerManager and the pause of the World |
| `ClientsProofs` | proofs about attachers and markers |
| `UpdateTimer` | Timekeeper and one UpdateTimer |
| `SimulationManager`, `SimulationManagerProofs` | the main loop, pause and SIGINT, on top of `UpdateTimer`, which it implements; proofs about both |
| `ModelRegistry` | abstract: what the spawn and delete services promise |
| `WorldModels` | loading, aborting, deleting and destroying models; implements `ModelRegistry` |
| `Loading` | layers and models from their yaml entries, with every check; the preconditions Box2D asserts |
| `CollisionFilter` | CollisionFilterRegistry, the filters of layers and footprints, Box2D's decision |
| `ServerProofs` | proofs about `WorldModels` and `CollisionFilter` |
| `ModelPoses` | `Model::SetPose`, `TransformAll` and Geometry on quarter turns |
| `Yaml` | YamlPreprocessor and YamlReader over a small file system |
| `Viewer` | DebugVisualization and the displays of flatland_viz |
| `SpawnTool` | the spawn tool of flatland_viz and its dialog |
| `Detector` | abstract: what a BoolSensor promises |
| `ContactSensors`, `ContactSensorsProofs` | contacts, BoolSensor and Bumper; implements `Detector`; proofs |
| `ThreadPool`, `Laser`, `LaserProofs` | the pool, and the scans the Laser runs on it; proofs about both |
| `Lidar3D` | MockLidar3D and PcdSampler |
| `Detection` | MockDetection |
| `Frames`, `Imu` | ModelTfPublisher and Gps; the Imu |
| `Drives` | DynamicsLimits, and the five drives that use it |
| `MotionProofs` | proofs about `Fork` and `Drives` |
| `OmniKinematics` | the motion of a body on two turrets |
| `SystemIdDrive` | the identified models, and the drives that run them |
| `Terrain`, `Tween`, `Walls` | TerrainModifier; Tween; RandomWall with WorldModifier |
| `WorldPartsProofs` | proofs about `Loading`, `ModelPoses`, `Walls` and `Terrain` |
| `PhysicsWorld`, `PhysicsWorldProofs` | Box2D: bodies, contacts, joints, islands, sleep, a Step; proofs |
| `DynamicTree` | Box2D: the tree of the broad phase |
| `Memory` | Box2D: the block and stack allocators and what the world keeps in them |
| `MCClients`, `MCServer`, `MCMotion`, `MCSensors`, `MCWorld`, `MCContactSensors` | the instances that TLC checks |

`SimulationManager` composes the loop with a timer; `Laser` the scan with the
`ThreadPool`; `SystemIdDrive` the latch, the timer and the identified models;
`Carriage` the full `LinkAttacher` with the two plugins of `Fork`. Where a component only sees the outcome of
another, the outcome is a free choice and the module says so.

### Correspondence to the code

**LinkAttacher.** `joint`, `attached`, `settling` and `nocollide` are the
members of each attacher; `live` is `World::models_`; `welds` is Box2D's joint
list, with an address per joint that may be reused; `group` and `elev` belong
to the bodies of the models. `Spawn` and `Delete` are the services, with what
`OnInitialize` and Box2D's destruction of joints do; `OnAttachRequest` and
`OnDetachRequest` the attacher's services; `StartUpdate` and one
`BeforePhysicsStep` per attacher, in load order (`IsNext`), are an update;
`MoveForks` stands for the Forklift. Services require `pending = {}` because
they run between two updates. A name stands for the live model of that name,
which is what `FindModelByName` returns. Geometry is a free choice. The lock of
the b2World, which Attach and Detach test, is never held where they run.

**Fork.** `current`, `target`, `goal` and `prev` are members of the two
plugins. One `BeforePhysicsStep` is the animation and the controller together;
`ForkliftFirst` says which of them sees the other's result. The attacher is
two booleans, `attached` and `inRange`. `was` and `raised` are history.

**Carriage.** An update runs the turns of the three plugins one after another
in the order in which they were loaded (`order`, `turn`), so the controller and
the attacher each see the forks, the weld and the settling load as the turns
before them have left them. The attacher's turn is the whole `BeforePhysicsStep`
of `LinkAttacher`, the controller calls its `Attach` and `Detach`. `near` are
the loads within `capture_range`; a load that is welded on stays there.

**ContactSensors.** `touching` is Box2D's list of touching contacts. A step is
`BeforePhysicsStep`, any number of contact events, and `AfterPhysicsStep`;
deletions between steps end contacts too. `contact_states`, `collisions` and
`hit_something` are the members; `begun` and `solved` are history. A body
stands for one fixture. That contacts begin and end in turn, which the module
takes for granted, is a part of `ContactsAreExact` in `PhysicsWorld`.

**InteractiveMarkers.** `marker` is what the marker server shows,
`last_poses`, `manipulating` and `age` are the members (`age` counts the ticks
since `pose_update_stamp_`). One `Cycle` is `World::Update` with the ticks the
whole cycle takes; everything else happens between cycles. rviz is external:
it can also disappear in a drag (`Vanish`).

**CollisionFilter.** Category and mask are the sets of their one-bits.
`LoadLayer` checks, registers and builds as one entry of `LoadLayers` does;
`RefuseLayer` is its exceptions. `Ghost` and `Unghost` are what an attacher
does to the groups. `ShouldCollide` is `b2ContactFilter`.

**WorldModels.** A model is loaded one part per action, with a failure
possible before each, so that every intermediate state is a state of the
model. `bodies` and `joints` are the C++ objects, `b2bodies` and `b2joints`
Box2D's. `DestroyModel` is `~Model` including the contact events it causes;
`misuse` records a use of something that is gone. `DestroyLayers`,
`DestroyNextModel` and `DestroyRest` are `~World`.

**Loading.** What `WorldModels` leaves free: an entry of a yaml file is a
record, and each `throw` of the loaders is a condition on it. `stage` says how
far `MakeModel` or the loading of a layer is. A failed assertion of Box2D is a
stage of its own.

**UpdateTimer, SimulationManager.** Time is in whole units. `CheckUpdate` is
the code's comparison of fractions multiplied by two, so that half a step is a
whole number. `SimulationManager` adds the wall clock to it, with one action
per stage of the loop (`pc`), so that SIGINT can come between any two. After
the handler has deleted the manager, Main's next use of it is either the
normal step (the memory is intact) or `Undefined`. The benchmark mode of
`Main` is not modelled.

**Yaml.** A document is a tree of records, each with its kind; a path is a
sequence of names, so that a relative include resolves against the directory of
the file that holds it. `ProcessNodes` is the recursion of the preprocessor as
a recursive function over a depth (`Depth` bounds it, a file that includes
itself reaches the bound where the code recurses for ever). A reader's calls
are a schema; `accessed` is `accessed_keys_`. Lua and the type a scalar
converts to are external.

**Viewer, SpawnTool.** `Viewer` has the server side (`topics_` with markers and
the needs-publishing flag, drawing, publication, the list of topics) and the
viewer's (`Receive`, `DebugTimer`, a display per topic). A message is delivered
late, and a list may replace an earlier one before it is seen. `SpawnTool`'s
`state` is the tool's, the dialog is modal, and RViz calls the tool only
between activate and deactivate. `left` is history: the tool was left while its
preview was pinned and nothing has shown the preview since.

**Laser, ThreadPool.** Each critical section of `ThreadPool.h` is an action,
each notification another, since it is given after the unlock. A worker sleeps
(`wait`), is woken, tests, runs a job. The Laser enqueues a job per cluster of
rays, waits for all futures and publishes. `last` is the range that the
next scan uses as its first guess.

**Lidar3D.** `map_pts` is the map read once; a scan is captured in a step
(`lidar`, `bodies`, `time`), projected in chunks on the pool and published in
the first step that finds it ready. Destruction waits for it.

**Detection, Frames, Imu.** `anchored` is `anchored_tfs_`, `sent` the frames of
an update; `config` are the parameters of ModelTfPublisher, angles count
quarter turns. `linear_vel_local_prev` and `last_angle` are the members of Imu,
`Into` is its transform of accelerations as it is written, not a rotation, and
`Rate` is `pub_rate_`: a difference of velocities is multiplied by it whatever
time has passed. `turned`, `spent` and `gained` are history, the sums of what was
sent.

**Drives.** One `DriveStep` is a `BeforePhysicsStep`: limit the command (`Limit`), turn the
wheel, set joint limits and velocity, publish odometry if due. `kind` chooses
the plugin; what a plugin checks on loading is in its initialisation action,
the rear wheels of a tricycle in `rear`. `body_vel` are the velocities the body
has after the step: those of the drive, and what the impulses of the casters
(`PushCasters`) make of them, a choice from `Impulses` since the direction of a
caster is. A DiffDrive with identified models (`identified`) takes its velocities
from them and passes no limits (`FollowModels`); their outputs are a choice here
and computed in `SystemIdDrive`.
`OmniKinematics` is `ComputeBodyVelocity` on pairs of whole numbers.

**SystemIdDrive.** `hist` and `queues` are the trimmed histories. `age` is the
time since the last command. The narx_sim_tool replays rows through the same
model, DiffDrive steps its output-error model until it has caught up.
`RunsAsIdentified` compares them with the untrimmed definition.

**Terrain, Tween, Walls.** `slips` are the slip states a patch holds, `t` the
plugin's own clock; a speed is compared and scaled by its square. `progress` and
`direction` are tweeny's. `phase` of `Walls` is the run of the plugin; the list is
shuffled by a free choice. `origin` is the transform of the layer's body, through
whose inverse the robot's pose goes (`b2MulT`); the foot of an end piece is kept
times the square of the wall's length, so that a wall at any angle is exact.

**PhysicsWorld.** The record `phys` is the b2World. A step is
`FindNewContacts` if there are new fixtures, `Collide`, `Solve` over islands
and at most one impact of `SolveTOI`. `contacts` holds the contact of each pair
that has one, `list` their order: `Collide` walks along the list, because a
contact that ends or begins wakes bodies that contacts after it depend on, and
`Walk` says which contacts are looked at. An island is what a search from a
seed finds, the smallest set of moving bodies that no link leaves; which of
its bodies was the seed does not matter. What the solver does to velocities is
a choice.
`Spawn`, `Delete`, `Weld`, `Unweld`, `Drag` are the calls of the simulator
between steps.

**DynamicTree.** A tree is a record of nodes and free list; `InsertLeaf` with
its cost descent, `RemoveLeaf`, `Balance` with both rotations, the fattened and
predicted boxes, `Query` and `RayCast` are those of the code. `Validate` is
`b2DynamicTree::Validate`.

**Memory.** An address is a pair of heap allocation and offset. `Allocate` and
`Free` are the block allocator's, with chunks, free lists and the table of
chunks that grows; `Create` and `Destroy` what a fixture takes and gives back
of it; `Solve`, `BeginIsland` and so on the frames of the stack allocator in a
step. `DestroyWorld` is `~World` followed by `~b2World`.

## What the runs check

A run takes several small worlds that share nothing (an attacher's world, a
marker's world ...). The variable `which` is chosen in the initial state: *a
behaviour is one of one of them*, while the others stay in one fixed initial
state. So a run explores the sum of its worlds, not their product, and each
world is as it would be in a run of its own.

| run | states | question |
|---|---|---|
| `Clients` | 213 thousand | Are welds always owned, collisions restored, deletions noticed, raised loads brought down, loads that a controller picks up put down on the floor, and markers kept with their models, whatever clients order and delete? |
| `LaTwoOnOne` | violated | Does a load never collide with the carriers it is welded to? |
| `ImSecondDrag` | violated | Does only a stopped stream end a drag's pause? |
| `CsBody` | violated | Does the sensor of a body report that body only? |
| `Server` | 941 thousand | Is the rate kept, no timer tick or visualization lost, a spawn all or nothing, filtering by layers exact, yaml read as written, and does the viewer follow? |
| `SmInterrupt` | violated | Is the manager there until its Main has returned? |
| `Sensors` | 183 thousand | Is every scan, cloud, frame and sample true of its moment, and does every scan end? |
| `ImuFrame` | violated | Are the accelerations of the Imu in the frame its messages name? |
| `Motion` | 157 thousand | Do forks, drives, identified models, turrets and tweens do what they are commanded within their limits? |
| `World` | 614 thousand | Are contacts, the tree and memory of Box2D sound under creation, deletion and moves; are layers and models loaded wholly, moved rigidly, walled and roughened as configured; do counter, latch and records of the contact sensors agree with the contact list, and is every collision reported? |
| `PwSleep` | violated | Do contacts follow a body moved by SetTransform at the next step? |
| `LdAssert` | violated | Do the loaders keep what Box2D asserts? |

Each property states in the comment above it what it says of the code. The
modules also define `Mutant...` operators: plausible bugs in the operator next
to them, each of which makes one of the properties fail.

Behind the properties:

* `Clients`: `NoOrphanWeld`, `GhostsAreWelded`, `AttachmentsHold`,
  `RaisedComesDown` (liveness: what was raised comes down again unless someone
  holds it), `LoadsReachTheFloor` (nothing floats; liveness: forks that go down
  put the load down, and it reaches the floor), `MarkersFollow`, `AbandonedDragUnpauses` (liveness).
* `Server`: `AtMostOneCycleBehind`, `NoDrift`, `VizKeepsUp`,
  `CollideInSharedLayer`, `ObjectsPaired`, `ReadsAsWritten`, `SpawnIsAtomic`
  (the refinement of `ModelRegistry`), `SpawnedAsShown`, `ViewerFollows`
  (liveness).
* `Sensors`: `CloudsAndFramesAreTrue` (`CloudsKeepTheirMoment` of the lidar,
  `FramesAreTrue` of tf and gps), `ScansAreTrue`,
  `ScansEnd` (liveness), `DetectsAndRemembers`, `SamplesAddUp`.
* `Motion`: `ReleasedOnGround`, `WheelAndOdometry`, `RunsAsIdentified`,
  `LoadFollowsForks` and `GoalsAreReported` (each a safety and a liveness
  part), `DriveRespectsLimits`, `SteeringArrives` (liveness), `MovesAsSteered`,
  `TweenRuns` (with a liveness part).
* `World`: `BoxesAndBlocksAreSound` (`TreeAnswers` and `MemoryIsSound`),
  `ContactsAreExact`, `SleepersRest`, `LoadedOrUntouched`, `WallsClose`,
  `MovesRigidly`, `TerrainIsTame`; `RecordsAreExact`, `SensesModel` (the
  refinement of `Detector`), `CollisionsAreReported` (liveness).

### Bounds

* Attachers: two carriers and one payload are the smallest world with a load
  fought over and a carrier that is carried. Two joint addresses make reuse
  happen at once; three registered groups allow one respawn of a carrier. A
  second world with two loads and heights 0 to 2, so that one settles while
  the other is picked up; nothing is deleted there, see the deviations.
* Fork lift: a stroke of 4 at 2 per update, thresholds 1 and 3, so that the
  forks pass each between two updates; two loads, one of which is deleted and
  respawned; goals at the floor, at the lower threshold and above the stroke;
  all six load orders.
* Markers: one model is dragged, deleted and respawned, the other is a
  bystander; the window of 0.1 s to 1 s is 1 to 5 ticks, and cycles take up to
  3, so a cycle cannot jump over it.
* Contact sensors: a robot of two bodies, one of them excluded, a model and a
  layer; three contacts at a time of the six there can be, so that two end
  together and one is left; one solve per contact and step.
* Main loop: six cycles of 2 units with up to 5 units of work, steps below and
  at the cycle, periods below, at and not a multiple of the step, and none.
* Layers: three names for two bits, so that the table fills up; groups of 3
  bits, two registered. Model life: two names, two bodies, a joint and two
  plugins each, every part optional or failing.
* Loading: one entry that loads and one of each kind that does not; two layers,
  three bodies, two joints.
* Yaml: seven small file sets (relative, absolute, nested and sequence
  includes; a missing file, a missing variable, a failing expression, a file
  that includes itself) and four readers; a depth of 4.
* Viewer and spawn tool: two model names, three looks, one of them without
  bodies; two files, two points and a spot beside the ground.
* Laser: two workers, three rays in clusters of two, so that clusters overlap
  in time and one is shorter; five distances. A second ray that never meets
  the farthest scene keeps the hint wrong in both directions.
* Lidar: three map points, two channels, two chunks, scans up to time 3, so a
  scan can be finished after the next one is due. Detection: two targets and a
  wall on a line. Frames: three configurations. Imu: three quarter turns to
  either side, also in one go, four steps, two speeds along each axis.
* Drives: speeds and angles on both sides of zero, a command beyond
  `max_steer_angle`; limits of 1 and 2 per step; casters that slow the body and
  turn it; identified models whose outputs are beyond the limits.
* Identified models: lags of two, two coupled outputs, three files that are
  refused; a table of twelve rows; output-error models with and without delay;
  a sample time below and above the step. Values are residues modulo 3: the
  two values tell every sample and coefficient apart that could be swapped.
* Tween: durations 11, 22 and 44 ms in steps of 3 ms, which divide none.
* Physics: three bodies on three places, one driven, one dragged, one weld; a
  second scene in which a body is there instead of the wall. Two calls between
  two steps; sleep after one step of rest. Tree: up to four proxies of two
  shapes, one shift, four windows, two rays; the node pool holds 4 and grows.
  Memory: two sizes of block, chunks of two and three blocks, a chunk table of
  two that grows, a stack that overflows to the heap, seven creations; a chain
  whose proxies fit a block and one whose proxies do not.
* Walls: five walls in three layouts, one drawn upwards, one downwards, one level,
  one flat and one of slope 1; a layer at the origin and one moved and turned. Terrain:
  three patches that overlap, in both orders. Poses: layouts of two and three
  bodies, four poses.

Deadlock checking is off in the runs that combine worlds, since each of them
has one that ends (a loop that exits, a file that is read, a bound that is
reached), and in `SmInterrupt`, `PwSleep` and `LdAssert`, where the system or
the bounds may end a behaviour. The other runs check it.

### Fairness

Only the simulator is fair, never a client: the update and each attacher's
step in `LinkAttacher`, the turns of `Carriage`, the cycle in `InteractiveMarkers`, the steps in
`ContactSensors` and `Fork`, the steps of the drives and of the tween, drawing
and publishing in `Viewer`. The loop of `Main` justifies it: it runs until the
process ends and calls every plugin in each update that is not paused. That a
timer fires again and again (`SF` in `ContactSensors`, the `TRUE` in `Fork`)
is what `NoDrift` of `UpdateTimer` says of any finite period. The viewer's
`Receive` and `DebugTimer` are weakly fair: the middleware delivers reliable
messages, a wall timer keeps firing. In `Laser` each worker thread is weakly
fair, and so are the physics thread's own steps; a notification wakes some
sleeper, and which one is not fair. A world that is paused for ever makes no
progress, and the liveness properties are about worlds that are not.

## What is proved

TLAPS proves, for all values of the constants that satisfy the named
assumptions, the results below. In each case the property is not inductive
alone; the invariant that is, `IInv` or a name of its own (`DriveInv`,
`LoadInv`, `WallsInv`, ...), was model-checked before it was proved.
A proof has one lemma per action, and under it one step per conjunct that the
action can disturb.

* **Attachers** (`ClientsProofs`). `TypeOK`, `NoOrphanWeld` and
  `GhostsAreWelded`. That a weld keeps its owner needs: no attacher names
  itself (`NamesOthers`), addresses are unique among live joints
  (`OneWeldPerAddress`), gone models hold nothing (`GoneIsReset`). That shared
  groups mean welds needs: groups of loaded attachers are distinct and not
  used ahead of time (`FreshGroups`); the group of a loaded attacher is on
  nothing but its model and its load (`GroupMeansWeld`); of two models that
  share a group one owns it (`SharedGroupHasOwner`), which is what makes the
  group left behind by a deleted attacher harmless. `ReportsHold` adds
  `AttachmentsHold`: a report is backed by a joint, and the pair stays ghosted
  until another attacher meddles. `NothingHangs`: what is raised is attached or
  settling. Its hypothesis is that nothing is deleted (`Deletable = {}`); with
  deletions it is false, see the deviations.
  Assumptions: `NamesAssumption`, `HeightsAssumption`, `BoundAssumption`.
* **Forks** (`MotionProofs`). `TypeOK` and `ReleasedOnGround` for all heights,
  speeds, thresholds and both load orders. `ArrivalsAreTrue`: no false report
  of an arrival, in both orders. `PickupsRise`: only forks that rose through
  `attach_height` pick up; for a Forklift loaded first and forks that start on
  the ground, without either of which it is false (`SeenLast` relates the
  controller's previous height to the forks'). These two are actions, proved
  from `TypeOK` and `SeenLast`.
* **Main loop and timer** (`SimulationManagerProofs`). `NoDrift`, for all steps
  and periods: the number of firings is the difference of two quotients, and a
  step adds one exactly when `CheckUpdate` is true; the argument is arithmetic
  of `\div` and `%`, in lemmas of their own. `NotAhead` and
  `AtMostOneCycleBehind` from an invariant that relates both to `start`, which
  trails the clock and advances by at least a cycle at a time. `Spec =>
  TimerSpec`: the loop implements `UpdateTimer`, so `NoDrift` holds in it,
  through pauses, delays and signals. `NoVizMissed`: `VizKeepsUp`, from an
  invariant on what each stage of the loop still owes; it needs
  `VizAssumption`: a step is no longer than a cycle and than a visualization
  period, and a cycle is shorter than two of those; beyond that the code does
  miss some, as the deviations say.
* **Markers** (`ClientsProofs`). `MarkersFollow`. A marker that is
  held belongs to a live model (`HeldIsLive`), and the last pose of a model
  that nobody drags or deletes is the pose of its marker (`LastPosesTrue`),
  which is why skipping an update of a model that has not moved is right.
* **Life of models** (`ServerProofs`). `ObjectsPaired`: the pairing of C++
  and Box2D objects is kept because everything belongs to a known model or the
  ground (`Belongs`), a model that is being loaded is new (`LoadingIsNew`), and
  the World stops listening before its layers go (`Grounded`).
  `SpawnsAreAtomic`: the module implements `ModelRegistry`, step by step, under
  the mapping `Present`, `Residue`. Assumptions: the World's names are distinct
  from each other, a model has the two bodies its joints need.
* **Collision filters** (`ServerProofs`). `CollideInSharedLayer`. The
  table is injective because the lowest unused id exists as long as there are
  fewer layers than bits (a cardinality argument), so a full table never hands
  out an id twice. A filter keeps its meaning while the table grows
  (`FiltersMean`); a group other than 0 is on exactly the two fixtures of one
  pair (`GroupsPair`). Hypotheses: no layer is named `all`, and no more groups
  are registered than the negative half of `groupIndex` holds; both limits are
  those of the code, see the deviations. `Half \in Nat \ {0}`, true of every
  power of two, is a hypothesis because the provers know no exponentiation.
* **Contact sensors** (`ContactSensorsProofs`). `RecordsAreExact`, from: contacts
  are between live models, a latch stands for a contact that began and was not
  reported. Counting the contacts that end together is a lemma on
  cardinalities. `SensorReportsContacts`: the counter and the latch implement
  `Detector`.
* **Drives** (`MotionProofs`). `DrivesAreTrue` (`WheelAndOdometry`): whatever
  the kind of drive, its limits and commands, the wheel joint is drawn at the
  steering angle and within `max_steer_angle`, and the odometry adds up to the
  pose. `LimitsAreRespected` (`DriveRespectsLimits`): a step changes the speed,
  the angular velocity of a differential drive and the steering velocity of a
  steered one by no more than their limits allow, through zero included, where
  the code brakes first and accelerates in the rest of the step; the wheel
  turns with the steering velocity and is stopped by `max_steer_angle` alone.
  Lemmas on `Saturate`, signs of products and the share of the step do the
  nonlinear arithmetic. Three things are left out because the code limits none
  of them: a reversal with a deceleration but no acceleration limit, a DiffDrive
  on its identified models, and what casters make of the body's velocities.
  Assumption `DrivesAssumption`: limits are not negative, speeds, turns, poses,
  impulses and outputs are whole numbers.
* **Scans** (`LaserProofs`). `ScansAreTrue`: a published scan shows the nearest
  obstacle of every ray. Each job is in one place, the queue, a worker or the
  results (`JobsOnce`), so a scan is complete when all clusters have reported,
  and nothing is left of it then; the clusters divide the rays
  (`ClustersAre`, arithmetic of `\div` and `%`), so jobs never share a ray; a
  cast that looks first as far as the hint and then further finds what one
  that looks all the way finds, whatever the hint (`CastIsTrue`). That no job
  is left to sleepers (`NoLostWakeup`) needs that threads leave only at the
  end of an empty queue, and that notifications of single jobs end with the
  destructor (`PoolOK`). Assumption `LaserAssumption`: there is a thread, and
  distances, sizes and factors are whole numbers.
* **Dynamics of Box2D** (`PhysicsWorldProofs`). `ContactsAreExact` and
  `SleepersRest`, for any bodies, welds, places and speeds. A world is `Sound`
  when what it refers to lives (`IsWorld`), the listener's events are balanced
  (`Exact`), a pair that is to collide and whose fat shapes overlap has its
  contact or a body in the move buffer (`Covers`), and sleepers stand still
  (`Standing`). Every call between steps keeps it sound: what shifts a fat
  shape, makes a body or releases it also puts it into the move buffer. A Step
  makes it `Settled`: the buffer is empty, so that `Covers` gives the contacts,
  and no sleeper is linked to a body in motion (`Together`). The latter holds
  since a set that no link leaves contains the links of its members
  (`IslandsAreClosed`), an island sleeps only as a whole and at rest, new
  contacts do not touch yet, and an impact stops the body it puts back. Which
  contacts `Collide` looks at does not matter for this: it only ends contacts
  of pairs that are apart or are not to collide. Assumption `WorldAssumption`:
  places and speeds are whole numbers, bodies are spawned at places, welds are
  between two bodies, and an island must rest for at least one step
  (`b2_timeToSleep` is positive).
* **Loading** (`WorldPartsProofs`). `LoadsAllOrNothing` (`LoadedOrUntouched`):
  whichever entries the files hold and wherever one is refused. While a model
  is in the making, the b2World is that of the layers and exactly what the model
  and the unfinished body have of it (`AddsToLayers`), so that deleting both
  gives back what was there; the model follows the entries read so far
  (`Follows`), and each enabled joint is one between its bodies (`Joined`). Two
  joints are never the same one because names are checked. That Box2D finds an
  address for a new body is a cardinality argument (`RoomLeft`). Assumption
  `LoadAssumption`: the bounds are natural numbers, `enabled` is a Boolean and
  footprints come in a list.
* **Poses** (`WorldPartsProofs`). `ModelsMoveRigidly` (`MovesRigidly`): a turn
  keeps lengths, and what a frame does its inverse undoes; products of
  coordinates are multiplied out in lemmas. Assumption `PoseAssumption`: a
  layout has a body, coordinates are whole and angles are quarter turns, as
  everywhere in `ModelPoses`.
* **Walls** (`WorldPartsProofs`). `AddedWallsClose` (`WallsClose`): the wall
  plugin works on a list that it inserts into at the front while it holds
  indices into it; `WallsInv` says that every index still means the wall it was
  drawn for. On which side the new wall lies does not follow from where the robot
  is alone: the code moves both ends by the same signed distance, in x, in y, or
  in both, so `LiesByDrawing` states what is true, that it is the robot's side for
  a wall drawn further in x than in y and the other side for one drawn further
  in y, and that a wall of slope 1 gets its new wall on its own line
  (`LiesAsDrawn` compares the two cross products). The distance is that asked for
  if the old wall is straight along an axis; at other angles only the direction
  is kept. The two of a double wall are moved by opposite amounts. Assumption
  `WallAssumption`: the distance is a whole number but 0 (with 0, which nothing
  refuses, the new wall lies on the old one), the walls of a layer differ,
  vertices are whole, and the layer is turned by quarter turns.
* **Terrain** (`WorldPartsProofs`). `TerrainStaysTame` (`TerrainIsTame`), an
  action, from `TerrainInv`, which says that no slip state is held longer than
  its patch says: for any patches, with boxes given by any two corners. Without
  rubble the forward speed left is a part of what it was with the pull of the
  slope, and the turn left a part of what it was: a share of a value lies
  between nothing and the value (`WholeShare`). Only a slope's pull can turn the
  forward speed round, and the lateral drift adds speed across; neither is
  bounded by the property, but for the cap of the slope. Assumption
  `TerrainAssumption`: `Unit` and the step are positive, parameters and
  velocities are whole numbers.

Only model-checked:

* all liveness properties (fairness and `ENABLED` are out of the prover's
  reach), and the properties that have a liveness part;
* what is computed by recursion or folds over data (`Yaml`, `DynamicTree`,
  `Memory`, the identified models of `SystemIdDrive`), whose results for every
  input cannot be proved without induction over data; `Yaml` and `DynamicTree`
  use RECURSIVE operators, and no module with theorems reaches them;
* what the violated runs refute;
* the properties of the other modules: `Carriage`, `Viewer`, `SpawnTool`,
  `Lidar3D`, `Detection`, `Frames`, `Imu`, `OmniKinematics`, `Tween`.

## Deviations found

Each of the first seven is a run that TLC finds violated.

1. *Two attachers on one load* (`LaTwoOnOne`). `link_attacher.h:28` says that
   attached models stop colliding. A carrier attaches a load and a second one
   attaches the same load, which moves it into the second one's group: the first
   is still welded to it, and the two are in different negative groups, so they
   collide. `AttachmentsHold` states what remains true: the pair keeps a common
   group until another attacher attaches or releases one of the two.
2. *A second drag* (`ImSecondDrag`). MOUSE_DOWN leaves the stamp of the
   previous drag, so the next update takes the new drag for an abandoned one.
3. *The body of a BoolSensor* (`CsBody`). `bool_sensor.rst:4` promises a
   sensor of one body; contacts of the whole model are counted.
4. *SIGINT* (`SmInterrupt`). The handler deletes the manager its Main is using.
5. *The frame of the Imu* (`ImuFrame`). `imu.rst:44-46` has both messages in a
   frame that an identity transform leads to from the body. The code computes
   `sin x + cos y` where the rotation into that frame is `-sin x + cos y`: a
   robot that is not along the world's x axis gets the sign of an acceleration
   wrong. `SamplesAddUp` is stated over what the code sends.
6. *A move of a sleeping body* (`PwSleep`). `b2Body.h:160` promises updated
   contacts at the next step, but `SetTransform` wakes nobody and sleeping
   pairs are skipped.
7. *Assertions of Box2D* (`LdAssert`). A lone obstacle pixel in a bitmap, a
   footprint without area, or a joint of a body with itself aborts the server.

Others limit what a property can say; a property that holds only outside one
of them states the exception.

Attachers, forks, markers:

* A deleted carrier leaves its load in the collision group, although
  `link_attacher.h:80` promises to clean up (`~LinkAttacher` cannot, since
  plugins go before bodies and the load is known by name only).
* The pointer comparison of `LinkAttacher::BeforePhysicsStep` is blind to the
  reuse of a joint's address by another carrier that has attached this one.
  `Detach` then destroys the other carrier's joint, whose load stays raised:
  this is why `RaisedComesDown` is checked in a world without deletions.
* A model respawned with the name and pose of its predecessor gets no marker
  update until it moves, because `last_poses_` is not erased; a model moved
  back right after a drag leaves its marker displaced.
* A press of the mouse button without a drag, whose stamp is older than 1 s,
  pauses the world until the next drag, as does a cycle longer than the window.
* `prev_elevation_` starts at zero: with `initial_lifted` the first update is
  taken for a rise, and a load in range is attached, against
  `fork_controller.rst:93`.

Server:

* A layer named `all` is read as every layer.
* The visualization window is as long as a cycle of wall time but is compared
  with simulated time: with a step larger than a cycle, windows are missed.
* `Model::SetPose` gives every body the commanded angle: relative angles are
  lost. A model all of whose bodies are disabled is moved through `bodies_[0]`.
* A blank line at the end of a line-segment file makes the layer be refused.
* `YamlReader(const Node&)` runs the preprocessor again with an empty
  reference path; `$[include]` outside of a sequence stays plain text; an
  include of itself recurses without end; `env` and `param` try types in a
  different order; a boolean parameter arrives as text; Lua states are never
  closed.
* The topics of a layer without edges and of a model without fixtures are
  deleted by the next `Publish`; the latter reappears in every cycle.

Sensors:

* `anchored_tfs_` never forgets a target (`mock_detection.h:70` wants that);
  an elevated body still occludes.
* The laser's `intensity_` keeps a reflection across rays (`laser.cpp:264`
  against `laser.h:124`); the jobs of a scan share one noise generator without
  a lock, as do the lidar's.
* A short row of an ASCII point cloud shifts all coordinates after it.
* `linear_vel_local_prev` of the Imu is not initialised, and its first sample is
  a difference from that; accelerations are multiplied by `pub_rate_`, infinite
  by default (`imu.rst:50-54` says so), whatever time lies between two samples.

Drives and actuators:

* A reversal is not limited when the deceleration limit is set and the
  acceleration limit is zero (`dynamics_limits.cpp:66`).
* The distance a wheel needs to stop is computed from the acceleration limit:
  with a smaller deceleration limit it oscillates. `d_delta_` is not reset at
  `max_steer_angle`.
* Odometry starts at the pose of the first step; that of TricycleDrive is the
  pose in the world; the twist of TricycleDriveAckermann jumps after a
  MoveModel. With both turrets of an OmniDrive side by side, the offset of the
  wheels is not used; OmniDrive does not require wheels that are anchored at
  the body.
* Above the simulation's rate a NARX model advances one sample per step, while
  DiffDrive's output-error model catches up.
* Tween truncates its step to whole milliseconds and its duration to sixteen
  bits (`tweenpoint.tcc:77`); a duration of 0 divides by zero; a triggered
  tween goes a step ahead before it turns.
* `apply_only_if_moving` of TerrainModifier is read by nobody; drift adds up
  with every step.
* RandomWall asked for more walls than there are reads beyond its list; it
  throws string literals but catches `std::string`; a robot on the wall is only
  logged. The new wall is on the side `random_wall.rst` gives it or on the other,
  as the old one was drawn, and a wall of slope 1 gets one on its own line.

Viewer:

* A model deleted and respawned with fewer markers within 250 ms leaves the
  surplus of its predecessor on display.
* The counter behind the numbered names advances on "cancel"; "OK" without a
  readable file ends flatland_viz; the response of the spawn service is
  ignored, and the arrow of the preview stays visible.
* A preview that is pinned when the tool is left is hidden but stays pinned:
  after the tool is entered again and the dialog cancelled, the next click
  spawns a model that is not in view (`left` of `SpawnTool`).

Box2D:

* `GetMaxBalance` can reach 2 after removals.
* `~World` hands the layers' fixtures over to `~b2World`, which frees what they
  keep on the heap; nothing is lost.

## Not modelled

* The narrow phase (`b2Collide*`, `b2Distance`, `b2TimeOfImpact`), the
  constraint solvers and the joints' equations: floating-point iteration, of
  which a model in whole numbers would say nothing. `PhysicsWorld` takes its
  outcome as a choice. Parts of Box2D that the simulator never calls: `b2Rope`,
  gear, pulley, wheel, rope and motor joints, `SetType`, `SetActive`,
  `DestroyFixture`, `ShiftOrigin`.
* Noise: the draws of the sensors, a free choice or nothing.
* Easings of irrational value, the conversion to latitude and longitude, the
  geometry of markers, bitmap contours (OpenCV), pluginlib, Lua, yaml-cpp, log
  output. tweeny is modelled as far as Tween uses it.
* The windows of flatland_viz other than the spawn tool and the displays of
  debug topics. The pause tool is one service call.
* `Bumper`'s message, and world plugins other than RandomWall.

## Plan

Done: the plan of the core (attachers, markers, contacts, forks, filters, model
life, main loop and timers) and its extension to loading, poses, yaml, the
viewer, laser and pool, lidar, detection, frames, Imu, drives, identified
models, terrain, tweens, walls, and the dynamics, broad phase and memory of
Box2D.

Done as well: the proofs about attachers, forks, loop and timer, markers, the
life of models, filters, contact sensors, drives, scans, the dynamics of
Box2D, loading, poses, walls and terrain.

Next, by importance, are proofs:

1. `Imu`'s `SamplesAddUp`, `OmniKinematics`' `MovesAsSteered`, `Lidar3D`'s
   `CloudsKeepTheirMoment`.
2. `LoadFollowsForks` of `Carriage`, its safety half.

And in the models: the message of the Bumper; a heading for the odometry of the
drives; two fork lifts of `Carriage` that take a load over from each other.
