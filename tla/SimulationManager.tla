-------------------------- MODULE SimulationManager --------------------------
(***************************************************************************)
(* The main loop of the server: SimulationManager::Main paces the cycles   *)
(* by the wall clock, decides when to visualize, and is stopped by SIGINT, *)
(* whose handler runs on the same thread between any two of its steps      *)
(* (flatland_server/src/simulation_manager.cpp, flatland_server_node.cpp). *)
(*                                                                         *)
(* Times are whole numbers of a unit; comparisons with half a cycle are    *)
(* multiplied by two.  Of World::Update, the Timekeeper and one plugin's   *)
(* timer are here (module UpdateTimer); the rest is left to other modules. *)
(***************************************************************************)
EXTENDS UpdateTimer

CONSTANTS
  Cycle,      \* 1 / update_rate: wall time of a cycle
  VizPeriod,  \* 1 / viz_pub_rate
  MaxWork,    \* bound: wall time the work of one cycle takes
  MaxCycles,  \* bound: cycles of a behaviour
  MaySignal   \* the user may press Ctrl-C

ASSUME TimesAssumption ==
  /\ {Cycle, VizPeriod} \subseteq Nat \ {0}
  /\ {MaxWork, MaxCycles} \subseteq Nat
  /\ MaySignal \in BOOLEAN

VARIABLES
  pc,         \* where Main is, then main
  manager,    \* the SimulationManager object exists
  ok,         \* rclcpp::ok
  paused,     \* World::IsPaused
  clock,      \* wall time since the loop began
  start,      \* `start` of the loop, of the same clock
  cycles,     \* iterations_
  visuals     \* how often the visualization was published

vars == <<pc, manager, ok, paused, clock, start, cycles, visuals, timer>>

TypeOK ==
  /\ pc \in {"load", "loop", "update", "spin", "pace", "returned", "ended",
             "undefined"}
  /\ manager \in BOOLEAN /\ ok \in BOOLEAN /\ paused \in BOOLEAN
  /\ {clock, start, cycles, visuals} \subseteq Nat
  /\ TimerTypeOK

Init ==
  /\ pc = "load" /\ manager = TRUE /\ ok = TRUE /\ paused = FALSE
  /\ clock = 0 /\ start = 0 /\ cycles = 0 /\ visuals = 0
  /\ TimerInit

Goto(l) == pc' = l

(* A world that cannot be loaded ends Main at once.                        *)
MakeWorld ==
  /\ pc = "load"
  /\ Goto("loop") \/ Goto("returned")
  /\ UNCHANGED <<manager, ok, paused, clock, start, cycles, visuals, timer>>

(* Twice the simulated time plus half a cycle, the time the decision about *)
(* the visualization looks at.                                             *)
VizTime == 2 * ticks * step + Cycle

MutantUpdateViz == VizTime % (2 * VizPeriod) \in 1 .. 2 * Cycle - 1
UpdateViz == VizTime % (2 * VizPeriod) \in 0 .. 2 * Cycle - 1

(* The head of the loop, and DebugVisualize after the update.              *)
Enter ==
  /\ pc = "loop" /\ ok
  /\ cycles < MaxCycles
  /\ Goto("update")
  /\ visuals' = IF UpdateViz THEN visuals + 1 ELSE visuals
  /\ UNCHANGED <<manager, ok, paused, clock, start, cycles, timer>>

Leave ==
  /\ pc = "loop" /\ ~ok
  /\ Goto("returned")
  /\ UNCHANGED <<manager, ok, paused, clock, start, cycles, visuals, timer>>

(* World::Update: the Timekeeper and the plugins stand still while the     *)
(* world is paused.                                                        *)
Update ==
  /\ pc = "update"
  /\ Goto("spin")
  /\ IF paused THEN UNCHANGED timer ELSE StepTime
  /\ UNCHANGED <<manager, ok, paused, clock, start, cycles, visuals>>

(* rclcpp::spin_some: services and marker feedback may pause or resume,    *)
(* and spawn the plugin's model.                                           *)
Spin ==
  /\ pc = "spin"
  /\ Goto("pace")
  /\ paused' \in BOOLEAN
  /\ Load \/ UNCHANGED timer
  /\ UNCHANGED <<manager, ok, clock, start, cycles, visuals>>

(* A cycle that ends early sleeps, one that ends late is made up for by    *)
(* the next, unless it is more than a cycle late.                          *)
MutantRestart(end, expected) == expected
Restart(end, expected) == IF end > expected + Cycle THEN end ELSE expected

Wake(end, expected) == IF end < expected THEN expected ELSE end

Pace(work) ==
  /\ pc = "pace"
  /\ Goto("loop")
  /\ LET end == clock + work
         expected == start + Cycle IN
     /\ clock' = Wake(end, expected)
     /\ start' = Restart(end, expected)
  /\ cycles' = cycles + 1
  /\ UNCHANGED <<manager, ok, paused, visuals, timer>>

(* main, after Main returned.                                              *)
Exit ==
  /\ pc = "returned"
  /\ Goto("ended")
  /\ manager' = FALSE
  /\ ok' = FALSE
  /\ UNCHANGED <<paused, clock, start, cycles, visuals, timer>>

(* SigintHandler: Shutdown, delete, and rclcpp::shutdown.                  *)
SigintHandler ==
  /\ MaySignal
  /\ pc \notin {"ended", "undefined"}
  /\ manager' = FALSE
  /\ ok' = FALSE
  /\ UNCHANGED <<pc, paused, clock, start, cycles, visuals, timer>>

(* A step of Main that uses members of the deleted manager: either it is   *)
(* one of the steps above, because the memory still holds them, or nothing *)
(* is said of the program any more.                                        *)
Undefined ==
  /\ ~manager
  /\ pc \in {"load", "loop", "update", "pace"}
  /\ Goto("undefined")
  /\ UNCHANGED <<manager, ok, paused, clock, start, cycles, visuals, timer>>

Next ==
  \/ MakeWorld \/ Enter \/ Leave \/ Update \/ Spin
  \/ \E work \in 0 .. MaxWork : Pace(work)
  \/ Exit
  \/ SigintHandler
  \/ Undefined

Spec == Init /\ [][Next]_vars

-----------------------------------------------------------------------------
(***************************************************************************)
(* Properties                                                              *)
(***************************************************************************)

(* "update_rate: the real time rate to run the simulation loop"            *)
(* (docs/core_functions/ros_launch.rst:26): however long single cycles     *)
(* take, the loop never gets ahead of the wall clock.                      *)
NotAhead == cycles * Cycle <= clock

(* What the loop has to make up for is at most one cycle, so it never runs *)
(* a burst of cycles after it was held up.                                 *)
AtMostOneCycleBehind == pc = "loop" => clock - start \in 0 .. Cycle

(* No visualization is missed: at any time there were as many as multiples *)
(* of the period went by in simulated time, the one at zero included       *)
(* ("viz_pub_rate: rate to publish visualization in Hz",                   *)
(* docs/core_functions/ros_launch.rst:30), also across pauses.             *)
VizKeepsUp ==
  pc = "update" => visuals >= 1 + VizTime \div (2 * VizPeriod)

(* A plugin's timer, as UpdateTimer states it (NoDrift), is checked here   *)
(* as well.                                                                *)

(* "Interrupt handler - sends shutdown signal to simulation_manager"       *)
(* (flatland_server_node.cpp:60): the manager whose Main is running is     *)
(* told to stop, and is there until Main has returned.                     *)
ManagerOutlivesMain == ~manager => pc \in {"returned", "ended"}
=============================================================================
