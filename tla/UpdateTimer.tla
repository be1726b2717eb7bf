---------------------------- MODULE UpdateTimer ----------------------------
(***************************************************************************)
(* The UpdateTimer that paces the publications of almost every plugin, and *)
(* the Timekeeper it reads (flatland_plugins/src/update_timer.cpp,         *)
(* flatland_server/src/timekeeper.cpp).  A plugin asks CheckUpdate once in *)
(* every physics step.                                                     *)
(*                                                                         *)
(* Times are whole numbers of a unit of which the step and the period are  *)
(* multiples; the code computes with doubles, whose rounding is left out.  *)
(* The code's comparison of fractions is multiplied by two, so that half a *)
(* step is a whole number.                                                 *)
(***************************************************************************)
EXTENDS Integers

CONSTANTS
  Steps,   \* step sizes a simulation is started with
  Periods  \* periods SetRate may compute; 0 is the rate .inf

ASSUME StepsAssumption == Steps \subseteq Nat \ {0}
ASSUME PeriodsAssumption == Periods \subseteq Nat

VARIABLES
  step,    \* Timekeeper::max_step_size_
  period,  \* UpdateTimer::period_
  ticks,   \* physics steps since time 0: Timekeeper::time_ is ticks * step
  born,    \* ticks when the plugin was loaded
  fired    \* how often CheckUpdate returned true since then

timer == <<step, period, ticks, born, fired>>

TimerTypeOK ==
  /\ step \in Steps
  /\ period \in Periods
  /\ ticks \in Nat
  /\ born \in Nat
  /\ fired \in Nat

(* Twice the time after n steps, plus the half step CheckUpdate adds.      *)
Shifted(n) == 2 * n * step + step

(* CheckUpdate at the time reached after n steps.                          *)
MutantNaive(n) == period = 0 \/ n * step > born * step + (fired + 1) * period
CheckUpdate(n) == period = 0 \/ Shifted(n) % (2 * period) < 2 * step

TimerInit ==
  /\ step \in Steps
  /\ period \in Periods
  /\ ticks = 0 /\ born = 0 /\ fired = 0

(* Timekeeper::StepTime, and CheckUpdate from AfterPhysicsStep.            *)
StepTime ==
  /\ ticks' = ticks + 1
  /\ fired' = IF CheckUpdate(ticks + 1) THEN fired + 1 ELSE fired
  /\ UNCHANGED <<step, period, born>>

(* A model with the plugin is spawned at any time, or spawned anew, with a *)
(* rate of its own.                                                        *)
Load ==
  /\ period' \in Periods
  /\ born' = ticks
  /\ fired' = 0
  /\ UNCHANGED <<step, ticks>>

TimerNext == StepTime \/ Load

TimerSpec == TimerInit /\ [][TimerNext]_timer

-----------------------------------------------------------------------------
(* Multiples of the period up to half a step after the n-th tick.          *)
Boundaries(n) == Shifted(n) \div (2 * period)

(* No drift: however period and step relate (the period need not be a      *)
(* multiple of the step), a plugin publishes exactly as often as multiples *)
(* of its period went by since it was loaded; with a period shorter than a *)
(* step, in every step.                                                    *)
NoDrift ==
  fired = IF period < step THEN ticks - born
          ELSE Boundaries(ticks) - Boundaries(born)
=============================================================================
