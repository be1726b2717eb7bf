---------------------- MODULE SimulationManagerProofs ----------------------
(***************************************************************************)
(* Proofs about UpdateTimer, and about SimulationManager on top of it.     *)
(***************************************************************************)
EXTENDS SimulationManager, TLAPS

(***************************************************************************)
(* The timer.  The argument is integer division: advancing the time by one *)
(* step, which is at most one period, moves the quotient by the period up  *)
(* by one exactly when the remainder falls into the first step, which is   *)
(* the test CheckUpdate makes.                                             *)
(***************************************************************************)

(* Multiplication by a positive number is monotonic.                       *)
LEMMA TimesMonotonic ==
  ASSUME NEW q \in Nat \ {0}, NEW a \in Int, NEW b \in Int, a < b
  PROVE  q * a + q <= q * b
<1>1. b - a - 1 \in Nat
  OBVIOUS
<1>2. q * (b - a - 1) \in Nat
  BY <1>1
<1>3. q * (b - a - 1) = q * b - q * a - q
  OBVIOUS
<1> QED
  BY <1>2, <1>3

(* Quotient and remainder are determined by their equation.                *)
LEMMA DivisionUnique ==
  ASSUME NEW q \in Nat \ {0}, NEW a \in Int, NEW b \in Int,
         NEW r \in 0 .. q - 1, NEW s \in 0 .. q - 1,
         q * a + r = q * b + s
  PROVE  a = b /\ r = s
<1>1. ~(a < b)
  BY TimesMonotonic
<1>2. ~(b < a)
  <2>1. ASSUME b < a PROVE FALSE
    <3>1. q * b + q <= q * a
      BY <2>1, TimesMonotonic
    <3> QED
      BY <3>1
  <2> QED
    BY <2>1
<1> QED
  BY <1>1, <1>2

(* The division of a number by a positive one.                             *)
LEMMA Division ==
  ASSUME NEW q \in Nat \ {0}, NEW x \in Nat
  PROVE  /\ x \div q \in Int
         /\ x % q \in 0 .. q - 1
         /\ x = q * (x \div q) + (x % q)
  BY Z3

(* Adding d to x, with d at most q, increases the quotient by one if the   *)
(* remainder of the sum is smaller than d, and leaves it alone otherwise.  *)
LEMMA QuotientOfSum ==
  ASSUME NEW q \in Nat \ {0}, NEW x \in Nat, NEW d \in 1 .. q
  PROVE  (x + d) \div q = IF (x + d) % q < d THEN (x \div q) + 1 ELSE x \div q
<1> DEFINE a == x \div q
           r == x % q
           b == (x + d) \div q
           s == (x + d) % q
<1>1. a \in Int /\ r \in 0 .. q - 1 /\ x = q * a + r
  BY Division
<1>2. b \in Int /\ s \in 0 .. q - 1 /\ x + d = q * b + s
  <2>1. x + d \in Nat
    OBVIOUS
  <2> QED
    BY <2>1, Division
<1> HIDE DEF a, r, b, s
<1>3. CASE r + d < q
  <2>1. r + d \in 0 .. q - 1
    BY <1>1, <1>3
  <2>2. q * a + (r + d) = q * b + s
    BY <1>1, <1>2
  <2>3. a = b /\ r + d = s
    BY <2>1, <2>2, <1>1, <1>2, DivisionUnique
  <2>4. ~(s < d)
    BY <2>3, <1>1
  <2> QED
    BY <2>3, <2>4 DEF a, b, s
<1>4. CASE r + d >= q
  <2>1. r + d - q \in 0 .. q - 1
    BY <1>1, <1>4
  <2>2. q * (a + 1) = q * a + q
    BY <1>1
  <2>3. q * (a + 1) + (r + d - q) = q * b + s
    BY <1>1, <1>2, <2>2
  <2>4. a + 1 = b /\ r + d - q = s
    BY <2>1, <2>3, <1>1, <1>2, DivisionUnique
  <2>5. s < d
    BY <2>4, <1>1
  <2> QED
    BY <2>4, <2>5 DEF a, b, s
<1> QED
  BY <1>1, <1>3, <1>4

-----------------------------------------------------------------------------
TimerInv == TimerTypeOK /\ born <= ticks /\ NoDrift

(* A timer that was just loaded.                                           *)
Fresh == TimerTypeOK /\ born = ticks /\ fired = 0

LEMMA FreshInv == Fresh => TimerInv
<1> SUFFICES ASSUME Fresh PROVE TimerInv
  OBVIOUS
<1>1. born <= ticks /\ ticks - born = 0
  BY DEF Fresh, TimerTypeOK
<1>2. period >= step => Boundaries(ticks) - Boundaries(born) = 0
  <2>1. ASSUME period >= step PROVE Boundaries(ticks) \in Int
    <3>1. Shifted(ticks) \in Nat /\ 2 * period \in Nat \ {0}
      BY <2>1, StepsAssumption, PeriodsAssumption DEF Fresh, TimerTypeOK, Shifted
    <3> QED
      BY <3>1, Division DEF Boundaries
  <2> QED
    BY <2>1 DEF Fresh
<1> QED
  BY <1>1, <1>2, StepsAssumption, PeriodsAssumption
     DEF Fresh, TimerInv, NoDrift, TimerTypeOK

LEMMA TimerInitInv == TimerInit => TimerInv
<1>1. TimerInit => Fresh
  BY StepsAssumption, PeriodsAssumption DEF TimerInit, Fresh, TimerTypeOK
<1> QED
  BY <1>1, FreshInv

(* One step advances the count of boundaries by what CheckUpdate says.     *)
LEMMA StepCountsBoundary ==
  ASSUME TimerTypeOK, period >= step
  PROVE  /\ Boundaries(ticks) \in Int
         /\ Boundaries(ticks + 1) = IF CheckUpdate(ticks + 1)
                                    THEN Boundaries(ticks) + 1
                                    ELSE Boundaries(ticks)
<1> DEFINE q == 2 * period
           x == Shifted(ticks)
           d == 2 * step
<1>1. q \in Nat \ {0} /\ x \in Nat /\ d \in 1 .. q /\ period # 0
  BY StepsAssumption, PeriodsAssumption DEF TimerTypeOK, Shifted
<1>2. Shifted(ticks + 1) = x + d
  <2>1. ticks \in Nat /\ step \in Nat
    BY StepsAssumption DEF TimerTypeOK
  <2> QED
    BY <2>1 DEF Shifted
<1>3. (x + d) \div q = IF (x + d) % q < d THEN (x \div q) + 1 ELSE x \div q
  <2> HIDE DEF q, x, d
  <2> QED
    BY <1>1, QuotientOfSum
<1>4. x \div q \in Int
  <2> HIDE DEF q, x, d
  <2> QED
    BY <1>1, Division
<1> QED
  BY <1>1, <1>2, <1>3, <1>4 DEF Boundaries, CheckUpdate

(* A period shorter than the step fires in every step.                     *)
LEMMA ShortPeriodFires ==
  ASSUME TimerTypeOK, period < step
  PROVE  CheckUpdate(ticks + 1)
<1>1. CASE period = 0
  BY <1>1 DEF CheckUpdate
<1>2. CASE period # 0
  <2> DEFINE q == 2 * period
             x == Shifted(ticks + 1)
  <2>1. q \in Nat \ {0} /\ x \in Nat /\ q <= 2 * step
    BY <1>2, StepsAssumption, PeriodsAssumption DEF TimerTypeOK, Shifted
  <2>2. x % q \in 0 .. q - 1
    <3> HIDE DEF q, x
    <3> QED
      BY <2>1, Division
  <2>3. x % q < 2 * step
    <3>1. step \in Nat
      BY StepsAssumption DEF TimerTypeOK
    <3> HIDE DEF q, x
    <3> QED
      BY <2>1, <2>2, <3>1
  <2> QED
    BY <2>3 DEF CheckUpdate
<1> QED
  BY <1>1, <1>2

LEMMA TimerNextInv == TimerInv /\ [TimerNext]_timer => TimerInv'
<1> SUFFICES ASSUME TimerInv, [TimerNext]_timer PROVE TimerInv'
  OBVIOUS
<1>1. CASE StepTime
  <2>1. TimerTypeOK' /\ born' <= ticks'
    BY <1>1 DEF TimerInv, TimerTypeOK, StepTime
  <2>2. CASE period < step
    <3>1. fired' = fired + 1
      BY <1>1, <2>2, ShortPeriodFires DEF TimerInv, StepTime
    <3> QED
      BY <1>1, <2>1, <2>2, <3>1 DEF TimerInv, NoDrift, TimerTypeOK, StepTime
  <2>3. CASE period >= step
    <3>1. /\ Boundaries(ticks) \in Int
          /\ Boundaries(ticks + 1) = IF CheckUpdate(ticks + 1)
                                     THEN Boundaries(ticks) + 1
                                     ELSE Boundaries(ticks)
      BY <2>3, StepCountsBoundary DEF TimerInv
    <3>2. Boundaries(born) \in Int
      <4>1. Shifted(born) \in Nat /\ 2 * period \in Nat \ {0}
        BY <2>3, StepsAssumption, PeriodsAssumption DEF TimerInv, TimerTypeOK, Shifted
      <4> QED
        BY <4>1, Division DEF Boundaries
    <3>3. fired = Boundaries(ticks) - Boundaries(born)
      BY <2>3, StepsAssumption, PeriodsAssumption DEF TimerInv, NoDrift, TimerTypeOK
    <3>4. fired' = Boundaries(ticks + 1) - Boundaries(born)
      BY <1>1, <3>1, <3>2, <3>3 DEF StepTime
    <3>5. /\ Boundaries(ticks)' = Boundaries(ticks + 1)
          /\ Boundaries(born)' = Boundaries(born)
      BY <1>1 DEF StepTime, Boundaries, Shifted
    <3> QED
      BY <1>1, <2>1, <2>3, <3>4, <3>5, StepsAssumption, PeriodsAssumption
         DEF TimerInv, NoDrift, TimerTypeOK, StepTime
  <2> QED
    BY <2>2, <2>3, StepsAssumption, PeriodsAssumption DEF TimerInv, TimerTypeOK
<1>2. CASE Load
  <2>1. Fresh'
    BY <1>2 DEF TimerInv, TimerTypeOK, Load, Fresh
  <2> QED
    BY <2>1, FreshInv, PTL
<1>3. CASE UNCHANGED timer
  BY <1>3 DEF TimerInv, TimerTypeOK, NoDrift, Boundaries, Shifted, timer
<1> QED
  BY <1>1, <1>2, <1>3 DEF TimerNext

(* However step and period relate and whenever the plugin is loaded, its   *)
(* timer (UpdateTimer::CheckUpdate) never publishes too often or too       *)
(* rarely: the count of publications is the count of period boundaries.    *)
THEOREM RateIsExact == TimerSpec => []NoDrift
<1>1. TimerInv => NoDrift
  BY DEF TimerInv
<1> QED
  BY TimerInitInv, TimerNextInv, <1>1, PTL DEF TimerSpec

-----------------------------------------------------------------------------
(***************************************************************************)
(* The pacing of the main loop, for every cycle time and any work of the   *)
(* cycles.  Neither property is inductive alone: the wall clock is related *)
(* to the count of cycles through `start`, which trails the clock and      *)
(* advances by at least a cycle at a time.                                 *)
(***************************************************************************)

TimeOK == clock \in Nat /\ start \in Nat /\ cycles \in Nat

IInv ==
  /\ TimeOK
  /\ start <= clock
  /\ clock - start <= Cycle
  /\ cycles * Cycle <= start

LEMMA InitInv == Init => IInv
BY TimesAssumption DEF Init, IInv, TimeOK

(* One cycle, whatever its work: the only step that moves the clock.       *)
LEMMA PaceInv ==
  ASSUME IInv, NEW work \in 0 .. MaxWork, Pace(work)
  PROVE  IInv'
<1> DEFINE end == clock + work
           expected == start + Cycle
<1>1. /\ clock \in Nat /\ start \in Nat /\ cycles \in Nat /\ Cycle \in Nat
      /\ work \in Nat /\ cycles * Cycle <= start
  BY TimesAssumption DEF IInv, TimeOK
<1>2. /\ clock' = IF end < expected THEN expected ELSE end
      /\ start' = IF end > expected + Cycle THEN end ELSE expected
      /\ cycles' = cycles + 1
  BY DEF Pace, Wake, Restart
<1>3. (cycles + 1) * Cycle = cycles * Cycle + Cycle
  BY <1>1
<1>4. expected <= start'
  BY <1>1, <1>2
<1>5. cycles' * Cycle <= start'
  BY <1>1, <1>2, <1>3, <1>4
<1>6. TimeOK' /\ start' <= clock' /\ clock' - start' <= Cycle
  BY <1>1, <1>2 DEF TimeOK
<1> QED
  BY <1>5, <1>6 DEF IInv

LEMMA NextInv == IInv /\ [Next]_vars => IInv'
<1> SUFFICES ASSUME IInv, [Next]_vars PROVE IInv'
  OBVIOUS
<1>1. CASE MakeWorld
  BY <1>1 DEF MakeWorld, IInv, TimeOK
<1>2. CASE Enter
  BY <1>2 DEF Enter, IInv, TimeOK
<1>3. CASE Leave
  BY <1>3 DEF Leave, IInv, TimeOK
<1>4. CASE Update
  BY <1>4 DEF Update, IInv, TimeOK
<1>5. CASE Spin
  BY <1>5 DEF Spin, IInv, TimeOK
<1>6. ASSUME NEW work \in 0 .. MaxWork, Pace(work) PROVE IInv'
  BY <1>6, PaceInv
<1>7. CASE Exit
  BY <1>7 DEF Exit, IInv, TimeOK
<1>8. CASE SigintHandler
  BY <1>8 DEF SigintHandler, IInv, TimeOK
<1>9. CASE Undefined
  BY <1>9 DEF Undefined, IInv, TimeOK
<1>10. CASE UNCHANGED vars
  BY <1>10 DEF vars, IInv, TimeOK
<1> QED
  BY <1>1, <1>2, <1>3, <1>4, <1>5, <1>6, <1>7, <1>8, <1>9, <1>10 DEF Next

(* SimulationManager::Main never runs ahead of the wall clock, however     *)
(* long single cycles take.                                                *)
THEOREM NeverAhead == Spec => []NotAhead
<1>1. IInv => NotAhead
  <2>1. SUFFICES ASSUME IInv PROVE NotAhead
    OBVIOUS
  <2>2. cycles * Cycle \in Int
    BY <2>1, TimesAssumption DEF IInv, TimeOK
  <2> QED
    BY <2>1, <2>2 DEF IInv, TimeOK, NotAhead
<1> QED
  BY InitInv, NextInv, <1>1, PTL DEF Spec

(* After a cycle that took too long the loop makes up for at most one      *)
(* cycle (the restart of `start` in SimulationManager::Main).              *)
THEOREM NoBurst == Spec => []AtMostOneCycleBehind
<1>1. IInv => AtMostOneCycleBehind
  BY TimesAssumption DEF IInv, TimeOK, AtMostOneCycleBehind
<1> QED
  BY InitInv, NextInv, <1>1, PTL DEF Spec

(* The loop drives the Timekeeper and the timers of the plugins exactly as *)
(* UpdateTimer describes, pauses, delays and SIGINT included.              *)
THEOREM ImplementsTimer == Spec => TimerSpec
<1>1. Init => TimerInit
  BY DEF Init
<1>2. [Next]_vars => [TimerNext]_timer
  <2> SUFFICES ASSUME [Next]_vars PROVE TimerNext \/ UNCHANGED timer
    OBVIOUS
  <2>1. CASE MakeWorld
    BY <2>1 DEF MakeWorld
  <2>2. CASE Enter
    BY <2>2 DEF Enter
  <2>3. CASE Leave
    BY <2>3 DEF Leave
  <2>4. CASE Update
    BY <2>4 DEF Update, TimerNext
  <2>5. CASE Spin
    BY <2>5 DEF Spin, TimerNext
  <2>6. ASSUME NEW work \in 0 .. MaxWork, Pace(work) PROVE UNCHANGED timer
    BY <2>6 DEF Pace
  <2>7. CASE Exit
    BY <2>7 DEF Exit
  <2>8. CASE SigintHandler
    BY <2>8 DEF SigintHandler
  <2>9. CASE Undefined
    BY <2>9 DEF Undefined
  <2>10. CASE UNCHANGED vars
    BY <2>10 DEF vars
  <2> QED
    BY <2>1, <2>2, <2>3, <2>4, <2>5, <2>6, <2>7, <2>8, <2>9, <2>10 DEF Next
<1> QED
  BY <1>1, <1>2, PTL DEF Spec, TimerSpec

(* So no plugin publishes too often or too rarely in the running simulator.*)
THEOREM RateIsExactInSimulator == Spec => []NoDrift
BY ImplementsTimer, RateIsExact, PTL

-----------------------------------------------------------------------------
(***************************************************************************)
(* The visualization: a step moves the simulated time over at most one     *)
(* multiple of the period, and if it does, the decision of the next cycle  *)
(* sees it.                                                                *)
(***************************************************************************)

(* What the code needs to keep up, and nobody checks: a step is neither    *)
(* longer than a cycle nor than the period of the visualization, and the   *)
(* half cycle added at time zero does not reach the second visualization.  *)
VizAssumption ==
  /\ \A s \in Steps : s <= Cycle /\ s <= VizPeriod
  /\ Cycle < 2 * VizPeriod

(* The visualizations that are due by now.                                 *)
Due == 1 + VizTime \div (2 * VizPeriod)

(* One may be missing that the head of the loop is about to publish.       *)
VizInv ==
  /\ step \in Steps /\ ticks \in Nat /\ visuals \in Nat
  /\ pc = "update" => visuals >= Due
  /\ pc \in {"load", "loop", "spin", "pace"} =>
       visuals >= Due \/ (UpdateViz /\ visuals + 1 >= Due)

LEMMA DueIsWhole ==
  ASSUME step \in Steps, ticks \in Nat
  PROVE  VizTime \in Nat /\ 2 * VizPeriod \in Nat \ {0} /\ Due \in Int
<1>1. VizTime \in Nat /\ 2 * VizPeriod \in Nat \ {0}
  BY StepsAssumption, TimesAssumption DEF VizTime
<1>2. VizTime \div (2 * VizPeriod) \in Int
  BY <1>1, Division
<1> QED
  BY <1>1, <1>2 DEF Due

LEMMA VizInit == VizAssumption /\ Init => VizInv
<1> SUFFICES ASSUME VizAssumption, Init PROVE VizInv
  OBVIOUS
<1>1. step \in Steps /\ step \in Nat /\ ticks = 0 /\ visuals = 0 /\ pc = "load"
  BY StepsAssumption DEF Init, TimerInit
<1>2. VizTime = Cycle /\ Cycle \in Nat \ {0} /\ VizPeriod \in Nat \ {0}
  BY <1>1, TimesAssumption DEF VizTime
<1>3. Cycle \div (2 * VizPeriod) = 0 /\ Cycle % (2 * VizPeriod) = Cycle
  <2> DEFINE q == 2 * VizPeriod
             a == Cycle \div q
             r == Cycle % q
  <2>1. q \in Nat \ {0} /\ Cycle \in 0 .. q - 1
    BY <1>2 DEF VizAssumption
  <2> HIDE DEF q
  <2>2. a \in Int /\ r \in 0 .. q - 1 /\ Cycle = q * a + r
    BY <1>2, <2>1, Division
  <2>3. Cycle = q * 0 + Cycle
    BY <1>2, <2>1
  <2> HIDE DEF a, r
  <2>4. q * a + r = q * 0 + Cycle
    BY <2>2, <2>3
  <2>5. a = 0 /\ r = Cycle
    BY <2>1, <2>2, <2>4, DivisionUnique
  <2> QED
    BY <2>5 DEF q, a, r
<1> QED
  BY <1>1, <1>2, <1>3 DEF VizInv, Due, UpdateViz

(* The physics step.                                                       *)
LEMMA VizStep ==
  ASSUME VizAssumption, step \in Steps, ticks \in Nat, StepTime
  PROVE  Due' = Due \/ (UpdateViz' /\ Due' = Due + 1)
<1> DEFINE q == 2 * VizPeriod
           x == VizTime
           d == 2 * step
<1>1. /\ q \in Nat \ {0} /\ x \in Nat /\ d \in 1 .. q /\ d <= 2 * Cycle
      /\ Cycle \in Nat
  BY DueIsWhole, StepsAssumption, TimesAssumption DEF VizAssumption
<1>2. VizTime' = x + d
  BY StepsAssumption, TimesAssumption DEF VizTime, StepTime
<1> HIDE DEF q, x, d
<1>3. (x + d) \div q = IF (x + d) % q < d THEN (x \div q) + 1 ELSE x \div q
  BY <1>1, QuotientOfSum
<1>4. x \div q \in Int /\ (x + d) % q \in 0 .. q - 1
  <2>1. x + d \in Nat
    BY <1>1
  <2> QED
    BY <1>1, <2>1, Division
<1>5. (x + d) % q < d => (x + d) % q \in 0 .. 2 * Cycle - 1
  BY <1>1, <1>4
<1>6. /\ Due = 1 + x \div q /\ Due' = 1 + (x + d) \div q
      /\ UpdateViz' <=> (x + d) % q \in 0 .. 2 * Cycle - 1
  BY <1>2 DEF Due, UpdateViz, q, x
<1> QED
  BY <1>3, <1>4, <1>5, <1>6

LEMMA VizNext ==
  ASSUME VizAssumption, VizInv, [Next]_vars
  PROVE  VizInv'
<1>1. ASSUME UNCHANGED <<ticks, step, visuals>>,
             \/ pc' = pc
             \/ pc' \in {"returned", "ended", "undefined"}
             \/ /\ pc \in {"load", "loop", "update", "spin", "pace"}
                /\ pc' \in {"load", "loop", "spin", "pace"}
      PROVE  VizInv'
  <2>1. VizTime' = VizTime
    BY <1>1 DEF VizTime
  <2>2. Due' = Due /\ UpdateViz' = UpdateViz
    BY <2>1 DEF Due, UpdateViz
  <2> QED
    BY <1>1, <2>2 DEF VizInv
<1>2. CASE MakeWorld \/ Leave
  BY <1>1, <1>2 DEF MakeWorld, Leave, Goto, timer
<1>3. CASE Enter
  <2>1. VizTime' = VizTime
    BY <1>3 DEF Enter, timer, VizTime
  <2>2. Due' = Due /\ Due \in Int
    BY <2>1, DueIsWhole DEF Due, VizInv
  <2> QED
    BY <1>3, <2>2 DEF Enter, Goto, timer, VizInv
<1>4. CASE Update
  <2>1. CASE paused
    BY <1>1, <1>4, <2>1 DEF Update, Goto, timer
  <2>2. CASE ~paused
    <3>1. /\ pc = "update" /\ pc' = "spin" /\ visuals' = visuals /\ StepTime
          /\ step' = step /\ ticks' = ticks + 1
      BY <1>4, <2>2 DEF Update, Goto, StepTime
    <3>2. Due \in Int /\ (Due' = Due \/ (UpdateViz' /\ Due' = Due + 1))
      BY <3>1, DueIsWhole, VizStep DEF VizInv
    <3> QED
      BY <3>1, <3>2 DEF VizInv
  <2> QED
    BY <2>1, <2>2
<1>5. CASE Spin
  BY <1>1, <1>5 DEF Spin, Goto, Load, timer
<1>6. ASSUME NEW work \in 0 .. MaxWork, Pace(work) PROVE VizInv'
  BY <1>1, <1>6 DEF Pace, Goto, timer
<1>7. CASE Exit \/ Undefined
  BY <1>1, <1>7 DEF Exit, Undefined, Goto, timer
<1>8. CASE SigintHandler \/ UNCHANGED vars
  BY <1>1, <1>8 DEF SigintHandler, vars, timer
<1> QED
  BY <1>2, <1>3, <1>4, <1>5, <1>6, <1>7, <1>8 DEF Next

(* No visualization is missed, pauses, delays and SIGINT included          *)
(* (SimulationManager::Main, the decision of update_viz).                  *)
THEOREM NoVizMissed ==
  ASSUME VizAssumption
  PROVE  Spec => []VizKeepsUp
<1>1. VizInv => VizKeepsUp
  BY DEF VizInv, VizKeepsUp, Due
<1> QED
  BY <1>1, VizInit, VizNext, PTL DEF Spec
=============================================================================
