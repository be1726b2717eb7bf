-------------------------------- MODULE Tween --------------------------------
(***************************************************************************)
(* The Tween plugin, which moves a body to a relative pose and back        *)
(* (flatland_plugins/src/tween.cpp), with the interpolation of the tweeny  *)
(* library it includes.                                                    *)
(*                                                                         *)
(* Time is in milliseconds, progress in milliseconds of the tween's own    *)
(* total.  A pose is the part of delta that is covered: an easing maps a   *)
(* position on a grid of 44 to a whole number of Full(easing).  Not        *)
(* modelled: the easings of irrational value (exponential, circular,       *)
(* elastic); the three coordinates, which are eased alike.                 *)
(***************************************************************************)
EXTENDS Integers

CONSTANTS
  Durations,  \* durations that the yaml asks for
  Wrap,       \* 65536, the range of tweenpoint::durations
  Step,       \* step size
  Easings     \* records of family, degree and side

Grid == 44
ParametersAccepted ==
  /\ Step \in Nat \ {0}
  /\ \A d \in Durations : d % Wrap # 0

VARIABLES
  mode, easing, duration,  \* the yaml's choices
  progress,                \* currentProgress * total
  direction,               \* currentDirection
  triggered,               \* triggered_
  place,                   \* part of delta that the body has moved
  arrived,                 \* history: the tween was at its end
  elapsed                  \* history: time until it was

tweenVars == <<mode, easing, duration, progress, direction, triggered, place,
             arrived, elapsed>>

-----------------------------------------------------------------------------
(***************************************************************************)
(* Easings: numerator at position n of the grid, of denominator Full       *)
(***************************************************************************)

Even(d) == d % 2 = 0

PowerIn(d, n) == n ^ d
PowerOut(d, n) == IF Even(d) THEN Grid ^ d - (n - Grid) ^ d ELSE Grid ^ d + (n - Grid) ^ d
PowerInOut(d, n) ==
  IF 2 * n < Grid THEN (2 * n) ^ d
  ELSE LET back == (2 * n - 2 * Grid) ^ d
       IN 2 * Grid ^ d + (IF Even(d) THEN -back ELSE back)

BounceOut(n) ==
  IF n < 16 THEN n * n
  ELSE IF n < 32 THEN (n - 24) * (n - 24) + 192
  ELSE IF n < 40 THEN (n - 36) * (n - 36) + 240
  ELSE (n - 42) * (n - 42) + 252
BounceIn(n) == 256 - BounceOut(Grid - n)
BounceInOut(n) ==
  IF 2 * n < Grid THEN BounceIn(2 * n) ELSE BounceOut(2 * n - Grid) + 256

(* s is 1.7, and 2.6 for backInOut.                                        *)
BackIn(n) == n * n * (27 * n - 17 * Grid)
BackOut(n) == (n - Grid) ^ 2 * (27 * (n - Grid) + 17 * Grid) + 10 * Grid ^ 3
BackInOut(n) ==
  IF 2 * n < Grid THEN (2 * n) ^ 2 * (36 * 2 * n - 26 * Grid)
  ELSE LET t == 2 * n - 2 * Grid
       IN t * t * (36 * t + 26 * Grid) + 20 * Grid ^ 3

(* An easing is a family, of power functions by their degree, and a side.  *)
Eased(e, n) ==
  LET d == e.degree
  IN CASE e.family = "power" /\ e.side = "In" -> PowerIn(d, n)
       [] e.family = "power" /\ e.side = "Out" -> PowerOut(d, n)
       [] e.family = "power" /\ e.side = "InOut" -> PowerInOut(d, n)
       [] e.family = "bounce" /\ e.side = "In" -> BounceIn(n)
       [] e.family = "bounce" /\ e.side = "Out" -> BounceOut(n)
       [] e.family = "bounce" /\ e.side = "InOut" -> BounceInOut(n)
       [] e.family = "back" /\ e.side = "In" -> BackIn(n)
       [] e.family = "back" /\ e.side = "Out" -> BackOut(n)
       [] e.family = "back" /\ e.side = "InOut" -> BackInOut(n)

Full(e) ==
  (IF e.side = "InOut" THEN 2 ELSE 1) *
  (CASE e.family = "power" -> Grid ^ e.degree
     [] e.family = "bounce" -> 256
     [] e.family = "back" -> 10 * Grid ^ 3)

-----------------------------------------------------------------------------
(***************************************************************************)
(* The plugin                                                              *)
(***************************************************************************)

(* tweenpoint::durations are uint16_t.                                     *)
Total == duration % Wrap

(* The tween is at delta of zero and goes forward.                         *)
TweenInit ==
  /\ mode \in {"yoyo", "loop", "once", "trigger"}
  /\ easing \in Easings
  /\ duration \in Durations
  /\ progress = 0 /\ direction = 1 /\ triggered = FALSE
  /\ place = 0 /\ arrived = FALSE /\ elapsed = 0

TriggerCallback(on) ==
  /\ mode = "trigger"
  /\ triggered' = on
  /\ UNCHANGED <<mode, easing, duration, progress, direction, place, arrived, elapsed>>

Clip(p) == IF p < 0 THEN 0 ELSE IF p > Total THEN Total ELSE p

MutantTurned(p) ==
  IF p > Total THEN -1 ELSE IF 1000 * p <= Total THEN 1 ELSE direction
Turned(p) ==
  IF p >= Total THEN -1 ELSE IF 1000 * p <= Total THEN 1 ELSE direction

TweenStep ==
  LET p == Clip(progress + Step * direction)
  IN /\ place' = Eased(easing, (p * Grid) \div Total)
     /\ progress' = IF mode = "loop" /\ p >= Total THEN 0 ELSE p
     /\ direction' = CASE mode = "yoyo" -> Turned(p)
                       [] mode = "trigger" -> IF triggered THEN 1 ELSE -1
                       [] OTHER -> direction
     /\ arrived' = (arrived \/ p = Total)
     /\ elapsed' = IF mode = "trigger" \/ arrived THEN elapsed ELSE elapsed + Step
     /\ UNCHANGED <<mode, easing, duration, triggered>>

TweenNext == TweenStep \/ \E on \in BOOLEAN : TriggerCallback(on)

(* The physics steps go on.                                                *)
TweenFairness == WF_tweenVars(TweenStep)
TweenSpec == TweenInit /\ [][TweenNext]_tweenVars /\ TweenFairness

-----------------------------------------------------------------------------
(***************************************************************************)
(* Properties                                                              *)
(***************************************************************************)

(* The ends of the movement are exact whatever the easing, and between     *)
(* them the body goes one way only: it overshoots and returns only with an *)
(* easing that is meant to.  The pieces of an easing must fit.             *)
TweenIsSmooth ==
  [][/\ progress' = 0 /\ mode # "loop" => place' = 0
     /\ progress' = Total => place' = Full(easing)
     /\ easing.family = "bounce" => place' \in 0 .. Full(easing)
     /\ easing.family = "power" /\ mode # "loop" =>
          /\ progress' > progress => place' > place
          /\ progress' < progress => place' < place]_tweenVars

(* The body gets to where its mode takes it: a yoyo to both ends again and *)
(* again, a loop to its end again and again, and a triggered tween to the  *)
(* end the last message asks for, however often it changed on the way.     *)
TweenArrives ==
  /\ mode = "yoyo" => []<>(place = Full(easing)) /\ []<>(place = 0)
  /\ mode = "loop" => []<>(place = Full(easing)) /\ []<>(place # Full(easing))
  /\ mode = "once" => <>[](place = Full(easing))
  /\ mode = "trigger" =>
       /\ <>[]triggered => <>[](place = Full(easing))
       /\ <>[](~triggered) => <>[](place = 0)

(* "animation duration in seconds" (tween.rst): the body is not at the end *)
(* before the duration is over.                                            *)
TakesItsDuration == mode # "trigger" /\ arrived => elapsed >= duration

(* All of it, over the whole of an animation's life.                       *)
TweenRuns == []TakesItsDuration /\ TweenIsSmooth /\ TweenArrives
=============================================================================
