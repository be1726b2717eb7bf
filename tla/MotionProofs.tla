---------------------------- MODULE MotionProofs ----------------------------
(***************************************************************************)
(* Proofs about what moves: Fork, for all heights, speeds, thresholds and  *)
(* both load orders of its plugins; Drives, for all limits, commands,      *)
(* poses and kinds of drives.                                              *)
(***************************************************************************)
EXTENDS Fork, Drives, TLAPS

-----------------------------------------------------------------------------
(***************************************************************************)
(* The fork lift                                                           *)
(***************************************************************************)

(* Clamped heights are heights.                                            *)
LEMMA ClampInHeight ==
  ASSUME NEW z \in Int
  PROVE  Clamp(z) \in Height
BY HeightsAssumption DEF Clamp, Height

(* The animation does not leave the stroke.                                *)
LEMMA AnimatedInHeight ==
  ASSUME current \in Height, target \in Height
  PROVE  Animated \in Height
BY HeightsAssumption DEF Animated, Height

LEMMA SetTargetInHeight ==
  ASSUME current \in Height, NEW z \in Int, SetTargetElevation(z)
  PROVE  target' \in Height /\ current' \in Height
<1>1. target' \in Height
  BY ClampInHeight DEF SetTargetElevation
<1> QED
  BY <1>1 DEF SetTargetElevation

LEMMA TypeInit == Init => TypeOK
<1> SUFFICES ASSUME Init PROVE TypeOK
  OBVIOUS
<1>1. 0 \in Height /\ LiftHeight \in Height
  BY HeightsAssumption DEF Height
<1>2. target \in Height /\ current \in Height
  BY <1>1 DEF Init
<1>3. feedback \in [height : Height, reached : BOOLEAN, loaded : BOOLEAN]
  BY <1>2 DEF Init
<1> QED
  BY <1>1, <1>2, <1>3 DEF Init, TypeOK

LEMMA TypeNext == TypeOK /\ [Next]_vars => TypeOK'
<1> SUFFICES ASSUME TypeOK, [Next]_vars PROVE TypeOK'
  OBVIOUS
<1>1. ASSUME NEW z \in Commands, OnForkGoal(z) PROVE TypeOK'
  <2>1. goal' \in Height
    BY <1>1, HeightsAssumption, ClampInHeight DEF OnForkGoal
  <2>2. goal' \in Int
    BY <2>1, HeightsAssumption DEF Height
  <2>3. target' \in Height /\ current' \in Height
    BY <1>1, <2>2, SetTargetInHeight DEF OnForkGoal, TypeOK
  <2> QED
    BY <1>1, <2>1, <2>3 DEF OnForkGoal, TypeOK
<1>2. ASSUME NEW z \in Commands, OnLiftRequest(z) PROVE TypeOK'
  <2>1. target' \in Height /\ current' \in Height
    BY <1>2, HeightsAssumption, SetTargetInHeight DEF OnLiftRequest, TypeOK
  <2> QED
    BY <1>2, <2>1 DEF OnLiftRequest, TypeOK
<1>3. CASE OnAttachRequest
  BY <1>3 DEF OnAttachRequest, TypeOK
<1>4. CASE Release
  BY <1>4 DEF Release, TypeOK
<1>5. CASE Drive
  BY <1>5 DEF Drive, TypeOK
<1>6. ASSUME NEW due \in BOOLEAN, BeforePhysicsStep(due) PROVE TypeOK'
  <2>1. Animated \in Height
    BY AnimatedInHeight DEF TypeOK
  <2>2. Seen \in Height
    BY <2>1 DEF Seen, TypeOK
  <2>3. Attached \in BOOLEAN /\ Reached \in BOOLEAN
    BY DEF Attached, Reached, TypeOK
  <2>4. raised' \in BOOLEAN
    BY <1>6 DEF BeforePhysicsStep
  <2>5. feedback' \in [height : Height, reached : BOOLEAN, loaded : BOOLEAN]
    BY <1>6, <2>2, <2>3 DEF BeforePhysicsStep, TypeOK
  <2> QED
    BY <1>6, <2>1, <2>2, <2>3, <2>4, <2>5 DEF BeforePhysicsStep, TypeOK
<1>7. CASE UNCHANGED vars
  BY <1>7 DEF vars, TypeOK
<1> QED
  BY <1>1, <1>2, <1>3, <1>4, <1>5, <1>6, <1>7 DEF Next

(* The fork height, its target and every reported height stay within the   *)
(* stroke [0, lift_height] (Forklift::SetTargetElevation, BeforePhysicsStep).*)
THEOREM ForkTypeCorrect == Spec => []TypeOK
BY TypeInit, TypeNext, PTL DEF Spec

-----------------------------------------------------------------------------
LEMMA ReleaseNext ==
  TypeOK /\ ReleasedOnGround /\ [Next]_vars => ReleasedOnGround'
<1> SUFFICES ASSUME TypeOK, ReleasedOnGround, [Next]_vars
             PROVE  ReleasedOnGround'
  OBVIOUS
<1>1. ASSUME NEW z \in Commands, OnForkGoal(z) \/ OnLiftRequest(z)
      PROVE  ReleasedOnGround'
  BY <1>1 DEF OnForkGoal, OnLiftRequest, ReleasedOnGround
<1>2. CASE OnAttachRequest
  BY <1>2 DEF OnAttachRequest, ReleasedOnGround
<1>3. CASE Release
  BY <1>3 DEF Release, ReleasedOnGround
<1>4. CASE Drive
  BY <1>4 DEF Drive, ReleasedOnGround
<1>5. ASSUME NEW due \in BOOLEAN, BeforePhysicsStep(due)
      PROVE  ReleasedOnGround'
  <2>1. SUFFICES ASSUME attached', raised', ~(Seen > DetachHeight)
                 PROVE  FALSE
    BY <1>5 DEF BeforePhysicsStep, ReleasedOnGround
  <2>2. Attached /\ raised /\ attached
    BY <1>5, <2>1 DEF BeforePhysicsStep
  <2>3. Seen <= DetachHeight
    <3>1. Animated \in Height
      BY AnimatedInHeight DEF TypeOK
    <3>2. Seen \in Int /\ DetachHeight \in Int
      BY <3>1, HeightsAssumption DEF Seen, TypeOK, Height
    <3> QED
      BY <2>1, <3>2
  <2>4. Falls
    BY <2>2, <2>3 DEF Falls, ReleasedOnGround
  <2>5. ~Rises
    BY <2>2 DEF Rises
  <2> QED
    BY <2>2, <2>4, <2>5 DEF Attached
<1>6. CASE UNCHANGED vars
  BY <1>6 DEF vars, ReleasedOnGround
<1> QED
  BY <1>1, <1>2, <1>3, <1>4, <1>5, <1>6 DEF Next

(* Whatever the configured heights and speed, and in whichever order the   *)
(* plugins are loaded, a load that went up is off the forks once           *)
(* ForkController has seen them at detach_height or lower.                 *)
THEOREM LoadsAreReleased == Spec => []ReleasedOnGround
<1>1. Init => ReleasedOnGround
  BY DEF Init, ReleasedOnGround
<1> QED
  BY <1>1, TypeInit, TypeNext, ReleaseNext, PTL DEF Spec

-----------------------------------------------------------------------------
(* One step of the animation moves the forks by at most a speed step.      *)
LEMMA AnimatedIsNear ==
  ASSUME current \in Height, target \in Height
  PROVE  Animated - current \in -LiftSpeed .. LiftSpeed
BY HeightsAssumption DEF Animated, Height

LEMMA ArrivalStep ==
  ASSUME TypeOK, [Next]_vars, feedback' # feedback, feedback'.reached, goal # NoGoal
  PROVE  was' - goal \in -(GoalTolerance + LiftSpeed) .. GoalTolerance + LiftSpeed
<1>1. PICK due \in BOOLEAN : BeforePhysicsStep(due)
  BY DEF Next, vars, OnForkGoal, OnLiftRequest, OnAttachRequest, Release, Drive
<1>2. due /\ feedback' = [height |-> Seen, reached |-> Reached, loaded |-> Attached]
  BY <1>1 DEF BeforePhysicsStep
<1>3. Seen - goal \in -GoalTolerance .. GoalTolerance
  BY <1>2 DEF Reached
<1>4. /\ goal \in Int /\ current \in Int /\ Animated \in Int
      /\ Animated - current \in -LiftSpeed .. LiftSpeed
  BY HeightsAssumption, AnimatedInHeight, AnimatedIsNear DEF TypeOK, Height
<1>5. was' = Animated /\ Seen \in {Animated, current}
  BY <1>1 DEF BeforePhysicsStep, Seen
<1> QED
  BY <1>3, <1>4, <1>5, HeightsAssumption

(* In either load order, fork/goal_reached is not published as true while  *)
(* the forks are further from the goal in force than the tolerance and one *)
(* step of the animation (ForkController::BeforePhysicsStep).              *)
THEOREM ArrivalsAreTrue == Spec => NoFalseArrival
<1>1. TypeOK /\ [Next]_vars =>
        [feedback' # feedback /\ feedback'.reached /\ goal # NoGoal =>
           was' - goal \in -(GoalTolerance + LiftSpeed) .. GoalTolerance + LiftSpeed]_vars
  BY ArrivalStep
<1> QED
  BY <1>1, TypeInit, TypeNext, PTL DEF Spec, NoFalseArrival

-----------------------------------------------------------------------------
(* The height the controller compares with is that of the last update.     *)
SeenLast == prev = was

(* With forks that start on the ground, and a Forklift that is loaded      *)
(* before the controller, only forks that came up through attach_height    *)
(* since the last update pick up a load.  Both conditions are needed: the  *)
(* controller's first height is 0 whatever the forks', and a controller    *)
(* loaded first sees the height of the previous update.                    *)
THEOREM PickupsRise ==
  ASSUME ForkliftFirst, ~InitialLifted
  PROVE  Spec => PickupNeedsRise
<1>1. Init => SeenLast
  BY DEF Init, SeenLast
<1>2. SeenLast /\ [Next]_vars => SeenLast'
  <2> SUFFICES ASSUME SeenLast, [Next]_vars PROVE SeenLast'
    OBVIOUS
  <2>1. ASSUME NEW due \in BOOLEAN, BeforePhysicsStep(due) PROVE SeenLast'
    BY <2>1 DEF BeforePhysicsStep, Seen, SeenLast
  <2>2. ASSUME UNCHANGED <<prev, was>> PROVE SeenLast'
    BY <2>2 DEF SeenLast
  <2> QED
    BY <2>1, <2>2
    DEF Next, vars, OnForkGoal, OnLiftRequest, OnAttachRequest, Release, Drive
<1>3. SeenLast =>
        [\A due \in BOOLEAN :
           BeforePhysicsStep(due) /\ ~attached /\ attached' => was < AttachHeight]_vars
  BY DEF SeenLast, BeforePhysicsStep, Attached, Rises
<1> QED
  BY <1>1, <1>2, <1>3, PTL DEF Spec, PickupNeedsRise

-----------------------------------------------------------------------------
(***************************************************************************)
(* The limits of velocities and accelerations                              *)
(***************************************************************************)

LEMMA AbsOf ==
  ASSUME NEW x \in Int
  PROVE  Abs(x) \in Nat /\ (x >= 0 => Abs(x) = x) /\ (x <= 0 => Abs(x) = -x)
BY DEF Abs

LEMMA SignOfProduct ==
  ASSUME NEW x \in Int, NEW y \in Int
  PROVE  /\ x * y \in Int
         /\ x * y < 0 <=> (x < 0 /\ y > 0) \/ (x > 0 /\ y < 0)
         /\ x * y > 0 <=> (x < 0 /\ y < 0) \/ (x > 0 /\ y > 0)
         /\ x * y >= 0 <=> x = 0 \/ y = 0 \/ (x < 0 /\ y < 0) \/ (x > 0 /\ y > 0)
BY Z3

(* Saturating to an interval around zero.                                  *)
LEMMA SaturateOf ==
  ASSUME NEW x \in Int, NEW b \in Nat
  PROVE  Saturate(x, -b, b) = IF x < -b THEN -b ELSE IF x > b THEN b ELSE x
BY DEF Saturate

(* What is left of a step after braking to zero is not overestimated.      *)
LEMMA ShareOfStep ==
  ASSUME NEW a \in Nat, NEW dec \in Nat \ {0}, NEW x \in 0 .. dec
  PROVE  /\ (a * (dec - x)) \div dec \in Nat
         /\ ((a * (dec - x)) \div dec) * dec <= a * (dec - x)
<1>1. a * (dec - x) \in Nat
  <2>1. dec - x \in Nat
    OBVIOUS
  <2> QED
    BY <2>1
<1>2. \A n \in Nat, q \in Nat \ {0} : n \div q \in Nat /\ (n \div q) * q <= n
  BY Z3
<1> QED
  BY <1>1, <1>2

(* The goal of a step: the target within the velocity limit.               *)
Goal(l, wanted) == IF l.vel = 0 THEN wanted ELSE Saturate(wanted, -l.vel, l.vel)

(* The limit on the change of velocity never comes out as zero unless it   *)
(* is off: through zero a step changes the velocity by at least what is    *)
(* there.                                                                  *)
LEMMA ReversalRespects ==
  ASSUME NEW l \in Limits, l.acc # 0, l.dec # 0,
         NEW v0 \in Int, NEW aim \in Int, v0 * aim < 0, NEW w,
         w = v0 + IF Rate(l, v0, aim) = 0 THEN aim - v0
                 ELSE Saturate(aim - v0, -Rate(l, v0, aim), Rate(l, v0, aim))
  PROVE  /\ w \in Int
         /\ (v0 <= w /\ w <= aim) \/ (aim <= w /\ w <= v0)
         /\ v0 * w >= 0 => Abs(w) <= Abs(v0) /\ Abs(v0) - Abs(w) <= l.dec
         /\ v0 * w < 0 => Abs(v0) <= l.dec /\ Abs(w) * l.dec <= l.acc * (l.dec - Abs(v0))
<1> DEFINE slowed == v0 + Saturate(aim - v0, -l.dec, l.dec)
           share == (l.acc * (l.dec - Abs(v0))) \div l.dec
<1>1. l.acc \in Nat \ {0} /\ l.dec \in Nat \ {0}
  BY DEF Limits
<1>2. (v0 < 0 /\ aim > 0) \/ (v0 > 0 /\ aim < 0)
  BY SignOfProduct
<1>3. Rate(l, v0, aim) = IF slowed * v0 > 0 THEN l.dec ELSE Abs(v0) + share
  BY <1>1, <1>2, SignOfProduct DEF Rate
<1>4. /\ slowed \in Int
      /\ slowed = v0 + IF aim - v0 < -l.dec THEN -l.dec
                      ELSE IF aim - v0 > l.dec THEN l.dec ELSE aim - v0
  BY <1>1, SaturateOf
<1>5. CASE slowed * v0 > 0
  <2>1. w = slowed
    BY <1>1, <1>3, <1>5
  <2>2. (v0 < 0 /\ w < 0) \/ (v0 > 0 /\ w > 0)
    BY <1>4, <1>5, <2>1, SignOfProduct
  <2>3. v0 * w > 0
    BY <1>4, <2>1, <2>2, SignOfProduct
  <2> HIDE DEF slowed
  <2>4. w \in Int /\ ((v0 <= w /\ w <= aim) \/ (aim <= w /\ w <= v0))
    BY <1>1, <1>2, <1>4, <2>1
  <2>5. Abs(w) <= Abs(v0) /\ Abs(v0) - Abs(w) <= l.dec
    BY <1>1, <1>2, <1>4, <2>1, <2>2, AbsOf
  <2>6. v0 * w \in Int
    BY <2>4, SignOfProduct
  <2> QED
    BY <2>3, <2>4, <2>5, <2>6
<1>6. CASE ~(slowed * v0 > 0)
  <2>1. ~((slowed < 0 /\ v0 < 0) \/ (slowed > 0 /\ v0 > 0))
    BY <1>4, <1>6, SignOfProduct
  <2> HIDE DEF slowed
  <2>2. Abs(v0) \in 1 .. l.dec
    BY <1>1, <1>2, <1>4, <2>1, AbsOf
  <2>3. share \in Nat /\ share * l.dec <= l.acc * (l.dec - Abs(v0))
    <3>1. l.acc \in Nat /\ l.dec \in Nat \ {0} /\ Abs(v0) \in 0 .. l.dec
      BY <1>1, <2>2
    <3> QED
      BY <3>1, ShareOfStep, Zenon
  <2> HIDE DEF share
  <2>4. w = v0 + Saturate(aim - v0, -(Abs(v0) + share), Abs(v0) + share)
    BY <1>3, <1>6, <2>2, <2>3
  <2>5. w = v0 + IF aim - v0 < -(Abs(v0) + share) THEN -(Abs(v0) + share)
                ELSE IF aim - v0 > Abs(v0) + share THEN Abs(v0) + share ELSE aim - v0
    BY <2>2, <2>3, <2>4, SaturateOf
  <2>6. /\ w \in Int /\ ((v0 <= w /\ w <= aim) \/ (aim <= w /\ w <= v0))
        /\ v0 > 0 => w <= 0 /\ -w <= share
        /\ v0 < 0 => w >= 0 /\ w <= share
    BY <1>2, <2>2, <2>3, <2>5, AbsOf
  <2>7. Abs(w) \in Nat /\ Abs(w) <= share
    BY <1>2, <2>3, <2>6, AbsOf
  <2>8. Abs(w) * l.dec <= share * l.dec
    BY <1>1, <2>3, <2>7, Z3
  <2>9. Abs(w) * l.dec <= l.acc * (l.dec - Abs(v0))
    <3>1. Abs(w) * l.dec \in Int /\ share * l.dec \in Int /\ l.acc * (l.dec - Abs(v0)) \in Int
      BY <1>1, <2>2, <2>3, <2>7
    <3> QED
      BY <3>1, <2>3, <2>8
  <2>10. v0 * w >= 0 => Abs(w) = 0
    BY <1>2, <2>6, SignOfProduct, AbsOf
  <2>11. v0 * w >= 0 => Abs(w) <= Abs(v0) /\ Abs(v0) - Abs(w) <= l.dec
    BY <1>1, <2>2, <2>10
  <2>12. Abs(v0) <= l.dec
    BY <1>1, <2>2
  <2> QED
    BY <2>6, <2>9, <2>11, <2>12, Zenon
<1> QED
  BY <1>5, <1>6

(* A step from v0 towards aim, by at most rate unless that is 0.           *)
Approach(v0, aim, rate) ==
  v0 + IF rate = 0 THEN aim - v0 ELSE Saturate(aim - v0, -rate, rate)

(* Limits and targets come to a whole number of a velocity, and Limit      *)
(* keeps what dynamics_limits.h promises of it.                            *)
LEMMA LimitRespects ==
  ASSUME NEW l \in Limits, NEW v0 \in Int, NEW wanted \in Int, NEW w,
         w = Limit(l, v0, wanted)
  PROVE  w \in Int /\ Respects(l, v0, w, wanted)
<1>1. l.acc \in Nat /\ l.dec \in Nat /\ l.vel \in Nat
  BY DEF Limits
<1>aim. Goal(l, wanted) \in Int
  BY <1>1, SaturateOf DEF Goal
<1> DEFINE aim == Goal(l, wanted)
<1>2. aim \in Int
  BY <1>aim, Zenon
<1>3. /\ w = Approach(IF v0 * aim < 0 /\ l.dec = 0 THEN 0 ELSE v0, aim, Rate(l, v0, aim))
      /\ Respects(l, v0, w, wanted) <=>
           /\ \/ v0 <= w /\ w <= aim
              \/ aim <= w /\ w <= v0
           /\ v0 * w >= 0 /\ Abs(w) > Abs(v0) /\ l.acc # 0 => Abs(w) - Abs(v0) <= l.acc
           /\ /\ v0 * w >= 0 /\ Abs(w) < Abs(v0) /\ l.dec # 0
              /\ ~ (v0 * aim < 0 /\ l.acc = 0)
              => Abs(v0) - Abs(w) <= l.dec
           /\ v0 * w < 0 /\ l.acc # 0 =>
                /\ l.dec # 0 => Abs(v0) <= l.dec
                /\ l.dec = 0 => Abs(w) <= l.acc
                /\ l.dec # 0 => Abs(w) * l.dec <= l.acc * (l.dec - Abs(v0))
  BY Zenon DEF Limit, Respects, Goal, Approach
<1> HIDE DEF aim
<1>step. ASSUME NEW rate \in Nat, w = Approach(v0, aim, rate)
      PROVE  /\ w \in Int
             /\ (v0 <= w /\ w <= aim) \/ (aim <= w /\ w <= v0)
             /\ rate # 0 => w - v0 <= rate /\ v0 - w <= rate
             /\ rate = 0 => w = aim
  <2>1. v0 \in Int /\ aim \in Int /\ rate \in Nat
    BY <1>2
  <2>3. aim - v0 \in Int
    BY <2>1
  <2>4. Saturate(aim - v0, -rate, rate) =
          IF aim - v0 < -rate THEN -rate ELSE IF aim - v0 > rate THEN rate ELSE aim - v0
    BY <2>3, SaturateOf
  <2>5. w = v0 + IF rate = 0 THEN aim - v0 ELSE Saturate(aim - v0, -rate, rate)
    BY <1>step DEF Approach
  <2> QED
    BY <2>1, <2>4, <2>5
<1>4. CASE aim = 0
  <2>1. ~(v0 * aim < 0) /\ Rate(l, v0, aim) = l.dec
    BY <1>2, <1>4, SignOfProduct DEF Rate
  <2>2. w = Approach(v0, aim, l.dec)
    BY <1>3, <2>1
  <2>3. /\ w \in Int
        /\ (v0 <= w /\ w <= 0) \/ (0 <= w /\ w <= v0)
        /\ l.dec # 0 => w - v0 <= l.dec /\ v0 - w <= l.dec
    BY <1>1, <1>2, <1>4, <2>2, <1>step
  <2>4. ~(v0 * w < 0)
    BY <2>3, SignOfProduct
  <2>5. Abs(w) <= Abs(v0) /\ (l.dec # 0 => Abs(v0) - Abs(w) <= l.dec)
    BY <1>1, <2>3, AbsOf
  <2>6. ~(Abs(w) > Abs(v0))
    BY <2>3, <2>5, AbsOf
  <2> QED
    BY <1>3, <1>4, <2>3, <2>4, <2>5, <2>6, Zenon
<1>5. CASE aim # 0 /\ v0 = 0
  <2>1. ~(v0 * aim < 0) /\ Rate(l, v0, aim) = l.acc
    BY <1>2, <1>5, SignOfProduct DEF Rate
  <2>2. w = Approach(v0, aim, l.acc)
    BY <1>3, <2>1
  <2>3. /\ w \in Int
        /\ (v0 <= w /\ w <= aim) \/ (aim <= w /\ w <= v0)
        /\ l.acc # 0 => w - v0 <= l.acc /\ v0 - w <= l.acc
    BY <1>1, <1>2, <2>2, <1>step
  <2>4. ~(v0 * w < 0)
    BY <1>5, <2>3, SignOfProduct
  <2>5. ~(Abs(w) < Abs(v0)) /\ (l.acc # 0 => Abs(w) - Abs(v0) <= l.acc)
    BY <1>1, <1>5, <2>3, AbsOf
  <2> QED
    BY <1>3, <2>3, <2>4, <2>5, Zenon
<1>6. CASE v0 * aim > 0
  <2>1. /\ ~(v0 * aim < 0)
        /\ (v0 < 0 /\ aim < 0) \/ (v0 > 0 /\ aim > 0)
    BY <1>2, <1>6, SignOfProduct
  <2>2. Rate(l, v0, aim) = IF Abs(v0) < Abs(aim) THEN l.acc ELSE l.dec
    BY <1>2, <1>6, <2>1 DEF Rate
  <2>3. w = Approach(v0, aim, IF Abs(v0) < Abs(aim) THEN l.acc ELSE l.dec)
    BY <1>3, <2>1, <2>2
  <2>4. /\ w \in Int
        /\ (v0 <= w /\ w <= aim) \/ (aim <= w /\ w <= v0)
    <3>1. CASE Abs(v0) < Abs(aim)
      <4>1. w = Approach(v0, aim, l.acc)
        BY <2>3, <3>1
      <4> QED
        BY <1>1, <1>2, <4>1, <1>step
    <3>2. CASE ~(Abs(v0) < Abs(aim))
      <4>1. w = Approach(v0, aim, l.dec)
        BY <2>3, <3>2
      <4> QED
        BY <1>1, <1>2, <4>1, <1>step
    <3> QED
      BY <3>1, <3>2, Zenon
  <2>5. ~(v0 * w < 0)
    <3>1. (v0 < 0 /\ w < 0) \/ (v0 > 0 /\ w > 0)
      BY <1>2, <2>1, <2>4
    <3>2. v0 * w > 0 /\ v0 * w \in Int
      BY <2>4, <3>1, SignOfProduct
    <3> QED
      BY <3>2
  <2>6. CASE Abs(v0) < Abs(aim)
    <3>1. l.acc # 0 => w - v0 <= l.acc /\ v0 - w <= l.acc
      <4>1. w = Approach(v0, aim, l.acc)
        BY <2>3, <2>6
      <4> QED
        BY <1>1, <1>2, <4>1, <1>step
    <3>2. ~(Abs(w) < Abs(v0)) /\ (l.acc # 0 => Abs(w) - Abs(v0) <= l.acc)
      BY <1>1, <1>2, <2>1, <2>4, <2>6, <3>1, AbsOf
    <3> QED
      BY <1>3, <2>4, <2>5, <3>2, Zenon
  <2>7. CASE ~(Abs(v0) < Abs(aim))
    <3>1. l.dec # 0 => w - v0 <= l.dec /\ v0 - w <= l.dec
      <4>1. w = Approach(v0, aim, l.dec)
        BY <2>3, <2>7
      <4> QED
        BY <1>1, <1>2, <4>1, <1>step
    <3>2. ~(Abs(w) > Abs(v0)) /\ (l.dec # 0 => Abs(v0) - Abs(w) <= l.dec)
      BY <1>1, <1>2, <2>1, <2>4, <2>7, <3>1, AbsOf
    <3> QED
      BY <1>3, <2>4, <2>5, <3>2, Zenon
  <2> QED
    BY <2>6, <2>7
<1>7. CASE v0 * aim < 0 /\ l.dec = 0
  <2>1. (v0 < 0 /\ aim > 0) \/ (v0 > 0 /\ aim < 0)
    BY <1>2, <1>7, SignOfProduct
  <2>2. ~(v0 * aim > 0)
    BY <1>2, <2>1, SignOfProduct
  <2>3. w = Approach(0, aim, l.acc)
    BY <1>2, <1>3, <1>7, <2>1, <2>2 DEF Rate
  <2>4. /\ w \in Int
        /\ (0 <= w /\ w <= aim) \/ (aim <= w /\ w <= 0)
        /\ l.acc # 0 => w - 0 <= l.acc /\ 0 - w <= l.acc
    <3>1. aim - 0 \in Int /\ aim - 0 = aim
      BY <1>2
    <3>2. w = 0 + IF l.acc = 0 THEN aim ELSE
                  IF aim < -l.acc THEN -l.acc ELSE IF aim > l.acc THEN l.acc ELSE aim
      BY <1>1, <2>3, <3>1, SaturateOf DEF Approach
    <3> QED
      BY <1>1, <1>2, <3>2
  <2>5. (v0 <= w /\ w <= aim) \/ (aim <= w /\ w <= v0)
    BY <1>2, <2>1, <2>4
  <2>6. v0 * w >= 0 => ~(Abs(w) > Abs(v0))
    <3>1. v0 * w >= 0 => w = 0
      BY <1>2, <2>1, <2>4, SignOfProduct
    <3>2. Abs(v0) \in Nat /\ Abs(0) = 0
      BY AbsOf
    <3> QED
      BY <3>1, <3>2
  <2>7. l.acc # 0 => Abs(w) <= l.acc
    BY <1>1, <2>4, AbsOf
  <2> QED
    BY <1>3, <1>7, <2>4, <2>5, <2>6, <2>7, Zenon
<1>8. CASE v0 * aim < 0 /\ l.dec # 0 /\ l.acc = 0
  <2>1. (v0 < 0 /\ aim > 0) \/ (v0 > 0 /\ aim < 0)
    BY <1>2, <1>8, SignOfProduct
  <2>2. ~(v0 * aim > 0)
    BY <1>2, <2>1, SignOfProduct
  <2>3. w = Approach(v0, aim, 0)
    BY <1>2, <1>3, <1>8, <2>1, <2>2 DEF Rate
  <2>4. w = aim
    BY <1>2, <2>3, <1>step
  <2>5. (v0 <= w /\ w <= aim) \/ (aim <= w /\ w <= v0)
    BY <1>2, <2>1, <2>4
  <2> QED
    BY <1>2, <1>3, <1>8, <2>4, <2>5, Zenon
<1>9. CASE v0 * aim < 0 /\ l.dec # 0 /\ l.acc # 0
  <2>1. w = v0 + IF Rate(l, v0, aim) = 0 THEN aim - v0
                 ELSE Saturate(aim - v0, -Rate(l, v0, aim), Rate(l, v0, aim))
    BY <1>3, <1>9 DEF Approach
  <2>2. /\ w \in Int
        /\ (v0 <= w /\ w <= aim) \/ (aim <= w /\ w <= v0)
        /\ v0 * w >= 0 => Abs(w) <= Abs(v0) /\ Abs(v0) - Abs(w) <= l.dec
        /\ v0 * w < 0 =>
             Abs(v0) <= l.dec /\ Abs(w) * l.dec <= l.acc * (l.dec - Abs(v0))
    BY <1>2, <1>9, <2>1, ReversalRespects
  <2>3. v0 * w >= 0 => ~(Abs(w) > Abs(v0))
    BY <2>2, AbsOf
  <2> QED
    BY <1>3, <1>9, <2>2, <2>3, Zenon
<1>10. v0 * aim > 0 \/ v0 * aim < 0 \/ v0 = 0 \/ aim = 0
  BY <1>2, SignOfProduct
<1> QED
  BY <1>4, <1>5, <1>6, <1>7, <1>8, <1>9, <1>10, Zenon

(* Not to step at all respects the limits, too.                            *)
LEMMA RestRespects ==
  ASSUME NEW l \in Limits, NEW v0 \in Int, NEW wanted \in Int
  PROVE  Respects(l, v0, v0, wanted)
<1>1. Goal(l, wanted) \in Int
  BY SaturateOf DEF Goal, Limits
<1>2. v0 <= Goal(l, wanted) \/ Goal(l, wanted) <= v0
  BY <1>1
<1>3. v0 <= v0 /\ v0 * v0 >= 0 /\ ~(v0 * v0 < 0) /\ ~(Abs(v0) > Abs(v0)) /\ ~(Abs(v0) < Abs(v0))
  BY SignOfProduct, AbsOf
<1> QED
  BY <1>2, <1>3, Zenon DEF Respects, Goal

-----------------------------------------------------------------------------
(***************************************************************************)
(* The drives                                                              *)
(***************************************************************************)

(* What loading leaves alone, and what a drive that steers was loaded for. *)
Untouched ==
  phase # "driving" =>
    limits = None /\ theta = 0 /\ initial = None /\ last = None /\ odom = None

FitsKinematics == phase = "driving" => Accepts

WheelFollows ==
  /\ limits # None => limits = IF inverted THEN <<-theta, -theta>> ELSE <<theta, theta>>
  /\ MaxSteer # 0 => Abs(theta) <= MaxSteer

(* Odometry starts where the robot was at the first step, and derived      *)
(* velocities where it was at the first publication.                       *)
OdometryAddsUp ==
  /\ origin \in Int /\ reckoned \in Int
  /\ kind = "TricycleDriveAckermann" =>
       /\ last # None => origin + reckoned = last[1]
       /\ odom # None => last # None /\ odom[1].truth = last[1]
  /\ kind # "TricycleDrive" /\ odom # None =>
       initial # None /\ odom[1].truth - odom[1].odom = initial[1]

(* The body of a differential drive without casters was given the drive's  *)
(* velocities.                                                             *)
BodyFollows == kind \notin Steered /\ ~casters => body_vel = <<v, d>>

DriveInv == /\ DriveTypeOK /\ Untouched /\ FitsKinematics /\ WheelFollows
            /\ OdometryAddsUp /\ BodyFollows

LEMMA GivenIs ==
  ASSUME NEW x
  PROVE  Given(x) # None /\ Given(x)[1] = x
BY DEF Given, None

(* The invariant holds of every model a drive is loaded for.               *)
LEMMA InitialInvariant == DrivesAssumption /\ DriveInit => DriveInv
<1> SUFFICES ASSUME DrivesAssumption, DriveInit PROVE DriveInv
  OBVIOUS
<1>1. MaxSteer \in Nat /\ Abs(0) = 0
  BY AbsOf DEF DrivesAssumption
<1>2. DriveTypeOK
  <2>1. cmd \in [speed : Speeds \cup {0}, turn : Turns \cup {0}]
    BY DEF DriveInit
  <2>2. /\ joint \in Joints /\ rear \in RearJoints
        /\ inverted \in BOOLEAN /\ casters \in BOOLEAN /\ identified \in BOOLEAN
    BY DEF DriveInit, Joints, RearJoints
  <2>3. body_vel \in Int \X Int
    BY DEF DriveInit
  <2> QED
    BY <2>1, <2>2, <2>3 DEF DriveInit, DriveTypeOK
<1>3. Untouched /\ FitsKinematics
  BY DEF DriveInit, Untouched, FitsKinematics
<1>4. WheelFollows
  BY <1>1 DEF DriveInit, WheelFollows
<1>5. OdometryAddsUp /\ BodyFollows
  BY DEF DriveInit, OdometryAddsUp, BodyFollows
<1> QED
  BY <1>2, <1>3, <1>4, <1>5 DEF DriveInv

(* Everything a step computes with is a whole number.                      *)
LEMMA WholeNumbers ==
  ASSUME DrivesAssumption, DriveInv
  PROVE  /\ v \in Int /\ d \in Int /\ theta \in Int
         /\ cmd.speed \in Int /\ cmd.turn \in Int
         /\ pose \in Int
         /\ Linear \in Limits /\ Angular \in Limits /\ MaxSteer \in Nat
<1>1. Speeds \cup {0} \subseteq Int /\ Turns \cup {0} \subseteq Int
  BY DEF DrivesAssumption
<1>2. cmd.speed \in Speeds \cup {0} /\ cmd.turn \in Turns \cup {0}
  BY DEF DriveInv, DriveTypeOK
<1>3. cmd.speed \in Int /\ cmd.turn \in Int
  BY <1>1, <1>2
<1> QED
  BY <1>3 DEF DriveInv, DriveTypeOK, DrivesAssumption

(* How the steered wheel turns in a step                                   *)
WheelTurns ==
  /\ \/ 0 <= theta' - theta /\ theta' - theta <= d'
     \/ d' <= theta' - theta /\ theta' - theta <= 0
  /\ kind \in Steered /\ theta' # theta =>
       \/ theta' = theta + d'
       \/ MaxSteer # 0 /\ Abs(theta') = MaxSteer

LEMMA AimIsWhole ==
  ASSUME DrivesAssumption, DriveInv
  PROVE  Aim \in Int
BY WholeNumbers DEF Aim

LEMMA TurnsNoFurther ==
  ASSUME NEW from \in Int, NEW by \in Int, NEW m \in Nat, NEW to \in Int,
         \/ to = from + by
         \/ /\ -m <= from /\ from <= m
            /\ \/ to = -m /\ from + by < -m
               \/ to = m /\ from + by > m
  PROVE  \/ 0 <= to - from /\ to - from <= by
         \/ by <= to - from /\ to - from <= 0
OBVIOUS

(* Turning the wheel keeps it within max_steer_angle, where its joint is   *)
(* drawn, and takes both velocities through their limits.                  *)
LEMMA SteerKeeps ==
  ASSUME DrivesAssumption, DriveInv, Steer, inverted' = inverted
  PROVE  /\ v' \in Int /\ d' \in Int /\ theta' \in Int
         /\ WheelFollows'
         /\ Respects(Linear, v, v', cmd.speed)
         /\ Respects(Angular, d, d', Aim)
         /\ WheelTurns
<1>1. /\ v \in Int /\ d \in Int /\ theta \in Int
      /\ cmd.speed \in Int /\ cmd.turn \in Int
      /\ Linear \in Limits /\ Angular \in Limits /\ MaxSteer \in Nat
  BY WholeNumbers
<1>2. Aim \in Int
  BY AimIsWhole
<1>3. d' \in Int /\ Respects(Angular, d, d', Aim)
  BY <1>1, <1>2, LimitRespects DEF Steer
<1>4. v' \in Int /\ Respects(Linear, v, v', cmd.speed)
  BY <1>1, LimitRespects DEF Steer
<1>5. theta' = SteeredTo(d')
  BY DEF Steer
<1>6. /\ theta' \in Int
      /\ MaxSteer # 0 => Abs(theta') <= MaxSteer
      /\ WheelTurns
  <2>1. theta + d' \in Int
    BY <1>1, <1>3
  <2>2. MaxSteer # 0 => theta' = IF theta + d' < -MaxSteer THEN -MaxSteer
                                 ELSE IF theta + d' > MaxSteer THEN MaxSteer ELSE theta + d'
    BY <1>1, <1>5, <2>1, SaturateOf DEF SteeredTo
  <2>3. MaxSteer = 0 => theta' = theta + d'
    BY <1>5 DEF SteeredTo
  <2>4. MaxSteer # 0 => -MaxSteer <= theta /\ theta <= MaxSteer
    BY <1>1, AbsOf DEF DriveInv, WheelFollows
  <2>5. /\ theta' \in Int
        /\ MaxSteer # 0 => Abs(theta') <= MaxSteer
        /\ theta' = theta + d' \/ (MaxSteer # 0 /\ Abs(theta') = MaxSteer)
    BY <1>1, <2>1, <2>2, <2>3, AbsOf
  <2>6. \/ 0 <= theta' - theta /\ theta' - theta <= d'
        \/ d' <= theta' - theta /\ theta' - theta <= 0
    <3>1. /\ theta \in Int /\ d' \in Int /\ MaxSteer \in Nat /\ theta' \in Int
      BY <1>1, <1>3, <2>5
    <3>2. \/ theta' = theta + d'
          \/ /\ -MaxSteer <= theta /\ theta <= MaxSteer
             /\ \/ theta' = -MaxSteer /\ theta + d' < -MaxSteer
                \/ theta' = MaxSteer /\ theta + d' > MaxSteer
      BY <2>2, <2>3, <2>4, Zenon
    <3> QED
      BY <3>1, <3>2, TurnsNoFurther
  <2> QED
    BY <2>5, <2>6 DEF WheelTurns
<1>7. limits' = IF inverted' THEN <<-theta', -theta'>> ELSE <<theta', theta'>>
  BY <1>5 DEF Steer
<1> QED
  BY <1>3, <1>4, <1>6, <1>7 DEF WheelFollows

(* A differential drive takes both velocities through their limits.        *)
LEMMA SpinKeeps ==
  ASSUME DrivesAssumption, DriveInv, Spin, inverted' = inverted
  PROVE  /\ v' \in Int /\ d' \in Int /\ theta' \in Int
         /\ WheelFollows'
         /\ Respects(Linear, v, v', cmd.speed)
         /\ Respects(Angular, d, d', cmd.turn)
         /\ theta' = theta
         /\ WheelTurns
<1>1. /\ v \in Int /\ d \in Int /\ theta \in Int
      /\ cmd.speed \in Int /\ cmd.turn \in Int
      /\ Linear \in Limits /\ Angular \in Limits
  BY WholeNumbers
<1>2. v' \in Int /\ Respects(Linear, v, v', cmd.speed)
  BY <1>1, LimitRespects DEF Spin
<1>3. d' \in Int /\ Respects(Angular, d, d', cmd.turn)
  BY <1>1, LimitRespects DEF Spin
<1>4. theta' = theta /\ limits' = limits
  BY DEF Spin
<1>5. WheelFollows'
  BY <1>4 DEF WheelFollows, DriveInv
<1>6. WheelTurns
  BY <1>1, <1>3, <1>4 DEF WheelTurns
<1> QED
  BY <1>1, <1>2, <1>3, <1>4, <1>5, <1>6

(* Identified models drive no steered wheel.                               *)
LEMMA FollowKeeps ==
  ASSUME DrivesAssumption, DriveInv, FollowModels, inverted' = inverted
  PROVE  /\ v' \in Int /\ d' \in Int /\ theta' \in Int
         /\ WheelFollows'
         /\ theta' = theta
         /\ WheelTurns
<1>1. v \in Int /\ d \in Int /\ theta \in Int
  BY WholeNumbers
<1>2. v' \in Int /\ d' \in Int
  BY <1>1 DEF FollowModels, DrivesAssumption
<1>3. theta' = theta /\ limits' = limits
  BY DEF FollowModels
<1>4. WheelFollows'
  BY <1>3 DEF WheelFollows, DriveInv
<1>5. WheelTurns
  BY <1>1, <1>2, <1>3 DEF WheelTurns
<1> QED
  BY <1>1, <1>2, <1>3, <1>4, <1>5

(* What a step keeps of poses and odometry.                                *)
PosesKept ==
  /\ initial' \in {None} \cup {Given(p) : p \in Poses}
  /\ last' \in {None} \cup {Given(p) : p \in Poses}
  /\ OdometryAddsUp'

LEMMA StartedIs ==
  ASSUME DriveInv
  PROVE  /\ Started \in {Given(p) : p \in Poses}
         /\ Started # None
         /\ initial # None => Started = initial
BY GivenIs DEF Started, DriveInv, DriveTypeOK

(* Odometry that starts at the robot, of the drives that do not derive     *)
(* velocities from it.                                                     *)
LEMMA OdometryKept ==
  ASSUME DrivesAssumption, DriveInv, kind' = kind, pose' = pose,
         kind \notin {"TricycleDrive", "TricycleDriveAckermann"}, initial' = Started,
         NEW publish \in BOOLEAN,
         IF publish THEN Publish(initial'[1]) ELSE Unpublished
  PROVE  PosesKept
<1>1. /\ Started \in {Given(p) : p \in Poses} /\ Started # None
      /\ initial # None => Started = initial
  BY StartedIs
<1>2. last' = last /\ origin' = origin /\ reckoned' = reckoned
  BY DEF Publish, Unpublished, published
<1>3. PICK p \in Poses : initial' = Given(p) /\ initial'[1] = p
  BY <1>1, GivenIs
<1>4. p \in Int /\ pose \in Int
  BY DEF DriveInv, DriveTypeOK, DrivesAssumption
<1>5. odom' # None => odom'[1].truth - odom'[1].odom = initial'[1]
  <2>1. CASE publish
    <3>1. odom' = Given([truth |-> pose, odom |-> pose - initial'[1]])
      BY <2>1 DEF Publish
    <3>2. odom'[1] = [truth |-> pose, odom |-> pose - initial'[1]]
      BY <3>1, GivenIs
    <3>3. pose - (pose - p) = p
      BY <1>4
    <3> QED
      BY <1>3, <3>2, <3>3
  <2>2. CASE ~publish
    <3>1. odom' = odom
      BY <2>2 DEF Unpublished, published
    <3> QED
      BY <1>1, <3>1 DEF DriveInv, OdometryAddsUp
  <2> QED
    BY <2>1, <2>2
<1> QED
  BY <1>1, <1>2, <1>5 DEF PosesKept, OdometryAddsUp, DriveInv, DriveTypeOK

(* The odometry of TricycleDrive is its pose; it keeps no other.           *)
LEMMA TricycleOdometryKept ==
  ASSUME DrivesAssumption, DriveInv, kind' = kind, pose' = pose,
         kind = "TricycleDrive", initial' = initial, last' = last,
         origin' = origin, reckoned' = reckoned
  PROVE  PosesKept
BY DEF PosesKept, OdometryAddsUp, DriveInv, DriveTypeOK

(* The displacements that TricycleDriveAckermann publishes add up.         *)
LEMMA DerivedOdometryKept ==
  ASSUME DrivesAssumption, DriveInv, kind' = kind, pose' = pose,
         kind = "TricycleDriveAckermann", initial' = Started,
         NEW publish \in BOOLEAN,
         IF publish THEN PublishDerived(initial'[1]) ELSE Unpublished
  PROVE  PosesKept
<1>1. /\ Started \in {Given(p) : p \in Poses} /\ Started # None
      /\ initial # None => Started = initial
  BY StartedIs
<1>2. PICK p \in Poses : initial' = Given(p) /\ initial'[1] = p
  BY <1>1, GivenIs
<1>3. p \in Int /\ pose \in Int /\ pose \in Poses
  BY DEF DriveInv, DriveTypeOK, DrivesAssumption
<1>4. CASE publish
  <2>1. /\ odom' = Given([truth |-> pose, odom |-> pose - p])
        /\ last' = Given(pose)
        /\ origin' = IF last = None THEN pose ELSE origin
        /\ reckoned' = IF last = None THEN 0 ELSE reckoned + (pose - last[1])
    BY <1>2, <1>4 DEF PublishDerived
  <2>2. /\ odom'[1].truth = pose /\ odom'[1].odom = pose - p
        /\ last'[1] = pose /\ last' # None
    BY <2>1, GivenIs
  <2>3. CASE last = None
    <3>1. origin' = pose /\ reckoned' = 0 /\ origin' + reckoned' = pose
      BY <1>3, <2>1, <2>3
    <3>2. pose - (pose - p) = p
      BY <1>3
    <3> QED
      BY <1>1, <1>2, <1>3, <2>1, <2>2, <3>1, <3>2 DEF PosesKept, OdometryAddsUp
  <2>4. CASE last # None
    <3>1. PICK q \in Poses : last = Given(q) /\ last[1] = q
      BY <2>4, GivenIs DEF DriveInv, DriveTypeOK
    <3>2. q \in Int /\ origin \in Int /\ reckoned \in Int /\ origin + reckoned = q
      BY <2>4, <3>1 DEF DriveInv, OdometryAddsUp, DrivesAssumption
    <3>3. origin' = origin /\ reckoned' = reckoned + (pose - q)
      BY <2>1, <2>4, <3>1
    <3>4. /\ origin' \in Int /\ reckoned' \in Int /\ origin' + reckoned' = pose
          /\ pose - (pose - p) = p
      BY <1>3, <3>2, <3>3
    <3> QED
      BY <1>1, <1>2, <1>3, <2>1, <2>2, <3>4 DEF PosesKept, OdometryAddsUp
  <2> QED
    BY <2>3, <2>4
<1>5. CASE ~publish
  <2>1. last' = last /\ odom' = odom /\ origin' = origin /\ reckoned' = reckoned
    BY <1>5 DEF Unpublished, published
  <2> QED
    BY <1>1, <2>1 DEF PosesKept, OdometryAddsUp, DriveInv, DriveTypeOK
<1> QED
  BY <1>4, <1>5

(* What every step of a drive does, as DriveRespectsLimits states it.      *)
StepRespects ==
  /\ ~identified =>
       /\ Respects(Linear, v, v', cmd.speed)
       /\ Respects(Angular, d, d', IF kind \in Steered THEN Aim ELSE cmd.turn)
  /\ \/ 0 <= theta' - theta /\ theta' - theta <= d'
     \/ d' <= theta' - theta /\ theta' - theta <= 0
  /\ kind \in Steered /\ theta' # theta =>
       \/ theta' = theta + d'
       \/ MaxSteer # 0 /\ Abs(theta') = MaxSteer
  /\ kind \notin Steered /\ ~casters => body_vel' = <<v', d'>>

BodyGiven == body_vel' \in Int \X Int /\ BodyFollows'

(* A steered drive sets the velocities of its body otherwise.              *)
LEMMA SteeredBody ==
  ASSUME DriveInv, kind \in Steered, kind' = kind, body_vel' = body_vel
  PROVE  BodyGiven
BY DEF BodyGiven, BodyFollows, DriveInv, DriveTypeOK

(* A step of the physics.                                                  *)
LEMMA PhysicsKeeps ==
  ASSUME DrivesAssumption, DriveInv, DriveStep
  PROVE  DriveInv' /\ StepRespects
<1>1. /\ phase = "driving" /\ phase' = phase /\ cmd' = cmd /\ pose' = pose
      /\ kind' = kind /\ joint' = joint /\ rear' = rear /\ inverted' = inverted
      /\ casters' = casters /\ identified' = identified
  BY DEF DriveStep, config
<1>2. PICK publish \in BOOLEAN :
        \/ DiffDriveStep(publish)
        \/ DiffDriveCasterStep(publish)
        \/ TricycleStep(publish)
        \/ AckermannStep(publish)
        \/ OmniStep(publish)
  BY DEF DriveStep
<1>3. /\ v' \in Int /\ d' \in Int /\ theta' \in Int
      /\ WheelFollows' /\ StepRespects /\ PosesKept /\ BodyGiven
  <2>1. CASE DiffDriveStep(publish)
    <3>1. /\ IF identified THEN FollowModels ELSE Spin
          /\ kind = "DiffDrive" /\ initial' = Started
          /\ body_vel' = <<v', d'>>
          /\ IF publish THEN Publish(initial'[1]) ELSE Unpublished
      BY <2>1 DEF DiffDriveStep
    <3>2. PosesKept
      BY <1>1, <3>1, OdometryKept
    <3>3. kind \notin Steered
      BY <3>1 DEF Steered
    <3>4. /\ v' \in Int /\ d' \in Int /\ theta' \in Int /\ WheelFollows' /\ WheelTurns
          /\ ~identified =>
               Respects(Linear, v, v', cmd.speed) /\ Respects(Angular, d, d', cmd.turn)
      BY <1>1, <3>1, SpinKeeps, FollowKeeps
    <3>5. BodyGiven
      BY <1>1, <3>1, <3>4 DEF BodyGiven, BodyFollows
    <3> QED
      BY <3>1, <3>2, <3>3, <3>4, <3>5 DEF StepRespects, WheelTurns
  <2>5. CASE DiffDriveCasterStep(publish)
    <3>1. /\ Spin /\ PushCasters /\ kind = "DiffDriveCaster" /\ initial' = Started
          /\ IF publish THEN Publish(initial'[1]) ELSE Unpublished
      BY <2>5 DEF DiffDriveCasterStep
    <3>2. PosesKept
      BY <1>1, <3>1, OdometryKept
    <3>3. kind \notin Steered
      BY <3>1 DEF Steered
    <3>4. /\ v' \in Int /\ d' \in Int /\ theta' \in Int /\ WheelFollows' /\ WheelTurns
          /\ Respects(Linear, v, v', cmd.speed) /\ Respects(Angular, d, d', cmd.turn)
      BY <1>1, <3>1, SpinKeeps
    <3>5. body_vel' \in Int \X Int /\ (~casters => body_vel' = <<v', d'>>)
      <4>1. PICK change \in IF casters THEN Impulses ELSE {<<0, 0>>} :
              body_vel' = <<v' + change[1], d' + change[2]>>
        BY <3>1 DEF PushCasters
      <4>2. change[1] \in Int /\ change[2] \in Int
        BY DEF DrivesAssumption
      <4>3. ~casters => change[1] = 0 /\ change[2] = 0
        OBVIOUS
      <4> QED
        BY <3>4, <4>1, <4>2, <4>3
    <3>6. BodyGiven
      BY <1>1, <3>5 DEF BodyGiven, BodyFollows
    <3> QED
      BY <3>2, <3>3, <3>4, <3>5, <3>6 DEF StepRespects, WheelTurns
  <2>2. CASE TricycleStep(publish)
    <3>1. /\ Steer /\ kind = "TricycleDrive" /\ initial' = initial
          /\ last' = last /\ origin' = origin /\ reckoned' = reckoned
      BY <2>2 DEF TricycleStep, Publish, Unpublished, published
    <3>2. PosesKept
      BY <1>1, <3>1, TricycleOdometryKept
    <3>3. kind \in Steered
      BY <3>1 DEF Steered
    <3> QED
      BY <1>1, <3>1, <3>2, <3>3, SteerKeeps, SteeredBody DEF StepRespects, WheelTurns, Steer
  <2>3. CASE AckermannStep(publish)
    <3>1. /\ Steer /\ kind = "TricycleDriveAckermann" /\ initial' = Started
          /\ IF publish THEN PublishDerived(initial'[1]) ELSE Unpublished
      BY <2>3 DEF AckermannStep
    <3>2. PosesKept
      BY <1>1, <3>1, DerivedOdometryKept
    <3>3. kind \in Steered
      BY <3>1 DEF Steered
    <3> QED
      BY <1>1, <3>1, <3>2, <3>3, SteerKeeps, SteeredBody DEF StepRespects, WheelTurns, Steer
  <2>4. CASE OmniStep(publish)
    <3>1. /\ Steer /\ kind = "OmniDrive" /\ initial' = Started
          /\ IF publish THEN Publish(initial'[1]) ELSE Unpublished
      BY <2>4 DEF OmniStep
    <3>2. PosesKept
      BY <1>1, <3>1, OdometryKept
    <3>3. kind \in Steered
      BY <3>1 DEF Steered
    <3> QED
      BY <1>1, <3>1, <3>2, <3>3, SteerKeeps, SteeredBody DEF StepRespects, WheelTurns, Steer
  <2> QED
    BY <1>2, <2>1, <2>2, <2>3, <2>4, <2>5
<1>4. DriveTypeOK'
  BY <1>1, <1>3 DEF PosesKept, BodyGiven, DriveInv, DriveTypeOK
<1>5. Untouched'
  BY <1>1 DEF Untouched
<1>6. FitsKinematics'
  BY <1>1 DEF DriveInv, FitsKinematics, Accepts, DiffDriveAccepts, DiffDriveCasterAccepts,
              TricycleAccepts, AckermannAccepts, OmniAccepts, TricycleJoints,
              AckermannJoints, TurretJoint
<1> QED
  BY <1>3, <1>4, <1>5, <1>6 DEF DriveInv, PosesKept, BodyGiven

(* A step that leaves velocities, wheel and odometry alone.                *)
LEMMA OtherStepsKeep ==
  ASSUME DrivesAssumption, DriveInv,
         OnInitialize \/ TwistCallback \/ Move \/ UNCHANGED driveVars
  PROVE  DriveInv' /\ StepRespects
<1>1. /\ limits' = limits /\ v' = v /\ d' = d /\ theta' = theta /\ body_vel' = body_vel
      /\ initial' = initial /\ last' = last /\ odom' = odom
      /\ origin' = origin /\ reckoned' = reckoned
      /\ kind' = kind /\ joint' = joint /\ rear' = rear /\ inverted' = inverted
      /\ casters' = casters /\ identified' = identified
  BY DEF OnInitialize, TwistCallback, Move, driveVars, published, config
<1>2. /\ phase' \in {"loading", "driving", "refused"}
      /\ phase' = "driving" => phase = "driving" \/ Accepts
      /\ phase' # "driving" => phase # "driving"
      /\ cmd' \in [speed : Speeds \cup {0}, turn : Turns \cup {0}]
      /\ pose' \in Poses
  BY DEF OnInitialize, TwistCallback, Move, driveVars, DriveInv, DriveTypeOK
<1>3. DriveTypeOK'
  BY <1>1, <1>2 DEF DriveInv, DriveTypeOK
<1>4. Untouched'
  BY <1>1, <1>2 DEF DriveInv, Untouched
<1>5. FitsKinematics'
  BY <1>1, <1>2 DEF DriveInv, FitsKinematics, Accepts, DiffDriveAccepts,
              DiffDriveCasterAccepts, TricycleAccepts, AckermannAccepts, OmniAccepts,
              TricycleJoints, AckermannJoints, TurretJoint
<1>6. WheelFollows' /\ OdometryAddsUp' /\ BodyFollows'
  BY <1>1 DEF DriveInv, WheelFollows, OdometryAddsUp, BodyFollows
<1>7. StepRespects
  <2>1. Respects(Linear, v, v', cmd.speed)
    BY <1>1, WholeNumbers, RestRespects
  <2>2. Respects(Angular, d, d', IF kind \in Steered THEN Aim ELSE cmd.turn)
    BY <1>1, WholeNumbers, AimIsWhole, RestRespects
  <2>3. WheelTurns
    BY <1>1, WholeNumbers DEF WheelTurns
  <2> QED
    BY <1>1, <2>1, <2>2, <2>3 DEF StepRespects, WheelTurns, DriveInv, BodyFollows
<1> QED
  BY <1>3, <1>4, <1>5, <1>6, <1>7 DEF DriveInv

LEMMA StepKeepsInvariant ==
  DrivesAssumption /\ DriveInv /\ [DriveNext]_driveVars => DriveInv' /\ StepRespects
BY PhysicsKeeps, OtherStepsKeep DEF DriveNext

LEMMA WheelAndOdometryFollow == DriveInv => WheelAndOdometry
<1> SUFFICES ASSUME DriveInv PROVE WheelAndOdometry
  OBVIOUS
<1>1. phase = "driving" /\ kind \in Steered =>
        joint \notin {"missing", "weld", "elsewhere"} /\ (kind \in Tricycles => rear = "good")
  BY DEF DriveInv, FitsKinematics, Accepts, TricycleAccepts, AckermannAccepts, OmniAccepts,
         TricycleJoints, AckermannJoints, TurretJoint, Steered, Tricycles
<1>2. kind = "TricycleDriveAckermann" /\ odom # None =>
        odom[1].truth = origin + reckoned /\ last[1] = odom[1].truth
  BY DEF DriveInv, OdometryAddsUp
<1> QED
  BY <1>1, <1>2 DEF DriveInv, WheelFollows, OdometryAddsUp, WheelAndOdometry

(* In every reachable state of a drive, of whatever kind, under whatever   *)
(* limits and commands, the wheel joint is drawn at the steering angle and *)
(* within max_steer_angle, a drive that steers has a revolute joint, and   *)
(* the published odometry adds up to where the robot is.                   *)
THEOREM DrivesAreTrue ==
  ASSUME DrivesAssumption
  PROVE  DriveSpec => []WheelAndOdometry
<1>1. DriveInit => DriveInv
  BY InitialInvariant
<1>2. DriveInv /\ [DriveNext]_driveVars => DriveInv'
  BY StepKeepsInvariant
<1>3. DriveInv => WheelAndOdometry
  BY WheelAndOdometryFollow
<1> QED
  BY <1>1, <1>2, <1>3, PTL DEF DriveSpec

(* Whatever the limits, the commands and their order, every step keeps to  *)
(* the limits of the speed, of the turning of a differential drive and of  *)
(* the steering velocity of a steered one as Respects states them: away    *)
(* from zero at most acc, towards zero at most dec, through zero first     *)
(* brake and then accelerate in what is left.  Respects exempts a reversal *)
(* with a deceleration but no acceleration limit; the formula exempts a    *)
(* DiffDrive that follows identified models, and it is about the           *)
(* velocities before the casters' impulses.                                *)
THEOREM LimitsAreRespected ==
  ASSUME DrivesAssumption
  PROVE  DriveSpec => DriveRespectsLimits
<1>1. DriveInit => DriveInv
  BY InitialInvariant
<1>2. DriveInv /\ [DriveNext]_driveVars => DriveInv' /\ [StepRespects]_driveVars
  BY StepKeepsInvariant
<1>3. DriveRespectsLimits <=> [][StepRespects]_driveVars
  BY DEF DriveRespectsLimits, StepRespects
<1> QED
  BY <1>1, <1>2, <1>3, PTL DEF DriveSpec
=============================================================================
