------------------------------- MODULE Terrain -------------------------------
(***************************************************************************)
(* The TerrainModifier plugin: patches of ground where a moving body       *)
(* slips, is shaken, and rolls downhill                                    *)
(* (flatland_plugins/src/terrain_modifier.cpp).                            *)
(*                                                                         *)
(* The ground is a line; the body faces downhill, uphill or across.        *)
(* Velocities, in the body's frame, and times are whole numbers, slip is a *)
(* number of 1/Unit.  The Gaussian draws are choices over their truncated  *)
(* range, the sum of the vibration waves one of the ends of its amplitude  *)
(* and zero.                                                               *)
(***************************************************************************)
EXTENDS Integers, Sequences, FiniteSetsExt

CONSTANTS
  Patches,     \* sequences of patches that are tried
  Unit,        \* a slip of Unit is no grip
  Dt,          \* step size
  MinSpeed,    \* min_speed
  Grounds,     \* places on the line
  Velocities,  \* velocities the drive and the physics give the body
  MaxTime      \* bound on the time

Facing == {1, 0, -1}  \* product of the forward and the downhill vector

Velocity == [x : Int, y : Int, w : Int]
IsPatch(p) ==
  /\ p.slip \in BOOLEAN /\ p.rubble \in BOOLEAN /\ p.slope \in BOOLEAN
  /\ {p.box[1], p.box[2], p.max_v, p.max_w, p.drift, p.hold, p.amp, p.speed_gain,
      p.accel, p.damp, p.cap, p.side_gain} \subseteq Int
  /\ p.damp <= Unit  \* exp(-k * dt) of a positive k is less than 1
ASSUME TerrainAssumption ==
  /\ {Unit, Dt} \subseteq Nat \ {0} /\ MinSpeed \in Int
  /\ Grounds \subseteq Int /\ Velocities \subseteq Velocity
  /\ \A ps \in Patches : /\ DOMAIN ps = 1 .. Len(ps) /\ Len(ps) \in Nat
                         /\ \A i \in 1 .. Len(ps) : IsPatch(ps[i])

VARIABLES
  enable, patches,  \* enable_ and the parameters of patches_
  t,                \* t_
  slips,            \* slip_v, slip_w, drift, slip_next_update_t of each patch
  ground, facing, velocity,  \* of the body
  pushed            \* the drive has acted since the last step

terrainVars == <<enable, patches, t, slips, ground, facing, velocity, pushed>>

TerrainInit ==
  /\ enable \in BOOLEAN
  /\ patches \in Patches
  /\ t = 0 /\ pushed = FALSE
  /\ slips = [i \in DOMAIN patches |-> [v |-> 0, w |-> 0, drift |-> 0, next |-> 0]]
  /\ ground \in Grounds /\ facing \in Facing /\ velocity \in Velocities

Abs(x) == IF x < 0 THEN -x ELSE x
(* The share k / Unit of x, towards zero.                                  *)
Share(x, k) == IF x < 0 THEN -((-x * k) \div Unit) ELSE (x * k) \div Unit
Clamp(x, lo, hi) == IF x < lo THEN lo ELSE IF x > hi THEN hi ELSE x

(* The corners of a box are given in any order.                            *)
InPatch(p, x) == x \in Min({p.box[1], p.box[2]}) .. Max({p.box[1], p.box[2]})

-----------------------------------------------------------------------------
(* A new draw when the hold time is over; the patch keeps it otherwise.    *)
MutantUpdated(p, s, now) ==
  { [v |-> v, w |-> w, drift |-> d, next |-> s.next + p.hold] :
      v \in 0 .. p.max_v, w \in 0 .. p.max_w, d \in -p.drift .. p.drift }
Hold(p) == IF p.hold <= 0 THEN Dt ELSE p.hold
UpdateSlipState(p, s, now) ==
  IF ~p.slip \/ now < s.next THEN {s}
  ELSE { [v |-> v, w |-> w, drift |-> d, next |-> now + Hold(p)] :
           v \in 0 .. p.max_v, w \in 0 .. p.max_w, d \in -p.drift .. p.drift }

(* Gravity along the patch, damped and capped: also for a body at rest.    *)
Sloped(p, v) ==
  IF ~p.slope THEN v
  ELSE LET x == v.x + p.accel * facing
           damped == IF p.damp > 0 THEN Share(x, p.damp) ELSE x
       IN [v EXCEPT !.x = IF p.cap > 0 THEN Clamp(damped, -p.cap, p.cap) ELSE damped]

InMotion(v) == \/ MinSpeed <= 0 \/ v.x * v.x + v.y * v.y >= MinSpeed * MinSpeed
               \/ Abs(v.w) >= MinSpeed

(* Across the slope the slip grows.                                        *)
SlipScale(p) ==
  IF p.slope /\ p.side_gain > 0 THEN 1 + p.side_gain * (1 - Abs(facing)) ELSE 1

Slipped(p, s, v) ==
  IF ~p.slip THEN v
  ELSE [x |-> Share(v.x, Unit - Clamp(s.v * SlipScale(p), 0, Unit - 1)),
        y |-> v.y + s.drift * SlipScale(p),
        w |-> Share(v.w, Unit - Clamp(s.w * SlipScale(p), 0, Unit - 1))]

(* A sway within p.amp + p.speed_gain * speed, for the square of a speed.  *)
Sways(p, square) ==
  LET top == p.amp + p.speed_gain * square
      range == {a \in -top .. top :
                  \/ Abs(a) <= p.amp
                  \/ (Abs(a) - p.amp) * (Abs(a) - p.amp) <= p.speed_gain * p.speed_gain * square}
  IN {a \in range : a \in {Min(range), 0, Max(range)}}

(* The amplitudes grow with the speed before, and the turn after the slip. *)
Shaken(p, before, v) ==
  IF ~p.rubble THEN {v}
  ELSE { [x |-> v.x + a, y |-> v.y + b, w |-> v.w + c] :
           a, b \in Sways(p, before.x * before.x + before.y * before.y),
           c \in Sways(p, v.w * v.w) }

ApplyPatch(p, s, v) ==
  LET rolled == Sloped(p, v)
  IN IF InMotion(rolled) THEN Shaken(p, rolled, Slipped(p, s, rolled)) ELSE {rolled}

(* The first patch of the list that the body is on; time goes on off the   *)
(* patches too.                                                            *)
On == { i \in DOMAIN patches : InPatch(patches[i], ground) }

TerrainStep ==
  /\ pushed /\ pushed' = FALSE
  /\ t + Dt <= MaxTime
  /\ t' = IF enable THEN t + Dt ELSE t
  /\ IF ~enable \/ On = {} THEN UNCHANGED <<slips, velocity>>
     ELSE LET i == Min(On)
              p == patches[i]
          IN \E s \in UpdateSlipState(p, slips[i], t + Dt) :
               /\ slips' = [slips EXCEPT ![i] = s]
               /\ velocity' \in ApplyPatch(p, s, velocity)
  /\ UNCHANGED <<enable, patches, ground, facing>>

(* The drive plugins and the physics step.                                 *)
Travel ==
  /\ ~pushed /\ pushed' = TRUE
  /\ ground' \in Grounds /\ facing' \in Facing /\ velocity' \in Velocities
  /\ UNCHANGED <<enable, patches, t, slips>>

TerrainNext == TerrainStep \/ Travel
TerrainSpec == TerrainInit /\ [][TerrainNext]_terrainVars

-----------------------------------------------------------------------------
(* What the slope adds to the forward speed, before it is damped.          *)
Pull(p) == IF p.slope THEN p.accel * facing ELSE 0

(* y goes the way of x, and not further.                                   *)
PartOf(y, x) == (x >= 0 => y \in 0 .. x) /\ (x <= 0 => y \in x .. 0)

(* The terrain acts only where it should, and as slip.  Off the patches    *)
(* nothing changes; only the first of overlapping patches acts; a body at  *)
(* rest on level ground stays at rest; without rubble, damping, cap and    *)
(* slip only take from the forward speed and the turn, however the side    *)
(* slip scales them: what is left of the forward speed is a part of what   *)
(* it was with the pull of the slope, which alone can turn it round (the   *)
(* lateral drift adds speed, across); and the slip in force has never      *)
(* outlived its hold time nor is drawn again before.                       *)
TerrainIsTame ==
  [][TerrainStep =>
       LET v == velocity
           i == Min(On)
           p == patches[i]
       IN IF ~enable \/ On = {} THEN UNCHANGED <<velocity, slips>>
          ELSE /\ \A k \in DOMAIN slips \ {i} : slips'[k] = slips[k]
               /\ ~p.slope /\ ~InMotion(v) => velocity' = v
               /\ ~p.rubble => /\ PartOf(velocity'.x, v.x + Pull(p))
                               /\ PartOf(velocity'.w, v.w)
               /\ p.slope /\ ~p.rubble /\ p.cap > 0 => Abs(velocity'.x) <= p.cap
               /\ p.slip => /\ t' < slips'[i].next
                            /\ slips'[i].next <= t' + Hold(p)
                            /\ slips'[i] # slips[i] => t' >= slips[i].next]_terrainVars
=============================================================================
