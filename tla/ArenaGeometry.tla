--------------------------- MODULE ArenaGeometry ----------------------------
(***************************************************************************)
(* The arena's geometry (src/battle_core/BattleEngine.cpp): bounds,        *)
(* obstacles, movement, dashes, reach, and the crow's patrol.              *)
(*                                                                         *)
(* World coordinates are the code's doubles, counted in Unit-ths of a      *)
(* cell; squared distances are compared exactly, as integers.  Directions  *)
(* are axis-parallel: a diagonal is normalised by the code to an           *)
(* irrational step and is not modelled.                                    *)
(***************************************************************************)
EXTENDS Integers, Sequences

CONSTANTS
  Width, Height,    \* of the arena, in cells
  Unit,             \* positions per cell, an even number
  Obstacles,        \* a set of cells
  CollisionRadius, Speed, CarrierSpeed, DashDistance, AttackRange, PickupRadius,
  UintMax           \* the largest std::uint32_t

Cell == (0 .. Width - 1) \X (0 .. Height - 1)
Point == (0 .. (Width - 1) * Unit) \X (0 .. (Height - 1) * Unit)
Axis == {<<1, 0>>, <<-1, 0>>, <<0, 1>>, <<0, -1>>}

Centre(cell) == <<cell[1] * Unit, cell[2] * Unit>>

Shift(p, d, n) == <<p[1] + d[1] * n, p[2] + d[2] * n>>

InBounds(p) == p \in Point

\* The cell a position is shown in: rounded half up.
NearestCell(p) == <<(p[1] + Unit \div 2) \div Unit, (p[2] + Unit \div 2) \div Unit>>

DistanceSquared(a, b) ==
  (a[1] - b[1]) * (a[1] - b[1]) + (a[2] - b[2]) * (a[2] - b[2])

Clamp(x, a, b) ==
  LET low  == IF a < b THEN a ELSE b
      high == IF a < b THEN b ELSE a
  IN  IF x < low THEN low ELSE IF x > high THEN high ELSE x

\* The distance from a point to an axis-parallel segment.
SegmentDistanceSquared(p, from, to) ==
  DistanceSquared(p, <<Clamp(p[1], from[1], to[1]), Clamp(p[2], from[2], to[2])>>)

BlockedDistance == Unit \div 2 + CollisionRadius

CollidesWithObstacle(from, to) ==
  \E o \in Obstacles :
    SegmentDistanceSquared(Centre(o), from, to) < BlockedDistance * BlockedDistance

Within(p, centre, radius) == DistanceSquared(p, centre) <= radius * radius

\* One tick of movement: a step that leaves the arena or meets an obstacle is not made.
StepFrom(p, d, carrying, blocked) ==
  LET to == Shift(p, d, IF carrying THEN CarrierSpeed ELSE Speed)
  IN  IF ~InBounds(to) \/ CollidesWithObstacle(p, to) THEN blocked ELSE to

\* Mutant of CollisionSafeTarget: only the place of arrival is looked at.
TargetWhateverLiesBetween(from, d, distance) ==
  LET desired == Shift(from, d, distance)
  IN  IF InBounds(desired) /\ ~CollidesWithObstacle(desired, desired) THEN desired ELSE from

(***************************************************************************)
(* A dash goes the whole way if nothing is in it, else to the last safe    *)
(* quarter of a cell (Unit must be a multiple of 4 for that).              *)
(***************************************************************************)
CollisionSafeTarget(from, d, distance) ==
  LET desired == Shift(from, d, distance)
      quarter == Unit \div 4
      steps   == (distance + quarter - 1) \div quarter
      free(k) == LET a == Shift(from, d, ((k - 1) * distance) \div steps)
                     b == Shift(from, d, (k * distance) \div steps)
                 IN  InBounds(b) /\ ~CollidesWithObstacle(a, b)
      last    == CHOOSE k \in 0 .. steps :
                   /\ \A j \in 1 .. k : free(j)
                   /\ k = steps \/ ~free(k + 1)
  IN  IF InBounds(desired) /\ ~CollidesWithObstacle(from, desired) THEN desired
      ELSE Shift(from, d, (last * distance) \div steps)

DashFrom(p, d) == CollisionSafeTarget(p, d, DashDistance)

\* Where a target can stand to be hit by an attack along d.
AttackHits(p, d, target) ==
  /\ SegmentDistanceSquared(target, p, Shift(p, d, AttackRange))
       <= BlockedDistance * BlockedDistance
  /\ DistanceSquared(p, target) <= AttackRange * AttackRange + Unit * Unit

PatrolOffsets ==
  <<<<1, -1>>, <<1, 0>>, <<1, 1>>, <<-1, 1>>, <<-1, 0>>, <<-1, -1>>>>

\* What a crow's phase is taken of: a sum of std::uint32_t, which wraps.
PatrolSum(seed, index, tick) == (seed + tick + index * 17) % (UintMax + 1)

\* A crow's cell at a tick: the first free one around its post, from a phase the tick sets.
CrowPatrolPosition(post, seed, index, tick, patrolRadius, spawn) ==
  LET phase   == PatrolSum(seed, index, tick) % Len(PatrolOffsets)
      at(k)   == LET o == PatrolOffsets[((phase + k) % Len(PatrolOffsets)) + 1]
                 IN  <<post[1] + o[1], post[2] + o[2]>>
      fine(k) == /\ at(k) \in Cell
                 /\ at(k) \notin Obstacles
                 /\ Within(Centre(at(k)), Centre(post), patrolRadius)
                 /\ at(k) # spawn
      tries   == {k \in 0 .. Len(PatrolOffsets) - 1 : fine(k)}
  IN  IF tries = {} THEN post
      ELSE at(CHOOSE k \in tries : \A j \in tries : k <= j)
=============================================================================
