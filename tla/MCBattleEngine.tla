--------------------------- MODULE MCBattleEngine ---------------------------
(***************************************************************************)
(* Instances of BattleEngine for TLC: a corridor of an odd number of       *)
(* cells, a base and a spawn at each end, the objective in the middle,     *)
(* positions in quarters of a cell.                                        *)
(***************************************************************************)
EXTENDS BattleEngine

CONSTANTS
  MCLength,                 \* of the corridor, in cells
  MCSpeed, MCCarrierSpeed   \* quarters of a cell per tick

Geo == INSTANCE ArenaGeometry WITH
         Width <- MCLength, Height <- 1, Unit <- 4, Obstacles <- {}, CollisionRadius <- 1,
         Speed <- MCSpeed, CarrierSpeed <- MCCarrierSpeed,
         DashDistance <- 8, AttackRange <- 5, PickupRadius <- 3,
         UintMax <- 4095

MCPosition == Geo!Point
MCDirection == {<<1, 0>>, <<-1, 0>>}
MCStill == <<0, 0>>
MCFarEnd == <<4 * (MCLength - 1), 0>>
MCMiddle == <<2 * (MCLength - 1), 0>>
MCSpawn == [p \in {Blue, Red} |-> IF p = Blue THEN <<0, 0>> ELSE MCFarEnd]
MCOwnBase ==
  [p \in {Blue, Red} |->
     {x \in MCPosition : Geo!Within(x, MCSpawn[p], 2)}]
MCPickupReach == [x \in MCPosition |-> {y \in MCPosition : Geo!Within(x, y, 3)}]
MCMoveTarget ==
  [c \in BOOLEAN |-> [d \in MCDirection |->
     [x \in MCPosition |-> Geo!StepFrom(x, d, c, Blocked)]]]
MCDashTarget == [d \in MCDirection |-> [x \in MCPosition |-> Geo!DashFrom(x, d)]]
MCAttackReach ==
  [d \in MCDirection |-> [x \in MCPosition |->
     {y \in MCPosition : Geo!AttackHits(x, d, y)}]]

\* A mine beside the middle, on Red's side.
Mine(drops) ==
  [reach |-> [t \in 0 .. MaxTicks |-> {x \in MCPosition : Geo!Within(x, <<MCMiddle[1] + 4, 0>>, 2)}],
   damage |-> 1, drops |-> drops, cooldown |-> 2]

\* A crow that circles the middle: in a corridor it alternates between its two neighbours.
Crow ==
  LET post == Geo!NearestCell(MCMiddle)
      at(t) == Geo!Centre(Geo!CrowPatrolPosition(post, 0, 1, t, 6, post))
  IN  [reach |-> [t \in 0 .. MaxTicks |-> {x \in MCPosition : Geo!Within(x, at(t), 2)}],
       damage |-> 1, drops |-> TRUE, cooldown |-> 1]

MineAndCrow == <<Mine(TRUE), Crow>>
DamageOnlyMine == <<Mine(FALSE)>>
NoHazards == <<>>
=============================================================================
