---------------------------- MODULE ArenaConfig -----------------------------
(***************************************************************************)
(* The arena a scenario describes and what the server demands of it before *)
(* it starts a match (src/battle_core/ArenaConfig.hpp): everything must    *)
(* look the same when the arena is turned half round, so that neither team *)
(* has the better side.  Red's client shows the arena turned.              *)
(*                                                                         *)
(* A zone's radius is counted in Unit-ths of a cell.  The fields of a      *)
(* hazard that the validator only compares (damage, ranges, cooldown,      *)
(* seed, effect, trigger, icon) are one value, its rules.                  *)
(***************************************************************************)
EXTENDS Integers, Sequences

CONSTANTS
  CanonicalWidth, CanonicalHeight,   \* of the Objective Run arena, in cells
  Unit,
  Absent                             \* a required part that was left out

\* The cell a cell comes to when an arena is turned half round.
Rotate180(cell, size) == <<size[1] - 1 - cell[1], size[2] - 1 - cell[2]>>

ToPlayerView(cell, team, size) == IF team = "Red" THEN Rotate180(cell, size) ELSE cell

\* Mutant of InputDirectionToWorld: Red's input is mirrored left to right instead of turned.
InputReflected(d, team) == IF team = "Red" THEN <<-d[1], d[2]>> ELSE d

InputDirectionToWorld(d, team) == IF team = "Red" THEN <<-d[1], -d[2]>> ELSE d

Elements(s) == {s[i] : i \in DOMAIN s}
AllDiffer(s) == \A i, j \in DOMAIN s : i # j => s[i] # s[j]

InArena(cell, size) == cell[1] \in 0 .. size[1] - 1 /\ cell[2] \in 0 .. size[2] - 1

InsideZone(cell, zone) ==
  LET dx == (cell[1] - zone.centre[1]) * Unit
      dy == (cell[2] - zone.centre[2]) * Unit
  IN  dx * dx + dy * dy <= zone.radius * zone.radius

CanonicalSize(c) == c.size = <<CanonicalWidth, CanonicalHeight>>

ValidZone(zone, c) == zone # Absent /\ InArena(zone.centre, c.size) /\ zone.radius > 0

\* Mutant of ValidSpawn: an obstacle may stand on a spawn.
ValidSpawnAnywhere(cell, c) == cell # Absent /\ InArena(cell, c.size)

ValidSpawn(cell, c) ==
  cell # Absent /\ InArena(cell, c.size) /\ cell \notin Elements(c.obstacles)

ObjectiveInTheCentre(c) ==
  ValidSpawn(c.objective, c) /\ Rotate180(c.objective, c.size) = c.objective

BasesMirrored(c) ==
  /\ Rotate180(c.redBase.centre, c.size) = c.blueBase.centre
  /\ c.redBase.radius = c.blueBase.radius

SpawnsMirrored(c) == Rotate180(c.redSpawn, c.size) = c.blueSpawn

ObstaclesMirrored(c) ==
  \A o \in Elements(c.obstacles) : Rotate180(o, c.size) \in Elements(c.obstacles)

ValidObstacles(c) ==
  /\ AllDiffer(c.obstacles)
  /\ \A o \in Elements(c.obstacles) : InArena(o, c.size)

ValidHazard(h, c) ==
  /\ InArena(h.cell, c.size)
  /\ h.kind = "Crow" => h.patrolRadius >= Unit
  /\ h.cell \notin Elements(c.obstacles)
  /\ h.cell = c.objective => h.kind = "Crow"
  /\ h.cell \notin {c.redSpawn, c.blueSpawn}
  /\ ~InsideZone(h.cell, c.redBase) /\ ~InsideZone(h.cell, c.blueBase)

HazardsMirrored(c) ==
  \A h \in Elements(c.hazards) : \E other \in Elements(c.hazards) :
    /\ other.cell = Rotate180(h.cell, c.size)
    /\ other.kind = h.kind /\ other.rules = h.rules
    /\ other.patrolRadius = h.patrolRadius

ValidHazards(c) ==
  /\ \A i, j \in DOMAIN c.hazards :
       i # j => c.hazards[i].id # c.hazards[j].id /\ c.hazards[i].cell # c.hazards[j].cell
  /\ \A h \in Elements(c.hazards) : ValidHazard(h, c)

(***************************************************************************)
(* The code collects an error for every demand that fails; the arena is    *)
(* valid when there are none.                                              *)
(***************************************************************************)
ValidateArena(c) ==
  /\ CanonicalSize(c)
  /\ ValidZone(c.redBase, c) /\ ValidZone(c.blueBase, c)
  /\ ValidSpawn(c.redSpawn, c) /\ ValidSpawn(c.blueSpawn, c)
  /\ ObjectiveInTheCentre(c)
  /\ BasesMirrored(c) /\ SpawnsMirrored(c)
  /\ ValidObstacles(c) /\ ObstaclesMirrored(c)
  /\ ValidHazards(c) /\ HazardsMirrored(c)
=============================================================================
