--------------------------- MODULE ScenarioConfig ---------------------------
(***************************************************************************)
(* A scenario file and what the loader makes of it                         *)
(* (src/battle_backend/ScenarioConfig.cpp).  A part of the file that was   *)
(* left out, or is not of its JSON type, is Absent.  Lengths and factors   *)
(* are counted in Unit-ths, durations in milliseconds.  The widths of the  *)
(* integers are parameters, since some of the loader's conversions wrap.   *)
(***************************************************************************)
EXTENDS ArenaConfig, Selections

CONSTANTS
  IntMax, UintMax,    \* the largest int and the largest std::uint32_t
  MaxTickRate,        \* 240
  NoName,             \* the empty string
  UnsafeNames         \* the names that are no identifiers

ASSUME ScenarioAssumption ==
  /\ IntMax \in Nat \ {0} /\ UintMax = 2 * IntMax + 1
  /\ MaxTickRate \in Nat \ {0} /\ Unit \in Nat \ {0}
  /\ NoName \in UnsafeNames

\* What a file may hold: of the right JSON types, or absent.
Optional(S) == {Absent} \cup S
Place == Int \X Int
BaseRecord == [centre : Optional(Place), radius : Optional(Int)]

HazardRecord ==
  [enabled : Optional(BOOLEAN), cell : Optional(Place),
   id : Optional(STRING), kind : Optional(STRING), icon : Optional(STRING),
   effect : Optional(STRING), trigger : Optional(STRING),
   radius : Optional(Int), range : Optional(Int), damage : Optional(Int),
   cooldownMs : Optional(Int), cooldownTicks : Optional(Int), seed : Optional(Int),
   patrolRadius : Optional(Int)]

FileRecord ==
  [supported : BOOLEAN,
   rules : Optional([tickRate : Optional(Int), timeLimitSeconds : Optional(Int)]),
   map : Optional([width : Optional(Int), height : Optional(Int),
                   redBase : Optional(BaseRecord), blueBase : Optional(BaseRecord),
                   objectiveSpawn : Optional(Place), obstacles : Optional(Seq(Optional(Place)))]),
   players : Optional([redSpawn : Optional(Place), blueSpawn : Optional(Place),
                       speedPerTick : Optional(Int), heroHp : Optional(Int)]),
   objective : Optional([scoreLimit : Optional(Int), carrierSpeedMultiplier : Optional(Int),
                         pickupLockMs : Optional(Int), captureRespawnDelayMs : Optional(Int),
                         pickupRadius : Optional(Int)]),
   combat : Optional([attackDamage : Optional(Int), attackRange : Optional(Int),
                      attackCooldownTicks : Optional(Int), dashDistance : Optional(Int),
                      dashCooldownTicks : Optional(Int)]),
   hazards : Optional(Seq(HazardRecord))]

Has(part, fields) == part # Absent /\ \A field \in fields : part[field] # Absent
Given(value, default) == IF value = Absent THEN default ELSE value

----------------------------------------------------------------------------
(***************************************************************************)
(* Conversions.  What a double beyond the range becomes is not defined: it *)
(* wraps in some builds and is cut off in others.                          *)
(***************************************************************************)
Larger(a, b) == IF a > b THEN a ELSE b
Rounded(ms, rate) == Larger(1, (2 * ms * rate + 1000) \div 2000)

\* Mutant of MsToTicks: the last part of an interval is lost.
MsToTicksTruncated(ms, rate, cutOff) ==
  LET ticks == Larger(1, (ms * rate) \div 1000)
  IN  IF ticks <= UintMax THEN ticks ELSE IF cutOff THEN UintMax ELSE ticks % (UintMax + 1)

MsToTicks(ms, rate, cutOff) ==
  LET ticks == Rounded(ms, rate)
  IN  IF ticks <= UintMax THEN ticks ELSE IF cutOff THEN UintMax ELSE ticks % (UintMax + 1)

\* static_cast from std::int64_t.
AsUint32(n) == n % (UintMax + 1)
AsInt(n) == IF AsUint32(n) > IntMax THEN AsUint32(n) - UintMax - 1 ELSE AsUint32(n)

----------------------------------------------------------------------------
(***************************************************************************)
(* Hazards.                                                                *)
(***************************************************************************)
HazardKindFrom == [mine |-> "Mine", tower |-> "Tower", crow |-> "Crow"]
HazardEffectFrom == [damage |-> "Damage", damage_drop_objective |-> "DamageAndDropObjective"]
HazardTriggerFrom == [proximity |-> "Proximity", range |-> "Range"]

DefaultPatrolRadius == Unit + Unit \div 2

IsSafeIdentifier(name) == name \notin UnsafeNames

Enabled(hazard) == Given(hazard.enabled, TRUE)

HazardFields ==
  {"id", "kind", "cell", "radius", "range", "damage", "effect", "trigger", "icon"}

ValidHazardFields(hazard) ==
  /\ Has(hazard, HazardFields)
  /\ hazard.cooldownMs # Absent \/ hazard.cooldownTicks # Absent
  /\ IsSafeIdentifier(hazard.id) /\ IsSafeIdentifier(hazard.icon)
  /\ hazard.kind \in DOMAIN HazardKindFrom
  /\ hazard.effect \in DOMAIN HazardEffectFrom
  /\ hazard.trigger \in DOMAIN HazardTriggerFrom
  /\ hazard.damage \in 1 .. IntMax
  /\ hazard.cooldownTicks # Absent => hazard.cooldownTicks \in 1 .. UintMax
  /\ Given(hazard.seed, 0) \in 0 .. UintMax
  /\ hazard.patrolRadius # Absent
       => hazard.patrolRadius >= IF hazard.kind = "crow" THEN Unit ELSE 1

ParsedHazard(hazard, rate, cutOff) ==
  [id |-> hazard.id, kind |-> HazardKindFrom[hazard.kind], cell |-> hazard.cell,
   patrolRadius |-> Given(hazard.patrolRadius, DefaultPatrolRadius),
   rules |->
     [damage |-> hazard.damage, radius |-> hazard.radius, range |-> hazard.range,
      seed |-> Given(hazard.seed, 0), effect |-> HazardEffectFrom[hazard.effect],
      trigger |-> HazardTriggerFrom[hazard.trigger], icon |-> hazard.icon,
      cooldownTicks |-> IF hazard.cooldownTicks # Absent THEN hazard.cooldownTicks
                        ELSE MsToTicks(hazard.cooldownMs, rate, cutOff)]]

----------------------------------------------------------------------------
(***************************************************************************)
(* The parts of a file.                                                    *)
(***************************************************************************)
ValidRules(file) ==
  /\ Has(file.rules, {"tickRate", "timeLimitSeconds"})
  /\ file.rules.tickRate \in 1 .. MaxTickRate
  /\ file.rules.timeLimitSeconds \in 1 .. UintMax \div file.rules.tickRate

ValidMap(file) ==
  /\ Has(file.map, {"width", "height", "redBase", "blueBase", "objectiveSpawn", "obstacles"})
  /\ file.map.width \in 1 .. IntMax /\ file.map.height \in 1 .. IntMax
  /\ Has(file.map.redBase, {"centre", "radius"}) /\ Has(file.map.blueBase, {"centre", "radius"})
  /\ Absent \notin Elements(file.map.obstacles)

ValidPlayers(file) ==
  /\ Has(file.players, {"redSpawn", "blueSpawn", "speedPerTick"})
  /\ Given(file.players.heroHp, 1) \in 1 .. IntMax
  /\ file.players.speedPerTick > 0

ValidObjective(file) ==
  /\ Has(file.objective, {"scoreLimit", "carrierSpeedMultiplier", "pickupLockMs",
                          "captureRespawnDelayMs", "pickupRadius"})
  /\ file.objective.scoreLimit \in 1 .. UintMax

ValidCombat(file) ==
  /\ Has(file.combat, {"attackDamage", "attackRange", "attackCooldownTicks",
                       "dashDistance", "dashCooldownTicks"})
  /\ file.combat.attackDamage > 0
  /\ file.combat.attackCooldownTicks > 0 /\ file.combat.dashCooldownTicks > 0

ValidHazardList(file) ==
  /\ file.hazards # Absent
  /\ \A hazard \in Elements(file.hazards) : Enabled(hazard) => ValidHazardFields(hazard)

ValidFields(file) ==
  /\ file.supported     \* the scenario's id, its mode and the map's symmetry
  /\ ValidRules(file) /\ ValidMap(file) /\ ValidPlayers(file)
  /\ ValidObjective(file) /\ ValidCombat(file) /\ ValidHazardList(file)

(***************************************************************************)
(* The scenario of a file with valid fields.                               *)
(***************************************************************************)
EnabledHazards(file) ==
  Among(file.hazards, {hazard \in Elements(file.hazards) : Enabled(hazard)})

ParsedHazards(file, cutOff) ==
  LET enabled == EnabledHazards(file)
  IN  [i \in DOMAIN enabled |-> ParsedHazard(enabled[i], file.rules.tickRate, cutOff)]

ParsedArena(file, cutOff) ==
  [size |-> <<file.map.width, file.map.height>>,
   redBase |-> file.map.redBase, blueBase |-> file.map.blueBase,
   redSpawn |-> file.players.redSpawn, blueSpawn |-> file.players.blueSpawn,
   objective |-> file.map.objectiveSpawn, obstacles |-> file.map.obstacles,
   hazards |-> ParsedHazards(file, cutOff)]

ParsedScenario(file, cutOff) ==
  LET rate == file.rules.tickRate
  IN  [arena |-> ParsedArena(file, cutOff),
       speed |-> file.players.speedPerTick, heroHp |-> Given(file.players.heroHp, 100),
       maxTicks |-> file.rules.timeLimitSeconds * rate,
       objective |->
         [pickupRadius |-> file.objective.pickupRadius,
          carrierSpeedMultiplier |-> file.objective.carrierSpeedMultiplier,
          pickupLockTicks |-> MsToTicks(file.objective.pickupLockMs, rate, cutOff),
          respawnTicks |-> MsToTicks(file.objective.captureRespawnDelayMs, rate, cutOff),
          scoreLimit |-> file.objective.scoreLimit],
       combat |->
         [attackDamage |-> AsInt(file.combat.attackDamage),
          attackRange |-> file.combat.attackRange,
          attackCooldownTicks |-> AsUint32(file.combat.attackCooldownTicks),
          dashDistance |-> file.combat.dashDistance,
          dashCooldownTicks |-> AsUint32(file.combat.dashCooldownTicks)]]

\* An error is collected for whatever is wrong; a scenario is loaded when there is none.
Accepts(file, cutOff) ==
  ValidFields(file) /\ ValidateArena(ParsedArena(file, cutOff))
=============================================================================
