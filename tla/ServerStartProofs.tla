-------------------------- MODULE ServerStartProofs --------------------------
(***************************************************************************)
(* What TLAPS proves of starting the server (ServerStart), whichever the   *)
(* files, the arena's size and the widths of the integers are: a scenario  *)
(* that was accepted is played, the times that were written are kept, the  *)
(* game is the same for both teams, and no hero goes through an obstacle.  *)
(***************************************************************************)
EXTENDS ServerStart, Runs, FiniteSetTheorems

(***************************************************************************)
(* Numbers and sequences.                                                  *)
(***************************************************************************)
LEMMA ProductIsPositive ==
  ASSUME NEW a \in Nat \ {0}, NEW b \in Nat \ {0}
  PROVE  a * b \in Nat \ {0}
OBVIOUS

\* A number below the modulus is its own remainder.
LEMMA Remainder ==
  ASSUME NEW n \in Nat, NEW m \in Nat, n < m
  PROVE  n % m = n
OBVIOUS

\* A number that fits keeps its value.
LEMMA FittingNumbersStay ==
  ASSUME NEW n \in Nat
  PROVE  /\ n <= UintMax => AsUint32(n) = n
         /\ n <= IntMax => AsInt(n) = n
<1>1. IntMax \in Nat /\ UintMax = 2 * IntMax + 1 /\ UintMax \in Nat
  BY ScenarioAssumption
<1>2. n <= UintMax => n % (UintMax + 1) = n
  BY <1>1, Remainder
<1> QED
  BY <1>1, <1>2 DEF AsUint32, AsInt

\* Only hazards of the file that are enabled are loaded.
LEMMA EnabledHazardsAre ==
  ASSUME NEW f, f.hazards \in Seq(HazardRecord)
  PROVE  /\ EnabledHazards(f) \in Seq(HazardRecord)
         /\ \A i \in DOMAIN EnabledHazards(f) :
              /\ EnabledHazards(f)[i] \in HazardRecord
              /\ EnabledHazards(f)[i] \in Elements(f.hazards)
              /\ Enabled(EnabledHazards(f)[i])
<1> DEFINE T == {hazard \in Elements(f.hazards) : Enabled(hazard)}
           e == EnabledHazards(f)
<1>1. e = Among(f.hazards, T)
  BY DEF EnabledHazards
<1>2. e \in Seq(HazardRecord) /\ \A i \in 1 .. Len(e) : e[i] \in T
  BY <1>1, AmongProperties
<1>3. DOMAIN e = 1 .. Len(e) /\ \A i \in 1 .. Len(e) : e[i] \in HazardRecord
  BY <1>2
<1> QED
  BY <1>2, <1>3

\* Hazards on different cells of the arena are no more than its cells.
LEMMA HazardsFit ==
  ASSUME NEW w \in Nat, NEW h \in Nat, NEW hazards, NEW n \in Nat,
         DOMAIN hazards = 1 .. n,
         \A i \in 1 .. n : hazards[i].cell \in Place /\ InArena(hazards[i].cell, <<w, h>>),
         \A i, j \in 1 .. n : i # j => hazards[i].cell # hazards[j].cell
  PROVE  n <= w * h
<1> DEFINE C == (0 .. w - 1) \X (0 .. h - 1)
           f == [i \in 1 .. n |-> hazards[i].cell]
<1>1. f \in [1 .. n -> C]
  <2>1. ASSUME NEW i \in 1 .. n PROVE hazards[i].cell \in C
    <3> DEFINE c == hazards[i].cell
    <3>1. c \in Int \X Int /\ c[1] \in 0 .. w - 1 /\ c[2] \in 0 .. h - 1
      BY DEF InArena, Place
    <3> HIDE DEF c
    <3>2. c = <<c[1], c[2]>>
      BY <3>1
    <3>3. c \in C
      BY <3>1, <3>2
    <3> QED
      BY <3>3 DEF c
  <2> QED
    BY <2>1
<1>2. f \in Injection(1 .. n, C)
  <2>1. \A i, j \in 1 .. n : f[i] = f[j] => i = j
    OBVIOUS
  <2> QED
    BY <1>1, <2>1 DEF Injection, IsInjective
<1>3. IsFiniteSet(0 .. w - 1) /\ Cardinality(0 .. w - 1) = w
  <2>1. 0 \in Int /\ w - 1 \in Int
    OBVIOUS
  <2>2. IsFiniteSet(0 .. w - 1) /\ Cardinality(0 .. w - 1) = IF 0 > w - 1 THEN 0 ELSE w - 1 - 0 + 1
    BY <2>1, FS_Interval
  <2> QED
    BY <2>2
<1>4. IsFiniteSet(0 .. h - 1) /\ Cardinality(0 .. h - 1) = h
  <2>1. 0 \in Int /\ h - 1 \in Int
    OBVIOUS
  <2>2. IsFiniteSet(0 .. h - 1) /\ Cardinality(0 .. h - 1) = IF 0 > h - 1 THEN 0 ELSE h - 1 - 0 + 1
    BY <2>1, FS_Interval
  <2> QED
    BY <2>2
<1>5. IsFiniteSet(C) /\ Cardinality(C) = w * h
  <2> DEFINE W == 0 .. w - 1
             H == 0 .. h - 1
  <2>1. IsFiniteSet(W) /\ Cardinality(W) = w /\ IsFiniteSet(H) /\ Cardinality(H) = h
    BY <1>3, <1>4
  <2> HIDE DEF W, H
  <2>2. IsFiniteSet(W \X H) /\ Cardinality(W \X H) = Cardinality(W) * Cardinality(H)
    BY <2>1, FS_Product, Zenon
  <2> QED
    BY <2>1, <2>2 DEF W, H
<1>6. IsFiniteSet(1 .. n) /\ Cardinality(1 .. n) = n
  BY FS_Interval
<1> HIDE DEF C, f
<1>7. Cardinality(1 .. n) <= Cardinality(C)
  BY <1>2, <1>5, <1>6, FS_Injection
<1> QED
  BY <1>5, <1>6, <1>7

(***************************************************************************)
(* What is loaded of a file.                                               *)
(***************************************************************************)
\* A hazard of an accepted file, as it is loaded, suits the engine and the clients.
LEMMA LoadedHazards ==
  ASSUME NEW hazard \in HazardRecord, NEW rate, NEW cutOff,
         ValidHazardFields(hazard), hazard.radius > 0, hazard.range > 0
  PROVE  LET loaded == ParsedHazard(hazard, rate, cutOff)
         IN  /\ loaded.cell \in Place
             /\ loaded.rules.radius > 0 /\ loaded.rules.range > 0 /\ loaded.rules.damage > 0
             /\ ClientAcceptsHazard(SnapshotHazard(loaded))
<1> DEFINE loaded == ParsedHazard(hazard, rate, cutOff)
           shown == SnapshotHazard(loaded)
<1>1. /\ hazard.cell \in Place /\ hazard.radius \in Int /\ hazard.range \in Int
      /\ hazard.damage \in 1 .. IntMax
      /\ hazard.id # NoName /\ hazard.icon # NoName
  <2>1. \A field \in HazardFields : hazard[field] # Absent
    BY DEF ValidHazardFields, Has
  <2>2. hazard.cell # Absent /\ hazard.radius # Absent /\ hazard.range # Absent
    BY <2>1 DEF HazardFields
  <2>3. hazard.id # NoName /\ hazard.icon # NoName
    BY ScenarioAssumption DEF ValidHazardFields, IsSafeIdentifier
  <2>4. hazard.damage \in 1 .. IntMax
    BY DEF ValidHazardFields
  <2> QED
    BY <2>2, <2>3, <2>4 DEF HazardRecord, Optional
<1>2. /\ hazard.kind \in {"mine", "tower", "crow"}
      /\ hazard.effect \in {"damage", "damage_drop_objective"}
      /\ hazard.trigger \in {"proximity", "range"}
  BY DEF ValidHazardFields, HazardKindFrom, HazardEffectFrom, HazardTriggerFrom
<1>3. /\ loaded.id = hazard.id /\ loaded.cell = hazard.cell
      /\ loaded.kind = HazardKindFrom[hazard.kind]
      /\ loaded.rules.damage = hazard.damage
      /\ loaded.rules.radius = hazard.radius /\ loaded.rules.range = hazard.range
      /\ loaded.rules.icon = hazard.icon
      /\ loaded.rules.effect = HazardEffectFrom[hazard.effect]
      /\ loaded.rules.trigger = HazardTriggerFrom[hazard.trigger]
  BY DEF ParsedHazard
<1> HIDE DEF loaded
<1>4. /\ shown.kind = KindName[loaded.kind] /\ shown.effect = EffectName[loaded.rules.effect]
      /\ shown.trigger = TriggerName[loaded.rules.trigger]
      /\ shown.id = loaded.id /\ shown.icon = loaded.rules.icon /\ shown.visualId = loaded.rules.icon
      /\ shown.radius = loaded.rules.radius /\ shown.range = loaded.rules.range
      /\ shown.rangeRadius = IF loaded.rules.trigger = "Range" THEN loaded.rules.range
                             ELSE loaded.rules.radius
      /\ shown.causesDrop = (loaded.rules.effect = "DamageAndDropObjective")
  BY DEF SnapshotHazard
<1> HIDE DEF shown
<1>5. shown.kind = hazard.kind
  BY <1>2, <1>3, <1>4 DEF HazardKindFrom, KindName
<1>6. shown.effect = hazard.effect
      /\ (loaded.rules.effect = "DamageAndDropObjective" <=> hazard.effect = "damage_drop_objective")
  BY <1>2, <1>3, <1>4 DEF HazardEffectFrom, EffectName
<1>7. shown.trigger = hazard.trigger
      /\ (loaded.rules.trigger = "Range" <=> hazard.trigger = "range")
  BY <1>2, <1>3, <1>4 DEF HazardTriggerFrom, TriggerName
<1>8. ClientAcceptsHazard(shown)
  BY <1>1, <1>2, <1>3, <1>4, <1>5, <1>6, <1>7 DEF ClientAcceptsHazard
<1> QED
  BY <1>1, <1>3, <1>8 DEF loaded, shown

\* What an accepted file holds is there, with its type.
LEMMA AcceptedFields ==
  ASSUME NEW f \in FileRecord, ValidFields(f)
  PROVE  /\ f.rules.tickRate \in Nat \ {0} /\ f.rules.timeLimitSeconds \in Nat \ {0}
         /\ f.map.width \in Nat \ {0} /\ f.map.height \in Nat \ {0}
         /\ f.players.speedPerTick \in Nat \ {0}
         /\ Given(f.players.heroHp, 100) \in Nat \ {0}
         /\ f.objective.scoreLimit \in Nat \ {0} /\ f.objective.pickupRadius \in Int
         /\ f.combat \in [attackDamage : Nat \ {0}, attackRange : Int,
                           attackCooldownTicks : Nat \ {0}, dashDistance : Int,
                           dashCooldownTicks : Nat \ {0}]
         /\ f.hazards \in Seq(HazardRecord)
         /\ \A h \in Elements(f.hazards) : Enabled(h) => ValidHazardFields(h)
<1>1. f.rules.tickRate \in Nat \ {0} /\ f.rules.timeLimitSeconds \in Nat \ {0}
  <2>1. f.rules.tickRate \in 1 .. MaxTickRate
    BY DEF ValidFields, ValidRules
  <2>2. f.rules.timeLimitSeconds \in 1 .. UintMax \div f.rules.tickRate
    BY DEF ValidFields, ValidRules
  <2> QED
    BY <2>1, <2>2
<1>2. f.map.width \in Nat \ {0} /\ f.map.height \in Nat \ {0}
  BY DEF ValidFields, ValidMap
<1>3. f.players.speedPerTick \in Nat \ {0} /\ Given(f.players.heroHp, 100) \in Nat \ {0}
  <2>1. /\ Has(f.players, {"redSpawn", "blueSpawn", "speedPerTick"})
        /\ Given(f.players.heroHp, 1) \in 1 .. IntMax
        /\ f.players.speedPerTick > 0
    BY DEF ValidFields, ValidPlayers
  <2>2. f.players # Absent /\ f.players.speedPerTick # Absent
    BY <2>1 DEF Has
  <2>3. f.players.speedPerTick \in Int /\ f.players.heroHp \in Optional(Int)
    BY <2>2 DEF FileRecord, Optional
  <2> QED
    BY <2>1, <2>3 DEF Given, Optional
<1>4. f.objective.scoreLimit \in Nat \ {0} /\ f.objective.pickupRadius \in Int
  <2>1. /\ Has(f.objective, {"scoreLimit", "carrierSpeedMultiplier", "pickupLockMs",
                             "captureRespawnDelayMs", "pickupRadius"})
        /\ f.objective.scoreLimit \in 1 .. UintMax
    BY DEF ValidFields, ValidObjective
  <2>2. f.objective # Absent /\ f.objective.pickupRadius # Absent
    BY <2>1 DEF Has
  <2> QED
    BY <2>1, <2>2 DEF FileRecord, Optional
<1>5. f.combat \in [attackDamage : Nat \ {0}, attackRange : Int,
                    attackCooldownTicks : Nat \ {0}, dashDistance : Int,
                    dashCooldownTicks : Nat \ {0}]
  <2>1. /\ Has(f.combat, {"attackDamage", "attackRange", "attackCooldownTicks",
                          "dashDistance", "dashCooldownTicks"})
        /\ f.combat.attackDamage > 0
        /\ f.combat.attackCooldownTicks > 0 /\ f.combat.dashCooldownTicks > 0
    BY DEF ValidFields, ValidCombat
  <2>2. /\ f.combat # Absent /\ f.combat.attackDamage # Absent /\ f.combat.attackRange # Absent
        /\ f.combat.attackCooldownTicks # Absent /\ f.combat.dashDistance # Absent
        /\ f.combat.dashCooldownTicks # Absent
    BY <2>1 DEF Has
  <2>3. f.combat \in [attackDamage : Optional(Int), attackRange : Optional(Int),
                      attackCooldownTicks : Optional(Int), dashDistance : Optional(Int),
                      dashCooldownTicks : Optional(Int)]
    BY <2>2 DEF FileRecord, Optional
  <2> QED
    BY <2>1, <2>2, <2>3 DEF Optional
<1>6. /\ f.hazards \in Seq(HazardRecord)
      /\ \A h \in Elements(f.hazards) : Enabled(h) => ValidHazardFields(h)
  BY DEF ValidFields, ValidHazardList, FileRecord, Optional
<1> QED
  BY <1>1, <1>2, <1>3, <1>4, <1>5, <1>6

\* What of an accepted scenario the engine looks at.
LEMMA AcceptedScenarioPlays ==
  ASSUME NEW cutOff \in BOOLEAN, file \in FileRecord,
         Accepts(file, cutOff), OnlyTheEngineLooks(file), scenario = ParsedScenario(file, cutOff)
  PROVE  /\ EngineAccepts(MatchConfig)
         /\ Fits => ClientUnderstands
         /\ scenario.combat = file.combat
<1> DEFINE arena == ParsedArena(file, cutOff)
           enabled == EnabledHazards(file)
           match == MatchConfig
           w == file.map.width
           h == file.map.height
<1>1. ValidFields(file) /\ ValidateArena(arena)
  BY DEF Accepts
<1>2. /\ file.rules.tickRate \in Nat \ {0} /\ file.rules.timeLimitSeconds \in Nat \ {0}
      /\ w \in Nat \ {0} /\ h \in Nat \ {0}
      /\ file.players.speedPerTick \in Nat \ {0}
      /\ Given(file.players.heroHp, 100) \in Nat \ {0}
      /\ file.objective.scoreLimit \in Nat \ {0} /\ file.objective.pickupRadius \in Int
      /\ file.combat \in [attackDamage : Nat \ {0}, attackRange : Int,
                           attackCooldownTicks : Nat \ {0}, dashDistance : Int,
                           dashCooldownTicks : Nat \ {0}]
      /\ file.hazards \in Seq(HazardRecord)
      /\ \A z \in Elements(file.hazards) : Enabled(z) => ValidHazardFields(z)
  BY <1>1, AcceptedFields
<1>3. /\ scenario.arena = arena /\ scenario.speed = file.players.speedPerTick
      /\ scenario.heroHp = Given(file.players.heroHp, 100)
      /\ scenario.maxTicks = file.rules.timeLimitSeconds * file.rules.tickRate
      /\ scenario.objective.pickupRadius = file.objective.pickupRadius
      /\ scenario.objective.carrierSpeedMultiplier = file.objective.carrierSpeedMultiplier
      /\ scenario.objective.scoreLimit = file.objective.scoreLimit
      /\ scenario.combat = [attackDamage |-> AsInt(file.combat.attackDamage),
                            attackRange |-> file.combat.attackRange,
                            attackCooldownTicks |-> AsUint32(file.combat.attackCooldownTicks),
                            dashDistance |-> file.combat.dashDistance,
                            dashCooldownTicks |-> AsUint32(file.combat.dashCooldownTicks)]
  BY DEF ParsedScenario
<1>4. scenario.combat = file.combat
  <2>1. /\ file.combat.attackDamage \in Nat /\ file.combat.attackDamage <= IntMax
        /\ file.combat.attackCooldownTicks \in Nat /\ file.combat.attackCooldownTicks <= UintMax
        /\ file.combat.dashCooldownTicks \in Nat /\ file.combat.dashCooldownTicks <= UintMax
    BY <1>2 DEF OnlyTheEngineLooks
  <2>2. /\ AsInt(file.combat.attackDamage) = file.combat.attackDamage
        /\ AsUint32(file.combat.attackCooldownTicks) = file.combat.attackCooldownTicks
        /\ AsUint32(file.combat.dashCooldownTicks) = file.combat.dashCooldownTicks
    BY <2>1, FittingNumbersStay
  <2> QED
    BY <1>2, <1>3, <2>2
<1>5. /\ arena.size = <<w, h>>
      /\ arena.redBase = file.map.redBase /\ arena.blueBase = file.map.blueBase
      /\ arena.hazards = ParsedHazards(file, cutOff)
  BY DEF ParsedArena
<1> HIDE DEF arena
<1>6. /\ match.size = arena.size /\ match.maxTicks = scenario.maxTicks
      /\ match.speed = scenario.speed /\ match.obstacles = Elements(arena.obstacles)
      /\ match.hazards = arena.hazards /\ match.bases = {arena.redBase, arena.blueBase}
      /\ match.objectiveSpawn = arena.objective /\ match.objective = scenario.objective
      /\ match.combat = scenario.combat /\ match.heroHp = scenario.heroHp
      /\ match.spawns = {arena.blueSpawn, arena.redSpawn}
  BY <1>3 DEF MatchConfig
<1> HIDE DEF match
<1>7. \A cell \in match.obstacles : InArena(cell, match.size)
  BY <1>1, <1>6 DEF ValidateArena, ValidObstacles
<1>8. \A base \in match.bases : InArena(base.centre, match.size) /\ base.radius > 0
  BY <1>1, <1>6 DEF ValidateArena, ValidZone
<1>9. Free(match.objectiveSpawn, match) /\ \A spawn \in match.spawns : Free(spawn, match)
  BY <1>1, <1>6 DEF ValidateArena, ObjectiveInTheCentre, ValidSpawn, Free
<1>10. /\ match.combat.attackDamage > 0 /\ match.combat.attackRange > 0
       /\ DashFits(match.combat.dashDistance, match.size)
  BY <1>2, <1>4, <1>5, <1>6 DEF OnlyTheEngineLooks
<1>11. /\ match.size[1] > 0 /\ match.size[2] > 0
       /\ match.maxTicks > 0 /\ match.speed > 0 /\ match.heroHp > 0
       /\ match.objective.pickupRadius > 0 /\ match.objective.scoreLimit > 0
       /\ match.objective.carrierSpeedMultiplier \in 1 .. Unit
  <2>1. file.rules.timeLimitSeconds * file.rules.tickRate \in Nat \ {0}
    BY <1>2, ProductIsPositive
  <2>2. match.size[1] = w /\ match.size[2] = h
    BY <1>5, <1>6
  <2>3. /\ file.objective.pickupRadius > 0
        /\ file.objective.carrierSpeedMultiplier \in 1 .. Unit
    BY DEF OnlyTheEngineLooks
  <2>4. /\ match.objective.pickupRadius > 0 /\ match.objective.scoreLimit > 0
        /\ match.objective.carrierSpeedMultiplier \in 1 .. Unit
    <3>1. /\ match.objective.pickupRadius = file.objective.pickupRadius
          /\ match.objective.scoreLimit = file.objective.scoreLimit
          /\ match.objective.carrierSpeedMultiplier = file.objective.carrierSpeedMultiplier
      BY <1>3, <1>6
    <3>2. file.objective.scoreLimit \in Nat \ {0}
      BY <1>2, Zenon
    <3> QED
      BY <2>3, <3>1, <3>2
  <2>5. match.maxTicks > 0 /\ match.speed > 0 /\ match.heroHp > 0
    BY <1>2, <1>3, <1>6, <2>1
  <2>6. w > 0 /\ h > 0
    <3>1. w \in Nat \ {0} /\ h \in Nat \ {0}
      BY <1>2, Zenon
    <3> QED
      BY <3>1
  <2> QED
    BY <2>2, <2>4, <2>5, <2>6
<1>12. /\ enabled \in Seq(HazardRecord) /\ Len(enabled) \in Nat
       /\ DOMAIN enabled = 1 .. Len(enabled)
       /\ \A i \in 1 .. Len(enabled) :
            /\ enabled[i] \in HazardRecord /\ ValidHazardFields(enabled[i])
            /\ enabled[i].radius > 0 /\ enabled[i].range > 0
  <2>1. enabled \in Seq(HazardRecord)
        /\ \A i \in DOMAIN enabled : /\ enabled[i] \in HazardRecord
                                     /\ enabled[i] \in Elements(file.hazards)
                                     /\ Enabled(enabled[i])
    BY <1>2, EnabledHazardsAre
  <2>2. \A hazard \in Elements(file.hazards) :
          Enabled(hazard) => hazard.radius > 0 /\ hazard.range > 0
    BY DEF OnlyTheEngineLooks
  <2>3. \A hazard \in Elements(file.hazards) : Enabled(hazard) => ValidHazardFields(hazard)
    BY <1>2
  <2> HIDE DEF enabled
  <2>4. Len(enabled) \in Nat /\ DOMAIN enabled = 1 .. Len(enabled)
    BY <2>1
  <2> QED
    BY <2>1, <2>2, <2>3, <2>4
<1>13. /\ match.hazards \in Seq(Elements(match.hazards)) /\ Len(match.hazards) = Len(enabled)
       /\ DOMAIN match.hazards = 1 .. Len(enabled)
       /\ \A i \in 1 .. Len(enabled) :
            match.hazards[i] = ParsedHazard(enabled[i], file.rules.tickRate, cutOff)
  <2>1. match.hazards = [i \in 1 .. Len(enabled) |->
                           ParsedHazard(enabled[i], file.rules.tickRate, cutOff)]
    BY <1>5, <1>6, <1>12 DEF ParsedHazards
  <2> HIDE DEF enabled
  <2>2. DOMAIN match.hazards = 1 .. Len(enabled) /\ Len(enabled) \in Nat
    BY <1>12, <2>1
  <2>3. \A i \in 1 .. Len(enabled) : match.hazards[i] \in Elements(match.hazards)
    BY <2>2 DEF Elements
  <2>4. match.hazards \in Seq(Elements(match.hazards))
    BY <2>1, <2>2, <2>3
  <2> QED
    BY <2>1, <2>2, <2>4
<1>14. \A i \in 1 .. Len(enabled) :
         /\ match.hazards[i].cell \in Place
         /\ match.hazards[i].rules.radius > 0 /\ match.hazards[i].rules.range > 0
         /\ match.hazards[i].rules.damage > 0
         /\ ClientAcceptsHazard(SnapshotHazard(match.hazards[i]))
  BY <1>12, <1>13, LoadedHazards
<1> HIDE DEF enabled
<1>15. \A i \in 1 .. Len(enabled) :
         /\ InArena(match.hazards[i].cell, match.size)
         /\ match.hazards[i].kind = "Crow" => match.hazards[i].patrolRadius >= Unit
  <2>1. \A i \in 1 .. Len(enabled) : match.hazards[i] \in Elements(arena.hazards)
    BY <1>6, <1>13 DEF Elements
  <2> QED
    BY <1>1, <1>6, <2>1 DEF ValidateArena, ValidHazards, ValidHazard
<1>16. \A z \in Elements(match.hazards) :
         EngineAcceptsHazard(z, match) /\ ClientAcceptsHazard(SnapshotHazard(z))
  BY <1>13, <1>14, <1>15 DEF Elements, EngineAcceptsHazard
<1>17. Len(match.hazards) <= match.size[1] * match.size[2]
  <2>1. \A i, j \in 1 .. Len(enabled) :
          i # j => match.hazards[i].cell # match.hazards[j].cell
    BY <1>1, <1>6, <1>13 DEF ValidateArena, ValidHazards
  <2>2. \A i \in 1 .. Len(enabled) :
          match.hazards[i].cell \in Place /\ InArena(match.hazards[i].cell, <<w, h>>)
    BY <1>5, <1>6, <1>14, <1>15
  <2>3. w \in Nat /\ h \in Nat /\ Len(enabled) \in Nat /\ DOMAIN match.hazards = 1 .. Len(enabled)
    BY <1>2, <1>12, <1>13
  <2> HIDE DEF w, h
  <2>4. Len(enabled) <= w * h
    BY <2>1, <2>2, <2>3, HazardsFit
  <2>5. match.size[1] = w /\ match.size[2] = h
    BY <1>5, <1>6
  <2> QED
    BY <1>13, <2>4, <2>5
<1>18. EngineAccepts(match)
  BY <1>7, <1>8, <1>9, <1>10, <1>11, <1>16, <1>17 DEF EngineAccepts
<1>19. Fits => ClientUnderstands
  BY <1>3, <1>6, <1>11, <1>16 DEF ClientUnderstands
<1> QED
  BY <1>4, <1>18, <1>19 DEF match

(***************************************************************************)
(* Starting and playing.                                                   *)
(***************************************************************************)
\* The scenario is an accepted file's, and joining never fails for what the loader checks.
Started ==
  /\ file \in FileRecord
  /\ stage \in {"Off", "Refused"} => seen = "Nothing"
  /\ stage \in {"Checked", "Serving", "Playing", "Crashed"}
       => \E cutOff \in BOOLEAN : Accepts(file, cutOff) /\ scenario = ParsedScenario(file, cutOff)
  /\ OnlyTheEngineLooks(file) => stage # "Crashed" /\ (seen = "Error" => ~Fits)

\* What is known of the start holds to begin with.
LEMMA InitStarted == Init => Started
  BY ServerStartAssumption DEF Init, Started

\* Every step of the start keeps it.
LEMMA StepStarted == Started /\ [Next]_vars => Started'
<1> SUFFICES ASSUME Started, [Next]_vars PROVE Started'
  OBVIOUS
<1>1. CASE Refuse
  BY <1>1 DEF Started, Refuse, Fits
<1>2. CASE Load
  <2>1. PICK cutOff \in BOOLEAN :
          Accepts(file, cutOff) /\ scenario' = ParsedScenario(file, cutOff)
    BY <1>2 DEF Load
  <2>2. /\ file' = file /\ seen' = seen /\ seen = "Nothing"
        /\ stage' \in {"Checked", "Serving"}
    BY <1>2 DEF Load, Started
  <2> QED
    BY <2>1, <2>2 DEF Started
<1>3. CASE Join
  <2>1. PICK cutOff \in BOOLEAN : Accepts(file, cutOff) /\ scenario = ParsedScenario(file, cutOff)
    BY <1>3 DEF Join, Started
  <2>2. /\ file' = file /\ scenario' = scenario /\ stage' = "Playing"
        /\ seen' = IF ClientUnderstands THEN "Arena" ELSE "Error"
    BY <1>3 DEF Join
  <2>3. OnlyTheEngineLooks(file) => (Fits => ClientUnderstands)
    BY <2>1, AcceptedScenarioPlays DEF Started
  <2>4. Fits' = Fits
    BY <2>2 DEF Fits
  <2>5. OnlyTheEngineLooks(file)' = OnlyTheEngineLooks(file)
    BY <2>2 DEF OnlyTheEngineLooks, DashFits, Elements, Enabled, Given
  <2> QED
    BY <2>1, <2>2, <2>3, <2>4, <2>5 DEF Started
<1>4. CASE JoinThrows
  <2>1. PICK cutOff \in BOOLEAN : Accepts(file, cutOff) /\ scenario = ParsedScenario(file, cutOff)
    BY <1>4 DEF JoinThrows, Started
  <2>2. ~OnlyTheEngineLooks(file)
    BY <1>4, <2>1, AcceptedScenarioPlays DEF JoinThrows, Started
  <2> QED
    BY <1>4, <2>1, <2>2 DEF JoinThrows, Started
<1>5. CASE Walk \/ Dash \/ UNCHANGED vars
  <2>1. UNCHANGED <<file, stage, scenario, seen>>
    BY <1>5 DEF Walk, Dash, Moves, vars
  <2> QED
    BY <2>1 DEF Started, Fits
<1> QED
  BY <1>1, <1>2, <1>3, <1>4, <1>5 DEF Next

\* It makes the scenarios that are accepted play.
LEMMA StartedPlays == Started => AcceptedScenariosPlay
<1> SUFFICES ASSUME Started, OnlyTheEngineLooks(file),
                    stage \in {"Checked", "Serving", "Playing", "Crashed"}
             PROVE  stage # "Crashed" /\ (seen = "Error" => ~Fits) /\ scenario.combat = file.combat
  BY DEF AcceptedScenariosPlay
<1>1. PICK cutOff \in BOOLEAN : Accepts(file, cutOff) /\ scenario = ParsedScenario(file, cutOff)
  BY DEF Started
<1> QED
  BY <1>1, AcceptedScenarioPlays DEF Started

(***************************************************************************)
(* Whatever the files, the arena's size and the widths of the integers: a  *)
(* scenario that is accepted at the start, and whose numbers that only the *)
(* engine looks at are in order, is played, with the numbers as they were  *)
(* written, and shown to the clients unless a snapshot is too long         *)
(* (parseScenarioConfig, validateArenaConfig, BattleEngine::BattleEngine,  *)
(* parseArenaSnapshotPayload).                                             *)
(***************************************************************************)
THEOREM AcceptedScenariosAlwaysPlay == Spec => []AcceptedScenariosPlay
<1>1. Started /\ [Next]_vars => Started'
  BY StepStarted
<1> QED
  BY <1>1, InitStarted, StartedPlays, PTL DEF Spec

(***************************************************************************)
(* The times that are written.                                             *)
(***************************************************************************)
\* Products keep the order of their factors, and factors that of their products.
LEMMA ProductsInOrder ==
  ASSUME NEW r \in Nat \ {0}, NEW a \in Int, NEW b \in Int
  PROVE  a <= b <=> r * a <= r * b
<1>1. ASSUME NEW x \in Int, NEW y \in Int, x <= y PROVE r * x <= r * y
  <2>1. y - x \in Nat /\ r * (y - x) = r * y - r * x
    BY <1>1
  <2>2. \A n \in Nat : r * n >= 0
    OBVIOUS
  <2>3. r * (y - x) >= 0 /\ r * y \in Int /\ r * x \in Int
    BY <2>1, <2>2
  <2> QED
    BY <2>1, <2>3
<1>2. ASSUME r * a <= r * b, a > b PROVE FALSE
  <2>1. r * (b + 1) <= r * a
    BY <1>1, <1>2
  <2>2. r * (b + 1) = r * b + r /\ r * b \in Int /\ r * a \in Int
    OBVIOUS
  <2> QED
    BY <1>2, <2>1, <2>2
<1> QED
  BY <1>1, <1>2

\* A share, taken as often as it is dealt, is no more than the whole.
LEMMA SharesFit ==
  ASSUME NEW n \in Nat, NEW r \in Nat \ {0}
  PROVE  /\ n \div r \in Nat /\ r * (n \div r) <= n /\ n < r * (n \div r) + r
OBVIOUS

\* An interval of fewer per second is not shorter.
LEMMA IntervalsGrow ==
  ASSUME NEW r \in Nat \ {0}, NEW s \in 1 .. r
  PROVE  Interval(s) >= Interval(r)
<1> DEFINE p == 1000 \div r
           q == 1000 \div s
<1>1. /\ p \in Nat /\ q \in Nat /\ r * p <= 1000 /\ 1000 < s * q + s
  BY SharesFit
<1> HIDE DEF p, q
<1>2. p <= q
  <2>1. s * p <= r * p
    <3>1. CASE p = 0
      BY <3>1
    <3>2. CASE p # 0
      <4>1. p * s <= p * r
        BY <1>1, <3>2, ProductsInOrder
      <4> QED
        BY <1>1, <4>1
    <3> QED
      BY <3>1, <3>2
  <2>2. s * p < s * (q + 1)
    <3>1. s * (q + 1) = s * q + s /\ s * p \in Int /\ r * p \in Int /\ s * q \in Int
      BY <1>1
    <3> QED
      BY <1>1, <2>1, <3>1
  <2>3. ~(q + 1 <= p)
    <3>1. s \in Nat \ {0} /\ s * (q + 1) \in Int /\ s * p \in Int
      BY <1>1
    <3> QED
      BY <1>1, <2>2, <3>1, ProductsInOrder
  <2> QED
    BY <1>1, <2>3
<1> QED
  BY <1>1, <1>2 DEF Interval, Larger, p, q

\* A duration becomes the number of ticks that is nearest, or one.
LEMMA TimesAreKept ==
  ASSUME NEW ms \in Int, NEW rate \in Nat \ {0}, NEW interval \in Nat \ {0}, NEW cutOff,
         interval * rate = 1000
  PROVE  Kept(ms, MsToTicks(ms, rate, cutOff), interval)
<1> DEFINE ticks == MsToTicks(ms, rate, cutOff)
           n == rate * ms
           t == (2 * n + 1000) \div 2000
<1> SUFFICES ASSUME ms >= 0, ms <= interval * UintMax
             PROVE  2 * (ticks * interval - ms) \in -interval .. interval
                      \/ (ticks = 1 /\ ms < interval)
  BY DEF Kept
<1>1. UintMax \in Nat
  BY ScenarioAssumption
<1>2. n \in Nat /\ n <= 1000 * UintMax
  <2>1. rate * ms <= rate * (interval * UintMax)
    BY <1>1, ProductsInOrder
  <2>2. rate * (interval * UintMax) = (interval * rate) * UintMax
    BY <1>1
  <2> QED
    BY <1>1, <2>1, <2>2
<1>3. 2 * ms * rate = 2 * n
  OBVIOUS
<1> HIDE DEF n
<1>4. t \in Nat /\ 2000 * t <= 2 * n + 1000 /\ 2 * n + 1000 < 2000 * t + 2000
  BY <1>2
<1>5. t <= UintMax
  BY <1>1, <1>2, <1>4
<1>6. Rounded(ms, rate) = Larger(1, t)
  BY <1>3 DEF Rounded
<1> HIDE DEF t
<1>7. ticks = Larger(1, t)
  BY <1>1, <1>4, <1>5, <1>6, ScenarioAssumption DEF MsToTicks, Larger
<1> HIDE DEF ticks
<1>8. CASE t = 0
  <2>1. ticks = 1 /\ n < 1000
    BY <1>2, <1>4, <1>7, <1>8 DEF Larger
  <2>2. ~(interval <= ms)
    <3>1. rate * interval = 1000
      OBVIOUS
    <3> QED
      BY <2>1, <3>1, ProductsInOrder DEF n
  <2> QED
    BY <2>1, <2>2
<1>9. CASE t # 0
  <2> DEFINE x == 2 * (t * interval - ms)
  <2>1. ticks = t /\ x \in Int
    BY <1>4, <1>7, <1>9 DEF Larger
  <2>2. rate * x = 2 * (t * (interval * rate)) - 2 * (rate * ms)
    BY <1>4
  <2>3. rate * x = 2000 * t - 2 * n
    BY <1>4, <2>2 DEF n
  <2>4. rate * interval = 1000 /\ rate * (-interval) = -1000
    OBVIOUS
  <2>5. rate * (-interval) <= rate * x /\ rate * x <= rate * interval
    BY <1>2, <1>4, <2>3, <2>4
  <2>6. -interval <= x /\ x <= interval
    BY <2>1, <2>5, ProductsInOrder
  <2> QED
    BY <2>1, <2>6
<1> QED
  BY <1>8, <1>9

\* Whoever has been loaded has a valid configuration.
Configured == stage \in {"Checked", "Serving", "Playing", "Crashed"} => ValidConfig(config)

\* Every step keeps the configuration valid.
LEMMA StepConfigured == Configured /\ [Next]_vars => Configured'
<1> SUFFICES ASSUME Configured, [Next]_vars PROVE Configured'
  OBVIOUS
<1>1. config' = config
  BY DEF Next, Refuse, Load, Join, JoinThrows, Walk, Dash, Moves, vars
<1>2. stage' \in {"Checked", "Serving", "Playing", "Crashed"}
        => ValidConfig(config) \/ stage \in {"Checked", "Serving", "Playing", "Crashed"}
  BY DEF Next, Refuse, Load, Join, JoinThrows, Walk, Dash, Moves, vars
<1> QED
  BY <1>1, <1>2 DEF Configured

\* The rates of a valid configuration.
LEMMA ValidRates ==
  ASSUME NEW c, ValidConfig(c)
  PROVE  /\ c.tickRate \in Nat \ {0} /\ c.snapshotRate \in 1 .. c.tickRate
         /\ c.maxInputCommandsPerSecond \in Nat \ {0}
<1>1. \A field \in DOMAIN Largest : c[field] \in 1 .. Largest[field]
  BY DEF ValidConfig
<1>2. /\ "tickRate" \in DOMAIN Largest /\ "maxInputCommandsPerSecond" \in DOMAIN Largest
      /\ Largest["tickRate"] = MaxTickRate /\ Largest["maxInputCommandsPerSecond"] = 240
  BY DEF Largest
<1>3. c["tickRate"] \in 1 .. MaxTickRate /\ c["maxInputCommandsPerSecond"] \in 1 .. 240
  BY <1>1, <1>2
<1> QED
  BY <1>3, ScenarioAssumption DEF ValidConfig

\* The durations of an accepted file are there.
LEMMA AcceptedDurations ==
  ASSUME NEW f \in FileRecord, ValidFields(f)
  PROVE  /\ f.objective.pickupLockMs \in Int /\ f.objective.captureRespawnDelayMs \in Int
         /\ \A i \in DOMAIN EnabledHazards(f) :
              LET hazard == EnabledHazards(f)[i]
              IN  hazard.cooldownTicks = Absent => hazard.cooldownMs \in Int
<1>1. f.objective.pickupLockMs \in Int /\ f.objective.captureRespawnDelayMs \in Int
  <2>1. Has(f.objective, {"scoreLimit", "carrierSpeedMultiplier", "pickupLockMs",
                          "captureRespawnDelayMs", "pickupRadius"})
    BY DEF ValidFields, ValidObjective
  <2>2. /\ f.objective # Absent /\ f.objective.pickupLockMs # Absent
        /\ f.objective.captureRespawnDelayMs # Absent
    BY <2>1 DEF Has
  <2> QED
    BY <2>2 DEF FileRecord, Optional
<1>2. ASSUME NEW i \in DOMAIN EnabledHazards(f), EnabledHazards(f)[i].cooldownTicks = Absent
      PROVE  EnabledHazards(f)[i].cooldownMs \in Int
  <2> DEFINE hazard == EnabledHazards(f)[i]
  <2>1. /\ f.hazards \in Seq(HazardRecord)
        /\ \A h \in Elements(f.hazards) : Enabled(h) => ValidHazardFields(h)
    BY AcceptedFields
  <2>2. hazard \in HazardRecord /\ hazard \in Elements(f.hazards) /\ Enabled(hazard)
    BY <2>1, EnabledHazardsAre
  <2> HIDE DEF hazard
  <2>3. ValidHazardFields(hazard)
    BY <2>1, <2>2
  <2>4. hazard.cooldownMs # Absent
    BY <1>2, <2>3 DEF ValidHazardFields, hazard
  <2>5. hazard.cooldownMs \in Int
    BY <2>2, <2>4 DEF HazardRecord, Optional
  <2> QED
    BY <2>5 DEF hazard
<1> QED
  BY <1>1, <1>2

\* What is loaded of an accepted file with a valid configuration keeps the times written.
LEMMA LoadedTimesAreKept ==
  ASSUME NEW cutOff, file \in FileRecord, ValidConfig(config), Accepts(file, cutOff),
         scenario = ParsedScenario(file, cutOff)
  PROVE  WrittenTimesAreKept
<1> DEFINE rate     == config.tickRate
           interval == Interval(rate)
           perTick  == MaxCommandsPerSessionPerTick(config)
           enabled  == EnabledHazards(file)
           limit    == config.maxInputCommandsPerSecond
<1>1. rate \in Nat \ {0} /\ config.snapshotRate \in 1 .. rate /\ limit \in Nat \ {0}
  BY ValidRates
<1>2. perTick = 1 \/ perTick * rate <= limit
  <2> DEFINE share == limit \div rate
  <2>1. perTick = Larger(1, share)
    BY DEF MaxCommandsPerSessionPerTick
  <2>2. share \in Nat /\ rate * share <= limit
    BY <1>1, SharesFit
  <2> HIDE DEF share, perTick, rate, limit
  <2>3. perTick = 1 \/ perTick = share
    BY <2>1 DEF Larger
  <2>4. share * rate = rate * share
    BY <1>1, <2>2
  <2> QED
    BY <2>2, <2>3, <2>4
<1>3. Interval(config.snapshotRate) >= interval
  BY <1>1, IntervalsGrow
<1>4. interval \in Nat \ {0}
  <2>1. 1000 \div rate \in Nat
    BY <1>1, SharesFit
  <2> QED
    BY <2>1 DEF Interval, Larger
<1>5. ValidFields(file)
  BY DEF Accepts
<1> HIDE DEF rate, interval, perTick, enabled, limit
<1>6. ASSUME rate = file.rules.tickRate, interval * rate = 1000
      PROVE  /\ Kept(file.objective.pickupLockMs, scenario.objective.pickupLockTicks, interval)
             /\ Kept(file.objective.captureRespawnDelayMs, scenario.objective.respawnTicks,
                     interval)
             /\ \A i \in DOMAIN enabled :
                  enabled[i].cooldownTicks = Absent
                    => Kept(enabled[i].cooldownMs,
                            scenario.arena.hazards[i].rules.cooldownTicks, interval)
             /\ scenario.maxTicks * interval = 1000 * file.rules.timeLimitSeconds
  <2>1. /\ scenario.objective.pickupLockTicks = MsToTicks(file.objective.pickupLockMs, rate, cutOff)
        /\ scenario.objective.respawnTicks
             = MsToTicks(file.objective.captureRespawnDelayMs, rate, cutOff)
        /\ scenario.maxTicks = file.rules.timeLimitSeconds * rate
        /\ scenario.arena.hazards = ParsedHazards(file, cutOff)
    BY <1>6 DEF ParsedScenario, ParsedArena
  <2>2. /\ Kept(file.objective.pickupLockMs, scenario.objective.pickupLockTicks, interval)
        /\ Kept(file.objective.captureRespawnDelayMs, scenario.objective.respawnTicks, interval)
    BY <1>1, <1>4, <1>5, <1>6, <2>1, AcceptedDurations, TimesAreKept
  <2>3. ASSUME NEW i \in DOMAIN enabled, enabled[i].cooldownTicks = Absent
        PROVE  Kept(enabled[i].cooldownMs, scenario.arena.hazards[i].rules.cooldownTicks, interval)
    <3>1. scenario.arena.hazards[i] = ParsedHazard(enabled[i], rate, cutOff)
      BY <1>6, <2>1 DEF ParsedHazards, enabled
    <3>2. scenario.arena.hazards[i].rules.cooldownTicks
            = MsToTicks(enabled[i].cooldownMs, rate, cutOff)
      BY <2>3, <3>1 DEF ParsedHazard
    <3>3. enabled[i].cooldownMs \in Int
      BY <1>5, <2>3, AcceptedDurations DEF enabled
    <3> QED
      BY <1>1, <1>4, <1>6, <3>2, <3>3, TimesAreKept
  <2>4. scenario.maxTicks * interval = 1000 * file.rules.timeLimitSeconds
    <3>1. file.rules.timeLimitSeconds \in Nat
      BY <1>5, AcceptedFields
    <3> DEFINE seconds == file.rules.timeLimitSeconds
    <3> HIDE DEF seconds
    <3>2. (seconds * rate) * interval = seconds * (interval * rate)
      BY <1>1, <1>4, <3>1 DEF seconds
    <3>3. (seconds * rate) * interval = 1000 * seconds
      BY <1>6, <3>1, <3>2 DEF seconds
    <3> QED
      BY <2>1, <3>3 DEF seconds
  <2> QED
    BY <2>2, <2>3, <2>4
<1> QED
  BY <1>2, <1>3, <1>6 DEF WrittenTimesAreKept, rate, interval, perTick, enabled, limit

(***************************************************************************)
(* Whatever was written, in any accepted file and any valid configuration: *)
(* durations are kept to half a tick or are one tick, a match lasts its    *)
(* seconds and nobody may send more than is allowed in a second, if the    *)
(* scenario's tick rate is the server's and divides a second (msToTicks,   *)
(* parseScenarioConfig, runTcpServer, backendLimitsFrom).                  *)
(***************************************************************************)
THEOREM WrittenTimesAlwaysKept == Spec => []WrittenTimesAreKept
<1>1. Init => Configured
  BY DEF Init, Configured
<1>2. Started /\ Configured => WrittenTimesAreKept
  <2> SUFFICES ASSUME Started, Configured, stage \in {"Serving", "Playing"}
               PROVE  WrittenTimesAreKept
    BY DEF WrittenTimesAreKept
  <2>1. PICK cutOff \in BOOLEAN : Accepts(file, cutOff) /\ scenario = ParsedScenario(file, cutOff)
    BY DEF Started
  <2> QED
    BY <2>1, LoadedTimesAreKept DEF Started, Configured
<1> QED
  BY <1>1, <1>2, InitStarted, StepStarted, StepConfigured, PTL DEF Spec

(***************************************************************************)
(* The arena turned half round.                                            *)
(***************************************************************************)
Points == Int \X Int

\* What playing in an arena needs of what was accepted.
ArenaIsSound ==
  LET arena == scenario.arena
  IN  /\ arena.size[1] \in Nat \ {0} /\ arena.size[2] \in Nat \ {0}
      /\ Elements(arena.obstacles) \subseteq Points /\ ObstaclesMirrored(arena)
      /\ arena.redSpawn \in Points /\ arena.blueSpawn \in Points
      /\ arena.objective \in Points /\ Rotate180(arena.objective, arena.size) = arena.objective
      /\ SpawnsMirrored(arena)
      /\ scenario.speed \in Nat \ {0}
      /\ \A i \in DOMAIN arena.hazards :
           /\ i \in Int
           /\ arena.hazards[i].cell \in Points
           /\ arena.hazards[i].rules.seed \in Int /\ arena.hazards[i].patrolRadius \in Int

\* A cell of the arena has quarters.
LEMMA QuarterCells == Unit \in Nat \ {0} /\ Unit \div 4 \in Nat \ {0} /\ Unit = 4 * (Unit \div 4)
BY ScenarioAssumption, ServerStartAssumption

\* A pair is made of its two parts.
LEMMA PointParts ==
  ASSUME NEW p \in Points
  PROVE  p[1] \in Int /\ p[2] \in Int /\ p = <<p[1], p[2]>>
BY DEF Points

\* Turning twice is not turning; and the two views are as far apart as what they show.
LEMMA ViewTurns ==
  ASSUME ArenaIsSound, NEW p \in Points, NEW q \in Points
  PROVE  /\ View(p) \in Points /\ View(View(p)) = p
         /\ Geo!DistanceSquared(View(p), View(q)) = Geo!DistanceSquared(p, q)
<1> DEFINE X == (scenario.arena.size[1] - 1) * Unit
           Y == (scenario.arena.size[2] - 1) * Unit
<1>1. X \in Nat /\ Y \in Nat
  BY QuarterCells DEF ArenaIsSound
<1>2. View(p) = <<X - p[1], Y - p[2]>> /\ View(q) = <<X - q[1], Y - q[2]>>
  BY DEF View
<1>3. View(View(p)) = <<X - (X - p[1]), Y - (Y - p[2])>>
  BY <1>2 DEF View
<1> HIDE DEF X, Y
<1>4. /\ p[1] \in Int /\ p[2] \in Int /\ p = <<p[1], p[2]>>
      /\ q[1] \in Int /\ q[2] \in Int
  BY PointParts
<1>5. View(p) \in Points
  BY <1>1, <1>2, <1>4 DEF Points
<1>6. View(View(p)) = p
  BY <1>1, <1>3, <1>4
<1>7. \A a, b, c \in Int : ((c - a) - (c - b)) * ((c - a) - (c - b)) = (a - b) * (a - b)
  OBVIOUS
<1>8. Geo!DistanceSquared(View(p), View(q)) = Geo!DistanceSquared(p, q)
  BY <1>1, <1>2, <1>4, <1>7 DEF Geo!DistanceSquared
<1> QED
  BY <1>5, <1>6, <1>8

\* The arena's bounds look the same from both sides.
LEMMA ViewInBounds ==
  ASSUME ArenaIsSound, NEW p \in Points
  PROVE  Geo!InBounds(View(p)) <=> Geo!InBounds(p)
<1> DEFINE X == (scenario.arena.size[1] - 1) * Unit
           Y == (scenario.arena.size[2] - 1) * Unit
<1>1. X \in Nat /\ Y \in Nat
  BY QuarterCells DEF ArenaIsSound
<1>2. View(p) = <<X - p[1], Y - p[2]>>
  BY DEF View
<1>3. \A q : Geo!InBounds(q) <=> q \in (0 .. X) \X (0 .. Y)
  BY DEF Geo!InBounds, Geo!Point
<1> HIDE DEF X, Y
<1>4. p[1] \in Int /\ p[2] \in Int /\ p = <<p[1], p[2]>>
  BY PointParts
<1>5. \A a, b \in Int : <<a, b>> \in (0 .. X) \X (0 .. Y) <=> a \in 0 .. X /\ b \in 0 .. Y
  OBVIOUS
<1>6. /\ X - p[1] \in 0 .. X <=> p[1] \in 0 .. X
      /\ Y - p[2] \in 0 .. Y <=> p[2] \in 0 .. Y
  BY <1>1, <1>4
<1>7. X - p[1] \in Int /\ Y - p[2] \in Int
  BY <1>1, <1>4
<1> QED
  BY <1>2, <1>3, <1>4, <1>5, <1>6, <1>7

\* The nearest place of a segment is in it, whichever side it is looked at from.
LEMMA ClampTurns ==
  ASSUME NEW c \in Int, NEW x \in Int, NEW a \in Int, NEW b \in Int
  PROVE  /\ Geo!Clamp(x, a, b) \in Int
         /\ Geo!Clamp(c - x, c - a, c - b) = c - Geo!Clamp(x, a, b)
BY DEF Geo!Clamp

\* A place is as far from a segment as it is in the other view.
LEMMA ViewSegments ==
  ASSUME ArenaIsSound, NEW p \in Points, NEW a \in Points, NEW b \in Points
  PROVE  Geo!SegmentDistanceSquared(View(p), View(a), View(b)) = Geo!SegmentDistanceSquared(p, a, b)
<1> DEFINE X == (scenario.arena.size[1] - 1) * Unit
           Y == (scenario.arena.size[2] - 1) * Unit
           q == <<Geo!Clamp(p[1], a[1], b[1]), Geo!Clamp(p[2], a[2], b[2])>>
<1>1. X \in Nat /\ Y \in Nat
  BY QuarterCells DEF ArenaIsSound
<1>2. \A r : View(r) = <<X - r[1], Y - r[2]>>
  BY DEF View
<1> HIDE DEF X, Y
<1>3. /\ p[1] \in Int /\ p[2] \in Int /\ a[1] \in Int /\ a[2] \in Int
      /\ b[1] \in Int /\ b[2] \in Int
  BY PointParts
<1>4. q \in Points
  BY <1>3, ClampTurns DEF Points
<1>5. <<Geo!Clamp(View(p)[1], View(a)[1], View(b)[1]), Geo!Clamp(View(p)[2], View(a)[2], View(b)[2])>>
        = View(q)
  <2> DEFINE Turned(c, x, l, m) == Geo!Clamp(c - x, c - l, c - m) = c - Geo!Clamp(x, l, m)
  <2>1. ASSUME NEW c \in Int, NEW x \in Int, NEW l \in Int, NEW m \in Int
        PROVE  Turned(c, x, l, m)
    BY <2>1, ClampTurns
  <2>2. X \in Int /\ Y \in Int
    BY <1>1
  <2> HIDE DEF Turned
  <2>3. Turned(X, p[1], a[1], b[1])
    BY <1>3, <2>1, <2>2
  <2>4. Turned(Y, p[2], a[2], b[2])
    BY <1>3, <2>1, <2>2
  <2> QED
    BY <1>2, <2>3, <2>4 DEF Turned
<1>6. /\ Geo!SegmentDistanceSquared(p, a, b) = Geo!DistanceSquared(p, q)
      /\ Geo!SegmentDistanceSquared(View(p), View(a), View(b))
           = Geo!DistanceSquared(View(p), View(q))
  BY <1>5 DEF Geo!SegmentDistanceSquared
<1> HIDE DEF q
<1> QED
  BY <1>4, <1>6, ViewTurns

\* How far a cell is from the far side.
LEMMA CentresTurn ==
  ASSUME NEW n \in Int, NEW m \in Int, NEW u \in Int
  PROVE  (n - 1 - m) * u = (n - 1) * u - m * u
OBVIOUS

\* The centre of a cell, seen from the other side, is that of the cell it turns to.
LEMMA ViewCentres ==
  ASSUME ArenaIsSound, NEW o \in Points
  PROVE  /\ Rotate180(o, scenario.arena.size) \in Points /\ Geo!Centre(o) \in Points
         /\ Geo!Centre(Rotate180(o, scenario.arena.size)) = View(Geo!Centre(o))
<1> DEFINE w == scenario.arena.size[1]
           h == scenario.arena.size[2]
<1>1. w \in Nat /\ h \in Nat /\ Unit \in Nat
  BY QuarterCells DEF ArenaIsSound
<1>2. /\ Rotate180(o, scenario.arena.size) = <<w - 1 - o[1], h - 1 - o[2]>>
      /\ Geo!Centre(o) = <<o[1] * Unit, o[2] * Unit>>
      /\ Geo!Centre(<<w - 1 - o[1], h - 1 - o[2]>>) = <<(w - 1 - o[1]) * Unit, (h - 1 - o[2]) * Unit>>
      /\ View(Geo!Centre(o)) = <<(w - 1) * Unit - o[1] * Unit, (h - 1) * Unit - o[2] * Unit>>
  BY DEF Rotate180, Geo!Centre, View
<1> HIDE DEF w, h
<1>3. o[1] \in Int /\ o[2] \in Int
  BY PointParts
<1>4. /\ (w - 1 - o[1]) * Unit = (w - 1) * Unit - o[1] * Unit
      /\ (h - 1 - o[2]) * Unit = (h - 1) * Unit - o[2] * Unit
  <2> DEFINE x == o[1]
             y == o[2]
  <2>1. x \in Int /\ y \in Int /\ w \in Int /\ h \in Int /\ Unit \in Int
    BY <1>1, <1>3
  <2> HIDE DEF x, y
  <2>2. (w - 1 - x) * Unit = (w - 1) * Unit - x * Unit
    BY <2>1, CentresTurn
  <2>3. (h - 1 - y) * Unit = (h - 1) * Unit - y * Unit
    BY <2>1, CentresTurn
  <2> QED
    BY <2>2, <2>3 DEF x, y
<1>5. Geo!Centre(Rotate180(o, scenario.arena.size)) = View(Geo!Centre(o))
  BY <1>2, <1>4
<1>6. /\ o[1] * Unit \in Int /\ o[2] * Unit \in Int
      /\ w - 1 - o[1] \in Int /\ h - 1 - o[2] \in Int
  BY <1>1, <1>3
<1>7. Rotate180(o, scenario.arena.size) \in Points /\ Geo!Centre(o) \in Points
  BY <1>2, <1>6 DEF Points
<1> QED
  BY <1>5, <1>7

\* An obstacle is in the way on one side exactly when one is on the other.
LEMMA ViewObstacles ==
  ASSUME ArenaIsSound, NEW a \in Points, NEW b \in Points
  PROVE  Geo!CollidesWithObstacle(View(a), View(b)) <=> Geo!CollidesWithObstacle(a, b)
<1> DEFINE O == Elements(scenario.arena.obstacles)
           B == Geo!BlockedDistance * Geo!BlockedDistance
<1>1. \A p, q : Geo!CollidesWithObstacle(p, q)
                  <=> \E o \in O : Geo!SegmentDistanceSquared(Geo!Centre(o), p, q) < B
  BY DEF Geo!CollidesWithObstacle
<1>2. O \subseteq Points /\ \A o \in O : Rotate180(o, scenario.arena.size) \in O
  BY DEF ArenaIsSound, ObstaclesMirrored
<1> HIDE DEF O, B
<1>3. ASSUME NEW p \in Points, NEW q \in Points, Geo!CollidesWithObstacle(p, q)
      PROVE  Geo!CollidesWithObstacle(View(p), View(q))
  <2>1. PICK o \in O : Geo!SegmentDistanceSquared(Geo!Centre(o), p, q) < B
    BY <1>1, <1>3
  <2>2. o \in Points /\ Rotate180(o, scenario.arena.size) \in O
    BY <1>2
  <2>3. Geo!Centre(o) \in Points /\ Geo!Centre(Rotate180(o, scenario.arena.size)) = View(Geo!Centre(o))
    BY <2>2, ViewCentres
  <2>4. Geo!SegmentDistanceSquared(View(Geo!Centre(o)), View(p), View(q))
          = Geo!SegmentDistanceSquared(Geo!Centre(o), p, q)
    BY <2>3, ViewSegments
  <2> QED
    BY <1>1, <2>1, <2>2, <2>3, <2>4
<1>4. View(a) \in Points /\ View(b) \in Points /\ View(View(a)) = a /\ View(View(b)) = b
  BY ViewTurns
<1> QED
  BY <1>3, <1>4

(***************************************************************************)
(* Moving and dashing on both sides.                                       *)
(***************************************************************************)
\* A direction as the other side enters it.
Turned(d) == InputDirectionToWorld(d, "Red")

\* A shift seen from the other side.
LEMMA ViewShifts ==
  ASSUME ArenaIsSound, NEW p \in Points, NEW d \in Geo!Axis, NEW n \in Int
  PROVE  /\ Geo!Shift(p, d, n) \in Points /\ Turned(d) \in Geo!Axis
         /\ Geo!Shift(View(p), Turned(d), n) = View(Geo!Shift(p, d, n))
<1> DEFINE X == (scenario.arena.size[1] - 1) * Unit
           Y == (scenario.arena.size[2] - 1) * Unit
           x == p[1]
           y == p[2]
<1>1. X \in Int /\ Y \in Int
  BY QuarterCells DEF ArenaIsSound
<1>2. x \in Int /\ y \in Int
  BY PointParts
<1>3. /\ View(p) = <<X - x, Y - y>> /\ Geo!Shift(p, d, n) = <<x + d[1] * n, y + d[2] * n>>
      /\ View(<<x + d[1] * n, y + d[2] * n>>) = <<X - (x + d[1] * n), Y - (y + d[2] * n)>>
      /\ Turned(d) = <<-d[1], -d[2]>>
      /\ Geo!Shift(<<X - x, Y - y>>, <<-d[1], -d[2]>>, n)
           = <<X - x + (-d[1]) * n, Y - y + (-d[2]) * n>>
  BY DEF View, Geo!Shift, Turned, InputDirectionToWorld
<1> HIDE DEF X, Y, x, y
<1>4. d \in {<<1, 0>>, <<-1, 0>>, <<0, 1>>, <<0, -1>>}
  BY DEF Geo!Axis
<1>5. d[1] \in {-1, 0, 1} /\ d[2] \in {-1, 0, 1}
  BY <1>4
<1>6. <<-d[1], -d[2]>> \in Geo!Axis
  BY <1>4 DEF Geo!Axis
<1>7. ASSUME NEW e \in {-1, 0, 1}, NEW z \in Int, NEW Z \in Int
      PROVE  z + e * n \in Int /\ Z - z + (-e) * n = Z - (z + e * n)
  <2>1. CASE e = -1
    BY <2>1
  <2>2. CASE e = 0
    BY <2>2
  <2>3. CASE e = 1
    BY <2>3
  <2> QED
    BY <2>1, <2>2, <2>3
<1> DEFINE a == d[1]
           b == d[2]
<1>8. a \in {-1, 0, 1} /\ b \in {-1, 0, 1}
  BY <1>5
<1> HIDE DEF a, b
<1>9. /\ x + a * n \in Int /\ X - x + (-a) * n = X - (x + a * n)
      /\ y + b * n \in Int /\ Y - y + (-b) * n = Y - (y + b * n)
  BY <1>1, <1>2, <1>7, <1>8
<1>10. <<x + a * n, y + b * n>> \in Points
  BY <1>9 DEF Points
<1> QED
  BY <1>3, <1>6, <1>9, <1>10 DEF a, b

\* A step on the other side is the step that is shown.
LEMMA ViewSteps ==
  ASSUME ArenaIsSound, NEW p \in Points, NEW d \in Geo!Axis
  PROVE  /\ Geo!StepFrom(p, d, FALSE, p) \in Points
         /\ View(Geo!StepFrom(View(p), Turned(d), FALSE, View(p))) = Geo!StepFrom(p, d, FALSE, p)
<1> DEFINE to == Geo!Shift(p, d, scenario.speed)
           back == Geo!Shift(View(p), Turned(d), scenario.speed)
<1>1. scenario.speed \in Int
  BY DEF ArenaIsSound
<1>2. to \in Points /\ back = View(to)
  BY <1>1, ViewShifts
<1>3. /\ Geo!StepFrom(p, d, FALSE, p)
           = IF ~Geo!InBounds(to) \/ Geo!CollidesWithObstacle(p, to) THEN p ELSE to
      /\ Geo!StepFrom(View(p), Turned(d), FALSE, View(p))
           = IF ~Geo!InBounds(back) \/ Geo!CollidesWithObstacle(View(p), back)
             THEN View(p) ELSE back
  BY DEF Geo!StepFrom
<1> HIDE DEF to, back
<1>4. /\ Geo!InBounds(View(to)) <=> Geo!InBounds(to)
      /\ Geo!CollidesWithObstacle(View(p), View(to)) <=> Geo!CollidesWithObstacle(p, to)
  BY <1>2, ViewInBounds, ViewObstacles
<1>5. View(View(p)) = p /\ View(View(to)) = to
  BY <1>2, ViewTurns
<1> QED
  BY <1>2, <1>3, <1>4, <1>5

\* The first k of n parts can be gone, and no more.
IsLast(k, n, free) ==
  k \in 0 .. n /\ (\A j \in 1 .. k : j \in free) /\ (k = n \/ k + 1 \notin free)

\* Some part of a way is the last one that can be gone, and only one is.
LEMMA LastPart ==
  ASSUME NEW n \in Nat, NEW free
  PROVE  /\ \E k \in 0 .. n : IsLast(k, n, free)
         /\ \A k, l : IsLast(k, n, free) /\ IsLast(l, n, free) => k = l
<1>1. ASSUME \A k \in 0 .. n : ~IsLast(k, n, free)
      PROVE  FALSE
  <2> DEFINE S == {k \in Nat : k <= n => \A j \in 1 .. k : j \in free}
  <2>1. 0 \in S
    OBVIOUS
  <2>2. ASSUME NEW k \in Nat, k \in S PROVE k + 1 \in S
    <3> SUFFICES ASSUME k + 1 <= n PROVE \A j \in 1 .. k + 1 : j \in free
      OBVIOUS
    <3>1. k \in 0 .. n /\ k # n /\ \A j \in 1 .. k : j \in free
      BY <2>2
    <3>2. k + 1 \in free
      BY <1>1, <3>1 DEF IsLast
    <3> QED
      BY <3>1, <3>2
  <2> HIDE DEF S
  <2>3. n \in S
    BY <2>1, <2>2, SetNatInduction
  <2> QED
    BY <1>1, <2>3 DEF S, IsLast
<1>2. ASSUME NEW k, NEW l, IsLast(k, n, free), IsLast(l, n, free), k < l PROVE FALSE
  BY <1>2 DEF IsLast
<1>3. ASSUME NEW k, NEW l, IsLast(k, n, free), IsLast(l, n, free) PROVE k = l
  <2>1. k \in Int /\ l \in Int
    BY <1>3 DEF IsLast
  <2> QED
    BY <1>2, <1>3, <2>1
<1> QED
  BY <1>1, <1>3

\* The parts of a dash.
DashSteps == (scenario.combat.dashDistance + Unit \div 4 - 1) \div (Unit \div 4)
DashPart(k) == (k * scenario.combat.dashDistance) \div DashSteps
DashPlace(p, d, k) == Geo!Shift(p, d, DashPart(k))
DashFree(p, d) ==
  {k \in 1 .. DashSteps : /\ Geo!InBounds(DashPlace(p, d, k))
                          /\ ~Geo!CollidesWithObstacle(DashPlace(p, d, k - 1), DashPlace(p, d, k))}
DashWhole(p, d) == Geo!Shift(p, d, scenario.combat.dashDistance)

\* There are some, and they end in places.
LEMMA DashParts ==
  ASSUME scenario.combat.dashDistance \in Nat \ {0}
  PROVE  /\ DashSteps \in Nat \ {0}
         /\ \A k \in Int : DashPart(k) \in Int
         /\ DashPart(0) = 0
<1> DEFINE n == scenario.combat.dashDistance
           q == Unit \div 4
           m == n + q - 1
<1>1. n \in Nat \ {0} /\ q \in Nat \ {0} /\ m \in Nat /\ m >= q
  BY QuarterCells
<1>2. DashSteps = m \div q
  BY DEF DashSteps
<1> HIDE DEF n, q, m
<1>3. m \div q \in Nat /\ m < q * (m \div q) + q
  BY <1>1, SharesFit
<1>4. m \div q # 0
  <2>1. m \div q = 0 => q * (m \div q) = 0
    BY <1>1
  <2> QED
    BY <1>1, <1>3, <2>1
<1>5. DashSteps \in Nat \ {0}
  BY <1>2, <1>3, <1>4
<1>6. ASSUME NEW k \in Int PROVE DashPart(k) \in Int
  <2>1. k * n \in Int
    BY <1>1
  <2> QED
    BY <1>5, <2>1 DEF DashPart, n
<1>7. DashPart(0) = 0
  <2>1. 0 * n = 0
    BY <1>1
  <2> QED
    BY <1>5, <2>1 DEF DashPart, n
<1> QED
  BY <1>5, <1>6, <1>7

\* A dash goes the whole way or ends with the last part that can be gone.
LEMMA DashEnds ==
  ASSUME scenario.combat.dashDistance \in Nat \ {0}, NEW p, NEW d
  PROVE  IF Geo!InBounds(DashWhole(p, d)) /\ ~Geo!CollidesWithObstacle(p, DashWhole(p, d))
         THEN Geo!DashFrom(p, d) = DashWhole(p, d)
         ELSE \E k : IsLast(k, DashSteps, DashFree(p, d)) /\ Geo!DashFrom(p, d) = DashPlace(p, d, k)
<1> DEFINE free(k) == LET a == Geo!Shift(p, d, ((k - 1) * scenario.combat.dashDistance) \div DashSteps)
                          b == Geo!Shift(p, d, (k * scenario.combat.dashDistance) \div DashSteps)
                      IN  Geo!InBounds(b) /\ ~Geo!CollidesWithObstacle(a, b)
           last == CHOOSE k \in 0 .. DashSteps :
                     /\ \A j \in 1 .. k : free(j)
                     /\ k = DashSteps \/ ~free(k + 1)
           whole == DashWhole(p, d)
<1>1. Geo!DashFrom(p, d)
        = IF Geo!InBounds(whole) /\ ~Geo!CollidesWithObstacle(p, whole) THEN whole
          ELSE DashPlace(p, d, last)
  BY DEF Geo!DashFrom, Geo!CollisionSafeTarget, DashSteps, DashPart, DashPlace, DashWhole
<1>2. DashSteps \in Nat \ {0}
  BY DashParts
<1>3. \A k \in 1 .. DashSteps : free(k) <=> k \in DashFree(p, d)
  BY DEF DashFree, DashPlace, DashPart
<1> HIDE DEF free, whole
<1>4. PICK k \in 0 .. DashSteps : IsLast(k, DashSteps, DashFree(p, d))
  BY <1>2, LastPart
<1>5. \A j \in 0 .. DashSteps :
        IsLast(j, DashSteps, DashFree(p, d))
          <=> (\A i \in 1 .. j : free(i)) /\ (j = DashSteps \/ ~free(j + 1))
  BY <1>2, <1>3 DEF IsLast
<1>6. last \in 0 .. DashSteps /\ (\A i \in 1 .. last : free(i)) /\ (last = DashSteps \/ ~free(last + 1))
  <2>1. \E j \in 0 .. DashSteps : (\A i \in 1 .. j : free(i)) /\ (j = DashSteps \/ ~free(j + 1))
    BY <1>4, <1>5
  <2> QED
    BY <2>1
<1> HIDE DEF last
<1>7. IsLast(last, DashSteps, DashFree(p, d))
  BY <1>5, <1>6
<1> QED
  BY <1>1, <1>7 DEF whole

\* A dash on the other side is the dash that is shown.
LEMMA ViewDashes ==
  ASSUME ArenaIsSound, scenario.combat.dashDistance \in Nat \ {0},
         NEW p \in Points, NEW d \in Geo!Axis
  PROVE  /\ Geo!DashFrom(p, d) \in Points
         /\ View(Geo!DashFrom(View(p), Turned(d))) = Geo!DashFrom(p, d)
<1> DEFINE q == View(p)
           e == Turned(d)
<1>1. q \in Points /\ e \in Geo!Axis /\ View(q) = p
  BY ViewShifts, ViewTurns
<1>2. ASSUME NEW k \in Int
      PROVE  DashPlace(p, d, k) \in Points /\ DashPlace(q, e, k) = View(DashPlace(p, d, k))
  BY DashParts, ViewShifts DEF DashPlace
<1>3. DashWhole(p, d) \in Points /\ DashWhole(q, e) = View(DashWhole(p, d))
  BY ViewShifts DEF DashWhole
<1> HIDE DEF q, e
<1>4. DashFree(q, e) = DashFree(p, d)
  <2>1. ASSUME NEW k \in 1 .. DashSteps
        PROVE  k \in DashFree(q, e) <=> k \in DashFree(p, d)
    <3>1. k \in Int /\ k - 1 \in Int
      BY DashParts
    <3>2. /\ DashPlace(p, d, k) \in Points /\ DashPlace(q, e, k) = View(DashPlace(p, d, k))
          /\ DashPlace(p, d, k - 1) \in Points
          /\ DashPlace(q, e, k - 1) = View(DashPlace(p, d, k - 1))
      BY <1>2, <3>1
    <3> QED
      BY <3>2, ViewInBounds, ViewObstacles DEF DashFree
  <2>2. DashFree(q, e) \subseteq 1 .. DashSteps /\ DashFree(p, d) \subseteq 1 .. DashSteps
    BY DEF DashFree
  <2> QED
    BY <2>1, <2>2
<1> DEFINE W == DashWhole(p, d)
<1>5. /\ Geo!InBounds(DashWhole(q, e)) <=> Geo!InBounds(W)
      /\ Geo!CollidesWithObstacle(q, DashWhole(q, e)) <=> Geo!CollidesWithObstacle(p, W)
  BY <1>3, ViewInBounds, ViewObstacles DEF q
<1>6. CASE Geo!InBounds(W) /\ ~Geo!CollidesWithObstacle(p, W)
  <2>1. Geo!DashFrom(p, d) = W /\ Geo!DashFrom(q, e) = View(W)
    BY <1>3, <1>5, <1>6, DashEnds
  <2> QED
    BY <1>3, <2>1, ViewTurns DEF q, e
<1>7. CASE ~(Geo!InBounds(W) /\ ~Geo!CollidesWithObstacle(p, W))
  <2>1. PICK k : IsLast(k, DashSteps, DashFree(p, d)) /\ Geo!DashFrom(p, d) = DashPlace(p, d, k)
    BY <1>7, DashEnds
  <2>2. PICK l : IsLast(l, DashSteps, DashFree(q, e)) /\ Geo!DashFrom(q, e) = DashPlace(q, e, l)
    BY <1>5, <1>7, DashEnds
  <2>3. k = l
    BY <1>4, <2>1, <2>2, DashParts, LastPart
  <2>4. k \in Int
    BY <2>1 DEF IsLast
  <2>5. DashPlace(p, d, k) \in Points /\ DashPlace(q, e, k) = View(DashPlace(p, d, k))
    BY <1>2, <2>4
  <2> QED
    BY <2>1, <2>2, <2>3, <2>5, ViewTurns DEF q, e
<1> QED
  BY <1>6, <1>7

(***************************************************************************)
(* Patrolling on both sides.                                               *)
(***************************************************************************)
\* What is half a patrol apart is opposite.
LEMMA OffsetsTurn ==
  ASSUME NEW z \in Int, NEW k \in 0 .. 5
  PROVE  LET o == Geo!PatrolOffsets[(((z % 6) + k) % 6) + 1]
             t == Geo!PatrolOffsets[((((z + 3) % 6) + k) % 6) + 1]
         IN  o[1] \in Int /\ o[2] \in Int /\ t = <<-o[1], -o[2]>>
<1> DEFINE n == ((z % 6) + k) % 6
           m == (((z + 3) % 6) + k) % 6
<1>1. n \in 0 .. 5 /\ m = IF n < 3 THEN n + 3 ELSE n - 3
  OBVIOUS
<1> HIDE DEF n, m
<1>2. /\ Geo!PatrolOffsets[1] = <<1, -1>> /\ Geo!PatrolOffsets[2] = <<1, 0>>
      /\ Geo!PatrolOffsets[3] = <<1, 1>> /\ Geo!PatrolOffsets[4] = <<-1, 1>>
      /\ Geo!PatrolOffsets[5] = <<-1, 0>> /\ Geo!PatrolOffsets[6] = <<-1, -1>>
  BY DEF Geo!PatrolOffsets
<1> DEFINE o == Geo!PatrolOffsets[n + 1]
           t == Geo!PatrolOffsets[m + 1]
<1>3. n \in {0, 1, 2, 3, 4, 5}
  BY <1>1
<1>4. o[1] \in Int /\ o[2] \in Int /\ t = <<-o[1], -o[2]>>
  <2>1. CASE n = 0
    BY <1>1, <1>2, <2>1
  <2>2. CASE n = 1
    BY <1>1, <1>2, <2>2
  <2>3. CASE n = 2
    BY <1>1, <1>2, <2>3
  <2>4. CASE n = 3
    BY <1>1, <1>2, <2>4
  <2>5. CASE n = 4
    BY <1>1, <1>2, <2>5
  <2>6. CASE n = 5
    BY <1>1, <1>2, <2>6
  <2> QED
    BY <1>3, <2>1, <2>2, <2>3, <2>4, <2>5, <2>6
<1> QED
  BY <1>4 DEF n, m

\* A cell is free on one side exactly when the opposite one is.
LEMMA CellsTurn ==
  ASSUME ArenaIsSound, NEW c \in Points
  PROVE  LET turned == Rotate180(c, scenario.arena.size)
         IN  /\ turned \in Points /\ Rotate180(turned, scenario.arena.size) = c
             /\ turned \in Geo!Cell <=> c \in Geo!Cell
             /\ turned \in Elements(scenario.arena.obstacles)
                  <=> c \in Elements(scenario.arena.obstacles)
<1> DEFINE w == scenario.arena.size[1]
           h == scenario.arena.size[2]
           turned == Rotate180(c, scenario.arena.size)
           O == Elements(scenario.arena.obstacles)
<1>1. w \in Nat /\ h \in Nat
  BY DEF ArenaIsSound
<1>2. /\ turned = <<w - 1 - c[1], h - 1 - c[2]>>
      /\ Rotate180(<<w - 1 - c[1], h - 1 - c[2]>>, scenario.arena.size)
           = <<w - 1 - (w - 1 - c[1]), h - 1 - (h - 1 - c[2])>>
      /\ Geo!Cell = (0 .. w - 1) \X (0 .. h - 1)
  BY DEF Rotate180, Geo!Cell
<1>3. \A o \in O : Rotate180(o, scenario.arena.size) \in O
  BY DEF ArenaIsSound, ObstaclesMirrored
<1> HIDE DEF w, h, turned, O
<1>4. c[1] \in Int /\ c[2] \in Int /\ c = <<c[1], c[2]>>
  BY PointParts
<1>5. turned \in Points
  BY <1>1, <1>2, <1>4 DEF Points
<1>6. Rotate180(turned, scenario.arena.size) = c
  BY <1>1, <1>2, <1>4
<1>7. turned \in Geo!Cell <=> c \in Geo!Cell
  <2> DEFINE a == w - 1 - c[1]
             b == h - 1 - c[2]
  <2>1. /\ a \in Int /\ b \in Int
        /\ a \in 0 .. w - 1 <=> c[1] \in 0 .. w - 1
        /\ b \in 0 .. h - 1 <=> c[2] \in 0 .. h - 1
    BY <1>1, <1>4
  <2>2. turned = <<a, b>>
    BY <1>2
  <2> HIDE DEF a, b
  <2>3. <<a, b>> \in (0 .. w - 1) \X (0 .. h - 1) <=> a \in 0 .. w - 1 /\ b \in 0 .. h - 1
    OBVIOUS
  <2>4. <<c[1], c[2]>> \in (0 .. w - 1) \X (0 .. h - 1)
          <=> c[1] \in 0 .. w - 1 /\ c[2] \in 0 .. h - 1
    OBVIOUS
  <2> QED
    BY <1>2, <1>4, <2>1, <2>2, <2>3, <2>4
<1>8. turned \in O <=> c \in O
  BY <1>3, <1>6 DEF turned
<1> QED
  BY <1>5, <1>6, <1>7, <1>8 DEF turned, O

\* The first of some tries.
FirstOf(tries) == CHOOSE k \in tries : \A j \in tries : k <= j

\* It is one of them.
LEMMA FirstTry ==
  ASSUME NEW tries, tries \subseteq 0 .. 5, tries # {}
  PROVE  FirstOf(tries) \in tries
<1>1. \E k \in tries : \A j \in tries : k <= j
  <2> SUFFICES ASSUME \A k \in tries : \E j \in tries : j < k PROVE FALSE
    OBVIOUS
  <2>1. 0 \notin tries
    OBVIOUS
  <2>2. 1 \notin tries
    BY <2>1
  <2>3. 2 \notin tries
    BY <2>1, <2>2
  <2>4. 3 \notin tries
    BY <2>1, <2>2, <2>3
  <2>5. 4 \notin tries
    BY <2>1, <2>2, <2>3, <2>4
  <2>6. 5 \notin tries
    BY <2>1, <2>2, <2>3, <2>4, <2>5
  <2>7. PICK k \in tries : TRUE
    OBVIOUS
  <2>8. k \in 0 .. 5 /\ k \in {0, 1, 2, 3, 4, 5}
    OBVIOUS
  <2> QED
    BY <2>1, <2>2, <2>3, <2>4, <2>5, <2>6, <2>7, <2>8
<1> QED
  BY <1>1 DEF FirstOf

\* Where a crow in the phase z tries to be, and which tries are good.
Try(post, z, k) ==
  LET o == Geo!PatrolOffsets[(((z % 6) + k) % 6) + 1] IN <<post[1] + o[1], post[2] + o[2]>>
IsFine(post, radius, cell) ==
  /\ cell \in Geo!Cell
  /\ cell \notin Elements(scenario.arena.obstacles)
  /\ Geo!Within(Geo!Centre(cell), Geo!Centre(post), radius)
  /\ cell # post
Tries(post, radius, z) == {k \in 0 .. 5 : IsFine(post, radius, Try(post, z, k))}

\* A sum that has grown in three ticks has not wrapped.
LEMMA PatrolSumsGrow ==
  ASSUME NEW seed \in Int, NEW index \in Int, NEW tick \in Int,
         Geo!PatrolSum(seed, index, tick) < Geo!PatrolSum(seed, index, tick + 3)
  PROVE  /\ Geo!PatrolSum(seed, index, tick) \in Int
         /\ Geo!PatrolSum(seed, index, tick + 3) = Geo!PatrolSum(seed, index, tick) + 3
<1> DEFINE n == seed + tick + index * 17
           M == UintMax + 1
           q == n \div M
           r == n % M
<1>1. n \in Int /\ seed + (tick + 3) + index * 17 = n + 3
  OBVIOUS
<1>2. M \in Nat /\ M >= 4
  BY ScenarioAssumption
<1>3. /\ Geo!PatrolSum(seed, index, tick) = r
      /\ Geo!PatrolSum(seed, index, tick + 3) = (n + 3) % M
  BY <1>1 DEF Geo!PatrolSum
<1> HIDE DEF n, M
<1>4. r \in 0 .. M - 1 /\ q \in Int /\ n = (M * q) + r
  BY <1>1, <1>2
<1> HIDE DEF q, r
<1>5. ASSUME NEW k \in Int, NEW x \in 0 .. M - 1, n + 3 = (M * k) + x
      PROVE  (n + 3) % M = x
  BY <1>2, <1>5
<1>6. CASE r + 3 < M
  <2>1. n + 3 = (M * q) + (r + 3) /\ r + 3 \in 0 .. M - 1
    BY <1>1, <1>2, <1>4, <1>6
  <2> QED
    BY <1>3, <1>4, <1>5, <2>1
<1>7. CASE r + 3 >= M
  <2>1. n + 3 = (M * (q + 1)) + (r + 3 - M) /\ r + 3 - M \in 0 .. M - 1 /\ q + 1 \in Int
    BY <1>1, <1>2, <1>4, <1>7
  <2>2. (n + 3) % M = r + 3 - M
    BY <1>5, <2>1
  <2> QED
    BY <1>2, <1>3, <1>4, <2>2
<1> QED
  BY <1>2, <1>4, <1>6, <1>7

\* A crow posted in the centre is half a patrol later on the opposite cell.
LEMMA CrowsTurn ==
  ASSUME ArenaIsSound, NEW post \in Points, Rotate180(post, scenario.arena.size) = post,
         NEW radius \in Int, NEW seed \in Int, NEW index \in Int, NEW tick \in Int,
         Geo!PatrolSum(seed, index, tick) < Geo!PatrolSum(seed, index, tick + 3)
  PROVE  Geo!CrowPatrolPosition(post, seed, index, tick + 3, radius, post)
           = Rotate180(Geo!CrowPatrolPosition(post, seed, index, tick, radius, post),
                       scenario.arena.size)
<1> DEFINE Turn(c) == Rotate180(c, scenario.arena.size)
           z == Geo!PatrolSum(seed, index, tick)
           here == Tries(post, radius, z)
           there == Tries(post, radius, z + 3)
<1>1. /\ Geo!CrowPatrolPosition(post, seed, index, tick, radius, post)
           = IF here = {} THEN post ELSE Try(post, z, FirstOf(here))
      /\ Geo!CrowPatrolPosition(post, seed, index, tick + 3, radius, post)
           = IF there = {} THEN post ELSE Try(post, z + 3, FirstOf(there))
  <2>1. Len(Geo!PatrolOffsets) = 6
    BY DEF Geo!PatrolOffsets
  <2>2. \A t : Geo!CrowPatrolPosition(post, seed, index, t, radius, post)
                 = IF Tries(post, radius, Geo!PatrolSum(seed, index, t)) = {} THEN post
                   ELSE Try(post, Geo!PatrolSum(seed, index, t),
                            FirstOf(Tries(post, radius, Geo!PatrolSum(seed, index, t))))
    BY <2>1 DEF Geo!CrowPatrolPosition, Tries, Try, IsFine, FirstOf
  <2>3. Geo!PatrolSum(seed, index, tick + 3) = z + 3
    BY PatrolSumsGrow
  <2> QED
    BY <2>2, <2>3
<1>2. z \in Int
  BY PatrolSumsGrow
<1> HIDE DEF z
<1>3. ASSUME NEW k \in 0 .. 5
      PROVE  Try(post, z, k) \in Points /\ Try(post, z + 3, k) = Turn(Try(post, z, k))
  <2> DEFINE o == Geo!PatrolOffsets[(((z % 6) + k) % 6) + 1]
             t == Geo!PatrolOffsets[((((z + 3) % 6) + k) % 6) + 1]
             w == scenario.arena.size[1]
             h == scenario.arena.size[2]
  <2>1. o[1] \in Int /\ o[2] \in Int /\ t = <<-o[1], -o[2]>>
    BY <1>2, OffsetsTurn
  <2>2. /\ Try(post, z, k) = <<post[1] + o[1], post[2] + o[2]>>
        /\ Try(post, z + 3, k) = <<post[1] + t[1], post[2] + t[2]>>
        /\ Turn(<<post[1] + o[1], post[2] + o[2]>>)
             = <<w - 1 - (post[1] + o[1]), h - 1 - (post[2] + o[2])>>
        /\ post = <<w - 1 - post[1], h - 1 - post[2]>>
    BY DEF Try, Rotate180
  <2>3. w \in Int /\ h \in Int /\ post[1] \in Int /\ post[2] \in Int
    BY PointParts DEF ArenaIsSound
  <2> HIDE DEF o, t, w, h
  <2>4. post[1] = w - 1 - post[1] /\ post[2] = h - 1 - post[2]
    BY <2>2
  <2> DEFINE x == post[1]
             y == post[2]
             a == o[1]
             b == o[2]
  <2>5. x \in Int /\ y \in Int /\ a \in Int /\ b \in Int /\ x = w - 1 - x /\ y = h - 1 - y
    BY <2>1, <2>3, <2>4
  <2>6. /\ Try(post, z, k) = <<x + a, y + b>>
        /\ Try(post, z + 3, k) = <<x + (-a), y + (-b)>>
        /\ Turn(<<x + a, y + b>>) = <<w - 1 - (x + a), h - 1 - (y + b)>>
    BY <2>1, <2>2
  <2> HIDE DEF x, y, a, b
  <2>7. x + (-a) = w - 1 - (x + a) /\ y + (-b) = h - 1 - (y + b)
    BY <2>3, <2>5
  <2>8. <<x + a, y + b>> \in Points
    BY <2>5 DEF Points
  <2> QED
    BY <2>6, <2>7, <2>8
<1>4. ASSUME NEW c \in Points
      PROVE  IsFine(post, radius, Turn(c)) <=> IsFine(post, radius, c)
  <2>1. /\ Turn(c) \in Points /\ Turn(Turn(c)) = c
        /\ Turn(c) \in Geo!Cell <=> c \in Geo!Cell
        /\ Turn(c) \in Elements(scenario.arena.obstacles)
             <=> c \in Elements(scenario.arena.obstacles)
    BY CellsTurn
  <2>2. Turn(c) = post <=> c = post
    BY <2>1
  <2>3. /\ Geo!Centre(c) \in Points /\ Geo!Centre(post) \in Points
        /\ Geo!Centre(Turn(c)) = View(Geo!Centre(c))
        /\ Geo!Centre(post) = View(Geo!Centre(post))
    BY ViewCentres
  <2>4. Geo!DistanceSquared(Geo!Centre(Turn(c)), Geo!Centre(post))
          = Geo!DistanceSquared(Geo!Centre(c), Geo!Centre(post))
    BY <2>3, ViewTurns
  <2> QED
    BY <2>1, <2>2, <2>4 DEF IsFine, Geo!Within
<1>5. there = here
  <2>1. \A k \in 0 .. 5 : IsFine(post, radius, Try(post, z + 3, k))
                            <=> IsFine(post, radius, Try(post, z, k))
    BY <1>3, <1>4
  <2> QED
    BY <2>1 DEF Tries
<1>6. here \subseteq 0 .. 5
  BY DEF Tries
<1> HIDE DEF here, there
<1>7. CASE here = {}
  BY <1>1, <1>5, <1>7
<1>8. CASE here # {}
  <2>1. FirstOf(here) \in 0 .. 5
    BY <1>6, <1>8, FirstTry
  <2> QED
    BY <1>1, <1>3, <1>5, <1>8, <2>1
<1> QED
  BY <1>7, <1>8

(***************************************************************************)
(* Playing.                                                                *)
(***************************************************************************)
\* The match that is played is one the engine has accepted, in an arena that was checked; a
\* hero stands in a place.
Plays == stage = "Playing" => ArenaIsSound /\ EngineAccepts(MatchConfig) /\ pos \in Points

\* What was accepted is sound to play in.
LEMMA AcceptedArenaIsSound ==
  ASSUME NEW cutOff, file \in FileRecord, Accepts(file, cutOff),
         scenario = ParsedScenario(file, cutOff)
  PROVE  ArenaIsSound
<1> DEFINE arena == ParsedArena(file, cutOff)
           enabled == EnabledHazards(file)
<1>1. scenario.arena = arena /\ scenario.speed = file.players.speedPerTick
  BY DEF ParsedScenario
<1>2. ValidFields(file) /\ ValidateArena(arena)
  BY DEF Accepts
<1>3. /\ arena.size = <<file.map.width, file.map.height>>
      /\ arena.redSpawn = file.players.redSpawn /\ arena.blueSpawn = file.players.blueSpawn
      /\ arena.objective = file.map.objectiveSpawn /\ arena.obstacles = file.map.obstacles
      /\ arena.hazards = ParsedHazards(file, cutOff)
  BY DEF ParsedArena
<1> HIDE DEF arena
<1>4. /\ arena.size[1] \in Nat \ {0} /\ arena.size[2] \in Nat \ {0}
      /\ file.players.speedPerTick \in Nat \ {0}
  BY <1>2, <1>3, AcceptedFields
<1>5. arena.redSpawn \in Points /\ arena.blueSpawn \in Points
  <2>1. Has(file.players, {"redSpawn", "blueSpawn", "speedPerTick"})
    BY <1>2 DEF ValidFields, ValidPlayers
  <2>2. /\ file.players # Absent /\ file.players.redSpawn # Absent
        /\ file.players.blueSpawn # Absent
    BY <2>1 DEF Has
  <2> QED
    BY <1>3, <2>2 DEF FileRecord, Optional, Place, Points
<1>6. /\ arena.objective \in Points /\ Elements(arena.obstacles) \subseteq Points
  <2>1. /\ Has(file.map, {"width", "height", "redBase", "blueBase", "objectiveSpawn", "obstacles"})
        /\ Absent \notin Elements(file.map.obstacles)
    BY <1>2 DEF ValidFields, ValidMap
  <2>2. file.map # Absent /\ file.map.objectiveSpawn # Absent /\ file.map.obstacles # Absent
    BY <2>1 DEF Has
  <2>3. file.map.objectiveSpawn \in Place /\ file.map.obstacles \in Seq(Optional(Place))
    BY <2>2 DEF FileRecord, Optional
  <2>4. Elements(file.map.obstacles) \subseteq Optional(Place)
    BY <2>3 DEF Elements
  <2> QED
    BY <1>3, <2>1, <2>3, <2>4 DEF Optional, Place, Points
<1>7. /\ Rotate180(arena.objective, arena.size) = arena.objective
      /\ ObstaclesMirrored(arena) /\ SpawnsMirrored(arena)
  BY <1>2 DEF ValidateArena, ObjectiveInTheCentre
<1>8. ASSUME NEW i \in DOMAIN arena.hazards
      PROVE  /\ i \in Int
             /\ arena.hazards[i].cell \in Points
             /\ arena.hazards[i].rules.seed \in Int /\ arena.hazards[i].patrolRadius \in Int
  <2> DEFINE hazard == enabled[i]
  <2>1. arena.hazards[i] = ParsedHazard(hazard, file.rules.tickRate, cutOff) /\ i \in DOMAIN enabled
    BY <1>3, <1>8 DEF ParsedHazards
  <2>2. /\ file.hazards \in Seq(HazardRecord)
        /\ \A h \in Elements(file.hazards) : Enabled(h) => ValidHazardFields(h)
    BY <1>2, AcceptedFields
  <2>3. /\ hazard \in HazardRecord /\ hazard \in Elements(file.hazards) /\ Enabled(hazard)
        /\ enabled \in Seq(HazardRecord)
    BY <2>1, <2>2, EnabledHazardsAre
  <2>4. i \in Int
    BY <2>1, <2>3
  <2> HIDE DEF hazard
  <2>5. ValidHazardFields(hazard)
    BY <2>2, <2>3
  <2>6. hazard.cell # Absent
    BY <2>5 DEF ValidHazardFields, Has, HazardFields
  <2>7. hazard.cell \in Points /\ Given(hazard.seed, 0) \in Int
    BY <2>3, <2>6 DEF HazardRecord, Optional, Place, Points, Given
  <2>8. Given(hazard.patrolRadius, DefaultPatrolRadius) \in Int
    BY <2>3, QuarterCells DEF HazardRecord, Optional, Given, DefaultPatrolRadius
  <2> QED
    BY <2>1, <2>4, <2>7, <2>8 DEF ParsedHazard
<1> QED
  BY <1>1, <1>4, <1>5, <1>6, <1>7, <1>8 DEF ArenaIsSound

\* A match that the engine accepts has a dash of some length.
LEMMA DashesHaveALength ==
  ASSUME ArenaIsSound, EngineAccepts(MatchConfig)
  PROVE  scenario.combat.dashDistance \in Nat \ {0}
<1>1. /\ MatchConfig.combat = scenario.combat /\ MatchConfig.size = scenario.arena.size
      /\ DashFits(MatchConfig.combat.dashDistance, MatchConfig.size)
  BY DEF MatchConfig, EngineAccepts
<1> DEFINE w == scenario.arena.size[1]
           h == scenario.arena.size[2]
<1>2. scenario.combat.dashDistance \in 1 .. Larger(w, h) * Unit
  BY <1>1 DEF DashFits
<1>3. w \in Nat /\ h \in Nat
  BY DEF ArenaIsSound
<1> HIDE DEF w, h
<1>4. Larger(w, h) * Unit \in Nat
  BY <1>3, QuarterCells DEF Larger
<1> QED
  BY <1>2, <1>4

\* Every step keeps that.
LEMMA StepPlays == Started /\ Plays /\ [Next]_vars => Plays'
<1> SUFFICES ASSUME Started, Plays, [Next]_vars PROVE Plays'
  OBVIOUS
<1>1. CASE Refuse \/ Load \/ JoinThrows
  <2>1. stage' # "Playing"
    BY <1>1 DEF Refuse, Load, JoinThrows
  <2> QED
    BY <2>1 DEF Plays
<1>2. CASE Join
  <2>1. PICK cutOff \in BOOLEAN : Accepts(file, cutOff) /\ scenario = ParsedScenario(file, cutOff)
    BY <1>2 DEF Join, Started
  <2>2. ArenaIsSound
    BY <2>1, AcceptedArenaIsSound DEF Started
  <2>3. /\ EngineAccepts(MatchConfig) /\ scenario' = scenario
        /\ \E spawn \in MatchConfig.spawns : pos' = Geo!Centre(spawn)
    BY <1>2 DEF Join
  <2>4. MatchConfig.spawns \subseteq Points
    BY <2>2 DEF MatchConfig, ArenaIsSound
  <2>5. pos' \in Points
    BY <2>2, <2>3, <2>4, ViewCentres
  <2>6. ArenaIsSound' /\ MatchConfig' = MatchConfig
    BY <2>2, <2>3 DEF ArenaIsSound, MatchConfig
  <2> QED
    BY <2>3, <2>5, <2>6 DEF Plays
<1>3. ASSUME Walk \/ Dash
      PROVE  Plays'
  <2>1. /\ stage = "Playing" /\ UNCHANGED <<stage, scenario>>
        /\ \E d \in Geo!Axis : pos' \in {Geo!StepFrom(pos, d, FALSE, pos), Geo!DashFrom(pos, d)}
    BY <1>3 DEF Walk, Dash, Moves
  <2>2. ArenaIsSound /\ EngineAccepts(MatchConfig) /\ pos \in Points
    BY <2>1 DEF Plays
  <2>3. pos' \in Points
    BY <2>1, <2>2, DashesHaveALength, ViewSteps, ViewDashes
  <2>4. ArenaIsSound' /\ MatchConfig' = MatchConfig
    BY <2>1, <2>2 DEF ArenaIsSound, MatchConfig
  <2> QED
    BY <2>1, <2>2, <2>3, <2>4 DEF Plays
<1>4. CASE UNCHANGED vars
  BY <1>4 DEF vars, Plays, ArenaIsSound, MatchConfig
<1> QED
  BY <1>1, <1>2, <1>3, <1>4 DEF Next

\* A match that can be played is the same for both teams.
LEMMA PlaysTheSame == Plays => RedPlaysTheSameGame
<1> DEFINE arena == scenario.arena
           sum(i, t) == Geo!PatrolSum(arena.hazards[i].rules.seed, i - 1, t)
           at(i, t) == Geo!CrowPatrolPosition(arena.hazards[i].cell, arena.hazards[i].rules.seed,
                                              i - 1, t, arena.hazards[i].patrolRadius,
                                              arena.objective)
<1> SUFFICES ASSUME Plays, stage = "Playing" PROVE RedPlaysTheSameGame
  BY DEF RedPlaysTheSameGame
<1>1. /\ ArenaIsSound /\ scenario.combat.dashDistance \in Nat \ {0} /\ pos \in Points
  BY DashesHaveALength DEF Plays
<1>2. ASSUME NEW d \in Geo!Axis
      PROVE  /\ View(Geo!StepFrom(View(pos), Turned(d), FALSE, View(pos)))
                   = Geo!StepFrom(pos, d, FALSE, pos)
             /\ View(Geo!DashFrom(View(pos), Turned(d))) = Geo!DashFrom(pos, d)
  BY <1>1, ViewSteps, ViewDashes
<1>3. ToPlayerView(arena.redSpawn, "Red", arena.size) = arena.blueSpawn
  BY <1>1 DEF ArenaIsSound, SpawnsMirrored, ToPlayerView
<1>4. ASSUME NEW i \in DOMAIN arena.hazards, arena.hazards[i].cell = arena.objective,
             NEW t \in WatchedTicks, sum(i, t) < sum(i, t + 3)
      PROVE  at(i, t + 3) = ToPlayerView(at(i, t), "Red", arena.size)
  <2>1. /\ i - 1 \in Int /\ arena.hazards[i].rules.seed \in Int
        /\ arena.hazards[i].patrolRadius \in Int
        /\ arena.objective \in Points /\ Rotate180(arena.objective, arena.size) = arena.objective
        /\ t \in Int
    BY <1>1, ServerStartAssumption DEF ArenaIsSound
  <2>2. at(i, t + 3) = Rotate180(at(i, t), arena.size)
    BY <1>1, <1>4, <2>1, CrowsTurn
  <2> QED
    BY <2>2 DEF ToPlayerView
<1> QED
  BY <1>2, <1>3, <1>4 DEF RedPlaysTheSameGame, Turned

(***************************************************************************)
(* In whichever arena that was accepted, with any obstacles, any speeds    *)
(* and any distances, Red plays the game that Blue plays: whatever a hero  *)
(* does at any place it can come to shows on Red's screen what it would on *)
(* Blue's, and a crow in the centre favours neither, whatever its seed and *)
(* at whatever ticks it is looked at, but where its sum wraps              *)
(* (validateArenaConfig, inputDirectionToWorld, collisionSafeTarget,       *)
(* crowPatrolPosition).                                                    *)
(***************************************************************************)
THEOREM RedAlwaysPlaysTheSameGame == Spec => []RedPlaysTheSameGame
<1>1. Init => Plays
  BY DEF Init, Plays
<1> QED
  BY <1>1, InitStarted, StepStarted, StepPlays, PlaysTheSame, PTL DEF Spec

(***************************************************************************)
(* What lies on the way.                                                   *)
(***************************************************************************)
\* A place is clear when a hero in it overlaps no obstacle.
Clear(p) ==
  \A o \in Elements(scenario.arena.obstacles) :
    Geo!DistanceSquared(p, Geo!Centre(o)) >= Geo!BlockedDistance * Geo!BlockedDistance

\* Squares keep the order of lengths.
LEMMA SquaresGrow ==
  ASSUME NEW a \in Nat, NEW b \in Int, a <= b \/ a <= -b
  PROVE  a * a <= b * b
<1>1. ASSUME NEW c \in Nat, a <= c PROVE a * a <= c * c
  <2>1. CASE a = 0
    <3>1. a * a = 0 /\ c * c >= 0
      BY <2>1
    <3> QED
      BY <3>1
  <2>2. CASE a # 0
    <3>1. a \in Nat \ {0} /\ c \in Nat \ {0}
      BY <1>1, <2>2
    <3>2. a * a <= a * c /\ c * a <= c * c
      BY <1>1, <3>1, ProductsInOrder
    <3>3. a * c = c * a /\ a * a \in Int /\ a * c \in Int /\ c * c \in Int
      BY <3>1
    <3> QED
      BY <3>2, <3>3
  <2> QED
    BY <2>1, <2>2
<1>2. CASE a <= b
  BY <1>1, <1>2
<1>3. CASE a <= -b
  <2>1. a * a <= (-b) * (-b)
    BY <1>1, <1>3
  <2>2. (-b) * (-b) = b * b
    OBVIOUS
  <2> QED
    BY <2>1, <2>2
<1> QED
  BY <1>2, <1>3

\* No place of a segment is nearer than the one it is clamped to.
LEMMA ClampIsNearest ==
  ASSUME NEW x \in Int, NEW a \in Int, NEW b \in Int, NEW y \in Between(a, b)
  PROVE  (x - Geo!Clamp(x, a, b)) * (x - Geo!Clamp(x, a, b)) <= (y - x) * (y - x)
<1> DEFINE low == IF a < b THEN a ELSE b
           high == IF a < b THEN b ELSE a
           c == Geo!Clamp(x, a, b)
<1>1. y \in Int /\ low \in Int /\ high \in Int /\ low <= y /\ y <= high
  BY DEF Between, Larger
<1>2. c = IF x < low THEN low ELSE IF x > high THEN high ELSE x
  BY DEF Geo!Clamp
<1> HIDE DEF low, high, c
<1>3. CASE x < low
  <2>1. c = low /\ c - x \in Nat /\ c - x <= y - x /\ y - x \in Int
    BY <1>1, <1>2, <1>3
  <2>2. (c - x) * (c - x) <= (y - x) * (y - x)
    BY <2>1, SquaresGrow
  <2>3. (x - c) * (x - c) = (c - x) * (c - x)
    BY <1>1, <2>1
  <2> QED
    BY <2>2, <2>3 DEF c
<1>4. CASE x > high
  <2>1. c = high /\ x - c \in Nat /\ x - c <= -(y - x) /\ y - x \in Int
    BY <1>1, <1>2, <1>4
  <2> QED
    BY <2>1, SquaresGrow DEF c
<1>5. CASE ~(x < low) /\ ~(x > high)
  <2>1. x - c = 0 /\ y - x \in Int
    BY <1>1, <1>2, <1>5
  <2>2. (x - c) * (x - c) = 0
    BY <2>1
  <2>3. \A n \in Int : n * n >= 0
    OBVIOUS
  <2> QED
    BY <2>1, <2>2, <2>3 DEF c
<1> QED
  BY <1>3, <1>4, <1>5

\* Every place on a way that meets no obstacle is clear.
LEMMA FreeWaysAreClear ==
  ASSUME ArenaIsSound, NEW a \in Points, NEW b \in Points, ~Geo!CollidesWithObstacle(a, b),
         NEW y \in Passed(a, b)
  PROVE  Clear(y)
<1> DEFINE B == Geo!BlockedDistance * Geo!BlockedDistance
           O == Elements(scenario.arena.obstacles)
<1>1. /\ Clear(y) <=> \A o \in O : Geo!DistanceSquared(y, Geo!Centre(o)) >= B
      /\ \A o \in O : ~(Geo!SegmentDistanceSquared(Geo!Centre(o), a, b) < B)
  BY DEF Clear, Geo!CollidesWithObstacle
<1>2. O \subseteq Points /\ B \in Int
  BY QuarterCells DEF ArenaIsSound, Geo!BlockedDistance
<1> HIDE DEF B, O
<1>3. ASSUME NEW o \in O PROVE Geo!DistanceSquared(y, Geo!Centre(o)) >= B
  <2> DEFINE c == Geo!Centre(o)
             u == c[1]
             v == c[2]
             m == Geo!Clamp(u, a[1], b[1])
             n == Geo!Clamp(v, a[2], b[2])
             s == y[1]
             t == y[2]
  <2>1. c \in Points
    BY <1>2, ViewCentres
  <2>2. /\ u \in Int /\ v \in Int
        /\ a[1] \in Int /\ a[2] \in Int /\ b[1] \in Int /\ b[2] \in Int
    BY <2>1, PointParts
  <2>3. s \in Between(a[1], b[1]) /\ t \in Between(a[2], b[2])
    BY DEF Passed
  <2>4. s \in Int /\ t \in Int
    BY <2>2, <2>3 DEF Between, Larger
  <2>5. m \in Int /\ n \in Int
    BY <2>2, ClampTurns
  <2>6. Geo!SegmentDistanceSquared(c, a, b) = (u - m) * (u - m) + (v - n) * (v - n)
    BY DEF Geo!SegmentDistanceSquared, Geo!DistanceSquared
  <2>7. Geo!DistanceSquared(y, c) = (s - u) * (s - u) + (t - v) * (t - v)
    BY DEF Geo!DistanceSquared
  <2>8. ~(Geo!SegmentDistanceSquared(c, a, b) < B)
    BY <1>1
  <2>9. (u - m) * (u - m) <= (s - u) * (s - u) /\ (v - n) * (v - n) <= (t - v) * (t - v)
    BY <2>2, <2>3, ClampIsNearest
  <2> HIDE DEF c, u, v, m, n, s, t
  <2>10. /\ (u - m) * (u - m) \in Int /\ (s - u) * (s - u) \in Int
         /\ (v - n) * (v - n) \in Int /\ (t - v) * (t - v) \in Int
    BY <2>2, <2>4, <2>5
  <2>11. Geo!DistanceSquared(y, c) >= B
    BY <1>2, <2>6, <2>7, <2>8, <2>9, <2>10
  <2> QED
    BY <2>11 DEF c
<1> QED
  BY <1>1, <1>3

\* A way is its first part and the rest, and leads from its beginning to its end.
LEMMA WaysJoin ==
  ASSUME NEW p \in Points, NEW d \in Geo!Axis, NEW m \in Nat, NEW n \in Nat, m <= n
  PROVE  /\ Passed(p, Geo!Shift(p, d, n))
              \subseteq Passed(p, Geo!Shift(p, d, m))
                          \cup Passed(Geo!Shift(p, d, m), Geo!Shift(p, d, n))
         /\ Geo!Shift(p, d, n) \in Passed(p, Geo!Shift(p, d, n))
         /\ Geo!Shift(p, d, 0) = p /\ Passed(p, p) = {p}
<1> DEFINE x == p[1]
           y == p[2]
<1>1. x \in Int /\ y \in Int /\ p = <<x, y>>
  BY PointParts
<1>2. /\ \A k : Geo!Shift(p, d, k) = <<x + d[1] * k, y + d[2] * k>>
      /\ \A a, b, s, t : Passed(<<a, b>>, <<s, t>>) = Between(a, s) \X Between(b, t)
  BY DEF Geo!Shift, Passed
<1> HIDE DEF x, y
<1>3. d \in {<<1, 0>>, <<-1, 0>>, <<0, 1>>, <<0, -1>>}
  BY DEF Geo!Axis
<1>4. ASSUME NEW z \in Int
      PROVE  /\ Between(z, z) = {z}
             /\ Between(z, z + n) \subseteq Between(z, z + m) \cup Between(z + m, z + n)
             /\ Between(z, z - n) \subseteq Between(z, z - m) \cup Between(z - m, z - n)
             /\ z + n \in Between(z, z + n) /\ z - n \in Between(z, z - n)
  BY DEF Between, Larger
<1>5. Passed(p, p) = {p}
  BY <1>1, <1>2, <1>4
<1> DEFINE q == Geo!Shift(p, d, m)
           r == Geo!Shift(p, d, n)
<1>6. CASE d = <<1, 0>>
  <2>1. q = <<x + m, y>> /\ r = <<x + n, y>> /\ Geo!Shift(p, d, 0) = p
    BY <1>1, <1>2, <1>6
  <2>2. /\ Passed(p, r) = Between(x, x + n) \X Between(y, y)
        /\ Passed(p, q) = Between(x, x + m) \X Between(y, y)
        /\ Passed(q, r) = Between(x + m, x + n) \X Between(y, y)
    BY <1>1, <1>2, <2>1
  <2> HIDE DEF q, r
  <2>3. Between(x, x) = {x} /\ Between(y, y) = {y}
    BY <1>1, <1>4
  <2>4. Passed(p, r) \subseteq Passed(p, q) \cup Passed(q, r)
    BY <1>1, <1>4, <2>2, <2>3
  <2>5. r \in Passed(p, r)
    BY <1>1, <1>4, <2>1, <2>2, <2>3
  <2> QED
    BY <1>5, <2>1, <2>4, <2>5 DEF q, r
<1>7. CASE d = <<-1, 0>>
  <2>1. q = <<x - m, y>> /\ r = <<x - n, y>> /\ Geo!Shift(p, d, 0) = p
    BY <1>1, <1>2, <1>7
  <2>2. /\ Passed(p, r) = Between(x, x - n) \X Between(y, y)
        /\ Passed(p, q) = Between(x, x - m) \X Between(y, y)
        /\ Passed(q, r) = Between(x - m, x - n) \X Between(y, y)
    BY <1>1, <1>2, <2>1
  <2> HIDE DEF q, r
  <2>3. Between(x, x) = {x} /\ Between(y, y) = {y}
    BY <1>1, <1>4
  <2>4. Passed(p, r) \subseteq Passed(p, q) \cup Passed(q, r)
    BY <1>1, <1>4, <2>2, <2>3
  <2>5. r \in Passed(p, r)
    BY <1>1, <1>4, <2>1, <2>2, <2>3
  <2> QED
    BY <1>5, <2>1, <2>4, <2>5 DEF q, r
<1>8. CASE d = <<0, 1>>
  <2>1. q = <<x, y + m>> /\ r = <<x, y + n>> /\ Geo!Shift(p, d, 0) = p
    BY <1>1, <1>2, <1>8
  <2>2. /\ Passed(p, r) = Between(x, x) \X Between(y, y + n)
        /\ Passed(p, q) = Between(x, x) \X Between(y, y + m)
        /\ Passed(q, r) = Between(x, x) \X Between(y + m, y + n)
    BY <1>1, <1>2, <2>1
  <2> HIDE DEF q, r
  <2>3. Between(x, x) = {x} /\ Between(y, y) = {y}
    BY <1>1, <1>4
  <2>4. Passed(p, r) \subseteq Passed(p, q) \cup Passed(q, r)
    BY <1>1, <1>4, <2>2, <2>3
  <2>5. r \in Passed(p, r)
    BY <1>1, <1>4, <2>1, <2>2, <2>3
  <2> QED
    BY <1>5, <2>1, <2>4, <2>5 DEF q, r
<1>9. CASE d = <<0, -1>>
  <2>1. q = <<x, y - m>> /\ r = <<x, y - n>> /\ Geo!Shift(p, d, 0) = p
    BY <1>1, <1>2, <1>9
  <2>2. /\ Passed(p, r) = Between(x, x) \X Between(y, y - n)
        /\ Passed(p, q) = Between(x, x) \X Between(y, y - m)
        /\ Passed(q, r) = Between(x, x) \X Between(y - m, y - n)
    BY <1>1, <1>2, <2>1
  <2> HIDE DEF q, r
  <2>3. Between(x, x) = {x} /\ Between(y, y) = {y}
    BY <1>1, <1>4
  <2>4. Passed(p, r) \subseteq Passed(p, q) \cup Passed(q, r)
    BY <1>1, <1>4, <2>2, <2>3
  <2>5. r \in Passed(p, r)
    BY <1>1, <1>4, <2>1, <2>2, <2>3
  <2> QED
    BY <1>5, <2>1, <2>4, <2>5 DEF q, r
<1> QED
  BY <1>3, <1>6, <1>7, <1>8, <1>9

\* Later parts of a dash are further.
LEMMA DashPartsGrow ==
  ASSUME scenario.combat.dashDistance \in Nat \ {0}, NEW k \in Nat
  PROVE  DashPart(k) \in Nat /\ DashPart(k) <= DashPart(k + 1)
<1> DEFINE n == scenario.combat.dashDistance
           s == DashSteps
           a == k * n
           b == (k + 1) * n
<1>1. n \in Nat /\ s \in Nat \ {0}
  BY DashParts
<1>2. DashPart(k) = a \div s /\ DashPart(k + 1) = b \div s
  BY DEF DashPart
<1> HIDE DEF n, s
<1>3. b = a + n /\ a \in Nat /\ b \in Nat
  BY <1>1
<1> HIDE DEF a, b
<1>4. /\ a \div s \in Nat /\ s * (a \div s) <= a
      /\ b \div s \in Nat /\ b < s * (b \div s) + s
  BY <1>1, <1>3, SharesFit
<1> DEFINE u == a \div s
           v == b \div s
<1>5. u \in Nat /\ v \in Nat /\ s * u <= a /\ b < s * v + s
  BY <1>4
<1> HIDE DEF u, v
<1>6. ~(v + 1 <= u)
  <2>1. s * (v + 1) = s * v + s /\ s * (v + 1) \in Int /\ s * u \in Int
    BY <1>1, <1>5
  <2>2. ~(s * (v + 1) <= s * u)
    BY <1>1, <1>3, <1>5, <2>1
  <2> QED
    BY <1>1, <1>5, <2>2, ProductsInOrder
<1>7. u <= v
  BY <1>5, <1>6
<1> QED
  BY <1>2, <1>4, <1>7 DEF u, v

\* The parts that can be gone are a way that is clear.
LEMMA PartsAreClear ==
  ASSUME ArenaIsSound, scenario.combat.dashDistance \in Nat \ {0},
         NEW p \in Points, NEW d \in Geo!Axis, Clear(p),
         NEW last \in 0 .. DashSteps, \A j \in 1 .. last : j \in DashFree(p, d)
  PROVE  \A y \in Passed(p, DashPlace(p, d, last)) : Clear(y)
<1> DEFINE IsClear(k) == \A y \in Passed(p, DashPlace(p, d, k)) : Clear(y)
           S == {k \in Nat : k <= last => IsClear(k)}
<1>1. DashSteps \in Nat /\ DashPart(0) = 0 /\ last \in Nat
  BY DashParts
<1>2. IsClear(0)
  <2>1. DashPlace(p, d, 0) = Geo!Shift(p, d, 0)
    BY <1>1 DEF DashPlace
  <2>2. Passed(p, DashPlace(p, d, 0)) = {p}
    <3>1. 0 \in Nat /\ 0 <= 0
      OBVIOUS
    <3> QED
      BY <2>1, <3>1, WaysJoin
  <2> QED
    BY <2>2
<1>3. ASSUME NEW k \in Nat, k + 1 <= last, IsClear(k) PROVE IsClear(k + 1)
  <2> DEFINE a == DashPlace(p, d, k)
             b == DashPlace(p, d, k + 1)
  <2>1. k + 1 \in DashFree(p, d)
    BY <1>1, <1>3
  <2>2. ~Geo!CollidesWithObstacle(a, b)
    <3>1. ~Geo!CollidesWithObstacle(DashPlace(p, d, k + 1 - 1), b)
      BY <2>1 DEF DashFree
    <3>2. k + 1 - 1 = k
      OBVIOUS
    <3> QED
      BY <3>1, <3>2
  <2>3. /\ DashPart(k) \in Nat /\ DashPart(k + 1) \in Nat /\ DashPart(k) <= DashPart(k + 1)
    <3>1. k + 1 \in Nat
      OBVIOUS
    <3> QED
      BY <3>1, DashPartsGrow
  <2>4. a \in Points /\ b \in Points
    BY <2>3, ViewShifts DEF DashPlace
  <2>5. Passed(p, b) \subseteq Passed(p, a) \cup Passed(a, b)
    BY <2>3, WaysJoin DEF DashPlace
  <2>6. \A y \in Passed(a, b) : Clear(y)
    BY <2>2, <2>4, FreeWaysAreClear
  <2> HIDE DEF a, b
  <2>7. \A y \in Passed(p, b) : Clear(y)
    BY <1>3, <2>5, <2>6 DEF a
  <2> QED
    BY <2>7 DEF b
<1> HIDE DEF IsClear
<1>4. 0 \in S /\ \A k \in Nat : k \in S => k + 1 \in S
  BY <1>2, <1>3
<1> HIDE DEF S
<1>5. last \in S
  BY <1>1, <1>4, SetNatInduction
<1> QED
  BY <1>5 DEF S, IsClear

\* Whatever a hero does in a clear place, its way is clear, and ends where it leads.
LEMMA MovesAreClear ==
  ASSUME ArenaIsSound, scenario.combat.dashDistance \in Nat \ {0},
         NEW p \in Points, NEW d \in Geo!Axis, Clear(p),
         NEW q \in {Geo!StepFrom(p, d, FALSE, p), Geo!DashFrom(p, d)}
  PROVE  q \in Passed(p, q) /\ \A y \in Passed(p, q) : Clear(y)
<1>1. p \in Passed(p, p) /\ \A y \in Passed(p, p) : Clear(y)
  <2>1. 0 \in Nat /\ 0 <= 0
    OBVIOUS
  <2>2. Passed(p, p) = {p}
    BY <2>1, WaysJoin
  <2> QED
    BY <2>2
<1>2. ASSUME NEW n \in Nat, ~Geo!CollidesWithObstacle(p, Geo!Shift(p, d, n)),
             q = Geo!Shift(p, d, n)
      PROVE  q \in Passed(p, q) /\ \A y \in Passed(p, q) : Clear(y)
  <2>1. q \in Points /\ q \in Passed(p, q)
    BY <1>2, ViewShifts, WaysJoin
  <2> QED
    BY <1>2, <2>1, FreeWaysAreClear
<1>3. CASE q = Geo!StepFrom(p, d, FALSE, p)
  <2>1. scenario.speed \in Nat
    BY DEF ArenaIsSound
  <2>2. \/ q = p
        \/ /\ q = Geo!Shift(p, d, scenario.speed)
           /\ ~Geo!CollidesWithObstacle(p, Geo!Shift(p, d, scenario.speed))
    BY <1>3 DEF Geo!StepFrom
  <2> QED
    BY <1>1, <1>2, <2>1, <2>2
<1>4. CASE q = Geo!DashFrom(p, d) /\ q = DashWhole(p, d)
           /\ ~Geo!CollidesWithObstacle(p, DashWhole(p, d))
  BY <1>2, <1>4 DEF DashWhole
<1>5. ASSUME NEW k, q = DashPlace(p, d, k), IsLast(k, DashSteps, DashFree(p, d))
      PROVE  q \in Passed(p, q) /\ \A y \in Passed(p, q) : Clear(y)
  <2>1. k \in 0 .. DashSteps /\ \A j \in 1 .. k : j \in DashFree(p, d)
    BY <1>5 DEF IsLast
  <2>2. k \in Nat
    BY <2>1, DashParts
  <2>3. DashPart(k) \in Nat /\ DashPart(k) <= DashPart(k)
    BY <2>2, DashPartsGrow
  <2>4. q \in Passed(p, q)
    BY <1>5, <2>3, WaysJoin DEF DashPlace
  <2> QED
    BY <1>5, <2>1, <2>4, PartsAreClear
<1>6. CASE q = Geo!DashFrom(p, d)
  BY <1>4, <1>5, <1>6, DashEnds
<1> QED
  BY <1>3, <1>6

\* The centres of two cells are a cell apart, which is more than what keeps a hero off.
LEMMA FreeCellsAreClear ==
  ASSUME ArenaIsSound, NEW s \in Points, s \notin Elements(scenario.arena.obstacles)
  PROVE  Clear(Geo!Centre(s))
<1> DEFINE B == Geo!BlockedDistance
<1>1. B \in Nat /\ B <= Unit
  BY QuarterCells DEF Geo!BlockedDistance
<1>2. B * B <= Unit * Unit /\ B * B \in Int /\ Unit * Unit \in Int
  BY <1>1, QuarterCells, SquaresGrow
<1> HIDE DEF B
<1>3. ASSUME NEW x \in Int, NEW y \in Int
      PROVE  LET z == x * Unit - y * Unit
             IN  z * z \in Nat /\ (x # y => z * z >= Unit * Unit)
  <2> DEFINE z == x * Unit - y * Unit
  <2>1. x * Unit \in Int /\ y * Unit \in Int /\ z \in Int
    BY QuarterCells
  <2>2. z * z \in Nat
    <3>1. \A n \in Int : n * n \in Nat
      OBVIOUS
    <3> HIDE DEF z
    <3> QED
      BY <2>1, <3>1
  <2>3. ASSUME x # y PROVE Unit <= z \/ Unit <= -z
    <3>1. x >= y + 1 \/ y >= x + 1
      BY <2>3
    <3>2. CASE x >= y + 1
      <4>1. Unit * (y + 1) <= Unit * x
        BY <3>2, QuarterCells, ProductsInOrder
      <4>2. Unit * (y + 1) = y * Unit + Unit /\ Unit * x = x * Unit
        BY QuarterCells
      <4> QED
        BY <2>1, <4>1, <4>2, QuarterCells
    <3>3. CASE y >= x + 1
      <4>1. Unit * (x + 1) <= Unit * y
        BY <3>3, QuarterCells, ProductsInOrder
      <4>2. Unit * (x + 1) = x * Unit + Unit /\ Unit * y = y * Unit
        BY QuarterCells
      <4> QED
        BY <2>1, <4>1, <4>2, QuarterCells
    <3> QED
      BY <3>1, <3>2, <3>3
  <2> HIDE DEF z
  <2>4. x # y => z * z >= Unit * Unit
    <3>1. ASSUME x # y PROVE Unit * Unit <= z * z
      BY <2>1, <2>3, <3>1, QuarterCells, SquaresGrow
    <3> QED
      BY <1>2, <2>2, <3>1
  <2> QED
    BY <2>2, <2>4 DEF z
<1>4. ASSUME NEW o \in Elements(scenario.arena.obstacles)
      PROVE  Geo!DistanceSquared(Geo!Centre(s), Geo!Centre(o)) >= B * B
  <2>1. o \in Points /\ o # s
    BY DEF ArenaIsSound
  <2> DEFINE u == s[1] * Unit - o[1] * Unit
             v == s[2] * Unit - o[2] * Unit
  <2>2. Geo!DistanceSquared(Geo!Centre(s), Geo!Centre(o)) = u * u + v * v
    BY DEF Geo!DistanceSquared, Geo!Centre
  <2>3. /\ s[1] \in Int /\ s[2] \in Int /\ s = <<s[1], s[2]>>
        /\ o[1] \in Int /\ o[2] \in Int /\ o = <<o[1], o[2]>>
    BY <2>1, PointParts
  <2>4. s[1] # o[1] \/ s[2] # o[2]
    BY <2>1, <2>3
  <2>5. /\ u * u \in Nat /\ (s[1] # o[1] => u * u >= Unit * Unit)
        /\ v * v \in Nat /\ (s[2] # o[2] => v * v >= Unit * Unit)
    BY <1>3, <2>3
  <2> HIDE DEF u, v
  <2> QED
    BY <1>2, <2>2, <2>4, <2>5
<1> QED
  BY <1>4 DEF Clear, B

\* Heroes stand in clear places.
StandsClear == stage = "Playing" => Clear(pos)

\* They begin in one, and every step leads to another, over none that is not.
LEMMA StepStandsClear ==
  Started /\ Plays /\ StandsClear /\ [Next]_vars
    => /\ StandsClear'
       /\ (stage = "Playing" /\ vars' # vars) => \A y \in Passed(pos, pos') : Clear(y)
<1> SUFFICES ASSUME Started, Plays, StandsClear, [Next]_vars
             PROVE  /\ StandsClear'
                    /\ (stage = "Playing" /\ vars' # vars) => \A y \in Passed(pos, pos') : Clear(y)
  OBVIOUS
<1>1. CASE Refuse \/ Load \/ JoinThrows
  <2>1. stage # "Playing" /\ stage' # "Playing"
    BY <1>1 DEF Refuse, Load, JoinThrows
  <2> QED
    BY <2>1 DEF StandsClear
<1>2. CASE Join
  <2>1. PICK cutOff \in BOOLEAN : Accepts(file, cutOff) /\ scenario = ParsedScenario(file, cutOff)
    BY <1>2 DEF Join, Started
  <2>2. ArenaIsSound
    BY <2>1, AcceptedArenaIsSound DEF Started
  <2>3. /\ stage # "Playing" /\ EngineAccepts(MatchConfig) /\ scenario' = scenario
    BY <1>2 DEF Join
  <2>4. PICK spawn \in MatchConfig.spawns : pos' = Geo!Centre(spawn)
    BY <1>2 DEF Join
  <2>5. spawn \in Points
    BY <2>2 DEF MatchConfig, ArenaIsSound
  <2>6. spawn \notin Elements(scenario.arena.obstacles)
    <3>1. Free(spawn, MatchConfig)
      BY <2>3 DEF EngineAccepts
    <3> QED
      BY <3>1 DEF Free, MatchConfig
  <2>7. Clear(pos')
    BY <2>2, <2>4, <2>5, <2>6, FreeCellsAreClear
  <2>8. Clear(pos)'
    BY <2>3, <2>7 DEF Clear
  <2> QED
    BY <2>3, <2>8 DEF StandsClear
<1>3. CASE Walk \/ Dash
  <2>1. /\ stage = "Playing" /\ UNCHANGED <<stage, scenario>>
        /\ \E d \in Geo!Axis : pos' \in {Geo!StepFrom(pos, d, FALSE, pos), Geo!DashFrom(pos, d)}
    BY <1>3 DEF Walk, Dash, Moves
  <2>2. /\ ArenaIsSound /\ pos \in Points /\ Clear(pos)
        /\ scenario.combat.dashDistance \in Nat \ {0}
    BY <2>1, DashesHaveALength DEF Plays, StandsClear
  <2>3. pos' \in Passed(pos, pos') /\ \A y \in Passed(pos, pos') : Clear(y)
    BY <2>1, <2>2, MovesAreClear
  <2>4. Clear(pos)'
    BY <2>1, <2>3 DEF Clear
  <2> QED
    BY <2>3, <2>4 DEF StandsClear
<1>4. CASE UNCHANGED vars
  BY <1>4 DEF vars, StandsClear, Clear
<1> QED
  BY <1>1, <1>2, <1>3, <1>4 DEF Next

(***************************************************************************)
(* Whatever the obstacles, the speed and the length of a dash, no place on *)
(* a hero's way overlaps an obstacle: between two ticks it goes around     *)
(* them and never through (BattleEngine::collidesWithObstacle,             *)
(* collisionSafeTarget, the movement of advanceTick).                      *)
(***************************************************************************)
THEOREM NothingIsEverCrossed == Spec => NothingIsCrossed
<1> DEFINE Uncrossed ==
      stage = "Playing" =>
        \A p \in Passed(pos, pos'), o \in Elements(scenario.arena.obstacles) :
          Geo!DistanceSquared(p, Geo!Centre(o)) >= Geo!BlockedDistance * Geo!BlockedDistance
<1>1. Init => Plays /\ StandsClear
  BY DEF Init, Plays, StandsClear
<1>2. Started /\ Plays /\ StandsClear /\ [Next]_vars => StandsClear'
  BY StepStandsClear
<1>3. Started /\ Plays /\ StandsClear /\ [Next]_vars => [Uncrossed]_vars
  BY StepStandsClear DEF Clear
<1> QED
  BY <1>1, <1>2, <1>3, InitStarted, StepStarted, StepPlays, PTL DEF Spec, NothingIsCrossed
=============================================================================
