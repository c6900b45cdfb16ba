----------------------------- MODULE ServerStart -----------------------------
(***************************************************************************)
(* From the configuration and the scenario file to the match that is       *)
(* played (main and its loaders in src/battle_server_app/main.cpp,         *)
(* MatchManager::makeMatchConfig, BattleEngine's constructor, the snapshot *)
(* and the Qt client's reading of it): five places that each check numbers *)
(* which others wrote.  Then a hero walks the arena.                       *)
(***************************************************************************)
EXTENDS ScenarioConfig

CONSTANTS
  Starts,                                      \* the [config, file] it may be started with
  EmptyBytes, ObstacleBytes, HazardBytes,      \* the size of a snapshot's parts
  MaxPayloadBytes,
  WatchedTicks                                 \* the ticks at which a crow is looked at

ASSUME ServerStartAssumption ==
  /\ \A start \in Starts : start.file \in FileRecord
  /\ EmptyBytes \in Nat /\ ObstacleBytes \in Nat /\ HazardBytes \in Nat /\ MaxPayloadBytes \in Nat
  /\ WatchedTicks \subseteq Nat
  /\ Unit % 4 = 0                                \* a dash is tried in quarters of a cell

VARIABLES
  config, file,
  stage,       \* "Off", "Refused", "Checked", "Serving", "Playing" or "Crashed"
  scenario,    \* the loaded scenario
  seen,        \* what a client makes of the snapshots: "Nothing" yet, "Arena" or "Error"
  pos          \* where a hero stands
vars == <<config, file, stage, scenario, seen, pos>>

----------------------------------------------------------------------------
(***************************************************************************)
(* The server's configuration.                                             *)
(***************************************************************************)
Largest ==
  [tickRate |-> MaxTickRate, maxConnections |-> 100000, maxMatches |-> 10000,
   maxInputCommandsPerSecond |-> 240, maxPendingWriteBytesPerSession |-> 64 * 1024 * 1024,
   maxPendingOutboundMessages |-> 4096, maxPendingCommandsPerSession |-> 4096,
   maxPendingCommandsPerMatch |-> 65536, maxCommandsPerTick |-> 4096,
   metricsLogEverySeconds |-> 3600]

ValidTransport(transport) ==
  transport.enabled => /\ transport.port \in 1 .. 65535
                       /\ transport.host # NoName
                       /\ transport.maxBytes \in 1 .. 1024 * 1024

ValidPath(websocket) == websocket.enabled => websocket.path # NoName

SafeInPublic(c) ==
  c.mode = "public"
    => /\ ~c.demoAuthEnabled
       /\ c.websocket.enabled => c.websocket.requireTls
       /\ c.telegramAuthEnabled => c.telegramBotTokenEnv # NoName

ValidConfig(c) ==
  /\ c.mode \in {"local", "public"}
  /\ \A field \in DOMAIN Largest : c[field] \in 1 .. Largest[field]
  /\ c.snapshotRate \in 1 .. c.tickRate
  /\ c.handshakeTimeoutMs > 0 /\ c.idleTimeoutMs > 0
  /\ ValidTransport(c.tcp) /\ ValidTransport(c.websocket) /\ ValidPath(c.websocket)
  /\ SafeInPublic(c)

\* backendLimitsFrom: the one limit that is not copied.
MaxCommandsPerSessionPerTick(c) == Larger(1, c.maxInputCommandsPerSecond \div c.tickRate)

\* The intervals of runTcpServer and runWebSocketServer, in milliseconds.
Interval(rate) == Larger(1, 1000 \div rate)

----------------------------------------------------------------------------
(***************************************************************************)
(* Starting.                                                               *)
(***************************************************************************)
Init ==
  /\ \E start \in Starts : config = start.config /\ file = start.file
  /\ stage = "Off" /\ scenario = Absent /\ seen = "Nothing" /\ pos = <<0, 0>>

HasListener == config.tcp.enabled \/ config.websocket.enabled

Refuse ==
  /\ stage = "Off"
  /\ \E cutOff \in BOOLEAN :
       \/ ~ValidConfig(config) \/ ~Accepts(file, cutOff)
       \/ ~config.checkOnly /\ ~HasListener
  /\ stage' = "Refused"
  /\ UNCHANGED <<config, file, scenario, seen, pos>>

\* Also for --check-config, which looks at all but the listeners.
Load ==
  /\ stage = "Off"
  /\ \E cutOff \in BOOLEAN :
       /\ ValidConfig(config) /\ Accepts(file, cutOff)
       /\ scenario' = ParsedScenario(file, cutOff)
  /\ config.checkOnly \/ HasListener
  /\ stage' = IF config.checkOnly THEN "Checked" ELSE "Serving"
  /\ UNCHANGED <<config, file, seen, pos>>

----------------------------------------------------------------------------
(***************************************************************************)
(* The match.                                                              *)
(***************************************************************************)
MatchConfig ==
  [size |-> scenario.arena.size, maxTicks |-> scenario.maxTicks, speed |-> scenario.speed,
   obstacles |-> Elements(scenario.arena.obstacles), hazards |-> scenario.arena.hazards,
   bases |-> {scenario.arena.redBase, scenario.arena.blueBase},
   objectiveSpawn |-> scenario.arena.objective, objective |-> scenario.objective,
   combat |-> scenario.combat, heroHp |-> scenario.heroHp,
   spawns |-> {scenario.arena.blueSpawn, scenario.arena.redSpawn}]

Free(cell, match) == InArena(cell, match.size) /\ cell \notin match.obstacles

DashFits(distance, size) == distance \in 1 .. Larger(size[1], size[2]) * Unit

EngineAcceptsHazard(hazard, match) ==
  /\ InArena(hazard.cell, match.size)
  /\ hazard.rules.radius > 0 /\ hazard.rules.range > 0 /\ hazard.rules.damage > 0
  /\ hazard.kind = "Crow" => hazard.patrolRadius >= Unit

\* The constructor throws unless all of this holds.
EngineAccepts(match) ==
  /\ match.size[1] > 0 /\ match.size[2] > 0
  /\ match.maxTicks > 0 /\ match.speed > 0
  /\ match.combat.attackDamage > 0 /\ match.combat.attackRange > 0
  /\ DashFits(match.combat.dashDistance, match.size)
  /\ \A cell \in match.obstacles : InArena(cell, match.size)
  /\ \A base \in match.bases : InArena(base.centre, match.size) /\ base.radius > 0
  /\ Len(match.hazards) <= match.size[1] * match.size[2]
  /\ \A hazard \in Elements(match.hazards) : EngineAcceptsHazard(hazard, match)
  /\ Free(match.objectiveSpawn, match)
  /\ match.objective.pickupRadius > 0 /\ match.objective.scoreLimit > 0
  /\ match.objective.carrierSpeedMultiplier \in 1 .. Unit
  /\ match.heroHp > 0
  /\ \A spawn \in match.spawns : Free(spawn, match)

(***************************************************************************)
(* A snapshot that does not fit in a payload is sent without its contents. *)
(***************************************************************************)
Fits ==
  EmptyBytes + Len(scenario.arena.obstacles) * ObstacleBytes
             + Len(scenario.arena.hazards) * HazardBytes <= MaxPayloadBytes

KindName == [Mine |-> "mine", Tower |-> "tower", Crow |-> "crow"]
EffectName == [Damage |-> "damage", DamageAndDropObjective |-> "damage_drop_objective"]
TriggerName == [Proximity |-> "proximity", Range |-> "range"]

SnapshotHazard(hazard) ==
  [kind |-> KindName[hazard.kind], effect |-> EffectName[hazard.rules.effect],
   trigger |-> TriggerName[hazard.rules.trigger],
   id |-> hazard.id, icon |-> hazard.rules.icon, visualId |-> hazard.rules.icon,
   radius |-> hazard.rules.radius, range |-> hazard.rules.range,
   rangeRadius |-> IF hazard.rules.trigger = "Range" THEN hazard.rules.range
                   ELSE hazard.rules.radius,
   causesDrop |-> hazard.rules.effect = "DamageAndDropObjective"]

\* parseArenaSnapshotPayload.
ClientAcceptsHazard(hazard) ==
  /\ hazard.kind \in {"mine", "tower", "crow"}
  /\ hazard.effect \in {"damage", "damage_drop_objective"}
  /\ hazard.trigger \in {"proximity", "range"}
  /\ hazard.id # NoName /\ hazard.icon # NoName /\ hazard.visualId # NoName
  /\ hazard.rangeRadius = IF hazard.trigger = "range" THEN hazard.range ELSE hazard.radius
  /\ hazard.causesDrop <=> hazard.effect = "damage_drop_objective"

ClientUnderstands ==
  /\ Fits
  /\ scenario.arena.size[1] > 0 /\ scenario.arena.size[2] > 0
  /\ \A hazard \in Elements(scenario.arena.hazards) : ClientAcceptsHazard(SnapshotHazard(hazard))

Geo == INSTANCE ArenaGeometry WITH
         Width <- scenario.arena.size[1], Height <- scenario.arena.size[2],
         Obstacles <- Elements(scenario.arena.obstacles), CollisionRadius <- 1,
         Speed <- scenario.speed, CarrierSpeed <- scenario.speed,
         DashDistance <- scenario.combat.dashDistance,
         AttackRange <- scenario.combat.attackRange,
         PickupRadius <- scenario.objective.pickupRadius

(***************************************************************************)
(* The second player joins: the engine is built, and the first tick's      *)
(* snapshot is sent by the same handler.  Nothing catches what the         *)
(* constructor throws, so the server ends.                                 *)
(***************************************************************************)
Join ==
  /\ stage = "Serving"
  /\ EngineAccepts(MatchConfig)
  /\ stage' = "Playing"
  /\ seen' = IF ClientUnderstands THEN "Arena" ELSE "Error"
  /\ \E spawn \in MatchConfig.spawns : pos' = Geo!Centre(spawn)
  /\ UNCHANGED <<config, file, scenario>>

JoinThrows ==
  /\ stage = "Serving"
  /\ ~EngineAccepts(MatchConfig)
  /\ stage' = "Crashed"
  /\ UNCHANGED <<config, file, scenario, seen, pos>>

Moves(target) ==
  /\ stage = "Playing"
  /\ pos' = target
  /\ UNCHANGED <<config, file, stage, scenario, seen>>

Walk == stage = "Playing" /\ \E d \in Geo!Axis : Moves(Geo!StepFrom(pos, d, FALSE, pos))
Dash == stage = "Playing" /\ \E d \in Geo!Axis : Moves(Geo!DashFrom(pos, d))

Next == Refuse \/ Load \/ Join \/ JoinThrows \/ Walk \/ Dash

Spec == Init /\ [][Next]_vars

----------------------------------------------------------------------------
(***************************************************************************)
(* What of a file only the engine looks at, when a match begins: numbers   *)
(* the loader takes as they are, or cuts to the width of an integer.       *)
(***************************************************************************)
OnlyTheEngineLooks(f) ==
  /\ f.combat.attackDamage <= IntMax
  /\ f.combat.attackCooldownTicks <= UintMax /\ f.combat.dashCooldownTicks <= UintMax
  /\ f.combat.attackRange > 0
  /\ DashFits(f.combat.dashDistance, <<f.map.width, f.map.height>>)
  /\ f.objective.pickupRadius > 0 /\ f.objective.carrierSpeedMultiplier \in 1 .. Unit
  /\ \A hazard \in Elements(f.hazards) : Enabled(hazard) => hazard.radius > 0 /\ hazard.range > 0

(***************************************************************************)
(* A scenario that was accepted at the start can be played, with the       *)
(* numbers that were written: the second player's joining does not end the *)
(* server, and every client understands the snapshots unless the arena is  *)
(* too full for one.  Not so for the numbers only the engine looks at      *)
(* (parseScenarioConfig, validateArenaConfig, BattleEngine::BattleEngine,  *)
(* snapshotPayload, parseArenaSnapshotPayload).                            *)
(***************************************************************************)
AcceptedScenariosPlay ==
  (stage \in {"Checked", "Serving", "Playing", "Crashed"} /\ OnlyTheEngineLooks(file))
    => /\ stage # "Crashed"
       /\ seen = "Error" => ~Fits
       /\ scenario.combat = file.combat

(***************************************************************************)
(* What is written in milliseconds and seconds is kept to half a tick, or  *)
(* to the one tick that is the least, and a match lasts its seconds: if    *)
(* the scenario's tick rate, which these are converted with, is the        *)
(* server's, which nobody compares, and divides a second, and the tick     *)
(* count is one.  Nor may clients send more than the commands per second   *)
(* that are written, but for the one per tick (msToTicks,                  *)
(* parseScenarioConfig, runTcpServer, backendLimitsFrom).                  *)
(***************************************************************************)
Kept(ms, ticks, interval) ==
  LET off == ticks * interval - ms
  IN  (ms >= 0 /\ ms <= interval * UintMax)
        => 2 * off \in -interval .. interval \/ (ticks = 1 /\ ms < interval)

WrittenTimesAreKept ==
  LET rate     == config.tickRate
      interval == Interval(rate)
      perTick  == MaxCommandsPerSessionPerTick(config)
      enabled  == EnabledHazards(file)
  IN  stage \in {"Serving", "Playing"}
        => /\ perTick = 1 \/ perTick * rate <= config.maxInputCommandsPerSecond
           /\ Interval(config.snapshotRate) >= interval
           /\ (rate = file.rules.tickRate /\ interval * rate = 1000)
                => /\ Kept(file.objective.pickupLockMs, scenario.objective.pickupLockTicks, interval)
                   /\ Kept(file.objective.captureRespawnDelayMs, scenario.objective.respawnTicks,
                           interval)
                   /\ \A i \in DOMAIN enabled :
                        enabled[i].cooldownTicks = Absent
                          => Kept(enabled[i].cooldownMs,
                                  scenario.arena.hazards[i].rules.cooldownTicks, interval)
                   /\ scenario.maxTicks * interval = 1000 * file.rules.timeLimitSeconds

\* A position as Red's client shows it.
View(p) ==
  <<(scenario.arena.size[1] - 1) * Unit - p[1], (scenario.arena.size[2] - 1) * Unit - p[2]>>

(***************************************************************************)
(* Neither team has the better side: what Red's client shows, and what a   *)
(* direction entered there does, is exactly what Blue has.  A hero at any  *)
(* place it can come to moves and dashes on Red's screen as a hero in the  *)
(* same place of Blue's; and a crow posted in the centre is, half a patrol *)
(* later, where the other team sees it now, also when obstacles close part *)
(* of its round.  The one exception are the three ticks in which the sum   *)
(* of its seed, its place and the tick wraps: 2^32 is no multiple of the   *)
(* six cells of a round, so the crow leaps there.  Two crows with mirrored *)
(* posts do not have this: each starts from a phase of its place in the    *)
(* list (validateArenaConfig, inputDirectionToWorld, the movement and      *)
(* crowPatrolPosition).                                                    *)
(***************************************************************************)
RedPlaysTheSameGame ==
  LET arena == scenario.arena
      sum(i, t) == Geo!PatrolSum(arena.hazards[i].rules.seed, i - 1, t)
      at(i, t) == Geo!CrowPatrolPosition(arena.hazards[i].cell, arena.hazards[i].rules.seed, i - 1,
                                         t, arena.hazards[i].patrolRadius, arena.objective)
  IN  stage = "Playing"
        => /\ \A d \in Geo!Axis :
                LET world == InputDirectionToWorld(d, "Red")
                IN  /\ View(Geo!StepFrom(View(pos), world, FALSE, View(pos)))
                         = Geo!StepFrom(pos, d, FALSE, pos)
                    /\ View(Geo!DashFrom(View(pos), world)) = Geo!DashFrom(pos, d)
           /\ ToPlayerView(arena.redSpawn, "Red", arena.size) = arena.blueSpawn
           /\ \A i \in DOMAIN arena.hazards, t \in WatchedTicks :
                (/\ arena.hazards[i].kind = "Crow" /\ arena.hazards[i].cell = arena.objective
                 /\ sum(i, t) < sum(i, t + 3))
                  => at(i, t + 3) = ToPlayerView(at(i, t), "Red", arena.size)

\* The places a hero passes between two positions.
Between(a, b) == (IF a < b THEN a ELSE b) .. Larger(a, b)
Passed(p, q) == Between(p[1], q[1]) \X Between(p[2], q[2])

(***************************************************************************)
(* A hero never passes through an obstacle, however far it dashes: no      *)
(* place on its way, and not only the one it ends in, is nearer to an      *)
(* obstacle's centre than half a cell and the hero's radius                *)
(* (collidesWithObstacle, collisionSafeTarget).                            *)
(***************************************************************************)
NothingIsCrossed ==
  [][stage = "Playing" =>
       \A p \in Passed(pos, pos'), o \in Elements(scenario.arena.obstacles) :
         Geo!DistanceSquared(p, Geo!Centre(o)) >= Geo!BlockedDistance * Geo!BlockedDistance]_vars
=============================================================================
