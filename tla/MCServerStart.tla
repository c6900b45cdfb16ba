---------------------------- MODULE MCServerStart ----------------------------
(***************************************************************************)
(* Small arenas, most of them crooked, with ordinary numbers, and one      *)
(* straight arena with odd numbers: each at, below and above its limits,   *)
(* left out, and wide enough to wrap.                                      *)
(***************************************************************************)
EXTENDS ServerStart

Centre == <<CanonicalWidth \div 2, CanonicalHeight \div 2>>
North == <<Centre[1], 0>>
South == <<Centre[1], CanonicalHeight - 1>>
Corner == <<0, 0>>
Beside(dx) == <<Centre[1] + dx, Centre[2]>>
Cells == (0 .. CanonicalWidth - 1) \X (0 .. CanonicalHeight - 1)

----------------------------------------------------------------------------
HazardAt(id, kind, cell) ==
  [enabled |-> Absent, id |-> id, kind |-> kind, cell |-> cell, radius |-> 3, range |-> 4,
   damage |-> 10, effect |-> "damage", trigger |-> "proximity", icon |-> kind,
   cooldownMs |-> Absent, cooldownTicks |-> 30, seed |-> Absent, patrolRadius |-> Absent]

Crow(id, cell) == HazardAt(id, "crow", cell)
Mine(id, cell) == HazardAt(id, "mine", cell)
Harmless(hazard) == [hazard EXCEPT !.damage = 1]

HazardChoices ==
  {<<>>, <<Crow("c", Centre)>>, <<Crow("c", Beside(1))>>,
   <<Mine("m", Beside(1)), Crow("c", Centre), Mine("n", Beside(-1))>>,
   <<Mine("m", Beside(1)), Harmless(Mine("n", Beside(-1)))>>,
   <<Crow("c", Centre), Mine("m", Beside(1))>>}

ObstacleChoices == {<<>>} \cup {<<a>> : a \in Cells} \cup (Cells \X Cells)

Usual ==
  [supported |-> TRUE,
   rules |-> [tickRate |-> 20, timeLimitSeconds |-> 60],
   map |-> [width |-> CanonicalWidth, height |-> CanonicalHeight,
            redBase |-> [centre |-> North, radius |-> 2],
            blueBase |-> [centre |-> South, radius |-> 2],
            objectiveSpawn |-> Centre, obstacles |-> <<>>],
   players |-> [redSpawn |-> North, blueSpawn |-> South, speedPerTick |-> 1, heroHp |-> Absent],
   objective |-> [scoreLimit |-> 3, carrierSpeedMultiplier |-> 3, pickupLockMs |-> 500,
                  captureRespawnDelayMs |-> 1000, pickupRadius |-> 3],
   combat |-> [attackDamage |-> 25, attackRange |-> 5, attackCooldownTicks |-> 3,
               dashDistance |-> 6, dashCooldownTicks |-> 5],
   hazards |-> <<>>]

Arenas ==
  {[Usual EXCEPT !.map.obstacles = obstacles, !.hazards = hazards] :
     obstacles \in ObstacleChoices, hazards \in HazardChoices}
  \cup {[Usual EXCEPT !.players.redSpawn = Corner], [Usual EXCEPT !.map.objectiveSpawn = Corner],
        [Usual EXCEPT !.map.width = @ + 2], [Usual EXCEPT !.map.blueBase.radius = 3],
        [Usual EXCEPT !.map.redBase.radius = 0, !.map.blueBase.radius = 0],
        [Usual EXCEPT !.hazards = <<Mine("m", Centre)>>],
        [Usual EXCEPT !.hazards = <<Mine("m", North), Mine("n", South)>>]}

----------------------------------------------------------------------------
Huge == UintMax + 1 + 7
Odd == {Absent, -1, 0, 1, IntMax + 1, Huge}

OddRules(field) == {[Usual EXCEPT !.rules[field] = n] : n \in Odd \cup {7, 30}}
OddMap(field) == {[Usual EXCEPT !.map[field] = Absent]}
OddPlayers(field) == {[Usual EXCEPT !.players[field] = n] : n \in Odd}
OddObjective(field) == {[Usual EXCEPT !.objective[field] = n] : n \in Odd \cup {70, 80, 60000, 300000}}
OddCombat(field) == {[Usual EXCEPT !.combat[field] = n] : n \in Odd \cup {21}}

\* A crow in the centre, with one of its fields odd.
WithCrow(hazard) == [Usual EXCEPT !.hazards = <<hazard>>]
OddCrow(field, values) == {WithCrow([Crow("c", Centre) EXCEPT ![field] = n]) : n \in values}

OddFiles ==
  {[Usual EXCEPT !.supported = FALSE], [Usual EXCEPT !.rules = Absent], [Usual EXCEPT !.map = Absent],
   [Usual EXCEPT !.players = Absent], [Usual EXCEPT !.objective = Absent],
   [Usual EXCEPT !.combat = Absent], [Usual EXCEPT !.hazards = Absent]}
  \cup UNION {OddRules(field) : field \in DOMAIN Usual.rules}
  \cup UNION {OddMap(field) : field \in DOMAIN Usual.map}
  \cup UNION {OddPlayers(field) : field \in {"speedPerTick", "heroHp"}}
  \cup UNION {OddObjective(field) : field \in DOMAIN Usual.objective}
  \cup UNION {OddCombat(field) : field \in DOMAIN Usual.combat}
  \cup UNION {OddCrow(field, Odd) :
                field \in {"radius", "range", "damage", "cooldownTicks", "seed", "patrolRadius"}}
  \cup UNION {OddCrow(field, {Absent, NoName}) : field \in {"id", "kind", "icon", "effect", "trigger"}}
  \cup OddCrow("seed", {UintMax - 9, UintMax - 3, UintMax - 2, UintMax - 1, UintMax})
  \cup OddCrow("enabled", {TRUE, FALSE}) \cup OddCrow("kind", {"tower"})
  \cup OddCrow("effect", {"damage_drop_objective"}) \cup OddCrow("trigger", {"range"})
  \cup {WithCrow([Crow("c", Centre) EXCEPT !.cooldownTicks = Absent, !.cooldownMs = ms]) :
          ms \in {Absent, -1, 0, 24, 25, 70, 1490}}
  \cup {[Usual EXCEPT !.hazards = <<[Mine("m", Centre) EXCEPT !.enabled = FALSE, !.kind = Absent]>>]}

----------------------------------------------------------------------------
Local ==
  [mode |-> "local", tickRate |-> 20, snapshotRate |-> 10, maxConnections |-> 64, maxMatches |-> 8,
   maxInputCommandsPerSecond |-> 30, maxPendingWriteBytesPerSession |-> 65536,
   maxPendingOutboundMessages |-> 64, maxPendingCommandsPerSession |-> 64,
   maxPendingCommandsPerMatch |-> 128, maxCommandsPerTick |-> 64, metricsLogEverySeconds |-> 5,
   handshakeTimeoutMs |-> 5000, idleTimeoutMs |-> 30000, demoAuthEnabled |-> TRUE,
   telegramAuthEnabled |-> FALSE, telegramBotTokenEnv |-> NoName,
   tcp |-> [enabled |-> TRUE, host |-> "host", port |-> 7777, maxBytes |-> 65536],
   websocket |-> [enabled |-> FALSE, host |-> "host", port |-> 8080, path |-> "path",
                  maxBytes |-> 65536, requireTls |-> FALSE],
   checkOnly |-> FALSE]

Public == [Local EXCEPT !.mode = "public", !.demoAuthEnabled = FALSE, !.tcp.enabled = FALSE,
                        !.websocket.enabled = TRUE, !.websocket.requireTls = TRUE,
                        !.telegramAuthEnabled = TRUE, !.telegramBotTokenEnv = "token"]

Configs ==
  {Public, [Public EXCEPT !.websocket.requireTls = FALSE], [Local EXCEPT !.mode = NoName],
   [Local EXCEPT !.checkOnly = TRUE, !.tcp.enabled = FALSE], [Local EXCEPT !.tcp.enabled = FALSE],
   [Local EXCEPT !.tcp.maxBytes = 0], [Local EXCEPT !.tcp.port = 0],
   [Local EXCEPT !.tcp.port = 65536], [Local EXCEPT !.tcp.host = NoName],
   [Local EXCEPT !.websocket.port = 0], [Public EXCEPT !.websocket.path = NoName],
   [Public EXCEPT !.telegramBotTokenEnv = NoName],
   [Local EXCEPT !.idleTimeoutMs = 0],
   [Local EXCEPT !.snapshotRate = 20], [Local EXCEPT !.snapshotRate = 30],
   [Local EXCEPT !.tickRate = 240, !.snapshotRate = 7], [Local EXCEPT !.tickRate = 241],
   [Local EXCEPT !.tickRate = 30], [Local EXCEPT !.maxInputCommandsPerSecond = 90]}

\* Every file with the local configuration, and the usual file with every configuration.
MCStarts ==
  [config : {Local}, file : Arenas \cup OddFiles]
  \cup [config : Configs, file : {Usual}]
=============================================================================
