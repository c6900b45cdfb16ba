---------------------------- MODULE BattleEngine ----------------------------
(***************************************************************************)
(* The authoritative simulation of one Objective Run match                 *)
(* (src/battle_core/BattleEngine.cpp).  Two heroes race for one objective; *)
(* whoever carries it into the own base scores, and the first to           *)
(* ScoreLimit captures wins.                                               *)
(*                                                                         *)
(* The geometry (world positions, reach, collisions) is abstracted to      *)
(* functions on a set of positions: module ArenaGeometry computes them as  *)
(* the code does, and the proofs hold for every choice of them.            *)
(***************************************************************************)
EXTENDS Integers, Sequences

CONSTANTS
  Blue, Red,        \* the two players, in the order of the engine's list
  Nobody,           \* PlayerId{}: no carrier
  Position,         \* world positions
  Direction, Still, \* unit directions, and the zero movement
  Blocked,          \* a movement that bounds or obstacles refuse
  Spawn,            \* [Player -> Position]
  ObjectiveSpawn,   \* a Position
  OwnBase,          \* [Player -> SUBSET Position]
  PickupReach,      \* [Position -> SUBSET Position]
  MoveTarget,       \* [BOOLEAN -> [Direction -> [Position -> Position or Blocked]]]
  DashTarget,       \* [Direction -> [Position -> Position]]
  AttackReach,      \* [Direction -> [Position -> SUBSET Position]]
  Hazards,          \* a sequence of hazard configurations
  HeroHp, AttackDamage, AttackCooldown, DashCooldown,
  PickupLock, RespawnDelay, ScoreLimit, MaxTicks,
  MaxPending        \* bound of the model: commands submitted between two ticks

Player == {Blue, Red}

(***************************************************************************)
(* A hazard: the positions it reaches at each tick (a crow patrols), what  *)
(* it does to the hero it hits, and its cooldown.                          *)
(***************************************************************************)
HazardConfig ==
  [reach : [0 .. MaxTicks -> SUBSET Position], damage : Nat \ {0},
   drops : BOOLEAN, cooldown : Nat]

ASSUME PlayersAssumption ==
  Blue # Red /\ Nobody \notin Player

ASSUME GeometryAssumption ==
  /\ Still \notin Direction
  /\ Blocked \notin Position
  /\ Spawn \in [Player -> Position]
  /\ ObjectiveSpawn \in Position
  /\ OwnBase \in [Player -> SUBSET Position]
  /\ PickupReach \in [Position -> SUBSET Position]
  /\ MoveTarget \in [BOOLEAN -> [Direction -> [Position -> Position \cup {Blocked}]]]
  /\ DashTarget \in [Direction -> [Position -> Position]]
  /\ AttackReach \in [Direction -> [Position -> SUBSET Position]]

ASSUME RulesAssumption ==
  /\ Hazards \in Seq(HazardConfig)
  /\ HeroHp \in Nat \ {0} /\ AttackDamage \in Nat \ {0}
  /\ AttackCooldown \in Nat /\ DashCooldown \in Nat
  /\ PickupLock \in Nat /\ RespawnDelay \in Nat
  /\ ScoreLimit \in Nat \ {0} /\ MaxTicks \in Nat \ {0}
  /\ MaxPending \in Nat

Opponent(p) == IF p = Blue THEN Red ELSE Blue

(***************************************************************************)
(* What a client may ask for.  A command whose direction is not a unit     *)
(* step is refused at submission and leaves no trace, so it is left out.   *)
(* A stop and a move without direction do the same, and are one command.   *)
(***************************************************************************)
Command ==
  [player : Player, type : {"Move"}, direction : Direction \cup {Still}]
    \cup [player : Player, type : {"Attack", "Dash"}, direction : Direction]
    \cup [player : Player, type : {"Interact"}, direction : {Still}]

(***************************************************************************)
(* What a tick reports, down to the player it is about.  Movement, misses, *)
(* telegraphs and TickAdvanced are left out: they change nothing.          *)
(***************************************************************************)
EventType ==
  {"ObjectivePickedUp", "ObjectiveDropped", "ObjectiveCaptured",
   "ObjectiveRespawned", "AttackHit", "HazardHit", "PlayerDefeated",
   "MatchFinished"}

Event(type, player) == [type |-> type, player |-> player]
EventRecord == [type : EventType, player : Player \cup {Nobody}]

VARIABLES
  world,         \* the engine's members: clock, heroes, objective, scores, hazards
  pending,       \* _pendingCommands
  systemEvents,  \* _systemEvents
  events         \* what the last call returned to its caller

vars == <<world, pending, systemEvents, events>>

-----------------------------------------------------------------------------
(***************************************************************************)
(* Queries.                                                                *)
(***************************************************************************)
Alive(w, p) == w.hero[p].hp > 0

\* Mutant of InOwnBase: any base will do.
InAnyBase(w, p) == \E q \in Player : w.hero[p].place \in OwnBase[q]

InOwnBase(w, p) == w.hero[p].place \in OwnBase[p]

Carries(w, p) == w.objective.state = "Carried" /\ w.objective.carrier = p

\* Mutant of CanPickup: the lock after a drop is forgotten.
CanPickupLocked(w, p) ==
  /\ w.objective.state \in {"AtSpawn", "Dropped"}
  /\ w.objective.place \in PickupReach[w.hero[p].place]

CanPickup(w, p) ==
  /\ w.objective.state \in {"AtSpawn", "Dropped"}
  /\ w.objective.lock = 0
  /\ w.objective.place \in PickupReach[w.hero[p].place]

(***************************************************************************)
(* Updates of the world.  Each appends what it reports to w.events.        *)
(***************************************************************************)
PickUp(w, p) ==
  [w EXCEPT !.objective = [state |-> "Carried", carrier |-> p,
                           place |-> w.hero[p].place, lock |-> 0, respawn |-> 0],
            !.events = Append(@, Event("ObjectivePickedUp", p))]

\* Where a capture leaves the objective: where it was captured, without a carrier.
LeftAt(w, p, state, respawn) ==
  [state |-> state, carrier |-> Nobody, place |-> w.hero[p].place,
   lock |-> w.objective.lock, respawn |-> respawn]

Scored(w, p) ==
  [w EXCEPT !.score[p] = @ + 1,
            !.events = Append(@, Event("ObjectiveCaptured", p))]

Capture(w, p) ==
  LET s == Scored(w, p)
  IN  IF s.score[p] >= ScoreLimit
      THEN [s EXCEPT !.objective = LeftAt(w, p, "Captured", 0),
                     !.finished = TRUE,
                     !.events = Append(@, Event("MatchFinished", p))]
      ELSE IF RespawnDelay = 0
      THEN [s EXCEPT !.objective = LeftAt(w, p, "AtSpawn", 0),
                     !.events = Append(@, Event("ObjectiveRespawned", Nobody))]
      ELSE [s EXCEPT !.objective = LeftAt(w, p, "Respawning", RespawnDelay)]

\* The first live hero of the list within reach takes the objective.
UpdateContact(w) ==
  LET able == {p \in Player : Alive(w, p) /\ CanPickup(w, p)}
      p    == IF Blue \in able THEN Blue ELSE Red
  IN  IF able = {} THEN w
      ELSE IF InOwnBase(w, p) THEN Capture(PickUp(w, p), p)
      ELSE PickUp(w, p)

DroppedAt(w, p) ==
  [state |-> "Dropped", carrier |-> Nobody, place |-> w.hero[p].place,
   lock |-> PickupLock, respawn |-> 0]

\* Mutant of DropFromSystem: the drop is not reported.
DropSilently(w, p) == [w EXCEPT !.objective = DroppedAt(w, p)]

DropFromSystem(w, p) ==
  [w EXCEPT !.objective = DroppedAt(w, p),
            !.events = Append(@, Event("ObjectiveDropped", p))]

\* Mutant of ApplyDamage: only a survivor drops the objective.
ApplyDamageToSurvivor(w, p, damage, drops) ==
  LET hurt == [w EXCEPT !.hero[p].hp = IF @ > damage THEN @ - damage ELSE 0]
  IN  IF drops /\ Carries(w, p) /\ Alive(hurt, p) THEN DropFromSystem(hurt, p) ELSE hurt

ApplyDamage(w, p, damage, drops) ==
  LET hurt    == [w EXCEPT !.hero[p].hp = IF @ > damage THEN @ - damage ELSE 0]
      dropped == IF drops /\ Carries(w, p) THEN DropFromSystem(hurt, p) ELSE hurt
  IN  IF ~Alive(w, p) THEN w
      ELSE IF Alive(hurt, p) THEN dropped
      ELSE [dropped EXCEPT !.hero[p].heading = Still,
                           !.events = Append(@, Event("PlayerDefeated", p))]

PerformAttack(w, p, d) ==
  LET aimed  == [w EXCEPT !.hero[p].attackCd = AttackCooldown]
      target == Opponent(p)
  IN  IF Alive(w, target) /\ w.hero[target].place \in AttackReach[d][w.hero[p].place]
      THEN ApplyDamage([aimed EXCEPT !.events = Append(@, Event("AttackHit", target))],
                       target, AttackDamage, TRUE)
      ELSE aimed

\* Mutant of Relocate: the carried objective stays behind.
RelocateAlone(w, p, to) == [w EXCEPT !.hero[p].place = to]

\* A hero's movement takes the carried objective along.
Relocate(w, p, to) ==
  [w EXCEPT !.hero[p].place = to,
            !.objective.place = IF Carries(w, p) THEN to ELSE @]

PerformDash(w, p, d) ==
  Relocate([w EXCEPT !.hero[p].dashCd = DashCooldown], p, DashTarget[d][w.hero[p].place])

Execute(w, c) ==
  LET p == c.player
  IN  CASE c.type = "Move" -> [w EXCEPT !.hero[p].heading = c.direction]
        [] c.type = "Attack" -> PerformAttack(w, p, c.direction)
        [] c.type = "Dash" -> PerformDash(w, p, c.direction)
        [] c.type = "Interact" -> IF CanPickup(w, p) THEN PickUp(w, p) ELSE w

\* Mutant of ExecuteCommand: a hero defeated earlier in the tick still acts.
ExecuteOfDefeated(w, c) == Execute(w, c)

ExecuteCommand(w, c) == IF Alive(w, c.player) THEN Execute(w, c) ELSE w

\* The commands run in the order of their submission.
ExecuteCommands(w, cmds) ==
  LET after[n \in 0 .. Len(cmds)] ==
        IF n = 0 THEN w ELSE ExecuteCommand(after[n - 1], cmds[n])
  IN  after[Len(cmds)]

MoveHero(w, p) ==
  LET h  == w.hero[p]
      to == MoveTarget[Carries(w, p)][h.heading][h.place]
      moved == Relocate(w, p, to)
  IN  IF ~Alive(w, p) \/ h.heading = Still THEN w
      ELSE IF to = Blocked THEN w
      ELSE IF Carries(w, p) /\ InOwnBase(moved, p) THEN Capture(moved, p)
      ELSE moved

\* Mutant of CountDown: counts past zero.
CountBelowZero(n) == n - 1

CountDown(n) == IF n > 0 THEN n - 1 ELSE 0

UpdateCooldowns(w) ==
  [w EXCEPT !.hero =
     [p \in Player |-> [w.hero[p] EXCEPT !.attackCd = CountDown(@), !.dashCd = CountDown(@)]]]

UpdateTimers(w) ==
  LET waiting == [w.objective EXCEPT !.lock = CountDown(@)]
  IN  IF w.objective.state # "Respawning" \/ w.objective.respawn = 0
      THEN [w EXCEPT !.objective = waiting]
      ELSE IF w.objective.respawn > 1
      THEN [w EXCEPT !.objective = [waiting EXCEPT !.respawn = @ - 1]]
      ELSE [w EXCEPT !.objective = [waiting EXCEPT !.state = "AtSpawn", !.respawn = 0,
                                                   !.place = ObjectiveSpawn],
                     !.events = Append(@, Event("ObjectiveRespawned", Nobody))]

\* Mutant of CoolHazard: the trigger stays set when the cooldown ends.
CoolTriggered(hz) == [hz EXCEPT !.cooldown = @ - 1]

CoolHazard(hz) ==
  [cooldown |-> hz.cooldown - 1, triggered |-> hz.triggered /\ hz.cooldown # 1]

\* A hazard cools down, or else hits the first live hero of the list in reach.
UpdateHazard(w, i) ==
  LET hz   == w.hazard[i]
      cfg  == Hazards[i]
      near == {p \in Player : Alive(w, p) /\ w.hero[p].place \in cfg.reach[w.tick]}
      p    == IF Blue \in near THEN Blue ELSE Red
  IN  IF hz.cooldown > 0
      THEN [w EXCEPT !.hazard[i] = CoolHazard(hz)]
      ELSE IF near = {} THEN w
      ELSE ApplyDamage([w EXCEPT !.hazard[i] = [cooldown |-> cfg.cooldown, triggered |-> TRUE],
                                 !.events = Append(@, Event("HazardHit", p))],
                       p, cfg.damage, cfg.drops)

UpdateHazards(w) ==
  LET after[n \in 0 .. Len(Hazards)] ==
        IF n = 0 THEN w ELSE UpdateHazard(after[n - 1], n)
  IN  after[Len(Hazards)]

\* Mutant of CheckClock: one tick too many, and unannounced.
CheckClockLate(w) == IF w.tick > MaxTicks THEN [w EXCEPT !.finished = TRUE] ELSE w

CheckClock(w) ==
  IF w.tick >= MaxTicks
  THEN [w EXCEPT !.finished = TRUE,
                 !.events = Append(@, Event("MatchFinished", Nobody))]
  ELSE w

\* Mutant of BeginTick: the clock stands still.
BeginTickFrozen(w) == UpdateContact(UpdateTimers(UpdateCooldowns(w)))

\* What a tick does before the commands.
BeginTick(w) ==
  UpdateContact(UpdateTimers(UpdateCooldowns([w EXCEPT !.tick = @ + 1])))

\* Everything one call of tick() does, in the order it does it.
AdvanceTick(w, cmds) ==
  LET commanded == ExecuteCommands(BeginTick(w), cmds)
      moved     == MoveHero(MoveHero(commanded, Blue), Red)
  IN  CheckClock(UpdateHazards(UpdateContact(moved)))

-----------------------------------------------------------------------------
(***************************************************************************)
(* The calls a match makes.                                                *)
(***************************************************************************)
NewHero(p) ==
  [place |-> Spawn[p], heading |-> Still, hp |-> HeroHp, attackCd |-> 0, dashCd |-> 0]

Init ==
  /\ world = [tick |-> 0, finished |-> FALSE,
              hero |-> [p \in Player |-> NewHero(p)],
              objective |-> [state |-> "AtSpawn", carrier |-> Nobody,
                             place |-> ObjectiveSpawn, lock |-> 0, respawn |-> 0],
              score |-> [p \in Player |-> 0],
              hazard |-> [i \in 1 .. Len(Hazards) |-> [cooldown |-> 0, triggered |-> FALSE]],
              events |-> <<>>]
  /\ pending = <<>>
  /\ systemEvents = <<>>
  /\ events = <<>>

\* Mutant of HasPending: a second attack or dash is accepted before the first has run.
HasNothingPending(p, type) == FALSE

HasPending(p, type) ==
  \E i \in 1 .. Len(pending) : pending[i].player = p /\ pending[i].type = type

\* submit() accepts a command; a refused one leaves the engine as it is.
Submit(c) ==
  /\ Len(pending) < MaxPending
  /\ ~world.finished
  /\ Alive(world, c.player)
  /\ c.type = "Attack" => /\ world.hero[c.player].attackCd = 0
                          /\ ~HasPending(c.player, "Attack")
  /\ c.type = "Dash" => /\ world.hero[c.player].dashCd = 0
                        /\ ~HasPending(c.player, "Dash")
  /\ c.type = "Interact" => CanPickup(world, c.player)
  /\ pending' = Append(pending, c)
  /\ events' = <<>>
  /\ UNCHANGED <<world, systemEvents>>

\* The match drops the objective from outside a tick; the event waits for the next one.
DropObjective(p) ==
  /\ ~world.finished
  /\ Carries(world, p)
  /\ world' = [world EXCEPT !.objective = DroppedAt(world, p)]
  /\ systemEvents' = Append(systemEvents, Event("ObjectiveDropped", p))
  /\ events' = <<>>
  /\ UNCHANGED pending

Tick ==
  /\ ~world.finished
  /\ LET after == AdvanceTick([world EXCEPT !.events = systemEvents], pending)
     IN  /\ world' = [after EXCEPT !.events = <<>>]
         /\ events' = after.events
  /\ pending' = <<>>
  /\ systemEvents' = <<>>

\* A call of tick() on a finished match returns no events and changes nothing else.
TickFinished ==
  /\ world.finished
  /\ events' = <<>>
  /\ UNCHANGED <<world, pending, systemEvents>>

Next ==
  \/ \E c \in Command : Submit(c)
  \/ \E p \in Player : DropObjective(p)
  \/ Tick
  \/ TickFinished

Spec == Init /\ [][Next]_vars

\* The server keeps ticking an active match: weak fairness of Tick, which is
\* enabled exactly while the match is not finished.
FairSpec == Spec /\ ([]<>world.finished \/ []<><<Tick>>_vars)

-----------------------------------------------------------------------------
(***************************************************************************)
(* Invariants.                                                             *)
(***************************************************************************)
ObjectiveState == {"AtSpawn", "Dropped", "Carried", "Respawning", "Captured"}

HeroRecord ==
  [place : Position, heading : Direction \cup {Still}, hp : Nat,
   attackCd : Nat, dashCd : Nat]

WorldRecord ==
  [tick : 0 .. MaxTicks, finished : BOOLEAN,
   hero : [Player -> HeroRecord],
   objective : [state : ObjectiveState, carrier : Player \cup {Nobody},
                place : Position, lock : Nat, respawn : Nat],
   score : [Player -> Nat],
   hazard : [1 .. Len(Hazards) -> [cooldown : Nat, triggered : BOOLEAN]],
   events : Seq(EventRecord)]

\* Every variable stays in its type; the clock never passes MaxTicks.
TypeOK ==
  /\ world \in WorldRecord
  /\ pending \in Seq(Command)
  /\ systemEvents \in Seq(EventRecord)
  /\ events \in Seq(EventRecord)

(***************************************************************************)
(* The objective's state, carrier, position and two timers agree: only a   *)
(* carried objective has a carrier, and it is where the carrier is; only   *)
(* a dropped one is locked; exactly a captured one that is to come back    *)
(* counts down; one at its spawn is at the spawn.                          *)
(***************************************************************************)
ObjectiveConsistent(w) ==
  LET o == w.objective
  IN  /\ (o.state = "Carried") <=> (o.carrier \in Player)
      /\ \A p \in Player : Carries(w, p) => o.place = w.hero[p].place
      /\ o.lock > 0 => o.state = "Dropped"
      /\ (o.state = "Respawning") <=> (o.respawn > 0)
      /\ o.state = "AtSpawn" /\ RespawnDelay > 0 => o.place = ObjectiveSpawn

ObjectiveIsConsistent == ObjectiveConsistent(world)

(***************************************************************************)
(* The objective is never left with a defeated carrier, who could neither  *)
(* move nor drop it: nobody could ever score again.                        *)
(***************************************************************************)
CarrierAlive(w) == \A p \in Player : Carries(w, p) => Alive(w, p)

CarrierIsAlive == CarrierAlive(world)

(***************************************************************************)
(* A match is over exactly when its time is up or one player has all the   *)
(* captures; a won match leaves the objective captured, no score passes    *)
(* the limit, and never do both players win.                               *)
(***************************************************************************)
ResultConsistent(w) ==
  /\ w.finished <=> (w.tick >= MaxTicks \/ \E p \in Player : w.score[p] >= ScoreLimit)
  /\ (w.objective.state = "Captured") <=> \E p \in Player : w.score[p] >= ScoreLimit
  /\ \A p \in Player : w.score[p] <= ScoreLimit
  /\ ~ \A p \in Player : w.score[p] >= ScoreLimit

ResultIsConsistent == ResultConsistent(world)

(***************************************************************************)
(* A hazard is shown as triggered exactly while it cools down, so it never *)
(* hits a hero while it is shown as spent.                                 *)
(***************************************************************************)
HazardConsistent(w) ==
  \A i \in 1 .. Len(Hazards) : w.hazard[i].triggered <=> w.hazard[i].cooldown > 0

HazardsAreConsistent == HazardConsistent(world)

-----------------------------------------------------------------------------
(***************************************************************************)
(* What a step may do.  Ticked is a step that ran the simulation.          *)
(***************************************************************************)
Ticked == world'.tick # world.tick

Reported(type, p) == {i \in 1 .. Len(events') : events'[i] = Event(type, p)}

(***************************************************************************)
(* A tick counts at most one capture, made in the own base, and the        *)
(* scoreboard moves by exactly the captures reported.                      *)
(***************************************************************************)
CaptureCounts ==
  \A p \in Player :
    /\ world'.score[p] # world.score[p] =>
         /\ Ticked
         /\ world'.score[p] = world.score[p] + 1
         /\ world'.score[Opponent(p)] = world.score[Opponent(p)]
         /\ world'.objective.place \in OwnBase[p]
         /\ Reported("ObjectiveCaptured", p) # {}
    /\ Ticked /\ Reported("ObjectiveCaptured", p) # {} =>
         world'.score[p] # world.score[p]

ScoresOnlyByCapture == [][CaptureCounts]_vars

(***************************************************************************)
(* After a drop nobody takes the objective while its lock runs: it lies    *)
(* where it fell, and the lock shrinks by one each tick.                   *)
(***************************************************************************)
LockCounts ==
  world.objective.lock > 1 =>
    world'.objective = IF Ticked THEN [world.objective EXCEPT !.lock = @ - 1]
                       ELSE world.objective

LockedObjectiveStays == [][LockCounts]_vars

(***************************************************************************)
(* A defeated hero stays defeated, stays where it fell and scores nothing  *)
(* more; and from the moment it is defeated within a tick it acts no more, *)
(* whatever it had asked for before.                                       *)
(***************************************************************************)
ActsOf(p) ==
  {Event("ObjectivePickedUp", p), Event("ObjectiveCaptured", p),
   Event("AttackHit", Opponent(p)), Event("PlayerDefeated", p)}

DefeatedRest ==
  \A p \in Player :
    /\ ~Alive(world, p) => /\ world'.hero[p].hp = 0
                           /\ world'.hero[p].place = world.hero[p].place
                           /\ world'.score[p] = world.score[p]
                           /\ Ticked => \A i \in 1 .. Len(events') : events'[i] \notin ActsOf(p)
    /\ Ticked => \A i \in Reported("PlayerDefeated", p) :
                   \A j \in i + 1 .. Len(events') : events'[j] \notin ActsOf(p)

DefeatIsFinal == [][DefeatedRest]_vars

(***************************************************************************)
(* A hero attacks at most once a tick, and only when the cooldown of its   *)
(* previous attack had run out before that tick began.                     *)
(***************************************************************************)
AttacksCool ==
  \A p \in Player :
    Ticked /\ Reported("AttackHit", Opponent(p)) # {} =>
      /\ world.hero[p].attackCd = 0
      /\ world'.hero[p].attackCd = AttackCooldown
      /\ \A i, j \in Reported("AttackHit", Opponent(p)) : i = j

AttacksRespectCooldown == [][AttacksCool]_vars

(***************************************************************************)
(* A client that follows the events alone knows who has the objective and  *)
(* whether the match goes on.  The objective events of a tick lead, each   *)
(* from the state the one before left, from what the client knew to what   *)
(* the snapshot shows; a drop made between ticks is known once the next    *)
(* tick reports it.  The tick that ends a match announces it, and no other *)
(* does; twice only if the winning capture falls on the last tick.         *)
(***************************************************************************)
Holding(w) ==
  CASE w.objective.state \in {"AtSpawn", "Dropped"} -> "Ground"
    [] w.objective.state = "Carried" -> w.objective.carrier
    [] OTHER -> "Away"

KnownHolding ==
  IF systemEvents = <<>> THEN Holding(world) ELSE systemEvents[1].player

Follow(h, e) ==
  CASE e.type = "ObjectivePickedUp" /\ h = "Ground" -> e.player
    [] e.type = "ObjectiveDropped" /\ h = e.player -> "Ground"
    [] e.type = "ObjectiveCaptured" /\ h = e.player -> "Away"
    [] e.type = "ObjectiveRespawned" /\ h = "Away" -> "Ground"
    [] e.type \in {"AttackHit", "HazardHit", "PlayerDefeated", "MatchFinished"} -> h
    [] OTHER -> "Impossible"

FollowAll(h, es) ==
  LET known[n \in 0 .. Len(es)] ==
        IF n = 0 THEN h ELSE Follow(known[n - 1], es[n])
  IN  known[Len(es)]

EventsTell ==
  Ticked =>
    LET ends == {i \in 1 .. Len(events') : events'[i].type = "MatchFinished"}
    IN  /\ FollowAll(KnownHolding, events') = Holding(world')
        /\ world'.finished <=> ends # {}
        /\ \A i, j \in ends : i # j => /\ world'.tick = MaxTicks
                                       /\ world'.objective.state = "Captured"

EventsTellTheMatch == [][EventsTell]_vars

(***************************************************************************)
(* Liveness.  A match that is ticked ends.                                 *)
(***************************************************************************)
MatchEnds == <>world.finished
=============================================================================
