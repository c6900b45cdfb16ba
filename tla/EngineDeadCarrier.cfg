SPECIFICATION Spec
CONSTANTS
  Blue = Blue
  Red = Red
  Nobody = Nobody
  Blocked = Blocked
  Position <- MCPosition
  Direction <- MCDirection
  Still <- MCStill
  Spawn <- MCSpawn
  ObjectiveSpawn <- MCMiddle
  OwnBase <- MCOwnBase
  PickupReach <- MCPickupReach
  MoveTarget <- MCMoveTarget
  DashTarget <- MCDashTarget
  AttackReach <- MCAttackReach
  Hazards <- DamageOnlyMine
  HeroHp = 2
  AttackDamage = 1
  AttackCooldown = 1
  DashCooldown = 2
  PickupLock = 2
  RespawnDelay = 1
  ScoreLimit = 2
  MaxTicks = 6
  MaxPending = 1
  MCLength = 3
  MCSpeed = 4
  MCCarrierSpeed = 4
INVARIANTS CarrierIsAlive
CHECK_DEADLOCK FALSE
