CONSTANTS
  MaxSessions = 2
  MaxMatches = 1
  MaxPendingOutbound = 4
  MaxPendingPerMatch = 1
  MaxPendingPerSession = 1
  MaxPerSessionPerTick = 1
  MaxPerTick = 1
  MaxTicks = 2
  Seqs = {}
  Commanders = {}
  Slow = {}
  SnapshotEvery = 1
  CatchUp = 1
  MaxLag = 3
SPECIFICATION FairSpec
PROPERTY MatchesAdvanceAtTickRate
