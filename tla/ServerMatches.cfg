CONSTANTS
  MaxSessions = 2
  MaxMatches = 2
  MaxPendingOutbound = 3
  MaxPendingPerMatch = 1
  MaxPendingPerSession = 1
  MaxPerSessionPerTick = 1
  MaxPerTick = 1
  MaxTicks = 2
  Seqs = {1}
  Commanders = {2}
  Slow = {2}
  SnapshotEvery = 1
  CatchUp = 2
  MaxLag = 4
SPECIFICATION FairSpec
INVARIANTS NeverAheadOfTheClock PhasesAgree EveryMatchIsAnnouncedFirst RunningMatchHasItsTicker
PROPERTY MatchesEnd
