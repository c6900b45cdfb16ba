CONSTANTS
  MaxSessions = 2
  MaxMatches = 2
  MaxPendingOutbound = 1
  MaxPendingPerMatch = 1
  MaxPendingPerSession = 1
  MaxPerSessionPerTick = 1
  MaxPerTick = 1
  MaxTicks = 2
  Seqs = {1}
SPECIFICATION Spec
INVARIANTS MatchesShareOnlyByRematch EventStreamsAreWhole SessionsAreCounted GoneIsGone
PROPERTY MatchesOnlyAdvance
CHECK_DEADLOCK FALSE
