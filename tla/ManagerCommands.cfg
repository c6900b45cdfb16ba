CONSTANTS
  MaxSessions = 2
  MaxMatches = 1
  MaxPendingOutbound = 2
  MaxPendingPerMatch = 2
  MaxPendingPerSession = 1
  MaxPerSessionPerTick = 1
  MaxPerTick = 1
  MaxTicks = 2
  Seqs = {1, 2, 3}
SPECIFICATION Spec
INVARIANTS CommandsRunOnceInOrder QueuesAreBounded
CHECK_DEADLOCK FALSE
