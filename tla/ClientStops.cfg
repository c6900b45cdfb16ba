CONSTANTS
  Keys = {"W"}
  Names = {8, 128}
  Codes = {0, 2}
  PerTick = 1
  MaxMatches = 1
  MaxActs = 2
  Pinging = {}
  MaxUp = 2
  MaxDown = 2
SPECIFICATION Spec
INVARIANT ReleasedKeysStopTheHero
CHECK_DEADLOCK FALSE
