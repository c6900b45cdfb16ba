CONSTANTS
  Keys = {"W"}
  Names = {8, 128}
  Codes = {0, 2}
  PerTick = 1
  MaxMatches = 3
  MaxActs = 2
  Pinging = {"Connected", "Authenticated"}
  MaxUp = 2
  MaxDown = 2
SPECIFICATION FairSpec
INVARIANTS SequenceNumbersAreFresh OnlyAskingTwiceIsRefused AuthenticationIsAskedFor OfferedOnlyWhenOver HeroFollowsUnlessRejected
PROPERTY WaitingEnds
CHECK_DEADLOCK FALSE
