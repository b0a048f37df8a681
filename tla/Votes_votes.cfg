CONSTANTS
  NumSlots = 2
  Habits <- GuestAndAdmin
  Kinds = {"kick", "ban"}
  YesPercentage = 50
  Majority = FALSE
  MaxBallots = 2
SPECIFICATION FairSpec
INVARIANT TypeOK
PROPERTIES
  KickHitsItsVictim PassesByVoters CancelIsTheCallers EveryVoteEnds
CHECK_DEADLOCK FALSE
