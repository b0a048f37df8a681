CONSTANTS
  NumSlots = 2
  Habits <- TwoGuests
  Kinds = {"kick"}
  YesPercentage = 50
  Majority = FALSE
  MaxBallots = 2
SPECIFICATION Spec
PROPERTY PassesByItsVoters
CHECK_DEADLOCK FALSE
