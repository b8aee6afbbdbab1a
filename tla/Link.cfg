SPECIFICATION FairSpec
CONSTANTS
  Capacity = 2
  Bytes = 8
INVARIANTS
  NothingLost
  HaltsOnlyAcross
PROPERTY
  AllAnswered
CHECK_DEADLOCK FALSE
