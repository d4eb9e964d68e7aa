SPECIFICATION FairSpec
CONSTANTS
  Build = {"b1", "b2", "b3"}
  Group <- MCGroup
  MaxAge = 1
  MaxClock = 2
  MaxLost = 1
INVARIANTS MapNotRaced OwnTokenRead EmptyExplained
PROPERTIES ServerCloses
CHECK_DEADLOCK FALSE
