SPECIFICATION FairSpec
CONSTANTS
  N = 2
  MaxBoots = 2
INVARIANTS TypeOK BootsAreApart SegmentsAwaitApps NothingIsLeft
PROPERTIES NobodySurvives
CHECK_DEADLOCK FALSE
