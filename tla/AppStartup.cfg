SPECIFICATION FairSpec
CONSTANTS
  MaxRuns = 2
  MaxTouches = 1
PROPERTIES RingsAreShown NobodyWaitsForever StartsWhenLeftClean
CHECK_DEADLOCK FALSE
