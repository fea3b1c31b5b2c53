SPECIFICATION FairSpec
CONSTANTS
  MaxRecipeQueue = 1
  MaxSnapshotQueue = 1
  MaxFile = 2
  MaxFrames = 4
  MaxConnections = 1
  MaxDrives = 1
INVARIANTS TypeOK GapsShow StopDrains
PROPERTIES StopReturns
CHECK_DEADLOCK FALSE
