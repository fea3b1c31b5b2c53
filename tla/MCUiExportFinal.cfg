SPECIFICATION Spec
CONSTANTS
  MaxRecipeQueue = 1
  MaxSnapshotQueue = 1
  MaxFile = 2
  MaxFrames = 3
  MaxConnections = 1
  MaxDrives = 2
PROPERTIES FinishedStopsGrowing
CHECK_DEADLOCK FALSE
