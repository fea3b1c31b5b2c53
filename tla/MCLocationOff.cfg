SPECIFICATION LocationSpec
CONSTANTS
  MaxDrives = 1
INVARIANTS OffForgets
CHECK_DEADLOCK FALSE
