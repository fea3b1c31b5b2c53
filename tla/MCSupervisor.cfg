SPECIFICATION FairSpec
CONSTANTS
  Pids = {p1, p2, p3, p4}
  NoPid = NoPid
  MaxRestarts = 1
  MaxFaults = 2
  MaxScripts = 3
INVARIANTS TypeOK StoppedStaysStopped RuntimeIsWatched OnlyOwnSignalled
PROPERTIES CrashedComesBack
CHECK_DEADLOCK FALSE
