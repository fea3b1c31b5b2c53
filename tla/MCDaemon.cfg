SPECIFICATION DaemonSpec
CONSTANTS
  Threads <- BothSenders
  MaxRound = 2
  MaxPieces = 3
  MaxWrites = 1
  MaxStarts = 2
  MaxApplies = 2
  Connections = {c1, c2, c3}
  Services = {carParams, carState}
  Latched = {carParams}
  MaxOffers = 2
  MaxClock = 2
  FreshWindow = 0
  SampleInterval = 1
  MaxDrives = 1
  Callers = {a, b}
  MaxBlocks = 2
  PipeBlocks = 1
  MaxPrint = 2
  HasToken = TRUE
INVARIANTS DaemonTypeOK FramesDoNotInterleave CutIsFatal QuietMeansLoaded SnapshotMatches OneSession EmitsInOrder EachDriveOnce
PROPERTIES SessionEnds StatsCatchUp SlotComesBack LatchedArrives EveryDriveIsRead EveryRequestIsAnswered
CHECK_DEADLOCK FALSE
