SPECIFICATION FairSpec
CONSTANTS
  Capacity = 2
  MaxSkipped = 1
  MaxChunks = 2
  MaxFrames = 5
INVARIANTS TypeOK
PROPERTIES Decodable KeyframeGetsThrough
CHECK_DEADLOCK FALSE
