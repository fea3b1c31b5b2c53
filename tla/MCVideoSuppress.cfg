SPECIFICATION Spec
CONSTANTS
  Capacity = 2
  MaxSkipped = 1
  MaxChunks = 1
  MaxFrames = 3
PROPERTIES ResumesOnKeyframe
CHECK_DEADLOCK FALSE
