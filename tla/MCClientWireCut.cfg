SPECIFICATION Spec
CONSTANTS
  Threads <- BothSenders
  MaxRound = 2
  MaxPieces = 2
INVARIANTS NoBytesBehindCutFrame
CHECK_DEADLOCK FALSE
