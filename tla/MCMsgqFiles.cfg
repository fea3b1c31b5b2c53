SPECIFICATION FairSpec
CONSTANTS
  RingWords = 8
  Files = {f1, f2}
  NoFile = NoFile
  Sizes = {1}
  MaxMessages = 5
  MaxSteps = 4
PROPERTIES ImplementsFeed CatchesUp
