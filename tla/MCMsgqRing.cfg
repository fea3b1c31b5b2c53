SPECIFICATION Spec
CONSTANTS
  RingWords = 12
  Files = {f1}
  NoFile = NoFile
  Sizes = {1, 3}
  MaxMessages = 5
  MaxSteps = 4
INVARIANTS TypeOK StillOursIsIntact
PROPERTIES ImplementsFeed
