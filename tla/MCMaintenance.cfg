SPECIFICATION MaintenanceSpec
CONSTANTS
  Waiters = {w1, w2}
  NoWaiter = NoWaiter
  OffroadPolls = 3
  ParkedPolls = 2
  MaxAttempts = 2
  MaxJobs = 2
  MaxCuts = 1
  MaxLists = 3
  MaxKeys = 2
  MaxStatements = 2
  RingWords = 8
  Sizes = {1, 2}
  InFlight = 3
  MaxPublished = 5
  FreshTicks = 1
  CodeTtl = 1
  MaxWall = 2
  MaxCodes = 2
  RouteIds = {r1, r2}
  NoRoute = NoRoute
  Media = {road}
  MaxSegment = 1
  MaxListed = 1
  MaxRecipe = 4
  MaxChunk = 1
  MaxMedia = 1
  MaxFiles = 2
  MaxLines = 2
INVARIANTS MaintenanceTypeOK WaiterKeepsItsJob CoversWhatWasThere PeekIsNewest ParkedWasParked CodeOnce RecipeIsWhole
PROPERTIES StartsQuiet AcceptedJobIsServed
CHECK_DEADLOCK FALSE
