SPECIFICATION Spec
CONSTANTS
  Waiters = {w1}
  NoWaiter = NoWaiter
  OffroadPolls = 3
  ParkedPolls = 2
  MaxAttempts = 2
  MaxJobs = 1
  MaxCuts = 1
INVARIANTS RefusedOnlyWhileRunning
