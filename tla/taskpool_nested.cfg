CONSTANTS
  w1 = w1
  w2 = w2
  owner = owner
  peer = peer
  Workers <- TwoWorkers
  Users <- TwoUsers
  Owner = owner
  Cancellers <- TwoUsers
  Nesting = TRUE
  MustFinish = FALSE
  Slots = 4
  MaxTasks = 2
SPECIFICATION Safety
INVARIANT TypeOK
INVARIANT WorkConserving
INVARIANT PoolResolves
INVARIANT RunsAtMostOnce
INVARIANT CancelledStayOut
SYMMETRY WorkerSymmetry
CHECK_DEADLOCK FALSE
