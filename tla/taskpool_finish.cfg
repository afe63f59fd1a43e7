CONSTANTS
  w1 = w1
  w2 = w2
  owner = owner
  peer = peer
  Workers <- TwoWorkers
  Users <- OwnerOnly
  Owner = owner
  Cancellers <- None
  Nesting = FALSE
  MustFinish = TRUE
  Slots = 2
  MaxTasks = 3
SPECIFICATION Spec
INVARIANT FinishedAll
PROPERTY GetReturns
PROPERTY DestructorReturns
PROPERTY ImplementsAbs
