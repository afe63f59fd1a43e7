CONSTANTS
  w1 = w1
  w2 = w2
  owner = owner
  peer = peer
  Workers <- TwoWorkers
  Users <- OwnerOnly
  Owner = owner
  Cancellers <- OwnerOnly
  Nesting = FALSE
  MustFinish = FALSE
  Slots = 3
  MaxTasks = 3
SPECIFICATION Spec
INVARIANT HandleResolves
PROPERTY DestructorReturns
PROPERTY ImplementsAbs
CHECK_DEADLOCK FALSE
