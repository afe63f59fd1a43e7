CONSTANTS
  w1 = w1
  w2 = w2
  owner = owner
  peer = peer
  Workers <- OneWorker
  Users <- TwoUsers
  Owner = owner
  Cancellers <- TwoUsers
  Nesting = FALSE
  MustFinish = TRUE
  Slots = 3
  MaxTasks = 2
SPECIFICATION Safety
INVARIANT HandleResolves
CHECK_DEADLOCK FALSE
