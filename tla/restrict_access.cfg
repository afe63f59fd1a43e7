CONSTANTS
  t1 = t1
  t2 = t2
  t3 = t3
  Threads <- ThreeThreads
SPECIFICATION Spec
INVARIANT TypeOK
INVARIANT RestrictedInside
PROPERTY GetsIn
CHECK_DEADLOCK FALSE
