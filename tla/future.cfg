CONSTANTS
  s1 = s1
  s2 = s2
  s3 = s3
  Setters <- ThreeSetters
  Owner = owner
  MayFail = TRUE
  MayAbandon = TRUE
SPECIFICATION Spec
INVARIANT TypeOK
INVARIANT KeptOnce
INVARIANT Delivered
PROPERTY WakesUp
CHECK_DEADLOCK FALSE
