CONSTANTS
  c1 = c1
  c2 = c2
  c3 = c3
  Owner = owner
  Callers <- ThreeCallers
SPECIFICATION Spec
INVARIANT TypeOK
INVARIANT UseIsAlive
INVARIANT SignalOnce
PROPERTY DestructorReturns
