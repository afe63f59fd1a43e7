CONSTANTS
  c1 = c1
  c2 = c2
  n1 = n1
  Callers <- TwoCallers
  Names <- OneName
  Options <- KnownAndOther
  MaxSessions = 2
  EnclaveThreads = 3
  MaxKeys = 2
  MaxCreate = 2
  MaxOpen = 1
  MaxLost = 1
  Lang = "cpp"
  Faults <- AllFaults
SPECIFICATION Spec
INVARIANT TypeOK
INVARIANT HandlesOwned
INVARIANT AnswersMatch
PROPERTY CallsEnd
CHECK_DEADLOCK FALSE
