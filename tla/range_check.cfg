CONSTANTS
  t1 = t1
  t2 = t2
  Threads <- TwoThreads
  Word = 8
  Base = 3
  Size = 2
SPECIFICATION Safety
INVARIANT TypeOK
INVARIANT AcceptsOnlyGood
INVARIANT RejectsOnlyBad
SYMMETRY ThreadSymmetry
