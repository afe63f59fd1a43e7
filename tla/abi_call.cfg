CONSTANTS
  t1 = t1
  t2 = t2
  b1 = b1
  b2 = b2
  b3 = b3
  b4 = b4
  b5 = b5
  Threads <- TwoThreads
  MaxDepth = 4
  Buffers <- FiveBuffers
  Faults <- TidyFaults
SPECIFICATION Safety
INVARIANT TypeOK
INVARIANT NothingLeaks
INVARIANT OneOwner
INVARIANT ReadsOwn
SYMMETRY CallSymmetry
