\* A page is invalidated while two workers of its owner keep pinning it; the
\* transactions abort (no writes), which keeps the instance small.
CONSTANTS
  A = A
  B = B
  a1 = a1
  a2 = a2
  b1 = b1
  Instance = {A, B}
  Thread = {a1, a2, b1}
  Ins <- TwoOne
  Page = {0}
  WriteSet <- OnePage
  MaxWrites = 0
  Unreliable = {}
SPECIFICATION FairSpec
CHECK_DEADLOCK FALSE
PROPERTY InvalidationDone
