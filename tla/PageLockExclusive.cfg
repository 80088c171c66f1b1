\* The comment on mode P.
CONSTANTS
  A = A
  B = B
  a1 = a1
  a2 = a2
  b1 = b1
  Instance = {A, B}
  Thread = {a1, b1}
  Ins <- OneEach
  Page = {0}
  WriteSet <- OnePage
  MaxWrites = 1
  Unreliable = {}
SPECIFICATION Spec
CHECK_DEADLOCK FALSE
INVARIANT ExclusiveOwner
