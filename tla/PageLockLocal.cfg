\* Two workers of one instance and one of another contend for a page;
\* the calls of the latter may fail or be sent twice.
CONSTANTS
  A = A
  B = B
  a1 = a1
  a2 = a2
  b1 = b1
  Instance = {A, B}
  Thread = {a1, a2, b1}
  Ins <- TwoOne
  Page = {0}
  WriteSet <- OnePage
  MaxWrites = 1
  Unreliable = {b1}
SPECIFICATION Spec
SYMMETRY Workers
CHECK_DEADLOCK FALSE
INVARIANTS TypeOK OneFetch ExclusiveUnlessOvertaken WriterHoldsPage OwnerHasAllWrites
