\* Two workers of A and one of B; page 0 moves between the instances, page 1 is
\* fetched by A only.  A starts two transactions, B one.
CONSTANTS
  Key = {0, 1}
  ThreadA = {a1, a2}
  ThreadB = {b1}
  HisLen = 2
  ReqLen = 1
  UINT64_MAX = 6
  LimitB = 2
  QueryA <- WriteBoth
  QueryB <- OneRow
SPECIFICATION Spec
SYMMETRY WorkersA
INVARIANTS TypeOK OwnerHasLastCommit WriterOwnsPage RowsConsistent NotAllWait
PROPERTY FirstWriteFresh
