\* Expected to be violated: one worker in each instance, one row.
CONSTANTS
  Key = {0}
  ThreadA = {a1}
  ThreadB = {b1}
  HisLen = 2
  ReqLen = 1
  UINT64_MAX = 6
  LimitB = 6
  QueryA <- OneRow
  QueryB <- OneRow
SPECIFICATION Spec
PROPERTY NoUpdateLost
