\* Expected to be violated.
CONSTANTS
  k1 = k1
  k2 = k2
  Key = {k1}
  Thread = {t1, t2}
  HisLen = 2
  ReqLen = 1
  UINT64_MAX = 14
  Query <- OneRow
SPECIFICATION Spec
INVARIANT ReadsStableVersion
