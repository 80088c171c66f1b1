\* Three threads on one row whose history and request list start short.
CONSTANTS
  k1 = k1
  k2 = k2
  Key = {k1}
  Thread = {t1, t2, t3}
  HisLen = 2
  ReqLen = 1
  UINT64_MAX = 12
  Query <- OneRow
SPECIFICATION Spec
SYMMETRY Symmetry
INVARIANTS TypeOK HistoryInv PrewriteInv WriterInv WaiterInv NoSkippedWrite NoLostUpdate
