\* Two threads prewrite two rows in opposite orders; a long transaction keeps
\* the history full, so that the oldest version is recycled.
CONSTANTS
  k1 = k1
  k2 = k2
  Key = {k1, k2}
  Thread = {t1, t2}
  HisLen = 2
  ReqLen = 1
  UINT64_MAX = 10
  Query <- TwoRows
SPECIFICATION FairSpec
INVARIANTS HistoryInv NoSkippedWrite NoLostUpdate
PROPERTY TxnEnds
