SPECIFICATION Spec
CONSTANTS
  Header = 2
  TupleSize = 2
  PageSize = 6
  NumKeys = 5
  Chunk = 2
  HashOrder <- Order
  Share = 2
  t1 = t1
  t2 = t2
  Thread = {t1, t2}
  RowsOf <- Rows
  Setup <- SmallAndParallel
  MaxWrites = 2
  Ops = {"write"}
CHECK_DEADLOCK FALSE
INVARIANT RowsFound
