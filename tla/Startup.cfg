\* Two of three instances may lose calls; a registration is delivered at most twice.
CONSTANTS
  Instance = {i1, i2, i3}
  Unreliable = {i1, i2}
  MaxDeliveries = 2
SPECIFICATION FairSpec
INVARIANTS TypeOK BarrierHolds StopsOnlyOnRepeat
PROPERTY AllStart
CHECK_DEADLOCK FALSE
