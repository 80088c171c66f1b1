\* A buffer of three slots, enabled by parser() or left disabled as in
\* main_instance.
CONSTANTS
  ABORT_BUFFER_SIZE = 3
  ABORT_BUFFER_ENABLE = TRUE
  MAX_TXN_PER_PART = 4
  MaxPenalty = 2
SPECIFICATION FairSpec
INVARIANTS TypeOK RoomForAbort QueryConserved QueueNotOverrun
PROPERTY KeepsWorking
