\* Two threads, every operation, a bucket of two tokens.
CONSTANTS
  Capacity = 2
  Rate = 1
  Threads = {t1, t2}
  Requests <- MCRequests
  StartTime = 1
  MaxTime = 3
  MaxCalls = 2
SPECIFICATION FairSpec
INVARIANTS
  SharedInv
  WindowBound
  LedgerBound
PROPERTIES
  OnlyDrainsStray
  CallsReturn
CHECK_DEADLOCK FALSE
