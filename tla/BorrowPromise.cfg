\* Two threads that drain and borrow, two calls each.
CONSTANTS
  Capacity = 2
  Rate = 1
  Threads = {t1, t2}
  Requests <- MCRequests
  StartTime = 1
  MaxTime = 3
  MaxCalls = 2
SPECIFICATION PromiseSpec
PROPERTIES
  DebtRespected
CHECK_DEADLOCK FALSE
