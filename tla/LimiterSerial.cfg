\* One thread: sections are entered in the order of the times they carry.
CONSTANTS
  Capacity = 2
  Rate = 1
  Conns = {c1, c2, c3}
  Threads = {t1}
  MaxConnections = 2
  MessageSpec <- OneSpec
  Payloads <- ThreePayloads
  CheckDecisions <- VisitorDecisions
  IdleFor = 2
  MaxTime = 2
  MaxDebt = 2
SPECIFICATION FairSpec
INVARIANTS
  RefusalsEarned
PROPERTIES
  SweepSparesSeen
  SweepForgivesNothing
  EvictsQuietest
  SilentIsForgotten
CHECK_DEADLOCK FALSE
