\* A sweep among frames whose sections come out of order.
CONSTANTS
  Capacity = 2
  Rate = 1
  Conns = {c1, c2}
  Threads = {t1, t2}
  MaxConnections = 2
  MessageSpec <- OneSpec
  Payloads <- ThreePayloads
  CheckDecisions <- VisitorDecisions
  IdleFor = 2
  MaxTime = 3
  MaxDebt = 0
SPECIFICATION Spec
PROPERTY SweepSparesSeen
CHECK_DEADLOCK FALSE
