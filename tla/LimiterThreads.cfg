\* Two threads: a section may carry a time that lies behind the previous one.
CONSTANTS
  Capacity = 2
  Rate = 1
  Conns = {c1, c2, c3}
  Threads = {t1, t2}
  MaxConnections = 2
  MessageSpec <- OneSpec
  Payloads <- ThreePayloads
  CheckDecisions <- VisitorDecisions
  IdleFor = 2
  MaxTime = 2
  MaxDebt = 0
SPECIFICATION Spec
SYMMETRY Symmetry
INVARIANTS
  BudgetInv
  SizeBounded
  WithinBudget
PROPERTIES
  DebtKept
  OthersUntouched
CHECK_DEADLOCK FALSE
