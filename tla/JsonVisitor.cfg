\* Documents up to two containers deep with two members each.
CONSTANTS
  Letters = {"a", "b"}
  CheckDecisions <- Answers
  InvalidCost = 10
  MaxDepth = 2
  MaxArraySize = 2
  MaxObjectSize = 2
  MaxStringSize = 1
  MaxKeySize = 2
SPECIFICATION Spec
INVARIANTS
  HandlerInv
  VerdictSound
  BufferBounded
PROPERTY EventsTellTruth
CHECK_DEADLOCK FALSE
