\* Bytes of four bits, varint digits of three, words of eight.
CONSTANTS
  Digit = 8
  Wide = 2
  Narrow = 1
  Inputs <- BehindOther
  CheckDecisions <- Passes
  InvalidCost = 10
  MaxSeen = 3
SPECIFICATION FairSpec
PROPERTY VisitReturns
CHECK_DEADLOCK FALSE
