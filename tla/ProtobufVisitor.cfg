\* Bytes of four bits, varint digits of three, words of eight.
CONSTANTS
  Digit = 8
  Wide = 2
  Narrow = 1
  Inputs <- AllInputs
  CheckDecisions <- Answers
  InvalidCost = 10
  MaxSeen = 3
SPECIFICATION FairSpec
INVARIANT ToldWhatWasSent
PROPERTY VisitEnds
CHECK_DEADLOCK FALSE
