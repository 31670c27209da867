\* The requests of book_offers.
CONSTANTS
  MaxInt32 = 999
  MaxUint32 = 1999
  MaxInt64 = 3999
  MaxUint64 = 7999
  Specs <- HandlerTable
  Calls <- BookOffersCalls
SPECIFICATION Spec
CHECK_DEADLOCK FALSE
INVARIANTS
  MptBranchUnreachable
