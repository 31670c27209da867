\* One type, every config of at most two tiers, sizes around every bound.
CONSTANTS
  Specs <- OneSpec
  Configs <- AllConfigs
  Sizes = {0, 1, 2, 3, 4, 5, 6}
SPECIFICATION Spec
INVARIANTS
  PricedByTightestTier
  OversizePaysMost
  NothingIsFree
