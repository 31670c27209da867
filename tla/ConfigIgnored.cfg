\* The same server, its frames going through ConnectionLimiter.
CONSTANTS
  Specs <- OneSpec
  Configs <- AllConfigs
  Sizes = {0, 1, 2, 3, 4, 5, 6}
SPECIFICATION SpecDefault
INVARIANT ConfigHonoured
