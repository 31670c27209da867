\* Every handler, its requests one change or two away from an accepted one; a request is parsed once.
CONSTANTS
  MaxInt32 = 999
  MaxUint32 = 1999
  MaxInt64 = 3999
  MaxUint64 = 7999
  Specs <- HandlerTable
  Calls <- AllCalls
SPECIFICATION Spec
CHECK_DEADLOCK FALSE
INVARIANTS
  NeverThrows
  NormalFormStable
  MembersPopulated
  IntegersAreExact
  VersionTwoTightensBools
  ServersAgree
  AliasIsRenaming
  SchemaListsWhatIsRead
  IdentYieldsToAccount
  LimitWithinPolicy
