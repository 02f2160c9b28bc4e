SPECIFICATION Spec
CONSTANTS
  Strings = {"a", "b"}
  INITIAL_CAPACITY = 4
  CountLimit = 32
  Members <- MCMembers
  Operations <- MCOperations
  Sites <- MCSites
  LRT_BOOTSTRAP = "a"
  BSM_DESC = "b"
  BOOTSTRAP_METHODS = "b"
  Spares = {0, 1, 2}
  MaxUses = 4
CHECK_DEADLOCK FALSE
INVARIANTS PoolTypeOK WithinCapacity Utf8Unique UsesResolve SitesResolve LoopsWhenHalfFull FileReadsBack
