SPECIFICATION Spec
CONSTANTS
  Programs <- WithPrograms
  Compiler <- Generate
  Python <- Read
  MaxTrace = 6
INVARIANT Loads
CHECK_DEADLOCK FALSE
