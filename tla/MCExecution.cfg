SPECIFICATION Spec
CONSTANTS
  Programs <- SupportedPrograms
  Compiler <- Generate
  Python <- Read
  MaxTrace = 8
INVARIANTS Loads BehavesAsPython
CHECK_DEADLOCK FALSE
