SPECIFICATION Spec
CONSTANTS
  Files <- CRLFFiles
  Runs <- Indents
  MAX_INDENT_STACK = 9
CHECK_DEADLOCK FALSE
PROPERTIES Returns
