SPECIFICATION Spec
CONSTANTS
  Files <- MCFiles
  Runs <- Indents
  MAX_INDENT_STACK = 9
CHECK_DEADLOCK FALSE
INVARIANTS LayoutTypeOK OpenBlocksNested BlocksBalance TokensFollowLines
PROPERTIES Returns
