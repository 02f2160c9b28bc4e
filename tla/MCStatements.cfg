SPECIFICATION Spec
CONSTANTS
  Groups <- GroupsOfFiles
  Sources <- Files
  Parser <- parser_parse
CHECK_DEADLOCK FALSE
INVARIANT ParsesAsPython
