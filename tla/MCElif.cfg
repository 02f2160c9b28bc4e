SPECIFICATION Spec
CONSTANTS
  Groups = {"if"}
  Sources <- FilesWithElif
  Parser <- parser_parse
CHECK_DEADLOCK FALSE
INVARIANT ParsesAsPython
