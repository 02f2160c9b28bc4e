-------------------------------- MODULE Reading --------------------------------
(***************************************************************************)
(* The reading of a file: a parser is given the tokens of a file of the    *)
(* grammar, whose tree is known.                                           *)
(***************************************************************************)
EXTENDS Expressions

CONSTANTS
  Groups,       \* of files
  Sources(_),   \* the files of each: records of the tokens and the tree
  Parser(_)     \* the parser: of tokens, the result

VARIABLES
  group,        \* of the file to be read
  source,       \* the file read
  parsed        \* the result of the parser

vars == <<group, source, parsed>>

NoSource == [tokens |-> <<>>, tree |-> None]

Init == group \in Groups /\ source = NoSource /\ parsed = Result(None, <<>>)

Parse ==
  /\ source = NoSource
  /\ source' \in Sources(group)
  /\ parsed' = Parser(source'.tokens)
  /\ UNCHANGED group

Next == Parse

Spec == Init /\ [][Next]_vars

(* Every file of Python's grammar is read to its end and gets the tree     *)
(* that the grammar derives: the binding powers, the look-aheads and stops *)
(* of the expressions and the keywords, separators and blocks around them. *)
ParsesAsPython == parsed = Result(source.tree, <<>>)
================================================================================
