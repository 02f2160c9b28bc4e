------------------------------- MODULE PythonFiles -------------------------------
(***************************************************************************)
(* The files that the parser is checked with: bounded instances of the     *)
(* nonterminals of PythonStatements, combined where they share tokens.     *)
(***************************************************************************)
EXTENDS PythonStatements

Arithmetic == {"**", "*", "-", "<<", "&", "^", "|"}

Others == {"<", "is", "in", "not in", "is not", "not", "and", "or", "if"}

Nested == {"group", "display", "for", "trailer", "lambda", "yield", "await", ":="}

(* Every construct with every other at a small size, and the constructs    *)
(* that share tokens at the sizes where they meet.                         *)
Grammars ==
  [all |-> [size |-> 3, allowed |-> Arithmetic \cup Others \cup Nested],
   operators |-> [size |-> 6, allowed |-> Arithmetic \cup Others],
   prefixes |-> [size |-> 7, allowed |-> {"**", "*", "-", "in", "not in", "not", "or", "if"}],
   displays |-> [size |-> 4, allowed |-> {"display", "not in", "if"}],
   comprehensions |-> [size |-> 7, allowed |-> {"for", "if", "not in"}],
   calls |-> [size |-> 5, allowed |-> {"trailer", "lambda", "-"}],
   yields |-> [size |-> 5, allowed |-> {"group", "yield", "await", ":=", "lambda", "if"}]]

(* Expressions with a colon, an `in', an `if', a comma or a star           *)
Few ==
  {Name, As("Lambda", T("lambda") ++ Op("b") ++ T(":") ++ One),
   As("Compare", Name ++ Op("in") ++ Name),
   As("IfExp", Name ++ T("if") ++ One ++ T("else") ++ Name),
   As("Tuple", T("(") ++ Name ++ T(",") ++ One ++ T(")")),
   As("Call", Name ++ T("(") ++ As("Starred", T("*") ++ Name) ++ T(")"))}

Values == Few \cup {As("Yield", T("yield")), As("Yield", T("yield") ++ One),
                    As("YieldFrom", T("yield") ++ T("from") ++ Name)}

Assignable ==
  {Name, As("Attribute", Name ++ T(".") ++ Op("b")),
   As("Subscript", Name ++ T("[") ++ One ++ T("]"))}

-----------------------------------------------------------------------------
(* The files of each kind take what stands in them as parameters, so that  *)
(* each is computed where it is used.                                      *)
Call == As("Expr", Name)

Short ==
  {Line(As("Pass", T("pass"))), Line(Call ++ T(";")),
   Line(Call ++ T(";") ++ As("Return", T("return") ++ One))}

Blocks(lines) == {Block(p) : p \in lines}

(* A statement, two of them, or one with a semicolon behind it             *)
SimpleLines(statements) ==
  {Line(s) : s \in statements} \cup {Line(s ++ T(";") ++ Call) : s \in statements}
  \cup {Line(s ++ T(";")) : s \in Words \cup {Call}}

(* The last line may end without a line break, but not behind a return or  *)
(* raise alone.                                                            *)
LastLines(statements) == (statements \ Words) \cup Ifs({Name}, {Block(Call)}, FALSE)

(* Alternatives of flat patterns, and patterns in patterns                 *)
Flats == {As("MatchAs", Op("a")), As("MatchValue", One), As("MatchSequence", T("[") ++ T("]"))}

Deep(flats) ==
  Patterns(flats) \cup Closed(flats \cup {As("MatchAs", As("MatchValue", One) ++ Op("as") ++ Op("b"))})

Definitions(blocks) ==
  Functions({Name}, {ParameterList(1, 0, 0, "none", <<>>, FALSE)}, blocks)
  \cup ClassDefs({Name}, blocks)

(* One of each kind around a block, in each other and after each other     *)
Samples(blocks) ==
  UNION {Ifs({Name}, blocks, FALSE), Loops({Name}, blocks), Tries({Name}, blocks),
         Withs({Name}, blocks), Definitions(blocks)}

Nesting(lines) == UNION {Samples({Block(p)}) : p \in lines}

Pairs(lines) == {p ++ q : p \in lines, q \in lines}

GroupsOfFiles ==
  DOMAIN Grammars \cup
  {"simple", "last line", "if", "loop", "try", "with", "parameters", "class", "decorators",
   "patterns", "match", "nesting", "sequence"}

Lines(group) ==
  LET one == {Block(Line(Call))}
      two == Blocks({Line(Call), Line(Call ++ T(";"))})
      blocks == Blocks(Short)
      simple == Simple(Few, Values, Assignable)
  IN CASE group = "simple" -> SimpleLines(simple)
       [] group = "last line" -> LastLines(simple)
       [] group = "if" -> Ifs(Few, blocks, FALSE)
       [] group = "loop" -> Loops(Few, blocks)
       [] group = "try" -> Tries(Few, two)
       [] group = "with" -> Withs(Few, two)
       [] group = "parameters" -> Functions({Name}, ParameterLists({T(",")}), one)
       [] group = "class" -> ClassDefs(Few, blocks)
       [] group = "decorators" -> Decorated(Few, Definitions(two))
       [] group = "patterns" -> Matches({Name}, Deep(Flats), one)
       [] group = "match" -> Matches(Few, Flats, two)
       [] group = "nesting" -> Nesting(Samples(one))
       [] group = "sequence" -> Pairs(Samples(one) \cup Short)
       [] OTHER -> {Line(As("Expr", e)) :
                      e \in Expressions(Grammars[group].size, Grammars[group].allowed)}

Files(group) == {File(p) : p \in Lines(group)}

FilesWithElif(group) ==
  {File(p) : p \in Ifs({Name}, Blocks({Line(Call), Line(Call ++ T(";"))}), TRUE)}
================================================================================
