----------------------------- MODULE PythonGrammar -----------------------------
(***************************************************************************)
(* Python's grammar of expressions: one set of phrases for every           *)
(* nonterminal and size, the size being the number of names and constructs *)
(* in the phrase.  A phrase is its tokens, the operators of the node it    *)
(* will be part of, and its trees.  The rules are those of the language,   *)
(* left recursive and without binding powers.  Not all of the language:    *)
(* what parser.c leaves out has no rule here.                              *)
(***************************************************************************)
EXTENDS Integers, SequencesExt

Phrase(tokens, op, trees) == [tokens |-> tokens, op |-> op, trees |-> trees]

p ++ q == Phrase(p.tokens \o q.tokens, p.op \o q.op, p.trees \o q.trees)

Tree(kind, op, kids) == [kind |-> kind, op |-> op, kids |-> kids]

As(kind, p) == Phrase(p.tokens, <<>>, <<Tree(kind, p.op, p.trees)>>)

(* A token that leaves no trace in the tree, and one that names its node.  *)
T(token) == Phrase(<<token>>, <<>>, <<>>)

Op(token) == Phrase(<<token>>, <<token>>, <<>>)

Nothing == Phrase(<<>>, <<>>, <<>>)

Absent == As("None", Nothing)

Name == As("Name", Op("a"))

CompareOps ==
  {Op("<"), Op("is"), Op("in"), Phrase(<<"is", "not">>, <<"is not">>, <<>>),
   Phrase(<<"not", "in">>, <<"not in">>, <<>>)}

Targets ==
  {Name, As("Tuple", Name ++ T(",") ++ Name), As("Tuple", Name ++ T(",") ++ Name ++ T(","))}

Parameters == {Nothing, Op("a"), Op("a") ++ T(","), Op("a") ++ T(",") ++ Op("a")}

-----------------------------------------------------------------------------
(* The phrases of size n, from those of the smaller sizes in rows, with    *)
(* the allowed constructs only.                                            *)
Row(rows, n, allowed) ==
  LET
  Of(nt, size) == IF size \in 1..(n - 1) THEN rows[size][nt] ELSE {}
  Optional(nt, size) == IF size = 0 THEN {Absent} ELSE Of(nt, size)
  Join(left, sep, right, size) ==
    UNION {{l ++ sep ++ r : l \in Of(left, i), r \in Of(right, size - i)} : i \in 1..(size - 1)}
  When(construct, phrases) == IF construct \in allowed THEN phrases ELSE {}
  Between(open, phrases, close) == {T(open) ++ p ++ T(close) : p \in phrases}
  Nodes(kind, phrases) == {As(kind, p) : p \in phrases}
  OrComma(phrases) == phrases \cup {p ++ T(",") : p \in phrases}

  tuples ==
    {p \in Of("list", n - 1) : Len(p.trees) > 1} \cup {p ++ T(",") : p \in Of("list", n - 1)}
  empty ==
    {As("Tuple", T("(") ++ T(")")), As("List", T("[") ++ T("]")), As("Dict", T("{") ++ T("}"))}
  atom ==
    (IF n = 1 THEN {Name} ELSE {}) \cup When("display", IF n = 1 THEN empty ELSE {}) \cup
    When("group", Between("(", Of("named", n - 1), ")")) \cup
    When("yield", Between("(", Of("yield", n - 1), ")")) \cup
    When("display",
      Nodes("Tuple", Between("(", tuples, ")")) \cup
      Nodes("List", Between("[", OrComma(Of("list", n - 1)), "]")) \cup
      Nodes("Set", Between("{", OrComma(Of("list", n - 1)), "}")) \cup
      Nodes("Dict", Between("{", OrComma(Of("pairs", n - 1)), "}"))) \cup
    When("for",
      Nodes("GeneratorExp", Between("(", Of("comprehension", n - 1), ")")) \cup
      Nodes("ListComp", Between("[", Of("comprehension", n - 1), "]")) \cup
      Nodes("SetComp", Between("{", Of("comprehension", n - 1), "}")) \cup
      Nodes("DictComp", Between("{", Of("dict comprehension", n - 1), "}")))
  primary == atom \cup
    When("trailer",
      Nodes("Attribute", {p ++ T(".") ++ Op("a") : p \in Of("primary", n - 1)}) \cup
      Nodes("Call", {p ++ T("(") ++ T(")") : p \in Of("primary", n - 1)}) \cup
      Nodes("Call", {p ++ T(")") : p \in OrComma(Join("primary", T("("), "arguments", n - 1))}) \cup
      Nodes("Subscript", {p ++ T("]") : p \in Join("primary", T("["), "index", n - 1)}))

  Left(nt, op, operand) ==
    When(op, Nodes("BinOp", Join(nt, Op(op), operand, n - 1)))
  power == primary \cup Left("primary", "**", "factor")
  factor == power \cup
    When("-", Nodes("UnaryOp", {Op("-") ++ p : p \in Of("factor", n - 1)}))
  term == factor \cup Left("term", "*", "factor")
  sum == term \cup Left("sum", "-", "term")
  shift == sum \cup Left("shift", "<<", "sum")
  bitand == shift \cup Left("bitand", "&", "shift")
  bitxor == bitand \cup Left("bitxor", "^", "bitand")
  bitor == bitxor \cup Left("bitor", "|", "bitxor")
  compared ==
    UNION {Join("bitor", op, "bitor", n - 1) \cup Join("compared", op, "bitor", n - 1) :
           op \in {op \in CompareOps : op.op[1] \in allowed}}
  inversion == bitor \cup Nodes("Compare", compared) \cup
    When("not", Nodes("UnaryOp", {Op("not") ++ p : p \in Of("inversion", n - 1)}))
  ands ==
    When("and", Join("inversion", Op("and"), "inversion", n - 1)
                \cup Join("ands", T("and"), "inversion", n - 1))
  conjunction == inversion \cup Nodes("BoolOp", ands)
  ors ==
    When("or", Join("conjunction", Op("or"), "conjunction", n - 1)
               \cup Join("ors", T("or"), "conjunction", n - 1))
  disjunction == conjunction \cup Nodes("BoolOp", ors)
  conditions ==
    UNION {{p ++ T("else") ++ e : p \in Join("disjunction", T("if"), "disjunction", n - 1 - i),
                                  e \in Of("expression", i)} : i \in 1..(n - 3)}
  expression == disjunction \cup
    When("if", Nodes("IfExp", conditions)) \cup
    When("lambda",
      Nodes("Lambda", {T("lambda") ++ p ++ T(":") ++ e :
                         p \in Parameters, e \in Of("expression", n - 1)})) \cup
    (* an await that an operator follows is not parsed, so it stands alone *)
    When("await", Nodes("Await", {T("await") ++ p : p \in Of("primary", n - 1)}))
  named == expression \cup
    When(":=", Nodes("NamedExpr", {Name ++ T(":=") ++ e : e \in Of("expression", n - 2)}))
  yield ==
    (IF n = 1 THEN {As("Yield", T("yield"))} ELSE {}) \cup
    Nodes("Yield", {T("yield") ++ e : e \in Of("expression", n - 1)}) \cup
    Nodes("YieldFrom", {T("yield") ++ T("from") ++ e : e \in Of("expression", n - 1)})

  pair == Join("expression", T(":"), "expression", n)
  positional == named \cup Nodes("Starred", {T("*") ++ e : e \in Of("expression", n - 1)})
  keyword ==
    Nodes("keyword", {Op("a") ++ T("=") ++ e : e \in Of("expression", n - 1)}
                     \cup {Op("**") ++ e : e \in Of("expression", n - 1)})
  positionals == positional \cup Join("positionals", T(","), "positional", n)
  keywords == keyword \cup Join("keywords", T(","), "keyword", n)
  steps(k) == {T(":") ++ e : e \in Optional("expression", k)}
              \cup (IF k = 0 THEN {Absent} ELSE {})
  bounds ==
    UNION {{lower ++ T(":") ++ upper ++ step :
              lower \in Optional("expression", ij[1]), upper \in Optional("expression", ij[2]),
              step \in steps(n - 1 - ij[1] - ij[2])} :
           ij \in {ij \in (0..n) \X (0..n) : ij[1] + ij[2] < n}}
  loop ==
    {T("for") ++ target ++ T("in") ++ p : target \in Targets, p \in Of("disjunction", n - 1)}
    \cup Join("loop", T("if"), "disjunction", n)
  clauses == Nodes("comprehension", loop) \cup Join("clauses", Nothing, "clause", n)
  IN
  [primary |-> primary, factor |-> factor, term |-> term, sum |-> sum, shift |-> shift,
   bitand |-> bitand, bitxor |-> bitxor, bitor |-> bitor, compared |-> compared,
   inversion |-> inversion, ands |-> ands, conjunction |-> conjunction, ors |-> ors,
   disjunction |-> disjunction, expression |-> expression, named |-> named, yield |-> yield,
   list |-> named \cup Join("list", T(","), "named", n),
   pair |-> pair, pairs |-> pair \cup Join("pairs", T(","), "pair", n),
   positional |-> positional, positionals |-> positionals,
   keyword |-> keyword, keywords |-> keywords,
   arguments |-> positionals \cup keywords \cup Join("positionals", T(","), "keywords", n),
   index |-> named \cup Nodes("Slice", bounds),
   loop |-> loop, clause |-> Nodes("comprehension", loop), clauses |-> clauses,
   comprehension |-> Join("named", Nothing, "clauses", n)] @@
  ("dict comprehension" :> Join("pair", Nothing, "clauses", n))

(* The expressions of at most a size                                       *)
Expressions(size, allowed) ==
  LET rows == FoldLeft(LAMBDA done, n : Append(done, Row(done, n, allowed)),
                       <<>>, [n \in 1..size |-> n])
  IN UNION {rows[n].expression : n \in 1..size}
================================================================================
