----------------------------- MODULE PythonStatements -----------------------------
(***************************************************************************)
(* Python's grammar of statements, from the phrases of PythonGrammar: one  *)
(* operator for every nonterminal, with the expressions and the blocks     *)
(* that may stand in it as parameters.  What parser.c leaves out (listed   *)
(* in README.md) has no rule here.                                         *)
(***************************************************************************)
EXTENDS PythonGrammar

One == As("Constant", Op("1"))

(* The trees of a phrase as one list                                       *)
List(p) == Phrase(p.tokens, <<>>, <<Tree("List", <<>>, p.trees)>>)

Separated(phrases) ==
  FoldLeft(LAMBDA p, q : IF p = Nothing THEN q ELSE p ++ T(",") ++ q, Nothing, phrases)

(* One or two of them, with commas                                         *)
OneOrTwo(phrases) == phrases \cup {p ++ T(",") ++ q : p \in phrases, q \in phrases}

Optional(keyword, phrases) == {Absent} \cup {T(keyword) ++ p : p \in phrases}

Line(p) == p ++ T("NEWLINE")

-----------------------------------------------------------------------------
(* Simple statements *)
Dotted == {Op("a"), Op("a") ++ Op(".") ++ Op("b")}

Aliases(names) == {As("alias", n ++ as) : n \in names, as \in {Nothing, Op("as") ++ Op("b")}}

Imports == {As("Import", T("import") ++ p) : p \in OneOrTwo(Aliases(Dotted))}

ImportsFrom ==
  LET names == OneOrTwo(Aliases({Op("a")}))
      imported == {As("alias", Op("*"))} \cup names \cup {T("(") ++ p ++ T(")") : p \in names}
      from == Dotted \cup {Op("."), Op(".") ++ Op(".")} \cup {Op(".") ++ p : p \in Dotted}
  IN {As("ImportFrom", T("from") ++ p ++ T("import") ++ q) : p \in from, q \in imported}

(* Targets of an assignment: targets are names, attributes and the like.   *)
Assignments(targets, values) ==
  LET starred == {As("Starred", T("*") ++ t) : t \in targets}
      items == targets \cup starred
      tuples == {As("Tuple", p ++ T(",")) : p \in items}
                \cup {As("Tuple", p ++ T(",") ++ q) : p \in items, q \in items}
                \cup {As("Tuple", p ++ T(",") ++ q ++ T(",") ++ Name) : p \in items, q \in items}
  IN {As("Assign", t ++ T("=") ++ v) : t \in targets \cup tuples, v \in values}
     \cup {As("Assign", t ++ T("=") ++ u ++ T("=") ++ v) : t, u \in targets, v \in values}
     \cup {As("AugAssign", t ++ Op(op) ++ v) : t \in targets, op \in {"+=", "**="}, v \in values}

Words == {As("Pass", T("pass")), As("Break", T("break")), As("Continue", T("continue")),
          As("Return", T("return")), As("Raise", T("raise"))}

(* exprs are expressions, values also yields.                              *)
Simple(exprs, values, targets) ==
  LET names == OneOrTwo({Name, As("Name", Op("b"))})
      tuple == {As("Tuple", e ++ T(",")) : e \in exprs}
               \cup {As("Tuple", e ++ T(",") ++ f) : e \in exprs, f \in exprs}
  IN UNION {Words, Imports, ImportsFrom, Assignments(targets, values),
            {As("Expr", e) : e \in values \cup tuple},
            {As("Return", T("return") ++ e) : e \in exprs},
            {As("Raise", T("raise") ++ e ++ c) : e \in exprs, c \in Optional("from", exprs)},
            {As("Assert", T("assert") ++ e ++ c) : e \in exprs, c \in Optional(",", exprs)},
            {As("Delete", T("del") ++ p) : p \in OneOrTwo(targets)},
            {As("Global", T("global") ++ p) : p \in names},
            {As("Nonlocal", T("nonlocal") ++ p) : p \in names}}

-----------------------------------------------------------------------------
(* Parameters: n of them by position, the first k of these by position     *)
(* only, the last d with a default; a star or not, kw by keyword only (has *)
(* it a default?), and a dictionary for the rest or not.                   *)
Param(i) == As("arg", Op(IF i % 2 = 1 THEN "a" ELSE "b"))

Default(i) == As("Name", Op(IF i % 2 = 1 THEN "a" ELSE "b"))

Rest(kwarg) == As("arg", Op("_") ++ (IF kwarg THEN T(":") ++ One ELSE Nothing))

ParameterList(n, k, d, star, kw, kwarg) ==
  LET positional(i) == IF i > n - d THEN Param(i) ++ T("=") ++ Default(i) ELSE Param(i)
      keyword(i) == IF kw[i] THEN Param(i) ++ T("=") ++ Default(i) ELSE Param(i)
      slash == IF k = 0 THEN <<>> ELSE <<T("/")>>
      starred == CASE star = "args" -> <<T("*") ++ Rest(FALSE)>>
                   [] star = "star" -> <<T("*")>>
                   [] star = "none" -> <<>>
      tokens == Separated([i \in 1..k |-> positional(i)] \o slash
                          \o [i \in 1..(n - k) |-> positional(k + i)] \o starred
                          \o [i \in DOMAIN kw |-> keyword(i)]
                          \o (IF kwarg THEN <<T("**") ++ Rest(TRUE)>> ELSE <<>>)).tokens
      All(from, to, P(_)) == Tree("List", <<>>, [i \in 1..(to - from) |-> P(from + i).trees[1]])
      kwdefault(i) == IF kw[i] THEN Default(i) ELSE Absent
  IN Phrase(tokens, <<>>,
       <<Tree("arguments", <<>>,
           <<All(0, k, Param), All(k, n, Param),
             All(0, IF star = "args" THEN 1 ELSE 0, LAMBDA i : Rest(FALSE)),
             All(0, Len(kw), Param), All(0, Len(kw), kwdefault),
             All(0, IF kwarg THEN 1 ELSE 0, LAMBDA i : Rest(TRUE)), All(n - d, n, Default)>>)>>)

Shapes == {x \in (0..2) \X (0..2) \X (0..2) : x[2] <= x[1] /\ x[3] <= x[1]}

Stars ==
  {<<"none", <<>>>>, <<"args", <<>>>>}
  \cup ({"args", "star"} \X {<<TRUE>>, <<FALSE, TRUE>>, <<TRUE, FALSE>>})

ParameterLists(commas) ==
  LET lists == {ParameterList(x[1], x[2], x[3], s[1], s[2], kwarg) :
                  x \in Shapes, s \in Stars, kwarg \in BOOLEAN}
  IN lists \cup {p ++ c : p \in {p \in lists : p.tokens # <<>>}, c \in commas}

-----------------------------------------------------------------------------
(* Patterns: those without an open `|' or `as', and all, from inner ones.  *)
Closed(inner) ==
  LET starred == {As("MatchStar", T("*") ++ Op("b"))}
      elements == inner \cup starred
      lists == {Nothing} \cup OneOrTwo(elements)
      tuples == {Nothing} \cup {p ++ T(",") : p \in elements}
                \cup {p ++ T(",") ++ q : p \in elements, q \in elements}
      items == {As("item", One ++ T(":") ++ p) : p \in inner}
  IN UNION {
       {As("MatchValue", One), As("MatchValue", As("UnaryOp", Op("-") ++ One)),
        As("MatchSingleton", As("Constant", Op("None"))), As("MatchAs", T("_")),
        As("MatchAs", Op("a"))},
       {As("MatchClass", Op("a") ++ T("(") ++ p ++ T(")")) : p \in {Nothing} \cup OneOrTwo(inner)},
       {As("MatchSequence", T("[") ++ p ++ T("]")) : p \in lists},
       {As("MatchSequence", T("(") ++ p ++ T(")")) : p \in tuples},
       {As("MatchMapping", T("{") ++ p ++ T("}")) : p \in {Nothing} \cup OneOrTwo(items)}}

Patterns(closed) ==
  LET or == {p ++ T("|") ++ q : p \in closed, q \in closed}
      ors == closed \cup {As("MatchOr", p) : p \in or}
             \cup {As("MatchOr", p ++ T("|") ++ As("MatchValue", One)) : p \in or}
  IN ors \cup {As("MatchAs", p ++ Op("as") ++ Op("b")) : p \in ors}

-----------------------------------------------------------------------------
(* Compound statements; a block is a colon and lines one level deeper.     *)
Block(lines) == T(":") ++ T("NEWLINE") ++ T("INDENT") ++ List(lines) ++ T("DEDENT")

NoLines == List(Nothing)

Following(keyword, blocks) == {NoLines} \cup {T(keyword) ++ b : b \in blocks}

Ifs(exprs, blocks, elifs) ==
  LET otherwise == Following("else", blocks)
      rests == otherwise \cup
                 (IF elifs THEN {List(As("If", T("elif") ++ e ++ b ++ r)) :
                                   e \in exprs, b \in blocks, r \in otherwise} ELSE {})
  IN {As("If", T("if") ++ e ++ b ++ r) : e \in exprs, b \in blocks, r \in rests}

Loops(exprs, blocks) ==
  {As("While", T("while") ++ e ++ b ++ r) :
     e \in exprs, b \in blocks, r \in Following("else", blocks)}
  \cup {As("For", T("for") ++ t ++ T("in") ++ e ++ b ++ r) :
          t \in Targets, e \in exprs, b \in blocks, r \in Following("else", blocks)}

Tries(exprs, blocks) ==
  LET types == {Absent} \cup exprs \cup {e ++ Op("as") ++ Op("b") : e \in exprs}
      handlers == {As("ExceptHandler", T("except") ++ t ++ b) : t \in types, b \in blocks}
      handled == handlers \cup {h ++ As("ExceptHandler", T("except") ++ Absent ++ b) :
                                  h \in handlers, b \in blocks}
  IN {As("Try", T("try") ++ b ++ h ++ e ++ f) :
        b \in blocks, h \in handled, e \in Following("else", blocks), f \in Following("finally", blocks)}
     \cup {As("Try", T("try") ++ b ++ NoLines ++ T("finally") ++ f) : b \in blocks, f \in blocks}

Withs(exprs, blocks) ==
  LET items == {As("withitem", e ++ as) : e \in exprs, as \in Optional("as", {Name})}
  IN {As("With", T("with") ++ p ++ b) : p \in OneOrTwo(items), b \in blocks}

Matches(exprs, patterns, blocks) ==
  LET guards == Optional("if", exprs)
      cases == {As("match_case", T("case") ++ p ++ g ++ b) :
                  p \in patterns, g \in guards, b \in blocks}
      last == As("match_case", T("case") ++ As("MatchAs", T("_")) ++ Absent
                               ++ CHOOSE b \in blocks : TRUE)
      Body(c) == T(":") ++ T("NEWLINE") ++ T("INDENT") ++ c ++ T("DEDENT")
  IN {As("Match", T("match") ++ e ++ Body(c)) : e \in exprs, c \in cases \cup {c ++ last : c \in cases}}

Functions(exprs, parameters, blocks) ==
  LET kinds == {<<"FunctionDef", T("def")>>, <<"AsyncFunctionDef", T("async") ++ T("def")>>}
  IN {As(k[1], k[2] ++ Op("a") ++ T("(") ++ p ++ T(")") ++ r ++ b) :
        k \in kinds, p \in parameters, r \in Optional("->", exprs), b \in blocks}

ClassDefs(exprs, blocks) ==
  LET bases == {Nothing} \cup {T("(") ++ p ++ T(")") : p \in {Nothing} \cup OneOrTwo(exprs)}
  IN {As("ClassDef", T("class") ++ Op("a") ++ p ++ b) : p \in bases, b \in blocks}

Decorated(exprs, definitions) ==
  LET lines == {T("@") ++ e ++ T("NEWLINE") : e \in exprs}
      lists == lines \cup {p ++ q : p \in lines, q \in lines}
  IN {As("Decorated", p ++ d) : p \in lists, d \in definitions}

-----------------------------------------------------------------------------
(* A file of lines, which are phrases of one or more statements            *)
File(lines) == [tokens |-> lines.tokens, tree |-> Tree("Module", <<>>, lines.trees)]
================================================================================
