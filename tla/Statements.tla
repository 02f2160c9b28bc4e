------------------------------ MODULE Statements ------------------------------
(***************************************************************************)
(* The statements of parser.c, by recursive descent over the tokens of a   *)
(* file, NEWLINE, INDENT and DEDENT among them.  Results are those of      *)
(* Expressions.  The names that a node holds are its operators; a list of  *)
(* nodes is a node of kind List, and nothing is None.                      *)
(***************************************************************************)
EXTENDS Expressions

(* A part of the file, by what it is: defined at the end.                  *)
RECURSIVE Part(_, _)

(* The part that comes next, as a kid                                      *)
AddPart(r, what) == IF r.error THEN r ELSE AddKid(r, Part(what, r.at))

Empty(kind, p) == Result(Node(kind, <<>>, <<>>), p)

Listed(nodes) == Node("List", <<>>, nodes)

(* The identifier at p, in a node of a kind                                *)
Named(kind, p) ==
  IF At(p) \in Identifiers THEN Result(Node(kind, <<At(p)>>, <<>>), After(p)) ELSE Failed(p)

(* A kid behind a token, None without the token                            *)
OptionalExpression(r, token) ==
  IF Is(r, token) THEN AddPart(Skip(r), "expression") ELSE AddKid(r, Result(None, r.at))

(* What follows the token `as' is a name.                                  *)
AsName(r) ==
  IF ~Is(r, "as") THEN r
  ELSE IF At(After(r.at)) \notin Identifiers THEN Failed(After(r.at))
  ELSE [r EXCEPT !.node.op = @ \o <<"as", At(After(r.at))>>, !.at = After(After(@))]

RECURSIVE DottedName(_)

DottedName(r) ==
  IF ~Is(r, ".") THEN r
  ELSE IF At(After(r.at)) \notin Identifiers THEN Failed(After(r.at))
  ELSE DottedName([r EXCEPT !.node.op = @ \o <<".", At(After(r.at))>>, !.at = After(After(@))])

WithItem(p) == OptionalExpression(Into("withitem", <<>>, Part("expression", p)), "as")

StarPattern(p) ==
  IF At(p) \in Identifiers THEN Named("MatchStar", p) ELSE Empty("MatchStar", p)

MappingItem(p) ==
  AddPart(Expect(Into("item", <<>>, Part("expression", p)), ":"), "pattern")

(* Items as long as there are commas, and items up to a closing token.     *)
RECURSIVE Items(_, _), ItemsUntil(_, _, _)

MoreItems(r, what) == IF Is(r, ",") THEN Items(Skip(r), what) ELSE r

Items(r, what) == MoreItems(AddPart(r, what), what)

MoreUntil(r, what, close) ==
  IF Is(r, ",") THEN ItemsUntil(Skip(r), what, close) ELSE Expect(r, close)

ItemsUntil(r, what, close) ==
  IF Is(r, close) THEN Skip(r) ELSE MoreUntil(AddPart(r, what), what, close)

-----------------------------------------------------------------------------
(* Simple statements: p is what follows the keyword.                *)
EndsStatement(p) == At(p) \in {"NEWLINE", ";"}

Return(p) ==
  IF EndsStatement(p) THEN Empty("Return", p) ELSE Into("Return", <<>>, Part("expression", p))

RECURSIVE Dots(_)

Dots(r) == IF Is(r, ".") THEN Dots([r EXCEPT !.node.op = Append(@, "."), !.at = After(@)]) ELSE r

Package(r) ==
  IF At(r.at) \in Identifiers THEN DottedName(Skip([r EXCEPT !.node.op = Append(@, At(r.at))]))
  ELSE r

Imported(r) ==
  CASE Is(r, "*") -> AddKid(r, Result(Node("alias", <<"*">>, <<>>), After(r.at)))
    [] Is(r, "(") -> Expect(Items(Skip(r), "imported"), ")")
    [] OTHER -> Items(r, "imported")

ImportFrom(p) == Imported(Expect(Package(Dots(Empty("ImportFrom", p))), "import"))

Raise(p) ==
  IF EndsStatement(p) THEN Empty("Raise", p)
  ELSE OptionalExpression(Into("Raise", <<>>, Part("expression", p)), "from")

Assertion(p) == OptionalExpression(Into("Assert", <<>>, Part("expression", p)), ",")

Starred(p) ==
  IF At(p) = "*" THEN Into("Starred", <<>>, Part("expression", After(p))) ELSE Part("expression", p)

RECURSIVE Elements(_), Assign(_)

(* The elements of a tuple without parentheses, behind the first           *)
Elements(tuple) ==
  IF ~Is(tuple, ",") THEN tuple
  ELSE CASE At(After(tuple.at)) = "=" -> Skip(tuple)
         [] At(After(tuple.at)) \in {"NEWLINE", ";", "EOF"} -> Elements(Skip(tuple))
         [] OTHER -> Elements(AddKid(tuple, Starred(After(tuple.at))))

(* Targets and, as the last kid, the value                                 *)
MoreTargetsOrValue(r) == IF Is(r, "=") THEN Assign(r) ELSE r

Assign(r) == MoreTargetsOrValue(AddPart(Skip(r), "expression"))

AugmentedOps == {"+=", "**="}

TupleStatement(tuple) ==
  IF Is(tuple, "=") THEN AddPart(Skip(Into("Assign", <<>>, tuple)), "expression")
  ELSE Into("Expr", <<>>, tuple)

(* What the expression in front is part of                                 *)
StatementFrom(first) ==
  CASE Is(first, ",") \/ (~first.error /\ first.node.kind = "Starred") ->
         TupleStatement(Elements(Into("Tuple", <<>>, first)))
    [] Is(first, "=") /\ first.node.kind # "Starred" -> Assign(Into("Assign", <<>>, first))
    [] ~first.error /\ first.node.kind # "Starred" /\ At(first.at) \in AugmentedOps ->
         AddPart(Skip(Into("AugAssign", <<At(first.at)>>, first)), "expression")
    [] OTHER -> Into("Expr", <<>>, first)

ExpressionStatement(p) == StatementFrom(Starred(p))

parse_simple_stmt(p) ==
  CASE At(p) = "pass" -> Empty("Pass", After(p))
    [] At(p) = "break" -> Empty("Break", After(p))
    [] At(p) = "continue" -> Empty("Continue", After(p))
    [] At(p) = "return" -> Return(After(p))
    [] At(p) = "import" -> Items(Empty("Import", After(p)), "module")
    [] At(p) = "from" -> ImportFrom(After(p))
    [] At(p) = "raise" -> Raise(After(p))
    [] At(p) = "assert" -> Assertion(After(p))
    [] At(p) = "del" -> Items(Empty("Delete", After(p)), "expression")
    [] At(p) = "global" -> Items(Empty("Global", After(p)), "name")
    [] At(p) = "nonlocal" -> Items(Empty("Nonlocal", After(p)), "name")
    [] OTHER -> ExpressionStatement(p)

-----------------------------------------------------------------------------
(* Parameters: the node of these results is a record of sequences until    *)
(* Arguments makes a node of it.                                           *)
Annotated(arg) == IF Is(arg, ":") THEN AddPart(Skip(arg), "expression") ELSE arg

parse_func_arg(p) == Annotated(Named("arg", p))

NoParameters ==
  [posonlyargs |-> <<>>, args |-> <<>>, vararg |-> <<>>, kwonlyargs |-> <<>>,
   kw_defaults |-> <<>>, kwarg |-> <<>>, defaults |-> <<>>, pending |-> <<>>, star |-> FALSE]

AddTo(r, field, new) ==
  IF new.error THEN new
  ELSE [r EXCEPT !.node[field] = Append(@, new.node), !.at = new.at]

Kwarg(r) == IF r.node.kwarg # <<>> THEN Failed(r.at) ELSE AddTo(r, "kwarg", parse_func_arg(After(r.at)))

Vararg(r) ==
  IF At(r.at) \in Identifiers THEN AddTo(r, "vararg", parse_func_arg(r.at)) ELSE r

(* Variant: the defaults in front of the star stay pending.                *)
StarKeepsPending(r) ==
  IF r.node.star THEN Failed(r.at) ELSE Vararg(Skip([r EXCEPT !.node.star = TRUE]))

(* *args or a star alone: the defaults so far are the positional ones.     *)
Star(r) ==
  IF r.node.star THEN Failed(r.at)
  ELSE Vararg(Skip([r EXCEPT !.node.star = TRUE, !.node.defaults = r.node.pending,
                             !.node.pending = <<>>]))

Slash(r) == Skip([r EXCEPT !.node.posonlyargs = r.node.args, !.node.args = <<>>])

(* The default of the parameter just read                                  *)
ParameterDefault(r) ==
  CASE Is(r, "=") ->
         AddTo(r, IF r.node.star THEN "kw_defaults" ELSE "pending", Part("expression", After(r.at)))
    [] ~r.error /\ At(r.at) # "=" /\ r.node.star -> AddTo(r, "kw_defaults", Result(None, r.at))
    [] OTHER -> r

Parameter(r) ==
  ParameterDefault(AddTo(r, IF r.node.star THEN "kwonlyargs" ELSE "args", parse_func_arg(r.at)))

Arguments(r) ==
  LET n == r.node
      defaults == IF n.star THEN n.defaults ELSE n.pending
      groups == <<n.posonlyargs, n.args, n.vararg, n.kwonlyargs, n.kw_defaults, n.kwarg, defaults>>
  IN IF r.error THEN r
     ELSE Result(Node("arguments", <<>>, [i \in 1..7 |-> Listed(groups[i])]), r.at)

RECURSIVE parse_func_args(_)

MoreParameters(r) == IF Is(r, ",") THEN parse_func_args(Skip(r)) ELSE Arguments(r)

parse_func_args(r) ==
  CASE At(r.at) = ")" -> Arguments(r)
    [] At(r.at) = "**" -> MoreParameters(Kwarg(r))
    [] At(r.at) = "*" -> MoreParameters(Star(r))
    [] At(r.at) = "/" -> MoreParameters(Slash(r))
    [] OTHER -> MoreParameters(Parameter(r))

-----------------------------------------------------------------------------
(* Patterns *)
Minus(literal) == Into("MatchValue", <<>>, Into("UnaryOp", <<"-">>, literal))

Capture(p) ==
  CASE At(After(p)) = "(" -> ItemsUntil(Skip(Named("MatchClass", p)), "pattern", ")")
    [] At(p) = "_" /\ At(After(p)) # "(" -> Empty("MatchAs", After(p))
    [] OTHER -> Named("MatchAs", p)

parse_pattern_atom(p) ==
  CASE At(p) \in Singletons -> Into("MatchSingleton", <<>>, Part("literal", p))
    [] At(p) \in Literals \ Singletons -> Into("MatchValue", <<>>, Part("literal", p))
    [] At(p) = "-" -> Minus(Part("literal", After(p)))
    [] At(p) \in Identifiers -> Capture(p)
    [] At(p) = "[" -> ItemsUntil(Empty("MatchSequence", After(p)), "element", "]")
    [] At(p) = "(" -> ItemsUntil(Empty("MatchSequence", After(p)), "element", ")")
    [] At(p) = "{" -> ItemsUntil(Empty("MatchMapping", After(p)), "mapping", "}")
    [] OTHER -> Failed(p)

RECURSIVE Alternatives(_)

Alternatives(r) ==
  IF Is(r, "|") THEN Alternatives(AddKid(r, parse_pattern_atom(After(r.at)))) ELSE r

AnyOf(pattern) == IF Is(pattern, "|") THEN Alternatives(Into("MatchOr", <<>>, pattern)) ELSE pattern

NamedPattern(whole) == IF Is(whole, "as") THEN AsName(Into("MatchAs", <<>>, whole)) ELSE whole

(* Variant: `as' belongs to the alternative in front of it.                *)
AsBindsTighter(p) == AnyOf(NamedPattern(parse_pattern_atom(p)))

parse_pattern(p) == NamedPattern(AnyOf(parse_pattern_atom(p)))

-----------------------------------------------------------------------------
(* Compound statements: p is what follows the keyword, and a block  *)
(* or what stands for a missing one is the kid after those before it.      *)
AddBlock(r) == AddPart(r, "block")

NoBlock(p) == Result(Listed(<<>>), p)

OptionalBlock(r, keyword) ==
  IF Is(r, keyword) THEN AddBlock(Skip(r)) ELSE AddKid(r, NoBlock(r.at))

Signature(name) ==
  IF name.error THEN name ELSE AddKid(name, parse_func_args(Result(NoParameters, name.at)))

FunctionDef(kind, p) ==
  AddBlock(OptionalExpression(Expect(Signature(Expect(Named(kind, p), "(")), ")"), "->"))

Bases(name) == IF Is(name, "(") THEN ItemsUntil(Skip(name), "expression", ")") ELSE name

ClassDef(p) == AddBlock(Bases(Named("ClassDef", p)))

Branch(p) == AddBlock(Into("If", <<>>, Part("expression", p)))

RECURSIVE Elifs(_), Handlers(_), Cases(_), Decorators(_)

(* The node before has the new one for its `else', but it is the new one   *)
(* that the loop goes on with and that the function returns.               *)
Elifs(r) == IF Is(r, "elif") THEN Elifs(Branch(After(r.at))) ELSE r

If(p) == OptionalBlock(Elifs(Branch(p)), "else")

While(p) == OptionalBlock(AddBlock(Into("While", <<>>, Part("expression", p))), "else")

For(p) ==
  LET target == Expect(Into("For", <<>>, Part("target", p)), "in")
  IN OptionalBlock(AddBlock(AddPart(target, "expression")), "else")

Handler(p) ==
  AddBlock(IF At(p) = ":" THEN AddKid(Empty("ExceptHandler", p), Result(None, p))
           ELSE AsName(Into("ExceptHandler", <<>>, Part("expression", p))))

Handlers(r) == IF Is(r, "except") THEN Handlers(AddKid(r, Handler(After(r.at)))) ELSE r

(* Variant: the clauses behind the handlers are read in the other order.   *)
FinallyBeforeElse(try) == OptionalBlock(OptionalBlock(try, "finally"), "else")

(* An `else' is looked for behind handlers only, and without a handler     *)
(* there is a `finally'.                                                   *)
ElseAndFinally(try) ==
  CASE ~try.error /\ Len(try.node.kids) > 1 ->
         OptionalBlock(OptionalBlock(try, "else"), "finally")
    [] Is(try, "finally") /\ Len(try.node.kids) = 1 ->
         OptionalBlock(AddKid(try, NoBlock(try.at)), "finally")
    [] OTHER -> Failed(try.at)

Try(p) == ElseAndFinally(Handlers(AddBlock(Empty("Try", p))))

With(p) == AddBlock(Items(Empty("With", p), "with"))

Case(p) ==
  AddBlock(OptionalExpression(Into("match_case", <<>>, Part("pattern", p)), "if"))

Cases(r) == IF Is(r, "case") THEN Cases(AddKid(r, Case(After(r.at)))) ELSE r

Match(p) ==
  LET subject == Into("Match", <<>>, Part("expression", p))
  IN Expect(Cases(Expect(Expect(Expect(subject, ":"), "NEWLINE"), "INDENT")), "DEDENT")

RECURSIVE Blank(_)

Blank(p) == IF At(p) = "NEWLINE" THEN Blank(After(p)) ELSE p

Definition(p) ==
  CASE At(p) = "def" -> FunctionDef("FunctionDef", After(p))
    [] At(p) = "class" -> ClassDef(After(p))
    [] At(p) = "async" /\ At(After(p)) = "def" -> FunctionDef("AsyncFunctionDef", After(After(p)))
    [] OTHER -> Failed(p)

NextDecorator(r) == IF r.error THEN r ELSE Decorators([r EXCEPT !.at = Blank(@)])

Decorators(r) ==
  IF Is(r, "@") THEN NextDecorator(Expect(AddPart(Skip(r), "expression"), "NEWLINE")) ELSE r

(* The decorators are kids, the definition the last one.                   *)
parse_decorated(p) == AddPart(Decorators(Empty("Decorated", p)), "definition")

CompoundTokens == {"def", "class", "if", "while", "for", "try", "with", "async", "match", "@"}

parse_compound_stmt(p) ==
  CASE At(p) = "@" -> parse_decorated(p)
    [] At(p) \in {"def", "class", "async"} -> Definition(p)
    [] At(p) = "if" -> If(After(p))
    [] At(p) = "while" -> While(After(p))
    [] At(p) = "for" -> For(After(p))
    [] At(p) = "try" -> Try(After(p))
    [] At(p) = "with" -> With(After(p))
    [] At(p) = "match" -> Match(After(p))

-----------------------------------------------------------------------------
(* A simple statement ends with a NEWLINE, a semicolon or both, or in      *)
(* front of what ends the block or file.                                   *)
Ending(p) == IF At(p) = ";" THEN After(p) ELSE p

EndSimple(r) ==
  IF r.error \/ At(r.at) \notin {"NEWLINE", ";", "DEDENT", "EOF"} THEN Failed(r.at)
  ELSE [r EXCEPT !.at = Ending(IF At(@) = "NEWLINE" THEN After(@) ELSE @)]

(* None where blank lines are all that is left of a block                  *)
parse_statement(p) ==
  LET first == Blank(p) IN
  CASE At(first) \in {"EOF", "DEDENT"} -> Result(None, first)
    [] At(first) \in CompoundTokens -> parse_compound_stmt(first)
    [] OTHER -> EndSimple(parse_simple_stmt(first))

RECURSIVE Statements(_, _)

(* The statements up to one of the tokens in ends                          *)
Added(r, next) ==
  IF next.node = None /\ ~next.error THEN [r EXCEPT !.at = next.at] ELSE AddKid(r, next)

Statements(r, ends) ==
  IF r.error \/ At(r.at) \in ends THEN r
  ELSE Statements(Added(r, Part("statement", r.at)), ends)

parse_block(p) ==
  LET lines == Expect(Expect(Expect(NoBlock(p), ":"), "NEWLINE"), "INDENT")
  IN Expect(Statements(lines, {"DEDENT", "EOF"}), "DEDENT")

Part(what, p) ==
  CASE what = "module" -> AsName(DottedName(Named("alias", p)))
    [] what = "imported" -> AsName(Named("alias", p))
    [] what = "name" -> Named("Name", p)
    [] what = "expression" -> parse_expression(p)
    [] what = "target" -> parse_comp_target(p)
    [] what = "literal" -> parse_atom(p)
    [] what = "with" -> WithItem(p)
    [] what = "pattern" -> parse_pattern(p)
    [] what = "element" -> IF At(p) = "*" THEN StarPattern(After(p)) ELSE Part("pattern", p)
    [] what = "mapping" -> MappingItem(p)
    [] what = "definition" -> Definition(p)
    [] what = "block" -> parse_block(p)
    [] what = "statement" -> parse_statement(p)

parser_parse(tokens) == Statements(Empty("Module", tokens), {"EOF"})
=============================================================================
