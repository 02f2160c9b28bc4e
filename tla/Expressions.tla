------------------------------ MODULE Expressions ------------------------------
(***************************************************************************)
(* The expressions of parser.c: precedence climbing over binding powers,   *)
(* with the displays, calls, subscripts and comprehensions of atoms and    *)
(* primaries.  Every function of the parser takes the tokens that are left *)
(* and gives a result: the node, the tokens behind it, and whether there   *)
(* was an error.  One token stands for all numbers and texts, one operator *)
(* for all of its precedence; the arguments and keywords of a call are     *)
(* kids in the order given, told apart by their kind.                      *)
(***************************************************************************)
EXTENDS Integers, Sequences

Node(kind, op, kids) == [kind |-> kind, op |-> op, kids |-> kids]

None == Node("None", <<>>, <<>>)

Result(node, at) == [node |-> node, at |-> at, error |-> FALSE]

Failed(at) == [node |-> None, at |-> at, error |-> TRUE]

At(p) == IF p = <<>> THEN "EOF" ELSE Head(p)

After(p) == IF p = <<>> THEN p ELSE Tail(p)

Identifiers == {"a", "b", "_"}

Singletons == {"None"}

Literals == {"1"} \cup Singletons

-----------------------------------------------------------------------------
(* Building nodes from results; an error stays one.                        *)
Into(kind, op, r) == IF r.error THEN r ELSE [r EXCEPT !.node = Node(kind, op, <<@>>)]

AddKid(r, kid) ==
  IF r.error THEN r ELSE IF kid.error THEN kid
  ELSE [kid EXCEPT !.node = [r.node EXCEPT !.kids = Append(@, kid.node)]]

AddOperand(r, op, kid) ==
  IF r.error \/ kid.error THEN AddKid(r, kid)
  ELSE [AddKid(r, kid) EXCEPT !.node.op = Append(@, op)]

Is(r, token) == ~r.error /\ At(r.at) = token

Skip(r) == [r EXCEPT !.at = After(@)]

Expect(r, token) == IF Is(r, token) THEN Skip(r) ELSE Failed(r.at)

-----------------------------------------------------------------------------
get_binop_bp_left(token) ==
  CASE token = "**" -> [left |-> 26, right |-> 27]
    [] token = "*" -> [left |-> 22, right |-> 23]
    [] token = "-" -> [left |-> 20, right |-> 21]
    [] token = "<<" -> [left |-> 18, right |-> 19]
    [] token = "&" -> [left |-> 16, right |-> 17]
    [] token = "^" -> [left |-> 14, right |-> 15]
    [] token = "|" -> [left |-> 12, right |-> 13]
    [] OTHER -> [left |-> 0, right |-> 0]

(* The binding powers of an operator; 0 for every other token.             *)
get_binop_bp(token) ==
  CASE token = "**" -> [left |-> 26, right |-> 25]
    [] token = "*" -> [left |-> 22, right |-> 23]
    [] token = "-" -> [left |-> 20, right |-> 21]
    [] token = "<<" -> [left |-> 18, right |-> 19]
    [] token = "&" -> [left |-> 16, right |-> 17]
    [] token = "^" -> [left |-> 14, right |-> 15]
    [] token = "|" -> [left |-> 12, right |-> 13]
    [] OTHER -> [left |-> 0, right |-> 0]

PrefixOps == {"-", "not"}

PrefixBpTight(token) == 24

(* `not' binds looser than the comparisons, a sign tighter than products.  *)
PrefixBp(token) == IF token = "not" THEN 8 ELSE 24

is_comparison_op(p) == At(p) \in {"<", "is", "in"} \/ (At(p) = "not" /\ At(After(p)) = "in")

parse_cmpop(p) ==
  CASE At(p) = "is" /\ At(After(p)) = "not" -> [op |-> "is not", at |-> After(After(p))]
    [] At(p) = "not" -> [op |-> "not in", at |-> After(After(p))]
    [] OTHER -> [op |-> At(p), at |-> After(p)]

RECURSIVE parse_expr_bp(_, _), InfixOperators(_, _), parse_comparison(_),
          parse_bool_op(_, _, _), parse_primary(_), Trailers(_), parse_atom(_)

parse_expression(p) == parse_expr_bp(p, 0)

(* The expression that comes next, as a kid                                *)
AddExpression(r, min_bp) == IF r.error THEN r ELSE AddKid(r, parse_expr_bp(r.at, min_bp))

-----------------------------------------------------------------------------
(* Lists: what follows a first element, up to the closing token.           *)
RECURSIVE More(_, _), MorePairs(_), MoreTargets(_), MoreArguments(_)

More(r, close) ==
  IF ~Is(r, ",") THEN r
  ELSE IF At(After(r.at)) = close THEN Skip(r)
  ELSE More(AddExpression(Skip(r), 0), close)

AddPair(r) == AddExpression(Expect(AddExpression(r, 0), ":"), 0)

MorePairs(r) ==
  IF ~Is(r, ",") THEN r
  ELSE IF At(After(r.at)) = "}" THEN Skip(r)
  ELSE MorePairs(AddPair(Skip(r)))

MoreTargets(r) ==
  IF ~Is(r, ",") THEN r
  ELSE IF At(After(r.at)) = "in" /\ Len(r.node.kids) > 1 THEN Skip(r)
  ELSE MoreTargets(AddKid(r, parse_primary(After(r.at))))

(* Several targets are a tuple.                                            *)
AllTargets(first) == IF Is(first, ",") THEN MoreTargets(Into("Tuple", <<>>, first)) ELSE first

parse_comp_target(p) == AllTargets(parse_primary(p))

RECURSIVE Filters(_), parse_comprehension_clauses(_)

Filters(clause) ==
  IF Is(clause, "if") THEN Filters(AddExpression(Skip(clause), 3)) ELSE clause

Clause(p) ==
  Filters(AddExpression(Expect(Into("comprehension", <<>>, parse_comp_target(p)), "in"), 3))

parse_comprehension_clauses(r) ==
  IF Is(r, "for") THEN parse_comprehension_clauses(AddKid(r, Clause(After(r.at)))) ELSE r

-----------------------------------------------------------------------------
(* The displays, from what stands first in them.                           *)
Parenthesized(first) ==
  CASE At(first.at) = "for" ->
         Expect(parse_comprehension_clauses(Into("GeneratorExp", <<>>, first)), ")")
    [] At(first.at) = "," -> Expect(More(Into("Tuple", <<>>, first), ")"), ")")
    [] OTHER -> Expect(first, ")")

Parenthesis(p) ==
  IF At(p) = ")" THEN Result(Node("Tuple", <<>>, <<>>), After(p))
  ELSE Parenthesized(parse_expression(p))

Bracketed(first) ==
  IF Is(first, "for")
  THEN Expect(parse_comprehension_clauses(Into("ListComp", <<>>, first)), "]")
  ELSE Expect(More(Into("List", <<>>, first), "]"), "]")

Bracket(p) ==
  IF At(p) = "]" THEN Result(Node("List", <<>>, <<>>), After(p))
  ELSE Bracketed(parse_expr_bp(p, 1))

(* A pair is a dictionary of one, or what a comprehension yields.          *)
Paired(pair) ==
  IF Is(pair, "for") THEN parse_comprehension_clauses([pair EXCEPT !.node.kind = "DictComp"])
  ELSE MorePairs(pair)

Braced(first) ==
  CASE At(first.at) = ":" -> Expect(Paired(AddExpression(Expect(Into("Dict", <<>>, first), ":"), 0)), "}")
    [] At(first.at) = "for" ->
         Expect(parse_comprehension_clauses(Into("SetComp", <<>>, first)), "}")
    [] OTHER -> Expect(More(Into("Set", <<>>, first), "}"), "}")

Brace(p) ==
  IF At(p) = "}" THEN Result(Node("Dict", <<>>, <<>>), After(p))
  ELSE Braced(parse_expression(p))

Leaf(p) == Result(Node(IF At(p) \in Literals THEN "Constant" ELSE "Name", <<At(p)>>, <<>>), After(p))

parse_atom(p) ==
  CASE At(p) \in Identifiers \cup Literals -> Leaf(p)
    [] At(p) = "(" -> Parenthesis(After(p))
    [] At(p) = "[" -> Bracket(After(p))
    [] At(p) = "{" -> Brace(After(p))
    [] OTHER -> Failed(p)

(* A name is looked past, to see whether an argument is given by keyword.  *)
Argument(p) ==
  CASE At(p) = "**" -> Into("keyword", <<"**">>, parse_expression(After(p)))
    [] At(p) = "*" -> Into("Starred", <<>>, parse_expression(After(p)))
    [] At(p) \in Identifiers /\ At(After(p)) = "=" ->
         Into("keyword", <<At(p)>>, parse_expression(After(After(p))))
    [] OTHER -> parse_expression(p)

NextArgument(call) == IF Is(call, ",") THEN MoreArguments(Skip(call)) ELSE call

MoreArguments(call) ==
  IF call.error \/ At(call.at) = ")" THEN call
  ELSE NextArgument(AddKid(call, Argument(call.at)))

Bound(p) == IF At(p) \in {":", "]"} THEN Result(None, p) ELSE parse_expression(p)

Step(p) == IF At(p) = "]" THEN Result(None, p) ELSE parse_expression(p)

StepBehind(upper) ==
  AddKid(upper, IF Is(upper, ":") THEN Step(After(upper.at)) ELSE Result(None, upper.at))

(* Bounds behind a colon, or the index                                     *)
SliceFrom(first) ==
  IF Is(first, ":") THEN StepBehind(AddKid(Into("Slice", <<>>, first), Bound(After(first.at))))
  ELSE first

Index(p) == SliceFrom(IF At(p) = ":" THEN Result(None, p) ELSE parse_expression(p))

Trailers(r) ==
  CASE Is(r, ".") ->
         IF At(After(r.at)) \in Identifiers
         THEN Trailers([Into("Attribute", <<At(After(r.at))>>, r) EXCEPT !.at = After(After(@))])
         ELSE Failed(r.at)
    [] Is(r, "(") -> Trailers(Expect(MoreArguments(Skip(Into("Call", <<>>, r))), ")"))
    [] Is(r, "[") -> Trailers(Expect(AddKid(Into("Subscript", <<>>, r), Index(After(r.at))), "]"))
    [] OTHER -> r

parse_primary(p) == Trailers(parse_atom(p))

-----------------------------------------------------------------------------
(* A chain of comparisons is one node, and so is a run of `and' or `or'.   *)
MoreComparisons(chain) ==
  IF ~chain.error /\ is_comparison_op(chain.at) THEN parse_comparison(chain) ELSE chain

parse_comparison(r) ==
  LET cmp == parse_cmpop(r.at)
  IN MoreComparisons(AddOperand(r, cmp.op, parse_expr_bp(cmp.at, 11)))

MoreOperands(r, op, right_bp) == IF Is(r, op) THEN parse_bool_op(r, op, right_bp) ELSE r

parse_bool_op(r, op, right_bp) == MoreOperands(AddExpression(Skip(r), right_bp), op, right_bp)

NamedExpr(left) ==
  IF left.node.kind = "Name" THEN AddExpression(Skip(Into("NamedExpr", <<>>, left)), 1)
  ELSE Failed(left.at)

(* The kids of a conditional are its body, test and `else'.                *)
IfExp(left) ==
  AddExpression(Expect(AddExpression(Skip(Into("IfExp", <<>>, left)), 4), "else"), 2)

BinOp(left) ==
  AddOperand(Into("BinOp", <<>>, left), At(left.at),
             parse_expr_bp(After(left.at), get_binop_bp(At(left.at)).right))

InfixOperators(left, min_bp) ==
  LET left_bp == get_binop_bp(At(left.at)).left
  IN
  CASE Is(left, ":=") /\ min_bp <= 1 -> InfixOperators(NamedExpr(left), min_bp)
    [] Is(left, "if") /\ min_bp <= 2 -> InfixOperators(IfExp(left), min_bp)
    [] Is(left, "or") /\ min_bp <= 4 ->
         InfixOperators(parse_bool_op(Into("BoolOp", <<"or">>, left), "or", 5), min_bp)
    [] Is(left, "and") /\ min_bp <= 6 ->
         InfixOperators(parse_bool_op(Into("BoolOp", <<"and">>, left), "and", 7), min_bp)
    [] ~left.error /\ is_comparison_op(left.at) /\ min_bp <= 10 ->
         InfixOperators(parse_comparison(Into("Compare", <<>>, left)), min_bp)
    [] ~left.error /\ left_bp # 0 /\ left_bp >= min_bp -> InfixOperators(BinOp(left), min_bp)
    [] OTHER -> left

RECURSIVE parse_lambda_args(_)

NextParameter(r) == IF Is(r, ",") THEN parse_lambda_args(Skip(r)) ELSE r

parse_lambda_args(r) ==
  IF At(r.at) \notin Identifiers THEN r
  ELSE NextParameter(Skip([r EXCEPT !.node.op = Append(@, At(r.at))]))

Lambda(p) ==
  AddExpression(Expect(parse_lambda_args(Result(Node("Lambda", <<>>, <<>>), p)), ":"), 0)

Yield(p) ==
  CASE At(p) = "from" -> Into("YieldFrom", <<>>, parse_expr_bp(After(p), 0))
    [] At(p) \in {")", "]", "}", ",", ":", ";", "NEWLINE", "EOF"} -> Result(Node("Yield", <<>>, <<>>), p)
    [] OTHER -> Into("Yield", <<>>, parse_expr_bp(p, 0))

parse_expr_bp(p, min_bp) ==
  CASE At(p) = "lambda" -> Lambda(After(p))
    [] At(p) = "yield" -> Yield(After(p))
    [] At(p) = "await" -> Into("Await", <<>>, parse_expr_bp(After(p), 24))
    [] At(p) \in PrefixOps ->
         InfixOperators(Into("UnaryOp", <<At(p)>>, parse_expr_bp(After(p), PrefixBp(At(p)))), min_bp)
    [] OTHER -> InfixOperators(parse_primary(p), min_bp)

=============================================================================
