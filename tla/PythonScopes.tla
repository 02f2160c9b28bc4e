---------------------------- MODULE PythonScopes ----------------------------
(***************************************************************************)
(* What the Python language says of the names of a function: those that    *)
(* are bound anywhere in its body are its own, unless it declares them     *)
(* global or nonlocal, and a yield anywhere in it makes it a generator     *)
(* function.  Functions and classes within it have names of their own.     *)
(***************************************************************************)
EXTENDS Sequences, Naturals, SequencesExt

(* The expressions that e is made of, except the body of a function *)
PartsOf(e) ==
  CASE e.k = "bin_op" -> <<e.left, e.right>>
    [] e.k = "subscript" -> <<e.value, e.slice>>
    [] e.k \in {"unary_op", "attribute", "await", "named_expr", "yield", "yield_from",
                "formatted"} -> <<e.value>>
    [] e.k = "call" -> <<e.func>> \o e.args
    [] e.k = "display" -> e.elts
    [] e.k = "dict" -> e.keys \o e.values
    [] e.k = "slice" -> <<e.lower, e.upper, e.step>>
    [] e.k \in {"bool_op", "joined_str"} -> e.values
    [] e.k = "if_exp" -> <<e.test, e.body, e.orelse>>
    [] e.k = "compare" -> <<e.left>> \o e.comparators
    [] e.k = "lambda" -> e.params.defaults
    [] e.k \in {"comp", "dict_comp", "generator_exp"} ->
         FlattenSeq([i \in 1..Len(e.generators) |->
                       <<e.generators[i].iter>> \o e.generators[i].ifs])
           \o IF e.k = "dict_comp" THEN <<e.key, e.value>> ELSE <<e.elt>>
    [] OTHER -> <<>>

(* The expressions of a statement, and the statements within it *)
ExpressionsOf(s) ==
  CASE s.k \in {"expr", "return"} -> <<s.value>>
    [] s.k = "assign" -> <<s.value>> \o s.targets
    [] s.k = "aug_assign" -> <<s.target, s.value>>
    [] s.k \in {"if", "while"} -> <<s.test>>
    [] s.k = "assert" -> <<s.test>> \o s.msg
    [] s.k = "for" -> <<s.iter>>
    [] s.k = "raise" -> s.exc
    [] s.k = "delete" -> s.targets
    [] s.k = "with" -> <<s.manager>>
    [] s.k = "class" -> s.bases
    [] s.k = "def" -> s.params.defaults \o [i \in 1..Len(s.decorators) |-> s.decorators[i].value]
    [] OTHER -> <<>>

StatementsIn(s) ==
  CASE s.k \in {"if", "while", "for"} -> s.body \o s.orelse
    [] s.k = "try" -> s.body \o FlattenSeq([i \in 1..Len(s.handlers) |-> s.handlers[i].body])
                        \o s.orelse \o s.finalbody
    [] s.k = "with" -> s.body
    [] OTHER -> <<>>

RECURSIVE YieldsIn(_), Named(_), IsGenerator(_), BoundNames(_), DeclaredNames(_, _)

YieldsIn(es) ==
  \E i \in 1..Len(es) : es[i].k \in {"yield", "yield_from"} \/ YieldsIn(PartsOf(es[i]))

IsGenerator(ss) ==
  \E i \in 1..Len(ss) : YieldsIn(ExpressionsOf(ss[i])) \/ IsGenerator(StatementsIn(ss[i]))

(* The names that := binds *)
Named(es) ==
  UNION {(IF es[i].k = "named_expr" THEN {es[i].name} ELSE {}) \cup Named(PartsOf(es[i])) :
           i \in 1..Len(es)}

BindsItself(s) ==
  LET NamesIn(ts) == {ts[i].id : i \in {j \in 1..Len(ts) : ts[j].k = "name"}}
  IN CASE s.k \in {"assign", "delete"} -> NamesIn(s.targets)
       [] s.k = "aug_assign" -> NamesIn(<<s.target>>)
       [] s.k = "for" -> Range(s.targets)
       [] s.k \in {"import", "import_from"} -> {s.names[i].asname : i \in 1..Len(s.names)}
       [] s.k \in {"def", "class", "with"} -> {s.name} \ {""}
       [] s.k = "try" -> {s.handlers[i].name : i \in 1..Len(s.handlers)} \ {""}
       [] OTHER -> {}

BoundNames(ss) ==
  UNION {BindsItself(ss[i]) \cup Named(ExpressionsOf(ss[i])) \cup BoundNames(StatementsIn(ss[i])) :
           i \in 1..Len(ss)}

(* kind is "global" or "nonlocal". *)
DeclaredNames(ss, kind) ==
  UNION {IF ss[i].k = kind THEN ss[i].names ELSE DeclaredNames(StatementsIn(ss[i]), kind) :
           i \in 1..Len(ss)}

(* Parameters are bound too. *)
OwnNames(params, body) ==
  (Range(params.posonlyargs \o params.args \o params.vararg \o params.kwonlyargs \o params.kwarg)
     \cup BoundNames(body)) \ (DeclaredNames(body, "global") \cup DeclaredNames(body, "nonlocal"))

=============================================================================
