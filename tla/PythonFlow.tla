----------------------------- MODULE PythonFlow -----------------------------
(***************************************************************************)
(* What Python promises of the expressions and statements of Lowering: the *)
(* reference that the generated code is compared with.                     *)
(*                                                                         *)
(* A trace is the sequence of observable events [id, args, result] of an   *)
(* execution: an operation at the place id on the values args and whether  *)
(* it raised, the truth value of an object ("BOOL"), a request for the     *)
(* next item and whether there was one.  A value is the name of where it   *)
(* comes from: a literal, or the id of the operation that yields it.       *)
(*                                                                         *)
(* A machine m reads the events that the program must produce off the      *)
(* front of a trace:                                                       *)
(*   rest  the events left over      vals  the values of the expressions   *)
(*   res   the result of the last event    being evaluated, the last last  *)
(*   scopes     the scopes so far, the first that of the program: the kind *)
(*              of each, its own names, those it declares global, what is  *)
(*              bound (vars), and the number of the scope around it        *)
(*   scope      the number of the current one                              *)
(*   functions  the functions so far: [params, body, defaults, parent]     *)
(*   sig   how the last statement ended: "next", "break", "continue",      *)
(*         "return", an exception, "more" (the trace ends here) or "stuck" *)
(*         (another event was due)                                         *)
(***************************************************************************)
EXTENDS PythonScopes

Scope(kind, names, globals, parent, bound) ==
  [kind |-> kind, names |-> names, globals |-> globals, parent |-> parent, vars |-> bound]

Nothing == [n \in {} |-> ""]

Reader(tr) ==
  [sig |-> "next", vals |-> <<>>, rest |-> tr, res |-> "",
   scopes |-> <<Scope("program", {}, {}, 0, Nothing)>>, scope |-> 1, functions |-> <<>>]

Incomplete == {"more", "stuck"}
Flow == {"next", "break", "continue", "return"} \cup Incomplete
Raised(m) == m.sig \notin Flow
Going(m) == m.sig = "next"

Signal(m, sig) == IF Going(m) THEN [m EXCEPT !.sig = sig, !.vals = <<>>] ELSE m

Yields(m, v) == IF Going(m) THEN [m EXCEPT !.vals = Append(@, v)] ELSE m
Drop(m, n) == IF Going(m) THEN [m EXCEPT !.vals = SubSeq(@, 1, Len(@) - n)] ELSE m
LastValues(m, n) == SubSeq(m.vals, Len(m.vals) - n + 1, Len(m.vals))

-----------------------------------------------------------------------------
(* Scopes *)

EnterScope(m, scope) ==
  IF Going(m) THEN [m EXCEPT !.scopes = Append(@, scope), !.scope = Len(m.scopes) + 1] ELSE m
LeaveScope(m, scope) == [m EXCEPT !.scope = scope]

(* The scope that a name in scope i belongs to.  The body of a class sees  *)
(* what it has bound so far.                                               *)
RECURSIVE Home(_, _, _)
Home(m, i, name) ==
  LET s == m.scopes[i]
  IN CASE i = 1 \/ name \in s.globals -> 1
       [] i # 1 /\ name \notin s.globals ->
            IF \/ name \in s.names
               \/ s.kind = "class" /\ name \in DOMAIN s.vars
            THEN i
            ELSE Home(m, s.parent, name)

HomeToBind(m, name) ==
  IF m.scopes[m.scope].kind = "class" THEN m.scope ELSE Home(m, m.scope, name)

Bind(m, name, v) ==
  IF Going(m) THEN [m EXCEPT !.scopes[HomeToBind(m, name)].vars = (name :> v) @@ @] ELSE m

Unbind(m, name) ==
  IF Going(m) THEN [m EXCEPT !.scopes[HomeToBind(m, name)].vars =
                      [n \in DOMAIN @ \ {name} |-> @[n]]] ELSE m

(* A name of the program that is not bound is one of the surroundings; one *)
(* of a function is an error.                                              *)
Lookup(m, name) ==
  LET i == Home(m, m.scope, name)
      bound == m.scopes[i].vars
  IN IF name \in DOMAIN bound THEN Yields(m, bound[name])
     ELSE IF i = 1 THEN Yields(m, name) ELSE Signal(m, "NameError")

(* The next event, which must be the one at place id on args *)
Event(m, id, args) ==
  IF ~Going(m) THEN m
  ELSE IF m.rest = <<>> THEN Signal(m, "more")
  ELSE IF Head(m.rest).id = id /\ Head(m.rest).args = args
       THEN [m EXCEPT !.rest = Tail(@), !.res = Head(m.rest).result]
       ELSE Signal(m, "stuck")

(* An operation on args, which yields its id or raises *)
Operate(m, id, args) ==
  LET r == Event(m, id, args)
  IN IF Going(r) /\ r.res # "ok" THEN Signal(r, r.res) ELSE r

(* The one at place id on the last n values, whose place its result takes  *)
Apply(m, id, n) ==
  IF Going(m) THEN Yields(Drop(Operate(m, id, LastValues(m, n)), n), id) ELSE m

(* Is the last value true?  It stays; what follows depends on the answer. *)
Truth(m, IfTrue(_), IfFalse(_)) ==
  IF ~Going(m) THEN m
  ELSE LET r == Event(m, "BOOL", LastValues(m, 1))
       IN IF ~Going(r) THEN r ELSE IF r.res = "true" THEN IfTrue(r) ELSE IfFalse(r)

(* Several names take the items of v one by one. *)
BindNames(m, names, v) ==
  IF Len(names) = 1 THEN Bind(m, names[1], v)
  ELSE FoldLeft(LAMBDA r, i : Bind(Operate(r, names[i], <<v, <<"0", "1">>[i]>>),
                                   names[i], names[i]),
                m, [i \in 1..Len(names) |-> i])

-----------------------------------------------------------------------------
RECURSIVE Eval(_, _), EvalOr(_, _, _), EvalChain(_, _, _), EvalElements(_, _, _)
RECURSIVE EvalItems(_, _, _, _), EvalYieldFrom(_, _, _), Run(_, _)

EvalAll(m, es) == FoldLeft(Eval, m, es)

(* or and and: the first value that decides, or the last one *)
EvalOr(m, e, vs) ==
  LET r == Eval(m, Head(vs))
      Next(d) == EvalOr(Drop(d, 1), e, Tail(vs))
      Stop(d) == d
  IN IF Tail(vs) = <<>> THEN r
     ELSE IF e.is_or THEN Truth(r, Stop, Next) ELSE Truth(r, Next, Stop)

Compare(m, op) ==
  IF ~Going(m) THEN m
  ELSE LET v == LastValues(m, 2)
       IN Yields(Drop(Operate(m, op.id, IF op.contains THEN Reverse(v) ELSE v), 2), op.id)

(* Comparison i: each operand is evaluated once, and a false result ends   *)
(* the chain.                                                              *)
EvalChain(m, e, i) ==
  LET r == Eval(m, e.comparators[i])
      c == Compare(r, e.ops[i])
      right == LastValues(r, 1)
  IN IF i = Len(e.ops) THEN c
     ELSE Truth(c, LAMBDA d : EvalChain(Yields(Drop(d, 1), right[1]), e, i + 1), LAMBDA d : d)

(* The generators of a comprehension, outermost first; and the items of    *)
(* the first of them, from the iterator it                                 *)
EvalElements(m, e, generators) ==
  IF generators = <<>>
  THEN LET es == IF e.k = "dict_comp" THEN <<e.key, e.value>> ELSE <<e.elt>>
           r == EvalAll(m, es)
       IN IF Going(r) THEN Drop(Operate(r, e.id, <<e.id>> \o LastValues(r, Len(es))), Len(es))
          ELSE r
  ELSE LET r == Eval(m, Head(generators).iter)
       IN IF Going(r) THEN EvalItems(Drop(r, 1), e, generators, LastValues(r, 1)) ELSE r

EvalItems(m, e, generators, it) ==
  LET g == Head(generators)
      r == Event(m, g.id, it)
      Condition(d, cond) ==   \* "false" in res skips the item
        IF Going(d) /\ d.res # "false"
        THEN Drop(Truth(Eval(d, cond), LAMBDA t : t, LAMBDA f : f), 1) ELSE d
      item == [BindNames(r, g.targets, g.id) EXCEPT !.res = "ok"]
      chosen == FoldLeft(Condition, item, g.ifs)
      again == IF Going(chosen) /\ chosen.res # "false"
               THEN EvalElements(chosen, e, Tail(generators)) ELSE chosen
  IN IF ~Going(r) \/ r.res = "none" THEN r ELSE EvalItems(again, e, generators, it)

(* A comprehension has a scope of its own for the names it binds.  The     *)
(* first iterable is outside of it.                                        *)
EvalComprehension(m, e) ==
  LET r == Eval(m, Head(e.generators).iter)
      own == UNION {Range(e.generators[i].targets) : i \in 1..Len(e.generators)}
      inner == EnterScope(Drop(r, 1), Scope("comprehension", own, {}, m.scope, Nothing))
  IN IF ~Going(r) THEN r
     ELSE Yields(LeaveScope(EvalItems(inner, e, e.generators, LastValues(r, 1)), m.scope), e.id)

YieldValue(m, id, v) == Operate(m, id, <<"yields", v>>)

EvalYieldFrom(m, e, it) ==
  LET r == Event(m, e.item, it)
  IN IF ~Going(r) \/ r.res = "none" THEN Yields(r, "None")
     ELSE EvalYieldFrom(YieldValue(r, e.id, e.item), e, it)

(* Key and value of each pair in turn *)
EvalDict(m, e) ==
  LET n == Len(e.keys)
      r == FoldLeft(LAMBDA d, i : EvalAll(d, <<e.keys[i], e.values[i]>>), m,
                    [i \in 1..n |-> i])
      v == LastValues(r, 2 * n)
      args == [i \in 1..2 * n |-> IF i <= n THEN v[2 * i - 1] ELSE v[2 * (i - n)]]
  IN IF Going(r) THEN Yields(Drop(Operate(r, e.id, args), 2 * n), e.id) ELSE r

EvalJoined(m, e) ==
  LET Part(d, p) == IF p.k = "constant" THEN d ELSE Drop(Apply(Eval(d, p.value), p.id, 1), 1)
      single == Head(e.values)
  IN Yields(FoldLeft(Part, m, e.values),
            CASE Len(e.values) > 1 -> e.id
              [] single.k = "constant" -> single.value
              [] OTHER -> single.id)

-----------------------------------------------------------------------------
(* Functions.  One keeps the scope in which it is made, and the values of  *)
(* its defaults.                                                           *)

FunctionName(n) == "function " \o ToString(n)

(* Names in the body of a class are not seen by the functions in it. *)
ParentOf(m) ==
  LET s == m.scopes[m.scope] IN IF s.kind = "class" THEN s.parent ELSE m.scope

CreateFunction(m, params, body) ==
  LET es == params.defaults \o FlattenSeq(params.kw_defaults)
      r == EvalAll(m, es)
  IN IF ~Going(r) THEN r
     ELSE Yields([Drop(r, Len(es)) EXCEPT !.functions =
                    Append(@, [params |-> params, body |-> body, parent |-> ParentOf(m),
                               defaults |-> LastValues(r, Len(es))])],
                 FunctionName(Len(r.functions) + 1))

(* The last parameters have defaults, those of kwonlyargs behind them.     *)
(* Actuals are positional, and the ones too many go to vararg.             *)
ArityFits(f, n) ==
  LET positional == Len(f.params.posonlyargs) + Len(f.params.args)
  IN /\ n <= positional \/ f.params.vararg # <<>>
     /\ n >= positional - Len(f.params.defaults)
     /\ \A i \in 1..Len(f.params.kw_defaults) : f.params.kw_defaults[i] # <<>>

Actuals(f, args) ==
  LET names == f.params.posonlyargs \o f.params.args
      n == Len(names)
      given == Len(args)
      defaults == SubSeq(f.defaults, 1, Len(f.params.defaults))
      Value(i) == IF i <= given THEN args[i] ELSE defaults[i - n + Len(defaults)]
      Of(ns, vs) == [x \in Range(ns) |-> vs[CHOOSE i \in 1..Len(ns) : ns[i] = x]]
  IN Of(names, [i \in 1..n |-> Value(i)])
       @@ Of(f.params.vararg, <<"a tuple">>) @@ Of(f.params.kwarg, <<"a dict">>)
       @@ Of(f.params.kwonlyargs, SubSeq(f.defaults, Len(defaults) + 1, Len(f.defaults)))

(* The body of a generator function does not run when it is called.        *)
RunFunction(m, f, args) ==
  LET scope == Scope("function", OwnNames(f.params, f.body), DeclaredNames(f.body, "global"),
                     f.parent, Actuals(f, args))
      r == LeaveScope(Run(EnterScope([m EXCEPT !.vals = <<>>], scope), f.body), m.scope)
      result == IF r.sig = "return" THEN Last(r.vals) ELSE "None"
  IN CASE ~ArityFits(f, Len(args)) -> Signal(m, "TypeError")
       [] ArityFits(f, Len(args)) /\ IsGenerator(f.body) -> Yields(m, "a generator")
       [] OTHER -> IF r.sig \in {"next", "return"}
                   THEN [r EXCEPT !.sig = "next", !.vals = Append(m.vals, result)] ELSE r

(* The call at place id: the last n values are what it calls and with what *)
Call(m, id, n) ==
  LET v == LastValues(m, n)
      called == {i \in 1..Len(m.functions) : FunctionName(i) = Head(v)}
  IN IF ~Going(m) THEN m ELSE IF called = {} THEN Apply(m, id, n)
     ELSE RunFunction(Drop(m, n), m.functions[CHOOSE i \in called : TRUE], Tail(v))

(* The element and the filters are evaluated when someone asks for it.     *)
EvalGeneratorExp(m, e) ==
  LET g == Head(e.generators)
      params == [posonlyargs |-> <<>>, args |-> g.targets, vararg |-> <<>>, kwonlyargs |-> <<>>,
                 kwarg |-> <<>>, defaults |-> <<>>, kw_defaults |-> <<>>]
      Made(d, x) == CreateFunction(d, params, <<[k |-> "return", value |-> x]>>)
  IN Apply(FoldLeft(Made, Eval(m, g.iter), <<e.elt>> \o g.ifs), e.id, Len(g.ifs) + 2)

-----------------------------------------------------------------------------
Eval(m, e) ==
  CASE ~Going(m) -> m
    [] e.k = "constant" -> Yields(m, e.value)
    [] e.k = "name" -> Lookup(m, e.id)
    [] e.k = "bin_op" -> Apply(EvalAll(m, <<e.left, e.right>>), e.id, 2)
    [] e.k = "subscript" -> Apply(EvalAll(m, <<e.value, e.slice>>), e.id, 2)
    [] e.k \in {"unary_op", "attribute", "await"} -> Apply(Eval(m, e.value), e.id, 1)
    [] e.k = "call" -> Call(EvalAll(m, <<e.func>> \o e.args), e.id, Len(e.args) + 1)
    [] e.k = "lambda" -> CreateFunction(m, e.params, <<[k |-> "return", value |-> e.body]>>)
    [] e.k = "generator_exp" -> EvalGeneratorExp(m, e)
    [] e.k = "display" -> Apply(EvalAll(m, e.elts), e.id, Len(e.elts))
    [] e.k = "dict" -> EvalDict(m, e)
    [] e.k = "slice" -> Apply(EvalAll(m, <<e.lower, e.upper, e.step>>), e.id, 3)
    [] e.k = "named_expr" -> LET r == Eval(m, e.value)
                             IN IF Going(r) THEN Bind(r, e.name, Last(r.vals)) ELSE r
    [] e.k = "bool_op" -> EvalOr(m, e, e.values)
    [] e.k = "if_exp" -> Truth(Eval(m, e.test), LAMBDA d : Eval(Drop(d, 1), e.body),
                               LAMBDA d : Eval(Drop(d, 1), e.orelse))
    [] e.k = "compare" -> EvalChain(Eval(m, e.left), e, 1)
    [] e.k \in {"comp", "dict_comp"} -> EvalComprehension(m, e)
    [] e.k = "yield" -> LET r == Eval(m, e.value)
                        IN IF Going(r) THEN Yields(Drop(YieldValue(r, e.id, Last(r.vals)), 1),
                                                   "None") ELSE r
    [] e.k = "yield_from" -> LET r == Eval(m, e.value)
                             IN IF Going(r) THEN EvalYieldFrom(Drop(r, 1), e, LastValues(r, 1))
                                ELSE r
    [] e.k = "joined_str" -> EvalJoined(m, e)

-----------------------------------------------------------------------------
RECURSIVE RunStatement(_, _), RunWhile(_, _), RunFor(_, _, _)

Run(m, ss) == FoldLeft(RunStatement, m, ss)

Conditional(m, test, IfTrue(_), IfFalse(_)) ==
  Truth(Eval(m, test), LAMBDA d : IfTrue(Drop(d, 1)), LAMBDA d : IfFalse(Drop(d, 1)))

(* Behind the body of a loop: a break leaves out the else clause. *)
Around(r, Again(_)) ==
  CASE r.sig \in {"next", "continue"} -> Again([r EXCEPT !.sig = "next"])
    [] r.sig = "break" -> [r EXCEPT !.sig = "next"]
    [] OTHER -> r

RunWhile(m, s) ==
  Conditional(m, s.test, LAMBDA d : Around(Run(d, s.body), LAMBDA r : RunWhile(r, s)),
            LAMBDA d : Run(d, s.orelse))

RunFor(m, s, it) ==
  LET r == Event(m, s.id, it)
  IN IF ~Going(r) THEN r
     ELSE IF r.res = "none" THEN Run(r, s.orelse)
     ELSE Around(Run(BindNames(r, s.targets, s.id), s.body), LAMBDA d : RunFor(d, s, it))

(* The finally clause runs however the rest of the statement ended, and    *)
(* has the last word if it does not fall through.                          *)
Finish(m, finalbody) ==
  IF m.sig \in Incomplete THEN m
  ELSE LET f == Run([m EXCEPT !.sig = "next", !.vals = <<>>], finalbody)
       IN IF Going(f) THEN [f EXCEPT !.sig = m.sig, !.vals = m.vals] ELSE f

Catches(h, exc) == h.type \in {"", exc}

(* The name of the exception is unbound behind the clause. *)
Handle(m, h) ==
  LET r == [m EXCEPT !.sig = "next"]
  IN IF h.name = "" THEN Run(r, h.body)
     ELSE Unbind(Run(Bind(r, h.name, m.sig), h.body), h.name)

TryResult(m, s) ==
  LET r == Run(m, s.body)
      matching == {i \in 1..Len(s.handlers) : Catches(s.handlers[i], r.sig)}
  IN IF Going(r) THEN Run(r, s.orelse)
     ELSE IF ~Raised(r) \/ matching = {} THEN r
     ELSE Handle(r, s.handlers[CHOOSE i \in matching : \A j \in matching : i <= j])

(* The value v goes to a target, whose parts are evaluated then. *)
AssignTo(m, t, v) ==
  CASE t.k = "name" -> Bind(m, t.id, v)
    [] OTHER -> LET es == IF t.k = "subscript" THEN <<t.value, t.slice>> ELSE <<t.value>>
                    r == EvalAll(m, es)
                IN IF Going(r) THEN Drop(Operate(r, t.id, r.vals \o <<v>>), Len(es)) ELSE r

RunAssign(m, s) ==
  LET r == Eval(m, s.value)
  IN IF Going(r) THEN FoldLeft(LAMBDA d, t : AssignTo(d, t, Last(r.vals)), Drop(r, 1), s.targets)
     ELSE r

(* The parts of the target are evaluated once. *)
RunAugAssign(m, s) ==
  LET name == s.target.id
      r == Eval(Lookup(m, name), s.value)
  IN Bind(Drop(Apply(r, s.id, 2), 1), name, s.id)

DeleteFrom(m, t) ==
  CASE t.k = "name" -> Unbind(m, t.id)
    [] t.k = "subscript" -> Drop(Apply(EvalAll(m, <<t.value, t.slice>>), t.id, 2), 1)
    [] t.k = "attribute" -> Drop(Apply(Eval(m, t.value), t.id, 1), 1)

(* Decorators are evaluated first and called last, the last one first.     *)
DefineFunction(m, s) ==
  LET n == Len(s.decorators)
      r == CreateFunction(EvalAll(m, [i \in 1..n |-> s.decorators[i].value]), s.params, s.body)
  IN FoldLeft(LAMBDA d, i : Call(d, s.decorators[n + 1 - i].id, 2), r, [i \in 1..n |-> i])

(* The last value gets the name. *)
BindLast(m, name) == IF Going(m) THEN Drop(Bind(m, name, Last(m.vals)), 1) ELSE m

(* What the body of a class binds is an attribute too. *)
RECURSIVE DefineClass(_, _)

RunInClass(m, class, s) ==
  LET SetAttribute(d, name) ==
        IF Going(d) THEN Bind(Operate(d, name, <<class, Last(d.vals)>>), name, Last(d.vals)) ELSE d
  IN CASE s.k = "assign" ->
            Drop(FoldLeft(LAMBDA d, t : SetAttribute(d, t.id), Eval(m, s.value), s.targets), 1)
       [] s.k = "def" -> Drop(SetAttribute(DefineFunction(m, s), s.name), 1)
       [] s.k = "class" -> Drop(SetAttribute(DefineClass(m, s), s.name), 1)
       [] OTHER -> RunStatement(m, s)

DefineClass(m, s) ==
  LET r == EnterScope(Drop(EvalAll(m, s.bases), Len(s.bases)),
                 Scope("class", {}, {}, ParentOf(m), Nothing))
  IN Yields(LeaveScope(FoldLeft(LAMBDA d, t : RunInClass(d, s.name, t), r, s.body), m.scope), s.name)

RunRaise(m, s) ==
  LET r == EvalAll(m, s.exc)
  IN IF Going(r) THEN Signal(r, Head(r.vals)) ELSE r

(* A bare raise is taken to stand outside of every handler. *)
RunStatement(m, s) ==
  CASE ~Going(m) -> m
    [] s.k \in {"pass", "global", "nonlocal"} -> m
    [] s.k \in {"break", "continue"} -> Signal(m, s.k)
    [] s.k = "return" -> LET r == Eval(m, s.value)
                         IN IF Going(r) THEN [r EXCEPT !.sig = "return"] ELSE r
    [] s.k = "raise" -> IF s.exc = <<>> THEN Signal(m, "RuntimeError") ELSE RunRaise(m, s)
    [] s.k = "expr" -> Drop(Eval(m, s.value), 1)
    [] s.k = "assign" -> RunAssign(m, s)
    [] s.k = "aug_assign" -> RunAugAssign(m, s)
    [] s.k = "delete" -> FoldLeft(DeleteFrom, m, s.targets)
    [] s.k = "import" ->
         FoldLeft(LAMBDA d, a : Bind(Operate(d, a.name, <<>>), a.asname, a.name), m, s.names)
    [] s.k = "import_from" ->
         FoldLeft(LAMBDA d, a : Bind(Operate(d, a.name, <<s.module>>), a.asname, a.name),
                  Operate(m, s.module, <<>>), s.names)
    [] s.k = "class" -> BindLast(DefineClass(m, s), s.name)
    [] s.k = "def" -> BindLast(DefineFunction(m, s), s.name)
    [] s.k = "assert" -> Conditional(m, s.test, LAMBDA d : d,
                                     LAMBDA d : Signal(EvalAll(d, s.msg), "AssertionError"))
    [] s.k = "if" -> Conditional(m, s.test, LAMBDA d : Run(d, s.body),
                                 LAMBDA d : Run(d, s.orelse))
    [] s.k = "while" -> RunWhile(m, s)
    [] s.k = "for" -> LET r == Eval(m, s.iter)
                      IN IF Going(r) THEN RunFor(Drop(r, 1), s, LastValues(r, 1)) ELSE r
    [] s.k = "try" -> Finish(TryResult(m, s), s.finalbody)

(* How a whole body of the kind kind ends: falling off its end returns     *)
(* None, and a generator function returns a generator.                     *)
Outcome(m, kind) ==
  CASE Raised(m) -> <<m.sig>>
    [] kind = "module" -> <<"return">>
    [] kind = "generator" -> <<"return", "generator">>
    [] OTHER -> <<"return", IF m.sig = "return" THEN Last(m.vals) ELSE "None">>

=============================================================================
