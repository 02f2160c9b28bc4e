----------------------------- MODULE MCExecution ----------------------------
(***************************************************************************)
(* Small programs, put together from a grammar.  Operations have ids that  *)
(* name their place; other names are those of the surroundings.            *)
(***************************************************************************)
EXTENDS Execution, Lowering

Generate(p) == LET body == p.body IN codegen_module(body, p.kind, p.odd_operand)
Read(tr, p) == LET m == Reader(tr) IN Run(m, p.body)

N(id) == [k |-> "name", id |-> id]
C(class, value) == [k |-> "constant", class |-> class, value |-> value]
One == C("$I", "1")
CallE(id, args) == [k |-> "call", id |-> id, raises |-> {}, func |-> N("f_" \o id), args |-> args]

Call0(id) == [k |-> "expr", value |-> CallE(id, <<>>)]
CallR(id, raises) == [k |-> "expr", value |-> [CallE(id, <<>>) EXCEPT !.raises = raises]]
Pass == [k |-> "pass"]
Break == [k |-> "break"]
Continue == [k |-> "continue"]
ReturnE(e) == [k |-> "return", value |-> e]
ReturnS == ReturnE(C("$O", "None"))
Raise(exc) == [k |-> "raise", exc |-> <<N(exc)>>]
RaiseBare == [k |-> "raise", exc |-> <<>>]
AssertS(name) == [k |-> "assert", test |-> N(name), msg |-> <<>>]
AssignE(name, e) == [k |-> "assign", targets |-> <<N(name)>>, value |-> e]
Assign(name) == AssignE(name, C("$O", "None"))
If(name, body, orelse) == [k |-> "if", test |-> N(name), body |-> body, orelse |-> orelse]
While(body, orelse) == [k |-> "while", test |-> N("w"), body |-> body, orelse |-> orelse]
For(body, orelse) ==
  [k |-> "for", id |-> "item", targets |-> <<"i">>, iter |-> N("xs"), body |-> body,
   orelse |-> orelse]
Try(body, handlers, orelse, finalbody) ==
  [k |-> "try", body |-> body, handlers |-> handlers, orelse |-> orelse,
   finalbody |-> finalbody]
Handler(type, name, body) == [type |-> type, name |-> name, body |-> body]

In(kind, bodies) == {[body |-> b, kind |-> kind, odd_operand |-> FALSE] : b \in bodies}
InModule(bodies) == In("module", bodies)
InFunction(bodies) == In("function", bodies)

-----------------------------------------------------------------------------
(* Loops over branches with every mixture of jumps.  A body may end in an  *)
(* if that always jumps, but not in the jump itself, and a while has no    *)
(* else clause: see the other programs below.                              *)

Jumps == {Pass, Break, Continue, ReturnS}
Blocks == {<<j>> : j \in Jumps} \cup {<<Call0("a"), j>> : j \in Jumps}
Ifs == {If("p", b, o) : b \in Blocks,
                        o \in {<<>>} \cup {<<Call0("b"), j>> : j \in Jumps}}
IfBodies == {<<i>> : i \in Ifs} \cup {<<i, Call0("c")>> : i \in Ifs}
Loops == {For(b, o) : b \in IfBodies, o \in {<<>>, <<Call0("e")>>}}
           \cup {While(b, <<>>) : b \in IfBodies}
LoopPrograms == InFunction({<<l, Call0("z")>> : l \in Loops})

-----------------------------------------------------------------------------
(* Exceptions: a call that raises A or B, one handler or a finally clause, *)
(* in each other and in loops                                              *)

Risky == CallR("r", {"A", "B"})
Bodies == {<<Risky>>, <<Risky, Call0("a")>>, <<Call0("a"), Raise("A")>>,
           <<If("p", <<Risky>>, <<>>)>>, <<Assign("x"), AssertS("t"), RaiseBare>>}
HandlerBodies == {<<Pass>>, <<Call0("h")>>, <<Raise("B")>>, <<If("q", <<Raise("B")>>, <<>>)>>}
Handlers == {Handler("A", n, b) : n \in {"", "e"}, b \in HandlerBodies}
              \cup {Handler("AssertionError", "", <<Pass>>)}
              \cup {Handler("", "", b) : b \in HandlerBodies}
Excepts == {Try(b, <<h>>, <<>>, <<>>) : b \in Bodies, h \in Handlers}
Finallys(bodies) == {Try(b, <<>>, <<>>, <<Call0("f")>>) : b \in bodies}
InLoops == {While(<<Try(<<Risky>>, <<h>>, <<>>, <<>>)>>, <<>>) : h \in Handlers}
             \cup {For(<<Try(<<Risky>>, <<Handler("A", "", <<j>>)>>, <<>>, <<>>)>>, <<>>) :
                      j \in {Break, Continue}}
TryPrograms ==
  InModule({<<t, Call0("z")>> : t \in Excepts \cup Finallys(Bodies)
                                   \cup Finallys({<<e>> : e \in Excepts})
                                   \cup Finallys({<<f>> : f \in Finallys(Bodies)})
                                   \cup InLoops})

-----------------------------------------------------------------------------
(* Expressions: straight ones of two operands l and r, and ones that       *)
(* branch                                                                  *)

P == N("p")
Op(id, contains) == [id |-> id, contains |-> contains]
CompareE(l, op, r) == [k |-> "compare", left |-> l, ops |-> <<op>>, comparators |-> <<r>>]
SubscriptE(id, e, slice) == [k |-> "subscript", id |-> id, value |-> e, slice |-> slice]
AttributeE(id, e) == [k |-> "attribute", id |-> id, value |-> e]
SliceE(l, r) == [k |-> "slice", id |-> "slice", lower |-> l, upper |-> r, step |-> C("$O", "None")]
Formatted(id, e) == [k |-> "formatted", id |-> id, value |-> e]
JoinedE(parts) == [k |-> "joined_str", id |-> "text", values |-> parts]

Straight(l, r) ==
  {[k |-> "bin_op", id |-> "+", left |-> l, right |-> r],
   [k |-> "unary_op", id |-> "-", value |-> l], [k |-> "await", id |-> "await", value |-> l],
   SubscriptE("[]", l, r), AttributeE("attr", l), [CallE("call", <<l, r>>) EXCEPT !.func = l],
   [k |-> "display", id |-> "[..]", class |-> "$L", elts |-> <<l, r>>],
   [k |-> "dict", id |-> "{..}", keys |-> <<l>>, values |-> <<r>>],
   CompareE(l, Op("==", FALSE), r), CompareE(l, Op("in", TRUE), r),
   JoinedE(<<C("$S", "s"), Formatted("fl", l), Formatted("fr", r)>>),
   JoinedE(<<Formatted("fl", l)>>)}

OrE(l, r) == [k |-> "bool_op", is_or |-> TRUE, values |-> <<l, r>>]
AndE(l, r) == [k |-> "bool_op", is_or |-> FALSE, values |-> <<l, r>>]
IfE(test, l, r) == [k |-> "if_exp", test |-> test, body |-> l, orelse |-> r]
ChainE(l, m, r) ==
  [k |-> "compare", left |-> l, ops |-> <<Op("<", FALSE), Op("in", TRUE)>>,
   comparators |-> <<m, r>>]
NamedE(name, e) == [k |-> "named_expr", name |-> name, value |-> e]

Decisions(l, r) == {OrE(l, r), AndE(l, r), IfE(P, l, r)}
Branching(l, r) == Decisions(l, r) \cup {ChainE(N("a"), l, r)}

Gen(targets, iter, ifs) ==
  [id |-> "of " \o targets[1], targets |-> targets, iter |-> iter, ifs |-> ifs]
CompE(elt, gens) ==
  [k |-> "comp", id |-> "comp", class |-> "$L", elt |-> elt, generators |-> gens]
DictCompE(key, value, gens) ==
  [k |-> "dict_comp", id |-> "comp", class |-> "$D", key |-> key, value |-> value,
   generators |-> gens]
YieldE(id, e) == [k |-> "yield", id |-> id, value |-> e]
YieldFromE(id, e) == [k |-> "yield_from", id |-> id, item |-> id \o " item", value |-> e]

L == CallE("l", <<>>)
R == CallE("r", <<>>)
Z == CallE("z", <<>>)
Xs == N("xs")

Comprehensions ==
  {CompE(L, <<Gen(<<"x">>, Xs, <<>>)>>), CompE(N("x"), <<Gen(<<"x">>, L, <<R, N("x")>>)>>),
   CompE(N("y"), <<Gen(<<"x", "y">>, L, <<>>)>>),
   DictCompE(N("y"), N("x"), <<Gen(<<"x", "y">>, Xs, <<N("y")>>)>>)}

Expressions ==
  Straight(L, R) \cup Branching(L, R) \cup Comprehensions \cup {NamedE("n", L)}
    \cup UNION {Branching(e, Z) \cup Decisions(Z, e) : e \in Branching(L, R)}
    \cup UNION {Branching(e, Z) : e \in Straight(L, R)}
    \cup UNION {Straight(e, Z) \cup Straight(Z, e) : e \in Branching(L, R)}

ExprS(e) == [k |-> "expr", value |-> e]
Use(name) == ExprS(CallE("use", <<N(name)>>))
IfTest(e) == [If("p", <<Call0("c")>>, <<>>) EXCEPT !.test = e]

ExpressionPrograms ==
  LET Uses(e) == {<<AssignE("v", e), Use("v")>>, <<IfTest(e), Call0("d")>>}
      Returns(e) == {<<ReturnE(e)>>, <<[For(<<Call0("c")>>, <<>>) EXCEPT !.iter = e]>>}
  IN InModule(UNION {Uses(e) : e \in Expressions})
       \cup InFunction(UNION {Returns(e) : e \in Expressions})

-----------------------------------------------------------------------------
(* The other statements, in a module and in a function                     *)

AssignToAll(targets, e) == [k |-> "assign", targets |-> targets, value |-> e]
Item(id) == SubscriptE(id, CallE(id \o "o", <<>>), CallE(id \o "k", <<>>))
Member(id) == AttributeE(id, CallE(id \o "o", <<>>))
Add(name, e) == [k |-> "aug_assign", id |-> "+=", target |-> N(name), value |-> e]
Delete(targets) == [k |-> "delete", targets |-> targets]
As(names) == [i \in 1..Len(names) |-> [name |-> names[i], asname |-> "my " \o names[i]]]
ImportS(names) == [k |-> "import", names |-> As(names)]
FromS(module, names) == [k |-> "import_from", module |-> module, names |-> As(names)]
ClassS(bases, body) == [k |-> "class", name |-> "Cls", bases |-> bases, body |-> body]
ForTwo(body) == [For(body, <<>>) EXCEPT !.targets = <<"i", "j">>]

StatementBodies ==
  {<<AssignToAll(<<N("x"), N("y"), N("v")>>, e), Use("x"), Use("v")>> : e \in {L, OrE(L, R)}}
    \cup {<<AssignToAll(ts, L), Call0("c")>> :
             ts \in {<<Item("t")>>, <<Member("t")>>, <<Item("t"), Member("u")>>}}
    \cup {<<AssignToAll(<<Item("t")>>, OrE(L, R)), Call0("c")>>,
          <<Assign("x"), Add("x", L), Use("x")>>, <<Assign("x"), Add("x", OrE(L, R)), Use("x")>>,
          <<Delete(<<Item("t"), Member("u")>>), Call0("c")>>,
          <<ImportS(<<"m", "n">>), Use("my n")>>, <<FromS("m", <<"n", "o">>), Use("my n")>>,
          <<[k |-> "global", names |-> {"x"}], AssignE("x", L), Use("x")>>,
          <<ClassS(<<>>, <<AssignE("x", L), Pass, AssignE("y", R)>>), Use("Cls")>>,
          <<ClassS(<<N("A"), L>>, <<AssignE("x", L)>>), Use("Cls")>>,
          <<IfTest(NamedE("n", L)), Use("n")>>}

YieldBodies ==
  {<<ExprS(YieldE("y", L)), ExprS(YieldE("y2", R))>>, <<ExprS(YieldE("y", L)), ReturnS>>,
   <<If("p", <<ExprS(YieldE("y", L))>>, <<>>), ExprS(YieldE("y2", R))>>,
   <<AssignE("v", YieldE("y", L)), Use("v")>>,
   <<For(<<ExprS(YieldE("y", N("i")))>>, <<>>), ExprS(YieldE("y2", R))>>,
   <<ExprS(YieldFromE("y", L)), ExprS(YieldFromE("y2", R))>>}

StatementPrograms ==
  InModule(StatementBodies) \cup InFunction(StatementBodies) \cup In("generator", YieldBodies)
    \cup InModule({<<Assign("x"), Delete(<<N("x")>>), Use("x")>>,
                   <<[k |-> "raise", exc |-> <<N("A"), L>>]>>,
                   <<ForTwo(<<If("p", <<Break>>, <<>>), Use("j")>>)>>,
                   <<[AssertS("p") EXCEPT !.msg = <<L>>], Call0("z")>>,
                   <<Try(<<Risky>>, <<Handler("A", "e", <<Use("e")>>)>>, <<>>, <<>>)>>})

-----------------------------------------------------------------------------
(* Functions, lambdas, closures and methods *)

Args(names) == [NoParameters EXCEPT !.args = names]
Def(name, args, body) ==
  [k |-> "def", name |-> name, params |-> Args(args), body |-> body, decorators |-> <<>>]
LambdaE(args, body) == [k |-> "lambda", params |-> Args(args), body |-> body]
CallF(f, args) == [CallE("call " \o f, args) EXCEPT !.func = N(f)]
UseE(e) == ExprS(CallE("use", <<e>>))
BinE(l, r) == [k |-> "bin_op", id |-> "+", left |-> l, right |-> r]
Decorated(names, def) ==
  [def EXCEPT !.decorators = [i \in 1..Len(names) |-> [id |-> "@" \o names[i], value |-> N(names[i])]]]
GeneratorE(elt, gens) ==
  [k |-> "generator_exp", id |-> "gen", class |-> "$L", elt |-> elt, generators |-> gens]

X == N("x")

(* Bodies of a function of x and y *)
FunctionBodies ==
  {<<ReturnE(BinE(X, N("y")))>>, <<UseE(X)>>, <<Pass>>,
   <<If("x", <<ReturnE(N("y"))>>, <<>>), ReturnE(X)>>,
   <<AssignE("v", X), Add("v", N("y")), ReturnE(N("v"))>>,
   <<While(<<If("x", <<ReturnE(N("y"))>>, <<>>), Call0("c")>>, <<>>), ReturnE(X)>>,
   <<[For(<<Use("i")>>, <<>>) EXCEPT !.iter = X], ReturnE(N("y"))>>,
   <<Try(<<Risky>>, <<Handler("A", "", <<Use("y")>>)>>, <<>>, <<>>), ReturnE(X)>>,
   <<[k |-> "global", names |-> {"x2"}], AssignE("x2", X), ReturnE(N("x2"))>>,
   <<If("p", <<ReturnE(CallF("f", <<N("y"), X>>))>>, <<>>), ReturnE(N("y"))>>,
   <<Def("g", <<"x">>, <<ReturnE(X)>>), ReturnE(CallF("g", <<N("y")>>))>>,
   <<ClassS(<<>>, <<Def("g", <<"x">>, <<ReturnE(X)>>)>>), ReturnE(N("Cls"))>>,
   <<ReturnE(OrE(X, N("y")))>>, <<ReturnE(CompE(X, <<Gen(<<"z">>, N("y"), <<>>)>>))>>}

Calls == {<<Def("f", <<"x", "y">>, b), UseE(CallF("f", <<L, R>>))>> : b \in FunctionBodies}
           \cup {<<Def("f", <<"x">>, <<Risky, ReturnE(X)>>),
                   Try(<<UseE(CallF("f", <<L>>))>>, <<Handler("A", "", <<Call0("h")>>)>>, <<>>, <<>>),
                   Call0("z")>>,
                 <<Def("f", <<>>, <<Risky>>), Def("g", <<>>, <<ExprS(CallF("f", <<>>)), Call0("a")>>),
                   Try(<<ExprS(CallF("g", <<>>))>>, <<>>, <<>>, <<Call0("h")>>), Call0("z")>>,
                 <<[Def("f", <<"x", "y">>, <<ReturnE(N("y"))>>) EXCEPT !.params.defaults = <<One>>],
                   UseE(CallF("f", <<L, R>>))>>,
                 <<Def("f", <<>>, <<ReturnS>>),
                   AssignE("f", [LambdaE(<<"x">>, X) EXCEPT !.params.defaults = <<One>>]),
                   UseE(CallF("f", <<L>>))>>}

(* def make(n, m): def add(x): return <e>   return add *)
Maker(inner) == <<Def("make", <<"n", "m">>, inner), AssignE("v", CallF("make", <<L, R>>)),
                  UseE(CallF("v", <<Z>>))>>
Captured == {N("n"), BinE(N("n"), X), BinE(BinE(N("m"), N("n")), N("m")), CallE("c", <<N("m"), X>>)}
Closures ==
  {Maker(<<Def("add", <<"x">>, <<ReturnE(e)>>), ReturnE(N("add"))>>) : e \in Captured}
    \cup {Maker(<<ReturnE(LambdaE(<<"x">>, e))>>) : e \in Captured}
    \cup {Maker(<<AssignE("k", N("n")), Def("add", <<"x">>, <<AssignE("n", X), ReturnE(BinE(N("k"), N("n")))>>),
                  ReturnE(N("add"))>>),
          Maker(<<Def("add", <<"x">>, <<[k |-> "nonlocal", names |-> {"n"}], ReturnE(N("n"))>>),
                  IfTest(P), ReturnE(N("add"))>>),
          Maker(<<Def("add", <<"x">>, <<[For(<<Use("m")>>, <<>>) EXCEPT
                                             !.targets = <<"m">>, !.iter = X], Add("x", N("n"))>>),
                  ReturnE(N("add"))>>),
          Maker(<<ReturnE(GeneratorE(BinE(X, N("n")),
                                     <<Gen(<<"x">>, N("m"), <<BinE(X, N("n")), N("m")>>)>>))>>),
          <<Def("make", <<"n">>,
                <<[Def("add", <<"x", "y">>, <<ReturnE(BinE(X, N("n")))>>)
                     EXCEPT !.params.defaults = <<One>>], ReturnE(N("add"))>>),
            AssignE("v", CallF("make", <<L>>)), UseE(CallF("v", <<R, Z>>))>>}

Methods ==
  {<<ClassS(<<>>, <<AssignE("a", L), Def("g", <<"x">>, <<ReturnE(X)>>),
                    Def("h", <<"x">>, <<If("x", <<ReturnS>>, <<>>), ReturnE(X)>>)>>), Use("Cls")>>}

Decorators ==
  {<<Decorated(<<"d">>, Def("f", <<"x">>, <<ReturnE(X)>>)), UseE(CallF("f", <<L>>))>>,
   <<Def("d", <<"x">>, <<Use("x"), ReturnE(X)>>), Decorated(<<"d">>, Def("f", <<"x">>, <<ReturnE(X)>>)),
     UseE(CallF("f", <<L>>))>>,
   <<Def("d", <<"h">>, <<ReturnE(LambdaE(<<"x">>, BinE(CallE("c", <<N("h")>>), X)))>>),
     Decorated(<<"d">>, Def("f", <<"x">>, <<ReturnE(X)>>)), UseE(CallF("f", <<L>>))>>}

Generators ==
  {<<AssignE("v", GeneratorE(elt, <<Gen(<<"x">>, L, ifs)>>)), Use("v")>> :
     elt \in {X, BinE(X, N("y")), OrE(X, N("y"))}, ifs \in {<<>>, <<X>>, <<X, BinE(X, X)>>}}

FunctionPrograms ==
  InModule(Calls \cup Closures \cup Methods \cup Decorators \cup Generators)
    \cup InFunction(Decorators \cup Generators \cup Methods)

SupportedPrograms ==
  LoopPrograms \cup TryPrograms \cup ExpressionPrograms \cup StatementPrograms
    \cup FunctionPrograms

-----------------------------------------------------------------------------
(* Programs that the code does not treat as it says: the first has a run   *)
(* of its own.  Given to Programs, each of the others also violates Loads  *)
(* or BehavesAsPython.                                                     *)

(* with m: a() *)
WithPrograms == InModule({<<[k |-> "with", manager |-> N("m"), name |-> "", body |-> <<Call0("a")>>]>>})

OtherDeviations ==
  [nested_for     |-> \* def f(): for i in ..: for i in ..: a()
     InFunction({<<For(<<For(<<Call0("a")>>, <<>>)>>, <<>>)>>}),
   branch_local   |-> \* def f(): if p: x = ..   then z()
     InFunction({<<If("p", <<Assign("x")>>, <<>>), Call0("z")>>}),
   both_return    |-> \* def f(): if p: return   else: return
     InFunction({<<If("p", <<ReturnS>>, <<ReturnS>>)>>}),
   odd_operand    |-> \* x = ..   as a whole module, ending in the byte of a return
     {[body |-> <<Assign("x")>>, kind |-> "module", odd_operand |-> TRUE]},
   while_else     |-> \* while w: if p: break   else: e()
     InModule({<<While(<<If("p", <<Break>>, <<>>)>>, <<Call0("e")>>), Call0("z")>>}),
   handler_finally |-> \* try: r()   except A: h()   finally: f()
     InModule({<<Try(<<Risky>>, <<Handler("A", "", <<Call0("h")>>)>>, <<>>, <<Call0("f")>>)>>}),
   try_else       |-> \* try: r()   except A: h()   else: e()
     InModule({<<Try(<<Risky>>, <<Handler("A", "", <<Call0("h")>>)>>, <<Call0("e")>>, <<>>)>>}),
   two_handlers   |-> \* try: r()   except A: h()   except B: g()
     InModule({<<Try(<<Risky>>, <<Handler("A", "", <<Call0("h")>>),
                                  Handler("B", "", <<Call0("g")>>)>>, <<>>, <<>>)>>}),
   return_finally |-> \* def f(): try: return   finally: f()
     InFunction({<<Try(<<ReturnS>>, <<>>, <<>>, <<Call0("f")>>)>>}),
   raise_last     |-> \* def f(): raise A
     InFunction({<<Raise("A")>>}),
   assert_last    |-> \* assert p   as the end of a module
     InModule({<<AssertS("p")>>}),
   narrow_or      |-> \* l() or 1
     InModule({<<ExprS(OrE(L, One))>>}),
   narrow_chain   |-> \* 1 < l() in r()
     InModule({<<ExprS([ChainE(N("a"), L, R) EXCEPT !.left = One])>>}),
   deep_chain     |-> \* a < b in c(z)
     InModule({<<ExprS(ChainE(N("a"), N("b"), CallE("c", <<N("z")>>)))>>}),
   slice_branch   |-> \* l()[r():z()]   if p: c()
     InModule({<<ExprS(SubscriptE("[]", L, SliceE(R, Z))), IfTest(P), Call0("d")>>}),
   inner_comp     |-> \* c([x for x in xs])
     InModule({<<ExprS(CallE("c", <<CompE(N("x"), <<Gen(<<"x">>, Xs, <<>>)>>)>>))>>}),
   two_generators |-> \* [x for x in xs for y in x]
     InModule({<<ExprS(CompE(N("x"), <<Gen(<<"x">>, Xs, <<>>), Gen(<<"y">>, N("x"), <<>>)>>))>>}),
   shadowing      |-> \* def f(): x = ..   v = [x for x in xs]   use(x)
     InFunction({<<Assign("x"), AssignE("v", CompE(N("x"), <<Gen(<<"x">>, Xs, <<>>)>>)),
                   Use("x")>>}),
   dict_order     |-> \* {l(): r(), z(): p}
     InModule({<<ExprS([k |-> "dict", id |-> "{..}", keys |-> <<L, Z>>, values |-> <<R, P>>])>>}),
   item_add       |-> \* o[k] += l()
     InModule({<<[Add("x", L) EXCEPT !.target = Item("t")]>>}),
   key_branch     |-> \* o[a or b] = 1
     InModule({<<AssignToAll(<<SubscriptE("t", N("o"), OrE(N("a"), N("b")))>>, One)>>}),
   delete_local   |-> \* def f(): x = ..   del x   use(x)
     InFunction({<<Assign("x"), Delete(<<N("x")>>), Use("x")>>}),
   class_branch   |-> \* class Cls: x = l() or r()
     InModule({<<ClassS(<<>>, <<AssignE("x", OrE(L, R))>>), Use("Cls")>>}),
   bases_branch   |-> \* class Cls(A): pass   if p: c()
     InModule({<<ClassS(<<N("A")>>, <<Pass>>), IfTest(P), Call0("d")>>}),
   class_chain    |-> \* class Cls: x = y = l()
     InModule({<<ClassS(<<>>, <<AssignToAll(<<N("x"), N("y")>>, L)>>)>>}),
   class_names    |-> \* class Cls: x = l()   y = x
     InModule({<<ClassS(<<>>, <<AssignE("x", L), AssignE("y", N("x"))>>)>>}),
   yield_branch   |-> \* def f(): yield l()   if p: c()
     In("generator", {<<ExprS(YieldE("y", L)), IfTest(P)>>}),
   return_value   |-> \* def f(): yield l()   return r()
     In("generator", {<<ExprS(YieldE("y", L)), ReturnE(R)>>}),
   missing_default |-> \* def f(x=1): return x   use(f())
     InModule({<<[Def("f", <<"x">>, <<ReturnE(X)>>) EXCEPT !.params.defaults = <<One>>],
                 UseE(CallF("f", <<>>))>>}),
   vararg         |-> \* def f(*x): return x   use(f(l(), r()))
     InModule({<<[Def("f", <<>>, <<ReturnE(X)>>) EXCEPT !.params.vararg = <<"x">>],
                 UseE(CallF("f", <<L, R>>))>>}),
   lambda_vararg  |-> \* use(lambda x, *y: x)
     InModule({<<UseE([LambdaE(<<"x">>, X) EXCEPT !.params.vararg = <<"y">>])>>}),
   lambda_captured |-> \* def make(n, m): f = lambda x: n   if p: c()
     InModule({Maker(<<AssignE("f", LambdaE(<<"x">>, N("n"))), IfTest(P), ReturnE(N("f"))>>)}),
   branch_captured |-> \* def make(n, m): def add(x): use(n)   if x: ..
     InModule({Maker(<<Def("add", <<"x">>, <<Use("n"), IfTest(X), ReturnE(X)>>),
                       ReturnE(N("add"))>>)}),
   two_inner      |-> \* def f(): def g(): ..   and   def h(): def g(): ..
     InModule({<<Def("f", <<>>, <<Def("g", <<>>, <<ReturnS>>), ReturnE(N("g"))>>),
                 Def("h", <<>>, <<Def("g", <<>>, <<ReturnE(One)>>), ReturnE(N("g"))>>)>>}),
   redefinition   |-> \* def f(): ..   def f(): ..
     InModule({<<Def("f", <<>>, <<ReturnS>>), Def("f", <<>>, <<ReturnE(One)>>)>>}),
   nonlocal_store |-> \* def make(n, m): def add(x): nonlocal n   n = x   add(l())   use(n)
     InModule({<<Def("make", <<"n">>,
                     <<Def("add", <<"x">>, <<[k |-> "nonlocal", names |-> {"n"}], AssignE("n", X),
                                             ReturnS>>),
                       ExprS(CallF("add", <<Z>>)), ReturnE(N("n"))>>),
                 UseE(CallF("make", <<L>>))>>}),
   late_binding   |-> \* def make(n, m): f = lambda: n   n = m   return f
     InModule({<<Def("make", <<"n", "m">>, <<AssignE("f", LambdaE(<<"x">>, N("n"))),
                                             AssignE("n", N("m")), ReturnE(CallF("f", <<L>>))>>),
                 UseE(CallF("make", <<L, R>>))>>}),
   recursive_inner |-> \* def make(n): def add(x): if p: return add(x)   return x   use(add(n))
     InModule({<<Def("make", <<"n">>,
                     <<Def("add", <<"x">>, <<If("p", <<ReturnE(CallF("add", <<X>>))>>, <<>>),
                                             ReturnE(X)>>),
                       ReturnE(CallF("add", <<N("n")>>))>>),
                 UseE(CallF("make", <<L>>))>>}),
   grandparent    |-> \* def make(n): def add(m): return lambda x: n
     InModule({<<Def("make", <<"n">>,
                     <<Def("add", <<"m">>, <<ReturnE(LambdaE(<<"x">>, N("n")))>>),
                       AssignE("g", CallF("add", <<One>>)), ReturnE(CallF("g", <<One>>))>>),
                 UseE(CallF("make", <<L>>))>>}),
   missed_name    |-> \* def make(n, m): def add(x): return x or n
     InModule({Maker(<<Def("add", <<"x">>, <<ReturnE(OrE(X, N("n")))>>), ReturnE(N("add"))>>)}),
   default_order  |-> \* def f(x, y=r()): return y   use(f(l(), z()))
     InModule({<<[Def("f", <<"x", "y">>, <<ReturnE(N("y"))>>) EXCEPT !.params.defaults = <<R>>],
                 UseE(CallF("f", <<L, Z>>))>>}),
   decorator_order |-> \* @d(..)   @e   def f(x): ..
     InModule({<<[Decorated(<<"d">>, Def("f", <<"x">>, <<ReturnE(X)>>)) EXCEPT
                    !.decorators = <<[id |-> "@d", value |-> L], [id |-> "@e", value |-> R]>>],
                 Use("f")>>}),
   generator_call |-> \* def f(): yield l()   f()
     InModule({<<Def("f", <<>>, <<ExprS(YieldE("y", L))>>), ExprS(CallF("f", <<>>))>>}),
   hidden_yield   |-> \* def f(): use([yield l()])   use(f())
     InModule({<<Def("f", <<>>, <<UseE([k |-> "display", id |-> "[..]", class |-> "$L",
                                        elts |-> <<YieldE("y", L)>>])>>),
                 UseE(CallF("f", <<>>))>>}),
   inner_class    |-> \* class Cls: class Cls: pass   at module level
     InModule({<<ClassS(<<>>, <<[ClassS(<<>>, <<Pass>>) EXCEPT !.name = "D"]>>), Use("Cls")>>}),
   method_global  |-> \* class Cls: def g(x): return x   then g
     InModule({<<ClassS(<<>>, <<Def("g", <<"x">>, <<ReturnE(X)>>)>>), Use("g")>>})]

=============================================================================
