------------------------- MODULE ExpressionLowering -------------------------
(***************************************************************************)
(* codegen_expr of src/src/codegen.c: the code that leaves the value of a  *)
(* Python expression on the operand stack.                                 *)
(*                                                                         *)
(* An expression is a record whose field k names its AST node; id names    *)
(* the place of one that does something, and the value it yields.  A       *)
(* lambda becomes a method of its own.                                     *)
(***************************************************************************)
EXTENDS Scopes

RECURSIVE codegen_expr(_, _)

(* One after the other *)
codegen_exprs(c, es) == FoldLeft(codegen_expr, c, es)

-----------------------------------------------------------------------------
(* Arrays: call arguments and the elements of displays *)

NextElement(c) == emit_iconst(emit_dup(c, Array))
emit_aastore(c) == Popped(Emit(c, "aastore", 0), 3)

FillElement(c, e) == emit_aastore(codegen_expr(NextElement(c), e))

FillArray(c, es) == FoldLeft(FillElement, emit_anewarray(emit_iconst(c)), es)

LowerCall(c, e) ==
  emit_invokestatic(FillArray(codegen_expr(c, e.func), e.args),
                    [Operation(e.id, <<O, Array>>, "$O") EXCEPT !.raises = e.raises])

(* [..], (..) and {..} *)
LowerDisplay(c, e) ==
  emit_invokestatic(FillArray(c, e.elts), Operation(e.id, <<Array>>, e.class))

(* All the keys, then all the values *)
LowerDict(c, e) ==
  emit_invokestatic(FillArray(FillArray(c, e.keys), e.values),
                    Operation(e.id, <<Array, Array>>, "$D"))

-----------------------------------------------------------------------------
(* Objects made by new, dup and a constructor *)

(* The constructor initializes every copy of the object new made at offset *)
(* new_offset.                                                             *)
emit_init(c, operation) == Emit(c, "init", operation)

(* An empty collection: new, dup, <init> *)
NewCollection(c, id, class) ==
  LET new_offset == Len(c.code)
      c1 == emit_dup(emit_new(c, class, id), Uninit(new_offset))
      c2 == Popped(emit_init(c1, Unobserved(Operation(id, <<>>, class))), 1)
  IN [c2 EXCEPT !.stackmap = InitObject(@, new_offset, class)]

(* The tracker is told of neither the dup nor the constructor. *)
LowerSlice(c, e) ==
  LET c1 == stack_push(Emit(emit_new(c, "$SL", e.id), "dup", 0), 1)
      c2 == codegen_exprs(c1, <<e.lower, e.upper, e.step>>)
  IN stack_pop(emit_init(c2, Operation(e.id, <<O, O, O>>, "$SL")), 4)

-----------------------------------------------------------------------------
(* Conditions and comparisons *)

LowerNamedExpr(c, e) == StoreName(emit_dup(codegen_expr(c, e.value), O), e.name)

(* Variant: and and or stop at the same truth value. *)
StopsOnFalse(is_or) == "ifeq"

(* or stops at a true value, and at a false one. *)
StopsOn(is_or) == IF is_or THEN "ifne" ELSE "ifeq"

LowerBoolOp(c, e) ==
  LET first == codegen_expr(c, Head(e.values))
      end_label == Len(first.labels) + 1
      NextValue(d, v) ==
        codegen_expr(emit_pop(emit_branch(emit_dup(d, O), StopsOn(e.is_or), end_label)), v)
  IN codegen_mark_label(FoldLeft(NextValue, codegen_new_label(first, 1), Tail(e.values)),
                        end_label)

LowerIfExp(c, e) ==
  LET else_label == Len(c.labels) + 1
      end_label == else_label + 1
      c1 == emit_branch(codegen_expr(codegen_new_label(c, 2), e.test), "ifeq", else_label)
      c2 == codegen_emit_jump(codegen_expr(c1, e.body), "goto", end_label)
      c3 == codegen_mark_label(stackmap_restore(c2, SaveState(c1.stackmap)), else_label)
  IN codegen_mark_label(codegen_expr(c3, e.orelse), end_label)

(* Variant: in and not in take their operands in the written order. *)
NeverSwap(c, op) == c

(* The operands of in and not in change places. *)
SwapForIn(c, op) == IF op.contains THEN emit_swap(c) ELSE c

LowerComparison(c, op) == emit_binary(SwapForIn(c, op), op.id)

(* A comparison that others follow: the right operand stays below the      *)
(* result, and a false result goes to the end without it.                  *)
ChainLink(c, op, end_label) ==
  LET c1 == Pushed(Emit(c, "dup_x1", 0), O)
      c2 == codegen_new_label(emit_dup(LowerComparison(c1, op), O), 1)
      c3 == emit_branch(c2, "ifne", Len(c2.labels))
      c4 == codegen_emit_jump(emit_pop(emit_swap(c3)), "goto", end_label)
  IN emit_pop(codegen_mark_label(stackmap_restore(c4, SaveState(c3.stackmap)), Len(c2.labels)))

LowerChain(c, e) ==
  LET end_label == Len(c.labels) + 1
      n == Len(e.ops)
      Link(d, i) ==
        LET f == codegen_expr(d, e.comparators[i])
        IN IF i = n THEN LowerComparison(f, e.ops[i]) ELSE ChainLink(f, e.ops[i], end_label)
      c1 == FoldLeft(Link, codegen_expr(codegen_new_label(c, 1), e.left), [i \in 1..n |-> i])
      c2 == stackmap_push_object(stackmap_restore(c1, SaveState(c.stackmap)), "$O")
  IN codegen_mark_label(c2, end_label)

LowerCompare(c, e) ==
  IF Len(e.ops) = 1
  THEN LowerComparison(codegen_exprs(c, <<e.left, e.comparators[1]>>), e.ops[1])
  ELSE LowerChain(c, e)

-----------------------------------------------------------------------------
(* Comprehensions.  A generator is [id, targets, iter, ifs]: id names the  *)
(* items, targets are the names they are bound to (several: unpacked).     *)

emit_iter(c) == stackmap_push_object(stackmap_pop(Emit(c, "iter", 0), 1), "$O")
emit_next(c, id) == stackmap_push_object(stackmap_pop(Emit(c, "next", id), 1), "$O")

(* Item number i for a target; what is unpacked stays below it. *)
UnpackItem(c, targets, i) ==
  emit_binary(emit_literal(emit_dup(c, O), "$I", <<"0", "1">>[i]), targets[i])

(* The tracker loses one entry more than the stack. *)
LoseEntry(c) == stackmap_pop(c, 1)

BindItem(c, g, is_dict) ==
  IF Len(g.targets) = 1
  THEN LET d == StoreLocalName(c, g.targets[1]) IN IF is_dict THEN LoseEntry(d) ELSE d
  ELSE emit_pop(FoldLeft(LAMBDA d, i : LoseEntry(StoreLocalName(UnpackItem(d, g.targets, i),
                                                                g.targets[i])),
                         c, [i \in 1..Len(g.targets) |-> i]))

codegen_remove_comp_target_locals(c, g) ==
  [c EXCEPT !.locals = [n \in DOMAIN @ \ Range(g.targets) |-> c.locals[n]]]

(* Slots above the tracked ones, as Top: one for every target *)
codegen_comp_target_slots(c, g) ==
  LET base == Len(c.stackmap.locals)
  IN FoldLeft(LAMBDA d, i : stackmap_set_local(d, base + i - 1, Top), c,
              [i \in 1..Len(g.targets) |-> i])

AddElement(c, e, result_slot) ==
  IF e.k = "dict_comp"
  THEN emit_invokestatic(codegen_exprs(emit_aload(c, result_slot), <<e.key, e.value>>),
                         Operation(e.id, <<O, O, O>>, ""))
  ELSE Popped(emit_invoke(codegen_expr(emit_aload_as(c, result_slot, e.class), e.elt),
                          Operation(e.id, <<Object(e.class), O>>, "")), 2)

RECURSIVE codegen_comprehension_loop(_, _, _, _)

codegen_comprehension_loop(c, e, generators, result_slot) ==
  IF generators = <<>> THEN AddElement(c, e, result_slot)
  ELSE
    LET g == Head(generators)
        is_dict == e.k = "dict_comp"
        c1 == emit_iter(codegen_expr(c, g.iter))
        iter_slot == c1.next_local
        c2 == LoseEntry(emit_astore(codegen_alloc_local(c1, "$comp_iter"), iter_slot))
        loop_start == Len(c2.labels) + 1
        loop_end == loop_start + 1
        c3 == codegen_mark_label(codegen_comp_target_slots(codegen_new_label(c2, 2), g),
                                 loop_start)
        c4 == emit_dup(emit_next(emit_aload(c3, iter_slot), g.id), O)
        c5 == Popped(codegen_emit_jump(c4, "ifnull", loop_end), 1)
        skip_label == loop_end + 1
        c6 == BindItem(c5, g, is_dict)
        c7 == IF g.ifs = <<>> THEN c6
              ELSE FoldLeft(LAMBDA d, cond :
                              emit_branch(codegen_expr(d, cond), "ifeq", skip_label),
                            codegen_new_label(c6, 1), g.ifs)
        c8 == codegen_comprehension_loop(c7, e, Tail(generators), result_slot)
        c9 == IF g.ifs = <<>> THEN c8 ELSE codegen_mark_label(c8, skip_label)
        c10 == codegen_remove_comp_target_locals(codegen_emit_jump(c9, "goto", loop_start), g)
        c11 == codegen_mark_label(stackmap_restore(c10, SaveState(c5.stackmap)), loop_end)
    IN IF is_dict THEN LoseEntry(emit_pop(c11)) ELSE emit_pop(c11)

LowerComprehension(c, e) ==
  LET c1 == NewCollection(c, e.id, e.class)
      result_slot == c1.next_local
      c2 == emit_astore_as(codegen_alloc_local(c1, "$comp_result"), result_slot, e.class)
  IN emit_aload_as(codegen_comprehension_loop(c2, e, e.generators, result_slot),
                   result_slot, e.class)

-----------------------------------------------------------------------------
(* Generators collect what they yield in a list. *)

YieldTo(id) == Operation(id, <<Object("$L"), O>>, "")

(* The tracker keeps the list and the value. *)
LowerYield(c, e) ==
  IF c.yield_list_slot < 0 THEN codegen_expr(c, e.value)
  ELSE LET d == codegen_expr(emit_aload(c, c.yield_list_slot), e.value)
       IN emit_py_none(stack_pop(emit_invoke(d, YieldTo(e.id)), 2))

LowerYieldFrom(c, e) ==
  LET c1 == emit_iter(codegen_expr(c, e.value))
      iter_slot == c1.next_local
      c2 == emit_astore(codegen_alloc_local(c1, "$yf_iter"), iter_slot)
      loop_start == Len(c2.labels) + 1
      end_loop == loop_start + 1
      c3 == emit_aload(codegen_mark_label(codegen_new_label(c2, 2), loop_start), iter_slot)
      c4 == Popped(codegen_emit_jump(emit_dup(emit_next(c3, e.item), O), "ifnull", end_loop), 1)
      c5 == emit_invoke(emit_swap(emit_aload(c4, c.yield_list_slot)), YieldTo(e.id))
      c6 == codegen_emit_jump(stack_pop(c5, 2), "goto", loop_start)
  IN IF c.yield_list_slot < 0 THEN codegen_expr(c, e.value)
     ELSE emit_py_none(emit_pop(codegen_mark_label(Popped(c6, 1), end_loop)))

-----------------------------------------------------------------------------
(* Formatted strings: the parts are joined from the left. *)

LowerPart(c, part) ==
  IF part.k = "constant" THEN codegen_expr(c, part)
  ELSE LET operation == Operation(part.id, <<O>>, "$S")
       IN stackmap_track(emit_invoke(codegen_expr(c, part.value), operation), operation)

LowerJoinedStr(c, e) ==
  FoldLeft(LAMBDA d, part :
             emit_invokestatic(LowerPart(d, part), Unobserved(Operation(e.id, <<O, O>>, "$O"))),
           LowerPart(c, Head(e.values)), Tail(e.values))

-----------------------------------------------------------------------------
(* Methods for functions and lambdas.  A method is [name, closure, params] *)
(* (is its first argument a closure array, and how many others has it?)    *)
(* with its code attribute.                                                *)

NoCode == [code |-> <<>>, exceptions |-> <<>>, frames |-> <<>>, entry |-> <<>>,
           max_locals |-> 0, max_stack |-> 0]

class_writer_add_method(c, name, closure, params) ==
  [c EXCEPT !.methods = Append(@, [name |-> name, closure |-> closure, params |-> params] @@ NoCode)]

(* The context of a method that the last of the methods becomes            *)
InnerContext(c, captured, names) ==
  LET d == [NewContext("function") EXCEPT
              !.enclosing = DOMAIN c.locals \cup c.enclosing, !.captured_vars = captured,
              !.methods = c.methods]
      e == IF captured = <<>> THEN d
           ELSE [d EXCEPT !.closure_slot = 0, !.next_local = 1,
                          !.stackmap = SetLocal(@, 0, Array)]
  IN FoldLeft(codegen_alloc_local, e, names)

(* A parameter that is null gets its default. *)
DefaultFor(c, slot, default) ==
  LET skip_label == Len(c.labels) + 1
      d == codegen_emit_jump(emit_aload(codegen_new_label(c, 1), slot), "ifnonnull", skip_label)
  IN codegen_mark_label(emit_astore(codegen_expr(Popped(d, 1), default), slot), skip_label)

(* The defaults of args go to the slots from first on. *)
DefaultsFrom(c, first, params) ==
  LET without == Len(params.args) - Len(params.defaults)
  IN FoldLeft(LAMBDA d, i : DefaultFor(d, first + without + i - 1, params.defaults[i]), c,
              [i \in 1..Len(params.defaults) |-> i])

(* Method number k of c gets the code of the context d. *)
AttachCode(c, d, k) ==
  LET r == codegen_resolve_labels(d)
      m == r.methods[k]
      entry == (IF m.closure THEN <<Array>> ELSE <<>>) \o [i \in 1..m.params |-> O]
  IN [c EXCEPT !.methods =
        [r.methods EXCEPT ![k] =
           [code |-> r.code, exceptions |-> r.exceptions, frames |-> r.stackmap.frames,
            entry |-> entry, max_locals |-> Larger(r.next_local, 1),
            max_stack |-> Larger(r.max_stack, 1)] @@ @]]

(* The method handle of method k, and the function object made of it and   *)
(* of the closure array                                                    *)
emit_ldc_method(c, k) == Pushed(Emit(c, "ldc_method", k), Object("MethodHandle"))

emit_callable(c, captured) ==
  emit_static(c, "callable",
              Operation("callable", <<Object("MethodHandle")>> \o
                          (IF captured = <<>> THEN <<>> ELSE <<Array>>), "$MH"))

(* A name that only a context further out has is null. *)
LoadCaptured(c, name) ==
  IF HasLocal(c, name) THEN emit_aload(c, c.locals[name]) ELSE emit_aconst_null(c)

(* For a lambda, the tracker is told neither of the dup nor of the store. *)
CaptureForLambda(c, name) ==
  stack_pop(Emit(LoadCaptured(emit_iconst(stack_push(Emit(c, "dup", 0), 1)), name),
                 "aastore", 0), 3)

CapturesForLambda(c, captured) ==
  IF captured = <<>> THEN c
  ELSE FoldLeft(CaptureForLambda, emit_anewarray(emit_iconst(c)), captured)

(* Only args have slots, and defaults allocate their locals from slot 0.   *)
codegen_lambda(c, params, body) ==
  LET captured == collect_free_vars_from_expr(c, params, body)
      k == Len(c.methods) + 1
      c1 == class_writer_add_method(c, "$lambda$" \o ToString(k), captured # <<>>,
                                    count_parameters(params))
      d1 == InnerContext(c1, captured, params.args)
      d2 == DefaultsFrom([d1 EXCEPT !.next_local = 0], d1.closure_slot + 1, params)
      d3 == codegen_expr([d2 EXCEPT !.next_local = d1.next_local], body)
      c2 == AttachCode(c1, stack_pop(Emit(d3, "areturn", 0), 1), k)
  IN emit_callable(CapturesForLambda(emit_ldc_method(c2, k), captured), captured)

-----------------------------------------------------------------------------
(* Generator expressions: the element and the filters are lambdas of the   *)
(* target.  With several generators, a list instead.                       *)

NoParameters == [posonlyargs |-> <<>>, args |-> <<>>, vararg |-> <<>>, kwonlyargs |-> <<>>,
                 kwarg |-> <<>>, defaults |-> <<>>, kw_defaults |-> <<>>]

LambdaOfTarget(c, targets, body) ==
  codegen_lambda(c, [NoParameters EXCEPT !.args =
                       <<IF Len(targets) = 1 THEN targets[1] ELSE "$item">>], body)

FilterArray(c, g) ==
  FoldLeft(LAMBDA d, cond :
             emit_aastore(LambdaOfTarget(emit_iconst(emit_dup(d, Object("$MH[]"))),
                                         g.targets, cond)),
           emit_anewarray_of(emit_iconst(c), "$MH[]"), g.ifs)

LowerGeneratorExp(c, e) ==
  LET g == Head(e.generators)
      n == Len(g.ifs)
      MH == Object("$MH")
      mapper == LambdaOfTarget(codegen_expr(c, g.iter), g.targets, e.elt)
      filters == CASE n = 0 -> mapper
                   [] n = 1 -> LambdaOfTarget(mapper, g.targets, g.ifs[1])
                   [] OTHER -> FilterArray(mapper, g)
      needs == CASE n = 0 -> <<O, MH>> [] n = 1 -> <<O, MH, MH>>
                 [] OTHER -> <<O, MH, Object("$MH[]")>>
  IN IF Len(e.generators) > 1
     THEN emit_iter(LowerComprehension(c, [e EXCEPT !.k = "comp"]))
     ELSE emit_invokestatic(filters, Operation(e.id, needs, "$GE"))

codegen_expr(c, e) ==
  CASE Failed(c) -> c
    [] e.k = "constant" -> emit_literal(c, e.class, e.value)
    [] e.k = "name" -> LoadName(c, e.id)
    [] e.k = "bin_op" -> emit_binary(codegen_exprs(c, <<e.left, e.right>>), e.id)
    [] e.k = "subscript" -> emit_binary(codegen_exprs(c, <<e.value, e.slice>>), e.id)
    [] e.k \in {"unary_op", "attribute"} -> emit_unary(codegen_expr(c, e.value), e.id)
    [] e.k = "await" -> emit_invokestatic(codegen_expr(c, e.value), Operation(e.id, <<O>>, "$O"))
    [] e.k = "call" -> LowerCall(c, e)
    [] e.k = "display" -> LowerDisplay(c, e)
    [] e.k = "dict" -> LowerDict(c, e)
    [] e.k = "slice" -> LowerSlice(c, e)
    [] e.k = "named_expr" -> LowerNamedExpr(c, e)
    [] e.k = "bool_op" -> LowerBoolOp(c, e)
    [] e.k = "if_exp" -> LowerIfExp(c, e)
    [] e.k = "compare" -> LowerCompare(c, e)
    [] e.k \in {"comp", "dict_comp"} -> LowerComprehension(c, e)
    [] e.k = "yield" -> LowerYield(c, e)
    [] e.k = "yield_from" -> LowerYieldFrom(c, e)
    [] e.k = "joined_str" -> LowerJoinedStr(c, e)
    [] e.k = "lambda" -> codegen_lambda(c, e.params, e.body)
    [] e.k = "generator_exp" -> LowerGeneratorExp(c, e)

=============================================================================
