------------------------------ MODULE Lowering ------------------------------
(***************************************************************************)
(* codegen_stmt and codegen_stmts of src/src/codegen.c: how Python         *)
(* statements become bytecode, exception table and stack map frames.  A    *)
(* statement is a record whose field k names its AST node.                 *)
(***************************************************************************)
EXTENDS ExpressionLowering

-----------------------------------------------------------------------------
(* stmt_always_transfers *)

RECURSIVE stmt_always_transfers(_)

(* Variant: code behind a transfer is taken for reachable. *)
NeverTransfers(ss) == FALSE

stmts_always_transfer(ss) == \E i \in 1..Len(ss) : stmt_always_transfers(ss[i])

stmt_always_transfers(s) ==
  CASE s.k \in {"return", "raise", "break", "continue"} -> TRUE
    [] s.k = "if" -> /\ s.orelse # <<>>
                     /\ stmts_always_transfer(s.body)
                     /\ stmts_always_transfer(s.orelse)
    [] s.k = "try" -> /\ stmts_always_transfer(s.body)
                      /\ \A i \in 1..Len(s.handlers) :
                           stmts_always_transfer(s.handlers[i].body)
    [] OTHER -> FALSE

-----------------------------------------------------------------------------
(* Statements.  In a chain of contexts c, c1, c2, ... each is the one      *)
(* before it after one more call.                                          *)

RECURSIVE codegen_stmts(_, _), codegen_stmt(_, _)

(* A condition and the branch that consumes its truth value *)
Condition(c, test, branch, l) == emit_branch(codegen_expr(c, test), branch, l)

(* Past other code, unless the statements ss in front always transfer *)
JumpPast(c, ss, label) ==
  IF stmts_always_transfer(ss) THEN c ELSE codegen_emit_jump(c, "goto", label)

(* break and continue leave out the jump outside a loop. *)
LoopJump(c, target) ==
  IF c.loop_stack = <<>> THEN c
  ELSE codegen_emit_jump(c, "goto", c.loop_stack[1][target])

(* Variant: break and continue go to each other's label. *)
LabelsSwapped(c, break_label, continue_label) ==
  [c EXCEPT !.loop_stack = <<[break |-> continue_label, continue |-> break_label]>> \o @]

InLoop(c, break_label, continue_label) ==
  [c EXCEPT !.loop_stack = <<[break |-> break_label, continue |-> continue_label]>> \o @]

OutOfLoop(c) == [c EXCEPT !.loop_stack = Tail(@)]

LowerIf(c, s) ==
  LET else_label == Len(c.labels) + 1
      end_label == else_label + 1
      c1 == Condition(codegen_new_label(c, 2), s.test, "ifeq", else_label)
      pre_branch_state == SaveState(c1.stackmap)
      c2 == JumpPast(codegen_stmts(c1, s.body), s.body, end_label)
      c3 == codegen_mark_label(stackmap_restore(c2, pre_branch_state), else_label)
      c4 == codegen_stmts(c3, s.orelse)
  IN codegen_mark_label(stackmap_restore(c4, pre_branch_state), end_label)

LowerWhile(c, s) ==
  LET start_label == Len(c.labels) + 1
      end_label == start_label + 1
      c1 == codegen_mark_label(InLoop(codegen_new_label(c, 2), end_label, start_label),
                               start_label)
      c2 == Condition(c1, s.test, "ifeq", end_label)
      post_cond_state == SaveState(c2.stackmap)
      c3 == codegen_emit_jump(codegen_stmts(c2, s.body), "goto", start_label)
      c4 == codegen_mark_label(stackmap_restore(c3, post_cond_state), end_label)
  IN OutOfLoop(codegen_stmts(c4, s.orelse))

(* A local target is null in front of the loop. *)
ForTarget(c, targets) ==
  IF Len(targets) > 1 \/ c.is_module_level \/ is_global(c, targets[1])
       \/ HasLocal(c, targets[1]) THEN c
  ELSE LET d == codegen_alloc_local(c, targets[1])
       IN emit_astore(emit_aconst_null(d), d.locals[targets[1]])

BindTargets(c, targets) ==
  IF Len(targets) = 1 THEN StoreName(c, targets[1])
  ELSE emit_pop(FoldLeft(LAMBDA d, i : StoreName(UnpackItem(d, targets, i), targets[i]),
                         c, [i \in 1..Len(targets) |-> i]))

(* Behind the loop: the frame a break arrives with is that of pre_loop_state. *)
BreakTarget(c, break_label, pre_loop_state) ==
  LET after_break == Len(c.labels) + 1
      c1 == codegen_emit_jump(codegen_new_label(c, 1), "goto", after_break)
      c2 == codegen_mark_label(stackmap_restore(c1, pre_loop_state), break_label)
  IN codegen_mark_label(c2, after_break)

LowerFor(c, s) ==
  LET start_label == Len(c.labels) + 1
      end_label == start_label + 1
      break_label == start_label + 2
      c1 == emit_iter(codegen_expr(InLoop(codegen_new_label(c, 3), break_label, start_label),
                                   s.iter))
      iter_slot == c1.next_local
      c2 == emit_astore(codegen_alloc_local(c1, "$iter"), iter_slot)
      c3 == codegen_mark_label(ForTarget(c2, s.targets), start_label)
      c4 == emit_dup(emit_next(emit_aload(c3, iter_slot), s.id), O)
      c5 == Popped(codegen_emit_jump(c4, "ifnull", end_label), 1)
      c6 == codegen_emit_jump(codegen_stmts(BindTargets(c5, s.targets), s.body),
                              "goto", start_label)
      c7 == stackmap_restore([c6 EXCEPT !.stack_depth = c5.stack_depth],
                             SaveState(c5.stackmap))
      c8 == codegen_stmts(emit_pop(codegen_mark_label(c7, end_label)), s.orelse)
  IN OutOfLoop(BreakTarget(c8, break_label, SaveState(c2.stackmap)))

(* The tracker is not told of the dup and of the constructor: behind them, *)
(* only the state of the branch counts.  msg is empty or one expression.   *)
AssertionText(c, msg) ==
  IF msg = <<>> THEN emit_ldc_string(c)
  ELSE LET str == Unobserved(Operation("str", <<O>>, "$S"))
       IN Emit(stackmap_track(emit_invoke(codegen_exprs(c, msg), str), str), "text", 0)

LowerAssert(c, s) ==
  LET c1 == codegen_expr(c, s.test)
      skip_label == Len(c1.labels) + 1
      c2 == emit_branch(codegen_new_label(c1, 1), "ifne", skip_label)
      c3 == stack_push(Emit(emit_new(c2, "$X", "AssertionError"), "dup", 0), 1)
      c4 == emit_init(AssertionText(emit_ldc_string(c3), s.msg),
                      Unobserved(Operation("AssertionError", <<Text, Text>>, "$X")))
  IN codegen_mark_label(stackmap_restore(stack_pop(Emit(stack_pop(c4, 3), "athrow", 0), 1),
                                         SaveState(c2.stackmap)),
                        skip_label)

(* A bare raise always raises RuntimeError; the account of its depth keeps *)
(* one entry.  The others keep the thrown exception in both accounts.      *)
LowerRaise(c, s) ==
  IF s.exc = <<>>
  THEN Emit(stack_push(HighWater(Emit(c, "raise", "RuntimeError"), 5), 1), "athrow", 0)
  ELSE LET needs == [i \in 1..Len(s.exc) |-> O]
           d == codegen_exprs(c, s.exc)
       IN Emit(emit_invokestatic(d, Unobserved(Operation("raise", needs, "$X"))), "athrow", 0)

(* The tracker keeps the returned value, and all of the generator object. *)
ReturnGenerator(c) ==
  LET d == stack_push(Emit(emit_new(c, "$Gen", "generator"), "dup", 0), 2)
      result == Unobserved(Operation("generator", <<Object("$L")>>, "$Gen"))
  IN stack_pop(Emit(stack_pop(emit_init(emit_aload(d, c.yield_list_slot), result), 2),
                    "areturn", 0), 1)

LowerReturn(c, s) ==
  IF c.yield_list_slot >= 0 THEN ReturnGenerator(c)
  ELSE stack_pop(Emit(codegen_expr(c, s.value), "areturn", 0), 1)

AddException(c, from, to, handler, catch_type) ==
  [c EXCEPT !.exceptions = Append(@, [start |-> from, end |-> to, handler |-> handler,
                                      catch |-> catch_type])]

(* At least one instruction in a protected range *)
NopIfEmpty(c, from) == IF Len(c.code) = from THEN Emit(c, "nop", 0) ELSE c

(* Variant: the exception is missing from the frame of a handler. *)
EmptyEntry(c, state, class) ==
  LET e == codegen_new_label(stackmap_restore(c, state), 1)
  IN codegen_mark_label(e, Len(e.labels))

(* Entry of a handler: the state at the start of the range, plus the       *)
(* exception.                                                              *)
HandlerEntry(c, state, class) ==
  LET d == stackmap_push_object(stackmap_restore(c, state), class)
      e == codegen_new_label(d, 1)
  IN codegen_mark_label(e, Len(e.labels))

(* Variant: the clause takes every exception. *)
MatchesAnything(c, exc_type) == c

(* exc_type is a name, "" for a bare except; as_name is "" if there is     *)
(* none.                                                                   *)
MatchType(c, exc_type) ==
  LET matches == Unobserved(Operation("matches", <<Object("$X"), O>>, "int"))
      c1 == emit_builtin(emit_dup(c, Object("$X")), exc_type)
      c2 == codegen_new_label(emit_invokestatic(c1, matches), 1)
      c3 == Emit(codegen_emit_jump(c2, "ifne", Len(c2.labels)), "athrow", 0)
  IN codegen_mark_label(Popped(c3, 1), Len(c2.labels))

BindException(c, as_name) ==
  IF as_name = "" THEN emit_pop(c)
  ELSE StoreLocalName(stackmap_push_object(stackmap_pop(Emit(c, "asPyObject", 0), 1), "$O"),
                      as_name)

LowerHandler(c, h, try_start_pc, try_end_pc, pre_try_state, after_handlers) ==
  LET c1 == stack_push(HandlerEntry(c, pre_try_state, "$X"), 1)
      c2 == IF h.type = "" THEN c1 ELSE MatchType(c1, h.type)
      c3 == codegen_stmts(BindException(c2, h.name), h.body)
      c4 == JumpPast(c3, h.body, after_handlers)
  IN AddException(c4, try_start_pc, try_end_pc, Len(c.code), "$X")

(* The catch-all in front of which every other path jumps away *)
LowerCatchAll(c, finalbody, from, to, pre_try_state, exit_state, after_handlers) ==
  LET c1 == stackmap_restore_exact(c, exit_state)
      c2 == codegen_emit_jump([c1 EXCEPT !.stackmap = RecordFrame(@, Len(c1.code))],
                              "goto", after_handlers)
      c3 == stack_push(HandlerEntry(c2, pre_try_state, "Throwable"), 1)
      exc_slot == c3.next_local
      c4 == emit_astore(codegen_alloc_local(c3, "$exc_finally"), exc_slot)
      c5 == emit_aload(codegen_stmts(c4, finalbody), exc_slot)
  IN AddException(Popped(Emit(c5, "athrow", 0), 1), from, to, Len(c2.code), "any")

(* What follows the body of a try: c is the context at its end. *)
AfterBody(c, s, try_start_pc, pre_try_state, after_handlers) ==
  LET exit_state == IF stmts_always_transfer(s.body) THEN pre_try_state
                    ELSE SaveState(c.stackmap)
      c1 == FoldLeft(LAMBDA d, h : LowerHandler(d, h, try_start_pc, Len(c.code),
                                                pre_try_state, after_handlers),
                     JumpPast(c, s.body, after_handlers), s.handlers)
      c2 == IF s.finalbody = <<>> THEN c1
            ELSE LowerCatchAll(c1, s.finalbody, try_start_pc, Len(c.code), pre_try_state,
                               exit_state, after_handlers)
      c3 == codegen_mark_label(stackmap_restore_exact(c2, exit_state), after_handlers)
  IN codegen_stmts(codegen_stmts(c3, s.orelse), s.finalbody)

LowerTry(c, s) ==
  LET after_handlers == Len(c.labels) + 1
      c1 == codegen_stmts(codegen_new_label(c, 1), s.body)
  IN AfterBody(NopIfEmpty(c1, Len(c.code)), s, Len(c.code), SaveState(c.stackmap),
               after_handlers)

(* The manager's value is bound to s.name unless that is "".  enter and    *)
(* exit stand for the calls of the methods, arguments included.            *)
EnterWith(c, s) ==
  LET c1 == codegen_expr(c, s.manager)
      c2 == emit_dup(codegen_alloc_local(c1, "$ctx_mgr"), O)
      c3 == HighWater(emit_unary(emit_astore(c2, c1.next_local), "__enter__"), 1)
  IN IF s.name = "" THEN emit_pop(c3) ELSE StoreLocalName(c3, s.name)

CallExit(c, mgr_slot, id) == HighWater(emit_unary(emit_aload(c, mgr_slot), id), 4)

(* The handler of the body asks __exit__ whether to swallow the exception. *)
WithHandler(c, mgr_slot, pre_body_state) ==
  LET c1 == stack_push(HandlerEntry(c, pre_body_state, "$X"), 1)
      exc_slot == c.next_local
      c2 == emit_astore(codegen_alloc_local(c1, "$exc"), exc_slot)
      c3 == codegen_new_label(CallExit(c2, mgr_slot, "__exit__ with exception"), 1)
      suppress == Len(c3.labels)
      c4 == emit_branch(c3, "ifne", suppress)
      c5 == Popped(Emit(emit_aload(c4, exc_slot), "athrow", 0), 1)
  IN codegen_mark_label(stackmap_restore(c5, SaveState(c4.stackmap)), suppress)

(* Both ways out of the body call __exit__ without an exception. *)
ExitWith(c, mgr_slot, try_start, pre_body_state) ==
  LET after_finally == Len(c.labels) + 1
      c1 == codegen_emit_jump(codegen_new_label(c, 1), "goto", after_finally)
      c2 == WithHandler(c1, mgr_slot, pre_body_state)
      c3 == codegen_mark_label(stackmap_restore(c2, SaveState(c.stackmap)), after_finally)
  IN AddException(emit_pop(CallExit(c3, mgr_slot, "__exit__")), try_start, Len(c.code),
                  Len(c1.code), "$X")

(* One context manager *)
LowerWith(c, s) ==
  LET entered == EnterWith(c, s)
  IN ExitWith(NopIfEmpty(codegen_stmts(entered, s.body), Len(entered.code)),
              codegen_expr(c, s.manager).next_local, Len(entered.code),
              SaveState(entered.stackmap))

(* Targets.  The value on the stack goes to a name, or below an object and *)
(* a key.                                                                  *)
StoreTarget(c, t) ==
  CASE t.k = "name" -> StoreName(c, t.id)
    [] t.k = "subscript" ->
         LET d == emit_swap(codegen_expr(emit_swap(codegen_expr(c, t.value)), t.slice))
         IN emit_invokestatic(d, Operation(t.id, <<O, O, O>>, ""))
    [] t.k = "attribute" ->
         emit_invokestatic(emit_swap(codegen_expr(c, t.value)), Operation(t.id, <<O, O>>, ""))
    [] OTHER -> c

(* All but the last target get a copy, of which the tracker is not told. *)
LowerAssign(c, s) ==
  FoldLeft(LAMBDA d, i :
             StoreTarget(IF i < Len(s.targets) THEN stack_push(Emit(d, "dup", 0), 1) ELSE d,
                         s.targets[i]),
           codegen_expr(c, s.value), [i \in 1..Len(s.targets) |-> i])

(* Only a name is assigned to: for other targets there is no code at all. *)
LowerAugAssign(c, s) ==
  IF s.target.k # "name" THEN c
  ELSE LET name == s.target.id
           loaded == IF HasLocal(c, name) THEN emit_aload(c, c.locals[name])
                     ELSE emit_builtin(c, name)
           d == emit_binary(codegen_expr(loaded, s.value), s.id)
       IN IF HasLocal(c, name) THEN emit_astore(d, d.locals[name]) ELSE StoreName(d, name)

DeleteTarget(c, t) ==
  CASE t.k = "name" ->
         IF HasLocal(c, t.id) THEN emit_astore(emit_aconst_null(c), c.locals[t.id])
         ELSE IF c.is_module_level \/ is_global(c, t.id)
              THEN HighWater(Emit(c, "delGlobal", t.id), 1) ELSE c
    [] t.k = "subscript" -> emit_invokestatic(codegen_exprs(c, <<t.value, t.slice>>),
                                              Operation(t.id, <<O, O>>, ""))
    [] t.k = "attribute" -> emit_invokestatic(codegen_expr(c, t.value),
                                              Operation(t.id, <<O>>, ""))

(* A module object goes to a global, in a function too. *)
emit_importModule(c, name) ==
  Pushed(HighWater(emit_invoke(c, Operation(name, <<>>, "$M")), 1), Object("$M"))

LowerImport(c, s) ==
  FoldLeft(LAMBDA d, a : emit_setGlobal(emit_importModule(d, a.name), a.asname), c, s.names)

(* The tracker has the name where the attribute is. *)
ImportName(c, a) ==
  LET d == stack_push(Emit(c, "dup", 0), 1)
  IN emit_setGlobal(Pushed(emit_invoke(d, Operation(a.name, <<Object("$M")>>, "$O")),
                           Text),
                    a.asname)

LowerImportFrom(c, s) == emit_pop(FoldLeft(ImportName, emit_importModule(c, s.module), s.names))

(* Classes.  The accounts part over the bases, and over an expression in   *)
(* the body.  An assignment in the body evaluates its value for every      *)
(* target.                                                                 *)
FillBase(c, base) ==
  stack_pop(Emit(codegen_expr(emit_iconst(stack_push(Emit(c, "dup", 0), 1)), base),
                 "aastore", 0), 3)

NewClass(c, s) ==
  LET d == emit_ldc_string(c)
      of == Unobserved(Operation(s.name, IF s.bases = <<>> THEN <<Text>> ELSE <<Text, Array>>,
                                 "$Cls"))
  IN IF s.bases = <<>> THEN emit_invokestatic(d, of)
     ELSE emit_invokestatic(FoldLeft(FillBase, emit_anewarray(emit_iconst(d)), s.bases), of)

emit_setAttr(c, name) ==
  Popped(emit_invoke(c, Operation(name, <<Object("$Cls"), Text, O>>, "")), 3)

SetClassAttribute(c, class_slot, target, value) ==
  emit_setAttr(codegen_expr(emit_ldc_string(emit_aload(c, class_slot)), value), target.id)

(* A method or an inner class, which its definition has left in a local.   *)
(* At module level a class has not, and the slot is -1.                    *)
SetClassMember(c, class_slot, name) ==
  LET slot == IF HasLocal(c, name) THEN c.locals[name] ELSE -1
  IN emit_setAttr(emit_swap(emit_ldc_string(emit_aload(emit_aload(c, class_slot), slot))), name)

ClassBodyStatement(c, class_slot, s) ==
  CASE s.k = "assign" ->
         FoldLeft(LAMBDA d, t : SetClassAttribute(d, class_slot, t, s.value), c, s.targets)
    [] s.k = "expr" -> stack_pop(Emit(codegen_expr(c, s.value), "pop", 0), 1)
    [] s.k \in {"def", "class"} -> SetClassMember(codegen_stmt(c, s), class_slot, s.name)
    [] OTHER -> codegen_stmt(c, s)

LowerClass(c, s) ==
  LET c1 == NewClass([c EXCEPT !.current_class_name = s.name], s)
      class_slot == c1.next_local
      c2 == emit_astore(codegen_alloc_local(c1, "$class_temp"), class_slot)
      c3 == FoldLeft(LAMBDA d, t : ClassBodyStatement(d, class_slot, t), c2, s.body)
      c4 == emit_aload(c3, class_slot)
      c5 == IF c4.is_module_level THEN emit_setGlobal(c4, s.name) ELSE StoreLocalName(c4, s.name)
  IN [c5 EXCEPT !.current_class_name = c.current_class_name]

-----------------------------------------------------------------------------
(* Function definitions *)

(* The implicit return is left out if the last byte is that of a return    *)
(* opcode, and at module level also if it is athrow.  The byte is not      *)
(* always an opcode: odd_operand says that the operand which ends the code *)
(* (an index or a branch offset) has the value of one.                     *)
EndsInOperand(c) == c.code # <<>> /\ c.code[Len(c.code)].op \in {"setGlobal", "goto", "astore"}

needs_return(c, odd_operand) ==
  /\ ~(odd_operand /\ EndsInOperand(c))
  /\ c.code # <<>> =>
       c.code[Len(c.code)].op \notin
         {"areturn", "return"} \cup IF c.is_module_level THEN {"athrow"} ELSE {}

ImplicitReturn(c, odd_operand) ==
  IF ~needs_return(c, odd_operand) THEN c
  ELSE IF c.is_module_level THEN Emit(c, "return", 0)
  ELSE IF c.yield_list_slot >= 0 THEN ReturnGenerator(c)
  ELSE stack_pop(Emit(emit_py_none(c), "areturn", 0), 1)

(* A generator function starts with an empty list for what it yields. *)
Prologue(c, body) ==
  IF c.is_module_level \/ ~is_generator_function(body) THEN c
  ELSE LET slot == c.next_local
           d == NewCollection(c, "yields", "$L")
       IN emit_astore_as([d EXCEPT !.next_local = slot + 1, !.yield_list_slot = slot],
                         slot, "$L")

Body(c, body, odd_operand) == ImplicitReturn(codegen_stmts(Prologue(c, body), body), odd_operand)

(* The slots that get defaults leave the closure array out of account,     *)
(* and those of kwonlyargs the vararg.                                     *)
DefaultsOf(c, params) ==
  LET base == Len(params.posonlyargs) + Len(params.args)
  IN FoldLeft(LAMBDA d, i : FoldLeft(LAMBDA f, e : DefaultFor(f, base + i - 1, e), d,
                                     params.kw_defaults[i]),
              DefaultsFrom(c, Len(params.posonlyargs), params),
              [i \in 1..Len(params.kw_defaults) |-> i])

Capture(c, name) == emit_aastore(LoadCaptured(NextElement(c), name))

Captures(c, captured) ==
  IF captured = <<>> THEN c ELSE FoldLeft(Capture, emit_anewarray(emit_iconst(c)), captured)

(* The function on the stack becomes what the decorator makes of it. *)
Decorate(c, decorator) ==
  LET slot == c.next_local
      c1 == codegen_expr(emit_astore(codegen_alloc_local(c, "$deco_temp"), slot), decorator.value)
      c2 == emit_aload(NextElement(emit_anewarray(emit_iconst(c1))), slot)
  IN emit_invokestatic(emit_aastore(c2), Operation(decorator.id, <<O, Array>>, "$O"))

method_name(c, s) ==
  "$py_" \o (IF c.current_class_name = "" THEN "" ELSE c.current_class_name \o "$") \o s.name

codegen_function_def(c, s) ==
  LET captured == collect_free_vars(c, s.params, s.body)
      k == Len(c.methods) + 1
      c1 == class_writer_add_method(c, method_name(c, s), captured # <<>>,
                                    count_parameters(s.params))
      d == DefaultsOf(InnerContext(c1, captured, ParameterNames(s.params)), s.params)
      c2 == AttachCode(c1, Body(d, s.body, FALSE), k)
      c3 == emit_callable(Captures(emit_ldc_method(c2, k), captured), captured)
      c4 == FoldLeft(Decorate, c3, Reverse(s.decorators))
  IN IF c4.is_module_level /\ c4.current_class_name = "" THEN emit_setGlobal(c4, s.name)
     ELSE StoreLocalName(c4, s.name)

codegen_stmt(c, s) ==
  CASE Failed(c) -> c
    [] s.k = "pass" -> c
    [] s.k = "global" -> [c EXCEPT !.global_names = @ \cup s.names]
    [] s.k = "nonlocal" -> [c EXCEPT !.nonlocal_names = @ \cup s.names]
    [] s.k = "def" -> codegen_function_def(c, s)
    [] s.k = "expr" -> emit_pop(codegen_expr(c, s.value))
    [] s.k = "assign" -> LowerAssign(c, s)
    [] s.k = "aug_assign" -> LowerAugAssign(c, s)
    [] s.k = "delete" -> FoldLeft(DeleteTarget, c, s.targets)
    [] s.k = "import" -> LowerImport(c, s)
    [] s.k = "import_from" -> LowerImportFrom(c, s)
    [] s.k = "class" -> LowerClass(c, s)
    [] s.k = "if" -> LowerIf(c, s)
    [] s.k = "while" -> LowerWhile(c, s)
    [] s.k = "for" -> LowerFor(c, s)
    [] s.k = "break" -> LoopJump(c, "break")
    [] s.k = "continue" -> LoopJump(c, "continue")
    [] s.k = "return" -> LowerReturn(c, s)
    [] s.k = "raise" -> LowerRaise(c, s)
    [] s.k = "assert" -> LowerAssert(c, s)
    [] s.k = "try" -> LowerTry(c, s)
    [] s.k = "with" -> LowerWith(c, s)

(* A frame for the dead code behind a transfer, if there is any in the list *)
DeadCodeFrame(c, ss) ==
  IF Tail(ss) # <<>> /\ stmt_always_transfers(Head(ss))
  THEN [c EXCEPT !.stackmap = RecordFrame(@, Len(c.code))] ELSE c

codegen_stmts(c, ss) ==
  IF ss = <<>> THEN c
  ELSE codegen_stmts(DeadCodeFrame(codegen_stmt(c, Head(ss)), ss), Tail(ss))

-----------------------------------------------------------------------------
(* The methods of the class for a module; or for the body of a function    *)
(* without parameters, taken for itself.                                   *)
codegen_module(body, kind, odd_operand) ==
  LET c == NewContext(kind)
      c1 == class_writer_add_method(c, "main", FALSE, 0)
      c2 == AttachCode(c1, Body(c1, body, odd_operand), 1)
  IN [c2.methods EXCEPT ![1].entry = c.stackmap.locals]

=============================================================================
