------------------------------ MODULE Emission ------------------------------
(***************************************************************************)
(* The code generation context of src/src/codegen.c and what emits one     *)
(* instruction.                                                            *)
(*                                                                         *)
(* An instruction is a record [op, arg] and takes one byte, so offsets are *)
(* instruction indices, counted from 0.  An operation of the runtime (an   *)
(* invokedynamic site or a method of a runtime class) is one instruction   *)
(* "invoke", whose arg says what it pops and pushes; a short sequence that *)
(* always goes together (a literal, a global, a call of __exit__) is one   *)
(* instruction too, and HighWater is the room it needs on the stack while  *)
(* it runs.                                                                *)
(*                                                                         *)
(* A context c holds what codegen_ctx_t does: code, labels (-1: not        *)
(* marked), exceptions, loop_stack, locals (name to slot), next_local,     *)
(* is_module_level, yield_list_slot (-1: no generator), global_names and   *)
(* nonlocal_names, captured_vars (the names in the closure array, which is *)
(* in slot closure_slot), current_class_name, stackmap (a tracker),        *)
(* stack_depth with its maximum, and error_msg, which stops code           *)
(* generation (nothing in codegen.c sets it).  enclosing are the locals of *)
(* the contexts around it, and methods the methods of the class so far,    *)
(* which in the code belong to the class writer.                           *)
(***************************************************************************)
EXTENDS Integers, Sequences, SequencesExt

JavaClasses == {"$O", "$X", "$I", "$S", "$L", "$T", "$ST", "$D", "$SL", "$M", "$Cls", "$Gen",
                "$MH", "$GE", "$O[]", "$MH[]", "String", "MethodHandle", "Throwable", "args"}

INSTANCE StackMap WITH Classes <- JavaClasses

O == Object("$O")
Array == Object("$O[]")
Text == Object("String")
IntType == VT("int")
NullType == VT("null")

Kinds == {"module", "function", "generator"}

NewContext(kind) ==
  [code |-> <<>>, labels |-> <<>>, exceptions |-> <<>>, loop_stack |-> <<>>,
   locals |-> [n \in {} |-> 0], next_local |-> IF kind = "module" THEN 1 ELSE 0,
   is_module_level |-> kind = "module", yield_list_slot |-> -1, global_names |-> {},
   nonlocal_names |-> {}, captured_vars |-> <<>>, closure_slot |-> -1, enclosing |-> {},
   current_class_name |-> "", methods |-> <<>>,
   stackmap |-> IF kind = "module" THEN SetLocal(NewTracker, 0, Object("args"))
                ELSE NewTracker,
   stack_depth |-> 0, max_stack |-> 0, error_msg |-> ""]

Failed(c) == c.error_msg # ""

-----------------------------------------------------------------------------
(* The two accounts of the operand stack: its depth, and its types.  The   *)
(* code keeps them apart and, in places, updates only one of them.         *)

Emit(c, op, arg) == [c EXCEPT !.code = Append(@, [op |-> op, arg |-> arg])]

stack_push(c, n) ==
  [c EXCEPT !.stack_depth = @ + n, !.max_stack = Larger(@, c.stack_depth + n)]

stack_pop(c, n) == [c EXCEPT !.stack_depth = IF @ < n THEN 0 ELSE @ - n]

(* Variant: no room for what an instruction needs while it runs. *)
NoRoom(c, n) == c

(* Room for n more entries while an instruction runs *)
HighWater(c, n) == stack_pop(stack_push(c, n), n)

stackmap_push(c, type) == [c EXCEPT !.stackmap = Push(@, type)]
stackmap_push_object(c, class) == stackmap_push(c, Object(class))
stackmap_pop(c, n) == [c EXCEPT !.stackmap = Pop(@, n)]
stackmap_restore(c, state) == [c EXCEPT !.stackmap = RestoreState(@, state)]
stackmap_restore_exact(c, state) ==
  [c EXCEPT !.stackmap = SetLocalsCount(RestoreState(@, state), Len(state.locals))]
stackmap_set_local(c, slot, type) == [c EXCEPT !.stackmap = SetLocal(@, slot, type)]

(* Both accounts at once *)
Pushed(c, type) ==
  [c EXCEPT !.stack_depth = @ + 1, !.max_stack = Larger(@, c.stack_depth + 1),
            !.stackmap = Push(@, type)]
Popped(c, n) ==
  [c EXCEPT !.stack_depth = IF @ < n THEN 0 ELSE @ - n, !.stackmap = Pop(@, n)]

emit_dup(c, type) == Pushed(Emit(c, "dup", 0), type)
emit_aconst_null(c) == Pushed(Emit(c, "aconst_null", 0), NullType)
emit_pop(c) == Popped(Emit(c, "pop", 0), 1)
emit_swap(c) == Emit(c, "swap", 0)
emit_ldc_string(c) == Pushed(Emit(c, "ldc", 0), Text)
emit_iconst(c) == Pushed(Emit(c, "iconst", 0), IntType)
emit_anewarray_of(c, class) ==
  stackmap_push_object(stackmap_pop(Emit(c, "anewarray", class), 1), class)
emit_anewarray(c) == emit_anewarray_of(c, "$O[]")

(* The words of a literal before it becomes an object *)
Words(class) == CASE class = "$I" -> 2 [] class = "$S" -> 1 [] OTHER -> 0

(* emit_py_int, emit_py_str, and emit_py_none or emit_py_bool ("$O") *)
emit_literal(c, class, value) ==
  Pushed(HighWater(Emit(c, "const", [class |-> class, value |-> value]), Words(class)),
         Object(class))

emit_py_none(c) == emit_literal(c, "$O", "None")

emit_new(c, class, id) ==
  Pushed(Emit(c, "new", [class |-> class, id |-> id]), Uninit(Len(c.code)))

-----------------------------------------------------------------------------
(* Operations of the runtime.  id names the operation's place: it is the   *)
(* value that it yields.  needs and gives are its operand and result types *)
(* (gives "" for none, "int" for a truth value), raises the exceptions it  *)
(* may throw; unobserved are the ones Python code cannot see.              *)

Operation(id, needs, gives) ==
  [id |-> id, needs |-> needs, gives |-> gives, raises |-> {}, observed |-> TRUE]
Unobserved(operation) == [operation EXCEPT !.observed = FALSE]

ResultType(gives) == IF gives = "int" THEN IntType ELSE Object(gives)
ResultOf(c, gives) == IF gives = "" THEN c ELSE stackmap_push(c, ResultType(gives))

emit_invoke(c, operation) == Emit(c, "invoke", operation)

(* stackmap_track_indy, for any number of operands *)
stackmap_track(c, operation) ==
  ResultOf(stackmap_pop(c, Len(operation.needs)), operation.gives)

(* A method of a runtime class: emit_invokestatic.  "callable" makes a     *)
(* function object.                                                        *)
emit_static(c, op, operation) ==
  LET d == stack_pop(stackmap_track(Emit(c, op, operation), operation), Len(operation.needs))
  IN IF operation.gives = "" THEN d ELSE stack_push(d, 1)

emit_invokestatic(c, operation) == emit_static(c, "invoke", operation)

(* An operation on one object, through invokedynamic *)
emit_unary(c, id) ==
  LET operation == Operation(id, <<O>>, "$O")
  IN stackmap_track(emit_invoke(c, operation), operation)

(* One on two objects *)
emit_binary(c, id) == emit_invokestatic(c, Operation(id, <<O, O>>, "$O"))

(* PY_INDY_BOOL, and the branch that consumes the truth value *)
codegen_emit_jump(c, op, l) == Emit(c, op, l)
emit_branch(c, op, l) ==
  LET d == stackmap_push(stackmap_pop(Emit(c, "bool", 0), 1), IntType)
  IN Popped(codegen_emit_jump(d, op, l), 1)

-----------------------------------------------------------------------------
(* Locals, globals and labels *)

codegen_alloc_local(c, name) ==
  [c EXCEPT !.next_local = @ + 1,
            !.locals = [n \in DOMAIN @ \cup {name} |->
                          IF n = name THEN c.next_local ELSE c.locals[n]],
            !.stackmap = SetLocal(@, c.next_local, O)]

HasLocal(c, name) == name \in DOMAIN c.locals

(* codegen_get_local, and a slot for the name if it has none *)
LocalFor(c, name) == IF HasLocal(c, name) THEN c ELSE codegen_alloc_local(c, name)

emit_aload(c, slot) == Pushed(Emit(c, "aload", slot), O)
emit_astore(c, slot) == stackmap_set_local(Popped(Emit(c, "astore", slot), 1), slot, O)

(* A slot whose type is narrower than $O *)
emit_aload_as(c, slot, class) ==
  stackmap_push_object(stackmap_pop(emit_aload(c, slot), 1), class)
emit_astore_as(c, slot, class) == stackmap_set_local(emit_astore(c, slot), slot, Object(class))

emit_builtin(c, name) == Pushed(Emit(c, "builtin", name), O)
emit_setGlobal(c, name) == Popped(Emit(HighWater(c, 1), "setGlobal", name), 1)

StoreLocalName(c, name) ==
  LET d == LocalFor(c, name) IN emit_astore(d, d.locals[name])

(* A name is global at module level, except if except or with bound it. *)
is_global(c, name) == name \in c.global_names
is_nonlocal(c, name) == name \in c.nonlocal_names

get_captured_index(c, name) ==
  IF name \in Range(c.captured_vars)
  THEN (CHOOSE i \in 1..Len(c.captured_vars) : c.captured_vars[i] = name) - 1 ELSE -1

(* An element of the closure array.  Both accounts keep one entry too many. *)
emit_captured(c, name) ==
  LET d == emit_iconst(emit_aload(c, c.closure_slot))
  IN HighWater(Emit(d, "aaload", get_captured_index(c, name) + 1), 1)

StoreName(c, name) ==
  IF c.is_module_level \/ is_global(c, name) THEN emit_setGlobal(c, name)
  ELSE StoreLocalName(c, name)

LoadName(c, name) ==
  LET captured == c.closure_slot >= 0 /\ get_captured_index(c, name) >= 0
  IN CASE is_global(c, name) -> emit_builtin(c, name)
       [] ~is_global(c, name) /\ is_nonlocal(c, name) /\ captured -> emit_captured(c, name)
       [] OTHER -> IF HasLocal(c, name) THEN emit_aload(c, c.locals[name])
                   ELSE IF captured THEN emit_captured(c, name) ELSE emit_builtin(c, name)

(* n new labels: the first is number Len(c.labels) + 1 *)
codegen_new_label(c, n) == [c EXCEPT !.labels = @ \o [i \in 1..n |-> -1]]

codegen_mark_label(c, l) ==
  [c EXCEPT !.labels[l] = Len(c.code), !.stackmap = RecordFrame(@, Len(c.code))]

Branches == {"goto", "ifeq", "ifne", "ifnull", "ifnonnull"}

codegen_resolve_labels(c) ==
  [c EXCEPT !.code = [i \in 1..Len(@) |->
                        IF @[i].op \in Branches
                        THEN [@[i] EXCEPT !.arg = c.labels[@]] ELSE @[i]]]

=============================================================================
