----------------------------- MODULE Execution ------------------------------
(***************************************************************************)
(* A class compiled, loaded and run: the JVM verifies the methods that the *)
(* compiler made, and executes main, the first, instruction by instruction *)
(* if they pass.  A call of a function object enters its method, and an    *)
(* exception leaves methods until a handler covers the call.  What         *)
(* the program sees of its surroundings (truth values, iterators,          *)
(* operations that raise) is chosen freely and recorded in trace, which    *)
(* PythonFlow reads.  A value is the name of where it comes from, an array *)
(* the sequence of its values: the copy that an element is stored in is    *)
(* the one the code keeps below.                                           *)
(***************************************************************************)
EXTENDS Verifier, PythonFlow

CONSTANTS Programs,       \* records [body, kind, odd_operand]
          Compiler(_),    \* the methods that a program is compiled to
          Python(_, _),   \* how PythonFlow reads a trace for a program
          MaxTrace        \* bound: observable events of one execution

ASSUME ExecutionAssumption == MaxTrace \in Nat

VARIABLES program,   \* what is compiled
          methods,   \* what it is compiled to
          phase,     \* "source", "compiled", "rejected", "running" or "done"
          method,    \* the number of the method that runs, with its
          pc, stack, locals,
          callers,   \* the calls that led there: [method, pc, stack, locals], innermost last
          globals,
          functions, \* the function objects so far: [method, captured]
          trace,     \* the observable events so far
          outcome    \* <<>>, or how main ended: <<"return", value>> or <<exception>>

frame == <<method, pc, stack, locals, callers>>
vars == <<program, methods, phase, frame, globals, functions, trace, outcome>>

NoNames == [n \in {} |-> ""]

Instr == methods[method].code[pc + 1]
TopValue == stack[Len(stack)]
Below(n) == SubSeq(stack, 1, Len(stack) - n)
Operand(n) == stack[Len(stack) - n]   \* the one below the last n

Init == /\ program \in Programs /\ methods = <<>>
        /\ phase = "source" /\ method = 1 /\ pc = 0 /\ stack = <<>> /\ locals = [s \in {} |-> ""]
        /\ callers = <<>> /\ globals = NoNames /\ functions = <<>>
        /\ trace = <<>> /\ outcome = <<>>

Compile ==
  /\ phase = "source"
  /\ phase' = "compiled"
  /\ methods' = Compiler(program)
  /\ UNCHANGED <<program, frame, globals, functions, trace, outcome>>

Load ==
  /\ phase = "compiled"
  /\ phase' = IF ClassVerifies(methods) THEN "running" ELSE "rejected"
  /\ UNCHANGED <<program, methods, frame, globals, functions, trace, outcome>>

At(ops) == phase = "running" /\ Instr.op \in ops

SameClass == UNCHANGED <<program, methods, phase, outcome>>
SameWorld == UNCHANGED <<globals, functions>>
Goto(target) == pc' = target /\ SameClass /\ UNCHANGED <<method, callers>>
NextInstr == Goto(pc + 1)
Becomes(new) == stack' = new /\ UNCHANGED locals /\ SameWorld
Silently == UNCHANGED trace

End(how) == /\ phase' = "done" /\ outcome' = how
            /\ UNCHANGED <<program, methods, frame, globals, functions>>

(* The calls, with the one that runs *)
Frames == Append(callers, [method |-> method, pc |-> pc, stack |-> stack, locals |-> locals])

(* What calling with the wrong number of arguments throws is no $X, which  *)
(* is what Python exceptions are.                                          *)
WrongArity == "WrongMethodTypeException"

(* The entries of the table that take the exception exc thrown in f *)
Catching(f, exc) ==
  LET table == methods[f.method].exceptions
  IN {k \in 1..Len(table) : /\ table[k].start <= f.pc /\ f.pc < table[k].end
                            /\ exc = WrongArity => table[k].catch = "any"}

(* The innermost frame with such an entry goes on at the first of them. *)
Throw(exc) ==
  LET catching == {n \in 1..Len(Frames) : Catching(Frames[n], exc) # {}}
  IN IF catching = {} THEN End(<<exc>>)
     ELSE LET n == Max(catching)
              f == Frames[n]
          IN /\ pc' = methods[f.method].exceptions[Min(Catching(f, exc))].handler
             /\ method' = f.method /\ stack' = <<exc>> /\ locals' = f.locals
             /\ callers' = SubSeq(callers, 1, n - 1)
             /\ SameClass /\ SameWorld

Observe(id, args, result) ==
  /\ Len(trace) < MaxTrace
  /\ trace' = Append(trace, [id |-> id, args |-> args, result |-> result])

(* What an operation is applied to: the objects on the stack, and those in *)
(* arrays                                                                  *)
Arguments(operation) ==
  LET n == Len(operation.needs)
      Objects(i) == CASE operation.needs[i] \in {Array, Object("$MH[]")} -> Operand(n - i)
                      [] operation.needs[i] = Text -> <<>>
                      [] OTHER -> <<Operand(n - i)>>
  IN FlattenSeq([i \in 1..n |-> Objects(i)])

(* The truth of whether an exception matches, the exception that is raised *)
(* for an object, or else a new value                                      *)
ResultValue(operation) ==
  CASE operation.id = "matches" -> IF Operand(1) = Operand(0) THEN "true" ELSE "false"
    [] operation.id = "raise" -> Operand(Len(operation.needs) - 1)
    [] OTHER -> operation.id

(* What the stack becomes: a constructor also takes a copy of its object.  *)
Invoked(i) ==
  LET operation == i.arg
      n == Len(operation.needs) + IF i.op = "init" THEN 1 ELSE 0
  IN IF i.op = "init" \/ operation.gives = "" THEN Below(n)
     ELSE Append(Below(n), ResultValue(operation))

(* The function objects that the current operation calls: only a call has  *)
(* an object and an array.                                                 *)
Called ==
  IF Instr.op # "invoke" \/ Instr.arg.needs # <<O, Array>> THEN {}
  ELSE {f \in 1..Len(functions) : FunctionName(f) = Operand(1)}

Enter(f) ==
  LET closure == IF methods[f.method].closure THEN <<f.captured>> ELSE <<>>
      args == closure \o TopValue
  IN /\ callers' = Frames
     /\ method' = f.method /\ pc' = 0 /\ stack' = <<>>
     /\ locals' = [s \in 0..Len(args) - 1 |-> args[s + 1]]
     /\ SameClass /\ SameWorld

CallFunction ==
  /\ At({"invoke"})
  /\ Silently
  /\ \E f \in Called : IF Len(TopValue) = methods[functions[f].method].params
                       THEN Enter(functions[f]) ELSE Throw(WrongArity)

MakeFunction ==
  /\ At({"callable"})
  /\ Silently
  /\ NextInstr
  /\ LET closure == Len(Instr.arg.needs) = 2
     IN functions' = Append(functions, [method |-> Operand(IF closure THEN 1 ELSE 0),
                                        captured |-> IF closure THEN TopValue ELSE <<>>])
  /\ stack' = Append(Below(Len(Instr.arg.needs)), FunctionName(Len(functions) + 1))
  /\ UNCHANGED <<locals, globals>>

Invoke ==
  /\ At({"invoke", "init"})
  /\ Called = {}
  /\ LET operation == Instr.arg
     IN IF ~operation.observed
        THEN Silently /\ NextInstr /\ Becomes(Invoked(Instr))
        ELSE \E result \in {"ok"} \cup operation.raises :
               /\ Observe(operation.id, Arguments(operation), result)
               /\ IF result = "ok" THEN NextInstr /\ Becomes(Invoked(Instr)) ELSE Throw(result)

Test ==
  /\ At({"bool"})
  /\ \E result \in {"true", "false"} :
       /\ Observe("BOOL", <<TopValue>>, result)
       /\ NextInstr /\ Becomes(Append(Below(1), result))

NextItem ==
  /\ At({"next"})
  /\ \E result \in {"item", "none"} :
       /\ Observe(Instr.arg, <<TopValue>>, result)
       /\ NextInstr
       /\ Becomes(Append(Below(1), IF result = "item" THEN Instr.arg ELSE "null"))

Branch ==
  /\ At(Branches)
  /\ Silently
  /\ LET taken == CASE Instr.op = "goto" -> TRUE
                    [] Instr.op = "ifeq" -> TopValue = "false"
                    [] Instr.op = "ifne" -> TopValue = "true"
                    [] Instr.op = "ifnull" -> TopValue = "null"
                    [] Instr.op = "ifnonnull" -> TopValue # "null"
     IN /\ Goto(IF taken THEN Instr.arg ELSE pc + 1)
        /\ Becomes(IF Instr.op = "goto" THEN stack ELSE Below(1))

StackOp ==
  /\ At({"nop", "iter", "asPyObject", "text", "pop", "swap", "dup", "dup_x1", "const", "new",
         "raise", "aconst_null", "ldc", "ldc_method", "iconst", "anewarray", "aastore",
         "aaload"})
  /\ Silently
  /\ NextInstr
  /\ Becomes(CASE Instr.op \in {"nop", "iter", "asPyObject", "text"} -> stack
               [] Instr.op = "pop" -> Below(1)
               [] Instr.op = "swap" -> Below(2) \o <<TopValue, Operand(1)>>
               [] Instr.op = "dup" -> Append(stack, TopValue)
               [] Instr.op = "dup_x1" -> Below(2) \o <<TopValue, Operand(1), TopValue>>
               [] Instr.op = "const" -> Append(stack, Instr.arg.value)
               [] Instr.op = "new" -> Append(stack, Instr.arg.id)
               [] Instr.op = "raise" -> Append(stack, Instr.arg)
               [] Instr.op = "aconst_null" -> Append(stack, "null")
               [] Instr.op = "ldc_method" -> Append(stack, Instr.arg)
               [] Instr.op = "aaload" -> Append(Below(2), Operand(1)[Instr.arg])
               [] Instr.op \in {"ldc", "iconst"} -> Append(stack, "literal")
               [] Instr.op = "anewarray" -> Append(Below(1), <<>>)
               [] Instr.op = "aastore" -> Append(Below(4), Append(Operand(3), TopValue)))

LocalOp ==
  /\ At({"aload", "astore"})
  /\ Silently
  /\ NextInstr
  /\ IF Instr.op = "aload" THEN Becomes(Append(stack, locals[Instr.arg]))
     ELSE /\ stack' = Below(1)
          /\ locals' = (Instr.arg :> TopValue) @@ locals
          /\ SameWorld

(* A name without a global is a builtin. *)
GlobalOp ==
  /\ At({"builtin", "setGlobal", "delGlobal"})
  /\ Silently
  /\ NextInstr
  /\ UNCHANGED <<locals, functions>>
  /\ LET name == Instr.arg
     IN CASE Instr.op = "builtin" ->
               /\ stack' = Append(stack, IF name \in DOMAIN globals THEN globals[name] ELSE name)
               /\ UNCHANGED globals
          [] Instr.op = "setGlobal" ->
               stack' = Below(1) /\ globals' = (name :> TopValue) @@ globals
          [] Instr.op = "delGlobal" ->
               /\ globals' = [n \in DOMAIN globals \ {name} |-> globals[n]]
               /\ UNCHANGED stack

AThrow == At({"athrow"}) /\ Throw(TopValue) /\ Silently

(* The caller goes on behind the call, with the value in place of the      *)
(* function and its arguments.                                             *)
Return ==
  /\ At({"areturn", "return"})
  /\ Silently
  /\ IF callers = <<>> THEN End(IF Instr.op = "return" THEN <<"return">> ELSE <<"return", TopValue>>)
     ELSE LET f == Last(callers)
          IN /\ method' = f.method /\ pc' = f.pc + 1 /\ locals' = f.locals
             /\ stack' = Append(SubSeq(f.stack, 1, Len(f.stack) - 2), TopValue)
             /\ callers' = Front(callers)
             /\ SameClass /\ SameWorld

Next == \/ Compile \/ Load \/ Invoke \/ CallFunction \/ MakeFunction \/ Test \/ NextItem
        \/ Branch \/ StackOp \/ LocalOp \/ GlobalOp \/ AThrow \/ Return

Spec == Init /\ [][Next]_vars

-----------------------------------------------------------------------------
(* The JVM loads the class that was generated for every program: types,    *)
(* depths, frames, exception ranges and the end of the code of every       *)
(* method satisfy its verifier.                                            *)
Loads == phase # "rejected"

(* Every event of the running code is the one Python would produce next,   *)
(* on the values that Python would use, and the method ends when and how   *)
(* the Python code does, with the same value.                              *)
BehavesAsPython ==
  LET r == Python(trace, program)
  IN /\ r.sig # "stuck"
     /\ phase = "running" => r.rest = <<>>
     /\ phase = "done" => /\ r.rest = <<>> /\ r.sig # "more"
                          /\ outcome = Outcome(r, program.kind)

=============================================================================
