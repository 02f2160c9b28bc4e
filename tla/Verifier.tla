------------------------------ MODULE Verifier ------------------------------
(***************************************************************************)
(* The type-checking pass of the JVM over the methods of a class: what     *)
(* class files of version 55 (classwriter.h) must satisfy to be loaded.    *)
(* External: only the rules that the generated methods can break.  It      *)
(* reads a method from front to back with the frames as the only source    *)
(* of types behind a branch, and never follows a branch.                   *)
(***************************************************************************)
EXTENDS Emission

(* The classes of Python objects: they extend $O. *)
PyObjects == {"$I", "$S", "$L", "$T", "$ST", "$D", "$SL", "$M", "$Cls", "$Gen", "$MH", "$GE"}

(* Is a value of type t usable where u is expected? *)
Assignable(t, u) ==
  \/ t = u \/ u = Top
  \/ t = NullType /\ u.tag = "object"
  \/ t = Object("$X") /\ u = Object("Throwable")
  \/ t.tag = "object" /\ t.cp \in PyObjects /\ u = O
  \/ t = Object("$MH[]") /\ u = Array

LocalAt(locals, i) == IF i \in 1..Len(locals) THEN locals[i] ELSE Top

(* A state [locals, stack] where frame f is expected *)
FitsFrame(m, st, f) ==
  /\ \A i \in 1..m.max_locals : Assignable(LocalAt(st.locals, i), LocalAt(f.locals, i))
  /\ Len(st.stack) = Len(f.stack)
  /\ \A i \in 1..Len(st.stack) : Assignable(st.stack[i], f.stack[i])

FramesAt(m, off) == {f \in Range(m.frames) : f.offset = off}

Transfers == {"goto", "athrow", "areturn", "return"}

Push1(st, t) == [st EXCEPT !.stack = Append(@, t)]
PopN(st, n) == [st EXCEPT !.stack = SubSeq(@, 1, Len(@) - n)]
Pop1(st) == PopN(st, 1)
TopOf(st) == IF st.stack = <<>> THEN Top ELSE st.stack[Len(st.stack)]

(* What an instruction pops: the types it needs, the top last *)
Needs(i) ==
  CASE i.op \in {"invoke", "init", "callable"} -> i.arg.needs
    [] i.op \in {"pop", "dup", "astore"} -> <<Top>>
    [] i.op \in {"swap", "dup_x1"} -> <<Top, Top>>
    [] i.op \in {"ifeq", "ifne", "anewarray"} -> <<IntType>>
    [] i.op = "aastore" -> <<Array, IntType, O>>
    [] i.op = "aaload" -> <<Array, IntType>>
    [] i.op \in {"setGlobal", "iter", "next", "bool", "areturn", "ifnull", "ifnonnull"} -> <<O>>
    [] i.op = "athrow" -> <<Object("Throwable")>>
    [] i.op = "asPyObject" -> <<Object("$X")>>
    [] i.op = "text" -> <<Object("$S")>>
    [] OTHER -> <<>>

(* What it pushes, when that does not depend on the state *)
Gives(i) ==
  CASE i.op \in {"invoke", "callable"} -> IF i.arg.gives = "" THEN <<>> ELSE <<ResultType(i.arg.gives)>>
    [] i.op = "const" -> <<Object(i.arg.class)>>
    [] i.op \in {"builtin", "iter", "next", "asPyObject", "aaload"} -> <<O>>
    [] i.op = "ldc_method" -> <<Object("MethodHandle")>>
    [] i.op \in {"ldc", "text"} -> <<Text>>
    [] i.op \in {"iconst", "bool"} -> <<IntType>>
    [] i.op = "aconst_null" -> <<NullType>>
    [] i.op = "anewarray" -> <<Object(i.arg)>>
    [] i.op = "raise" -> <<Object("$X")>>
    [] OTHER -> <<>>

(* Entries that it needs above its operands while it runs: a literal in    *)
(* words, the name of a global                                             *)
Room(i) ==
  CASE i.op = "const" -> Words(i.arg.class)
    [] i.op \in {"setGlobal", "delGlobal"} -> 1
    [] OTHER -> 0

StoreLocal(st, s, t) ==
  [st EXCEPT !.locals = [k \in 1..Larger(Len(@), s + 1) |->
                           IF k = s + 1 THEN t ELSE LocalAt(st.locals, k)]]

(* A constructor: the object below its operands is initialized wherever it *)
(* has been copied to.                                                     *)
Initialized(st, i) ==
  LET object == TopOf(PopN(st, Len(Needs(i))))
  IN InitObject(PopN(st, Len(Needs(i)) + 1), object.offset, i.arg.gives)

(* The state behind instruction i at offset off, whose needs are met *)
After(st, i, off) ==
  CASE i.op = "init" -> Initialized(st, i)
    [] i.op = "new" -> Push1(st, Uninit(off))
    [] i.op = "dup" -> Push1(st, TopOf(st))
    [] i.op = "dup_x1" -> Push1(Push1(Push1(PopN(st, 2), TopOf(st)), TopOf(Pop1(st))), TopOf(st))
    [] i.op = "swap" -> Push1(Push1(PopN(st, 2), TopOf(st)), TopOf(Pop1(st)))
    [] i.op = "aload" -> Push1(st, LocalAt(st.locals, i.arg + 1))
    [] i.op = "astore" -> StoreLocal(Pop1(st), i.arg, TopOf(st))
    [] OTHER -> [PopN(st, Len(Needs(i))) EXCEPT !.stack = @ \o Gives(i)]

InstructionFits(m, st, i, off) ==
  LET need == Needs(i)
      base == Len(st.stack) - Len(need)
  IN /\ base >= 0
     /\ \A k \in 1..Len(need) : Assignable(st.stack[base + k], need[k])
     /\ i.op = "init" => base > 0 /\ st.stack[base].tag = "uninit"
     /\ i.op = "aload" => LocalAt(st.locals, i.arg + 1).tag \in {"object", "null"}
     /\ Len(st.stack) + Room(i) <= m.max_stack
     /\ Len(After(st, i, off).stack) <= m.max_stack

LastOffset(m) == Len(m.code) - 1
Instruction(m, off) == m.code[off + 1]
Falls(m, off) == Instruction(m, off).op \notin Transfers
HasFrameAt(m, off) == FramesAt(m, off) # {}

FrameState(m, off) ==
  LET f == CHOOSE f \in FramesAt(m, off) : TRUE
  IN [locals |-> f.locals, stack |-> f.stack]

(* The state in front of every instruction: that of its frame, or else the *)
(* one the instruction before it leaves.                                   *)
States(m) ==
  LET st[off \in 0..LastOffset(m)] ==
        IF HasFrameAt(m, off) THEN FrameState(m, off)
        ELSE IF off = 0 THEN [locals |-> m.entry, stack |-> <<>>]
        ELSE After(st[off - 1], Instruction(m, off - 1), off - 1)
  IN st

(* The rules, each under the error the JVM reports                         *)

(* "Arguments can't fit into locals" *)
ArgumentsFit(m) == Len(m.entry) <= m.max_locals

(* "StackMapTable error: bad offset" *)
FramesInCode(m) == \A f \in Range(m.frames) : f.offset <= LastOffset(m)

(* "Expecting a stack map frame" *)
FramesBehindTransfers(m) ==
  \A off \in 1..LastOffset(m) : Falls(m, off - 1) \/ HasFrameAt(m, off)

(* "Control flow falls through code end" *)
EndsInTransfer(m) == ~Falls(m, LastOffset(m))

(* "Bad type on operand stack", "Operand stack overflow" and "underflow" *)
InstructionsFit(m, st) ==
  \A off \in 0..LastOffset(m) : InstructionFits(m, st[off], Instruction(m, off), off)

(* "Inconsistent stackmap frames": falling into a frame, branching to one, *)
(* and being thrown to one                                                 *)
FallThroughFits(m, st) ==
  \A off \in 1..LastOffset(m) :
    Falls(m, off - 1) =>
      \A f \in FramesAt(m, off) : FitsFrame(m, After(st[off - 1], Instruction(m, off - 1), off - 1), f)

BranchesFit(m, st) ==
  \A off \in 0..LastOffset(m) :
    LET i == Instruction(m, off)
    IN i.op \in Branches =>
         \E f \in FramesAt(m, i.arg) : FitsFrame(m, After(st[off], i, off), f)

HandlersFit(m, st) ==
  \A e \in Range(m.exceptions) : \A off \in e.start..e.end - 1 :
    LET caught == Object(IF e.catch = "any" THEN "Throwable" ELSE e.catch)
    IN \E f \in FramesAt(m, e.handler) : FitsFrame(m, [st[off] EXCEPT !.stack = <<caught>>], f)

Verifies(m) ==
  /\ ArgumentsFit(m)
  /\ FramesInCode(m)
  /\ FramesBehindTransfers(m)
  /\ EndsInTransfer(m)
  /\ LET st == States(m)
     IN /\ InstructionsFit(m, st)
        /\ FallThroughFits(m, st)
        /\ BranchesFit(m, st)
        /\ HandlersFit(m, st)

(* "Duplicate method name&signature" *)
MethodsDiffer(methods) ==
  \A i, j \in 1..Len(methods) :
    LET Signature(m) == <<m.name, m.closure, m.params>>
    IN Signature(methods[i]) = Signature(methods[j]) => i = j

ClassVerifies(methods) == MethodsDiffer(methods) /\ \A i \in 1..Len(methods) : Verifies(methods[i])

=============================================================================
