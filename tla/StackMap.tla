------------------------------ MODULE StackMap ------------------------------
(***************************************************************************)
(* The verification-type tracker of src/src/stackmap.c, as operators on a  *)
(* tracker record                                                          *)
(*   [locals, stack, frames, num_entries]                                  *)
(* (current_locals, current_stack, the frame list and its counter).        *)
(*                                                                         *)
(* The arrays of the code are longer than their counts, but no cell beyond *)
(* a count is read again before it is written (stackmap_set_local fills    *)
(* the gap with TOP), so the array prefixes are sequences here.  Slot s of *)
(* the code is element s + 1 of the sequence.  Allocation failures are     *)
(* left out: the code drops the operation silently.                        *)
(***************************************************************************)
EXTENDS Naturals, Sequences

CONSTANT Classes   \* the class names that vtype_object puts in the pool

NoClass == "-"

ASSUME ClassesAssumption == NoClass \notin Classes

Tags == {"top", "int", "float", "double", "long", "null", "object", "uninit"}

(* verification_type_t: cp_index is represented by the class itself *)
VType == [tag : Tags, cp : Classes \cup {NoClass}, offset : Nat]

VT(tag) == [tag |-> tag, cp |-> NoClass, offset |-> 0]
Top == VT("top")
Object(c) == [tag |-> "object", cp |-> c, offset |-> 0]
Uninit(o) == [tag |-> "uninit", cp |-> NoClass, offset |-> o]

Wide(t) == t.tag \in {"long", "double"}

Frame == [offset : Nat, locals : Seq(VType), stack : Seq(VType)]
SavedState == [locals : Seq(VType), stack : Seq(VType)]
Tracker == [locals : Seq(VType), stack : Seq(VType),
            frames : Seq(Frame), num_entries : Nat]

NewTracker == [locals |-> <<>>, stack |-> <<>>, frames |-> <<>>, num_entries |-> 0]

-----------------------------------------------------------------------------
(* Current locals and stack *)

Larger(a, b) == IF a >= b THEN a ELSE b

(* Variant: the gap below a new slot keeps what the allocator left there.  *)
SetLocalGarbage(smt, slot, type) ==
  [smt EXCEPT !.locals =
     [i \in 1..Larger(Len(@), slot + 1) |->
        IF i = slot + 1 THEN type
        ELSE IF i <= Len(smt.locals) THEN smt.locals[i] ELSE VT("garbage")]]

SetLocal(smt, slot, type) ==
  LET n == Len(smt.locals)
      count == Larger(n, IF Wide(type) THEN slot + 2 ELSE slot + 1)
  IN [smt EXCEPT !.locals =
        [i \in 1..count |->
           IF i = slot + 1 THEN type
           ELSE IF i = slot + 2 /\ Wide(type) THEN Top
           ELSE IF i <= n THEN smt.locals[i] ELSE Top]]

SetLocalsCount(smt, count) ==
  IF count < Len(smt.locals)
  THEN [smt EXCEPT !.locals = SubSeq(@, 1, count)]
  ELSE smt

(* Variant: a wide entry takes one slot. *)
PushOneSlot(smt, type) == [smt EXCEPT !.stack = Append(@, type)]

Push(smt, type) ==
  [smt EXCEPT !.stack = @ \o (IF Wide(type) THEN <<type, Top>> ELSE <<type>>)]

Pop(smt, count) ==
  [smt EXCEPT !.stack =
     IF count > Len(@) THEN <<>> ELSE SubSeq(@, 1, Len(@) - count)]

ClearStack(smt) == [smt EXCEPT !.stack = <<>>]

(* stackmap_init_object: every copy of the new object becomes initialized *)
InitObject(smt, new_offset, class) ==
  LET Init1(s) == [i \in 1..Len(s) |->
                     IF s[i].tag = "uninit" /\ s[i].offset = new_offset
                     THEN Object(class) ELSE s[i]]
  IN [smt EXCEPT !.locals = Init1(@), !.stack = Init1(@)]

-----------------------------------------------------------------------------
(* Saved states *)

SaveState(smt) == [locals |-> smt.locals, stack |-> smt.stack]

(* The locals count never shrinks: slots above the saved ones keep their   *)
(* present type.                                                           *)
RestoreState(smt, state) ==
  LET n == Len(state.locals) IN
  [smt EXCEPT
     !.locals = [i \in 1..Larger(n, Len(@)) |->
                   IF i <= n THEN state.locals[i] ELSE smt.locals[i]],
     !.stack = state.stack]

RestoreLocalsOnly(smt, state) == [smt EXCEPT !.locals = state.locals]

-----------------------------------------------------------------------------
(* Frames *)

HasFrame(smt, off) == \E i \in 1..Len(smt.frames) : smt.frames[i].offset = off

(* Variant: the later recording wins. *)
JoinReplaces(smt, f) == [f EXCEPT !.locals = smt.locals, !.stack = smt.stack]

(* A second record at the same offset keeps the shorter locals and the     *)
(* stack of whoever had one: a handler's exception survives the join.      *)
JoinFrame(smt, f) ==
  [f EXCEPT !.locals = IF Len(smt.locals) < Len(@) THEN smt.locals ELSE @,
            !.stack = IF smt.stack # <<>> THEN smt.stack ELSE @]

(* Variant: frames are kept in the order they were recorded. *)
InsertLast(frames, off) == Len(frames)

(* How many frames stay in front of a new frame at off: the head is tested *)
(* on its own, then the list is walked from it while the next is smaller.  *)
InsertPosition(frames, off) ==
  IF frames = <<>> \/ frames[1].offset > off THEN 0
  ELSE LET stops == {p \in 1..Len(frames) :
                       p = Len(frames) \/ frames[p + 1].offset >= off}
       IN CHOOSE p \in stops : \A q \in stops : p <= q

InsertFrame(frames, f) ==
  LET p == InsertPosition(frames, f.offset)
  IN [i \in 1..Len(frames) + 1 |->
        IF i <= p THEN frames[i] ELSE IF i = p + 1 THEN f ELSE frames[i - 1]]

(* Variant: a join counts as one more entry. *)
RecordFrameCountsJoins(smt, off) ==
  IF HasFrame(smt, off)
  THEN LET found == CHOOSE i \in 1..Len(smt.frames) : smt.frames[i].offset = off
       IN [smt EXCEPT !.frames[found] = JoinFrame(smt, @),
                      !.num_entries = @ + 1]
  ELSE [smt EXCEPT !.frames = InsertFrame(@, [offset |-> off, locals |-> smt.locals,
                                              stack |-> smt.stack]),
                   !.num_entries = @ + 1]

RecordFrame(smt, off) ==
  IF HasFrame(smt, off)
  THEN LET found == CHOOSE i \in 1..Len(smt.frames) :
                      /\ smt.frames[i].offset = off
                      /\ \A j \in 1..i - 1 : smt.frames[j].offset # off
       IN [smt EXCEPT !.frames[found] = JoinFrame(smt, @)]
  ELSE [locals |-> smt.locals, stack |-> smt.stack,
        frames |-> InsertFrame(smt.frames, [offset |-> off, locals |-> smt.locals,
                                            stack |-> smt.stack]),
        num_entries |-> smt.num_entries + 1]

=============================================================================
