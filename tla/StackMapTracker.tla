--------------------------- MODULE StackMapTracker ---------------------------
(***************************************************************************)
(* The tracker of StackMap as a state machine: one action per function of  *)
(* stackmap.c that changes it, called in any order its callers in          *)
(* codegen.c may use.  Saved states live in handles, as the pointers that  *)
(* stackmap_save_state returns do.                                         *)
(***************************************************************************)
EXTENDS StackMap, FiniteSets

CONSTANTS LocalTypes,   \* types codegen.c stores in locals
          StackTypes,   \* types codegen.c pushes
          Offsets,      \* bytecode offsets where frames are recorded
          Handles,      \* names of saved states
          MaxLocals,    \* bound: local slots
          MaxStack      \* bound: values on the stack

ASSUME TrackerAssumption ==
  /\ LocalTypes \subseteq VType
  /\ StackTypes \subseteq VType
  /\ Offsets \subseteq Nat
  /\ MaxLocals \in Nat
  /\ MaxStack \in Nat

(* codegen.c keeps references and ints in locals; longs and doubles only   *)
(* pass over the stack.                                                    *)
ASSUME LocalsNarrow == \A t \in LocalTypes : ~Wide(t)

VARIABLES smt,     \* the tracker
          saved    \* handle -> saved state, for the handles in use

vars == <<smt, saved>>

Init == /\ smt = NewTracker
        /\ saved = [h \in {} |-> 0]

stackmap_set_local(slot, type) ==
  /\ slot < MaxLocals
  /\ smt' = SetLocal(smt, slot, type)
  /\ UNCHANGED saved

stackmap_set_locals_count(count) ==
  /\ count < Len(smt.locals)
  /\ smt' = SetLocalsCount(smt, count)
  /\ UNCHANGED saved

(* The entries but the second halves of wide ones. *)
Values(stack) == {i \in 1..Len(stack) : i > 1 => ~Wide(stack[i - 1])}

stackmap_push(type) ==
  /\ Cardinality(Values(smt.stack)) < MaxStack
  /\ smt' = Push(smt, type)
  /\ UNCHANGED saved

(* Callers pop whole entries, and may pop more than there is: the code     *)
(* clamps at the empty stack.                                              *)
stackmap_pop(count) ==
  /\ smt.stack # <<>>
  /\ count < Len(smt.stack) => ~Wide(smt.stack[Len(smt.stack) - count])
  /\ smt' = Pop(smt, count)
  /\ UNCHANGED saved

stackmap_clear_stack ==
  /\ smt.stack # <<>>
  /\ smt' = ClearStack(smt)
  /\ UNCHANGED saved

stackmap_init_object(off, class) ==
  /\ \E i \in 1..Len(smt.stack) : smt.stack[i] = Uninit(off)
  /\ smt' = InitObject(smt, off, class)
  /\ UNCHANGED saved

stackmap_record_frame(off) ==
  /\ smt' = RecordFrame(smt, off)
  /\ UNCHANGED saved

stackmap_save_state(h) ==
  /\ h \notin DOMAIN saved
  /\ saved' = [g \in DOMAIN saved \cup {h} |->
                 IF g = h THEN SaveState(smt) ELSE saved[g]]
  /\ UNCHANGED smt

stackmap_restore_state(h) ==
  /\ h \in DOMAIN saved
  /\ smt' = RestoreState(smt, saved[h])
  /\ UNCHANGED saved

stackmap_restore_locals_only(h) ==
  /\ h \in DOMAIN saved
  /\ smt' = RestoreLocalsOnly(smt, saved[h])
  /\ UNCHANGED saved

stackmap_state_free(h) ==
  /\ h \in DOMAIN saved
  /\ saved' = [g \in DOMAIN saved \ {h} |-> saved[g]]
  /\ UNCHANGED smt

UpdateState ==
  \/ \E slot \in 0..MaxLocals, type \in LocalTypes : stackmap_set_local(slot, type)
  \/ \E count \in 0..MaxLocals : stackmap_set_locals_count(count)
  \/ \E type \in StackTypes : stackmap_push(type)
  \/ \E count \in 1..2 * MaxStack + 1 : stackmap_pop(count)
  \/ stackmap_clear_stack
  \/ \E off \in Offsets, class \in Classes : stackmap_init_object(off, class)
  \/ \E h \in Handles :
       \/ stackmap_save_state(h)
       \/ stackmap_restore_state(h)
       \/ stackmap_restore_locals_only(h)
       \/ stackmap_state_free(h)

Next == UpdateState \/ \E off \in Offsets : stackmap_record_frame(off)

Spec == Init /\ [][Next]_vars

-----------------------------------------------------------------------------
(* Type invariant of the tracker and of the saved states. *)
TypeOK == /\ smt \in Tracker
          /\ DOMAIN saved \subseteq Handles
          /\ \A h \in DOMAIN saved : saved[h] \in SavedState

(* The frame list is strictly increasing in the bytecode offset, whatever  *)
(* the order of stackmap_record_frame calls: the attribute stores          *)
(* offset_delta = offset - previous - 1, which must not wrap.              *)
FramesSorted ==
  \A i, j \in 1..Len(smt.frames) :
    i < j => smt.frames[i].offset < smt.frames[j].offset

(* num_entries, which stackmap_serialize writes as number_of_entries, is   *)
(* the length of the list it then writes: a join adds no entry.            *)
EntriesCounted == smt.num_entries = Len(smt.frames)

(* Every long or double on a stack is followed by its TOP half, in the     *)
(* current stack, in every recorded frame and in every saved state: the    *)
(* writer skips a TOP after a wide entry, so an unpaired half would shift  *)
(* every entry behind it.                                                  *)
Paired(s) == \A i \in 1..Len(s) :
               Wide(s[i]) => i < Len(s) /\ s[i + 1].tag = "top"

NarrowSeq(s) == \A i \in 1..Len(s) : ~Wide(s[i])

WideEntriesPaired ==
  /\ Paired(smt.stack) /\ Paired(smt.locals)
  /\ \A i \in 1..Len(smt.frames) :
       Paired(smt.frames[i].stack) /\ Paired(smt.frames[i].locals)
  /\ \A h \in DOMAIN saved : Paired(saved[h].stack) /\ Paired(saved[h].locals)

=============================================================================
