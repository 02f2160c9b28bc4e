---------------------------- MODULE StackMapPaths ----------------------------
(***************************************************************************)
(* The tracker with a history of the paths that met at each offset: the    *)
(* locals and the stack that stackmap_record_frame was called with.  The   *)
(* verifier checks the code behind an offset with its one frame, so that   *)
(* the frame has to be true of every one of these paths.                   *)
(***************************************************************************)
EXTENDS StackMapTracker

CONSTANT MaxPaths   \* bound: different recordings

ASSUME PathsAssumption == MaxPaths \in Nat

VARIABLE paths   \* [offset, locals, stack] of each call

PathsInit == Init /\ paths = {}

Path(off) == [offset |-> off, locals |-> smt.locals, stack |-> smt.stack]

RecordPath(off) ==
  /\ Cardinality(paths \cup {Path(off)}) <= MaxPaths
  /\ stackmap_record_frame(off)
  /\ paths' = paths \cup {Path(off)}

PathsNext ==
  \/ UpdateState /\ UNCHANGED paths
  \/ \E off \in Offsets : RecordPath(off)

PathsSpec == PathsInit /\ [][PathsNext]_<<vars, paths>>

-----------------------------------------------------------------------------
(* The paths agree on the locals that they both have, *)
AgreeOnLocals(p, q) ==
  \A s \in 1..Len(p.locals) : s <= Len(q.locals) => p.locals[s] = q.locals[s]

(* and on the exception, where both have one. *)
AgreeOnStack(p, q) == p.stack = q.stack \/ p.stack = <<>> \/ q.stack = <<>>

IsPrefixOf(s, t) == Len(s) <= Len(t) /\ \A i \in 1..Len(s) : s[i] = t[i]

(* Every path has a frame where it was recorded.  Whatever the order of    *)
(* the paths, the frame has the locals of one of them, whole and never     *)
(* more than another path has, and the stack of one of them.  So, where    *)
(* the paths agree with each other, its locals are true of each path, and  *)
(* the exception of a handler stays when paths with an empty stack come    *)
(* before or after it (stackmap.c:394-434).                                *)
FramesTrueOfPaths ==
  /\ \A p \in paths : HasFrame(smt, p.offset)
  /\ \A i \in 1..Len(smt.frames) :
       LET f == smt.frames[i]
           met == {p \in paths : p.offset = f.offset}
       IN /\ \E p \in met : f.locals = p.locals
          /\ \E p \in met : f.stack = p.stack
          /\ \A p \in met : Len(f.locals) <= Len(p.locals)
          /\ (\A p, q \in met : AgreeOnLocals(p, q)) =>
               \A p \in met : IsPrefixOf(f.locals, p.locals)
          /\ (\A p, q \in met : AgreeOnStack(p, q)) =>
               \A p \in met : p.stack # <<>> => f.stack = p.stack
=============================================================================
