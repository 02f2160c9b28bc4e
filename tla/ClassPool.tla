------------------------------- MODULE ClassPool -------------------------------
(***************************************************************************)
(* One class under construction: the constant pool, the table of bootstrap *)
(* methods with the cache of indy.c in front of it, and the indices that   *)
(* the emitted code, fields and methods hold.  One action per kind of use. *)
(***************************************************************************)
EXTENDS ConstPool

CONSTANTS Members,         \* <<class, name, descriptor>> that the code refers to
          Operations,      \* names of bootstrap methods
          Sites,           \* <<name, descriptor>> of call sites
          LRT_BOOTSTRAP, BSM_DESC, BOOTSTRAP_METHODS,  \* fixed strings of the code
          Spares,          \* calls of realloc that succeed before one fails
          MaxUses          \* bound: uses of the pool

ASSUME ClassAssumption ==
  /\ Members \subseteq Strings \X Strings \X Strings
  /\ Operations \subseteq Strings
  /\ Sites \subseteq Strings \X Strings
  /\ {LRT_BOOTSTRAP, BSM_DESC, BOOTSTRAP_METHODS} \subseteq Strings
  /\ Spares \subseteq Nat

VARIABLES cp,         \* the pool
          methods,    \* bootstrap methods: their method handle indices
          bsm,        \* the cache: operation -> index in methods, -1 if absent
          uses        \* what was asked for and the index that was emitted for it

vars == <<cp, methods, bsm, uses>>

Init == /\ \E spare \in Spares : cp = NewPool(spare)
        /\ methods = <<>>
        /\ bsm = [op \in Operations |-> -1]
        /\ uses = <<>>

(* A call that never returns emits nothing; nobody looks at an index 0.    *)
Emit(q, use) ==
  /\ cp' = q
  /\ uses' = IF q.looping THEN uses ELSE Append(uses, [use EXCEPT !.index = q.index])

Use(kind, args) == [kind |-> kind, args |-> args, index |-> 0]

CanUse == ~cp.looping /\ Len(uses) < MaxUses

LoadNarrow(tag) ==
  CanUse /\ Emit(AddNarrow(cp, tag), Use(tag, <<>>)) /\ UNCHANGED <<methods, bsm>>

LoadWide(tag) ==
  CanUse /\ Emit(AddWide(cp, tag), Use(tag, <<>>)) /\ UNCHANGED <<methods, bsm>>

UseName(str) ==
  CanUse /\ Emit(AddUtf8(cp, str), Use("Utf8", <<str>>)) /\ UNCHANGED <<methods, bsm>>

UseClass(name) ==
  CanUse /\ Emit(AddClass(cp, name), Use("Class", <<name>>)) /\ UNCHANGED <<methods, bsm>>

LoadString(str) ==
  CanUse /\ Emit(AddString(cp, str), Use("String", <<str>>)) /\ UNCHANGED <<methods, bsm>>

UseMember(tag, m) ==
  /\ CanUse
  /\ Emit(AddMember(cp, tag, m[1], m[2], m[3]), Use(tag, <<m[1], m[2], m[3]>>))
  /\ UNCHANGED <<methods, bsm>>

HandleOf(q) == AddMethodHandle(q, q.index)

(* A compiled function or lambda is loaded as a method handle.             *)
LoadFunction(m) ==
  /\ CanUse
  /\ Emit(HandleOf(AddMember(cp, "Methodref", m[1], m[2], m[3])),
          Use("MethodHandle", <<m[1], m[2], m[3]>>))
  /\ UNCHANGED <<methods, bsm>>

NameTableLast(q) ==
  IF methods = <<>> THEN AddUtf8(q, BOOTSTRAP_METHODS) ELSE q

(* A first bootstrap method also names the attribute; the index of the     *)
(* handle stays the result.                                                *)
NameTable(q) ==
  IF methods = <<>> THEN [AddUtf8(q, BOOTSTRAP_METHODS) EXCEPT !.index = q.index] ELSE q

BootstrapHandle(op) ==
  HandleOf(AddMember(cp, "Methodref", LRT_BOOTSTRAP, op, BSM_DESC))

SiteAt(q, b) == AddInvokeDynamic(q, b, q.index)

CallSite(q, b, site) == SiteAt(AddNameAndType(q, site[1], site[2]), b)

SiteUse(op, site) == Use("InvokeDynamic", <<op, site[1], site[2]>>)

(* indy_emit_operation with a bootstrap method that is there already ...   *)
EmitKnownOperation(op, site) ==
  /\ CanUse /\ bsm[op] >= 0
  /\ Emit(CallSite(cp, bsm[op], site), SiteUse(op, site))
  /\ UNCHANGED <<methods, bsm>>

(* ... and with one that ensure_bootstrap_method adds first.               *)
AddBootstrap(q, op) ==
  IF q.looping THEN UNCHANGED <<methods, bsm>>
  ELSE /\ methods' = Append(methods, q.index)
       /\ bsm' = [bsm EXCEPT ![op] = Len(methods)]

EmitNewOperation(op, site) ==
  /\ CanUse /\ bsm[op] < 0
  /\ AddBootstrap(NameTable(BootstrapHandle(op)), op)
  /\ Emit(CallSite(NameTable(BootstrapHandle(op)), Len(methods), site), SiteUse(op, site))

Next ==
  \/ \E tag \in {"Integer", "Float"} : LoadNarrow(tag)
  \/ \E tag \in {"Long", "Double"} : LoadWide(tag)
  \/ \E s \in Strings : UseName(s) \/ UseClass(s) \/ LoadString(s)
  \/ \E tag \in {"Fieldref", "Methodref", "InterfaceMethodref"}, m \in Members :
       UseMember(tag, m)
  \/ \E m \in Members : LoadFunction(m)
  \/ \E op \in Operations, site \in Sites :
       EmitKnownOperation(op, site) \/ EmitNewOperation(op, site)

Spec == Init /\ [][Next]_vars

-----------------------------------------------------------------------------
Kinds == {"Integer", "Float", "Long", "Double", "Utf8", "Class", "String", "Fieldref",
          "Methodref", "InterfaceMethodref", "MethodHandle", "InvokeDynamic"}

PoolTypeOK ==
  /\ cp \in Pool
  /\ methods \in Seq(Nat)
  /\ bsm \in [Operations -> Nat \cup {-1}]
  /\ uses \in Seq([kind : Kinds, args : Seq(Strings), index : Nat])

(* No entry is written outside of the allocated array: long and double     *)
(* entries, the nested additions of a member reference and additions after *)
(* a failed realloc all leave the count within the capacity.               *)
WithinCapacity == Count(cp) <= cp.capacity

(* A text is in the pool at most once, whatever fails in between: the      *)
(* cache knows every Utf8 entry and every index it knows is that entry.    *)
Utf8Unique ==
  \A i, j \in 1..Len(cp.entries) :
    cp.entries[i].tag = "Utf8" /\ cp.entries[i] = cp.entries[j] => i = j

(* What a use asked for is what its index stands for, in a pool with these *)
(* entries and a class with this table of bootstrap methods.               *)
Resolves(u, entries, table) ==
  \/ /\ u.kind \in {"Integer", "Float", "Long", "Double"}
     /\ Holds(entries, u.index, u.kind)
  \/ /\ u.kind = "Utf8"
     /\ IsUtf8(entries, u.index, u.args[1])
  \/ /\ u.kind \in {"Class", "String"}
     /\ IsText(entries, u.index, u.kind, u.args[1])
  \/ /\ u.kind \in {"Fieldref", "Methodref", "InterfaceMethodref"}
     /\ IsMember(entries, u.index, u.kind, u.args[1], u.args[2], u.args[3])
  \/ /\ u.kind = "MethodHandle"
     /\ IsHandle(entries, u.index, u.args[1], u.args[2], u.args[3])
  \/ /\ u.kind = "InvokeDynamic"
     /\ Holds(entries, u.index, "InvokeDynamic")
     /\ IsNameAndType(entries, entries[u.index].refs[2], u.args[2], u.args[3])
     /\ entries[u.index].refs[1] + 1 \in 1..Len(table)
     /\ IsHandle(entries, table[entries[u.index].refs[1] + 1],
                 LRT_BOOTSTRAP, u.args[1], BSM_DESC)

AllocationFailed == cp.spare = -1

Unchecked == {"MethodHandle", "InvokeDynamic"}

(* Constants, names, classes and members: also after a failed realloc in   *)
(* the middle of a nested addition an index is 0 or stands for what was    *)
(* asked for, and it is 0 only after such a failure.                       *)
UsesResolve ==
  \A k \in 1..Len(uses) :
    uses[k].kind \notin Unchecked =>
      (uses[k].index = 0 /\ AllocationFailed) \/ Resolves(uses[k], cp.entries, methods)

(* Functions and call sites, whose parts are added without looking at the  *)
(* indices of each other, stand for what was asked for, through the cached *)
(* bootstrap method too, as long as no realloc has failed.                 *)
SitesResolve ==
  \A k \in 1..Len(uses) :
    uses[k].kind \in Unchecked => AllocationFailed \/ Resolves(uses[k], cp.entries, methods)

(* The compiler stops making progress only when the pool needs more than   *)
(* half of the slots that its 16-bit count could number.                   *)
LoopsWhenHalfFull == cp.looping => 2 * (Count(cp) + 1) >= CountLimit

(* The JVM numbers the entries of the class file as the compiler did: it   *)
(* ends at the written count and finds every entry at its index.           *)
FileReadsBack == ReadsBackAs(Written(cp), cp)
=============================================================================
