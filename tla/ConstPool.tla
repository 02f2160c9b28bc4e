------------------------------- MODULE ConstPool -------------------------------
(***************************************************************************)
(* The constant pool of constpool.c, as operators on a pool record.  An    *)
(* entry is its tag, its own data and the indices it refers to; a pool     *)
(* also holds the index its last operation returned (0 for a failure), so  *)
(* that the nested calls of the code become nested operators.              *)
(***************************************************************************)
EXTENDS Integers, Sequences

CONSTANTS Strings,           \* names, descriptors and texts
          INITIAL_CAPACITY,  \* slots of a new pool
          CountLimit         \* 2^16 in the code: count and capacity are uint16_t

ASSUME PoolAssumption ==
  /\ INITIAL_CAPACITY \in Nat /\ INITIAL_CAPACITY >= 2
  /\ CountLimit \in Nat /\ INITIAL_CAPACITY < CountLimit

Tags == {"Utf8", "Integer", "Float", "Long", "Double", "Class", "String",
         "Fieldref", "Methodref", "InterfaceMethodref", "NameAndType",
         "MethodHandle", "InvokeDynamic", "Gap"}

NoData == "none"

(* The slot behind a long or double, which calloc and memset leave zero.   *)
Gap == [tag |-> "Gap", data |-> NoData, refs |-> <<>>]

EntryType == [tag : Tags, data : Strings \cup {NoData}, refs : Seq(Nat)]

Pool ==
  [entries : Seq(EntryType), capacity : 2..(CountLimit - 1), cache : [Strings -> Nat],
   spare : Nat \cup {-1}, looping : BOOLEAN, room : BOOLEAN, index : Nat]

(* spare counts the calls of realloc before the one that fails; it is -1   *)
(* from that failure on.  room is what ensure_capacity last returned, and  *)
(* looping says that it never returns.                                     *)
NewPool(spare) ==
  [entries |-> <<>>, capacity |-> INITIAL_CAPACITY, cache |-> [s \in Strings |-> 0],
   spare |-> spare, looping |-> FALSE, room |-> TRUE, index |-> 0]

Count(p) == Len(p.entries) + 1

Fits(p, needed) == Count(p) + needed <= p.capacity

DoubledInWords(capacity) == 2 * capacity

DoubledInBytes(capacity) == (2 * capacity) % (CountLimit \div 2)

Doubled(capacity) == (2 * capacity) % CountLimit

(* needed is 1 or 2, so one doubling is enough unless it wraps to zero;    *)
(* then the loop that goes on doubling never leaves zero.                  *)
Ensure(p, needed) ==
  IF p.looping THEN p
  ELSE IF Fits(p, needed) THEN [p EXCEPT !.room = TRUE]
  ELSE IF Doubled(p.capacity) < Count(p) + needed
       THEN [p EXCEPT !.room = FALSE, !.looping = TRUE]
  ELSE IF p.spare = 0 THEN [p EXCEPT !.room = FALSE, !.spare = -1]
  ELSE [p EXCEPT !.room = TRUE, !.capacity = Doubled(@),
                 !.spare = IF @ < 0 THEN @ ELSE @ - 1]

Failed(p) == [p EXCEPT !.index = 0]

Store(p, slots) ==
  IF p.room
  THEN [p EXCEPT !.entries = @ \o slots, !.index = Len(p.entries) + 1]
  ELSE Failed(p)

Entry(tag, data, refs) == [tag |-> tag, data |-> data, refs |-> refs]

(* cp_add_integer and cp_add_float, cp_add_long and cp_add_double.         *)
AddNarrow(p, tag) == Store(Ensure(p, 1), <<Entry(tag, NoData, <<>>)>>)

AddWideInOneSlot(p, tag) ==
  Store(Ensure(p, 1), <<Entry(tag, NoData, <<>>), Gap>>)

AddWide(p, tag) == Store(Ensure(p, 2), <<Entry(tag, NoData, <<>>), Gap>>)

RememberNothing(p, str) == p

Remember(p, str) ==
  IF p.index = 0 THEN p ELSE [p EXCEPT !.cache[str] = p.index]

AddUtf8(p, str) ==
  IF p.cache[str] # 0
  THEN [p EXCEPT !.index = p.cache[str]]
  ELSE Remember(Store(Ensure(p, 1), <<Entry("Utf8", str, <<>>)>>), str)

LinkAnyway(p, tag, refs) == Store(Ensure(p, 1), <<Entry(tag, NoData, refs)>>)

(* An entry that is only added when everything it refers to was.           *)
Link(p, tag, refs) ==
  IF \E k \in DOMAIN refs : refs[k] = 0
  THEN Failed(p)
  ELSE Store(Ensure(p, 1), <<Entry(tag, NoData, refs)>>)

LinkOne(tag, q) == Link(q, tag, <<q.index>>)

LinkSwapped(tag, q, r) == Link(r, tag, <<r.index, q.index>>)

LinkBoth(tag, q, r) == Link(r, tag, <<q.index, r.index>>)

AddClass(p, name) == LinkOne("Class", AddUtf8(p, name))

AddString(p, str) == LinkOne("String", AddUtf8(p, str))

DescribedBy(q, descriptor) == LinkBoth("NameAndType", q, AddUtf8(q, descriptor))

AddNameAndType(p, name, descriptor) == DescribedBy(AddUtf8(p, name), descriptor)

MemberOf(q, tag, name, descriptor) ==
  LinkBoth(tag, q, AddNameAndType(q, name, descriptor))

(* cp_add_fieldref, cp_add_methodref and cp_add_interface_methodref.       *)
AddMember(p, tag, class, name, descriptor) ==
  MemberOf(AddClass(p, class), tag, name, descriptor)

(* Unlike the others these two do not look at the indices they are given.  *)
AddMethodHandle(p, reference) ==
  Store(Ensure(p, 1), <<Entry("MethodHandle", NoData, <<reference>>)>>)

AddInvokeDynamic(p, bootstrap, nat) ==
  Store(Ensure(p, 1), <<Entry("InvokeDynamic", NoData, <<bootstrap, nat>>)>>)

(***************************************************************************)
(* What an index stands for, read in a sequence of entries.                *)
(***************************************************************************)
Holds(entries, i, tag) == i \in 1..Len(entries) /\ entries[i].tag = tag

IsUtf8(entries, i, str) == Holds(entries, i, "Utf8") /\ entries[i].data = str

IsText(entries, i, tag, str) ==
  Holds(entries, i, tag) /\ IsUtf8(entries, entries[i].refs[1], str)

IsNameAndType(entries, i, name, descriptor) ==
  /\ Holds(entries, i, "NameAndType")
  /\ IsUtf8(entries, entries[i].refs[1], name)
  /\ IsUtf8(entries, entries[i].refs[2], descriptor)

IsMember(entries, i, tag, class, name, descriptor) ==
  /\ Holds(entries, i, tag)
  /\ IsText(entries, entries[i].refs[1], "Class", class)
  /\ IsNameAndType(entries, entries[i].refs[2], name, descriptor)

IsHandle(entries, i, class, name, descriptor) ==
  /\ Holds(entries, i, "MethodHandle")
  /\ IsMember(entries, entries[i].refs[1], "Methodref", class, name, descriptor)

(***************************************************************************)
(* The pool in the class file: the writer visits an index, and goes on two *)
(* behind a long or double; the JVM numbers what it reads the same way.    *)
(***************************************************************************)
WrittenOneByOne(tag) == 1

WrittenSlots(tag) == IF tag \in {"Long", "Double"} THEN 2 ELSE 1

Written(p) ==
  LET From[i \in 1..(Len(p.entries) + 2)] ==
        IF i > Len(p.entries) THEN <<>>
        ELSE <<p.entries[i]>> \o From[i + WrittenSlots(p.entries[i].tag)]
  IN From[1]

ReadSlots(tag) == IF tag \in {"Long", "Double"} THEN 2 ELSE 1

ReadIndex(file) ==
  LET At[k \in 1..(Len(file) + 1)] ==
        IF k = 1 THEN 1 ELSE At[k - 1] + ReadSlots(file[k - 1].tag)
  IN At

ReadsBackAs(file, p) ==
  /\ ReadIndex(file)[Len(file) + 1] = Count(p)
  /\ \A i \in 1..Len(p.entries) :
       p.entries[i].tag # "Gap" =>
         \E k \in 1..Len(file) : ReadIndex(file)[k] = i /\ file[k] = p.entries[i]
=============================================================================
