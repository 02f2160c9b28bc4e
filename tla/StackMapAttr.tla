---------------------------- MODULE StackMapAttr ----------------------------
(***************************************************************************)
(* stackmap_serialize: the frame list as the bytes of a StackMapTable      *)
(* attribute.  The code makes two passes: the first adds up the size of    *)
(* every frame and allocates that many bytes, the second writes them.  A   *)
(* frame is written relative to the one before it, in the cheapest of      *)
(* seven forms.                                                            *)
(*                                                                         *)
(* The output is a sequence of fields [width, value]: a field stands for   *)
(* its bytes.  The reader (the class-file parser of the JVM) is external.  *)
(***************************************************************************)
EXTENDS StackMap, Integers

CONSTANT FrameLists   \* the frame lists to serialize

(* What StackMapTracker guarantees of a frame list *)
Sorted(fs) == \A i, j \in 1..Len(fs) : i < j => fs[i].offset < fs[j].offset

ASSUME FrameListsAssumption ==
  \A fs \in FrameLists : fs \in Seq(Frame) /\ fs # <<>> /\ Sorted(fs)

(* What the class file can hold: its counters are two bytes wide.  A local *)
(* never holds a new object before its constructor has run: codegen.c sets *)
(* locals with stackmap_set_local_* and vtype_top only.                    *)
LocalType == {t \in VType : /\ t.tag # "uninit" /\ t.offset = 0
                            /\ t.tag # "object" => t.cp = NoClass}

Writable(fs) ==
  /\ Len(fs) < 65536
  /\ \A i \in 1..Len(fs) :
       /\ fs[i].offset < 65536
       /\ Len(fs[i].locals) < 65536 /\ Len(fs[i].stack) < 65536
       /\ fs[i].locals \in Seq(LocalType)

VARIABLES frames,   \* the list being serialized
          next,     \* the frame the current pass is at
          pass,     \* "size", "write" or "done"
          total,    \* total_size
          out       \* the fields written

vars == <<frames, next, pass, total, out>>

-----------------------------------------------------------------------------
(* Choice of the form *)

offset_delta(i) ==
  IF i = 1 THEN frames[1].offset ELSE frames[i].offset - frames[i - 1].offset - 1

frames_locals_equal(i) ==
  IF i = 1 THEN frames[1].locals = <<>> ELSE frames[i].locals = frames[i - 1].locals

(* The second half of a long or double is not an entry of its own. *)
ImplicitTop(s, i) == i > 1 /\ s[i].tag = "top" /\ Wide(s[i - 1])

(* The entries of the slots behind the first from, as the loops find them: *)
(* up to slot k, and of all of them                                        *)
EntriesUpTo(s, from) ==
  LET kept[k \in from..Len(s)] ==
        IF k = from THEN <<>>
        ELSE IF ImplicitTop(s, k) THEN kept[k - 1] ELSE Append(kept[k - 1], s[k])
  IN kept

Entries(s, from) == EntriesUpTo(s, from)[Len(s)]

count_actual_vtypes(s, from) == Len(Entries(s, from))

(* The running totals of a sequence of numbers, and the last of them *)
Sums(w) ==
  LET sum[k \in 0..Len(w)] == IF k = 0 THEN 0 ELSE sum[k - 1] + w[k]
  IN sum

SumOf(w) == Sums(w)[Len(w)]

vtype_size(t) == IF t.tag \in {"object", "uninit"} THEN 3 ELSE 1

TypeSizes(ts) == [k \in 1..Len(ts) |-> vtype_size(ts[k])]

(* Variant: the bytes of every slot. *)
SizeOfSlots(s, from) == SumOf(TypeSizes(SubSeq(s, from + 1, Len(s))))

calc_vtypes_size(s, from) == SumOf(TypeSizes(Entries(s, from)))

(* Variant: tags only. *)
PrefixTagsSame(a, b) == \A k \in 1..Len(a) : a[k].tag = b[k].tag

(* The comparison looks at classes but not at the offset of an             *)
(* uninitialized object.                                                   *)
PrefixSame(a, b) ==
  \A k \in 1..Len(a) : /\ a[k].tag = b[k].tag
                       /\ a[k].tag = "object" => a[k].cp = b[k].cp

Appends(i) ==
  /\ i > 1 /\ frames[i].stack = <<>>
  /\ LET p == frames[i - 1].locals
         c == frames[i].locals
     IN /\ Len(c) > Len(p)
        /\ count_actual_vtypes(c, Len(p)) \in 1..3
        /\ PrefixSame(p, c)

Chops(i) ==
  /\ i > 1 /\ frames[i].stack = <<>>
  /\ LET p == frames[i - 1].locals
         c == frames[i].locals
     IN /\ Len(p) - Len(c) \in 1..3
        /\ count_actual_vtypes(p, Len(c)) \in 1..3
        /\ PrefixSame(c, p)

frame_type(i) ==
  CASE frames_locals_equal(i) /\ frames[i].stack = <<>> ->
         IF offset_delta(i) < 64 THEN offset_delta(i) ELSE 251
    [] frames_locals_equal(i) /\ Len(frames[i].stack) = 1 ->
         IF offset_delta(i) < 64 THEN 64 + offset_delta(i) ELSE 247
    [] ~frames_locals_equal(i) /\ Appends(i) ->
         251 + count_actual_vtypes(frames[i].locals, Len(frames[i - 1].locals))
    [] ~frames_locals_equal(i) /\ Chops(i) ->
         251 - count_actual_vtypes(frames[i - 1].locals, Len(frames[i].locals))
    [] OTHER -> 255

calculate_frame_size(i) ==
  LET f == frames[i]
      t == frame_type(i)
  IN CASE t \in 0..63 -> 1
       [] t \in 64..127 -> 1 + vtype_size(f.stack[1])
       [] t = 247 -> 3 + vtype_size(f.stack[1])
       [] t \in 248..251 -> 3
       [] t \in 252..254 -> 3 + calc_vtypes_size(f.locals, Len(frames[i - 1].locals))
       [] OTHER -> 7 + calc_vtypes_size(f.locals, 0) + calc_vtypes_size(f.stack, 0)

-----------------------------------------------------------------------------
(* Writing *)

U1(n) == <<[width |-> 1, value |-> n]>>
U2(n) == <<[width |-> 2, value |-> n % 65536]>>
write_verification_type(t) == <<[width |-> vtype_size(t), value |-> t]>>
WriteTypes(ts) == [k \in 1..Len(ts) |-> write_verification_type(ts[k])[1]]

WriteFrame(i) ==
  LET f == frames[i]
      t == frame_type(i)
      delta == U2(offset_delta(i))
  IN U1(t) \o
     (CASE t \in 0..63 -> <<>>
        [] t \in 64..127 -> write_verification_type(f.stack[1])
        [] t = 247 -> delta \o write_verification_type(f.stack[1])
        [] t \in 248..251 -> delta
        [] t \in 252..254 ->
             delta \o WriteTypes(Entries(f.locals, Len(frames[i - 1].locals)))
        [] OTHER ->
             delta \o U2(count_actual_vtypes(f.locals, 0))
                   \o WriteTypes(Entries(f.locals, 0))
                   \o U2(count_actual_vtypes(f.stack, 0))
                   \o WriteTypes(Entries(f.stack, 0)))

Init == /\ frames \in FrameLists
        /\ next = 1 /\ pass = "size" /\ total = 2 /\ out = <<>>

SizeFrame ==
  /\ pass = "size" /\ next <= Len(frames)
  /\ total' = total + calculate_frame_size(next)
  /\ next' = next + 1
  /\ UNCHANGED <<frames, pass, out>>

(* malloc(total_size), number_of_entries, and back to the head of the list *)
Allocate ==
  /\ pass = "size" /\ next > Len(frames)
  /\ pass' = "write" /\ next' = 1
  /\ out' = U2(Len(frames))
  /\ UNCHANGED <<frames, total>>

WriteNext ==
  /\ pass = "write" /\ next <= Len(frames)
  /\ out' = out \o WriteFrame(next)
  /\ next' = next + 1
  /\ UNCHANGED <<frames, pass, total>>

Return ==
  /\ pass = "write" /\ next > Len(frames)
  /\ pass' = "done"
  /\ UNCHANGED <<frames, next, total, out>>

Next == SizeFrame \/ Allocate \/ WriteNext \/ Return

Spec == Init /\ [][Next]_vars /\ WF_vars(Next)

-----------------------------------------------------------------------------
(* The reader.  A method without parameters starts with no locals; reading *)
(* a frame needs the one before it.  Locals and stack are entry lists.     *)

Value(fs, k) == fs[k].value
Values(fs, from, n) == [k \in 1..n |-> fs[from + k].value]

ReadFrame(d) ==
  LET t == Value(d.rest, 1)
      short == t \in 0..127
      delta == IF t \in 0..63 THEN t ELSE IF short THEN t - 64 ELSE Value(d.rest, 2)
      at == d.offset + delta + 1
      head == IF short THEN 1 ELSE 2
      Got(locals, stack, used) ==
        [offset |-> at, locals |-> locals, stack |-> stack,
         rest |-> SubSeq(d.rest, used + 1, Len(d.rest))]
      n == Value(d.rest, 3)
      m == Value(d.rest, n + 4)
  IN CASE t \in 0..63 \/ t = 251 -> Got(d.locals, <<>>, head)
       [] t \in 64..127 \/ t = 247 -> Got(d.locals, Values(d.rest, head, 1), head + 1)
       [] t \in 248..250 -> Got(SubSeq(d.locals, 1, Len(d.locals) - (251 - t)), <<>>, 2)
       [] t \in 252..254 -> Got(d.locals \o Values(d.rest, 2, t - 251), <<>>, t - 249)
       [] t = 255 -> Got(Values(d.rest, 3, n), Values(d.rest, n + 4, m), n + m + 4)

Read ==
  LET d[i \in 0..Len(frames)] ==
        IF i = 0 THEN [offset |-> -1, locals |-> <<>>, stack |-> <<>>,
                       rest |-> Tail(out)]
        ELSE ReadFrame(d[i - 1])
  IN d

-----------------------------------------------------------------------------
Widths(fields) == [k \in 1..Len(fields) |-> fields[k].width]

Width == SumOf(Widths(out))

(* The second pass never writes past the bytes the first one allocated,    *)
(* and at the end has written all of them: the two passes choose and       *)
(* measure every frame alike (stackmap.c:773-882).                         *)
BufferFits == /\ pass \in {"write", "done"} => Width <= total
              /\ pass = "done" => Width = total

(* What the JVM reads back is the frame list that was recorded: the same   *)
(* offsets, the same locals, the same stacks, and nothing left over.       *)
ReadsBack ==
  pass = "done" =>
    /\ Value(out, 1) = Len(frames)
    /\ \A i \in 1..Len(frames) :
         /\ Read[i].offset = frames[i].offset
         /\ Read[i].locals = Entries(frames[i].locals, 0)
         /\ Read[i].stack = Entries(frames[i].stack, 0)
    /\ Read[Len(frames)].rest = <<>>

=============================================================================
