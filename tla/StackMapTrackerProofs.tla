------------------------ MODULE StackMapTrackerProofs ------------------------
(***************************************************************************)
(* Proofs about StackMapTracker: the type invariant, the order of the      *)
(* frame list and the pairing of wide entries, for every set of classes,   *)
(* types, offsets and handles.                                             *)
(***************************************************************************)
EXTENDS StackMapPaths, SequenceTheorems, WellFoundedInduction, TLAPS

(* A function on 1..n is a sequence of length n. *)
LEMMA FunctionIsSeq ==
  ASSUME NEW S, NEW n \in Nat, NEW f \in [1..n -> S]
  PROVE  f \in Seq(S) /\ Len(f) = n
BY SeqDef

(* The filler of stackmap_set_local is a verification type. *)
LEMMA TopType == Top \in VType /\ NoClass \in Classes \cup {NoClass}
BY DEF Top, VT, VType, Tags

-----------------------------------------------------------------------------
(* Types of the operators *)

(* u is a tracker with the frame list of t *)
KeepsFrames(t, u) ==
  /\ u \in Tracker
  /\ u.frames = t.frames
  /\ u.num_entries = t.num_entries

(* Each function but stackmap_record_frame keeps the tracker in its type *)
(* and leaves the frame list alone; this one is stackmap_set_local.      *)
LEMMA SetLocalType ==
  ASSUME NEW t \in Tracker, NEW slot \in Nat, NEW type \in VType
  PROVE  KeepsFrames(t, SetLocal(t, slot, type))
<1> DEFINE n == Len(t.locals)
           count == Larger(n, IF Wide(type) THEN slot + 2 ELSE slot + 1)
           f == [i \in 1..count |->
                   IF i = slot + 1 THEN type
                   ELSE IF i = slot + 2 /\ Wide(type) THEN Top
                   ELSE IF i <= n THEN t.locals[i] ELSE Top]
<1>1. t.locals \in Seq(VType) /\ n \in Nat
  BY DEF Tracker
<1>2. count \in Nat
  BY <1>1 DEF Larger
<1>3. \A i \in 1..count : i <= n => t.locals[i] \in VType
  BY <1>1
<1>4. f \in [1..count -> VType]
  BY <1>3, TopType
<1>5. f \in Seq(VType)
  BY <1>2, <1>4, FunctionIsSeq
<1>6. SetLocal(t, slot, type) = [t EXCEPT !.locals = f]
  BY DEF SetLocal
<1> QED
  BY <1>5, <1>6 DEF Tracker, KeepsFrames

(* A prefix of a sequence, cell by cell. *)
LEMMA SubSeqType ==
  ASSUME NEW S, NEW s \in Seq(S), NEW k \in Nat, k <= Len(s)
  PROVE  /\ SubSeq(s, 1, k) \in Seq(S)
         /\ Len(SubSeq(s, 1, k)) = k
         /\ \A i \in 1..k : SubSeq(s, 1, k)[i] = s[i]
OBVIOUS

(* stackmap_set_locals_count. *)
LEMMA SetLocalsCountType ==
  ASSUME NEW t \in Tracker, NEW count \in Nat
  PROVE  KeepsFrames(t, SetLocalsCount(t, count))
<1>1. t.locals \in Seq(VType)
  BY DEF Tracker
<1>2. count < Len(t.locals) => SubSeq(t.locals, 1, count) \in Seq(VType)
  BY <1>1, SubSeqType
<1> QED BY <1>1, <1>2 DEF SetLocalsCount, Tracker, KeepsFrames

(* stackmap_push. *)
LEMMA PushType ==
  ASSUME NEW t \in Tracker, NEW type \in VType
  PROVE  KeepsFrames(t, Push(t, type))
<1>1. t.stack \in Seq(VType)
  BY DEF Tracker
<1>2. (IF Wide(type) THEN <<type, Top>> ELSE <<type>>) \in Seq(VType)
  BY TopType
<1>3. t.stack \o (IF Wide(type) THEN <<type, Top>> ELSE <<type>>) \in Seq(VType)
  BY <1>1, <1>2, ConcatProperties
<1> QED BY <1>3 DEF Push, Tracker, KeepsFrames

(* stackmap_pop. *)
LEMMA PopType ==
  ASSUME NEW t \in Tracker, NEW count \in Nat
  PROVE  KeepsFrames(t, Pop(t, count))
<1> DEFINE s == IF count > Len(t.stack) THEN <<>>
                ELSE SubSeq(t.stack, 1, Len(t.stack) - count)
<1>1. t.stack \in Seq(VType)
  BY DEF Tracker
<1>2. s \in Seq(VType)
  BY <1>1, SubSeqType
<1>3. Pop(t, count) = [t EXCEPT !.stack = s]
  BY DEF Pop
<1> QED BY <1>2, <1>3 DEF Tracker, KeepsFrames

(* stackmap_clear_stack. *)
LEMMA ClearStackType ==
  ASSUME NEW t \in Tracker
  PROVE  KeepsFrames(t, ClearStack(t))
<1>1. <<>> \in Seq(VType)
  OBVIOUS
<1> QED BY <1>1 DEF ClearStack, Tracker, KeepsFrames

(* stackmap_init_object. *)
LEMMA InitObjectType ==
  ASSUME NEW t \in Tracker, NEW off \in Nat, NEW class \in Classes
  PROVE  KeepsFrames(t, InitObject(t, off, class))
<1>1. Object(class) \in VType
  BY DEF Object, VType, Tags
<1> DEFINE I(s) == [i \in 1..Len(s) |->
                      IF s[i].tag = "uninit" /\ s[i].offset = off
                      THEN Object(class) ELSE s[i]]
<1>2. ASSUME NEW s \in Seq(VType) PROVE I(s) \in Seq(VType)
  <2>1. I(s) \in [1..Len(s) -> VType]
    BY <1>1
  <2> QED BY <2>1, FunctionIsSeq
<1>3. I(t.locals) \in Seq(VType) /\ I(t.stack) \in Seq(VType)
  BY <1>2 DEF Tracker
<1> QED BY <1>3 DEF InitObject, Tracker, KeepsFrames

(* stackmap_restore_state. *)
LEMMA RestoreStateType ==
  ASSUME NEW t \in Tracker, NEW st \in SavedState
  PROVE  KeepsFrames(t, RestoreState(t, st))
<1> DEFINE n == Len(st.locals)
           m == Larger(n, Len(t.locals))
           f == [i \in 1..m |-> IF i <= n THEN st.locals[i] ELSE t.locals[i]]
<1>1. st.locals \in Seq(VType) /\ st.stack \in Seq(VType) /\ t.locals \in Seq(VType)
  BY DEF SavedState, Tracker
<1>2. m \in Nat /\ n \in Nat
  BY <1>1 DEF Larger
<1>3. f \in [1..m -> VType]
  BY <1>1, <1>2 DEF Larger
<1>4. f \in Seq(VType)
  BY <1>2, <1>3, FunctionIsSeq
<1>5. RestoreState(t, st) = [t EXCEPT !.locals = f, !.stack = st.stack]
  BY DEF RestoreState
<1> QED BY <1>1, <1>4, <1>5 DEF Tracker, KeepsFrames

(* stackmap_restore_locals_only. *)
LEMMA RestoreLocalsOnlyType ==
  ASSUME NEW t \in Tracker, NEW st \in SavedState
  PROVE  KeepsFrames(t, RestoreLocalsOnly(t, st))
BY DEF RestoreLocalsOnly, Tracker, SavedState, KeepsFrames

-----------------------------------------------------------------------------
(* The frame list *)

Sorted(fs) == \A i, j \in 1..Len(fs) : i < j => fs[i].offset < fs[j].offset

(* Offsets of recorded frames are naturals. *)
LEMMA FrameOffset ==
  ASSUME NEW fs \in Seq(Frame), NEW i \in 1..Len(fs)
  PROVE  fs[i] \in Frame /\ fs[i].offset \in Nat
<1>1. fs[i] \in Frame
  BY ElementOfSeq
<1> QED BY <1>1 DEF Frame

(* The least element of a set of naturals. *)
LEMMA LeastNatural ==
  ASSUME NEW S, S \subseteq Nat, S # {}
  PROVE  \E p \in S : \A q \in S : p <= q
<1>1. PICK p \in S : \A q \in S : ~(<<q, p>> \in OpToRel(<, Nat))
  BY NatLessThanWellFounded, WFMin
<1>2. ASSUME NEW q \in S PROVE p <= q
  <2>1. p \in Nat /\ q \in Nat /\ <<q, p>> \in Nat \X Nat
    OBVIOUS
  <2>2. q < p => <<q, p>> \in OpToRel(<, Nat)
    BY <2>1 DEF OpToRel
  <2>3. ~(q < p)
    BY <1>1, <2>2
  <2> QED BY <2>1, <2>3
<1> QED BY <1>2

(* The walk of the list stops behind exactly the frames with a smaller     *)
(* offset.                                                                 *)
LEMMA InsertPositionSplits ==
  ASSUME NEW fs \in Seq(Frame), NEW off \in Nat, Sorted(fs),
         \A i \in 1..Len(fs) : fs[i].offset # off
  PROVE  LET p == InsertPosition(fs, off) IN
         /\ p \in 0..Len(fs)
         /\ \A i \in 1..p : fs[i].offset < off
         /\ \A i \in p + 1..Len(fs) : off < fs[i].offset
<1>0. \A i \in 1..Len(fs) : fs[i].offset \in Nat
  BY FrameOffset
<1>1. CASE fs = <<>> \/ fs[1].offset > off
  <2>1. InsertPosition(fs, off) = 0
    BY <1>1 DEF InsertPosition
  <2>2. \A i \in 1..Len(fs) : off < fs[i].offset
    <3> SUFFICES ASSUME NEW i \in 1..Len(fs) PROVE off < fs[i].offset
      OBVIOUS
    <3>1. fs # <<>> /\ 1 \in 1..Len(fs) /\ fs[1].offset > off
      BY <1>1
    <3>2. i = 1 \/ fs[1].offset < fs[i].offset
      BY <3>1 DEF Sorted
    <3> QED BY <3>1, <3>2, <1>0
  <2> QED BY <2>1, <2>2
<1>2. CASE ~(fs = <<>> \/ fs[1].offset > off)
  <2> DEFINE stops == {p \in 1..Len(fs) :
                         p = Len(fs) \/ fs[p + 1].offset >= off}
  <2>1. Len(fs) \in Nat /\ 1 \in 1..Len(fs) /\ Len(fs) \in stops
    BY <1>2
  <2>2. \E p \in stops : \A q \in stops : p <= q
    <3>1. stops \subseteq Nat /\ stops # {}
      BY <2>1
    <3> HIDE DEF stops
    <3> QED BY <3>1, LeastNatural
  <2> DEFINE pos == CHOOSE p \in stops : \A q \in stops : p <= q
  <2>3. pos \in stops /\ \A q \in stops : pos <= q
    <3> HIDE DEF stops
    <3> QED BY <2>2
  <2>4. InsertPosition(fs, off) = pos
    BY <1>2 DEF InsertPosition
  <2> HIDE DEF pos
  <2>5. pos \in 1..Len(fs) /\ (pos = Len(fs) \/ fs[pos + 1].offset >= off)
    BY <2>3
  <2>6. \A i \in 1..pos : fs[i].offset < off
    <3> SUFFICES ASSUME NEW i \in 1..pos PROVE fs[i].offset < off
      OBVIOUS
    <3>1. CASE i = 1
      BY <3>1, <1>0, <1>2, <2>1
    <3>2. CASE i # 1
      <4>1. i - 1 \in 1..Len(fs) /\ i \in 1..Len(fs) /\ i - 1 < pos
        BY <3>2, <2>5, <2>1
      <4>2. i - 1 \notin stops
        <5> HIDE DEF stops
        <5> QED BY <4>1, <2>3, <2>5
      <4>3. ~(fs[i].offset >= off)
        BY <4>1, <4>2
      <4> QED BY <4>1, <4>3, <1>0
    <3> QED BY <3>1, <3>2
  <2>7. \A i \in pos + 1..Len(fs) : off < fs[i].offset
    <3> SUFFICES ASSUME NEW i \in pos + 1..Len(fs) PROVE off < fs[i].offset
      OBVIOUS
    <3>1. pos + 1 \in 1..Len(fs) /\ i \in 1..Len(fs) /\ pos # Len(fs)
      BY <2>5, <2>1
    <3>2. fs[pos + 1].offset > off
      BY <3>1, <2>5, <1>0
    <3>3. i = pos + 1 \/ fs[pos + 1].offset < fs[i].offset
      BY <3>1, <2>5 DEF Sorted
    <3> QED BY <3>1, <3>2, <3>3, <1>0
  <2> QED BY <2>4, <2>5, <2>6, <2>7, <2>1
<1> QED BY <1>1, <1>2

(* Inserting a frame at a new offset keeps the list sorted. *)
LEMMA InsertFrameSorted ==
  ASSUME NEW fs \in Seq(Frame), NEW f \in Frame, Sorted(fs),
         \A i \in 1..Len(fs) : fs[i].offset # f.offset
  PROVE  /\ InsertFrame(fs, f) \in Seq(Frame)
         /\ Len(InsertFrame(fs, f)) = Len(fs) + 1
         /\ Sorted(InsertFrame(fs, f))
         /\ \A i \in 1..Len(fs) + 1 :
              InsertFrame(fs, f)[i] = f \/ \E j \in 1..Len(fs) : InsertFrame(fs, f)[i] = fs[j]
         /\ \A j \in 1..Len(fs) : \E i \in 1..Len(fs) + 1 : InsertFrame(fs, f)[i] = fs[j]
         /\ \E i \in 1..Len(fs) + 1 : InsertFrame(fs, f)[i] = f
<1> DEFINE p == InsertPosition(fs, f.offset)
           n == Len(fs)
           g == [i \in 1..n + 1 |->
                   IF i <= p THEN fs[i] ELSE IF i = p + 1 THEN f ELSE fs[i - 1]]
<1>1. f.offset \in Nat /\ n \in Nat /\ \A i \in 1..n : fs[i] \in Frame /\ fs[i].offset \in Nat
  <2>1. f.offset \in Nat
    BY DEF Frame
  <2>2. n \in Nat
    OBVIOUS
  <2> QED BY <2>1, <2>2, FrameOffset
<1>2. /\ p \in 0..n
      /\ \A i \in 1..p : fs[i].offset < f.offset
      /\ \A i \in p + 1..n : f.offset < fs[i].offset
  BY <1>1, InsertPositionSplits
<1> HIDE DEF p
<1>3. g \in [1..n + 1 -> Frame]
  BY <1>1, <1>2
<1>4. g \in Seq(Frame) /\ Len(g) = n + 1
  BY <1>1, <1>3, FunctionIsSeq
<1>5. InsertFrame(fs, f) = g
  BY DEF InsertFrame, p
<1>6. \A i \in 1..n + 1 :
        \/ (i <= p /\ i \in 1..n /\ g[i] = fs[i])
        \/ (i = p + 1 /\ g[i] = f)
        \/ (i > p + 1 /\ i - 1 \in p + 1..n /\ i - 1 \in 1..n /\ g[i] = fs[i - 1])
  BY <1>1, <1>2
<1>7. Sorted(g)
  <2> SUFFICES ASSUME NEW i \in 1..n + 1, NEW j \in 1..n + 1, i < j
               PROVE  g[i].offset < g[j].offset
    BY <1>4 DEF Sorted
  <2>1. CASE i <= p /\ j <= p
    <3>1. i \in 1..n /\ j \in 1..n /\ g[i] = fs[i] /\ g[j] = fs[j]
      BY <2>1, <1>1, <1>2
    <3> QED BY <3>1 DEF Sorted
  <2>2. CASE i <= p /\ j = p + 1
    BY <2>2, <1>2, <1>6
  <2>3. CASE i <= p /\ j > p + 1
    <3>1. i \in 1..n /\ j - 1 \in 1..n /\ i < j - 1 /\ g[i] = fs[i] /\ g[j] = fs[j - 1]
      BY <2>3, <1>1, <1>2
    <3> QED BY <3>1 DEF Sorted
  <2>4. CASE i = p + 1
    <3>1. j - 1 \in p + 1..n /\ g[i] = f /\ g[j] = fs[j - 1]
      BY <2>4, <1>1, <1>2
    <3>2. f.offset < fs[j - 1].offset
      BY <3>1, <1>2
    <3> HIDE DEF g
    <3> QED BY <3>1, <3>2
  <2>5. CASE i > p + 1
    <3>1. i - 1 \in 1..n /\ j - 1 \in 1..n /\ i - 1 < j - 1 /\ g[i] = fs[i - 1] /\ g[j] = fs[j - 1]
      BY <2>5, <1>1, <1>2
    <3> QED BY <3>1 DEF Sorted
  <2> QED BY <2>1, <2>2, <2>3, <2>4, <2>5, <1>1, <1>2
<1>8. \A j \in 1..n : \E i \in 1..n + 1 : g[i] = fs[j]
  <2> SUFFICES ASSUME NEW j \in 1..n PROVE \E i \in 1..n + 1 : g[i] = fs[j]
    OBVIOUS
  <2>1. CASE j <= p
    BY <2>1, <1>1, <1>2
  <2>2. CASE j > p
    <3>1. j + 1 \in 1..n + 1 /\ g[j + 1] = fs[j]
      BY <2>2, <1>1, <1>2
    <3> QED BY <3>1
  <2> QED BY <2>1, <2>2, <1>1, <1>2
<1>9. \A i \in 1..n + 1 : g[i] = f \/ \E j \in 1..n : g[i] = fs[j]
  BY <1>6
<1>10. \E i \in 1..n + 1 : g[i] = f
  <2>1. p + 1 \in 1..n + 1 /\ g[p + 1] = f
    BY <1>1, <1>2
  <2> QED BY <2>1
<1> QED BY <1>4, <1>5, <1>7, <1>8, <1>9, <1>10

(* A tracker with another frame list and count is a tracker. *)
LEMMA WithFrames ==
  ASSUME NEW t \in Tracker, NEW gs \in Seq(Frame)
  PROVE  LET u == [t EXCEPT !.frames = gs]
         IN /\ u \in Tracker /\ u.frames = gs /\ u.num_entries = t.num_entries
            /\ u.locals = t.locals /\ u.stack = t.stack
BY DEF Tracker

(* What a call at off makes of a frame *)
Recorded(t, off, f, g) == g = IF f.offset = off THEN JoinFrame(t, f) ELSE f

(* What stackmap_record_frame leaves behind: the old frames, one of them   *)
(* possibly joined with the current state, or one new frame.               *)
LEMMA RecordFrameFacts ==
  ASSUME NEW t \in Tracker, NEW off \in Nat,
         Sorted(t.frames), t.num_entries = Len(t.frames)
  PROVE  LET u == RecordFrame(t, off)
             new == [offset |-> off, locals |-> t.locals, stack |-> t.stack]
         IN /\ u \in Tracker
            /\ u.locals = t.locals /\ u.stack = t.stack
            /\ Sorted(u.frames)
            /\ u.num_entries = Len(u.frames)
            /\ \A i \in 1..Len(u.frames) :
                 \/ u.frames[i] = new /\ ~HasFrame(t, off)
                 \/ \E j \in 1..Len(t.frames) : Recorded(t, off, t.frames[j], u.frames[i])
            /\ \A j \in 1..Len(t.frames) : \E i \in 1..Len(u.frames) :
                 Recorded(t, off, t.frames[j], u.frames[i])
            /\ HasFrame(u, off)
<1> DEFINE fs == t.frames
           new == [offset |-> off, locals |-> t.locals, stack |-> t.stack]
           u == RecordFrame(t, off)
<1>1. /\ fs \in Seq(Frame) /\ t.locals \in Seq(VType) /\ t.stack \in Seq(VType)
      /\ t.num_entries \in Nat /\ new \in Frame /\ new.offset = off
  BY DEF Tracker, Frame
<1>2. CASE HasFrame(t, off)
  <2> DEFINE Found(i) == /\ fs[i].offset = off
                         /\ \A j \in 1..i - 1 : fs[j].offset # off
             k == CHOOSE i \in 1..Len(fs) : Found(i)
             S == {i \in 1..Len(fs) : fs[i].offset = off}
  <2>1. \E i \in 1..Len(fs) : Found(i)
    <3>1. S \subseteq Nat /\ S # {}
      BY <1>2 DEF HasFrame
    <3>2. PICK i \in S : \A q \in S : i <= q
      <4> HIDE DEF S
      <4> QED BY <3>1, LeastNatural
    <3>3. \A j \in 1..i - 1 : j \notin S
      <4> HIDE DEF S
      <4> QED BY <3>1, <3>2
    <3>4. \A j \in 1..i - 1 : j \in 1..Len(fs)
      BY <1>1
    <3> QED BY <3>3, <3>4
  <2>2. k \in 1..Len(fs) /\ fs[k].offset = off
    BY <2>1
  <2>3. RecordFrame(t, off) = [t EXCEPT !.frames = [fs EXCEPT ![k] = JoinFrame(t, fs[k])]]
    BY <1>2 DEF RecordFrame
  <2> HIDE DEF k
  <2> DEFINE f == fs[k]
             g == JoinFrame(t, f)
             gs == [fs EXCEPT ![k] = g]
  <2>4. f \in Frame
    BY <2>2, <1>1, ElementOfSeq
  <2>5. g \in Frame /\ g.offset = f.offset
    BY <2>4, <1>1 DEF JoinFrame, Frame
  <2>6. /\ gs \in Seq(Frame) /\ Len(gs) = Len(fs)
        /\ \A j \in 1..Len(fs) : gs[j] = IF j = k THEN g ELSE fs[j]
    <3> HIDE DEF g
    <3> QED BY <2>2, <2>5, <1>1, ExceptSeq
  <2>7. u.frames = gs /\ u.locals = t.locals /\ u.stack = t.stack
        /\ u.num_entries = t.num_entries /\ u \in Tracker
    <3> HIDE DEF gs
    <3> QED BY <2>3, <2>6, WithFrames, SMTT(30)
  <2>8. Sorted(gs)
    <3> SUFFICES ASSUME NEW i \in 1..Len(fs), NEW j \in 1..Len(fs), i < j
                 PROVE  gs[i].offset < gs[j].offset
      BY <2>6 DEF Sorted
    <3>1. gs[i].offset = fs[i].offset /\ gs[j].offset = fs[j].offset
      <4> HIDE DEF g, gs
      <4> QED BY <2>5, <2>6
    <3> QED BY <3>1 DEF Sorted
  <2> HIDE DEF gs, g, u
  <2>9. ASSUME NEW j \in 1..Len(fs)
        PROVE  Recorded(t, off, fs[j], gs[j])
    <3>1. j # k => fs[j].offset # off
      <4>1. j # k => fs[j].offset < fs[k].offset \/ fs[k].offset < fs[j].offset
        BY <2>2 DEF Sorted
      <4> QED BY <4>1, <2>2
    <3> QED BY <3>1, <2>2, <2>6 DEF g, Recorded
  <2>10. HasFrame(u, off)
    <3>1. k \in 1..Len(gs) /\ gs[k].offset = off
      BY <2>2, <2>5, <2>6
    <3> QED BY <3>1, <2>7 DEF HasFrame
  <2> QED BY <1>2, <2>6, <2>7, <2>8, <2>9, <2>10 DEF u
<1>3. CASE ~HasFrame(t, off)
  <2> DEFINE gs == InsertFrame(fs, new)
  <2>1. \A i \in 1..Len(fs) : fs[i].offset # off
    BY <1>3 DEF HasFrame
  <2>2. u = [locals |-> t.locals, stack |-> t.stack, frames |-> gs,
             num_entries |-> t.num_entries + 1]
    BY <1>3 DEF RecordFrame
  <2> HIDE DEF new
  <2>3. /\ gs \in Seq(Frame) /\ Len(gs) = Len(fs) + 1 /\ Sorted(gs)
        /\ \A i \in 1..Len(fs) + 1 : gs[i] = new \/ \E j \in 1..Len(fs) : gs[i] = fs[j]
        /\ \A j \in 1..Len(fs) : \E i \in 1..Len(fs) + 1 : gs[i] = fs[j]
        /\ \E i \in 1..Len(fs) + 1 : gs[i] = new
    BY <1>1, <2>1, InsertFrameSorted
  <2> HIDE DEF gs
  <2>4. /\ u.frames = gs /\ u.num_entries = Len(gs) /\ u \in Tracker
        /\ u.locals = t.locals /\ u.stack = t.stack
    <3> HIDE DEF u
    <3>1. Len(gs) \in Nat /\ Len(gs) = t.num_entries + 1
      BY <2>3
    <3> QED BY <1>1, <2>2, <2>3, <3>1 DEF Tracker
  <2>5. \A j \in 1..Len(fs) : Recorded(t, off, fs[j], fs[j])
    BY <2>1 DEF Recorded
  <2>6. HasFrame(u, off)
    BY <1>1, <2>3, <2>4 DEF HasFrame
  <2>7. Len(u.frames) = Len(fs) + 1 /\ \A i \in 1..Len(fs) + 1 : u.frames[i] = gs[i]
    BY <2>3, <2>4
  <2> HIDE DEF u
  <2>8. \A i \in 1..Len(u.frames) :
          u.frames[i] = new \/ \E j \in 1..Len(fs) : Recorded(t, off, fs[j], u.frames[i])
    BY <2>3, <2>5, <2>7
  <2>9. \A j \in 1..Len(fs) : \E i \in 1..Len(u.frames) : Recorded(t, off, fs[j], u.frames[i])
    BY <2>3, <2>5, <2>7
  <2>10. Sorted(u.frames) /\ u.num_entries = Len(u.frames)
    BY <2>3, <2>4
  <2> QED BY <1>3, <2>4, <2>6, <2>8, <2>9, <2>10 DEF new, u
<1> QED BY <1>2, <1>3

-----------------------------------------------------------------------------
(* The theorems *)

(* TypeOK alone is not inductive: that a new frame lands inside the list   *)
(* needs the order, and the count follows the list.                        *)
IInv == TypeOK /\ FramesSorted /\ EntriesCounted

(* Whatever leaves the frame list alone keeps the invariant. *)
LEMMA KeepingFramesKeepsIInv ==
  ASSUME IInv, KeepsFrames(smt, smt'), UNCHANGED saved
  PROVE  IInv'
BY DEF IInv, TypeOK, FramesSorted, EntriesCounted, KeepsFrames

(* The empty tracker satisfies the invariant. *)
LEMMA InitEstablishesIInv == Init => IInv
<1> SUFFICES ASSUME Init PROVE IInv
  OBVIOUS
<1>1. smt \in Tracker /\ smt.frames = <<>> /\ smt.num_entries = 0
  BY DEF Init, NewTracker, Tracker
<1>2. DOMAIN saved = {}
  BY DEF Init
<1> QED BY <1>1, <1>2 DEF IInv, TypeOK, FramesSorted, EntriesCounted

(* Every call keeps the invariant. *)
LEMMA NextPreservesIInv == IInv /\ [Next]_vars => IInv'
<1> SUFFICES ASSUME IInv, [Next]_vars PROVE IInv'
  OBVIOUS
<1> USE TrackerAssumption
<1>0. /\ smt \in Tracker /\ DOMAIN saved \subseteq Handles
      /\ \A h \in DOMAIN saved : saved[h] \in SavedState
      /\ 0..MaxLocals \subseteq Nat /\ 1..2 * MaxStack + 1 \subseteq Nat
  BY DEF IInv, TypeOK
<1>1. ASSUME NEW slot \in 0..MaxLocals, NEW type \in LocalTypes,
             stackmap_set_local(slot, type)
      PROVE  IInv'
  BY <1>0, <1>1, SetLocalType, KeepingFramesKeepsIInv DEF stackmap_set_local
<1>2. ASSUME NEW count \in 0..MaxLocals, stackmap_set_locals_count(count)
      PROVE  IInv'
  BY <1>0, <1>2, SetLocalsCountType, KeepingFramesKeepsIInv DEF stackmap_set_locals_count
<1>3. ASSUME NEW type \in StackTypes, stackmap_push(type)
      PROVE  IInv'
  BY <1>0, <1>3, PushType, KeepingFramesKeepsIInv DEF stackmap_push
<1>4. ASSUME NEW count \in 1..2 * MaxStack + 1, stackmap_pop(count)
      PROVE  IInv'
  BY <1>0, <1>4, PopType, KeepingFramesKeepsIInv DEF stackmap_pop
<1>5. ASSUME stackmap_clear_stack
      PROVE  IInv'
  BY <1>0, <1>5, ClearStackType, KeepingFramesKeepsIInv DEF stackmap_clear_stack
<1>6. ASSUME NEW off \in Offsets, NEW class \in Classes, stackmap_init_object(off, class)
      PROVE  IInv'
  BY <1>0, <1>6, InitObjectType, KeepingFramesKeepsIInv DEF stackmap_init_object
<1>7. ASSUME NEW off \in Offsets, stackmap_record_frame(off)
      PROVE  IInv'
  <2>1. Sorted(smt.frames) /\ smt.num_entries = Len(smt.frames) /\ off \in Nat
    BY DEF IInv, FramesSorted, EntriesCounted, Sorted
  <2>2. LET u == RecordFrame(smt, off)
        IN u \in Tracker /\ Sorted(u.frames) /\ u.num_entries = Len(u.frames)
    BY <1>0, <2>1, RecordFrameFacts
  <2> QED BY <1>0, <1>7, <2>2
          DEF stackmap_record_frame, IInv, TypeOK, FramesSorted, EntriesCounted, Sorted
<1>8. ASSUME NEW h \in Handles, stackmap_save_state(h)
      PROVE  IInv'
  <2>1. SaveState(smt) \in SavedState
    BY <1>0 DEF SaveState, SavedState, Tracker
  <2>2. smt' = smt /\ DOMAIN saved' \subseteq Handles
        /\ \A g \in DOMAIN saved' : saved'[g] \in SavedState
    BY <1>0, <1>8, <2>1 DEF stackmap_save_state
  <2> QED BY <2>2 DEF IInv, TypeOK, FramesSorted, EntriesCounted
<1>9. ASSUME NEW h \in Handles, stackmap_restore_state(h)
      PROVE  IInv'
  BY <1>0, <1>9, RestoreStateType, KeepingFramesKeepsIInv DEF stackmap_restore_state
<1>10. ASSUME NEW h \in Handles, stackmap_restore_locals_only(h)
       PROVE  IInv'
  BY <1>0, <1>10, RestoreLocalsOnlyType, KeepingFramesKeepsIInv
     DEF stackmap_restore_locals_only
<1>11. ASSUME NEW h \in Handles, stackmap_state_free(h)
       PROVE  IInv'
  BY <1>0, <1>11 DEF stackmap_state_free, IInv, TypeOK, FramesSorted, EntriesCounted
<1>12. CASE UNCHANGED vars
  BY <1>12 DEF vars, IInv, TypeOK, FramesSorted, EntriesCounted
<1> QED
  BY <1>1, <1>2, <1>3, <1>4, <1>5, <1>6, <1>7, <1>8, <1>9, <1>10, <1>11, <1>12 DEF Next, UpdateState

(* The invariant holds in every reachable state. *)
LEMMA SpecImpliesIInv == Spec => []IInv
BY InitEstablishesIInv, NextPreservesIInv, PTL DEF Spec

(* The tracker never leaves its types: the counts of the code and the cells *)
(* below them agree after any sequence of calls (stackmap.c:169-455).       *)
THEOREM TypeCorrect == Spec => []TypeOK
<1>1. IInv => TypeOK
  BY DEF IInv
<1> QED BY SpecImpliesIInv, <1>1, PTL

(* The frames that stackmap_serialize walks are strictly increasing in the  *)
(* offset, for every order of stackmap_record_frame calls and every set of  *)
(* offsets, so that offset - previous - 1 never wraps.                      *)
THEOREM FramesAreSorted == Spec => []FramesSorted
<1>1. IInv => FramesSorted
  BY DEF IInv
<1> QED BY SpecImpliesIInv, <1>1, PTL

(* number_of_entries is the number of frames written after it.              *)
THEOREM EntriesAreCounted == Spec => []EntriesCounted
<1>1. IInv => EntriesCounted
  BY DEF IInv
<1> QED BY SpecImpliesIInv, <1>1, PTL

-----------------------------------------------------------------------------
(* Paths *)

(* A frame is made of the paths that met at its offset. *)
MadeOf(f, met) ==
  /\ \E p \in met : f.locals = p.locals
  /\ \E p \in met : f.stack = p.stack
  /\ \A p \in met : Len(f.locals) <= Len(p.locals)
  /\ \A p \in met : p.stack # <<>> => f.stack # <<>>

Met(ps, off) == {p \in ps : p.offset = off}

PathType == [offset : Nat, locals : Seq(VType), stack : Seq(VType)]

PathsOK ==
  /\ paths \subseteq PathType
  /\ \A p \in paths : HasFrame(smt, p.offset)
  /\ \A i \in 1..Len(smt.frames) : MadeOf(smt.frames[i], Met(paths, smt.frames[i].offset))

PInv == IInv /\ PathsOK

(* A join makes the frame of one path more. *)
LEMMA JoinMadeOf ==
  ASSUME NEW t \in Tracker, NEW f \in Frame, NEW met \in SUBSET PathType, MadeOf(f, met),
         NEW p \in PathType, p.locals = t.locals, p.stack = t.stack
  PROVE  /\ JoinFrame(t, f).offset = f.offset
         /\ MadeOf(JoinFrame(t, f), met \cup {p})
<1> DEFINE g == JoinFrame(t, f)
<1>1. /\ f.locals \in Seq(VType) /\ t.locals \in Seq(VType)
      /\ Len(f.locals) \in Nat /\ Len(t.locals) \in Nat
      /\ \A q \in met : Len(q.locals) \in Nat
  BY DEF Frame, Tracker, PathType
<1>2. /\ g.offset = f.offset
      /\ g.locals = IF Len(t.locals) < Len(f.locals) THEN t.locals ELSE f.locals
      /\ g.stack = IF t.stack # <<>> THEN t.stack ELSE f.stack
  BY DEF JoinFrame, Frame
<1> HIDE DEF g
<1>3. \E q \in met \cup {p} : g.locals = q.locals
  BY <1>2 DEF MadeOf
<1>4. \E q \in met \cup {p} : g.stack = q.stack
  BY <1>2 DEF MadeOf
<1>5. \A q \in met \cup {p} : Len(g.locals) <= Len(q.locals)
  BY <1>1, <1>2 DEF MadeOf
<1>6. \A q \in met \cup {p} : q.stack # <<>> => g.stack # <<>>
  BY <1>2 DEF MadeOf
<1> QED BY <1>2, <1>3, <1>4, <1>5, <1>6 DEF MadeOf, g

(* A call adds its path to the frame at its offset and leaves the others. *)
LEMMA RecordPathKeepsPaths ==
  ASSUME PInv, NEW off \in Offsets, RecordPath(off)
  PROVE  PathsOK'
<1> DEFINE p == Path(off)
           u == smt'
<1>1. /\ smt \in Tracker /\ Sorted(smt.frames) /\ off \in Nat
      /\ smt.num_entries = Len(smt.frames) /\ u = RecordFrame(smt, off)
      /\ paths' = paths \cup {p}
  BY TrackerAssumption DEF PInv, IInv, TypeOK, FramesSorted, EntriesCounted, Sorted,
                           RecordPath, stackmap_record_frame
<1>2. /\ p \in PathType /\ p.offset = off /\ p.locals = smt.locals /\ p.stack = smt.stack
      /\ paths \subseteq PathType
  BY <1>1 DEF Path, PathType, Tracker, PInv, PathsOK
<1> DEFINE new == [offset |-> off, locals |-> smt.locals, stack |-> smt.stack]
<1>3. /\ u \in Tracker
      /\ \A i \in 1..Len(u.frames) :
           \/ u.frames[i] = new /\ ~HasFrame(smt, off)
           \/ \E j \in 1..Len(smt.frames) : Recorded(smt, off, smt.frames[j], u.frames[i])
      /\ \A j \in 1..Len(smt.frames) : \E i \in 1..Len(u.frames) :
           Recorded(smt, off, smt.frames[j], u.frames[i])
      /\ HasFrame(u, off)
  BY <1>1, RecordFrameFacts
<1>4. ASSUME NEW j \in 1..Len(smt.frames)
      PROVE  /\ smt.frames[j] \in Frame
             /\ MadeOf(smt.frames[j], Met(paths, smt.frames[j].offset))
  BY <1>1, FrameOffset DEF Tracker, PInv, PathsOK
<1>5. ASSUME NEW j \in 1..Len(smt.frames), NEW g, Recorded(smt, off, smt.frames[j], g)
      PROVE  /\ g.offset = smt.frames[j].offset
             /\ MadeOf(g, Met(paths', g.offset))
  <2> DEFINE f == smt.frames[j]
  <2>1. CASE f.offset = off
    <3>1. Met(paths', off) = Met(paths, off) \cup {p}
      BY <1>1, <1>2 DEF Met
    <3>2. Met(paths, off) \in SUBSET PathType
      BY <1>2 DEF Met
    <3>3. g = JoinFrame(smt, f)
      BY <1>5, <2>1 DEF Recorded
    <3>4. g.offset = f.offset /\ MadeOf(g, Met(paths, off) \cup {p})
      <4> HIDE DEF f, p
      <4> QED BY <1>1, <1>2, <1>4, <2>1, <3>2, <3>3, JoinMadeOf DEF f
    <3> QED BY <2>1, <3>1, <3>4
  <2>2. CASE f.offset # off
    <3>1. g = f
      BY <1>5, <2>2 DEF Recorded
    <3>2. Met(paths', f.offset) = Met(paths, f.offset)
      BY <1>1, <1>2, <2>2 DEF Met
    <3> QED BY <1>4, <3>1, <3>2
  <2> QED BY <2>1, <2>2
<1>6. ASSUME NEW i \in 1..Len(u.frames)
      PROVE  MadeOf(u.frames[i], Met(paths', u.frames[i].offset))
  <2>1. CASE u.frames[i] = new /\ ~HasFrame(smt, off)
    <3>1. Met(paths', off) = {p}
      BY <1>1, <1>2, <2>1 DEF Met, PInv, PathsOK
    <3>2. Len(p.locals) \in Nat
      BY <1>2 DEF PathType
    <3> QED BY <1>2, <2>1, <3>1, <3>2 DEF MadeOf
  <2>2. CASE \E j \in 1..Len(smt.frames) : Recorded(smt, off, smt.frames[j], u.frames[i])
    BY <2>2, <1>5
  <2> QED BY <1>3, <2>1, <2>2
<1>7. ASSUME NEW q \in paths'
      PROVE  HasFrame(u, q.offset)
  <2>1. CASE q = p
    BY <2>1, <1>2, <1>3
  <2>2. CASE q \in paths
    <3>1. PICK j \in 1..Len(smt.frames) : smt.frames[j].offset = q.offset
      BY <2>2 DEF PInv, PathsOK, HasFrame
    <3>2. PICK i \in 1..Len(u.frames) : Recorded(smt, off, smt.frames[j], u.frames[i])
      BY <1>3
    <3> QED BY <1>5, <3>1, <3>2 DEF HasFrame
  <2> QED BY <1>1, <2>1, <2>2
<1> HIDE DEF p
<1> QED BY <1>1, <1>2, <1>6, <1>7 DEF PathsOK

(* No other call touches a frame. *)
LEMMA UpdateKeepsFrames ==
  ASSUME IInv, UpdateState
  PROVE  smt'.frames = smt.frames
BY DEF UpdateState, IInv, TypeOK, Tracker, stackmap_set_local, stackmap_set_locals_count,
       stackmap_push, stackmap_pop, stackmap_clear_stack, stackmap_init_object,
       stackmap_save_state, stackmap_restore_state, stackmap_restore_locals_only,
       stackmap_state_free, SetLocal, SetLocalsCount, Push, Pop, ClearStack, InitObject,
       RestoreState, RestoreLocalsOnly

LEMMA PathsNextPreservesPInv == PInv /\ [PathsNext]_<<vars, paths>> => PInv'
<1> SUFFICES ASSUME PInv, [PathsNext]_<<vars, paths>> PROVE PInv'
  OBVIOUS
<1>1. [Next]_vars
  BY DEF PathsNext, Next, RecordPath
<1>2. IInv'
  BY <1>1, NextPreservesIInv DEF PInv
<1>3. CASE \E off \in Offsets : RecordPath(off)
  BY <1>2, <1>3, RecordPathKeepsPaths DEF PInv
<1>4. ASSUME smt'.frames = smt.frames, paths' = paths
      PROVE  PathsOK'
  BY <1>4 DEF PInv, PathsOK, HasFrame
<1>5. CASE UpdateState /\ UNCHANGED paths
  BY <1>2, <1>4, <1>5, UpdateKeepsFrames DEF PInv
<1>6. CASE UNCHANGED <<vars, paths>>
  BY <1>2, <1>4, <1>6 DEF PInv, vars
<1> QED BY <1>3, <1>5, <1>6 DEF PathsNext

(* A frame made of paths is true of them where they agree. *)
LEMMA MadeOfIsTrue ==
  ASSUME NEW met \in SUBSET PathType, NEW f, MadeOf(f, met)
  PROVE  /\ (\A p, q \in met : AgreeOnLocals(p, q)) =>
              \A p \in met : IsPrefixOf(f.locals, p.locals)
         /\ (\A p, q \in met : AgreeOnStack(p, q)) =>
              \A p \in met : p.stack # <<>> => f.stack = p.stack
<1>1. PICK r \in met : f.locals = r.locals
  BY DEF MadeOf
<1>2. ASSUME NEW p \in met, AgreeOnLocals(r, p)
      PROVE  IsPrefixOf(f.locals, p.locals)
  <2>1. Len(r.locals) \in Nat /\ Len(p.locals) \in Nat /\ Len(r.locals) <= Len(p.locals)
    BY <1>1 DEF MadeOf, PathType
  <2>2. \A s \in 1..Len(r.locals) : r.locals[s] = p.locals[s]
    BY <1>2, <2>1 DEF AgreeOnLocals
  <2> QED BY <1>1, <2>1, <2>2 DEF IsPrefixOf
<1>3. PICK r2 \in met : f.stack = r2.stack
  BY DEF MadeOf
<1>4. ASSUME NEW p \in met, AgreeOnStack(r2, p), p.stack # <<>>
      PROVE  f.stack = p.stack
  BY <1>3, <1>4 DEF MadeOf, AgreeOnStack
<1> QED BY <1>2, <1>4

(* For any number of paths in any order: each has a frame where it was     *)
(* recorded, which has the locals of one of the paths, no more of them     *)
(* than another has, and the stack of one; where the paths agree it is     *)
(* true of them all, and an exception is kept (stackmap.c:394-434).        *)
THEOREM FramesAreTrueOfPaths == PathsSpec => []FramesTrueOfPaths
<1>1. PathsInit => PInv
  <2> SUFFICES ASSUME PathsInit PROVE PInv
    OBVIOUS
  <2>1. IInv /\ smt.frames = <<>> /\ paths = {}
    BY InitEstablishesIInv DEF PathsInit, Init, NewTracker
  <2> QED BY <2>1 DEF PInv, PathsOK
<1>2. PInv => FramesTrueOfPaths
  <2> SUFFICES ASSUME PInv PROVE FramesTrueOfPaths
    OBVIOUS
  <2>1. \A i \in 1..Len(smt.frames) :
          /\ Met(paths, smt.frames[i].offset) \in SUBSET PathType
          /\ MadeOf(smt.frames[i], Met(paths, smt.frames[i].offset))
    BY DEF PInv, PathsOK, Met
  <2>2. \A p \in paths : HasFrame(smt, p.offset)
    BY DEF PInv, PathsOK
  <2>3. ASSUME NEW i \in 1..Len(smt.frames)
        PROVE  LET f == smt.frames[i]
                   met == Met(paths, f.offset)
               IN /\ MadeOf(f, met)
                  /\ (\A p, q \in met : AgreeOnLocals(p, q)) =>
                       \A p \in met : IsPrefixOf(f.locals, p.locals)
                  /\ (\A p, q \in met : AgreeOnStack(p, q)) =>
                       \A p \in met : p.stack # <<>> => f.stack = p.stack
    BY <2>1, MadeOfIsTrue
  <2> QED BY <2>2, <2>3 DEF FramesTrueOfPaths, Met, MadeOf
<1> QED BY <1>1, <1>2, PathsNextPreservesPInv, PTL DEF PathsSpec

-----------------------------------------------------------------------------
(* Wide entries *)

(* Locals hold no wide entry at all, which is what makes a prefix of them   *)
(* (a shrunk count, a restored state) safe.                                 *)
NarrowLocals ==
  /\ NarrowSeq(smt.locals)
  /\ \A i \in 1..Len(smt.frames) : NarrowSeq(smt.frames[i].locals)
  /\ \A h \in DOMAIN saved : NarrowSeq(saved[h].locals)

PairedStacks ==
  /\ Paired(smt.stack)
  /\ \A i \in 1..Len(smt.frames) : Paired(smt.frames[i].stack)
  /\ \A h \in DOMAIN saved : Paired(saved[h].stack)

WInv == IInv /\ NarrowLocals /\ PairedStacks

(* A sequence without wide entries is paired. *)
LEMMA NarrowIsPaired == \A s : NarrowSeq(s) => Paired(s)
BY DEF NarrowSeq, Paired

(* TOP and object types take one slot. *)
LEMMA TopIsNarrow == ~Wide(Top) /\ Top.tag = "top" /\ \A c : ~Wide(Object(c))
BY DEF Wide, Top, VT, Object

(* Storing a narrow type keeps all locals narrow. *)
LEMMA SetLocalNarrow ==
  ASSUME NEW t \in Tracker, NEW slot \in Nat, NEW type \in VType, ~Wide(type),
         NarrowSeq(t.locals)
  PROVE  NarrowSeq(SetLocal(t, slot, type).locals) /\ SetLocal(t, slot, type).stack = t.stack
<1> DEFINE n == Len(t.locals)
           count == Larger(n, slot + 1)
           f == [i \in 1..count |->
                   IF i = slot + 1 THEN type
                   ELSE IF i <= n THEN t.locals[i] ELSE Top]
<1>1. n \in Nat /\ count \in Nat
  BY DEF Tracker, Larger
<1>2. SetLocal(t, slot, type) = [t EXCEPT !.locals = f]
  BY DEF SetLocal
<1>3. SetLocal(t, slot, type).locals = f /\ SetLocal(t, slot, type).stack = t.stack
  BY <1>2 DEF Tracker
<1>4. Len(f) = count
  BY <1>1
<1>5. ASSUME NEW i \in 1..count PROVE ~Wide(f[i])
  BY <1>1, TopIsNarrow DEF NarrowSeq
<1> QED BY <1>3, <1>4, <1>5 DEF NarrowSeq

(* Cells of a concatenation. *)
LEMMA ConcatIndex ==
  ASSUME NEW S, NEW s \in Seq(S), NEW e \in Seq(S)
  PROVE  /\ Len(s \o e) = Len(s) + Len(e)
         /\ \A i \in 1..Len(s) : (s \o e)[i] = s[i]
         /\ \A i \in 1..Len(s) + Len(e) : i > Len(s) => (s \o e)[i] = e[i - Len(s)]
OBVIOUS

(* Appending a paired sequence to a paired one. *)
LEMMA PairedConcat ==
  ASSUME NEW s \in Seq(VType), NEW e \in Seq(VType), Paired(s), Paired(e)
  PROVE  Paired(s \o e)
<1> DEFINE r == s \o e
<1>1. /\ Len(r) = Len(s) + Len(e) /\ Len(s) \in Nat /\ Len(e) \in Nat
      /\ \A i \in 1..Len(s) : r[i] = s[i]
      /\ \A i \in 1..Len(r) : i > Len(s) => r[i] = e[i - Len(s)]
  BY ConcatIndex
<1> HIDE DEF r
<1> SUFFICES ASSUME NEW i \in 1..Len(r), Wide(r[i])
             PROVE  i < Len(r) /\ r[i + 1].tag = "top"
  BY DEF Paired, r
<1>2. CASE i <= Len(s)
  <2>1. i \in 1..Len(s) /\ Wide(s[i])
    BY <1>1, <1>2
  <2>2. i < Len(s) /\ s[i + 1].tag = "top" /\ i + 1 \in 1..Len(s)
    BY <1>1, <2>1 DEF Paired
  <2> QED BY <1>1, <2>2
<1>3. CASE i > Len(s)
  <2> DEFINE k == i - Len(s)
  <2>1. k \in 1..Len(e) /\ Wide(e[k])
    BY <1>1, <1>3
  <2>2. k < Len(e) /\ e[k + 1].tag = "top"
    BY <2>1 DEF Paired
  <2>3. i + 1 \in 1..Len(r) /\ i + 1 > Len(s) /\ (i + 1) - Len(s) = k + 1
    BY <1>1, <1>3, <2>2
  <2>4. r[i + 1] = e[k + 1]
    BY <1>1, <2>3
  <2> QED BY <1>1, <2>2, <2>3, <2>4
<1> QED BY <1>1, <1>2, <1>3

(* stackmap_push appends the second half of a wide entry with it. *)
LEMMA PushPaired ==
  ASSUME NEW t \in Tracker, NEW type \in VType, Paired(t.stack)
  PROVE  Paired(Push(t, type).stack) /\ Push(t, type).locals = t.locals
<1> DEFINE e == IF Wide(type) THEN <<type, Top>> ELSE <<type>>
<1>1. t.stack \in Seq(VType) /\ e \in Seq(VType)
  BY TopType DEF Tracker
<1>2. Paired(e)
  <2>1. CASE Wide(type)
    <3>1. Len(<<type, Top>>) = 2 /\ <<type, Top>>[1] = type /\ <<type, Top>>[2] = Top
      OBVIOUS
    <3> QED BY <2>1, <3>1, TopIsNarrow DEF Paired
  <2>2. CASE ~Wide(type)
    <3>1. Len(<<type>>) = 1 /\ <<type>>[1] = type
      OBVIOUS
    <3> QED BY <2>2, <3>1 DEF Paired
  <2> QED BY <2>1, <2>2
<1>3. Push(t, type).stack = t.stack \o e /\ Push(t, type).locals = t.locals
  BY DEF Push, Tracker
<1> HIDE DEF e
<1> QED BY <1>1, <1>2, <1>3, PairedConcat

(* stackmap_pop of whole entries does not cut a wide entry in half. *)
LEMMA PopPaired ==
  ASSUME NEW t \in Tracker, NEW count \in Nat, Paired(t.stack),
         count < Len(t.stack) => ~Wide(t.stack[Len(t.stack) - count])
  PROVE  Paired(Pop(t, count).stack) /\ Pop(t, count).locals = t.locals
<1> DEFINE s == t.stack
           k == Len(s) - count
           r == IF count > Len(s) THEN <<>> ELSE SubSeq(s, 1, k)
<1>1. s \in Seq(VType) /\ Len(s) \in Nat
  BY DEF Tracker
<1>2. Pop(t, count).stack = r /\ Pop(t, count).locals = t.locals
  BY DEF Pop, Tracker
<1>3. CASE count > Len(s)
  BY <1>2, <1>3 DEF Paired
<1>4. CASE ~(count > Len(s))
  <2>1. k \in Nat /\ k <= Len(s)
    BY <1>1, <1>4
  <2>2. Len(r) = k /\ \A i \in 1..k : r[i] = s[i]
    BY <1>1, <1>4, <2>1, SubSeqType
  <2>3. ASSUME NEW i \in 1..k, Wide(s[i])
        PROVE  i < k /\ s[i + 1].tag = "top"
    <3>1. i \in 1..Len(s)
      BY <2>1, <1>1
    <3>2. s[i + 1].tag = "top"
      BY <2>3, <3>1 DEF Paired
    <3>3. i # k
      <4>1. CASE count = 0
        BY <4>1, <2>3, <3>1, <1>1 DEF Paired
      <4>2. CASE count # 0
        <5>1. count < Len(s) \/ k = 0
          BY <2>1, <1>1
        <5> QED BY <5>1, <2>3, <1>1
      <4> QED BY <4>1, <4>2
    <3> QED BY <3>2, <3>3, <2>1
  <2>4. \A i \in 1..k : i < k => r[i + 1] = s[i + 1]
    BY <2>1, <2>2
  <2>5. Paired(r)
    <3> HIDE DEF r
    <3> QED BY <2>2, <2>3, <2>4 DEF Paired
  <2> QED BY <1>2, <2>5
<1> QED BY <1>3, <1>4

(* stackmap_init_object changes no wide entry and no TOP. *)
LEMMA InitObjectPaired ==
  ASSUME NEW t \in Tracker, NEW off \in Nat, NEW class \in Classes,
         NarrowSeq(t.locals), Paired(t.stack)
  PROVE  NarrowSeq(InitObject(t, off, class).locals) /\ Paired(InitObject(t, off, class).stack)
<1> DEFINE I(s) == [i \in 1..Len(s) |->
                      IF s[i].tag = "uninit" /\ s[i].offset = off
                      THEN Object(class) ELSE s[i]]
<1>1. ASSUME NEW s \in Seq(VType)
      PROVE  /\ Len(I(s)) = Len(s)
             /\ \A i \in 1..Len(s) : \/ I(s)[i] = s[i]
                                    \/ (I(s)[i] = Object(class) /\ s[i].tag = "uninit")
  BY <1>1
<1>2. /\ InitObject(t, off, class).locals = I(t.locals)
      /\ InitObject(t, off, class).stack = I(t.stack)
      /\ t.locals \in Seq(VType) /\ t.stack \in Seq(VType)
  BY DEF InitObject, Tracker
<1>3. NarrowSeq(I(t.locals))
  <2>1. /\ Len(I(t.locals)) = Len(t.locals)
        /\ \A i \in 1..Len(t.locals) : I(t.locals)[i] = t.locals[i] \/ I(t.locals)[i] = Object(class)
    BY <1>1, <1>2
  <2> HIDE DEF I
  <2> QED BY <2>1, TopIsNarrow DEF NarrowSeq
<1>4. Paired(I(t.stack))
  <2> DEFINE s == t.stack
             r == I(s)
  <2>1. /\ Len(r) = Len(s) /\ Len(s) \in Nat
        /\ \A i \in 1..Len(s) : \/ r[i] = s[i]
                               \/ (r[i] = Object(class) /\ s[i].tag = "uninit")
    BY <1>1, <1>2
  <2> HIDE DEF I, r
  <2>2. SUFFICES ASSUME NEW i \in 1..Len(s), Wide(r[i])
                 PROVE  i < Len(s) /\ r[i + 1].tag = "top"
    BY <2>1 DEF Paired, r
  <2>3. r[i] = s[i]
    BY <2>1, <2>2, TopIsNarrow
  <2>4. i < Len(s) /\ s[i + 1].tag = "top" /\ i + 1 \in 1..Len(s)
    BY <2>1, <2>2, <2>3 DEF Paired
  <2> QED BY <2>1, <2>4
<1> QED BY <1>2, <1>3, <1>4

(* The locals kept above a restored state are narrow too. *)
LEMMA RestoreStateNarrow ==
  ASSUME NEW t \in Tracker, NEW st \in SavedState, NarrowSeq(t.locals), NarrowSeq(st.locals)
  PROVE  NarrowSeq(RestoreState(t, st).locals) /\ RestoreState(t, st).stack = st.stack
<1> DEFINE n == Len(st.locals)
           m == Larger(n, Len(t.locals))
           f == [i \in 1..m |-> IF i <= n THEN st.locals[i] ELSE t.locals[i]]
<1>1. n \in Nat /\ m \in Nat /\ Len(t.locals) \in Nat /\ (m = n \/ m = Len(t.locals))
  BY DEF SavedState, Tracker, Larger
<1>2. RestoreState(t, st).locals = f /\ RestoreState(t, st).stack = st.stack
  BY DEF RestoreState, Tracker
<1>3. Len(f) = m
  BY <1>1
<1>4. ASSUME NEW i \in 1..m PROVE ~Wide(f[i])
  BY <1>1 DEF NarrowSeq
<1> QED BY <1>2, <1>3, <1>4 DEF NarrowSeq

(* An operation that leaves frames and saved states alone only has to       *)
(* answer for the current locals and stack.                                 *)
LEMMA CurrentStateStep ==
  ASSUME NarrowLocals, PairedStacks, smt'.frames = smt.frames, UNCHANGED saved,
         NarrowSeq(smt'.locals), Paired(smt'.stack)
  PROVE  NarrowLocals' /\ PairedStacks'
BY DEF NarrowLocals, PairedStacks

(* Every call keeps WInv. *)
LEMMA NextPreservesWInv == WInv /\ [Next]_vars => WInv'
<1> SUFFICES ASSUME WInv, [Next]_vars PROVE NarrowLocals' /\ PairedStacks'
  BY NextPreservesIInv DEF WInv
<1> USE TrackerAssumption, LocalsNarrow
<1>0. /\ smt \in Tracker /\ smt.stack \in Seq(VType) /\ smt.locals \in Seq(VType)
      /\ smt.frames \in Seq(Frame)
      /\ \A h \in DOMAIN saved : saved[h] \in SavedState
      /\ 0..MaxLocals \subseteq Nat /\ 1..2 * MaxStack + 1 \subseteq Nat
      /\ NarrowSeq(smt.locals) /\ Paired(smt.stack)
      /\ NarrowLocals /\ PairedStacks
  BY DEF WInv, IInv, TypeOK, Tracker, NarrowLocals, PairedStacks
<1>1. ASSUME NEW slot \in 0..MaxLocals, NEW type \in LocalTypes,
             stackmap_set_local(slot, type)
      PROVE  NarrowLocals' /\ PairedStacks'
  <2>1. smt'.frames = smt.frames
    BY <1>0, <1>1, SetLocalType DEF stackmap_set_local, KeepsFrames
  <2>2. NarrowSeq(smt'.locals) /\ smt'.stack = smt.stack
    BY <1>0, <1>1, SetLocalNarrow DEF stackmap_set_local
  <2> QED BY <1>0, <1>1, <2>1, <2>2, CurrentStateStep DEF stackmap_set_local
<1>2. ASSUME NEW count \in 0..MaxLocals, stackmap_set_locals_count(count)
      PROVE  NarrowLocals' /\ PairedStacks'
  <2>1. smt' = [smt EXCEPT !.locals = SubSeq(smt.locals, 1, count)]
        /\ count < Len(smt.locals) /\ count \in Nat /\ UNCHANGED saved
    BY <1>0, <1>2 DEF stackmap_set_locals_count, SetLocalsCount
  <2>2. /\ smt'.frames = smt.frames /\ smt'.stack = smt.stack
        /\ smt'.locals = SubSeq(smt.locals, 1, count)
    BY <1>0, <2>1 DEF Tracker
  <2>3. NarrowSeq(SubSeq(smt.locals, 1, count))
    BY <1>0, <2>1, SubSeqType DEF NarrowSeq
  <2> QED BY <1>0, <2>1, <2>2, <2>3, CurrentStateStep
<1>3. ASSUME NEW type \in StackTypes, stackmap_push(type)
      PROVE  NarrowLocals' /\ PairedStacks'
  <2>1. smt'.frames = smt.frames
    BY <1>0, <1>3, PushType DEF stackmap_push, KeepsFrames
  <2>2. Paired(smt'.stack) /\ smt'.locals = smt.locals
    BY <1>0, <1>3, PushPaired DEF stackmap_push
  <2> QED BY <1>0, <1>3, <2>1, <2>2, CurrentStateStep DEF stackmap_push
<1>4. ASSUME NEW count \in 1..2 * MaxStack + 1, stackmap_pop(count)
      PROVE  NarrowLocals' /\ PairedStacks'
  <2>1. smt'.frames = smt.frames
    BY <1>0, <1>4, PopType DEF stackmap_pop, KeepsFrames
  <2>2. Paired(smt'.stack) /\ smt'.locals = smt.locals
    BY <1>0, <1>4, PopPaired DEF stackmap_pop
  <2> QED BY <1>0, <1>4, <2>1, <2>2, CurrentStateStep DEF stackmap_pop
<1>5. ASSUME stackmap_clear_stack
      PROVE  NarrowLocals' /\ PairedStacks'
  <2>1. smt'.frames = smt.frames /\ smt'.locals = smt.locals /\ smt'.stack = <<>>
    BY <1>0, <1>5 DEF stackmap_clear_stack, ClearStack, Tracker
  <2>2. Paired(<<>>)
    BY DEF Paired
  <2> QED BY <1>0, <1>5, <2>1, <2>2, CurrentStateStep DEF stackmap_clear_stack
<1>6. ASSUME NEW off \in Offsets, NEW class \in Classes, stackmap_init_object(off, class)
      PROVE  NarrowLocals' /\ PairedStacks'
  <2>1. smt'.frames = smt.frames
    BY <1>0, <1>6, InitObjectType DEF stackmap_init_object, KeepsFrames
  <2>2. Paired(smt'.stack) /\ NarrowSeq(smt'.locals)
    BY <1>0, <1>6, InitObjectPaired DEF stackmap_init_object
  <2> QED BY <1>0, <1>6, <2>1, <2>2, CurrentStateStep DEF stackmap_init_object
<1>7. ASSUME NEW off \in Offsets, stackmap_record_frame(off)
      PROVE  NarrowLocals' /\ PairedStacks'
  <2> DEFINE new == [offset |-> off, locals |-> smt.locals, stack |-> smt.stack]
  <2>1. /\ Sorted(smt.frames) /\ smt.num_entries = Len(smt.frames) /\ off \in Nat
        /\ smt' = RecordFrame(smt, off) /\ saved' = saved
    BY <1>7 DEF WInv, IInv, FramesSorted, EntriesCounted, Sorted, stackmap_record_frame
  <2>2. /\ smt'.locals = smt.locals /\ smt'.stack = smt.stack
        /\ \A i \in 1..Len(smt'.frames) :
             \/ smt'.frames[i] = new
             \/ \E j \in 1..Len(smt.frames) :
                  Recorded(smt, off, smt.frames[j], smt'.frames[i])
    BY <1>0, <2>1, RecordFrameFacts, ZenonT(60)
  <2>3. NarrowSeq(new.locals) /\ Paired(new.stack)
    BY <1>0
  <2>4. ASSUME NEW j \in 1..Len(smt.frames)
        PROVE  /\ NarrowSeq(smt.frames[j].locals) /\ Paired(smt.frames[j].stack)
               /\ NarrowSeq(JoinFrame(smt, smt.frames[j]).locals)
               /\ Paired(JoinFrame(smt, smt.frames[j]).stack)
    <3>1. smt.frames[j] \in Frame
      BY <1>0, FrameOffset
    <3>2. NarrowSeq(smt.frames[j].locals) /\ Paired(smt.frames[j].stack)
      BY <1>0 DEF NarrowLocals, PairedStacks
    <3>3. /\ JoinFrame(smt, smt.frames[j]).locals \in {smt.locals, smt.frames[j].locals}
          /\ JoinFrame(smt, smt.frames[j]).stack \in {smt.stack, smt.frames[j].stack}
      BY <3>1 DEF JoinFrame, Frame
    <3> QED BY <1>0, <3>2, <3>3
  <2>5. \A i \in 1..Len(smt'.frames) :
          NarrowSeq(smt'.frames[i].locals) /\ Paired(smt'.frames[i].stack)
    <3> HIDE DEF new
    <3> QED BY <2>2, <2>3, <2>4 DEF Recorded
  <2> QED BY <1>0, <2>1, <2>2, <2>5 DEF NarrowLocals, PairedStacks
<1>8. ASSUME NEW h \in Handles, stackmap_save_state(h)
      PROVE  NarrowLocals' /\ PairedStacks'
  <2>1. /\ smt' = smt
        /\ \A g \in DOMAIN saved' :
             saved'[g] = SaveState(smt) \/ (g \in DOMAIN saved /\ saved'[g] = saved[g])
    BY <1>8 DEF stackmap_save_state
  <2>2. NarrowSeq(SaveState(smt).locals) /\ Paired(SaveState(smt).stack)
    BY <1>0 DEF SaveState
  <2> QED BY <1>0, <2>1, <2>2 DEF NarrowLocals, PairedStacks
<1>9. ASSUME NEW h \in Handles, stackmap_restore_state(h)
      PROVE  NarrowLocals' /\ PairedStacks'
  <2>1. /\ saved[h] \in SavedState /\ NarrowSeq(saved[h].locals) /\ Paired(saved[h].stack)
        /\ smt' = RestoreState(smt, saved[h]) /\ UNCHANGED saved
    BY <1>0, <1>9 DEF stackmap_restore_state, NarrowLocals, PairedStacks
  <2>2. smt'.frames = smt.frames
    BY <1>0, <2>1, RestoreStateType DEF KeepsFrames
  <2>3. NarrowSeq(smt'.locals) /\ Paired(smt'.stack)
    BY <1>0, <2>1, RestoreStateNarrow
  <2> QED BY <1>0, <2>1, <2>2, <2>3, CurrentStateStep
<1>10. ASSUME NEW h \in Handles, stackmap_restore_locals_only(h)
       PROVE  NarrowLocals' /\ PairedStacks'
  <2>1. /\ NarrowSeq(saved[h].locals) /\ UNCHANGED saved
        /\ smt' = [smt EXCEPT !.locals = saved[h].locals]
    BY <1>0, <1>10 DEF stackmap_restore_locals_only, RestoreLocalsOnly, NarrowLocals
  <2>2. /\ smt'.frames = smt.frames /\ smt'.stack = smt.stack
        /\ smt'.locals = saved[h].locals
    BY <1>0, <2>1 DEF Tracker
  <2> QED BY <1>0, <2>1, <2>2, CurrentStateStep
<1>11. ASSUME NEW h \in Handles, stackmap_state_free(h)
       PROVE  NarrowLocals' /\ PairedStacks'
  BY <1>0, <1>11 DEF stackmap_state_free, NarrowLocals, PairedStacks
<1>12. CASE UNCHANGED vars
  BY <1>0, <1>12 DEF vars, NarrowLocals, PairedStacks
<1> QED
  BY <1>1, <1>2, <1>3, <1>4, <1>5, <1>6, <1>7, <1>8, <1>9, <1>10, <1>11, <1>12 DEF Next, UpdateState

(* As long as only references and ints are stored in locals, no sequence of *)
(* calls separates a long or double from its second half, in the current    *)
(* state, a frame or a saved state: stackmap_serialize may skip the half.   *)
THEOREM WidePairsSurvive == Spec => []WideEntriesPaired
<1>1. Init => WInv
  <2> SUFFICES ASSUME Init PROVE NarrowLocals /\ PairedStacks
    BY InitEstablishesIInv DEF WInv
  <2>1. smt.locals = <<>> /\ smt.stack = <<>> /\ smt.frames = <<>> /\ DOMAIN saved = {}
    BY DEF Init, NewTracker
  <2> QED BY <2>1 DEF NarrowLocals, PairedStacks, NarrowSeq, Paired
<1>2. WInv => WideEntriesPaired
  BY NarrowIsPaired DEF WInv, NarrowLocals, PairedStacks, WideEntriesPaired
<1> QED BY <1>1, <1>2, NextPreservesWInv, PTL DEF Spec

=============================================================================
