---------------------------- MODULE ClassPoolProofs ----------------------------
(***************************************************************************)
(* Proofs about ClassPool, for all strings, members, operations, call      *)
(* sites, capacities and failures: the pool stays within its capacity,     *)
(* holds a text once, and every emitted index stands for what was asked    *)
(* for.                                                                    *)
(***************************************************************************)
EXTENDS ClassPool, SequenceTheorems, WellFoundedInduction, TLAPS

(* Both directions of the cache of texts. *)
CacheExact(p) ==
  /\ \A s \in Strings : p.cache[s] # 0 => IsUtf8(p.entries, p.cache[s], s)
  /\ \A i \in 1..Len(p.entries) :
       p.entries[i].tag = "Utf8" =>
         p.entries[i].data \in Strings /\ p.cache[p.entries[i].data] = i

Bounded(p) == /\ Count(p) <= p.capacity
              /\ p.looping => ~p.room
              /\ p.looping => 2 * (Count(p) + 1) >= CountLimit

Wide == {"Long", "Double"}

(* Gaps are behind the wide entries and nowhere else. *)
Paired(es) ==
  /\ \A i \in 1..Len(es) : es[i].tag \in Wide => i < Len(es) /\ es[i + 1].tag = "Gap"
  /\ \A i \in 1..Len(es) : es[i].tag = "Gap" => i > 1 /\ es[i - 1].tag \in Wide

(* What every operation keeps. *)
Sound(p) == p \in Pool /\ CacheExact(p) /\ Bounded(p) /\ Paired(p.entries)

(* The kinds of entries that take one slot, without those of texts. *)
Singles == Tags \ (Wide \cup {"Gap", "Utf8"})

(* q is p with entries added behind. *)
Extends(q, p) ==
  /\ Len(p.entries) <= Len(q.entries)
  /\ \A i \in 1..Len(p.entries) : q.entries[i] = p.entries[i]
  /\ p.looping => q.looping
  /\ p.spare = -1 => q.spare = -1

(* An operation without a result says so: it never returned, or its index *)
(* is 0 and an allocation has failed.                                     *)
NoResult(q) == q.looping \/ (q.index = 0 /\ q.spare = -1)

-----------------------------------------------------------------------------
(* Entries that are added change nothing that an index stands for. *)

LEMMA ExtendsTransitive ==
  ASSUME NEW p \in Pool, NEW q \in Pool, NEW r \in Pool, Extends(q, p), Extends(r, q)
  PROVE  Extends(r, p)
<1>1. Len(p.entries) \in Nat /\ Len(q.entries) \in Nat /\ Len(r.entries) \in Nat
  BY DEF Pool
<1> QED BY <1>1 DEF Extends

LEMMA HoldsStays ==
  ASSUME NEW p \in Pool, NEW q \in Pool, Extends(q, p), NEW i, NEW tag, Holds(p.entries, i, tag)
  PROVE  Holds(q.entries, i, tag) /\ q.entries[i] = p.entries[i]
<1>1. Len(p.entries) \in Nat /\ Len(q.entries) \in Nat
  BY DEF Pool
<1> QED BY <1>1 DEF Extends, Holds

LEMMA Utf8Stays ==
  ASSUME NEW p \in Pool, NEW q \in Pool, Extends(q, p), NEW i, NEW s, IsUtf8(p.entries, i, s)
  PROVE  IsUtf8(q.entries, i, s)
BY HoldsStays DEF IsUtf8

LEMMA TextStays ==
  ASSUME NEW p \in Pool, NEW q \in Pool, Extends(q, p), NEW i, NEW tag, NEW s,
         IsText(p.entries, i, tag, s)
  PROVE  IsText(q.entries, i, tag, s)
BY HoldsStays, Utf8Stays DEF IsText

LEMMA NameAndTypeStays ==
  ASSUME NEW p \in Pool, NEW q \in Pool, Extends(q, p), NEW i, NEW n, NEW d,
         IsNameAndType(p.entries, i, n, d)
  PROVE  IsNameAndType(q.entries, i, n, d)
BY HoldsStays, Utf8Stays DEF IsNameAndType

LEMMA MemberStays ==
  ASSUME NEW p \in Pool, NEW q \in Pool, Extends(q, p), NEW i, NEW tag, NEW c, NEW n, NEW d,
         IsMember(p.entries, i, tag, c, n, d)
  PROVE  IsMember(q.entries, i, tag, c, n, d)
BY HoldsStays, TextStays, NameAndTypeStays DEF IsMember

LEMMA HandleStays ==
  ASSUME NEW p \in Pool, NEW q \in Pool, Extends(q, p), NEW i, NEW c, NEW n, NEW d,
         IsHandle(p.entries, i, c, n, d)
  PROVE  IsHandle(q.entries, i, c, n, d)
BY HoldsStays, MemberStays DEF IsHandle

-----------------------------------------------------------------------------
(* The operations of the pool *)

(* Doubling either stays in 16 bits or wraps; when it still leaves no room *)
(* the pool was half full.                                                 *)
LEMMA DoubledFacts ==
  ASSUME NEW c \in 2..(CountLimit - 1)
  PROVE  /\ Doubled(c) \in 0..(CountLimit - 1)
         /\ 2 * c < CountLimit => Doubled(c) = 2 * c
<1>1. CountLimit \in Nat /\ c \in Nat
  BY PoolAssumption
<1>2. \A a \in Nat : a < CountLimit => a % CountLimit = a
  BY <1>1
<1>3. CountLimit > 0 => \A a \in Nat : a % CountLimit \in 0..(CountLimit - 1)
  BY <1>1
<1> QED BY <1>1, <1>2, <1>3 DEF Doubled

(* A pool with the entries and the cache of another. *)
LEMMA SameEntries ==
  ASSUME NEW p, Sound(p), NEW q \in Pool, Bounded(q),
         q.entries = p.entries, q.cache = p.cache,
         p.looping => q.looping, p.spare = -1 => q.spare = -1
  PROVE  Sound(q) /\ Extends(q, p)
<1>1. Len(p.entries) \in Nat
  BY DEF Sound, Pool
<1> QED BY <1>1 DEF Sound, Extends, CacheExact

(* What ensure_capacity returns: room means room, no room means that it  *)
(* loops or that realloc has failed; entries and cache are left alone.   *)
Ensured(q, p, needed) ==
  /\ Sound(q) /\ Extends(q, p)
  /\ q.entries = p.entries /\ q.cache = p.cache
  /\ q.room => Fits(q, needed) /\ ~q.looping
  /\ ~q.room => q.looping \/ q.spare = -1

LEMMA EnsureSound ==
  ASSUME NEW p, Sound(p), NEW needed \in 1..2
  PROVE  Ensured(Ensure(p, needed), p, needed)
<1> DEFINE q == Ensure(p, needed)
           c == Doubled(p.capacity)
           k == IF p.spare < 0 THEN p.spare ELSE p.spare - 1
<1> SUFFICES Ensured(q, p, needed)
  OBVIOUS
<1>1. p \in Pool /\ Bounded(p)
  BY DEF Sound
<1>2. /\ Len(p.entries) \in Nat /\ p.capacity \in 2..(CountLimit - 1)
      /\ CountLimit \in Nat /\ p.spare \in Nat \cup {-1}
      /\ p.looping \in BOOLEAN /\ p.room \in BOOLEAN
  BY <1>1, PoolAssumption DEF Pool
<1>3. CASE p.looping
  <2>1. q = p
    BY <1>3 DEF Ensure
  <2> HIDE DEF q
  <2>2. ~q.room /\ q.looping
    BY <2>1, <1>1, <1>3 DEF Bounded
  <2>3. Sound(q) /\ Extends(q, p)
    BY <2>1, <1>1, SameEntries
  <2> QED BY <2>1, <2>2, <2>3 DEF Ensured
<1>4. CASE ~p.looping /\ Fits(p, needed)
  <2>1. q = [p EXCEPT !.room = TRUE]
    BY <1>4 DEF Ensure
  <2> HIDE DEF q
  <2>2. /\ q \in Pool /\ q.entries = p.entries /\ q.cache = p.cache /\ q.room /\ ~q.looping
        /\ q.capacity = p.capacity /\ q.spare = p.spare
    BY <2>1, <1>1, <1>4 DEF Pool
  <2>3. Bounded(q) /\ Fits(q, needed)
    BY <2>2, <1>1, <1>4 DEF Bounded, Fits, Count
  <2>4. Sound(q) /\ Extends(q, p)
    BY <2>2, <2>3, <1>4, SameEntries
  <2> QED BY <2>2, <2>3, <2>4 DEF Ensured
<1>5. CASE ~p.looping /\ ~Fits(p, needed) /\ c < Count(p) + needed
  <2>1. q = [p EXCEPT !.room = FALSE, !.looping = TRUE]
    BY <1>5 DEF Ensure
  <2>2. 2 * (Count(p) + 1) >= CountLimit
    <3> DEFINE n == Len(p.entries)
               z == p.capacity
    <3>1. n + 1 <= z /\ n + 1 + needed > z /\ c < n + 1 + needed
      BY <1>1, <1>2, <1>5 DEF Bounded, Fits, Count
    <3>2. 2 * z < CountLimit => c = 2 * z
      BY <1>2, DoubledFacts
    <3>3. n \in Nat /\ z \in Nat /\ z >= 2 /\ CountLimit \in Nat
      BY <1>2
    <3> HIDE DEF n, z, c
    <3>4. 2 * (n + 1 + 1) >= CountLimit
      BY <3>1, <3>2, <3>3
    <3> QED BY <3>4 DEF Count, n
  <2> HIDE DEF q
  <2>3. /\ q \in Pool /\ q.entries = p.entries /\ q.cache = p.cache /\ ~q.room /\ q.looping
        /\ q.capacity = p.capacity /\ q.spare = p.spare
    BY <2>1, <1>1 DEF Pool
  <2>4. Bounded(q)
    BY <2>2, <2>3, <1>1 DEF Bounded, Count
  <2>5. Sound(q) /\ Extends(q, p)
    BY <2>3, <2>4, SameEntries
  <2> QED BY <2>3, <2>5 DEF Ensured
<1>6. CASE ~p.looping /\ ~Fits(p, needed) /\ ~(c < Count(p) + needed) /\ p.spare = 0
  <2>1. q = [p EXCEPT !.room = FALSE, !.spare = -1]
    BY <1>6 DEF Ensure
  <2> HIDE DEF q
  <2>2. /\ q \in Pool /\ q.entries = p.entries /\ q.cache = p.cache /\ ~q.room /\ ~q.looping
        /\ q.capacity = p.capacity /\ q.spare = -1
    BY <2>1, <1>1, <1>6 DEF Pool
  <2>3. Bounded(q)
    BY <2>2, <1>1 DEF Bounded, Count
  <2>4. Sound(q) /\ Extends(q, p)
    BY <2>2, <2>3, <1>6, SameEntries
  <2> QED BY <2>2, <2>4 DEF Ensured
<1>7. CASE ~p.looping /\ ~Fits(p, needed) /\ ~(c < Count(p) + needed) /\ p.spare # 0
  <2>1. q = [p EXCEPT !.room = TRUE, !.capacity = c, !.spare = k]
    BY <1>7 DEF Ensure
  <2>2. k \in Nat \cup {-1} /\ (p.spare = -1 => k = -1)
    BY <1>2, <1>7
  <2>3. c \in 2..(CountLimit - 1) /\ Count(p) + needed <= c
    BY <1>2, <1>7, DoubledFacts DEF Count
  <2> HIDE DEF c, k, q
  <2>4. /\ q \in Pool /\ q.entries = p.entries /\ q.cache = p.cache /\ q.room /\ ~q.looping
        /\ q.capacity = c /\ q.spare = k
    BY <2>1, <2>2, <2>3, <1>1, <1>7 DEF Pool
  <2>5. Bounded(q) /\ Fits(q, needed)
    BY <2>3, <2>4, <1>2 DEF Bounded, Count, Fits
  <2>6. Sound(q) /\ Extends(q, p)
    BY <2>2, <2>4, <2>5, <1>7, SameEntries
  <2> QED BY <2>4, <2>5, <2>6 DEF Ensured
<1> QED BY <1>3, <1>4, <1>5, <1>6, <1>7

(* r is p with entry e added, at the index that r returns. *)
Added(r, p, e) ==
  /\ Sound(r) /\ Extends(r, p)
  /\ NoResult(r) \/ (r.index \in 1..Len(r.entries) /\ r.entries[r.index] = e)

LEMMA PairedConcat ==
  ASSUME NEW es \in Seq(EntryType), NEW slots \in Seq(EntryType), Paired(es), Paired(slots)
  PROVE  Paired(es \o slots)
<1> DEFINE fs == es \o slots
           n == Len(es)
           m == Len(slots)
<1>1. /\ n \in Nat /\ m \in Nat /\ Len(fs) = n + m
      /\ \A i \in 1..n : fs[i] = es[i]
      /\ \A i \in (n + 1)..(n + m) : fs[i] = slots[i - n]
  BY ConcatProperties
<1> HIDE DEF fs
<1>2. ASSUME NEW i \in 1..Len(fs), fs[i].tag \in Wide
      PROVE  i < Len(fs) /\ fs[i + 1].tag = "Gap"
  <2>1. CASE i \in 1..n
    BY <1>1, <1>2, <2>1, SMTT(30) DEF Paired
  <2>2. CASE i \notin 1..n
    <3>1. i - n \in 1..m /\ fs[i] = slots[i - n] /\ i \in (n + 1)..(n + m)
      BY <1>1, <2>2
    <3>2. i - n < m /\ slots[i - n + 1].tag = "Gap"
      BY <1>2, <3>1 DEF Paired
    <3>3. i + 1 \in (n + 1)..(n + m) /\ (i + 1) - n = i - n + 1
      BY <1>1, <3>1, <3>2
    <3> QED BY <1>1, <3>2, <3>3
  <2> QED BY <2>1, <2>2
<1>3. ASSUME NEW i \in 1..Len(fs), fs[i].tag = "Gap"
      PROVE  i > 1 /\ fs[i - 1].tag \in Wide
  <2>1. CASE i \in 1..n
    <3>1. i > 1 /\ es[i - 1].tag \in Wide
      BY <1>1, <1>3, <2>1 DEF Paired
    <3>2. i - 1 \in 1..n
      BY <1>1, <2>1, <3>1
    <3> QED BY <1>1, <3>1, <3>2
  <2>2. CASE i \notin 1..n
    <3>1. i - n \in 1..m /\ fs[i] = slots[i - n] /\ i \in (n + 1)..(n + m)
      BY <1>1, <2>2
    <3>2. i - n > 1 /\ slots[i - n - 1].tag \in Wide
      BY <1>3, <3>1 DEF Paired
    <3>3. i - 1 \in (n + 1)..(n + m) /\ (i - 1) - n = i - n - 1
      BY <1>1, <3>1, <3>2
    <3> QED BY <1>1, <3>2, <3>3
  <2> QED BY <2>1, <2>2
<1> QED BY <1>2, <1>3 DEF Paired, fs

(* Entries of any kind but texts, stored where ensure_capacity made room. *)
LEMMA AppendSound ==
  ASSUME NEW p, Sound(p), NEW slots \in Seq(EntryType), Len(slots) \in 1..2,
         \A k \in 1..Len(slots) : slots[k].tag # "Utf8", Paired(slots),
         Fits(p, Len(slots)), ~p.looping,
         NEW r, r = [p EXCEPT !.entries = @ \o slots, !.index = Len(p.entries) + 1]
  PROVE  Added(r, p, slots[1])
<1> DEFINE n == Len(p.entries)
           m == Len(slots)
           es == p.entries \o slots
<1>1. p \in Pool /\ CacheExact(p) /\ Bounded(p) /\ Paired(p.entries)
  BY DEF Sound
<1>2. p.entries \in Seq(EntryType) /\ n \in Nat /\ m \in 1..2 /\ p.cache \in [Strings -> Nat]
  BY <1>1 DEF Pool
<1>3. /\ es \in Seq(EntryType) /\ Len(es) = n + m
      /\ \A i \in 1..n : es[i] = p.entries[i]
      /\ \A i \in (n + 1)..(n + m) : es[i] = slots[i - n]
  BY <1>2, ConcatProperties
<1>b. Paired(es)
  BY <1>1, <1>2, PairedConcat
<1>a. n + 1 \in Nat /\ r = [p EXCEPT !.entries = es, !.index = n + 1]
  BY <1>2
<1> HIDE DEF es, n, m
<1>4. /\ r \in Pool /\ r.entries = es /\ r.cache = p.cache /\ r.index = n + 1
      /\ r.capacity = p.capacity /\ r.looping = p.looping /\ r.room = p.room
      /\ r.spare = p.spare
  BY <1>1, <1>a, <1>3 DEF Pool
<1> USE DEF n, m
<1>5. Bounded(r)
  BY <1>2, <1>3, <1>4, <1>1 DEF Bounded, Count, Fits
<1>6. Extends(r, p)
  BY <1>2, <1>3, <1>4 DEF Extends
<1>7. CacheExact(r)
  <2>1. \A i \in 1..Len(r.entries) : r.entries[i].tag = "Utf8" =>
           i \in 1..n /\ r.entries[i] = p.entries[i]
    <3> SUFFICES ASSUME NEW i \in 1..(n + m), i \notin 1..n
                 PROVE  es[i].tag # "Utf8"
      BY <1>2, <1>3, <1>4
    <3>1. i - n \in 1..m /\ es[i] = slots[i - n]
      BY <1>2, <1>3
    <3> QED BY <3>1
  <2>2. ASSUME NEW s \in Strings, r.cache[s] # 0
        PROVE  IsUtf8(r.entries, r.cache[s], s)
    <3>1. IsUtf8(p.entries, r.cache[s], s)
      BY <2>2, <1>1, <1>4 DEF CacheExact
    <3> QED BY <3>1, <1>1, <1>4, <1>6, Utf8Stays
  <2> QED BY <2>1, <2>2, <1>1, <1>4 DEF CacheExact
<1>8. r.index \in 1..Len(r.entries) /\ r.entries[r.index] = slots[1]
  BY <1>2, <1>3, <1>4
<1> QED BY <1>b, <1>4, <1>5, <1>6, <1>7, <1>8 DEF Added, Sound

(* A failed addition. *)
LEMMA FailedSound ==
  ASSUME NEW p, Sound(p), p.looping \/ p.spare = -1, NEW e
  PROVE  Added(Failed(p), p, e)
<1>1. p \in Pool /\ Bounded(p)
  BY DEF Sound
<1>2. /\ Failed(p) \in Pool /\ Failed(p).entries = p.entries /\ Failed(p).cache = p.cache
      /\ Failed(p).looping = p.looping /\ Failed(p).spare = p.spare /\ Failed(p).index = 0
      /\ Failed(p).capacity = p.capacity /\ Failed(p).room = p.room
  BY <1>1 DEF Failed, Pool
<1>3. Bounded(Failed(p))
  BY <1>1, <1>2 DEF Bounded, Count
<1> QED BY <1>2, <1>3, SameEntries DEF Added, NoResult

(* An entry of any kind but a text, with room made for it. *)
LEMMA StoreSound ==
  ASSUME NEW p, Sound(p), NEW slots \in Seq(EntryType), Len(slots) \in 1..2,
         \A k \in 1..Len(slots) : slots[k].tag # "Utf8", Paired(slots)
  PROVE  Added(Store(Ensure(p, Len(slots)), slots), p, slots[1])
<1> DEFINE q == Ensure(p, Len(slots))
           r == Store(q, slots)
<1>1. Ensured(q, p, Len(slots))
  BY EnsureSound
<1> HIDE DEF q
<1>2. Added(r, q, slots[1])
  <2>1. CASE q.room
    <3>1. r = [q EXCEPT !.entries = @ \o slots, !.index = Len(q.entries) + 1]
      BY <2>1 DEF Store
    <3> HIDE DEF r
    <3> QED BY <3>1, <2>1, <1>1, AppendSound DEF Ensured
  <2>2. CASE ~q.room
    BY <2>2, <1>1, FailedSound DEF Store, Ensured
  <2> QED BY <2>1, <2>2
<1> HIDE DEF r
<1>3. p \in Pool /\ q \in Pool /\ r \in Pool
  BY <1>1, <1>2 DEF Ensured, Added, Sound
<1>4. Extends(r, p)
  BY <1>1, <1>2, <1>3, ExtendsTransitive DEF Ensured, Added
<1> QED BY <1>2, <1>4 DEF Added, q, r
(* A slot with indices is an entry; so is a slot with nothing. *)
LEMMA EntryTyped ==
  ASSUME NEW tag \in Tags, NEW refs \in Seq(Nat)
  PROVE  Entry(tag, NoData, refs) \in EntryType /\ Entry(tag, NoData, refs).tag = tag
BY DEF Entry, EntryType

(* One slot, whose indices are not looked at. *)
LEMMA UncheckedSound ==
  ASSUME NEW p, Sound(p), NEW tag \in Singles, NEW refs \in Seq(Nat)
  PROVE  Added(Store(Ensure(p, 1), <<Entry(tag, NoData, refs)>>), p, Entry(tag, NoData, refs))
<1> DEFINE e == Entry(tag, NoData, refs)
           slots == <<e>>
<1>1. e \in EntryType /\ e.tag \notin Wide \cup {"Gap", "Utf8"}
  BY EntryTyped DEF Singles
<1> HIDE DEF e
<1>2. /\ slots \in Seq(EntryType) /\ Len(slots) = 1 /\ slots[1] = e
      /\ \A k \in 1..1 : slots[k] = e
  BY <1>1
<1> HIDE DEF slots
<1>3. (\A k \in 1..Len(slots) : slots[k].tag # "Utf8") /\ Paired(slots)
  BY <1>1, <1>2 DEF Paired
<1>4. Added(Store(Ensure(p, Len(slots)), slots), p, slots[1])
  <2>1. Len(slots) \in 1..2
    BY <1>2
  <2> QED BY <2>1, <1>2, <1>3, StoreSound
<1>5. Added(Store(Ensure(p, 1), slots), p, e)
  BY <1>2, <1>4
<1> QED BY <1>5 DEF e, slots

LEMMA NarrowSound ==
  ASSUME NEW p, Sound(p), NEW tag \in Singles
  PROVE  Added(AddNarrow(p, tag), p, Entry(tag, NoData, <<>>))
<1>1. <<>> \in Seq(Nat)
  OBVIOUS
<1> QED BY <1>1, UncheckedSound DEF AddNarrow

(* The entry and the slot behind it. *)
LEMMA WideSound ==
  ASSUME NEW p, Sound(p), NEW tag \in Wide
  PROVE  Added(AddWide(p, tag), p, Entry(tag, NoData, <<>>))
<1> DEFINE e == Entry(tag, NoData, <<>>)
           slots == <<e, Gap>>
<1>1. <<>> \in Seq(Nat)
  OBVIOUS
<1>2. e \in EntryType /\ e.tag \in Wide /\ e.tag \notin {"Gap", "Utf8"}
  <2>1. tag \in Tags /\ tag \notin {"Gap", "Utf8"}
    BY DEF Wide, Tags
  <2> QED BY <1>1, <2>1, EntryTyped
<1>3. Gap \in EntryType /\ Gap.tag = "Gap" /\ "Gap" \notin Wide
  BY <1>1 DEF Gap, EntryType, Tags, Wide
<1> HIDE DEF e
<1>4. slots \in Seq(EntryType) /\ Len(slots) = 2 /\ slots[1] = e /\ slots[2] = Gap
  BY <1>2, <1>3
<1> HIDE DEF slots
<1>5. (\A k \in 1..Len(slots) : slots[k].tag # "Utf8") /\ Paired(slots)
  BY <1>2, <1>3, <1>4 DEF Paired
<1>6. Added(Store(Ensure(p, Len(slots)), slots), p, slots[1])
  <2>1. Len(slots) \in 1..2
    BY <1>4
  <2> QED BY <2>1, <1>4, <1>5, StoreSound
<1>7. Added(Store(Ensure(p, 2), slots), p, e)
  BY <1>4, <1>6
<1> QED BY <1>7 DEF AddWide, e, slots

(* Entries that need a result of every operation before. *)
LEMMA LinkSound ==
  ASSUME NEW p, Sound(p), NEW tag \in Singles, NEW refs \in Seq(Nat),
         (\E k \in DOMAIN refs : refs[k] = 0) => p.looping \/ p.spare = -1
  PROVE  /\ Added(Link(p, tag, refs), p, Entry(tag, NoData, refs))
         /\ (\E k \in DOMAIN refs : refs[k] = 0) => NoResult(Link(p, tag, refs))
<1>1. CASE \E k \in DOMAIN refs : refs[k] = 0
  <2>1. Link(p, tag, refs) = Failed(p)
    BY <1>1 DEF Link
  <2>2. NoResult(Failed(p))
    BY <1>1 DEF NoResult, Failed, Sound, Pool
  <2> QED BY <2>1, <2>2, <1>1, FailedSound
<1>2. CASE ~(\E k \in DOMAIN refs : refs[k] = 0)
  BY <1>2, UncheckedSound DEF Link
<1> QED BY <1>1, <1>2

(* Utf8 entries: found in the cache, or added and remembered. *)
LEMMA Utf8Sound ==
  ASSUME NEW p, Sound(p), NEW str \in Strings
  PROVE  /\ Sound(AddUtf8(p, str)) /\ Extends(AddUtf8(p, str), p)
         /\ NoResult(AddUtf8(p, str))
              \/ IsUtf8(AddUtf8(p, str).entries, AddUtf8(p, str).index, str)
<1> DEFINE r == AddUtf8(p, str)
           n == Len(p.entries)
           e == Entry("Utf8", str, <<>>)
<1> SUFFICES /\ Sound(r) /\ Extends(r, p)
             /\ NoResult(r) \/ IsUtf8(r.entries, r.index, str)
  OBVIOUS
<1>1. p \in Pool /\ CacheExact(p) /\ Bounded(p) /\ p.entries \in Seq(EntryType) /\ n \in Nat
  BY DEF Sound, Pool
<1>2. CASE p.cache[str] # 0
  <2>1. r = [p EXCEPT !.index = p.cache[str]]
    BY <1>2 DEF AddUtf8
  <2>2. p.cache[str] \in Nat
    BY <1>1 DEF Pool
  <2> HIDE DEF r
  <2>3. /\ r \in Pool /\ r.entries = p.entries /\ r.cache = p.cache
        /\ r.looping = p.looping /\ r.spare = p.spare /\ r.index = p.cache[str]
        /\ r.capacity = p.capacity /\ r.room = p.room
    BY <2>1, <2>2, <1>1 DEF Pool
  <2>4. Bounded(r)
    BY <2>3, <1>1 DEF Bounded, Count
  <2>5. IsUtf8(r.entries, r.index, str)
    BY <2>3, <1>1, <1>2 DEF CacheExact
  <2> QED BY <2>3, <2>4, <2>5, SameEntries
<1>3. CASE p.cache[str] = 0
  <2> DEFINE q == Ensure(p, 1)
  <2>1. r = Remember(Store(q, <<e>>), str)
    BY <1>3 DEF AddUtf8
  <2>2. Ensured(q, p, 1)
    BY EnsureSound
  <2> HIDE DEF q, r
  <2>3. q \in Pool /\ Bounded(q) /\ CacheExact(q) /\ Extends(q, p) /\ Sound(q)
    BY <2>2 DEF Ensured, Sound
  <2>4. CASE ~q.room
    <3>1. r = Failed(q)
      BY <2>1, <2>3, <2>4 DEF Store, Remember, Failed, Pool
    <3>2. Added(Failed(q), q, e) /\ NoResult(Failed(q))
      BY <2>2, <2>3, <2>4, FailedSound DEF Ensured, NoResult, Failed, Pool
    <3>3. Extends(r, p)
      BY <3>1, <3>2, <2>3, <1>1, ExtendsTransitive DEF Added, Sound
    <3> QED BY <3>1, <3>2, <3>3 DEF Added
  <2>5. CASE q.room
    <3> DEFINE es == q.entries \o <<e>>
               cc == [q.cache EXCEPT ![str] = n + 1]
    <3>1. e \in EntryType /\ e.tag = "Utf8" /\ e.data = str /\ "Utf8" \notin Wide
      BY DEF Entry, EntryType, Tags, Wide
    <3>2. q.entries = p.entries /\ q.cache = p.cache /\ ~q.looping /\ Fits(q, 1)
      BY <2>2, <2>5 DEF Ensured
    <3> HIDE DEF e
    <3>3. /\ es \in Seq(EntryType) /\ Len(es) = n + 1
          /\ \A i \in 1..n : es[i] = p.entries[i]
          /\ es[n + 1] = e
      BY <3>1, <3>2, <1>1
    <3>p. Paired(es)
      <4> DEFINE one == <<e>>
      <4>1. one \in Seq(EntryType) /\ Len(one) = 1 /\ one[1] = e
        BY <3>1
      <4> HIDE DEF one
      <4>2. Paired(one)
        BY <3>1, <4>1 DEF Paired
      <4>3. q.entries \in Seq(EntryType) /\ Paired(q.entries)
        BY <1>1, <3>2, <2>3 DEF Sound
      <4>4. Paired(q.entries \o one)
        BY <4>1, <4>2, <4>3, PairedConcat
      <4> QED BY <4>4 DEF one
    <3>4. Len(<<e>>) = 1 /\ n + 1 # 0 /\ n + 1 \in Nat
      BY <1>1
    <3>5. cc \in [Strings -> Nat]
      BY <2>3, <3>4 DEF Pool
    <3>6. r = [q EXCEPT !.entries = es, !.index = n + 1, !.cache = cc]
      <4>1. Store(q, <<e>>) = [q EXCEPT !.entries = es, !.index = n + 1]
        BY <2>5, <3>2 DEF Store
      <4>2. Store(q, <<e>>).index = n + 1 /\ Store(q, <<e>>).cache = q.cache
        BY <4>1, <2>3 DEF Pool
      <4>3. r = [Store(q, <<e>>) EXCEPT !.cache[str] = n + 1]
        BY <2>1, <4>2, <3>4 DEF Remember, e
      <4> QED BY <4>1, <4>2, <4>3, <2>3 DEF Pool
    <3> HIDE DEF es, cc, n
    <3>7. /\ r \in Pool /\ r.entries = es /\ r.cache = cc /\ r.index = n + 1
          /\ r.looping = q.looping /\ r.spare = q.spare /\ r.capacity = q.capacity
          /\ r.room = q.room
      BY <3>6, <3>3, <3>4, <3>5, <2>3 DEF Pool
    <3> USE DEF n
    <3>8. Bounded(r)
      BY <3>2, <3>3, <3>7, <1>1 DEF Bounded, Fits, Count
    <3>9. Extends(r, p)
      BY <3>2, <3>3, <3>7, <2>3, <1>1 DEF Extends
    <3>10. IsUtf8(r.entries, r.index, str)
      BY <3>1, <3>3, <3>4, <3>7, <1>1 DEF IsUtf8, Holds
    <3>11. CacheExact(r)
      <4>1. cc[str] = n + 1 /\ \A s \in Strings : s # str => cc[s] = p.cache[s]
        BY <3>2, <1>1 DEF cc, Pool
      <4>2. ASSUME NEW s \in Strings, r.cache[s] # 0
            PROVE  IsUtf8(r.entries, r.cache[s], s)
        <5>1. CASE s = str
          BY <5>1, <4>1, <3>7, <3>10
        <5>2. CASE s # str
          <6>1. IsUtf8(p.entries, r.cache[s], s)
            BY <5>2, <4>1, <4>2, <3>7, <1>1 DEF CacheExact
          <6> QED BY <6>1, <1>1, <3>7, <3>9, Utf8Stays
        <5> QED BY <5>1, <5>2
      <4>3. ASSUME NEW i \in 1..Len(r.entries), r.entries[i].tag = "Utf8"
            PROVE  r.entries[i].data \in Strings /\ r.cache[r.entries[i].data] = i
        <5>1. CASE i = n + 1
          BY <5>1, <4>1, <3>1, <3>3, <3>7
        <5>2. CASE i # n + 1
          <6>1. i \in 1..n /\ r.entries[i] = p.entries[i]
            BY <5>2, <3>3, <3>7, <1>1
          <6>2. p.entries[i].data \in Strings /\ p.cache[p.entries[i].data] = i
            BY <6>1, <4>3, <1>1 DEF CacheExact
          <6>3. p.entries[i].data # str
            BY <6>1, <6>2, <1>3, <1>1
          <6> QED BY <6>1, <6>2, <6>3, <4>1, <3>7
        <5> QED BY <5>1, <5>2
      <4> QED BY <4>2, <4>3 DEF CacheExact
    <3> QED BY <3>p, <3>7, <3>8, <3>9, <3>10, <3>11 DEF Sound
  <2> QED BY <2>4, <2>5
<1>4. p.cache[str] \in Nat
  BY <1>1 DEF Pool
<1> QED BY <1>2, <1>3
(* The entry that an operation added, in the pool that holds it. *)
LEMMA AddedHolds ==
  ASSUME NEW r, NEW p, NEW tag, NEW refs, Added(r, p, Entry(tag, NoData, refs))
  PROVE  NoResult(r) \/ (Holds(r.entries, r.index, tag) /\ r.entries[r.index].refs = refs)
BY DEF Added, Holds, Entry

(* cp_add_class and cp_add_string. *)
LEMMA TextSound ==
  ASSUME NEW p, Sound(p), NEW tag \in Singles, NEW str \in Strings,
         NEW r, r = LinkOne(tag, AddUtf8(p, str))
  PROVE  /\ Sound(r) /\ Extends(r, p)
         /\ NoResult(r) \/ IsText(r.entries, r.index, tag, str)
<1> DEFINE q == AddUtf8(p, str)
           refs == <<q.index>>
<1>1. Sound(q) /\ Extends(q, p) /\ (NoResult(q) \/ IsUtf8(q.entries, q.index, str))
  BY Utf8Sound
<1> HIDE DEF q
<1>2. p \in Pool /\ q \in Pool /\ q.index \in Nat
  BY <1>1 DEF Sound, Pool
<1>3. refs \in Seq(Nat) /\ DOMAIN refs = {1} /\ refs[1] = q.index
  BY <1>2
<1>4. q.index = 0 => q.looping \/ q.spare = -1
  BY <1>1 DEF NoResult, IsUtf8, Holds
<1>5. r = Link(q, tag, refs)
  BY DEF LinkOne, q
<1> HIDE DEF refs
<1>6. Added(r, q, Entry(tag, NoData, refs)) /\ (q.index = 0 => NoResult(r))
  BY <1>1, <1>3, <1>4, <1>5, LinkSound
<1>7. Sound(r) /\ Extends(r, q) /\ r \in Pool
  BY <1>6 DEF Added, Sound
<1>8. Extends(r, p)
  BY <1>1, <1>2, <1>7, ExtendsTransitive
<1>9. NoResult(r) \/ IsText(r.entries, r.index, tag, str)
  <2> SUFFICES ASSUME ~NoResult(r) PROVE IsText(r.entries, r.index, tag, str)
    OBVIOUS
  <2>1. Holds(r.entries, r.index, tag) /\ r.entries[r.index].refs = refs
    BY <1>6, AddedHolds
  <2>2. IsUtf8(q.entries, q.index, str)
    BY <1>1, <1>6, <1>7 DEF NoResult, Extends
  <2>3. IsUtf8(r.entries, q.index, str)
    BY <2>2, <1>2, <1>7, Utf8Stays
  <2> QED BY <2>1, <2>3, <1>3 DEF IsText
<1> QED BY <1>7, <1>8, <1>9

(* An entry that refers to the results of two operations, q and then r. *)
LEMMA BothSound ==
  ASSUME NEW q, NEW r, Sound(q), Sound(r), Extends(r, q), NEW tag \in Singles,
         q.index = 0 => NoResult(q), r.index = 0 => NoResult(r),
         NEW t, t = LinkBoth(tag, q, r)
  PROVE  /\ Sound(t) /\ Extends(t, r)
         /\ NoResult(q) \/ NoResult(r) => NoResult(t)
         /\ NoResult(t) \/ ( /\ Holds(t.entries, t.index, tag)
                             /\ t.entries[t.index].refs = <<q.index, r.index>> )
<1> DEFINE refs == <<q.index, r.index>>
<1>1. q.index \in Nat /\ r.index \in Nat
  BY DEF Sound, Pool
<1>2. refs \in Seq(Nat) /\ DOMAIN refs = {1, 2} /\ refs[1] = q.index /\ refs[2] = r.index
  BY <1>1
<1>3. q.index = 0 \/ r.index = 0 => r.looping \/ r.spare = -1
  BY DEF NoResult, Extends
<1>4. t = Link(r, tag, refs)
  BY DEF LinkBoth
<1> HIDE DEF refs
<1>5. Added(t, r, Entry(tag, NoData, refs)) /\ (q.index = 0 \/ r.index = 0 => NoResult(t))
  BY <1>2, <1>3, <1>4, LinkSound
<1>6. NoResult(t) \/ (Holds(t.entries, t.index, tag) /\ t.entries[t.index].refs = refs)
  BY <1>5, AddedHolds
<1>7. NoResult(q) \/ NoResult(r) => NoResult(t)
  BY <1>5 DEF Added, NoResult, Extends
<1> QED BY <1>5, <1>6, <1>7 DEF Added, refs

(* cp_add_name_and_type. *)
LEMMA NameAndTypeSound ==
  ASSUME NEW p, Sound(p), NEW name \in Strings, NEW descriptor \in Strings,
         NEW t, t = AddNameAndType(p, name, descriptor)
  PROVE  /\ Sound(t) /\ Extends(t, p)
         /\ NoResult(t) \/ IsNameAndType(t.entries, t.index, name, descriptor)
<1> DEFINE q == AddUtf8(p, name)
           r == AddUtf8(q, descriptor)
<1>1. Sound(q) /\ Extends(q, p) /\ (NoResult(q) \/ IsUtf8(q.entries, q.index, name))
  BY Utf8Sound
<1>2. t = LinkBoth("NameAndType", q, r)
  BY DEF AddNameAndType, DescribedBy
<1> HIDE DEF q
<1>3. Sound(r) /\ Extends(r, q) /\ (NoResult(r) \/ IsUtf8(r.entries, r.index, descriptor))
  BY <1>1, Utf8Sound
<1> HIDE DEF r
<1>4. (q.index = 0 => NoResult(q)) /\ (r.index = 0 => NoResult(r)) /\ "NameAndType" \in Singles
  BY <1>1, <1>3 DEF IsUtf8, Holds, Tags, Singles, Wide
<1>5. /\ Sound(t) /\ Extends(t, r)
      /\ NoResult(q) \/ NoResult(r) => NoResult(t)
      /\ NoResult(t) \/ ( /\ Holds(t.entries, t.index, "NameAndType")
                          /\ t.entries[t.index].refs = <<q.index, r.index>> )
  BY <1>1, <1>2, <1>3, <1>4, BothSound
<1>6. p \in Pool /\ q \in Pool /\ r \in Pool /\ t \in Pool
  BY <1>1, <1>3, <1>5 DEF Sound
<1>7. Extends(t, q) /\ Extends(t, p)
  BY <1>1, <1>3, <1>5, <1>6, ExtendsTransitive
<1>8. NoResult(t) \/ IsNameAndType(t.entries, t.index, name, descriptor)
  <2> SUFFICES ASSUME ~NoResult(t) PROVE IsNameAndType(t.entries, t.index, name, descriptor)
    OBVIOUS
  <2>1. IsUtf8(t.entries, q.index, name)
    BY <1>1, <1>5, <1>6, <1>7, Utf8Stays
  <2>2. IsUtf8(t.entries, r.index, descriptor)
    BY <1>3, <1>5, <1>6, Utf8Stays
  <2> QED BY <2>1, <2>2, <1>5 DEF IsNameAndType
<1> QED BY <1>5, <1>7, <1>8

(* cp_add_fieldref, cp_add_methodref and cp_add_interface_methodref. *)
LEMMA MemberSound ==
  ASSUME NEW p, Sound(p), NEW tag \in Singles,
         NEW class \in Strings, NEW name \in Strings, NEW descriptor \in Strings,
         NEW t, t = AddMember(p, tag, class, name, descriptor)
  PROVE  /\ Sound(t) /\ Extends(t, p)
         /\ NoResult(t) \/ IsMember(t.entries, t.index, tag, class, name, descriptor)
<1> DEFINE q == AddClass(p, class)
           r == AddNameAndType(q, name, descriptor)
<1>1. Sound(q) /\ Extends(q, p) /\ (NoResult(q) \/ IsText(q.entries, q.index, "Class", class))
  <2>1. "Class" \in Singles
    BY DEF Tags, Singles, Wide
  <2> QED BY <2>1, TextSound DEF AddClass
<1>2. t = LinkBoth(tag, q, r)
  BY DEF AddMember, MemberOf
<1> HIDE DEF q
<1>3. /\ Sound(r) /\ Extends(r, q)
      /\ NoResult(r) \/ IsNameAndType(r.entries, r.index, name, descriptor)
  BY <1>1, NameAndTypeSound
<1> HIDE DEF r
<1>4. (q.index = 0 => NoResult(q)) /\ (r.index = 0 => NoResult(r))
  BY <1>1, <1>3 DEF IsText, IsNameAndType, Holds
<1>5. /\ Sound(t) /\ Extends(t, r)
      /\ NoResult(q) \/ NoResult(r) => NoResult(t)
      /\ NoResult(t) \/ ( /\ Holds(t.entries, t.index, tag)
                          /\ t.entries[t.index].refs = <<q.index, r.index>> )
  BY <1>1, <1>2, <1>3, <1>4, BothSound
<1>6. p \in Pool /\ q \in Pool /\ r \in Pool /\ t \in Pool
  BY <1>1, <1>3, <1>5 DEF Sound
<1>7. Extends(t, q) /\ Extends(t, p)
  BY <1>1, <1>3, <1>5, <1>6, ExtendsTransitive
<1>8. NoResult(t) \/ IsMember(t.entries, t.index, tag, class, name, descriptor)
  <2> SUFFICES ASSUME ~NoResult(t)
               PROVE  IsMember(t.entries, t.index, tag, class, name, descriptor)
    OBVIOUS
  <2>1. IsText(t.entries, q.index, "Class", class)
    BY <1>1, <1>5, <1>6, <1>7, TextStays
  <2>2. IsNameAndType(t.entries, r.index, name, descriptor)
    BY <1>3, <1>5, <1>6, NameAndTypeStays
  <2> QED BY <2>1, <2>2, <1>5 DEF IsMember
<1> QED BY <1>5, <1>7, <1>8

(* A method handle, which is added whatever the reference is. *)
LEMMA HandleSound ==
  ASSUME NEW p, Sound(p),
         NEW class \in Strings, NEW name \in Strings, NEW descriptor \in Strings,
         NEW t, t = HandleOf(AddMember(p, "Methodref", class, name, descriptor))
  PROVE  /\ Sound(t) /\ Extends(t, p)
         /\ t.looping \/ t.spare = -1 \/ IsHandle(t.entries, t.index, class, name, descriptor)
<1> DEFINE q == AddMember(p, "Methodref", class, name, descriptor)
           refs == <<q.index>>
<1>1. /\ Sound(q) /\ Extends(q, p)
      /\ NoResult(q) \/ IsMember(q.entries, q.index, "Methodref", class, name, descriptor)
  <2>1. "Methodref" \in Singles
    BY DEF Tags, Singles, Wide
  <2> QED BY <2>1, MemberSound
<1> HIDE DEF q
<1>2. t = Store(Ensure(q, 1), <<Entry("MethodHandle", NoData, refs)>>)
  BY DEF HandleOf, AddMethodHandle, q
<1>3. p \in Pool /\ q \in Pool /\ q.index \in Nat
  BY <1>1 DEF Sound, Pool
<1>4. refs \in Seq(Nat) /\ refs[1] = q.index /\ "MethodHandle" \in Singles
  BY <1>3 DEF Tags, Singles, Wide
<1> HIDE DEF refs
<1>5. Added(t, q, Entry("MethodHandle", NoData, refs))
  BY <1>1, <1>2, <1>4, UncheckedSound
<1>6. Sound(t) /\ Extends(t, q) /\ t \in Pool
  BY <1>5 DEF Added, Sound
<1>7. Extends(t, p)
  BY <1>1, <1>3, <1>6, ExtendsTransitive
<1>8. t.looping \/ t.spare = -1 \/ IsHandle(t.entries, t.index, class, name, descriptor)
  <2> SUFFICES ASSUME ~t.looping, t.spare # -1
               PROVE  IsHandle(t.entries, t.index, class, name, descriptor)
    OBVIOUS
  <2>1. Holds(t.entries, t.index, "MethodHandle") /\ t.entries[t.index].refs = refs
    BY <1>5, AddedHolds DEF NoResult
  <2>2. IsMember(q.entries, q.index, "Methodref", class, name, descriptor)
    BY <1>1, <1>6 DEF NoResult, Extends
  <2>3. IsMember(t.entries, q.index, "Methodref", class, name, descriptor)
    BY <2>2, <1>3, <1>6, MemberStays
  <2> QED BY <2>1, <2>3, <1>4 DEF IsHandle
<1> QED BY <1>6, <1>7, <1>8
(* indy_emit_operation behind its bootstrap method. *)
LEMMA SiteSound ==
  ASSUME NEW p, Sound(p), NEW b \in Nat, NEW site \in Strings \X Strings,
         NEW t, t = CallSite(p, b, site)
  PROVE  /\ Sound(t) /\ Extends(t, p)
         /\ \/ t.looping \/ t.spare = -1
            \/ /\ Holds(t.entries, t.index, "InvokeDynamic")
               /\ t.entries[t.index].refs[1] = b
               /\ IsNameAndType(t.entries, t.entries[t.index].refs[2], site[1], site[2])
<1> DEFINE q == AddNameAndType(p, site[1], site[2])
           refs == <<b, q.index>>
<1>1. /\ Sound(q) /\ Extends(q, p)
      /\ NoResult(q) \/ IsNameAndType(q.entries, q.index, site[1], site[2])
  BY NameAndTypeSound
<1> HIDE DEF q
<1>2. t = Store(Ensure(q, 1), <<Entry("InvokeDynamic", NoData, refs)>>)
  BY DEF CallSite, SiteAt, AddInvokeDynamic, q
<1>3. p \in Pool /\ q \in Pool /\ q.index \in Nat
  BY <1>1 DEF Sound, Pool
<1>4. refs \in Seq(Nat) /\ refs[1] = b /\ refs[2] = q.index /\ "InvokeDynamic" \in Singles
  BY <1>3 DEF Tags, Singles, Wide
<1> HIDE DEF refs
<1>5. Added(t, q, Entry("InvokeDynamic", NoData, refs))
  BY <1>1, <1>2, <1>4, UncheckedSound
<1>6. Sound(t) /\ Extends(t, q) /\ t \in Pool
  BY <1>5 DEF Added, Sound
<1>7. Extends(t, p)
  BY <1>1, <1>3, <1>6, ExtendsTransitive
<1>8. ASSUME ~t.looping, t.spare # -1
      PROVE  /\ Holds(t.entries, t.index, "InvokeDynamic")
             /\ t.entries[t.index].refs[1] = b
             /\ IsNameAndType(t.entries, t.entries[t.index].refs[2], site[1], site[2])
  <2>1. Holds(t.entries, t.index, "InvokeDynamic") /\ t.entries[t.index].refs = refs
    BY <1>5, <1>8, AddedHolds DEF NoResult
  <2>2. IsNameAndType(q.entries, q.index, site[1], site[2])
    BY <1>1, <1>6, <1>8 DEF NoResult, Extends
  <2>3. IsNameAndType(t.entries, q.index, site[1], site[2])
    BY <2>2, <1>3, <1>6, NameAndTypeStays
  <2> QED BY <2>1, <2>3, <1>4
<1> QED BY <1>6, <1>7, <1>8

(* Naming the table of bootstrap methods keeps the index of the handle. *)
LEMMA NameTableSound ==
  ASSUME NEW q, Sound(q), NEW t, t = NameTable(q)
  PROVE  Sound(t) /\ Extends(t, q) /\ t.index = q.index
<1>1. q \in Pool /\ Bounded(q) /\ Len(q.entries) \in Nat
  BY DEF Sound, Pool
<1>2. CASE methods = <<>>
  <2> DEFINE r == AddUtf8(q, BOOTSTRAP_METHODS)
  <2>1. BOOTSTRAP_METHODS \in Strings
    BY ClassAssumption
  <2>2. Sound(r) /\ Extends(r, q)
    BY <2>1, Utf8Sound
  <2>3. t = [r EXCEPT !.index = q.index]
    BY <1>2 DEF NameTable
  <2> HIDE DEF r
  <2>4. r \in Pool /\ Bounded(r)
    BY <2>2 DEF Sound
  <2>5. q.index \in Nat
    BY <1>1 DEF Pool
  <2>6. /\ t \in Pool /\ t.entries = r.entries /\ t.cache = r.cache /\ t.index = q.index
        /\ t.looping = r.looping /\ t.spare = r.spare /\ t.capacity = r.capacity
        /\ t.room = r.room
    BY <2>3, <2>4, <2>5 DEF Pool
  <2>7. Bounded(t)
    BY <2>4, <2>6 DEF Bounded, Count
  <2>8. Sound(t) /\ Extends(t, r)
    BY <2>2, <2>6, <2>7, SameEntries
  <2> QED BY <1>1, <2>2, <2>4, <2>6, <2>8, ExtendsTransitive
<1>3. CASE methods # <<>>
  <2>1. t = q
    BY <1>3 DEF NameTable
  <2> QED BY <2>1, <1>1 DEF Extends
<1> QED BY <1>2, <1>3

-----------------------------------------------------------------------------
(* The specification *)

UseType == [kind : Kinds, args : Seq(Strings), index : Nat]

UseOK(u, p, table) ==
  IF u.kind \in Unchecked
  THEN p.spare = -1 \/ Resolves(u, p.entries, table)
  ELSE (u.index = 0 /\ p.spare = -1) \/ Resolves(u, p.entries, table)

(* A cached bootstrap method is in the table and, unless an allocation has *)
(* failed, its handle is the function of that name.                        *)
BootstrapOK(op, b, p, table) ==
  b >= 0 =>
    /\ b + 1 \in 1..Len(table)
    /\ p.spare = -1 \/ IsHandle(p.entries, table[b + 1], LRT_BOOTSTRAP, op, BSM_DESC)

(* The inductive invariant. *)
IInv ==
  /\ Sound(cp)
  /\ methods \in Seq(Nat)
  /\ bsm \in [Operations -> Nat \cup {-1}]
  /\ uses \in Seq(UseType)
  /\ \A k \in 1..Len(uses) : UseOK(uses[k], cp, methods)
  /\ \A op \in Operations : BootstrapOK(op, bsm[op], cp, methods)

(* A longer table of bootstrap methods. *)
TableExtends(table, ms) ==
  /\ table \in Seq(Nat) /\ Len(ms) <= Len(table)
  /\ \A i \in 1..Len(ms) : table[i] = ms[i]

LEMMA UseStays ==
  ASSUME NEW p \in Pool, NEW q \in Pool, Extends(q, p), NEW ms \in Seq(Nat), NEW table,
         TableExtends(table, ms), NEW u, UseOK(u, p, ms)
  PROVE  UseOK(u, q, table)
<1>1. p.spare = -1 => q.spare = -1
  BY DEF Extends
<1>2. ASSUME Resolves(u, p.entries, ms)
      PROVE  Resolves(u, q.entries, table)
  <2>1. CASE u.kind \in {"Integer", "Float", "Long", "Double"}
    BY <1>2, <2>1, HoldsStays DEF Resolves
  <2>2. CASE u.kind = "Utf8"
    BY <1>2, <2>2, Utf8Stays DEF Resolves
  <2>3. CASE u.kind \in {"Class", "String"}
    BY <1>2, <2>3, TextStays DEF Resolves
  <2>4. CASE u.kind \in {"Fieldref", "Methodref", "InterfaceMethodref"}
    BY <1>2, <2>4, MemberStays DEF Resolves
  <2>5. CASE u.kind = "MethodHandle"
    BY <1>2, <2>5, HandleStays DEF Resolves
  <2>6. CASE u.kind = "InvokeDynamic"
    <3> DEFINE e == p.entries[u.index]
    <3>1. /\ Holds(p.entries, u.index, "InvokeDynamic")
          /\ IsNameAndType(p.entries, e.refs[2], u.args[2], u.args[3])
          /\ e.refs[1] + 1 \in 1..Len(ms)
          /\ IsHandle(p.entries, ms[e.refs[1] + 1], LRT_BOOTSTRAP, u.args[1], BSM_DESC)
      BY <1>2, <2>6 DEF Resolves
    <3>2. Holds(q.entries, u.index, "InvokeDynamic") /\ q.entries[u.index] = e
      BY <3>1, HoldsStays
    <3> HIDE DEF e
    <3>3. IsNameAndType(q.entries, e.refs[2], u.args[2], u.args[3])
      BY <3>1, NameAndTypeStays
    <3>4. e.refs[1] + 1 \in 1..Len(table) /\ table[e.refs[1] + 1] = ms[e.refs[1] + 1]
      BY <3>1, SMTT(30) DEF TableExtends
    <3>5. IsHandle(q.entries, table[e.refs[1] + 1], LRT_BOOTSTRAP, u.args[1], BSM_DESC)
      BY <3>1, <3>4, HandleStays
    <3> QED BY <3>2, <3>3, <3>4, <3>5, <2>6 DEF Resolves
  <2> QED BY <1>2, <2>1, <2>2, <2>3, <2>4, <2>5, <2>6 DEF Resolves
<1> QED BY <1>1, <1>2 DEF UseOK

LEMMA BootstrapStays ==
  ASSUME NEW p \in Pool, NEW q \in Pool, Extends(q, p), NEW ms \in Seq(Nat), NEW table,
         TableExtends(table, ms), NEW op, NEW b \in Nat \cup {-1}, BootstrapOK(op, b, p, ms)
  PROVE  BootstrapOK(op, b, q, table)
<1> SUFFICES ASSUME b >= 0
             PROVE  /\ b + 1 \in 1..Len(table)
                    /\ \/ q.spare = -1
                       \/ IsHandle(q.entries, table[b + 1], LRT_BOOTSTRAP, op, BSM_DESC)
  BY DEF BootstrapOK
<1>1. b + 1 \in 1..Len(ms) /\ b + 1 \in 1..Len(table) /\ table[b + 1] = ms[b + 1]
  BY DEF BootstrapOK, TableExtends
<1>2. CASE p.spare = -1
  BY <1>1, <1>2 DEF Extends
<1>3. CASE IsHandle(p.entries, ms[b + 1], LRT_BOOTSTRAP, op, BSM_DESC)
  BY <1>1, <1>3, HandleStays
<1> QED BY <1>2, <1>3 DEF BootstrapOK

(* One use: entries are added behind, the table may grow, and the use that *)
(* is emitted is right in the pool that results.                           *)
LEMMA UseStep ==
  ASSUME IInv, Sound(cp'), Extends(cp', cp), NEW u \in UseType, Emit(cp', u),
         TableExtends(methods', methods),
         ~cp'.looping => UseOK([u EXCEPT !.index = cp'.index], cp', methods')
  PROVE  /\ uses' \in Seq(UseType)
         /\ \A k \in 1..Len(uses') : UseOK(uses'[k], cp', methods')
         /\ \A op \in Operations : BootstrapOK(op, bsm[op], cp', methods')
<1>1. cp \in Pool /\ cp' \in Pool /\ cp'.index \in Nat /\ methods \in Seq(Nat) /\ uses \in Seq(UseType)
  BY DEF IInv, Sound, Pool
<1>2. \A k \in 1..Len(uses) : UseOK(uses[k], cp', methods')
  BY <1>1, UseStays DEF IInv
<1>3. \A op \in Operations : BootstrapOK(op, bsm[op], cp', methods')
  BY <1>1, BootstrapStays DEF IInv
<1>4. CASE cp'.looping
  BY <1>1, <1>2, <1>3, <1>4 DEF Emit
<1>5. CASE ~cp'.looping
  <2> DEFINE v == [u EXCEPT !.index = cp'.index]
  <2>1. v \in UseType
    BY <1>1 DEF UseType
  <2>2. uses' = Append(uses, v)
    BY <1>5 DEF Emit
  <2>3. UseOK(v, cp', methods')
    BY <1>5
  <2> HIDE DEF v
  <2>4. /\ uses' \in Seq(UseType) /\ Len(uses') = Len(uses) + 1
        /\ \A k \in 1..Len(uses) : uses'[k] = uses[k]
        /\ uses'[Len(uses) + 1] = v
    BY <1>1, <2>1, <2>2
  <2>5. \A k \in 1..Len(uses') : k \in 1..Len(uses) \/ k = Len(uses) + 1
    BY <1>1, <2>4
  <2> QED BY <1>2, <1>3, <2>3, <2>4, <2>5
<1> QED BY <1>4, <1>5
LEMMA InitIInv == Init => IInv
<1> SUFFICES ASSUME Init PROVE IInv
  OBVIOUS
<1>1. PICK spare \in Spares : cp = NewPool(spare)
  BY DEF Init
<1>2. spare \in Nat
  BY ClassAssumption
<1>3. /\ cp.entries = <<>> /\ cp.capacity = INITIAL_CAPACITY /\ cp.spare = spare
      /\ cp.cache = [s \in Strings |-> 0] /\ cp.looping = FALSE
  BY <1>1 DEF NewPool
<1>4. cp \in Pool
  BY <1>1, <1>2, PoolAssumption DEF NewPool, Pool
<1>5. Bounded(cp) /\ CacheExact(cp)
  BY <1>3, PoolAssumption DEF Bounded, Count, CacheExact
<1>p. Paired(cp.entries)
  BY <1>3 DEF Paired
<1>6. <<>> \in Seq(Nat) /\ <<>> \in Seq(UseType) /\ Len(uses) = 0 /\ 1..0 = {}
  BY DEF Init
<1>7. \A op \in Operations : bsm[op] = -1
  BY DEF Init
<1> QED BY <1>p, <1>4, <1>5, <1>6, <1>7 DEF Init, IInv, Sound, BootstrapOK

(* The actions that leave the table of bootstrap methods alone. *)
LEMMA PlainStep ==
  ASSUME IInv, Sound(cp'), Extends(cp', cp), NEW u \in UseType, Emit(cp', u),
         UNCHANGED <<methods, bsm>>,
         ~cp'.looping => UseOK([u EXCEPT !.index = cp'.index], cp', methods)
  PROVE  IInv'
<1>1. TableExtends(methods', methods)
  BY DEF TableExtends, IInv
<1>2. /\ uses' \in Seq(UseType)
      /\ \A k \in 1..Len(uses') : UseOK(uses'[k], cp', methods')
      /\ \A op \in Operations : BootstrapOK(op, bsm[op], cp', methods')
  BY <1>1, UseStep
<1> QED BY <1>2 DEF IInv

(* A use is typed, and the checked ones are right when their entry is. *)
LEMMA UseTyped ==
  ASSUME NEW kind \in Kinds, NEW args \in Seq(Strings), NEW i \in Nat
  PROVE  /\ Use(kind, args) \in UseType
         /\ [Use(kind, args) EXCEPT !.index = i] = [kind |-> kind, args |-> args, index |-> i]
BY DEF Use, UseType

LEMMA NextIInv ==
  ASSUME IInv, [Next]_vars
  PROVE  IInv'
<1>0. Sound(cp) /\ methods \in Seq(Nat) /\ cp \in Pool
  BY DEF IInv, Sound
<1>1. ASSUME NEW tag \in {"Integer", "Float", "Long", "Double"},
             \/ tag \in {"Integer", "Float"} /\ LoadNarrow(tag)
             \/ tag \in {"Long", "Double"} /\ LoadWide(tag)
      PROVE  IInv'
  <2> DEFINE u == Use(tag, <<>>)
  <2>1. tag \in Kinds /\ tag \notin Unchecked
    BY DEF Kinds, Unchecked
  <2>2. Added(cp', cp, Entry(tag, NoData, <<>>)) /\ Emit(cp', u) /\ UNCHANGED <<methods, bsm>>
    BY <1>0, <1>1, NarrowSound, WideSound DEF LoadNarrow, LoadWide, Emit, Singles, Wide, Tags
  <2>3. Sound(cp') /\ Extends(cp', cp) /\ cp'.index \in Nat /\ <<>> \in Seq(Strings)
    BY <2>2 DEF Added, Sound, Pool
  <2>4. u \in UseType /\ [u EXCEPT !.index = cp'.index] = [kind |-> tag, args |-> <<>>, index |-> cp'.index]
    BY <2>1, <2>3, UseTyped
  <2>5. NoResult(cp') \/ Holds(cp'.entries, cp'.index, tag)
    BY <2>2, AddedHolds
  <2> HIDE DEF u
  <2>6. ~cp'.looping => UseOK([u EXCEPT !.index = cp'.index], cp', methods)
    BY <2>1, <2>4, <2>5 DEF UseOK, Resolves, NoResult
  <2> QED BY <2>2, <2>3, <2>4, <2>6, PlainStep
<1>2. ASSUME NEW str \in Strings, UseName(str)
      PROVE  IInv'
  <2> DEFINE u == Use("Utf8", <<str>>)
  <2>1. "Utf8" \in Kinds /\ "Utf8" \notin Unchecked /\ <<str>> \in Seq(Strings) /\ <<str>>[1] = str
    BY DEF Kinds, Unchecked
  <2>2. cp' = AddUtf8(cp, str) /\ Emit(cp', u) /\ UNCHANGED <<methods, bsm>>
    BY <1>2 DEF UseName, Emit
  <2>3. /\ Sound(cp') /\ Extends(cp', cp)
        /\ NoResult(cp') \/ IsUtf8(cp'.entries, cp'.index, str)
    BY <1>0, <2>2, Utf8Sound
  <2>4. cp'.index \in Nat
    BY <2>3 DEF Sound, Pool
  <2>5. u \in UseType /\ [u EXCEPT !.index = cp'.index] = [kind |-> "Utf8", args |-> <<str>>, index |-> cp'.index]
    BY <2>1, <2>4, UseTyped
  <2> HIDE DEF u
  <2>6. ~cp'.looping => UseOK([u EXCEPT !.index = cp'.index], cp', methods)
    BY <2>1, <2>3, <2>5 DEF UseOK, Resolves, NoResult
  <2> QED BY <2>2, <2>3, <2>5, <2>6, PlainStep
<1>3. ASSUME NEW str \in Strings, UseClass(str) \/ LoadString(str)
      PROVE  IInv'
  <2>1. PICK kind \in {"Class", "String"} :
          /\ cp' = LinkOne(kind, AddUtf8(cp, str)) /\ Emit(cp', Use(kind, <<str>>))
          /\ UNCHANGED <<methods, bsm>>
    BY <1>3 DEF UseClass, LoadString, Emit, AddClass, AddString
  <2> DEFINE u == Use(kind, <<str>>)
  <2>2. /\ kind \in Kinds /\ kind \notin Unchecked /\ kind \in Singles
        /\ <<str>> \in Seq(Strings) /\ <<str>>[1] = str
    BY DEF Kinds, Unchecked, Tags, Singles, Wide
  <2>3. /\ Sound(cp') /\ Extends(cp', cp)
        /\ NoResult(cp') \/ IsText(cp'.entries, cp'.index, kind, str)
    BY <1>0, <2>1, <2>2, TextSound
  <2>4. cp'.index \in Nat
    BY <2>3 DEF Sound, Pool
  <2>5. u \in UseType /\ [u EXCEPT !.index = cp'.index] = [kind |-> kind, args |-> <<str>>, index |-> cp'.index]
    BY <2>2, <2>4, UseTyped
  <2>6. Emit(cp', u)
    BY <2>1
  <2> HIDE DEF u
  <2>7. ~cp'.looping => UseOK([u EXCEPT !.index = cp'.index], cp', methods)
    BY <2>2, <2>3, <2>5 DEF UseOK, Resolves, NoResult
  <2> QED BY <2>1, <2>3, <2>5, <2>6, <2>7, PlainStep
<1>4. ASSUME NEW tag \in {"Fieldref", "Methodref", "InterfaceMethodref"}, NEW m \in Members,
             UseMember(tag, m)
      PROVE  IInv'
  <2> DEFINE args == <<m[1], m[2], m[3]>>
             u == Use(tag, args)
  <2>1. m[1] \in Strings /\ m[2] \in Strings /\ m[3] \in Strings
    BY ClassAssumption
  <2>2. /\ tag \in Kinds /\ tag \notin Unchecked /\ tag \in Singles
        /\ args \in Seq(Strings) /\ args[1] = m[1] /\ args[2] = m[2] /\ args[3] = m[3]
    BY <2>1 DEF Kinds, Unchecked, Tags, Singles, Wide
  <2>3. cp' = AddMember(cp, tag, m[1], m[2], m[3]) /\ Emit(cp', u) /\ UNCHANGED <<methods, bsm>>
    BY <1>4 DEF UseMember, Emit
  <2> HIDE DEF args
  <2>4. /\ Sound(cp') /\ Extends(cp', cp)
        /\ NoResult(cp') \/ IsMember(cp'.entries, cp'.index, tag, m[1], m[2], m[3])
    BY <1>0, <2>1, <2>2, <2>3, MemberSound
  <2>5. cp'.index \in Nat
    BY <2>4 DEF Sound, Pool
  <2>6. u \in UseType /\ [u EXCEPT !.index = cp'.index] = [kind |-> tag, args |-> args, index |-> cp'.index]
    BY <2>2, <2>5, UseTyped
  <2> HIDE DEF u
  <2>7. ~cp'.looping => UseOK([u EXCEPT !.index = cp'.index], cp', methods)
    BY <2>2, <2>4, <2>6 DEF UseOK, Resolves, NoResult
  <2> QED BY <2>3, <2>4, <2>6, <2>7, PlainStep
<1>5. ASSUME NEW m \in Members, LoadFunction(m)
      PROVE  IInv'
  <2> DEFINE args == <<m[1], m[2], m[3]>>
             u == Use("MethodHandle", args)
  <2>1. m[1] \in Strings /\ m[2] \in Strings /\ m[3] \in Strings
    BY ClassAssumption
  <2>2. /\ "MethodHandle" \in Kinds /\ "MethodHandle" \in Unchecked
        /\ args \in Seq(Strings) /\ args[1] = m[1] /\ args[2] = m[2] /\ args[3] = m[3]
    BY <2>1 DEF Kinds, Unchecked
  <2>3. /\ cp' = HandleOf(AddMember(cp, "Methodref", m[1], m[2], m[3])) /\ Emit(cp', u)
        /\ UNCHANGED <<methods, bsm>>
    BY <1>5 DEF LoadFunction, Emit
  <2> HIDE DEF args
  <2>4. /\ Sound(cp') /\ Extends(cp', cp)
        /\ \/ cp'.looping \/ cp'.spare = -1
           \/ IsHandle(cp'.entries, cp'.index, m[1], m[2], m[3])
    BY <1>0, <2>1, <2>3, HandleSound
  <2>5. cp'.index \in Nat
    BY <2>4 DEF Sound, Pool
  <2>6. u \in UseType /\ [u EXCEPT !.index = cp'.index] = [kind |-> "MethodHandle", args |-> args, index |-> cp'.index]
    BY <2>2, <2>5, UseTyped
  <2> HIDE DEF u
  <2>7. ~cp'.looping => UseOK([u EXCEPT !.index = cp'.index], cp', methods)
    BY <2>2, <2>4, <2>6 DEF UseOK, Resolves
  <2> QED BY <2>3, <2>4, <2>6, <2>7, PlainStep
<1>6. ASSUME NEW op \in Operations, NEW site \in Sites, EmitKnownOperation(op, site)
      PROVE  IInv'
  <2> DEFINE args == <<op, site[1], site[2]>>
             u == Use("InvokeDynamic", args)
             b == bsm[op]
  <2>1. op \in Strings /\ site \in Strings \X Strings /\ site[1] \in Strings /\ site[2] \in Strings
    BY ClassAssumption
  <2>2. /\ "InvokeDynamic" \in Kinds /\ "InvokeDynamic" \in Unchecked
        /\ args \in Seq(Strings) /\ args[1] = op /\ args[2] = site[1] /\ args[3] = site[2]
    BY <2>1 DEF Kinds, Unchecked
  <2>3. cp' = CallSite(cp, b, site) /\ Emit(cp', u) /\ UNCHANGED <<methods, bsm>> /\ b >= 0
    BY <1>6 DEF EmitKnownOperation, Emit, SiteUse
  <2>4. b \in Nat
    BY <2>3 DEF IInv
  <2> HIDE DEF args, b
  <2>5. /\ Sound(cp') /\ Extends(cp', cp)
        /\ \/ cp'.looping \/ cp'.spare = -1
           \/ /\ Holds(cp'.entries, cp'.index, "InvokeDynamic")
              /\ cp'.entries[cp'.index].refs[1] = b
              /\ IsNameAndType(cp'.entries, cp'.entries[cp'.index].refs[2], site[1], site[2])
    BY <1>0, <2>1, <2>3, <2>4, SiteSound, SMTT(30)
  <2>6. cp'.index \in Nat /\ cp' \in Pool
    BY <2>5 DEF Sound, Pool
  <2>7. BootstrapOK(op, b, cp', methods)
    <3>1. BootstrapOK(op, b, cp, methods) /\ TableExtends(methods, methods) /\ b \in Nat \cup {-1}
      BY <2>4 DEF IInv, b, TableExtends
    <3> QED BY <1>0, <2>5, <2>6, <3>1, BootstrapStays
  <2>8. u \in UseType /\ [u EXCEPT !.index = cp'.index] = [kind |-> "InvokeDynamic", args |-> args, index |-> cp'.index]
    BY <2>2, <2>6, UseTyped
  <2> HIDE DEF u
  <2>9. ~cp'.looping => UseOK([u EXCEPT !.index = cp'.index], cp', methods)
    BY <2>2, <2>4, <2>5, <2>7, <2>8, SMTT(30) DEF UseOK, Resolves, BootstrapOK
  <2> QED BY <2>3, <2>5, <2>8, <2>9, PlainStep
<1>7. ASSUME NEW op \in Operations, NEW site \in Sites, EmitNewOperation(op, site)
      PROVE  IInv'
  <2> DEFINE args == <<op, site[1], site[2]>>
             u == Use("InvokeDynamic", args)
             b == Len(methods)
             h == BootstrapHandle(op)
             q == NameTable(h)
  <2>1. /\ op \in Strings /\ site \in Strings \X Strings /\ site[1] \in Strings /\ site[2] \in Strings
        /\ LRT_BOOTSTRAP \in Strings /\ BSM_DESC \in Strings
    BY ClassAssumption
  <2>2. /\ "InvokeDynamic" \in Kinds /\ "InvokeDynamic" \in Unchecked
        /\ args \in Seq(Strings) /\ args[1] = op /\ args[2] = site[1] /\ args[3] = site[2]
    BY <2>1 DEF Kinds, Unchecked
  <2>3. AddBootstrap(q, op) /\ cp' = CallSite(q, b, site) /\ Emit(cp', u)
    BY <1>7 DEF EmitNewOperation, Emit, SiteUse
  <2>4. b \in Nat
    BY <1>0
  <2>5. /\ Sound(h) /\ Extends(h, cp)
        /\ h.looping \/ h.spare = -1 \/ IsHandle(h.entries, h.index, LRT_BOOTSTRAP, op, BSM_DESC)
    BY <1>0, <2>1, HandleSound DEF BootstrapHandle
  <2> HIDE DEF args, b, h
  <2>6. Sound(q) /\ Extends(q, h) /\ q.index = h.index
    BY <2>5, NameTableSound
  <2> HIDE DEF q
  <2>7. /\ Sound(cp') /\ Extends(cp', q)
        /\ \/ cp'.looping \/ cp'.spare = -1
           \/ /\ Holds(cp'.entries, cp'.index, "InvokeDynamic")
              /\ cp'.entries[cp'.index].refs[1] = b
              /\ IsNameAndType(cp'.entries, cp'.entries[cp'.index].refs[2], site[1], site[2])
    BY <2>1, <2>3, <2>4, <2>6, SiteSound
  <2>8. h \in Pool /\ q \in Pool /\ cp' \in Pool /\ cp'.index \in Nat /\ q.index \in Nat
    BY <2>5, <2>6, <2>7 DEF Sound, Pool
  <2>9. Extends(cp', h) /\ Extends(cp', cp)
    BY <1>0, <2>5, <2>6, <2>7, <2>8, ExtendsTransitive
  <2>10. u \in UseType /\ [u EXCEPT !.index = cp'.index] = [kind |-> "InvokeDynamic", args |-> args, index |-> cp'.index]
    BY <2>2, <2>8, UseTyped
  <2> HIDE DEF u
  <2>11. CASE q.looping
    <3>1. UNCHANGED <<methods, bsm>>
      BY <2>3, <2>11 DEF AddBootstrap
    <3>2. cp'.looping
      BY <2>7, <2>11 DEF Extends
    <3> QED BY <3>1, <3>2, <2>3, <2>7, <2>9, <2>10, PlainStep
  <2>12. CASE ~q.looping
    <3>1. methods' = Append(methods, q.index) /\ bsm' = [bsm EXCEPT ![op] = b]
      BY <2>3, <2>12 DEF AddBootstrap, b
    <3>2. /\ methods' \in Seq(Nat) /\ Len(methods') = b + 1 /\ methods'[b + 1] = h.index
          /\ TableExtends(methods', methods)
      BY <1>0, <2>6, <2>8, <3>1 DEF TableExtends, b
    <3>3. BootstrapOK(op, b, cp', methods')
      <4>1. cp'.spare = -1 \/ IsHandle(cp'.entries, h.index, LRT_BOOTSTRAP, op, BSM_DESC)
        <5>1. h.looping => q.looping
          BY <2>6 DEF Extends
        <5>2. h.spare = -1 => cp'.spare = -1
          BY <2>9 DEF Extends
        <5> QED BY <5>1, <5>2, <2>5, <2>8, <2>9, <2>12, HandleStays
      <4> QED BY <4>1, <3>2, <2>4 DEF BootstrapOK
    <3>4. ~cp'.looping => UseOK([u EXCEPT !.index = cp'.index], cp', methods')
      BY <2>2, <2>4, <2>7, <2>10, <3>3 DEF UseOK, Resolves, BootstrapOK
    <3>5. /\ uses' \in Seq(UseType)
          /\ \A k \in 1..Len(uses') : UseOK(uses'[k], cp', methods')
          /\ \A o \in Operations : BootstrapOK(o, bsm[o], cp', methods')
      BY <2>3, <2>7, <2>9, <2>10, <3>2, <3>4, UseStep
    <3>6. bsm' \in [Operations -> Nat \cup {-1}] /\ bsm'[op] = b
          /\ \A o \in Operations : o # op => bsm'[o] = bsm[o]
      BY <2>4, <3>1 DEF IInv
    <3>7. \A o \in Operations : BootstrapOK(o, bsm'[o], cp', methods')
      BY <3>3, <3>5, <3>6
    <3> QED BY <2>7, <3>2, <3>5, <3>6, <3>7 DEF IInv
  <2> QED BY <2>11, <2>12
<1>8. CASE UNCHANGED vars
  BY <1>8 DEF vars, IInv
<1> QED BY <1>1, <1>2, <1>3, <1>4, <1>5, <1>6, <1>7, <1>8 DEF Next

LEMMA AlwaysIInv == Spec => []IInv
BY InitIInv, NextIInv, PTL DEF Spec

(* The pool, the table, the cache and the emitted uses keep their types. *)
THEOREM PoolTypeCorrect == Spec => []PoolTypeOK
<1>1. IInv => PoolTypeOK
  BY DEF IInv, PoolTypeOK, Sound, UseType
<1> QED BY <1>1, AlwaysIInv, PTL

(* No entry is written outside of the allocated array. *)
THEOREM PoolWithinCapacity == Spec => []WithinCapacity
<1>1. IInv => WithinCapacity
  BY DEF IInv, WithinCapacity, Sound, Bounded
<1> QED BY <1>1, AlwaysIInv, PTL

(* A text is in the pool once, also after a failed allocation. *)
THEOREM TextsAreUnique == Spec => []Utf8Unique
<1>1. IInv => Utf8Unique
  BY DEF IInv, Utf8Unique, Sound, CacheExact
<1> QED BY <1>1, AlwaysIInv, PTL

(* Every constant, name, class and member that the code uses is what its   *)
(* index stands for, or is 0 after an allocation has failed.               *)
THEOREM UsesAlwaysResolve == Spec => []UsesResolve
<1>1. IInv => UsesResolve
  BY DEF IInv, UsesResolve, UseOK, AllocationFailed
<1> QED BY <1>1, AlwaysIInv, PTL

(* So is every function and call site while no allocation has failed.      *)
THEOREM SitesAlwaysResolve == Spec => []SitesResolve
<1>1. IInv => SitesResolve
  BY DEF IInv, SitesResolve, UseOK, AllocationFailed
<1> QED BY <1>1, AlwaysIInv, PTL

(* The compiler loops only on a pool that is half full. *)
THEOREM LoopsOnlyWhenHalfFull == Spec => []LoopsWhenHalfFull
<1>1. IInv => LoopsWhenHalfFull
  BY DEF IInv, LoopsWhenHalfFull, Sound, Bounded
<1> QED BY <1>1, AlwaysIInv, PTL

-----------------------------------------------------------------------------
(* The pool in the class file *)

Least(S) == CHOOSE m \in S : \A k \in S : m <= k

LEMMA LeastOf ==
  ASSUME NEW S, S \subseteq Nat, S # {}
  PROVE  Least(S) \in S /\ \A y \in S : Least(S) <= y
<1>1. PICK x \in S : \A y \in S : ~ (<<y, x>> \in OpToRel(<, Nat))
  BY NatLessThanWellFounded, WFMin
<1>2. ASSUME NEW y \in S PROVE x <= y
  <2>1. x \in Nat /\ y \in Nat /\ <<y, x>> \in Nat \X Nat
    OBVIOUS
  <2>2. y < x => <<y, x>> \in OpToRel(<, Nat)
    BY <2>1 DEF OpToRel
  <2>3. ~ (y < x)
    BY <1>1, <2>2
  <2> QED BY <2>1, <2>3
<1> QED BY <1>2, Zenon DEF Least

(* What is written from index i on, with From for the rest. *)
FromHere(es, From, i) ==
  IF i > Len(es) THEN <<>> ELSE <<es[i]>> \o From[i + WrittenSlots(es[i].tag)]

(* The recursion of Written is a function: for every k there is one on the *)
(* last k indices.                                                         *)
LEMMA FromExists ==
  ASSUME NEW es \in Seq(EntryType)
  PROVE  \E From : From = [i \in 1..(Len(es) + 2) |-> FromHere(es, From, i)]
<1> DEFINE n == Len(es)
           On(k) == (n + 3 - k)..(n + 2)
           Good(k) == \E f : f = [i \in On(k) |-> FromHere(es, f, i)]
           Bad == {k \in 0..(n + 2) : ~Good(k)}
<1>1. n \in Nat /\ Bad \subseteq Nat
  OBVIOUS
<1>2. Good(0)
  <2>1. On(0) = {}
    BY <1>1
  <2> DEFINE f == [i \in On(0) |-> <<>>]
  <2>2. f = [i \in On(0) |-> FromHere(es, f, i)]
    BY <2>1
  <2> QED BY <2>2
<1>3. ASSUME NEW k \in 0..(n + 1), Good(k) PROVE Good(k + 1)
  <2>1. PICK f : f = [i \in On(k) |-> FromHere(es, f, i)]
    BY <1>3
  <2> DEFINE new == n + 2 - k
             g == [i \in On(k + 1) |-> IF i = new THEN FromHere(es, f, i) ELSE f[i]]
  <2>2. new \in 1..(n + 2) /\ On(k + 1) = On(k) \cup {new} /\ new \notin On(k)
    BY <1>1
  <2>3. ASSUME NEW i \in On(k + 1) PROVE FromHere(es, g, i) = FromHere(es, f, i)
    <3>1. CASE i > n
      BY <3>1 DEF FromHere
    <3>2. CASE i <= n
      <4> DEFINE j == i + WrittenSlots(es[i].tag)
      <4>1. j \in On(k)
        BY <1>1, <3>2 DEF WrittenSlots
      <4>2. g[j] = f[j]
        BY <2>2, <4>1
      <4> HIDE DEF g, On
      <4> QED BY <1>1, <3>2, <4>2 DEF FromHere
    <3> QED BY <1>1, <3>1, <3>2
  <2>4. \A i \in On(k) : f[i] = FromHere(es, f, i)
    BY <2>1
  <2>5. g = [i \in On(k + 1) |-> FromHere(es, f, i)]
    BY <2>2, <2>4
  <2>6. g = [i \in On(k + 1) |-> FromHere(es, g, i)]
    <3> HIDE DEF On
    <3> HIDE DEF g
    <3> QED BY <2>3, <2>5
  <2> HIDE DEF g
  <2> QED BY <2>6
<1>4. Bad = {}
  <2> SUFFICES ASSUME Bad # {} PROVE FALSE
    OBVIOUS
  <2> DEFINE k == Least(Bad)
  <2> HIDE DEF Good
  <2>1. k \in Bad /\ \A j \in Bad : k <= j
    BY <1>1, LeastOf
  <2> HIDE DEF k
  <2>2. k \in 0..(n + 2) /\ k # 0 /\ ~Good(k)
    BY <1>2, <2>1
  <2>3. k - 1 \in 0..(n + 1) /\ k - 1 \notin Bad /\ (k - 1) + 1 = k
    BY <1>1, <2>1, <2>2
  <2>4. Good(k - 1)
    BY <1>1, <2>3
  <2>5. Good((k - 1) + 1)
    BY <1>3, <2>3, <2>4
  <2> QED BY <2>2, <2>3, <2>5
<1>5. Good(n + 2)
  <2> HIDE DEF Good
  <2> QED BY <1>1, <1>4
<1>6. On(n + 2) = 1..(n + 2)
  BY <1>1
<1> QED BY <1>5, <1>6

(* A way through the pool from index i to its end: the indices of the      *)
(* entries that a writer visits who goes on behind each one, and no entry  *)
(* but gaps between them.                                                  *)
Way(es, i, m, q) ==
  /\ m \in Nat /\ q \in [1..(m + 1) -> 1..(Len(es) + 1)]
  /\ q[1] = i /\ q[m + 1] = Len(es) + 1
  /\ \A k \in 1..m : q[k] <= Len(es) /\ q[k + 1] = q[k] + WrittenSlots(es[q[k]].tag)
  /\ \A j \in i..Len(es) : es[j].tag # "Gap" => \E k \in 1..m : q[k] = j

(* From index i on the file holds the entries on such a way. *)
OnTheWay(es, file, i) ==
  /\ file \in Seq(EntryType)
  /\ \E q : Way(es, i, Len(file), q) /\ \A k \in 1..Len(file) : file[k] = es[q[k]]

LEMMA WrittenOnTheWay ==
  ASSUME NEW es \in Seq(EntryType), Paired(es), NEW From,
         From = [i \in 1..(Len(es) + 2) |-> FromHere(es, From, i)]
  PROVE  OnTheWay(es, From[1], 1)
<1> DEFINE n == Len(es)
           Starts(i) == i = n + 1 \/ (i \in 1..n /\ es[i].tag # "Gap")
           Good(i) == OnTheWay(es, From[i], i)
           Bad == {b \in 0..n : Starts(n + 1 - b) /\ ~Good(n + 1 - b)}
<1>1. n \in Nat /\ Bad \subseteq Nat
  OBVIOUS
<1>2. \A i \in 1..(n + 2) : From[i] = FromHere(es, From, i)
  OBVIOUS
<1>3. Good(n + 1)
  <2> DEFINE q == [k \in 1..1 |-> n + 1]
  <2>1. Way(es, n + 1, 0, q)
    BY <1>1 DEF Way
  <2>2. From[n + 1] = <<>>
    BY <1>1, <1>2 DEF FromHere
  <2> DEFINE file == From[n + 1]
  <2>3. file \in Seq(EntryType) /\ Len(file) = 0 /\ 1..0 = {}
    <3>1. <<>> \in Seq(EntryType) /\ Len(<<>>) = 0 /\ 1..0 = {}
      OBVIOUS
    <3>2. file = <<>>
      BY <2>2
    <3> HIDE DEF file
    <3> QED BY <3>1, <3>2
  <2> HIDE DEF q, file
  <2>4. Way(es, n + 1, Len(file), q) /\ \A k \in 1..Len(file) : file[k] = es[q[k]]
    BY <2>1, <2>3
  <2>5. OnTheWay(es, file, n + 1)
    BY <2>3, <2>4 DEF OnTheWay
  <2> QED BY <2>5 DEF file
<1>4. ASSUME NEW i \in 1..n, Starts(i) PROVE Starts(i + WrittenSlots(es[i].tag))
  BY <1>1, <1>4 DEF WrittenSlots, Paired, Wide
<1>5. ASSUME NEW i \in 1..n, Starts(i), Good(i + WrittenSlots(es[i].tag)) PROVE Good(i)
  <2> DEFINE w == WrittenSlots(es[i].tag)
  <2> DEFINE rest == From[i + w]
             m == Len(rest)
  <2>1. PICK q : Way(es, i + w, m, q) /\ \A k \in 1..m : rest[k] = es[q[k]]
    BY <1>5 DEF OnTheWay
  <2> DEFINE r == [k \in 1..(m + 2) |-> IF k = 1 THEN i ELSE q[k - 1]]
  <2>r. rest \in Seq(EntryType)
    BY <1>5 DEF OnTheWay
  <2> HIDE DEF rest
  <2>2. /\ m \in Nat /\ q \in [1..(m + 1) -> 1..(n + 1)]
        /\ q[1] = i + w /\ q[m + 1] = n + 1
        /\ \A k \in 1..m : q[k] <= n /\ q[k + 1] = q[k] + WrittenSlots(es[q[k]].tag)
        /\ \A j \in (i + w)..n : es[j].tag # "Gap" => \E k \in 1..m : q[k] = j
    BY <2>1 DEF Way
  <2>3. w \in 1..2 /\ (w = 2 => es[i + 1].tag = "Gap")
    BY <1>1, <1>5 DEF WrittenSlots, Paired, Wide
  <2> HIDE DEF w
  <2>4. /\ r \in [1..(m + 2) -> 1..(n + 1)] /\ r[1] = i
        /\ \A k \in 1..(m + 1) : r[k + 1] = q[k]
    BY <1>1, <2>2
  <2> HIDE DEF r
  <2>5. \A k \in 1..(m + 1) : r[k] <= n /\ r[k + 1] = r[k] + WrittenSlots(es[r[k]].tag)
    <3> SUFFICES ASSUME NEW k \in 1..(m + 1)
                 PROVE  r[k] <= n /\ r[k + 1] = r[k] + WrittenSlots(es[r[k]].tag)
      OBVIOUS
    <3>1. CASE k = 1
      BY <1>1, <2>2, <2>4, <3>1 DEF w
    <3>2. CASE k # 1
      <4>1. k - 1 \in 1..m /\ (k - 1) + 1 = k
        BY <2>2, <3>2
      <4>2. r[k] = q[k - 1] /\ r[k + 1] = q[k]
        BY <2>2, <2>4, <4>1
      <4> QED BY <2>2, <4>1, <4>2
    <3> QED BY <3>1, <3>2
  <2>6. ASSUME NEW j \in i..n, es[j].tag # "Gap" PROVE \E k \in 1..(m + 1) : r[k] = j
    <3>1. CASE j = i
      BY <2>2, <2>4, <3>1
    <3>2. CASE j # i
      <4>1. j \in (i + w)..n
        BY <1>1, <2>3, <2>6, <3>2
      <4>2. PICK k \in 1..m : q[k] = j
        BY <2>2, <2>6, <4>1
      <4>3. k + 1 \in 1..(m + 1) /\ r[k + 1] = j
        BY <2>2, <2>4, <4>2
      <4> QED BY <4>3
    <3> QED BY <3>1, <3>2
  <2>7. Way(es, i, m + 1, r)
    BY <2>2, <2>4, <2>5, <2>6 DEF Way
  <2>8. From[i] = <<es[i]>> \o rest
    <3>1. From[i] = FromHere(es, From, i) /\ ~(i > Len(es))
      BY <1>1, <1>2
    <3> QED BY <3>1 DEF FromHere, w, rest
  <2> DEFINE one == <<es[i]>>
             s == one \o rest
  <2>9. one \in Seq(EntryType) /\ Len(one) = 1 /\ one[1] = es[i]
    OBVIOUS
  <2>10. \A k \in 1..m : rest[k] = es[r[k + 1]]
    BY <2>1, <2>2, <2>4
  <2> HIDE DEF one
  <2>11. /\ s \in Seq(EntryType) /\ Len(s) = Len(one) + Len(rest)
         /\ \A k \in 1..(Len(one) + Len(rest)) :
              s[k] = IF k <= Len(one) THEN one[k] ELSE rest[k - Len(one)]
    BY <2>r, <2>9, ConcatProperties
  <2> HIDE DEF s
  <2>12. /\ Len(s) = m + 1 /\ s[1] = es[i]
         /\ \A k \in 2..(m + 1) : s[k] = rest[k - 1]
    BY <2>2, <2>9, <2>11
  <2>13. \A k \in 1..(m + 1) : s[k] = es[r[k]]
    <3> SUFFICES ASSUME NEW k \in 1..(m + 1) PROVE s[k] = es[r[k]]
      OBVIOUS
    <3>1. CASE k = 1
      BY <2>4, <2>12, <3>1
    <3>2. CASE k # 1
      <4>1. k \in 2..(m + 1) /\ k - 1 \in 1..m /\ (k - 1) + 1 = k
        BY <2>2, <3>2
      <4> QED BY <2>10, <2>12, <4>1
    <3> QED BY <3>1, <3>2
  <2>14. From[i] = s
    BY <2>8 DEF s, one
  <2> QED BY <2>7, <2>11, <2>12, <2>13, <2>14 DEF OnTheWay
<1>6. Bad = {}
  <2> SUFFICES ASSUME Bad # {} PROVE FALSE
    OBVIOUS
  <2> DEFINE b == Least(Bad)
             i == n + 1 - b
  <2> HIDE DEF Good
  <2>1. b \in Bad /\ \A j \in Bad : b <= j
    BY <1>1, LeastOf
  <2> HIDE DEF b
  <2>2. i \in 1..n /\ Starts(i) /\ ~Good(i) /\ b \in 0..n
    BY <1>1, <1>3, <2>1
  <2> DEFINE w == WrittenSlots(es[i].tag)
  <2>3. Starts(i + w) /\ w \in 1..2
    <3>1. w \in 1..2
      BY DEF WrittenSlots
    <3> HIDE DEF Starts, i
    <3> QED BY <1>4, <2>2, <3>1
  <2> HIDE DEF w
  <2>4. b - w \in 0..n /\ n + 1 - (b - w) = i + w /\ b - w < b
    <3>1. i + w <= n + 1
      BY <1>1, <2>2, <2>3
    <3> QED BY <1>1, <2>2, <2>3, <3>1
  <2>5. b - w \notin Bad
    BY <1>1, <2>1, <2>2, <2>4
  <2>6. Good(i + w)
    BY <2>3, <2>4, <2>5
  <2> QED BY <1>5, <2>2, <2>6 DEF w
<1>7. Starts(1)
  BY <1>1 DEF Paired
<1>8. 1 = n + 1 - n /\ n \in 0..n
  BY <1>1
<1>9. Good(1)
  <2> HIDE DEF Good
  <2> QED BY <1>6, <1>7, <1>8
<1> QED BY <1>9

(* The JVM counts its way through the file in the same steps. *)
LEMMA ReadOnTheWay ==
  ASSUME NEW es \in Seq(EntryType), NEW file \in Seq(EntryType), NEW q,
         Way(es, 1, Len(file), q), \A k \in 1..Len(file) : file[k] = es[q[k]]
  PROVE  ReadIndex(file) = q
<1> DEFINE m == Len(file)
           Step(At, k) == IF k = 1 THEN 1 ELSE At[k - 1] + ReadSlots(file[k - 1].tag)
           Is(At) == At = [k \in 1..(m + 1) |-> Step(At, k)]
<1>1. /\ m \in Nat /\ q \in [1..(m + 1) -> 1..(Len(es) + 1)] /\ q[1] = 1
      /\ \A k \in 1..m : q[k + 1] = q[k] + ReadSlots(file[k].tag)
  BY DEF Way, WrittenSlots, ReadSlots
<1> HIDE DEF m
<1>3. Is(q)
  <2>1. ASSUME NEW k \in 1..(m + 1) PROVE q[k] = Step(q, k)
    <3>1. CASE k = 1
      BY <1>1, <3>1
    <3>2. CASE k # 1
      <4>1. k - 1 \in 1..m /\ (k - 1) + 1 = k
        BY <1>1, <3>2
      <4> QED BY <1>1, <3>2, <4>1
    <3> QED BY <3>1, <3>2
  <2> HIDE DEF Step
  <2> QED BY <1>1, <2>1
<1>4. ASSUME NEW At, Is(At) PROVE At = q
  <2> DEFINE Bad == {k \in 1..(m + 1) : At[k] # q[k]}
  <2>1. \A k \in 1..(m + 1) : At[k] = Step(At, k) /\ q[k] = Step(q, k)
    BY <1>3, <1>4
  <2>2. Bad = {}
    <3> SUFFICES ASSUME Bad # {} PROVE FALSE
      OBVIOUS
    <3> DEFINE k == Least(Bad)
    <3>0. Bad \subseteq Nat
      BY <1>1
    <3> HIDE DEF Bad
    <3>1. k \in Bad /\ \A j \in Bad : k <= j
      BY <3>0, LeastOf
    <3> HIDE DEF k
    <3> USE DEF Bad
    <3>2. k \in 1..(m + 1) /\ k # 1
      BY <2>1, <3>1
    <3>3. k - 1 \in 1..(m + 1) /\ k - 1 \notin Bad
      BY <1>1, <3>1, <3>2
    <3>4. At[k - 1] = q[k - 1]
      BY <3>3
    <3> QED BY <2>1, <3>1, <3>2, <3>4
  <2>3. At = [k \in 1..(m + 1) |-> At[k]]
    BY <1>4
  <2> HIDE DEF Step
  <2> QED BY <1>1, <2>2, <2>3
<1>5. ReadIndex(file) = CHOOSE At : At = [k \in 1..(m + 1) |-> Step(At, k)]
  BY DEF ReadIndex, m
<1>6. Is(CHOOSE At : Is(At))
  <2> HIDE DEF Is
  <2> QED BY <1>3
<1> QED BY <1>4, <1>5, <1>6

LEMMA PairedReadsBack ==
  ASSUME NEW p, p.entries \in Seq(EntryType), Paired(p.entries)
  PROVE  ReadsBackAs(Written(p), p)
<1> DEFINE es == p.entries
           From == CHOOSE f : f = [i \in 1..(Len(es) + 2) |-> FromHere(es, f, i)]
<1>1. From = [i \in 1..(Len(es) + 2) |-> FromHere(es, From, i)]
  BY FromExists
<1>2. Written(p) = From[1]
  BY DEF Written, FromHere
<1> HIDE DEF From
<1> DEFINE file == Written(p)
<1>3. OnTheWay(es, file, 1)
  BY <1>1, <1>2, WrittenOnTheWay
<1> HIDE DEF file
<1>4. PICK q : Way(es, 1, Len(file), q) /\ \A k \in 1..Len(file) : file[k] = es[q[k]]
  BY <1>3 DEF OnTheWay
<1>5. ReadIndex(file) = q
  BY <1>3, <1>4, ReadOnTheWay DEF OnTheWay
<1>6. q[Len(file) + 1] = Count(p)
  BY <1>4 DEF Way, Count
<1>7. ASSUME NEW i \in 1..Len(es), es[i].tag # "Gap"
      PROVE  \E k \in 1..Len(file) : q[k] = i /\ file[k] = es[i]
  BY <1>4, <1>7 DEF Way
<1> QED BY <1>5, <1>6, <1>7 DEF ReadsBackAs, file

(* In the class file the JVM finds every entry of the pool at its index    *)
(* and the end at the written count (cp_write, class_writer_write).        *)
THEOREM PoolReadsBack == Spec => []FileReadsBack
<1>1. IInv => FileReadsBack
  BY PairedReadsBack DEF IInv, FileReadsBack, Sound, Pool
<1> QED BY <1>1, AlwaysIInv, PTL
=============================================================================
