---------------------------- MODULE ObjectsProofs ----------------------------
(***************************************************************************)
(* Proofs about Objects, for all worlds: any number of classes, bases,     *)
(* instances and names.                                                    *)
(***************************************************************************)
EXTENDS Objects, SequenceTheorems, WellFoundedInduction, TLAPS

-----------------------------------------------------------------------------
(* A merge that has come some way.  Of two classes that a list from the    *)
(* start has in this order, both are in the result, or the first one is,   *)
(* or none.                                                                *)

Once(list) == \A i, j \in 1..Len(list) : list[i] = list[j] => i = j

KeptSoFar(from, lists, result) ==
  \A k \in 1..Len(lists) : \A a, b : Before(from[k], a, b) =>
    \/ Before(result, a, b)
    \/ a \in RangeOf(result) /\ b \in RangeOf(lists[k])
    \/ Before(lists[k], a, b)

Merging(n, from, lists, result) ==
  /\ result \in Seq(1..n) /\ result # <<>> /\ result[1] = n
  /\ from \in Seq(Seq(1..(n - 1))) /\ lists \in Seq(Seq(1..(n - 1)))
  /\ Len(lists) = Len(from)
  /\ Once(result)
  /\ RangeOf(result) \subseteq {n} \cup UNION {RangeOf(from[k]) : k \in 1..Len(from)}
  /\ \A k \in 1..Len(lists) :
       /\ RangeOf(lists[k]) \cap RangeOf(result) = {}
       /\ RangeOf(lists[k]) \subseteq RangeOf(from[k])
       /\ RangeOf(from[k]) \subseteq RangeOf(result) \cup RangeOf(lists[k])
  /\ KeptSoFar(from, lists, result)

LEMMA FirstIsLeast ==
  ASSUME NEW S, S \subseteq Nat, S # {}
  PROVE  FirstOf(S) \in S /\ \A y \in S : FirstOf(S) <= y
<1>1. PICK x \in S : \A y \in S : ~ (<<y, x>> \in OpToRel(<, Nat))
  BY NatLessThanWellFounded, WFMin
<1>2. ASSUME NEW y \in S PROVE x <= y
  <2>1. x \in Nat /\ y \in Nat /\ <<y, x>> \in Nat \X Nat
    OBVIOUS
  <2>2. y < x => <<y, x>> \in OpToRel(<, Nat)
    BY <2>1 DEF OpToRel
  <2>3. ~ (y < x)
    BY <1>1, <2>2
  <2> QED BY <2>1, <2>3
<1> QED BY <1>2, Zenon DEF FirstOf

(* What is chosen is the head of a list and in the tail of none. *)
LEMMA ChosenIsHead ==
  ASSUME NEW S, NEW lists \in Seq(Seq(S)), GoodHeads(lists) # {}
  PROVE  /\ \E k \in 1..Len(lists) : lists[k] # <<>> /\ Candidate(lists) = Head(lists[k])
         /\ \A k \in 1..Len(lists) : Candidate(lists) \notin Tails(lists[k])
<1> DEFINE k == FirstOf(GoodHeads(lists))
<1>1. GoodHeads(lists) \subseteq Nat
  BY DEF GoodHeads
<1>2. k \in GoodHeads(lists)
  BY <1>1, FirstIsLeast
<1>3. k \in 1..Len(lists) /\ GoodHead(lists, k)
  BY <1>2 DEF GoodHeads
<1> HIDE DEF k
<1>4. Candidate(lists) = Head(lists[k])
  BY DEF Candidate, k
<1> QED BY <1>3, <1>4 DEF GoodHead, InTail

(* What becomes of one list when c, in its tail nowhere, is removed. *)
LEMMA RemovedFromOne ==
  ASSUME NEW S, NEW list \in Seq(S), NEW c, c \notin Tails(list),
         NEW rest, rest = IF list # <<>> /\ Head(list) = c THEN Tail(list) ELSE list
  PROVE  /\ rest \in Seq(S)
         /\ RangeOf(rest) = RangeOf(list) \ {c}
         /\ \A a, b : Before(list, a, b) /\ a # c => Before(rest, a, b)
         /\ \A a, b : Before(list, a, b) => b \in RangeOf(list) \ {c}
<1>1. ASSUME NEW a, NEW b, Before(list, a, b)
      PROVE  b \in Tails(list) /\ b \in RangeOf(list)
  BY <1>1 DEF Before, Tails, RangeOf
<1>2. CASE list # <<>> /\ Head(list) = c
  <2>1. rest = Tail(list) /\ rest \in Seq(S) /\ Len(rest) = Len(list) - 1 /\ list[1] = c
    BY <1>2
  <2>2. \A i \in 1..Len(rest) : rest[i] = list[i + 1]
    BY <1>2, <2>1
  <2>3. RangeOf(rest) = Tails(list)
    <3>1. \A i \in 1..Len(rest) : i + 1 \in 2..Len(list)
      BY <2>1
    <3>2. \A i \in 2..Len(list) : i - 1 \in 1..Len(rest) /\ rest[i - 1] = list[i]
      BY <2>1, <2>2
    <3>3. ASSUME NEW x \in RangeOf(rest) PROVE x \in Tails(list)
      BY <2>2, <3>1 DEF RangeOf, Tails
    <3>4. ASSUME NEW x \in Tails(list) PROVE x \in RangeOf(rest)
      BY <3>2 DEF RangeOf, Tails
    <3> QED BY <3>3, <3>4
  <2>4. RangeOf(list) = {c} \cup Tails(list)
    <3>1. 1..Len(list) = {1} \cup 2..Len(list)
      BY <1>2
    <3> QED BY <2>1, <3>1 DEF RangeOf, Tails
  <2>5. ASSUME NEW a, NEW b, Before(list, a, b), a # c
        PROVE  Before(rest, a, b)
    <3>1. PICK i, j \in 1..Len(list) : i < j /\ list[i] = a /\ list[j] = b
      BY <2>5 DEF Before
    <3>2. i # 1
      BY <2>1, <2>5, <3>1
    <3>3. i - 1 \in 1..Len(rest) /\ j - 1 \in 1..Len(rest) /\ i - 1 < j - 1
      BY <2>1, <3>1, <3>2
    <3>4. i - 1 + 1 = i /\ j - 1 + 1 = j
      OBVIOUS
    <3>5. rest[i - 1] = a /\ rest[j - 1] = b
      BY <2>2, <3>1, <3>3, <3>4
    <3> QED BY <3>3, <3>5 DEF Before
  <2> QED BY <1>1, <2>1, <2>3, <2>4, <2>5
<1>3. CASE ~(list # <<>> /\ Head(list) = c)
  <2>1. rest = list
    BY <1>3
  <2>2. c \notin RangeOf(list)
    <3>1. ASSUME NEW i \in 1..Len(list), list[i] = c PROVE FALSE
      <4>1. list # <<>> /\ Head(list) = list[1]
        BY <3>1
      <4>2. i \in 2..Len(list)
        BY <1>3, <3>1, <4>1
      <4> QED BY <3>1, <4>2 DEF Tails
    <3> QED BY <3>1 DEF RangeOf
  <2> QED BY <1>1, <2>1, <2>2
<1> QED BY <1>2, <1>3

LEMMA ElementsOf ==
  ASSUME NEW T, NEW list \in Seq(T)
  PROVE  \A i \in 1..Len(list) : list[i] \in T
OBVIOUS

LEMMA FunctionIsSeq ==
  ASSUME NEW T, NEW m \in Nat, NEW f \in [1..m -> T]
  PROVE  f \in Seq(T) /\ Len(f) = m
<1>1. f \in UNION {[1..k -> T] : k \in Nat}
  OBVIOUS
<1>2. f \in Seq(T)
  BY <1>1, SeqDef, Zenon
<1> QED BY <1>2

LEMMA AppendedOne ==
  ASSUME NEW S, NEW list \in Seq(S), NEW c \in S
  PROVE  /\ Append(list, c) \in Seq(S) /\ Append(list, c) # <<>>
         /\ RangeOf(Append(list, c)) = RangeOf(list) \cup {c}
         /\ \A a, b : Before(list, a, b) => Before(Append(list, c), a, b)
         /\ \A a \in RangeOf(list) : Before(Append(list, c), a, c)
         /\ c \notin RangeOf(list) /\ Once(list) => Once(Append(list, c))
<1> DEFINE more == Append(list, c)
<1>1. more \in Seq(S) /\ Len(more) = Len(list) + 1 /\ more[Len(list) + 1] = c
  OBVIOUS
<1>2. \A i \in 1..Len(list) : more[i] = list[i]
  OBVIOUS
<1>3. Len(list) \in Nat
  OBVIOUS
<1> HIDE DEF more
<1>4. 1..Len(more) = 1..Len(list) \cup {Len(list) + 1}
  BY <1>1, <1>3
<1>5. RangeOf(more) = RangeOf(list) \cup {c}
  BY <1>1, <1>2, <1>4 DEF RangeOf
<1>6. \A a, b : Before(list, a, b) => Before(more, a, b)
  BY <1>2, <1>4 DEF Before
<1>7. \A a \in RangeOf(list) : Before(more, a, c)
  <2>1. \A i \in 1..Len(list) : i < Len(list) + 1
    BY <1>3
  <2> QED BY <1>1, <1>2, <1>4, <2>1 DEF Before, RangeOf
<1>8. c \notin RangeOf(list) /\ Once(list) => Once(more)
  BY <1>1, <1>2, <1>4 DEF Once, RangeOf
<1>9. more # <<>>
  BY <1>1, <1>3
<1> QED BY <1>1, <1>5, <1>6, <1>7, <1>8, <1>9 DEF more

-----------------------------------------------------------------------------
LEMMA MergeStarts ==
  ASSUME NEW n \in Nat \ {0}, NEW from \in Seq(Seq(1..(n - 1)))
  PROVE  Merging(n, from, from, <<n>>)
<1> DEFINE result == <<n>>
<1>1. result \in Seq(1..n) /\ result # <<>> /\ result[1] = n /\ Len(result) = 1
  OBVIOUS
<1>2. RangeOf(result) = {n} /\ Once(result)
  BY <1>1 DEF RangeOf, Once
<1>3. \A k \in 1..Len(from) : RangeOf(from[k]) \subseteq 1..(n - 1)
  BY DEF RangeOf
<1>4. n \notin 1..(n - 1)
  OBVIOUS
<1>5. KeptSoFar(from, from, result)
  BY DEF KeptSoFar
<1> HIDE DEF result
<1> QED BY <1>1, <1>2, <1>3, <1>4, <1>5 DEF Merging, result

LEMMA MergeGoesOn ==
  ASSUME NEW n \in Nat \ {0}, NEW from, NEW lists, NEW result,
         Merging(n, from, lists, result), GoodHeads(lists) # {}
  PROVE  Merging(n, from, Remove(lists, Candidate(lists)), Append(result, Candidate(lists)))
<1> DEFINE c == Candidate(lists)
           less == Remove(lists, c)
           more == Append(result, c)
<1>1. lists \in Seq(Seq(1..(n - 1))) /\ from \in Seq(Seq(1..(n - 1))) /\ Len(lists) = Len(from)
  BY DEF Merging
<1>2. PICK h \in 1..Len(lists) : lists[h] # <<>> /\ c = Head(lists[h])
  BY <1>1, ChosenIsHead
<1>3. \A k \in 1..Len(lists) : c \notin Tails(lists[k])
  BY <1>1, ChosenIsHead
<1> HIDE DEF c
<1>4. lists[h] \in Seq(1..(n - 1)) /\ 1 \in 1..Len(lists[h]) /\ c = lists[h][1]
  BY <1>1, <1>2
<1>5. c \in RangeOf(lists[h]) /\ c \in 1..(n - 1) /\ c \in 1..n
  BY <1>4 DEF RangeOf
<1>6. c \notin RangeOf(result) /\ c \in RangeOf(from[h])
  BY <1>5 DEF Merging
<1>7. /\ more \in Seq(1..n) /\ more # <<>>
      /\ RangeOf(more) = RangeOf(result) \cup {c}
      /\ \A a, b : Before(result, a, b) => Before(more, a, b)
      /\ \A a \in RangeOf(result) : Before(more, a, c)
      /\ Once(more)
  <2>1. result \in Seq(1..n) /\ Once(result)
    BY DEF Merging
  <2> QED BY <1>5, <1>6, <2>1, AppendedOne
<1>8. more[1] = n
  <2>1. result \in Seq(1..n) /\ result # <<>> /\ result[1] = n
    BY DEF Merging
  <2> QED BY <2>1
<1>9. DOMAIN less = 1..Len(lists) /\ Len(less) = Len(lists)
  BY <1>1 DEF Remove
<1>10. ASSUME NEW k \in 1..Len(lists)
       PROVE  /\ less[k] \in Seq(1..(n - 1))
              /\ RangeOf(less[k]) = RangeOf(lists[k]) \ {c}
              /\ \A a, b : Before(lists[k], a, b) /\ a # c => Before(less[k], a, b)
              /\ \A a, b : Before(lists[k], a, b) => b \in RangeOf(lists[k]) \ {c}
  <2> DEFINE list == lists[k]
             rest == less[k]
             S == 1..(n - 1)
  <2>1. rest = IF list # <<>> /\ Head(list) = c THEN Tail(list) ELSE list
    BY DEF Remove
  <2>2. list \in Seq(S) /\ c \notin Tails(list)
    BY <1>1, <1>3
  <2> HIDE DEF list, rest, S
  <2>3. /\ rest \in Seq(S)
        /\ RangeOf(rest) = RangeOf(list) \ {c}
        /\ \A a, b : Before(list, a, b) /\ a # c => Before(rest, a, b)
        /\ \A a, b : Before(list, a, b) => b \in RangeOf(list) \ {c}
    BY <2>1, <2>2, RemovedFromOne, ZenonT(60)
  <2> QED BY <2>3 DEF list, rest, S
<1>11. less \in Seq(Seq(1..(n - 1)))
  <2>1. \A k \in 1..Len(lists) : less[k] \in Seq(1..(n - 1))
    BY <1>10
  <2>2. less = [k \in 1..Len(lists) |-> less[k]]
    BY DEF Remove
  <2>3. Len(lists) \in Nat
    BY <1>1
  <2> HIDE DEF less
  <2>4. less \in [1..Len(lists) -> Seq(1..(n - 1))]
    BY <2>1, <2>2
  <2> QED BY <2>3, <2>4, FunctionIsSeq
<1> HIDE DEF less, more
<1>12. RangeOf(more) \subseteq {n} \cup UNION {RangeOf(from[k]) : k \in 1..Len(from)}
  <2>1. RangeOf(result) \subseteq {n} \cup UNION {RangeOf(from[k]) : k \in 1..Len(from)}
    BY DEF Merging
  <2>2. h \in 1..Len(from)
    BY <1>1
  <2> QED BY <1>6, <1>7, <2>1, <2>2
<1>13. ASSUME NEW k \in 1..Len(less)
       PROVE  /\ RangeOf(less[k]) \cap RangeOf(more) = {}
              /\ RangeOf(less[k]) \subseteq RangeOf(from[k])
              /\ RangeOf(from[k]) \subseteq RangeOf(more) \cup RangeOf(less[k])
  <2>1. k \in 1..Len(lists)
    BY <1>9
  <2>2. /\ RangeOf(lists[k]) \cap RangeOf(result) = {}
        /\ RangeOf(lists[k]) \subseteq RangeOf(from[k])
        /\ RangeOf(from[k]) \subseteq RangeOf(result) \cup RangeOf(lists[k])
    BY <2>1 DEF Merging
  <2>3. RangeOf(less[k]) = RangeOf(lists[k]) \ {c}
    BY <1>10, <2>1
  <2> QED BY <1>7, <2>2, <2>3
<1>14. KeptSoFar(from, less, more)
  <2> SUFFICES ASSUME NEW k \in 1..Len(less), NEW a, NEW b, Before(from[k], a, b)
               PROVE  \/ Before(more, a, b)
                      \/ a \in RangeOf(more) /\ b \in RangeOf(less[k])
                      \/ Before(less[k], a, b)
    BY DEF KeptSoFar
  <2>1. k \in 1..Len(lists)
    BY <1>9
  <2>2. \/ Before(result, a, b)
        \/ a \in RangeOf(result) /\ b \in RangeOf(lists[k])
        \/ Before(lists[k], a, b)
    BY <2>1 DEF Merging, KeptSoFar
  <2>3. CASE Before(result, a, b)
    BY <1>7, <2>3
  <2>4. CASE a \in RangeOf(result) /\ b \in RangeOf(lists[k])
    BY <1>7, <1>10, <2>1, <2>4
  <2>5. CASE Before(lists[k], a, b)
    BY <1>7, <1>10, <2>1, <2>5
  <2> QED BY <2>2, <2>3, <2>4, <2>5
<1> QED BY <1>1, <1>7, <1>8, <1>9, <1>11, <1>12, <1>13, <1>14 DEF Merging, c, less, more

(* When nothing is left, the result is the order. *)
LEMMA MergeEnds ==
  ASSUME NEW n \in Nat \ {0}, NEW from, NEW lists, NEW result,
         Merging(n, from, lists, result), Merged(lists)
  PROVE  LinearOrder(n, result, from)
<1>1. \A k \in 1..Len(from) : lists[k] = <<>>
  BY DEF Merging, Merged
<1>2. \A k \in 1..Len(from) : RangeOf(lists[k]) = {} /\ \A a, b : ~Before(lists[k], a, b)
  BY <1>1 DEF RangeOf, Before
<1>3. result \in Seq(1..n) /\ result[1] = n /\ n \in RangeOf(result)
  BY DEF Merging, RangeOf
<1>4. RangeOf(result) = {n} \cup UNION {RangeOf(from[k]) : k \in 1..Len(from)}
  <2>1. \A k \in 1..Len(from) : RangeOf(from[k]) \subseteq RangeOf(result)
    BY <1>2 DEF Merging
  <2>2. RangeOf(result) \subseteq {n} \cup UNION {RangeOf(from[k]) : k \in 1..Len(from)}
    BY DEF Merging
  <2> QED BY <1>3, <2>1, <2>2
<1>5. \A a, b \in 1..n : ~(Before(result, a, b) /\ Before(result, b, a))
  <2>1. Once(result) /\ Len(result) \in Nat
    BY <1>3 DEF Merging
  <2> QED BY <2>1 DEF Before, Once
<1>6. \A k \in 1..Len(from) : \A a, b \in 1..n : Before(from[k], a, b) => Before(result, a, b)
  BY <1>2 DEF Merging, KeptSoFar
<1> QED BY <1>3, <1>4, <1>5, <1>6 DEF LinearOrder

-----------------------------------------------------------------------------
(* The invariant.  A class is known by the classes made before it, so that *)
(* what is said of it stays true when others follow.                       *)

Class == [bases : Seq(Nat), mro : Seq(Nat), attrs : Bodies(world), slots : world.slots]
Instance == [type : Nat, attrs : Partial(Values), slotValues : Partial(Values)]

ClassesOK ==
  /\ classes \in Seq(Class)
  /\ \A c \in ClassIds :
       /\ classes[c].bases \in Seq(1..(c - 1)) /\ classes[c].mro \in Seq(1..c)
       /\ classes[c].slots \in SlotsFor(world, classes[c].bases, classes[c].attrs)

UnderWay(bases, lists, result) ==
  /\ making = <<[bases |-> bases, lists |-> lists, result |-> result]>>
  /\ Merging(Len(classes) + 1, ToMerge(bases), lists, result)

MakingOK ==
  making = <<>> \/ \E bases \in Seq(ClassIds) : \E lists, result : UnderWay(bases, lists, result)

InstancesOK ==
  /\ instances \in Seq(Instance)
  /\ \A i \in InstanceIds : instances[i].type \in ClassIds

ClassesKnown == world \in Worlds /\ ClassesOK /\ LinearOrders

IInv ==
  /\ ClassesKnown /\ MakingOK
  /\ InstancesOK /\ PropertiesUncovered

LEMMA ListsToMerge ==
  ASSUME ClassesOK, NEW bases \in Seq(ClassIds)
  PROVE  ToMerge(bases) \in Seq(Seq(ClassIds))
<1> DEFINE orders == [k \in 1..Len(bases) |-> classes[bases[k]].mro]
<1>1. Len(classes) \in Nat /\ Len(bases) \in Nat
  BY DEF ClassesOK
<1>2. ASSUME NEW k \in 1..Len(bases) PROVE orders[k] \in Seq(ClassIds)
  <2>1. bases[k] \in ClassIds
    OBVIOUS
  <2>2. classes[bases[k]].mro \in Seq(1..bases[k])
    BY <2>1 DEF ClassesOK
  <2>3. 1..bases[k] \subseteq ClassIds
    BY <1>1, <2>1 DEF ClassIds
  <2> QED BY <2>2, <2>3, SeqMonotonic
<1>3. orders \in [1..Len(bases) -> Seq(ClassIds)]
  BY <1>2
<1> HIDE DEF orders
<1>4. orders \in Seq(Seq(ClassIds))
  BY <1>1, <1>3, FunctionIsSeq
<1>5. ToMerge(bases) = Append(orders, bases)
  BY DEF ToMerge, orders
<1> HIDE DEF ClassIds
<1> QED BY <1>4, <1>5

(* What is known of the classes that are there when one is added *)
LEMMA OldClassesStay ==
  ASSUME ClassesOK, NEW new, classes' = Append(classes, new)
  PROVE  /\ ClassIds' = ClassIds \cup {Len(classes) + 1}
         /\ \A c \in ClassIds : classes'[c] = classes[c]
         /\ classes'[Len(classes) + 1] = new
         /\ \A bases \in Seq(ClassIds) : ToMerge(bases)' = ToMerge(bases)
<1>1. Len(classes) \in Nat /\ Len(classes') = Len(classes) + 1
  BY DEF ClassesOK
<1>2. \A c \in ClassIds : classes'[c] = classes[c]
  BY DEF ClassesOK, ClassIds
<1>3. classes'[Len(classes) + 1] = new
  BY DEF ClassesOK
<1>4. ASSUME NEW bases \in Seq(ClassIds) PROVE ToMerge(bases)' = ToMerge(bases)
  <2>1. \A k \in 1..Len(bases) : classes'[bases[k]] = classes[bases[k]]
    BY <1>2, ElementsOf
  <2>2. [k \in 1..Len(bases) |-> classes'[bases[k]].mro] = [k \in 1..Len(bases) |-> classes[bases[k]].mro]
    BY <2>1
  <2> QED BY <2>2, Zenon DEF ToMerge
<1> QED BY <1>1, <1>2, <1>3, <1>4 DEF ClassIds

LEMMA LookupStays ==
  ASSUME ClassesOK, NEW new, classes' = Append(classes, new), NEW c \in ClassIds, NEW n
  PROVE  /\ hasAttr(c, n)' <=> hasAttr(c, n)
         /\ hasAttr(c, n) => getRawAttr(c, n)' = getRawAttr(c, n)
<1> DEFINE mro == classes[c].mro
           having == {i \in 1..Len(mro) : n \in DOMAIN classes[mro[i]].attrs}
<1>1. Len(classes) \in Nat /\ mro \in Seq(1..c) /\ Len(mro) \in Nat
  BY DEF ClassesOK
<1>2. \A i \in 1..Len(mro) : mro[i] \in ClassIds
  <2>1. \A i \in 1..Len(mro) : mro[i] \in 1..c
    BY <1>1, ElementsOf
  <2> QED BY <1>1, <2>1 DEF ClassIds
<1>3. classes'[c] = classes[c] /\ \A i \in 1..Len(mro) : classes'[mro[i]] = classes[mro[i]]
  BY <1>2, OldClassesStay
<1>4. hasAttr(c, n)' <=> hasAttr(c, n)
  BY <1>3 DEF hasAttr
<1>5. ASSUME hasAttr(c, n) PROVE getRawAttr(c, n)' = getRawAttr(c, n)
  <2>1. having \subseteq Nat /\ having # {}
    BY <1>5 DEF hasAttr
  <2>2. FirstOf(having) \in 1..Len(mro)
    <3>1. FirstOf(having) \in having
      BY <2>1, FirstIsLeast
    <3> QED BY <3>1
  <2>3. having = {i \in 1..Len(classes'[c].mro) : n \in DOMAIN classes'[classes'[c].mro[i]].attrs}
    BY <1>3
  <2>4. Definer(c, n) = mro[FirstOf(having)]
    BY DEF Definer
  <2>5. Definer(c, n)' = mro[FirstOf(having)]
    BY <1>3, <2>3 DEF Definer
  <2> QED BY <1>3, <2>2, <2>4, <2>5 DEF getRawAttr
<1> QED BY <1>4, <1>5

(* Where classes and instances are left alone, what is known of them stays. *)

LEMMA ClassesKept ==
  ASSUME ClassesKnown, UNCHANGED <<world, classes>>
  PROVE  /\ ClassesKnown'
         /\ ClassIds' = ClassIds
         /\ \A bases : ToMerge(bases)' = ToMerge(bases)
         /\ MakingOK /\ making' = making => MakingOK'
<1>1. ClassIds' = ClassIds /\ Class' = Class
  BY DEF ClassIds, Class
<1>2. \A bases : ToMerge(bases)' = ToMerge(bases)
  BY Zenon DEF ToMerge
<1>3. ClassesOK'
  BY <1>1 DEF ClassesKnown, ClassesOK
<1>4. LinearOrders'
  BY <1>1, Zenon DEF ClassesKnown, LinearOrders, ToMerge
<1>5. MakingOK /\ making' = making => MakingOK'
  BY <1>1, Zenon DEF MakingOK, UnderWay, ToMerge
<1> QED BY <1>1, <1>2, <1>3, <1>4, <1>5 DEF ClassesKnown

LEMMA InstancesKept ==
  ASSUME InstancesOK, PropertiesUncovered, UNCHANGED <<world, classes, instances>>
  PROVE  InstancesOK' /\ PropertiesUncovered'
<1>1. /\ ClassIds' = ClassIds /\ InstanceIds' = InstanceIds /\ Names' = Names
      /\ Partial(Values)' = Partial(Values)
  BY DEF ClassIds, InstanceIds, Names, Partial
<1>2. InstancesOK'
  BY <1>1 DEF InstancesOK, Instance
<1>3. ASSUME NEW i \in InstanceIds, NEW n \in Names,
             hasAttr(instances[i].type, n)', getRawAttr(instances[i].type, n)' \in Properties
      PROVE  n \notin DOMAIN instances'[i].attrs \cup DOMAIN instances'[i].slotValues
  <2>1. hasAttr(instances[i].type, n) /\ getRawAttr(instances[i].type, n) \in Properties
    BY <1>3, Zenon DEF hasAttr, getRawAttr, Definer
  <2> QED BY <2>1 DEF PropertiesUncovered
<1>4. PropertiesUncovered'
  BY <1>1, <1>3, Zenon DEF PropertiesUncovered
<1> QED BY <1>2, <1>4

-----------------------------------------------------------------------------
(* Making a class *)

LEMMA NewClassKeepsIt ==
  ASSUME IInv, NEW bases \in BaseLists(world, Len(classes)), NewClass(bases)
  PROVE  IInv'
<1>1. Len(classes) \in Nat /\ world.max_bases \in Nat
  BY ObjectsAssumption DEF IInv, ClassesKnown, ClassesOK, IsWorld
<1>2. bases \in Seq(ClassIds)
  <2>1. PICK k \in 0..world.max_bases : bases \in [1..k -> ClassIds]
    BY DEF BaseLists, ClassIds
  <2>2. k \in Nat
    BY <1>1, <2>1
  <2> HIDE DEF ClassIds
  <2> QED BY <2>1, <2>2, FunctionIsSeq
<1>3. Merging(Len(classes) + 1, ToMerge(bases), ToMerge(bases), <<Len(classes) + 1>>)
  <2> DEFINE n == Len(classes) + 1
             from == ToMerge(bases)
  <2>1. n \in Nat \ {0} /\ ClassIds = 1..(n - 1)
    BY <1>1 DEF ClassIds
  <2>2. from \in Seq(Seq(1..(n - 1)))
    BY <1>2, <2>1, ListsToMerge DEF IInv, ClassesKnown
  <2> HIDE DEF n, from
  <2>3. Merging(n, from, from, <<n>>)
    BY <2>1, <2>2, MergeStarts
  <2> QED BY <2>3 DEF n, from
<1>4. ClassesKnown' /\ ToMerge(bases)' = ToMerge(bases) /\ classes' = classes /\ ClassIds' = ClassIds
  BY ClassesKept DEF NewClass, IInv
<1>5. MakingOK'
  BY <1>2, <1>3, <1>4 DEF NewClass, MakingOK, UnderWay
<1>6. InstancesOK' /\ PropertiesUncovered'
  BY InstancesKept DEF NewClass, IInv
<1> QED BY <1>4, <1>5, <1>6 DEF IInv

LEMMA TakeHeadKeepsIt ==
  ASSUME IInv, TakeHead
  PROVE  IInv'
<1>1. making # <<>> /\ UNCHANGED <<world, classes, instances>>
  BY DEF TakeHead
<1>2. PICK bases \in Seq(ClassIds) : \E lists, result : UnderWay(bases, lists, result)
  BY <1>1 DEF IInv, MakingOK
<1>3. PICK lists, result : UnderWay(bases, lists, result)
  BY <1>2
<1>4. making[1] = [bases |-> bases, lists |-> lists, result |-> result]
  BY <1>3 DEF UnderWay
<1>5. /\ GoodHeads(lists) # {}
      /\ making' = <<[bases |-> bases, lists |-> Remove(lists, Candidate(lists)),
                      result |-> Append(result, Candidate(lists))]>>
  BY <1>4 DEF TakeHead
<1>6. Len(classes) + 1 \in Nat \ {0}
  BY DEF IInv, ClassesKnown, ClassesOK
<1>7. Merging(Len(classes) + 1, ToMerge(bases), Remove(lists, Candidate(lists)),
              Append(result, Candidate(lists)))
  BY <1>3, <1>5, <1>6, MergeGoesOn DEF UnderWay
<1>8. ClassesKnown' /\ ToMerge(bases)' = ToMerge(bases) /\ ClassIds' = ClassIds
  BY <1>1, ClassesKept DEF IInv
<1>9. MakingOK'
  BY <1>1, <1>5, <1>7, <1>8 DEF MakingOK, UnderWay
<1>10. InstancesOK' /\ PropertiesUncovered'
  BY <1>1, InstancesKept DEF IInv
<1> QED BY <1>8, <1>9, <1>10 DEF IInv

LEMMA RefuseClassKeepsIt ==
  ASSUME IInv, RefuseClass
  PROVE  IInv'
<1>1. making' = <<>> /\ UNCHANGED <<world, classes, instances>>
  BY DEF RefuseClass
<1>2. ClassesKnown' /\ InstancesOK' /\ PropertiesUncovered'
  BY <1>1, ClassesKept, InstancesKept DEF IInv
<1> QED BY <1>1, <1>2 DEF IInv, MakingOK

LEMMA FinishClassKeepsIt ==
  ASSUME IInv, NEW attrs \in Bodies(world), NEW slots \in world.slots, FinishClass(attrs, slots)
  PROVE  IInv'
<1> DEFINE n == Len(classes) + 1
<1>1. PICK bases \in Seq(ClassIds) : \E lists, result : UnderWay(bases, lists, result)
  BY DEF IInv, MakingOK, FinishClass
<1>2. PICK lists, result : UnderWay(bases, lists, result)
  BY <1>1
<1> DEFINE new == [bases |-> bases, mro |-> result, attrs |-> attrs, slots |-> slots]
<1>3. making[1] = [bases |-> bases, lists |-> lists, result |-> result]
  BY <1>2 DEF UnderWay
<1>4. /\ Merged(lists) /\ slots \in SlotsFor(world, bases, attrs)
      /\ classes' = Append(classes, new) /\ making' = <<>> /\ world' = world /\ instances' = instances
  BY <1>3 DEF FinishClass
<1>5. ClassesOK /\ Len(classes) \in Nat /\ n \in Nat \ {0} /\ ClassIds = 1..(n - 1)
  BY DEF IInv, ClassesKnown, ClassesOK, ClassIds
<1>6. LinearOrder(n, result, ToMerge(bases)) /\ result \in Seq(1..n)
  <2>1. LinearOrder(n, result, ToMerge(bases))
    BY <1>2, <1>4, <1>5, MergeEnds DEF UnderWay
  <2>2. result \in Seq(1..n)
    BY <1>2 DEF Merging, UnderWay
  <2> QED BY <2>1, <2>2
<1>7. /\ ClassIds' = ClassIds \cup {n}
      /\ \A c \in ClassIds : classes'[c] = classes[c]
      /\ classes'[n] = new
      /\ \A b \in Seq(ClassIds) : ToMerge(b)' = ToMerge(b)
  BY <1>4, <1>5, OldClassesStay
<1>8. ClassesOK'
  <2>1. new \in Class
    <3>1. bases \in Seq(Nat) /\ result \in Seq(Nat)
      BY <1>5, <1>6, SeqMonotonic
    <3> QED BY <3>1 DEF Class
  <2>2. Class' = Class
    BY <1>4 DEF Class
  <2>3. classes' \in Seq(Class)
    BY <1>4, <1>5, <2>1 DEF ClassesOK
  <2>4. ASSUME NEW c \in ClassIds'
        PROVE  /\ classes'[c].bases \in Seq(1..(c - 1)) /\ classes'[c].mro \in Seq(1..c)
               /\ classes'[c].slots \in SlotsFor(world, classes'[c].bases, classes'[c].attrs)
    <3>1. CASE c \in ClassIds
      BY <1>5, <1>7, <3>1 DEF ClassesOK
    <3>2. CASE c = n
      <4>1. classes'[c].bases = bases /\ classes'[c].mro = result
            /\ classes'[c].slots = slots /\ classes'[c].attrs = attrs
        BY <1>7, <3>2
      <4> QED BY <1>4, <1>5, <1>6, <3>2, <4>1
    <3> QED BY <1>7, <3>1, <3>2
  <2> QED BY <1>4, <2>2, <2>3, <2>4 DEF ClassesOK
<1>9. LinearOrders'
  <2> DEFINE From(cs, b) == Append([k \in 1..Len(b) |-> cs[b[k]].mro], b)
  <2>1. ASSUME NEW c \in ClassIds'
        PROVE  LinearOrder(c, classes'[c].mro, From(classes', classes'[c].bases))
    <3>1. CASE c \in ClassIds
      <4>1. LinearOrder(c, classes[c].mro, From(classes, classes[c].bases))
        BY <3>1 DEF IInv, ClassesKnown, LinearOrders, ToMerge
      <4>2. classes[c].bases \in Seq(ClassIds)
        <5>1. classes[c].bases \in Seq(1..(c - 1))
          BY <1>5, <3>1 DEF ClassesOK
        <5>2. 1..(c - 1) \subseteq ClassIds
          BY <1>5, <3>1
        <5> HIDE DEF ClassIds
        <5> QED BY <5>1, <5>2, SeqMonotonic
      <4>3. From(classes', classes[c].bases) = From(classes, classes[c].bases)
        BY <1>7, <4>2, Zenon DEF ToMerge
      <4> HIDE DEF From
      <4> QED BY <1>7, <3>1, <4>1, <4>3
    <3>2. CASE c = n
      <4>1. classes'[c].bases = bases /\ classes'[c].mro = result
        BY <1>7, <3>2
      <4>2. From(classes', bases) = From(classes, bases)
        BY <1>7, Zenon DEF ToMerge
      <4>3. LinearOrder(c, result, From(classes, bases))
        BY <1>6, <3>2 DEF ToMerge
      <4> HIDE DEF From
      <4> QED BY <4>1, <4>2, <4>3
    <3> QED BY <1>7, <3>1, <3>2
  <2> QED BY <2>1, Zenon DEF LinearOrders, ToMerge
<1>10. InstancesOK'
  <2>1. Instance' = Instance /\ InstanceIds' = InstanceIds
    BY <1>4 DEF Instance, Partial, Names, InstanceIds
  <2> QED BY <1>4, <1>7, <2>1 DEF IInv, InstancesOK
<1>11. PropertiesUncovered'
  <2> SUFFICES ASSUME NEW i \in InstanceIds, NEW m \in Names,
                      hasAttr(instances[i].type, m)' /\ getRawAttr(instances[i].type, m)' \in Properties
               PROVE  m \notin DOMAIN instances[i].attrs \cup DOMAIN instances[i].slotValues
    BY <1>4 DEF PropertiesUncovered, InstanceIds, Names, hasAttr, getRawAttr, Definer
  <2>1. instances[i].type \in ClassIds
    BY DEF IInv, InstancesOK
  <2>2. hasAttr(instances[i].type, m) /\ getRawAttr(instances[i].type, m) \in Properties
    BY <1>4, <1>5, <2>1, LookupStays
  <2> QED BY <2>2 DEF IInv, PropertiesUncovered
<1> QED BY <1>4, <1>8, <1>9, <1>10, <1>11 DEF IInv, ClassesKnown, MakingOK

-----------------------------------------------------------------------------
(* The operations.  One that leaves the instances alone disturbs nothing. *)

LEMMA AnswerKeepsIt ==
  ASSUME IInv, UNCHANGED <<world, classes, making, instances>>
  PROVE  IInv'
<1>1. ClassesKnown' /\ MakingOK'
  BY ClassesKept DEF IInv
<1>2. InstancesOK' /\ PropertiesUncovered'
  BY InstancesKept DEF IInv
<1> QED BY <1>1, <1>2 DEF IInv

LEMMA PartialValues ==
  /\ NoValues \in Partial(Values)
  /\ \A values \in Partial(Values), n \in Names, v \in Values :
       Store(values, n, v) \in Partial(Values)
  /\ \A values \in Partial(Values) : \A n : Without(values, n) \in Partial(Values)
<1>1. NoValues \in [{} -> Values] /\ {} \in SUBSET Names
  BY DEF NoValues
<1>2. ASSUME NEW values \in Partial(Values), NEW n \in Names, NEW v \in Values
      PROVE  Store(values, n, v) \in Partial(Values)
  <2>1. PICK names \in SUBSET Names : values \in [names -> Values]
    BY DEF Partial
  <2>2. Store(values, n, v) \in [names \cup {n} -> Values] /\ names \cup {n} \in SUBSET Names
    BY <2>1 DEF Store
  <2> QED BY <2>2 DEF Partial
<1>3. ASSUME NEW values \in Partial(Values), NEW n
      PROVE  Without(values, n) \in Partial(Values)
  <2>1. PICK names \in SUBSET Names : values \in [names -> Values]
    BY DEF Partial
  <2>2. Without(values, n) \in [names \ {n} -> Values] /\ names \ {n} \in SUBSET Names
    BY <2>1 DEF Without
  <2> QED BY <2>2 DEF Partial
<1> QED BY <1>1, <1>2, <1>3 DEF Partial

(* An instance that is added or changed keeps the invariant if it has a    *)
(* class and no value under the name of a property of it.                  *)
Uncovered(inst) ==
  \A n \in Names :
    (hasAttr(inst.type, n) /\ getRawAttr(inst.type, n) \in Properties) =>
      n \notin DOMAIN inst.attrs \cup DOMAIN inst.slotValues

LEMMA InstanceKeepsIt ==
  ASSUME IInv, UNCHANGED <<world, classes, making>>,
         NEW inst \in Instance, inst.type \in ClassIds, Uncovered(inst),
         \/ instances' = Append(instances, inst)
         \/ \E i \in InstanceIds : instances' = [instances EXCEPT ![i] = inst]
  PROVE  IInv'
<1>1. ClassesKnown' /\ MakingOK' /\ ClassIds' = ClassIds
  BY ClassesKept DEF IInv
<1>2. instances \in Seq(Instance) /\ Len(instances) \in Nat
  BY DEF IInv, InstancesOK
<1>3. Instance' = Instance
  BY DEF Instance, Partial, Names
<1> HIDE DEF Instance
<1>4. instances' \in Seq(Instance)
  BY <1>2 DEF InstanceIds
<1>5. ASSUME NEW i \in InstanceIds'
      PROVE  instances'[i] = inst \/ (i \in InstanceIds /\ instances'[i] = instances[i])
  BY <1>2, SMTT(30) DEF InstanceIds
<1>6. ASSUME NEW i \in InstanceIds'
      PROVE  instances'[i].type \in ClassIds /\ Uncovered(instances'[i])
  <2>1. CASE instances'[i] = inst
    BY <2>1
  <2>2. CASE i \in InstanceIds /\ instances'[i] = instances[i]
    BY <2>2, Zenon DEF IInv, InstancesOK, PropertiesUncovered, Uncovered
  <2> QED BY <1>5, <2>1, <2>2
<1>7. InstancesOK'
  BY <1>1, <1>3, <1>4, <1>6 DEF InstancesOK
<1>8. PropertiesUncovered'
  <2>1. Names' = Names
    BY DEF Names
  <2>2. ASSUME NEW i \in InstanceIds', NEW n \in Names,
               hasAttr(instances[i].type, n)', getRawAttr(instances[i].type, n)' \in Properties
        PROVE  n \notin DOMAIN instances'[i].attrs \cup DOMAIN instances'[i].slotValues
    <3>1. hasAttr(instances'[i].type, n) /\ getRawAttr(instances'[i].type, n) \in Properties
      BY <2>2, Zenon DEF hasAttr, getRawAttr, Definer
    <3> QED BY <1>6, <3>1, Zenon DEF Uncovered
  <2> QED BY <2>1, <2>2, Zenon DEF PropertiesUncovered
<1> QED BY <1>1, <1>7, <1>8 DEF IInv

LEMMA NewInstanceKeepsIt ==
  ASSUME IInv, NEW c \in ClassIds, NewInstance(c)
  PROVE  IInv'
<1> DEFINE inst == [type |-> c, attrs |-> NoValues, slotValues |-> NoValues]
<1>1. UNCHANGED <<world, classes, making>>
  BY DEF NewInstance
<1>2. instances' = instances \/ instances' = Append(instances, inst)
  BY DEF NewInstance
<1>3. inst \in Instance /\ inst.type \in ClassIds
  BY PartialValues DEF Instance, ClassIds
<1>4. Uncovered(inst)
  BY DEF Uncovered, NoValues
<1>5. CASE instances' = instances
  BY <1>1, <1>5, AnswerKeepsIt
<1>6. CASE instances' = Append(instances, inst)
  <2> HIDE DEF inst
  <2> QED BY <1>1, <1>3, <1>4, <1>6, InstanceKeepsIt
<1> QED BY <1>2, <1>5, <1>6

(* A name that is stored under is not the name of a property, for which    *)
(* the property is called.                                                 *)
LEMMA SetAttrKeepsIt ==
  ASSUME IInv, NEW i \in InstanceIds, NEW n \in Names, NEW v \in Values, SetAttr(i, n, v)
  PROVE  IInv'
<1> DEFINE old == instances[i]
           new == IF hasSlots(old.type) THEN [old EXCEPT !.slotValues = Store(old.slotValues, n, v)]
                  ELSE [old EXCEPT !.attrs = Store(old.attrs, n, v)]
<1>1. UNCHANGED <<world, classes, making>>
  BY DEF SetAttr
<1>2. old \in Instance /\ old.type \in ClassIds
  BY DEF IInv, InstancesOK, InstanceIds
<1>3. \/ instances' = instances
      \/ ~isProperty(old.type, n) /\ instances' = [instances EXCEPT ![i] = new]
  BY DEF SetAttr
<1>4. CASE instances' = instances
  BY <1>1, <1>4, AnswerKeepsIt
<1>5. CASE ~isProperty(old.type, n) /\ instances' = [instances EXCEPT ![i] = new]
  <2>1. /\ new \in Instance /\ new.type = old.type
        /\ DOMAIN new.attrs \subseteq DOMAIN old.attrs \cup {n}
        /\ DOMAIN new.slotValues \subseteq DOMAIN old.slotValues \cup {n}
    <3>1. Store(old.attrs, n, v) \in Partial(Values) /\ Store(old.slotValues, n, v) \in Partial(Values)
      BY <1>2, PartialValues DEF Instance
    <3>2. /\ DOMAIN Store(old.attrs, n, v) = DOMAIN old.attrs \cup {n}
          /\ DOMAIN Store(old.slotValues, n, v) = DOMAIN old.slotValues \cup {n}
      BY DEF Store
    <3> QED BY <1>2, <3>1, <3>2 DEF Instance
  <2>2. Uncovered(old)
    BY Zenon DEF IInv, PropertiesUncovered, Uncovered
  <2>3. Uncovered(new)
    <3> HIDE DEF new, old
    <3> QED BY <1>5, <2>1, <2>2 DEF Uncovered, isProperty
  <2> HIDE DEF new
  <2> QED BY <1>1, <1>2, <1>5, <2>1, <2>3, InstanceKeepsIt
<1> QED BY <1>3, <1>4, <1>5

LEMMA DelAttrKeepsIt ==
  ASSUME IInv, NEW i \in InstanceIds, NEW n \in Names, DelAttr(i, n)
  PROVE  IInv'
<1> DEFINE old == instances[i]
           new == IF hasSlots(old.type) THEN [old EXCEPT !.slotValues = Without(old.slotValues, n)]
                  ELSE [old EXCEPT !.attrs = Without(old.attrs, n)]
<1>1. UNCHANGED <<world, classes, making>>
  BY DEF DelAttr
<1>2. old \in Instance /\ old.type \in ClassIds
  BY DEF IInv, InstancesOK, InstanceIds
<1>3. instances' = instances \/ instances' = [instances EXCEPT ![i] = new]
  BY DEF DelAttr
<1>4. CASE instances' = instances
  BY <1>1, <1>4, AnswerKeepsIt
<1>5. CASE instances' = [instances EXCEPT ![i] = new]
  <2>1. /\ new \in Instance /\ new.type = old.type
        /\ DOMAIN new.attrs \subseteq DOMAIN old.attrs
        /\ DOMAIN new.slotValues \subseteq DOMAIN old.slotValues
    <3>1. Without(old.attrs, n) \in Partial(Values) /\ Without(old.slotValues, n) \in Partial(Values)
      BY <1>2, PartialValues DEF Instance
    <3>2. /\ DOMAIN Without(old.attrs, n) = DOMAIN old.attrs \ {n}
          /\ DOMAIN Without(old.slotValues, n) = DOMAIN old.slotValues \ {n}
      BY DEF Without
    <3> QED BY <1>2, <3>1, <3>2 DEF Instance
  <2>2. Uncovered(old)
    BY Zenon DEF IInv, PropertiesUncovered, Uncovered
  <2>3. Uncovered(new)
    <3> HIDE DEF new, old
    <3> QED BY <2>1, <2>2 DEF Uncovered
  <2> HIDE DEF new
  <2> QED BY <1>1, <1>2, <1>5, <2>1, <2>3, InstanceKeepsIt
<1> QED BY <1>3, <1>4, <1>5

-----------------------------------------------------------------------------
(* The invariant holds in all reachable states. *)

LEMMA InitIInv == Init => IInv
<1> SUFFICES ASSUME Init PROVE IInv
  OBVIOUS
<1>1. classes = <<>> /\ making = <<>> /\ instances = <<>> /\ world \in Worlds
  BY DEF Init
<1>2. ClassIds = {} /\ InstanceIds = {}
  BY <1>1 DEF ClassIds, InstanceIds
<1>3. ClassesKnown
  BY <1>1, <1>2 DEF ClassesKnown, ClassesOK, LinearOrders
<1>4. InstancesOK /\ PropertiesUncovered
  BY <1>1, <1>2 DEF InstancesOK, PropertiesUncovered
<1> QED BY <1>1, <1>3, <1>4 DEF IInv, MakingOK

LEMMA NextIInv == IInv /\ [Next]_vars => IInv'
<1> SUFFICES ASSUME IInv, [Next]_vars PROVE IInv'
  OBVIOUS
<1>1. CASE UNCHANGED vars
  BY <1>1, AnswerKeepsIt DEF vars
<1>2. CASE \E bases \in BaseLists(world, Len(classes)) : NewClass(bases)
  BY <1>2, NewClassKeepsIt
<1>3. CASE MakeClass
  BY <1>3, TakeHeadKeepsIt, RefuseClassKeepsIt, FinishClassKeepsIt DEF MakeClass
<1>4. CASE Operate
  <2>1. ASSUME NEW c \in ClassIds, NewInstance(c) PROVE IInv'
    BY <2>1, NewInstanceKeepsIt
  <2>2. ASSUME NEW i \in InstanceIds, NEW n \in Names, GetAttr(i, n) \/ Special(i, n) PROVE IInv'
    BY <2>2, AnswerKeepsIt DEF GetAttr, Special
  <2>3. ASSUME NEW i \in InstanceIds, NEW n \in Names, DelAttr(i, n) PROVE IInv'
    BY <2>3, DelAttrKeepsIt
  <2>4. ASSUME NEW i \in InstanceIds, NEW n \in Names, NEW v \in Values, SetAttr(i, n, v) PROVE IInv'
    BY <2>4, SetAttrKeepsIt
  <2>5. ASSUME NEW i \in InstanceIds, NEW n \in Names, NEW c \in ClassIds, GetSuperAttr(c, i, n)
        PROVE  IInv'
    BY <2>5, AnswerKeepsIt DEF GetSuperAttr
  <2>6. ASSUME NEW c \in ClassIds, NEW n \in Names, GetClassAttr(c, n) PROVE IInv'
    BY <2>6, AnswerKeepsIt DEF GetClassAttr
  <2>7. ASSUME NEW i \in InstanceIds, NEW c \in ClassIds, IsInstance(i, c) PROVE IInv'
    BY <2>7, AnswerKeepsIt DEF IsInstance
  <2> QED BY <1>4, <2>1, <2>2, <2>3, <2>4, <2>5, <2>6, <2>7 DEF Operate
<1> QED BY <1>1, <1>2, <1>3, <1>4 DEF Next

LEMMA AlwaysIInv == Spec => []IInv
  BY InitIInv, NextIInv, PTL DEF Spec

LEMMA IInvHasTypes == IInv => ObjectsTypeOK
<1> SUFFICES ASSUME IInv PROVE ObjectsTypeOK
  OBVIOUS
<1>1. world \in Worlds /\ ClassesOK /\ Len(classes) \in Nat
  BY DEF IInv, ClassesKnown, ClassesOK
<1>2. ASSUME NEW c \in ClassIds
      PROVE  /\ classes[c].attrs \in Bodies(world)
             /\ classes[c].slots \in SlotsFor(world, classes[c].bases, classes[c].attrs)
             /\ \A k \in 1..Len(classes[c].bases) : classes[c].bases[k] \in 1..(c - 1)
  <2>1. classes[c].attrs \in Bodies(world)
    <3>1. classes[c] \in Class
      BY <1>1, ElementsOf DEF ClassesOK, ClassIds
    <3> QED BY <3>1 DEF Class
  <2>2. classes[c].bases \in Seq(1..(c - 1))
    BY <1>1 DEF ClassesOK
  <2> QED BY <1>1, <2>1, <2>2, ElementsOf DEF ClassesOK
<1>3. Len(making) \in {0, 1}
  BY DEF IInv, MakingOK, UnderWay
<1>4. ASSUME NEW i \in InstanceIds
      PROVE  instances[i] \in [type : ClassIds, attrs : Partial(Values), slotValues : Partial(Values)]
  <2>1. instances[i] \in Instance /\ instances[i].type \in ClassIds
    BY DEF IInv, InstancesOK, InstanceIds
  <2> QED BY <2>1 DEF Instance
<1> QED BY <1>1, <1>2, <1>3, <1>4 DEF ObjectsTypeOK

(* Whatever a program does, its classes have bases made before them and    *)
(* the attributes and slots of a body, and its instances a class that      *)
(* exists ($Cls.of, $Inst).                                                *)
THEOREM ObjectsTypeCorrect == Spec => []ObjectsTypeOK
  BY AlwaysIInv, IInvHasTypes, PTL

(* However many bases a class has, and however they are related, the merge *)
(* of $Cls.computeMRO gives an order that begins with the class, has each  *)
(* class it inherits from once, and keeps the order of its bases and of    *)
(* theirs.                                                                 *)
THEOREM OrdersAreLinear == Spec => []LinearOrders
<1>1. IInv => LinearOrders
  BY DEF IInv, ClassesKnown
<1> QED BY <1>1, AlwaysIInv, PTL

(* No instance ever holds a value under the name of a property of its      *)
(* class, so that $Inst.__getattr__ may look at the values first.          *)
THEOREM PropertiesStayUncovered == Spec => []PropertiesUncovered
<1>1. IInv => PropertiesUncovered
  BY DEF IInv
<1> QED BY <1>1, AlwaysIInv, PTL
=============================================================================
