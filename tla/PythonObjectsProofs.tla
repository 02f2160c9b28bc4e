-------------------------- MODULE PythonObjectsProofs --------------------------
(***************************************************************************)
(* Proofs that Objects implements PythonObjects, in all worlds in which    *)
(* the two can be compared.                                                *)
(***************************************************************************)
EXTENDS ObjectsProofs, FiniteSetTheorems

-----------------------------------------------------------------------------
(* The merge, and the order it is to find.  What is left of a list has the *)
(* order of the list.  At each place of the result stands the class that   *)
(* an earlier list has than any other that could have come there: one with *)
(* no class in front of it in a list, of those that were still to come.    *)

InFront(from, a, b) == \E k \in 1..Len(from) : Before(from[k], a, b)
ToCome(lists) == UNION {RangeOf(lists[k]) : k \in 1..Len(lists)}
BehindPlace(result, p) == {result[j] : j \in p..Len(result)}
Free(from, S) == {c \in S : \A y \in S : ~InFront(from, y, c)}
Earlier(from, a, c) == \E k \in 1..Len(from) : a \in RangeOf(from[k]) /\ \A j \in 1..k : c \notin RangeOf(from[j])

Shortened(from, lists) ==
  \A k \in 1..Len(lists) : \A a, b : Before(lists[k], a, b) => Before(from[k], a, b)

ChosenSoFar(from, lists, result) ==
  \A p \in 2..Len(result) :
    \A c \in Free(from, BehindPlace(result, p) \cup ToCome(lists)) \ {result[p]} :
      Earlier(from, result[p], c)

(* A class that is still to come is the head of a list or behind it. *)
LEMMA HeadOrBehind ==
  ASSUME NEW S, NEW list \in Seq(S), NEW c \in RangeOf(list)
  PROVE  /\ list # <<>> /\ Head(list) \in RangeOf(list)
         /\ c = Head(list) \/ Before(list, Head(list), c)
         /\ c \in Tails(list) => Before(list, Head(list), c)
<1>1. PICK i \in 1..Len(list) : list[i] = c
  BY DEF RangeOf
<1>2. list # <<>> /\ Head(list) = list[1] /\ 1 \in 1..Len(list)
  BY <1>1
<1>3. c \in Tails(list) => \E j \in 2..Len(list) : list[j] = c
  BY DEF Tails
<1>4. \A j \in 2..Len(list) : 1 < j /\ j \in 1..Len(list)
  OBVIOUS
<1>5. i = 1 \/ i \in 2..Len(list)
  OBVIOUS
<1> QED BY <1>1, <1>2, <1>3, <1>4, <1>5 DEF Before, RangeOf

(* A class with nothing in front of it is the head of every list it is in, *)
(* and can be taken.                                                       *)
LEMMA FreeIsGoodHead ==
  ASSUME NEW n \in Nat \ {0}, NEW from, NEW lists, NEW result,
         Merging(n, from, lists, result), Shortened(from, lists),
         NEW c \in Free(from, ToCome(lists)),
         NEW k \in 1..Len(lists), c \in RangeOf(lists[k])
  PROVE  k \in GoodHeads(lists) /\ c = Head(lists[k])
<1>1. lists \in Seq(Seq(1..(n - 1))) /\ Len(lists) = Len(from) /\ Len(lists) \in Nat
  BY DEF Merging
<1>2. ASSUME NEW l \in 1..Len(lists), c \in RangeOf(lists[l])
      PROVE  lists[l] # <<>> /\ c = Head(lists[l]) /\ c \notin Tails(lists[l])
  <2>1. lists[l] \in Seq(1..(n - 1))
    BY <1>1
  <2>2. /\ lists[l] # <<>> /\ Head(lists[l]) \in RangeOf(lists[l])
        /\ c = Head(lists[l]) \/ Before(lists[l], Head(lists[l]), c)
        /\ c \in Tails(lists[l]) => Before(lists[l], Head(lists[l]), c)
    BY <1>2, <2>1, HeadOrBehind
  <2>3. ~Before(lists[l], Head(lists[l]), c)
    <3>1. Head(lists[l]) \in ToCome(lists)
      BY <2>2 DEF ToCome
    <3>2. ~InFront(from, Head(lists[l]), c)
      BY <3>1 DEF Free
    <3> QED BY <1>1, <3>2 DEF InFront, Shortened
  <2> QED BY <2>2, <2>3
<1>3. ASSUME NEW l \in 1..Len(lists) PROVE c \notin Tails(lists[l])
  <2>1. c \in Tails(lists[l]) => c \in RangeOf(lists[l])
    BY DEF Tails, RangeOf
  <2> QED BY <1>2, <2>1
<1>4. lists[k] # <<>> /\ c = Head(lists[k])
  BY <1>2
<1> QED BY <1>3, <1>4 DEF GoodHeads, GoodHead, InTail

(* The candidate is in an earlier list than any other that could come.     *)
LEMMA CandidateIsEarlier ==
  ASSUME NEW n \in Nat \ {0}, NEW from, NEW lists, NEW result,
         Merging(n, from, lists, result), Shortened(from, lists), GoodHeads(lists) # {},
         NEW c \in Free(from, ToCome(lists)), c # Candidate(lists)
  PROVE  Earlier(from, Candidate(lists), c)
<1> DEFINE k == FirstOf(GoodHeads(lists))
<1>1. k \in GoodHeads(lists) /\ \A l \in GoodHeads(lists) : k <= l
  <2>1. GoodHeads(lists) \subseteq Nat
    BY DEF GoodHeads
  <2> QED BY <2>1, FirstIsLeast
<1>2. k \in 1..Len(lists) /\ lists[k] # <<>> /\ Candidate(lists) = Head(lists[k])
  BY <1>1 DEF GoodHeads, GoodHead, Candidate
<1> HIDE DEF k
<1>3. lists \in Seq(Seq(1..(n - 1))) /\ Len(lists) = Len(from) /\ Len(lists) \in Nat
  BY DEF Merging
<1>4. Candidate(lists) \in RangeOf(from[k])
  <2>1. RangeOf(lists[k]) \subseteq RangeOf(from[k])
    BY <1>2 DEF Merging
  <2>2. lists[k] \in Seq(1..(n - 1))
    BY <1>2, <1>3
  <2>3. Head(lists[k]) = lists[k][1] /\ 1 \in 1..Len(lists[k])
    BY <1>2, <2>2
  <2> QED BY <1>2, <2>1, <2>3 DEF RangeOf
<1>5. ASSUME NEW j \in 1..k PROVE c \notin RangeOf(from[j])
  <2>1. j \in 1..Len(lists) /\ j <= k
    BY <1>2, <1>3
  <2>2. SUFFICES ASSUME c \in RangeOf(from[j]) PROVE FALSE
    OBVIOUS
  <2>3. c \in RangeOf(lists[j])
    <3>1. PICK l \in 1..Len(lists) : c \in RangeOf(lists[l])
      BY DEF Free, ToCome
    <3>2. c \notin RangeOf(result)
      BY <3>1 DEF Merging
    <3> QED BY <2>1, <2>2, <3>2 DEF Merging
  <2>4. j \in GoodHeads(lists) /\ c = Head(lists[j])
    BY <2>1, <2>3, FreeIsGoodHead
  <2>5. j = k
    BY <1>1, <1>2, <1>3, <2>1, <2>4
  <2> QED BY <1>2, <2>4, <2>5
<1> QED BY <1>2, <1>3, <1>4, <1>5 DEF Earlier

LEMMA ChoiceStarts ==
  ASSUME NEW from, NEW n
  PROVE  Shortened(from, from) /\ ChosenSoFar(from, from, <<n>>)
BY DEF Shortened, ChosenSoFar

LEMMA ChoiceGoesOn ==
  ASSUME NEW n \in Nat \ {0}, NEW from, NEW lists, NEW result,
         Merging(n, from, lists, result), Shortened(from, lists),
         ChosenSoFar(from, lists, result), GoodHeads(lists) # {}
  PROVE  /\ Shortened(from, Remove(lists, Candidate(lists)))
         /\ ChosenSoFar(from, Remove(lists, Candidate(lists)), Append(result, Candidate(lists)))
<1> DEFINE c == Candidate(lists)
           less == Remove(lists, c)
           more == Append(result, c)
<1>1. lists \in Seq(Seq(1..(n - 1))) /\ from \in Seq(Seq(1..(n - 1))) /\ Len(lists) = Len(from)
  BY DEF Merging
<1>2. PICK h \in 1..Len(lists) : lists[h] # <<>> /\ c = Head(lists[h])
  BY <1>1, ChosenIsHead
<1>3. \A k \in 1..Len(lists) : c \notin Tails(lists[k])
  BY <1>1, ChosenIsHead
<1>4. \A d \in Free(from, ToCome(lists)) \ {c} : Earlier(from, c, d)
  BY CandidateIsEarlier
<1> HIDE DEF c
<1>5. Len(less) = Len(lists)
  BY <1>1 DEF Remove
<1>6. ASSUME NEW k \in 1..Len(lists)
      PROVE  /\ RangeOf(less[k]) = RangeOf(lists[k]) \ {c}
             /\ \A a, b : Before(less[k], a, b) => Before(lists[k], a, b)
  <2> DEFINE list == lists[k]
             rest == less[k]
             S == 1..(n - 1)
  <2>1. rest = IF list # <<>> /\ Head(list) = c THEN Tail(list) ELSE list
    BY DEF Remove
  <2>2. list \in Seq(S) /\ c \notin Tails(list)
    BY <1>1, <1>3
  <2> HIDE DEF list, rest, S
  <2>3. RangeOf(rest) = RangeOf(list) \ {c}
    BY <2>1, <2>2, RemovedFromOne
  <2>4. ASSUME NEW a, NEW b, Before(rest, a, b) PROVE Before(list, a, b)
    <3>1. CASE rest = list
      BY <2>4, <3>1
    <3>2. CASE list # <<>> /\ rest = Tail(list)
      <4>1. /\ Len(rest) = Len(list) - 1 /\ Len(list) \in Nat
            /\ \A i \in 1..Len(rest) : rest[i] = list[i + 1]
        BY <2>2, <3>2
      <4>2. PICK i, j \in 1..Len(rest) : i < j /\ rest[i] = a /\ rest[j] = b
        BY <2>4 DEF Before
      <4>3. i + 1 \in 1..Len(list) /\ j + 1 \in 1..Len(list) /\ i + 1 < j + 1
        BY <4>1, <4>2
      <4> QED BY <4>1, <4>2, <4>3 DEF Before
    <3> QED BY <2>1, <3>1, <3>2
  <2> QED BY <2>3, <2>4 DEF list, rest
<1>7. Shortened(from, less)
  BY <1>5, <1>6 DEF Shortened
<1>8. ToCome(lists) = {c} \cup ToCome(less)
  <2>1. c \in RangeOf(lists[h])
    <3>1. lists[h] \in Seq(1..(n - 1))
      BY <1>1
    <3>2. 1 \in 1..Len(lists[h]) /\ c = lists[h][1]
      BY <1>2, <3>1
    <3> QED BY <3>2 DEF RangeOf
  <2>2. \A k \in 1..Len(lists) : RangeOf(less[k]) = RangeOf(lists[k]) \ {c}
    BY <1>6
  <2> HIDE DEF less
  <2>3. ASSUME NEW x \in ToCome(lists) PROVE x \in {c} \cup ToCome(less)
    <3>1. PICK k \in 1..Len(lists) : x \in RangeOf(lists[k])
      BY DEF ToCome
    <3>2. x = c \/ x \in RangeOf(less[k])
      BY <2>2, <3>1
    <3> QED BY <1>5, <3>2 DEF ToCome
  <2>4. ASSUME NEW x \in ToCome(less) PROVE x \in ToCome(lists)
    <3>1. PICK k \in 1..Len(lists) : x \in RangeOf(less[k])
      BY <1>5 DEF ToCome
    <3>2. x \in RangeOf(lists[k])
      BY <2>2, <3>1
    <3> QED BY <3>2 DEF ToCome
  <2> QED BY <2>1, <2>3, <2>4 DEF ToCome
<1>9. /\ Len(more) = Len(result) + 1 /\ Len(result) \in Nat
      /\ more[Len(result) + 1] = c /\ \A p \in 1..Len(result) : more[p] = result[p]
  BY DEF Merging
<1> HIDE DEF less, more
<1>10. ASSUME NEW p \in 2..Len(more)
       PROVE  \A d \in Free(from, BehindPlace(more, p) \cup ToCome(less)) \ {more[p]} : Earlier(from, more[p], d)
  <2>1. CASE p = Len(result) + 1
    <3>1. BehindPlace(more, p) = {c} /\ more[p] = c
      BY <1>9, <2>1 DEF BehindPlace
    <3> QED BY <1>4, <1>8, <3>1
  <2>2. CASE p # Len(result) + 1
    <3>1. p \in 2..Len(result)
      BY <1>9, <2>2
    <3>2. more[p] = result[p]
      BY <1>9, <3>1
    <3>3. p..Len(more) = (p..Len(result)) \cup {Len(result) + 1}
      BY <1>9, <3>1
    <3>4. \A j \in p..Len(result) : more[j] = result[j]
      BY <1>9, <3>1
    <3>5. BehindPlace(more, p) = BehindPlace(result, p) \cup {c}
      BY <1>9, <3>3, <3>4 DEF BehindPlace
    <3>6. BehindPlace(more, p) \cup ToCome(less) = BehindPlace(result, p) \cup ToCome(lists)
      BY <1>8, <3>5
    <3> QED BY <3>1, <3>2, <3>6 DEF ChosenSoFar
  <2> QED BY <2>1, <2>2
<1> QED BY <1>7, <1>10 DEF ChosenSoFar, c, less, more

-----------------------------------------------------------------------------
(* The lists of a class with these bases, and the orders that Python has   *)
(* to choose from.                                                         *)

LEMMA OneCardinality == \A S : Python!Cardinality(S) = Cardinality(S)
  BY Zenon DEF Python!Cardinality, Cardinality

LEMMA PermutationOf ==
  ASSUME NEW S, IsFiniteSet(S)
  PROVE  \A order : order \in Python!SetToSeqs(S) <=>
           /\ order \in Seq(S) /\ RangeOf(order) = S
           /\ Once(order)
<1> DEFINE m == Cardinality(S)
<1>1. m \in Nat
  BY FS_CardinalityType
<1>2. IsFiniteSet(1..m) /\ Cardinality(1..m) = m
  BY <1>1, FS_Interval
<1>3. ASSUME NEW order \in Python!SetToSeqs(S)
      PROVE  order \in Seq(S) /\ RangeOf(order) = S /\ Once(order)
  <2>1. order \in [1..m -> S] /\ \A i, j \in 1..m : i # j => order[i] # order[j]
    BY <1>3, OneCardinality DEF Python!SetToSeqs
  <2>2. order \in Injection(1..m, S)
    BY <2>1 DEF Injection, IsInjective
  <2>3. order \in Surjection(1..m, S)
    BY <1>1, <1>2, <2>2, FS_Injection
  <2> HIDE DEF m
  <2>4. order \in Seq(S) /\ Len(order) = m
    BY <1>1, <2>1, FunctionIsSeq
  <2>5. RangeOf(order) = S
    BY <2>1, <2>3, <2>4 DEF RangeOf, Surjection
  <2> QED BY <2>1, <2>4, <2>5 DEF Once
<1>4. ASSUME NEW order \in Seq(S), RangeOf(order) = S, Once(order)
      PROVE  order \in Python!SetToSeqs(S)
  <2> DEFINE k == Len(order)
  <2>1. k \in Nat /\ order \in [1..k -> S]
    BY <1>4
  <2>2. order \in Injection(1..k, S) /\ order \in Surjection(1..k, S)
    BY <1>4, <2>1 DEF Injection, IsInjective, Surjection, RangeOf, Once
  <2>3. Cardinality(1..k) = Cardinality(S)
    BY <2>2, FS_Injection
  <2>4. Cardinality(1..k) = k
    BY <2>1, FS_Interval
  <2>5. k = m
    BY <2>3, <2>4
  <2>6. order \in [1..m -> S] /\ \A i, j \in 1..m : i # j => order[i] # order[j]
    BY <1>4, <2>1, <2>5 DEF Once
  <2> QED BY <2>6, OneCardinality DEF Python!SetToSeqs
<1> QED BY <1>3, <1>4

LEMMA ListsOfBases ==
  ASSUME ClassesKnown, NEW bases \in Seq(ClassIds)
  PROVE  /\ \A a, b : Python!Must(bases, a, b) <=> InFront(ToMerge(bases), a, b)
         /\ Python!Inherited(bases) = ToCome(ToMerge(bases))
         /\ Len(ToMerge(bases)) = Len(bases) + 1
         /\ \A k \in 1..Len(bases) :
              /\ ToMerge(bases)[k] = classes[bases[k]].mro
              /\ Python!ToSet(classes[bases[k]].mro) = RangeOf(ToMerge(bases)[k])
         /\ ToMerge(bases)[Len(bases) + 1] = bases
         /\ RangeOf(bases) \subseteq Python!Inherited(bases)
<1> DEFINE from == ToMerge(bases)
           m == Len(bases)
<1>1. m \in Nat /\ \A k \in 1..m : bases[k] \in ClassIds
  OBVIOUS
<1>2. Len(from) = m + 1 /\ from[m + 1] = bases /\ \A k \in 1..m : from[k] = classes[bases[k]].mro
  <2> DEFINE orders == [k \in 1..m |-> classes[bases[k]].mro]
  <2>1. orders \in Seq({classes[bases[k]].mro : k \in 1..m}) /\ Len(orders) = m
    <3>1. orders \in [1..m -> {classes[bases[k]].mro : k \in 1..m}]
      OBVIOUS
    <3> HIDE DEF orders, m
    <3> QED BY <1>1, <3>1, FunctionIsSeq
  <2>2. from = Append(orders, bases) /\ \A k \in 1..m : orders[k] = classes[bases[k]].mro
    BY DEF ToMerge
  <2> HIDE DEF orders, from, m
  <2> QED BY <1>1, <2>1, <2>2
<1> HIDE DEF from
<1>3. 1..Len(from) = 1..m \cup {m + 1}
  BY <1>1, <1>2
<1>4. ASSUME NEW a, NEW b PROVE Python!Must(bases, a, b) <=> InFront(from, a, b)
  <2>1. Python!Must(bases, a, b) <=>
          \/ Before(bases, a, b) \/ \E k \in 1..m : Before(classes[bases[k]].mro, a, b)
    BY Zenon DEF Python!Must, Python!Precedes, Before
  <2> HIDE DEF m
  <2> QED BY <1>2, <1>3, <2>1 DEF InFront
<1>5. ASSUME NEW k \in 1..m
      PROVE  /\ Python!ToSet(classes[bases[k]].mro) = RangeOf(from[k])
             /\ bases[k] \in RangeOf(from[k])
  <2> DEFINE mro == classes[bases[k]].mro
  <2>1. mro \in Seq(1..bases[k]) /\ mro[1] = bases[k] /\ bases[k] \in RangeOf(mro)
    <3>1. bases[k] \in ClassIds
      BY <1>1
    <3>2. mro \in Seq(1..bases[k])
      BY <3>1 DEF ClassesKnown, ClassesOK
    <3>3. LinearOrder(bases[k], mro, ToMerge(classes[bases[k]].bases))
      BY <3>1 DEF ClassesKnown, LinearOrders
    <3> HIDE DEF mro
    <3> QED BY <3>2, <3>3 DEF LinearOrder
  <2>2. DOMAIN mro = 1..Len(mro)
    BY <2>1
  <2>3. Python!ToSet(mro) = RangeOf(mro)
    <3> HIDE DEF mro
    <3> QED BY <2>2 DEF Python!ToSet, RangeOf
  <2> QED BY <1>2, <2>1, <2>3
<1> DEFINE inherited == UNION {RangeOf(from[k]) : k \in 1..m}
<1>6. Python!Inherited(bases) = inherited
  BY <1>5, Zenon DEF Python!Inherited
<1>7. RangeOf(bases) \subseteq inherited
  BY <1>5 DEF RangeOf
<1> HIDE DEF m
<1>8. ASSUME NEW x \in ToCome(from) PROVE x \in inherited
  <2>1. PICK k \in 1..Len(from) : x \in RangeOf(from[k])
    BY DEF ToCome
  <2>2. k \in 1..m \/ from[k] = bases
    BY <1>2, <1>3
  <2> QED BY <1>7, <2>1, <2>2
<1>9. ASSUME NEW x \in inherited PROVE x \in ToCome(from)
  <2>1. \E k \in 1..Len(from) : x \in RangeOf(from[k])
    BY <1>3
  <2> QED BY <2>1 DEF ToCome
<1> HIDE DEF inherited
<1>10. inherited = ToCome(from)
  BY <1>8, <1>9
<1> QED BY <1>2, <1>4, <1>5, <1>6, <1>7, <1>10 DEF from, m

LEMMA OrdersOfBases ==
  ASSUME ClassesKnown, NEW bases \in Seq(ClassIds)
  PROVE  \A order : order \in Python!Orders(bases) <=>
           /\ order \in Seq(ToCome(ToMerge(bases))) /\ RangeOf(order) = ToCome(ToMerge(bases))
           /\ Once(order)
           /\ \A i, j \in 1..Len(order) : InFront(ToMerge(bases), order[i], order[j]) => i < j
<1> DEFINE from == ToMerge(bases)
<1>1. from \in Seq(Seq(ClassIds))
  BY ListsToMerge DEF ClassesKnown
<1>2. ToCome(from) \subseteq ClassIds
  <2> HIDE DEF from
  <2>1. ASSUME NEW k \in 1..Len(from) PROVE RangeOf(from[k]) \subseteq ClassIds
    <3>1. from[k] \in Seq(ClassIds)
      BY <1>1
    <3> HIDE DEF ClassIds
    <3> QED BY <3>1 DEF RangeOf
  <2> QED BY <2>1 DEF ToCome
<1>3. IsFiniteSet(ToCome(from))
  <2>1. IsFiniteSet(ClassIds)
    <3>1. 1 \in Int /\ Len(classes) \in Int
      BY DEF ClassesKnown, ClassesOK
    <3> QED BY <3>1, FS_Interval DEF ClassIds
  <2> QED BY <1>2, <2>1, FS_Subset
<1>4. /\ Python!Inherited(bases) = ToCome(from)
      /\ \A a, b : Python!Must(bases, a, b) <=> InFront(from, a, b)
  BY ListsOfBases
<1> HIDE DEF from
<1>5. \A order : order \in Python!SetToSeqs(ToCome(from)) <=>
        order \in Seq(ToCome(from)) /\ RangeOf(order) = ToCome(from) /\ Once(order)
  BY <1>3, PermutationOf
<1>6. \A order : Python!Consistent(bases, order) <=>
        \A i, j \in 1..Len(order) : InFront(from, order[i], order[j]) => i < j
  BY <1>4, Zenon DEF Python!Consistent
<1>7. Python!Orders(bases) = {order \in Python!SetToSeqs(ToCome(from)) : Python!Consistent(bases, order)}
  BY <1>4, Zenon DEF Python!Orders
<1> QED BY <1>5, <1>6, <1>7 DEF from

(* Where no head is good, the lists contradict each other: in an order of  *)
(* all classes, the first of those that are left would be a good head.     *)
LEMMA NoOrderLeft ==
  ASSUME ClassesKnown, NEW bases \in Seq(ClassIds), NEW lists, NEW result,
         Merging(Len(classes) + 1, ToMerge(bases), lists, result),
         Shortened(ToMerge(bases), lists), ~Merged(lists), GoodHeads(lists) = {}
  PROVE  Python!Orders(bases) = {}
<1> DEFINE from == ToMerge(bases)
           n == Len(classes) + 1
<1>1. n \in Nat \ {0}
  BY DEF ClassesKnown, ClassesOK
<1> SUFFICES ASSUME NEW order \in Python!Orders(bases) PROVE FALSE
  OBVIOUS
<1>2. /\ RangeOf(order) = ToCome(from) /\ Len(order) \in Nat
      /\ \A i, j \in 1..Len(order) : InFront(from, order[i], order[j]) => i < j
  BY OrdersOfBases
<1>3. Merging(n, from, lists, result) /\ Shortened(from, lists)
  OBVIOUS
<1> HIDE DEF from, n
<1> DEFINE P == {i \in 1..Len(order) : order[i] \in ToCome(lists)}
<1>4. ToCome(lists) \subseteq ToCome(from)
  <2>1. Len(lists) = Len(from) /\ \A k \in 1..Len(lists) : RangeOf(lists[k]) \subseteq RangeOf(from[k])
    BY <1>3 DEF Merging
  <2> QED BY <2>1 DEF ToCome
<1>5. P # {}
  <2>1. PICK k \in 1..Len(lists) : lists[k] # <<>>
    BY DEF Merged
  <2>2. lists[k] \in Seq(1..(n - 1))
    <3> DEFINE S == Seq(1..(n - 1))
    <3>1. lists \in Seq(S)
      BY <1>3 DEF Merging
    <3> HIDE DEF S
    <3>2. lists[k] \in S
      BY <3>1, ElementsOf
    <3> QED BY <3>2 DEF S
  <2>3. 1 \in 1..Len(lists[k])
    BY <2>1, <2>2
  <2>4. lists[k][1] \in ToCome(lists)
    BY <2>3 DEF ToCome, RangeOf
  <2>5. lists[k][1] \in RangeOf(order)
    BY <1>2, <1>4, <2>4
  <2> QED BY <2>4, <2>5 DEF RangeOf
<1>6. FirstOf(P) \in P /\ \A j \in P : FirstOf(P) <= j
  <2>1. P \subseteq Nat
    OBVIOUS
  <2> HIDE DEF P
  <2> QED BY <1>5, <2>1, FirstIsLeast
<1> DEFINE i == FirstOf(P)
           c == order[i]
<1>7. c \in Free(from, ToCome(lists))
  <2>1. i \in 1..Len(order) /\ c \in ToCome(lists)
    BY <1>6
  <2>2. ASSUME NEW y \in ToCome(lists), InFront(from, y, c) PROVE FALSE
    <3>1. PICK j \in 1..Len(order) : order[j] = y
      BY <1>2, <1>4 DEF RangeOf
    <3>2. j < i
      BY <1>2, <2>1, <2>2, <3>1
    <3>3. i <= j
      BY <1>6, <2>2, <3>1
    <3> QED BY <2>1, <3>2, <3>3
  <2> HIDE DEF c
  <2> QED BY <2>1, <2>2 DEF Free
<1> HIDE DEF c
<1>8. PICK k \in 1..Len(lists) : c \in RangeOf(lists[k])
  BY <1>7 DEF Free, ToCome
<1>9. k \in GoodHeads(lists)
  BY <1>1, <1>3, <1>7, <1>8, FreeIsGoodHead
<1> QED BY <1>9

(* A merge that is done gives the order that Python chooses. *)
LEMMA OrderChosen ==
  ASSUME ClassesKnown, NEW bases \in Seq(ClassIds), NEW lists, NEW result,
         Merging(Len(classes) + 1, ToMerge(bases), lists, result), Merged(lists),
         ChosenSoFar(ToMerge(bases), lists, result)
  PROVE  \E order \in Python!Orders(bases) :
           Python!Chosen(bases, order) /\ result = <<Len(classes) + 1>> \o order
<1> DEFINE from == ToMerge(bases)
           n == Len(classes) + 1
           order == [i \in 1..(Len(result) - 1) |-> result[i + 1]]
           m == Len(order)
<1>1. n \in Nat \ {0} /\ Len(bases) \in Nat
  BY DEF ClassesKnown, ClassesOK
<1>2. Merging(n, from, lists, result) /\ ChosenSoFar(from, lists, result) /\ LinearOrder(n, result, from)
  <2> HIDE DEF from, n
  <2>1. Merging(n, from, lists, result) /\ ChosenSoFar(from, lists, result)
    BY DEF from, n
  <2> QED BY <1>1, <2>1, MergeEnds
<1>3. /\ \A a, b : Python!Must(bases, a, b) <=> InFront(from, a, b)
      /\ Python!Inherited(bases) = ToCome(from)
      /\ Len(from) = Len(bases) + 1
      /\ \A k \in 1..Len(bases) : Python!ToSet(classes[bases[k]].mro) = RangeOf(from[k])
      /\ from[Len(bases) + 1] = bases /\ RangeOf(bases) \subseteq Python!Inherited(bases)
  BY ListsOfBases
<1> HIDE DEF from, n
<1>4. /\ result \in Seq(1..n) /\ result # <<>> /\ result[1] = n /\ Once(result)
      /\ from \in Seq(Seq(1..(n - 1)))
  BY <1>2 DEF Merging
<1>5. order \in Seq(1..n) /\ m = Len(result) - 1 /\ m \in Nat /\ \A i \in 1..m : order[i] = result[i + 1]
  <2>1. Len(result) - 1 \in Nat /\ order \in [1..(Len(result) - 1) -> 1..n]
    <3>1. Len(result) \in Nat /\ Len(result) > 0
      BY <1>4
    <3>2. \A i \in 1..(Len(result) - 1) : i + 1 \in 1..Len(result)
      BY <3>1
    <3>3. \A i \in 1..(Len(result) - 1) : result[i + 1] \in 1..n
      BY <1>4, <3>2, ElementsOf
    <3> QED BY <3>1, <3>3
  <2> HIDE DEF order
  <2>2. order \in Seq(1..n) /\ Len(order) = Len(result) - 1
    BY <2>1, FunctionIsSeq
  <2> QED BY <2>1, <2>2 DEF order
<1> HIDE DEF order
<1>6. result = <<n>> \o order
  <2> DEFINE all == <<n>> \o order
  <2>1. /\ all \in Seq(1..n) /\ Len(all) = 1 + m /\ all[1] = n
        /\ \A i \in 1..m : all[i + 1] = order[i]
    <3>1. <<n>> \in Seq(1..n) /\ Len(<<n>>) = 1 /\ <<n>>[1] = n
      BY <1>1
    <3> QED BY <1>5, <3>1
  <2> HIDE DEF all
  <2>2. Len(all) = Len(result)
    BY <1>4, <1>5, <2>1
  <2>3. ASSUME NEW i \in 1..Len(result) PROVE result[i] = all[i]
    <3>1. i = 1 \/ (i - 1 \in 1..m /\ i - 1 + 1 = i)
      BY <1>4, <1>5
    <3> QED BY <1>4, <1>5, <2>1, <3>1
  <2>4. result = all
    BY <1>4, <2>1, <2>2, <2>3
  <2> QED BY <2>4 DEF all
<1>7. ToCome(from) \subseteq 1..(n - 1)
  <2>1. ASSUME NEW k \in 1..Len(from) PROVE RangeOf(from[k]) \subseteq 1..(n - 1)
    <3> DEFINE S == 1..(n - 1)
    <3>1. from[k] \in Seq(S)
      BY <1>4
    <3> HIDE DEF S
    <3>2. RangeOf(from[k]) \subseteq S
      BY <3>1 DEF RangeOf
    <3> QED BY <3>2 DEF S
  <2> QED BY <2>1 DEF ToCome
<1>8. RangeOf(order) = ToCome(from)
  <2>1. RangeOf(result) = {n} \cup ToCome(from)
    BY <1>2 DEF LinearOrder, ToCome
  <2>2. RangeOf(result) = {n} \cup RangeOf(order)
    <3>1. ASSUME NEW i \in 1..Len(result) PROVE result[i] \in {n} \cup RangeOf(order)
      <4>1. i = 1 \/ (i - 1 \in 1..m /\ i - 1 + 1 = i)
        BY <1>4, <1>5
      <4> QED BY <1>4, <1>5, <4>1 DEF RangeOf
    <3>2. ASSUME NEW i \in 1..m PROVE i + 1 \in 1..Len(result) /\ order[i] \in RangeOf(result)
      <4>1. i + 1 \in 1..Len(result)
        BY <1>4, <1>5
      <4> QED BY <1>5, <4>1 DEF RangeOf
    <3>3. n \in RangeOf(result)
      <4>1. 1 \in 1..Len(result)
        BY <1>4
      <4> QED BY <1>4, <4>1 DEF RangeOf
    <3> QED BY <3>1, <3>2, <3>3 DEF RangeOf
  <2>3. n \notin RangeOf(order)
    <3>1. ASSUME NEW i \in 1..m PROVE order[i] # n
      <4>1. i + 1 \in 1..Len(result) /\ i + 1 # 1 /\ 1 \in 1..Len(result)
        BY <1>4, <1>5
      <4> QED BY <1>4, <1>5, <4>1 DEF Once
    <3> QED BY <3>1 DEF RangeOf
  <2>4. n \notin ToCome(from)
    BY <1>1, <1>7
  <2>5. ASSUME NEW x PROVE x \in RangeOf(order) <=> x \in ToCome(from)
    BY <2>1, <2>2, <2>3, <2>4
  <2> QED BY <2>5
<1>9. Once(order)
  <2> SUFFICES ASSUME NEW i \in 1..m, NEW j \in 1..m, order[i] = order[j] PROVE i = j
    BY DEF Once
  <2>1. i + 1 \in 1..Len(result) /\ j + 1 \in 1..Len(result)
    BY <1>4, <1>5
  <2>2. i + 1 = j + 1
    BY <1>4, <1>5, <2>1 DEF Once
  <2> QED BY <2>2
<1>10. ASSUME NEW i \in 1..m, NEW j \in 1..m, InFront(from, order[i], order[j])
       PROVE  i < j
  <2>1. Before(result, order[i], order[j])
    <3>1. PICK k \in 1..Len(from) : Before(from[k], order[i], order[j])
      BY <1>10 DEF InFront
    <3>2. order[i] \in 1..n /\ order[j] \in 1..n
      BY <1>5, ElementsOf
    <3> QED BY <1>2, <3>1, <3>2 DEF LinearOrder
  <2>2. PICK p, q \in 1..Len(result) : p < q /\ result[p] = order[i] /\ result[q] = order[j]
    BY <2>1 DEF Before
  <2>3. i + 1 \in 1..Len(result) /\ j + 1 \in 1..Len(result)
    BY <1>4, <1>5
  <2>4. p = i + 1 /\ q = j + 1
    BY <1>4, <1>5, <2>2, <2>3 DEF Once
  <2> QED BY <2>2, <2>4
<1>11. order \in Python!Orders(bases)
  <2>1. order \in Seq(ToCome(from))
    BY <1>5, <1>8 DEF RangeOf
  <2> QED BY <1>8, <1>9, <1>10, <2>1, OrdersOfBases DEF from
<1>12. ASSUME NEW p \in 1..m, NEW c \in Python!Ready(bases, order, p) \ {order[p]}
       PROVE  Python!FirstHeir(bases, order[p]) < Python!FirstHeir(bases, c)
  <2> DEFINE Heirs(x) == {k \in 1..Len(bases) : x \in RangeOf(from[k])}
  <2>1. ASSUME NEW x \in ToCome(from)
        PROVE  Heirs(x) # {}
    <3>1. PICK k \in 1..Len(from) : x \in RangeOf(from[k])
      BY DEF ToCome
    <3>2. CASE k = Len(bases) + 1
      <4>1. PICK l \in 1..Len(bases) : bases[l] = x
        BY <1>3, <3>1, <3>2 DEF RangeOf
      <4>2. x \in Python!ToSet(classes[bases[l]].mro)
        <5>1. bases[l] \in ClassIds
          OBVIOUS
        <5>2. LinearOrder(x, classes[x].mro, ToMerge(classes[x].bases)) /\ classes[x].mro \in Seq(1..x)
          BY <4>1, <5>1 DEF ClassesKnown, LinearOrders, ClassesOK
        <5>3. classes[x].mro[1] = x /\ x \in RangeOf(classes[x].mro)
          BY <5>2 DEF LinearOrder
        <5>4. DOMAIN classes[x].mro = 1..Len(classes[x].mro)
          BY <5>2
        <5> QED BY <4>1, <5>3, <5>4 DEF Python!ToSet, RangeOf
      <4> QED BY <1>3, <4>2
    <3>3. CASE k # Len(bases) + 1
      <4>1. k \in 1..Len(bases)
        BY <1>1, <1>3, <3>3
      <4> QED BY <3>1, <4>1
    <3> QED BY <3>2, <3>3
  <2>2. ASSUME NEW x \in ToCome(from)
        PROVE  /\ Python!FirstHeir(bases, x) \in Heirs(x)
               /\ \A k \in Heirs(x) : Python!FirstHeir(bases, x) <= k
    <3>1. Python!FirstHeir(bases, x) = FirstOf(Heirs(x))
      <4>1. {k \in 1..Len(bases) : x \in Python!ToSet(classes[bases[k]].mro)} = Heirs(x)
        BY <1>3
      <4> HIDE DEF Heirs
      <4>2. Python!FirstHeir(bases, x) = Python!Min(Heirs(x))
        BY <4>1, Zenon DEF Python!FirstHeir
      <4> QED BY <4>2, Zenon DEF Python!Min, FirstOf
    <3>2. Heirs(x) \subseteq Nat
      BY <1>1
    <3> HIDE DEF Heirs
    <3> QED BY <2>1, <3>1, <3>2, FirstIsLeast
  <2>3. PICK i \in p..m : c = order[i] /\ \A j \in p..m : ~InFront(from, order[j], order[i])
    BY <1>3, <1>12 DEF Python!Ready
  <2>4. i \in 1..m /\ p + 1 \in 2..Len(result) /\ result[p + 1] = order[p]
    BY <1>5, <2>3
  <2>5. ToCome(lists) = {}
    <3>1. \A k \in 1..Len(lists) : Len(lists[k]) = 0
      BY DEF Merged
    <3> QED BY <3>1 DEF ToCome, RangeOf
  <2>6. BehindPlace(result, p + 1) = {order[j] : j \in p..m}
    <3>1. ASSUME NEW j \in (p + 1)..Len(result) PROVE j - 1 \in p..m /\ order[j - 1] = result[j]
      BY <1>4, <1>5
    <3>2. ASSUME NEW j \in p..m PROVE j + 1 \in (p + 1)..Len(result) /\ result[j + 1] = order[j]
      BY <1>4, <1>5
    <3>3. ASSUME NEW x \in BehindPlace(result, p + 1) PROVE x \in {order[j] : j \in p..m}
      <4>1. PICK j \in (p + 1)..Len(result) : x = result[j]
        BY DEF BehindPlace
      <4> QED BY <3>1, <4>1
    <3>4. ASSUME NEW j \in p..m PROVE order[j] \in BehindPlace(result, p + 1)
      BY <3>2 DEF BehindPlace
    <3> QED BY <3>3, <3>4
  <2>7. c \in Free(from, BehindPlace(result, p + 1) \cup ToCome(lists)) \ {result[p + 1]}
    BY <1>12, <2>3, <2>4, <2>5, <2>6 DEF Free
  <2>8. Earlier(from, order[p], c)
    BY <1>2, <2>4, <2>7 DEF ChosenSoFar
  <2>9. PICK k \in 1..Len(from) : order[p] \in RangeOf(from[k]) /\ \A j \in 1..k : c \notin RangeOf(from[j])
    BY <2>8 DEF Earlier
  <2>10. c \in ToCome(from) /\ order[p] \in ToCome(from)
    BY <1>8, <2>3, <2>4 DEF RangeOf
  <2>11. /\ Python!FirstHeir(bases, c) \in 1..Len(bases)
         /\ c \in RangeOf(from[Python!FirstHeir(bases, c)])
    BY <2>2, <2>10
  <2>12. k < Python!FirstHeir(bases, c) /\ k \in 1..Len(bases)
    BY <1>1, <1>3, <2>9, <2>11
  <2>13. Python!FirstHeir(bases, order[p]) <= k /\ Python!FirstHeir(bases, order[p]) \in Nat
    BY <1>1, <2>2, <2>9, <2>10, <2>12
  <2> QED BY <1>1, <2>11, <2>12, <2>13
<1>13. Python!Chosen(bases, order)
  BY <1>12, Zenon DEF Python!Chosen
<1> QED BY <1>6, <1>11, <1>13 DEF n

-----------------------------------------------------------------------------
(* The order of a class, as it is looked up later *)

LEMMA OrderOfClass ==
  ASSUME ClassesKnown, NEW c \in ClassIds
  PROVE  /\ c \in Nat /\ c > 0 /\ classes[c].mro \in Seq(1..c) /\ classes[c].mro[1] = c
         /\ Len(classes[c].mro) \in Nat \ {0}
         /\ Once(classes[c].mro)
         /\ classes[c].bases \in Seq(1..(c - 1)) /\ classes[c].bases \in Seq(ClassIds)
         /\ 1..c \subseteq ClassIds
         /\ RangeOf(classes[c].mro) = {c} \cup Python!Inherited(classes[c].bases)
         /\ \A a, b \in 1..c : InFront(ToMerge(classes[c].bases), a, b) => Before(classes[c].mro, a, b)
<1> DEFINE mro == classes[c].mro
           bases == classes[c].bases
<1>1. Len(classes) \in Nat /\ c \in 1..Len(classes)
  BY DEF ClassesKnown, ClassesOK, ClassIds
<1>2. mro \in Seq(1..c) /\ bases \in Seq(1..(c - 1)) /\ LinearOrder(c, mro, ToMerge(bases))
  BY DEF ClassesKnown, ClassesOK, LinearOrders
<1>3. 1..(c - 1) \subseteq ClassIds /\ 1..c \subseteq ClassIds
  BY <1>1 DEF ClassIds
<1>4. bases \in Seq(ClassIds)
  <2> HIDE DEF bases, ClassIds
  <2> QED BY <1>2, <1>3, SeqMonotonic
<1> HIDE DEF mro
<1>5. mro[1] = c /\ c \in RangeOf(mro)
  BY <1>2 DEF LinearOrder
<1>6. Len(mro) \in Nat \ {0}
  BY <1>2, <1>5 DEF RangeOf
<1>7. Once(mro)
  <2> SUFFICES ASSUME NEW i \in 1..Len(mro), NEW j \in 1..Len(mro), mro[i] = mro[j], i < j PROVE FALSE
    BY <1>6 DEF Once
  <2>1. mro[i] \in 1..c
    BY <1>2, ElementsOf
  <2> QED BY <1>2, <2>1 DEF LinearOrder, Before
<1>8. RangeOf(mro) = {c} \cup Python!Inherited(bases)
  <2>1. RangeOf(mro) = {c} \cup ToCome(ToMerge(bases))
    BY <1>2 DEF LinearOrder, ToCome
  <2>2. Python!Inherited(bases) = ToCome(ToMerge(bases))
    BY <1>4, ListsOfBases
  <2> QED BY <2>1, <2>2
<1>9. \A a, b \in 1..c : InFront(ToMerge(bases), a, b) => Before(mro, a, b)
  BY <1>2 DEF LinearOrder, InFront
<1>10. c \in Nat /\ c > 0
  BY <1>1
<1> QED BY <1>2, <1>3, <1>4, <1>5, <1>6, <1>7, <1>8, <1>9, <1>10 DEF mro

(* Of a set of classes there is a first one. *)
LEMMA FirstClass ==
  ASSUME NEW S, S \subseteq Nat, S # {}
  PROVE  \E c \in S : \A d \in S : c <= d
BY FirstIsLeast

(* The classes that isinstance finds by way of the bases are those of the  *)
(* order.                                                                  *)
LEMMA SubclassInOrder ==
  ASSUME ClassesKnown, NEW sub \in ClassIds, NEW sup
  PROVE  isSubclass(sub, sup) <=> sup \in RangeOf(classes[sub].mro)
<1> DEFINE Rec(f) == [c \in ClassIds |->
                        c = sup \/ \E k \in 1..Len(classes[c].bases) : f[classes[c].bases[k]]]
           below == CHOOSE f : f = Rec(f)
           in == [c \in ClassIds |-> sup \in RangeOf(classes[c].mro)]
<1>1. ASSUME NEW c \in ClassIds
      PROVE  (sup \in RangeOf(classes[c].mro)) =
               (c = sup \/ \E k \in 1..Len(classes[c].bases) : sup \in RangeOf(classes[classes[c].bases[k]].mro))
  <2>1. /\ RangeOf(classes[c].mro) = {c} \cup Python!Inherited(classes[c].bases)
        /\ classes[c].bases \in Seq(ClassIds)
    BY OrderOfClass
  <2>2. Python!Inherited(classes[c].bases)
          = UNION {RangeOf(classes[classes[c].bases[k]].mro) : k \in 1..Len(classes[c].bases)}
    <3>1. \A k \in 1..Len(classes[c].bases) :
            Python!ToSet(classes[classes[c].bases[k]].mro) = RangeOf(classes[classes[c].bases[k]].mro)
      BY <2>1, ListsOfBases
    <3> QED BY <3>1, Zenon DEF Python!Inherited
  <2> QED BY <2>1, <2>2
<1>2. \A c \in ClassIds : \A k \in 1..Len(classes[c].bases) :
        classes[c].bases[k] \in ClassIds /\ classes[c].bases[k] < c
  <2> SUFFICES ASSUME NEW c \in ClassIds, NEW k \in 1..Len(classes[c].bases)
               PROVE  classes[c].bases[k] \in ClassIds /\ classes[c].bases[k] < c
    OBVIOUS
  <2>1. classes[c].bases \in Seq(1..(c - 1)) /\ 1..c \subseteq ClassIds /\ c \in Nat
    BY OrderOfClass
  <2>2. classes[c].bases[k] \in 1..(c - 1)
    BY <2>1, ElementsOf
  <2> QED BY <2>1, <2>2
<1>3. in = Rec(in)
  <2>1. \A c \in ClassIds : in[c] = (c = sup \/ \E k \in 1..Len(classes[c].bases) : in[classes[c].bases[k]])
    BY <1>1, <1>2
  <2> HIDE DEF ClassIds
  <2> QED BY <2>1
<1>4. below = Rec(below)
  <2> HIDE DEF Rec, in
  <2> QED BY <1>3
<1> HIDE DEF below
<1>5. \A c \in ClassIds : below[c] = (c = sup \/ \E k \in 1..Len(classes[c].bases) : below[classes[c].bases[k]])
  BY <1>4, Zenon
<1>6. \A c \in ClassIds : below[c] = in[c]
  <2> DEFINE Wrong == {c \in ClassIds : below[c] # in[c]}
  <2> SUFFICES ASSUME Wrong # {} PROVE FALSE
    OBVIOUS
  <2>1. PICK c \in Wrong : \A d \in Wrong : c <= d
    <3>1. Wrong \subseteq Nat
      BY DEF ClassIds
    <3> HIDE DEF Wrong
    <3> QED BY <3>1, FirstClass
  <2>2. \A k \in 1..Len(classes[c].bases) : below[classes[c].bases[k]] = in[classes[c].bases[k]]
    <3> SUFFICES ASSUME NEW k \in 1..Len(classes[c].bases),
                        below[classes[c].bases[k]] # in[classes[c].bases[k]]
                 PROVE  FALSE
      OBVIOUS
    <3>1. classes[c].bases[k] \in Wrong /\ classes[c].bases[k] < c
      BY <1>2
    <3>2. c <= classes[c].bases[k] /\ c \in Nat /\ classes[c].bases[k] \in Nat
      BY <2>1, <3>1 DEF ClassIds
    <3> QED BY <3>1, <3>2
  <2>3. \A k \in 1..Len(classes[c].bases) : in[classes[c].bases[k]] = (sup \in RangeOf(classes[classes[c].bases[k]].mro))
    BY <1>2
  <2>4. below[c] = in[c]
    <3> HIDE DEF in
    <3>1. in[c] = (sup \in RangeOf(classes[c].mro))
      BY DEF in
    <3> QED BY <1>1, <1>5, <2>2, <2>3, <3>1, Zenon
  <2> QED BY <2>4
<1>7. isSubclass(sub, sup) <=> below[sub]
  BY Zenon DEF isSubclass, below
<1> QED BY <1>6, <1>7

-----------------------------------------------------------------------------
(* Along a chain, where no class has two bases, the order of a class is    *)
(* the class and then the order of its base.                               *)

LEMMA OneOrder ==
  ASSUME NEW S, NEW u \in Seq(S), NEW v \in Seq(S), Once(u), Once(v), RangeOf(u) = RangeOf(v),
         \A a, b : Before(u, a, b) => Before(v, a, b)
  PROVE  u = v
<1> DEFINE Wrong == {i \in 1..Len(u) : i \in 1..Len(v) /\ u[i] # v[i]}
<1>1. Len(u) \in Nat /\ Len(v) \in Nat
  OBVIOUS
<1>2. ASSUME Wrong # {} PROVE FALSE
  <2>1. PICK i \in Wrong : \A j \in Wrong : i <= j
    <3>1. Wrong \subseteq Nat
      OBVIOUS
    <3> HIDE DEF Wrong
    <3> QED BY <1>2, <3>1, FirstClass
  <2>2. i \in 1..Len(u) /\ i \in 1..Len(v) /\ u[i] # v[i]
    OBVIOUS
  <2>3. \A j \in 1..(i - 1) : u[j] = v[j] /\ j \in 1..Len(u) /\ j \in 1..Len(v) /\ j # i
    <3> SUFFICES ASSUME NEW j \in 1..(i - 1), u[j] # v[j] PROVE FALSE
      BY <1>1, <2>2
    <3>1. j \in Wrong /\ j < i
      BY <1>1, <2>2
    <3> QED BY <2>1, <2>2, <3>1
  <2> HIDE DEF Wrong
  <2>4. PICK j \in 1..Len(u) : u[j] = v[i]
    BY <2>2 DEF RangeOf
  <2>5. i < j
    <3>1. j \notin 1..(i - 1)
      BY <2>2, <2>3, <2>4 DEF Once
    <3> QED BY <2>2, <2>4, <3>1
  <2>6. PICK l \in 1..Len(v) : v[l] = u[i]
    BY <2>2 DEF RangeOf
  <2>7. i < l
    <3>1. l \notin 1..(i - 1)
      BY <2>2, <2>3, <2>6 DEF Once
    <3> QED BY <2>2, <2>6, <3>1
  <2>8. Before(v, u[i], u[j])
    BY <2>2, <2>5 DEF Before
  <2>9. PICK p, q \in 1..Len(v) : p < q /\ v[p] = u[i] /\ v[q] = v[i]
    BY <2>4, <2>8 DEF Before
  <2>10. q = i /\ p = l
    BY <2>2, <2>6, <2>9 DEF Once
  <2> QED BY <2>2, <2>7, <2>9, <2>10
<1>3. \A i \in 1..Len(u) : i \in 1..Len(v) => u[i] = v[i]
  BY <1>2
<1> HIDE DEF Wrong
<1>4. ~(Len(u) < Len(v))
  <2> SUFFICES ASSUME Len(u) < Len(v) PROVE FALSE
    OBVIOUS
  <2>1. Len(u) + 1 \in 1..Len(v)
    BY <1>1
  <2>2. PICK j \in 1..Len(u) : u[j] = v[Len(u) + 1]
    BY <2>1 DEF RangeOf
  <2>3. j \in 1..Len(v) /\ j # Len(u) + 1 /\ v[j] = v[Len(u) + 1]
    BY <1>1, <1>3, <2>2
  <2> QED BY <2>1, <2>3 DEF Once
<1>5. ~(Len(v) < Len(u))
  <2> SUFFICES ASSUME Len(v) < Len(u) PROVE FALSE
    OBVIOUS
  <2>1. Len(v) + 1 \in 1..Len(u)
    BY <1>1
  <2>2. PICK j \in 1..Len(v) : v[j] = u[Len(v) + 1]
    BY <2>1 DEF RangeOf
  <2>3. j \in 1..Len(u) /\ j # Len(v) + 1 /\ u[j] = u[Len(v) + 1]
    BY <1>1, <1>3, <2>2
  <2> QED BY <2>1, <2>3 DEF Once
<1> QED BY <1>1, <1>3, <1>4, <1>5

Bottom(c) == classes[c].bases = <<>>
OnlyBase(c, b) == Len(classes[c].bases) = 1 /\ classes[c].bases[1] = b

LEMMA OrderOfBottom ==
  ASSUME ClassesKnown, NEW c \in ClassIds, Bottom(c)
  PROVE  Len(classes[c].mro) = 1
<1> DEFINE mro == classes[c].mro
<1>1. /\ mro \in Seq(1..c) /\ mro[1] = c /\ Len(mro) \in Nat \ {0} /\ Once(mro)
      /\ RangeOf(mro) = {c} \cup Python!Inherited(classes[c].bases)
  BY OrderOfClass
<1>2. Python!Inherited(<<>>) = {}
  BY DEF Python!Inherited
<1>3. RangeOf(mro) = {c}
  BY <1>1, <1>2 DEF Bottom
<1> HIDE DEF mro
<1>4. ASSUME Len(mro) > 1 PROVE FALSE
  <2>1. 1 \in 1..Len(mro) /\ 2 \in 1..Len(mro)
    BY <1>1, <1>4
  <2>2. mro[2] = c
    BY <1>3, <2>1 DEF RangeOf
  <2> QED BY <1>1, <2>1, <2>2 DEF Once
<1>5. Len(mro) \in Nat \ {0}
  BY <1>1
<1>6. Len(mro) = 1
  BY <1>4, <1>5
<1> QED BY <1>6 DEF mro

LEMMA OrderOfOnlyBase ==
  ASSUME ClassesKnown, NEW c \in ClassIds, NEW b, OnlyBase(c, b)
  PROVE  /\ b \in ClassIds /\ b < c
         /\ Tail(classes[c].mro) = classes[b].mro
         /\ Len(classes[c].mro) = Len(classes[b].mro) + 1
         /\ \A i \in 1..Len(classes[b].mro) : classes[c].mro[i + 1] = classes[b].mro[i]
<1> DEFINE mro == classes[c].mro
           from == ToMerge(classes[c].bases)
<1>1. /\ c \in Nat /\ mro \in Seq(1..c) /\ mro[1] = c /\ Len(mro) \in Nat \ {0} /\ Once(mro)
      /\ RangeOf(mro) = {c} \cup Python!Inherited(classes[c].bases)
      /\ classes[c].bases \in Seq(1..(c - 1)) /\ classes[c].bases \in Seq(ClassIds)
      /\ \A x, y \in 1..c : InFront(from, x, y) => Before(mro, x, y)
  BY OrderOfClass
<1>2. b \in 1..(c - 1) /\ b \in ClassIds
  <2>1. 1 \in 1..Len(classes[c].bases) /\ b = classes[c].bases[1]
    BY DEF OnlyBase
  <2> QED BY <1>1, <2>1, ElementsOf
<1> DEFINE base == classes[b].mro
<1>3. base \in Seq(1..b) /\ Once(base)
  BY <1>2, OrderOfClass
<1>4. from[1] = base /\ Len(from) = 2 /\ Python!Inherited(classes[c].bases) = RangeOf(base)
  <2>1. /\ Len(from) = Len(classes[c].bases) + 1
        /\ \A k \in 1..Len(classes[c].bases) :
             /\ from[k] = classes[classes[c].bases[k]].mro
             /\ Python!ToSet(classes[classes[c].bases[k]].mro) = RangeOf(from[k])
    BY <1>1, ListsOfBases
  <2>2. 1..Len(classes[c].bases) = {1}
    BY DEF OnlyBase
  <2>3. from[1] = base /\ Len(from) = 2 /\ Python!ToSet(base) = RangeOf(base)
    BY <2>1, <2>2 DEF OnlyBase
  <2>4. Python!Inherited(classes[c].bases) = UNION {Python!ToSet(base)}
    BY <2>2, Zenon DEF Python!Inherited, OnlyBase
  <2> QED BY <2>3, <2>4
<1> HIDE DEF from
<1> DEFINE rest == Tail(mro)
<1> HIDE DEF mro, base
<1>5. rest \in Seq(1..c) /\ Len(rest) = Len(mro) - 1 /\ \A i \in 1..Len(rest) : rest[i] = mro[i + 1]
  BY <1>1
<1> HIDE DEF rest
<1>6. Once(rest)
  <2> SUFFICES ASSUME NEW i \in 1..Len(rest), NEW j \in 1..Len(rest), rest[i] = rest[j] PROVE i = j
    BY DEF Once
  <2>1. i + 1 \in 1..Len(mro) /\ j + 1 \in 1..Len(mro)
    BY <1>1, <1>5
  <2>2. mro[i + 1] = mro[j + 1]
    BY <1>5
  <2>3. i + 1 = j + 1
    BY <1>1, <2>1, <2>2 DEF Once
  <2> QED BY <2>3
<1>7. c \notin RangeOf(rest)
  <2>1. ASSUME NEW i \in 1..Len(rest) PROVE rest[i] # c
    <3>1. i + 1 \in 1..Len(mro) /\ 1 \in 1..Len(mro) /\ i + 1 # 1
      BY <1>1, <1>5
    <3> QED BY <1>1, <1>5, <3>1 DEF Once
  <2> QED BY <2>1 DEF RangeOf
<1>8. RangeOf(rest) = RangeOf(base)
  <2>1. c \notin RangeOf(base)
    <3>1. \A i \in 1..Len(base) : base[i] \in 1..b
      BY <1>3, ElementsOf
    <3>2. c \notin 1..b
      BY <1>1, <1>2
    <3> QED BY <3>1, <3>2 DEF RangeOf
  <2>2. ASSUME NEW i \in 1..Len(rest) PROVE rest[i] \in RangeOf(base)
    <3>1. i + 1 \in 1..Len(mro)
      BY <1>1, <1>5
    <3>2. rest[i] \in RangeOf(mro) /\ rest[i] \in RangeOf(rest)
      BY <1>5, <3>1 DEF RangeOf
    <3> QED BY <1>1, <1>4, <1>7, <3>2
  <2>3. ASSUME NEW x \in RangeOf(base) PROVE x \in RangeOf(rest)
    <3>1. x \in RangeOf(mro) /\ x # c
      BY <1>1, <1>4, <2>1
    <3>2. PICK i \in 1..Len(mro) : mro[i] = x
      BY <3>1 DEF RangeOf
    <3>3. i - 1 \in 1..Len(rest) /\ i - 1 + 1 = i
      BY <1>1, <1>5, <3>1, <3>2
    <3> QED BY <1>5, <3>2, <3>3 DEF RangeOf
  <2> QED BY <2>2, <2>3 DEF RangeOf
<1>9. ASSUME NEW x, NEW y, Before(base, x, y) PROVE Before(rest, x, y)
  <2>1. x \in RangeOf(base) /\ y \in RangeOf(base)
    BY <1>9 DEF Before, RangeOf
  <2>2. x \in 1..c /\ y \in 1..c /\ x # c /\ y # c
    <3>1. \A z \in RangeOf(base) : z \in 1..b
      <4>1. \A i \in 1..Len(base) : base[i] \in 1..b
        BY <1>3, ElementsOf
      <4> QED BY <4>1 DEF RangeOf
    <3> QED BY <1>1, <1>2, <2>1, <3>1
  <2>3. InFront(from, x, y)
    <3>1. 1 \in 1..Len(from)
      BY <1>4
    <3> QED BY <1>4, <1>9, <3>1 DEF InFront
  <2>4. PICK i, j \in 1..Len(mro) : i < j /\ mro[i] = x /\ mro[j] = y
    BY <1>1, <2>2, <2>3 DEF Before
  <2>5. i - 1 \in 1..Len(rest) /\ j - 1 \in 1..Len(rest) /\ i - 1 < j - 1 /\ i - 1 + 1 = i /\ j - 1 + 1 = j
    BY <1>1, <1>5, <2>2, <2>4, SMTT(30)
  <2>6. rest[i - 1] = x /\ rest[j - 1] = y
    BY <1>5, <2>4, <2>5
  <2> QED BY <2>5, <2>6 DEF Before
<1>10. rest = base
  <2>1. base \in Seq(1..c)
    <3>1. 1..b \subseteq 1..c
      BY <1>1, <1>2
    <3> QED BY <1>3, <3>1, SeqMonotonic
  <2> DEFINE S == 1..c
  <2>2. base \in Seq(S) /\ rest \in Seq(S)
    BY <1>5, <2>1
  <2> HIDE DEF S
  <2> QED BY <1>3, <1>6, <1>8, <1>9, <2>2, OneOrder
<1>11. Len(mro) = Len(base) + 1 /\ \A i \in 1..Len(base) : mro[i + 1] = base[i]
  <2>1. Len(mro) \in Nat /\ Len(base) = Len(mro) - 1 /\ \A i \in 1..Len(base) : base[i] = mro[i + 1]
    BY <1>1, <1>5, <1>10
  <2> QED BY <2>1
<1> QED BY <1>1, <1>2, <1>10, <1>11 DEF mro, base, rest

Chains == \A c \in ClassIds : Len(classes[c].bases) <= 1

LEMMA BottomOrOnlyBase ==
  ASSUME ClassesKnown, Chains, NEW c \in ClassIds, ~Bottom(c)
  PROVE  OnlyBase(c, classes[c].bases[1])
<1> DEFINE bases == classes[c].bases
<1>1. Len(bases) <= 1 /\ bases \in Seq(ClassIds) /\ bases # <<>>
  BY OrderOfClass DEF Chains, Bottom
<1> HIDE DEF ClassIds, bases
<1>2. Len(bases) # 0 /\ Len(bases) \in Nat
  BY <1>1, EmptySeq
<1>3. Len(bases) = 1
  <2>1. \A m \in Nat : m <= 1 /\ m # 0 => m = 1
    OBVIOUS
  <2> QED BY <1>1, <1>2, <2>1, Zenon
<1> QED BY <1>3 DEF OnlyBase, bases

BehindIt(c, k) ==
  LET x == classes[c].mro[k]
  IN /\ Len(classes[c].mro) - k = Len(classes[x].mro) - 1
     /\ \A i \in 1..(Len(classes[c].mro) - k) : classes[c].mro[k + i] = classes[x].mro[i + 1]

(* Along a chain, what is behind a class in any order is what is behind it *)
(* in its own.                                                             *)
LEMMA BehindInChain ==
  ASSUME ClassesKnown, Chains
  PROVE  \A c \in ClassIds : \A k \in 1..Len(classes[c].mro) : BehindIt(c, k)
<1> DEFINE Wrong == {c \in ClassIds : \E k \in 1..Len(classes[c].mro) : ~BehindIt(c, k)}
<1> SUFFICES ASSUME Wrong # {} PROVE FALSE
  OBVIOUS
<1>1. PICK c \in Wrong : \A d \in Wrong : c <= d
  <2>1. Wrong \subseteq Nat
    BY DEF ClassIds
  <2> HIDE DEF Wrong
  <2> QED BY <2>1, FirstClass
<1>2. PICK k \in 1..Len(classes[c].mro) : ~BehindIt(c, k)
  OBVIOUS
<1>3. \A d \in ClassIds : d < c => \A l \in 1..Len(classes[d].mro) : BehindIt(d, l)
  <2> SUFFICES ASSUME NEW d \in ClassIds, d < c, NEW l \in 1..Len(classes[d].mro), ~BehindIt(d, l)
               PROVE  FALSE
    OBVIOUS
  <2>1. c <= d /\ c \in Nat /\ d \in Nat
    BY <1>1 DEF ClassIds
  <2> QED BY <2>1
<1>4. c \in ClassIds
  OBVIOUS
<1> HIDE DEF Wrong
<1> DEFINE mro == classes[c].mro
<1>5. Len(mro) \in Nat \ {0} /\ mro[1] = c /\ k \in 1..Len(mro) /\ Len(classes[c].bases) \in Nat
  BY <1>2, <1>4, OrderOfClass
<1>6. k # 1
  <2> SUFFICES ASSUME k = 1 PROVE FALSE
    OBVIOUS
  <2>1. BehindIt(c, 1)
    <3>1. \A i : i + 1 = 1 + i => mro[1 + i] = mro[i + 1]
      BY Zenon
    <3>2. \A i \in 1..(Len(mro) - 1) : 1 + i = i + 1
      OBVIOUS
    <3> QED BY <1>5, <3>1, <3>2 DEF BehindIt
  <2> QED BY <1>2, <2>1
<1>7. CASE Bottom(c)
  <2>1. Len(mro) = 1
    BY <1>4, <1>7, OrderOfBottom
  <2> QED BY <1>5, <1>6, <2>1
<1>8. CASE ~Bottom(c)
  <2> DEFINE b == classes[c].bases[1]
  <2>1. OnlyBase(c, b)
    BY <1>4, <1>8, BottomOrOnlyBase
  <2> HIDE DEF b
  <2>2. /\ b \in ClassIds /\ b < c
        /\ Len(mro) = Len(classes[b].mro) + 1
        /\ \A i \in 1..Len(classes[b].mro) : mro[i + 1] = classes[b].mro[i]
    BY <1>4, <2>1, OrderOfOnlyBase
  <2>3. Len(classes[b].mro) \in Nat
    BY <2>2, OrderOfClass
  <2>4. k - 1 \in 1..Len(classes[b].mro) /\ k - 1 + 1 = k
    BY <1>5, <1>6, <2>2, <2>3
  <2>5. BehindIt(b, k - 1)
    BY <1>3, <2>2, <2>4
  <2> DEFINE x == mro[k]
             base == classes[b].mro
  <2>6. base[k - 1] = x
    BY <2>2, <2>4
  <2>7. /\ Len(base) - (k - 1) = Len(classes[x].mro) - 1
        /\ \A i \in 1..(Len(base) - (k - 1)) : base[k - 1 + i] = classes[x].mro[i + 1]
    BY <2>5, <2>6 DEF BehindIt
  <2> HIDE DEF mro, x, base
  <2>8. Len(mro) - k = Len(base) - (k - 1)
    BY <1>5, <2>2, <2>3 DEF base
  <2>9. ASSUME NEW i \in 1..(Len(mro) - k) PROVE mro[k + i] = classes[x].mro[i + 1]
    <3>1. k - 1 + i \in 1..Len(base) /\ k - 1 + i + 1 = k + i
      BY <1>5, <1>6, <2>2, <2>3, <2>8 DEF base
    <3>2. mro[k + i] = base[k - 1 + i]
      BY <2>2, <3>1 DEF base
    <3> QED BY <2>7, <2>8, <3>2
  <2> QED BY <1>2, <2>7, <2>8, <2>9 DEF BehindIt, mro, x
<1> QED BY <1>7, <1>8

-----------------------------------------------------------------------------
(* What an attribute is.  With slots at the end of an order only, which is *)
(* so in the worlds that can be compared, the first class that has the     *)
(* name as an attribute is the first that defines it at all.               *)

SlotsLast(order) ==
  \A k \in 1..Len(order) : classes[order[k]].slots # <<>> => k = Len(order)

FewBases == \A c \in ClassIds : Len(classes[c].bases) <= world.max_bases

LEMMA FewBasesAreChains ==
  ASSUME ClassesKnown, FewBases, world.max_bases <= 1
  PROVE  Chains
<1>1. \A d \in ClassIds : Len(classes[d].bases) \in Nat
  <2> SUFFICES ASSUME NEW d \in ClassIds PROVE Len(classes[d].bases) \in Nat
    OBVIOUS
  <2>1. classes[d].bases \in Seq(1..(d - 1))
    BY OrderOfClass
  <2> QED BY <2>1
<1>2. world.max_bases \in Nat
  BY ObjectsAssumption DEF ClassesKnown, IsWorld
<1> QED BY <1>1, <1>2 DEF FewBases, Chains

LEMMA SlotsOfClass ==
  ASSUME ClassesKnown, NEW c \in ClassIds
  PROVE  /\ classes[c].slots \in world.slots
         /\ classes[c].slots # <<>> =>
              /\ classes[c].bases = <<>> \/ world.slots_below
              /\ classes[c].slots[1] \cap DOMAIN classes[c].attrs = {}
<1>1. classes[c].slots \in SlotsFor(world, classes[c].bases, classes[c].attrs)
  BY DEF ClassesKnown, ClassesOK
<1> QED BY <1>1 DEF SlotsFor

LEMMA NoSlots ==
  ASSUME ClassesKnown, world.slots \subseteq {<<>>}
  PROVE  \A c \in ClassIds : classes[c].slots = <<>>
BY SlotsOfClass

LEMMA SlotsAreLast ==
  ASSUME ClassesKnown, FewBases, SlotsAlike(world), NEW c \in ClassIds
  PROVE  SlotsLast(classes[c].mro)
<1>1. ASSUME NEW k \in 1..Len(classes[c].mro)
      PROVE  classes[c].mro[k] \in ClassIds
  <2>1. classes[c].mro \in Seq(1..c) /\ 1..c \subseteq ClassIds
    BY OrderOfClass
  <2>2. classes[c].mro[k] \in 1..c
    BY <2>1, ElementsOf
  <2> QED BY <2>1, <2>2
<1>2. CASE world.slots \subseteq {<<>>}
  BY <1>1, <1>2, NoSlots DEF SlotsLast
<1>3. CASE ~world.slots_below /\ world.max_bases <= 1
  <2>1. Chains
    BY <1>3, FewBasesAreChains
  <2> SUFFICES ASSUME NEW k \in 1..Len(classes[c].mro), classes[classes[c].mro[k]].slots # <<>>
               PROVE  k = Len(classes[c].mro)
    BY DEF SlotsLast
  <2> DEFINE x == classes[c].mro[k]
  <2>2. x \in ClassIds /\ Bottom(x)
    BY <1>1, <1>3, SlotsOfClass DEF Bottom
  <2>3. Len(classes[x].mro) = 1
    BY <2>2, OrderOfBottom
  <2>4. Len(classes[c].mro) - k = Len(classes[x].mro) - 1
    BY <2>1, BehindInChain DEF BehindIt
  <2>5. Len(classes[c].mro) \in Nat
    BY OrderOfClass
  <2> QED BY <2>3, <2>4, <2>5
<1> QED BY <1>2, <1>3 DEF SlotsAlike

SameLookup(c, n) ==
  LET order == classes[c].mro
  IN /\ hasAttr(c, n) => /\ Python!KindIn(order, n) = getRawAttr(c, n)
                         /\ Python!First(order, n) = Definer(c, n)
     /\ ~hasAttr(c, n) => Python!KindIn(order, n) \in {"none", "member"}
     /\ (~hasAttr(c, n) /\ Python!KindIn(order, n) = "member") <=>
          (~hasAttr(c, n) /\ \E k \in 1..Len(order) : isSlot(order[k], n))

LEMMA KindsAgree ==
  ASSUME ClassesKnown, NEW c \in ClassIds, NEW n, SlotsLast(classes[c].mro)
  PROVE  SameLookup(c, n)
<1> DEFINE order == classes[c].mro
           having == {k \in 1..Len(order) : n \in DOMAIN classes[order[k]].attrs}
           slotted == {k \in 1..Len(order) : isSlot(order[k], n)}
           found == Python!Found(order, n)
<1>1. found = having \cup slotted
  <2>1. \A d : Python!DefinesIt(d, n) <=> n \in DOMAIN classes[d].attrs \/ isSlot(d, n)
    BY Zenon DEF Python!DefinesIt, isSlot, hasSlots
  <2>2. found = {k \in 1..Len(order) : Python!DefinesIt(order[k], n)}
    BY Zenon DEF Python!Found
  <2> QED BY <2>1, <2>2
<1>2. Len(order) \in Nat /\ having \subseteq Nat /\ \A k \in 1..Len(order) : order[k] \in ClassIds
  <2>1. order \in Seq(1..c) /\ 1..c \subseteq ClassIds
    BY OrderOfClass
  <2>2. \A k \in 1..Len(order) : order[k] \in 1..c
    BY <2>1, ElementsOf
  <2> QED BY <2>1, <2>2
<1>3. \A k \in slotted : k = Len(order) /\ k \notin having
  <2> SUFFICES ASSUME NEW k \in slotted PROVE k = Len(order) /\ k \notin having
    OBVIOUS
  <2>1. classes[order[k]].slots # <<>> /\ n \in classes[order[k]].slots[1] /\ order[k] \in ClassIds
    BY <1>2 DEF isSlot, hasSlots
  <2>2. n \notin DOMAIN classes[order[k]].attrs
    BY <2>1, SlotsOfClass
  <2> QED BY <2>1, <2>2 DEF SlotsLast
<1>4. hasAttr(c, n) <=> having # {}
  BY DEF hasAttr
<1>5. Definer(c, n) = order[FirstOf(having)] /\ getRawAttr(c, n) = classes[Definer(c, n)].attrs[n]
  BY DEF Definer, getRawAttr
<1>6. Python!First(order, n) = order[FirstOf(found)]
  BY Zenon DEF Python!First, Python!Min, FirstOf
<1>7. /\ found = {} => Python!KindIn(order, n) = "none"
      /\ found # {} /\ n \in DOMAIN classes[Python!First(order, n)].attrs =>
           Python!KindIn(order, n) = classes[Python!First(order, n)].attrs[n]
      /\ found # {} /\ n \notin DOMAIN classes[Python!First(order, n)].attrs =>
           Python!KindIn(order, n) = "member"
  BY DEF Python!KindIn
<1>8. CASE hasAttr(c, n)
  <2>1. FirstOf(having) \in having /\ \A k \in having : FirstOf(having) <= k
    <3> HIDE DEF having
    <3> QED BY <1>2, <1>4, <1>8, FirstIsLeast
  <2>2. \A k \in slotted : FirstOf(having) <= k
    <3>1. having \subseteq 1..Len(order) /\ slotted \subseteq 1..Len(order)
      OBVIOUS
    <3>2. \A k \in slotted : k = Len(order)
      BY <1>3
    <3>3. Len(order) \in Nat
      BY <1>2
    <3> HIDE DEF having, slotted, order
    <3>4. FirstOf(having) \in 1..Len(order)
      BY <2>1, <3>1
    <3>5. FirstOf(having) <= Len(order)
      BY <3>3, <3>4
    <3> QED BY <3>2, <3>5
  <2>3. found # {} /\ found \subseteq Nat
    <3>1. having \subseteq 1..Len(order) /\ slotted \subseteq 1..Len(order)
      OBVIOUS
    <3> HIDE DEF having, slotted, found
    <3> QED BY <1>1, <1>2, <2>1, <3>1
  <2>4. FirstOf(found) \in found /\ \A k \in found : FirstOf(found) <= k
    <3> HIDE DEF found
    <3> QED BY <2>3, FirstIsLeast
  <2>5. FirstOf(found) = FirstOf(having)
    <3> HIDE DEF having, slotted, found
    <3>1. FirstOf(found) \in Nat /\ FirstOf(having) \in Nat
      BY <1>2, <2>1, <2>3, <2>4
    <3>2. FirstOf(found) <= FirstOf(having) /\ FirstOf(having) <= FirstOf(found)
      BY <1>1, <2>1, <2>2, <2>4
    <3> QED BY <3>1, <3>2
  <2>6. n \in DOMAIN classes[Definer(c, n)].attrs /\ Python!First(order, n) = Definer(c, n)
    BY <1>5, <1>6, <2>1, <2>5
  <2> QED BY <1>5, <1>7, <1>8, <2>3, <2>6 DEF SameLookup
<1>9. CASE ~hasAttr(c, n)
  <2>1. found = slotted
    BY <1>1, <1>4, <1>9
  <2>2. CASE slotted = {}
    BY <1>7, <1>9, <2>1, <2>2 DEF SameLookup
  <2>3. CASE slotted # {}
    <3>1. found \subseteq Nat
      BY <2>1
    <3>2. FirstOf(found) \in found
      <4> HIDE DEF found, slotted
      <4> QED BY <2>1, <2>3, <3>1, FirstIsLeast
    <3>3. FirstOf(found) \notin having /\ FirstOf(found) \in 1..Len(order)
      BY <1>3, <2>1, <3>2
    <3>4. Python!KindIn(order, n) = "member"
      BY <1>6, <1>7, <2>1, <2>3, <3>3
    <3> QED BY <1>9, <2>3, <3>4 DEF SameLookup
  <2> QED BY <2>2, <2>3
<1> QED BY <1>8, <1>9

-----------------------------------------------------------------------------
(* The instances as PythonObjects has them *)

ValuesOf(inst) ==
  [n \in DOMAIN inst.attrs \cup DOMAIN inst.slotValues |->
     IF n \in DOMAIN inst.attrs THEN inst.attrs[n] ELSE inst.slotValues[n]]
SeenAs(inst) == [type |-> inst.type, values |-> ValuesOf(inst)]
Seen == [i \in InstanceIds |-> SeenAs(instances[i])]

LEMMA SameRequests ==
  /\ \A op, i, c, n, v : Python!Asked(op, i, c, n, v) = Asked(op, i, c, n, v)
  /\ \A bases : Python!AskedClass(bases) = AskedClass(bases)
  /\ Python!Unasked = Unasked
  /\ \A w, made : Python!BaseLists(w, made) = BaseLists(w, made)
  /\ \A w : Python!Bodies(w) = Bodies(w)
  /\ \A w, bases, attrs : Python!SlotsFor(w, bases, attrs) = SlotsFor(w, bases, attrs)
  /\ Python!Properties = Properties
  /\ Python!NoValues = NoValues
  /\ \A values, n, v : Python!Store(values, n, v) = Store(values, n, v)
  /\ \A values, n : Python!Without(values, n) = Without(values, n)
BY Zenon DEF Python!Asked, Asked, Python!AskedClass, AskedClass, Python!Unasked, Unasked,
     Python!BaseLists, BaseLists, Python!Bodies, Bodies, Python!Kinds, Kinds,
     Python!Properties, Properties, Python!SlotsFor, SlotsFor,
     Python!NoValues, NoValues, Python!Store, Store, Python!Without, Without

LEMMA SameAnswers ==
  /\ Python!Nothing = Nothing /\ Python!AttributeError = AttributeError
  /\ Python!TypeError = TypeError /\ Python!Done = Done /\ Python!Default = Default
  /\ \A b : Python!Truth(b) = Truth(b)
  /\ \A v : Python!Stored(v) = Stored(v)
  /\ \A c : Python!Itself(c) = Itself(c) /\ Python!Function(c) = Function(c)
  /\ \A c, to : Python!Bound(c, to) = Bound(c, to) /\ Python!Called(c, to) = Called(c, to)
  /\ \A i : Python!ToInstance(i) = ToInstance(i) /\ Python!ToClass(i) = ToClass(i)
  /\ Python!Nobody = Nobody
BY Zenon DEF Python!Answer, Answer, Python!Nobody, Nobody, Python!Nothing, Nothing,
     Python!AttributeError, AttributeError, Python!TypeError, TypeError, Python!Done, Done,
     Python!Default, Default, Python!Truth, Truth, Python!Stored, Stored, Python!Itself, Itself,
     Python!Function, Function, Python!Bound, Bound, Python!Called, Called,
     Python!ToInstance, ToInstance, Python!ToClass, ToClass

LEMMA SeenStays ==
  ASSUME UNCHANGED instances
  PROVE  Seen' = Seen
BY DEF Seen, SeenAs, ValuesOf, InstanceIds

LEMMA SeenAppends ==
  ASSUME NEW S, instances \in Seq(S), NEW inst \in S, instances' = Append(instances, inst)
  PROVE  Seen' = Append(Seen, SeenAs(inst))
<1> DEFINE n == Len(instances)
           T == {SeenAs(x) : x \in S}
<1>1. n \in Nat /\ Len(instances') = n + 1 /\ instances'[n + 1] = inst /\ \A i \in 1..n : instances'[i] = instances[i]
  OBVIOUS
<1>2. Seen = [i \in 1..n |-> SeenAs(instances[i])]
  BY DEF Seen, InstanceIds
<1>3. Seen' = [i \in 1..(n + 1) |-> SeenAs(instances'[i])]
  BY <1>1 DEF Seen, InstanceIds, SeenAs, ValuesOf
<1>4. \A i \in 1..n : instances[i] \in S
  OBVIOUS
<1> HIDE DEF n
<1>5. Seen \in [1..n -> T]
  BY <1>2, <1>4
<1> HIDE DEF T
<1>6. Seen \in Seq(T) /\ Len(Seen) = n
  BY <1>1, <1>5, FunctionIsSeq
<1>7. SeenAs(inst) \in T
  BY DEF T
<1> DEFINE more == Append(Seen, SeenAs(inst))
<1>8. /\ more \in Seq(T) /\ Len(more) = n + 1 /\ more[n + 1] = SeenAs(inst)
      /\ \A i \in 1..n : more[i] = Seen[i]
  <2> DEFINE seen == Seen
             new == SeenAs(inst)
  <2>1. seen \in Seq(T) /\ Len(seen) = n /\ new \in T
    BY <1>6, <1>7
  <2> HIDE DEF seen, new
  <2> QED BY <1>1, <2>1 DEF seen, new
<1>9. more = [i \in 1..(n + 1) |-> more[i]]
  <2> HIDE DEF more
  <2> QED BY <1>1, <1>8
<1>10. \A i \in 1..(n + 1) : more[i] = SeenAs(instances'[i])
  <2> HIDE DEF more
  <2>1. \A i \in 1..(n + 1) : i = n + 1 \/ i \in 1..n
    BY <1>1
  <2> QED BY <1>1, <1>2, <1>8, <2>1
<1> HIDE DEF more
<1>11. more = Seen'
  BY <1>3, <1>9, <1>10
<1> QED BY <1>11 DEF more

LEMMA SeenChanges ==
  ASSUME NEW S, instances \in Seq(S), NEW i \in InstanceIds, NEW inst \in S,
         instances' = [instances EXCEPT ![i] = inst]
  PROVE  Seen' = [Seen EXCEPT ![i] = SeenAs(inst)]
<1>1. Len(instances') = Len(instances) /\ i \in 1..Len(instances)
      /\ \A j \in 1..Len(instances) : instances'[j] = IF j = i THEN inst ELSE instances[j]
  BY DEF InstanceIds
<1>2. Seen = [j \in 1..Len(instances) |-> SeenAs(instances[j])]
  BY DEF Seen, InstanceIds
<1>3. Seen' = [j \in 1..Len(instances) |-> SeenAs(instances'[j])]
  BY <1>1 DEF Seen, InstanceIds, SeenAs, ValuesOf
<1> QED BY <1>1, <1>2, <1>3, SMTT(30)

LEMMA PythonInstances ==
  ASSUME IInv
  PROVE  /\ Len(Seen) = Len(instances)
         /\ \A i \in InstanceIds :
              /\ Seen[i].type = instances[i].type /\ Seen[i].values = ValuesOf(instances[i])
              /\ instances[i].type \in ClassIds
         /\ Python!InstanceIds = InstanceIds /\ Python!ClassIds = ClassIds /\ Python!Names = Names
         /\ \A i \in InstanceIds : Python!OrderOf(i) = classes[instances[i].type].mro
         /\ \A i \in InstanceIds : \A n : Python!Kind(i, n) = Python!KindIn(classes[instances[i].type].mro, n)
<1>1. Len(instances) \in Nat /\ \A i \in InstanceIds : instances[i].type \in ClassIds
  BY DEF IInv, InstancesOK
<1>2. Len(Seen) = Len(instances)
  <2>1. Seen \in [1..Len(instances) -> {SeenAs(instances[i]) : i \in 1..Len(instances)}]
    BY DEF Seen, InstanceIds
  <2> QED BY <1>1, <2>1, FunctionIsSeq
<1>3. Python!InstanceIds = 1..Len(Seen)
  BY Zenon DEF Python!InstanceIds, Seen, SeenAs, ValuesOf
<1>4. Python!InstanceIds = InstanceIds /\ Python!ClassIds = ClassIds /\ Python!Names = Names
  BY <1>2, <1>3, Zenon DEF InstanceIds, Python!ClassIds, ClassIds, Python!Names, Names
<1>5. \A i \in InstanceIds : Seen[i].type = instances[i].type /\ Seen[i].values = ValuesOf(instances[i])
  BY DEF Seen, SeenAs
<1>6. \A i \in InstanceIds : Python!OrderOf(i) = classes[instances[i].type].mro
  BY DEF Python!OrderOf
<1>7. \A i \in InstanceIds : \A n : Python!Kind(i, n) = Python!KindIn(classes[instances[i].type].mro, n)
  BY <1>6, Zenon DEF Python!Kind
<1> QED BY <1>1, <1>2, <1>4, <1>5, <1>6, <1>7

-----------------------------------------------------------------------------
(* What is to be known beyond IInv: the merge has chosen as Python does,   *)
(* no class has too many bases, and an instance keeps its values in one    *)
(* place.                                                                  *)

Choosing(bases, lists, result) ==
  /\ bases \in BaseLists(world, Len(classes))
  /\ Shortened(ToMerge(bases), lists)
  /\ ChosenSoFar(ToMerge(bases), lists, result)

Begun == \A bases, lists, result :
  making = <<[bases |-> bases, lists |-> lists, result |-> result]>> => Choosing(bases, lists, result)

KeptWell(inst) ==
  IF hasSlots(inst.type)
  THEN DOMAIN inst.attrs = {} /\ DOMAIN inst.slotValues \subseteq classes[inst.type].slots[1]
  ELSE DOMAIN inst.slotValues = {}
KeptApart == \A i \in InstanceIds : KeptWell(instances[i])

RInv == Begun /\ FewBases /\ KeptApart

PythonStep == [Python!Next]_Python!vars

LEMMA NothingSeen ==
  ASSUME UNCHANGED <<world, classes, instances, asked, answer>>
  PROVE  PythonStep
<1>1. Seen' = Seen
  BY SeenStays
<1>2. UNCHANGED Python!vars
  BY <1>1 DEF Python!vars, Seen, SeenAs, ValuesOf
<1> QED BY <1>2 DEF PythonStep

LEMMA InstancesApart ==
  ASSUME KeptApart, UNCHANGED <<classes, instances>>
  PROVE  KeptApart'
BY DEF KeptApart, KeptWell, hasSlots, InstanceIds

LEMMA AnswerKeepsRest ==
  ASSUME RInv, UNCHANGED <<world, classes, making, instances>>
  PROVE  RInv'
<1>1. KeptApart' /\ FewBases'
  BY InstancesApart DEF RInv, FewBases, ClassIds
<1>2. Begun'
  <2>1. \A bases : ToMerge(bases)' = ToMerge(bases)
    BY DEF ToMerge
  <2> QED BY <2>1 DEF RInv, Begun, Choosing
<1> QED BY <1>1, <1>2 DEF RInv

LEMMA NewClassStep ==
  ASSUME IInv, RInv, NEW bases \in BaseLists(world, Len(classes)), NewClass(bases)
  PROVE  RInv' /\ PythonStep
<1>1. /\ making' = <<[bases |-> bases, lists |-> ToMerge(bases), result |-> <<Len(classes) + 1>>]>>
      /\ UNCHANGED <<world, classes, instances, asked, answer>>
  BY DEF NewClass
<1>2. \A b : ToMerge(b)' = ToMerge(b)
  BY <1>1 DEF ToMerge
<1>3. Shortened(ToMerge(bases), ToMerge(bases)) /\ ChosenSoFar(ToMerge(bases), ToMerge(bases), <<Len(classes) + 1>>)
  BY ChoiceStarts
<1>4. Begun'
  BY <1>1, <1>2, <1>3 DEF Begun, Choosing
<1> QED BY <1>1, <1>4, NothingSeen, InstancesApart DEF RInv, FewBases, ClassIds

LEMMA TakeHeadStep ==
  ASSUME IInv, RInv, TakeHead
  PROVE  RInv' /\ PythonStep
<1>1. making # <<>> /\ UNCHANGED <<world, classes, instances, asked, answer>>
  BY DEF TakeHead
<1>2. PICK bases \in Seq(ClassIds) : \E lists, result : UnderWay(bases, lists, result)
  BY <1>1 DEF IInv, MakingOK
<1>3. PICK lists, result : UnderWay(bases, lists, result)
  BY <1>2
<1>4. making = <<[bases |-> bases, lists |-> lists, result |-> result]>>
  BY <1>3 DEF UnderWay
<1>5. /\ GoodHeads(lists) # {}
      /\ making' = <<[bases |-> bases, lists |-> Remove(lists, Candidate(lists)),
                      result |-> Append(result, Candidate(lists))]>>
  BY <1>4 DEF TakeHead
<1>6. Choosing(bases, lists, result)
  BY <1>4 DEF RInv, Begun
<1>7. Len(classes) + 1 \in Nat \ {0}
  BY DEF IInv, ClassesKnown, ClassesOK
<1>8. /\ Shortened(ToMerge(bases), Remove(lists, Candidate(lists)))
      /\ ChosenSoFar(ToMerge(bases), Remove(lists, Candidate(lists)), Append(result, Candidate(lists)))
  BY <1>3, <1>5, <1>6, <1>7, ChoiceGoesOn DEF UnderWay, Choosing
<1>9. \A b : ToMerge(b)' = ToMerge(b)
  BY <1>1 DEF ToMerge
<1>10. Begun'
  BY <1>1, <1>5, <1>6, <1>8, <1>9 DEF Begun, Choosing
<1> QED BY <1>1, <1>10, NothingSeen, InstancesApart DEF RInv, FewBases, ClassIds

LEMMA RefuseClassStep ==
  ASSUME IInv, RInv, RefuseClass
  PROVE  RInv' /\ PythonStep
<1>1. making # <<>> /\ making' = <<>> /\ UNCHANGED <<world, classes, instances>>
  BY DEF RefuseClass
<1>2. PICK bases \in Seq(ClassIds) : \E lists, result : UnderWay(bases, lists, result)
  BY <1>1 DEF IInv, MakingOK
<1>3. PICK lists, result : UnderWay(bases, lists, result)
  BY <1>2
<1>4. making = <<[bases |-> bases, lists |-> lists, result |-> result]>>
  BY <1>3 DEF UnderWay
<1>5. /\ ~Merged(lists) /\ GoodHeads(lists) = {}
      /\ asked' = AskedClass(bases) /\ answer' = TypeError
  BY <1>4 DEF RefuseClass
<1>6. Choosing(bases, lists, result)
  BY <1>4 DEF RInv, Begun
<1>7. Python!Orders(bases) = {}
  BY <1>3, <1>5, <1>6, NoOrderLeft DEF UnderWay, Choosing, IInv
<1>8. Python!RefuseBases(bases)
  <2>1. Seen' = Seen
    BY <1>1, SeenStays
  <2> QED BY <1>1, <1>5, <1>7, <2>1, SameRequests, SameAnswers
          DEF Python!RefuseBases, Seen, SeenAs, ValuesOf
<1>9. Python!Next
  BY <1>6, <1>8, SameRequests DEF Python!Next, Choosing
<1>10. Begun'
  BY <1>1 DEF Begun
<1> QED BY <1>1, <1>9, <1>10, InstancesApart DEF RInv, FewBases, ClassIds, PythonStep

LEMMA FinishClassStep ==
  ASSUME IInv, RInv, NEW attrs \in Bodies(world), NEW slots \in world.slots, FinishClass(attrs, slots)
  PROVE  RInv' /\ PythonStep
<1>1. making # <<>> /\ making' = <<>> /\ UNCHANGED <<world, instances>>
  BY DEF FinishClass
<1>2. PICK bases \in Seq(ClassIds) : \E lists, result : UnderWay(bases, lists, result)
  BY <1>1 DEF IInv, MakingOK
<1>3. PICK lists, result : UnderWay(bases, lists, result)
  BY <1>2
<1>4. making = <<[bases |-> bases, lists |-> lists, result |-> result]>>
  BY <1>3 DEF UnderWay
<1> DEFINE new == [bases |-> bases, mro |-> result, attrs |-> attrs, slots |-> slots]
<1>5. /\ Merged(lists) /\ slots \in SlotsFor(world, bases, attrs)
      /\ classes' = Append(classes, new)
      /\ asked' = AskedClass(bases) /\ answer' = Done
  BY <1>4 DEF FinishClass
<1>6. Choosing(bases, lists, result)
  BY <1>4 DEF RInv, Begun
<1>7. PICK order \in Python!Orders(bases) : Python!Chosen(bases, order) /\ result = <<Len(classes) + 1>> \o order
  <2>1. ClassesKnown /\ Merging(Len(classes) + 1, ToMerge(bases), lists, result)
    BY <1>3 DEF UnderWay, IInv
  <2>2. ChosenSoFar(ToMerge(bases), lists, result) /\ Merged(lists)
    BY <1>5, <1>6 DEF Choosing
  <2> HIDE DEF new
  <2> QED BY <2>1, <2>2, OrderChosen
<1>8. Python!DefineClass(bases)
  <2>1. Seen' = Seen
    BY <1>1, SeenStays
  <2>2. classes' = Append(classes, [bases |-> bases, mro |-> <<Len(classes) + 1>> \o order,
                                    attrs |-> attrs, slots |-> slots])
    BY <1>5, <1>7
  <2> QED BY <1>1, <1>5, <1>7, <2>1, <2>2, SameRequests, SameAnswers
          DEF Python!DefineClass, Seen, SeenAs, ValuesOf
<1>9. Python!Next
  BY <1>6, <1>8, SameRequests DEF Python!Next, Choosing
<1>10. /\ ClassIds' = ClassIds \cup {Len(classes) + 1}
       /\ \A c \in ClassIds : classes'[c] = classes[c]
       /\ classes'[Len(classes) + 1] = new
  BY <1>5, OldClassesStay DEF IInv, ClassesKnown
<1>11. Len(bases) <= world.max_bases
  <2>1. PICK k \in 0..world.max_bases : bases \in [1..k -> 1..Len(classes)]
    BY <1>6 DEF Choosing, BaseLists
  <2>2. k \in Nat /\ k <= world.max_bases
    BY <2>1, ObjectsAssumption DEF IInv, ClassesKnown, IsWorld
  <2>3. Len(bases) = k
    BY <2>1, <2>2, FunctionIsSeq
  <2> QED BY <2>2, <2>3
<1>12. FewBases'
  BY <1>1, <1>10, <1>11 DEF RInv, FewBases
<1>13. KeptApart'
  <2>1. \A i \in InstanceIds : instances[i].type \in ClassIds
    BY DEF IInv, InstancesOK
  <2> QED BY <1>1, <1>10, <2>1 DEF RInv, KeptApart, KeptWell, hasSlots, InstanceIds
<1>14. Begun'
  BY <1>1 DEF Begun
<1> QED BY <1>9, <1>12, <1>13, <1>14 DEF RInv, PythonStep

-----------------------------------------------------------------------------
(* Lookups *)

LEMMA RawKind ==
  ASSUME ClassesKnown, NEW c \in ClassIds, NEW n, hasAttr(c, n)
  PROVE  /\ Definer(c, n) \in ClassIds /\ getRawAttr(c, n) \in Kinds
         /\ n \in Names /\ getRawAttr(c, n) \in world.kinds[n]
<1> DEFINE order == classes[c].mro
           having == {k \in 1..Len(order) : n \in DOMAIN classes[order[k]].attrs}
           d == Definer(c, n)
<1>1. having # {} /\ having \subseteq Nat
  BY DEF hasAttr
<1>2. FirstOf(having) \in having
  <2> HIDE DEF having
  <2> QED BY <1>1, FirstIsLeast
<1>3. d = order[FirstOf(having)] /\ getRawAttr(c, n) = classes[d].attrs[n]
  BY DEF Definer, getRawAttr
<1>4. d \in ClassIds /\ n \in DOMAIN classes[d].attrs
  <2>1. order \in Seq(1..c) /\ 1..c \subseteq ClassIds
    BY OrderOfClass
  <2>2. order[FirstOf(having)] \in 1..c
    BY <1>2, <2>1, ElementsOf
  <2> QED BY <1>2, <1>3, <2>1, <2>2
<1> HIDE DEF d
<1>5. classes[d].attrs \in Bodies(world)
  <2>1. classes \in Seq(Class) /\ d \in 1..Len(classes)
    BY <1>4 DEF ClassesKnown, ClassesOK, ClassIds
  <2>2. classes[d] \in Class
    BY <2>1, ElementsOf
  <2> QED BY <2>2 DEF Class
<1>6. /\ classes[d].attrs[n] \in Kinds
      /\ n \in DOMAIN world.kinds /\ classes[d].attrs[n] \in world.kinds[n]
  BY <1>4, <1>5 DEF Bodies
<1> QED BY <1>3, <1>4, <1>6 DEF Names, d

LEMMA SlottedClass ==
  ASSUME ClassesKnown, NEW c \in ClassIds, NEW n, SlotsLast(classes[c].mro), hasSlots(c)
  PROVE  /\ isSlot(c, n) => ~hasAttr(c, n)
         /\ (\E k \in 1..Len(classes[c].mro) : isSlot(classes[c].mro[k], n)) <=> isSlot(c, n)
<1> DEFINE order == classes[c].mro
<1>1. order[1] = c /\ Len(order) \in Nat \ {0}
  BY OrderOfClass
<1>2. Len(order) = 1
  <2>1. 1 \in 1..Len(order)
    BY <1>1
  <2> QED BY <1>1, <2>1 DEF SlotsLast, hasSlots
<1>3. 1..Len(order) = {1}
  BY <1>2
<1>4. hasAttr(c, n) <=> n \in DOMAIN classes[c].attrs
  BY <1>1, <1>3 DEF hasAttr
<1>5. isSlot(c, n) => n \notin DOMAIN classes[c].attrs
  BY SlotsOfClass DEF isSlot, hasSlots
<1> QED BY <1>1, <1>3, <1>4, <1>5

LEMMA ValuesInOnePlace ==
  ASSUME NEW inst \in Instance, KeptWell(inst)
  PROVE  ValuesOf(inst) = IF hasSlots(inst.type) THEN inst.slotValues ELSE inst.attrs
<1>1. /\ inst.attrs = [n \in DOMAIN inst.attrs |-> inst.attrs[n]]
      /\ inst.slotValues = [n \in DOMAIN inst.slotValues |-> inst.slotValues[n]]
  <2>1. \A values \in Partial(Values) : values = [n \in DOMAIN values |-> values[n]]
    BY DEF Partial
  <2> QED BY <2>1 DEF Instance
<1>2. CASE hasSlots(inst.type)
  <2>1. DOMAIN inst.attrs = {}
    BY <1>2 DEF KeptWell
  <2>2. ValuesOf(inst) = [n \in DOMAIN inst.slotValues |-> inst.slotValues[n]]
    BY <2>1 DEF ValuesOf
  <2> QED BY <1>1, <1>2, <2>2
<1>3. CASE ~hasSlots(inst.type)
  <2>1. DOMAIN inst.slotValues = {}
    BY <1>3 DEF KeptWell
  <2>2. ValuesOf(inst) = [n \in DOMAIN inst.attrs |-> inst.attrs[n]]
    BY <2>1 DEF ValuesOf
  <2> QED BY <1>1, <1>3, <2>2
<1> QED BY <1>2, <1>3

LEMMA OfInstanceByKind ==
  ASSUME NEW order, NEW c, NEW i \in InstanceIds, NEW n
  PROVE  LET kind == Python!KindIn(order, n)
             definer == Python!First(order, n)
             found == Python!OfInstance(order, c, i, n)
         IN /\ kind = "none" => found = AttributeError
            /\ kind = "function" => found = Bound(definer, ToInstance(i))
            /\ kind = "staticmethod" => found = Function(definer)
            /\ kind = "classmethod" => found = Bound(definer, ToClass(c))
            /\ kind = "object" => found = Itself(definer)
            /\ kind \in Properties => found = Called(definer, ToInstance(i))
            /\ kind = "member" => found = IF n \in DOMAIN ValuesOf(instances[i])
                                          THEN Stored(ValuesOf(instances[i])[n]) ELSE AttributeError
<1> DEFINE kind == Python!KindIn(order, n)
           definer == Python!First(order, n)
           found == Python!OfInstance(order, c, i, n)
<1>1. found = CASE kind = "none" -> AttributeError
                [] kind = "function" -> Bound(definer, ToInstance(i))
                [] kind = "staticmethod" -> Function(definer)
                [] kind = "classmethod" -> Bound(definer, ToClass(c))
                [] kind = "object" -> Itself(definer)
                [] kind \in Properties -> Called(definer, ToInstance(i))
                [] kind = "member" -> IF n \in DOMAIN Seen[i].values
                                      THEN Stored(Seen[i].values[n]) ELSE AttributeError
  BY SameRequests, SameAnswers DEF Python!OfInstance, Seen, SeenAs, ValuesOf
<1>2. Seen[i].values = ValuesOf(instances[i])
  BY DEF Seen, SeenAs
<1> HIDE DEF kind, definer, found
<1>3. /\ kind = "none" => found = AttributeError
      /\ kind = "function" => found = Bound(definer, ToInstance(i))
      /\ kind = "staticmethod" => found = Function(definer)
      /\ kind = "classmethod" => found = Bound(definer, ToClass(c))
      /\ kind = "object" => found = Itself(definer)
      /\ kind \in Properties => found = Called(definer, ToInstance(i))
      /\ kind = "member" => found = IF n \in DOMAIN ValuesOf(instances[i])
                                    THEN Stored(ValuesOf(instances[i])[n]) ELSE AttributeError
  BY <1>1, <1>2 DEF Properties
<1> QED BY <1>3 DEF kind, definer, found

LEMMA FoundInClass ==
  ASSUME ClassesKnown, NEW i \in InstanceIds, instances[i].type \in ClassIds, NEW n,
         SameLookup(instances[i].type, n),
         hasAttr(instances[i].type, n) \/ Python!KindIn(classes[instances[i].type].mro, n) = "none"
  PROVE  Python!OfInstance(classes[instances[i].type].mro, instances[i].type, i, n) = FromClass(i, n)
<1> DEFINE c == instances[i].type
           order == classes[c].mro
           kind == Python!KindIn(order, n)
<1>1. CASE hasAttr(c, n)
  <2>1. kind = getRawAttr(c, n) /\ Python!First(order, n) = Definer(c, n)
    BY <1>1 DEF SameLookup
  <2>2. getRawAttr(c, n) \in Kinds
    BY <1>1, RawKind
  <2>3. FromClass(i, n) =
          CASE kind \in Properties -> Called(Definer(c, n), ToInstance(i))
            [] kind = "staticmethod" -> Function(Definer(c, n))
            [] kind = "classmethod" -> Bound(Definer(c, n), ToClass(c))
            [] kind = "function" -> Bound(Definer(c, n), ToInstance(i))
            [] OTHER -> Itself(Definer(c, n))
    BY <1>1, <2>1 DEF FromClass
  <2>4. kind \in Properties \/ kind \in {"function", "staticmethod", "classmethod", "object"}
    BY <2>1, <2>2 DEF Kinds
  <2> HIDE DEF kind
  <2>5. CASE kind \in Properties
    <3>1. FromClass(i, n) = Called(Definer(c, n), ToInstance(i))
      BY <2>3, <2>5 DEF Properties
    <3> QED BY <2>1, <2>5, <3>1, OfInstanceByKind DEF kind
  <2>6. CASE kind = "staticmethod"
    <3>1. FromClass(i, n) = Function(Definer(c, n))
      BY <2>3, <2>6 DEF Properties
    <3> QED BY <2>1, <2>6, <3>1, OfInstanceByKind DEF kind
  <2>7. CASE kind = "classmethod"
    <3>1. FromClass(i, n) = Bound(Definer(c, n), ToClass(c))
      BY <2>3, <2>7 DEF Properties
    <3> QED BY <2>1, <2>7, <3>1, OfInstanceByKind DEF kind
  <2>8. CASE kind = "function"
    <3>1. FromClass(i, n) = Bound(Definer(c, n), ToInstance(i))
      BY <2>3, <2>8 DEF Properties
    <3> QED BY <2>1, <2>8, <3>1, OfInstanceByKind DEF kind
  <2>9. CASE kind = "object"
    <3>1. FromClass(i, n) = Itself(Definer(c, n))
      BY <2>3, <2>9 DEF Properties
    <3> QED BY <2>1, <2>9, <3>1, OfInstanceByKind DEF kind
  <2> QED BY <2>4, <2>5, <2>6, <2>7, <2>8, <2>9
<1>2. CASE ~hasAttr(c, n)
  <2>1. FromClass(i, n) = AttributeError
    BY <1>2 DEF FromClass
  <2>2. kind = "none"
    BY <1>2
  <2> QED BY <2>1, <2>2, OfInstanceByKind
<1> QED BY <1>1, <1>2

(* What an instance's class makes of a name, in one and in the other *)
LEMMA OfInstances ==
  ASSUME IInv, RInv, SlotsAlike(world), NEW i \in InstanceIds
  PROVE  /\ instances[i] \in Instance /\ instances[i].type \in ClassIds /\ KeptWell(instances[i])
         /\ SlotsLast(classes[instances[i].type].mro)
         /\ \A n : SameLookup(instances[i].type, n)
<1>1. instances[i] \in Instance /\ instances[i].type \in ClassIds
  BY DEF IInv, InstancesOK, InstanceIds
<1>2. KeptWell(instances[i])
  BY DEF RInv, KeptApart
<1>3. SlotsLast(classes[instances[i].type].mro)
  BY <1>1, SlotsAreLast DEF IInv, RInv
<1>4. \A n : SameLookup(instances[i].type, n)
  BY <1>1, <1>3, KindsAgree DEF IInv
<1> QED BY <1>1, <1>2, <1>3, <1>4

LEMMA SameKinds ==
  ASSUME IInv, RInv, SlotsAlike(world), NEW i \in InstanceIds, NEW n
  PROVE  LET c == instances[i].type
             kind == Python!Kind(i, n)
         IN /\ hasAttr(c, n) => /\ kind = getRawAttr(c, n) /\ kind \in Kinds /\ kind # "member"
                                /\ kind # "none"
                                /\ Python!First(Python!OrderOf(i), n) = Definer(c, n)
            /\ ~hasAttr(c, n) => kind \in {"none", "member"}
            /\ isProperty(c, n) <=> kind \in Properties
            /\ hasSlots(c) => (isSlot(c, n) <=> kind = "member")
            /\ Python!HasDict(i) <=> ~hasSlots(c)
<1> DEFINE c == instances[i].type
           kind == Python!Kind(i, n)
           order == classes[c].mro
<1>1. c \in ClassIds /\ SlotsLast(order) /\ SameLookup(c, n)
  BY OfInstances
<1>2. kind = Python!KindIn(order, n) /\ Python!OrderOf(i) = order
  BY PythonInstances
<1>3. hasAttr(c, n) => /\ kind = getRawAttr(c, n) /\ kind \in Kinds
                       /\ Python!First(Python!OrderOf(i), n) = Definer(c, n)
  <2>1. hasAttr(c, n) => getRawAttr(c, n) \in Kinds
    BY <1>1, RawKind DEF IInv
  <2> QED BY <1>1, <1>2, <2>1 DEF SameLookup
<1>4. ~hasAttr(c, n) => kind \in {"none", "member"}
  BY <1>1, <1>2 DEF SameLookup
<1>5. isProperty(c, n) <=> kind \in Properties
  <2>1. "none" \notin Properties /\ "member" \notin Properties
    BY DEF Properties
  <2> HIDE DEF c, kind
  <2> QED BY <1>3, <1>4, <2>1 DEF isProperty
<1>6. hasSlots(c) => (isSlot(c, n) <=> kind = "member")
  <2> SUFFICES ASSUME hasSlots(c) PROVE isSlot(c, n) <=> kind = "member"
    OBVIOUS
  <2>1. /\ isSlot(c, n) => ~hasAttr(c, n)
        /\ (\E k \in 1..Len(order) : isSlot(order[k], n)) <=> isSlot(c, n)
    BY <1>1, SlottedClass DEF IInv
  <2>2. (~hasAttr(c, n) /\ kind = "member") <=>
          (~hasAttr(c, n) /\ \E k \in 1..Len(order) : isSlot(order[k], n))
    BY <1>1, <1>2 DEF SameLookup
  <2>3. hasAttr(c, n) => kind # "member"
    BY <1>3 DEF Kinds, Properties
  <2> HIDE DEF c, kind, order
  <2> QED BY <2>1, <2>2, <2>3
<1>7. Python!HasDict(i) <=> ~hasSlots(c)
  <2>1. Python!HasDict(i) <=> \E k \in 1..Len(order) : classes[order[k]].slots = <<>>
    BY <1>2 DEF Python!HasDict
  <2>2. order[1] = c /\ Len(order) \in Nat \ {0}
    BY <1>1, OrderOfClass DEF IInv
  <2>3. 1 \in 1..Len(order)
    BY <2>2
  <2>4. CASE hasSlots(c)
    <3>1. 1 = Len(order)
      BY <1>1, <2>2, <2>3, <2>4 DEF SlotsLast, hasSlots
    <3>2. 1..Len(order) = {1}
      <4> HIDE DEF order
      <4> QED BY <3>1
    <3> QED BY <2>1, <2>2, <2>4, <3>2 DEF hasSlots
  <2>5. CASE ~hasSlots(c)
    BY <2>1, <2>2, <2>3, <2>5 DEF hasSlots
  <2> QED BY <2>4, <2>5
<1>8. hasAttr(c, n) => kind # "member" /\ kind # "none"
  BY <1>3 DEF Kinds, Properties
<1> HIDE DEF c, kind, order
<1>9. /\ hasAttr(c, n) => /\ kind = getRawAttr(c, n) /\ kind \in Kinds /\ kind # "member"
                          /\ kind # "none"
                          /\ Python!First(Python!OrderOf(i), n) = Definer(c, n)
      /\ ~hasAttr(c, n) => kind \in {"none", "member"}
      /\ isProperty(c, n) <=> kind \in Properties
      /\ hasSlots(c) => (isSlot(c, n) <=> kind = "member")
      /\ Python!HasDict(i) <=> ~hasSlots(c)
  BY <1>3, <1>4, <1>5, <1>6, <1>7, <1>8
<1> QED BY <1>9 DEF c, kind

(* The values of an instance, a slot or not, cover what they cover. *)
LEMMA SameGet ==
  ASSUME IInv, RInv, SlotsAlike(world), NEW i \in InstanceIds, NEW n \in Names
  PROVE  getattr(i, n) =
           IF Python!Kind(i, n) \notin Properties \cup {"member"} /\ n \in DOMAIN ValuesOf(instances[i])
           THEN Stored(ValuesOf(instances[i])[n])
           ELSE Python!OfInstance(Python!OrderOf(i), instances[i].type, i, n)
<1> DEFINE inst == instances[i]
           c == inst.type
           kind == Python!Kind(i, n)
           order == Python!OrderOf(i)
           values == ValuesOf(inst)
           found == Python!OfInstance(order, c, i, n)
<1>1. /\ inst \in Instance /\ c \in ClassIds /\ KeptWell(inst) /\ SameLookup(c, n)
      /\ SlotsLast(classes[c].mro)
  BY OfInstances
<1>2. /\ hasAttr(c, n) => kind \in Kinds /\ kind # "member" /\ kind # "none"
      /\ ~hasAttr(c, n) => kind \in {"none", "member"}
      /\ isProperty(c, n) <=> kind \in Properties
      /\ hasSlots(c) => (isSlot(c, n) <=> kind = "member")
  BY SameKinds
<1>3. order = classes[c].mro /\ kind = Python!KindIn(order, n)
  BY PythonInstances
<1>4. values = IF hasSlots(c) THEN inst.slotValues ELSE inst.attrs
  BY <1>1, ValuesInOnePlace
<1>5. hasAttr(c, n) \/ kind = "none" => found = FromClass(i, n)
  BY <1>1, <1>3, FoundInClass DEF IInv
<1>6. kind = "member" => found = IF n \in DOMAIN values THEN Stored(values[n]) ELSE AttributeError
  BY <1>3, OfInstanceByKind
<1>7. kind \in Properties => n \notin DOMAIN inst.attrs \cup DOMAIN inst.slotValues
  BY <1>2 DEF IInv, PropertiesUncovered, isProperty
<1>8. getattr(i, n) =
        IF isSlot(c, n)
        THEN IF n \in DOMAIN inst.slotValues THEN Stored(inst.slotValues[n]) ELSE AttributeError
        ELSE IF n \in DOMAIN inst.attrs THEN Stored(inst.attrs[n]) ELSE FromClass(i, n)
  BY DEF getattr
<1>9. ~hasAttr(c, n) => FromClass(i, n) = AttributeError
  BY DEF FromClass
<1>10. /\ hasSlots(c) => DOMAIN inst.attrs = {} /\ DOMAIN inst.slotValues \subseteq classes[c].slots[1]
       /\ isSlot(c, n) <=> hasSlots(c) /\ n \in classes[c].slots[1]
  BY <1>1 DEF KeptWell, isSlot
<1> HIDE DEF inst, c, kind, order, values, found
<1>11. getattr(i, n) = IF kind \notin Properties \cup {"member"} /\ n \in DOMAIN values
                       THEN Stored(values[n]) ELSE found
  <2>1. CASE isSlot(c, n)
    BY <1>2, <1>4, <1>6, <1>8, <1>10, <2>1
  <2>2. CASE hasSlots(c) /\ ~isSlot(c, n)
    <3>1. n \notin DOMAIN values /\ n \notin DOMAIN inst.attrs
      BY <1>4, <1>10, <2>2
    <3>2. hasAttr(c, n) \/ kind = "none"
      BY <1>2, <2>2
    <3> QED BY <1>5, <1>8, <2>2, <3>1, <3>2
  <2>3. CASE ~hasSlots(c)
    <3>1. values = inst.attrs /\ getattr(i, n) = IF n \in DOMAIN values THEN Stored(values[n]) ELSE FromClass(i, n)
      BY <1>4, <1>8, <1>10, <2>3
    <3>2. CASE kind \in Properties
      BY <1>2, <1>5, <1>7, <3>1, <3>2 DEF Properties
    <3>3. CASE kind = "member"
      BY <1>2, <1>6, <1>9, <3>1, <3>3
    <3>4. CASE kind \notin Properties \cup {"member"}
      <4>1. found = FromClass(i, n)
        BY <1>2, <1>5, <3>4
      <4> QED BY <3>1, <3>4, <4>1
    <3> QED BY <3>2, <3>3, <3>4
  <2> QED BY <2>1, <2>2, <2>3
<1> QED BY <1>11 DEF inst, c, kind, order, values, found

-----------------------------------------------------------------------------
(* The operations on classes and instances *)

LEMMA AnsweredStep ==
  ASSUME RInv, UNCHANGED <<world, classes, making, instances>>
  PROVE  RInv' /\ UNCHANGED <<world, classes, Seen>>
BY AnswerKeepsRest, SeenStays

LEMMA GetAttrStep ==
  ASSUME IInv, RInv, Alike(world), NEW i \in InstanceIds, NEW n \in Names, GetAttr(i, n)
  PROVE  RInv' /\ PythonStep
<1>1. /\ asked' = Asked("get", i, 0, n, 0) /\ answer' = getattr(i, n)
      /\ UNCHANGED <<world, classes, making, instances>>
  BY DEF GetAttr, Ask
<1>2. RInv' /\ UNCHANGED <<world, classes, Seen>>
  BY <1>1, AnsweredStep
<1>3. answer' = IF Python!Kind(i, n) \notin Properties \cup {"member"} /\ n \in DOMAIN Seen[i].values
                THEN Stored(Seen[i].values[n])
                ELSE Python!OfInstance(Python!OrderOf(i), Seen[i].type, i, n)
  BY <1>1, SameGet, PythonInstances DEF Alike
<1>4. Python!Get(i, n)
  BY <1>1, <1>2, <1>3, SameRequests, SameAnswers DEF Python!Get, Seen, SeenAs, ValuesOf
<1> QED BY <1>2, <1>4, PythonInstances DEF Python!Next, PythonStep

LEMMA IsInstanceStep ==
  ASSUME IInv, RInv, Alike(world), NEW i \in InstanceIds, NEW c \in ClassIds, IsInstance(i, c)
  PROVE  RInv' /\ PythonStep
<1>1. /\ asked' = Asked("isinstance", i, c, "", 0)
      /\ answer' = Truth(isSubclass(instances[i].type, c))
      /\ UNCHANGED <<world, classes, making, instances>>
  BY DEF IsInstance, Ask
<1>2. RInv' /\ UNCHANGED <<world, classes, Seen>>
  BY <1>1, AnsweredStep
<1>3. isSubclass(instances[i].type, c) <=> Python!Contains(Python!OrderOf(i), c)
  <2>1. isSubclass(instances[i].type, c) <=> c \in RangeOf(classes[instances[i].type].mro)
    BY PythonInstances, SubclassInOrder DEF IInv
  <2> QED BY <2>1, PythonInstances DEF Python!Contains, RangeOf
<1>4. answer' = Truth(Python!Contains(Python!OrderOf(i), c))
  BY <1>1, <1>3 DEF Truth
<1>5. Python!IsA(i, c)
  BY <1>1, <1>2, <1>4, SameRequests, SameAnswers DEF Python!IsA, Seen, SeenAs, ValuesOf
<1> QED BY <1>2, <1>5, PythonInstances DEF Python!Next, PythonStep

(* A name that is a slot nowhere is an attribute or nothing. *)
LEMMA NoMember ==
  ASSUME ClassesKnown, NEW c \in ClassIds, NEW n, SameLookup(c, n),
         \A d \in ClassIds : ~isSlot(d, n), ~hasAttr(c, n)
  PROVE  Python!KindIn(classes[c].mro, n) = "none"
<1>1. \A k \in 1..Len(classes[c].mro) : classes[c].mro[k] \in ClassIds
  <2>1. classes[c].mro \in Seq(1..c) /\ 1..c \subseteq ClassIds
    BY OrderOfClass
  <2>2. \A k \in 1..Len(classes[c].mro) : classes[c].mro[k] \in 1..c
    BY <2>1, ElementsOf
  <2> QED BY <2>1, <2>2
<1>2. ~\E k \in 1..Len(classes[c].mro) : isSlot(classes[c].mro[k], n)
  BY <1>1
<1> QED BY <1>2 DEF SameLookup

LEMMA UnslottedLookup ==
  ASSUME IInv, RInv, world.slots \subseteq {<<>>}, NEW c \in ClassIds, NEW n
  PROVE  /\ SameLookup(c, n)
         /\ ~hasAttr(c, n) => Python!KindIn(classes[c].mro, n) = "none"
<1>1. \A d \in ClassIds : ~isSlot(d, n)
  BY NoSlots DEF isSlot, hasSlots, IInv
<1>2. SlotsLast(classes[c].mro)
  BY SlotsAreLast DEF SlotsAlike, IInv, RInv
<1>3. SameLookup(c, n)
  BY <1>2, KindsAgree DEF IInv
<1> QED BY <1>1, <1>3, NoMember DEF IInv

LEMMA GetClassAttrStep ==
  ASSUME IInv, RInv, Alike(world), NEW c \in ClassIds, NEW n \in Names, GetClassAttr(c, n)
  PROVE  RInv' /\ PythonStep
<1>1. /\ asked' = Asked("class get", 0, c, n, 0) /\ answer' = getAttr(c, n)
      /\ "class get" \in world.operations
      /\ UNCHANGED <<world, classes, making, instances>>
  BY DEF GetClassAttr, Ask, Asked
<1>2. RInv' /\ UNCHANGED <<world, classes, Seen>>
  BY <1>1, AnsweredStep
<1>3. world.slots \subseteq {<<>>}
  BY <1>1 DEF Alike, SlotsAlike
<1> DEFINE order == classes[c].mro
           kind == Python!KindIn(order, n)
           definer == Python!First(order, n)
<1>4. /\ hasAttr(c, n) => kind = getRawAttr(c, n) /\ definer = Definer(c, n)
      /\ ~hasAttr(c, n) => kind = "none"
  BY <1>3, UnslottedLookup DEF SameLookup
<1>5. hasAttr(c, n) => kind # "none"
  BY <1>4, RawKind DEF IInv, Kinds, Properties
<1>6. Python!OfClass(c, n) =
        CASE kind = "none" -> AttributeError
          [] kind = "staticmethod" -> Function(definer)
          [] kind = "classmethod" -> Bound(definer, ToClass(c))
          [] OTHER -> Itself(definer)
  BY SameAnswers DEF Python!OfClass
<1> HIDE DEF kind, definer
<1>7. getAttr(c, n) = Python!OfClass(c, n)
  BY <1>4, <1>5, <1>6 DEF getAttr
<1>8. Python!GetOfClass(c, n)
  BY <1>1, <1>2, <1>7, SameRequests DEF Python!GetOfClass, Seen, SeenAs, ValuesOf
<1> QED BY <1>2, <1>8, PythonInstances DEF Python!Next, PythonStep

LEMMA SpecialStep ==
  ASSUME IInv, RInv, Alike(world), NEW i \in InstanceIds, NEW n \in Names, Special(i, n)
  PROVE  RInv' /\ PythonStep
<1> DEFINE c == instances[i].type
           kind == Python!Kind(i, n)
           definer == Python!First(Python!OrderOf(i), n)
<1>1. /\ asked' = Asked("special", i, 0, n, 0) /\ answer' = special(i, n)
      /\ "special" \in world.operations
      /\ UNCHANGED <<world, classes, making, instances>>
  BY DEF Special, Ask, Asked
<1>2. RInv' /\ UNCHANGED <<world, classes, Seen>>
  BY <1>1, AnsweredStep
<1>3. c \in ClassIds /\ Python!OrderOf(i) = classes[c].mro /\ kind = Python!KindIn(classes[c].mro, n)
      /\ Seen[i].type = c
  BY PythonInstances
<1>4. world.slots \subseteq {<<>>} /\ world.kinds[n] \subseteq {"function", "none"}
  BY <1>1 DEF Alike, SlotsAlike, OnlyKinds, Names
<1>5. /\ hasAttr(c, n) => kind = getRawAttr(c, n) /\ definer = Definer(c, n)
      /\ ~hasAttr(c, n) => kind = "none"
  BY <1>3, <1>4, UnslottedLookup DEF SameLookup
<1>6. hasAttr(c, n) => kind = "function"
  <2> SUFFICES ASSUME hasAttr(c, n) PROVE kind = "function"
    OBVIOUS
  <2>1. getRawAttr(c, n) \in Kinds /\ getRawAttr(c, n) \in world.kinds[n]
    BY <1>3, RawKind DEF IInv
  <2> QED BY <1>4, <1>5, <2>1 DEF Kinds, Properties
<1>7. kind = "function" => Python!CallOf(kind, definer, c, i) = Called(definer, ToInstance(i))
  BY SameAnswers DEF Python!CallOf
<1> HIDE DEF kind, definer, c
<1>8. special(i, n) = IF kind = "none" THEN Default ELSE Python!CallOf(kind, definer, c, i)
  <2>1. special(i, n) = IF hasAttr(c, n) /\ getRawAttr(c, n) \in {"function", "staticmethod"}
                        THEN Called(Definer(c, n), ToInstance(i)) ELSE Default
    BY DEF special, c
  <2> QED BY <1>5, <1>6, <1>7, <2>1
<1>9. Python!CallSpecial(i, n)
  BY <1>1, <1>2, <1>3, <1>8, SameRequests, SameAnswers
  DEF Python!CallSpecial, Seen, SeenAs, ValuesOf, kind, definer, c
<1> QED BY <1>2, <1>9, PythonInstances DEF Python!Next, PythonStep

(* An instance whose values change keeps them in one place, and they       *)
(* change alike where Python has them.                                     *)
LEMMA ChangedStep ==
  ASSUME IInv, RInv, UNCHANGED <<world, classes, making>>,
         NEW i \in InstanceIds, NEW inst \in Instance, inst.type = instances[i].type, KeptWell(inst),
         instances' = [instances EXCEPT ![i] = inst]
  PROVE  RInv' /\ Seen' = [Seen EXCEPT ![i].values = ValuesOf(inst)]
<1>1. instances \in Seq(Instance) /\ Len(instances) \in Nat
  BY DEF IInv, InstancesOK
<1>2. Seen' = [Seen EXCEPT ![i] = SeenAs(inst)]
  <2> HIDE DEF Instance
  <2> QED BY <1>1, SeenChanges
<1>3. SeenAs(inst) = [Seen[i] EXCEPT !.values = ValuesOf(inst)]
  BY DEF Seen, SeenAs
<1>4. KeptApart'
  <2>1. /\ InstanceIds' = InstanceIds
        /\ \A j \in InstanceIds : instances'[j] = IF j = i THEN inst ELSE instances[j]
    BY <1>1 DEF InstanceIds
  <2>2. \A j \in InstanceIds : KeptWell(instances'[j])
    BY <2>1 DEF RInv, KeptApart
  <2> QED BY <2>1, <2>2 DEF KeptApart, KeptWell, hasSlots
<1>5. Begun' /\ FewBases'
  <2>1. \A bases : ToMerge(bases)' = ToMerge(bases)
    BY DEF ToMerge
  <2> QED BY <2>1 DEF RInv, Begun, Choosing, FewBases, ClassIds
<1> QED BY <1>2, <1>3, <1>4, <1>5, Zenon DEF RInv

(* A property decides in both what setting and deleting do. *)
LEMMA DecidedByProperty ==
  ASSUME IInv, RInv, SlotsAlike(world), NEW i \in InstanceIds, NEW n,
         isProperty(instances[i].type, n), answer' = ByProperty(i, n), UNCHANGED instances
  PROVE  Python!ByProperty(i, n)
<1>1. /\ Python!Kind(i, n) = getRawAttr(instances[i].type, n)
      /\ Python!Kind(i, n) \in Properties
      /\ Python!First(Python!OrderOf(i), n) = Definer(instances[i].type, n)
  BY SameKinds DEF isProperty
<1>2. answer' = IF Python!Kind(i, n) = "settable"
                THEN Called(Python!First(Python!OrderOf(i), n), ToInstance(i)) ELSE AttributeError
  BY <1>1 DEF ByProperty
<1>3. Seen' = Seen
  BY SeenStays
<1> QED BY <1>1, <1>2, <1>3, SameRequests, SameAnswers DEF Python!ByProperty, Seen, SeenAs, ValuesOf

LEMMA SetAttrStep ==
  ASSUME IInv, RInv, Alike(world), NEW i \in InstanceIds, NEW n \in Names, NEW v \in Values,
         SetAttr(i, n, v)
  PROVE  RInv' /\ PythonStep
<1> DEFINE old == instances[i]
           c == old.type
           kind == Python!Kind(i, n)
           new == IF hasSlots(c) THEN [old EXCEPT !.slotValues = Store(old.slotValues, n, v)]
                  ELSE [old EXCEPT !.attrs = Store(old.attrs, n, v)]
<1>1. asked' = Asked("set", i, 0, n, v) /\ UNCHANGED <<world, classes, making>>
  BY DEF SetAttr, Ask
<1>2. \/ isProperty(c, n) /\ answer' = ByProperty(i, n) /\ UNCHANGED instances
      \/ /\ ~isProperty(c, n) /\ hasSlots(c) /\ ~isSlot(c, n)
         /\ answer' = AttributeError /\ UNCHANGED instances
      \/ /\ ~isProperty(c, n) /\ (hasSlots(c) => isSlot(c, n))
         /\ answer' = Done /\ instances' = [instances EXCEPT ![i] = new]
  BY DEF SetAttr
<1>3. SlotsAlike(world)
  BY DEF Alike
<1>4. old \in Instance /\ c \in ClassIds /\ KeptWell(old)
  BY <1>3, OfInstances
<1>5. /\ isProperty(c, n) <=> kind \in Properties
      /\ hasSlots(c) => (isSlot(c, n) <=> kind = "member")
      /\ Python!HasDict(i) <=> ~hasSlots(c)
  BY <1>3, SameKinds
<1>6. CASE isProperty(c, n) /\ answer' = ByProperty(i, n) /\ UNCHANGED instances
  <2>1. RInv' /\ UNCHANGED <<world, classes, Seen>>
    BY <1>1, <1>6, AnsweredStep
  <2>2. Python!ByProperty(i, n)
    BY <1>3, <1>6, DecidedByProperty
  <2>3. Python!Set(i, n, v)
    BY <1>1, <2>1, <2>2, SameRequests DEF Python!Set
  <2> QED BY <2>1, <2>3, PythonInstances DEF Python!Next, PythonStep
<1>7. CASE /\ ~isProperty(c, n) /\ hasSlots(c) /\ ~isSlot(c, n)
           /\ answer' = AttributeError /\ UNCHANGED instances
  <2>1. RInv' /\ UNCHANGED <<world, classes, Seen>>
    BY <1>1, <1>7, AnsweredStep
  <2>2. kind \notin Properties \cup {"member"} /\ ~Python!HasDict(i)
    BY <1>5, <1>7
  <2>3. Python!Set(i, n, v)
    BY <1>1, <1>7, <2>1, <2>2, SameRequests, SameAnswers DEF Python!Set, Seen, SeenAs, ValuesOf
  <2> QED BY <2>1, <2>3, PythonInstances DEF Python!Next, PythonStep
<1>8. CASE /\ ~isProperty(c, n) /\ (hasSlots(c) => isSlot(c, n))
           /\ answer' = Done /\ instances' = [instances EXCEPT ![i] = new]
  <2>1. Store(old.attrs, n, v) \in Partial(Values) /\ Store(old.slotValues, n, v) \in Partial(Values)
    BY <1>4, PartialValues DEF Instance
  <2>2. /\ DOMAIN Store(old.attrs, n, v) = DOMAIN old.attrs \cup {n}
        /\ DOMAIN Store(old.slotValues, n, v) = DOMAIN old.slotValues \cup {n}
    BY DEF Store
  <2>3. /\ new \in Instance /\ new.type = c
        /\ hasSlots(c) => new.attrs = old.attrs /\ new.slotValues = Store(old.slotValues, n, v)
        /\ ~hasSlots(c) => new.attrs = Store(old.attrs, n, v) /\ new.slotValues = old.slotValues
    BY <1>4, <2>1 DEF Instance
  <2> HIDE DEF new, old, c
  <2>4. KeptWell(new)
    BY <1>4, <1>8, <2>2, <2>3 DEF KeptWell, isSlot, c
  <2>5. ValuesOf(new) = Store(ValuesOf(old), n, v)
    BY <1>4, <2>3, <2>4, ValuesInOnePlace DEF c
  <2>6. RInv' /\ Seen' = [Seen EXCEPT ![i].values = ValuesOf(new)]
    BY <1>1, <1>8, <2>3, <2>4, ChangedStep DEF c, old
  <2>7. Seen[i].values = ValuesOf(old)
    BY PythonInstances DEF old
  <2>8. Seen' = [Seen EXCEPT ![i].values = Store(@, n, v)]
    BY <2>5, <2>6, <2>7
  <2>9. kind \notin Properties /\ (kind = "member" \/ Python!HasDict(i))
    BY <1>5, <1>8
  <2>10. Python!Set(i, n, v)
    BY <1>1, <1>8, <2>8, <2>9, SameRequests, SameAnswers DEF Python!Set, Seen, SeenAs, ValuesOf
  <2> QED BY <2>6, <2>10, PythonInstances DEF Python!Next, PythonStep
<1> QED BY <1>2, <1>6, <1>7, <1>8

LEMMA DelAttrStep ==
  ASSUME IInv, RInv, Alike(world), NEW i \in InstanceIds, NEW n \in Names, DelAttr(i, n)
  PROVE  RInv' /\ PythonStep
<1> DEFINE old == instances[i]
           c == old.type
           kind == Python!Kind(i, n)
           values == IF hasSlots(c) THEN old.slotValues ELSE old.attrs
           new == IF hasSlots(c) THEN [old EXCEPT !.slotValues = Without(old.slotValues, n)]
                  ELSE [old EXCEPT !.attrs = Without(old.attrs, n)]
<1>1. asked' = Asked("del", i, 0, n, 0) /\ UNCHANGED <<world, classes, making>>
  BY DEF DelAttr, Ask
<1>2. \/ isProperty(c, n) /\ answer' = ByProperty(i, n) /\ UNCHANGED instances
      \/ /\ ~isProperty(c, n) /\ n \notin DOMAIN values
         /\ answer' = AttributeError /\ UNCHANGED instances
      \/ /\ ~isProperty(c, n) /\ n \in DOMAIN values
         /\ answer' = Done /\ instances' = [instances EXCEPT ![i] = new]
  BY DEF DelAttr
<1>3. SlotsAlike(world)
  BY DEF Alike
<1>4. old \in Instance /\ c \in ClassIds /\ KeptWell(old)
  BY <1>3, OfInstances
<1>5. isProperty(c, n) <=> kind \in Properties
  BY <1>3, SameKinds
<1>6. Seen[i].values = ValuesOf(old) /\ ValuesOf(old) = values
  BY <1>4, PythonInstances, ValuesInOnePlace
<1>7. CASE isProperty(c, n) /\ answer' = ByProperty(i, n) /\ UNCHANGED instances
  <2>1. RInv' /\ UNCHANGED <<world, classes, Seen>>
    BY <1>1, <1>7, AnsweredStep
  <2>2. Python!ByProperty(i, n)
    BY <1>3, <1>7, DecidedByProperty
  <2>3. Python!Delete(i, n)
    BY <1>1, <2>1, <2>2, SameRequests DEF Python!Delete
  <2> QED BY <2>1, <2>3, PythonInstances DEF Python!Next, PythonStep
<1>8. CASE /\ ~isProperty(c, n) /\ n \notin DOMAIN values
           /\ answer' = AttributeError /\ UNCHANGED instances
  <2>1. RInv' /\ UNCHANGED <<world, classes, Seen>>
    BY <1>1, <1>8, AnsweredStep
  <2>2. kind \notin Properties /\ n \notin DOMAIN Seen[i].values
    BY <1>5, <1>6, <1>8
  <2>3. Python!Delete(i, n)
    BY <1>1, <1>8, <2>1, <2>2, SameRequests, SameAnswers DEF Python!Delete, Seen, SeenAs, ValuesOf
  <2> QED BY <2>1, <2>3, PythonInstances DEF Python!Next, PythonStep
<1>9. CASE /\ ~isProperty(c, n) /\ n \in DOMAIN values
           /\ answer' = Done /\ instances' = [instances EXCEPT ![i] = new]
  <2>1. Without(old.attrs, n) \in Partial(Values) /\ Without(old.slotValues, n) \in Partial(Values)
    BY <1>4, PartialValues DEF Instance
  <2>2. DOMAIN Without(old.slotValues, n) \subseteq DOMAIN old.slotValues
    BY DEF Without
  <2>3. /\ new \in Instance /\ new.type = c
        /\ hasSlots(c) => new.attrs = old.attrs /\ new.slotValues = Without(old.slotValues, n)
        /\ ~hasSlots(c) => new.attrs = Without(old.attrs, n) /\ new.slotValues = old.slotValues
    BY <1>4, <2>1 DEF Instance
  <2>4. kind \notin Properties /\ n \in DOMAIN Seen[i].values
    BY <1>5, <1>6, <1>9
  <2> HIDE DEF new, old, c
  <2>5. KeptWell(new)
    BY <1>4, <2>2, <2>3 DEF KeptWell, c
  <2>6. ValuesOf(new) = Without(ValuesOf(old), n)
    BY <1>4, <2>3, <2>5, ValuesInOnePlace DEF c
  <2>7. RInv' /\ Seen' = [Seen EXCEPT ![i].values = ValuesOf(new)]
    BY <1>1, <1>9, <2>3, <2>5, ChangedStep DEF c, old
  <2>8. Seen' = [Seen EXCEPT ![i].values = Without(@, n)]
    BY <1>6, <2>6, <2>7
  <2>9. Python!Delete(i, n)
    BY <1>1, <1>9, <2>4, <2>8, SameRequests, SameAnswers DEF Python!Delete, Seen, SeenAs, ValuesOf
  <2> QED BY <2>7, <2>9, PythonInstances DEF Python!Next, PythonStep
<1> QED BY <1>2, <1>7, <1>8, <1>9

(* __init__ is a slot nowhere, and nothing that only one of them calls. *)
LEMMA SameConstruct ==
  ASSUME IInv, RInv, Alike(world), "call" \in world.operations, NEW c \in ClassIds, NEW i
  PROVE  LET kind == Python!KindIn(classes[c].mro, "__init__")
             definer == Python!First(classes[c].mro, "__init__")
         IN construct(c, i) = IF kind = "none" THEN Done ELSE Python!CallOf(kind, definer, c, i)
<1> DEFINE n == "__init__"
           kind == Python!KindIn(classes[c].mro, n)
           definer == Python!First(classes[c].mro, n)
<1>1. SlotsLast(classes[c].mro) /\ SlotsAlike(world)
  BY SlotsAreLast DEF Alike, IInv, RInv
<1>2. SameLookup(c, n)
  BY <1>1, KindsAgree DEF IInv
<1>3. \A d \in ClassIds : ~isSlot(d, n)
  <2> SUFFICES ASSUME NEW d \in ClassIds, isSlot(d, n) PROVE FALSE
    OBVIOUS
  <2>1. classes[d].slots \in world.slots
    BY SlotsOfClass DEF IInv
  <2>2. classes[d].slots # <<>> /\ n \in classes[d].slots[1]
    BY DEF isSlot, hasSlots
  <2> QED BY <1>1, <2>1, <2>2 DEF SlotsAlike
<1>4. /\ hasAttr(c, n) => kind = getRawAttr(c, n) /\ definer = Definer(c, n)
      /\ ~hasAttr(c, n) => kind = "none"
  BY <1>2, <1>3, NoMember DEF IInv, SameLookup
<1>5. hasAttr(c, n) => kind \in {"function", "object"}
  <2> SUFFICES ASSUME hasAttr(c, n) PROVE kind \in {"function", "object"}
    OBVIOUS
  <2>1. getRawAttr(c, n) \in Kinds /\ n \in Names /\ getRawAttr(c, n) \in world.kinds[n]
    BY RawKind DEF IInv
  <2>2. world.kinds[n] \subseteq {"function", "object", "none"}
    BY <2>1 DEF Alike, OnlyKinds, Names
  <2> QED BY <1>4, <2>1, <2>2 DEF Kinds, Properties
<1>6. /\ kind = "function" => Python!CallOf(kind, definer, c, i) = Called(definer, ToInstance(i))
      /\ kind = "object" => Python!CallOf(kind, definer, c, i) = TypeError
  BY SameAnswers DEF Python!CallOf
<1>7. construct(c, i) =
        IF ~hasAttr(c, n) THEN Done
        ELSE CASE getRawAttr(c, n) \in {"function", "staticmethod"} -> Called(Definer(c, n), ToInstance(i))
               [] getRawAttr(c, n) = "classmethod" -> Called(Definer(c, n), ToClassAndInstance(c, i))
               [] OTHER -> TypeError
  BY DEF construct
<1> HIDE DEF kind, definer, n
<1>8. construct(c, i) = IF kind = "none" THEN Done ELSE Python!CallOf(kind, definer, c, i)
  BY <1>4, <1>5, <1>6, <1>7
<1> QED BY <1>8 DEF kind, definer, n

LEMMA NewInstanceStep ==
  ASSUME IInv, RInv, Alike(world), NEW c \in ClassIds, NewInstance(c)
  PROVE  RInv' /\ PythonStep
<1> DEFINE inst == [type |-> c, attrs |-> NoValues, slotValues |-> NoValues]
           i == Len(instances) + 1
           order == classes[c].mro
           kind == Python!KindIn(order, "__init__")
           definer == Python!First(order, "__init__")
<1>1. /\ asked' = Asked("call", 0, c, "", 0) /\ "call" \in world.operations
      /\ answer' = construct(c, i)
      /\ instances' = IF answer' = TypeError THEN instances ELSE Append(instances, inst)
      /\ UNCHANGED <<world, classes, making>>
  BY DEF NewInstance, Ask, Asked
<1>2. answer' = IF kind = "none" THEN Done ELSE Python!CallOf(kind, definer, c, i)
  BY <1>1, SameConstruct
<1>3. inst \in Instance /\ KeptWell(inst)
  <2>1. NoValues \in Partial(Values) /\ DOMAIN NoValues = {}
    BY PartialValues DEF NoValues
  <2> QED BY <2>1 DEF Instance, KeptWell, ClassIds
<1>4. SeenAs(inst) = [type |-> c, values |-> NoValues]
  <2>1. ValuesOf(inst) = NoValues
    BY DEF ValuesOf, NoValues
  <2> QED BY <2>1 DEF SeenAs
<1>5. Len(Seen) = Len(instances)
  BY PythonInstances
<1> HIDE DEF inst, kind, definer
<1>6. RInv' /\ Seen' = IF answer' = TypeError THEN Seen ELSE Append(Seen, [type |-> c, values |-> NoValues])
  <2>1. CASE answer' = TypeError
    <3>1. RInv' /\ UNCHANGED <<world, classes, Seen>>
      BY <1>1, <2>1, AnsweredStep
    <3> QED BY <2>1, <3>1
  <2>2. CASE answer' # TypeError
    <3>1. instances \in Seq(Instance) /\ instances' = Append(instances, inst)
      BY <1>1, <2>2 DEF IInv, InstancesOK
    <3>2. Seen' = Append(Seen, SeenAs(inst))
      <4> HIDE DEF Instance
      <4> QED BY <1>3, <3>1, SeenAppends
    <3>3. KeptApart'
      <4>1. Len(instances) \in Nat /\ Len(instances') = Len(instances) + 1
            /\ \A j \in 1..Len(instances') : instances'[j] = IF j = Len(instances) + 1 THEN inst ELSE instances[j]
        <5> HIDE DEF Instance
        <5> QED BY <1>3, <3>1
      <4>2. \A j \in 1..Len(instances') : j = Len(instances) + 1 \/ j \in InstanceIds
        BY <4>1 DEF InstanceIds
      <4>3. \A j \in 1..Len(instances') : KeptWell(instances'[j])
        BY <1>3, <4>1, <4>2 DEF RInv, KeptApart
      <4> QED BY <1>1, <4>3 DEF KeptApart, KeptWell, hasSlots, InstanceIds
    <3>4. Begun' /\ FewBases'
      <4>1. \A bases : ToMerge(bases)' = ToMerge(bases)
        BY <1>1 DEF ToMerge
      <4> QED BY <1>1, <4>1 DEF RInv, Begun, Choosing, FewBases, ClassIds
    <3> QED BY <1>4, <2>2, <3>2, <3>3, <3>4 DEF RInv
  <2> QED BY <2>1, <2>2
<1>7. Python!Call(c)
  <2>1. answer' = IF kind = "none" THEN Done ELSE Python!CallOf(kind, definer, c, Len(Seen) + 1)
    BY <1>2, <1>5
  <2> QED BY <1>1, <1>6, <2>1, SameRequests, SameAnswers
          DEF Python!Call, Seen, SeenAs, ValuesOf, kind, definer
<1> QED BY <1>6, <1>7, PythonInstances DEF Python!Next, PythonStep

(* super finds, along a chain, what is behind a class in the order of the  *)
(* instance: the order of the base.                                        *)
LEMMA OrderBehind ==
  ASSUME ClassesKnown, Chains, NEW t \in ClassIds, NEW k \in 1..Len(classes[t].mro)
  PROVE  LET order == classes[t].mro
             c == order[k]
             behind == SubSeq(order, k + 1, Len(order))
         IN /\ c \in ClassIds
            /\ Bottom(c) => Len(behind) = 0
            /\ \A b : OnlyBase(c, b) => b \in ClassIds /\ behind = classes[b].mro
<1> DEFINE order == classes[t].mro
           c == order[k]
           behind == SubSeq(order, k + 1, Len(order))
<1>1. order \in Seq(1..t) /\ 1..t \subseteq ClassIds /\ Len(order) \in Nat \ {0}
  BY OrderOfClass
<1>2. c \in ClassIds
  <2>1. c \in 1..t
    BY <1>1, ElementsOf
  <2> QED BY <1>1, <2>1
<1>3. /\ Len(order) - k = Len(classes[c].mro) - 1
      /\ \A i \in 1..(Len(order) - k) : order[k + i] = classes[c].mro[i + 1]
  BY BehindInChain DEF BehindIt
<1>4. classes[c].mro \in Seq(1..c) /\ Len(classes[c].mro) \in Nat \ {0}
  BY <1>2, OrderOfClass
<1> HIDE DEF c
<1>5. /\ behind \in Seq(1..t) /\ Len(behind) = Len(order) - k
      /\ \A i \in 1..Len(behind) : behind[i] = order[k + i]
  <2> DEFINE list == order
             S == 1..t
  <2>1. list \in Seq(S) /\ Len(list) \in Nat /\ k \in 1..Len(list)
    BY <1>1
  <2> HIDE DEF list, S
  <2>2. SubSeq(list, k + 1, Len(list)) \in Seq(S) /\ Len(SubSeq(list, k + 1, Len(list))) = Len(list) - k
    BY <2>1
  <2>3. \A i \in 1..(Len(list) - k) : SubSeq(list, k + 1, Len(list))[i] = list[k + i]
    BY <2>1
  <2> QED BY <2>2, <2>3 DEF list, S
<1> HIDE DEF behind, order
<1>6. Bottom(c) => Len(behind) = 0
  <2> SUFFICES ASSUME Bottom(c) PROVE Len(behind) = 0
    OBVIOUS
  <2>1. Len(classes[c].mro) = 1
    BY <1>2, OrderOfBottom
  <2> QED BY <1>1, <1>3, <1>5, <2>1
<1>7. ASSUME NEW b, OnlyBase(c, b) PROVE b \in ClassIds /\ behind = classes[b].mro
  <2> DEFINE base == classes[b].mro
  <2>1. /\ b \in ClassIds /\ Len(classes[c].mro) = Len(base) + 1
        /\ \A i \in 1..Len(base) : classes[c].mro[i + 1] = base[i]
    BY <1>2, <1>7, OrderOfOnlyBase
  <2>2. base \in Seq(1..b) /\ Len(base) \in Nat
    BY <2>1, OrderOfClass
  <2> HIDE DEF base
  <2>3. Len(behind) = Len(base)
    BY <1>1, <1>3, <1>5, <2>1, <2>2
  <2>4. \A i \in 1..Len(base) : behind[i] = base[i]
    BY <1>3, <1>5, <2>1, <2>3
  <2>5. behind = base
    BY <1>5, <2>2, <2>3, <2>4
  <2> QED BY <2>1, <2>5 DEF base
<1> QED BY <1>2, <1>6, <1>7 DEF order, behind, c

LEMMA SameSuper ==
  ASSUME IInv, RInv, Alike(world), "super" \in world.operations,
         NEW i \in InstanceIds, NEW k \in 1..Len(classes[instances[i].type].mro), NEW n \in Names
  PROVE  LET t == instances[i].type
             order == classes[t].mro
         IN superAttr(order[k], i, n) = Python!OfInstance(SubSeq(order, k + 1, Len(order)), t, i, n)
<1> DEFINE t == instances[i].type
           order == classes[t].mro
           c == order[k]
           behind == SubSeq(order, k + 1, Len(order))
           bases == classes[c].bases
           having == {j \in 1..Len(bases) : hasAttr(bases[j], n)}
           kind == Python!KindIn(behind, n)
           definer == Python!First(behind, n)
           found == Python!OfInstance(behind, t, i, n)
<1>1. /\ world.slots \subseteq {<<>>} /\ world.max_bases <= 1
      /\ world.kinds[n] \subseteq {"function", "object", "none"}
  BY DEF Alike, SlotsAlike, OnlyKinds, Names
<1>2. t \in ClassIds
  BY PythonInstances
<1>3. Chains
  BY <1>1, FewBasesAreChains DEF IInv, RInv
<1>4. /\ c \in ClassIds
      /\ Bottom(c) => Len(behind) = 0
      /\ \A b : OnlyBase(c, b) => b \in ClassIds /\ behind = classes[b].mro
  BY <1>2, <1>3, OrderBehind DEF IInv
<1>5. superAttr(c, i, n) =
        LET base == bases[FirstOf(having)]
            attr == getAttr(base, n)
        IN IF having = {} THEN AttributeError
           ELSE IF attr.is = "function" \/ (attr.is = "itself" /\ getRawAttr(base, n) = "function")
                THEN Bound(attr.of, ToInstance(i)) ELSE attr
  BY Zenon DEF superAttr
<1>6. /\ kind = "none" => found = AttributeError
      /\ kind = "function" => found = Bound(definer, ToInstance(i))
      /\ kind = "object" => found = Itself(definer)
  BY OfInstanceByKind
<1>7. CASE Bottom(c)
  <2>1. Python!Found(behind, n) = {}
    <3>1. Len(behind) = 0
      BY <1>4, <1>7
    <3> HIDE DEF behind
    <3>2. 1..Len(behind) = {}
      BY <3>1
    <3> QED BY <3>2 DEF Python!Found
  <2>2. kind = "none"
    BY <2>1 DEF Python!KindIn
  <2>3. having = {}
    BY <1>7 DEF Bottom
  <2> HIDE DEF having, kind, found
  <2>4. superAttr(c, i, n) = AttributeError /\ found = AttributeError
    BY <1>5, <1>6, <2>2, <2>3
  <2> QED BY <2>4 DEF found
<1>8. CASE ~Bottom(c)
  <2> DEFINE b == bases[1]
  <2>1. OnlyBase(c, b)
    BY <1>3, <1>4, <1>8, BottomOrOnlyBase DEF IInv
  <2>2. b \in ClassIds /\ behind = classes[b].mro /\ 1..Len(bases) = {1}
    <3>1. Len(bases) = 1
      BY <2>1 DEF OnlyBase
    <3> HIDE DEF c, b, behind, bases
    <3> QED BY <1>4, <2>1, <3>1
  <2>3. /\ SameLookup(b, n)
        /\ ~hasAttr(b, n) => Python!KindIn(classes[b].mro, n) = "none"
    BY <1>1, <2>2, UnslottedLookup
  <2>4. /\ hasAttr(b, n) => kind = getRawAttr(b, n) /\ definer = Definer(b, n)
        /\ ~hasAttr(b, n) => kind = "none"
    BY <2>2, <2>3 DEF SameLookup
  <2>5. having = IF hasAttr(b, n) THEN {1} ELSE {}
    BY <2>2
  <2> HIDE DEF having, kind, definer, found
  <2>6. CASE ~hasAttr(b, n)
    <3>1. superAttr(c, i, n) = AttributeError /\ found = AttributeError
      BY <1>5, <1>6, <2>4, <2>5, <2>6
    <3> QED BY <3>1 DEF found
  <2>7. CASE hasAttr(b, n)
    <3>1. FirstOf(having) = 1
      <4>1. having \subseteq Nat /\ having # {}
        BY <2>5, <2>7
      <4>2. FirstOf(having) \in having
        BY <4>1, FirstIsLeast
      <4> QED BY <2>5, <2>7, <4>2
    <3>2. kind \in {"function", "object"}
      <4>1. getRawAttr(b, n) \in Kinds /\ getRawAttr(b, n) \in world.kinds[n]
        BY <2>2, <2>7, RawKind DEF IInv
      <4> QED BY <1>1, <2>4, <2>7, <4>1 DEF Kinds, Properties
    <3>3. getAttr(b, n) = Itself(definer)
      <4>1. getRawAttr(b, n) # "staticmethod" /\ getRawAttr(b, n) # "classmethod"
        BY <2>4, <2>7, <3>2
      <4> QED BY <2>4, <2>7, <4>1 DEF getAttr
    <3>4. Itself(definer).is = "itself" /\ Itself(definer).of = definer
      BY DEF Itself, Answer
    <3>5. superAttr(c, i, n) = IF getRawAttr(b, n) = "function"
                               THEN Bound(definer, ToInstance(i)) ELSE Itself(definer)
      BY <1>5, <2>5, <2>7, <3>1, <3>3, <3>4
    <3>6. superAttr(c, i, n) = found
      BY <1>6, <2>4, <2>7, <3>2, <3>5
    <3> QED BY <3>6 DEF found
  <2> QED BY <2>6, <2>7
<1> QED BY <1>7, <1>8

LEMMA GetSuperAttrStep ==
  ASSUME IInv, RInv, Alike(world), NEW i \in InstanceIds, NEW n \in Names, NEW c \in ClassIds,
         GetSuperAttr(c, i, n)
  PROVE  RInv' /\ PythonStep
<1> DEFINE t == instances[i].type
           order == classes[t].mro
<1>1. /\ asked' = Asked("super", i, c, n, 0) /\ "super" \in world.operations
      /\ isSubclass(t, c) /\ answer' = superAttr(c, i, n)
      /\ UNCHANGED <<world, classes, making, instances>>
  BY DEF GetSuperAttr, Ask, Asked, Alike
<1>2. RInv' /\ UNCHANGED <<world, classes, Seen>>
  BY <1>1, AnsweredStep
<1>3. Python!OrderOf(i) = order /\ t \in ClassIds /\ Seen[i].type = t
  BY PythonInstances
<1>4. PICK k \in 1..Len(order) : order[k] = c
  BY <1>1, <1>3, SubclassInOrder DEF RangeOf, IInv
<1>5. answer' = Python!OfInstance(SubSeq(order, k + 1, Len(order)), Seen[i].type, i, n)
  BY <1>1, <1>3, <1>4, SameSuper
<1> HIDE DEF t, order
<1>6. Python!GetBehind(c, i, n)
  BY <1>1, <1>2, <1>3, <1>4, <1>5, SameRequests DEF Python!GetBehind, Seen, SeenAs, ValuesOf
<1> QED BY <1>2, <1>6, PythonInstances DEF Python!Next, PythonStep

-----------------------------------------------------------------------------
(* The refinement *)

LEMMA InitRefined == Init => RInv /\ Python!Init
<1> SUFFICES ASSUME Init PROVE RInv /\ Python!Init
  OBVIOUS
<1>1. /\ world \in Worlds /\ classes = <<>> /\ making = <<>> /\ instances = <<>>
      /\ asked = Unasked /\ answer = Nothing
  BY DEF Init
<1>2. ClassIds = {} /\ InstanceIds = {}
  BY <1>1 DEF ClassIds, InstanceIds
<1>3. RInv
  BY <1>1, <1>2 DEF RInv, Begun, FewBases, KeptApart
<1>4. Seen = <<>>
  BY <1>2 DEF Seen
<1>5. Python!Init
  BY <1>1, <1>4, SameRequests, SameAnswers DEF Python!Init, Seen, SeenAs, ValuesOf
<1> QED BY <1>3, <1>5

LEMMA NextRefined ==
  ASSUME \A w \in Worlds : Alike(w)
  PROVE  IInv /\ RInv /\ [Next]_vars => RInv' /\ PythonStep
<1> SUFFICES ASSUME IInv, RInv, [Next]_vars PROVE RInv' /\ PythonStep
  OBVIOUS
<1>1. Alike(world)
  BY DEF IInv, ClassesKnown
<1>2. CASE UNCHANGED vars
  BY <1>2, AnswerKeepsRest, NothingSeen DEF vars
<1>3. CASE \E bases \in BaseLists(world, Len(classes)) : NewClass(bases)
  BY <1>3, NewClassStep
<1>4. CASE MakeClass
  BY <1>4, TakeHeadStep, RefuseClassStep, FinishClassStep DEF MakeClass
<1>5. CASE Operate
  <2>1. ASSUME NEW c \in ClassIds, NewInstance(c) PROVE RInv' /\ PythonStep
    BY <1>1, <2>1, NewInstanceStep
  <2>2. ASSUME NEW i \in InstanceIds, NEW n \in Names, GetAttr(i, n) PROVE RInv' /\ PythonStep
    BY <1>1, <2>2, GetAttrStep
  <2>3. ASSUME NEW i \in InstanceIds, NEW n \in Names, DelAttr(i, n) PROVE RInv' /\ PythonStep
    BY <1>1, <2>3, DelAttrStep
  <2>4. ASSUME NEW i \in InstanceIds, NEW n \in Names, Special(i, n) PROVE RInv' /\ PythonStep
    BY <1>1, <2>4, SpecialStep
  <2>5. ASSUME NEW i \in InstanceIds, NEW n \in Names, NEW v \in Values, SetAttr(i, n, v)
        PROVE  RInv' /\ PythonStep
    BY <1>1, <2>5, SetAttrStep
  <2>6. ASSUME NEW i \in InstanceIds, NEW n \in Names, NEW c \in ClassIds, GetSuperAttr(c, i, n)
        PROVE  RInv' /\ PythonStep
    BY <1>1, <2>6, GetSuperAttrStep
  <2>7. ASSUME NEW c \in ClassIds, NEW n \in Names, GetClassAttr(c, n) PROVE RInv' /\ PythonStep
    BY <1>1, <2>7, GetClassAttrStep
  <2>8. ASSUME NEW i \in InstanceIds, NEW c \in ClassIds, IsInstance(i, c) PROVE RInv' /\ PythonStep
    BY <1>1, <2>8, IsInstanceStep
  <2> QED BY <1>5, <2>1, <2>2, <2>3, <2>4, <2>5, <2>6, <2>7, <2>8, Zenon DEF Operate
<1> QED BY <1>2, <1>3, <1>4, <1>5 DEF Next

(* In all worlds in which the two can be compared, whatever the number of  *)
(* classes, bases, instances and names: a compiled program orders or       *)
(* refuses a class as Python does, and what it gets from a class, an       *)
(* instance or super, and what it changes, is what it is in Python         *)
(* ($Cls.computeMRO, $Inst.__getattr__, $Super.__getattr__).               *)
THEOREM ObjectsActAsPython ==
  ASSUME \A w \in Worlds : Alike(w)
  PROVE  Spec => ActsAsPython
<1>1. Init => IInv /\ RInv /\ Python!Init
  BY InitIInv, InitRefined
<1>2. IInv /\ RInv /\ [Next]_vars => IInv' /\ RInv' /\ [Python!Next]_Python!vars
  BY NextIInv, NextRefined DEF PythonStep
<1> QED BY <1>1, <1>2, PTL DEF Spec, ActsAsPython, Python!Spec
=============================================================================
