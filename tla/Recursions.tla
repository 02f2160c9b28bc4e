------------------------------ MODULE Recursions ------------------------------
(***************************************************************************)
(* Counting, recursive functions, and sequences that are parts of others   *)
(* or joins of others.  The induction theorems of the library take an      *)
(* operator, so induction is on a set of numbers here, and a recursion has *)
(* a function for its step.                                                *)
(***************************************************************************)
EXTENDS Integers, SequencesExt, SequenceTheorems, WellFoundedInduction, TLAPS

(* Induction up to n, on a set. *)
LEMMA CountUp ==
  ASSUME NEW n \in Nat, NEW S, 0 \in S,
         \A k \in 0..(n - 1) : k \in S => k + 1 \in S
  PROVE  \A k \in 0..n : k \in S
<1> DEFINE Bad == {k \in 0..n : k \notin S}
<1> SUFFICES ASSUME Bad # {} PROVE FALSE
  OBVIOUS
<1>1. PICK x \in Bad : \A y \in Bad : ~ (<<y, x>> \in OpToRel(<, Nat))
  <2>1. Bad \subseteq Nat
    OBVIOUS
  <2> QED BY <2>1, NatLessThanWellFounded, WFMin
<1>2. x \in 1..n
  OBVIOUS
<1>3. <<x - 1, x>> \in OpToRel(<, Nat)
  <2>1. x \in Nat /\ x - 1 \in Nat /\ x - 1 < x /\ <<x - 1, x>> \in Nat \X Nat
    BY <1>2
  <2> QED BY <2>1 DEF OpToRel
<1>4. x - 1 \in S
  <2>1. x - 1 \notin Bad
    BY <1>1, <1>3
  <2> QED BY <1>2, <2>1
<1>5. x \in S
  <2>1. x - 1 \in 0..(n - 1)
    BY <1>2
  <2>2. (x - 1) + 1 \in S
    BY <1>4, <2>1
  <2> QED BY <1>2, <2>2
<1> QED BY <1>5

(* What a recursive function computes is in V. *)
LEMMA AllOfType ==
  ASSUME NEW V, NEW n \in Nat, NEW g, g[0] \in V,
         \A k \in 1..n : g[k - 1] \in V => g[k] \in V
  PROVE  \A k \in 0..n : g[k] \in V
<1> DEFINE S == {k \in 0..n : g[k] \in V}
<1>1. 0 \in S
  OBVIOUS
<1>2. \A k \in 0..(n - 1) : k \in S => k + 1 \in S
  <2> TAKE k \in 0..(n - 1)
  <2> HAVE k \in S
  <2>1. k + 1 \in 1..n /\ (k + 1) - 1 = k
    OBVIOUS
  <2> QED BY <2>1
<1> HIDE DEF S
<1>3. \A k \in 0..n : k \in S
  BY <1>1, <1>2, CountUp
<1> QED BY <1>3 DEF S

(* A recursion over a counter: step is what one round does to the value of *)
(* the round before.                                                       *)
Solutions(V, base, n, step) ==
  {f \in [0..n -> V] : f[0] = base /\ \A k \in 1..n : f[k] = step[<<f[k - 1], k>>]}

(* It has a solution. *)
LEMMA Recursion ==
  ASSUME NEW V, NEW base \in V, NEW n \in Nat, NEW step \in [V \X (1..n) -> V]
  PROVE  Solutions(V, base, n, step) # {}
<1> DEFINE Solves(f, m) == f[0] = base /\ \A k \in 1..m : f[k] = step[<<f[k - 1], k>>]
           S == {m \in 0..n : \E f \in [0..m -> V] : Solves(f, m)}
<1>1. 0 \in S
  <2> DEFINE f == [k \in 0..0 |-> base]
  <2>1. f \in [0..0 -> V] /\ Solves(f, 0)
    OBVIOUS
  <2> HIDE DEF f, Solves
  <2> QED BY <2>1
<1>2. ASSUME NEW m \in 0..(n - 1), m \in S PROVE m + 1 \in S
  <2>1. PICK f \in [0..m -> V] : Solves(f, m)
    BY <1>2
  <2> DEFINE g == [k \in 0..(m + 1) |-> IF k <= m THEN f[k] ELSE step[<<f[m], m + 1>>]]
  <2>2. f[m] \in V /\ m + 1 \in 1..n /\ step[<<f[m], m + 1>>] \in V
    OBVIOUS
  <2>3. g \in [0..(m + 1) -> V]
    BY <2>2
  <2>4. g[0] = base
    BY <2>1
  <2>5. ASSUME NEW k \in 1..(m + 1) PROVE g[k] = step[<<g[k - 1], k>>]
    <3>1. CASE k <= m
      <4>1. k \in 1..m /\ k - 1 \in 0..m
        BY <3>1
      <4>2. g[k] = f[k] /\ g[k - 1] = f[k - 1]
        BY <4>1
      <4> HIDE DEF g
      <4> QED BY <2>1, <4>1, <4>2
    <3>2. CASE k = m + 1
      BY <3>2
    <3> QED BY <3>1, <3>2
  <2> HIDE DEF g
  <2>6. Solves(g, m + 1)
    BY <2>4, <2>5
  <2> HIDE DEF Solves
  <2> QED BY <2>3, <2>6
<1>3. \A m \in 0..n : m \in S
  <2> HIDE DEF S
  <2> QED BY <1>1, <1>2, CountUp
<1> QED BY <1>3 DEF Solutions

-----------------------------------------------------------------------------
(* The first sequences of a sequence of sequences, joined. *)
FlatTo(seqs, k) == FlattenSeq(SubSeq(seqs, 1, k))

LEMMA FlattenRecursion ==
  ASSUME NEW T, NEW seqs \in Seq(Seq(T)), NEW f \in [0..Len(seqs) -> Seq(T)],
         f[0] = <<>>, \A k \in 1..Len(seqs) : f[k] = f[k - 1] \o seqs[k]
  PROVE  FlattenSeq(seqs) = f[Len(seqs)]
<1> DEFINE n == Len(seqs)
           Rec(h) == [i \in 1..n |-> IF i = 1 THEN seqs[i] ELSE h[i - 1] \o seqs[i]]
           g == [i \in 1..n |-> f[i]]
           flat == CHOOSE h : h = Rec(h)
<1>1. n \in Nat /\ \A k \in 1..n : seqs[k] \in Seq(T)
  OBVIOUS
<1>2. CASE n = 0
  <2>1. seqs = <<>>
    BY <1>2
  <2> QED BY <1>2, <2>1 DEF FlattenSeq
<1>3. CASE n > 0
  <2>1. f[1] = seqs[1]
    <3>1. 1 \in 1..n /\ 1 - 1 = 0
      BY <1>1, <1>3
    <3>2. f[1] = <<>> \o seqs[1]
      BY <3>1
    <3> QED BY <1>1, <3>1, <3>2, ConcatEmptySeq
  <2>2. g = Rec(g)
    <3>1. \A i \in 1..n : g[i] = IF i = 1 THEN seqs[i] ELSE g[i - 1] \o seqs[i]
      <4> TAKE i \in 1..n
      <4>1. CASE i = 1
        BY <2>1, <4>1
      <4>2. CASE i # 1
        <5>1. i - 1 \in 1..n
          BY <1>1, <4>2
        <5> QED BY <4>2, <5>1
      <4> QED BY <4>1, <4>2
    <3> HIDE DEF g
    <3>2. g = [i \in 1..n |-> g[i]]
      BY DEF g
    <3> QED BY <3>1, <3>2
  <2>3. flat = Rec(flat)
    <3> HIDE DEF g, Rec
    <3> QED BY <2>2
  <2>4. FlattenSeq(seqs) = flat[n]
    BY <1>1, <1>3 DEF FlattenSeq
  <2> HIDE DEF flat
  <2> DEFINE S == {k \in 0..n : k > 0 => flat[k] = f[k]}
  <2>5. \A i \in 1..n : flat[i] = IF i = 1 THEN seqs[i] ELSE flat[i - 1] \o seqs[i]
    BY <2>3
  <2>6. 0 \in S /\ flat[1] = seqs[1]
    <3>1. 1 \in 1..n
      BY <1>1, <1>3
    <3>2. flat[1] = seqs[1]
      BY <2>5, <3>1
    <3> QED BY <1>1, <3>2
  <2>7. \A k \in 0..(n - 1) : k \in S => k + 1 \in S
    <3> TAKE k \in 0..(n - 1)
    <3> HAVE k \in S
    <3>1. k + 1 \in 1..n /\ (k + 1) - 1 = k /\ k \in Nat
      BY <1>1
    <3>2. CASE k = 0
      BY <2>1, <2>6, <3>1, <3>2
    <3>3. CASE k > 0
      <4>0. k + 1 # 1 /\ flat[k] = f[k]
        BY <3>3
      <4>1. flat[k + 1] = flat[(k + 1) - 1] \o seqs[k + 1]
        BY <2>5, <3>1, <4>0
      <4>2. f[k + 1] = f[k] \o seqs[k + 1]
        BY <3>1
      <4>3. flat[k + 1] = f[k + 1]
        BY <3>1, <4>0, <4>1, <4>2
      <4> QED BY <3>1, <4>3
    <3> QED BY <3>1, <3>2, <3>3
  <2> HIDE DEF S
  <2>8. \A k \in 0..n : k \in S
    BY <1>1, <2>6, <2>7, CountUp
  <2>9. n \in 0..n
    BY <1>1
  <2> QED BY <1>3, <2>4, <2>8, <2>9 DEF S
<1> QED BY <1>1, <1>2, <1>3

LEMMA FlatToRecursion ==
  ASSUME NEW T, NEW seqs \in Seq(Seq(T))
  PROVE  /\ \A k \in 0..Len(seqs) : FlatTo(seqs, k) \in Seq(T)
         /\ FlatTo(seqs, 0) = <<>>
         /\ \A k \in 1..Len(seqs) : FlatTo(seqs, k) = FlatTo(seqs, k - 1) \o seqs[k]
         /\ FlatTo(seqs, Len(seqs)) = FlattenSeq(seqs)
<1> DEFINE n == Len(seqs)
           join == [x \in Seq(T) \X (1..n) |-> x[1] \o seqs[x[2]]]
<1>1. n \in Nat /\ \A k \in 1..n : seqs[k] \in Seq(T)
  OBVIOUS
<1>2. join \in [Seq(T) \X (1..n) -> Seq(T)]
  BY <1>1
<1>3. PICK f \in [0..n -> Seq(T)] : f[0] = <<>> /\ \A k \in 1..n : f[k] = join[<<f[k - 1], k>>]
  <2>1. <<>> \in Seq(T)
    OBVIOUS
  <2> HIDE DEF join, n
  <2>2. Solutions(Seq(T), <<>>, n, join) # {}
    BY <1>1, <1>2, <2>1, Recursion
  <2> QED BY <2>2 DEF Solutions
<1>4. \A k \in 1..n : f[k] = f[k - 1] \o seqs[k]
  <2> TAKE k \in 1..n
  <2>1. k - 1 \in 0..n
    BY <1>1
  <2>2. <<f[k - 1], k>> \in Seq(T) \X (1..n)
    BY <2>1
  <2> QED BY <1>3, <2>2
<1> HIDE DEF join
<1>5. ASSUME NEW k \in 0..n PROVE FlatTo(seqs, k) = f[k]
  <2> DEFINE s == SubSeq(seqs, 1, k)
             g == [i \in 0..k |-> f[i]]
  <2>1. s \in Seq(Seq(T)) /\ Len(s) = k /\ \A i \in 1..k : s[i] = seqs[i]
    BY <1>1, SubSeqProperties
  <2>2. g \in [0..k -> Seq(T)] /\ g[0] = <<>>
    BY <1>1, <1>3
  <2>3. \A i \in 1..k : g[i] = g[i - 1] \o s[i]
    <3> TAKE i \in 1..k
    <3>1. i \in 1..n /\ i \in 0..k /\ i - 1 \in 0..k
      BY <1>1
    <3>2. f[i] = f[i - 1] \o seqs[i] /\ s[i] = seqs[i]
      BY <1>4, <2>1, <3>1
    <3>3. g[i] = f[i] /\ g[i - 1] = f[i - 1]
      BY <3>1
    <3> HIDE DEF g, s
    <3> QED BY <3>2, <3>3
  <2>4. g[k] = f[k]
    BY <1>1
  <2> HIDE DEF s, g
  <2>5. FlattenSeq(s) = g[k]
    BY <2>1, <2>2, <2>3, FlattenRecursion
  <2> QED BY <2>4, <2>5 DEF FlatTo, s
<1>6. FlattenSeq(seqs) = f[n]
  <2> HIDE DEF n
  <2> QED BY <1>3, <1>4, FlattenRecursion DEF n
<1>7. \A k \in 0..n : FlatTo(seqs, k) \in Seq(T)
  BY <1>5
<1>8. FlatTo(seqs, 0) = <<>> /\ FlatTo(seqs, n) = FlattenSeq(seqs)
  BY <1>1, <1>3, <1>5, <1>6
<1>9. \A k \in 1..n : FlatTo(seqs, k) = FlatTo(seqs, k - 1) \o seqs[k]
  <2> TAKE k \in 1..n
  <2>1. k \in 0..n /\ k - 1 \in 0..n
    BY <1>1
  <2> QED BY <1>4, <1>5, <2>1
<1> QED BY <1>7, <1>8, <1>9

(* Part of a sequence, behind its first n elements. *)
LiesBehind(whole, n, part) ==
  /\ n + Len(part) <= Len(whole)
  /\ \A i \in 1..Len(part) : whole[n + i] = part[i]

LEMMA PartsOfConcat ==
  ASSUME NEW T, NEW u \in Seq(T), NEW v \in Seq(T)
  PROVE  LiesBehind(u \o v, 0, u) /\ LiesBehind(u \o v, Len(u), v) /\ Len(u \o v) = Len(u) + Len(v)
<1> DEFINE w == u \o v
<1>1. Len(w) = Len(u) + Len(v) /\ Len(u) \in Nat /\ Len(v) \in Nat
      /\ \A i \in 1..Len(w) : w[i] = IF i <= Len(u) THEN u[i] ELSE v[i - Len(u)]
  BY ConcatProperties
<1> HIDE DEF w
<1>2. \A i \in 1..Len(u) : w[0 + i] = u[i]
  BY <1>1
<1>3. ASSUME NEW i \in 1..Len(v) PROVE w[Len(u) + i] = v[i]
  <2>1. Len(u) + i \in 1..Len(w) /\ ~(Len(u) + i <= Len(u)) /\ (Len(u) + i) - Len(u) = i
    BY <1>1
  <2> QED BY <1>1, <2>1
<1> QED BY <1>1, <1>2, <1>3 DEF LiesBehind, w

LEMMA PartOfPart ==
  ASSUME NEW w, NEW u, NEW v, NEW m \in Nat, NEW n \in Nat,
         Len(w) \in Nat, Len(u) \in Nat, Len(v) \in Nat,
         LiesBehind(w, m, u), LiesBehind(u, n, v)
  PROVE  LiesBehind(w, m + n, v)
<1>1. (m + n) + Len(v) <= Len(w)
  BY DEF LiesBehind
<1>2. ASSUME NEW i \in 1..Len(v) PROVE w[(m + n) + i] = v[i]
  <2>1. n + i \in 1..Len(u) /\ (m + n) + i = m + (n + i)
    BY DEF LiesBehind
  <2>2. w[m + (n + i)] = u[n + i] /\ u[n + i] = v[i]
    BY <2>1 DEF LiesBehind
  <2> QED BY <2>1, <2>2
<1> QED BY <1>1, <1>2 DEF LiesBehind

(* Where a sequence is in the join. *)
LEMMA FlattenedAt ==
  ASSUME NEW T, NEW seqs \in Seq(Seq(T))
  PROVE  /\ FlattenSeq(seqs) \in Seq(T)
         /\ \A k \in 0..Len(seqs) : Len(FlatTo(seqs, k)) \in Nat
         /\ Len(FlatTo(seqs, 0)) = 0
         /\ Len(FlatTo(seqs, Len(seqs))) = Len(FlattenSeq(seqs))
         /\ \A k \in 0..Len(seqs) : LiesBehind(FlattenSeq(seqs), 0, FlatTo(seqs, k))
         /\ \A k \in 1..Len(seqs) :
              /\ Len(FlatTo(seqs, k)) = Len(FlatTo(seqs, k - 1)) + Len(seqs[k])
              /\ LiesBehind(FlattenSeq(seqs), Len(FlatTo(seqs, k - 1)), seqs[k])
<1> DEFINE n == Len(seqs)
           f == [k \in 0..n |-> FlatTo(seqs, k)]
<1>1. n \in Nat /\ seqs \in [1..n -> Seq(T)] /\ \A k \in 1..n : Len(seqs[k]) \in Nat
  OBVIOUS
<1>2. \A k \in 0..n : FlatTo(seqs, k) \in Seq(T)
  BY FlatToRecursion
<1>3. FlatTo(seqs, 0) = <<>> /\ FlatTo(seqs, n) = FlattenSeq(seqs)
  BY FlatToRecursion
<1>4. \A k \in 1..n : FlatTo(seqs, k) = FlatTo(seqs, k - 1) \o seqs[k]
  BY FlatToRecursion
<1>5. f \in [0..n -> Seq(T)] /\ \A k \in 0..n : f[k] = FlatTo(seqs, k)
  BY <1>2
<1>6. 0 \in 0..n /\ n \in 0..n /\ \A k \in 1..n : k \in 0..n /\ k - 1 \in 0..n
  BY <1>1
<1> HIDE DEF f, n
<1>7. ASSUME NEW k \in 1..n
      PROVE  /\ LiesBehind(f[k], 0, f[k - 1]) /\ LiesBehind(f[k], Len(f[k - 1]), seqs[k])
             /\ Len(f[k]) = Len(f[k - 1]) + Len(seqs[k])
  <2>1. f[k - 1] \in Seq(T) /\ seqs[k] \in Seq(T) /\ f[k] = f[k - 1] \o seqs[k]
    BY <1>1, <1>4, <1>5, <1>6
  <2> QED BY <2>1, PartsOfConcat
<1>8. \A k \in 0..n : Len(f[k]) \in Nat
  BY <1>5
(* Each is the beginning of those behind it. *)
<1>9. ASSUME NEW k \in 0..n PROVE LiesBehind(f[n], 0, f[k])
  <2> DEFINE m == n - k
             S == {d \in 0..m : LiesBehind(f[k + d], 0, f[k])}
  <2>1. 0 \in S
    BY <1>1, <1>8 DEF LiesBehind
  <2>2. \A d \in 0..(m - 1) : d \in S => d + 1 \in S
    <3> SUFFICES ASSUME NEW d \in 0..(m - 1), LiesBehind(f[k + d], 0, f[k])
                 PROVE  d + 1 \in 0..m /\ LiesBehind(f[k + (d + 1)], 0, f[k])
      OBVIOUS
    <3> DEFINE x == k + d
               y == k + (d + 1)
    <3>1. x \in 0..n /\ y \in 1..n /\ y - 1 = x /\ d + 1 \in 0..m
      BY <1>1
    <3> HIDE DEF x, y, m
    <3>2. LiesBehind(f[y], 0, f[x])
      BY <1>7, <3>1
    <3>3. Len(f[y]) \in Nat /\ Len(f[x]) \in Nat /\ Len(f[k]) \in Nat
      BY <1>6, <1>8, <3>1
    <3>4. LiesBehind(f[x], 0, f[k])
      BY DEF x
    <3>5. LiesBehind(f[y], 0 + 0, f[k])
      BY <3>2, <3>3, <3>4, PartOfPart
    <3> QED BY <3>1, <3>5 DEF y
  <2>3. m \in Nat /\ m \in 0..m /\ k + m = n
    BY <1>1
  <2> HIDE DEF S, m
  <2>4. \A d \in 0..m : d \in S
    BY <2>1, <2>2, <2>3, CountUp
  <2> QED BY <2>3, <2>4 DEF S
<1>10. ASSUME NEW k \in 1..n
       PROVE  /\ Len(FlatTo(seqs, k)) = Len(FlatTo(seqs, k - 1)) + Len(seqs[k])
              /\ LiesBehind(FlattenSeq(seqs), Len(FlatTo(seqs, k - 1)), seqs[k])
  <2>1. FlatTo(seqs, k) = f[k] /\ FlatTo(seqs, k - 1) = f[k - 1] /\ FlattenSeq(seqs) = f[n]
    BY <1>3, <1>5, <1>6
  <2>2. /\ Len(f[n]) \in Nat /\ Len(f[k]) \in Nat /\ Len(f[k - 1]) \in Nat /\ Len(seqs[k]) \in Nat
        /\ 0 + Len(f[k - 1]) = Len(f[k - 1])
    BY <1>1, <1>6, <1>8
  <2>3. LiesBehind(f[n], 0, f[k]) /\ LiesBehind(f[k], Len(f[k - 1]), seqs[k])
    BY <1>6, <1>7, <1>9
  <2>4. LiesBehind(f[n], 0 + Len(f[k - 1]), seqs[k])
    BY <2>2, <2>3, PartOfPart
  <2> QED BY <1>7, <2>1, <2>2, <2>4
<1>11. FlattenSeq(seqs) \in Seq(T) /\ Len(FlatTo(seqs, 0)) = 0
  BY <1>2, <1>3, <1>6
<1>12. \A k \in 0..n : Len(FlatTo(seqs, k)) \in Nat
  BY <1>2
<1>13. Len(FlatTo(seqs, n)) = Len(FlattenSeq(seqs))
  BY <1>3
<1>14. \A k \in 0..n : LiesBehind(FlattenSeq(seqs), 0, FlatTo(seqs, k))
  <2> TAKE k \in 0..n
  <2>1. FlatTo(seqs, k) = f[k] /\ FlattenSeq(seqs) = f[n]
    BY <1>3, <1>5, <1>6
  <2> QED BY <1>9, <2>1
<1> QED BY <1>10, <1>11, <1>12, <1>13, <1>14, Zenon DEF n
=============================================================================
