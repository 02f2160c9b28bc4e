------------------------- MODULE StackMapAttrProofs -------------------------
(***************************************************************************)
(* Proofs about StackMapAttr, for every frame list: the buffer that the    *)
(* first pass measures is filled by the second, to the byte, and the JVM   *)
(* reads back the frames that were recorded.                               *)
(***************************************************************************)
EXTENDS StackMapAttr, Recursions

-----------------------------------------------------------------------------
(* Sums *)

(* Sums satisfies its recursion. *)
LEMMA SumsRecursion ==
  ASSUME NEW w \in Seq(Nat)
  PROVE  /\ Sums(w) \in [0..Len(w) -> Nat]
         /\ Sums(w)[0] = 0
         /\ \A k \in 1..Len(w) : Sums(w)[k] = Sums(w)[k - 1] + w[k]
<1> DEFINE n == Len(w)
           Rec(sum) == [k \in 0..n |-> IF k = 0 THEN 0 ELSE sum[k - 1] + w[k]]
           add == [x \in Nat \X (1..n) |-> x[1] + w[x[2]]]
<1>1. n \in Nat /\ \A k \in 1..n : w[k] \in Nat
  OBVIOUS
<1>2. add \in [Nat \X (1..n) -> Nat]
  BY <1>1
<1>3. PICK f \in [0..n -> Nat] :
        f[0] = 0 /\ \A k \in 1..n : f[k] = add[<<f[k - 1], k>>]
  <2> HIDE DEF add, n
  <2>1. 0 \in Nat
    OBVIOUS
  <2>2. Solutions(Nat, 0, n, add) # {}
    BY <1>1, <1>2, <2>1, Recursion
  <2> QED BY <2>2 DEF Solutions
<1>4. \A k \in 1..n : f[k] = f[k - 1] + w[k]
  <2> TAKE k \in 1..n
  <2>1. f[k - 1] \in Nat
    BY <1>1, SMTT(30)
  <2>2. add[<<f[k - 1], k>>] = f[k - 1] + w[k]
    BY <2>1
  <2> QED BY <1>3, <2>2
<1>5. f = Rec(f)
  BY <1>1, <1>3, <1>4
<1>6. Sums(w) = CHOOSE sum : sum = Rec(sum)
  BY DEF Sums
<1>7. Sums(w) = Rec(Sums(w))
  <2> HIDE DEF Rec
  <2> QED BY <1>5, <1>6
<1> DEFINE s == Sums(w)
<1> HIDE DEF s
<1>8. s[0] = 0 /\ \A k \in 1..n : s[k] = s[k - 1] + w[k]
  BY <1>1, <1>7, SMTT(30) DEF s
<1>9. \A k \in 0..n : s[k] \in Nat
  <2> DEFINE S == {j \in 0..n : s[j] \in Nat}
  <2>1. 0 \in S
    BY <1>1, <1>8
  <2>2. \A k \in 0..(n - 1) : k \in S => k + 1 \in S
    <3> TAKE k \in 0..(n - 1)
    <3> HAVE k \in S
    <3>1. k + 1 \in 1..n /\ (k + 1) - 1 = k /\ s[k] \in Nat
      BY <1>1
    <3>2. s[k + 1] = s[k] + w[k + 1]
      BY <1>8, <3>1
    <3> QED BY <1>1, <3>1, <3>2
  <2> HIDE DEF S
  <2>3. \A k \in 0..n : k \in S
    BY <1>1, <2>1, <2>2, CountUp
  <2> QED BY <2>3 DEF S
<1>10. s \in [0..n -> Nat]
  <2>1. s = [k \in 0..n |-> s[k]]
    BY <1>7 DEF s
  <2> QED BY <1>9, <2>1
<1> QED BY <1>8, <1>10 DEF s

(* The total of a concatenation. *)
LEMMA SumOfConcat ==
  ASSUME NEW u \in Seq(Nat), NEW v \in Seq(Nat)
  PROVE  SumOf(u \o v) = SumOf(u) + SumOf(v)
<1> DEFINE w == u \o v
           a == Sums(u)
           b == Sums(v)
           c == Sums(w)
<1>1. w \in Seq(Nat) /\ Len(w) = Len(u) + Len(v)
      /\ \A i \in 1..Len(w) : w[i] = IF i <= Len(u) THEN u[i] ELSE v[i - Len(u)]
  BY ConcatProperties
<1>2. Len(u) \in Nat /\ Len(v) \in Nat
  OBVIOUS
<1> HIDE DEF w
<1>3. /\ a[0] = 0 /\ \A k \in 1..Len(u) : a[k] = a[k - 1] + u[k]
      /\ b[0] = 0 /\ \A k \in 1..Len(v) : b[k] = b[k - 1] + v[k]
      /\ c[0] = 0 /\ \A k \in 1..Len(w) : c[k] = c[k - 1] + w[k]
      /\ \A k \in 0..Len(u) : a[k] \in Nat
      /\ \A k \in 0..Len(v) : b[k] \in Nat
  BY <1>1, SumsRecursion
<1> HIDE DEF a, b, c
<1>4. \A k \in 0..Len(u) : c[k] = a[k]
  <2> DEFINE S == {k \in 0..Len(u) : c[k] = a[k]}
  <2>1. 0 \in S
    BY <1>2, <1>3
  <2>2. \A k \in 0..(Len(u) - 1) : k \in S => k + 1 \in S
    <3> TAKE k \in 0..(Len(u) - 1)
    <3> HAVE k \in S
    <3>1. k + 1 \in 1..Len(u) /\ k + 1 \in 1..Len(w) /\ (k + 1) - 1 = k
      BY <1>1, <1>2
    <3>2. c[k + 1] = c[k] + w[k + 1] /\ a[k + 1] = a[k] + u[k + 1]
      BY <1>3, <3>1
    <3>3. w[k + 1] = u[k + 1]
      BY <1>1, <3>1
    <3> QED BY <1>2, <3>2, <3>3
  <2> HIDE DEF S
  <2>3. \A k \in 0..Len(u) : k \in S
    BY <1>2, <2>1, <2>2, CountUp
  <2> QED BY <2>3 DEF S
<1>5. \A k \in 0..Len(v) : c[Len(u) + k] = a[Len(u)] + b[k]
  <2> DEFINE S == {k \in 0..Len(v) : c[Len(u) + k] = a[Len(u)] + b[k]}
  <2>1. 0 \in S
    BY <1>2, <1>3, <1>4, SMTT(30)
  <2>2. \A k \in 0..(Len(v) - 1) : k \in S => k + 1 \in S
    <3> TAKE k \in 0..(Len(v) - 1)
    <3> HAVE k \in S
    <3>1. /\ k + 1 \in 1..Len(v) /\ Len(u) + k + 1 \in 1..Len(w)
          /\ (k + 1) - 1 = k /\ (Len(u) + k + 1) - 1 = Len(u) + k
          /\ Len(u) + (k + 1) = Len(u) + k + 1
      BY <1>1, <1>2
    <3>2. c[Len(u) + k + 1] = c[Len(u) + k] + w[Len(u) + k + 1] /\ b[k + 1] = b[k] + v[k + 1]
      BY <1>3, <3>1
    <3>3. w[Len(u) + k + 1] = v[k + 1]
      BY <1>1, <1>2, <3>1, SMTT(30)
    <3>4. c[Len(u) + k] = a[Len(u)] + b[k]
      OBVIOUS
    <3>5. a[Len(u)] \in Nat /\ b[k] \in Nat /\ v[k + 1] \in Nat
      BY <1>2, <1>3, <3>1, SMTT(30)
    <3>6. c[Len(u) + k + 1] = a[Len(u)] + b[k + 1]
      BY <3>2, <3>3, <3>4, <3>5
    <3> QED BY <1>2, <3>1, <3>6
  <2> HIDE DEF S
  <2>3. \A k \in 0..Len(v) : k \in S
    BY <1>2, <2>1, <2>2, CountUp
  <2> QED BY <2>3 DEF S
<1>6. c[Len(u) + Len(v)] = a[Len(u)] + b[Len(v)]
  BY <1>2, <1>5
<1> QED BY <1>1, <1>6 DEF SumOf, a, b, c, w

-----------------------------------------------------------------------------
(* Entries *)

(* EntriesUpTo satisfies its recursion, and its values are sequences. *)
LEMMA EntriesRecursion ==
  ASSUME NEW T, NEW s \in Seq(T), NEW from \in 0..Len(s)
  PROVE  LET e == EntriesUpTo(s, from)
         IN /\ \A k \in from..Len(s) : e[k] \in Seq(T)
            /\ e[from] = <<>>
            /\ \A k \in (from + 1)..Len(s) :
                 e[k] = IF ImplicitTop(s, k) THEN e[k - 1] ELSE Append(e[k - 1], s[k])
<1> DEFINE n == Len(s)
           m == n - from
           Rec(kept) == [k \in from..n |->
                           IF k = from THEN <<>>
                           ELSE IF ImplicitTop(s, k) THEN kept[k - 1]
                           ELSE Append(kept[k - 1], s[k])]
           add == [x \in Seq(T) \X (1..m) |->
                     IF ImplicitTop(s, from + x[2]) THEN x[1]
                     ELSE Append(x[1], s[from + x[2]])]
<1>1. n \in Nat /\ m \in Nat /\ from \in Nat /\ \A k \in 1..n : s[k] \in T
  OBVIOUS
<1>2. add \in [Seq(T) \X (1..m) -> Seq(T)]
  <2> SUFFICES ASSUME NEW q \in Seq(T), NEW k \in 1..m
               PROVE  Append(q, s[from + k]) \in Seq(T)
    OBVIOUS
  <2>1. s[from + k] \in T
    BY <1>1
  <2> QED BY <2>1
<1>3. PICK f \in [0..m -> Seq(T)] :
        f[0] = <<>> /\ \A k \in 1..m : f[k] = add[<<f[k - 1], k>>]
  <2>1. <<>> \in Seq(T)
    OBVIOUS
  <2> HIDE DEF add, m
  <2>2. Solutions(Seq(T), <<>>, m, add) # {}
    BY <1>1, <1>2, <2>1, Recursion
  <2> QED BY <2>2 DEF Solutions
<1> DEFINE g == [k \in from..n |-> f[k - from]]
<1>4. \A k \in (from + 1)..n :
        g[k] = IF ImplicitTop(s, k) THEN g[k - 1] ELSE Append(g[k - 1], s[k])
  <2> TAKE k \in (from + 1)..n
  <2>1. k - from \in 1..m /\ (k - from) - 1 \in 0..m /\ from + (k - from) = k
        /\ k \in from..n /\ k - 1 \in from..n /\ (k - 1) - from = (k - from) - 1
    BY <1>1
  <2>2. f[(k - from) - 1] \in Seq(T)
    BY <2>1
  <2>3. g[k] = f[k - from] /\ g[k - 1] = f[(k - from) - 1]
    BY <2>1
  <2>4. f[k - from] = add[<<f[(k - from) - 1], k - from>>]
    BY <1>3, <2>1
  <2>5. add[<<f[(k - from) - 1], k - from>>] =
          IF ImplicitTop(s, from + (k - from)) THEN f[(k - from) - 1]
          ELSE Append(f[(k - from) - 1], s[from + (k - from)])
    BY <2>1, <2>2
  <2> HIDE DEF g, add, m
  <2> QED BY <2>1, <2>3, <2>4, <2>5
<1>5. g[from] = <<>>
  BY <1>1, <1>3
<1>6. g = Rec(g)
  <2>1. g = [k \in from..n |-> g[k]]
    OBVIOUS
  <2>2. \A k \in from..n :
          g[k] = IF k = from THEN <<>> ELSE IF ImplicitTop(s, k) THEN g[k - 1]
                                      ELSE Append(g[k - 1], s[k])
    <3> TAKE k \in from..n
    <3>1. k = from \/ k \in (from + 1)..n
      BY <1>1
    <3> HIDE DEF g
    <3> QED BY <1>1, <1>4, <1>5, <3>1
  <2> HIDE DEF g
  <2> QED BY <2>1, <2>2
<1>7. EntriesUpTo(s, from) = CHOOSE kept : kept = Rec(kept)
  BY DEF EntriesUpTo
<1>8. EntriesUpTo(s, from) = Rec(EntriesUpTo(s, from))
  <2> HIDE DEF Rec, g
  <2> QED BY <1>6, <1>7
<1> DEFINE e == EntriesUpTo(s, from)
<1> HIDE DEF e
<1>9. e[from] = <<>> /\ \A k \in (from + 1)..n :
        e[k] = IF ImplicitTop(s, k) THEN e[k - 1] ELSE Append(e[k - 1], s[k])
  <2>1. e = Rec(e)
    BY <1>8 DEF e
  <2>2. \A k \in from..n :
          e[k] = IF k = from THEN <<>> ELSE IF ImplicitTop(s, k) THEN e[k - 1]
                                      ELSE Append(e[k - 1], s[k])
    BY <2>1
  <2>3. from \in from..n /\ \A k \in (from + 1)..n : k \in from..n /\ k # from
    BY <1>1
  <2> QED BY <2>2, <2>3
<1>10. \A k \in from..n : e[k] \in Seq(T)
  <2> DEFINE S == {j \in 0..m : e[from + j] \in Seq(T)}
  <2>1. 0 \in S
    <3>1. from + 0 = from /\ 0 \in 0..m /\ <<>> \in Seq(T)
      BY <1>1
    <3>2. e[from + 0] \in Seq(T)
      BY <1>9, <3>1
    <3> QED BY <3>1, <3>2
  <2>2. \A k \in 0..(m - 1) : k \in S => k + 1 \in S
    <3> TAKE k \in 0..(m - 1)
    <3> HAVE k \in S
    <3>1. from + k + 1 \in (from + 1)..n /\ (from + k + 1) - 1 = from + k /\ e[from + k] \in Seq(T)
          /\ from + (k + 1) = from + k + 1
      BY <1>1
    <3>2. e[from + k + 1] = IF ImplicitTop(s, from + k + 1) THEN e[from + k]
                            ELSE Append(e[from + k], s[from + k + 1])
      BY <1>9, <3>1
    <3>3. s[from + k + 1] \in T
      BY <1>1, <3>1
    <3>4. Append(e[from + k], s[from + k + 1]) \in Seq(T)
      BY <3>1, <3>3
    <3>5. e[from + k + 1] \in Seq(T)
      BY <3>1, <3>2, <3>4
    <3>6. k + 1 \in 0..m /\ e[from + (k + 1)] \in Seq(T)
      BY <1>1, <3>1, <3>5
    <3> QED BY <3>6
  <2> HIDE DEF S
  <2>3. \A j \in 0..m : j \in S
    BY <1>1, <2>1, <2>2, CountUp
  <2>4. \A j \in 0..m : e[from + j] \in Seq(T)
    BY <2>3 DEF S
  <2> TAKE k \in from..n
  <2>5. k - from \in 0..m /\ from + (k - from) = k
    BY <1>1
  <2> QED BY <2>4, <2>5
<1> QED BY <1>9, <1>10 DEF e

(* The entries of a sequence are a sequence of its elements. *)
LEMMA EntriesType ==
  ASSUME NEW T, NEW s \in Seq(T), NEW from \in 0..Len(s)
  PROVE  Entries(s, from) \in Seq(T)
<1>1. Len(s) \in from..Len(s)
  OBVIOUS
<1> QED BY <1>1, EntriesRecursion DEF Entries

(* The entries of two sequences that begin alike begin alike. *)
LEMMA EntriesOfPrefix ==
  ASSUME NEW T, NEW s \in Seq(T), NEW t \in Seq(T), Len(s) <= Len(t),
         \A k \in 1..Len(s) : s[k] = t[k]
  PROVE  Entries(s, 0) = EntriesUpTo(t, 0)[Len(s)]
<1> DEFINE a == EntriesUpTo(s, 0)
           b == EntriesUpTo(t, 0)
           S == {k \in 0..Len(s) : a[k] = b[k]}
<1>1. Len(s) \in Nat /\ Len(t) \in Nat /\ 0 \in 0..Len(s) /\ 0 \in 0..Len(t)
  OBVIOUS
<1>2. /\ a[0] = <<>> /\ b[0] = <<>>
      /\ \A k \in (0 + 1)..Len(s) :
           a[k] = IF ImplicitTop(s, k) THEN a[k - 1] ELSE Append(a[k - 1], s[k])
      /\ \A k \in (0 + 1)..Len(t) :
           b[k] = IF ImplicitTop(t, k) THEN b[k - 1] ELSE Append(b[k - 1], t[k])
  BY <1>1, EntriesRecursion
<1> HIDE DEF a, b
<1>3. 0 \in S
  BY <1>1, <1>2
<1>4. \A k \in 0..(Len(s) - 1) : k \in S => k + 1 \in S
  <2> TAKE k \in 0..(Len(s) - 1)
  <2> HAVE k \in S
  <2>1. k + 1 \in (0 + 1)..Len(s) /\ k + 1 \in (0 + 1)..Len(t) /\ (k + 1) - 1 = k
        /\ k + 1 \in 1..Len(s) /\ (k > 0 => k \in 1..Len(s))
    BY <1>1
  <2>2. ImplicitTop(s, k + 1) = ImplicitTop(t, k + 1)
    BY <2>1 DEF ImplicitTop
  <2>3. s[k + 1] = t[k + 1] /\ a[k] = b[k]
    BY <2>1
  <2>4. a[k + 1] = IF ImplicitTop(s, k + 1) THEN a[k] ELSE Append(a[k], s[k + 1])
    BY <1>2, <2>1
  <2>5. b[k + 1] = IF ImplicitTop(t, k + 1) THEN b[k] ELSE Append(b[k], t[k + 1])
    BY <1>2, <2>1
  <2>6. a[k + 1] = b[k + 1]
    BY <2>2, <2>3, <2>4, <2>5
  <2> QED BY <1>1, <2>1, <2>6
<1> HIDE DEF S
<1>5. \A k \in 0..Len(s) : k \in S
  BY <1>1, <1>3, <1>4, CountUp
<1>6. Len(s) \in S
  BY <1>1, <1>5
<1> QED BY <1>6 DEF S, a, b, Entries

Joined(u, v) == u \o v
Longer(u, x) == Append(u, x)

LEMMA AppendToConcat ==
  ASSUME NEW T, NEW u \in Seq(T), NEW v \in Seq(T), NEW x \in T
  PROVE  Longer(Joined(u, v), x) = Joined(u, Longer(v, x))
<1>1. u \o v \in Seq(T) /\ <<x>> \in Seq(T)
  BY ConcatProperties
<1>2. Append(u \o v, x) = (u \o v) \o <<x>>
  BY <1>1, AppendIsConcat
<1>3. Append(v, x) = v \o <<x>>
  BY AppendIsConcat
<1>4. (u \o v) \o <<x>> = u \o (v \o <<x>>)
  BY <1>1, ConcatAssociative
<1> QED BY <1>2, <1>3, <1>4 DEF Joined, Longer

(* The entries behind the first m slots follow those of the first m slots. *)
LEMMA EntriesSplit ==
  ASSUME NEW T, NEW s \in Seq(T), NEW m \in 0..Len(s)
  PROVE  Entries(s, 0) = EntriesUpTo(s, 0)[m] \o Entries(s, m)
<1> DEFINE a == EntriesUpTo(s, 0)
           b == EntriesUpTo(s, m)
           n == Len(s) - m
           S == {k \in 0..n : a[m + k] = a[m] \o b[m + k]}
<1>1. n \in Nat /\ m \in Nat /\ 0 \in 0..Len(s)
  OBVIOUS
<1>2. /\ b[m] = <<>>
      /\ \A k \in 0..Len(s) : a[k] \in Seq(T)
      /\ \A k \in m..Len(s) : b[k] \in Seq(T)
      /\ \A k \in (0 + 1)..Len(s) :
           a[k] = IF ImplicitTop(s, k) THEN a[k - 1] ELSE Append(a[k - 1], s[k])
      /\ \A k \in (m + 1)..Len(s) :
           b[k] = IF ImplicitTop(s, k) THEN b[k - 1] ELSE Append(b[k - 1], s[k])
  BY <1>1, EntriesRecursion
<1> HIDE DEF a, b
<1>3. 0 \in S
  <2>1. m + 0 = m /\ a[m] \in Seq(T)
    BY <1>1, <1>2
  <2>2. a[m] = a[m] \o b[m]
    BY <1>2, <2>1, ConcatEmptySeq
  <2>3. a[m + 0] = a[m] \o b[m + 0]
    BY <2>1, <2>2
  <2>4. 0 \in 0..n
    BY <1>1
  <2> QED BY <2>3, <2>4
<1>4. \A k \in 0..(n - 1) : k \in S => k + 1 \in S
  <2> TAKE k \in 0..(n - 1)
  <2> HAVE k \in S
  <2>0. a[m + k] = a[m] \o b[m + k]
    OBVIOUS
  <2> DEFINE j == m + k + 1
  <2>1. j \in (0 + 1)..Len(s) /\ j \in (m + 1)..Len(s) /\ j - 1 = m + k
        /\ m + k \in m..Len(s) /\ m + k \in 0..Len(s) /\ m + (k + 1) = j /\ j \in 1..Len(s)
    BY <1>1
  <2> HIDE DEF j
  <2>2. a[j] = IF ImplicitTop(s, j) THEN a[m + k] ELSE Append(a[m + k], s[j])
    BY <1>2, <2>1
  <2>3. b[j] = IF ImplicitTop(s, j) THEN b[m + k] ELSE Append(b[m + k], s[j])
    BY <1>2, <2>1
  <2>4. a[m] \in Seq(T) /\ b[m + k] \in Seq(T) /\ s[j] \in T
    BY <1>1, <1>2, <2>1
  <2>5. Append(a[m] \o b[m + k], s[j]) = a[m] \o Append(b[m + k], s[j])
    <3>1. Longer(Joined(a[m], b[m + k]), s[j]) = Joined(a[m], Longer(b[m + k], s[j]))
      BY <2>4, AppendToConcat
    <3> QED BY <3>1, Zenon DEF Joined, Longer
  <2>6. a[j] = a[m] \o b[j]
    BY <2>0, <2>2, <2>3, <2>5
  <2>7. a[m + (k + 1)] = a[m] \o b[m + (k + 1)]
    BY <2>1, <2>6
  <2>8. k + 1 \in 0..n
    BY <1>1
  <2> QED BY <2>7, <2>8
<1> HIDE DEF S
<1>5. \A k \in 0..n : k \in S
  BY <1>1, <1>3, <1>4, CountUp
<1>6. n \in S
  BY <1>1, <1>5
<1>7. a[m + n] = a[m] \o b[m + n]
  BY <1>6 DEF S
<1>8. m + n = Len(s)
  BY <1>1
<1> QED BY <1>7, <1>8 DEF a, b, Entries

-----------------------------------------------------------------------------
(* The form of a frame *)

Recordable == frames \in Seq(Frame) /\ frames # <<>> /\ Sorted(frames)

LEMMA ListIsRecordable ==
  ASSUME frames \in FrameLists PROVE Recordable
BY FrameListsAssumption DEF Recordable

(* Frames are sorted: a delta is never negative. *)
LEMMA DeltaType ==
  ASSUME Recordable, NEW i \in 1..Len(frames)
  PROVE  /\ offset_delta(i) \in Nat
         /\ frames[i] \in Frame
         /\ frames[i].offset \in Nat
         /\ frames[i].locals \in Seq(VType) /\ frames[i].stack \in Seq(VType)
         /\ i > 1 => i - 1 \in 1..Len(frames)
<1>1. Len(frames) \in Nat /\ \A k \in 1..Len(frames) : frames[k] \in Frame
  BY DEF Recordable
<1>2. \A k \in 1..Len(frames) : frames[k].offset \in Nat
  BY <1>1 DEF Frame
<1>3. i > 1 => i - 1 \in 1..Len(frames) /\ i - 1 < i
  BY <1>1
<1>4. i > 1 => frames[i - 1].offset < frames[i].offset
  BY <1>3 DEF Recordable, Sorted
<1>5. offset_delta(i) \in Nat
  BY <1>2, <1>3, <1>4 DEF offset_delta
<1> QED BY <1>1, <1>2, <1>3, <1>5 DEF Frame

(* The short forms for a frame with the locals of the one before it: the   *)
(* number in the first byte, what follows it and the size of both.         *)
SameForm(i) ==
  /\ frames_locals_equal(i) /\ frames[i].stack = <<>>
  /\ \/ /\ offset_delta(i) < 64 /\ frame_type(i) = offset_delta(i)
        /\ WriteFrame(i) = U1(frame_type(i)) \o <<>>
        /\ calculate_frame_size(i) = 1
     \/ /\ frame_type(i) = 251
        /\ WriteFrame(i) = U1(frame_type(i)) \o U2(offset_delta(i))
        /\ calculate_frame_size(i) = 3

OneItemForm(i) ==
  LET item == frames[i].stack[1]
  IN /\ frames_locals_equal(i) /\ Len(frames[i].stack) = 1
     /\ \/ /\ offset_delta(i) < 64 /\ frame_type(i) = 64 + offset_delta(i)
           /\ WriteFrame(i) = U1(frame_type(i)) \o write_verification_type(item)
           /\ calculate_frame_size(i) = 1 + vtype_size(item)
        \/ /\ frame_type(i) = 247
           /\ WriteFrame(i) = U1(frame_type(i)) \o (U2(offset_delta(i)) \o write_verification_type(item))
           /\ calculate_frame_size(i) = 3 + vtype_size(item)

(* Those that add or drop locals. *)
AppendForm(i) ==
  LET p == frames[i - 1].locals
      c == frames[i].locals
  IN /\ Appends(i)
     /\ frame_type(i) = 251 + count_actual_vtypes(c, Len(p))
     /\ WriteFrame(i) = U1(frame_type(i)) \o (U2(offset_delta(i)) \o WriteTypes(Entries(c, Len(p))))
     /\ calculate_frame_size(i) = 3 + calc_vtypes_size(c, Len(p))

ChopForm(i) ==
  /\ Chops(i)
  /\ frame_type(i) = 251 - count_actual_vtypes(frames[i - 1].locals, Len(frames[i].locals))
  /\ WriteFrame(i) = U1(frame_type(i)) \o U2(offset_delta(i))
  /\ calculate_frame_size(i) = 3

(* The full form. *)
FullForm(i) ==
  LET l == frames[i].locals
      s == frames[i].stack
  IN /\ frame_type(i) = 255
     /\ WriteFrame(i) =
          U1(frame_type(i)) \o
            (U2(offset_delta(i)) \o U2(count_actual_vtypes(l, 0)) \o WriteTypes(Entries(l, 0))
               \o U2(count_actual_vtypes(s, 0)) \o WriteTypes(Entries(s, 0)))
     /\ calculate_frame_size(i) = 7 + calc_vtypes_size(l, 0) + calc_vtypes_size(s, 0)

(* What the number in the first byte tells *)
Choice(t, same, item, longitem, delta, more, full) ==
  CASE t \in 0..63 -> same
    [] t \in 64..127 -> item
    [] t = 247 -> longitem
    [] t \in 248..251 -> delta
    [] t \in 252..254 -> more
    [] OTHER -> full

LEMMA OneChoice ==
  ASSUME NEW t \in Nat, NEW same, NEW item, NEW longitem, NEW delta, NEW more, NEW full
  PROVE  LET c == Choice(t, same, item, longitem, delta, more, full)
         IN /\ t \in 0..63 => c = same
            /\ t \in 64..127 => c = item
            /\ t = 247 => c = longitem
            /\ t \in 248..251 => c = delta
            /\ t \in 252..254 => c = more
            /\ t = 255 => c = full
BY DEF Choice

(* The size and the contents of a frame follow from the same choice. *)
LEMMA SizeByChoice ==
  ASSUME NEW i, frame_type(i) \in Nat
  PROVE  LET f == frames[i]
             t == frame_type(i)
             size == calculate_frame_size(i)
         IN /\ t \in 0..63 => size = 1
            /\ t \in 64..127 => size = 1 + vtype_size(f.stack[1])
            /\ t = 247 => size = 3 + vtype_size(f.stack[1])
            /\ t \in 248..251 => size = 3
            /\ t \in 252..254 => size = 3 + calc_vtypes_size(f.locals, Len(frames[i - 1].locals))
            /\ t = 255 => size = 7 + calc_vtypes_size(f.locals, 0) + calc_vtypes_size(f.stack, 0)
<1> DEFINE f == frames[i]
           byte == frame_type(i)
           c2 == 1 + vtype_size(f.stack[1])
           c3 == 3 + vtype_size(f.stack[1])
           c5 == 3 + calc_vtypes_size(f.locals, Len(frames[i - 1].locals))
           c6 == 7 + calc_vtypes_size(f.locals, 0) + calc_vtypes_size(f.stack, 0)
<1>1. calculate_frame_size(i) = Choice(byte, 1, c2, c3, 3, c5, c6)
  BY Zenon DEF calculate_frame_size, Choice
<1> HIDE DEF byte, c2, c3, c5, c6
<1>2. byte \in Nat
  BY DEF byte
<1>3. LET c == Choice(byte, 1, c2, c3, 3, c5, c6)
      IN /\ byte \in 0..63 => c = 1
         /\ byte \in 64..127 => c = c2
         /\ byte = 247 => c = c3
         /\ byte \in 248..251 => c = 3
         /\ byte \in 252..254 => c = c5
         /\ byte = 255 => c = c6
  BY <1>2, OneChoice
<1> DEFINE size == calculate_frame_size(i)
<1> HIDE DEF size
<1>4. /\ byte \in 0..63 => size = 1
      /\ byte \in 64..127 => size = c2
      /\ byte = 247 => size = c3
      /\ byte \in 248..251 => size = 3
      /\ byte \in 252..254 => size = c5
      /\ byte = 255 => size = c6
  BY <1>1, <1>3 DEF size
<1> QED BY <1>4, Zenon DEF size, byte, c2, c3, c5, c6

LEMMA FrameByChoice ==
  ASSUME NEW i, frame_type(i) \in Nat
  PROVE  LET f == frames[i]
             t == frame_type(i)
             delta == U2(offset_delta(i))
             bytes == WriteFrame(i)
         IN /\ t \in 0..63 => bytes = U1(t) \o <<>>
            /\ t \in 64..127 => bytes = U1(t) \o write_verification_type(f.stack[1])
            /\ t = 247 => bytes = U1(t) \o (delta \o write_verification_type(f.stack[1]))
            /\ t \in 248..251 => bytes = U1(t) \o delta
            /\ t \in 252..254 =>
                 bytes = U1(t) \o (delta \o WriteTypes(Entries(f.locals, Len(frames[i - 1].locals))))
            /\ t = 255 =>
                 bytes = U1(t) \o (delta \o U2(count_actual_vtypes(f.locals, 0))
                                         \o WriteTypes(Entries(f.locals, 0))
                                         \o U2(count_actual_vtypes(f.stack, 0))
                                         \o WriteTypes(Entries(f.stack, 0)))
<1> DEFINE f == frames[i]
           byte == frame_type(i)
           c2 == write_verification_type(f.stack[1])
           c4 == U2(offset_delta(i))
           c3 == c4 \o write_verification_type(f.stack[1])
           c5 == c4 \o WriteTypes(Entries(f.locals, Len(frames[i - 1].locals)))
           c6 == c4 \o U2(count_actual_vtypes(f.locals, 0)) \o WriteTypes(Entries(f.locals, 0))
                    \o U2(count_actual_vtypes(f.stack, 0)) \o WriteTypes(Entries(f.stack, 0))
<1>1. WriteFrame(i) = U1(byte) \o Choice(byte, <<>>, c2, c3, c4, c5, c6)
  BY Zenon DEF WriteFrame, Choice
<1> HIDE DEF byte, c2, c3, c4, c5, c6
<1>2. byte \in Nat
  BY DEF byte
<1> DEFINE bytes == WriteFrame(i)
           c == Choice(byte, <<>>, c2, c3, c4, c5, c6)
<1>3. /\ byte \in 0..63 => c = <<>>
      /\ byte \in 64..127 => c = c2
      /\ byte = 247 => c = c3
      /\ byte \in 248..251 => c = c4
      /\ byte \in 252..254 => c = c5
      /\ byte = 255 => c = c6
  BY <1>2, OneChoice
<1>4. bytes = Joined(U1(byte), c)
  BY <1>1 DEF Joined
<1> HIDE DEF bytes, c
<1>5. byte \in 0..63 => bytes = Joined(U1(byte), <<>>)
  BY <1>3, <1>4
<1>6. byte \in 64..127 => bytes = Joined(U1(byte), c2)
  BY <1>3, <1>4
<1>7. byte = 247 => bytes = Joined(U1(byte), c3)
  BY <1>3, <1>4
<1>8. byte \in 248..251 => bytes = Joined(U1(byte), c4)
  BY <1>3, <1>4
<1>9. byte \in 252..254 => bytes = Joined(U1(byte), c5)
  BY <1>3, <1>4
<1>10. byte = 255 => bytes = Joined(U1(byte), c6)
  BY <1>3, <1>4
<1> QED BY <1>5, <1>6, <1>7, <1>8, <1>9, <1>10, Zenon DEF Joined, bytes, byte, c2, c3, c4, c5, c6

LEMMA Forms ==
  ASSUME Recordable, NEW i \in 1..Len(frames)
  PROVE  SameForm(i) \/ OneItemForm(i) \/ AppendForm(i) \/ ChopForm(i) \/ FullForm(i)
<1> DEFINE t == frame_type(i)
           d == offset_delta(i)
           same == frames_locals_equal(i)
<1>1. d \in Nat /\ Len(frames[i].stack) \in Nat
  BY DeltaType
<1>2. CASE same /\ frames[i].stack = <<>>
  <2>1. t = IF d < 64 THEN d ELSE 251
    BY <1>2 DEF frame_type
  <2>2. CASE d < 64
    <3>1. t = d /\ t \in 0..63 /\ t \in Nat
      <4> HIDE DEF t, d
      <4> QED BY <1>1, <2>1, <2>2
    <3>2. calculate_frame_size(i) = 1
      BY <3>1, SizeByChoice
    <3>3. WriteFrame(i) = U1(frame_type(i)) \o <<>>
      BY <3>1, FrameByChoice, Zenon
    <3> QED BY <1>2, <2>2, <3>1, <3>2, <3>3 DEF SameForm
  <2>3. CASE ~(d < 64)
    <3>1. t = 251 /\ t \in Nat /\ t \in 248..251
      BY <2>1, <2>3
    <3>2. calculate_frame_size(i) = 3
      BY <3>1, SizeByChoice
    <3>3. WriteFrame(i) = U1(frame_type(i)) \o U2(offset_delta(i))
      BY <3>1, FrameByChoice, Zenon
    <3> QED BY <1>2, <3>1, <3>2, <3>3 DEF SameForm
  <2> QED BY <2>2, <2>3
<1>3. CASE same /\ Len(frames[i].stack) = 1
  <2>1. frames[i].stack # <<>>
    <3> DEFINE stack == frames[i].stack
    <3>1. Len(<<>>) = 0 /\ Len(stack) = 1
      BY <1>3
    <3> HIDE DEF stack
    <3>2. stack # <<>>
      BY <3>1
    <3> QED BY <3>2 DEF stack
  <2>2. t = IF d < 64 THEN 64 + d ELSE 247
    BY <1>3, <2>1 DEF frame_type
  <2>3. CASE d < 64
    <3>1. t = 64 + d /\ t \in 64..127 /\ t \in Nat
      <4> HIDE DEF t, d
      <4> QED BY <1>1, <2>2, <2>3
    <3>2. calculate_frame_size(i) = 1 + vtype_size(frames[i].stack[1])
      BY <3>1, SizeByChoice
    <3>3. WriteFrame(i) = U1(frame_type(i)) \o write_verification_type(frames[i].stack[1])
      BY <3>1, FrameByChoice, Zenon
    <3> QED BY <1>3, <2>3, <3>1, <3>2, <3>3 DEF OneItemForm
  <2>4. CASE ~(d < 64)
    <3>1. t = 247 /\ t \in Nat
      BY <2>2, <2>4
    <3>2. calculate_frame_size(i) = 3 + vtype_size(frames[i].stack[1])
      BY <3>1, SizeByChoice
    <3>3. WriteFrame(i) = U1(frame_type(i)) \o
                            (U2(offset_delta(i)) \o write_verification_type(frames[i].stack[1]))
      BY <3>1, FrameByChoice, Zenon
    <3> QED BY <1>3, <3>1, <3>2, <3>3 DEF OneItemForm
  <2> QED BY <2>3, <2>4
<1>4. CASE ~same /\ Appends(i)
  <2> DEFINE n == count_actual_vtypes(frames[i].locals, Len(frames[i - 1].locals))
  <2>1. n \in 1..3
    BY <1>4 DEF Appends
  <2>2. t = 251 + n
    <3>1. ~(same /\ frames[i].stack = <<>>) /\ ~(same /\ Len(frames[i].stack) = 1)
      BY <1>4
    <3>2. Appends(i) => ~Chops(i)
      BY DeltaType DEF Appends, Chops
    <3> HIDE DEF same
    <3> QED BY <1>4, <3>1, <3>2 DEF frame_type, same
  <2>3. t \in 252..254 /\ t \in Nat
    <3> HIDE DEF n, t
    <3> QED BY <2>1, <2>2
  <2>4. calculate_frame_size(i) = 3 + calc_vtypes_size(frames[i].locals, Len(frames[i - 1].locals))
    BY <2>3, SizeByChoice
  <2>5. WriteFrame(i) =
          U1(frame_type(i)) \o
            (U2(offset_delta(i)) \o WriteTypes(Entries(frames[i].locals, Len(frames[i - 1].locals))))
    BY <2>3, FrameByChoice, Zenon
  <2> QED BY <1>4, <2>2, <2>4, <2>5 DEF AppendForm
<1>5. CASE ~same /\ Chops(i)
  <2> DEFINE n == count_actual_vtypes(frames[i - 1].locals, Len(frames[i].locals))
  <2>1. n \in 1..3
    BY <1>5 DEF Chops
  <2>2. t = 251 - n
    <3>1. ~(same /\ frames[i].stack = <<>>) /\ ~(same /\ Len(frames[i].stack) = 1)
      BY <1>5
    <3>2. Chops(i) => ~Appends(i)
      BY DeltaType DEF Appends, Chops
    <3> HIDE DEF same
    <3> QED BY <1>5, <3>1, <3>2 DEF frame_type, same
  <2>3. t \in 248..251 /\ t \in Nat
    <3> HIDE DEF n, t
    <3> QED BY <2>1, <2>2
  <2>4. calculate_frame_size(i) = 3
    BY <2>3, SizeByChoice
  <2>5. WriteFrame(i) = U1(frame_type(i)) \o U2(offset_delta(i))
    BY <2>3, FrameByChoice, Zenon
  <2> QED BY <1>5, <2>2, <2>4, <2>5 DEF ChopForm
<1>6. CASE ~(same /\ frames[i].stack = <<>>) /\ ~(same /\ Len(frames[i].stack) = 1)
           /\ ~(~same /\ Appends(i)) /\ ~(~same /\ Chops(i))
  <2>1. t = 255 /\ t \in Nat
    BY <1>6 DEF frame_type
  <2>2. calculate_frame_size(i) = 7 + calc_vtypes_size(frames[i].locals, 0)
                                    + calc_vtypes_size(frames[i].stack, 0)
    BY <2>1, SizeByChoice
  <2>3. WriteFrame(i) =
          U1(frame_type(i)) \o
            (U2(offset_delta(i)) \o U2(count_actual_vtypes(frames[i].locals, 0))
               \o WriteTypes(Entries(frames[i].locals, 0))
               \o U2(count_actual_vtypes(frames[i].stack, 0))
               \o WriteTypes(Entries(frames[i].stack, 0)))
    BY <2>1, FrameByChoice, Zenon
  <2> QED BY <2>1, <2>2, <2>3 DEF FullForm
<1> QED BY <1>2, <1>3, <1>4, <1>5, <1>6

-----------------------------------------------------------------------------
(* The bytes of a sequence of fields *)

Field == [width : {1, 2, 3}, value : Nat \cup VType]

Bytes(fields) == SumOf(Widths(fields))

LEMMA WidthsType ==
  ASSUME NEW u \in Seq(Field)
  PROVE  /\ Widths(u) \in Seq(Nat)
         /\ Len(Widths(u)) = Len(u)
         /\ \A k \in 1..Len(u) : Widths(u)[k] = u[k].width
<1>1. Len(u) \in Nat /\ \A k \in 1..Len(u) : u[k] \in Field
  OBVIOUS
<1>2. \A k \in 1..Len(u) : u[k].width \in Nat
  BY <1>1 DEF Field
<1>3. Widths(u) \in [1..Len(u) -> Nat]
  BY <1>2 DEF Widths
<1>4. Widths(u) \in Seq(Nat)
  BY <1>1, <1>3
<1> QED BY <1>1, <1>3, <1>4 DEF Widths

LEMMA BytesType ==
  ASSUME NEW u \in Seq(Field)
  PROVE  Bytes(u) \in Nat
<1>1. Widths(u) \in Seq(Nat) /\ Len(Widths(u)) \in Nat
  BY WidthsType
<1>2. Sums(Widths(u)) \in [0..Len(Widths(u)) -> Nat]
  BY <1>1, SumsRecursion
<1> QED BY <1>1, <1>2 DEF Bytes, SumOf

(* Fields written after others add their bytes. *)
LEMMA BytesOfConcat ==
  ASSUME NEW u \in Seq(Field), NEW v \in Seq(Field)
  PROVE  u \o v \in Seq(Field) /\ Bytes(u \o v) = Bytes(u) + Bytes(v)
<1> DEFINE w == u \o v
<1>1. /\ w \in Seq(Field) /\ Len(w) = Len(u) + Len(v)
      /\ \A k \in 1..Len(u) + Len(v) : w[k] = IF k <= Len(u) THEN u[k] ELSE v[k - Len(u)]
  BY ConcatProperties
<1> HIDE DEF w
<1>2. Len(u) \in Nat /\ Len(v) \in Nat
  OBVIOUS
<1> DEFINE a == Widths(u)
           b == Widths(v)
           c == Widths(w)
<1>3. /\ a \in Seq(Nat) /\ Len(a) = Len(u) /\ \A k \in 1..Len(u) : a[k] = u[k].width
      /\ b \in Seq(Nat) /\ Len(b) = Len(v) /\ \A k \in 1..Len(v) : b[k] = v[k].width
      /\ c \in Seq(Nat) /\ Len(c) = Len(w) /\ \A k \in 1..Len(w) : c[k] = w[k].width
  BY <1>1, WidthsType
<1> HIDE DEF a, b, c
<1> DEFINE d == a \o b
<1>4. /\ d \in Seq(Nat) /\ Len(d) = Len(a) + Len(b)
      /\ \A k \in 1..Len(a) + Len(b) : d[k] = IF k <= Len(a) THEN a[k] ELSE b[k - Len(a)]
  <2>1. a \in Seq(Nat) /\ b \in Seq(Nat)
    BY <1>3
  <2> QED BY <2>1, ConcatProperties
<1> HIDE DEF d
<1>5. \A k \in 1..Len(c) : c[k] = d[k]
  <2> TAKE k \in 1..Len(c)
  <2>1. c[k] = w[k].width /\ k \in 1..Len(u) + Len(v)
    BY <1>1, <1>3
  <2>2. CASE k <= Len(u)
    <3>1. k \in 1..Len(u)
      BY <1>2, <2>1, <2>2
    <3> QED BY <1>1, <1>3, <1>4, <2>1, <2>2, <3>1
  <2>3. CASE ~(k <= Len(u))
    <3>1. k - Len(u) \in 1..Len(v)
      BY <1>2, <2>1, <2>3
    <3> QED BY <1>1, <1>3, <1>4, <2>1, <2>3, <3>1
  <2> QED BY <2>2, <2>3
<1>6. Len(c) = Len(d)
  BY <1>1, <1>3, <1>4
<1>7. c = d
  BY <1>3, <1>4, <1>5, <1>6, SeqEqual
<1>8. SumOf(d) = SumOf(a) + SumOf(b)
  BY <1>3, SumOfConcat DEF d
<1>9. Bytes(w) = Bytes(u) + Bytes(v)
  BY <1>7, <1>8 DEF Bytes, a, b, c
<1> QED BY <1>1, <1>9 DEF w

(* A single field. *)
LEMMA BytesOfOne ==
  ASSUME NEW f \in Field
  PROVE  <<f>> \in Seq(Field) /\ Bytes(<<f>>) = f.width
<1> DEFINE u == <<f>>
<1>1. u \in Seq(Field) /\ Len(u) = 1 /\ u[1] = f
  OBVIOUS
<1> HIDE DEF u
<1> DEFINE w == Widths(u)
<1>2. w \in Seq(Nat) /\ Len(w) = 1 /\ w[1] = f.width
  BY <1>1, WidthsType
<1> HIDE DEF w
<1>3. Sums(w)[0] = 0 /\ Sums(w)[1] = Sums(w)[1 - 1] + w[1] /\ w[1] \in Nat
  BY <1>2, SumsRecursion
<1>4. SumOf(w) = f.width
  BY <1>2, <1>3 DEF SumOf
<1> QED BY <1>1, <1>4 DEF Bytes, w, u

LEMMA BytesOfNone == <<>> \in Seq(Field) /\ Bytes(<<>>) = 0
<1>1. <<>> \in Seq(Field)
  OBVIOUS
<1> DEFINE w == Widths(<<>>)
<1>2. w \in Seq(Nat) /\ Len(w) = 0
  BY <1>1, WidthsType
<1> HIDE DEF w
<1>3. SumOf(w) = 0
  BY <1>2, SumsRecursion DEF SumOf
<1> QED BY <1>1, <1>3 DEF Bytes, w

(* The fields of one and of two bytes, and a type. *)
LEMMA BytesOfNumber ==
  ASSUME NEW n \in Nat
  PROVE  /\ U1(n) \in Seq(Field) /\ Bytes(U1(n)) = 1 /\ Len(U1(n)) = 1
         /\ U2(n) \in Seq(Field) /\ Bytes(U2(n)) = 2 /\ Len(U2(n)) = 1
<1>1. [width |-> 1, value |-> n] \in Field /\ [width |-> 1, value |-> n].width = 1
  BY DEF Field
<1>2. [width |-> 2, value |-> n % 65536] \in Field /\ [width |-> 2, value |-> n % 65536].width = 2
  BY DEF Field
<1>3. U1(n) \in Seq(Field) /\ Bytes(U1(n)) = 1
  BY <1>1, BytesOfOne DEF U1
<1>4. U2(n) \in Seq(Field) /\ Bytes(U2(n)) = 2
  BY <1>2, BytesOfOne DEF U2
<1> QED BY <1>3, <1>4 DEF U1, U2

LEMMA BytesOfType ==
  ASSUME NEW t \in VType
  PROVE  /\ write_verification_type(t) \in Seq(Field)
         /\ Bytes(write_verification_type(t)) = vtype_size(t)
         /\ write_verification_type(t)[1] \in Field
         /\ write_verification_type(t)[1].width = vtype_size(t)
         /\ write_verification_type(t)[1].value = t
<1> DEFINE f == [width |-> vtype_size(t), value |-> t]
<1>1. f \in Field /\ f.width = vtype_size(t) /\ f.value = t
  BY DEF Field, vtype_size
<1>2. write_verification_type(t) = <<f>> /\ <<f>>[1] = f
  BY DEF write_verification_type
<1> HIDE DEF f
<1>3. <<f>> \in Seq(Field) /\ Bytes(<<f>>) = f.width
  BY <1>1, BytesOfOne
<1> QED BY <1>1, <1>2, <1>3

(* A list of types is written with the size that calc_vtypes_size adds up. *)
LEMMA BytesOfTypes ==
  ASSUME NEW ts \in Seq(VType)
  PROVE  /\ WriteTypes(ts) \in Seq(Field)
         /\ Len(WriteTypes(ts)) = Len(ts)
         /\ \A k \in 1..Len(ts) : WriteTypes(ts)[k].value = ts[k]
         /\ Bytes(WriteTypes(ts)) = SumOf(TypeSizes(ts))
<1> DEFINE w == WriteTypes(ts)
<1>1. Len(ts) \in Nat /\ \A k \in 1..Len(ts) : ts[k] \in VType
  OBVIOUS
<1>2. \A k \in 1..Len(ts) : /\ write_verification_type(ts[k])[1] \in Field
                            /\ write_verification_type(ts[k])[1].width = vtype_size(ts[k])
                            /\ write_verification_type(ts[k])[1].value = ts[k]
  BY <1>1, BytesOfType
<1>3. w \in [1..Len(ts) -> Field] /\ \A k \in 1..Len(ts) : w[k] = write_verification_type(ts[k])[1]
  BY <1>2 DEF WriteTypes
<1>4. w \in Seq(Field) /\ Len(w) = Len(ts)
  BY <1>1, <1>3
<1>5. Widths(w) = TypeSizes(ts)
  BY <1>2, <1>3, <1>4 DEF Widths, TypeSizes
<1> QED BY <1>2, <1>3, <1>4, <1>5 DEF Bytes

(* Every frame is written in as many bytes as the first pass counts. *)
LEMMA FrameBytes ==
  ASSUME Recordable, NEW i \in 1..Len(frames)
  PROVE  /\ WriteFrame(i) \in Seq(Field)
         /\ calculate_frame_size(i) \in Nat
         /\ Bytes(WriteFrame(i)) = calculate_frame_size(i)
<1> DEFINE head == U1(frame_type(i))
           delta == U2(offset_delta(i))
           l == frames[i].locals
           s == frames[i].stack
<1>1. l \in Seq(VType) /\ s \in Seq(VType) /\ offset_delta(i) \in Nat
      /\ Len(l) \in Nat /\ Len(s) \in Nat
  BY DeltaType
<1>2. delta \in Seq(Field) /\ Bytes(delta) = 2
  BY <1>1, BytesOfNumber
<1>3. ASSUME frame_type(i) \in Nat, NEW tail \in Seq(Field), WriteFrame(i) = head \o tail,
             calculate_frame_size(i) = 1 + Bytes(tail)
      PROVE  /\ WriteFrame(i) \in Seq(Field)
             /\ calculate_frame_size(i) \in Nat
             /\ Bytes(WriteFrame(i)) = calculate_frame_size(i)
  <2>1. head \in Seq(Field) /\ Bytes(head) = 1 /\ Bytes(tail) \in Nat
    BY <1>3, BytesOfNumber, BytesType
  <2> HIDE DEF head
  <2>2. head \o tail \in Seq(Field) /\ Bytes(head \o tail) = Bytes(head) + Bytes(tail)
    BY <2>1, BytesOfConcat
  <2> QED BY <1>3, <2>1, <2>2
<1>4. ASSUME NEW t \in VType
      PROVE  /\ write_verification_type(t) \in Seq(Field)
             /\ vtype_size(t) \in Nat
             /\ Bytes(write_verification_type(t)) = vtype_size(t)
             /\ delta \o write_verification_type(t) \in Seq(Field)
             /\ Bytes(delta \o write_verification_type(t)) = 2 + vtype_size(t)
  <2> DEFINE w == write_verification_type(t)
  <2>1. w \in Seq(Field) /\ Bytes(w) = vtype_size(t) /\ vtype_size(t) \in Nat
    BY BytesOfType DEF vtype_size
  <2> HIDE DEF delta, w
  <2>2. delta \o w \in Seq(Field) /\ Bytes(delta \o w) = Bytes(delta) + Bytes(w)
    BY <1>2, <2>1, BytesOfConcat
  <2>3. Bytes(delta \o w) = 2 + vtype_size(t)
    BY <1>2, <2>1, <2>2
  <2> QED BY <2>1, <2>2, <2>3 DEF w
<1>5. CASE SameForm(i)
  <2>1. CASE offset_delta(i) < 64 /\ frame_type(i) = offset_delta(i)
             /\ WriteFrame(i) = head \o <<>> /\ calculate_frame_size(i) = 1
    <3>1. <<>> \in Seq(Field) /\ 1 = 1 + Bytes(<<>>)
      BY BytesOfNone
    <3> HIDE DEF head, delta
    <3> QED BY <1>1, <1>3, <2>1, <3>1
  <2>2. CASE frame_type(i) = 251 /\ WriteFrame(i) = head \o delta /\ calculate_frame_size(i) = 3
    <3> HIDE DEF head, delta
    <3> QED BY <1>2, <1>3, <2>2
  <2> QED BY <1>5, <2>1, <2>2 DEF SameForm
<1>6. CASE OneItemForm(i)
  <2> DEFINE item == s[1]
             w == write_verification_type(item)
  <2>1. item \in VType
    BY <1>1, <1>6 DEF OneItemForm
  <2>2. /\ w \in Seq(Field) /\ vtype_size(item) \in Nat /\ Bytes(w) = vtype_size(item)
        /\ delta \o w \in Seq(Field) /\ Bytes(delta \o w) = 2 + vtype_size(item)
    BY <1>4, <2>1
  <2>3. CASE offset_delta(i) < 64 /\ frame_type(i) = 64 + offset_delta(i)
             /\ WriteFrame(i) = head \o w /\ calculate_frame_size(i) = 1 + vtype_size(item)
    <3>1. frame_type(i) \in Nat
      BY <1>1, <2>3
    <3>2. WriteFrame(i) = head \o w /\ calculate_frame_size(i) = 1 + Bytes(w) /\ w \in Seq(Field)
      BY <2>2, <2>3
    <3> HIDE DEF head, delta, w, item
    <3> QED BY <1>3, <3>1, <3>2
  <2>4. CASE frame_type(i) = 247 /\ WriteFrame(i) = head \o (delta \o w)
             /\ calculate_frame_size(i) = 3 + vtype_size(item)
    <3> DEFINE tail == delta \o w
    <3>1. tail \in Seq(Field) /\ 3 + vtype_size(item) = 1 + Bytes(tail) /\ 247 \in Nat
      BY <2>2
    <3>2. WriteFrame(i) = head \o tail
      BY <2>4
    <3> HIDE DEF head, delta, w, item, tail
    <3> QED BY <1>3, <2>4, <3>1, <3>2
  <2> QED BY <1>6, <2>3, <2>4 DEF OneItemForm
<1>7. CASE AppendForm(i)
  <2> DEFINE p == frames[i - 1].locals
             ts == Entries(l, Len(p))
             w == WriteTypes(ts)
  <2>1. p \in Seq(VType) /\ Len(p) \in 0..Len(l)
    BY <1>1, <1>7, DeltaType, SMTT(30) DEF AppendForm, Appends
  <2>2. ts \in Seq(VType) /\ Len(ts) \in Nat
    BY <1>1, <2>1, EntriesType
  <2>3. w \in Seq(Field) /\ Bytes(w) = calc_vtypes_size(l, Len(p))
    BY <2>2, BytesOfTypes DEF calc_vtypes_size
  <2> DEFINE tail == delta \o w
  <2>4. tail \in Seq(Field) /\ Bytes(tail) = 2 + Bytes(w) /\ Bytes(w) \in Nat
    <3> HIDE DEF delta, w
    <3> QED BY <1>2, <2>3, BytesOfConcat, BytesType
  <2>5. frame_type(i) = 251 + Len(ts) /\ WriteFrame(i) = head \o tail
        /\ calculate_frame_size(i) = 3 + calc_vtypes_size(l, Len(p))
    BY <1>7, Zenon DEF AppendForm, count_actual_vtypes
  <2> HIDE DEF head, tail, w, ts, p, l
  <2>6. calculate_frame_size(i) = 1 + Bytes(tail) /\ frame_type(i) \in Nat
    BY <2>2, <2>3, <2>4, <2>5
  <2> QED BY <1>3, <2>4, <2>5, <2>6
<1>8. CASE ChopForm(i)
  <2> DEFINE n == count_actual_vtypes(frames[i - 1].locals, Len(frames[i].locals))
  <2>1. n \in 1..3 /\ frame_type(i) = 251 - n /\ WriteFrame(i) = head \o delta
        /\ calculate_frame_size(i) = 3
    BY <1>8 DEF ChopForm, Chops
  <2> HIDE DEF n, head, delta
  <2>2. frame_type(i) \in Nat
    BY <2>1
  <2> QED BY <1>2, <1>3, <2>1, <2>2
<1>9. CASE FullForm(i)
  <2> DEFINE ls == Entries(l, 0)
             ss == Entries(s, 0)
             a == U2(count_actual_vtypes(l, 0))
             b == WriteTypes(ls)
             c == U2(count_actual_vtypes(s, 0))
             d == WriteTypes(ss)
             x == delta \o a
             y == x \o b
             z == y \o c
             tail == z \o d
  <2>1. ls \in Seq(VType) /\ ss \in Seq(VType) /\ Len(ls) \in Nat /\ Len(ss) \in Nat
    <3>1. 0 \in 0..Len(l) /\ 0 \in 0..Len(s)
      BY <1>1
    <3> QED BY <1>1, <3>1, EntriesType
  <2>2. a \in Seq(Field) /\ Bytes(a) = 2 /\ c \in Seq(Field) /\ Bytes(c) = 2
    BY <2>1, BytesOfNumber DEF count_actual_vtypes
  <2>3. b \in Seq(Field) /\ Bytes(b) = calc_vtypes_size(l, 0)
        /\ d \in Seq(Field) /\ Bytes(d) = calc_vtypes_size(s, 0)
    BY <2>1, BytesOfTypes DEF calc_vtypes_size
  <2>4. frame_type(i) = 255 /\ WriteFrame(i) = head \o tail
        /\ calculate_frame_size(i) = 7 + calc_vtypes_size(l, 0) + calc_vtypes_size(s, 0)
    BY <1>9, Zenon DEF FullForm
  <2> HIDE DEF head, a, b, c, d, ls, ss, l, s, delta
  <2>5. x \in Seq(Field) /\ Bytes(x) = Bytes(delta) + Bytes(a)
    BY <1>2, <2>2, BytesOfConcat
  <2> HIDE DEF x
  <2>6. y \in Seq(Field) /\ Bytes(y) = Bytes(x) + Bytes(b)
    BY <2>3, <2>5, BytesOfConcat
  <2> HIDE DEF y
  <2>7. z \in Seq(Field) /\ Bytes(z) = Bytes(y) + Bytes(c)
    BY <2>2, <2>6, BytesOfConcat
  <2> HIDE DEF z
  <2>8. tail \in Seq(Field) /\ Bytes(tail) = Bytes(z) + Bytes(d)
    BY <2>3, <2>7, BytesOfConcat
  <2> HIDE DEF tail
  <2>9. Bytes(b) \in Nat /\ Bytes(d) \in Nat
    BY <2>3, BytesType
  <2>10. calculate_frame_size(i) = 1 + Bytes(tail)
    <3>1. Bytes(tail) = 2 + 2 + Bytes(b) + 2 + Bytes(d)
      BY <1>2, <2>2, <2>5, <2>6, <2>7, <2>8, <2>9
    <3>2. calculate_frame_size(i) = 7 + Bytes(b) + Bytes(d)
      BY <2>3, <2>4
    <3> QED BY <2>9, <3>1, <3>2
  <2> QED BY <1>3, <2>4, <2>8, <2>10, SMTT(30)
<1> QED BY <1>5, <1>6, <1>7, <1>8, <1>9, Forms

-----------------------------------------------------------------------------
(* The two passes *)

FrameSizes == [k \in 1..Len(frames) |-> calculate_frame_size(k)]

TypeOK ==
  /\ frames \in FrameLists
  /\ next \in 1..Len(frames) + 1
  /\ pass \in {"size", "write", "done"}
  /\ total \in Nat
  /\ out \in Seq(Field)

(* The first pass has counted the frames before next; the second has       *)
(* written that many bytes, out of a buffer that holds all of them.        *)
Counted ==
  /\ pass = "size" => total = 2 + Sums(FrameSizes)[next - 1]
  /\ pass # "size" => /\ total = 2 + SumOf(FrameSizes)
                      /\ Bytes(out) = 2 + Sums(FrameSizes)[next - 1]
  /\ pass = "done" => next = Len(frames) + 1

LEMMA FrameSizesType ==
  ASSUME Recordable
  PROVE  /\ Len(frames) \in Nat
         /\ FrameSizes \in Seq(Nat) /\ Len(FrameSizes) = Len(frames)
         /\ Sums(FrameSizes)[0] = 0
         /\ \A k \in 0..Len(frames) : Sums(FrameSizes)[k] \in Nat
         /\ \A k \in 1..Len(frames) :
              Sums(FrameSizes)[k] = Sums(FrameSizes)[k - 1] + calculate_frame_size(k)
<1> DEFINE w == FrameSizes
<1>1. Len(frames) \in Nat
  BY DEF Recordable
<1>2. w \in [1..Len(frames) -> Nat] /\ \A k \in 1..Len(frames) : w[k] = calculate_frame_size(k)
  BY FrameBytes DEF FrameSizes
<1>3. w \in Seq(Nat) /\ Len(w) = Len(frames)
  BY <1>1, <1>2
<1> HIDE DEF w
<1>4. /\ Sums(w) \in [0..Len(w) -> Nat]
      /\ Sums(w)[0] = 0
      /\ \A k \in 1..Len(w) : Sums(w)[k] = Sums(w)[k - 1] + w[k]
  BY <1>3, SumsRecursion
<1>5. /\ Sums(w)[0] = 0
      /\ \A k \in 0..Len(frames) : Sums(w)[k] \in Nat
      /\ \A k \in 1..Len(frames) : Sums(w)[k] = Sums(w)[k - 1] + calculate_frame_size(k)
  BY <1>1, <1>2, <1>3, <1>4
<1> QED BY <1>1, <1>3, <1>5 DEF w

(* A running total is never more than the whole. *)
LEMMA SumsGrow ==
  ASSUME NEW w \in Seq(Nat), NEW m \in 0..Len(w)
  PROVE  Sums(w)[m] <= SumOf(w)
<1> DEFINE n == Len(w) - m
           a == Sums(w)
           S == {k \in 0..n : a[m] <= a[m + k]}
<1>1. n \in Nat /\ m \in Nat /\ Len(w) \in Nat
  OBVIOUS
<1>2. /\ \A k \in 0..Len(w) : a[k] \in Nat
      /\ \A k \in 1..Len(w) : a[k] = a[k - 1] + w[k] /\ w[k] \in Nat
  BY SumsRecursion
<1> HIDE DEF a
<1>3. 0 \in S
  <2>1. a[m] \in Nat /\ m + 0 = m
    BY <1>1, <1>2
  <2> QED BY <1>1, <2>1
<1>4. \A k \in 0..(n - 1) : k \in S => k + 1 \in S
  <2> TAKE k \in 0..(n - 1)
  <2> HAVE k \in S
  <2>0. a[m] <= a[m + k]
    OBVIOUS
  <2>1. m + k + 1 \in 1..Len(w) /\ (m + k + 1) - 1 = m + k /\ m + k \in 0..Len(w)
        /\ m + (k + 1) = m + k + 1 /\ k + 1 \in 0..n
    BY <1>1
  <2>2. a[m + k + 1] = a[m + k] + w[m + k + 1] /\ w[m + k + 1] \in Nat
        /\ a[m] \in Nat /\ a[m + k] \in Nat
    BY <1>2, <2>1
  <2>3. a[m] <= a[m + k + 1]
    BY <2>0, <2>2
  <2>4. a[m] <= a[m + (k + 1)]
    BY <2>1, <2>3
  <2> QED BY <2>1, <2>4
<1> HIDE DEF S
<1>5. \A k \in 0..n : k \in S
  BY <1>1, <1>3, <1>4, CountUp
<1>6. n \in S /\ m + n = Len(w)
  BY <1>1, <1>5
<1>7. a[m] <= a[m + n]
  BY <1>6 DEF S
<1> QED BY <1>6, <1>7 DEF a, SumOf

LEMMA FramesStay ==
  ASSUME frames' = frames
  PROVE  FrameSizes' = FrameSizes
BY DEF FrameSizes, calculate_frame_size, frame_type, frames_locals_equal, offset_delta,
       Appends, Chops

LEMMA StartsCounted == Init => TypeOK /\ Counted
<1> SUFFICES ASSUME Init PROVE TypeOK /\ Counted
  OBVIOUS
<1> USE DEF Init
<1>1. Recordable
  BY ListIsRecordable
<1>2. Len(frames) \in Nat /\ Sums(FrameSizes)[0] = 0
  BY <1>1, FrameSizesType
<1>3. TypeOK
  BY <1>2 DEF TypeOK
<1>4. Counted
  BY <1>2 DEF Counted
<1> QED BY <1>3, <1>4

LEMMA StaysCounted ==
  ASSUME TypeOK, Counted, [Next]_vars
  PROVE  TypeOK' /\ Counted'
<1>1. Recordable
  BY ListIsRecordable DEF TypeOK
<1>2. /\ Len(frames) \in Nat
      /\ FrameSizes \in Seq(Nat) /\ Len(FrameSizes) = Len(frames)
      /\ Sums(FrameSizes)[0] = 0
      /\ \A k \in 0..Len(frames) : Sums(FrameSizes)[k] \in Nat
      /\ \A k \in 1..Len(frames) :
           Sums(FrameSizes)[k] = Sums(FrameSizes)[k - 1] + calculate_frame_size(k)
  BY <1>1, FrameSizesType
<1>3. frames' = frames
  BY DEF Next, vars, SizeFrame, Allocate, WriteNext, Return
<1>4. FrameSizes' = FrameSizes
  BY <1>3, FramesStay
<1>5. CASE SizeFrame
  <2>1. next \in 1..Len(frames) /\ next' - 1 = next
    BY <1>2, <1>5 DEF SizeFrame, TypeOK
  <2>2. calculate_frame_size(next) \in Nat
    BY <1>1, <2>1, FrameBytes
  <2>3. TypeOK'
    BY <1>2, <1>3, <1>5, <2>1, <2>2 DEF TypeOK, SizeFrame
  <2>4. total' = 2 + Sums(FrameSizes)[next' - 1]
    <3>1. Sums(FrameSizes)[next] = Sums(FrameSizes)[next - 1] + calculate_frame_size(next)
          /\ Sums(FrameSizes)[next - 1] \in Nat
      BY <1>2, <2>1
    <3>2. total' = total + calculate_frame_size(next) /\ total = 2 + Sums(FrameSizes)[next - 1]
      BY <1>5 DEF SizeFrame, Counted
    <3> QED BY <2>1, <2>2, <3>1, <3>2
  <2>5. pass' = "size"
    BY <1>5 DEF SizeFrame
  <2> QED BY <1>4, <2>3, <2>4, <2>5 DEF Counted
<1>6. CASE Allocate
  <2>1. next = Len(frames) + 1 /\ next' = 1 /\ pass = "size" /\ pass' = "write" /\ total' = total
        /\ out' = U2(Len(frames))
    BY <1>2, <1>6 DEF Allocate, TypeOK
  <2>2. U2(Len(frames)) \in Seq(Field) /\ Bytes(U2(Len(frames))) = 2
    BY <1>2, BytesOfNumber
  <2>3. TypeOK'
    BY <1>2, <1>3, <2>1, <2>2 DEF TypeOK
  <2>4. total' = 2 + SumOf(FrameSizes)
    <3>1. next - 1 = Len(FrameSizes)
      BY <1>2, <2>1
    <3> QED BY <2>1, <3>1 DEF Counted, SumOf
  <2>5. Bytes(out') = 2 + Sums(FrameSizes)[next' - 1]
    BY <1>2, <2>1, <2>2
  <2>6. Bytes(out)' = 2 + Sums(FrameSizes)[next' - 1]
    BY <2>5, <2>1 DEF Bytes
  <2> QED BY <1>4, <2>1, <2>3, <2>4, <2>6 DEF Counted
<1>7. CASE WriteNext
  <2>1. next \in 1..Len(frames) /\ next' - 1 = next /\ pass = "write" /\ pass' = "write"
        /\ total' = total /\ out' = out \o WriteFrame(next)
    BY <1>2, <1>7 DEF WriteNext, TypeOK
  <2>2. /\ WriteFrame(next) \in Seq(Field) /\ calculate_frame_size(next) \in Nat
        /\ Bytes(WriteFrame(next)) = calculate_frame_size(next)
    BY <1>1, <2>1, FrameBytes
  <2>3. /\ out \o WriteFrame(next) \in Seq(Field)
        /\ Bytes(out \o WriteFrame(next)) = Bytes(out) + Bytes(WriteFrame(next))
    BY <2>2, BytesOfConcat DEF TypeOK
  <2>4. TypeOK'
    BY <1>2, <1>3, <1>7, <2>1, <2>3 DEF TypeOK, WriteNext
  <2>5. Bytes(out)' = Bytes(out) + calculate_frame_size(next)
    BY <2>1, <2>2, <2>3 DEF Bytes
  <2>6. Bytes(out)' = 2 + Sums(FrameSizes)[next' - 1]
    <3>1. Sums(FrameSizes)[next] = Sums(FrameSizes)[next - 1] + calculate_frame_size(next)
          /\ Sums(FrameSizes)[next - 1] \in Nat
      BY <1>2, <2>1
    <3>2. Bytes(out) = 2 + Sums(FrameSizes)[next - 1]
      BY <2>1 DEF Counted
    <3> QED BY <2>1, <2>2, <2>5, <3>1, <3>2
  <2>7. total' = 2 + SumOf(FrameSizes)
    BY <2>1 DEF Counted
  <2> QED BY <1>4, <2>1, <2>4, <2>6, <2>7 DEF Counted
<1>8. CASE Return
  <2>1. next = Len(frames) + 1 /\ pass = "write" /\ pass' = "done"
        /\ UNCHANGED <<frames, next, total, out>>
    BY <1>2, <1>8 DEF Return, TypeOK
  <2>2. Bytes(out)' = Bytes(out)
    BY <2>1 DEF Bytes
  <2> QED BY <1>4, <2>1, <2>2 DEF TypeOK, Counted
<1>9. CASE UNCHANGED vars
  <2>1. Bytes(out)' = Bytes(out)
    BY <1>9 DEF Bytes, vars
  <2> QED BY <1>4, <1>9, <2>1 DEF TypeOK, Counted, vars
<1> QED BY <1>5, <1>6, <1>7, <1>8, <1>9 DEF Next

(* stackmap_serialize: the second pass stays inside the bytes that the     *)
(* first one counted and malloc gave, and fills them to the last.          *)
THEOREM SerializerFitsItsBuffer == Spec => []BufferFits
<1>1. TypeOK /\ Counted => BufferFits
  <2> SUFFICES ASSUME TypeOK, Counted PROVE BufferFits
    OBVIOUS
  <2>1. Recordable
    BY ListIsRecordable DEF TypeOK
  <2>2. /\ Len(frames) \in Nat
        /\ FrameSizes \in Seq(Nat) /\ Len(FrameSizes) = Len(frames)
        /\ \A k \in 0..Len(frames) : Sums(FrameSizes)[k] \in Nat
    BY <2>1, FrameSizesType
  <2>3. next - 1 \in 0..Len(FrameSizes)
    BY <2>2 DEF TypeOK
  <2>4. Sums(FrameSizes)[next - 1] <= SumOf(FrameSizes)
    BY <2>2, <2>3, SumsGrow
  <2>5. Sums(FrameSizes)[next - 1] \in Nat /\ SumOf(FrameSizes) \in Nat
    BY <2>2, <2>3 DEF SumOf
  <2>6. pass = "done" => Sums(FrameSizes)[next - 1] = SumOf(FrameSizes)
    BY <2>2 DEF Counted, SumOf
  <2>7. Width = Bytes(out)
    BY DEF Width, Bytes
  <2> QED BY <2>4, <2>5, <2>6, <2>7 DEF Counted, BufferFits
<1> QED BY <1>1, StartsCounted, StaysCounted, PTL DEF Spec

-----------------------------------------------------------------------------
(* Reading a frame *)

(* Entries are not more than slots. *)
LEMMA EntriesAreFewer ==
  ASSUME NEW T, NEW s \in Seq(T)
  PROVE  Len(Entries(s, 0)) \in 0..Len(s)
<1> DEFINE e == EntriesUpTo(s, 0)
           S == {k \in 0..Len(s) : Len(e[k]) <= k}
<1>1. Len(s) \in Nat /\ 0 \in 0..Len(s)
  OBVIOUS
<1>2. /\ \A k \in 0..Len(s) : e[k] \in Seq(T)
      /\ e[0] = <<>>
      /\ \A k \in (0 + 1)..Len(s) :
           e[k] = IF ImplicitTop(s, k) THEN e[k - 1] ELSE Append(e[k - 1], s[k])
  BY <1>1, EntriesRecursion
<1> HIDE DEF e
<1>3. 0 \in S
  BY <1>1, <1>2
<1>4. \A k \in 0..(Len(s) - 1) : k \in S => k + 1 \in S
  <2> TAKE k \in 0..(Len(s) - 1)
  <2> HAVE k \in S
  <2>1. k + 1 \in (0 + 1)..Len(s) /\ (k + 1) - 1 = k /\ k \in 0..Len(s) /\ k + 1 \in 1..Len(s)
        /\ k + 1 \in 0..Len(s)
    BY <1>1
  <2>2. e[k + 1] = IF ImplicitTop(s, k + 1) THEN e[k] ELSE Append(e[k], s[k + 1])
    BY <1>2, <2>1
  <2>3. e[k] \in Seq(T) /\ s[k + 1] \in T /\ Len(e[k]) <= k
    BY <1>2, <2>1
  <2>4. Len(Append(e[k], s[k + 1])) = Len(e[k]) + 1 /\ Len(e[k]) \in Nat
    BY <2>3
  <2>5. Len(e[k + 1]) <= k + 1
    BY <2>1, <2>2, <2>3, <2>4
  <2> QED BY <2>1, <2>5
<1> HIDE DEF S
<1>5. \A k \in 0..Len(s) : k \in S
  BY <1>1, <1>3, <1>4, CountUp
<1>6. Len(s) \in S
  BY <1>1, <1>5
<1>7. Len(e[Len(s)]) <= Len(s) /\ e[Len(s)] \in Seq(T)
  BY <1>1, <1>2, <1>6 DEF S
<1> QED BY <1>1, <1>7 DEF e, Entries

(* No slot and one slot are their own entries. *)
LEMMA EntriesOfFew ==
  ASSUME NEW T, NEW s \in Seq(T)
  PROVE  /\ s = <<>> => Entries(s, 0) = <<>>
         /\ Len(s) = 1 => Entries(s, 0) = <<s[1]>>
<1> DEFINE e == EntriesUpTo(s, 0)
<1>1. Len(s) \in Nat /\ 0 \in 0..Len(s)
  OBVIOUS
<1>2. /\ e[0] = <<>>
      /\ \A k \in (0 + 1)..Len(s) :
           e[k] = IF ImplicitTop(s, k) THEN e[k - 1] ELSE Append(e[k - 1], s[k])
  BY <1>1, EntriesRecursion
<1> HIDE DEF e
<1>3. s = <<>> => e[Len(s)] = <<>>
  BY <1>2
<1>4. ASSUME Len(s) = 1 PROVE e[Len(s)] = <<s[1]>>
  <2>1. ~ImplicitTop(s, 1)
    BY DEF ImplicitTop
  <2>2. e[1] = Append(e[0], s[1])
    BY <1>2, <1>4, <2>1
  <2> QED BY <1>2, <1>4, <2>2
<1> QED BY <1>3, <1>4 DEF e, Entries

(* Locals that the comparison calls alike are alike. *)
LEMMA SamePrefix ==
  ASSUME NEW a \in Seq(LocalType), NEW b \in Seq(LocalType), Len(a) <= Len(b),
         PrefixSame(a, b)
  PROVE  Entries(a, 0) = EntriesUpTo(b, 0)[Len(a)]
<1>1. \A k \in 1..Len(a) : a[k] = b[k]
  <2> TAKE k \in 1..Len(a)
  <2>1. a[k] \in LocalType /\ b[k] \in LocalType
    OBVIOUS
  <2>2. a[k].tag = b[k].tag /\ (a[k].tag = "object" => a[k].cp = b[k].cp)
    BY DEF PrefixSame
  <2> QED BY <2>1, <2>2 DEF LocalType, VType
<1> QED BY <1>1, EntriesOfPrefix

(* Fields of a frame, from the front. *)
LEMMA FieldsOfConcat ==
  ASSUME NEW u \in Seq(Field), NEW v \in Seq(Field)
  PROVE  /\ u \o v \in Seq(Field)
         /\ Len(u \o v) = Len(u) + Len(v)
         /\ \A k \in 1..Len(u) : (u \o v)[k] = u[k]
         /\ \A k \in 1..Len(v) : (u \o v)[Len(u) + k] = v[k]
<1> DEFINE w == u \o v
<1>1. /\ w \in Seq(Field) /\ Len(w) = Len(u) + Len(v)
      /\ \A k \in 1..Len(u) + Len(v) : w[k] = IF k <= Len(u) THEN u[k] ELSE v[k - Len(u)]
  BY ConcatProperties
<1>2. Len(u) \in Nat /\ Len(v) \in Nat
  OBVIOUS
<1> HIDE DEF w
<1>3. \A k \in 1..Len(u) : w[k] = u[k]
  BY <1>1, <1>2
<1>4. \A k \in 1..Len(v) : w[Len(u) + k] = v[k]
  <2> TAKE k \in 1..Len(v)
  <2>1. Len(u) + k \in 1..Len(u) + Len(v) /\ ~(Len(u) + k <= Len(u)) /\ (Len(u) + k) - Len(u) = k
    BY <1>2
  <2> QED BY <1>1, <2>1
<1> QED BY <1>1, <1>3, <1>4 DEF w

(* What the reader takes for a frame, by the number in its first byte. *)
Read1(d, at, locals, stack, used) ==
  [offset |-> at, locals |-> locals, stack |-> stack,
   rest |-> SubSeq(d.rest, used + 1, Len(d.rest))]

ReadChoice(t, same, item, chop, more, full) ==
  CASE t \in 0..63 \/ t = 251 -> same
    [] t \in 64..127 \/ t = 247 -> item
    [] t \in 248..250 -> chop
    [] t \in 252..254 -> more
    [] t = 255 -> full

LEMMA OneReadChoice ==
  ASSUME NEW t \in Nat, NEW same, NEW item, NEW chop, NEW more, NEW full
  PROVE  LET c == ReadChoice(t, same, item, chop, more, full)
         IN /\ t \in 0..63 \/ t = 251 => c = same
            /\ t \in 64..127 \/ t = 247 => c = item
            /\ t \in 248..250 => c = chop
            /\ t \in 252..254 => c = more
            /\ t = 255 => c = full
BY DEF ReadChoice

(* The reader d stands in front of frame i and knows the frame before it. *)
InFrontOf(d, i) ==
  /\ d.rest \in Seq(Field)
  /\ Len(WriteFrame(i)) <= Len(d.rest)
  /\ \A k \in 1..Len(WriteFrame(i)) : d.rest[k] = WriteFrame(i)[k]
  /\ d.offset = IF i = 1 THEN -1 ELSE frames[i - 1].offset
  /\ d.locals = IF i = 1 THEN <<>> ELSE Entries(frames[i - 1].locals, 0)

ReadsFrame(d, i) ==
  ReadFrame(d) = Read1(d, frames[i].offset, Entries(frames[i].locals, 0),
                       Entries(frames[i].stack, 0), Len(WriteFrame(i)))

(* The frame begins with its type; the fields behind that are the tail. *)
TailOf(i, tail) == WriteFrame(i) = U1(frame_type(i)) \o tail

LEMMA ReadHead ==
  ASSUME Recordable, NEW i \in 1..Len(frames), NEW d, InFrontOf(d, i),
         frame_type(i) \in Nat, NEW tail \in Seq(Field), TailOf(i, tail)
  PROVE  /\ Value(d.rest, 1) = frame_type(i)
         /\ Len(WriteFrame(i)) = 1 + Len(tail)
         /\ \A k \in 1..Len(tail) : Value(d.rest, 1 + k) = tail[k].value
<1> DEFINE h == U1(frame_type(i))
<1>1. h \in Seq(Field) /\ Len(h) = 1 /\ h[1].value = frame_type(i)
  <2>1. h \in Seq(Field) /\ Len(h) = 1
    BY BytesOfNumber
  <2> QED BY <2>1 DEF U1
<1> HIDE DEF h
<1>2. /\ Len(h \o tail) = Len(h) + Len(tail)
      /\ \A k \in 1..Len(h) : (h \o tail)[k] = h[k]
      /\ \A k \in 1..Len(tail) : (h \o tail)[Len(h) + k] = tail[k]
  BY <1>1, FieldsOfConcat
<1> DEFINE w == WriteFrame(i)
<1>3. w = h \o tail
  BY DEF h, TailOf
<1>4. /\ Len(w) = 1 + Len(tail) /\ Len(tail) \in Nat
      /\ w[1] = h[1]
      /\ \A k \in 1..Len(tail) : w[1 + k] = tail[k]
  BY <1>1, <1>2, <1>3
<1>5. \A k \in 1..Len(w) : d.rest[k] = w[k]
  BY DEF InFrontOf
<1> HIDE DEF w
<1>6. d.rest[1] = h[1] /\ \A k \in 1..Len(tail) : d.rest[1 + k] = tail[k]
  BY <1>4, <1>5
<1>7. Value(d.rest, 1) = frame_type(i)
  BY <1>1, <1>6 DEF Value
<1>8. \A k \in 1..Len(tail) : Value(d.rest, 1 + k) = tail[k].value
  BY <1>6 DEF Value
<1> QED BY <1>4, <1>7, <1>8 DEF w

(* The offset that the delta leads to. *)
LEMMA ReadOffset ==
  ASSUME Recordable, Writable(frames), NEW i \in 1..Len(frames), NEW d, InFrontOf(d, i)
  PROVE  /\ d.offset + offset_delta(i) + 1 = frames[i].offset
         /\ U2(offset_delta(i)) \in Seq(Field) /\ Len(U2(offset_delta(i))) = 1
         /\ U2(offset_delta(i))[1].value = offset_delta(i)
<1>1. offset_delta(i) \in Nat /\ frames[i].offset \in Nat /\ Len(frames) \in Nat
  BY DeltaType DEF Recordable
<1>2. i > 1 => frames[i - 1].offset \in Nat
  <2>1. i > 1 => i - 1 \in 1..Len(frames)
    BY <1>1
  <2> QED BY <2>1, DeltaType
<1>3. d.offset = IF i = 1 THEN -1 ELSE frames[i - 1].offset
  BY DEF InFrontOf
<1>4. offset_delta(i) = IF i = 1 THEN frames[1].offset ELSE frames[i].offset - frames[i - 1].offset - 1
  BY DEF offset_delta
<1>5. d.offset + offset_delta(i) + 1 = frames[i].offset
  BY <1>1, <1>2, <1>3, <1>4
<1>6. offset_delta(i) < 65536
  <2>1. frames[i].offset < 65536
    BY DEF Writable
  <2>2. offset_delta(i) <= frames[i].offset
    BY <1>1, <1>2, <1>4
  <2> QED BY <1>1, <2>1, <2>2
<1>7. offset_delta(i) % 65536 = offset_delta(i)
  BY <1>1, <1>6
<1>8. U2(offset_delta(i)) \in Seq(Field) /\ Len(U2(offset_delta(i))) = 1
  BY <1>1, BytesOfNumber
<1> QED BY <1>5, <1>7, <1>8 DEF U2

(* A frame with the locals of the one before it. *)
LEMMA ReadSameLocals ==
  ASSUME NEW i \in 1..Len(frames), NEW d, InFrontOf(d, i), frames_locals_equal(i), Recordable
  PROVE  d.locals = Entries(frames[i].locals, 0)
<1>1. CASE i = 1
  <2>1. d.locals = <<>> /\ frames[i].locals = <<>>
    BY <1>1 DEF InFrontOf, frames_locals_equal
  <2>2. Entries(frames[i].locals, 0) = <<>>
    BY <2>1, DeltaType, EntriesOfFew
  <2> QED BY <2>1, <2>2
<1>2. CASE i # 1
  BY <1>2 DEF InFrontOf, frames_locals_equal
<1> QED BY <1>1, <1>2

(* The seven forms as the reader sees them: t is the number in the first   *)
(* byte, delta is what it takes for the delta.                             *)
DeltaRead(t, second) ==
  IF t \in 0..63 THEN t ELSE IF t \in 0..127 THEN t - 64 ELSE second

HeadRead(t) == IF t \in 0..127 THEN 1 ELSE 2

LEMMA DeltaChoice ==
  ASSUME NEW t \in Nat, NEW second
  PROVE  /\ t < 64 => DeltaRead(t, second) = t /\ HeadRead(t) = 1
         /\ t \in 64..127 => DeltaRead(t, second) = t - 64 /\ HeadRead(t) = 1
         /\ t > 127 => DeltaRead(t, second) = second /\ HeadRead(t) = 2
<1>1. ASSUME t < 64 PROVE DeltaRead(t, second) = t /\ HeadRead(t) = 1
  <2>1. t \in 0..63 /\ t \in 0..127
    BY <1>1
  <2> QED BY <2>1, Zenon DEF DeltaRead, HeadRead
<1>2. ASSUME t \in 64..127 PROVE DeltaRead(t, second) = t - 64 /\ HeadRead(t) = 1
  <2>1. t \notin 0..63 /\ t \in 0..127
    BY <1>2
  <2> QED BY <2>1, Zenon DEF DeltaRead, HeadRead
<1>3. ASSUME t > 127 PROVE DeltaRead(t, second) = second /\ HeadRead(t) = 2
  <2>1. t \notin 0..63 /\ t \notin 0..127
    BY <1>3
  <2> QED BY <2>1, Zenon DEF DeltaRead, HeadRead
<1> QED BY <1>1, <1>2, <1>3

AtRead(d, t) == d.offset + DeltaRead(t, Value(d.rest, 2)) + 1

LEMMA ReadByNumber ==
  ASSUME NEW d, NEW t \in Nat, Value(d.rest, 1) = t
  PROVE  LET n == Value(d.rest, 3)
             m == Value(d.rest, n + 4)
             r == ReadFrame(d)
         IN /\ t \in 0..63 \/ t = 251 =>
                 r = Read1(d, AtRead(d, t), d.locals, <<>>, HeadRead(t))
            /\ t \in 64..127 \/ t = 247 =>
                 r = Read1(d, AtRead(d, t), d.locals, Values(d.rest, HeadRead(t), 1),
                           HeadRead(t) + 1)
            /\ t \in 248..250 =>
                 r = Read1(d, AtRead(d, t), SubSeq(d.locals, 1, Len(d.locals) - (251 - t)),
                           <<>>, 2)
            /\ t \in 252..254 =>
                 r = Read1(d, AtRead(d, t), d.locals \o Values(d.rest, 2, t - 251), <<>>, t - 249)
            /\ t = 255 =>
                 r = Read1(d, AtRead(d, t), Values(d.rest, 3, n), Values(d.rest, n + 4, m),
                           n + m + 4)
<1> DEFINE n == Value(d.rest, 3)
           m == Value(d.rest, n + 4)
           c1 == Read1(d, AtRead(d, t), d.locals, <<>>, HeadRead(t))
           c2 == Read1(d, AtRead(d, t), d.locals, Values(d.rest, HeadRead(t), 1), HeadRead(t) + 1)
           c3 == Read1(d, AtRead(d, t), SubSeq(d.locals, 1, Len(d.locals) - (251 - t)), <<>>, 2)
           c4 == Read1(d, AtRead(d, t), d.locals \o Values(d.rest, 2, t - 251), <<>>, t - 249)
           c5 == Read1(d, AtRead(d, t), Values(d.rest, 3, n), Values(d.rest, n + 4, m), n + m + 4)
           r == ReadFrame(d)
<1>1. r = ReadChoice(Value(d.rest, 1), c1, c2, c3, c4, c5)
  <2> DEFINE By(x) ==
        ReadChoice(x, Read1(d, AtRead(d, x), d.locals, <<>>, HeadRead(x)),
                   Read1(d, AtRead(d, x), d.locals, Values(d.rest, HeadRead(x), 1),
                         HeadRead(x) + 1),
                   Read1(d, AtRead(d, x), SubSeq(d.locals, 1, Len(d.locals) - (251 - x)),
                         <<>>, 2),
                   Read1(d, AtRead(d, x), d.locals \o Values(d.rest, 2, x - 251), <<>>, x - 249),
                   Read1(d, AtRead(d, x), Values(d.rest, 3, n), Values(d.rest, n + 4, m),
                         n + m + 4))
  <2>1. r = By(Value(d.rest, 1))
    BY Zenon DEF ReadFrame, ReadChoice, Read1, AtRead, DeltaRead, HeadRead
  <2>2. By(t) = ReadChoice(t, c1, c2, c3, c4, c5)
    OBVIOUS
  <2> HIDE DEF By, r, c1, c2, c3, c4, c5
  <2>3. By(Value(d.rest, 1)) = By(t)
    OBVIOUS
  <2>4. Value(d.rest, 1) = t
    OBVIOUS
  <2> QED BY <2>1, <2>2, <2>3, <2>4
<1> HIDE DEF c1, c2, c3, c4, c5, r
<1> DEFINE c == ReadChoice(t, c1, c2, c3, c4, c5)
<1>2. r = c
  BY <1>1
<1>3. /\ t \in 0..63 \/ t = 251 => c = c1
      /\ t \in 64..127 \/ t = 247 => c = c2
      /\ t \in 248..250 => c = c3
      /\ t \in 252..254 => c = c4
      /\ t = 255 => c = c5
  BY OneReadChoice
<1> HIDE DEF c
<1>4. t \in 0..63 \/ t = 251 => r = c1
  BY <1>2, <1>3
<1>5. t \in 64..127 \/ t = 247 => r = c2
  BY <1>2, <1>3
<1>6. t \in 248..250 => r = c3
  BY <1>2, <1>3
<1>7. t \in 252..254 => r = c4
  BY <1>2, <1>3
<1>8. t = 255 => r = c5
  BY <1>2, <1>3
<1> QED BY <1>4, <1>5, <1>6, <1>7, <1>8, Zenon DEF r, c1, c2, c3, c4, c5, n, m

LEMMA ReadShortSame ==
  ASSUME NEW d, NEW n \in Nat, n < 64, Value(d.rest, 1) = n
  PROVE  ReadFrame(d) = Read1(d, d.offset + n + 1, d.locals, <<>>, 1)
<1>1. n \in 0..63
  OBVIOUS
<1>2. DeltaRead(n, Value(d.rest, 2)) = n /\ HeadRead(n) = 1
  BY DeltaChoice
<1>3. ReadFrame(d) = Read1(d, AtRead(d, n), d.locals, <<>>, HeadRead(n))
  BY <1>1, ReadByNumber
<1> QED BY <1>2, <1>3, Zenon DEF AtRead

LEMMA ReadLongSame ==
  ASSUME NEW d, NEW n, Value(d.rest, 1) = 251, Value(d.rest, 2) = n
  PROVE  ReadFrame(d) = Read1(d, d.offset + n + 1, d.locals, <<>>, 2)
<1> DEFINE t == 251
<1>1. t \in Nat /\ t > 127 /\ t = 251 /\ Value(d.rest, 1) = t
  OBVIOUS
<1> HIDE DEF t
<1>2. DeltaRead(t, n) = n /\ HeadRead(t) = 2
  BY <1>1, DeltaChoice
<1>3. ReadFrame(d) = Read1(d, AtRead(d, t), d.locals, <<>>, HeadRead(t))
  BY <1>1, ReadByNumber
<1> QED BY <1>2, <1>3, Zenon DEF AtRead

LEMMA ReadShortItem ==
  ASSUME NEW d, NEW n \in Nat, n < 64, Value(d.rest, 1) = 64 + n, NEW x, Value(d.rest, 2) = x
  PROVE  ReadFrame(d) = Read1(d, d.offset + n + 1, d.locals, <<x>>, 2)
<1> DEFINE t == 64 + n
<1>1. t \in Nat /\ t \in 64..127 /\ t - 64 = n /\ Value(d.rest, 1) = t
  OBVIOUS
<1> HIDE DEF t
<1>2. DeltaRead(t, x) = n /\ HeadRead(t) = 1
  BY <1>1, DeltaChoice
<1>3. Values(d.rest, 1, 1) = <<x>>
  BY DEF Values, Value
<1>4. ReadFrame(d) =
        Read1(d, AtRead(d, t), d.locals, Values(d.rest, HeadRead(t), 1), HeadRead(t) + 1)
  BY <1>1, ReadByNumber, ZenonT(60)
<1>5. ReadFrame(d) = Read1(d, d.offset + n + 1, d.locals, <<x>>, 1 + 1)
  BY <1>2, <1>3, <1>4, Zenon DEF AtRead
<1> QED BY <1>5

LEMMA ReadLongItem ==
  ASSUME NEW d, NEW n, Value(d.rest, 1) = 247, Value(d.rest, 2) = n, NEW x, Value(d.rest, 3) = x
  PROVE  ReadFrame(d) = Read1(d, d.offset + n + 1, d.locals, <<x>>, 3)
<1> DEFINE t == 247
<1>1. t \in Nat /\ t > 127 /\ t = 247 /\ Value(d.rest, 1) = t
  OBVIOUS
<1> HIDE DEF t
<1>2. DeltaRead(t, n) = n /\ HeadRead(t) = 2
  BY <1>1, DeltaChoice
<1>3. Values(d.rest, 2, 1) = <<x>>
  BY DEF Values, Value
<1>4. ReadFrame(d) =
        Read1(d, AtRead(d, t), d.locals, Values(d.rest, HeadRead(t), 1), HeadRead(t) + 1)
  BY <1>1, ReadByNumber
<1>5. ReadFrame(d) = Read1(d, d.offset + n + 1, d.locals, <<x>>, 2 + 1)
  BY <1>2, <1>3, <1>4, Zenon DEF AtRead
<1> QED BY <1>5

LEMMA ReadChop ==
  ASSUME NEW d, NEW n, NEW m \in 1..3, Value(d.rest, 1) = 251 - m, Value(d.rest, 2) = n
  PROVE  ReadFrame(d) =
           Read1(d, d.offset + n + 1, SubSeq(d.locals, 1, Len(d.locals) - m), <<>>, 2)
<1> DEFINE t == 251 - m
<1>1. t \in Nat /\ t > 127 /\ t \in 248..250 /\ 251 - t = m /\ Value(d.rest, 1) = t
  OBVIOUS
<1> HIDE DEF t
<1>2. DeltaRead(t, n) = n
  BY <1>1, DeltaChoice
<1>3. ReadFrame(d) =
        Read1(d, AtRead(d, t), SubSeq(d.locals, 1, Len(d.locals) - (251 - t)), <<>>, 2)
  BY <1>1, ReadByNumber
<1> QED BY <1>1, <1>2, <1>3, Zenon DEF AtRead

(* A run of values that are the elements of a sequence. *)
Behind(fs, from, ts) == \A k \in 1..Len(ts) : Value(fs, from + k) = ts[k]

LEMMA ValuesOf ==
  ASSUME NEW fs, NEW from \in Nat, NEW ts \in Seq(VType), Behind(fs, from, ts)
  PROVE  Values(fs, from, Len(ts)) = ts
<1>1. ts = [k \in 1..Len(ts) |-> ts[k]]
  OBVIOUS
<1>2. Values(fs, from, Len(ts)) = [k \in 1..Len(ts) |-> Value(fs, from + k)]
  BY DEF Values, Value
<1> QED BY <1>1, <1>2 DEF Behind

LEMMA ReadAppend ==
  ASSUME NEW d, NEW n, NEW ts \in Seq(VType), NEW m \in 1..3, Len(ts) = m,
         Value(d.rest, 1) = 251 + m, Value(d.rest, 2) = n,
         Behind(d.rest, 2, ts)
  PROVE  ReadFrame(d) = Read1(d, d.offset + n + 1, d.locals \o ts, <<>>, 2 + m)
<1> DEFINE t == 251 + m
<1>1. t \in Nat /\ t > 127 /\ t \in 252..254 /\ t - 251 = m /\ t - 249 = 2 + m
      /\ Value(d.rest, 1) = t
  OBVIOUS
<1> HIDE DEF t
<1>2. DeltaRead(t, n) = n
  BY <1>1, DeltaChoice
<1>3. ReadFrame(d) =
        Read1(d, AtRead(d, t), d.locals \o Values(d.rest, 2, t - 251), <<>>, t - 249)
  BY <1>1, ReadByNumber
<1>4. Values(d.rest, 2, m) = ts
  <2>1. 2 \in Nat
    OBVIOUS
  <2> QED BY <2>1, ValuesOf
<1> QED BY <1>1, <1>2, <1>3, <1>4, Zenon DEF AtRead

LEMMA ReadFull ==
  ASSUME NEW d, NEW n, NEW ls \in Seq(VType), NEW ss \in Seq(VType),
         Value(d.rest, 1) = 255, Value(d.rest, 2) = n, Value(d.rest, 3) = Len(ls),
         Behind(d.rest, 3, ls),
         Value(d.rest, Len(ls) + 4) = Len(ss),
         Behind(d.rest, Len(ls) + 4, ss)
  PROVE  ReadFrame(d) = Read1(d, d.offset + n + 1, ls, ss, Len(ls) + Len(ss) + 4)
<1> DEFINE t == 255
<1>1. t \in Nat /\ t > 127 /\ t = 255 /\ Value(d.rest, 1) = t
  OBVIOUS
<1> HIDE DEF t
<1>2. DeltaRead(t, n) = n
  BY <1>1, DeltaChoice
<1>3. ReadFrame(d) =
        Read1(d, AtRead(d, t), Values(d.rest, 3, Len(ls)),
              Values(d.rest, Len(ls) + 4, Len(ss)), Len(ls) + Len(ss) + 4)
  <2>1. ReadFrame(d) =
          Read1(d, AtRead(d, t), Values(d.rest, 3, Value(d.rest, 3)),
                Values(d.rest, Value(d.rest, 3) + 4, Value(d.rest, Value(d.rest, 3) + 4)),
                Value(d.rest, 3) + Value(d.rest, Value(d.rest, 3) + 4) + 4)
    BY <1>1, ReadByNumber
  <2> QED BY <2>1, Zenon
<1>4. Values(d.rest, 3, Len(ls)) = ls
  <2>1. 3 \in Nat
    OBVIOUS
  <2> QED BY <2>1, ValuesOf
<1>5. Values(d.rest, Len(ls) + 4, Len(ss)) = ss
  <2>1. Len(ls) + 4 \in Nat
    OBVIOUS
  <2> QED BY <2>1, ValuesOf
<1> QED BY <1>2, <1>3, <1>4, <1>5, Zenon DEF AtRead

-----------------------------------------------------------------------------
(* Every form is read as the frame it was written for. *)

LEMMA SameIsRead ==
  ASSUME Recordable, Writable(frames), NEW i \in 1..Len(frames), NEW d, InFrontOf(d, i),
         SameForm(i)
  PROVE  ReadsFrame(d, i)
<1> DEFINE n == offset_delta(i)
           off == frames[i].offset
           ls == Entries(frames[i].locals, 0)
           ss == Entries(frames[i].stack, 0)
           len == Len(WriteFrame(i))
           typ == frame_type(i)
<1>1. n \in Nat /\ d.offset + n + 1 = off
      /\ U2(n) \in Seq(Field) /\ Len(U2(n)) = 1 /\ U2(n)[1].value = n
  BY DeltaType, ReadOffset
<1>2. d.locals = ls /\ ss = <<>>
  <2>1. frames[i].stack \in Seq(VType) /\ frames[i].stack = <<>> /\ frames_locals_equal(i)
    BY DeltaType DEF SameForm
  <2> QED BY <2>1, ReadSameLocals, EntriesOfFew
<1>3. CASE n < 64 /\ typ = n /\ TailOf(i, <<>>)
  <2> DEFINE tail == <<>>
  <2>1. typ \in Nat /\ tail \in Seq(Field) /\ Len(tail) = 0 /\ TailOf(i, tail)
    BY <1>1, <1>3
  <2> HIDE DEF tail
  <2>2. Value(d.rest, 1) = n /\ len = 1
    <3>1. Value(d.rest, 1) = typ /\ len = 1 + Len(tail)
      BY <2>1, ReadHead
    <3> QED BY <1>3, <2>1, <3>1
  <2> HIDE DEF n, off, ls, ss, len
  <2>3. ReadFrame(d) = Read1(d, d.offset + n + 1, d.locals, <<>>, 1)
    BY <1>1, <1>3, <2>2, ReadShortSame
  <2>4. ReadFrame(d) = Read1(d, off, ls, ss, len)
    BY <1>1, <1>2, <2>2, <2>3
  <2> QED BY <2>4 DEF ReadsFrame, off, ls, ss, len
<1>4. CASE typ = 251 /\ TailOf(i, U2(n))
  <2>1. typ \in Nat
    BY <1>4
  <2> DEFINE tail == U2(n)
  <2>0. tail \in Seq(Field) /\ Len(tail) = 1 /\ tail[1].value = n /\ TailOf(i, tail)
    BY <1>1, <1>4
  <2> HIDE DEF tail
  <2>2. Value(d.rest, 1) = 251 /\ len = 1 + Len(tail)
        /\ \A k \in 1..Len(tail) : Value(d.rest, 1 + k) = tail[k].value
    <3>1. Value(d.rest, 1) = typ /\ len = 1 + Len(tail)
          /\ \A k \in 1..Len(tail) : Value(d.rest, 1 + k) = tail[k].value
      BY <2>0, <2>1, ReadHead
    <3> QED BY <1>4, <3>1
  <2> HIDE DEF n, off, ls, ss, len
  <2>3. 1 \in 1..Len(tail) /\ len = 2
    BY <2>0, <2>2
  <2>4. Value(d.rest, 1 + 1) = n
    BY <2>0, <2>2, <2>3
  <2>5. ReadFrame(d) = Read1(d, d.offset + n + 1, d.locals, <<>>, 2)
    BY <2>2, <2>4, ReadLongSame
  <2>6. ReadFrame(d) = Read1(d, off, ls, ss, len)
    BY <1>1, <1>2, <2>3, <2>5
  <2> QED BY <2>6 DEF ReadsFrame, off, ls, ss, len
<1> QED BY <1>3, <1>4 DEF SameForm, TailOf

LEMMA OneItemIsRead ==
  ASSUME Recordable, Writable(frames), NEW i \in 1..Len(frames), NEW d, InFrontOf(d, i),
         OneItemForm(i)
  PROVE  ReadsFrame(d, i)
<1> DEFINE n == offset_delta(i)
           off == frames[i].offset
           ls == Entries(frames[i].locals, 0)
           ss == Entries(frames[i].stack, 0)
           len == Len(WriteFrame(i))
           typ == frame_type(i)
           item == frames[i].stack[1]
           one == write_verification_type(item)
<1>1. n \in Nat /\ d.offset + n + 1 = off
      /\ U2(n) \in Seq(Field) /\ Len(U2(n)) = 1 /\ U2(n)[1].value = n
  BY DeltaType, ReadOffset
<1>2. /\ d.locals = ls /\ ss = <<item>>
      /\ one \in Seq(Field) /\ Len(one) = 1 /\ one[1].value = item
  <2>1. frames[i].stack \in Seq(VType) /\ Len(frames[i].stack) = 1 /\ frames_locals_equal(i)
    BY DeltaType DEF OneItemForm
  <2>2. item \in VType
    BY <2>1
  <2>3. Len(one) = 1
    BY DEF write_verification_type
  <2> QED BY <2>1, <2>2, <2>3, ReadSameLocals, EntriesOfFew, BytesOfType
<1>3. CASE n < 64 /\ typ = 64 + n /\ TailOf(i, one)
  <2>1. typ \in Nat
    BY <1>1, <1>3
  <2>2. Value(d.rest, 1) = 64 + n /\ len = 1 + Len(one)
        /\ \A k \in 1..Len(one) : Value(d.rest, 1 + k) = one[k].value
    BY <1>2, <1>3, <2>1, ReadHead
  <2> HIDE DEF n, off, ls, ss, len, one, item
  <2>3. 1 \in 1..Len(one) /\ len = 2
    BY <1>2, <2>2
  <2>4. Value(d.rest, 1 + 1) = item
    BY <1>2, <2>2, <2>3
  <2>5. ReadFrame(d) = Read1(d, d.offset + n + 1, d.locals, <<item>>, 2)
    BY <1>1, <1>3, <2>2, <2>4, ReadShortItem
  <2>6. ReadFrame(d) = Read1(d, off, ls, ss, len)
    BY <1>1, <1>2, <2>3, <2>5
  <2> QED BY <2>6 DEF ReadsFrame, off, ls, ss, len
<1>4. CASE typ = 247 /\ TailOf(i, U2(n) \o one)
  <2> DEFINE tail == U2(n) \o one
  <2>1. typ \in Nat
    BY <1>4
  <2> HIDE DEF one, item
  <2>2. tail \in Seq(Field) /\ Len(tail) = Len(U2(n)) + Len(one)
        /\ (\A k \in 1..Len(U2(n)) : tail[k] = U2(n)[k])
        /\ \A k \in 1..Len(one) : tail[Len(U2(n)) + k] = one[k]
    BY <1>1, <1>2, FieldsOfConcat
  <2>3. TailOf(i, tail)
    BY <1>4
  <2> HIDE DEF tail
  <2>4. Value(d.rest, 1) = 247 /\ len = 1 + Len(tail)
        /\ \A k \in 1..Len(tail) : Value(d.rest, 1 + k) = tail[k].value
    BY <1>4, <2>1, <2>2, <2>3, ReadHead
  <2> HIDE DEF n, off, ls, ss, len
  <2>5. Len(tail) = 2 /\ tail[1] = U2(n)[1] /\ tail[1 + 1] = one[1]
    BY <1>1, <1>2, <2>2
  <2>6. Value(d.rest, 1 + 1) = n /\ Value(d.rest, 1 + 2) = item
    BY <1>1, <1>2, <2>4, <2>5
  <2>7. ReadFrame(d) = Read1(d, d.offset + n + 1, d.locals, <<item>>, 3)
    BY <2>4, <2>6, ReadLongItem
  <2>8. ReadFrame(d) = Read1(d, off, ls, ss, len)
    BY <1>1, <1>2, <2>4, <2>5, <2>7
  <2> QED BY <2>8 DEF ReadsFrame, off, ls, ss, len
<1> QED BY <1>3, <1>4 DEF OneItemForm, TailOf

(* Locals of the frame before i and of frame i, one a prefix of the other. *)
LEMMA LocalsAround ==
  ASSUME Recordable, Writable(frames), NEW i \in 1..Len(frames), i > 1,
         NEW d, InFrontOf(d, i)
  PROVE  LET p == frames[i - 1].locals
             c == frames[i].locals
         IN /\ p \in Seq(LocalType) /\ c \in Seq(LocalType)
            /\ p \in Seq(VType) /\ c \in Seq(VType)
            /\ Len(p) \in Nat /\ Len(c) \in Nat
            /\ d.locals = Entries(p, 0)
<1>1. i - 1 \in 1..Len(frames)
  BY DeltaType
<1>2. frames[i].locals \in Seq(LocalType) /\ frames[i - 1].locals \in Seq(LocalType)
  BY <1>1 DEF Writable
<1>3. frames[i].locals \in Seq(VType) /\ frames[i - 1].locals \in Seq(VType)
  BY <1>1, DeltaType
<1>4. d.locals = Entries(frames[i - 1].locals, 0)
  BY DEF InFrontOf
<1> QED BY <1>2, <1>3, <1>4

LEMMA AppendIsRead ==
  ASSUME Recordable, Writable(frames), NEW i \in 1..Len(frames), NEW d, InFrontOf(d, i),
         AppendForm(i)
  PROVE  ReadsFrame(d, i)
<1> DEFINE n == offset_delta(i)
           off == frames[i].offset
           p == frames[i - 1].locals
           c == frames[i].locals
           more == Entries(c, Len(p))
           ls == Entries(c, 0)
           ss == Entries(frames[i].stack, 0)
           len == Len(WriteFrame(i))
           typ == frame_type(i)
           m == Len(more)
           types == WriteTypes(more)
           delta == U2(n)
           tail == delta \o types
<1>1. n \in Nat /\ d.offset + n + 1 = off
      /\ delta \in Seq(Field) /\ Len(delta) = 1 /\ delta[1].value = n
  BY DeltaType, ReadOffset
<1>2. /\ i > 1 /\ frames[i].stack = <<>> /\ Len(c) > Len(p) /\ m \in 1..3 /\ PrefixSame(p, c)
      /\ typ = 251 + m /\ TailOf(i, tail)
  BY DEF AppendForm, Appends, TailOf, count_actual_vtypes
<1>3. /\ p \in Seq(LocalType) /\ c \in Seq(LocalType) /\ c \in Seq(VType)
      /\ Len(p) \in Nat /\ Len(c) \in Nat /\ d.locals = Entries(p, 0)
  BY <1>2, LocalsAround
<1>4. ss = <<>>
  BY <1>2, DeltaType, EntriesOfFew
<1>5. ls = d.locals \o more /\ more \in Seq(VType)
  <2> HIDE DEF p, c
  <2>1. Len(p) \in 0..Len(c)
    BY <1>2, <1>3
  <2>2. Entries(p, 0) = EntriesUpTo(c, 0)[Len(p)]
    BY <1>2, <1>3, SamePrefix
  <2>3. Entries(c, 0) = EntriesUpTo(c, 0)[Len(p)] \o Entries(c, Len(p))
    BY <1>3, <2>1, EntriesSplit
  <2>4. Entries(c, Len(p)) \in Seq(VType)
    BY <1>3, <2>1, EntriesType
  <2> QED BY <1>3, <2>2, <2>3, <2>4
<1>6. types \in Seq(Field) /\ Len(types) = m /\ \A k \in 1..m : types[k].value = more[k]
  <2> HIDE DEF more
  <2> QED BY <1>5, BytesOfTypes
<1> HIDE DEF types, delta, more, c, p
<1>7. /\ tail \in Seq(Field) /\ Len(tail) = Len(delta) + Len(types)
      /\ \A k \in 1..Len(delta) : tail[k] = delta[k]
      /\ \A k \in 1..Len(types) : tail[Len(delta) + k] = types[k]
  BY <1>1, <1>6, FieldsOfConcat
<1> HIDE DEF tail
<1>8. typ \in Nat /\ m \in Nat
  BY <1>2
<1>9. Value(d.rest, 1) = typ /\ len = 1 + Len(tail)
      /\ \A k \in 1..Len(tail) : Value(d.rest, 1 + k) = tail[k].value
  BY <1>2, <1>7, <1>8, ReadHead
<1> HIDE DEF n, off, ls, ss, len, typ, m
<1>10. Len(tail) = 1 + m /\ tail[1] = delta[1] /\ \A k \in 1..m : tail[1 + k] = types[k]
  BY <1>1, <1>6, <1>7
<1>11. Value(d.rest, 2) = n
  <2>1. 1 \in 1..Len(tail)
    BY <1>8, <1>10
  <2>2. Value(d.rest, 1 + 1) = tail[1].value
    BY <1>9, <2>1
  <2> QED BY <1>1, <1>10, <2>2
<1>12. \A k \in 1..m : Value(d.rest, 2 + k) = more[k]
  <2> TAKE k \in 1..m
  <2>1. 1 + k \in 1..Len(tail) /\ 1 + (1 + k) = 2 + k
    BY <1>8, <1>10
  <2>2. Value(d.rest, 1 + (1 + k)) = tail[1 + k].value
    BY <1>9, <2>1
  <2>3. tail[1 + k].value = more[k]
    BY <1>6, <1>10
  <2> QED BY <2>1, <2>2, <2>3
<1>13. ReadFrame(d) = Read1(d, d.offset + n + 1, d.locals \o more, <<>>, 2 + m)
  <2>1. Len(more) = m
    BY DEF m
  <2>2. Value(d.rest, 1) = 251 + m /\ m \in 1..3
    BY <1>2, <1>9
  <2>3. Behind(d.rest, 2, more)
    BY <1>12, <2>1 DEF Behind
  <2>4. more \in Seq(VType)
    BY <1>5
  <2> QED BY <1>11, <2>1, <2>2, <2>3, <2>4, ReadAppend
<1>14. len = 2 + m
  BY <1>8, <1>9, <1>10
<1>15. ReadFrame(d) = Read1(d, off, ls, ss, len)
  BY <1>1, <1>4, <1>5, <1>13, <1>14
<1> QED BY <1>15 DEF ReadsFrame, off, ls, ss, len, c

LEMMA WithoutTheEnd ==
  ASSUME NEW T, NEW u \in Seq(T), NEW v \in Seq(T)
  PROVE  SubSeq(Joined(u, v), 1, Len(Joined(u, v)) - Len(v)) = u
<1> DEFINE w == u \o v
<1>1. /\ w \in Seq(T) /\ Len(w) = Len(u) + Len(v)
      /\ \A k \in 1..Len(u) + Len(v) : w[k] = IF k <= Len(u) THEN u[k] ELSE v[k - Len(u)]
  BY ConcatProperties
<1>2. Len(u) \in Nat /\ Len(v) \in Nat
  OBVIOUS
<1> HIDE DEF w
<1>3. Len(w) - Len(v) = Len(u) /\ \A k \in 1..Len(u) : w[k] = u[k]
  BY <1>1, <1>2
<1>4. SubSeq(w, 1, Len(u)) = u
  <2>1. SubSeq(w, 1, Len(u)) = [k \in 1..Len(u) |-> w[k]]
    BY <1>1, <1>2
  <2>2. u = [k \in 1..Len(u) |-> u[k]]
    OBVIOUS
  <2> QED BY <1>3, <2>1, <2>2
<1> QED BY <1>3, <1>4 DEF w, Joined

LEMMA ChopIsRead ==
  ASSUME Recordable, Writable(frames), NEW i \in 1..Len(frames), NEW d, InFrontOf(d, i),
         ChopForm(i)
  PROVE  ReadsFrame(d, i)
<1> DEFINE n == offset_delta(i)
           off == frames[i].offset
           p == frames[i - 1].locals
           c == frames[i].locals
           more == Entries(p, Len(c))
           ls == Entries(c, 0)
           ss == Entries(frames[i].stack, 0)
           len == Len(WriteFrame(i))
           typ == frame_type(i)
           m == Len(more)
           tail == U2(n)
<1>1. n \in Nat /\ d.offset + n + 1 = off
      /\ tail \in Seq(Field) /\ Len(tail) = 1 /\ tail[1].value = n
  BY DeltaType, ReadOffset
<1>2. /\ i > 1 /\ frames[i].stack = <<>> /\ Len(p) - Len(c) \in 1..3
      /\ m \in 1..3 /\ PrefixSame(c, p)
      /\ typ = 251 - m /\ TailOf(i, tail)
  BY DEF ChopForm, Chops, TailOf, count_actual_vtypes
<1>3. /\ p \in Seq(LocalType) /\ c \in Seq(LocalType)
      /\ p \in Seq(VType) /\ c \in Seq(VType)
      /\ Len(p) \in Nat /\ Len(c) \in Nat /\ d.locals = Entries(p, 0)
  BY <1>2, LocalsAround
<1>4. ss = <<>>
  BY <1>2, DeltaType, EntriesOfFew
<1>5. d.locals = ls \o more /\ ls \in Seq(VType) /\ more \in Seq(VType)
  <2> HIDE DEF p, c
  <2>1. Len(c) \in 0..Len(p) /\ Len(c) <= Len(p) /\ 0 \in 0..Len(c)
    BY <1>2, <1>3
  <2>2. Entries(c, 0) = EntriesUpTo(p, 0)[Len(c)]
    BY <1>2, <1>3, <2>1, SamePrefix
  <2>3. Entries(p, 0) = EntriesUpTo(p, 0)[Len(c)] \o Entries(p, Len(c))
    BY <1>3, <2>1, EntriesSplit
  <2>4. Entries(p, Len(c)) \in Seq(VType) /\ Entries(c, 0) \in Seq(VType)
    BY <1>3, <2>1, EntriesType
  <2> QED BY <1>3, <2>2, <2>3, <2>4
<1> HIDE DEF tail, more, c, p
<1>6. typ \in Nat
  <2> HIDE DEF m, typ
  <2> QED BY <1>2
<1>7. Value(d.rest, 1) = typ /\ len = 1 + Len(tail)
      /\ \A k \in 1..Len(tail) : Value(d.rest, 1 + k) = tail[k].value
  <2>1. TailOf(i, tail) /\ tail \in Seq(Field)
    BY <1>1, <1>2
  <2> QED BY <1>6, <2>1, ReadHead
<1> HIDE DEF n, off, ls, ss, len, typ
<1>8. Value(d.rest, 2) = n /\ len = 2
  <2>1. 1 \in 1..Len(tail)
    BY <1>1
  <2>2. Value(d.rest, 1 + 1) = tail[1].value
    BY <1>7, <2>1
  <2> QED BY <1>1, <1>7, <2>2
<1>9. SubSeq(d.locals, 1, Len(d.locals) - m) = ls
  <2>1. SubSeq(Joined(ls, more), 1, Len(Joined(ls, more)) - m) = ls
    BY <1>5, WithoutTheEnd
  <2>2. d.locals = Joined(ls, more)
    BY <1>5 DEF Joined
  <2> QED BY <2>1, <2>2
<1> HIDE DEF m
<1>10. ReadFrame(d) =
         Read1(d, d.offset + n + 1, SubSeq(d.locals, 1, Len(d.locals) - m), <<>>, 2)
  <2>1. Value(d.rest, 1) = 251 - m /\ m \in 1..3
    BY <1>2, <1>7
  <2> QED BY <1>8, <2>1, ReadChop
<1>11. ReadFrame(d) = Read1(d, off, ls, ss, len)
  BY <1>1, <1>4, <1>8, <1>9, <1>10
<1> QED BY <1>11 DEF ReadsFrame, off, ls, ss, len, c

(* Two counts and two runs of types behind a delta. *)
FullTail(delta, c1, ts1, c2, ts2) == delta \o c1 \o ts1 \o c2 \o ts2

LaidOut(w, delta, c1, ts1, c2, ts2) ==
  LET n == Len(ts1)
  IN /\ w \in Seq(Field)
     /\ Len(w) = n + Len(ts2) + 3
     /\ w[1] = delta[1] /\ w[2] = c1[1]
     /\ \A k \in 1..n : w[2 + k] = ts1[k]
     /\ w[n + 3] = c2[1]
     /\ \A k \in 1..Len(ts2) : w[n + 3 + k] = ts2[k]

LEMMA FieldsOfFullTail ==
  ASSUME NEW delta \in Seq(Field), Len(delta) = 1, NEW c1 \in Seq(Field), Len(c1) = 1,
         NEW ts1 \in Seq(Field), NEW c2 \in Seq(Field), Len(c2) = 1, NEW ts2 \in Seq(Field)
  PROVE  LaidOut(FullTail(delta, c1, ts1, c2, ts2), delta, c1, ts1, c2, ts2)
<1> DEFINE x == delta \o c1
           y == x \o ts1
           z == y \o c2
           w == z \o ts2
           n == Len(ts1)
           m == Len(ts2)
<1>0. n \in Nat /\ m \in Nat
  OBVIOUS
<1>1. x \in Seq(Field) /\ Len(x) = 2 /\ x[1] = delta[1] /\ x[2] = c1[1]
  <2>1. /\ x \in Seq(Field) /\ Len(x) = Len(delta) + Len(c1)
        /\ \A k \in 1..Len(delta) : x[k] = delta[k]
        /\ \A k \in 1..Len(c1) : x[Len(delta) + k] = c1[k]
    BY FieldsOfConcat
  <2> HIDE DEF x
  <2>2. 1 \in 1..Len(delta) /\ 1 \in 1..Len(c1) /\ Len(delta) + 1 = 2
    OBVIOUS
  <2> QED BY <2>1, <2>2
<1> HIDE DEF x
<1>2. /\ y \in Seq(Field) /\ Len(y) = Len(x) + Len(ts1)
      /\ \A k \in 1..Len(x) : y[k] = x[k]
      /\ \A k \in 1..Len(ts1) : y[Len(x) + k] = ts1[k]
  BY <1>1, FieldsOfConcat
<1> HIDE DEF y
<1>3. /\ z \in Seq(Field) /\ Len(z) = Len(y) + Len(c2)
      /\ \A k \in 1..Len(y) : z[k] = y[k]
      /\ \A k \in 1..Len(c2) : z[Len(y) + k] = c2[k]
  BY <1>2, FieldsOfConcat
<1> HIDE DEF z
<1>4. /\ w \in Seq(Field) /\ Len(w) = Len(z) + Len(ts2)
      /\ \A k \in 1..Len(z) : w[k] = z[k]
      /\ \A k \in 1..Len(ts2) : w[Len(z) + k] = ts2[k]
  BY <1>3, FieldsOfConcat
<1> HIDE DEF w, n, m
<1>5. Len(ts1) = n /\ Len(ts2) = m
  BY DEF n, m
<1>6. Len(y) = n + 2 /\ Len(z) = n + 3 /\ Len(w) = n + m + 3
  BY <1>0, <1>1, <1>2, <1>3, <1>4, <1>5
<1>7. \A k \in 1..(n + 3) : w[k] = z[k]
  BY <1>4, <1>6
<1>8. \A k \in 1..(n + 2) : w[k] = y[k]
  <2> TAKE k \in 1..(n + 2)
  <2>1. k \in 1..(n + 3) /\ k \in 1..Len(y)
    BY <1>0, <1>6
  <2> QED BY <1>3, <1>7, <2>1
<1>9. w[1] = delta[1] /\ w[2] = c1[1]
  <2>1. 1 \in 1..(n + 2) /\ 2 \in 1..(n + 2) /\ 1 \in 1..Len(x) /\ 2 \in 1..Len(x)
    BY <1>0, <1>1
  <2> QED BY <1>1, <1>2, <1>8, <2>1
<1>10. \A k \in 1..n : w[2 + k] = ts1[k]
  <2> TAKE k \in 1..n
  <2>1. 2 + k \in 1..(n + 2)
    BY <1>0
  <2> QED BY <1>1, <1>2, <1>5, <1>8, <2>1
<1>11. w[n + 3] = c2[1]
  <2>1. n + 3 \in 1..(n + 3) /\ Len(y) + 1 = n + 3 /\ 1 \in 1..Len(c2)
    BY <1>0, <1>6
  <2> QED BY <1>3, <1>7, <2>1
<1>12. \A k \in 1..m : w[n + 3 + k] = ts2[k]
  BY <1>4, <1>5, <1>6
<1> QED BY <1>4, <1>5, <1>6, <1>9, <1>10, <1>11, <1>12 DEF w, z, y, x, n, m, FullTail, LaidOut

(* A count of entries, as it is written. *)
LEMMA CountIsWritten ==
  ASSUME NEW s \in Seq(VType), Len(s) < 65536
  PROVE  LET c == U2(count_actual_vtypes(s, 0))
             e == Entries(s, 0)
         IN /\ c \in Seq(Field) /\ Len(c) = 1 /\ c[1].value = Len(e)
            /\ e \in Seq(VType)
<1> DEFINE n == Len(Entries(s, 0))
<1>1. n \in 0..Len(s) /\ Len(s) \in Nat
  BY EntriesAreFewer
<1>2. Entries(s, 0) \in Seq(VType)
  <2>1. 0 \in 0..Len(s)
    BY <1>1
  <2> QED BY <2>1, EntriesType
<1>3. count_actual_vtypes(s, 0) = n
  BY DEF count_actual_vtypes
<1> HIDE DEF n
<1>4. n \in Nat /\ n % 65536 = n
  BY <1>1
<1>5. U2(n) \in Seq(Field) /\ Len(U2(n)) = 1
  BY <1>4, BytesOfNumber
<1>6. U2(n)[1].value = n
  BY <1>4 DEF U2
<1> QED BY <1>2, <1>3, <1>5, <1>6 DEF n

LEMMA FullIsRead ==
  ASSUME Recordable, Writable(frames), NEW i \in 1..Len(frames), NEW d, InFrontOf(d, i),
         FullForm(i)
  PROVE  ReadsFrame(d, i)
<1> DEFINE n == offset_delta(i)
           off == frames[i].offset
           l == frames[i].locals
           s == frames[i].stack
           ls == Entries(l, 0)
           ss == Entries(s, 0)
           len == Len(WriteFrame(i))
           typ == frame_type(i)
           delta == U2(n)
           c1 == U2(count_actual_vtypes(l, 0))
           ts1 == WriteTypes(ls)
           c2 == U2(count_actual_vtypes(s, 0))
           ts2 == WriteTypes(ss)
           tail == FullTail(delta, c1, ts1, c2, ts2)
<1>1. n \in Nat /\ d.offset + n + 1 = off
      /\ delta \in Seq(Field) /\ Len(delta) = 1 /\ delta[1].value = n
  BY DeltaType, ReadOffset
<1>2. typ = 255 /\ TailOf(i, tail)
  BY DEF FullForm, TailOf, FullTail
<1>3. l \in Seq(VType) /\ s \in Seq(VType) /\ Len(l) < 65536 /\ Len(s) < 65536
  BY DeltaType DEF Writable
<1>4. c1 \in Seq(Field) /\ Len(c1) = 1 /\ c1[1].value = Len(ls) /\ ls \in Seq(VType)
  <2> HIDE DEF l
  <2> QED BY <1>3, CountIsWritten
<1>5. c2 \in Seq(Field) /\ Len(c2) = 1 /\ c2[1].value = Len(ss) /\ ss \in Seq(VType)
  <2> HIDE DEF s
  <2> QED BY <1>3, CountIsWritten
<1> HIDE DEF c1, c2, delta, l, s
<1>6. ts1 \in Seq(Field) /\ Len(ts1) = Len(ls) /\ \A k \in 1..Len(ls) : ts1[k].value = ls[k]
  <2> HIDE DEF ls
  <2> QED BY <1>4, BytesOfTypes
<1>7. ts2 \in Seq(Field) /\ Len(ts2) = Len(ss) /\ \A k \in 1..Len(ss) : ts2[k].value = ss[k]
  <2> HIDE DEF ss
  <2> QED BY <1>5, BytesOfTypes
<1> HIDE DEF ts1, ts2, ls, ss
<1>8. /\ tail \in Seq(Field)
      /\ Len(tail) = Len(ts1) + Len(ts2) + 3
      /\ tail[1] = delta[1] /\ tail[2] = c1[1]
      /\ \A k \in 1..Len(ts1) : tail[2 + k] = ts1[k]
      /\ tail[Len(ts1) + 3] = c2[1]
      /\ \A k \in 1..Len(ts2) : tail[Len(ts1) + 3 + k] = ts2[k]
  <2>1. delta \in Seq(Field) /\ c1 \in Seq(Field) /\ c2 \in Seq(Field)
        /\ ts1 \in Seq(Field) /\ ts2 \in Seq(Field)
        /\ Len(delta) = 1 /\ Len(c1) = 1 /\ Len(c2) = 1
    BY <1>1, <1>4, <1>5, <1>6, <1>7
  <2>2. LaidOut(tail, delta, c1, ts1, c2, ts2)
    BY <2>1, FieldsOfFullTail
  <2> HIDE DEF tail
  <2> QED BY <2>2 DEF LaidOut
<1> HIDE DEF tail
<1>9. typ \in Nat
  BY <1>2
<1>10. Value(d.rest, 1) = typ /\ len = 1 + Len(tail)
       /\ \A k \in 1..Len(tail) : Value(d.rest, 1 + k) = tail[k].value
  BY <1>2, <1>8, <1>9, ReadHead, SMTT(30)
<1> HIDE DEF n, off, len, typ
<1> DEFINE a == Len(ls)
           b == Len(ss)
<1>11. a \in Nat /\ b \in Nat
  BY <1>4, <1>5
<1>12. /\ Len(ts1) = a /\ Len(ts2) = b /\ c1[1].value = a /\ c2[1].value = b
       /\ (\A k \in 1..a : ts1[k].value = ls[k]) /\ \A k \in 1..b : ts2[k].value = ss[k]
  BY <1>4, <1>5, <1>6, <1>7
<1> HIDE DEF a, b
<1>13. /\ Len(tail) = a + b + 3
       /\ tail[1].value = n /\ tail[2].value = a /\ tail[a + 3].value = b
       /\ \A k \in 1..a : tail[2 + k].value = ls[k]
       /\ \A k \in 1..b : tail[a + 3 + k].value = ss[k]
  BY <1>1, <1>8, <1>12
<1>14. /\ Value(d.rest, 2) = n /\ Value(d.rest, 3) = a /\ Value(d.rest, a + 4) = b
  <2>1. /\ 1 \in 1..Len(tail) /\ 2 \in 1..Len(tail) /\ a + 3 \in 1..Len(tail)
        /\ 1 + 1 = 2 /\ 1 + 2 = 3 /\ 1 + (a + 3) = a + 4
    BY <1>11, <1>13
  <2>2. Value(d.rest, 1 + 1) = n /\ Value(d.rest, 1 + 2) = a /\ Value(d.rest, 1 + (a + 3)) = b
    BY <1>10, <1>13, <2>1
  <2> QED BY <2>1, <2>2
<1>15. \A k \in 1..a : Value(d.rest, 3 + k) = ls[k]
  <2> TAKE k \in 1..a
  <2>1. 2 + k \in 1..Len(tail) /\ 1 + (2 + k) = 3 + k
    BY <1>11, <1>13
  <2>2. Value(d.rest, 1 + (2 + k)) = tail[2 + k].value
    BY <1>10, <2>1
  <2> QED BY <1>13, <2>1, <2>2
<1>16. \A k \in 1..b : Value(d.rest, a + 4 + k) = ss[k]
  <2> TAKE k \in 1..b
  <2>1. a + 3 + k \in 1..Len(tail) /\ 1 + (a + 3 + k) = a + 4 + k
    BY <1>11, <1>13
  <2>2. Value(d.rest, 1 + (a + 3 + k)) = tail[a + 3 + k].value
    BY <1>10, <2>1
  <2> QED BY <1>13, <2>1, <2>2
<1>17. Behind(d.rest, 3, ls) /\ Behind(d.rest, a + 4, ss)
  <2>1. Len(ls) = a /\ Len(ss) = b
    BY DEF a, b
  <2> QED BY <1>15, <1>16, <2>1 DEF Behind
<1>18. ReadFrame(d) = Read1(d, d.offset + n + 1, ls, ss, a + b + 4)
  <2>1. Len(ls) = a /\ Len(ss) = b
    BY DEF a, b
  <2>2. Value(d.rest, 1) = 255
    BY <1>2, <1>10
  <2>3. /\ ls \in Seq(VType) /\ ss \in Seq(VType)
        /\ Value(d.rest, 3) = Len(ls) /\ Behind(d.rest, Len(ls) + 4, ss)
        /\ Value(d.rest, Len(ls) + 4) = Len(ss)
    BY <1>4, <1>5, <1>14, <1>17, <2>1
  <2>4. ReadFrame(d) = Read1(d, d.offset + n + 1, ls, ss, Len(ls) + Len(ss) + 4)
    BY <1>14, <1>17, <2>2, <2>3, ReadFull
  <2> QED BY <2>1, <2>4
<1>19. len = a + b + 4
  BY <1>10, <1>11, <1>13
<1>20. ReadFrame(d) = Read1(d, off, ls, ss, len)
  BY <1>1, <1>18, <1>19
<1> QED BY <1>20 DEF ReadsFrame, off, ls, ss, len, l, s

(* Reading one frame gives the frame, and leaves what is behind it. *)
LEMMA FrameIsRead ==
  ASSUME Recordable, Writable(frames), NEW i \in 1..Len(frames), NEW d, InFrontOf(d, i)
  PROVE  ReadsFrame(d, i)
BY Forms, SameIsRead, OneItemIsRead, AppendIsRead, ChopIsRead, FullIsRead

-----------------------------------------------------------------------------
(* Reading the attribute *)

WrittenFrames == [k \in 1..Len(frames) |-> WriteFrame(k)]
FrameLengths == [k \in 1..Len(frames) |-> Len(WriteFrame(k))]

(* The fields in front of frame k + 1: the number of entries and k frames. *)
Before(lengths, k) == 1 + Sums(lengths)[k]
At(k) == Before(FrameLengths, k)

(* Behind the count lie the frames before n, one after the other. *)
InOrder(fields, n, count, lengths, written) ==
  /\ Len(fields) = Before(lengths, n - 1)
  /\ fields[1].value = count % 65536
  /\ \A k \in 1..n - 1 :
       /\ Before(lengths, k) <= Len(fields)
       /\ \A j \in 1..Len(written[k]) : fields[Before(lengths, k - 1) + j] = written[k][j]

Placed == pass # "size" => InOrder(out, next, Len(frames), FrameLengths, WrittenFrames)

LEMMA AtType ==
  ASSUME Recordable
  PROVE  /\ Len(frames) \in Nat
         /\ At(0) = 1
         /\ \A k \in 0..Len(frames) : At(k) \in Nat /\ At(k) >= 1
         /\ \A k \in 1..Len(frames) :
              /\ WrittenFrames[k] = WriteFrame(k)
              /\ WrittenFrames[k] \in Seq(Field)
              /\ At(k) = At(k - 1) + Len(WrittenFrames[k])
<1> DEFINE w == FrameLengths
<1>1. Len(frames) \in Nat
  BY DEF Recordable
<1>2. \A k \in 1..Len(frames) : WrittenFrames[k] = WriteFrame(k) /\ WriteFrame(k) \in Seq(Field)
  BY FrameBytes DEF WrittenFrames
<1>3. \A k \in 1..Len(frames) : Len(WriteFrame(k)) \in Nat
  BY <1>2
<1>4. w \in [1..Len(frames) -> Nat] /\ \A k \in 1..Len(frames) : w[k] = Len(WriteFrame(k))
  BY <1>3 DEF FrameLengths
<1>5. w \in Seq(Nat) /\ Len(w) = Len(frames)
  BY <1>1, <1>4
<1> HIDE DEF w
<1>6. /\ Sums(w) \in [0..Len(frames) -> Nat]
      /\ Sums(w)[0] = 0
      /\ \A k \in 1..Len(frames) : Sums(w)[k] = Sums(w)[k - 1] + w[k]
  BY <1>5, SumsRecursion
<1>7. \A k : At(k) = 1 + Sums(w)[k]
  BY DEF At, Before, w
<1> DEFINE a == Sums(w)
<1> HIDE DEF a
<1>8. /\ a[0] = 0 /\ \A k : At(k) = 1 + a[k]
      /\ \A k \in 0..Len(frames) : a[k] \in Nat
      /\ \A k \in 1..Len(frames) : a[k] = a[k - 1] + Len(WriteFrame(k))
  BY <1>4, <1>6, <1>7 DEF a
<1>9. At(0) = 1 /\ \A k \in 0..Len(frames) : At(k) \in Nat /\ At(k) >= 1
  BY <1>8
<1>10. ASSUME NEW k \in 1..Len(frames) PROVE At(k) = At(k - 1) + Len(WriteFrame(k))
  <2>1. k - 1 \in 0..Len(frames)
    BY <1>1
  <2>2. a[k - 1] \in Nat /\ Len(WriteFrame(k)) \in Nat
        /\ a[k] = a[k - 1] + Len(WriteFrame(k)) /\ At(k) = 1 + a[k] /\ At(k - 1) = 1 + a[k - 1]
    BY <1>3, <1>8, <2>1
  <2> QED BY <2>2
<1> QED BY <1>1, <1>2, <1>9, <1>10

LEMMA FramesStayWritten ==
  ASSUME frames' = frames
  PROVE  WrittenFrames' = WrittenFrames /\ FrameLengths' = FrameLengths
BY DEF WrittenFrames, FrameLengths, WriteFrame, frame_type, frames_locals_equal, offset_delta,
       Appends, Chops

LEMMA StaysPlaced ==
  ASSUME TypeOK, Counted, Placed, [Next]_vars
  PROVE  Placed'
<1>1. Recordable
  BY ListIsRecordable DEF TypeOK
<1>2. /\ Len(frames) \in Nat /\ At(0) = 1
      /\ \A k \in 0..Len(frames) : At(k) \in Nat /\ At(k) >= 1
      /\ \A k \in 1..Len(frames) :
           WrittenFrames[k] = WriteFrame(k) /\ WrittenFrames[k] \in Seq(Field)
           /\ At(k) = At(k - 1) + Len(WrittenFrames[k])
  BY <1>1, AtType
<1>3. frames' = frames
  BY DEF Next, vars, SizeFrame, Allocate, WriteNext, Return
<1>4. WrittenFrames' = WrittenFrames /\ FrameLengths' = FrameLengths
  BY <1>3, FramesStayWritten
<1> DEFINE P(n, o) ==
      /\ Len(o) = At(n - 1)
      /\ o[1].value = Len(frames) % 65536
      /\ \A k \in 1..n - 1 :
           /\ At(k) <= Len(o)
           /\ \A j \in 1..Len(WrittenFrames[k]) : o[At(k - 1) + j] = WrittenFrames[k][j]
<1>0. ASSUME NEW n, NEW o
      PROVE  InOrder(o, n, Len(frames), FrameLengths, WrittenFrames) <=> P(n, o)
  BY DEF InOrder, At, P
<1>5. Placed <=> (pass # "size" => P(next, out))
  <2> HIDE DEF P
  <2> QED BY <1>0 DEF Placed
<1>6. Placed' <=> (pass' # "size" => P(next', out'))
  <2> HIDE DEF P
  <2> QED BY <1>0, <1>3, <1>4 DEF Placed
<1>7. CASE SizeFrame
  BY <1>6, <1>7 DEF SizeFrame
<1>8. CASE Allocate
  <2>1. next' = 1 /\ out' = U2(Len(frames))
    BY <1>8 DEF Allocate
  <2>2. Len(U2(Len(frames))) = 1 /\ U2(Len(frames))[1].value = Len(frames) % 65536
    BY DEF U2
  <2>3. P(1, U2(Len(frames)))
    BY <1>2, <2>2
  <2> HIDE DEF P
  <2> QED BY <1>6, <2>1, <2>3
<1>9. CASE WriteNext
  <2> DEFINE w == WriteFrame(next)
             o == out \o w
  <2>1. next \in 1..Len(frames) /\ next' = next + 1 /\ out' = o /\ pass # "size"
    BY <1>2, <1>9 DEF WriteNext, TypeOK
  <2>2. w \in Seq(Field) /\ WrittenFrames[next] = w /\ At(next) = At(next - 1) + Len(w)
    BY <1>2, <2>1
  <2>3. out \in Seq(Field) /\ P(next, out)
    BY <1>5, <2>1 DEF TypeOK
  <2>4. Len(out) = At(next - 1) /\ Len(out) >= 1 /\ Len(out) \in Nat /\ Len(w) \in Nat
    BY <1>2, <2>1, <2>2, <2>3
  <2> HIDE DEF w
  <2>5. /\ Len(o) = Len(out) + Len(w)
        /\ \A k \in 1..Len(out) : o[k] = out[k]
        /\ \A k \in 1..Len(w) : o[Len(out) + k] = w[k]
    <3>1. out \in Seq(Field) /\ w \in Seq(Field)
      BY <2>2, <2>3
    <3> HIDE DEF P
    <3> QED BY <3>1, FieldsOfConcat
  <2> HIDE DEF o
  <2>6. Len(o) = At((next + 1) - 1)
    BY <2>1, <2>2, <2>4, <2>5
  <2>7. o[1].value = Len(frames) % 65536
    <3>1. o[1] = out[1]
      BY <2>4, <2>5
    <3> QED BY <2>3, <3>1
  <2>8. ASSUME NEW k \in 1..(next + 1) - 1
        PROVE  /\ At(k) <= Len(o)
               /\ \A j \in 1..Len(WrittenFrames[k]) : o[At(k - 1) + j] = WrittenFrames[k][j]
    <3>1. CASE k = next
      <4>1. At(k) <= Len(o)
        BY <2>2, <2>4, <2>5, <3>1
      <4>2. \A j \in 1..Len(WrittenFrames[k]) : o[At(k - 1) + j] = WrittenFrames[k][j]
        BY <2>2, <2>4, <2>5, <3>1
      <4> QED BY <4>1, <4>2
    <3>2. CASE k # next
      <4>1. k \in 1..next - 1 /\ k \in 1..Len(frames) /\ k \in 0..Len(frames)
            /\ k - 1 \in 0..Len(frames)
        BY <1>2, <2>1, <3>2
      <4>2. /\ At(k) <= Len(out)
            /\ \A j \in 1..Len(WrittenFrames[k]) : out[At(k - 1) + j] = WrittenFrames[k][j]
        BY <2>3, <4>1
      <4>3. At(k) \in Nat /\ At(k - 1) \in Nat /\ At(k) = At(k - 1) + Len(WrittenFrames[k])
            /\ Len(WrittenFrames[k]) \in Nat
        BY <1>2, <4>1
      <4>4. At(k) <= Len(o)
        BY <2>4, <2>5, <4>2, <4>3
      <4>5. ASSUME NEW j \in 1..Len(WrittenFrames[k])
            PROVE  o[At(k - 1) + j] = WrittenFrames[k][j]
        <5>1. At(k - 1) + j \in 1..Len(out)
          BY <2>4, <4>2, <4>3
        <5> QED BY <2>5, <4>2, <5>1
      <4> QED BY <4>4, <4>5
    <3> QED BY <3>1, <3>2
  <2>9. P(next + 1, o)
    BY <2>6, <2>7, <2>8
  <2> HIDE DEF P
  <2> QED BY <1>6, <2>1, <2>9
<1>10. CASE Return
  <2> HIDE DEF P
  <2> QED BY <1>5, <1>6, <1>10 DEF Return
<1>11. CASE UNCHANGED vars
  <2> HIDE DEF P
  <2> QED BY <1>5, <1>6, <1>11 DEF vars
<1> QED BY <1>7, <1>8, <1>9, <1>10, <1>11 DEF Next

(* What the reader has after i frames. *)
Expected(i) ==
  [offset |-> IF i = 0 THEN -1 ELSE frames[i].offset,
   locals |-> IF i = 0 THEN <<>> ELSE Entries(frames[i].locals, 0),
   stack  |-> IF i = 0 THEN <<>> ELSE Entries(frames[i].stack, 0),
   rest   |-> SubSeq(out, At(i) + 1, Len(out))]

(* The rest of a rest. *)
LEMMA RestOfRest ==
  ASSUME NEW s \in Seq(Field), NEW a \in Nat, NEW b \in Nat, a + b <= Len(s)
  PROVE  LET r == SubSeq(s, a + 1, Len(s))
         IN /\ r \in Seq(Field) /\ Len(r) = Len(s) - a
            /\ \A k \in 1..b : r[k] = s[a + k]
            /\ SubSeq(r, b + 1, Len(r)) = SubSeq(s, a + b + 1, Len(s))
<1> DEFINE r == SubSeq(s, a + 1, Len(s))
           n == Len(s)
<1>1. n \in Nat
  OBVIOUS
<1>2. r \in Seq(Field) /\ Len(r) = n - a /\ \A k \in 1..(n - a) : r[k] = s[a + k]
  OBVIOUS
<1> HIDE DEF r
<1>3. Len(r) \in Nat /\ b <= Len(r)
  BY <1>1, <1>2
<1> DEFINE u == SubSeq(r, b + 1, Len(r))
           v == SubSeq(s, a + b + 1, n)
<1>4. u \in Seq(Field) /\ Len(u) = Len(r) - b /\ \A k \in 1..(Len(r) - b) : u[k] = r[b + k]
  BY <1>2, <1>3
<1>5. v \in Seq(Field) /\ Len(v) = n - (a + b)
      /\ \A k \in 1..(n - (a + b)) : v[k] = s[(a + b) + k]
  BY <1>1
<1> HIDE DEF u, v
<1>6. Len(u) = Len(v)
  BY <1>1, <1>2, <1>4, <1>5
<1>7. ASSUME NEW k \in 1..Len(u) PROVE u[k] = v[k]
  <2>1. k \in 1..(Len(r) - b) /\ b + k \in 1..(n - a) /\ k \in 1..(n - (a + b))
        /\ a + (b + k) = (a + b) + k
    BY <1>1, <1>2, <1>4, <1>5, <1>6
  <2> QED BY <1>2, <1>4, <1>5, <2>1
<1>8. u = v
  <2>1. u = [k \in 1..Len(u) |-> u[k]] /\ v = [k \in 1..Len(v) |-> v[k]]
    BY <1>4, <1>5
  <2> QED BY <1>6, <1>7, <2>1
<1> QED BY <1>1, <1>2, <1>8 DEF r, u, v

(* Read satisfies its recursion, if anything does. *)
LEMMA ReadRecursion ==
  ASSUME NEW f, f = [i \in 0..Len(frames) |->
                       IF i = 0 THEN [offset |-> -1, locals |-> <<>>, stack |-> <<>>,
                                      rest |-> Tail(out)]
                       ELSE ReadFrame(f[i - 1])],
         Len(frames) \in Nat
  PROVE  /\ Read[0] = [offset |-> -1, locals |-> <<>>, stack |-> <<>>, rest |-> Tail(out)]
         /\ \A i \in 1..Len(frames) : Read[i] = ReadFrame(Read[i - 1])
<1> DEFINE first == [offset |-> -1, locals |-> <<>>, stack |-> <<>>, rest |-> Tail(out)]
           Rec(d) == [i \in 0..Len(frames) |-> IF i = 0 THEN first ELSE ReadFrame(d[i - 1])]
<1>1. f = Rec(f)
  OBVIOUS
<1>2. Read = CHOOSE d : d = Rec(d)
  BY DEF Read
<1>3. Read = Rec(Read)
  <2> HIDE DEF Rec
  <2> QED BY <1>1, <1>2
<1> HIDE DEF first
<1>4. \A i \in 0..Len(frames) : Read[i] = IF i = 0 THEN first ELSE ReadFrame(Read[i - 1])
  BY <1>3
<1>5. 0 \in 0..Len(frames) /\ \A i \in 1..Len(frames) : i \in 0..Len(frames) /\ i # 0
  OBVIOUS
<1>6. Read[0] = first
  BY <1>4, <1>5
<1>7. \A i \in 1..Len(frames) : Read[i] = ReadFrame(Read[i - 1])
  BY <1>4, <1>5
<1> QED BY <1>6, <1>7 DEF first

(* At the end every frame is where the reader looks for it. *)
LEMMA ExpectedIsRead ==
  ASSUME TypeOK, Counted, Placed, pass = "done", Writable(frames),
         NEW i \in 1..Len(frames)
  PROVE  ReadFrame(Expected(i - 1)) = Expected(i)
<1>1. Recordable
  BY ListIsRecordable DEF TypeOK
<1>2. /\ Len(frames) \in Nat
      /\ At(i) \in Nat /\ At(i - 1) \in Nat
      /\ WrittenFrames[i] = WriteFrame(i) /\ WriteFrame(i) \in Seq(Field)
      /\ At(i) = At(i - 1) + Len(WriteFrame(i))
  <2>1. i \in 0..Len(frames) /\ i - 1 \in 0..Len(frames)
    BY <1>1 DEF Recordable
  <2> QED BY <1>1, <2>1, AtType
<1>3. out \in Seq(Field)
  BY DEF TypeOK
<1>4. /\ At(i) <= Len(out)
      /\ \A j \in 1..Len(WriteFrame(i)) : out[At(i - 1) + j] = WriteFrame(i)[j]
  <2>1. i \in 1..next - 1
    BY <1>2 DEF Counted
  <2> QED BY <1>2, <2>1 DEF Placed, InOrder, At
<1> DEFINE d == Expected(i - 1)
           a == At(i - 1)
           b == Len(WriteFrame(i))
<1>5. d.rest = SubSeq(out, a + 1, Len(out))
  BY DEF Expected
<1>6. a \in Nat /\ b \in Nat /\ a + b <= Len(out) /\ At(i) = a + b
  BY <1>2, <1>4
<1>7. /\ d.rest \in Seq(Field) /\ Len(d.rest) = Len(out) - a
      /\ \A k \in 1..b : d.rest[k] = out[a + k]
      /\ SubSeq(d.rest, b + 1, Len(d.rest)) = SubSeq(out, a + b + 1, Len(out))
  <2> HIDE DEF a, b, d
  <2> DEFINE r == SubSeq(out, a + 1, Len(out))
  <2>1. /\ r \in Seq(Field) /\ Len(r) = Len(out) - a
        /\ \A k \in 1..b : r[k] = out[a + k]
        /\ SubSeq(r, b + 1, Len(r)) = SubSeq(out, a + b + 1, Len(out))
    <3>1. out \in Seq(Field) /\ a \in Nat /\ b \in Nat /\ a + b <= Len(out)
      BY <1>3, <1>6
    <3> QED BY <3>1, RestOfRest
  <2>2. d.rest = r
    BY <1>5
  <2> HIDE DEF r
  <2> QED BY <2>1, <2>2
<1>8. InFrontOf(d, i)
  <2>1. d.offset = IF i = 1 THEN -1 ELSE frames[i - 1].offset
    BY <1>2 DEF Expected
  <2>2. d.locals = IF i = 1 THEN <<>> ELSE Entries(frames[i - 1].locals, 0)
    BY <1>2 DEF Expected
  <2>3. b <= Len(d.rest)
    <3> HIDE DEF a, b, d
    <3> QED BY <1>3, <1>6, <1>7
  <2>4. \A k \in 1..b : d.rest[k] = WriteFrame(i)[k]
    <3> HIDE DEF d
    <3> QED BY <1>4, <1>7
  <2> HIDE DEF d
  <2> QED BY <1>7, <2>1, <2>2, <2>3, <2>4 DEF InFrontOf
<1>9. ReadFrame(d) = Read1(d, frames[i].offset, Entries(frames[i].locals, 0),
                           Entries(frames[i].stack, 0), b)
  <2> HIDE DEF d
  <2> QED BY <1>1, <1>8, FrameIsRead DEF ReadsFrame
<1>10. i # 0
  BY <1>2
<1> HIDE DEF d, a, b
<1>11. ReadFrame(d) = [offset |-> frames[i].offset, locals |-> Entries(frames[i].locals, 0),
                       stack |-> Entries(frames[i].stack, 0),
                       rest |-> SubSeq(out, At(i) + 1, Len(out))]
  <2>1. a + b + 1 = At(i) + 1
    BY <1>6
  <2> QED BY <1>7, <1>9, <2>1 DEF Read1
<1> QED BY <1>10, <1>11 DEF Expected, d

(* stackmap_serialize: the JVM reads back the frames that were recorded,   *)
(* where the counters of the class file can hold them.                     *)
LEMMA DoneReadsBack ==
  ASSUME TypeOK, Counted, Placed, Writable(frames)
  PROVE  ReadsBack
<1> SUFFICES ASSUME pass = "done" PROVE ReadsBack
  BY DEF ReadsBack
<1> DEFINE n == Len(frames)
<1>1. Recordable
  BY ListIsRecordable DEF TypeOK
<1>2. n \in Nat /\ At(0) = 1 /\ out \in Seq(Field) /\ next = n + 1
  BY <1>1, AtType DEF TypeOK, Counted
<1>3. Len(out) = At(n) /\ out[1].value = n % 65536 /\ At(n) \in Nat /\ At(n) >= 1
  <2>1. next - 1 = n /\ n \in 0..n
    BY <1>2
  <2> QED BY <1>1, <1>2, <2>1, AtType DEF Placed, InOrder, At
<1>4. Value(out, 1) = n
  <2>1. n < 65536
    BY DEF Writable
  <2>2. n % 65536 = n
    BY <1>2, <2>1
  <2> QED BY <1>3, <2>2 DEF Value
<1>5. \A i \in 1..n : ReadFrame(Expected(i - 1)) = Expected(i)
  BY ExpectedIsRead
<1>6. Expected(0) = [offset |-> -1, locals |-> <<>>, stack |-> <<>>, rest |-> Tail(out)]
  <2>1. Tail(out) = SubSeq(out, At(0) + 1, Len(out))
    BY <1>2, <1>3, TailIsSubSeq
  <2> QED BY <2>1 DEF Expected
<1> DEFINE f == [i \in 0..n |-> Expected(i)]
<1>7. f = [i \in 0..n |-> IF i = 0 THEN [offset |-> -1, locals |-> <<>>, stack |-> <<>>,
                                          rest |-> Tail(out)]
                           ELSE ReadFrame(f[i - 1])]
  <2> DEFINE g == [i \in 0..n |-> IF i = 0 THEN [offset |-> -1, locals |-> <<>>, stack |-> <<>>,
                                                 rest |-> Tail(out)]
                                  ELSE ReadFrame(f[i - 1])]
  <2>1. ASSUME NEW i \in 0..n PROVE f[i] = g[i]
    <3>1. CASE i = 0
      BY <1>6, <3>1
    <3>2. CASE i # 0
      <4>1. i \in 1..n /\ i - 1 \in 0..n
        BY <1>2, <3>2
      <4>2. f[i] = Expected(i) /\ f[i - 1] = Expected(i - 1)
        BY <4>1
      <4> HIDE DEF f
      <4>3. g[i] = ReadFrame(f[i - 1])
        BY <3>2
      <4> QED BY <1>5, <4>1, <4>2, <4>3
    <3> QED BY <3>1, <3>2
  <2>2. f = [i \in 0..n |-> f[i]] /\ g = [i \in 0..n |-> g[i]]
    OBVIOUS
  <2>3. f = g
    <3> HIDE DEF f, g, n
    <3> QED BY <2>1, <2>2
  <2> HIDE DEF f
  <2> QED BY <2>3
<1> HIDE DEF f
<1>8. /\ Read[0] = Expected(0)
      /\ \A i \in 1..n : Read[i] = ReadFrame(Read[i - 1])
  BY <1>2, <1>6, <1>7, ReadRecursion
<1>9. \A i \in 0..n : Read[i] = Expected(i)
  <2> DEFINE S == {i \in 0..n : Read[i] = Expected(i)}
  <2>1. 0 \in S
    BY <1>2, <1>8
  <2>2. \A k \in 0..(n - 1) : k \in S => k + 1 \in S
    <3> TAKE k \in 0..(n - 1)
    <3> HAVE k \in S
    <3>1. k + 1 \in 1..n /\ (k + 1) - 1 = k /\ k + 1 \in 0..n /\ Read[k] = Expected(k)
      BY <1>2
    <3>2. Read[k + 1] = ReadFrame(Read[k]) /\ ReadFrame(Expected(k)) = Expected(k + 1)
      BY <1>5, <1>8, <3>1
    <3>3. Read[k + 1] = Expected(k + 1)
      BY <3>1, <3>2
    <3> QED BY <3>1, <3>3
  <2> HIDE DEF S, n
  <2>3. \A i \in 0..n : i \in S
    BY <1>2, <2>1, <2>2, CountUp
  <2> QED BY <2>3 DEF S
<1>10. ASSUME NEW i \in 1..n
       PROVE  /\ Read[i].offset = frames[i].offset
              /\ Read[i].locals = Entries(frames[i].locals, 0)
              /\ Read[i].stack = Entries(frames[i].stack, 0)
  <2>1. i \in 0..n /\ i # 0
    BY <1>2
  <2>2. Read[i] = Expected(i)
    BY <1>9, <2>1
  <2> QED BY <2>1, <2>2 DEF Expected
<1>11. Read[n].rest = <<>>
  <2>1. n \in 0..n
    BY <1>2
  <2>2. Read[n].rest = SubSeq(out, Len(out) + 1, Len(out))
    <3>1. Expected(n).rest = SubSeq(out, At(n) + 1, Len(out))
      BY DEF Expected
    <3>2. Read[n] = Expected(n) /\ At(n) = Len(out)
      BY <1>3, <1>9, <2>1
    <3> QED BY <3>1, <3>2
  <2>3. SubSeq(out, Len(out) + 1, Len(out)) = <<>>
    BY <1>2
  <2> QED BY <2>2, <2>3
<1> QED BY <1>4, <1>10, <1>11 DEF ReadsBack

(* stackmap_serialize: from the bytes alone the JVM reads back the frames  *)
(* that were recorded - offsets, locals, stacks and nothing behind them -  *)
(* wherever they fit the two-byte counters of the class file.              *)
THEOREM JVMReadsTheFrames ==
  ASSUME \A fs \in FrameLists : Writable(fs)
  PROVE  Spec => []ReadsBack
<1>1. Init => TypeOK /\ Counted /\ Placed
  <2>1. Init => pass = "size"
    BY DEF Init
  <2> QED BY <2>1, StartsCounted DEF Placed
<1>2. TypeOK /\ Counted /\ Placed /\ [Next]_vars => (TypeOK /\ Counted /\ Placed)'
  BY StaysCounted, StaysPlaced
<1>3. TypeOK /\ Counted /\ Placed => ReadsBack
  <2>1. TypeOK => Writable(frames)
    BY DEF TypeOK
  <2> QED BY <2>1, DoneReadsBack
<1> QED BY <1>1, <1>2, <1>3, PTL DEF Spec

=============================================================================
