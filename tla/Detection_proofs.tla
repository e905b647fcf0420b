-------------------------- MODULE Detection_proofs --------------------------
(***************************************************************************)
(* What masking and the policies guarantee for every set of recognizers,    *)
(* texts and calls, every interleaving of the pool's threads, and any       *)
(* number of exceptions and shutdowns.                                      *)
(*                                                                         *)
(* The invariant is the one of the loop that drops overlaps: what it keeps  *)
(* comes from the detections it has seen, which are sorted by their start,  *)
(* does not overlap, and has every one of them that beats all others.  That *)
(* the list is sorted needs that sorted() sorts, and that it is a list of   *)
(* detections needs an induction for each recursive function; both are      *)
(* lemmas about sets of numbers.                                            *)
(*                                                                         *)
(* A second invariant says which places of the text are already replaced    *)
(* while the loop goes from the last detection to the first.  A third, for   *)
(* mask_async(), says of each call that what it has is what mask() would     *)
(* have had at that point: where no two detections tie, sorted() makes one   *)
(* list of all lists with the same elements, so the order in which the       *)
(* pool's threads deliver does not show.                                     *)
(*                                                                         *)
(* What the policy engine and the router compute is proved of every list of  *)
(* detections, with no invariant but that they are detections.               *)
(***************************************************************************)
EXTENDS Detection, FiniteSetTheorems, SequenceTheorems, WellFoundedInduction, TLAPS

-----------------------------------------------------------------------------
(* Recursion over an interval, in statements about sets.                    *)

LEMMA LeastNatural ==
  ASSUME NEW S \in SUBSET Nat, S # {}
  PROVE  \E m \in S : \A k \in S : m <= k
  <1>1. IsWellFoundedOn(OpToRel(<, Nat), Nat)
    BY NatLessThanWellFounded
  <1>2. PICK m \in S : \A k \in S : ~(<<k, m>> \in OpToRel(<, Nat))
    BY <1>1, WFMin
  <1>3. ASSUME NEW k \in S, k < m
        PROVE  FALSE
    <2>1. <<k, m>> \in Nat \X Nat
      OBVIOUS
    <2>2. <<k, m>>[1] < <<k, m>>[2]
      BY <1>3
    <2>3. <<k, m>> \in OpToRel(<, Nat)
      BY <2>1, <2>2, Zenon DEF OpToRel
    <2> QED BY <1>2, <2>3
  <1> QED BY <1>3

\* A set that has the first number of an interval and with each number the next
\* has them all.
LEMMA IntervalInduction ==
  ASSUME NEW a \in Nat, NEW b \in Nat, NEW P, a \in P,
         \A n \in a..b : n > a /\ n - 1 \in P => n \in P
  PROVE  \A n \in a..b : n \in P
  <1> SUFFICES ASSUME NEW x \in a..b, x \notin P PROVE FALSE
    OBVIOUS
  <1> DEFINE S == {n \in a..b : n \notin P}
  <1>1. S \in SUBSET Nat /\ S # {}
    OBVIOUS
  <1>2. PICK m \in S : \A k \in S : m <= k
    BY <1>1, LeastNatural
  <1>3. m > a /\ m - 1 \in a..b /\ m - 1 \notin S
    BY <1>2
  <1> QED BY <1>2, <1>3

\* A step and a first value that stay in V, and what they define by recursion.
StaysIn(V, a, b, base, step) ==
  base \in V /\ \A v \in V, n \in a..b : step[<<v, n>>] \in V

Recursive(g, a, b, base, step) ==
  g[a] = base /\ \A n \in a..b : n # a => g[n] = step[<<g[n - 1], n>>]

\* What is defined by recursion over an interval exists.
LEMMA Recursion ==
  ASSUME NEW a \in Nat, NEW b \in Nat, a <= b, NEW V, NEW base, NEW op,
         StaysIn(V, a, b, base, op)
  PROVE  \E g \in [a..b -> V] : Recursive(g, a, b, base, op)
  <1> USE DEF StaysIn
  <1> DEFINE Upto(g, m) ==
               \A n \in a..m : g[n] = IF n = a THEN base ELSE op[<<g[n - 1], n>>]
             P == {m \in a..b : \E g \in [a..m -> V] : Upto(g, m)}
  <1>1. a \in P
    <2> DEFINE h == [n \in a..a |-> base]
    <2>1. h \in [a..a -> V] /\ Upto(h, a) /\ a \in a..b
      OBVIOUS
    <2> HIDE DEF h
    <2> QED BY <2>1
  <1>2. ASSUME NEW m \in a..b, m > a, m - 1 \in P
        PROVE  m \in P
    <2>1. PICK g \in [a..(m - 1) -> V] : Upto(g, m - 1)
      BY <1>2
    <2>2. g[m - 1] \in V /\ m - 1 \in a..(m - 1)
      BY <1>2
    <2> DEFINE h == [n \in a..m |-> IF n = m THEN op[<<g[m - 1], m>>] ELSE g[n]]
    <2>3. h \in [a..m -> V]
      <3>1. op[<<g[m - 1], m>>] \in V
        BY <2>2
      <3>2. \A n \in a..m : n # m => n \in a..(m - 1)
        BY <1>2
      <3> QED BY <3>1, <3>2
    <2>4. ASSUME NEW n \in a..m
          PROVE  h[n] = IF n = a THEN base ELSE op[<<h[n - 1], n>>]
      <3>1. CASE n = m
        <4>1. h[m] = op[<<g[m - 1], m>>] /\ h[m - 1] = g[m - 1] /\ m # a
          BY <1>2, <2>2
        <4> HIDE DEF h
        <4> QED BY <3>1, <4>1
      <3>2. CASE n # m
        <4>1. n \in a..(m - 1) /\ h[n] = g[n]
          BY <1>2, <3>2
        <4>2. n # a => n - 1 \in a..m /\ n - 1 # m /\ h[n - 1] = g[n - 1]
          BY <1>2, <4>1
        <4> QED BY <2>1, <4>1, <4>2
      <3> QED BY <3>1, <3>2
    <2> QED BY <2>3, <2>4
  <1> HIDE DEF P
  <1>3. b \in P
    <2>1. \A n \in a..b : n \in P
      BY <1>1, <1>2, IntervalInduction
    <2> QED BY <2>1
  <1>4. PICK g \in [a..b -> V] : Upto(g, b)
    BY <1>3 DEF P
  <1>5. a \in a..b
    OBVIOUS
  <1>6. Recursive(g, a, b, base, op)
    BY <1>4, <1>5 DEF Recursive
  <1> QED BY <1>6
-----------------------------------------------------------------------------
(* Operators on sequences.                                                  *)

\* The concatenations that FlattenSeq makes one after the other.
Growing(f, s, n) == f[0] = <<>> /\ \A i \in 1..n : f[i] = f[i - 1] \o s[i]

LEMMA FlattenPrefixes ==
  ASSUME NEW T, NEW n \in Nat, NEW s \in [1..n -> Seq(T)]
  PROVE  \E f \in [0..n -> Seq(T)] : Growing(f, s, n) /\ FlattenSeq(s) = f[n]
  <1>1. PICK V \in {Seq(T)}, none \in {<<>>} : V = Seq(T) /\ none = <<>>
    OBVIOUS
  <1>2. none \in V /\ \A x, y \in V : x \o y \in V
    BY <1>1
  <1>3. \A x \in V : none \o x = x
    BY <1>1, ConcatEmptySeq
  <1>4. s \in [1..n -> V]
    BY <1>1
  <1>5. Len(s) = n
    OBVIOUS
  <1> DEFINE step == [p \in V \X (0..n) |-> IF p[2] = 0 THEN none ELSE p[1] \o s[p[2]]]
  <1>6. \A x \in V, i \in 1..n : step[<<x, i>>] = x \o s[i]
    <2>1. \A i \in 1..n : i \in 0..n /\ i # 0
      OBVIOUS
    <2> QED BY <2>1
  <1>7. \A x \in V : step[<<x, 0>>] = none
    OBVIOUS
  <1>8. \A x \in V, i \in 0..n : step[<<x, i>>] \in V
    <2>1. \A i \in 0..n : i = 0 \/ i \in 1..n
      OBVIOUS
    <2> HIDE DEF step
    <2>2. ASSUME NEW x \in V, NEW i \in 1..n PROVE x \o s[i] \in V
      BY <1>2, <1>4
    <2>3. ASSUME NEW x \in V, NEW i \in 0..n PROVE step[<<x, i>>] \in V
      <3>1. CASE i = 0
        BY <1>2, <1>7, <3>1
      <3>2. CASE i \in 1..n
        BY <1>6, <2>2, <3>2
      <3> QED BY <2>1, <3>1, <3>2
    <2> QED BY <2>3
  <1> HIDE DEF step
  <1>9. PICK g \in [0..n -> V] : Recursive(g, 0, n, none, step)
    <2>1. StaysIn(V, 0, n, none, step)
      BY <1>2, <1>8 DEF StaysIn
    <2> QED BY <2>1, Recursion
  <1>10. g[0] = none /\ \A i \in 1..n : g[i] = g[i - 1] \o s[i]
    <2>1. \A i \in 1..n : i \in 0..n /\ i # 0 /\ i - 1 \in 0..n /\ g[i - 1] \in V
      OBVIOUS
    <2> QED BY <1>6, <1>9, <2>1 DEF Recursive
  <1>11. n # 0 => 1 \in 1..n /\ g[1] = s[1]
    <2> SUFFICES ASSUME n # 0 PROVE 1 \in 1..n /\ g[1] = s[1]
      OBVIOUS
    <2>1. 1 \in 1..n /\ 1 - 1 = 0
      OBVIOUS
    <2>2. g[1] = g[0] \o s[1] /\ s[1] \in V
      BY <1>4, <1>10, <2>1
    <2> QED BY <1>3, <1>10, <2>1, <2>2
  <1>12. FlattenSeq(s) = g[n]
    <2>1. CASE n = 0
      <3>1. s = <<>>
        BY <2>1
      <3> QED BY <1>1, <1>5, <1>10, <2>1, <3>1 DEF FlattenSeq
    <2>2. CASE n # 0
      <3> DEFINE flatten == CHOOSE f : f = [i \in 1..n |->
                              IF i = 1 THEN s[i] ELSE f[i - 1] \o s[i]]
                 h == [i \in 1..n |-> g[i]]
      <3>1. h = [i \in 1..n |-> IF i = 1 THEN s[i] ELSE h[i - 1] \o s[i]]
        <4>1. g[1] = s[1] /\ 1 \in 1..n
          BY <1>11, <2>2
        <4>2. \A i \in 1..n : i # 1 => h[i - 1] = g[i - 1]
          OBVIOUS
        <4>3. \A i \in 1..n : g[i] = IF i = 1 THEN s[i] ELSE h[i - 1] \o s[i]
          BY <1>10, <4>1, <4>2
        <4> QED BY <4>3
      <3>2. flatten = [i \in 1..n |-> IF i = 1 THEN s[i] ELSE flatten[i - 1] \o s[i]]
        BY <3>1
      <3>3. FlattenSeq(s) = flatten[n]
        BY <1>5, <2>2 DEF FlattenSeq
      <3> HIDE DEF flatten
      <3> DEFINE P == {i \in 1..n : flatten[i] = g[i]}
      <3>4. 1 \in P
        BY <1>11, <2>2, <3>2
      <3>5. ASSUME NEW i \in 1..n, i > 1 /\ i - 1 \in P
            PROVE  i \in P
        <4>1. i # 1 /\ flatten[i - 1] = g[i - 1]
          BY <3>5
        <4>2. flatten[i] = flatten[i - 1] \o s[i]
          BY <3>2, <4>1
        <4> QED BY <1>10, <4>1, <4>2
      <3> HIDE DEF P
      <3>6. n \in P
        <4>1. \A i \in 1..n : i \in P
          BY <3>4, <3>5, IntervalInduction
        <4> QED BY <2>2, <4>1
      <3> QED BY <3>3, <3>6 DEF P
    <2> QED BY <2>1, <2>2
  <1> QED BY <1>1, <1>9, <1>10, <1>12 DEF Growing

LEMMA FlattenType ==
  ASSUME NEW T, NEW n \in Nat, NEW s \in [1..n -> Seq(T)]
  PROVE  FlattenSeq(s) \in Seq(T)
  <1>1. PICK f \in [0..n -> Seq(T)] : FlattenSeq(s) = f[n]
    BY FlattenPrefixes
  <1> QED BY <1>1

\* Concatenation, under a name that keeps the provers from taking it apart.
Cat(x, y) == x \o y

\* One more sequence at the end is one more concatenation.
LEMMA FlattenAppend ==
  ASSUME NEW T, NEW n \in Nat, NEW s \in [1..n + 1 -> Seq(T)],
         NEW r, r = [i \in 1..n |-> s[i]]
  PROVE  FlattenSeq(s) = FlattenSeq(r) \o s[n + 1]
  <1>1. r \in [1..n -> Seq(T)] /\ n + 1 \in Nat
    OBVIOUS
  <1>2. PICK f \in [0..n + 1 -> Seq(T)] : Growing(f, s, n + 1) /\ FlattenSeq(s) = f[n + 1]
    BY <1>1, FlattenPrefixes
  <1>3. PICK g \in [0..n -> Seq(T)] : Growing(g, r, n) /\ FlattenSeq(r) = g[n]
    BY <1>1, FlattenPrefixes
  <1>4. PICK P : P = {i \in 0..n : f[i] = g[i]}
    OBVIOUS
  <1>5. 0 \in P
    BY <1>2, <1>3, <1>4 DEF Growing
  <1>6. ASSUME NEW i \in 0..n, i > 0 /\ i - 1 \in P
        PROVE  i \in P
    <2>1. f[i - 1] = g[i - 1] /\ i \in 1..n /\ i \in 1..n + 1 /\ r[i] = s[i]
      BY <1>4, <1>6
    <2>2. f[i] = f[i - 1] \o s[i] /\ g[i] = g[i - 1] \o r[i]
      BY <1>2, <1>3, <2>1, Zenon DEF Growing
    <2>3. f[i] = g[i]
      BY ONLY <2>1, <2>2, Zenon
    <2> QED BY <1>4, <2>3
  <1>7. f[n] = g[n]
    <2>1. \A i \in 0..n : i \in P
      BY <1>5, <1>6, IntervalInduction
    <2>2. n \in 0..n
      OBVIOUS
    <2> QED BY <1>4, <2>1, <2>2
  <1>8. f[n + 1] = f[n] \o s[n + 1]
    <2>1. n + 1 \in 1..n + 1 /\ (n + 1) - 1 = n
      OBVIOUS
    <2>2. f[n + 1] = f[(n + 1) - 1] \o s[n + 1]
      BY <1>2, <2>1, Zenon DEF Growing
    <2> QED BY <2>1, <2>2
  <1> QED BY ONLY <1>2, <1>3, <1>7, <1>8, Zenon

\* What Among collects, element by element.
Choosing(f, s, S, n) ==
  /\ f[0] = <<>>
  /\ \A i \in 1..n : f[i] = IF s[i] \in S THEN f[i - 1] \o <<s[i]>> ELSE f[i - 1]

LEMMA AmongGrows ==
  ASSUME NEW T, NEW s \in Seq(T), NEW S
  PROVE  \E f \in [0..Len(s) -> Seq(T \cap S)] :
           Choosing(f, s, S, Len(s)) /\ Among(s, S) = f[Len(s)]
  <1> DEFINE One(k) == IF s[k] \in S THEN <<s[k]>> ELSE <<>>
             chosen == CHOOSE f : f = [k \in 0..Len(s) |->
                         IF k = 0 THEN <<>> ELSE f[k - 1] \o One(k)]
  <1>1. PICK n \in Nat, V \in {Seq(T \cap S)}, none \in {<<>>} :
              n = Len(s) /\ V = Seq(T \cap S) /\ none = <<>>
    OBVIOUS
  <1>2. 0 \in Nat /\ 0 <= n /\ none \in V /\ \A i \in 1..n : One(i) \in V
    <2>1. ASSUME NEW i \in 1..n PROVE One(i) \in V
      <3>1. s[i] \in T
        BY <1>1
      <3>2. CASE s[i] \in S
        <4>1. One(i) = <<s[i]>>
          BY <3>2
        <4>2. \A x \in T \cap S : <<x>> \in V
          BY <1>1
        <4> QED BY <3>1, <3>2, <4>1, <4>2
      <3>3. CASE s[i] \notin S
        <4>1. One(i) = none
          BY <1>1, <3>3
        <4> QED BY <1>1, <4>1
      <3> QED BY <3>2, <3>3
    <2> HIDE DEF One
    <2> QED BY <1>1, <2>1
  <1>3. \A x, y \in V : x \o y \in V
    BY <1>1
  <1>4. Among(s, S) = chosen[n]
    BY <1>1 DEF Among
  <1>a. \A x \in V, i \in 1..n :
          x \o One(i) = IF s[i] \in S THEN x \o <<s[i]>> ELSE x
    <2> SUFFICES ASSUME NEW x \in V, NEW i \in 1..n, s[i] \notin S
                 PROVE  x \o One(i) = x
      OBVIOUS
    <2>1. One(i) = <<>>
      OBVIOUS
    <2> QED BY <1>1, <2>1, ConcatEmptySeq
  <1> HIDE DEF One
  <1> DEFINE step == [p \in V \X (0..n) |-> IF p[2] = 0 THEN none ELSE p[1] \o One(p[2])]
  <1>5. /\ \A x \in V, i \in 0..n : step[<<x, i>>] \in V
        /\ \A x \in V, i \in 1..n : step[<<x, i>>] = x \o One(i)
    <2>1. \A x \in V, i \in 1..n : step[<<x, i>>] = x \o One(i)
      <3>1. \A i \in 1..n : i \in 0..n /\ i # 0
        OBVIOUS
      <3> QED BY <3>1
    <2>2. \A x \in V : step[<<x, 0>>] = none
      OBVIOUS
    <2>3. \A i \in 0..n : i = 0 \/ i \in 1..n
      OBVIOUS
    <2> HIDE DEF step
    <2>4. \A x \in V, i \in 1..n : step[<<x, i>>] \in V
      BY <1>2, <1>3, <2>1
    <2> QED BY <1>2, <2>1, <2>2, <2>3, <2>4
  <1> HIDE DEF step
  <1>6. PICK g \in [0..n -> V] : Recursive(g, 0, n, none, step)
    <2>1. StaysIn(V, 0, n, none, step)
      BY <1>2, <1>5 DEF StaysIn
    <2> QED BY <1>2, <2>1, Recursion
  <1>7. g = [i \in 0..n |-> IF i = 0 THEN <<>> ELSE g[i - 1] \o One(i)]
    <2>1. \A i \in 0..n : i # 0 => g[i - 1] \in V /\ i \in 1..n
      OBVIOUS
    <2> QED BY <1>1, <1>5, <1>6, <2>1 DEF Recursive
  <1>8. chosen = [i \in 0..n |-> IF i = 0 THEN <<>> ELSE chosen[i - 1] \o One(i)]
    BY <1>1, <1>7
  <1> HIDE DEF chosen
  <1> DEFINE P == {i \in 0..n : chosen[i] \in V}
  <1>9. 0 \in P
    BY <1>1, <1>2, <1>8
  <1>10. ASSUME NEW i \in 0..n, i > 0 /\ i - 1 \in P
         PROVE  i \in P
    <2>1. i # 0 /\ chosen[i - 1] \in V /\ One(i) \in V
      BY <1>2, <1>10
    <2>2. chosen[i] = chosen[i - 1] \o One(i)
      BY <1>8, <2>1
    <2> QED BY <1>3, <2>1, <2>2
  <1> HIDE DEF P
  <1>11. \A i \in 0..n : chosen[i] \in V
    <2>1. \A i \in 0..n : i \in P
      BY <1>9, <1>10, IntervalInduction
    <2> QED BY <2>1 DEF P
  <1>12. chosen \in [0..n -> V]
    BY <1>8, <1>11
  <1>13. Choosing(chosen, s, S, n)
    <2>1. chosen[0] = <<>>
      BY <1>8
    <2>2. ASSUME NEW i \in 1..n
          PROVE  chosen[i] = IF s[i] \in S THEN chosen[i - 1] \o <<s[i]>> ELSE chosen[i - 1]
      <3>1. i \in 0..n /\ i # 0 /\ i - 1 \in 0..n
        OBVIOUS
      <3>2. chosen[i] = chosen[i - 1] \o One(i)
        BY <1>8, <3>1
      <3>3. chosen[i - 1] \in V
        BY <1>11, <3>1
      <3> QED BY <1>a, <3>2, <3>3
    <2> QED BY <2>1, <2>2 DEF Choosing
  <1>14. n \in 0..n
    OBVIOUS
  <1> QED BY <1>1, <1>4, <1>12, <1>13, <1>14

LEMMA AmongType ==
  ASSUME NEW T, NEW s \in Seq(T), NEW S
  PROVE  Among(s, S) \in Seq(T \cap S)
  <1>1. PICK f \in [0..Len(s) -> Seq(T \cap S)] : Among(s, S) = f[Len(s)]
    BY AmongGrows
  <1>2. Len(s) \in 0..Len(s)
    OBVIOUS
  <1> QED BY <1>1, <1>2

\* Detections that cover something.
Good == {d \in Detections : d.start < d.end}

\* Those that lie within a text of length N.
Within(N) == {d \in Good : d.end <= N}

LEMMA KeepBetterType ==
  ASSUME NEW T \in SUBSET Good, NEW kept1 \in Seq(T), NEW d \in T
  PROVE  KeepBetter(kept1, d) \in Seq(T)
  BY DEF KeepBetter

-----------------------------------------------------------------------------
(* sorted().                                                                *)

Below(key, i) == {j \in DOMAIN key : key[j] < key[i] \/ (key[j] = key[i] /\ j < i)}

LEMMA BelowFacts ==
  ASSUME NEW n \in Nat, NEW key \in [1..n -> Int], NEW i \in 1..n
  PROVE  /\ Below(key, i) \in SUBSET (1..n) /\ i \notin Below(key, i)
         /\ IsFiniteSet(Below(key, i)) /\ Cardinality(Below(key, i)) \in 0..(n - 1)
         /\ Rank(key, i) = 1 + Cardinality(Below(key, i))
  <1>1. Below(key, i) \in SUBSET (1..n) /\ i \notin Below(key, i)
    BY DEF Below
  <1>2. IsFiniteSet(1..n) /\ Cardinality(1..n) = n
    BY FS_Interval
  <1>3. IsFiniteSet((1..n) \ {i}) /\ Cardinality((1..n) \ {i}) = n - 1
    BY <1>2, FS_RemoveElement
  <1>4. Below(key, i) \in SUBSET ((1..n) \ {i})
    BY <1>1
  <1>5. IsFiniteSet(Below(key, i)) /\ Cardinality(Below(key, i)) <= n - 1
    BY <1>3, <1>4, FS_Subset
  <1>6. Cardinality(Below(key, i)) \in Nat
    BY <1>5, FS_CardinalityType
  <1>7. Rank(key, i) = 1 + Cardinality(Below(key, i))
    BY DEF Rank, Below
  <1> QED BY <1>1, <1>5, <1>6, <1>7

\* Of two places the one with the smaller key, or the first, has the smaller rank.
LEMMA RankOrders ==
  ASSUME NEW n \in Nat, NEW key \in [1..n -> Int], NEW i \in 1..n, NEW j \in 1..n,
         i \in Below(key, j)
  PROVE  Rank(key, i) < Rank(key, j)
  <1>1. Below(key, i) \in SUBSET Below(key, j) /\ i \notin Below(key, i)
    BY DEF Below
  <1>2. /\ IsFiniteSet(Below(key, j))
        /\ Cardinality(Below(key, i)) \in Nat /\ Cardinality(Below(key, j)) \in Nat
        /\ Rank(key, i) = 1 + Cardinality(Below(key, i))
        /\ Rank(key, j) = 1 + Cardinality(Below(key, j))
    BY BelowFacts
  <1>3. /\ Cardinality(Below(key, i)) <= Cardinality(Below(key, j))
        /\ Cardinality(Below(key, i)) # Cardinality(Below(key, j))
    BY <1>1, <1>2, FS_Subset
  <1> QED BY <1>2, <1>3

LEMMA RankIsOneToOne ==
  ASSUME NEW n \in Nat, NEW key \in [1..n -> Int], NEW i \in 1..n, NEW j \in 1..n,
         Rank(key, i) = Rank(key, j)
  PROVE  i = j
  <1>1. Rank(key, i) \in Nat /\ Rank(key, j) \in Nat
    <2>1. \A m \in 1..n : Rank(key, m) \in Nat
      BY BelowFacts
    <2> QED BY <2>1
  <1>2. i # j => i \in Below(key, j) \/ j \in Below(key, i)
    BY DEF Below
  <1> QED BY <1>1, <1>2, RankOrders

\* Every place of the sorted sequence is the rank of one element.
LEMMA RankIsOnto ==
  ASSUME NEW n \in Nat, NEW key \in [1..n -> Int], NEW k \in 1..n
  PROVE  \E i \in 1..n : Rank(key, i) = k
  <1> DEFINE f == [i \in 1..n |-> Rank(key, i)]
  <1>1. f \in [1..n -> 1..n]
    BY BelowFacts
  <1>3. \A i, j \in 1..n : i # j => Rank(key, i) # Rank(key, j)
    BY RankIsOneToOne
  <1>4. f \in Injection(1..n, 1..n)
    BY <1>1, <1>3 DEF Injection, IsInjective
  <1>5. f \in Surjection(1..n, 1..n)
    BY <1>4, FS_Interval, FS_Injection
  <1> QED BY <1>5 DEF Surjection

\* sorted() returns elements of its list in the order of the key.
LEMMA SortedFacts ==
  ASSUME NEW T, NEW s \in Seq(T), NEW key \in [1..Len(s) -> Int]
  PROVE  /\ Sorted(s, key) \in Seq(T) /\ Len(Sorted(s, key)) = Len(s)
         /\ \E p \in [1..Len(s) -> 1..Len(s)] :
              /\ \A k \in 1..Len(s) : Sorted(s, key)[k] = s[p[k]]
              /\ \A k, l \in 1..Len(s) : k < l => key[p[k]] <= key[p[l]]
  <1>1. PICK n \in Nat : n = Len(s)
    OBVIOUS
  <1> DEFINE p == [k \in 1..n |-> CHOOSE i \in 1..n : Rank(key, i) = k]
  <1>2. p \in [1..n -> 1..n] /\ \A k \in 1..n : Rank(key, p[k]) = k
    <2>1. \A k \in 1..n : \E i \in 1..n : Rank(key, i) = k
      BY <1>1, RankIsOnto
    <2>2. \A k \in 1..n : p[k] \in 1..n /\ Rank(key, p[k]) = k
      BY <2>1
    <2> QED BY <2>2
  <1>3. DOMAIN s = 1..n
    BY <1>1
  <1>4. Sorted(s, key) = [k \in 1..n |-> s[p[k]]]
    BY <1>3 DEF Sorted
  <1> HIDE DEF p
  <1>5. \A k, l \in 1..n : k < l => key[p[k]] <= key[p[l]]
    <2> SUFFICES ASSUME NEW k \in 1..n, NEW l \in 1..n, k < l, ~(key[p[k]] <= key[p[l]])
                 PROVE  FALSE
      OBVIOUS
    <2>1. p[k] \in 1..n /\ p[l] \in 1..n /\ key \in [1..n -> Int]
      BY <1>1, <1>2
    <2>2. p[l] \in Below(key, p[k])
      BY <2>1 DEF Below
    <2>3. Rank(key, p[l]) < Rank(key, p[k])
      BY <2>1, <2>2, RankOrders
    <2> QED BY <1>2, <2>3
  <1>6. Sorted(s, key) \in Seq(T) /\ Len(Sorted(s, key)) = n
    BY <1>1, <1>2, <1>4
  <1>7. \A k \in 1..n : Sorted(s, key)[k] = s[p[k]]
    BY <1>4
  <1> QED BY <1>1, <1>2, <1>5, <1>6, <1>7

LEMMA PlaceFacts ==
  ASSUME NEW d \in Good
  PROVE  /\ d.start \in Nat /\ d.end \in Nat /\ d.start < d.end
         /\ d.score \in 0..100 /\ d.score \in Int /\ Place(d) \in Int
  <1>1. d.start \in Nat /\ d.end \in Nat /\ d.start < d.end /\ d.score \in 0..100
    BY DEF Good, Detections, Scores
  <1>2. \A a \in Nat, b \in 0..100 : a * 101 + (100 - b) \in Int
    OBVIOUS
  <1> QED BY <1>1, <1>2 DEF Place

InOrder(s) == \A k, l \in DOMAIN s : k < l => s[k].start <= s[l].start

LEMMA InPlaceFacts ==
  ASSUME NEW T \in SUBSET Good, NEW s \in Seq(T)
  PROVE  /\ InPlace(s) \in Seq(T) /\ Len(InPlace(s)) = Len(s)
         /\ InOrder(InPlace(s))
  <1> DEFINE key == [i \in DOMAIN s |-> Place(s[i])]
  <1>1. PICK n \in Nat : n = Len(s) /\ DOMAIN s = 1..n
    OBVIOUS
  <1>2. \A i \in 1..n : s[i] \in Good /\ s[i].start \in Nat /\ s[i].score \in 0..100
    BY <1>1, PlaceFacts
  <1>3. key \in [1..n -> Int] /\ \A i \in 1..n : key[i] = Place(s[i])
    <2>1. \A i \in 1..n : Place(s[i]) \in Int
      BY <1>2, PlaceFacts
    <2> QED BY <1>1, <2>1
  <1>4. ASSUME NEW i \in 1..n, NEW j \in 1..n, key[i] <= key[j]
        PROVE  s[i].start <= s[j].start
    <2>1. PICK a \in Nat, b \in Nat, e \in 0..100, f \in 0..100 :
            a = s[i].start /\ b = s[j].start /\ e = s[i].score /\ f = s[j].score
      BY <1>2
    <2>2. a * 101 + (100 - e) <= b * 101 + (100 - f)
      BY <1>3, <1>4, <2>1 DEF Place
    <2>3. a <= b
      BY <2>2
    <2> QED BY <2>1, <2>3
  <1> HIDE DEF key
  <1>5. /\ Sorted(s, key) \in Seq(T) /\ Len(Sorted(s, key)) = Len(s)
        /\ \E p \in [1..n -> 1..n] :
              /\ \A k \in 1..n : Sorted(s, key)[k] = s[p[k]]
              /\ \A k, l \in 1..n : k < l => key[p[k]] <= key[p[l]]
    <2>1. key \in [1..Len(s) -> Int] /\ Len(s) = n
      BY <1>1, <1>3
    <2>2. s \in Seq(T)
      OBVIOUS
    <2>3. /\ Sorted(s, key) \in Seq(T) /\ Len(Sorted(s, key)) = Len(s)
          /\ \E p \in [1..Len(s) -> 1..Len(s)] :
                /\ \A k \in 1..Len(s) : Sorted(s, key)[k] = s[p[k]]
                /\ \A k, l \in 1..Len(s) : k < l => key[p[k]] <= key[p[l]]
      BY <2>1, <2>2, SortedFacts, Zenon
    <2> QED BY <2>1, <2>3, Zenon
  <1>6. InPlace(s) = Sorted(s, key)
    BY DEF InPlace, key
  <1>7. PICK t : t = Sorted(s, key)
    OBVIOUS
  <1>8. t \in Seq(T) /\ Len(t) = n /\ DOMAIN t = 1..n
    BY <1>1, <1>5, <1>7
  <1>9. \A k, l \in 1..n : k < l => t[k].start <= t[l].start
    <2>1. PICK p \in [1..n -> 1..n] :
            /\ \A k \in 1..n : t[k] = s[p[k]]
            /\ \A k, l \in 1..n : k < l => key[p[k]] <= key[p[l]]
      BY <1>5, <1>7
    <2> SUFFICES ASSUME NEW k \in 1..n, NEW l \in 1..n, k < l
                 PROVE  t[k].start <= t[l].start
      OBVIOUS
    <2>2. p[k] \in 1..n /\ p[l] \in 1..n /\ key[p[k]] <= key[p[l]]
      BY <2>1
    <2>3. s[p[k]].start <= s[p[l]].start
      BY <1>4, <2>2
    <2> QED BY <2>1, <2>3
  <1> QED BY <1>1, <1>6, <1>7, <1>8, <1>9 DEF InOrder

\* The loop that drops overlaps, turn by turn.
Turning(f, s, n) == f[0] = <<>> /\ \A i \in 1..n : f[i] = KeepBetter(f[i - 1], s[i])

LEMMA DeduplicateGrows ==
  ASSUME NEW T \in SUBSET Good, NEW s \in Seq(T)
  PROVE  \E f \in [0..Len(s) -> Seq(T)] :
           Turning(f, InPlace(s), Len(s)) /\ Deduplicate(s) = f[Len(s)]
  <1> DEFINE sorted == InPlace(s)
             fold == CHOOSE f : f = [k \in 0..Len(s) |->
                       IF k = 0 THEN <<>> ELSE KeepBetter(f[k - 1], sorted[k])]
  <1>1. PICK n \in Nat, V \in {Seq(T)}, none \in {<<>>} :
              n = Len(s) /\ V = Seq(T) /\ none = <<>>
    OBVIOUS
  <1>2. Deduplicate(s) = fold[n]
    BY <1>1 DEF Deduplicate
  <1>3. sorted \in Seq(T) /\ Len(sorted) = n
    BY <1>1, InPlaceFacts
  <1> HIDE DEF sorted
  <1>4. \A i \in 1..n : sorted[i] \in T
    BY <1>3
  <1>5. \A x \in V, i \in 1..n : KeepBetter(x, sorted[i]) \in V
    BY <1>1, <1>4, KeepBetterType
  <1>6. none \in V
    BY <1>1
  <1> DEFINE step == [p \in V \X (0..n) |->
                        IF p[2] = 0 THEN none ELSE KeepBetter(p[1], sorted[p[2]])]
  <1>7. /\ \A x \in V, i \in 0..n : step[<<x, i>>] \in V
        /\ \A x \in V, i \in 1..n : step[<<x, i>>] = KeepBetter(x, sorted[i])
    <2>1. \A x \in V, i \in 1..n : step[<<x, i>>] = KeepBetter(x, sorted[i])
      <3>1. \A i \in 1..n : i \in 0..n /\ i # 0
        OBVIOUS
      <3> QED BY <3>1
    <2>2. \A x \in V : step[<<x, 0>>] = none
      OBVIOUS
    <2>3. \A i \in 0..n : i = 0 \/ i \in 1..n
      OBVIOUS
    <2> HIDE DEF step
    <2> QED BY <1>5, <1>6, <2>1, <2>2, <2>3
  <1> HIDE DEF step
  <1>8. PICK g \in [0..n -> V] : Recursive(g, 0, n, none, step)
    <2>1. StaysIn(V, 0, n, none, step)
      BY <1>6, <1>7 DEF StaysIn
    <2>2. 0 \in Nat /\ 0 <= n
      OBVIOUS
    <2> QED BY <2>1, <2>2, Recursion
  <1>9. g = [i \in 0..n |-> IF i = 0 THEN <<>> ELSE KeepBetter(g[i - 1], sorted[i])]
    <2>1. \A i \in 0..n : i # 0 => g[i - 1] \in V /\ i \in 1..n
      OBVIOUS
    <2> QED BY <1>1, <1>7, <1>8, <2>1 DEF Recursive
  <1>10. fold = [i \in 0..n |-> IF i = 0 THEN <<>> ELSE KeepBetter(fold[i - 1], sorted[i])]
    BY <1>1, <1>9
  <1> HIDE DEF fold
  <1> DEFINE P == {i \in 0..n : fold[i] \in V}
  <1>11. 0 \in P
    BY <1>1, <1>6, <1>10
  <1>12. ASSUME NEW i \in 0..n, i > 0 /\ i - 1 \in P
         PROVE  i \in P
    <2>1. i # 0 /\ i \in 1..n /\ fold[i - 1] \in V
      BY <1>12
    <2>2. fold[i] = KeepBetter(fold[i - 1], sorted[i])
      BY <1>10, <2>1
    <2> QED BY <1>5, <2>1, <2>2
  <1> HIDE DEF P
  <1>13. \A i \in 0..n : fold[i] \in V
    <2>1. \A i \in 0..n : i \in P
      BY <1>11, <1>12, IntervalInduction
    <2> QED BY <2>1 DEF P
  <1>14. fold \in [0..n -> V]
    BY <1>10, <1>13
  <1>15. Turning(fold, sorted, n)
    <2>1. \A i \in 1..n : i \in 0..n /\ i # 0
      OBVIOUS
    <2> QED BY <1>10, <2>1 DEF Turning
  <1> QED BY <1>1, <1>2, <1>14, <1>15 DEF sorted

LEMMA DeduplicateType ==
  ASSUME NEW T \in SUBSET Good, NEW s \in Seq(T)
  PROVE  Deduplicate(s) \in Seq(T)
  <1>1. PICK f \in [0..Len(s) -> Seq(T)] : Deduplicate(s) = f[Len(s)]
    BY DeduplicateGrows
  <1>2. Len(s) \in 0..Len(s)
    OBVIOUS
  <1> QED BY <1>1, <1>2

-----------------------------------------------------------------------------
(* What the recognizers find.                                               *)

LEMMA SeqIn ==
  ASSUME NEW A, NEW B, NEW s \in Seq(A), \A k \in DOMAIN s : s[k] \in B
  PROVE  s \in Seq(B)
  <1>1. PICK n \in Nat : n = Len(s) /\ DOMAIN s = 1..n /\ s \in [1..n -> A]
    OBVIOUS
  <1>2. s \in [1..n -> B]
    BY <1>1
  <1>3. \A f \in [1..n -> B] : f \in Seq(B)
    OBVIOUS
  <1> QED BY <1>2, <1>3

LEMMA OrdersType ==
  /\ Ranked \in Seq(Recognizers) /\ FastOnes \in Seq(Recognizers)
  /\ HeavyOnes \in Seq(Recognizers)
  /\ \A S : Among(HeavyOnes, S) \in Seq(Recognizers)
  <1>1. PICK n \in Nat : n = Len(Registry) /\ Recognizers = 1..n
    BY PipelineAssumption DEF Recognizers
  <1> DEFINE ids == [i \in Recognizers |-> i]
             key == [i \in Recognizers |-> -Registry[i].priority]
  <1>2. ids \in Seq(Recognizers) /\ Len(ids) = n
    BY <1>1
  <1>3. ASSUME NEW i \in Recognizers
        PROVE  Registry[i].priority \in Nat
    <2> DEFINE R == [types : SUBSET EntityTypes, priority : Nat]
    <2>1. Registry \in Seq(R)
      BY PipelineAssumption
    <2>2. \A r \in R : r.priority \in Nat
      OBVIOUS
    <2> HIDE DEF R
    <2>3. Registry[i] \in R
      BY <2>1, <1>1
    <2> QED BY <2>2, <2>3
  <1>4. key \in [1..Len(ids) -> Int]
    <2>1. \A i \in 1..n : -Registry[i].priority \in Int
      BY <1>1, <1>3
    <2> QED BY <1>1, <1>2, <2>1
  <1>5. Ranked = Sorted(ids, key)
    BY DEF Ranked
  <1> HIDE DEF ids, key
  <1>6. Ranked \in Seq(Recognizers)
    BY <1>2, <1>4, <1>5, SortedFacts
  <1>7. ASSUME NEW s \in Seq(Recognizers), NEW S
        PROVE  Among(s, S) \in Seq(Recognizers)
    <2>1. Among(s, S) \in Seq(Recognizers \cap S)
      BY AmongType
    <2>2. \A k \in DOMAIN Among(s, S) : Among(s, S)[k] \in Recognizers
      BY <2>1
    <2> QED BY <2>1, <2>2, SeqIn
  <1>8. FastOnes \in Seq(Recognizers) /\ HeavyOnes \in Seq(Recognizers)
    BY <1>6, <1>7 DEF FastOnes, HeavyOnes
  <1> QED BY <1>6, <1>7, <1>8

LEMMA OneFinds ==
  ASSUME NEW s \in Scenarios, NEW c \in Calls, NEW i \in Recognizers
  PROVE  Findings(s[c], i) \in Seq(Within(s[c].length))
  <1> DEFINE T == Within(s[c].length)
  <1>1. T \in SUBSET Good
    BY DEF Within
  <1>2. s[c].matches \in [Recognizers -> Seq(Detections)]
    BY PipelineAssumption DEF Texts
  <1>3. s[c].matches[i] \in Seq(Detections)
    BY <1>2
  <1>4. \A k \in DOMAIN s[c].matches[i] : s[c].matches[i][k] \in T
    BY <1>3, PipelineAssumption DEF Good, Within
  <1>5. s[c].matches[i] \in Seq(T)
    BY <1>3, <1>4, SeqIn
  <1> HIDE DEF T
  <1>6. Deduplicate(s[c].matches[i]) \in Seq(T)
    BY <1>1, <1>5, DeduplicateType
  <1> DEFINE S == {d \in Detections : d.score >= Threshold}
  <1>7. Findings(s[c], i) \in Seq(T \cap S)
    BY <1>6, AmongType DEF Findings
  <1>8. \A k \in DOMAIN Findings(s[c], i) : Findings(s[c], i)[k] \in T
    BY <1>7
  <1>9. Findings(s[c], i) \in Seq(T)
    BY <1>7, <1>8, SeqIn
  <1> QED BY <1>9 DEF T

LEMMA FindingsWithin ==
  ASSUME NEW s \in Scenarios, NEW c \in Calls, NEW order \in Seq(Recognizers)
  PROVE  FindingsOf(s[c], order) \in Seq(Within(s[c].length))
  <1> DEFINE T == Within(s[c].length)
  <1>2. \A i \in Recognizers : Findings(s[c], i) \in Seq(T)
    BY OneFinds
  <1> HIDE DEF T
  <1>3. PICK n \in Nat : n = Len(order) /\ DOMAIN order = 1..n
    OBVIOUS
  <1>4. \A k \in 1..n : Findings(s[c], order[k]) \in Seq(T)
    BY <1>2, <1>3
  <1> DEFINE all == [k \in DOMAIN order |-> Findings(s[c], order[k])]
  <1>5. all \in [1..n -> Seq(T)]
    BY <1>3, <1>4
  <1>6. FindingsOf(s[c], order) = FlattenSeq(all)
    BY DEF FindingsOf
  <1> HIDE DEF all
  <1> QED BY <1>5, <1>6, FlattenType DEF T

LEMMA FindingsType ==
  ASSUME NEW s \in Scenarios, NEW c \in Calls, NEW order \in Seq(Recognizers)
  PROVE  FindingsOf(s[c], order) \in Seq(Good)
  <1>1. FindingsOf(s[c], order) \in Seq(Within(s[c].length))
    BY FindingsWithin
  <1>2. \A k \in DOMAIN FindingsOf(s[c], order) : FindingsOf(s[c], order)[k] \in Good
    BY <1>1 DEF Within
  <1> QED BY <1>1, <1>2, SeqIn

LEMMA BoostedFacts ==
  ASSUME NEW d \in Good
  PROVE  Boosted(d) \in Good /\ Boosted(d).start = d.start /\ Boosted(d).end = d.end
  <1>1. d.score \in 0..100
    BY PlaceFacts
  <1>2. PICK x \in 0..100 : Boosted(d) = d \/ Boosted(d) = [d EXCEPT !.score = x]
    <2>1. PICK a \in 0..100 : a = d.score
      BY <1>1
    <2>2. (IF a > 95 THEN 100 ELSE a + 5) \in 0..100
      OBVIOUS
    <2> QED BY <2>1, <2>2 DEF Boosted
  <1> DEFINE e == [d EXCEPT !.score = x]
  <1>3. e \in Good /\ e.start = d.start /\ e.end = d.end
    <2>1. d \in Detections /\ d.start < d.end /\ x \in Scores
      BY DEF Good, Scores
    <2>2. e \in Detections /\ e.start = d.start /\ e.end = d.end
      BY <2>1 DEF Detections
    <2> HIDE DEF e
    <2> QED BY <2>1, <2>2 DEF Good
  <1> HIDE DEF e
  <1> QED BY <1>2, <1>3 DEF e

LEMMA BoostedWithin ==
  ASSUME NEW N, NEW s \in Seq(Within(N))
  PROVE  [k \in DOMAIN s |-> Boosted(s[k])] \in Seq(Within(N))
  <1>1. PICK n \in Nat : n = Len(s) /\ DOMAIN s = 1..n
    OBVIOUS
  <1>2. \A k \in 1..n : Boosted(s[k]) \in Within(N)
    BY <1>1, BoostedFacts DEF Within
  <1> QED BY <1>1, <1>2

LEMMA BoostedType ==
  ASSUME NEW s \in Seq(Good)
  PROVE  [k \in DOMAIN s |-> Boosted(s[k])] \in Seq(Good)
  <1>1. PICK n \in Nat : n = Len(s) /\ DOMAIN s = 1..n
    OBVIOUS
  <1>2. \A k \in 1..n : Boosted(s[k]) \in Good
    BY <1>1, BoostedFacts
  <1> QED BY <1>1, <1>2
-----------------------------------------------------------------------------
(* The loop that drops overlaps.                                            *)

Disjoint(s) == \A i, j \in DOMAIN s : i < j => s[i].end <= s[j].start

Beats(s, d) == \A e \in ToSet(s) : Overlap(d, e) => e = d \/ e.score < d.score

\* What is kept is among the first n of s, and has those that beat all others.
From(k, s, n) == \A i \in DOMAIN k : \E m \in 1..n : k[i] = s[m]
Covers(k, s, n) == \A m \in 1..n : Beats(s, s[m]) => s[m] \in ToSet(k)

LEMMA KeepBetterStep ==
  ASSUME NEW s \in Seq(Good), InOrder(s), NEW n \in Nat, n < Len(s),
         NEW k \in Seq(Good), Disjoint(k), From(k, s, n), Covers(k, s, n)
  PROVE  LET k2 == KeepBetter(k, s[n + 1])
         IN  k2 \in Seq(Good) /\ Disjoint(k2) /\ From(k2, s, n + 1) /\ Covers(k2, s, n + 1)
  <1> DEFINE d == s[n + 1]
             k2 == KeepBetter(k, d)
  <1>1. PICK N \in Nat, K \in Nat :
          N = Len(s) /\ DOMAIN s = 1..N /\ K = Len(k) /\ DOMAIN k = 1..K
    OBVIOUS
  <1>2. n + 1 \in 1..N /\ d \in Good /\ \A m \in 1..n : m \in 1..N
    BY <1>1
  <1>3. /\ \A m \in 1..N : s[m].start \in Nat /\ s[m].end \in Nat /\ s[m].score \in Int
                           /\ s[m].start < s[m].end
        /\ \A i \in 1..K : k[i].start \in Nat /\ k[i].end \in Nat /\ k[i].score \in Int
                           /\ k[i].start < k[i].end
    <2>1. (\A m \in 1..N : s[m] \in Good) /\ \A i \in 1..K : k[i] \in Good
      BY <1>1
    <2> QED BY <2>1, PlaceFacts
  <1>4. ASSUME NEW i \in 1..K
        PROVE  k[i].start <= d.start
    <2>1. PICK m \in 1..n : k[i] = s[m]
      BY <1>1 DEF From
    <2>2. m \in 1..N /\ m < n + 1
      BY <1>2
    <2>3. s[m].start <= s[n + 1].start
      BY <1>1, <1>2, <2>2 DEF InOrder
    <2> QED BY <2>1, <2>3
  <1>5. \A i, j \in 1..K : i < j => k[i].end <= k[j].start
    BY <1>1 DEF Disjoint
  <1>6. k2 \in Seq(Good)
    BY <1>2, KeepBetterType
  <1> HIDE DEF d, k2
  <1>7. CASE k = <<>> \/ d.start >= Last(k).end
    <2>1. k2 = Append(k, d)
      BY <1>7 DEF k2, KeepBetter
    <2>2. /\ Len(k2) = K + 1 /\ DOMAIN k2 = 1..(K + 1) /\ k2[K + 1] = d
          /\ \A i \in 1..K : k2[i] = k[i]
      BY <1>1, <2>1
    <2>3. \A i \in 1..K : k[i].end <= d.start
      <3>1. CASE K = 0
        BY <3>1
      <3>2. CASE K # 0
        <4>1. k[K].end <= d.start /\ K \in 1..K
          <5>1. k # <<>> /\ Last(k) = k[K]
            BY <1>1, <3>2 DEF Last
          <5>2. k[K].end \in Nat /\ d.start \in Nat
            BY <1>2, <1>3, <3>2, PlaceFacts
          <5> QED BY <1>7, <3>2, <5>1, <5>2
        <4> SUFFICES ASSUME NEW i \in 1..K PROVE k[i].end <= d.start
          OBVIOUS
        <4>2. i = K \/ k[i].end <= k[K].start
          BY <1>5, <4>1
        <4>3. /\ k[i].end \in Nat /\ k[K].start \in Nat /\ k[K].end \in Nat
              /\ k[K].start < k[K].end /\ d.start \in Nat
          BY <1>2, <1>3, <4>1, PlaceFacts
        <4> QED BY <4>1, <4>2, <4>3
      <3> QED BY <3>1, <3>2
    <2>4. Disjoint(k2)
      BY <1>5, <2>2, <2>3 DEF Disjoint
    <2>5. From(k2, s, n + 1)
      <3>1. \A i \in 1..K : \E m \in 1..(n + 1) : k[i] = s[m]
        BY <1>1 DEF From
      <3>2. n + 1 \in 1..(n + 1) /\ d = s[n + 1]
        BY DEF d
      <3> QED BY <2>2, <3>1, <3>2 DEF From
    <2>6. Covers(k2, s, n + 1)
      <3>1. ToSet(k2) = ToSet(k) \cup {d}
        BY <1>1, <2>2 DEF ToSet
      <3>2. \A m \in 1..(n + 1) : m \in 1..n \/ s[m] = d
        BY DEF d
      <3> QED BY <3>1, <3>2 DEF Covers
    <2> QED BY <1>6, <2>4, <2>5, <2>6 DEF k2, d
  <1>8. CASE ~(k = <<>> \/ d.start >= Last(k).end)
    <2> DEFINE last == k[K]
    <2>1. K \in 1..K /\ Last(k) = last
      BY <1>1, <1>8 DEF Last
    <2>2. last \in Good /\ last.start \in Nat /\ last.end \in Nat /\ last.score \in Int
      BY <1>1, <2>1, PlaceFacts
    <2>3. PICK at \in 1..n : last = s[at]
      BY <1>1, <2>1 DEF From
    <2>4. d.start \in Nat /\ d.end \in Nat /\ d.score \in Int /\ d.start < d.end
      BY <1>2, PlaceFacts
    <2>5. Overlap(last, d) /\ Overlap(d, last)
      <3>1. last.start <= d.start /\ d.start < last.end
        BY <1>4, <1>8, <2>1, <2>2, <2>4
      <3> QED BY <2>2, <2>4, <3>1 DEF Overlap
    <2>6. last \in ToSet(s) /\ d \in ToSet(s)
      BY <1>1, <1>2, <2>3 DEF ToSet, d
    <2>7. CASE d.score > last.score
      <3>1. k2 = [k EXCEPT ![K] = d]
        BY <1>1, <1>8, <2>1, <2>7 DEF k2, KeepBetter
      <3>2. /\ DOMAIN k2 = 1..K /\ k2[K] = d
            /\ \A i \in 1..K : i # K => k2[i] = k[i]
        BY <1>1, <2>1, <3>1
      <3>3. \A i \in 1..K : i # K => k[i].end <= d.start
        <4>1. \A i \in 1..K : i # K => k[i].end <= last.start
          BY <1>5, <2>1
        <4>2. last.start <= d.start
          BY <1>4, <2>1
        <4> SUFFICES ASSUME NEW i \in 1..K, i # K PROVE k[i].end <= d.start
          OBVIOUS
        <4>3. k[i].end \in Nat /\ k[i].end <= last.start
          BY <1>3, <4>1
        <4> QED BY <2>2, <2>4, <4>2, <4>3
      <3>4. Disjoint(k2)
        <4> SUFFICES ASSUME NEW i \in 1..K, NEW j \in 1..K, i < j
                     PROVE  k2[i].end <= k2[j].start
          BY <3>2 DEF Disjoint
        <4>1. i # K /\ k2[i] = k[i]
          BY <3>2
        <4> QED BY <1>5, <3>2, <3>3, <4>1
      <3>5. From(k2, s, n + 1)
        <4>1. \A i \in 1..K : \E m \in 1..(n + 1) : k[i] = s[m]
          BY <1>1 DEF From
        <4>2. n + 1 \in 1..(n + 1) /\ d = s[n + 1]
          BY DEF d
        <4> QED BY <3>2, <4>1, <4>2 DEF From
      <3>6. ~Beats(s, last)
        BY <2>2, <2>4, <2>5, <2>6, <2>7 DEF Beats
      <3>7. ToSet(k) \subseteq ToSet(k2) \cup {last} /\ d \in ToSet(k2)
        BY <1>1, <2>1, <3>2 DEF ToSet
      <3>8. Covers(k2, s, n + 1)
        <4>1. \A m \in 1..(n + 1) : m \in 1..n \/ s[m] = d
          BY DEF d
        <4> QED BY <3>6, <3>7, <4>1 DEF Covers
      <3> QED BY <1>6, <3>4, <3>5, <3>8 DEF k2, d
    <2>8. CASE ~(d.score > last.score)
      <3>1. k2 = k
        BY <1>8, <2>1, <2>8 DEF k2, KeepBetter
      <3>2. From(k, s, n + 1)
        BY DEF From
      <3>3. Beats(s, d) => d = last
        BY <2>2, <2>4, <2>5, <2>6, <2>8 DEF Beats
      <3>4. last \in ToSet(k)
        BY <1>1, <2>1 DEF ToSet
      <3>5. Covers(k, s, n + 1)
        <4>1. \A m \in 1..(n + 1) : m \in 1..n \/ s[m] = d
          BY DEF d
        <4> QED BY <3>3, <3>4, <4>1 DEF Covers
      <3> QED BY <1>6, <3>1, <3>2, <3>5 DEF k2, d
    <2> QED BY <2>7, <2>8
  <1> QED BY <1>7, <1>8
-----------------------------------------------------------------------------
(* The invariant.                                                           *)

\* TypeOK, with lists of detections that cover something.
Typed ==
  /\ text \in Scenarios /\ bypass \in BOOLEAN
  /\ mode \in [Calls -> {"none", "mask", "mask_async"}]
  /\ pc \in [Calls -> Labels]
  /\ listed \in [Calls -> Seq(Good)]
  /\ answered \in [Calls -> SUBSET Recognizers]
  /\ raised \in [Calls -> SUBSET Recognizers]
  /\ executor \in 0..MaxShutdowns + 1 /\ made \in 0..MaxShutdowns + 1
  /\ queue \in [Pools -> Seq(Calls \X Recognizers)]
  /\ busy \in [Pools -> SUBSET (Calls \X Recognizers)]
  /\ cursor \in [Calls -> Nat]
  /\ kept \in [Calls -> Seq(Good)]
  /\ loop \in Calls \cup {Nobody}
  /\ faults \in 0..MaxFaults /\ shutdowns \in 0..MaxShutdowns

\* There are at most as many pools as shutdowns allow.
PoolsHold == /\ executor <= made /\ made <= shutdowns + 1
             /\ executor = 0 => made <= shutdowns

\* Call at p, with the list l, what is kept of it k and the cursor m.
CallHolds(p, l, k, m) ==
  /\ Disjoint(k)
  /\ p \in {"idle", "gather", "sort", "failed"} => k = <<>>
  /\ p = "idle" => l = <<>>
  /\ p = "resolve" => /\ InOrder(l) /\ m \in 1..Len(l) + 1
                      /\ From(k, l, m - 1) /\ Covers(k, l, m - 1)
  /\ p \in {"splice", "done"} => Covers(k, l, Len(l))

CallsHold == \A c \in Calls : CallHolds(pc[c], listed[c], kept[c], cursor[c])

IInv == Typed /\ PoolsHold /\ CallsHold

LEMMA InitHolds == Init => IInv
  <1> SUFFICES ASSUME Init PROVE IInv
    OBVIOUS
  <1> USE PipelineAssumption DEF Init
  <1>1. \A e \in Pools : <<>> \in Seq(Calls \X Recognizers)
    OBVIOUS
  <1>2. <<>> \in Seq(Good) /\ 0 \in 0..MaxFaults /\ 0 \in 0..MaxShutdowns
        /\ 0 \in 0..MaxShutdowns + 1 /\ 0 \in Nat
    OBVIOUS
  <1>3. /\ mode \in [Calls -> {"none", "mask", "mask_async"}] /\ pc \in [Calls -> Labels]
        /\ answered \in [Calls -> SUBSET Recognizers]
        /\ raised \in [Calls -> SUBSET Recognizers]
    BY DEF Labels
  <1>4. listed \in [Calls -> Seq(Good)] /\ kept \in [Calls -> Seq(Good)]
    BY <1>2
  <1>5. /\ queue \in [Pools -> Seq(Calls \X Recognizers)]
        /\ busy \in [Pools -> SUBSET (Calls \X Recognizers)]
        /\ cursor \in [Calls -> Nat]
    BY <1>1
  <1>6. Typed
    BY <1>2, <1>3, <1>4, <1>5 DEF Typed
  <1>7. CallsHold
    <2>1. Disjoint(<<>>)
      BY DEF Disjoint
    <2> QED BY <2>1 DEF CallsHold, CallHolds
  <1> QED BY <1>6, <1>7 DEF IInv, PoolsHold

LEMMA TypedIsTypeOK == Typed => TypeOK
  <1>1. \A s \in Seq(Good) : s \in Seq(Detections)
    <2> SUFFICES ASSUME NEW s \in Seq(Good) PROVE s \in Seq(Detections)
      OBVIOUS
    <2>1. \A k \in DOMAIN s : s[k] \in Detections
      BY DEF Good
    <2> QED BY <2>1, SeqIn
  <1>2. \A f \in [Calls -> Seq(Good)] : f \in [Calls -> Seq(Detections)]
    BY <1>1
  <1> QED BY <1>2 DEF Typed, TypeOK

\* Everything of IInv that the calls other than c have stays.
LEMMA OtherCalls ==
  ASSUME CallsHold, NEW c \in Calls,
         \A x \in Calls \ {c} : pc'[x] = pc[x] /\ listed'[x] = listed[x]
                               /\ kept'[x] = kept[x] /\ cursor'[x] = cursor[x],
         CallHolds(pc'[c], listed'[c], kept'[c], cursor'[c])
  PROVE  CallsHold'
  <1>1. \A x \in Calls \ {c} : CallHolds(pc'[x], listed'[x], kept'[x], cursor'[x])
    BY DEF CallsHold
  <1>2. \A x \in Calls : CallHolds(pc'[x], listed'[x], kept'[x], cursor'[x])
    BY <1>1
  <1> QED BY <1>2 DEF CallsHold, CallHolds

LEMMA SameCalls ==
  ASSUME CallsHold, UNCHANGED <<pc, listed, kept, cursor>>
  PROVE  CallsHold'
  BY DEF CallsHold, CallHolds, Disjoint, From, Covers, Beats, InOrder

LEMMA StepHolds == IInv /\ [Next]_vars => IInv'
  <1> SUFFICES ASSUME IInv, [Next]_vars PROVE IInv'
    OBVIOUS
  <1> USE PipelineAssumption DEF IInv, Labels
  <1>0. \A x \in Calls : CallHolds(pc[x], listed[x], kept[x], cursor[x])
    BY DEF CallsHold
  <1>1. ASSUME NEW c \in Calls, Bypass(c) PROVE IInv'
    <2> USE <1>1 DEF Bypass, Called, Goto, given, poolVars
    <2>1. Typed'
      BY DEF Typed
    <2>2. CallsHold'
      <3>1. CallHolds("done", listed[c], kept[c], cursor[c])
        BY <1>0 DEF CallHolds, Covers, Typed
      <3> QED BY <3>1, OtherCalls DEF Typed
    <2> QED BY <2>1, <2>2 DEF PoolsHold
  <1>2. ASSUME NEW c \in Calls, Mask(c) PROVE IInv'
    <2> USE <1>2 DEF Mask, Asked, Called, Goto, given, poolVars, loopVars
    <2>1. Typed'
      <3>1. FindingsOf(text[c], Ranked) \in Seq(Good)
        BY FindingsType, OrdersType DEF Typed
      <3> QED BY <3>1 DEF Typed
    <2>2. CallsHold'
      <3>1. CallHolds("sort", FindingsOf(text[c], Ranked), kept[c], cursor[c])
        BY <1>0 DEF CallHolds
      <3> QED BY <3>1, OtherCalls DEF Typed
    <2> QED BY <2>1, <2>2 DEF PoolsHold
  <1>3. ASSUME NEW c \in Calls, MaskAsync(c) PROVE IInv'
    <2> USE <1>3 DEF MaskAsync, Asked, Called, Goto, given, loopVars
    <2>1. FindingsOf(text[c], FastOnes) \in Seq(Good)
      BY FindingsType, OrdersType DEF Typed
    <2>2. CallsHold'
      <3>1. \A p \in {"gather", "sort"} :
              CallHolds(p, FindingsOf(text[c], FastOnes), kept[c], cursor[c])
        BY <1>0 DEF CallHolds
      <3>2. pc'[c] \in {"gather", "sort"} /\ \A x \in Calls \ {c} : pc'[x] = pc[x]
        BY DEF Typed
      <3>3. /\ listed'[c] = FindingsOf(text[c], FastOnes)
            /\ \A x \in Calls \ {c} : listed'[x] = listed[x]
            /\ kept' = kept /\ cursor' = cursor
        BY DEF Typed
      <3>4. CallHolds(pc'[c], listed'[c], kept'[c], cursor'[c])
        BY <3>1, <3>2, <3>3
      <3> HIDE DEF MaskAsync
      <3> QED BY <3>2, <3>3, <3>4, OtherCalls
    <2>3. CASE UNCHANGED poolVars /\ pc' = [pc EXCEPT ![c] = "sort"] /\ loop' = c
      <3>1. Typed'
        BY <2>1, <2>3 DEF Typed, poolVars
      <3> QED BY <2>2, <2>3, <3>1 DEF PoolsHold, poolVars
    <2>4. CASE Submit(c) /\ pc' = [pc EXCEPT ![c] = "gather"] /\ UNCHANGED loop
      <3> DEFINE jobs == [k \in DOMAIN HeavyOnes |-> <<c, HeavyOnes[k]>>]
                 e == IF executor = 0 THEN made + 1 ELSE executor
      <3>1. e \in Pools /\ executor' = e /\ made' = (IF executor = 0 THEN made + 1 ELSE made)
        BY <2>4 DEF Submit, Typed, PoolsHold, Pools
      <3>2. jobs \in Seq(Calls \X Recognizers)
        <4>1. PICK n \in Nat : n = Len(HeavyOnes) /\ DOMAIN HeavyOnes = 1..n
          BY OrdersType
        <4>2. \A k \in 1..n : <<c, HeavyOnes[k]>> \in Calls \X Recognizers
          BY <4>1, OrdersType
        <4> QED BY <4>1, <4>2
      <3>3. queue' = [queue EXCEPT ![e] = @ \o jobs]
        BY <2>4 DEF Submit
      <3> HIDE DEF jobs
      <3>4. queue' \in [Pools -> Seq(Calls \X Recognizers)]
        BY <3>1, <3>2, <3>3 DEF Typed
      <3>5. PoolsHold' /\ executor' \in 0..MaxShutdowns + 1 /\ made' \in 0..MaxShutdowns + 1
        BY <3>1, <2>4 DEF PoolsHold, Typed, Pools
      <3>6. Typed'
        BY <2>1, <2>4, <3>4, <3>5 DEF Typed, Submit
      <3> QED BY <2>2, <3>5, <3>6
    <2> QED BY <2>3, <2>4
  <1>4. ASSUME NEW c \in Calls, MaskRaises(c) PROVE IInv'
    <2> USE <1>4 DEF MaskRaises, Asked, Called, Goto, given, poolVars, loopVars
    <2>1. Typed'
      BY DEF Typed
    <2>2. CallsHold'
      <3>1. CallHolds("failed", listed[c], kept[c], cursor[c])
        BY <1>0 DEF CallHolds
      <3> QED BY <3>1, OtherCalls DEF Typed
    <2> QED BY <2>1, <2>2 DEF PoolsHold
  <1>5. ASSUME NEW c \in Calls, Gather(c) PROVE IInv'
    <2> USE <1>5 DEF Gather, Goto, given, poolVars, loopVars
    <2> DEFINE heard == Among(HeavyOnes, Recognizers \ raised[c])
               more == FindingsOf(text[c], heard)
    <2>1. more \in Seq(Good)
      BY FindingsType, OrdersType DEF Typed
    <2>2. listed' = [listed EXCEPT ![c] = @ \o more]
      OBVIOUS
    <2> HIDE DEF more
    <2>3. Typed'
      <3>1. listed[c] \o more \in Seq(Good)
        BY <2>1 DEF Typed
      <3>2. listed' \in [Calls -> Seq(Good)]
        BY <2>2, <3>1 DEF Typed
      <3> QED BY <3>2 DEF Typed
    <2>4. CallsHold'
      <3>1. CallHolds("sort", listed[c] \o more, kept[c], cursor[c])
        BY <1>0 DEF CallHolds
      <3>2. /\ pc'[c] = "sort" /\ listed'[c] = listed[c] \o more
            /\ \A x \in Calls \ {c} : pc'[x] = pc[x] /\ listed'[x] = listed[x]
            /\ kept' = kept /\ cursor' = cursor
        BY <2>2 DEF Typed
      <3>3. CallHolds(pc'[c], listed'[c], kept'[c], cursor'[c])
        BY <3>1, <3>2
      <3> HIDE DEF Gather
      <3> QED BY <3>2, <3>3, OtherCalls
    <2> QED BY <2>3, <2>4 DEF PoolsHold
  <1>6. ASSUME NEW c \in Calls, Sort(c) PROVE IInv'
    <2> USE <1>6 DEF Sort, Goto, given, poolVars
    <2> DEFINE boosted == [k \in DOMAIN listed[c] |-> Boosted(listed[c][k])]
               ordered == InPlace(boosted)
    <2>1. ordered \in Seq(Good) /\ InOrder(ordered)
      <3>1. boosted \in Seq(Good)
        BY BoostedType DEF Typed
      <3> HIDE DEF boosted
      <3> QED BY <3>1, InPlaceFacts
    <2>2. listed' = [listed EXCEPT ![c] = ordered]
      BY DEF Typed
    <2> HIDE DEF ordered
    <2>3. Typed'
      BY <2>1, <2>2 DEF Typed
    <2>4. CallsHold'
      <3>1. kept[c] = <<>> /\ Disjoint(kept[c])
        BY <1>0 DEF CallHolds
      <3>2. CallHolds("resolve", ordered, kept[c], 1)
        <4>1. From(<<>>, ordered, 0) /\ Covers(<<>>, ordered, 0)
          BY DEF From, Covers
        <4>2. 1 \in 1..Len(ordered) + 1
          BY <2>1
        <4> QED BY <2>1, <3>1, <4>1, <4>2 DEF CallHolds
      <3>3. /\ pc'[c] = "resolve" /\ listed'[c] = ordered /\ cursor'[c] = 1
            /\ \A x \in Calls \ {c} : pc'[x] = pc[x] /\ listed'[x] = listed[x]
                                      /\ cursor'[x] = cursor[x]
            /\ kept' = kept
        BY <2>2 DEF Typed
      <3>4. CallHolds(pc'[c], listed'[c], kept'[c], cursor'[c])
        BY <3>2, <3>3
      <3> HIDE DEF Sort
      <3> QED BY <3>3, <3>4, OtherCalls
    <2> QED BY <2>3, <2>4 DEF PoolsHold
  <1>7. ASSUME NEW c \in Calls, Resolve(c) PROVE IInv'
    <2> USE <1>7 DEF Resolve, given, poolVars
    <2> DEFINE n == cursor[c] - 1
               k2 == KeepBetter(kept[c], listed[c][n + 1])
    <2>1. /\ listed[c] \in Seq(Good) /\ kept[c] \in Seq(Good) /\ cursor[c] \in Nat
          /\ CallHolds("resolve", listed[c], kept[c], cursor[c])
      BY <1>0 DEF Typed
    <2>2. n \in Nat /\ n < Len(listed[c]) /\ n + 1 = cursor[c] /\ cursor[c] + 1 - 1 = n + 1
          /\ cursor[c] + 1 \in 1..Len(listed[c]) + 1 /\ cursor[c] + 1 \in Nat
      BY <2>1 DEF CallHolds
    <2>3. /\ k2 \in Seq(Good) /\ Disjoint(k2)
          /\ From(k2, listed[c], n + 1) /\ Covers(k2, listed[c], n + 1)
      BY <2>1, <2>2, KeepBetterStep DEF CallHolds
    <2>4. kept' = [kept EXCEPT ![c] = k2] /\ cursor' = [cursor EXCEPT ![c] = cursor[c] + 1]
      BY <2>2 DEF Typed
    <2>5. CallHolds("resolve", listed[c], k2, cursor[c] + 1)
      BY <2>1, <2>2, <2>3 DEF CallHolds
    <2> HIDE DEF k2
    <2>6. Typed'
      <3>1. kept' \in [Calls -> Seq(Good)]
        BY <2>3, <2>4 DEF Typed
      <3>2. cursor' \in [Calls -> Nat]
        BY <2>2, <2>4 DEF Typed
      <3> QED BY <3>1, <3>2 DEF Typed
    <2>7. CallsHold'
      BY <2>4, <2>5, OtherCalls DEF Typed
    <2> QED BY <2>6, <2>7 DEF PoolsHold
  <1>8. ASSUME NEW c \in Calls, Resolved(c) PROVE IInv'
    <2> USE <1>8 DEF Resolved, Goto, given, poolVars
    <2>1. /\ listed[c] \in Seq(Good) /\ kept[c] \in Seq(Good) /\ cursor[c] \in Nat
          /\ CallHolds("resolve", listed[c], kept[c], cursor[c])
      BY <1>0 DEF Typed
    <2>2. cursor[c] - 1 = Len(listed[c])
      BY <2>1 DEF CallHolds
    <2>3. CallHolds("splice", listed[c], kept[c], Len(kept[c]))
      BY <2>1, <2>2 DEF CallHolds
    <2>4. Typed'
      BY <2>1 DEF Typed
    <2>5. CallsHold'
      BY <2>3, OtherCalls DEF Typed
    <2> QED BY <2>4, <2>5 DEF PoolsHold
  <1>9. ASSUME NEW c \in Calls, Splice(c) PROVE IInv'
    <2> USE <1>9 DEF Splice, given, poolVars
    <2>1. Typed'
      BY DEF Typed
    <2>2. CallsHold'
      <3>1. CallHolds("splice", listed[c], kept[c], cursor[c] - 1)
        BY <1>0 DEF CallHolds
      <3> QED BY <3>1, OtherCalls DEF Typed
    <2> QED BY <2>1, <2>2 DEF PoolsHold
  <1>10. ASSUME NEW c \in Calls, Return(c) PROVE IInv'
    <2> USE <1>10 DEF Return, Goto, given, poolVars, loopVars
    <2>1. Typed'
      BY DEF Typed
    <2>2. CallsHold'
      <3>1. CallHolds("done", listed[c], kept[c], cursor[c])
        BY <1>0 DEF CallHolds
      <3> QED BY <3>1, OtherCalls DEF Typed
    <2> QED BY <2>1, <2>2 DEF PoolsHold
  <1>11. ASSUME NEW e \in Pools, StartJob(e) PROVE IInv'
    <2> USE <1>11 DEF StartJob, given, loopVars
    <2>1. queue[e] \in Seq(Calls \X Recognizers) /\ queue[e] # <<>>
      BY DEF Typed
    <2>2. Head(queue[e]) \in Calls \X Recognizers
          /\ Tail(queue[e]) \in Seq(Calls \X Recognizers)
      BY <2>1
    <2>3. Typed'
      BY <2>2 DEF Typed
    <2> QED BY <2>3, SameCalls DEF PoolsHold
  <1>12. ASSUME NEW e \in Pools, NEW c \in Calls, NEW i \in Recognizers, FinishJob(e, c, i)
         PROVE  IInv'
    <2> USE <1>12 DEF FinishJob, given, loopVars
    <2>1. Typed'
      <3>1. busy' \in [Pools -> SUBSET (Calls \X Recognizers)]
        <4>1. busy[e] \ {<<c, i>>} \in SUBSET (Calls \X Recognizers)
          BY DEF Typed
        <4> QED BY <4>1 DEF Typed
      <3>2. answered' \in [Calls -> SUBSET Recognizers]
        BY DEF Typed
      <3>3. raised' \in [Calls -> SUBSET Recognizers] /\ faults' \in 0..MaxFaults
        <4>1. CASE UNCHANGED <<raised, faults>>
          BY <4>1 DEF Typed
        <4>2. CASE /\ faults < MaxFaults /\ faults' = faults + 1
                   /\ raised' = [raised EXCEPT ![c] = @ \cup {i}]
          BY <4>2 DEF Typed
        <4> QED BY <4>1, <4>2
      <3> QED BY <3>1, <3>2, <3>3 DEF Typed
    <2> QED BY <2>1, SameCalls DEF PoolsHold
  <1>13. CASE Shutdown
    <2> USE <1>13 DEF Shutdown, given, loopVars
    <2>1. Typed'
      BY DEF Typed
    <2>2. PoolsHold'
      BY DEF PoolsHold, Typed
    <2> QED BY <2>1, <2>2, SameCalls
  <1>14. CASE UNCHANGED vars
    <2> USE <1>14 DEF vars, given, poolVars, loopVars
    <2>1. Typed'
      BY DEF Typed
    <2> QED BY <2>1, SameCalls DEF PoolsHold
  <1> QED
    BY <1>1, <1>2, <1>3, <1>4, <1>5, <1>6, <1>7, <1>8, <1>9, <1>10, <1>11, <1>12, <1>13, <1>14
       DEF Next, Goes, Works

LEMMA AlwaysIInv == Spec => []IInv
  BY InitHolds, StepHolds, PTL DEF Spec

\* Every variable of the calls and of the pools keeps its type.
THEOREM WellTyped == Spec => []TypeOK
  <1>1. IInv => TypeOK
    BY TypedIsTypeOK DEF IInv
  <1> QED BY <1>1, AlwaysIInv, PTL

\* What a call is to replace never overlaps.
THEOREM Disjointness == Spec => []KeptDisjoint
  <1>1. IInv => KeptDisjoint
    BY DEF IInv, CallsHold, CallHolds, Disjoint, KeptDisjoint
  <1> QED BY <1>1, AlwaysIInv, PTL

\* A detection that beats everything it overlaps with is replaced.
THEOREM BestKept == Spec => []BestIsKept
  <1>1. IInv => BestIsKept
    <2> SUFFICES ASSUME IInv, NEW c \in Calls, pc[c] \in {"splice", "done"},
                        NEW d \in ToSet(listed[c]), Best(c, d)
                 PROVE  d \in ToSet(kept[c])
      BY DEF BestIsKept
    <2>1. Covers(kept[c], listed[c], Len(listed[c]))
      BY DEF IInv, CallsHold, CallHolds
    <2>2. PICK m \in 1..Len(listed[c]) : d = listed[c][m]
      BY DEF ToSet, IInv, Typed
    <2>3. Beats(listed[c], d)
      BY DEF Best, Beats
    <2> QED BY <2>1, <2>2, <2>3 DEF Covers
  <1> QED BY <1>1, AlwaysIInv, PTL
-----------------------------------------------------------------------------
(* Replacing from the last detection to the first: the masked text is the    *)
(* concatenation of its cells, and a replacement changes those it covers.    *)

\* s with tok in the place of what is between its first a and first b elements.
Put(s, a, tok, b) == SubSeq(s, 1, a) \o <<tok>> \o SubSeq(s, b + 1, Len(s))

LEMMA CatAssociates ==
  ASSUME NEW T, NEW x \in Seq(T), NEW y \in Seq(T), NEW z \in Seq(T)
  PROVE  Cat(Cat(x, y), z) = Cat(x, Cat(y, z))
  <1>1. (x \o y) \o z = x \o (y \o z)
    OBVIOUS
  <1> QED BY <1>1, Zenon DEF Cat

LEMMA SubSeqStays ==
  ASSUME NEW T, NEW x \in Seq(T), NEW y \in Seq(T), NEW a \in Nat, a <= Len(x)
  PROVE  SubSeq(x \o y, 1, a) = SubSeq(x, 1, a)
  <1>1. PICK n \in Nat, l \in Nat : n = Len(x) /\ l = Len(y)
    OBVIOUS
  <1> DEFINE z == x \o y
             u == SubSeq(x, 1, a)
  <1>2. z \in Seq(T) /\ Len(z) = n + l /\ \A i \in 1..n : z[i] = x[i]
    BY <1>1
  <1>3. u \in Seq(T) /\ Len(u) = a /\ \A i \in 1..a : u[i] = x[i]
    BY <1>1
  <1> HIDE DEF z, u
  <1>4. SubSeq(z, 1, a) \in Seq(T) /\ Len(SubSeq(z, 1, a)) = a
        /\ \A i \in 1..a : SubSeq(z, 1, a)[i] = z[i]
    BY <1>1, <1>2
  <1>5. \A i \in 1..a : i \in 1..n
    BY <1>1
  <1>6. \A i \in 1..a : SubSeq(z, 1, a)[i] = u[i]
    BY <1>2, <1>3, <1>4, <1>5
  <1>7. SubSeq(z, 1, a) = u
    BY <1>3, <1>4, <1>6, SeqEqual
  <1> QED BY <1>7 DEF z, u

LEMMA PutBefore ==
  ASSUME NEW T, NEW x \in Seq(T), NEW y \in Seq(T), NEW tok \in T, NEW a \in Nat, NEW b \in Nat,
         a < b, b <= Len(x)
  PROVE  Put(Cat(x, y), a, tok, b) = Cat(Put(x, a, tok, b), y)
  <1>1. PICK n \in Nat : n = Len(x)
    OBVIOUS
  <1> DEFINE u == SubSeq(x, 1, a)
             v == SubSeq(x, b + 1, n)
  <1>2. u \in Seq(T) /\ Len(u) = a /\ \A i \in 1..a : u[i] = x[i]
    BY <1>1
  <1>3. v \in Seq(T) /\ Len(v) = n - b /\ \A i \in 1..n - b : v[i] = x[b + i]
    BY <1>1
  <1>4. <<tok>> \in Seq(T)
    OBVIOUS
  <1>5. Put(x, a, tok, b) = u \o <<tok>> \o v
    BY <1>1 DEF Put
  <1> HIDE DEF u, v
  <1>6. u \o <<tok>> \in Seq(T) /\ u \o <<tok>> \o v \in Seq(T)
    BY <1>2, <1>3, <1>4, ConcatProperties
  <1>7. Put(x \o y, a, tok, b) = u \o <<tok>> \o v \o y
    <2>1. PICK l \in Nat : l = Len(y)
      OBVIOUS
    <2> DEFINE z == x \o y
    <2>2. /\ z \in Seq(T) /\ Len(z) = n + l
          /\ \A i \in 1..n : z[i] = x[i]
          /\ \A i \in 1..l : z[n + i] = y[i]
      BY <1>1, <2>1
    <2> HIDE DEF z
    <2>3. SubSeq(z, 1, a) = u
      BY SubSeqStays DEF z, u
    <2>4. SubSeq(z, b + 1, n + l) = v \o y
      <3> DEFINE w == SubSeq(z, b + 1, n + l)
      <3> HIDE DEF w
      <3>1. w \in Seq(T) /\ Len(w) = n + l - b /\ \A i \in 1..n + l - b : w[i] = z[b + i]
        <4>1. PICK m \in Nat : m = b + 1
          OBVIOUS
        <4>2. PICK N \in Nat : N = n + l
          BY <1>1, <2>1
        <4>3. m <= N + 1 /\ N - m + 1 = n + l - b /\ N = Len(z)
              /\ \A i \in 1..N - m + 1 : m + i - 1 = b + i
          BY <1>1, <2>1, <2>2, <4>1, <4>2
        <4>4. \A j \in m..N : z[j] \in T
          BY <2>2, <4>1, <4>3
        <4>5. /\ SubSeq(z, m, N) \in Seq(T)
              /\ Len(SubSeq(z, m, N)) = IF m <= N THEN N - m + 1 ELSE 0
              /\ \A i \in 1..N - m + 1 : SubSeq(z, m, N)[i] = z[m + i - 1]
          BY ONLY <4>1, <4>2, <4>4, SubSeqProperties
        <4>6. w = SubSeq(z, m, N)
          BY <4>1, <4>2 DEF w
        <4>7. Len(w) = n + l - b
          BY ONLY <4>1, <4>2, <4>3, <4>5, <4>6
        <4>8. \A i \in 1..n + l - b : w[i] = z[b + i]
          BY ONLY <4>3, <4>5, <4>6
        <4> QED BY <4>5, <4>6, <4>7, <4>8
      <3>2. v \o y \in Seq(T) /\ Len(v \o y) = n - b + l
            /\ \A i \in 1..n - b + l : (v \o y)[i] = IF i <= n - b THEN v[i] ELSE y[i - (n - b)]
        <4>1. PICK p \in Nat : p = n - b /\ Len(v) = p /\ l = Len(y)
          BY <1>1, <1>3, <2>1
        <4>2. v \o y \in Seq(T) /\ Len(v \o y) = p + l
              /\ \A i \in 1..p + l : (v \o y)[i] = IF i <= p THEN v[i] ELSE y[i - p]
          <5>1. /\ v \o y \in Seq(T) /\ Len(v \o y) = Len(v) + Len(y)
                /\ \A i \in 1..Len(v) + Len(y) :
                     (v \o y)[i] = IF i <= Len(v) THEN v[i] ELSE y[i - Len(v)]
            <6>1. v \in Seq(T)
              BY <1>3
            <6> QED BY <6>1, ConcatProperties, Zenon
          <5> QED BY <4>1, <5>1, Zenon
        <4> QED BY <4>1, <4>2
      <3>3. ASSUME NEW i \in 1..n + l - b PROVE w[i] = (v \o y)[i]
        <4>1. CASE i <= n - b
          <5>1. i \in 1..n - b /\ b + i \in 1..n /\ i \in 1..n - b + l
            BY <1>1, <4>1
          <5> QED BY <1>3, <2>2, <3>1, <3>2, <4>1, <5>1
        <4>2. CASE ~(i <= n - b)
          <5>1. /\ i - (n - b) \in 1..l /\ b + i = n + (i - (n - b)) /\ i \in 1..n - b + l
            BY <1>1, <4>2
          <5>2. w[i] = z[n + (i - (n - b))]
            BY <3>1, <5>1
          <5> QED BY <2>2, <3>2, <4>2, <5>1, <5>2
        <4> QED BY <4>1, <4>2
      <3>4. Len(w) = Len(v \o y)
        BY <1>1, <3>1, <3>2
      <3>5. w = v \o y
        BY <3>1, <3>2, <3>3, <3>4, SeqEqual
      <3> QED BY <3>5 DEF w
    <2>5. Put(z, a, tok, b) = u \o <<tok>> \o (v \o y)
      BY <2>2, <2>3, <2>4 DEF Put
    <2>6. u \o <<tok>> \o (v \o y) = u \o <<tok>> \o v \o y
      <3> DEFINE r == u \o <<tok>>
      <3>1. r \in Seq(T)
        BY <1>6
      <3> HIDE DEF r
      <3>2. (r \o v) \o y = r \o (v \o y)
        <4>1. v \in Seq(T)
          BY <1>3
        <4>2. Cat(Cat(r, v), y) = Cat(r, Cat(v, y))
          BY <3>1, <4>1, CatAssociates
        <4> QED BY <4>2, Zenon DEF Cat
      <3> QED BY <3>2 DEF r
    <2> QED BY <2>5, <2>6 DEF z
  <1> QED BY <1>5, <1>7, Zenon DEF Cat

LEMMA PutAtEnd ==
  ASSUME NEW T, NEW x \in Seq(T), NEW tok \in T, NEW a \in Nat, NEW b \in Nat,
         a < b, b = Len(x)
  PROVE  Put(x, a, tok, b) = SubSeq(x, 1, a) \o <<tok>>
  <1>1. SubSeq(x, b + 1, Len(x)) = <<>>
    OBVIOUS
  <1>2. SubSeq(x, 1, a) \o <<tok>> \in Seq(T)
    OBVIOUS
  <1> DEFINE y == SubSeq(x, 1, a) \o <<tok>>
  <1>3. Put(x, a, tok, b) = y \o <<>>
    BY <1>1, Zenon DEF Put
  <1> HIDE DEF y
  <1>4. y \in Seq(T)
    BY <1>2 DEF y
  <1> QED BY <1>3, <1>4, ConcatEmptySeq DEF y

\* The cells of t are those of s, but for tok at a + 1 and nothing up to b, where s has
\* one element in each.
Replaced(T, n, s, t, a, tok, b) ==
  /\ n \in Nat /\ s \in [1..n -> Seq(T)] /\ t \in [1..n -> Seq(T)] /\ tok \in T
  /\ a \in Nat /\ b \in Nat /\ a < b /\ b <= n
  /\ \A q \in 1..b : Len(s[q]) = 1
  /\ \A q \in 1..n : q <= a \/ q > b => t[q] = s[q]
  /\ \A q \in 1..n : q = a + 1 => t[q] = <<tok>>
  /\ \A q \in 1..n : q > a + 1 /\ q <= b => t[q] = <<>>

LEMMA PutInCells ==
  ASSUME NEW T, NEW n, NEW s, NEW t, NEW a, NEW tok, NEW b,
         Replaced(T, n, s, t, a, tok, b)
  PROVE  Put(FlattenSeq(s), a, tok, b) = FlattenSeq(t)
  <1>0. /\ n \in Nat /\ s \in [1..n -> Seq(T)] /\ t \in [1..n -> Seq(T)] /\ tok \in T
        /\ a \in Nat /\ b \in Nat /\ a < b /\ b <= n
    BY DEF Replaced
  <1> USE <1>0
  <1>1. PICK V \in {Seq(T)} : V = Seq(T)
    OBVIOUS
  <1>2. PICK f \in [0..n -> V] : Growing(f, s, n) /\ FlattenSeq(s) = f[n]
    BY <1>1, FlattenPrefixes, Zenon
  <1>3. PICK g \in [0..n -> V] : Growing(g, t, n) /\ FlattenSeq(t) = g[n]
    BY <1>1, FlattenPrefixes, Zenon
  <1>4. /\ \A q \in 1..n : s[q] \in V /\ t[q] \in V
        /\ \A q \in 0..n : f[q] \in V /\ g[q] \in V
    BY <1>1
  <1>5. \A i \in 0..b : Len(f[i]) = i
    <2> DEFINE P == {i \in 0..b : Len(f[i]) = i}
    <2>1. 0 \in P
      BY <1>2 DEF Growing
    <2>2. ASSUME NEW i \in 0..b, i > 0 /\ i - 1 \in P
          PROVE  i \in P
      <3>1. i \in 1..n /\ i \in 1..b /\ i - 1 \in 0..n /\ Len(f[i - 1]) = i - 1
        <4>1. Len(f[i - 1]) = i - 1
          BY <2>2, Zenon
        <4>2. i > 0
          BY <2>2, Zenon
        <4> HIDE DEF P
        <4> QED BY <4>1, <4>2
      <3>2. f[i] = f[i - 1] \o s[i] /\ Len(s[i]) = 1
        BY <1>2, <3>1 DEF Growing, Replaced
      <3>3. f[i - 1] \in Seq(T) /\ s[i] \in Seq(T)
        BY <1>1, <1>4, <3>1
      <3>4. Len(f[i - 1] \o s[i]) = Len(f[i - 1]) + Len(s[i])
        BY <3>3, ConcatProperties, Zenon
      <3> QED BY <3>1, <3>2, <3>4
    <2> HIDE DEF P
    <2>3. \A i \in 0..b : i \in P
      BY <2>1, <2>2, IntervalInduction
    <2> QED BY <2>3 DEF P
  <1>6. \A i \in 0..a : g[i] = f[i]
    <2> DEFINE P == {i \in 0..a : g[i] = f[i]}
    <2>1. 0 \in P
      BY <1>2, <1>3 DEF Growing
    <2>2. ASSUME NEW i \in 0..a, i > 0 /\ i - 1 \in P
          PROVE  i \in P
      <3>1. i \in 1..n /\ i <= a /\ g[i - 1] = f[i - 1]
        BY <2>2
      <3>2. f[i] = f[i - 1] \o s[i] /\ g[i] = g[i - 1] \o t[i] /\ t[i] = s[i]
        BY <1>2, <1>3, <3>1 DEF Growing, Replaced
      <3> QED BY <3>1, <3>2
    <2> HIDE DEF P
    <2>3. \A i \in 0..a : i \in P
      BY <2>1, <2>2, IntervalInduction
    <2> QED BY <2>3 DEF P
  <1>7. PICK h \in V : h = f[a] \o <<tok>>
    <2>1. f[a] \in Seq(T) /\ <<tok>> \in Seq(T)
      BY <1>1, <1>4
    <2>2. f[a] \o <<tok>> \in Seq(T)
      BY <2>1, ConcatProperties, Zenon
    <2> QED BY <1>1, <2>2
  <1>8. g[b] = h
    <2> DEFINE P == {i \in a + 1..b : g[i] = h}
    <2>1. a + 1 \in P
      <3>1. a + 1 \in 1..n /\ a + 1 \in a + 1..b /\ a + 1 - 1 = a /\ a \in 0..a
        OBVIOUS
      <3>2. g[a + 1] = g[a] \o t[a + 1]
        <4>1. PICK i \in 1..n : i = a + 1 /\ i - 1 = a
          OBVIOUS
        <4>2. g[i] = g[i - 1] \o t[i]
          BY <1>3, Zenon DEF Growing
        <4> QED BY <4>1, <4>2, Zenon
      <3>3. t[a + 1] = <<tok>>
        BY <3>1 DEF Replaced
      <3>4. g[a] = f[a]
        BY <1>6, <3>1, Zenon
      <3> QED BY <1>7, <3>1, <3>2, <3>3, <3>4
    <2>2. ASSUME NEW i \in a + 1..b, i > a + 1 /\ i - 1 \in P
          PROVE  i \in P
      <3>1. i \in 1..n /\ i > a + 1 /\ i <= b /\ g[i - 1] = h
        BY <2>2
      <3>2. g[i] = h \o <<>>
        BY <1>3, <3>1 DEF Growing, Replaced
      <3>3. h \o <<>> = h
        BY <1>1, ConcatEmptySeq
      <3> QED BY <3>2, <3>3
    <2> HIDE DEF P
    <2>3. \A i \in a + 1..b : i \in P
      <3>1. a + 1 \in Nat
        OBVIOUS
      <3> QED BY <2>1, <2>2, <3>1, IntervalInduction
    <2> QED BY <2>3 DEF P
  <1>9. \A i \in a..b : SubSeq(f[i], 1, a) = f[a]
    <2> DEFINE P == {i \in a..b : SubSeq(f[i], 1, a) = f[a]}
    <2>1. a \in P
      <3>1. f[a] \in Seq(T) /\ Len(f[a]) = a
        BY <1>1, <1>4, <1>5
      <3>2. SubSeq(f[a], 1, Len(f[a])) = f[a]
        BY <3>1, SubSeqFull
      <3> QED BY <3>1, <3>2
    <2>2. ASSUME NEW i \in a..b, i > a /\ i - 1 \in P
          PROVE  i \in P
      <3>1. i \in 1..n /\ i - 1 \in 0..n /\ i - 1 \in 0..b /\ a <= i - 1
            /\ SubSeq(f[i - 1], 1, a) = f[a]
        BY <2>2
      <3>2. f[i] = f[i - 1] \o s[i] /\ Len(f[i - 1]) = i - 1
        BY <1>2, <1>5, <3>1 DEF Growing
      <3>3. f[i - 1] \in Seq(T) /\ s[i] \in Seq(T)
        BY <1>1, <1>4, <3>1
      <3>4. SubSeq(f[i - 1] \o s[i], 1, a) = SubSeq(f[i - 1], 1, a)
        BY <3>1, <3>2, <3>3, SubSeqStays
      <3> QED BY <3>1, <3>2, <3>4
    <2> HIDE DEF P
    <2>3. \A i \in a..b : i \in P
      BY <2>1, <2>2, IntervalInduction
    <2> QED BY <2>3 DEF P
  <1>10. Put(f[n], a, tok, b) = g[n]
    <2> DEFINE P == {i \in b..n : Len(f[i]) >= b /\ Put(f[i], a, tok, b) = g[i]}
    <2>1. b \in P
      <3>1. b \in 0..b /\ b \in a..b /\ b \in b..n /\ b \in 0..n
        OBVIOUS
      <3>2. f[b] \in Seq(T) /\ Len(f[b]) = b /\ SubSeq(f[b], 1, a) = f[a]
        BY <1>1, <1>4, <1>5, <1>9, <3>1
      <3>3. Put(f[b], a, tok, b) = SubSeq(f[b], 1, a) \o <<tok>>
        <4>1. PICK x \in Seq(T) : x = f[b]
          BY <3>2, Zenon
        <4>2. a < b /\ b <= Len(x) /\ b = Len(x)
          BY <3>2, <4>1
        <4>3. Put(x, a, tok, b) = SubSeq(x, 1, a) \o <<tok>>
          BY <4>2, PutAtEnd, Zenon
        <4> QED BY <4>1, <4>3, Zenon
      <3>4. Put(f[b], a, tok, b) = g[b]
        BY <1>7, <1>8, <3>2, <3>3, Zenon
      <3>5. Len(f[b]) >= b
        BY <3>2
      <3> QED BY <3>1, <3>4, <3>5, Zenon
    <2>2. ASSUME NEW i \in b..n, i > b /\ i - 1 \in P
          PROVE  i \in P
      <3>1. /\ i \in 1..n /\ i - 1 \in 0..n /\ i > b
            /\ Len(f[i - 1]) >= b /\ Put(f[i - 1], a, tok, b) = g[i - 1]
        BY <2>2
      <3>2. f[i] = f[i - 1] \o s[i] /\ g[i] = g[i - 1] \o s[i]
        BY <1>2, <1>3, <3>1 DEF Growing, Replaced
      <3>3. f[i - 1] \in Seq(T) /\ s[i] \in Seq(T)
        BY <1>1, <1>4, <3>1
      <3>4. Put(f[i - 1] \o s[i], a, tok, b) = Put(f[i - 1], a, tok, b) \o s[i]
        <4>1. PICK x \in Seq(T), y \in Seq(T) : x = f[i - 1] /\ y = s[i]
          BY <3>3, Zenon
        <4>2. b <= Len(x)
          BY <3>1, <4>1
        <4>3. Put(Cat(x, y), a, tok, b) = Cat(Put(x, a, tok, b), y)
          BY <4>2, PutBefore
        <4> QED BY <4>1, <4>3, Zenon DEF Cat
      <3>5. Len(f[i]) >= b
        <4>1. PICK x \in Seq(T), y \in Seq(T) : x = f[i - 1] /\ y = s[i]
          BY <3>3, Zenon
        <4>2. Len(x) >= b /\ f[i] = x \o y
          BY <3>1, <3>2, <4>1, Zenon
        <4>3. Len(x \o y) >= b
          BY <4>2
        <4> QED BY <4>2, <4>3, Zenon
      <3> QED BY <3>1, <3>2, <3>4, <3>5
    <2> HIDE DEF P
    <2>3. \A i \in b..n : i \in P
      BY <2>1, <2>2, IntervalInduction
    <2> QED BY <2>3 DEF P
  <1> QED BY <1>2, <1>3, <1>10

\* What stands at place p of a text of which all are replaced: the character, or
\* the token of what starts there, or nothing.
At(all, p) ==
  IF \E d \in all : d.start <= p /\ p < d.end
  THEN {Token(d) : d \in {e \in all : e.start = p}}
  ELSE {Character(p)}

\* A text of length n of which all of k after the m-th are replaced, place by place.
Later(k, m) == {k[i] : i \in m + 1..Len(k)}
Cells(k, m, n) == [q \in 1..n |-> SetToSeq(At(Later(k, m), q - 1))]

Pieces == {Character(p) : p \in Int} \cup {Token(d) : d \in Detections}

LEMMA SmallSets ==
  /\ \A x : SetToSeq({x}) = <<x>>
  /\ SetToSeq({}) = <<>>
  <1>1. ASSUME NEW x PROVE SetToSeq({x}) = <<x>>
    <2>1. Cardinality({x}) = 1
      BY FS_Singleton
    <2>2. \A f \in [1..1 -> {x}] : f = <<x>>
      OBVIOUS
    <2>3. <<x>> \in [1..1 -> {x}] /\ IsInjective(<<x>>)
      BY DEF IsInjective
    <2> QED BY <2>1, <2>2, <2>3 DEF SetToSeq
  <1>2. SetToSeq({}) = <<>>
    <2>1. Cardinality({}) = 0
      BY FS_EmptySet
    <2>2. \A f \in [1..0 -> {}] : f = <<>>
      OBVIOUS
    <2>3. <<>> \in [1..0 -> {}] /\ IsInjective(<<>>)
      BY DEF IsInjective
    <2> QED BY <2>1, <2>2, <2>3 DEF SetToSeq
  <1> QED BY <1>1, <1>2

LEMMA AtFacts ==
  ASSUME NEW all, NEW p
  PROVE  /\ (\A d \in all : ~(d.start <= p /\ p < d.end)) => At(all, p) = {Character(p)}
         /\ \A d \in all : d.start <= p /\ p < d.end =>
              At(all, p) = {Token(e) : e \in {x \in all : x.start = p}}
  BY DEF At

\* Of detections that do not overlap and lie within the text, those that stand at a
\* place: at most one, and none where none starts.
LEMMA CellIs ==
  ASSUME NEW n \in Nat, NEW k \in Seq(Within(n)), Disjoint(k), NEW m \in 0..Len(k),
         NEW q \in 1..n
  PROVE  /\ (\A i \in m + 1..Len(k) : ~(k[i].start < q /\ q <= k[i].end)) =>
              Cells(k, m, n)[q] = <<Character(q - 1)>>
         /\ \A i \in m + 1..Len(k) :
              /\ k[i].start + 1 = q => Cells(k, m, n)[q] = <<Token(k[i])>>
              /\ k[i].start + 1 < q /\ q <= k[i].end => Cells(k, m, n)[q] = <<>>
  <1> DEFINE all == Later(k, m)
             p == q - 1
  <1>1. PICK l \in Nat : l = Len(k) /\ m \in 0..l /\ \A i \in 1..l : k[i] \in Within(n)
    OBVIOUS
  <1>2. \A i \in m + 1..l : i \in 1..l
    BY <1>1
  <1>3. \A i \in 1..l : /\ k[i].start \in Nat /\ k[i].end \in Nat
                        /\ k[i].start < k[i].end /\ k[i].end <= n
    BY <1>1 DEF Within, Good, Detections
  <1>4. \A i, j \in 1..l : i < j => k[i].end <= k[j].start
    BY <1>1 DEF Disjoint
  <1>5. Cells(k, m, n)[q] = SetToSeq(At(all, p))
    BY DEF Cells
  <1>6. all = {k[i] : i \in m + 1..l}
    BY <1>1 DEF Later
  <1>7. p \in Int /\ q = p + 1
    OBVIOUS
  <1> HIDE DEF all, p
  <1>8. ASSUME \A i \in m + 1..l : ~(k[i].start < q /\ q <= k[i].end)
        PROVE  Cells(k, m, n)[q] = <<Character(p)>>
    <2>1. ASSUME NEW d \in all PROVE ~(d.start <= p /\ p < d.end)
      <3>1. PICK i \in m + 1..l : d = k[i]
        BY <1>6
      <3> QED BY <1>2, <1>3, <1>7, <1>8, <3>1
    <2> QED BY <1>5, <2>1, AtFacts, SmallSets
  <1>9. ASSUME NEW i \in m + 1..l, k[i].start + 1 <= q, q <= k[i].end
        PROVE  At(all, p) = {Token(e) : e \in {x \in all : x.start = p}}
    <2>1. k[i] \in all /\ k[i].start <= p /\ p < k[i].end
      BY <1>2, <1>3, <1>6, <1>7, <1>9
    <2> QED BY <2>1, AtFacts
  <1>10. ASSUME NEW i \in m + 1..l, NEW j \in m + 1..l, k[j].start = p,
                k[i].start + 1 <= q, q <= k[i].end
         PROVE  j = i
    <2>1. i \in 1..l /\ j \in 1..l
      BY <1>2
    <2>2. /\ k[i].start \in Nat /\ k[i].end \in Nat /\ k[j].end \in Nat
          /\ p < k[i].end /\ k[i].start <= p /\ p < k[j].end
      BY <1>3, <1>7, <1>10, <2>1
    <2>3. ~(i < j) /\ ~(j < i)
      <3>1. i < j => k[i].end <= k[j].start
        BY <1>4, <2>1
      <3>2. j < i => k[j].end <= k[i].start
        BY <1>4, <2>1
      <3> QED BY <1>7, <1>10, <2>2, <3>1, <3>2
    <2> QED BY <2>1, <2>3
  <1>11. ASSUME NEW i \in m + 1..l, k[i].start + 1 = q
         PROVE  Cells(k, m, n)[q] = <<Token(k[i])>>
    <2>1. k[i].start = p /\ k[i].start + 1 <= q /\ q <= k[i].end /\ k[i] \in all
      BY <1>2, <1>3, <1>6, <1>7, <1>11
    <2>2. {x \in all : x.start = p} = {k[i]}
      <3>1. ASSUME NEW x \in all, x.start = p PROVE x = k[i]
        <4>1. PICK j \in m + 1..l : x = k[j]
          BY <1>6
        <4> QED BY <1>10, <2>1, <3>1, <4>1
      <3> QED BY <2>1, <3>1
    <2>3. At(all, p) = {Token(k[i])}
      BY <1>9, <2>1, <2>2
    <2> QED BY <1>5, <2>3, SmallSets
  <1>12. ASSUME NEW i \in m + 1..l, k[i].start + 1 < q, q <= k[i].end
         PROVE  Cells(k, m, n)[q] = <<>>
    <2>1. k[i].start + 1 <= q /\ k[i].start < p
      BY <1>2, <1>3, <1>7, <1>12
    <2>2. {x \in all : x.start = p} = {}
      <3>1. ASSUME NEW x \in all, x.start = p PROVE FALSE
        <4>1. PICK j \in m + 1..l : x = k[j]
          BY <1>6
        <4>2. j = i
          BY <1>10, <1>12, <2>1, <3>1, <4>1
        <4> QED BY <1>2, <1>3, <1>7, <2>1, <3>1, <4>1, <4>2
      <3> QED BY <3>1
    <2>3. At(all, p) = {}
      BY <1>9, <1>12, <2>1, <2>2
    <2> QED BY <1>5, <2>3, SmallSets
  <1> QED BY <1>1, <1>8, <1>11, <1>12 DEF p

LEMMA CellsType ==
  ASSUME NEW n \in Nat, NEW k \in Seq(Within(n)), Disjoint(k), NEW m \in 0..Len(k)
  PROVE  Cells(k, m, n) \in [1..n -> Seq(Pieces)]
  <1> DEFINE S == Cells(k, m, n)
  <1>1. ASSUME NEW q \in 1..n PROVE S[q] \in Seq(Pieces)
    <2>1. PICK l \in Nat : l = Len(k) /\ m \in 0..l /\ \A i \in 1..l : k[i] \in Within(n)
      OBVIOUS
    <2>2. \A x \in Pieces : <<x>> \in Seq(Pieces)
      OBVIOUS
    <2>3. CASE \A i \in m + 1..l : ~(k[i].start < q /\ q <= k[i].end)
      <3>1. S[q] = <<Character(q - 1)>>
        BY <2>1, <2>3, CellIs
      <3>2. Character(q - 1) \in Pieces
        BY DEF Pieces
      <3> QED BY <2>2, <3>1, <3>2
    <2>4. ASSUME NEW i \in m + 1..l, k[i].start < q, q <= k[i].end
          PROVE  S[q] \in Seq(Pieces)
      <3>1. k[i] \in Detections /\ k[i].start \in Nat /\ i \in m + 1..Len(k)
        <4>1. k[i] \in Within(n)
          BY <2>1
        <4> QED BY <2>1, <4>1 DEF Within, Good, Detections
      <3>2. CASE k[i].start + 1 = q
        <4>1. S[q] = <<Token(k[i])>>
          BY <3>1, <3>2, CellIs
        <4>2. Token(k[i]) \in Pieces
          BY <3>1 DEF Pieces
        <4> QED BY <2>2, <4>1, <4>2
      <3>3. CASE k[i].start + 1 < q
        <4>1. S[q] = <<>>
          BY <2>4, <3>1, <3>3, CellIs
        <4> QED BY <4>1
      <3>4. k[i].start + 1 = q \/ k[i].start + 1 < q
        BY <2>4, <3>1
      <3> QED BY <3>2, <3>3, <3>4
    <2> QED BY <2>3, <2>4
  <1>2. S = [q \in 1..n |-> S[q]]
    BY DEF Cells
  <1> HIDE DEF S
  <1>3. S \in [1..n -> Seq(Pieces)]
    BY <1>1, <1>2
  <1> QED BY <1>3 DEF S

LEMMA NextOrBefore ==
  ASSUME NEW e \in Nat, NEW q \in Nat, e < q
  PROVE  e + 1 = q \/ e + 1 < q
  OBVIOUS

\* One replacement more.
LEMMA SpliceStep ==
  ASSUME NEW n \in Nat, NEW k \in Seq(Within(n)), Disjoint(k), NEW m \in 1..Len(k)
  PROVE  Spliced(FlattenSeq(Cells(k, m, n)), k[m]) = FlattenSeq(Cells(k, m - 1, n))
  <1>1. PICK d \in Within(n) : d = k[m]
    OBVIOUS
  <1>2. PICK a \in Nat, b \in Nat : a = d.start /\ b = d.end /\ a < b /\ b <= n
    BY <1>1 DEF Within, Good, Detections
  <1>3. PICK l \in Nat : /\ l = Len(k) /\ m \in 1..l /\ m - 1 \in 0..l /\ m \in 0..l
                         /\ m - 1 + 1 = m
                         /\ \A i \in m + 1..l : i \in m..l /\ i \in 1..l /\ m < i
                         /\ \A i \in m..l : i = m \/ i \in m + 1..l
    OBVIOUS
  <1>4. \A i \in m + 1..l : k[i].start \in Nat /\ k[i].end \in Nat /\ b <= k[i].start
                           /\ k[i].start < k[i].end
    <2>1. \A i \in m + 1..l : k[m].end <= k[i].start
      BY <1>3 DEF Disjoint
    <2>2. \A i \in 1..l : k[i].start \in Nat /\ k[i].end \in Nat /\ k[i].start < k[i].end
      <3>1. \A i \in 1..l : k[i] \in Within(n)
        BY <1>3
      <3> QED BY <3>1 DEF Within, Good, Detections
    <2> QED BY <1>1, <1>2, <1>3, <2>1, <2>2
  <1>5. PICK s \in [1..n -> Seq(Pieces)], t \in [1..n -> Seq(Pieces)] :
               s = Cells(k, m, n) /\ t = Cells(k, m - 1, n)
    BY <1>3, CellsType
  <1>6. ASSUME NEW q \in 1..n
        PROVE  /\ q <= b => s[q] = <<Character(q - 1)>>
               /\ q <= a \/ q > b => t[q] = s[q]
               /\ q = a + 1 => t[q] = <<Token(d)>>
               /\ q > a + 1 /\ q <= b => t[q] = <<>>
    <2>1. q <= b => s[q] = <<Character(q - 1)>>
      <3> SUFFICES ASSUME q <= b PROVE s[q] = <<Character(q - 1)>>
        OBVIOUS
      <3>1. \A i \in m + 1..l : ~(k[i].start < q /\ q <= k[i].end)
        BY <1>4
      <3> QED BY <1>3, <1>5, <3>1, CellIs
    <2>2. q = a + 1 => t[q] = <<Token(d)>>
      <3>1. m \in m - 1 + 1..l
        BY <1>3
      <3>2. k[m].start + 1 = q => Cells(k, m - 1, n)[q] = <<Token(k[m])>>
        BY <1>3, <3>1, CellIs
      <3> QED BY <1>1, <1>2, <1>5, <3>2
    <2>3. q > a + 1 /\ q <= b => t[q] = <<>>
      <3>1. m \in m - 1 + 1..l
        BY <1>3
      <3>2. k[m].start + 1 < q /\ q <= k[m].end => Cells(k, m - 1, n)[q] = <<>>
        BY <1>3, <3>1, CellIs
      <3> QED BY <1>1, <1>2, <1>5, <3>2
    <2>4. q <= a \/ q > b => t[q] = s[q]
      <3> SUFFICES ASSUME q <= a \/ q > b PROVE t[q] = s[q]
        OBVIOUS
      <3>1. CASE \A i \in m + 1..l : ~(k[i].start < q /\ q <= k[i].end)
        <4>1. s[q] = <<Character(q - 1)>>
          BY <1>3, <1>5, <3>1, CellIs
        <4>2. \A i \in m - 1 + 1..l : ~(k[i].start < q /\ q <= k[i].end)
          <5>1. ~(k[m].start < q /\ q <= k[m].end)
            BY <1>1, <1>2
          <5>2. \A i \in m - 1 + 1..l : i = m \/ i \in m + 1..l
            BY <1>3
          <5> QED BY <3>1, <5>1, <5>2
        <4>3. t[q] = <<Character(q - 1)>>
          BY <1>3, <1>5, <4>2, CellIs
        <4> QED BY <4>1, <4>3
      <3>2. ASSUME NEW i \in m + 1..l, k[i].start < q, q <= k[i].end
            PROVE  t[q] = s[q]
        <4>1. i \in m + 1..Len(k) /\ i \in m - 1 + 1..Len(k)
          BY <1>3
        <4>2. k[i].start \in Nat
          BY <1>4
        <4>3. CASE k[i].start + 1 = q
          <5>1. s[q] = <<Token(k[i])>> /\ t[q] = <<Token(k[i])>>
            BY <1>3, <1>5, <4>1, <4>3, CellIs
          <5> QED BY <5>1
        <4>4. CASE k[i].start + 1 < q
          <5>1. s[q] = <<>> /\ t[q] = <<>>
            BY <1>3, <1>5, <3>2, <4>1, <4>4, CellIs
          <5> QED BY <5>1
        <4>5. k[i].start + 1 = q \/ k[i].start + 1 < q
          <5>1. q \in Nat
            OBVIOUS
          <5> QED BY <3>2, <4>2, <5>1, NextOrBefore, Zenon
        <4> QED BY <4>3, <4>4, <4>5
      <3> QED BY <3>1, <3>2
    <2> QED BY <2>1, <2>2, <2>3, <2>4
  <1>7. Replaced(Pieces, n, s, t, a, Token(d), b)
    <2>1. \A q \in 1..b : Len(s[q]) = 1
      <3>1. \A q \in 1..b : q \in 1..n /\ q <= b
        BY <1>2
      <3>2. \A q \in 1..b : s[q] = <<Character(q - 1)>>
        BY <1>6, <3>1
      <3>3. \A c : Len(<<c>>) = 1
        OBVIOUS
      <3> QED BY <3>2, <3>3, Zenon
    <2>2. Token(d) \in Pieces
      BY <1>1 DEF Within, Good, Pieces
    <2> QED BY <1>2, <1>6, <2>1, <2>2 DEF Replaced
  <1>8. Put(FlattenSeq(s), a, Token(d), b) = FlattenSeq(t)
    BY <1>7, PutInCells
  <1>9. Spliced(FlattenSeq(s), d) = Put(FlattenSeq(s), a, Token(d), b)
    BY <1>2 DEF Spliced, Put
  <1> QED BY <1>1, <1>5, <1>8, <1>9

\* Nothing replaced.
LEMMA Untouched ==
  ASSUME NEW n \in Nat, NEW k \in Seq(Within(n)), Disjoint(k)
  PROVE  FlattenSeq(Cells(k, Len(k), n)) = [q \in 1..n |-> Character(q - 1)]
  <1>1. Len(k) \in Nat /\ Len(k) \in 0..Len(k) /\ Len(k) + 1..Len(k) = {}
    OBVIOUS
  <1>2. PICK s \in [1..n -> Seq(Pieces)] : s = Cells(k, Len(k), n)
    BY <1>1, CellsType
  <1>3. \A q \in 1..n : s[q] = <<Character(q - 1)>>
    BY <1>1, <1>2, CellIs
  <1>4. PICK f \in [0..n -> Seq(Pieces)] : Growing(f, s, n) /\ FlattenSeq(s) = f[n]
    BY FlattenPrefixes
  <1> DEFINE g == [q \in 1..n |-> Character(q - 1)]
             Ones(x, i) == Len(x) = i /\ \A j \in 1..i : x[j] = g[j]
             P == {i \in 0..n : Ones(f[i], i)}
  <1> HIDE DEF g
  <1>5. 0 \in P
    <2>1. f[0] = <<>>
      BY <1>4 DEF Growing
    <2> QED BY <2>1
  <1>6. ASSUME NEW i \in 0..n, i > 0 /\ i - 1 \in P
        PROVE  i \in P
    <2>1. PICK x \in Seq(Pieces) : x = f[i - 1] /\ Ones(x, i - 1)
      BY <1>6
    <2>2. i \in 1..n
      BY <1>6
    <2>3. f[i] = x \o <<g[i]>>
      BY <1>3, <1>4, <2>1, <2>2 DEF Growing, g
    <2>4. g[i] \in Pieces
      BY <2>2 DEF g, Pieces
    <2>5. PICK c \in Pieces : c = g[i]
      BY <2>4
    <2>6. Len(x \o <<c>>) = i /\ \A j \in 1..i : (x \o <<c>>)[j] = IF j < i THEN x[j] ELSE c
      <3>1. Len(x) = i - 1 /\ i \in Nat
        BY <2>1, <2>2
      <3> HIDE DEF Ones
      <3>2. Len(x \o <<c>>) = i
        BY <3>1
      <3>3. ASSUME NEW j \in 1..i PROVE (x \o <<c>>)[j] = IF j < i THEN x[j] ELSE c
        BY <3>1
      <3> QED BY <3>2, <3>3
    <2>7. \A j \in 1..i : (x \o <<c>>)[j] = g[j]
      <3>1. \A j \in 1..i : j < i => x[j] = g[j]
        <4>1. \A j \in 1..i - 1 : x[j] = g[j]
          BY <2>1, Zenon
        <4>2. \A j \in 1..i : j < i => j \in 1..i - 1
          BY <2>2
        <4> QED BY <4>1, <4>2, Zenon
      <3>2. \A j \in 1..i : ~(j < i) => j = i
        BY <2>2
      <3> QED BY <2>5, <2>6, <3>1, <3>2
    <2> QED BY <2>3, <2>5, <2>6, <2>7
  <1> HIDE DEF P
  <1>7. n \in P
    <2>1. \A i \in 0..n : i \in P
      BY <1>5, <1>6, IntervalInduction
    <2> QED BY <2>1
  <1>8. PICK x \in Seq(Pieces) : x = FlattenSeq(s) /\ Len(x) = n /\ \A j \in 1..n : x[j] = g[j]
    BY <1>4, <1>7 DEF P
  <1>9. x = g
    BY <1>8 DEF g
  <1> QED BY <1>2, <1>8, <1>9 DEF g

\* A call at p with the list l, what is kept of it k, the cursor m and the masked text
\* s, of a text of length n.
Shows(p, l, k, m, s, n) ==
  /\ l \in Seq(Within(n)) /\ k \in Seq(Within(n))
  /\ p = "splice" => m \in 0..Len(k) /\ s = FlattenSeq(Cells(k, m, n))
  /\ p = "done" => s = FlattenSeq(Cells(k, 0, n))

AllShow ==
  /\ masked = [c \in Calls |-> masked[c]]
  /\ \A c \in Calls :
       Shows(pc[c], listed[c], kept[c], cursor[c], masked[c], text[c].length)

LEMMA LengthType ==
  ASSUME Typed, NEW c \in Calls
  PROVE  text[c] \in Texts /\ text[c].length \in Nat
  BY PipelineAssumption DEF Typed, Texts

LEMMA CharactersAre ==
  ASSUME Typed, NEW c \in Calls, NEW k \in Seq(Within(text[c].length)), Disjoint(k)
  PROVE  Characters(text[c]) = FlattenSeq(Cells(k, Len(k), text[c].length))
  BY LengthType, Untouched DEF Characters

LEMMA InitShows == Init => AllShow
  <1> SUFFICES ASSUME Init PROVE AllShow
    OBVIOUS
  <1>1. \A n : <<>> \in Seq(Within(n))
    OBVIOUS
  <1> QED BY <1>1 DEF Init, AllShow, Shows

\* The step of one call leaves the others as they were.
LEMMA OthersShow ==
  ASSUME AllShow, NEW c \in Calls, NEW p, NEW l, NEW k, NEW m, NEW s,
         \A x \in Calls : pc'[x] = IF x = c THEN p ELSE pc[x],
         \A x \in Calls : listed'[x] = IF x = c THEN l ELSE listed[x],
         \A x \in Calls : kept'[x] = IF x = c THEN k ELSE kept[x],
         \A x \in Calls : cursor'[x] = IF x = c THEN m ELSE cursor[x],
         masked' = [masked EXCEPT ![c] = s] \/ (masked' = masked /\ s = masked[c]),
         text' = text, Shows(p, l, k, m, s, text[c].length)
  PROVE  AllShow'
  <1>1. \A x \in Calls : masked'[x] = IF x = c THEN s ELSE masked[x]
    BY DEF AllShow
  <1>2. masked' = [x \in Calls |-> masked'[x]]
    <2>1. masked = [x \in Calls |-> masked[x]]
      BY DEF AllShow
    <2> QED BY <2>1
  <1>3. \A x \in Calls :
          Shows(pc'[x], listed'[x], kept'[x], cursor'[x], masked'[x], text'[x].length)
    <2> SUFFICES ASSUME NEW x \in Calls
                 PROVE  Shows(pc'[x], listed'[x], kept'[x], cursor'[x], masked'[x],
                              text'[x].length)
      OBVIOUS
    <2>1. CASE x = c
      BY <1>1, <2>1
    <2>2. CASE x # c
      <3>1. Shows(pc[x], listed[x], kept[x], cursor[x], masked[x], text[x].length)
        BY DEF AllShow
      <3> QED BY <1>1, <2>2, <3>1
    <2> QED BY <2>1, <2>2
  <1> QED BY <1>2, <1>3 DEF AllShow, Shows

LEMMA SameShow ==
  ASSUME AllShow, UNCHANGED <<pc, listed, kept, cursor, masked, text>>
  PROVE  AllShow'
  BY DEF AllShow, Shows

LEMMA StepShows == IInv /\ AllShow /\ [Next]_vars => AllShow'
  <1> SUFFICES ASSUME IInv, AllShow, [Next]_vars PROVE AllShow'
    OBVIOUS
  <1>0. /\ Typed
        /\ \A c \in Calls : CallHolds(pc[c], listed[c], kept[c], cursor[c])
        /\ \A c \in Calls :
             Shows(pc[c], listed[c], kept[c], cursor[c], masked[c], text[c].length)
    BY DEF IInv, CallsHold, AllShow
  <1>1. /\ pc \in [Calls -> Labels] /\ listed \in [Calls -> Seq(Good)]
        /\ kept \in [Calls -> Seq(Good)] /\ cursor \in [Calls -> Nat] /\ text \in Scenarios
    BY <1>0 DEF Typed
  <1>2. \A c \in Calls : text[c].length \in Nat
    BY <1>0, LengthType
  <1>3. ASSUME NEW c \in Calls, Bypass(c) PROVE AllShow'
    <2> USE <1>3 DEF Bypass, Called, Goto, given
    <2>1. pc[c] = "idle" /\ kept[c] = <<>> /\ Disjoint(kept[c])
      BY <1>0 DEF CallHolds
    <2> DEFINE s == Characters(text[c])
    <2>2. s = FlattenSeq(Cells(kept[c], 0, text[c].length))
      <3>1. kept[c] \in Seq(Within(text[c].length)) /\ Len(kept[c]) = 0
        BY <1>0, <2>1 DEF Shows
      <3> HIDE DEF Bypass
      <3> QED BY <1>0, <2>1, <3>1, CharactersAre
    <2>3. Shows("done", listed[c], kept[c], cursor[c], s, text[c].length)
      BY <1>0, <2>2 DEF Shows
    <2>4. /\ \A x \in Calls : pc'[x] = IF x = c THEN "done" ELSE pc[x]
          /\ masked' = [masked EXCEPT ![c] = s]
      BY <1>1
    <2>5. listed' = listed /\ kept' = kept /\ cursor' = cursor /\ text' = text
      OBVIOUS
    <2> HIDE DEF s, Bypass
    <2> QED BY <2>3, <2>4, <2>5, OthersShow
  <1>4. ASSUME NEW c \in Calls, NEW p \in {"sort", "gather"}, NEW l \in Seq(Within(text[c].length)),
               pc' = [pc EXCEPT ![c] = p], listed' = [listed EXCEPT ![c] = l],
               UNCHANGED <<kept, cursor, masked, text>>
        PROVE  AllShow'
    <2>1. Shows(p, l, kept[c], cursor[c], masked[c], text[c].length)
      BY <1>0 DEF Shows
    <2>2. /\ \A x \in Calls : pc'[x] = IF x = c THEN p ELSE pc[x]
          /\ \A x \in Calls : listed'[x] = IF x = c THEN l ELSE listed[x]
      BY <1>1, <1>4
    <2> QED BY <1>4, <2>1, <2>2, OthersShow
  <1>5. ASSUME NEW c \in Calls, Mask(c) PROVE AllShow'
    <2>1. FindingsOf(text[c], Ranked) \in Seq(Within(text[c].length))
      BY <1>1, FindingsWithin, OrdersType
    <2>2. /\ pc' = [pc EXCEPT ![c] = "sort"]
          /\ listed' = [listed EXCEPT ![c] = FindingsOf(text[c], Ranked)]
          /\ UNCHANGED <<kept, cursor, masked, text>>
      BY <1>5 DEF Mask, Goto, loopVars, given
    <2> QED BY <1>4, <2>1, <2>2
  <1>6. ASSUME NEW c \in Calls, MaskAsync(c) PROVE AllShow'
    <2>1. FindingsOf(text[c], FastOnes) \in Seq(Within(text[c].length))
      BY <1>1, FindingsWithin, OrdersType
    <2>2. PICK p \in {"sort", "gather"} : pc' = [pc EXCEPT ![c] = p]
      BY <1>6 DEF MaskAsync, Goto
    <2>3. /\ listed' = [listed EXCEPT ![c] = FindingsOf(text[c], FastOnes)]
          /\ UNCHANGED <<kept, cursor, masked, text>>
      BY <1>6 DEF MaskAsync, loopVars, given
    <2> QED BY <1>4, <2>1, <2>2, <2>3
  <1>7. ASSUME NEW c \in Calls, MaskRaises(c) PROVE AllShow'
    <2>1. Shows("failed", listed[c], kept[c], cursor[c], masked[c], text[c].length)
      BY <1>0 DEF Shows
    <2>2. /\ \A x \in Calls : pc'[x] = IF x = c THEN "failed" ELSE pc[x]
          /\ UNCHANGED <<listed, kept, cursor, masked, text>>
      BY <1>1, <1>7 DEF MaskRaises, Goto, loopVars, given
    <2> QED BY <2>1, <2>2, OthersShow
  <1>8. ASSUME NEW c \in Calls, Gather(c) PROVE AllShow'
    <2> DEFINE more == FindingsOf(text[c], Among(HeavyOnes, Recognizers \ raised[c]))
    <2>1. more \in Seq(Within(text[c].length))
      BY <1>1, FindingsWithin, OrdersType
    <2>2. /\ pc' = [pc EXCEPT ![c] = "sort"]
          /\ listed' = [listed EXCEPT ![c] = listed[c] \o more]
          /\ UNCHANGED <<kept, cursor, masked, text>>
      BY <1>1, <1>8 DEF Gather, Goto, loopVars, given
    <2> HIDE DEF more
    <2>3. listed[c] \o more \in Seq(Within(text[c].length))
      <3>1. listed[c] \in Seq(Within(text[c].length))
        BY <1>0 DEF Shows
      <3> QED BY <2>1, <3>1
    <2> QED BY <1>4, <2>2, <2>3
  <1>9. ASSUME NEW c \in Calls, Sort(c) PROVE AllShow'
    <2> DEFINE boosted == [k \in DOMAIN listed[c] |-> Boosted(listed[c][k])]
               ordered == InPlace(boosted)
    <2>1. ordered \in Seq(Within(text[c].length))
      <3>1. boosted \in Seq(Within(text[c].length))
        BY <1>0, BoostedWithin DEF Shows
      <3> HIDE DEF boosted
      <3>2. Within(text[c].length) \in SUBSET Good
        BY DEF Within
      <3> QED BY <3>1, <3>2, InPlaceFacts
    <2>2. Shows("resolve", ordered, kept[c], 1, masked[c], text[c].length)
      BY <1>0, <2>1 DEF Shows
    <2>3. /\ \A x \in Calls : pc'[x] = IF x = c THEN "resolve" ELSE pc[x]
          /\ \A x \in Calls : listed'[x] = IF x = c THEN ordered ELSE listed[x]
          /\ \A x \in Calls : cursor'[x] = IF x = c THEN 1 ELSE cursor[x]
          /\ UNCHANGED <<kept, masked, text>>
      BY <1>1, <1>9 DEF Sort, Goto, given
    <2> HIDE DEF ordered
    <2> QED BY <2>2, <2>3, OthersShow
  <1>10. ASSUME NEW c \in Calls, Resolve(c) PROVE AllShow'
    <2> DEFINE k2 == KeepBetter(kept[c], listed[c][cursor[c]])
    <2>1. pc[c] = "resolve" /\ cursor[c] \in 1..Len(listed[c])
      BY <1>0, <1>10 DEF Resolve, CallHolds
    <2>2. k2 \in Seq(Within(text[c].length))
      <3>1. /\ listed[c] \in Seq(Within(text[c].length))
            /\ kept[c] \in Seq(Within(text[c].length))
        BY <1>0 DEF Shows
      <3>2. listed[c][cursor[c]] \in Within(text[c].length)
        BY <2>1, <3>1
      <3>3. Within(text[c].length) \in SUBSET Good
        BY DEF Within
      <3> QED BY <3>1, <3>2, <3>3, KeepBetterType
    <2>3. Shows("resolve", listed[c], k2, cursor[c] + 1, masked[c], text[c].length)
      BY <1>0, <2>2 DEF Shows
    <2>4. /\ \A x \in Calls : pc'[x] = IF x = c THEN "resolve" ELSE pc[x]
          /\ \A x \in Calls : kept'[x] = IF x = c THEN k2 ELSE kept[x]
          /\ \A x \in Calls : cursor'[x] = IF x = c THEN cursor[c] + 1 ELSE cursor[x]
          /\ UNCHANGED <<listed, masked, text>>
      BY <1>1, <1>10, <2>1 DEF Resolve, given
    <2> HIDE DEF k2
    <2> QED BY <2>3, <2>4, OthersShow
  <1>11. ASSUME NEW c \in Calls, Resolved(c) PROVE AllShow'
    <2> DEFINE s == Characters(text[c])
    <2>1. kept[c] \in Seq(Within(text[c].length)) /\ Disjoint(kept[c])
      BY <1>0 DEF Shows, CallHolds
    <2>2. s = FlattenSeq(Cells(kept[c], Len(kept[c]), text[c].length))
      BY <1>0, <2>1, CharactersAre
    <2>3. Shows("splice", listed[c], kept[c], Len(kept[c]), s, text[c].length)
      <3>1. Len(kept[c]) \in 0..Len(kept[c])
        BY <2>1
      <3> QED BY <1>0, <2>1, <2>2, <3>1 DEF Shows
    <2>4. /\ \A x \in Calls : pc'[x] = IF x = c THEN "splice" ELSE pc[x]
          /\ \A x \in Calls : cursor'[x] = IF x = c THEN Len(kept[c]) ELSE cursor[x]
          /\ masked' = [masked EXCEPT ![c] = s]
          /\ UNCHANGED <<listed, kept, text>>
      BY <1>1, <1>11 DEF Resolved, Goto, given
    <2> HIDE DEF s
    <2> QED BY <2>3, <2>4, OthersShow
  <1>12. ASSUME NEW c \in Calls, Splice(c) PROVE AllShow'
    <2> DEFINE m == cursor[c]
               s == Spliced(masked[c], kept[c][m])
    <2>1. /\ kept[c] \in Seq(Within(text[c].length)) /\ Disjoint(kept[c])
          /\ m \in 1..Len(kept[c]) /\ pc[c] = "splice" /\ m - 1 \in 0..Len(kept[c])
          /\ masked[c] = FlattenSeq(Cells(kept[c], m, text[c].length))
      BY <1>0, <1>12 DEF Shows, CallHolds, Splice
    <2>2. s = FlattenSeq(Cells(kept[c], m - 1, text[c].length))
      BY <1>2, <2>1, SpliceStep
    <2>3. Shows("splice", listed[c], kept[c], m - 1, s, text[c].length)
      BY <1>0, <2>1, <2>2 DEF Shows
    <2>4. /\ \A x \in Calls : pc'[x] = IF x = c THEN "splice" ELSE pc[x]
          /\ \A x \in Calls : cursor'[x] = IF x = c THEN m - 1 ELSE cursor[x]
          /\ masked' = [masked EXCEPT ![c] = s]
          /\ UNCHANGED <<listed, kept, text>>
      BY <1>1, <1>12, <2>1 DEF Splice, given, AllShow
    <2> HIDE DEF s
    <2> QED BY <2>3, <2>4, OthersShow
  <1>13. ASSUME NEW c \in Calls, Return(c) PROVE AllShow'
    <2>1. pc[c] = "splice" /\ cursor[c] = 0
      BY <1>13 DEF Return
    <2>2. Shows("done", listed[c], kept[c], cursor[c], masked[c], text[c].length)
      BY <1>0, <2>1 DEF Shows
    <2>3. /\ \A x \in Calls : pc'[x] = IF x = c THEN "done" ELSE pc[x]
          /\ UNCHANGED <<listed, kept, cursor, masked, text>>
      BY <1>1, <1>13 DEF Return, Goto, loopVars, given
    <2> QED BY <2>2, <2>3, OthersShow
  <1>14. ASSUME NEW e \in Pools, Works(e) PROVE AllShow'
    <2>1. UNCHANGED <<pc, listed, kept, cursor, masked, text>>
      BY <1>14 DEF Works, StartJob, FinishJob, loopVars, given
    <2> QED BY <2>1, SameShow
  <1>15. CASE Shutdown \/ UNCHANGED vars
    <2>1. UNCHANGED <<pc, listed, kept, cursor, masked, text>>
      BY <1>15 DEF Shutdown, vars, loopVars, given
    <2> QED BY <2>1, SameShow
  <1> QED BY <1>3, <1>5, <1>6, <1>7, <1>8, <1>9, <1>10, <1>11, <1>12, <1>13, <1>14, <1>15
          DEF Next, Goes

\* When a call is done, its masked text is the text with each kept stretch, and
\* nothing else, replaced by its token.
THEOREM Splicing == Spec => []SplicedInPlace
  <1>1. AllShow /\ IInv => SplicedInPlace
    <2> SUFFICES ASSUME AllShow, IInv, NEW c \in Calls, pc[c] = "done"
                 PROVE  LET all == ToSet(kept[c])
                            Stands(k) == IF \E d \in all : d.start <= k /\ k < d.end
                                     THEN {Token(d) : d \in {e \in all : e.start = k}}
                                     ELSE {Character(k)}
                        IN  masked[c] = FlattenSeq([k \in 1..text[c].length |->
                                                      SetToSeq(Stands(k - 1))])
      BY DEF SplicedInPlace
    <2>1. masked[c] = FlattenSeq(Cells(kept[c], 0, text[c].length))
      BY DEF AllShow, Shows
    <2>2. ToSet(kept[c]) = Later(kept[c], 0)
      <3>1. kept[c] \in Seq(Good)
        BY DEF IInv, Typed
      <3> QED BY <3>1 DEF ToSet, Later
    <2> QED BY <2>1, <2>2 DEF Cells, At
  <1>2. Spec => [](AllShow /\ IInv)
    BY InitHolds, StepHolds, InitShows, StepShows, PTL DEF Spec
  <1> QED BY <1>1, <1>2, PTL
-----------------------------------------------------------------------------
(* Lists of the same detections.                                            *)

\* As long, and with the same elements: where nothing ties, the one is a
\* permutation of the other.
Size(x) == Len(x)
Same(x, y) == Size(x) = Size(y) /\ ToSet(x) = ToSet(y)

LEMMA CatMeasures ==
  ASSUME NEW T, NEW x \in Seq(T), NEW y \in Seq(T)
  PROVE  /\ Cat(x, y) \in Seq(T)
         /\ Size(x) \in Nat /\ Size(Cat(x, y)) = Size(x) + Size(y)
         /\ ToSet(Cat(x, y)) = ToSet(x) \cup ToSet(y)
  <1>1. PICK m, n : m = Len(x) /\ n = Len(y)
    OBVIOUS
  <1>2. m \in Nat /\ n \in Nat /\ DOMAIN x = 1..m /\ DOMAIN y = 1..n
    BY <1>1
  <1>3. PICK z : z = Cat(x, y)
    OBVIOUS
  <1>4. /\ z \in Seq(T) /\ Len(z) = m + n /\ DOMAIN z = 1..m + n
        /\ \A i \in 1..m + n : z[i] = IF i <= m THEN x[i] ELSE y[i - m]
    <2>1. /\ x \o y \in Seq(T) /\ Len(x \o y) = Len(x) + Len(y)
          /\ \A i \in 1..Len(x) + Len(y) :
               (x \o y)[i] = IF i <= Len(x) THEN x[i] ELSE y[i - Len(x)]
      BY ConcatProperties, Zenon
    <2>2. z = x \o y
      BY <1>3 DEF Cat
    <2>3. /\ z \in Seq(T) /\ Len(z) = m + n
          /\ \A i \in 1..m + n : z[i] = IF i <= m THEN x[i] ELSE y[i - m]
      BY ONLY <1>1, <2>1, <2>2, Zenon
    <2>4. DOMAIN z = 1..m + n
      BY <2>3
    <2> QED BY <2>3, <2>4
  <1>5. ToSet(z) = ToSet(x) \cup ToSet(y)
    <2>1. ASSUME NEW e \in ToSet(z) PROVE e \in ToSet(x) \cup ToSet(y)
      <3>1. PICK i \in 1..m + n : z[i] = e
        BY <1>4, <2>1 DEF ToSet
      <3>2. CASE i <= m
        <4>1. i \in 1..m /\ x[i] = e
          BY <1>2, <1>4, <3>1, <3>2
        <4> QED BY <1>2, <4>1 DEF ToSet
      <3>3. CASE ~(i <= m)
        <4>1. i - m \in 1..n /\ y[i - m] = e
          BY <1>2, <1>4, <3>1, <3>3
        <4> QED BY <1>2, <4>1 DEF ToSet
      <3> QED BY <3>2, <3>3
    <2>2. ASSUME NEW e \in ToSet(x) PROVE e \in ToSet(z)
      <3>1. PICK i \in 1..m : x[i] = e
        BY <1>2, <2>2 DEF ToSet
      <3>2. i \in 1..m + n /\ z[i] = e
        BY <1>2, <1>4, <3>1
      <3> QED BY <1>4, <3>2 DEF ToSet
    <2>3. ASSUME NEW e \in ToSet(y) PROVE e \in ToSet(z)
      <3>1. PICK i \in 1..n : y[i] = e
        BY <1>2, <2>3 DEF ToSet
      <3>2. m + i \in 1..m + n /\ z[m + i] = e
        BY <1>2, <1>4, <3>1
      <3> QED BY <1>4, <3>2 DEF ToSet
    <2> QED BY <2>1, <2>2, <2>3
  <1> QED BY <1>1, <1>2, <1>3, <1>4, <1>5 DEF Size

\* The findings of the recognizers that q names, in that order.
Chain(F, q) == FlattenSeq([k \in DOMAIN q |-> F[q[k]]])

LEMMA ChainType ==
  ASSUME NEW T, NEW R, NEW F \in [R -> Seq(T)], NEW q \in Seq(R)
  PROVE  Chain(F, q) \in Seq(T)
  <1>1. PICK n \in Nat : n = Len(q) /\ DOMAIN q = 1..n
    OBVIOUS
  <1>2. PICK s : s = [k \in DOMAIN q |-> F[q[k]]]
    OBVIOUS
  <1>3. s \in [1..n -> Seq(T)]
    <2>1. \A k \in 1..n : F[q[k]] \in Seq(T)
      BY <1>1
    <2> QED BY <1>1, <1>2, <2>1
  <1> QED BY <1>2, <1>3, FlattenType DEF Chain

LEMMA ChainNone == ASSUME NEW F PROVE Chain(F, <<>>) = <<>>
  BY DEF Chain, FlattenSeq

LEMMA ChainAppend ==
  ASSUME NEW T, NEW R, NEW F \in [R -> Seq(T)], NEW q \in Seq(R), NEW x \in R
  PROVE  Chain(F, Cat(q, <<x>>)) = Cat(Chain(F, q), F[x])
  <1>1. PICK n \in Nat : n = Len(q) /\ DOMAIN q = 1..n
    OBVIOUS
  <1>2. PICK p : p = Cat(q, <<x>>)
    OBVIOUS
  <1>3. p \in Seq(R) /\ DOMAIN p = 1..n + 1 /\ p[n + 1] = x /\ \A k \in 1..n : p[k] = q[k]
    BY <1>1, <1>2 DEF Cat
  <1>4. PICK s : s = [k \in DOMAIN p |-> F[p[k]]]
    OBVIOUS
  <1>5. PICK r : r = [k \in DOMAIN q |-> F[q[k]]]
    OBVIOUS
  <1>6. s \in [1..n + 1 -> Seq(T)]
    <2>1. \A k \in 1..n + 1 : p[k] \in R
      BY <1>3
    <2>2. \A k \in 1..n + 1 : F[p[k]] \in Seq(T)
      BY <2>1
    <2> QED BY <1>3, <1>4, <2>2
  <1>7. r = [k \in 1..n |-> s[k]] /\ s[n + 1] = F[x]
    <2>1. \A k \in 1..n : k \in 1..n + 1
      OBVIOUS
    <2>2. n + 1 \in 1..n + 1
      OBVIOUS
    <2> QED BY <1>1, <1>3, <1>4, <1>5, <2>1, <2>2
  <1>8. FlattenSeq(s) = FlattenSeq(r) \o s[n + 1]
    BY <1>6, <1>7, FlattenAppend
  <1> QED BY <1>2, <1>4, <1>5, <1>7, <1>8 DEF Chain, Cat

LEMMA PrefixGrows ==
  ASSUME NEW R, NEW q \in Seq(R), NEW i \in 1..Len(q)
  PROVE  /\ SubSeq(q, 1, i - 1) \in Seq(R) /\ q[i] \in R
         /\ SubSeq(q, 1, i) = Cat(SubSeq(q, 1, i - 1), <<q[i]>>)
  BY DEF Cat

LEMMA Sums ==
  ASSUME NEW k \in Nat, NEW l \in Nat, NEW m \in Nat, NEW j \in Nat, k + l = j
  PROVE  k + (l + m) = j + m /\ (k + m) + l = j + m
  OBVIOUS

\* What all recognizers find is what those outside S and those in S find.
LEMMA ChainSplit ==
  ASSUME NEW T, NEW R, NEW F \in [R -> Seq(T)], NEW q \in Seq(R), NEW S
  PROVE  Same(Cat(Chain(F, Among(q, R \ S)), Chain(F, Among(q, S))), Chain(F, q))
  <1>append. \A p \in Seq(R), x \in R : Chain(F, Cat(p, <<x>>)) = Cat(Chain(F, p), F[x])
    <2> SUFFICES ASSUME NEW p \in Seq(R), NEW x \in R
                 PROVE  Chain(F, Cat(p, <<x>>)) = Cat(Chain(F, p), F[x])
      OBVIOUS
    <2>1. F \in [R -> Seq(T)]
      OBVIOUS
    <2> QED BY ONLY <2>1, ChainAppend
  <1>measure. \A x, y \in Seq(T) :
                /\ Cat(x, y) \in Seq(T) /\ Size(x) \in Nat
                /\ Size(Cat(x, y)) = Size(x) + Size(y)
                /\ ToSet(Cat(x, y)) = ToSet(x) \cup ToSet(y)
    BY CatMeasures
  <1>1. PICK n \in Nat : n = Len(q)
    OBVIOUS
  <1>2. PICK a \in [0..n -> Seq(R \cap (R \ S))] :
          Choosing(a, q, R \ S, n) /\ Among(q, R \ S) = a[n]
    <2>1. \A U : \E f \in [0..n -> Seq(R \cap U)] :
                  Choosing(f, q, U, n) /\ Among(q, U) = f[n]
      BY <1>1, AmongGrows
    <2> QED BY ONLY <2>1, Zenon
  <1>3. PICK b \in [0..n -> Seq(R \cap S)] : Choosing(b, q, S, n) /\ Among(q, S) = b[n]
    BY <1>1, AmongGrows
  <1>4. \A i \in 0..n : a[i] \in Seq(R) /\ b[i] \in Seq(R)
    <2> SUFFICES ASSUME NEW i \in 0..n PROVE a[i] \in Seq(R) /\ b[i] \in Seq(R)
      OBVIOUS
    <2>1. a[i] \in Seq(R \cap (R \ S)) /\ b[i] \in Seq(R \cap S)
      OBVIOUS
    <2>2. \A A, B : A \subseteq B => \A s \in Seq(A) : s \in Seq(B)
      <3> SUFFICES ASSUME NEW A, NEW B, A \subseteq B, NEW s \in Seq(A)
                   PROVE  s \in Seq(B)
        OBVIOUS
      <3>1. \A k \in DOMAIN s : s[k] \in B
        OBVIOUS
      <3> QED BY <3>1, SeqIn
    <2> QED BY <2>1, <2>2
  <1> DEFINE Both(i) == Cat(Chain(F, a[i]), Chain(F, b[i]))
             All(i) == Chain(F, SubSeq(q, 1, i))
  <1>5. PICK P : P = {i \in 0..n : Same(Both(i), All(i))}
    OBVIOUS
  <1>6. 0 \in P
    <2>1. a[0] = <<>> /\ b[0] = <<>> /\ SubSeq(q, 1, 0) = <<>>
      BY <1>2, <1>3 DEF Choosing
    <2>2. Both(0) = Cat(<<>>, <<>>) /\ All(0) = <<>>
      BY <2>1, ChainNone
    <2>3. Cat(<<>>, <<>>) = <<>>
      BY DEF Cat
    <2> QED BY <1>5, <2>2, <2>3 DEF Same
  <1>7. ASSUME NEW i \in 0..n, i > 0 /\ i - 1 \in P
        PROVE  i \in P
    <2>1. i \in 1..n /\ i \in 1..Len(q) /\ i - 1 \in 0..n
      BY <1>1, <1>7
    <2>2. PICK x \in R : x = q[i]
      BY <2>1
    <2>3. PICK f \in Seq(T) : f = F[x]
      OBVIOUS
    <2>4. /\ a[i - 1] \in Seq(R) /\ b[i - 1] \in Seq(R)
          /\ SubSeq(q, 1, i - 1) \in Seq(R)
      BY <1>4, <2>1, PrefixGrows
    <2>5. PICK u \in Seq(T), v \in Seq(T), w \in Seq(T) :
            u = Chain(F, a[i - 1]) /\ v = Chain(F, b[i - 1]) /\ w = All(i - 1)
      BY <2>4, ChainType
    <2>6. All(i) = Cat(w, f)
      <3>1. SubSeq(q, 1, i) = Cat(SubSeq(q, 1, i - 1), <<x>>)
        BY <2>1, <2>2, PrefixGrows
      <3>2. Chain(F, Cat(SubSeq(q, 1, i - 1), <<x>>)) = Cat(Chain(F, SubSeq(q, 1, i - 1)), F[x])
        BY ONLY <2>2, <2>4, <1>append, Zenon
      <3> QED BY <2>3, <2>5, <3>1, <3>2
    <2>7. /\ Chain(F, Cat(a[i - 1], <<x>>)) = Cat(u, f)
          /\ Chain(F, Cat(b[i - 1], <<x>>)) = Cat(v, f)
      BY ONLY <2>2, <2>3, <2>4, <2>5, <1>append, Zenon
    <2>8. Size(Cat(u, v)) = Size(w) /\ ToSet(Cat(u, v)) = ToSet(w)
      BY <1>5, <1>7, <2>5 DEF Same
    <2>9. /\ a[i] = IF x \in R \ S THEN Cat(a[i - 1], <<x>>) ELSE a[i - 1]
          /\ b[i] = IF x \in S THEN Cat(b[i - 1], <<x>>) ELSE b[i - 1]
      BY <1>2, <1>3, <2>1, <2>2, Zenon DEF Choosing, Cat
    <2>10. Both(i) = Cat(u, Cat(v, f)) \/ Both(i) = Cat(Cat(u, f), v)
      <3>1. CASE x \in S
        <4>1. a[i] = a[i - 1] /\ b[i] = Cat(b[i - 1], <<x>>)
          BY <2>9, <3>1
        <4> QED BY <2>5, <2>7, <4>1
      <3>2. CASE x \notin S
        <4>1. a[i] = Cat(a[i - 1], <<x>>) /\ b[i] = b[i - 1]
          BY <2>2, <2>9, <3>2
        <4> QED BY <2>5, <2>7, <4>1
      <3> QED BY <3>1, <3>2
    <2>11. Same(Both(i), Cat(w, f))
      <3> HIDE DEF Both, All
      <3>1. /\ Size(Cat(u, v)) = Size(u) + Size(v) /\ ToSet(Cat(u, v)) = ToSet(u) \cup ToSet(v)
            /\ Size(Cat(w, f)) = Size(w) + Size(f) /\ ToSet(Cat(w, f)) = ToSet(w) \cup ToSet(f)
            /\ Cat(v, f) \in Seq(T) /\ Cat(u, f) \in Seq(T)
            /\ Size(Cat(v, f)) = Size(v) + Size(f) /\ ToSet(Cat(v, f)) = ToSet(v) \cup ToSet(f)
            /\ Size(Cat(u, f)) = Size(u) + Size(f) /\ ToSet(Cat(u, f)) = ToSet(u) \cup ToSet(f)
        BY ONLY <1>measure, <2>3, <2>5, Zenon
      <3>2. /\ Size(Cat(u, Cat(v, f))) = Size(u) + Size(Cat(v, f))
            /\ ToSet(Cat(u, Cat(v, f))) = ToSet(u) \cup ToSet(Cat(v, f))
            /\ Size(Cat(Cat(u, f), v)) = Size(Cat(u, f)) + Size(v)
            /\ ToSet(Cat(Cat(u, f), v)) = ToSet(Cat(u, f)) \cup ToSet(v)
        BY ONLY <1>measure, <2>5, <3>1, Zenon
      <3>3. Size(u) \in Nat /\ Size(v) \in Nat /\ Size(f) \in Nat /\ Size(w) \in Nat
        BY ONLY <1>measure, <2>3, <2>5, Zenon
      <3>4. Size(Both(i)) = Size(Cat(w, f))
        <4>1. PICK k \in Nat, l \in Nat, m \in Nat, j \in Nat :
                k = Size(u) /\ l = Size(v) /\ m = Size(f) /\ j = Size(w)
          BY <3>3
        <4>2. k + l = j /\ Size(Cat(w, f)) = j + m
          BY ONLY <2>8, <3>1, <4>1, Zenon
        <4>3. Size(Cat(u, Cat(v, f))) = k + (l + m) /\ Size(Cat(Cat(u, f), v)) = (k + m) + l
          BY ONLY <3>1, <3>2, <4>1, Zenon
        <4>4. k + (l + m) = j + m /\ (k + m) + l = j + m
          BY ONLY <4>2, Sums
        <4> QED BY ONLY <2>10, <4>2, <4>3, <4>4, Zenon
      <3>5. ToSet(Both(i)) = ToSet(Cat(w, f))
        BY <2>8, <2>10, <3>1, <3>2, Zenon
      <3> QED BY <3>4, <3>5 DEF Same
    <2> QED BY <1>5, <2>6, <2>11
  <1>8. n \in P
    <2>1. \A i \in 0..n : i \in P
      BY <1>6, <1>7, IntervalInduction
    <2>2. n \in 0..n
      OBVIOUS
    <2> QED BY <2>1, <2>2
  <1>9. SubSeq(q, 1, n) = q
    BY <1>1, SubSeqFull
  <1> QED BY <1>2, <1>3, <1>5, <1>8, <1>9

\* With nothing to leave out, Among takes all.
LEMMA AmongAll ==
  ASSUME NEW T, NEW s \in Seq(T), NEW S, T \subseteq S
  PROVE  Among(s, S) = s
  <1>1. PICK n \in Nat : n = Len(s)
    OBVIOUS
  <1>2. PICK f \in [0..n -> Seq(T \cap S)] : Choosing(f, s, S, n) /\ Among(s, S) = f[n]
    BY <1>1, AmongGrows
  <1>3. PICK P : P = {i \in 0..n : f[i] = SubSeq(s, 1, i)}
    OBVIOUS
  <1>4. 0 \in P
    <2>1. SubSeq(s, 1, 0) = <<>>
      OBVIOUS
    <2> QED BY <1>2, <1>3, <2>1 DEF Choosing
  <1>5. ASSUME NEW i \in 0..n, i > 0 /\ i - 1 \in P
        PROVE  i \in P
    <2>1. i \in 1..n /\ i \in 1..Len(s) /\ s[i] \in S /\ f[i - 1] = SubSeq(s, 1, i - 1)
      BY <1>1, <1>3, <1>5
    <2>2. f[i] = Cat(f[i - 1], <<s[i]>>)
      BY <1>2, <2>1, Zenon DEF Choosing, Cat
    <2>3. SubSeq(s, 1, i) = Cat(SubSeq(s, 1, i - 1), <<s[i]>>)
      BY <2>1, PrefixGrows
    <2>4. f[i] = SubSeq(s, 1, i)
      BY ONLY <2>1, <2>2, <2>3, Zenon
    <2> QED BY <1>3, <2>4
  <1>6. n \in P
    <2>1. \A i \in 0..n : i \in P
      BY <1>4, <1>5, IntervalInduction
    <2>2. n \in 0..n
      OBVIOUS
    <2> QED BY <2>1, <2>2
  <1>7. SubSeq(s, 1, n) = s
    BY <1>1, SubSeqFull
  <1> QED BY <1>2, <1>3, <1>6, <1>7

-----------------------------------------------------------------------------
(* Sorting lists of the same detections.                                    *)

Places(s) == [i \in DOMAIN s |-> Place(s[i])]

LEMMA PlacesType ==
  ASSUME NEW s \in Seq(Good)
  PROVE  /\ Places(s) \in [1..Len(s) -> Int]
         /\ \A i \in 1..Len(s) : Places(s)[i] = Place(s[i]) /\ s[i] \in Good
         /\ DOMAIN s = 1..Len(s) /\ Len(s) \in Nat
  <1>1. \A i \in 1..Len(s) : s[i] \in Good
    OBVIOUS
  <1>2. \A i \in 1..Len(s) : Place(s[i]) \in Int
    BY <1>1, PlaceFacts
  <1>3. DOMAIN s = 1..Len(s) /\ Len(s) \in Nat
    OBVIOUS
  <1> QED BY <1>1, <1>2, <1>3 DEF Places

\* At each place stands the detection whose rank it is.
LEMMA InPlaceRank ==
  ASSUME NEW s \in Seq(Good), NEW k \in 1..Len(s)
  PROVE  \E i \in 1..Len(s) : Rank(Places(s), i) = k /\ InPlace(s)[k] = s[i]
  <1>1. PICK n \in Nat : n = Len(s) /\ DOMAIN s = 1..n
    OBVIOUS
  <1>2. PICK key : key = Places(s)
    OBVIOUS
  <1>3. key \in [1..n -> Int]
    BY <1>1, <1>2, PlacesType
  <1>4. \E i \in 1..n : Rank(key, i) = k
    BY <1>1, <1>3, RankIsOnto
  <1>5. PICK i : i = CHOOSE j \in 1..n : Rank(key, j) = k
    OBVIOUS
  <1>6. i \in 1..n /\ Rank(key, i) = k
    BY <1>4, <1>5
  <1>7. InPlace(s)[k] = s[i]
    BY <1>1, <1>2, <1>5 DEF InPlace, Sorted, Places
  <1> QED BY <1>1, <1>2, <1>6, <1>7

LEMMA InPlaceRanked ==
  ASSUME NEW s \in Seq(Good), NEW i \in 1..Len(s)
  PROVE  Rank(Places(s), i) \in 1..Len(s) /\ InPlace(s)[Rank(Places(s), i)] = s[i]
  <1>1. PICK n \in Nat : n = Len(s)
    OBVIOUS
  <1>2. Places(s) \in [1..n -> Int]
    BY <1>1, PlacesType
  <1>3. Rank(Places(s), i) \in 1..n
    <2>1. PICK key, b : key = Places(s) /\ b = Cardinality(Below(Places(s), i))
      OBVIOUS
    <2>2. key \in [1..n -> Int] /\ i \in 1..n
      BY <1>1, <1>2, <2>1
    <2>3. b \in 0..n - 1 /\ Rank(key, i) = 1 + b
      BY <2>1, <2>2, BelowFacts
    <2> QED BY <2>1, <2>3
  <1>4. PICK j \in 1..n : Rank(Places(s), j) = Rank(Places(s), i)
                          /\ InPlace(s)[Rank(Places(s), i)] = s[j]
    BY <1>1, <1>3, InPlaceRank
  <1>5. i = j
    BY <1>1, <1>2, <1>4, RankIsOneToOne
  <1> QED BY <1>1, <1>3, <1>4, <1>5

\* What ties in a list ties in the list sorted.
LEMMA InPlaceTies ==
  ASSUME NEW s \in Seq(Good), NoTies(InPlace(s))
  PROVE  NoTies(s)
  <1> SUFFICES ASSUME NEW i \in 1..Len(s), NEW j \in 1..Len(s), i # j
               PROVE  Place(s[i]) # Place(s[j])
    BY PlacesType DEF NoTies
  <1>1. Good \in SUBSET Good
    OBVIOUS
  <1>2. DOMAIN InPlace(s) = 1..Len(s)
    <2>1. InPlace(s) \in Seq(Good) /\ Len(InPlace(s)) = Len(s)
      BY <1>1, InPlaceFacts
    <2> QED BY <2>1
  <1>3. PICK k, l : k = Rank(Places(s), i) /\ l = Rank(Places(s), j)
    OBVIOUS
  <1>4. k \in 1..Len(s) /\ l \in 1..Len(s) /\ InPlace(s)[k] = s[i] /\ InPlace(s)[l] = s[j]
    BY <1>3, InPlaceRanked
  <1>5. k # l
    BY <1>3, PlacesType, RankIsOneToOne
  <1> QED BY <1>2, <1>4, <1>5 DEF NoTies

\* If the one list has no ties, neither has the other.
LEMMA SameTies ==
  ASSUME NEW x \in Seq(Good), NEW y \in Seq(Good), Same(x, y), NoTies(x)
  PROVE  NoTies(y)
  <1>1. PICK n \in Nat : n = Len(x) /\ n = Len(y) /\ DOMAIN x = 1..n /\ DOMAIN y = 1..n
    BY DEF Same, Size
  <1>2. PICK S : S = ToSet(x) /\ S = ToSet(y)
    BY DEF Same
  <1>3. x \in [1..n -> S] /\ y \in [1..n -> S]
    <2>1. \A i \in 1..n : x[i] \in S /\ y[i] \in S
      BY <1>1, <1>2, Zenon DEF ToSet
    <2>2. x \in [1..n -> Good] /\ y \in [1..n -> Good]
      BY <1>1
    <2> QED BY <2>1, <2>2
  <1>4. x \in Surjection(1..n, S) /\ y \in Surjection(1..n, S)
    BY <1>1, <1>2, <1>3 DEF Surjection, ToSet
  <1>5. x \in Injection(1..n, S)
    <2>1. \A i, j \in 1..n : x[i] = x[j] => i = j
      BY <1>1 DEF NoTies
    <2> QED BY <1>3, <2>1 DEF Injection, IsInjective
  <1>6. Cardinality(S) = Cardinality(1..n) /\ IsFiniteSet(1..n)
    BY <1>4, <1>5, FS_Interval, FS_Surjection
  <1>7. y \in Injection(1..n, S)
    BY <1>4, <1>6, FS_Surjection
  <1>8. ASSUME NEW i \in 1..n, NEW j \in 1..n, i # j
        PROVE  Place(y[i]) # Place(y[j])
    <2>1. y[i] # y[j] /\ y[i] \in S /\ y[j] \in S
      BY <1>3, <1>7, <1>8 DEF Injection, IsInjective
    <2>2. PICK k \in 1..n, l \in 1..n : x[k] = y[i] /\ x[l] = y[j]
      BY <1>1, <1>2, <2>1 DEF ToSet
    <2>3. k # l
      BY <2>1, <2>2
    <2> QED BY <1>1, <2>2, <2>3 DEF NoTies
  <1> QED BY <1>1, <1>8 DEF NoTies

\* Without ties, the rank of a detection is how many of the others come before it.
Lower(S, d) == {e \in S : Place(e) < Place(d)}

LEMMA RankWithoutTies ==
  ASSUME NEW s \in Seq(Good), NoTies(s), NEW i \in 1..Len(s)
  PROVE  Rank(Places(s), i) = 1 + Cardinality(Lower(ToSet(s), s[i]))
  <1>1. PICK n \in Nat : n = Len(s) /\ DOMAIN s = 1..n
    OBVIOUS
  <1>2. PICK key : key = Places(s)
    OBVIOUS
  <1>3. /\ key \in [1..n -> Int] /\ DOMAIN key = 1..n
        /\ \A j \in 1..n : key[j] = Place(s[j])
    BY <1>1, <1>2, PlacesType
  <1>4. PICK B, L : B = Below(key, i) /\ L = Lower(ToSet(s), s[i])
    OBVIOUS
  <1>5. /\ B \in SUBSET (1..n) /\ IsFiniteSet(B)
        /\ Rank(key, i) = 1 + Cardinality(B)
    BY <1>1, <1>3, <1>4, BelowFacts
  <1>6. \A j \in 1..n : j \in B <=> Place(s[j]) < Place(s[i])
    <2> SUFFICES ASSUME NEW j \in 1..n
                 PROVE  j \in B <=> Place(s[j]) < Place(s[i])
      OBVIOUS
    <2>1. j \in B <=> key[j] < key[i] \/ (key[j] = key[i] /\ j < i)
      BY <1>3, <1>4 DEF Below
    <2>2. key[j] = key[i] => j = i
      BY <1>1, <1>3 DEF NoTies
    <2>3. ~(i < i)
      BY <1>1
    <2> QED BY <1>1, <1>3, <2>1, <2>2, <2>3
  <1> DEFINE f == [j \in B |-> s[j]]
  <1>7. f \in Bijection(B, L)
    <2>1. \A j \in B : s[j] \in L
      BY <1>1, <1>4, <1>5, <1>6 DEF Lower, ToSet
    <2>2. f \in [B -> L]
      BY <2>1
    <2>3. \A j, k \in B : f[j] = f[k] => j = k
      <3>1. \A j, k \in B : j \in 1..n /\ k \in 1..n
        BY <1>5
      <3> QED BY <1>1, <3>1 DEF NoTies
    <2>4. \A e \in L : \E j \in B : f[j] = e
      <3> SUFFICES ASSUME NEW e \in L PROVE \E j \in B : s[j] = e
        OBVIOUS
      <3>1. PICK j \in 1..n : s[j] = e
        BY <1>1, <1>4 DEF Lower, ToSet
      <3>2. Place(s[j]) < Place(s[i])
        BY <1>4, <3>1 DEF Lower
      <3> QED BY <1>6, <3>1, <3>2
    <2> HIDE DEF f
    <2> QED BY <2>2, <2>3, <2>4 DEF Bijection, Injection, Surjection, IsInjective
  <1>8. Cardinality(L) = Cardinality(B)
    BY <1>5, <1>7, FS_Bijection DEF ExistsBijection
  <1> QED BY <1>2, <1>4, <1>5, <1>8

\* Sorted, the two are one list.
LEMMA SameSorted ==
  ASSUME NEW x \in Seq(Good), NEW y \in Seq(Good), Same(x, y), NoTies(x)
  PROVE  InPlace(x) = InPlace(y)
  <1>1. PICK n \in Nat : n = Len(x) /\ n = Len(y) /\ DOMAIN x = 1..n /\ DOMAIN y = 1..n
    BY DEF Same, Size
  <1>2. PICK S : S = ToSet(x) /\ S = ToSet(y)
    BY DEF Same
  <1>3. NoTies(y)
    BY SameTies
  <1>4. ASSUME NEW k \in 1..n
        PROVE  InPlace(x)[k] = InPlace(y)[k]
    <2>1. PICK i \in 1..n : Rank(Places(x), i) = k /\ InPlace(x)[k] = x[i]
      BY <1>1, InPlaceRank
    <2>2. PICK j \in 1..n : Rank(Places(y), j) = k /\ InPlace(y)[k] = y[j]
      BY <1>1, InPlaceRank
    <2>3. y[j] \in S
      BY <1>1, <1>2 DEF ToSet
    <2>4. PICK m \in 1..n : x[m] = y[j]
      BY <1>1, <1>2, <2>3 DEF ToSet
    <2>5. Rank(Places(x), m) = 1 + Cardinality(Lower(S, y[j]))
      BY <1>1, <1>2, <2>4, RankWithoutTies
    <2>6. Rank(Places(y), j) = 1 + Cardinality(Lower(S, y[j]))
      BY <1>1, <1>2, <1>3, RankWithoutTies
    <2>7. Rank(Places(x), m) = Rank(Places(x), i)
      BY <2>1, <2>2, <2>5, <2>6
    <2>8. m = i
      <3>1. Places(x) \in [1..n -> Int]
        BY <1>1, PlacesType
      <3> QED BY <2>7, <3>1, RankIsOneToOne
    <2> QED BY <2>1, <2>2, <2>4, <2>8
  <1>5. /\ InPlace(x) \in Seq(Good) /\ Len(InPlace(x)) = n
        /\ InPlace(y) \in Seq(Good) /\ Len(InPlace(y)) = n
    <2>1. Good \in SUBSET Good
      OBVIOUS
    <2> QED BY <1>1, <2>1, InPlaceFacts
  <1> QED BY <1>4, <1>5, SeqEqual

\* The boost makes the same of the same.
Boost(s) == [k \in DOMAIN s |-> Boosted(s[k])]

LEMMA SameBoosted ==
  ASSUME NEW x \in Seq(Good), NEW y \in Seq(Good), Same(x, y)
  PROVE  Same(Boost(x), Boost(y))
  <1>1. PICK n \in Nat : n = Len(x) /\ n = Len(y) /\ DOMAIN x = 1..n /\ DOMAIN y = 1..n
    BY DEF Same, Size
  <1>2. Len(Boost(x)) = n /\ Len(Boost(y)) = n
    BY <1>1 DEF Boost
  <1>3. ToSet(x) = ToSet(y)
    BY DEF Same
  <1>4. ToSet(Boost(x)) = {Boosted(d) : d \in ToSet(x)}
    BY <1>1 DEF Boost, ToSet
  <1>5. ToSet(Boost(y)) = {Boosted(d) : d \in ToSet(y)}
    BY <1>1 DEF Boost, ToSet
  <1> QED BY <1>2, <1>3, <1>4, <1>5 DEF Same, Size

\* Both methods find the same, in another order.
LEMMA TiersFindTheSame ==
  ASSUME NEW s \in Scenarios, NEW c \in Calls
  PROVE  /\ Same(Cat(FindingsOf(s[c], FastOnes), FindingsOf(s[c], HeavyOnes)),
                 FindingsOf(s[c], Ranked))
         /\ HeavyOnes = <<>> => Same(FindingsOf(s[c], FastOnes), FindingsOf(s[c], Ranked))
  <1>1. PICK F : F = [i \in Recognizers |-> Findings(s[c], i)]
    OBVIOUS
  <1>2. PICK T : T = Within(s[c].length)
    OBVIOUS
  <1>3. F \in [Recognizers -> Seq(T)]
    BY <1>1, <1>2, OneFinds
  <1>4. ASSUME NEW q \in Seq(Recognizers)
        PROVE  FindingsOf(s[c], q) = Chain(F, q)
    <2>1. \A k \in DOMAIN q : q[k] \in Recognizers
      OBVIOUS
    <2>2. \A k \in DOMAIN q : F[q[k]] = Findings(s[c], q[k])
      BY <1>1, <2>1
    <2> QED BY <2>2 DEF FindingsOf, Chain
  <1>5. Ranked \in Seq(Recognizers) /\ FastOnes \in Seq(Recognizers)
        /\ HeavyOnes \in Seq(Recognizers)
    BY OrdersType
  <1>6. Same(Cat(Chain(F, FastOnes), Chain(F, HeavyOnes)), Chain(F, Ranked))
    BY <1>3, <1>5, ChainSplit DEF FastOnes, HeavyOnes
  <1>7. HeavyOnes = <<>> => Same(Chain(F, FastOnes), Chain(F, Ranked))
    <2> SUFFICES ASSUME HeavyOnes = <<>>
                 PROVE  Cat(Chain(F, FastOnes), Chain(F, HeavyOnes)) = Chain(F, FastOnes)
      BY <1>6
    <2>1. Chain(F, FastOnes) \in Seq(T)
      BY <1>3, <1>5, ChainType
    <2>2. Chain(F, HeavyOnes) = <<>>
      BY ChainNone
    <2> QED BY <2>1, <2>2, ConcatEmptySeq DEF Cat
  <1> QED BY <1>4, <1>5, <1>6, <1>7

\* k is what the loop keeps of the first m detections of l.
KeptOf(k, l, m) == \E f \in [0..m -> Seq(Good)] : Turning(f, l, m) /\ k = f[m]

LEMMA KeptStart == ASSUME NEW l PROVE KeptOf(<<>>, l, 0)
  <1> DEFINE f == [i \in 0..0 |-> <<>>]
  <1>1. f \in [0..0 -> Seq(Good)] /\ f[0] = <<>> /\ \A i \in 1..0 : FALSE
    OBVIOUS
  <1> HIDE DEF f
  <1> QED BY <1>1 DEF KeptOf, Turning

LEMMA KeptStep ==
  ASSUME NEW l \in Seq(Good), NEW m \in Nat, m < Len(l), NEW k \in Seq(Good), KeptOf(k, l, m)
  PROVE  KeptOf(KeepBetter(k, l[m + 1]), l, m + 1)
  <1>1. PICK f \in [0..m -> Seq(Good)] : Turning(f, l, m) /\ k = f[m]
    BY DEF KeptOf
  <1>2. PICK n : n = KeepBetter(k, l[m + 1])
    OBVIOUS
  <1>3. n \in Seq(Good)
    <2>1. l[m + 1] \in Good /\ Good \in SUBSET Good
      OBVIOUS
    <2> QED BY <1>2, <2>1, KeepBetterType
  <1>4. PICK g : g = [i \in 0..m + 1 |-> IF i = m + 1 THEN n ELSE f[i]]
    OBVIOUS
  <1>5. /\ g \in [0..m + 1 -> Seq(Good)] /\ g[m + 1] = n
        /\ \A i \in 0..m : g[i] = f[i]
    <2>1. \A i \in 0..m + 1 : i = m + 1 \/ i \in 0..m
      OBVIOUS
    <2>2. \A i \in 0..m : i # m + 1 /\ i \in 0..m + 1
      OBVIOUS
    <2> QED BY <1>3, <1>4, <2>1, <2>2
  <1>6. g[0] = <<>>
    BY <1>1, <1>5 DEF Turning
  <1>7. ASSUME NEW i \in 1..m + 1
        PROVE  g[i] = KeepBetter(g[i - 1], l[i])
    <2>1. i - 1 \in 0..m /\ g[i - 1] = f[i - 1]
      BY <1>5
    <2>2. CASE i = m + 1
      BY <1>1, <1>2, <1>5, <2>1, <2>2
    <2>3. CASE i # m + 1
      <3>1. i \in 1..m /\ i \in 0..m
        BY <2>3
      <3>2. f[i] = KeepBetter(f[i - 1], l[i])
        BY <1>1, <3>1, Zenon DEF Turning
      <3> QED BY <1>5, <2>1, <3>1, <3>2
    <2> QED BY <2>2, <2>3
  <1> QED BY <1>2, <1>5, <1>6, <1>7 DEF KeptOf, Turning

LEMMA KeptIsOne ==
  ASSUME NEW l, NEW m \in Nat, NEW k, NEW k1, KeptOf(k, l, m), KeptOf(k1, l, m)
  PROVE  k = k1
  <1>1. PICK f \in [0..m -> Seq(Good)] : Turning(f, l, m) /\ k = f[m]
    BY DEF KeptOf
  <1>2. PICK g \in [0..m -> Seq(Good)] : Turning(g, l, m) /\ k1 = g[m]
    BY DEF KeptOf
  <1>3. PICK P : P = {i \in 0..m : f[i] = g[i]}
    OBVIOUS
  <1>4. 0 \in P
    BY <1>1, <1>2, <1>3 DEF Turning
  <1>5. ASSUME NEW i \in 0..m, i > 0 /\ i - 1 \in P
        PROVE  i \in P
    <2>1. i \in 1..m /\ f[i - 1] = g[i - 1]
      BY <1>3, <1>5
    <2>2. f[i] = KeepBetter(f[i - 1], l[i]) /\ g[i] = KeepBetter(g[i - 1], l[i])
      BY <1>1, <1>2, <2>1, Zenon DEF Turning
    <2> QED BY <1>3, <2>1, <2>2
  <1>6. m \in P
    <2>1. \A i \in 0..m : i \in P
      BY <1>4, <1>5, IntervalInduction
    <2>2. m \in 0..m
      OBVIOUS
    <2> QED BY <2>1, <2>2
  <1> QED BY <1>1, <1>2, <1>3, <1>6

-----------------------------------------------------------------------------
(* What a call has is what mask() would have at that point.                 *)

\* A call at p that masks t: with the list l, what is kept of it k, the cursor
\* m and the recognizers r that raised in the pool.
CallAgrees(t, p, l, k, m, r) ==
  /\ p = "gather" => l = FindingsOf(t, FastOnes)
  /\ p = "sort" /\ r = {} => Same(l, FindingsOf(t, Ranked))
  /\ p \in {"resolve", "splice", "done"} /\ r = {} /\ NoTies(l)
       => l = InPlace(Boost(FindingsOf(t, Ranked)))
  /\ p = "resolve" => m \in 1..Len(l) + 1 /\ KeptOf(k, l, m - 1)
  /\ p \in {"splice", "done"} => KeptOf(k, l, Len(l))

AllAgree ==
  ~bypass => \A c \in Calls :
    CallAgrees(text[c], pc[c], listed[c], kept[c], cursor[c], raised[c])

LEMMA InitAgree == Init => AllAgree
  <1> SUFFICES ASSUME Init, NEW c \in Calls
               PROVE  CallAgrees(text[c], pc[c], listed[c], kept[c], cursor[c], raised[c])
    BY DEF AllAgree
  <1>1. pc[c] = "idle"
    BY DEF Init
  <1> QED BY <1>1 DEF CallAgrees

\* A step of c leaves what the other calls have.
LEMMA OthersAgree ==
  ASSUME AllAgree, UNCHANGED <<text, bypass>>, NEW c \in Calls,
         \A x \in Calls \ {c} :
           /\ pc'[x] = pc[x] /\ listed'[x] = listed[x] /\ kept'[x] = kept[x]
           /\ cursor'[x] = cursor[x] /\ raised'[x] = raised[x],
         ~bypass => CallAgrees(text[c], pc'[c], listed'[c], kept'[c], cursor'[c], raised'[c])
  PROVE  AllAgree'
  <1> SUFFICES ASSUME ~bypass, NEW x \in Calls
               PROVE  CallAgrees(text[x], pc'[x], listed'[x], kept'[x], cursor'[x], raised'[x])
    BY DEF AllAgree, CallAgrees, KeptOf
  <1>1. CASE x = c
    BY <1>1
  <1>2. CASE x # c
    <2>1. CallAgrees(text[x], pc[x], listed[x], kept[x], cursor[x], raised[x])
      BY DEF AllAgree
    <2> QED BY <1>2, <2>1
  <1> QED BY <1>1, <1>2

LEMMA SameAgree ==
  ASSUME AllAgree, UNCHANGED <<text, bypass, pc, listed, kept, cursor, raised>>
  PROVE  AllAgree'
  BY DEF AllAgree, CallAgrees, KeptOf, Turning, Same, NoTies

LEMMA StepAgrees == IInv /\ AllAgree /\ [Next]_vars => AllAgree'
  <1> SUFFICES ASSUME IInv, AllAgree, [Next]_vars PROVE AllAgree'
    OBVIOUS
  <1>0. /\ Typed /\ text \in Scenarios
        /\ \A x \in Calls : /\ listed[x] \in Seq(Good) /\ kept[x] \in Seq(Good)
                            /\ cursor[x] \in Nat /\ raised[x] \in SUBSET Recognizers
    BY DEF IInv, Typed
  <1>a. /\ pc \in [Calls -> Labels] /\ listed \in [Calls -> Seq(Good)]
        /\ kept \in [Calls -> Seq(Good)] /\ cursor \in [Calls -> Nat]
        /\ raised \in [Calls -> SUBSET Recognizers]
    BY <1>0 DEF Typed
  <1>b. ASSUME ~bypass, NEW x \in Calls
        PROVE  CallAgrees(text[x], pc[x], listed[x], kept[x], cursor[x], raised[x])
    BY <1>b DEF AllAgree
  <1>1. ASSUME NEW c \in Calls, Bypass(c) PROVE AllAgree'
    BY <1>1 DEF Bypass, given, AllAgree
  <1>2. ASSUME NEW c \in Calls, Mask(c) PROVE AllAgree'
    <2>1. PICK l : l = FindingsOf(text[c], Ranked)
      OBVIOUS
    <2>2. /\ UNCHANGED <<text, bypass, raised, kept, cursor>>
          /\ pc' = [pc EXCEPT ![c] = "sort"] /\ listed' = [listed EXCEPT ![c] = l]
      BY <1>2, <2>1 DEF Mask, Goto, given, loopVars
    <2>3. CallAgrees(text[c], "sort", l, kept[c], cursor[c], raised[c])
      BY <2>1 DEF CallAgrees, Same
    <2>4. pc'[c] = "sort" /\ listed'[c] = l
      BY <1>a, <2>2
    <2> QED BY <1>a, <2>2, <2>3, <2>4, OthersAgree
  <1>3. ASSUME NEW c \in Calls, MaskAsync(c) PROVE AllAgree'
    <2>1. PICK l : l = FindingsOf(text[c], FastOnes)
      OBVIOUS
    <2>2. PICK p \in {"gather", "sort"} :
            /\ pc' = [pc EXCEPT ![c] = p]
            /\ p = "sort" => HeavyOnes = <<>>
      BY <1>3 DEF MaskAsync, Goto
    <2>3. /\ UNCHANGED <<text, bypass, raised, kept, cursor>>
          /\ listed' = [listed EXCEPT ![c] = l]
      BY <1>3, <2>1 DEF MaskAsync, given, loopVars
    <2>4. CallAgrees(text[c], p, l, kept[c], cursor[c], raised[c])
      <3>1. p = "sort" => Same(l, FindingsOf(text[c], Ranked))
        BY <1>0, <2>1, <2>2, TiersFindTheSame
      <3> QED BY <2>1, <2>2, <3>1 DEF CallAgrees
    <2>5. pc'[c] = p /\ listed'[c] = l
      BY <1>a, <2>2, <2>3
    <2> QED BY <1>a, <2>2, <2>3, <2>4, <2>5, OthersAgree
  <1>4. ASSUME NEW c \in Calls, MaskRaises(c) PROVE AllAgree'
    <2>1. /\ UNCHANGED <<text, bypass, raised, listed, kept, cursor>>
          /\ pc' = [pc EXCEPT ![c] = "failed"]
      BY <1>4 DEF MaskRaises, Goto, given, loopVars
    <2>2. CallAgrees(text[c], "failed", listed[c], kept[c], cursor[c], raised[c])
      BY DEF CallAgrees
    <2>3. pc'[c] = "failed"
      BY <1>a, <2>1
    <2> QED BY <1>a, <2>1, <2>2, <2>3, OthersAgree
  <1>5. ASSUME NEW c \in Calls, Gather(c) PROVE AllAgree'
    <2>1. PICK more : more = FindingsOf(text[c], Among(HeavyOnes, Recognizers \ raised[c]))
      OBVIOUS
    <2>2. PICK l : l = Cat(listed[c], more)
      OBVIOUS
    <2>3. /\ pc[c] = "gather" /\ UNCHANGED <<text, bypass, raised, kept, cursor>>
          /\ pc' = [pc EXCEPT ![c] = "sort"] /\ listed' = [listed EXCEPT ![c] = l]
      BY <1>5, <2>1, <2>2 DEF Gather, Goto, given, loopVars, Cat
    <2>4. ASSUME ~bypass
          PROVE  CallAgrees(text[c], "sort", l, kept[c], cursor[c], raised[c])
      <3>1. listed[c] = FindingsOf(text[c], FastOnes)
        BY <1>b, <2>3, <2>4 DEF CallAgrees
      <3>2. ASSUME raised[c] = {} PROVE Same(l, FindingsOf(text[c], Ranked))
        <4>1. Among(HeavyOnes, Recognizers) = HeavyOnes
          BY OrdersType, AmongAll
        <4>2. Recognizers \ raised[c] = Recognizers
          BY <3>2
        <4>3. more = FindingsOf(text[c], HeavyOnes)
          BY <2>1, <4>1, <4>2
        <4> QED BY <1>0, <2>2, <3>1, <4>3, TiersFindTheSame
      <3> QED BY <3>2 DEF CallAgrees
    <2>5. pc'[c] = "sort" /\ listed'[c] = l
      BY <1>a, <2>3
    <2> QED BY <1>a, <2>3, <2>4, <2>5, OthersAgree
  <1>6. ASSUME NEW c \in Calls, Sort(c) PROVE AllAgree'
    <2>1. PICK l : l = InPlace(Boost(listed[c]))
      OBVIOUS
    <2>2. /\ pc[c] = "sort" /\ UNCHANGED <<text, bypass, raised, kept>>
          /\ pc' = [pc EXCEPT ![c] = "resolve"] /\ cursor' = [cursor EXCEPT ![c] = 1]
          /\ listed' = [listed EXCEPT ![c] = l]
      BY <1>6, <2>1 DEF Sort, Goto, given, Boost
    <2>3. Boost(listed[c]) \in Seq(Good)
      BY <1>0, BoostedType DEF Boost
    <2>4. kept[c] = <<>>
      BY <2>2 DEF IInv, CallsHold, CallHolds
    <2>5. l \in Seq(Good) /\ 1 \in 1..Len(l) + 1
      <3>1. Good \in SUBSET Good
        OBVIOUS
      <3>2. l \in Seq(Good)
        BY <2>1, <2>3, <3>1, InPlaceFacts
      <3> QED BY <3>2
    <2>6. KeptOf(<<>>, l, 1 - 1)
      BY KeptStart
    <2>7. ASSUME ~bypass, raised[c] = {}, NoTies(l)
          PROVE  l = InPlace(Boost(FindingsOf(text[c], Ranked)))
      <3>1. PICK all \in Seq(Good) : all = FindingsOf(text[c], Ranked)
        BY <1>0, FindingsType, OrdersType
      <3>2. Same(listed[c], all)
        BY <1>b, <2>2, <2>7, <3>1 DEF CallAgrees
      <3>3. Same(Boost(listed[c]), Boost(all))
        BY <1>0, <3>2, SameBoosted
      <3>4. NoTies(Boost(listed[c]))
        BY <2>1, <2>3, <2>7, InPlaceTies
      <3>5. Boost(all) \in Seq(Good)
        BY BoostedType DEF Boost
      <3> QED BY <2>1, <2>3, <3>1, <3>3, <3>4, <3>5, SameSorted
    <2>8. ~bypass => CallAgrees(text[c], "resolve", l, kept[c], 1, raised[c])
      BY <2>4, <2>5, <2>6, <2>7 DEF CallAgrees
    <2>9. pc'[c] = "resolve" /\ listed'[c] = l /\ cursor'[c] = 1
      BY <1>a, <2>2
    <2> QED BY <1>a, <2>2, <2>8, <2>9, OthersAgree
  <1>7. ASSUME NEW c \in Calls, Resolve(c) PROVE AllAgree'
    <2>1. PICK m, k : m = cursor[c] - 1 /\ k = KeepBetter(kept[c], listed[c][cursor[c]])
      OBVIOUS
    <2>2. /\ pc[c] = "resolve" /\ cursor[c] <= Len(listed[c])
          /\ UNCHANGED <<text, bypass, raised, listed, pc>>
          /\ kept' = [kept EXCEPT ![c] = k] /\ cursor' = [cursor EXCEPT ![c] = cursor[c] + 1]
      BY <1>7, <2>1 DEF Resolve, given
    <2>3. cursor[c] \in 1..Len(listed[c]) + 1
      BY <2>2 DEF IInv, CallsHold, CallHolds
    <2>4. /\ m \in Nat /\ m < Len(listed[c]) /\ m + 1 = cursor[c]
          /\ (cursor[c] + 1) - 1 = m + 1
          /\ cursor[c] + 1 \in 1..Len(listed[c]) + 1
      BY <1>0, <2>1, <2>2, <2>3
    <2>5. ASSUME ~bypass
          PROVE  CallAgrees(text[c], "resolve", listed[c], k, cursor[c] + 1, raised[c])
      <3>1. CallAgrees(text[c], "resolve", listed[c], kept[c], cursor[c], raised[c])
        BY <1>b, <2>2, <2>5
      <3>2. KeptOf(kept[c], listed[c], m)
        BY <2>1, <3>1 DEF CallAgrees
      <3>3. KeptOf(k, listed[c], m + 1)
        BY <1>0, <2>1, <2>4, <3>2, KeptStep
      <3> QED BY <2>4, <3>1, <3>3 DEF CallAgrees
    <2>6. kept'[c] = k /\ cursor'[c] = cursor[c] + 1
      BY <1>a, <2>2
    <2> QED BY <1>a, <2>2, <2>5, <2>6, OthersAgree
  <1>8. ASSUME NEW c \in Calls, Resolved(c) PROVE AllAgree'
    <2>1. /\ pc[c] = "resolve" /\ cursor[c] > Len(listed[c])
          /\ UNCHANGED <<text, bypass, raised, listed, kept>>
          /\ pc' = [pc EXCEPT ![c] = "splice"]
          /\ cursor' = [cursor EXCEPT ![c] = Len(kept[c])]
      BY <1>8 DEF Resolved, Goto, given
    <2>2. cursor[c] - 1 = Len(listed[c])
      <3>1. cursor[c] \in 1..Len(listed[c]) + 1
        BY <2>1 DEF IInv, CallsHold, CallHolds
      <3>2. PICK m, n : m = cursor[c] /\ n = Len(listed[c])
        OBVIOUS
      <3>3. m \in Nat /\ n \in Nat /\ m \in 1..n + 1 /\ m > n
        BY <1>0, <2>1, <3>1, <3>2
      <3>4. m - 1 = n
        BY ONLY <3>3
      <3> QED BY <3>2, <3>4
    <2>3. ~bypass =>
            CallAgrees(text[c], "splice", listed[c], kept[c], Len(kept[c]), raised[c])
      BY <1>b, <2>1, <2>2 DEF CallAgrees
    <2>4. pc'[c] = "splice" /\ cursor'[c] = Len(kept[c])
      BY <1>a, <2>1
    <2> QED BY <1>a, <2>1, <2>3, <2>4, OthersAgree
  <1>9. ASSUME NEW c \in Calls, Splice(c) PROVE AllAgree'
    <2>1. /\ pc[c] = "splice" /\ UNCHANGED <<text, bypass, raised, listed, kept, pc>>
          /\ cursor' = [cursor EXCEPT ![c] = cursor[c] - 1]
      BY <1>9 DEF Splice, given
    <2>2. ~bypass =>
            CallAgrees(text[c], pc[c], listed[c], kept[c], cursor[c] - 1, raised[c])
      BY <1>b, <2>1 DEF CallAgrees
    <2>3. cursor'[c] = cursor[c] - 1
      BY <1>a, <2>1
    <2> QED BY <1>a, <2>1, <2>2, <2>3, OthersAgree
  <1>10. ASSUME NEW c \in Calls, Return(c) PROVE AllAgree'
    <2>1. /\ pc[c] = "splice" /\ UNCHANGED <<text, bypass, raised, listed, kept, cursor>>
          /\ pc' = [pc EXCEPT ![c] = "done"]
      BY <1>10 DEF Return, Goto, given, loopVars
    <2>2. ~bypass => CallAgrees(text[c], "done", listed[c], kept[c], cursor[c], raised[c])
      BY <1>b, <2>1 DEF CallAgrees
    <2>3. pc'[c] = "done"
      BY <1>a, <2>1
    <2> QED BY <1>a, <2>1, <2>2, <2>3, OthersAgree
  <1>11. ASSUME NEW e \in Pools, StartJob(e) PROVE AllAgree'
    BY <1>11, SameAgree DEF StartJob, given, loopVars
  <1>12. ASSUME NEW e \in Pools, NEW c \in Calls, NEW i \in Recognizers, FinishJob(e, c, i)
         PROVE  AllAgree'
    <2>1. UNCHANGED <<text, bypass, pc, listed, kept, cursor>>
      BY <1>12 DEF FinishJob, given, loopVars
    <2>2. CASE UNCHANGED raised
      BY <2>1, <2>2, SameAgree
    <2>3. CASE raised' = [raised EXCEPT ![c] = @ \cup {i}]
      <3>1. raised'[c] # {}
        BY <1>a, <2>3
      <3>2. ~bypass =>
              CallAgrees(text[c], pc[c], listed[c], kept[c], cursor[c], raised'[c])
        BY <1>b, <3>1 DEF CallAgrees
      <3> QED BY <1>a, <2>1, <2>3, <3>2, OthersAgree
    <2> QED BY <1>12, <2>2, <2>3 DEF FinishJob
  <1>13. CASE Shutdown
    BY <1>13, SameAgree DEF Shutdown, given, loopVars
  <1>14. CASE UNCHANGED vars
    BY <1>14, SameAgree DEF vars, given, loopVars
  <1> QED
    BY <1>1, <1>2, <1>3, <1>4, <1>5, <1>6, <1>7, <1>8, <1>9, <1>10, <1>11, <1>12, <1>13, <1>14
       DEF Next, Goes, Works

\* However the threads of the pool interleave, mask_async() keeps what mask()
\* keeps, unless a recognizer raised in the pool or two detections tie.
THEOREM Agreement == Spec => []AgreesWithMask
  <1>1. IInv /\ AllAgree => AgreesWithMask
    <2> SUFFICES ASSUME IInv, AllAgree, NEW c \in Calls,
                        pc[c] \in {"splice", "done"}, ~bypass, raised[c] = {}, NoTies(listed[c])
                 PROVE  kept[c] = Reference(c)
      BY DEF AgreesWithMask
    <2>1. CallAgrees(text[c], pc[c], listed[c], kept[c], cursor[c], raised[c])
      BY DEF AllAgree
    <2>2. PICK all \in Seq(Good) : all = Boost(FindingsOf(text[c], Ranked))
      <3>1. FindingsOf(text[c], Ranked) \in Seq(Good)
        BY FindingsType, OrdersType DEF IInv, Typed
      <3> QED BY <3>1, BoostedType DEF Boost
    <2>3. listed[c] = InPlace(all) /\ KeptOf(kept[c], listed[c], Len(listed[c]))
      BY <2>1, <2>2 DEF CallAgrees
    <2>4. PICK n \in Nat : n = Len(all) /\ n = Len(listed[c])
      <3>1. Good \in SUBSET Good
        OBVIOUS
      <3> QED BY <2>3, <3>1, InPlaceFacts
    <2>5. KeptOf(Deduplicate(all), InPlace(all), n)
      <3>1. Good \in SUBSET Good
        OBVIOUS
      <3> QED BY <2>4, <3>1, DeduplicateGrows DEF KeptOf
    <2>6. kept[c] = Deduplicate(all)
      BY <2>3, <2>4, <2>5, KeptIsOne
    <2>7. Reference(c) = Deduplicate(all)
      BY <2>2 DEF Reference, Boost
    <2> QED BY <2>6, <2>7
  <1>2. Spec => []AllAgree
    BY AlwaysIInv, InitAgree, StepAgrees, PTL DEF Spec
  <1> QED BY <1>1, <1>2, AlwaysIInv, PTL

-----------------------------------------------------------------------------
(* Policies.                                                                *)

\* The first detection that raises is left as it was, whatever became of those
\* before it.
LEMMA RaisesAgain ==
  ASSUME NEW T, NEW s \in Seq(T), NEW policy, Raising(s, policy) # {}
  PROVE  Raising(ResultsAfter(s, policy), policy) # {}
  <1>1. PICK after : after = ResultsAfter(s, policy)
    OBVIOUS
  <1>2. PICK S : S = Raising(s, policy)
    OBVIOUS
  <1>3. S \subseteq DOMAIN s /\ DOMAIN s \subseteq Nat /\ S # {}
    BY <1>2 DEF Raising
  <1>4. PICK n \in S : \A m \in S : n <= m
    BY <1>3, LeastNatural
  <1>5. n \in DOMAIN s /\ GetAction(policy, s[n]) = "raises"
    BY <1>2, <1>4 DEF Raising
  <1>6. DOMAIN after = DOMAIN s /\ after[n] = s[n]
    BY <1>1, <1>5 DEF ResultsAfter
  <1>7. n \in Raising(after, policy)
    BY <1>5, <1>6 DEF Raising
  <1> QED BY <1>1, <1>7

\* A filtering that failed half way fails again, for every policy file, every value
\* in its conditions and every list of detections.
THEOREM FailsAgain == Spec => []FailureRepeats
  <1>1. TypeOK => FailureRepeats
    <2> SUFFICES ASSUME TypeOK, NEW c \in Calls, NEW policy, Raising(listed[c], policy) # {}
                 PROVE  Raising(ResultsAfter(listed[c], policy), policy) # {}
      BY DEF FailureRepeats
    <2>1. listed[c] \in Seq(Detections)
      BY DEF TypeOK
    <2> QED BY <2>1, RaisesAgain
  <1> QED BY <1>1, WellTyped, PTL

-----------------------------------------------------------------------------
(* What the policy leaves and what the router makes of it.                  *)

\* What filter_results() has kept, element by element.
Filtering(f, s, policy, n) ==
  f[0] = <<>> /\ \A i \in 1..n : f[i] = Treated(policy, f[i - 1], s[i])

\* T has the elements of S, redacted or not.
Holds(T, S) == \A d \in S : d \in T /\ Redacted(d) \in T

LEMMA TreatedCases ==
  ASSUME NEW policy, NEW kept1, NEW d
  PROVE  \/ Treated(policy, kept1, d) = kept1
         \/ Treated(policy, kept1, d) = Append(kept1, Redacted(d))
         \/ Treated(policy, kept1, d) = Append(kept1, d)
  BY Zenon DEF Treated, Redacted

Filtered(s, policy, T) ==
  \E f \in [0..Len(s) -> Seq(T)] :
    Filtering(f, s, policy, Len(s)) /\ FilterResults(s, policy) = f[Len(s)]

LEMMA FilterGrows ==
  ASSUME NEW S, NEW T, NEW s \in Seq(S), NEW policy, Holds(T, S)
  PROVE  Filtered(s, policy, T)
  <1> DEFINE kept1 == CHOOSE f : f = [k \in 0..Len(s) |->
                        IF k = 0 THEN <<>> ELSE Treated(policy, f[k - 1], s[k])]
  <1>1. PICK n \in Nat, V \in {Seq(T)}, none \in {<<>>} :
              n = Len(s) /\ V = Seq(T) /\ none = <<>>
    OBVIOUS
  <1>2. 0 \in Nat /\ 0 <= n /\ none \in V
    BY <1>1
  <1>3. \A x \in V, i \in 1..n : Treated(policy, x, s[i]) \in V
    <2> SUFFICES ASSUME NEW x \in V, NEW i \in 1..n
                 PROVE  Treated(policy, x, s[i]) \in V
      OBVIOUS
    <2>1. s[i] \in S /\ s[i] \in T /\ Redacted(s[i]) \in T
      BY <1>1 DEF Holds
    <2>2. \A d \in T : Append(x, d) \in V
      BY <1>1
    <2> QED BY <2>1, <2>2, TreatedCases, Zenon
  <1>4. FilterResults(s, policy) = kept1[n]
    BY <1>1 DEF FilterResults
  <1> DEFINE step == [p \in V \X (0..n) |->
                        IF p[2] = 0 THEN none ELSE Treated(policy, p[1], s[p[2]])]
  <1>5. /\ \A x \in V, i \in 0..n : step[<<x, i>>] \in V
        /\ \A x \in V, i \in 1..n : step[<<x, i>>] = Treated(policy, x, s[i])
    <2>1. \A x \in V, i \in 1..n : step[<<x, i>>] = Treated(policy, x, s[i])
      <3>1. \A i \in 1..n : i \in 0..n /\ i # 0
        OBVIOUS
      <3> QED BY <3>1
    <2>2. \A x \in V : step[<<x, 0>>] = none
      OBVIOUS
    <2>3. \A i \in 0..n : i = 0 \/ i \in 1..n
      OBVIOUS
    <2> HIDE DEF step
    <2>4. \A x \in V, i \in 1..n : step[<<x, i>>] \in V
      BY <1>3, <2>1
    <2> QED BY <1>2, <2>1, <2>2, <2>3, <2>4
  <1> HIDE DEF step
  <1>6. PICK g \in [0..n -> V] : Recursive(g, 0, n, none, step)
    <2>1. StaysIn(V, 0, n, none, step)
      BY <1>2, <1>5 DEF StaysIn
    <2> QED BY <1>2, <2>1, Recursion
  <1>7. g = [i \in 0..n |-> IF i = 0 THEN <<>> ELSE Treated(policy, g[i - 1], s[i])]
    <2>1. \A i \in 0..n : i # 0 => g[i - 1] \in V /\ i \in 1..n
      OBVIOUS
    <2> QED BY <1>1, <1>5, <1>6, <2>1 DEF Recursive
  <1>8. kept1 = [i \in 0..n |-> IF i = 0 THEN <<>> ELSE Treated(policy, kept1[i - 1], s[i])]
    BY <1>1, <1>7
  <1> HIDE DEF kept1
  <1>9. PICK P : P = {i \in 0..n : kept1[i] \in V}
    OBVIOUS
  <1>10. 0 \in P
    BY <1>1, <1>2, <1>8, <1>9
  <1>11. ASSUME NEW i \in 0..n, i > 0 /\ i - 1 \in P
         PROVE  i \in P
    <2>1. i # 0 /\ i \in 1..n /\ kept1[i - 1] \in V
      BY <1>9, <1>11
    <2>2. kept1[i] = Treated(policy, kept1[i - 1], s[i])
      BY <1>8, <2>1
    <2> QED BY <1>3, <1>9, <2>1, <2>2
  <1>12. \A i \in 0..n : kept1[i] \in V
    <2>1. \A i \in 0..n : i \in P
      BY <1>10, <1>11, IntervalInduction
    <2> QED BY <1>9, <2>1
  <1>13. kept1 \in [0..n -> V]
    BY <1>8, <1>12
  <1>14. Filtering(kept1, s, policy, n)
    BY <1>8 DEF Filtering
  <1>15. n \in 0..n
    OBVIOUS
  <1> QED BY <1>1, <1>4, <1>13, <1>14, <1>15 DEF Filtered

\* A sum of weights, from left to right.
Adding(f, s, n) == f[0] = 0 /\ \A i \in 1..n : f[i] = f[i - 1] + Weight(s[i].type)

LEMMA WeightType ==
  ASSUME NEW type
  PROVE  Weight(type) \in Nat
  BY DEF Weight

LEMMA BaseScoreGrows ==
  ASSUME NEW T, NEW s \in Seq(T)
  PROVE  \E f \in [0..Len(s) -> Nat] : Adding(f, s, Len(s)) /\ BaseScore(s) = f[Len(s)]
  <1> DEFINE sum == CHOOSE f : f = [k \in 0..Len(s) |->
                      IF k = 0 THEN 0 ELSE f[k - 1] + Weight(s[k].type)]
  <1>1. PICK n \in Nat : n = Len(s)
    OBVIOUS
  <1>2. \A i \in 1..n : Weight(s[i].type) \in Nat
    BY WeightType
  <1>3. BaseScore(s) = sum[n]
    BY <1>1 DEF BaseScore
  <1> DEFINE step == [p \in Nat \X (0..n) |->
                        IF p[2] = 0 THEN 0 ELSE p[1] + Weight(s[p[2]].type)]
  <1>4. /\ \A x \in Nat, i \in 0..n : step[<<x, i>>] \in Nat
        /\ \A x \in Nat, i \in 1..n : step[<<x, i>>] = x + Weight(s[i].type)
    <2>1. \A x \in Nat, i \in 1..n : step[<<x, i>>] = x + Weight(s[i].type)
      <3>1. \A i \in 1..n : i \in 0..n /\ i # 0
        OBVIOUS
      <3> QED BY <3>1
    <2>2. \A x \in Nat : step[<<x, 0>>] = 0
      OBVIOUS
    <2>3. \A i \in 0..n : i = 0 \/ i \in 1..n
      OBVIOUS
    <2> HIDE DEF step
    <2> QED BY <1>2, <2>1, <2>2, <2>3
  <1> HIDE DEF step
  <1>5. PICK g \in [0..n -> Nat] : Recursive(g, 0, n, 0, step)
    <2>1. StaysIn(Nat, 0, n, 0, step)
      BY <1>4 DEF StaysIn
    <2> QED BY <2>1, Recursion
  <1>6. g = [i \in 0..n |-> IF i = 0 THEN 0 ELSE g[i - 1] + Weight(s[i].type)]
    <2>1. \A i \in 0..n : i # 0 => g[i - 1] \in Nat /\ i \in 1..n
      OBVIOUS
    <2> QED BY <1>4, <1>5, <2>1 DEF Recursive
  <1>7. sum = [i \in 0..n |-> IF i = 0 THEN 0 ELSE sum[i - 1] + Weight(s[i].type)]
    BY <1>1, <1>6
  <1> HIDE DEF sum
  <1>8. PICK P : P = {i \in 0..n : sum[i] \in Nat}
    OBVIOUS
  <1>9. 0 \in P
    BY <1>7, <1>8
  <1>10. ASSUME NEW i \in 0..n, i > 0 /\ i - 1 \in P
         PROVE  i \in P
    <2>1. i # 0 /\ i \in 1..n /\ sum[i - 1] \in Nat
      BY <1>8, <1>10
    <2>2. sum[i] = sum[i - 1] + Weight(s[i].type)
      BY <1>7, <2>1
    <2> QED BY <1>2, <1>8, <2>1, <2>2
  <1>11. \A i \in 0..n : sum[i] \in Nat
    <2>1. \A i \in 0..n : i \in P
      BY <1>9, <1>10, IntervalInduction
    <2> QED BY <1>8, <2>1
  <1>12. sum \in [0..n -> Nat]
    BY <1>7, <1>11
  <1>13. Adding(sum, s, n)
    BY <1>7 DEF Adding
  <1> QED BY <1>1, <1>3, <1>12, <1>13

LEMMA BaseScoreAppend ==
  ASSUME NEW T, NEW s \in Seq(T), NEW d \in T
  PROVE  /\ BaseScore(s) \in Nat
         /\ BaseScore(Append(s, d)) = BaseScore(s) + Weight(d.type)
  <1>0. Len(s) \in Nat /\ Append(s, d) \in Seq(T)
    OBVIOUS
  <1>1. PICK n \in Nat, r \in Seq(T) : n = Len(s) /\ r = Append(s, d)
    BY ONLY <1>0, Zenon
  <1>2. /\ Len(r) = n + 1 /\ r[n + 1] = d /\ r \in Seq(T)
        /\ \A i \in 1..n : r[i] = s[i]
    BY <1>1
  <1>3. PICK f \in [0..n -> Nat] : Adding(f, s, n) /\ BaseScore(s) = f[n]
    BY <1>1, BaseScoreGrows
  <1>4. PICK g \in [0..n + 1 -> Nat] : Adding(g, r, n + 1) /\ BaseScore(r) = g[n + 1]
    BY <1>2, BaseScoreGrows
  <1>5. PICK P : P = {i \in 0..n : f[i] = g[i]}
    OBVIOUS
  <1>6. 0 \in P
    BY <1>3, <1>4, <1>5 DEF Adding
  <1>7. ASSUME NEW i \in 0..n, i > 0 /\ i - 1 \in P
        PROVE  i \in P
    <2>1. i \in 1..n /\ i \in 1..n + 1 /\ f[i - 1] = g[i - 1] /\ r[i] = s[i]
      BY <1>2, <1>5, <1>7
    <2>2. f[i] = f[i - 1] + Weight(s[i].type) /\ g[i] = g[i - 1] + Weight(r[i].type)
      BY <1>3, <1>4, <2>1, Zenon DEF Adding
    <2>3. f[i] = g[i]
      BY ONLY <2>1, <2>2, Zenon
    <2> QED BY <1>5, <2>3
  <1>8. f[n] = g[n] /\ f[n] \in Nat
    <2>1. \A i \in 0..n : i \in P
      BY <1>6, <1>7, IntervalInduction
    <2>2. n \in 0..n
      OBVIOUS
    <2> QED BY <1>5, <2>1, <2>2
  <1>9. g[n + 1] = g[n] + Weight(r[n + 1].type)
    <2>1. n + 1 \in 1..n + 1 /\ (n + 1) - 1 = n
      OBVIOUS
    <2>2. g[n + 1] = g[(n + 1) - 1] + Weight(r[n + 1].type)
      BY <1>4, <2>1, Zenon DEF Adding
    <2> QED BY <2>1, <2>2
  <1> QED BY ONLY <1>1, <1>2, <1>3, <1>4, <1>8, <1>9, Zenon

TypesOf(a) == {a[k].type : k \in DOMAIN a}

\* a says no more than b: no type that b does not, and no greater sum.
SaysNoMore(a, b) == TypesOf(a) \subseteq TypesOf(b) /\ BaseScore(a) <= BaseScore(b)

LEMMA TypesAppend ==
  ASSUME NEW T, NEW s \in Seq(T), NEW d \in T
  PROVE  TypesOf(Append(s, d)) = TypesOf(s) \cup {d.type}
  <1>0. Len(s) \in Nat /\ Append(s, d) \in Seq(T)
    OBVIOUS
  <1>1. PICK n \in Nat, r \in Seq(T) : n = Len(s) /\ r = Append(s, d)
    BY ONLY <1>0, Zenon
  <1>2. /\ DOMAIN r = 1..n + 1 /\ DOMAIN s = 1..n /\ r[n + 1] = d
        /\ \A i \in 1..n : r[i] = s[i]
    BY <1>1
  <1>3. TypesOf(r) \subseteq TypesOf(s) \cup {d.type}
    <2> SUFFICES ASSUME NEW i \in 1..n + 1
                 PROVE  r[i].type \in TypesOf(s) \cup {d.type}
      BY <1>2 DEF TypesOf
    <2>1. i = n + 1 \/ i \in 1..n
      OBVIOUS
    <2> QED BY <1>2, <2>1 DEF TypesOf
  <1>4. TypesOf(s) \cup {d.type} \subseteq TypesOf(r)
    <2>1. n + 1 \in 1..n + 1 /\ \A i \in 1..n : i \in 1..n + 1
      OBVIOUS
    <2> QED BY <1>2, <2>1 DEF TypesOf
  <1> QED BY <1>1, <1>3, <1>4

\* One more turn of the loop of filter_results().
LEMMA TreatedSaysMore ==
  ASSUME NEW T, NEW a \in Seq(T), NEW b \in Seq(T), NEW policy,
         NEW d \in T, Redacted(d) \in T
  PROVE  /\ SaysNoMore(a, Treated(policy, a, d))
         /\ SaysNoMore(a, b) => SaysNoMore(Treated(policy, a, d), Treated(policy, b, d))
  <1>1. PICK m \in {GetAction(policy, d)} : TRUE
    OBVIOUS
  <1>2. ASSUME NEW e \in T
        PROVE  /\ SaysNoMore(a, Append(a, e))
               /\ SaysNoMore(a, b) => SaysNoMore(Append(a, e), Append(b, e))
    <2>1. /\ BaseScore(a) \in Nat /\ BaseScore(Append(a, e)) = BaseScore(a) + Weight(e.type)
          /\ BaseScore(b) \in Nat /\ BaseScore(Append(b, e)) = BaseScore(b) + Weight(e.type)
      BY BaseScoreAppend
    <2>2. Weight(e.type) \in Nat
      BY WeightType
    <2>3. /\ TypesOf(Append(a, e)) = TypesOf(a) \cup {e.type}
          /\ TypesOf(Append(b, e)) = TypesOf(b) \cup {e.type}
      BY TypesAppend
    <2> QED BY ONLY <2>1, <2>2, <2>3, SMT DEF SaysNoMore
  <1>3. SaysNoMore(a, a)
    BY BaseScoreAppend DEF SaysNoMore
  <1>4. CASE m = "pass"
    <2>1. Treated(policy, a, d) = a /\ Treated(policy, b, d) = b
      BY <1>1, <1>4, Zenon DEF Treated
    <2> QED BY ONLY <1>3, <2>1, Zenon
  <1>5. CASE m = "redact"
    <2>1. /\ Treated(policy, a, d) = Append(a, Redacted(d))
          /\ Treated(policy, b, d) = Append(b, Redacted(d))
      <3>1. "redact" # "pass"
        OBVIOUS
      <3> QED BY <1>1, <1>5, <3>1, Zenon DEF Treated, Redacted
    <2>2. /\ SaysNoMore(a, Append(a, Redacted(d)))
          /\ SaysNoMore(a, b) => SaysNoMore(Append(a, Redacted(d)), Append(b, Redacted(d)))
      BY <1>2, Zenon
    <2> QED BY ONLY <2>1, <2>2, Zenon
  <1>6. CASE m # "pass" /\ m # "redact"
    <2>1. Treated(policy, a, d) = Append(a, d) /\ Treated(policy, b, d) = Append(b, d)
      BY <1>1, <1>6, Zenon DEF Treated
    <2> QED BY <1>2, <2>1, Zenon
  <1> QED BY <1>4, <1>5, <1>6

LEMMA RemoveFacts ==
  ASSUME NEW T, NEW s \in Seq(T), NEW n \in 1..Len(s)
  PROVE  /\ RemoveAt(s, n) \in Seq(T) /\ Len(RemoveAt(s, n)) = Len(s) - 1
         /\ \A k \in 1..n - 1 : RemoveAt(s, n)[k] = s[k]
         /\ \A k \in n + 1..Len(s) : RemoveAt(s, n)[k - 1] = s[k]
  <1>1. PICK N \in Nat : N = Len(s) /\ n \in 1..N
    OBVIOUS
  <1> DEFINE front == SubSeq(s, 1, n - 1)
             back == SubSeq(s, n + 1, N)
  <1>2. /\ front \in Seq(T) /\ Len(front) = n - 1
        /\ \A k \in 1..n - 1 : front[k] = s[k]
    BY <1>1
  <1>3. /\ back \in Seq(T) /\ Len(back) = N - n
        /\ \A k \in 1..N - n : back[k] = s[k + n]
    BY <1>1
  <1>4. RemoveAt(s, n) = front \o back
    BY <1>1 DEF RemoveAt
  <1> HIDE DEF front, back
  <1> DEFINE all == front \o back
  <1>5. /\ all \in Seq(T) /\ Len(all) = N - 1
        /\ \A k \in 1..n - 1 : all[k] = front[k]
        /\ \A k \in 1..N - n : all[k + n - 1] = back[k]
    <2>1. all \in Seq(T) /\ Len(all) = N - 1
      <3>0. front \in Seq(T) /\ back \in Seq(T)
        BY <1>2, <1>3
      <3>1. all \in Seq(T) /\ Len(all) = Len(front) + Len(back)
        BY ONLY <3>0, ConcatProperties DEF all
      <3>2. (n - 1) + (N - n) = N - 1
        BY <1>1
      <3> QED BY <1>2, <1>3, <3>1, <3>2
    <2>2. ASSUME NEW k \in 1..n - 1
          PROVE  all[k] = front[k]
      BY <1>1, <1>2, <1>3
    <2>3. ASSUME NEW k \in 1..N - n
          PROVE  all[k + n - 1] = back[k]
      BY <1>1, <1>2, <1>3
    <2> QED BY <2>1, <2>2, <2>3
  <1>6. RemoveAt(s, n) = all
    BY <1>4
  <1> HIDE DEF all
  <1>7. \A k \in n + 1..N : all[k - 1] = s[k]
    <2> SUFFICES ASSUME NEW k \in n + 1..N PROVE all[k - 1] = s[k]
      OBVIOUS
    <2>1. k - n \in 1..N - n /\ k - n + n - 1 = k - 1 /\ k - n + n = k
      BY <1>1
    <2> QED BY <1>3, <1>5, <2>1
  <1> QED BY <1>1, <1>2, <1>5, <1>6, <1>7

\* Without one of the findings what the policy leaves says no more.
LEMMA FewerSayNoMore ==
  ASSUME NEW S, NEW s \in Seq(S), NEW n \in 1..Len(s), NEW policy, NEW T,
         Holds(T, S)
  PROVE  /\ FilterResults(RemoveAt(s, n), policy) \in Seq(T)
         /\ FilterResults(s, policy) \in Seq(T)
         /\ SaysNoMore(FilterResults(RemoveAt(s, n), policy), FilterResults(s, policy))
  <1>closed. Holds(T, S)
    OBVIOUS
  <1>1. PICK N \in Nat, t \in Seq(S) :
          /\ N = Len(s) /\ n \in 1..N /\ t = RemoveAt(s, n) /\ Len(t) = N - 1
          /\ \A k \in 1..n - 1 : t[k] = s[k]
          /\ \A k \in n + 1..N : t[k - 1] = s[k]
    <2>1. Len(s) \in Nat /\ n \in 1..Len(s)
      OBVIOUS
    <2> QED BY ONLY <2>1, s \in Seq(S), RemoveFacts
  <1>2. PICK f \in [0..N -> Seq(T)] :
          Filtering(f, s, policy, N) /\ FilterResults(s, policy) = f[N]
    <2>1. N = Len(s) /\ s \in Seq(S)
      BY <1>1
    <2>2. Filtered(s, policy, T)
      BY ONLY <2>1, <1>closed, FilterGrows, Zenon
    <2> QED BY ONLY <2>1, <2>2, Zenon DEF Filtered
  <1>3. PICK g \in [0..N - 1 -> Seq(T)] :
          Filtering(g, t, policy, N - 1) /\ FilterResults(t, policy) = g[N - 1]
    <2>1. Len(t) = N - 1 /\ t \in Seq(S)
      BY <1>1
    <2>2. Filtered(t, policy, T)
      BY ONLY <2>1, <1>closed, FilterGrows, Zenon
    <2> QED BY ONLY <2>1, <2>2, Zenon DEF Filtered
  <1>4. \A i \in 1..N : s[i] \in S /\ s[i] \in T /\ Redacted(s[i]) \in T
    BY <1>1 DEF Holds
  <1>5. PICK P : P = {i \in 0..n - 1 : g[i] = f[i]}
    OBVIOUS
  <1>6. 0 \in P
    BY <1>2, <1>3, <1>5 DEF Filtering
  <1>7. ASSUME NEW i \in 0..n - 1, i > 0 /\ i - 1 \in P
        PROVE  i \in P
    <2>1. i \in 1..N /\ i \in 1..N - 1 /\ i \in 1..n - 1 /\ g[i - 1] = f[i - 1]
      BY <1>1, <1>5, <1>7
    <2>2. t[i] = s[i]
      BY <1>1, <2>1, Zenon
    <2>3. f[i] = Treated(policy, f[i - 1], s[i]) /\ g[i] = Treated(policy, g[i - 1], t[i])
      BY <1>2, <1>3, <2>1, Zenon DEF Filtering
    <2>4. g[i] = f[i]
      BY ONLY <2>1, <2>2, <2>3, Zenon
    <2> QED BY <1>5, <2>4
  <1>8. g[n - 1] = f[n - 1]
    <2>0. 0 \in Nat /\ n - 1 \in Nat
      BY <1>1
    <2>1. \A i \in 0..n - 1 : i \in P
      BY ONLY <2>0, <1>6, <1>7, IntervalInduction
    <2>2. n - 1 \in 0..n - 1
      BY <1>1
    <2> QED BY <1>5, <2>1, <2>2
  <1>9. PICK Q : Q = {i \in n..N : SaysNoMore(g[i - 1], f[i])}
    OBVIOUS
  <1>10. n \in Q
    <2>1. f[n] = Treated(policy, f[n - 1], s[n])
      BY <1>1, <1>2, Zenon DEF Filtering
    <2>2. f[n - 1] \in Seq(T) /\ s[n] \in T /\ Redacted(s[n]) \in T
      <3>1. n \in 1..N /\ n - 1 \in 0..N
        BY <1>1
      <3> QED BY <1>2, <1>4, <3>1, Zenon
    <2>3. SaysNoMore(f[n - 1], Treated(policy, f[n - 1], s[n]))
      BY ONLY <2>2, TreatedSaysMore
    <2> QED BY <1>1, <1>8, <1>9, <2>1, <2>3
  <1>11. ASSUME NEW i \in n..N, i > n /\ i - 1 \in Q
         PROVE  i \in Q
    <2>1. /\ i \in 1..N /\ i \in n + 1..N /\ i - 1 \in 1..N - 1
          /\ i - 1 \in 0..N /\ i - 1 - 1 \in 0..N - 1
          /\ SaysNoMore(g[i - 1 - 1], f[i - 1])
      BY <1>1, <1>9, <1>11
    <2>2. t[i - 1] = s[i]
      BY <1>1, <2>1, Zenon
    <2>3. /\ f[i] = Treated(policy, f[i - 1], s[i])
          /\ g[i - 1] = Treated(policy, g[i - 1 - 1], t[i - 1])
      BY <1>2, <1>3, <2>1, Zenon DEF Filtering
    <2>4. /\ g[i - 1 - 1] \in Seq(T) /\ f[i - 1] \in Seq(T)
          /\ s[i] \in T /\ Redacted(s[i]) \in T
      BY <1>2, <1>3, <1>4, <2>1, Zenon
    <2>5. SaysNoMore(Treated(policy, g[i - 1 - 1], s[i]), Treated(policy, f[i - 1], s[i]))
      BY ONLY <2>1, <2>4, TreatedSaysMore
    <2>6. SaysNoMore(g[i - 1], f[i])
      BY ONLY <2>2, <2>3, <2>5, Zenon
    <2> QED BY <1>9, <2>6
  <1>12. SaysNoMore(g[N - 1], f[N])
    <2>0. n \in Nat /\ N \in Nat
      BY <1>1
    <2>1. \A i \in n..N : i \in Q
      BY ONLY <2>0, <1>10, <1>11, IntervalInduction
    <2>2. N \in n..N
      BY <1>1
    <2> QED BY <1>9, <2>1, <2>2
  <1>13. N \in 0..N /\ N - 1 \in 0..N - 1
    BY <1>1
  <1> QED BY <1>1, <1>2, <1>3, <1>12, <1>13, Zenon

LEMMA TimesGrows ==
  ASSUME NEW x \in Nat, NEW y \in Nat, x <= y, NEW t \in {12, 13, 14, 15}
  PROVE  /\ Times(x, t) \in Nat /\ x <= Times(x, t)
         /\ Times(x, t) <= Times(y, t)
  <1>1. CASE t = 12
    BY <1>1 DEF Times
  <1>2. CASE t = 13
    BY <1>2 DEF Times
  <1>3. CASE t = 14
    BY <1>3 DEF Times
  <1>4. CASE t = 15
    BY <1>4 DEF Times
  <1> QED BY <1>1, <1>2, <1>3, <1>4

LEMMA GroupsType ==
  /\ Len(CorrelationGroups) = 6
  /\ \A i \in 1..6 : CorrelationGroups[i].tenths \in {12, 13, 14, 15}
  <1>1. \A i \in 1..6 : i = 1 \/ i = 2 \/ i = 3 \/ i = 4 \/ i = 5 \/ i = 6
    OBVIOUS
  <1> QED BY <1>1 DEF CorrelationGroups

LEMMA MultipliedGrows ==
  ASSUME NEW x \in Nat, NEW y \in Nat, x <= y, NEW S, NEW T, S \subseteq T,
         NEW g, g.tenths \in {12, 13, 14, 15}
  PROVE  Multiplied(x, g, S) \in Nat /\ Multiplied(x, g, S) <= Multiplied(y, g, T)
  <1>1. PICK a, b, c : /\ a = Times(x, g.tenths) /\ b = Times(y, g.tenths) /\ c = g.types
    OBVIOUS
  <1>2. a \in Nat /\ b \in Nat /\ a <= b /\ x <= a /\ y <= b
    BY <1>1, TimesGrows
  <1>3. /\ Multiplied(x, g, S) = IF c \subseteq S THEN a ELSE x
        /\ Multiplied(y, g, T) = IF c \subseteq T THEN b ELSE y
    BY <1>1, Zenon DEF Multiplied
  <1>4. c \subseteq S => c \subseteq T
    OBVIOUS
  <1>5. CASE c \subseteq S
    BY <1>2, <1>3, <1>4, <1>5
  <1>6. CASE ~(c \subseteq S) /\ c \subseteq T
    BY <1>2, <1>3, <1>6
  <1>7. CASE ~(c \subseteq S) /\ ~(c \subseteq T)
    BY <1>2, <1>3, <1>7
  <1> QED BY <1>5, <1>6, <1>7

\* The groups multiply one after the other.
Multiplying(f, base, types) ==
  /\ f[0] = base
  /\ \A i \in 1..6 : f[i] = Multiplied(f[i - 1], CorrelationGroups[i], types)

LEMMA CorrelatedGrows ==
  ASSUME NEW base \in Nat, NEW types
  PROVE  \E f \in [0..6 -> Nat] : Multiplying(f, base, types) /\ Correlated(base, types) = f[6]
  <1> DEFINE Next1(x, k) == Multiplied(x, CorrelationGroups[k], types)
             score == CHOOSE f : f = [k \in 0..Len(CorrelationGroups) |->
                        IF k = 0 THEN base ELSE Next1(f[k - 1], k)]
  <1>1. PICK n \in {6} : n = Len(CorrelationGroups) /\ n = 6
    BY GroupsType
  <1>2. \A x \in Nat, i \in 1..n : Next1(x, i) \in Nat
    <2> SUFFICES ASSUME NEW x \in Nat, NEW i \in 1..n PROVE Next1(x, i) \in Nat
      OBVIOUS
    <2>1. x <= x /\ CorrelationGroups[i].tenths \in {12, 13, 14, 15}
      BY <1>1, GroupsType
    <2> QED BY <2>1, MultipliedGrows
  <1>3. Correlated(base, types) = score[n]
    BY <1>1 DEF Correlated
  <1> HIDE DEF Next1
  <1> DEFINE step == [p \in Nat \X (0..n) |-> IF p[2] = 0 THEN base ELSE Next1(p[1], p[2])]
  <1>4. /\ \A x \in Nat, i \in 0..n : step[<<x, i>>] \in Nat
        /\ \A x \in Nat, i \in 1..n : step[<<x, i>>] = Next1(x, i)
    <2>1. \A x \in Nat, i \in 1..n : step[<<x, i>>] = Next1(x, i)
      <3>1. \A i \in 1..n : i \in 0..n /\ i # 0
        BY <1>1
      <3> QED BY <3>1
    <2>2. \A x \in Nat : step[<<x, 0>>] = base
      BY <1>1
    <2>3. \A i \in 0..n : i = 0 \/ i \in 1..n
      BY <1>1
    <2> HIDE DEF step
    <2> QED BY <1>2, <2>1, <2>2, <2>3
  <1> HIDE DEF step
  <1>5. PICK g \in [0..n -> Nat] : Recursive(g, 0, n, base, step)
    <2>1. StaysIn(Nat, 0, n, base, step)
      BY <1>4 DEF StaysIn
    <2>2. 0 \in Nat /\ n \in Nat /\ 0 <= n
      BY <1>1
    <2> QED BY ONLY <2>1, <2>2, Recursion
  <1>6. g = [i \in 0..n |-> IF i = 0 THEN base ELSE Next1(g[i - 1], i)]
    <2>1. \A i \in 0..n : i # 0 => g[i - 1] \in Nat /\ i \in 1..n
      BY <1>1
    <2> QED BY <1>4, <1>5, <2>1 DEF Recursive
  <1>7. score = [i \in 0..n |-> IF i = 0 THEN base ELSE Next1(score[i - 1], i)]
    BY <1>1, <1>6
  <1> HIDE DEF score
  <1>8. PICK P : P = {i \in 0..n : score[i] \in Nat}
    OBVIOUS
  <1>9. 0 \in P
    BY <1>1, <1>7, <1>8
  <1>10. ASSUME NEW i \in 0..n, i > 0 /\ i - 1 \in P
         PROVE  i \in P
    <2>1. i # 0 /\ i \in 1..n /\ score[i - 1] \in Nat
      BY <1>1, <1>8, <1>10
    <2>2. score[i] = Next1(score[i - 1], i)
      BY <1>7, <2>1
    <2> QED BY <1>2, <1>8, <2>1, <2>2
  <1>11. \A i \in 0..n : score[i] \in Nat
    <2>0. 0 \in Nat /\ n \in Nat
      BY <1>1
    <2>1. \A i \in 0..n : i \in P
      BY ONLY <2>0, <1>9, <1>10, IntervalInduction
    <2> QED BY <1>8, <2>1
  <1>12. score \in [0..n -> Nat]
    BY <1>7, <1>11
  <1>13. Multiplying(score, base, types)
    <2>1. score[0] = base
      BY <1>1, <1>7
    <2>2. ASSUME NEW i \in 1..6
          PROVE  score[i] = Multiplied(score[i - 1], CorrelationGroups[i], types)
      <3>1. i \in 0..n /\ i # 0
        BY <1>1
      <3> QED BY <1>7, <3>1 DEF Next1
    <2> QED BY <2>1, <2>2 DEF Multiplying
  <1> QED BY <1>1, <1>3, <1>12, <1>13

LEMMA CorrelatedSaysMore ==
  ASSUME NEW x \in Nat, NEW y \in Nat, x <= y, NEW S, NEW T, S \subseteq T
  PROVE  Correlated(x, S) \in Nat /\ Correlated(y, T) \in Nat /\ Correlated(x, S) <= Correlated(y, T)
  <1>1. PICK f \in [0..6 -> Nat] : Multiplying(f, x, S) /\ Correlated(x, S) = f[6]
    BY CorrelatedGrows
  <1>2. PICK g \in [0..6 -> Nat] : Multiplying(g, y, T) /\ Correlated(y, T) = g[6]
    BY CorrelatedGrows
  <1>3. PICK P : P = {i \in 0..6 : f[i] <= g[i]}
    OBVIOUS
  <1>4. 0 \in P
    BY <1>1, <1>2, <1>3 DEF Multiplying
  <1>5. ASSUME NEW i \in 0..6, i > 0 /\ i - 1 \in P
        PROVE  i \in P
    <2>1. /\ i \in 1..6 /\ f[i - 1] <= g[i - 1]
          /\ f[i - 1] \in Nat /\ g[i - 1] \in Nat
      BY <1>3, <1>5
    <2>2. CorrelationGroups[i].tenths \in {12, 13, 14, 15}
      BY <2>1, GroupsType
    <2>3. Multiplied(f[i - 1], CorrelationGroups[i], S)
            <= Multiplied(g[i - 1], CorrelationGroups[i], T)
      BY <2>1, <2>2, MultipliedGrows
    <2>4. /\ f[i] = Multiplied(f[i - 1], CorrelationGroups[i], S)
          /\ g[i] = Multiplied(g[i - 1], CorrelationGroups[i], T)
      BY <1>1, <1>2, <2>1, Zenon DEF Multiplying
    <2> QED BY <1>3, <2>3, <2>4
  <1>6. \A i \in 0..6 : i \in P
    BY <1>4, <1>5, IntervalInduction
  <1>7. 6 \in P
    BY <1>6
  <1> QED BY <1>1, <1>2, <1>3, <1>7

LEMMA TypesFinite ==
  ASSUME NEW T, NEW s \in Seq(T)
  PROVE  IsFiniteSet(TypesOf(s))
  <1>1. PICK n \in Nat : DOMAIN s = 1..n
    OBVIOUS
  <1>2. IsFiniteSet(1..n)
    BY FS_Interval
  <1> DEFINE h == [k \in 1..n |-> s[k].type]
  <1>3. h \in Surjection(1..n, TypesOf(s))
    BY <1>1 DEF Surjection, TypesOf
  <1> QED BY <1>2, <1>3, FS_Surjection DEF ExistsSurjection

\* What says more is as sensitive at least.
LEMMA SensitivitySaysMore ==
  ASSUME NEW T, NEW a \in Seq(T), NEW b \in Seq(T), SaysNoMore(a, b)
  PROVE  /\ Sensitivity(a) \in Nat /\ Sensitivity(b) \in Nat
         /\ Sensitivity(a) <= Sensitivity(b)
  <1>1. PICK x \in Nat, y \in Nat : x = BaseScore(a) /\ y = BaseScore(b) /\ x <= y
    <2>1. \A s \in Seq(T) : BaseScore(s) \in Nat
      <3> SUFFICES ASSUME NEW s \in Seq(T) PROVE BaseScore(s) \in Nat
        OBVIOUS
      <3>1. PICK f \in [0..Len(s) -> Nat] : BaseScore(s) = f[Len(s)]
        BY BaseScoreGrows
      <3>2. Len(s) \in 0..Len(s)
        OBVIOUS
      <3> QED BY <3>1, <3>2
    <2> QED BY <2>1 DEF SaysNoMore
  <1>2. PICK A, B : /\ A = TypesOf(a) /\ B = TypesOf(b) /\ A \subseteq B
                    /\ IsFiniteSet(A) /\ IsFiniteSet(B)
    BY TypesFinite DEF SaysNoMore
  <1>3. PICK p \in Nat, q \in Nat : p = Correlated(x, A) /\ q = Correlated(y, B) /\ p <= q
    BY <1>1, <1>2, CorrelatedSaysMore
  <1>4. Diverse(A) => Diverse(B)
    <2>1. Cardinality(A) <= Cardinality(B)
      BY <1>2, FS_Subset
    <2>2. Cardinality(A) \in Nat /\ Cardinality(B) \in Nat
      BY <1>2, FS_CardinalityType
    <2> QED BY <2>1, <2>2 DEF Diverse
  <1>5. PICK k, l : k = Times(p, 12) /\ l = Times(q, 12)
    OBVIOUS
  <1>6. k \in Nat /\ l \in Nat /\ k <= l /\ p <= k /\ q <= l
    BY <1>3, <1>5, TimesGrows
  <1>7. PICK u, v : /\ u = IF Diverse(A) THEN k ELSE p
                    /\ v = IF Diverse(B) THEN l ELSE q
    OBVIOUS
  <1>8. u \in Nat /\ v \in Nat /\ u <= v
    BY <1>3, <1>4, <1>6, <1>7
  <1>9. /\ Sensitivity(a) = IF u > Whole THEN Whole ELSE u
        /\ Sensitivity(b) = IF v > Whole THEN Whole ELSE v
    BY <1>1, <1>2, <1>3, <1>5, <1>7, Zenon DEF Sensitivity, TypesOf
  <1> QED BY <1>8, <1>9 DEF Whole

\* One finding more never makes a text less sensitive, nor takes it from the local
\* model to the external one.
THEOREM Sensitive == Spec => []MoreFindingsMoreSensitive
  <1>1. ASSUME TypeOK
        PROVE  MoreFindingsMoreSensitive
    <2> SUFFICES ASSUME NEW c \in Calls, NEW n \in DOMAIN listed[c], NEW policy
                 PROVE  LET all == FilterResults(listed[c], policy)
                            fewer == FilterResults(RemoveAt(listed[c], n), policy)
                        IN  /\ Sensitivity(fewer) <= Sensitivity(all)
                            /\ Decide(fewer) = "local" => Decide(all) = "local"
      BY DEF MoreFindingsMoreSensitive
    <2>1. PICK s \in Seq(Detections) : s = listed[c]
      BY <1>1 DEF TypeOK
    <2>2. n \in 1..Len(s)
      BY <2>1
    <2>3. PICK T : T = Detections \cup {Redacted(d) : d \in Detections}
      OBVIOUS
    <2>4. Holds(T, Detections)
      BY <2>3 DEF Holds
    <2>5. PICK a \in Seq(T), b \in Seq(T) :
            /\ a = FilterResults(RemoveAt(s, n), policy) /\ b = FilterResults(s, policy)
            /\ SaysNoMore(a, b)
      BY ONLY <2>1, <2>2, <2>4, FewerSayNoMore
    <2>6. /\ Sensitivity(a) \in Nat /\ Sensitivity(b) \in Nat
          /\ Sensitivity(a) <= Sensitivity(b)
      BY <2>5, SensitivitySaysMore
    <2>7. Decide(a) = "local" => Decide(b) = "local"
      BY <2>6, RouterAssumption DEF Decide
    <2> QED BY <2>1, <2>5, <2>6, <2>7, Zenon
  <1> QED BY <1>1, WellTyped, PTL
=============================================================================
