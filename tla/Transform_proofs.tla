-------------------------- MODULE Transform_proofs --------------------------
(***************************************************************************)
(* Proofs about the transformation of a request: Transform for every rule  *)
(* set, every body and every threshold of the searches, the nesting guard  *)
(* for every sequence of bytes, and BodyRebuild for every body and every   *)
(* way the rules may rewrite its texts.                                    *)
(***************************************************************************)
EXTENDS Transform, BodyRebuild, FiniteSetTheorems, FunctionTheorems, SequenceTheorems,
        WellFoundedInduction, TLAPS

(* Induction and recursion over an interval of numbers, for sets and functions. *)

LEMMA LeastNatural ==
    ASSUME NEW S, S \subseteq Nat, S # {}
    PROVE  \E n \in S: \A m \in S: n <= m
<1> DEFINE Below == {p \in Nat \X Nat: p[1] < p[2]}
<1>1. OpToRel(<, Nat) = Below
  BY DEF OpToRel
<1>2. IsWellFoundedOn(Below, Nat)
  BY <1>1, NatLessThanWellFounded, Zenon
<1>3. \A n, m \in Nat: <<m, n>> \in Below <=> m < n
  OBVIOUS
<1> HIDE DEF Below
<1>4. PICK n \in S: \A m \in S: ~ (<<m, n>> \in Below)
  BY <1>2, WFMin, Zenon
<1>5. ASSUME NEW m \in S PROVE n <= m
  <2>1. n \in Nat /\ m \in Nat
    OBVIOUS
  <2>2. ~ (m < n)
    BY <1>3, <1>4, <2>1
  <2> QED BY <2>1, <2>2
<1> QED BY <1>5

\* A set that holds the first number and each one after one it holds.
LEMMA IntervalInduction ==
    ASSUME NEW lo \in Nat, NEW hi \in Nat, NEW S, lo \in S,
           \A n \in lo..(hi - 1): n \in S => n + 1 \in S
    PROVE  lo..hi \subseteq S
<1> SUFFICES ASSUME (lo..hi) \ S # {} PROVE FALSE
  OBVIOUS
<1>1. (lo..hi) \ S \subseteq Nat
  OBVIOUS
<1>2. PICK n \in (lo..hi) \ S: \A m \in (lo..hi) \ S: n <= m
  BY <1>1, LeastNatural
<1>3. n # lo /\ n - 1 \in lo..(hi - 1) /\ (n - 1) + 1 = n /\ ~ (n <= n - 1)
  BY <1>2
<1>4. n - 1 \in S
  BY <1>2, <1>3
<1> QED BY <1>2, <1>3, <1>4

\* A function given by its first value and a step from each value to the next.
Follows(g, lo, hi, base, step) ==
    g[lo] = base /\ \A n \in (lo + 1)..hi: g[n] = step[<<g[n - 1], n>>]

LEMMA RecursionExists ==
    ASSUME NEW lo \in Nat, NEW hi \in Nat, lo <= hi, NEW B, NEW base \in B,
           NEW step \in [B \X ((lo + 1)..hi) -> B]
    PROVE  \E g \in [lo..hi -> B]: Follows(g, lo, hi, base, step)
<1> DEFINE Up(n) == {g \in [lo..n -> B]: /\ g[lo] = base
                                        /\ \A k \in (lo + 1)..n: g[k] = step[<<g[k - 1], k>>]}
           S == {n \in lo..hi: Up(n) # {}}
<1>1. lo \in S
  <2> DEFINE g == [k \in lo..lo |-> base]
  <2>1. g \in Up(lo)
    OBVIOUS
  <2> HIDE DEF g
  <2>2. Up(lo) # {} /\ lo \in lo..hi
    BY <2>1
  <2> HIDE DEF Up
  <2> QED BY <2>2
<1>2. ASSUME NEW n \in lo..(hi - 1), n \in S PROVE n + 1 \in S
  <2>1. PICK g \in [lo..n -> B]:
           g[lo] = base /\ \A k \in (lo + 1)..n: g[k] = step[<<g[k - 1], k>>]
    BY <1>2
  <2> DEFINE h == [k \in lo..(n + 1) |-> IF k <= n THEN g[k] ELSE step[<<g[n], n + 1>>]]
  <2>2. g[n] \in B /\ n + 1 \in (lo + 1)..hi
    BY <2>1
  <2>3. step[<<g[n], n + 1>>] \in B
    BY <2>2
  <2>4. h \in [lo..(n + 1) -> B] /\ h[lo] = base
    BY <2>1, <2>3
  <2>5. ASSUME NEW k \in (lo + 1)..(n + 1) PROVE h[k] = step[<<h[k - 1], k>>]
    <3>1. CASE k <= n
      <4>1. k \in (lo + 1)..n /\ k - 1 \in lo..(n + 1) /\ k - 1 <= n /\ k \in lo..(n + 1)
        BY <3>1
      <4>2. h[k] = g[k] /\ h[k - 1] = g[k - 1]
        BY <3>1, <4>1
      <4> QED BY <2>1, <4>1, <4>2
    <3>2. CASE k = n + 1
      <4>1. ~ (n + 1 <= n) /\ (n + 1) - 1 = n /\ n \in lo..(n + 1) /\ n + 1 \in lo..(n + 1)
        OBVIOUS
      <4>2. h[n + 1] = step[<<g[n], n + 1>>] /\ h[n] = g[n]
        BY <4>1
      <4> QED BY <3>2, <4>1, <4>2
    <3> QED BY <3>1, <3>2
  <2> HIDE DEF h
  <2>6. h \in Up(n + 1)
    BY <2>4, <2>5
  <2> QED BY <2>6
<1> HIDE DEF S
<1>3. lo..hi \subseteq S
  BY <1>1, <1>2, IntervalInduction
<1>4. Up(hi) # {}
  BY <1>3 DEF S
<1> QED BY <1>4 DEF Follows

-----------------------------------------------------------------------------
(* Flattening, one piece at a time. *)

LEMMA FunctionIsSeq ==
    ASSUME NEW S, NEW n \in Nat, NEW f \in [1..n -> S]
    PROVE  f \in Seq(S) /\ Len(f) = n
OBVIOUS

LEMMA FlattenFunction ==
    ASSUME NEW S, NEW s \in Seq(Seq(S))
    PROVE  \E g \in [0..Len(s) -> Seq(S)]:
              /\ g[0] = <<>>
              /\ \A n \in 1..Len(s): g[n] = g[n - 1] \o s[n]
              /\ FlattenSeq(s) = g[Len(s)]
<1> DEFINE N == Len(s)
<1>1. N \in Nat /\ \A n \in 1..N: s[n] \in Seq(S)
  BY LenProperties, ElementOfSeq
<1>2. <<>> \in Seq(S)
  BY EmptySeq
<1>3. CASE N = 0
  <2>1. s = <<>>
    BY <1>3, EmptySeq
  <2>2. FlattenSeq(s) = <<>>
    BY <1>3, <2>1 DEF FlattenSeq
  <2> DEFINE g == [n \in 0..0 |-> <<>>]
  <2>3. g \in [0..Len(s) -> Seq(S)] /\ g[0] = <<>>
    BY <1>2, <1>3
  <2> HIDE DEF g
  <2> QED BY <1>3, <2>2, <2>3
<1>4. CASE N # 0
  <2> DEFINE Eq(f) == f = [i \in 1..N |-> IF i = 1 THEN s[i] ELSE f[i - 1] \o s[i]]
             flatten == CHOOSE f: Eq(f)
  <2>1. 1 \in Nat /\ N \in Nat /\ 1 <= N
    BY <1>1, <1>4
  <2> DEFINE step == [p \in Seq(S) \X (2..N) |-> p[1] \o s[p[2]]]
  <2>2. step \in [Seq(S) \X ((1 + 1)..N) -> Seq(S)]
    <3>1. \A p \in Seq(S) \X (2..N): p[1] \in Seq(S) /\ s[p[2]] \in Seq(S)
      BY <1>1
    <3>2. \A p \in Seq(S) \X (2..N): p[1] \o s[p[2]] \in Seq(S)
      BY <3>1, ConcatProperties
    <3> QED BY <3>2
  <2>3. s[1] \in Seq(S)
    BY <1>1, <2>1
  <2>4. \A v \in Seq(S), n \in 2..N: step[<<v, n>>] = v \o s[n]
    OBVIOUS
  <2> HIDE DEF step
  <2>5. PICK h \in [1..N -> Seq(S)]:
           h[1] = s[1] /\ \A n \in 2..N: h[n] = step[<<h[n - 1], n>>]
    <3> DEFINE B == Seq(S)
               lo == 1
               base == s[1]
    <3>1. lo \in Nat /\ N \in Nat /\ lo <= N /\ base \in B /\ step \in [B \X ((lo + 1)..N) -> B]
      BY <2>1, <2>2, <2>3
    <3>3. lo = 1 /\ lo + 1 = 2 /\ base = s[1]
      OBVIOUS
    <3> HIDE DEF B, N, lo, base
    <3>2. \E g \in [lo..N -> B]: Follows(g, lo, N, base, step)
      BY <3>1, RecursionExists
    <3> QED BY <3>2, <3>3 DEF B, Follows
  <2>6. \A n \in 1..N: h[n] = IF n = 1 THEN s[n] ELSE h[n - 1] \o s[n]
    <3> SUFFICES ASSUME NEW n \in 1..N, n # 1 PROVE h[n] = h[n - 1] \o s[n]
      BY <2>5
    <3>1. n \in 2..N /\ n - 1 \in 1..N
      BY <1>1
    <3>2. h[n - 1] \in Seq(S)
      BY <2>5, <3>1
    <3> QED BY <2>4, <2>5, <3>1, <3>2
  <2>7. Eq(h)
    BY <2>5, <2>6
  <2>8. Eq(flatten)
    BY <2>7
  <2>9. FlattenSeq(s) = flatten[N]
    BY <1>4 DEF FlattenSeq
  <2> HIDE DEF flatten, Eq
  <2>10. flatten = [i \in 1..N |-> IF i = 1 THEN s[i] ELSE flatten[i - 1] \o s[i]]
    BY <2>8 DEF Eq
  <2>11. flatten[1] = s[1] /\ \A n \in 2..N: flatten[n] = flatten[n - 1] \o s[n]
    <3>1. \A n \in 1..N: flatten[n] = IF n = 1 THEN s[n] ELSE flatten[n - 1] \o s[n]
      BY <2>10
    <3>2. 1 \in 1..N /\ \A n \in 2..N: n \in 1..N /\ n # 1
      BY <2>1
    <3> QED BY <3>1, <3>2
  <2>12. \A n \in 1..N: flatten[n] \in Seq(S)
    <3> DEFINE T == {n \in 1..N: flatten[n] \in Seq(S)}
    <3>1. 1 \in T
      BY <2>1, <2>3, <2>11
    <3>2. ASSUME NEW n \in 1..(N - 1), n \in T PROVE n + 1 \in T
      <4>1. n + 1 \in 2..N /\ n + 1 \in 1..N /\ (n + 1) - 1 = n
        BY <1>1
      <4>2. flatten[n + 1] = flatten[n] \o s[n + 1] /\ s[n + 1] \in Seq(S)
        BY <1>1, <2>11, <4>1
      <4>3. flatten[n + 1] \in Seq(S)
        BY <3>2, <4>2, ConcatProperties
      <4> QED BY <4>1, <4>3
    <3> HIDE DEF T
    <3>3. 1..N \subseteq T
      BY <2>1, <3>1, <3>2, IntervalInduction
    <3> QED BY <3>3 DEF T
  <2> DEFINE g == [n \in 0..N |-> IF n = 0 THEN <<>> ELSE flatten[n]]
  <2>13. g \in [0..N -> Seq(S)] /\ g[0] = <<>> /\ g[N] = flatten[N]
    BY <1>1, <1>2, <1>4, <2>12
  <2>14. ASSUME NEW n \in 1..N PROVE g[n] = g[n - 1] \o s[n]
    <3>1. CASE n = 1
      <4>1. g[1] = s[1] /\ g[0] = <<>>
        BY <2>1, <2>11
      <4>2. <<>> \o s[1] = s[1]
        BY <2>3, ConcatEmptySeq
      <4>3. n - 1 = 0
        BY <3>1
      <4> HIDE DEF g
      <4> QED BY <3>1, <4>1, <4>2, <4>3
    <3>2. CASE n # 1
      <4>1. n \in 2..N /\ n - 1 \in 0..N /\ n - 1 # 0 /\ n \in 0..N /\ n # 0
        BY <1>1, <3>2
      <4> QED BY <2>11, <4>1
    <3> QED BY <3>1, <3>2
  <2> HIDE DEF g
  <2> QED BY <2>9, <2>13, <2>14
<1> QED BY <1>3, <1>4

\* What the first n pieces come to.
Upto(s, n) == FlattenSeq(SubSeq(s, 1, n))

LEMMA UptoStep ==
    ASSUME NEW S, NEW s \in Seq(Seq(S))
    PROVE  /\ Upto(s, 0) = <<>>
           /\ \A n \in 1..Len(s): Upto(s, n) = Upto(s, n - 1) \o s[n]
           /\ \A n \in 0..Len(s): Upto(s, n) \in Seq(S)
           /\ FlattenSeq(s) = Upto(s, Len(s))
<1>1. Len(s) \in Nat /\ \A n \in 1..Len(s): s[n] \in Seq(S)
  BY LenProperties, ElementOfSeq
<1>2. PICK g \in [0..Len(s) -> Seq(S)]:
         /\ g[0] = <<>>
         /\ \A n \in 1..Len(s): g[n] = g[n - 1] \o s[n]
         /\ FlattenSeq(s) = g[Len(s)]
  BY FlattenFunction
<1>3. ASSUME NEW n \in 0..Len(s) PROVE Upto(s, n) = g[n]
  <2> DEFINE p == SubSeq(s, 1, n)
  <2>1. p = [k \in 1..n |-> s[k]]
    BY <1>1
  <2>2. p \in Seq(Seq(S)) /\ Len(p) = n /\ \A k \in 1..n: p[k] = s[k]
    BY <1>1, <2>1
  <2> HIDE DEF p
  <2>3. PICK h \in [0..Len(p) -> Seq(S)]:
           /\ h[0] = <<>>
           /\ \A k \in 1..Len(p): h[k] = h[k - 1] \o p[k]
           /\ FlattenSeq(p) = h[Len(p)]
    BY <2>2, FlattenFunction
  <2> DEFINE T == {k \in 0..n: h[k] = g[k]}
  <2>4. 0 \in T
    BY <1>2, <2>3
  <2>5. ASSUME NEW k \in 0..(n - 1), k \in T PROVE k + 1 \in T
    <3>1. k + 1 \in 1..n /\ k + 1 \in 1..Len(s) /\ k + 1 \in 0..n /\ (k + 1) - 1 = k
      BY <1>1
    <3>2. h[k + 1] = h[k] \o p[k + 1]
      BY <2>2, <2>3, <3>1
    <3>3. g[k + 1] = g[k] \o s[k + 1]
      BY <1>2, <3>1
    <3>4. h[k + 1] = g[k + 1]
      BY <2>2, <2>5, <3>1, <3>2, <3>3
    <3> QED BY <3>1, <3>4
  <2> HIDE DEF T
  <2>6. n \in Nat /\ 0 \in Nat /\ n \in 0..n
    BY <1>1
  <2>7. 0..n \subseteq T
    BY <2>4, <2>5, <2>6, IntervalInduction
  <2>8. h[n] = g[n]
    BY <2>6, <2>7 DEF T
  <2> QED BY <2>2, <2>3, <2>8 DEF Upto, p
<1>4. \A n \in 1..Len(s): n \in 0..Len(s) /\ n - 1 \in 0..Len(s)
  BY <1>1
<1>5. 0 \in 0..Len(s) /\ Len(s) \in 0..Len(s)
  BY <1>1
<1> QED BY <1>2, <1>3, <1>4, <1>5

LEMMA UptoLength ==
    ASSUME NEW S, NEW s \in Seq(Seq(S))
    PROVE  /\ Len(Upto(s, 0)) = 0
           /\ \A n \in 0..Len(s): Len(Upto(s, n)) \in Nat
           /\ \A n \in 1..Len(s): /\ Len(s[n]) \in Nat
                                  /\ Len(Upto(s, n)) = Len(Upto(s, n - 1)) + Len(s[n])
<1>1. Upto(s, 0) = <<>> /\ \A n \in 0..Len(s): Upto(s, n) \in Seq(S)
  BY UptoStep
<1>2. ASSUME NEW n \in 1..Len(s)
      PROVE  Len(s[n]) \in Nat /\ Len(Upto(s, n)) = Len(Upto(s, n - 1)) + Len(s[n])
  <2> DEFINE a == Upto(s, n - 1)
             b == s[n]
  <2>1. n - 1 \in 0..Len(s)
    BY LenProperties
  <2>2. a \in Seq(S) /\ b \in Seq(S) /\ Upto(s, n) = a \o b
    BY <1>1, <2>1, UptoStep, ElementOfSeq
  <2> HIDE DEF a, b
  <2>3. Len(b) \in Nat /\ Len(Upto(s, n)) = Len(a) + Len(b)
    BY <2>2, ConcatProperties
  <2> QED BY <2>3 DEF a, b
<1>3. Len(<<>>) = 0
  OBVIOUS
<1> QED BY <1>1, <1>2, <1>3, LenProperties

\* A part of a sequence, element by element.
LEMMA PartIs ==
    ASSUME NEW s, NEW a \in Nat, NEW n \in Nat
    PROVE  SubSeq(s, a + 1, a + n) = [j \in 1..n |-> s[a + j]]
<1>1. SubSeq(s, a + 1, a + n) = [j \in 1..(1 + (a + n) - (a + 1)) |-> s[(a + 1) + j - 1]]
  OBVIOUS
<1>2. 1 + (a + n) - (a + 1) = n /\ \A j \in 1..n: (a + 1) + j - 1 = a + j
  OBVIOUS
<1> QED BY <1>1, <1>2

\* The pieces after the first n keep what those came to, and it never shrinks.
LEMMA UptoKeeps ==
    ASSUME NEW S, NEW s \in Seq(Seq(S)), NEW n \in 0..Len(s), NEW m \in n..Len(s)
    PROVE  /\ Len(Upto(s, n)) <= Len(Upto(s, m))
           /\ \A i \in 1..Len(Upto(s, n)): Upto(s, m)[i] = Upto(s, n)[i]
<1>1. Len(s) \in Nat /\ \A k \in 1..Len(s): s[k] \in Seq(S)
  BY LenProperties, ElementOfSeq
<1> DEFINE T == {k \in n..Len(s): /\ Len(Upto(s, n)) <= Len(Upto(s, k))
                                  /\ \A i \in 1..Len(Upto(s, n)): Upto(s, k)[i] = Upto(s, n)[i]}
<1>2. \A k \in n..Len(s): k \in 0..Len(s)
  BY <1>1
<1>3. \A k \in 0..Len(s): Upto(s, k) \in Seq(S) /\ Len(Upto(s, k)) \in Nat
  BY UptoStep, LenProperties
<1>4. n \in Nat /\ n \in n..Len(s)
  BY <1>1
<1>5. n \in T
  BY <1>3, <1>4
<1>6. ASSUME NEW k \in n..(Len(s) - 1), k \in T PROVE k + 1 \in T
  <2>1. k + 1 \in 1..Len(s) /\ k + 1 \in n..Len(s) /\ (k + 1) - 1 = k /\ k \in 0..Len(s)
    BY <1>1
  <2>2. Upto(s, k + 1) = Upto(s, k) \o s[k + 1]
    BY <2>1, UptoStep
  <2>3. Upto(s, k) \in Seq(S) /\ s[k + 1] \in Seq(S)
    BY <1>1, <1>3, <2>1
  <2> DEFINE a == Upto(s, k)
             b == s[k + 1]
             c == Upto(s, n)
  <2>4. Len(c) \in Nat /\ Len(c) <= Len(a) /\ \A i \in 1..Len(c): a[i] = c[i]
    BY <1>3, <1>6
  <2> HIDE DEF a, b, c
  <2>5. Len(a \o b) = Len(a) + Len(b) /\ Len(a) \in Nat /\ Len(b) \in Nat
        /\ \A i \in 1..Len(a): (a \o b)[i] = a[i]
    BY <2>3 DEF a, b
  <2>6. Len(c) <= Len(a \o b) /\ \A i \in 1..Len(c): (a \o b)[i] = c[i]
    BY <2>4, <2>5
  <2> QED BY <2>1, <2>2, <2>6 DEF a, b, c
<1> HIDE DEF T
<1>7. n..Len(s) \subseteq T
  BY <1>1, <1>4, <1>5, <1>6, IntervalInduction
<1> QED BY <1>7 DEF T

\* Where the elements of a piece stand in the whole.
LEMMA FlattenPlaces ==
    ASSUME NEW S, NEW s \in Seq(Seq(S)), NEW k \in 1..Len(s)
    PROVE  /\ FlattenSeq(s) \in Seq(S)
           /\ Len(Upto(s, k - 1)) \in Nat
           /\ Len(Upto(s, k - 1)) + Len(s[k]) <= Len(FlattenSeq(s))
           /\ \A j \in 1..Len(s[k]): FlattenSeq(s)[Len(Upto(s, k - 1)) + j] = s[k][j]
<1>1. Len(s) \in Nat /\ \A n \in 1..Len(s): s[n] \in Seq(S)
  BY LenProperties, ElementOfSeq
<1>2. k \in 0..Len(s) /\ k - 1 \in 0..Len(s) /\ Len(s) \in k..Len(s) /\ Len(s) \in 0..Len(s)
  BY <1>1
<1> DEFINE a == Upto(s, k - 1)
           b == s[k]
           c == Upto(s, k)
           w == FlattenSeq(s)
<1>3. w \in Seq(S) /\ a \in Seq(S) /\ b \in Seq(S) /\ c = a \o b /\ w = Upto(s, Len(s))
  BY <1>1, <1>2, UptoStep
<1>4. Len(c) <= Len(w) /\ \A i \in 1..Len(c): w[i] = c[i]
  BY <1>2, <1>3, UptoKeeps
<1> HIDE DEF a, b, c, w
<1>5. /\ Len(a) \in Nat /\ Len(b) \in Nat /\ Len(c) = Len(a) + Len(b)
      /\ \A i \in 1..(Len(a) + Len(b)): c[i] = IF i <= Len(a) THEN a[i] ELSE b[i - Len(a)]
  BY <1>3, ConcatProperties
<1>6. ASSUME NEW j \in 1..Len(b) PROVE w[Len(a) + j] = b[j]
  <2>1. Len(a) + j \in 1..(Len(a) + Len(b)) /\ Len(a) + j \in 1..Len(c)
        /\ ~ (Len(a) + j <= Len(a)) /\ (Len(a) + j) - Len(a) = j
    BY <1>5
  <2> QED BY <1>4, <1>5, <2>1
<1>7. w \in Seq(S) /\ Len(a) \in Nat /\ Len(a) + Len(b) <= Len(w)
  BY <1>3, <1>4, <1>5
<1> QED BY <1>6, <1>7 DEF a, b, w

\* Every element of the whole stands in some piece.
LEMMA FlattenFrom ==
    ASSUME NEW S, NEW s \in Seq(Seq(S)), NEW i \in 1..Len(FlattenSeq(s))
    PROVE  \E k \in 1..Len(s): \E j \in 1..Len(s[k]):
              i = Len(Upto(s, k - 1)) + j /\ FlattenSeq(s)[i] = s[k][j]
<1>1. Len(s) \in Nat /\ \A n \in 1..Len(s): s[n] \in Seq(S)
  BY LenProperties, ElementOfSeq
<1> DEFINE At(m) == \E k \in 1..Len(s): \E j \in 1..Len(s[k]): m = Len(Upto(s, k - 1)) + j
           T == {n \in 0..Len(s): \A m \in 1..Len(Upto(s, n)): At(m)}
<1>2. 0 \in T
  <2>1. Len(Upto(s, 0)) = 0
    BY UptoStep, EmptySeq
  <2> HIDE DEF At
  <2> QED BY <1>1, <2>1
<1>3. ASSUME NEW n \in 0..(Len(s) - 1), n \in T PROVE n + 1 \in T
  <2>1. n + 1 \in 1..Len(s) /\ n + 1 \in 0..Len(s) /\ (n + 1) - 1 = n /\ n \in 0..Len(s)
    BY <1>1
  <2> DEFINE a == Upto(s, n)
             b == s[n + 1]
             c == Upto(s, n + 1)
  <2>2. c = a \o b /\ a \in Seq(S) /\ b \in Seq(S)
    BY <1>1, <2>1, UptoStep
  <2> HIDE DEF a, b, c
  <2>3. Len(a) \in Nat /\ Len(b) \in Nat /\ Len(c) = Len(a) + Len(b)
    BY <2>2, ConcatProperties
  <2>4. ASSUME NEW m \in 1..Len(c) PROVE At(m)
    <3>1. CASE m <= Len(a)
      <4>1. m \in 1..Len(a)
        BY <2>3, <3>1
      <4> HIDE DEF At
      <4> QED BY <1>3, <4>1 DEF a
    <3>2. CASE ~ (m <= Len(a))
      <4> DEFINE j == m - Len(a)
      <4>1. j \in 1..Len(b) /\ m = Len(a) + j
        BY <2>3, <3>2
      <4> HIDE DEF j
      <4>2. j \in 1..Len(s[n + 1]) /\ m = Len(Upto(s, (n + 1) - 1)) + j
        BY <2>1, <4>1 DEF a, b
      <4> QED BY <2>1, <4>2
    <3> QED BY <3>1, <3>2
  <2> HIDE DEF At
  <2> QED BY <2>1, <2>4 DEF c
<1> HIDE DEF T
<1>4. 0 \in Nat /\ Len(s) \in 0..Len(s)
  BY <1>1
<1>5. Len(s) \in T
  <2>1. 0..Len(s) \subseteq T
    BY <1>1, <1>2, <1>3, <1>4, IntervalInduction
  <2> QED BY <1>4, <2>1
<1>6. FlattenSeq(s) = Upto(s, Len(s))
  BY UptoStep
<1>7. At(i)
  <2> HIDE DEF At
  <2> QED BY <1>5, <1>6 DEF T
<1>8. PICK k \in 1..Len(s): \E j \in 1..Len(s[k]): i = Len(Upto(s, k - 1)) + j
  BY <1>7
<1>9. \A j \in 1..Len(s[k]): FlattenSeq(s)[Len(Upto(s, k - 1)) + j] = s[k][j]
  BY FlattenPlaces
<1> QED BY <1>8, <1>9

\* Pieces of the same lengths put their elements at the same places.
LEMMA FlattenAlike ==
    ASSUME NEW S, NEW s \in Seq(Seq(S)), NEW R, NEW t \in Seq(Seq(R)), Len(s) = Len(t),
           \A k \in 1..Len(s): Len(s[k]) = Len(t[k])
    PROVE  \A n \in 0..Len(s): Len(Upto(s, n)) = Len(Upto(t, n))
<1>1. /\ Len(s) \in Nat
      /\ \A k \in 1..Len(s): s[k] \in Seq(S) /\ t[k] \in Seq(R)
      /\ \A k \in 0..Len(s): Upto(s, k) \in Seq(S) /\ Upto(t, k) \in Seq(R)
  BY LenProperties, ElementOfSeq, UptoStep
<1> DEFINE T == {n \in 0..Len(s): Len(Upto(s, n)) = Len(Upto(t, n))}
<1>2. 0 \in T
  <2>1. Len(Upto(s, 0)) = 0
    BY UptoLength
  <2>2. Len(Upto(t, 0)) = 0
    BY UptoLength
  <2>3. 0 \in 0..Len(s)
    BY <1>1
  <2> QED BY <2>1, <2>2, <2>3
<1>3. ASSUME NEW n \in 0..(Len(s) - 1), n \in T PROVE n + 1 \in T
  <2>1. n + 1 \in 1..Len(s) /\ n + 1 \in 0..Len(s) /\ (n + 1) - 1 = n /\ n \in 0..Len(s)
    BY <1>1
  <2>2. Len(Upto(s, n + 1)) = Len(Upto(s, n)) + Len(s[n + 1])
    BY <2>1, UptoLength
  <2>3. Len(Upto(t, n + 1)) = Len(Upto(t, n)) + Len(t[n + 1])
    BY <2>1, UptoLength
  <2> QED BY <1>3, <2>1, <2>2, <2>3
<1> HIDE DEF T
<1>4. 0..Len(s) \subseteq T
  BY <1>1, <1>2, <1>3, IntervalInduction
<1> QED BY <1>4 DEF T

\* Pieces of one element each.
LEMMA FlattenSingles ==
    ASSUME NEW S, NEW s \in Seq(Seq(S)), NEW text \in Seq(S), Len(s) = Len(text),
           \A k \in 1..Len(s): s[k] = <<text[k]>>
    PROVE  FlattenSeq(s) = text
<1>1. /\ Len(s) \in Nat
      /\ \A k \in 1..Len(s): s[k] \in Seq(S) /\ Len(s[k]) = 1 /\ s[k][1] = text[k]
      /\ \A k \in 0..Len(s): Upto(s, k) \in Seq(S)
  <2>1. Len(s) \in Nat /\ \A k \in 1..Len(s): s[k] \in Seq(S)
    BY LenProperties, ElementOfSeq
  <2>2. ASSUME NEW k \in 1..Len(s) PROVE Len(s[k]) = 1 /\ s[k][1] = text[k]
    <3>1. s[k] = <<text[k]>>
      OBVIOUS
    <3>2. Len(<<text[k]>>) = 1 /\ <<text[k]>>[1] = text[k]
      OBVIOUS
    <3> QED BY <3>1, <3>2
  <2>3. \A k \in 0..Len(s): Upto(s, k) \in Seq(S)
    BY UptoStep
  <2> QED BY <2>1, <2>2, <2>3
<1> DEFINE T == {n \in 0..Len(s): Len(Upto(s, n)) = n}
<1>2. 0 \in T
  <2>1. Len(Upto(s, 0)) = 0
    BY UptoLength
  <2>2. 0 \in 0..Len(s)
    BY <1>1
  <2> QED BY <2>1, <2>2
<1>3. ASSUME NEW n \in 0..(Len(s) - 1), n \in T PROVE n + 1 \in T
  <2>1. n + 1 \in 1..Len(s) /\ n + 1 \in 0..Len(s) /\ (n + 1) - 1 = n /\ n \in 0..Len(s)
    BY <1>1
  <2>2. Len(Upto(s, n + 1)) = Len(Upto(s, n)) + Len(s[n + 1])
    BY <2>1, UptoLength
  <2> QED BY <1>1, <1>3, <2>1, <2>2
<1> HIDE DEF T
<1>4. \A n \in 0..Len(s): Len(Upto(s, n)) = n
  <2>1. 0..Len(s) \subseteq T
    BY <1>1, <1>2, <1>3, IntervalInduction
  <2> QED BY <2>1 DEF T
<1> DEFINE w == FlattenSeq(s)
<1>5. w \in Seq(S) /\ Len(w) = Len(text)
  <2>1. w = Upto(s, Len(s))
    BY UptoStep
  <2> HIDE DEF w
  <2>2. Len(s) \in 0..Len(s)
    BY <1>1
  <2> QED BY <1>1, <1>4, <2>1, <2>2
<1>6. ASSUME NEW i \in 1..Len(text) PROVE w[i] = text[i]
  <2>1. i \in 1..Len(s) /\ i - 1 \in 0..Len(s) /\ 1 \in 1..Len(s[i]) /\ (i - 1) + 1 = i
    BY <1>1
  <2>2. \A j \in 1..Len(s[i]): w[Len(Upto(s, i - 1)) + j] = s[i][j]
    BY <2>1, FlattenPlaces
  <2> HIDE DEF w
  <2>3. Len(Upto(s, i - 1)) = i - 1 /\ s[i][1] = text[i]
    BY <1>1, <1>4, <2>1
  <2>4. w[(i - 1) + 1] = s[i][1]
    BY <2>1, <2>2, <2>3
  <2> QED BY <2>1, <2>3, <2>4
<1> HIDE DEF w
<1>7. w = text
  BY <1>5, <1>6, SeqEqual
<1> QED BY <1>7 DEF w

\* Pieces of at most one element, one of them empty.
LEMMA FlattenShorter ==
    ASSUME NEW S, NEW s \in Seq(Seq(S)), \A k \in 1..Len(s): Len(s[k]) <= 1,
           NEW cut \in 1..Len(s), Len(s[cut]) = 0
    PROVE  Len(FlattenSeq(s)) < Len(s)
<1>1. /\ Len(s) \in Nat
      /\ \A k \in 1..Len(s): s[k] \in Seq(S) /\ Len(s[k]) \in Nat
  BY LenProperties, ElementOfSeq
<1>2. /\ Upto(s, 0) = <<>> /\ FlattenSeq(s) = Upto(s, Len(s))
      /\ \A k \in 0..Len(s): Upto(s, k) \in Seq(S)
  BY UptoStep
<1> DEFINE T == {n \in 0..Len(s): /\ Len(Upto(s, n)) <= n
                                  /\ cut <= n => Len(Upto(s, n)) < n}
<1>3. 0 \in T
  BY <1>1, <1>2
<1>4. ASSUME NEW n \in 0..(Len(s) - 1), n \in T PROVE n + 1 \in T
  <2>1. n + 1 \in 1..Len(s) /\ n + 1 \in 0..Len(s) /\ (n + 1) - 1 = n /\ n \in 0..Len(s)
    BY <1>1
  <2>2. Upto(s, n + 1) = Upto(s, n) \o s[n + 1]
    BY <2>1, UptoStep
  <2>3. Len(Upto(s, n + 1)) = Len(Upto(s, n)) + Len(s[n + 1])
    BY <1>1, <1>2, <2>1, <2>2, ConcatProperties
  <2>4. Len(Upto(s, n)) \in Nat /\ Len(s[n + 1]) \in Nat /\ Len(s[n + 1]) <= 1
    BY <1>1, <1>2, <2>1, LenProperties
  <2>5. cut = n + 1 => Len(s[n + 1]) = 0
    OBVIOUS
  <2>6. cut <= n + 1 => Len(Upto(s, n + 1)) < n + 1
    BY <1>4, <2>1, <2>3, <2>4, <2>5
  <2> QED BY <1>4, <2>1, <2>3, <2>4, <2>6
<1> HIDE DEF T
<1>5. Len(s) \in 0..Len(s) /\ cut <= Len(s) /\ 0 \in Nat
  BY <1>1
<1>7. 0..Len(s) \subseteq T
  BY <1>1, <1>3, <1>4, <1>5, IntervalInduction
<1>6. Len(s) \in T
  BY <1>5, <1>7
<1> QED BY <1>2, <1>5, <1>6 DEF T

\* Pieces of at least one element, one of them of more.
LEMMA FlattenLonger ==
    ASSUME NEW S, NEW s \in Seq(Seq(S)), \A k \in 1..Len(s): Len(s[k]) >= 1,
           NEW more \in 1..Len(s), Len(s[more]) >= 2
    PROVE  Len(FlattenSeq(s)) > Len(s)
<1>1. /\ Len(s) \in Nat
      /\ \A k \in 1..Len(s): s[k] \in Seq(S) /\ Len(s[k]) \in Nat
  BY LenProperties, ElementOfSeq
<1>2. /\ Upto(s, 0) = <<>> /\ FlattenSeq(s) = Upto(s, Len(s))
      /\ \A k \in 0..Len(s): Upto(s, k) \in Seq(S)
  BY UptoStep
<1> DEFINE T == {n \in 0..Len(s): /\ Len(Upto(s, n)) >= n
                                  /\ more <= n => Len(Upto(s, n)) > n}
<1>3. 0 \in T
  BY <1>1, <1>2
<1>4. ASSUME NEW n \in 0..(Len(s) - 1), n \in T PROVE n + 1 \in T
  <2>1. n + 1 \in 1..Len(s) /\ n + 1 \in 0..Len(s) /\ (n + 1) - 1 = n /\ n \in 0..Len(s)
    BY <1>1
  <2>3. Len(Upto(s, n + 1)) = Len(Upto(s, n)) + Len(s[n + 1])
    BY <2>1, UptoLength
  <2>4. Len(Upto(s, n)) \in Nat /\ Len(s[n + 1]) \in Nat /\ Len(s[n + 1]) >= 1
    BY <2>1, UptoLength
  <2>5. more = n + 1 => Len(s[n + 1]) >= 2
    OBVIOUS
  <2>6. more <= n + 1 => Len(Upto(s, n + 1)) > n + 1
    <3> DEFINE a == Len(Upto(s, n))
               b == Len(s[n + 1])
    <3>1. a >= n /\ (more <= n => a > n) /\ a \in Nat /\ b \in Nat /\ b >= 1 /\ (more = n + 1 => b >= 2)
      BY <1>4, <2>4, <2>5
    <3> HIDE DEF a, b
    <3>2. more <= n + 1 => a + b > n + 1
      BY <1>1, <3>1
    <3> QED BY <2>3, <3>2 DEF a, b
  <2> QED BY <1>4, <2>1, <2>3, <2>4, <2>6
<1> HIDE DEF T
<1>5. Len(s) \in 0..Len(s) /\ more <= Len(s) /\ 0 \in Nat
  BY <1>1
<1>7. 0..Len(s) \subseteq T
  BY <1>1, <1>3, <1>4, <1>5, IntervalInduction
<1>6. Len(s) \in T
  BY <1>5, <1>7
<1> QED BY <1>2, <1>5, <1>6 DEF T

-----------------------------------------------------------------------------
(* Terms in texts: what a rewrite leaves, and that it changes the length. *)

LEMMA StartsWhere ==
    ASSUME NEW c, NEW text \in Text, NEW term \in Text
    PROVE  /\ Starts(c, text, term) \subseteq {i \in 1..Len(text): TermAt(c, text, term, i)}
           /\ Occurs(c, text, term) => Starts(c, text, term) # {}
<1> DEFINE N == Len(text)
           Here(n, p) == TermAt(c, text, term, n) /\ \A j \in p: j + Len(term) <= n
           Eq(f) == f = [n \in 0..N |-> IF n = 0 THEN {}
                                        ELSE IF Here(n, f[n - 1]) THEN f[n - 1] \cup {n}
                                             ELSE f[n - 1]]
           upto == CHOOSE f: Eq(f)
           Places == {i \in 1..N: TermAt(c, text, term, i)}
<1>1. N \in Nat /\ 0 \in 0..N /\ N \in 0..N
  BY LenProperties DEF Text
<1>2. Starts(c, text, term) = upto[N]
  BY DEF Starts
<1> HIDE DEF Here
<1>3. Eq(upto)
  <2> DEFINE B == SUBSET (1..N)
             step == [p \in B \X (1..N) |->
                        IF Here(p[2], p[1]) THEN p[1] \cup {p[2]} ELSE p[1]]
             base == {}
             lo == 0
  <2>7. step \in [B \X (1..N) -> B]
    OBVIOUS
  <2>1. step \in [B \X ((lo + 1)..N) -> B] /\ base \in B /\ lo \in Nat /\ lo <= N /\ N \in Nat
    <3>1. lo + 1 = 1
      OBVIOUS
    <3> HIDE DEF step
    <3> QED BY <1>1, <2>7, <3>1
  <2>2. ASSUME NEW p \in B, NEW n \in 1..N
        PROVE  step[<<p, n>>] = IF Here(n, p) THEN p \cup {n} ELSE p
    <3> HIDE DEF B, N
    <3>1. <<p, n>> \in B \X (1..N)
      OBVIOUS
    <3> QED BY <3>1
  <2>3. lo = 0 /\ lo + 1 = 1 /\ base = {}
    OBVIOUS
  <2> HIDE DEF B, step, base, lo, N
  <2>4. \E g \in [lo..N -> B]: Follows(g, lo, N, base, step)
    BY <2>1, RecursionExists
  <2>5. PICK g \in [0..N -> B]: g[0] = {} /\ \A n \in 1..N: g[n] = step[<<g[n - 1], n>>]
    BY <2>3, <2>4 DEF Follows
  <2>6. ASSUME NEW n \in 0..N
        PROVE  g[n] = IF n = 0 THEN {} ELSE IF Here(n, g[n - 1]) THEN g[n - 1] \cup {n}
                                            ELSE g[n - 1]
    <3>1. CASE n = 0
      BY <2>5, <3>1
    <3>2. CASE n # 0
      <4>1. n \in 1..N /\ n - 1 \in 0..N
        BY <1>1, <3>2
      <4>2. g[n - 1] \in B
        BY <2>5, <4>1
      <4>3. g[n] = step[<<g[n - 1], n>>]
        BY <2>5, <4>1
      <4> QED BY <2>2, <3>2, <4>1, <4>2, <4>3
    <3> QED BY <3>1, <3>2
  <2>8. Eq(g)
    BY <2>5, <2>6
  <2> QED BY <2>8
<1> HIDE DEF upto
<1>4. /\ upto[0] = {}
      /\ \A n \in 1..N: upto[n] = IF Here(n, upto[n - 1]) THEN upto[n - 1] \cup {n}
                                  ELSE upto[n - 1]
  <2>1. \A n \in 0..N: upto[n] = IF n = 0 THEN {} ELSE IF Here(n, upto[n - 1])
                                      THEN upto[n - 1] \cup {n} ELSE upto[n - 1]
    BY <1>3
  <2>2. \A n \in 1..N: n \in 0..N /\ n # 0
    BY <1>1
  <2> QED BY <1>1, <2>1, <2>2
<1> HIDE DEF Eq
<1>5. \A n \in 0..N: upto[n] \subseteq {i \in 1..n: TermAt(c, text, term, i)}
  <2> DEFINE T == {n \in 0..N: upto[n] \subseteq {i \in 1..n: TermAt(c, text, term, i)}}
  <2>1. 0 \in T
    BY <1>1, <1>4
  <2>2. ASSUME NEW n \in 0..(N - 1), n \in T PROVE n + 1 \in T
    <3>1. n + 1 \in 1..N /\ n + 1 \in 0..N /\ (n + 1) - 1 = n /\ n + 1 \in 1..(n + 1)
      BY <1>1
    <3>2. \A i \in 1..n: i \in 1..(n + 1)
      BY <1>1
    <3>3. \A i \in upto[n]: i \in 1..n /\ TermAt(c, text, term, i)
      BY <2>2
    <3>4. \A i \in upto[n + 1]: i \in upto[n] \/ (i = n + 1 /\ TermAt(c, text, term, n + 1))
      BY <1>4, <3>1 DEF Here
    <3>5. \A i \in upto[n + 1]: i \in 1..(n + 1) /\ TermAt(c, text, term, i)
      BY <3>1, <3>2, <3>3, <3>4
    <3> QED BY <3>1, <3>5
  <2> HIDE DEF T
  <2>3. 0..N \subseteq T
    BY <1>1, <2>1, <2>2, IntervalInduction
  <2> QED BY <2>3 DEF T
<1>6. upto[N] \subseteq Places
  BY <1>1, <1>5
<1>7. ASSUME Places # {} PROVE upto[N] # {}
  <2>1. Places \subseteq Nat
    OBVIOUS
  <2>2. PICK k \in Places: \A m \in Places: k <= m
    BY <1>7, <2>1, LeastNatural
  <2>3. k \in 1..N /\ TermAt(c, text, term, k) /\ k - 1 \in 0..N /\ k \in Nat /\ k \in k..N
    BY <1>1, <2>2
  <2>4. upto[k - 1] = {}
    <3>1. \A i \in 1..(k - 1): i \in 1..N /\ ~ (k <= i)
      BY <2>3
    <3> QED BY <1>5, <2>2, <2>3, <3>1
  <2> DEFINE T == {n \in k..N: k \in upto[n]}
  <2>5. k \in T
    BY <1>4, <2>3, <2>4 DEF Here
  <2>6. ASSUME NEW n \in k..(N - 1), n \in T PROVE n + 1 \in T
    <3>1. n + 1 \in 1..N /\ n + 1 \in k..N /\ (n + 1) - 1 = n
      BY <1>1, <2>3
    <3>2. k \in upto[n + 1]
      BY <1>4, <2>6, <3>1
    <3> QED BY <3>1, <3>2
  <2> HIDE DEF T
  <2>7. k..N \subseteq T
    BY <1>1, <2>3, <2>5, <2>6, IntervalInduction
  <2>8. N \in k..N
    BY <1>1, <2>3
  <2> QED BY <2>7, <2>8 DEF T
<1>8. Occurs(c, text, term) => Places # {}
  BY DEF Occurs
<1> QED BY <1>2, <1>6, <1>7, <1>8

LEMMA StrippedText ==
    ASSUME NEW c, NEW text \in Text, NEW term \in Text \ {<<>>}
    PROVE  /\ Stripped(c, text, term) \in Text
           /\ ~ Occurs(c, text, term) => Stripped(c, text, term) = text
           /\ Occurs(c, text, term) => Len(Stripped(c, text, term)) < Len(text)
<1> DEFINE at == Starts(c, text, term)
           cut == {i + k: i \in at, k \in 0..(Len(term) - 1)}
           s == [i \in 1..Len(text) |-> IF i \in cut THEN <<>> ELSE <<text[i]>>]
<1>1. Len(text) \in Nat /\ Len(term) \in Nat /\ Len(term) >= 1
      /\ \A i \in 1..Len(text): text[i] \in Chars
  BY EmptySeq, LenProperties DEF Text
<1>2. /\ at \subseteq {i \in 1..Len(text): TermAt(c, text, term, i)}
      /\ Occurs(c, text, term) => at # {}
  BY StartsWhere
<1>3. Stripped(c, text, term) = FlattenSeq(s)
  BY DEF Stripped
<1>4. at = {} => cut = {}
  OBVIOUS
<1>5. \A i \in at: i \in cut
  <2>1. \A i \in at: i \in 1..Len(text) /\ i + 0 = i /\ 0 \in 0..(Len(term) - 1)
    BY <1>1, <1>2
  <2> HIDE DEF at
  <2> QED BY <2>1
<1> HIDE DEF at, cut
<1>6. ASSUME NEW i \in 1..Len(text)
      PROVE  /\ s[i] \in Seq(Chars) /\ Len(s[i]) <= 1
             /\ i \in cut => Len(s[i]) = 0
             /\ i \notin cut => s[i] = <<text[i]>>
  <2>1. <<text[i]>> \in Seq(Chars) /\ Len(<<text[i]>>) = 1
    BY <1>1
  <2>2. <<>> \in Seq(Chars) /\ Len(<<>>) = 0
    OBVIOUS
  <2> QED BY <2>1, <2>2
<1>7. s \in Seq(Seq(Chars)) /\ Len(s) = Len(text)
  <2>1. s \in [1..Len(text) -> Seq(Chars)]
    BY <1>6
  <2> HIDE DEF s
  <2> QED BY <1>1, <2>1, FunctionIsSeq
<1> HIDE DEF s
<1>8. FlattenSeq(s) \in Text
  <2>1. Len(s) \in 0..Len(s)
    BY <1>1, <1>7
  <2> QED BY <1>7, <2>1, UptoStep DEF Text
<1>9. ASSUME ~ Occurs(c, text, term) PROVE FlattenSeq(s) = text
  <2>1. at = {}
    BY <1>2, <1>9 DEF Occurs
  <2>2. \A k \in 1..Len(s): s[k] = <<text[k]>>
    BY <1>4, <1>6, <1>7, <2>1
  <2>3. text \in Seq(Chars)
    BY DEF Text
  <2> QED BY <1>7, <2>2, <2>3, FlattenSingles
<1>10. ASSUME Occurs(c, text, term) PROVE Len(FlattenSeq(s)) < Len(text)
  <2>1. PICK i \in at: TRUE
    BY <1>2, <1>10
  <2>2. i \in 1..Len(s) /\ Len(s[i]) = 0 /\ \A k \in 1..Len(s): Len(s[k]) <= 1
    BY <1>2, <1>5, <1>6, <1>7, <2>1
  <2>3. Len(FlattenSeq(s)) < Len(s)
    BY <1>7, <2>2, FlattenShorter
  <2> QED BY <1>7, <2>3
<1> QED BY <1>3, <1>8, <1>9, <1>10

LEMMA ObfuscatedText ==
    ASSUME NEW c, NEW text \in Text, NEW term \in Text
    PROVE  /\ Obfuscated(c, text, term) \in Text
           /\ ~ Occurs(c, text, term) => Obfuscated(c, text, term) = text
           /\ Occurs(c, text, term) => Len(Obfuscated(c, text, term)) > Len(text)
<1> DEFINE at == Starts(c, text, term)
           s == [i \in 1..Len(text) |-> IF i \in at THEN <<text[i], Mark>> ELSE <<text[i]>>]
<1>1. Len(text) \in Nat /\ \A i \in 1..Len(text): text[i] \in Chars
  BY LenProperties DEF Text
<1>2. /\ at \subseteq {i \in 1..Len(text): TermAt(c, text, term, i)}
      /\ Occurs(c, text, term) => at # {}
  BY StartsWhere
<1>3. Obfuscated(c, text, term) = FlattenSeq(s)
  BY DEF Obfuscated, MarkedWith
<1> HIDE DEF at
<1>4. ASSUME NEW i \in 1..Len(text)
      PROVE  /\ s[i] \in Seq(Chars) /\ Len(s[i]) >= 1
             /\ i \in at => Len(s[i]) >= 2
             /\ i \notin at => s[i] = <<text[i]>>
  <2>1. <<text[i]>> \in Seq(Chars) /\ Len(<<text[i]>>) = 1
    BY <1>1
  <2>2. <<text[i], Mark>> \in Seq(Chars) /\ Len(<<text[i], Mark>>) = 2
    BY <1>1, TransformAssumption
  <2> QED BY <2>1, <2>2
<1>5. s \in Seq(Seq(Chars)) /\ Len(s) = Len(text)
  <2>1. s \in [1..Len(text) -> Seq(Chars)]
    BY <1>4
  <2> HIDE DEF s
  <2> QED BY <1>1, <2>1, FunctionIsSeq
<1> HIDE DEF s
<1>6. FlattenSeq(s) \in Text
  <2>1. Len(s) \in 0..Len(s)
    BY <1>1, <1>5
  <2> QED BY <1>5, <2>1, UptoStep DEF Text
<1>7. ASSUME ~ Occurs(c, text, term) PROVE FlattenSeq(s) = text
  <2>1. at = {}
    BY <1>2, <1>7 DEF Occurs
  <2>2. \A k \in 1..Len(s): s[k] = <<text[k]>>
    BY <1>4, <1>5, <2>1
  <2>3. text \in Seq(Chars)
    BY DEF Text
  <2> QED BY <1>5, <2>2, <2>3, FlattenSingles
<1>8. ASSUME Occurs(c, text, term) PROVE Len(FlattenSeq(s)) > Len(text)
  <2>1. PICK i \in at: TRUE
    BY <1>2, <1>8
  <2>2. i \in 1..Len(s) /\ Len(s[i]) >= 2 /\ \A k \in 1..Len(s): Len(s[k]) >= 1
    BY <1>2, <1>4, <1>5, <2>1
  <2>3. Len(FlattenSeq(s)) > Len(s)
    BY <1>5, <2>2, FlattenLonger
  <2> QED BY <1>5, <2>3
<1> QED BY <1>3, <1>6, <1>7, <1>8

LEMMA RewrittenText ==
    ASSUME NEW c \in Configuration, NEW text \in Text, NEW r \in 1..Len(c.rules)
    PROVE  /\ Rewritten(c, text, r) \in Text
           /\ ~ Occurs(c, text, c.rules[r]) => Rewritten(c, text, r) = text
           /\ Occurs(c, text, c.rules[r]) =>
                 IF r <= c.stripEnd THEN Len(Rewritten(c, text, r)) < Len(text)
                                    ELSE Len(Rewritten(c, text, r)) > Len(text)
<1>1. c.rules[r] \in Text \ {<<>>}
  BY ElementOfSeq DEF Configuration
<1> QED BY <1>1, StrippedText, ObfuscatedText DEF Rewritten

\* A text after each of the rewrite rules.
After(c, text) ==
    LET after[r \in c.blockEnd..Len(c.rules)] ==
            IF r = c.blockEnd THEN text ELSE Rewritten(c, after[r - 1], r)
    IN  after

LEMMA FinalIsAfter ==
    ASSUME NEW text PROVE Final(text) = After(cfg, text)[Len(cfg.rules)]
BY DEF Final, After

LEMMA AfterRules ==
    ASSUME NEW c \in Configuration, NEW text \in Text
    PROVE  /\ c.blockEnd \in Nat /\ Len(c.rules) \in Nat /\ c.blockEnd <= Len(c.rules)
           /\ c.stripEnd \in c.blockEnd..Len(c.rules)
           /\ After(c, text)[c.blockEnd] = text
           /\ \A r \in (c.blockEnd + 1)..Len(c.rules):
                 After(c, text)[r] = Rewritten(c, After(c, text)[r - 1], r)
           /\ \A r \in c.blockEnd..Len(c.rules): After(c, text)[r] \in Text
<1> DEFINE lo == c.blockEnd
           hi == Len(c.rules)
           Eq(f) == f = [r \in lo..hi |-> IF r = lo THEN text ELSE Rewritten(c, f[r - 1], r)]
           after == CHOOSE f: Eq(f)
<1>1. lo \in Nat /\ hi \in Nat /\ lo <= hi /\ c.stripEnd \in lo..hi
  BY LenProperties DEF Configuration
<1>2. ASSUME NEW t \in Text, NEW r \in (lo + 1)..hi PROVE Rewritten(c, t, r) \in Text
  <2>1. r \in 1..hi
    BY <1>1
  <2> QED BY <2>1, RewrittenText
<1> HIDE DEF lo, hi
<1>3. Eq(after)
  <2> DEFINE step == [p \in Text \X ((lo + 1)..hi) |-> Rewritten(c, p[1], p[2])]
  <2>1. step \in [Text \X ((lo + 1)..hi) -> Text]
    BY <1>2
  <2>2. ASSUME NEW t \in Text, NEW r \in (lo + 1)..hi PROVE step[<<t, r>>] = Rewritten(c, t, r)
    <3>1. <<t, r>> \in Text \X ((lo + 1)..hi) /\ <<t, r>>[1] = t /\ <<t, r>>[2] = r
      OBVIOUS
    <3> QED BY <3>1
  <2> HIDE DEF step
  <2>3. \E g \in [lo..hi -> Text]: Follows(g, lo, hi, text, step)
    BY <1>1, <2>1, RecursionExists
  <2>4. PICK g \in [lo..hi -> Text]:
           g[lo] = text /\ \A n \in (lo + 1)..hi: g[n] = step[<<g[n - 1], n>>]
    BY <2>3 DEF Follows
  <2>5. ASSUME NEW r \in lo..hi
        PROVE  g[r] = IF r = lo THEN text ELSE Rewritten(c, g[r - 1], r)
    <3>1. CASE r = lo
      BY <2>4, <3>1
    <3>2. CASE r # lo
      <4>1. r \in (lo + 1)..hi /\ r - 1 \in lo..hi
        BY <1>1, <3>2
      <4>2. g[r - 1] \in Text /\ g[r] = step[<<g[r - 1], r>>]
        BY <2>4, <4>1
      <4> QED BY <2>2, <3>2, <4>1, <4>2
    <3> QED BY <3>1, <3>2
  <2>6. Eq(g)
    BY <2>4, <2>5
  <2> QED BY <2>6
<1>4. after = After(c, text)
  BY DEF After, lo, hi
<1> HIDE DEF after
<1>5. \A r \in lo..hi: after[r] = IF r = lo THEN text ELSE Rewritten(c, after[r - 1], r)
  BY <1>3
<1> HIDE DEF Eq
<1>6. after[lo] = text /\ \A r \in (lo + 1)..hi: after[r] = Rewritten(c, after[r - 1], r)
  <2>1. lo \in lo..hi /\ \A r \in (lo + 1)..hi: r \in lo..hi /\ r # lo
    BY <1>1
  <2> QED BY <1>5, <2>1
<1>7. \A r \in lo..hi: after[r] \in Text
  <2> DEFINE T == {r \in lo..hi: after[r] \in Text}
  <2>1. lo \in T
    BY <1>1, <1>6
  <2>2. ASSUME NEW r \in lo..(hi - 1), r \in T PROVE r + 1 \in T
    <3>1. r + 1 \in (lo + 1)..hi /\ r + 1 \in lo..hi /\ (r + 1) - 1 = r
      BY <1>1
    <3>2. after[r + 1] \in Text
      BY <1>2, <1>6, <2>2, <3>1
    <3> QED BY <3>1, <3>2
  <2> HIDE DEF T
  <2>3. lo..hi \subseteq T
    BY <1>1, <2>1, <2>2, IntervalInduction
  <2> QED BY <2>3 DEF T
<1> QED BY <1>1, <1>4, <1>6, <1>7 DEF lo, hi

\* A text that no rewrite rule occurs in is its own final text.
LEMMA AfterAlone ==
    ASSUME NEW c \in Configuration, NEW text \in Text,
           \A r \in (c.blockEnd + 1)..Len(c.rules): ~ Occurs(c, text, c.rules[r])
    PROVE  \A r \in c.blockEnd..Len(c.rules): After(c, text)[r] = text
<1> DEFINE lo == c.blockEnd
           hi == Len(c.rules)
           after == After(c, text)
           T == {r \in lo..hi: after[r] = text}
<1>1. /\ lo \in Nat /\ hi \in Nat /\ lo <= hi /\ after[lo] = text
      /\ \A r \in (lo + 1)..hi: after[r] = Rewritten(c, after[r - 1], r)
  BY AfterRules
<1>2. ASSUME NEW r \in (lo + 1)..hi PROVE Rewritten(c, text, r) = text
  <2>1. r \in 1..Len(c.rules)
    BY <1>1
  <2> QED BY <2>1, RewrittenText
<1> HIDE DEF lo, hi, after
<1>3. lo \in T
  BY <1>1
<1>4. ASSUME NEW r \in lo..(hi - 1), r \in T PROVE r + 1 \in T
  <2>1. r + 1 \in (lo + 1)..hi /\ r + 1 \in lo..hi /\ (r + 1) - 1 = r
    BY <1>1
  <2>2. after[r + 1] = text
    BY <1>1, <1>2, <1>4, <2>1
  <2> QED BY <2>1, <2>2
<1> HIDE DEF T
<1>5. lo..hi \subseteq T
  BY <1>1, <1>3, <1>4, IntervalInduction
<1> QED BY <1>5 DEF T, lo, hi, after

\* Rules of one kind cannot cancel: a text they changed once stays different.
LEMMA AfterOneKind ==
    ASSUME NEW c \in Configuration, NEW text \in Text, ~ RetainOriginal(c)
    PROVE  \A r \in (c.blockEnd + 1)..Len(c.rules):
              After(c, text)[r] = text <=>
                 /\ After(c, text)[r - 1] = text
                 /\ ~ Occurs(c, After(c, text)[r - 1], c.rules[r])
<1> DEFINE lo == c.blockEnd
           hi == Len(c.rules)
           mid == c.stripEnd
           after == After(c, text)
           Beyond(t) == IF mid = hi THEN Len(t) < Len(text) ELSE Len(t) > Len(text)
           T == {r \in lo..hi: after[r] = text \/ Beyond(after[r])}
<1>1. /\ lo \in Nat /\ hi \in Nat /\ lo <= hi /\ after[lo] = text
      /\ \A r \in (lo + 1)..hi: after[r] = Rewritten(c, after[r - 1], r)
      /\ \A r \in lo..hi: after[r] \in Text
      /\ mid \in lo..hi
  BY AfterRules
<1>2. mid = hi \/ mid = lo
  BY <1>1 DEF RetainOriginal
<1>3. ASSUME NEW t \in Text, NEW r \in (lo + 1)..hi
      PROVE  /\ ~ Occurs(c, t, c.rules[r]) => Rewritten(c, t, r) = t
             /\ Occurs(c, t, c.rules[r]) =>
                  IF mid = hi THEN Len(Rewritten(c, t, r)) < Len(t)
                              ELSE Len(Rewritten(c, t, r)) > Len(t)
             /\ Rewritten(c, t, r) \in Text
  <2>1. r \in 1..Len(c.rules) /\ (r <= mid <=> mid = hi)
    BY <1>1, <1>2
  <2> QED BY <2>1, RewrittenText
<1>4. \A t \in Text: Len(t) \in Nat
  BY LenProperties DEF Text
<1> HIDE DEF lo, hi, mid, after
<1>5. ASSUME NEW r \in (lo + 1)..hi, after[r - 1] = text \/ Beyond(after[r - 1])
      PROVE  /\ after[r] = text \/ Beyond(after[r])
             /\ after[r] = text <=> /\ after[r - 1] = text
                                    /\ ~ Occurs(c, after[r - 1], c.rules[r])
  <2>1. r - 1 \in lo..hi
    BY <1>1
  <2>2. after[r] = Rewritten(c, after[r - 1], r) /\ after[r - 1] \in Text /\ after[r] \in Text
    BY <1>1, <1>3, <2>1
  <2>3. Len(after[r]) \in Nat /\ Len(after[r - 1]) \in Nat /\ Len(text) \in Nat
    BY <1>4, <2>2
  <2>4. CASE Occurs(c, after[r - 1], c.rules[r])
    <3>1. IF mid = hi THEN Len(after[r]) < Len(after[r - 1]) ELSE Len(after[r]) > Len(after[r - 1])
      BY <1>3, <2>2, <2>4
    <3>2. Beyond(after[r])
      BY <1>5, <2>3, <3>1
    <3>3. after[r] # text
      BY <2>3, <3>2
    <3> QED BY <2>4, <3>2, <3>3
  <2>5. CASE ~ Occurs(c, after[r - 1], c.rules[r])
    <3>1. after[r] = after[r - 1]
      BY <1>3, <2>2, <2>5
    <3> QED BY <1>5, <2>5, <3>1
  <2> QED BY <2>4, <2>5
<1>6. lo \in T
  BY <1>1
<1>7. ASSUME NEW r \in lo..(hi - 1), r \in T PROVE r + 1 \in T
  <2>1. r + 1 \in (lo + 1)..hi /\ r + 1 \in lo..hi /\ (r + 1) - 1 = r
    BY <1>1
  <2> HIDE DEF Beyond
  <2>2. after[r + 1] = text \/ Beyond(after[r + 1])
    BY <1>5, <1>7, <2>1
  <2> QED BY <2>1, <2>2
<1> HIDE DEF T
<1>8. lo..hi \subseteq T
  BY <1>1, <1>6, <1>7, IntervalInduction
<1>9. ASSUME NEW r \in (lo + 1)..hi
      PROVE  after[r] = text <=> after[r - 1] = text /\ ~ Occurs(c, after[r - 1], c.rules[r])
  <2>1. r - 1 \in lo..hi
    BY <1>1
  <2> HIDE DEF Beyond
  <2>2. after[r - 1] = text \/ Beyond(after[r - 1])
    BY <1>8, <2>1 DEF T
  <2> QED BY <1>5, <2>2
<1> QED BY <1>9 DEF lo, hi, after

-----------------------------------------------------------------------------
(* The block searches: each finds the first of its rules, in the first leaf. *)

\* m is the first match of the rules lo..hi in the first n leaves.
FirstIn(c, m, lo, hi, n) ==
    IF m = NoMatch
    THEN \A j \in 1..n, r \in lo..hi: ~ Occurs(c, spans[j].text, c.rules[r])
    ELSE /\ m.rule \in lo..hi /\ m.span \in 1..n
         /\ Occurs(c, spans[m.span].text, c.rules[m.rule])
         /\ \A j \in 1..n, r \in lo..m.rule:
               Occurs(c, spans[j].text, c.rules[r]) => r = m.rule /\ j >= m.span

LEMMA RuleMajorFirst ==
    ASSUME NEW c, NEW lo \in Nat \ {0}, NEW hi \in Nat, Len(spans) \in Nat
    PROVE  FirstIn(c, RuleMajor(c, lo, hi), lo, hi, Len(spans))
<1> DEFINE Hit(r, i) == Occurs(c, spans[i].text, c.rules[r])
           hits == {r \in lo..hi: \E i \in 1..Len(spans): Hit(r, i)}
           first == CHOOSE r \in hits: \A q \in hits: r <= q
           found == {i \in 1..Len(spans): Hit(first, i)}
           leaf == CHOOSE i \in found: \A j \in found: i <= j
           m == RuleMajor(c, lo, hi)
<1>1. m = IF hits = {} THEN NoMatch ELSE [rule |-> first, span |-> leaf]
  BY DEF RuleMajor
<1>2. CASE hits = {}
  <2>1. m = NoMatch
    BY <1>1, <1>2
  <2>2. \A j \in 1..Len(spans), r \in lo..hi: ~ Hit(r, j)
    BY <1>2
  <2> HIDE DEF m
  <2>3. FirstIn(c, m, lo, hi, Len(spans))
    BY <2>1, <2>2 DEF FirstIn
  <2> QED BY <2>3 DEF m
<1>3. CASE hits # {}
  <2>1. first \in hits /\ \A q \in hits: first <= q
    <3>1. hits \subseteq Nat
      OBVIOUS
    <3> HIDE DEF hits
    <3>2. \E r \in hits: \A q \in hits: r <= q
      BY <1>3, <3>1, LeastNatural
    <3> QED BY <3>2
  <2>2. first \in lo..hi /\ found # {} /\ found \subseteq Nat
    <3> HIDE DEF first
    <3>1. first \in lo..hi /\ \E i \in 1..Len(spans): Hit(first, i)
      BY <2>1
    <3> QED BY <3>1
  <2>3. leaf \in found /\ \A j \in found: leaf <= j
    <3> HIDE DEF found
    <3>1. \E i \in found: \A j \in found: i <= j
      BY <2>2, LeastNatural
    <3> QED BY <3>1
  <2>4. leaf \in 1..Len(spans) /\ Hit(first, leaf)
    BY <2>3
  <2>5. m = [rule |-> first, span |-> leaf]
    BY <1>1, <1>3
  <2>6. ASSUME NEW j \in 1..Len(spans), NEW r \in lo..first, Hit(r, j)
        PROVE  r = first /\ j >= leaf
    <3> HIDE DEF first, leaf
    <3>1. r \in hits
      BY <2>2, <2>6
    <3>2. r = first
      BY <2>1, <2>2, <3>1
    <3>3. j \in found
      BY <2>6, <3>2
    <3> QED BY <2>3, <2>4, <3>2, <3>3
  <2> HIDE DEF m, first, leaf, Hit
  <2>7. m # NoMatch /\ m.rule = first /\ m.span = leaf
    BY <2>2, <2>5 DEF NoMatch
  <2>8. \A j \in 1..Len(spans), r \in lo..first: Hit(r, j) => r = first /\ j >= leaf
    BY <2>6
  <2>9. FirstIn(c, m, lo, hi, Len(spans))
    BY <2>2, <2>4, <2>7, <2>8 DEF FirstIn, Hit
  <2> QED BY <2>9 DEF m
<1> QED BY <1>2, <1>3

LEMMA LeastRuleIs ==
    ASSUME NEW c, NEW text, NEW lo \in Nat \ {0}, NEW hi \in Nat
    PROVE  LET q == LeastRule(c, text, lo, hi) IN
           /\ q = 0 => \A r \in lo..hi: ~ Occurs(c, text, c.rules[r])
           /\ q # 0 => /\ q \in lo..hi /\ Occurs(c, text, c.rules[q])
                       /\ \A r \in lo..hi: Occurs(c, text, c.rules[r]) => q <= r
           /\ q \in Nat
<1> DEFINE hits == {r \in lo..hi: Occurs(c, text, c.rules[r])}
           least == CHOOSE r \in hits: \A q \in hits: r <= q
<1>1. LeastRule(c, text, lo, hi) = IF hits = {} THEN 0 ELSE least
  BY DEF LeastRule
<1>2. ASSUME hits # {} PROVE least \in hits /\ \A q \in hits: least <= q
  <2>1. hits \subseteq Nat
    OBVIOUS
  <2> HIDE DEF hits
  <2>2. \E r \in hits: \A q \in hits: r <= q
    BY <1>2, <2>1, LeastNatural
  <2> QED BY <2>2
<1> HIDE DEF least
<1>3. hits = {} => \A r \in lo..hi: ~ Occurs(c, text, c.rules[r])
  OBVIOUS
<1>4. hits # {} => /\ least \in lo..hi /\ Occurs(c, text, c.rules[least])
                   /\ \A r \in lo..hi: Occurs(c, text, c.rules[r]) => least <= r
  BY <1>2
<1> HIDE DEF hits
<1>5. hits # {} => least \in Nat \ {0}
  BY <1>4
<1> QED BY <1>1, <1>3, <1>4, <1>5

\* One more leaf.
LEMMA FirstOfLeaves ==
    ASSUME NEW c, NEW lo \in Nat \ {0}, NEW hi \in Nat, NEW i \in Nat \ {0},
           NEW m \in [rule: Nat, span: Nat], FirstIn(c, m, lo, hi, i - 1)
    PROVE  LET r == LeastRule(c, spans[i].text, lo, hi) IN
           FirstOf(m, r, i) \in [rule: Nat, span: Nat] /\ FirstIn(c, FirstOf(m, r, i), lo, hi, i)
<1> DEFINE q == LeastRule(c, spans[i].text, lo, hi)
           Hit(r, j) == Occurs(c, spans[j].text, c.rules[r])
<1>1. /\ q = 0 => \A r \in lo..hi: ~ Hit(r, i)
      /\ q # 0 => q \in lo..hi /\ Hit(q, i) /\ \A r \in lo..hi: Hit(r, i) => q <= r
      /\ q \in Nat
  BY LeastRuleIs
<1>2. /\ m = NoMatch => \A j \in 1..(i - 1), r \in lo..hi: ~ Hit(r, j)
      /\ m # NoMatch => /\ m.rule \in lo..hi /\ m.span \in 1..(i - 1) /\ Hit(m.rule, m.span)
                        /\ \A j \in 1..(i - 1), r \in lo..m.rule:
                              Hit(r, j) => r = m.rule /\ j >= m.span
  BY DEF FirstIn
<1>3. m.rule = 0 <=> m = NoMatch
  BY <1>2 DEF NoMatch
<1> HIDE DEF q, Hit
<1>4. \A j \in 1..i: j \in 1..(i - 1) \/ j = i
  OBVIOUS
<1>5. CASE q # 0 /\ (m.rule = 0 \/ q < m.rule)
  <2>1. FirstOf(m, q, i) = [rule |-> q, span |-> i]
    BY <1>5 DEF FirstOf
  <2>2. [rule |-> q, span |-> i] # NoMatch
    BY <1>5 DEF NoMatch
  <2>3. q \in lo..hi /\ i \in 1..i /\ Hit(q, i)
    BY <1>1, <1>5
  <2>4. ASSUME NEW j \in 1..i, NEW r \in lo..q, Hit(r, j) PROVE r = q /\ j >= i
    <3>1. r \in lo..hi
      BY <2>3
    <3>2. CASE j = i
      BY <1>1, <1>5, <2>4, <3>1, <3>2
    <3>3. CASE j \in 1..(i - 1)
      <4>1. CASE m = NoMatch
        BY <1>2, <2>4, <3>1, <3>3, <4>1
      <4>2. CASE m # NoMatch
        <5>1. m.rule \in Nat /\ q < m.rule
          BY <1>3, <1>5, <4>2
        <5>2. r \in lo..m.rule
          BY <2>3, <5>1
        <5>3. r = m.rule
          BY <1>2, <2>4, <3>3, <4>2, <5>2
        <5> QED BY <2>3, <5>1, <5>3
      <4> QED BY <4>1, <4>2
    <3> QED BY <1>4, <3>2, <3>3
  <2> DEFINE b == [rule |-> q, span |-> i]
  <2>5. b \in [rule: Nat, span: Nat] /\ b.rule = q /\ b.span = i
    BY <1>1
  <2> HIDE DEF b
  <2>6. b # NoMatch /\ FirstOf(m, q, i) = b
    BY <2>1, <2>2 DEF b
  <2>7. \A j \in 1..i, r \in lo..q: Hit(r, j) => r = q /\ j >= i
    BY <2>4
  <2>8. FirstIn(c, b, lo, hi, i)
    BY <2>3, <2>5, <2>6, <2>7 DEF FirstIn, Hit
  <2> QED BY <2>5, <2>6, <2>8 DEF q
<1>6. CASE ~ (q # 0 /\ (m.rule = 0 \/ q < m.rule))
  <2>1. FirstOf(m, q, i) = m
    BY <1>6 DEF FirstOf
  <2>2. CASE m = NoMatch
    <3>1. q = 0
      BY <1>3, <1>6, <2>2
    <3>2. \A j \in 1..i, r \in lo..hi: ~ Hit(r, j)
      BY <1>1, <1>2, <1>4, <2>2, <3>1
    <3>3. FirstIn(c, m, lo, hi, i)
      BY <2>2, <3>2 DEF FirstIn, Hit
    <3> QED BY <2>1, <3>3 DEF q
  <2>3. CASE m # NoMatch
    <3>1. /\ m.rule \in lo..hi /\ m.span \in 1..(i - 1) /\ Hit(m.rule, m.span)
          /\ \A j \in 1..(i - 1), r \in lo..m.rule: Hit(r, j) => r = m.rule /\ j >= m.span
      BY <1>2, <2>3
    <3>2. ASSUME NEW r \in lo..m.rule, Hit(r, i) PROVE r = m.rule /\ i >= m.span
      <4>1. r \in lo..hi
        BY <3>1
      <4>2. q # 0 /\ q <= r
        BY <1>1, <3>2, <4>1
      <4>3. ~ (q < m.rule)
        BY <1>6, <4>2
      <4> QED BY <1>1, <3>1, <4>2, <4>3
    <3>3. \A j \in 1..i, r \in lo..m.rule: Hit(r, j) => r = m.rule /\ j >= m.span
      BY <1>4, <3>1, <3>2
    <3>4. m.span \in 1..i
      BY <3>1
    <3>5. FirstIn(c, m, lo, hi, i)
      BY <2>3, <3>1, <3>3, <3>4 DEF FirstIn, Hit
    <3> QED BY <2>1, <3>5 DEF q
  <2> QED BY <2>2, <2>3
<1> QED BY <1>5, <1>6

LEMMA SpanMajorFirst ==
    ASSUME NEW c, NEW lo \in Nat \ {0}, NEW hi \in Nat, Len(spans) \in Nat
    PROVE  FirstIn(c, SpanMajor(c, lo, hi), lo, hi, Len(spans))
<1> DEFINE B == [rule: Nat, span: Nat]
           N == Len(spans)
           Least(i) == LeastRule(c, spans[i].text, lo, hi)
           Eq(f) == f = [i \in 0..N |-> IF i = 0 THEN NoMatch
                                        ELSE FirstOf(f[i - 1], Least(i), i)]
           best == CHOOSE f: Eq(f)
<1>1. SpanMajor(c, lo, hi) = best[N]
  BY DEF SpanMajor
<1>2. \A i \in 1..N: Least(i) \in Nat
  BY LeastRuleIs
<1>3. NoMatch \in B
  BY DEF NoMatch
<1> HIDE DEF Least, N
<1>4. Eq(best)
  <2> DEFINE step == [p \in B \X ((0 + 1)..N) |-> FirstOf(p[1], Least(p[2]), p[2])]
             lo0 == 0
             start == NoMatch
  <2>1. ASSUME NEW m \in B, NEW i \in 1..N PROVE FirstOf(m, Least(i), i) \in B
    <3>1. Least(i) \in Nat /\ i \in Nat
      BY <1>2 DEF N
    <3>2. [rule |-> Least(i), span |-> i] \in B
      BY <3>1
    <3> QED BY <3>2 DEF FirstOf
  <2>2. ASSUME NEW m \in B, NEW i \in 1..N PROVE step[<<m, i>>] = FirstOf(m, Least(i), i)
    <3>1. <<m, i>> \in B \X ((0 + 1)..N) /\ <<m, i>>[1] = m /\ <<m, i>>[2] = i
      OBVIOUS
    <3> HIDE DEF B
    <3> QED BY <3>1
  <2>3. N \in Nat /\ lo0 \in Nat /\ lo0 <= N /\ lo0 = 0 /\ lo0 + 1 = 1
    BY DEF N
  <2> HIDE DEF B
  <2>4. step \in [B \X ((lo0 + 1)..N) -> B] /\ start \in B /\ start = NoMatch
    <3>1. \A p \in B \X ((0 + 1)..N): p[1] \in B /\ p[2] \in 1..N
      OBVIOUS
    <3>2. \A p \in B \X ((0 + 1)..N): FirstOf(p[1], Least(p[2]), p[2]) \in B
      BY <2>1, <3>1
    <3> QED BY <1>3, <3>2
  <2> HIDE DEF step, lo0, start
  <2>5. \E g \in [lo0..N -> B]: Follows(g, lo0, N, start, step)
    BY <2>3, <2>4, RecursionExists
  <2>6. PICK g \in [0..N -> B]: g[0] = NoMatch /\ \A n \in 1..N: g[n] = step[<<g[n - 1], n>>]
    BY <2>3, <2>4, <2>5 DEF Follows
  <2>7. ASSUME NEW i \in 0..N
        PROVE  g[i] = IF i = 0 THEN NoMatch ELSE FirstOf(g[i - 1], Least(i), i)
    <3>1. CASE i = 0
      BY <2>6, <3>1
    <3>2. CASE i # 0
      <4>1. i \in 1..N /\ i - 1 \in 0..N
        BY <2>3, <3>2
      <4>2. g[i - 1] \in B /\ g[i] = step[<<g[i - 1], i>>]
        BY <2>6, <4>1
      <4> QED BY <2>2, <3>2, <4>1, <4>2
    <3> QED BY <3>1, <3>2
  <2>8. Eq(g)
    BY <2>6, <2>7
  <2> QED BY <2>8
<1> HIDE DEF best
<1>5. best[0] = NoMatch /\ \A i \in 1..N: best[i] = FirstOf(best[i - 1], Least(i), i)
  <2>1. \A i \in 0..N: best[i] = IF i = 0 THEN NoMatch ELSE FirstOf(best[i - 1], Least(i), i)
    BY <1>4
  <2>2. N \in Nat
    BY DEF N
  <2>3. 0 \in 0..N /\ \A i \in 1..N: i \in 0..N /\ i # 0
    BY <2>2
  <2> QED BY <2>1, <2>3
<1> HIDE DEF Eq
<1> DEFINE T == {n \in 0..N: best[n] \in B /\ FirstIn(c, best[n], lo, hi, n)}
<1>6. N \in Nat /\ 0 \in 0..N /\ N \in 0..N
  <2>1. N \in Nat
    BY DEF N
  <2> QED BY <2>1
<1>7. 0 \in T
  <2>1. FirstIn(c, NoMatch, lo, hi, 0)
    BY DEF FirstIn
  <2> QED BY <1>3, <1>5, <1>6, <2>1
<1>8. ASSUME NEW n \in 0..(N - 1), n \in T PROVE n + 1 \in T
  <2> DEFINE i == n + 1
  <2>1. i \in Nat \ {0} /\ i \in 1..N /\ i \in 0..N /\ i - 1 = n
    BY <1>6
  <2> HIDE DEF i
  <2>2. best[i - 1] \in [rule: Nat, span: Nat] /\ FirstIn(c, best[i - 1], lo, hi, i - 1)
    BY <1>8, <2>1
  <2>3. /\ FirstOf(best[i - 1], Least(i), i) \in [rule: Nat, span: Nat]
        /\ FirstIn(c, FirstOf(best[i - 1], Least(i), i), lo, hi, i)
    BY <2>1, <2>2, FirstOfLeaves DEF Least
  <2>4. i \in T
    BY <1>5, <2>1, <2>3
  <2> QED BY <2>4 DEF i
<1> HIDE DEF T
<1>9. 0..N \subseteq T
  BY <1>6, <1>7, <1>8, IntervalInduction
<1>10. FirstIn(c, best[N], lo, hi, N)
  BY <1>6, <1>9 DEF T
<1> QED BY <1>1, <1>10 DEF N

LEMMA BlockMatchFirst ==
    ASSUME NEW c \in Configuration, Len(spans) \in Nat
    PROVE  FirstIn(c, BlockMatch(c), 1, c.blockEnd, Len(spans))
<1> DEFINE n == Len(spans)
           e == c.blockEnd
           automaton == e >= MatcherMinRules
           prefix == IF ~automaton THEN 0 ELSE IF PrefixRules < e THEN PrefixRules ELSE e
           head == RuleMajor(c, 1, prefix)
           rest == IF automaton /\ TotalText(spans) >= MatcherMinText
                   THEN SpanMajor(c, prefix + 1, e) ELSE RuleMajor(c, prefix + 1, e)
<1>1. e \in Nat
  BY DEF Configuration
<1>2. prefix \in 0..e /\ prefix + 1 \in Nat \ {0} /\ prefix \in Nat
  BY <1>1, TransformAssumption
<1>3. CASE c.fold
  <2>1. 1 \in Nat \ {0}
    OBVIOUS
  <2> QED BY <1>1, <1>3, <2>1, SpanMajorFirst DEF BlockMatch
<1>4. CASE ~ c.fold
  <2>1. BlockMatch(c) = IF head # NoMatch THEN head ELSE rest
    BY <1>4 DEF BlockMatch, ExactBlock
  <2> HIDE DEF prefix, e
  <2>2. FirstIn(c, head, 1, prefix, n)
    <3>1. 1 \in Nat \ {0}
      OBVIOUS
    <3> QED BY <1>2, <3>1, RuleMajorFirst
  <2>3. FirstIn(c, rest, prefix + 1, e, n)
    <3>1. FirstIn(c, SpanMajor(c, prefix + 1, e), prefix + 1, e, n)
      BY <1>1, <1>2, SpanMajorFirst
    <3>2. FirstIn(c, RuleMajor(c, prefix + 1, e), prefix + 1, e, n)
      BY <1>1, <1>2, RuleMajorFirst
    <3> QED BY <3>1, <3>2
  <2> HIDE DEF head, rest, n
  <2>4. CASE head # NoMatch
    <3>1. /\ head.rule \in 1..prefix /\ head.span \in 1..n
          /\ Occurs(c, spans[head.span].text, c.rules[head.rule])
          /\ \A j \in 1..n, r \in 1..head.rule:
               Occurs(c, spans[j].text, c.rules[r]) => r = head.rule /\ j >= head.span
      BY <2>2, <2>4 DEF FirstIn
    <3>2. head.rule \in 1..e
      BY <1>1, <1>2, <3>1
    <3>3. FirstIn(c, head, 1, e, n)
      BY <2>4, <3>1, <3>2 DEF FirstIn
    <3> QED BY <2>1, <2>4, <3>3 DEF n, e
  <2>5. CASE head = NoMatch
    <3>1. \A j \in 1..n, r \in 1..prefix: ~ Occurs(c, spans[j].text, c.rules[r])
      BY <2>2, <2>5 DEF FirstIn
    <3>2. CASE rest = NoMatch
      <4>1. \A j \in 1..n, r \in (prefix + 1)..e: ~ Occurs(c, spans[j].text, c.rules[r])
        BY <2>3, <3>2 DEF FirstIn
      <4>2. \A r \in 1..e: r \in 1..prefix \/ r \in (prefix + 1)..e
        BY <1>1, <1>2
      <4>3. \A j \in 1..n, r \in 1..e: ~ Occurs(c, spans[j].text, c.rules[r])
        BY <3>1, <4>1, <4>2
      <4>4. FirstIn(c, rest, 1, e, n)
        BY <3>2, <4>3 DEF FirstIn
      <4> QED BY <2>1, <2>5, <4>4 DEF n, e
    <3>3. CASE rest # NoMatch
      <4>1. /\ rest.rule \in (prefix + 1)..e /\ rest.span \in 1..n
            /\ Occurs(c, spans[rest.span].text, c.rules[rest.rule])
            /\ \A j \in 1..n, r \in (prefix + 1)..rest.rule:
                 Occurs(c, spans[j].text, c.rules[r]) => r = rest.rule /\ j >= rest.span
        BY <2>3, <3>3 DEF FirstIn
      <4>2. rest.rule \in 1..e
            /\ \A r \in 1..rest.rule: r \in 1..prefix \/ r \in (prefix + 1)..rest.rule
        BY <1>1, <1>2, <4>1
      <4>3. \A j \in 1..n, r \in 1..rest.rule:
               Occurs(c, spans[j].text, c.rules[r]) => r = rest.rule /\ j >= rest.span
        BY <3>1, <4>1, <4>2
      <4>4. FirstIn(c, rest, 1, e, n)
        BY <3>3, <4>1, <4>2, <4>3 DEF FirstIn
      <4> QED BY <2>1, <2>5, <4>4 DEF n, e
    <3> QED BY <3>2, <3>3
  <2> QED BY <2>4, <2>5
<1> QED BY <1>3, <1>4

-----------------------------------------------------------------------------
(* The invariant. *)

Working == [text: Text, changed: BOOLEAN, skip: BOOLEAN]

TypeInv ==
    /\ cfg \in Configuration
    /\ items \in Seq(Item)
    /\ pc \in {"block", "rewrite", "finish", "done"}
    /\ sources \in Seq(Leaf)
    /\ spans \in Seq(Working)
    /\ Len(spans) = Len(sources)
    /\ rule \in Nat
    /\ flat \in Seq(Working)

\* Where a pass stands: each leaf has been through the rules before this one, a
\* leaf that is skipped holds none of them, and changed tells apart what it
\* can at this point.
PassInv ==
    /\ pc = "block" => spans = Fresh(sources)
    /\ pc \in {"block", "rewrite"} /\ flat = <<>> => sources = Original
    /\ pc = "rewrite" =>
          /\ rule \in (cfg.blockEnd + 1)..(Len(cfg.rules) + 1)
          /\ \A i \in 1..Len(sources):
                /\ ~ Blocks(sources[i].text)
                /\ spans[i].text = After(cfg, sources[i].text)[rule - 1]
                /\ spans[i].skip => \A r \in (cfg.blockEnd + 1)..Len(cfg.rules):
                                       ~ Occurs(cfg, sources[i].text, cfg.rules[r])
                /\ spans[i].changed <=> /\ ~ RetainOriginal(cfg)
                                        /\ spans[i].text # sources[i].text

\* The descriptions below the ones the rules emptied, one piece for each leaf.
Uncovered ==
    [i \in 1..Len(Original) |->
        IF i \in Emptied /\ Original[i].nested # <<>>
        THEN <<[Original[i] EXCEPT !.text = Original[i].nested, !.nested = <<>>]>>
        ELSE <<>>]

\* What the first pass leaves to the second.
FlatInv ==
    flat # <<>> =>
        /\ Len(flat) = Len(Original)
        /\ \A i \in 1..Len(flat):
              /\ ~ Blocks(Original[i].text)
              /\ flat[i].text = Final(Original[i].text)
              /\ flat[i].changed <=> flat[i].text # Original[i].text
        /\ \E i \in 1..Len(flat): flat[i].changed
        /\ sources = FlattenSeq(Uncovered)

\* Before the answer there is none, and it is given once both passes are through.
AnswerInv ==
    /\ pc # "done" => result = Pending
    /\ pc = "finish" =>
          /\ flat # <<>>
          /\ \A i \in 1..Len(sources): /\ ~ Blocks(sources[i].text)
                                       /\ spans[i].text = Final(sources[i].text)
    /\ pc = "done" => BlockIsFirst /\ ForwardedIsFiltered /\ ForwardedIsValid /\ RefusalHasCause

Inv == TypeInv /\ PassInv /\ FlatInv /\ AnswerInv

LEMMA OriginalTyped ==
    ASSUME items \in Seq(Item)
    PROVE  /\ Original \in Seq(Leaf) /\ Len(Original) \in Nat
           /\ \A i \in 1..Len(Original): Original[i] \in Leaf
<1> DEFINE s == [i \in 1..Len(items) |-> items[i].leaves]
<1>1. Len(items) \in Nat /\ \A i \in 1..Len(items): items[i].leaves \in Seq(Leaf)
  <2>1. Len(items) \in Nat /\ \A i \in 1..Len(items): items[i] \in Item
    BY LenProperties, ElementOfSeq
  <2> QED BY <2>1 DEF Item
<1>2. s \in Seq(Seq(Leaf))
  <2>1. s \in [1..Len(items) -> Seq(Leaf)]
    BY <1>1
  <2> HIDE DEF s
  <2> QED BY <1>1, <2>1, FunctionIsSeq
<1>3. Original = FlattenSeq(s)
  BY DEF Original, FlatLeaves
<1> HIDE DEF s
<1>4. Len(s) \in 0..Len(s)
  BY <1>2, LenProperties
<1>5. Original \in Seq(Leaf)
  BY <1>2, <1>3, <1>4, UptoStep
<1> HIDE DEF Original
<1> QED BY <1>5, LenProperties, ElementOfSeq

\* The flat spans of an item are those of its leaves.
LEMMA PartOfIs ==
    ASSUME items \in Seq(Item), flat \in Seq(Working), Len(flat) = Len(Original),
           NEW k \in 1..Len(items)
    PROVE  \E start \in Nat:
              /\ start + Len(items[k].leaves) <= Len(Original)
              /\ PartOf(k) = [j \in 1..Len(items[k].leaves) |-> flat[start + j]]
              /\ \A j \in 1..Len(items[k].leaves): Original[start + j] = items[k].leaves[j]
<1> DEFINE s == [i \in 1..Len(items) |-> items[i].leaves]
           start == Len(Upto(s, k - 1))
           n == Len(items[k].leaves)
           before == SubSeq(items, 1, k - 1)
<1>1. Len(items) \in Nat /\ \A i \in 1..Len(items): items[i].leaves \in Seq(Leaf)
  <2>1. Len(items) \in Nat /\ \A i \in 1..Len(items): items[i] \in Item
    BY LenProperties, ElementOfSeq
  <2> QED BY <2>1 DEF Item
<1>2. s \in Seq(Seq(Leaf)) /\ Len(s) = Len(items) /\ s[k] = items[k].leaves
  <2>1. s \in [1..Len(items) -> Seq(Leaf)] /\ s[k] = items[k].leaves
    BY <1>1
  <2> HIDE DEF s
  <2> QED BY <1>1, <2>1, FunctionIsSeq
<1>3. Original = FlattenSeq(s)
  BY DEF Original, FlatLeaves
<1>4. FlatLeaves(before) = Upto(s, k - 1)
  <2>1. before = [i \in 1..(k - 1) |-> items[i]] /\ Len(before) = k - 1
    BY <1>1
  <2>2. SubSeq(s, 1, k - 1) = [i \in 1..(k - 1) |-> s[i]]
    <3> HIDE DEF s
    <3> QED BY <1>1, <1>2
  <2>3. \A i \in 1..(k - 1): s[i] = items[i].leaves /\ before[i].leaves = items[i].leaves
    BY <1>1, <2>1
  <2> HIDE DEF s, before
  <2>4. [i \in 1..Len(before) |-> before[i].leaves] = SubSeq(s, 1, k - 1)
    BY <2>1, <2>2, <2>3
  <2> QED BY <2>4 DEF FlatLeaves, Upto
<1> HIDE DEF s
<1>5. /\ start \in Nat /\ start + n <= Len(Original)
      /\ \A j \in 1..n: Original[start + j] = items[k].leaves[j]
  <2>1. k \in 1..Len(s)
    BY <1>2
  <2>2. /\ Len(Upto(s, k - 1)) \in Nat
        /\ Len(Upto(s, k - 1)) + Len(s[k]) <= Len(FlattenSeq(s))
        /\ \A j \in 1..Len(s[k]): FlattenSeq(s)[Len(Upto(s, k - 1)) + j] = s[k][j]
    BY <1>2, <2>1, FlattenPlaces
  <2> QED BY <1>2, <1>3, <2>2
<1>6. PartOf(k) = SubSeq(flat, start + 1, start + n)
  BY <1>4 DEF PartOf
<1>7. n \in Nat /\ Len(Original) \in Nat
  BY <1>1, OriginalTyped, LenProperties
<1> HIDE DEF start, n
<1>8. SubSeq(flat, start + 1, start + n) = [j \in 1..n |-> flat[start + j]]
  BY <1>5, <1>7, PartIs
<1> QED BY <1>5, <1>6, <1>8 DEF n

LEMMA FinalText ==
    ASSUME TypeInv, NEW text \in Text
    PROVE  Final(text) \in Text /\ Len(Final(text)) \in Nat
<1>1. cfg \in Configuration
  BY DEF TypeInv
<1>2. Len(cfg.rules) \in cfg.blockEnd..Len(cfg.rules)
  BY <1>1, AfterRules
<1>3. Final(text) \in Text
  BY <1>1, <1>2, AfterRules, FinalIsAfter
<1> QED BY <1>3, LenProperties DEF Text

LEMMA EmptyHoldsNothing == ~ Blocks(<<>>)
BY DEF Blocks, Occurs

LEMMA UncoveredTyped ==
    ASSUME TypeInv
    PROVE  /\ Uncovered \in Seq(Seq(Leaf)) /\ Len(Uncovered) = Len(Original)
           /\ FlattenSeq(Uncovered) \in Seq(Leaf)
           /\ \A k \in 1..Len(Original):
                 IF k \in Emptied /\ Original[k].nested # <<>>
                 THEN /\ Len(Uncovered[k]) = 1
                      /\ Uncovered[k][1].text = Original[k].nested
                 ELSE Len(Uncovered[k]) = 0
<1>1. Len(Original) \in Nat /\ \A i \in 1..Len(Original): Original[i] \in Leaf
  BY OriginalTyped DEF TypeInv
<1> DEFINE Below(k) == [Original[k] EXCEPT !.text = Original[k].nested, !.nested = <<>>]
<1>2. ASSUME NEW k \in 1..Len(Original)
      PROVE  Below(k) \in Leaf /\ Below(k).text = Original[k].nested
  <2>1. Original[k] \in Leaf
    BY <1>1
  <2>2. <<>> \in Text
    BY DEF Text
  <2> QED BY <2>1, <2>2 DEF Leaf
<1> HIDE DEF Below
<1>3. Uncovered = [k \in 1..Len(Original) |->
         IF k \in Emptied /\ Original[k].nested # <<>> THEN <<Below(k)>> ELSE <<>>]
  BY DEF Uncovered, Below
<1>4. \A x: <<x>>[1] = x /\ Len(<<x>>) = 1
  OBVIOUS
<1>5. ASSUME NEW k \in 1..Len(Original)
      PROVE  /\ Uncovered[k] \in Seq(Leaf)
             /\ IF k \in Emptied /\ Original[k].nested # <<>>
                THEN Len(Uncovered[k]) = 1 /\ Uncovered[k][1].text = Original[k].nested
                ELSE Len(Uncovered[k]) = 0
  <2>1. CASE k \in Emptied /\ Original[k].nested # <<>>
    <3>1. Uncovered[k] = <<Below(k)>>
      BY <1>3, <2>1
    <3>2. <<Below(k)>> \in Seq(Leaf)
      BY <1>2
    <3> QED BY <1>2, <1>4, <2>1, <3>1, <3>2
  <2>2. CASE ~ (k \in Emptied /\ Original[k].nested # <<>>)
    <3>1. Uncovered[k] = <<>>
      BY <1>3, <2>2
    <3>2. <<>> \in Seq(Leaf) /\ Len(<<>>) = 0
      OBVIOUS
    <3> QED BY <2>2, <3>1, <3>2
  <2> QED BY <2>1, <2>2
<1>6. Uncovered \in Seq(Seq(Leaf)) /\ Len(Uncovered) = Len(Original)
  <2> DEFINE s == Uncovered
             n == Len(Original)
  <2>1. s \in [1..n -> Seq(Leaf)]
    <3>1. s = [k \in 1..n |-> s[k]]
      BY <1>3
    <3> HIDE DEF s, n
    <3> QED BY <1>5, <3>1 DEF s, n
  <2> HIDE DEF s
  <2>2. s \in Seq(Seq(Leaf)) /\ Len(s) = n
    BY <1>1, <2>1, FunctionIsSeq
  <2> QED BY <2>2 DEF s
<1>7. FlattenSeq(Uncovered) \in Seq(Leaf)
  <2>1. Len(Uncovered) \in 0..Len(Uncovered)
    BY <1>1, <1>6
  <2> QED BY <1>6, <2>1, UptoStep
<1> QED BY <1>5, <1>6, <1>7

LEMMA UncoveredFrom ==
    ASSUME TypeInv, NEW i \in 1..Len(FlattenSeq(Uncovered))
    PROVE  \E k \in Emptied: FlattenSeq(Uncovered)[i].text = Original[k].nested
<1>1. Uncovered \in Seq(Seq(Leaf)) /\ Len(Uncovered) = Len(Original)
  BY UncoveredTyped
<1>2. PICK k \in 1..Len(Uncovered): \E j \in 1..Len(Uncovered[k]):
         i = Len(Upto(Uncovered, k - 1)) + j /\ FlattenSeq(Uncovered)[i] = Uncovered[k][j]
  BY <1>1, FlattenFrom
<1>3. PICK j \in 1..Len(Uncovered[k]): FlattenSeq(Uncovered)[i] = Uncovered[k][j]
  BY <1>2
<1>4. IF k \in Emptied /\ Original[k].nested # <<>>
      THEN Len(Uncovered[k]) = 1 /\ Uncovered[k][1].text = Original[k].nested
      ELSE Len(Uncovered[k]) = 0
  BY <1>1, UncoveredTyped
<1>5. k \in Emptied /\ j = 1 /\ Uncovered[k][1].text = Original[k].nested
  BY <1>3, <1>4
<1> QED BY <1>3, <1>5

LEMMA UncoveredAll ==
    ASSUME TypeInv, NEW k \in Emptied, Original[k].nested # <<>>
    PROVE  \E i \in 1..Len(FlattenSeq(Uncovered)):
              FlattenSeq(Uncovered)[i].text = Original[k].nested
<1>1. Uncovered \in Seq(Seq(Leaf)) /\ Len(Uncovered) = Len(Original) /\ k \in 1..Len(Original)
  BY UncoveredTyped DEF Emptied
<1>2. Len(Uncovered[k]) = 1 /\ Uncovered[k][1].text = Original[k].nested
  BY <1>1, UncoveredTyped
<1> DEFINE at == Len(Upto(Uncovered, k - 1))
           u == FlattenSeq(Uncovered)
<1>3. /\ at \in Nat /\ at + Len(Uncovered[k]) <= Len(u)
      /\ \A j \in 1..Len(Uncovered[k]): u[at + j] = Uncovered[k][j]
  <2>1. k \in 1..Len(Uncovered)
    BY <1>1
  <2> QED BY <1>1, <2>1, FlattenPlaces
<1>4. Len(u) \in Nat
  BY UncoveredTyped, LenProperties
<1> HIDE DEF at, u
<1>5. at + 1 \in 1..Len(u) /\ u[at + 1] = Uncovered[k][1]
  BY <1>2, <1>3, <1>4
<1> QED BY <1>2, <1>5 DEF u

\* The final texts of what is uncovered, leaf by leaf or as one list.
FinalNested ==
    [i \in 1..Len(Original) |->
        IF i \in Emptied /\ Original[i].nested # <<>> THEN <<Final(Original[i].nested)>> ELSE <<>>]

LEMMA UncoveredTexts ==
    ASSUME TypeInv
    PROVE  LET u == FlattenSeq(Uncovered) IN
           [i \in 1..Len(u) |-> Final(u[i].text)] = FlattenSeq(FinalNested)
<1> DEFINE s == Uncovered
           t == FinalNested
           u == FlattenSeq(s)
           w == FlattenSeq(t)
           N == Len(Original)
<1>1. /\ s \in Seq(Seq(Leaf)) /\ Len(s) = N /\ u \in Seq(Leaf)
      /\ \A k \in 1..N: IF k \in Emptied /\ Original[k].nested # <<>>
                        THEN Len(s[k]) = 1 /\ s[k][1].text = Original[k].nested
                        ELSE Len(s[k]) = 0
  BY UncoveredTyped
<1>2. N \in Nat /\ \A k \in 1..N: Original[k].nested \in Text
  <2>1. N \in Nat /\ \A k \in 1..N: Original[k] \in Leaf
    BY OriginalTyped DEF TypeInv
  <2> QED BY <2>1 DEF Leaf
<1>3. ASSUME NEW k \in 1..N
      PROVE  /\ t[k] \in Seq(Text) /\ Len(t[k]) = Len(s[k])
             /\ \A j \in 1..Len(s[k]): t[k][j] = Final(s[k][j].text)
  <2> DEFINE f == Final(Original[k].nested)
  <2>1. f \in Text
    BY <1>2, FinalText
  <2>2. t[k] = IF k \in Emptied /\ Original[k].nested # <<>> THEN <<f>> ELSE <<>>
    BY DEF FinalNested
  <2>3. IF k \in Emptied /\ Original[k].nested # <<>>
        THEN Len(s[k]) = 1 /\ s[k][1].text = Original[k].nested
        ELSE Len(s[k]) = 0
    BY <1>1
  <2> HIDE DEF t, s
  <2>4. CASE k \in Emptied /\ Original[k].nested # <<>>
    <3>1. f = Final(s[k][1].text)
      BY <2>3, <2>4
    <3>2. t[k] = <<f>> /\ Len(s[k]) = 1
      BY <2>2, <2>3, <2>4
    <3> HIDE DEF f
    <3>3. <<f>> \in Seq(Text) /\ Len(<<f>>) = 1 /\ <<f>>[1] = f
      BY <2>1
    <3>4. \A j \in 1..Len(s[k]): j = 1
      BY <3>2
    <3>5. \A j \in 1..Len(s[k]): t[k][j] = Final(s[k][j].text)
      BY <3>1, <3>2, <3>3, <3>4
    <3> QED BY <3>2, <3>3, <3>5
  <2>5. CASE ~ (k \in Emptied /\ Original[k].nested # <<>>)
    <3>1. t[k] = <<>> /\ Len(s[k]) = 0
      BY <2>2, <2>3, <2>5
    <3>2. <<>> \in Seq(Text) /\ Len(<<>>) = 0 /\ \A j \in 1..Len(s[k]): FALSE
      BY <3>1
    <3> QED BY <3>1, <3>2
  <2> QED BY <2>4, <2>5
<1>4. t \in Seq(Seq(Text)) /\ Len(t) = N
  <2>1. t = [k \in 1..N |-> t[k]]
    BY DEF FinalNested
  <2> HIDE DEF t, N, s
  <2>2. t \in [1..N -> Seq(Text)]
    BY <1>3, <2>1
  <2> QED BY <1>2, <2>2, FunctionIsSeq
<1> HIDE DEF s, t, N
<1>5. \A n \in 0..N: Len(Upto(s, n)) = Len(Upto(t, n))
  <2>1. Len(s) = Len(t) /\ \A k \in 1..Len(s): Len(s[k]) = Len(t[k])
    BY <1>1, <1>3, <1>4
  <2>2. \A n \in 0..Len(s): Len(Upto(s, n)) = Len(Upto(t, n))
    BY <1>1, <1>4, <2>1, FlattenAlike
  <2> QED BY <1>1, <2>2
<1>6. w \in Seq(Text) /\ Len(w) = Len(u) /\ Len(u) \in Nat
  <2>1. N \in 0..N
    BY <1>2
  <2>2. w = Upto(t, N) /\ w \in Seq(Text)
    BY <1>4, <2>1, UptoStep
  <2>3. u = Upto(s, N)
    BY <1>1, UptoStep
  <2> QED BY <1>1, <1>5, <2>1, <2>2, <2>3, LenProperties
<1>7. ASSUME NEW i \in 1..Len(u) PROVE w[i] = Final(u[i].text)
  <2>1. PICK k \in 1..Len(s): \E j \in 1..Len(s[k]):
           i = Len(Upto(s, k - 1)) + j /\ u[i] = s[k][j]
    BY <1>1, FlattenFrom
  <2>2. PICK j \in 1..Len(s[k]): i = Len(Upto(s, k - 1)) + j /\ u[i] = s[k][j]
    BY <2>1
  <2>3. k \in 1..Len(t) /\ k \in 1..N /\ k - 1 \in 0..N /\ j \in 1..Len(t[k])
    BY <1>1, <1>2, <1>3, <1>4, <2>2
  <2>4. \A n \in 1..Len(t[k]): w[Len(Upto(t, k - 1)) + n] = t[k][n]
    BY <1>4, <2>3, FlattenPlaces
  <2>5. w[i] = t[k][j]
    BY <1>5, <2>2, <2>3, <2>4
  <2> QED BY <1>3, <2>2, <2>3, <2>5
<1> HIDE DEF u, w
<1>8. w = [i \in 1..Len(u) |-> w[i]]
  <2>1. w = [i \in 1..Len(w) |-> w[i]]
    BY <1>6
  <2> QED BY <1>6, <2>1
<1>9. [i \in 1..Len(u) |-> Final(u[i].text)] = [i \in 1..Len(u) |-> w[i]]
  BY <1>7
<1>10. [i \in 1..Len(u) |-> Final(u[i].text)] = w
  BY <1>8, <1>9
<1> QED BY <1>10 DEF u, w, s, t

-----------------------------------------------------------------------------
(* What the first pass found, in terms of the rules alone. *)

LEMMA FlatIs ==
    ASSUME TypeInv, FlatInv, flat # <<>>
    PROVE  /\ Len(flat) = Len(Original) /\ Len(Original) \in Nat
           /\ \A i \in 1..Len(Original):
                 /\ Original[i] \in Leaf
                 /\ ~ Blocks(Original[i].text)
                 /\ flat[i].text = Final(Original[i].text)
                 /\ flat[i].changed <=> Final(Original[i].text) # Original[i].text
                 /\ flat[i].changed /\ flat[i].text = <<>> <=> i \in Emptied
<1>1. Len(Original) \in Nat /\ \A i \in 1..Len(Original): Original[i] \in Leaf
  BY OriginalTyped DEF TypeInv
<1>2. /\ Len(flat) = Len(Original)
      /\ \A i \in 1..Len(flat):
            /\ ~ Blocks(Original[i].text)
            /\ flat[i].text = Final(Original[i].text)
            /\ flat[i].changed <=> flat[i].text # Original[i].text
  BY DEF FlatInv
<1>3. \A i \in 1..Len(Original): i \in Emptied <=>
         Original[i].text # <<>> /\ Final(Original[i].text) = <<>>
  BY DEF Emptied
<1> QED BY <1>1, <1>2, <1>3

LEMMA CarrierIs ==
    ASSUME TypeInv, FlatInv, flat # <<>>, NEW k \in 1..Len(items)
    PROVE  LET leaves == items[k].leaves
               texts == [i \in 1..Len(leaves) |-> Final(leaves[i].text)]
           IN  /\ Len(FlattenSeq(texts)) \in Nat
               /\ Len(texts) = Len(leaves) /\ Len(leaves) \in Nat
               /\ items[k] \in Item
               /\ CarrierRejected(items[k], PartOf(k)) <=>
                     /\ items[k].encoded /\ items[k].max > 0
                     /\ \E i \in 1..Len(leaves): Final(leaves[i].text) # leaves[i].text
                     /\ Overhead + Len(FlattenSeq(texts)) > items[k].max
<1> DEFINE leaves == items[k].leaves
           texts == [i \in 1..Len(leaves) |-> Final(leaves[i].text)]
           part == PartOf(k)
<1>1. items[k] \in Item /\ leaves \in Seq(Leaf) /\ Len(leaves) \in Nat
      /\ \A i \in 1..Len(leaves): leaves[i] \in Leaf
  <2>1. items[k] \in Item
    BY ElementOfSeq DEF TypeInv
  <2>2. leaves \in Seq(Leaf)
    BY <2>1 DEF Item
  <2> HIDE DEF leaves
  <2> QED BY <2>1, <2>2, LenProperties, ElementOfSeq
<1>2. PICK start \in Nat:
         /\ start + Len(leaves) <= Len(Original)
         /\ part = [j \in 1..Len(leaves) |-> flat[start + j]]
         /\ \A j \in 1..Len(leaves): Original[start + j] = leaves[j]
  BY FlatIs, PartOfIs DEF TypeInv
<1> HIDE DEF leaves, part
<1>3. Len(part) = Len(leaves)
  BY <1>1, <1>2
<1>4. ASSUME NEW j \in 1..Len(leaves)
      PROVE  /\ part[j].text = Final(leaves[j].text)
             /\ part[j].changed <=> Final(leaves[j].text) # leaves[j].text
             /\ leaves[j].text \in Text
  <2>1. start + j \in 1..Len(Original)
    BY <1>1, <1>2, FlatIs
  <2>2. part[j] = flat[start + j] /\ Original[start + j] = leaves[j]
    BY <1>2
  <2>3. leaves[j].text \in Text
    BY <1>1 DEF Leaf
  <2> QED BY <2>1, <2>2, <2>3, FlatIs
<1>5. [i \in 1..Len(part) |-> part[i].text] = texts
  BY <1>3, <1>4
<1>6. TotalText(part) = Len(FlattenSeq(texts))
  BY <1>5 DEF TotalText
<1>7. Len(texts) = Len(leaves)
  BY <1>1
<1>8. Len(FlattenSeq(texts)) \in Nat
  <2>1. texts \in [1..Len(leaves) -> Text]
    BY <1>4, FinalText
  <2> HIDE DEF texts
  <2>2. texts \in Seq(Seq(Chars)) /\ Len(texts) = Len(leaves)
    BY <1>1, <2>1, FunctionIsSeq DEF Text
  <2>3. Len(texts) \in 0..Len(texts)
    BY <1>1, <2>2
  <2>4. FlattenSeq(texts) \in Seq(Chars)
    BY <2>2, <2>3, UptoStep
  <2> QED BY <2>4, LenProperties
<1>9. (\E i \in 1..Len(part): part[i].changed)
         <=> \E i \in 1..Len(leaves): Final(leaves[i].text) # leaves[i].text
  BY <1>3, <1>4
<1> HIDE DEF texts
<1>10. CarrierRejected(items[k], part) <=>
          /\ items[k].encoded /\ items[k].max > 0
          /\ \E i \in 1..Len(leaves): Final(leaves[i].text) # leaves[i].text
          /\ Overhead + Len(FlattenSeq(texts)) > items[k].max
  BY <1>6, <1>9 DEF CarrierRejected
<1> QED BY <1>1, <1>7, <1>8, <1>10 DEF leaves, texts, part

-----------------------------------------------------------------------------
(* The invariant holds initially and is kept, action by action. *)

LEMMA Kept ==
    ASSUME UNCHANGED <<cfg, items>>
    PROVE  /\ Original' = Original
           /\ \A t: Final(t)' = Final(t)
           /\ \A t: Blocks(t)' <=> Blocks(t)
           /\ Emptied' = Emptied
           /\ Uncovered' = Uncovered
<1>1. Original' = Original
  BY DEF Original
<1>2. ASSUME NEW t PROVE Final(t)' = Final(t)
  BY DEF Final
<1>3. \A t: Blocks(t)' <=> Blocks(t)
  BY DEF Blocks
<1>4. Emptied' = Emptied
  BY <1>1, <1>2 DEF Emptied
<1>5. Uncovered' = Uncovered
  BY <1>1, <1>4 DEF Uncovered
<1> QED BY <1>1, <1>2, <1>3, <1>4, <1>5

LEMMA FreshTyped ==
    ASSUME NEW leaves \in Seq(Leaf)
    PROVE  /\ Fresh(leaves) \in Seq(Working) /\ Len(Fresh(leaves)) = Len(leaves)
           /\ \A i \in 1..Len(leaves): /\ Fresh(leaves)[i].text = leaves[i].text
                                       /\ leaves[i].text \in Text
<1>1. Len(leaves) \in Nat /\ \A i \in 1..Len(leaves): leaves[i] \in Leaf
  BY LenProperties, ElementOfSeq
<1>2. \A i \in 1..Len(leaves): leaves[i].text \in Text
  BY <1>1 DEF Leaf
<1>3. Fresh(leaves) \in [1..Len(leaves) -> Working]
  BY <1>2 DEF Fresh, Working
<1>4. \A i \in 1..Len(leaves): Fresh(leaves)[i].text = leaves[i].text
  BY DEF Fresh
<1> HIDE DEF Fresh
<1>5. Fresh(leaves) \in Seq(Working) /\ Len(Fresh(leaves)) = Len(leaves)
  BY <1>1, <1>3, FunctionIsSeq
<1> QED BY <1>2, <1>4, <1>5

\* The leaves a pass works on, and their spans.
LEMMA SpansTyped ==
    ASSUME TypeInv
    PROVE  /\ Len(sources) \in Nat /\ Len(spans) = Len(sources)
           /\ \A i \in 1..Len(sources): /\ sources[i] \in Leaf /\ sources[i].text \in Text
                                        /\ spans[i] \in Working
<1>1. Len(sources) \in Nat /\ Len(spans) = Len(sources)
      /\ \A i \in 1..Len(sources): sources[i] \in Leaf
  BY LenProperties, ElementOfSeq DEF TypeInv
<1>2. \A i \in 1..Len(sources): spans[i] \in Working
  BY <1>1, ElementOfSeq DEF TypeInv
<1>3. \A i \in 1..Len(sources): sources[i].text \in Text
  BY <1>1 DEF Leaf
<1> QED BY <1>1, <1>2, <1>3

\* The passes end with the final texts, and changed tells which differ.
LEMMA SettledIs ==
    ASSUME TypeInv, PassInv, pc = "rewrite", rule > Len(cfg.rules)
    PROVE  /\ Settled \in Seq(Working) /\ Len(Settled) = Len(sources)
           /\ \A i \in 1..Len(sources):
                 /\ ~ Blocks(sources[i].text)
                 /\ Settled[i].text = Final(sources[i].text)
                 /\ Settled[i].changed <=> Settled[i].text # sources[i].text
<1>1. /\ Len(sources) \in Nat /\ Len(spans) = Len(sources)
      /\ \A i \in 1..Len(sources): spans[i] \in Working /\ sources[i].text \in Text
  BY SpansTyped
<1>2. rule = Len(cfg.rules) + 1
  <2>1. cfg \in Configuration
    BY DEF TypeInv
  <2>2. Len(cfg.rules) \in Nat /\ rule \in (cfg.blockEnd + 1)..(Len(cfg.rules) + 1)
        /\ cfg.blockEnd \in Nat
    BY <2>1, AfterRules DEF PassInv, Configuration
  <2> QED BY <2>2
<1>3. Len(cfg.rules) \in Nat
  BY LenProperties DEF TypeInv, Configuration
<1>4. ASSUME NEW i \in 1..Len(sources)
      PROVE  /\ ~ Blocks(sources[i].text)
             /\ spans[i].text = Final(sources[i].text)
             /\ spans[i].changed <=> ~ RetainOriginal(cfg) /\ spans[i].text # sources[i].text
  <2>1. /\ ~ Blocks(sources[i].text)
        /\ spans[i].text = After(cfg, sources[i].text)[rule - 1]
        /\ spans[i].changed <=> ~ RetainOriginal(cfg) /\ spans[i].text # sources[i].text
    BY DEF PassInv
  <2>2. rule - 1 = Len(cfg.rules)
    BY <1>2, <1>3
  <2> QED BY <2>1, <2>2, FinalIsAfter
<1>5. ASSUME NEW i \in 1..Len(sources)
      PROVE  /\ Settled[i] \in Working /\ Settled[i].text = spans[i].text
             /\ Settled[i].changed <=> spans[i].text # sources[i].text
  <2>1. Settled[i] = IF RetainOriginal(cfg)
                     THEN [spans[i] EXCEPT !.changed = spans[i].text # sources[i].text]
                     ELSE spans[i]
    BY <1>1 DEF Settled
  <2>2. spans[i] \in Working
    BY <1>1
  <2>3. CASE RetainOriginal(cfg)
    <3> DEFINE d == spans[i].text # sources[i].text
    <3>1. d \in BOOLEAN
      OBVIOUS
    <3>2. Settled[i] = [spans[i] EXCEPT !.changed = d]
      BY <2>1, <2>3
    <3> HIDE DEF d
    <3>3. Settled[i] \in Working /\ Settled[i].text = spans[i].text /\ Settled[i].changed = d
      BY <2>2, <3>1, <3>2 DEF Working
    <3> QED BY <3>3 DEF d
  <2>4. CASE ~ RetainOriginal(cfg)
    <3>1. Settled[i] = spans[i]
      BY <2>1, <2>4
    <3> QED BY <1>4, <2>2, <2>4, <3>1
  <2> QED BY <2>3, <2>4
<1>6. Settled \in Seq(Working) /\ Len(Settled) = Len(sources)
  <2>1. Settled = [i \in 1..Len(sources) |-> Settled[i]]
    BY <1>1 DEF Settled
  <2>2. Settled \in [1..Len(sources) -> Working]
    BY <1>5, <2>1
  <2> QED BY <1>1, <2>2, FunctionIsSeq
<1> QED BY <1>4, <1>5, <1>6

LEMMA InitInv == Init => Inv
<1> SUFFICES ASSUME Init PROVE Inv
  OBVIOUS
<1>1. cfg \in Configuration /\ items \in Seq(Item)
  BY TransformAssumption DEF Init
<1>2. sources = Original /\ sources \in Seq(Leaf)
  BY <1>1, OriginalTyped DEF Init, Original
<1>3. spans \in Seq(Working) /\ Len(spans) = Len(sources)
  BY <1>2, FreshTyped DEF Init
<1>4. TypeInv
  <2>1. <<>> \in Seq(Working)
    OBVIOUS
  <2> QED BY <1>1, <1>2, <1>3, <2>1 DEF Init, TypeInv
<1>5. PassInv
  BY <1>2 DEF Init, PassInv
<1>6. FlatInv /\ AnswerInv
  BY DEF Init, FlatInv, AnswerInv
<1> QED BY <1>4, <1>5, <1>6 DEF Inv

\* A block rule found: the answer names the first of them.
LEMMA BlockedStep ==
    ASSUME Inv, Block, BlockMatch(cfg) # NoMatch
    PROVE  Inv'
<1> DEFINE m == BlockMatch(cfg)
<1>1. /\ pc = "block" /\ pc' = "done"
      /\ result' = [kind |-> "blocked", rule |-> m.rule, role |-> sources[m.span].role]
      /\ UNCHANGED <<cfg, items, sources, flat, spans, rule>>
  BY DEF Block
<1>2. /\ Original' = Original /\ (\A t: Final(t)' = Final(t)) /\ (\A t: Blocks(t)' <=> Blocks(t))
      /\ Emptied' = Emptied /\ Uncovered' = Uncovered
  BY <1>1, Kept
<1>3. /\ Len(sources) \in Nat /\ Len(spans) = Len(sources) /\ cfg \in Configuration
      /\ cfg.blockEnd \in Nat
  BY SpansTyped DEF Inv, TypeInv, Configuration
<1>4. spans = Fresh(sources) /\ \A i \in 1..Len(sources): spans[i].text = sources[i].text
  BY <1>1, FreshTyped DEF Inv, TypeInv, PassInv
<1>5. FirstIn(cfg, m, 1, cfg.blockEnd, Len(spans))
  BY <1>3, BlockMatchFirst
<1> HIDE DEF m
<1>6. /\ m.rule \in 1..cfg.blockEnd /\ m.span \in 1..Len(sources)
      /\ Occurs(cfg, sources[m.span].text, cfg.rules[m.rule])
      /\ \A j \in 1..Len(sources), r \in 1..m.rule:
            Occurs(cfg, sources[j].text, cfg.rules[r]) => r = m.rule /\ j >= m.span
  <2>1. m # NoMatch
    BY DEF m
  <2>2. /\ m.rule \in 1..cfg.blockEnd /\ m.span \in 1..Len(sources)
        /\ Occurs(cfg, spans[m.span].text, cfg.rules[m.rule])
        /\ \A j \in 1..Len(sources), r \in 1..m.rule:
              Occurs(cfg, spans[j].text, cfg.rules[r]) => r = m.rule /\ j >= m.span
    BY <1>3, <1>5, <2>1 DEF FirstIn
  <2> QED BY <1>4, <2>2
<1>7. Blocks(sources[m.span].text)
  BY <1>6 DEF Blocks
<1>8. TypeInv' /\ PassInv'
  BY <1>1 DEF Inv, TypeInv, PassInv
<1>9. FlatInv'
  BY <1>1, <1>2 DEF Inv, FlatInv
<1>10. result'.kind = "blocked" /\ result'.rule = m.rule /\ result'.role = sources[m.span].role
  BY <1>1
<1>11. CASE flat = <<>>
  <2>1. sources = Original
    BY <1>1, <1>11 DEF Inv, PassInv
  <2>2. BlockIsFirst'
    <3>1. /\ result'.role = Original[m.span].role
          /\ Occurs(cfg, Original[m.span].text, cfg.rules[result'.rule])
          /\ \A j \in 1..Len(Original), r \in 1..result'.rule:
                Occurs(cfg, Original[j].text, cfg.rules[r]) => r = result'.rule /\ j >= m.span
      BY <1>6, <1>10, <2>1
    <3>2. m.span \in 1..Len(Original) /\ cfg' = cfg
      BY <1>1, <1>6, <2>1
    <3> QED BY <1>2, <1>10, <3>1, <3>2 DEF BlockIsFirst
  <2>3. ForwardedIsFiltered'
    <3>1. m.span \in 1..Len(Original) /\ Blocks(Original[m.span].text)
      BY <1>6, <1>7, <2>1
    <3> QED BY <1>2, <1>10, <3>1 DEF ForwardedIsFiltered
  <2>4. RefusalHasCause'
    <3>1. \E i \in 1..Len(Original): Blocks(Original[i].text)
      BY <1>6, <1>7, <2>1
    <3> QED BY <1>2, <1>10, <3>1 DEF RefusalHasCause
  <2>5. ForwardedIsValid'
    BY <1>10 DEF ForwardedIsValid
  <2> QED BY <1>1, <1>8, <1>9, <2>2, <2>3, <2>4, <2>5 DEF Inv, AnswerInv
<1>12. CASE flat # <<>>
  <2>1. /\ Len(flat) = Len(Original)
        /\ \A i \in 1..Len(Original):
              /\ ~ Blocks(Original[i].text)
              /\ flat[i].changed <=> Final(Original[i].text) # Original[i].text
    BY <1>12, FlatIs DEF Inv
  <2>2. sources = FlattenSeq(Uncovered) /\ \E i \in 1..Len(flat): flat[i].changed
    BY <1>12 DEF Inv, FlatInv
  <2>3. BlockIsFirst'
    BY <1>2, <2>1 DEF BlockIsFirst
  <2>4. ForwardedIsFiltered'
    <3>1. \E i \in 1..Len(Original): Final(Original[i].text) # Original[i].text
      BY <2>1, <2>2
    <3> QED BY <1>2, <1>10, <3>1 DEF ForwardedIsFiltered
  <2>5. RefusalHasCause'
    <3>1. \E i \in Emptied: Blocks(Original[i].nested)
      <4>1. PICK k \in Emptied: sources[m.span].text = Original[k].nested
        BY <1>6, <2>2, UncoveredFrom DEF Inv
      <4> QED BY <1>7, <4>1
    <3> QED BY <1>2, <1>10, <3>1 DEF RefusalHasCause
  <2>6. ForwardedIsValid'
    BY <1>10 DEF ForwardedIsValid
  <2> QED BY <1>1, <1>8, <1>9, <2>3, <2>4, <2>5, <2>6 DEF Inv, AnswerInv
<1> QED BY <1>11, <1>12

\* No block rule found: the rewrite rules start, without the texts they spare.
LEMMA UnblockedStep ==
    ASSUME Inv, Block, BlockMatch(cfg) = NoMatch
    PROVE  Inv'
<1>1. /\ pc = "block" /\ pc' = "rewrite" /\ rule' = cfg.blockEnd + 1
      /\ spans' = [i \in 1..Len(spans) |-> [spans[i] EXCEPT !.changed = FALSE,
                                               !.skip = Preflight(cfg, spans[i].text)]]
      /\ UNCHANGED <<cfg, items, sources, flat, result>>
  BY DEF Block
<1>2. /\ Original' = Original /\ (\A t: Final(t)' = Final(t)) /\ (\A t: Blocks(t)' <=> Blocks(t))
      /\ Emptied' = Emptied /\ Uncovered' = Uncovered
  BY <1>1, Kept
<1>3. /\ Len(sources) \in Nat /\ Len(spans) = Len(sources) /\ cfg \in Configuration
      /\ \A i \in 1..Len(sources): spans[i] \in Working /\ sources[i].text \in Text
  BY SpansTyped DEF Inv, TypeInv
<1>4. \A i \in 1..Len(sources): spans[i].text = sources[i].text
  BY <1>1, FreshTyped DEF Inv, TypeInv, PassInv
<1>5. FirstIn(cfg, NoMatch, 1, cfg.blockEnd, Len(spans))
  BY <1>3, BlockMatchFirst
<1>6. \A i \in 1..Len(sources): ~ Blocks(sources[i].text)
  <2>1. \A j \in 1..Len(sources), r \in 1..cfg.blockEnd:
           ~ Occurs(cfg, spans[j].text, cfg.rules[r])
    BY <1>3, <1>5 DEF FirstIn
  <2> QED BY <1>4, <2>1 DEF Blocks
<1>7. /\ cfg.blockEnd \in Nat /\ Len(cfg.rules) \in Nat /\ cfg.blockEnd <= Len(cfg.rules)
      /\ \A t \in Text: After(cfg, t)[cfg.blockEnd] = t
  <2>1. cfg.blockEnd \in Nat /\ Len(cfg.rules) \in Nat /\ cfg.blockEnd <= Len(cfg.rules)
    BY <1>3, LenProperties DEF Configuration
  <2>2. \A t \in Text: After(cfg, t)[cfg.blockEnd] = t
    BY <1>3, AfterRules
  <2> QED BY <2>1, <2>2
<1>8. ASSUME NEW i \in 1..Len(sources)
      PROVE  /\ spans'[i] \in Working /\ spans'[i].text = sources[i].text
             /\ ~ spans'[i].changed
             /\ spans'[i].skip => \A r \in (cfg.blockEnd + 1)..Len(cfg.rules):
                                     ~ Occurs(cfg, sources[i].text, cfg.rules[r])
  <2> DEFINE s == Preflight(cfg, spans[i].text)
  <2>1. s \in BOOLEAN
    BY DEF Preflight
  <2>2. s => \A r \in (cfg.blockEnd + 1)..Len(cfg.rules):
                ~ Occurs(cfg, sources[i].text, cfg.rules[r])
    BY <1>4 DEF Preflight
  <2>3. spans'[i] = [spans[i] EXCEPT !.changed = FALSE, !.skip = s]
    BY <1>1, <1>3
  <2> HIDE DEF s
  <2>4. /\ spans'[i] \in Working /\ spans'[i].text = spans[i].text
        /\ spans'[i].changed = FALSE /\ spans'[i].skip = s
    BY <1>3, <2>1, <2>3 DEF Working
  <2> QED BY <1>4, <2>2, <2>4
<1>9. spans' \in Seq(Working) /\ Len(spans') = Len(sources)
  <2>1. spans' = [i \in 1..Len(sources) |-> spans'[i]]
    BY <1>1, <1>3
  <2>2. spans' \in [1..Len(sources) -> Working]
    BY <1>8, <2>1
  <2> QED BY <1>3, <2>2, FunctionIsSeq
<1>10. TypeInv'
  <2>1. cfg.blockEnd + 1 \in Nat
    BY <1>7
  <2> QED BY <1>1, <1>9, <2>1 DEF Inv, TypeInv
<1>11. PassInv'
  <2>1. rule' \in (cfg.blockEnd + 1)..(Len(cfg.rules) + 1) /\ rule' - 1 = cfg.blockEnd
    <3>1. rule' = cfg.blockEnd + 1
      BY <1>1
    <3> QED BY <1>7, <3>1
  <2>2. ASSUME NEW i \in 1..Len(sources)
        PROVE  /\ ~ Blocks(sources[i].text)
               /\ spans'[i].text = After(cfg, sources[i].text)[rule' - 1]
               /\ spans'[i].skip => \A r \in (cfg.blockEnd + 1)..Len(cfg.rules):
                                       ~ Occurs(cfg, sources[i].text, cfg.rules[r])
               /\ spans'[i].changed <=> /\ ~ RetainOriginal(cfg)
                                        /\ spans'[i].text # sources[i].text
    <3>1. After(cfg, sources[i].text)[rule' - 1] = sources[i].text
      BY <1>3, <1>7, <2>1
    <3> QED BY <1>6, <1>8, <3>1
  <2>3. flat' = <<>> => sources' = Original'
    BY <1>1, <1>2 DEF Inv, PassInv
  <2>4. cfg' = cfg /\ sources' = sources /\ pc' = "rewrite"
    BY <1>1
  <2> QED BY <1>2, <2>1, <2>2, <2>3, <2>4 DEF PassInv
<1>12. FlatInv'
  BY <1>1, <1>2 DEF Inv, FlatInv
<1>13. AnswerInv'
  BY <1>1 DEF Inv, AnswerInv
<1> QED BY <1>10, <1>11, <1>12, <1>13 DEF Inv

\* One rule over one leaf: skipping it, finding nothing and rewriting agree with
\* the rules applied in order.
LEMMA RewriteSpanIs ==
    ASSUME NEW c \in Configuration, NEW text \in Text, NEW s \in Working,
           NEW r \in (c.blockEnd + 1)..Len(c.rules),
           s.text = After(c, text)[r - 1],
           s.skip => \A q \in (c.blockEnd + 1)..Len(c.rules): ~ Occurs(c, text, c.rules[q]),
           s.changed <=> ~ RetainOriginal(c) /\ s.text # text
    PROVE  LET t == RewriteSpan(c, r, s) IN
           /\ t \in Working /\ t.skip = s.skip
           /\ t.text = After(c, text)[r]
           /\ t.changed <=> ~ RetainOriginal(c) /\ t.text # text
<1> DEFINE t == RewriteSpan(c, r, s)
<1>1. /\ c.blockEnd \in Nat /\ Len(c.rules) \in Nat
      /\ After(c, text)[r] = Rewritten(c, After(c, text)[r - 1], r)
      /\ After(c, text)[r - 1] \in Text
  <2>1. c.blockEnd \in Nat /\ Len(c.rules) \in Nat
    BY AfterRules
  <2>2. r - 1 \in c.blockEnd..Len(c.rules)
    BY <2>1
  <2> QED BY <2>1, <2>2, AfterRules
<1>2. r \in c.blockEnd..Len(c.rules) /\ r - 1 \in c.blockEnd..Len(c.rules) /\ r \in 1..Len(c.rules)
  BY <1>1
<1>3. CASE s.skip
  <2>1. t = s
    BY <1>3 DEF RewriteSpan
  <2>2. After(c, text)[r] = text /\ After(c, text)[r - 1] = text
    BY <1>2, <1>3, AfterAlone
  <2> QED BY <2>1, <2>2
<1>4. CASE ~ s.skip /\ ~ Occurs(c, s.text, c.rules[r])
  <2>1. t = s
    BY <1>4 DEF RewriteSpan
  <2>2. Rewritten(c, s.text, r) = s.text
    BY <1>1, <1>2, <1>4, RewrittenText
  <2> QED BY <1>1, <2>1, <2>2
<1>5. CASE ~ s.skip /\ Occurs(c, s.text, c.rules[r])
  <2> DEFINE w == Rewritten(c, s.text, r)
             d == s.changed \/ ~ RetainOriginal(c)
  <2>1. t = [s EXCEPT !.text = w, !.changed = d]
    BY <1>5 DEF RewriteSpan
  <2>2. w = After(c, text)[r] /\ w \in Text
    BY <1>1, <1>2, RewrittenText
  <2>3. d \in BOOLEAN
    BY DEF Working
  <2> HIDE DEF w, d
  <2>4. t \in Working /\ t.skip = s.skip /\ t.text = w /\ t.changed = d
    BY <2>1, <2>2, <2>3 DEF Working
  <2>5. CASE RetainOriginal(c)
    <3>1. ~ d
      BY <2>5 DEF d
    <3> QED BY <2>2, <2>4, <2>5, <3>1
  <2>6. CASE ~ RetainOriginal(c)
    <3>1. d
      BY <2>6 DEF d
    <3>2. w # text
      BY <1>5, <2>2, <2>6, AfterOneKind
    <3> QED BY <2>2, <2>4, <2>6, <3>1, <3>2
  <2> QED BY <2>5, <2>6
<1> QED BY <1>3, <1>4, <1>5

LEMMA RewriteStep == ASSUME Inv, RewriteRule PROVE Inv'
<1>1. /\ pc = "rewrite" /\ rule <= Len(cfg.rules) /\ rule' = rule + 1
      /\ spans' = [i \in 1..Len(spans) |-> RewriteSpan(cfg, rule, spans[i])]
      /\ UNCHANGED <<cfg, items, pc, sources, flat, result>>
  BY DEF RewriteRule
<1>2. /\ Original' = Original /\ (\A t: Final(t)' = Final(t)) /\ (\A t: Blocks(t)' <=> Blocks(t))
      /\ Emptied' = Emptied /\ Uncovered' = Uncovered
  BY <1>1, Kept
<1>3. /\ Len(sources) \in Nat /\ Len(spans) = Len(sources) /\ cfg \in Configuration
      /\ \A i \in 1..Len(sources): spans[i] \in Working /\ sources[i].text \in Text
  BY SpansTyped DEF Inv, TypeInv
<1>4. cfg.blockEnd \in Nat /\ Len(cfg.rules) \in Nat
  BY <1>3, LenProperties DEF Configuration
<1>5. rule \in (cfg.blockEnd + 1)..Len(cfg.rules)
      /\ rule' \in (cfg.blockEnd + 1)..(Len(cfg.rules) + 1) /\ rule' - 1 = rule
  <2>1. rule \in (cfg.blockEnd + 1)..(Len(cfg.rules) + 1) /\ rule' = rule + 1
        /\ rule <= Len(cfg.rules)
    BY <1>1 DEF Inv, PassInv
  <2> QED BY <1>4, <2>1
<1>6. ASSUME NEW i \in 1..Len(sources)
      PROVE  /\ spans'[i] \in Working
             /\ ~ Blocks(sources[i].text)
             /\ spans'[i].text = After(cfg, sources[i].text)[rule]
             /\ spans'[i].skip => \A r \in (cfg.blockEnd + 1)..Len(cfg.rules):
                                     ~ Occurs(cfg, sources[i].text, cfg.rules[r])
             /\ spans'[i].changed <=> ~ RetainOriginal(cfg) /\ spans'[i].text # sources[i].text
  <2>1. spans'[i] = RewriteSpan(cfg, rule, spans[i])
    BY <1>1, <1>3
  <2>2. /\ ~ Blocks(sources[i].text)
        /\ spans[i].text = After(cfg, sources[i].text)[rule - 1]
        /\ spans[i].skip => \A r \in (cfg.blockEnd + 1)..Len(cfg.rules):
                               ~ Occurs(cfg, sources[i].text, cfg.rules[r])
        /\ spans[i].changed <=> ~ RetainOriginal(cfg) /\ spans[i].text # sources[i].text
    BY <1>1 DEF Inv, PassInv
  <2>3. spans[i] \in Working /\ sources[i].text \in Text
    BY <1>3
  <2>4. /\ spans'[i] \in Working /\ spans'[i].skip = spans[i].skip
        /\ spans'[i].text = After(cfg, sources[i].text)[rule]
        /\ spans'[i].changed <=> ~ RetainOriginal(cfg) /\ spans'[i].text # sources[i].text
    BY <1>3, <1>5, <2>1, <2>2, <2>3, RewriteSpanIs
  <2> QED BY <2>2, <2>4
<1>7. spans' \in Seq(Working) /\ Len(spans') = Len(sources)
  <2>1. spans' = [i \in 1..Len(sources) |-> spans'[i]]
    BY <1>1, <1>3
  <2>2. spans' \in [1..Len(sources) -> Working]
    BY <1>6, <2>1
  <2> QED BY <1>3, <2>2, FunctionIsSeq
<1>8. TypeInv'
  <2>1. rule' \in Nat
    BY <1>1 DEF Inv, TypeInv
  <2> QED BY <1>1, <1>7, <2>1 DEF Inv, TypeInv
<1>9. PassInv'
  <2>1. cfg' = cfg /\ sources' = sources /\ pc' = "rewrite"
    BY <1>1
  <2>2. flat' = <<>> => sources' = Original'
    BY <1>1, <1>2 DEF Inv, PassInv
  <2> QED BY <1>2, <1>5, <1>6, <2>1, <2>2 DEF PassInv
<1>10. FlatInv'
  BY <1>1, <1>2 DEF Inv, FlatInv
<1>11. AnswerInv'
  BY <1>1 DEF Inv, AnswerInv
<1> QED BY <1>8, <1>9, <1>10, <1>11 DEF Inv

LEMMA SecondPassStep == ASSUME Inv, SecondPassDone PROVE Inv'
<1>1. /\ pc = "rewrite" /\ rule > Len(cfg.rules) /\ flat # <<>>
      /\ spans' = Settled /\ pc' = "finish"
      /\ UNCHANGED <<cfg, items, sources, rule, flat, result>>
  BY DEF SecondPassDone
<1>2. /\ Original' = Original /\ (\A t: Final(t)' = Final(t)) /\ (\A t: Blocks(t)' <=> Blocks(t))
      /\ Emptied' = Emptied /\ Uncovered' = Uncovered
  BY <1>1, Kept
<1>3. /\ spans' \in Seq(Working) /\ Len(spans') = Len(sources)
      /\ \A i \in 1..Len(sources): /\ ~ Blocks(sources[i].text)
                                   /\ spans'[i].text = Final(sources[i].text)
  BY <1>1, SettledIs DEF Inv
<1>4. TypeInv'
  BY <1>1, <1>3 DEF Inv, TypeInv
<1>5. PassInv'
  BY <1>1 DEF PassInv
<1>6. FlatInv'
  BY <1>1, <1>2 DEF Inv, FlatInv
<1>7. AnswerInv'
  <2>1. result' = Pending /\ pc' = "finish" /\ flat' # <<>> /\ sources' = sources
    BY <1>1 DEF Inv, AnswerInv
  <2> QED BY <1>2, <1>3, <2>1 DEF AnswerInv
<1> QED BY <1>4, <1>5, <1>6, <1>7 DEF Inv

\* The leaves the first pass activates are the ones its rules uncovered.
LEMMA ActivatedIs ==
    ASSUME TypeInv, sources = Original, Len(Settled) = Len(sources),
           \A i \in 1..Len(sources):
              /\ Settled[i].text = Final(sources[i].text)
              /\ Settled[i].changed <=> Settled[i].text # sources[i].text
    PROVE  Activated(Settled) = FlattenSeq(Uncovered)
<1> DEFINE n == Len(Original)
           Below(i) == <<[Original[i] EXCEPT !.text = Original[i].nested, !.nested = <<>>]>>
           a == [i \in 1..Len(Settled) |->
                   IF Settled[i].changed /\ Settled[i].text = <<>> /\ sources[i].nested # <<>>
                   THEN <<[sources[i] EXCEPT !.text = sources[i].nested, !.nested = <<>>]>>
                   ELSE <<>>]
<1>1. Activated(Settled) = FlattenSeq(a)
  BY DEF Activated
<1>2. \A i \in 1..n: Settled[i].changed /\ Settled[i].text = <<>> <=> i \in Emptied
  BY DEF Emptied
<1>3. a = [i \in 1..n |-> IF Settled[i].changed /\ Settled[i].text = <<>> /\ Original[i].nested # <<>>
                          THEN Below(i) ELSE <<>>]
  OBVIOUS
<1>4. Uncovered = [i \in 1..n |-> IF i \in Emptied /\ Original[i].nested # <<>>
                                  THEN Below(i) ELSE <<>>]
  BY DEF Uncovered
<1> HIDE DEF a, Below
<1>5. a = Uncovered
  BY <1>2, <1>3, <1>4
<1> QED BY <1>1, <1>5

LEMMA FirstPassStep == ASSUME Inv, FirstPassDone PROVE Inv'
<1>1. pc = "rewrite" /\ rule > Len(cfg.rules) /\ flat = <<>> /\ UNCHANGED <<cfg, items, rule>>
  BY DEF FirstPassDone
<1>2. /\ Original' = Original /\ (\A t: Final(t)' = Final(t)) /\ (\A t: Blocks(t)' <=> Blocks(t))
      /\ Emptied' = Emptied /\ Uncovered' = Uncovered
  BY <1>1, Kept
<1>3. sources = Original
  BY <1>1 DEF Inv, PassInv
<1>4. /\ Settled \in Seq(Working) /\ Len(Settled) = Len(Original) /\ Len(spans) = Len(Original)
      /\ \A i \in 1..Len(Original):
            /\ ~ Blocks(Original[i].text)
            /\ Settled[i].text = Final(Original[i].text)
            /\ Settled[i].changed <=> Settled[i].text # Original[i].text
  BY <1>1, <1>3, SettledIs, SpansTyped DEF Inv
<1>5. CASE \A i \in 1..Len(spans): ~ Settled[i].changed
  <2>1. result' = [kind |-> "noop"] /\ pc' = "done" /\ UNCHANGED <<spans, sources, flat>>
    BY <1>5 DEF FirstPassDone
  <2>2. TypeInv' /\ PassInv'
    BY <1>1, <2>1 DEF Inv, TypeInv, PassInv
  <2>3. FlatInv'
    BY <1>1, <2>1 DEF FlatInv
  <2>4. BlockIsFirst'
    BY <1>2, <1>4 DEF BlockIsFirst
  <2>5. result'.kind = "noop"
    BY <2>1
  <2>6. ForwardedIsFiltered'
    <3>1. \A i \in 1..Len(Original): ~ Blocks(Original[i].text)
                                     /\ Final(Original[i].text) = Original[i].text
      BY <1>4, <1>5
    <3> QED BY <1>2, <2>5, <3>1 DEF ForwardedIsFiltered
  <2>7. ForwardedIsValid' /\ RefusalHasCause'
    BY <2>5 DEF ForwardedIsValid, RefusalHasCause
  <2>8. AnswerInv'
    BY <2>1, <2>4, <2>6, <2>7 DEF AnswerInv
  <2> QED BY <2>2, <2>3, <2>8 DEF Inv
<1>6. CASE \E i \in 1..Len(spans): Settled[i].changed
  <2>1. /\ flat' = Settled /\ sources' = Activated(Settled) /\ spans' = Fresh(sources')
        /\ pc' = (IF sources' = <<>> THEN "finish" ELSE "block")
        /\ result' = result
    BY <1>6 DEF FirstPassDone
  <2>2. sources' = FlattenSeq(Uncovered) /\ sources' \in Seq(Leaf)
    BY <1>3, <1>4, <2>1, ActivatedIs, UncoveredTyped DEF Inv
  <2>3. spans' \in Seq(Working) /\ Len(spans') = Len(sources')
    BY <2>1, <2>2, FreshTyped
  <2>4. TypeInv'
    BY <1>1, <1>4, <2>1, <2>2, <2>3 DEF Inv, TypeInv
  <2>5. flat' # <<>>
    <3>1. PICK i \in 1..Len(Settled): TRUE
      BY <1>4, <1>6
    <3>2. Len(Settled) # 0
      BY <1>4, <3>1
    <3> QED BY <2>1, <3>2
  <2>6. PassInv'
    BY <2>1, <2>5 DEF PassInv
  <2>7. FlatInv'
    <3>1. \E i \in 1..Len(Settled): Settled[i].changed
      BY <1>4, <1>6
    <3> QED BY <1>2, <1>4, <2>1, <2>2, <3>1 DEF FlatInv
  <2>8. AnswerInv'
    <3>1. result' = Pending /\ pc' \in {"finish", "block"}
      BY <1>1, <2>1 DEF Inv, AnswerInv
    <3>2. pc' = "finish" => Len(sources') = 0
      BY <2>1
    <3> QED BY <2>5, <3>1, <3>2 DEF AnswerInv
  <2> QED BY <2>4, <2>6, <2>7, <2>8 DEF Inv
<1> QED BY <1>5, <1>6

\* The constraints of one leaf, in terms of the rules alone.
Broken(leaf) ==
    /\ Final(leaf.text) # leaf.text
    /\ \/ leaf.signed
       \/ leaf.nonEmpty /\ Final(leaf.text) = <<>>
       \/ leaf.max > 0 /\ Len(Final(leaf.text)) > leaf.max

\* Those of a carrier.
Overfull(item) ==
    /\ item.encoded /\ item.max > 0
    /\ \E i \in 1..Len(item.leaves): Final(item.leaves[i].text) # item.leaves[i].text
    /\ Overhead + Len(FlattenSeq([i \in 1..Len(item.leaves) |-> Final(item.leaves[i].text)]))
         > item.max

LEMMA RejectedIs ==
    ASSUME TypeInv, FlatInv, flat # <<>>
    PROVE  (BadNested \/ AnyRejected) <=>
              \/ \E i \in Emptied: Original[i].badNested
              \/ \E i \in 1..Len(Original): Broken(Original[i])
              \/ \E k \in 1..Len(items): Overfull(items[k])
<1>1. /\ Len(flat) = Len(Original)
      /\ \A i \in 1..Len(Original):
            /\ flat[i].text = Final(Original[i].text)
            /\ flat[i].changed <=> Final(Original[i].text) # Original[i].text
            /\ flat[i].changed /\ flat[i].text = <<>> <=> i \in Emptied
  BY FlatIs
<1>2. FlatLeaves(items) = Original
  BY DEF Original
<1>3. BadNested <=> \E i \in Emptied: Original[i].badNested
  <2>1. \A i \in Emptied: i \in 1..Len(Original)
    BY DEF Emptied
  <2>2. BadNested <=> \E i \in 1..Len(Original): i \in Emptied /\ Original[i].badNested
    BY <1>1, <1>2 DEF BadNested
  <2> QED BY <2>1, <2>2
<1>4. \A i \in 1..Len(Original): LeafRejected(Original[i], flat[i]) <=> Broken(Original[i])
  BY <1>1 DEF LeafRejected, Broken
<1>5. \A k \in 1..Len(items): CarrierRejected(items[k], PartOf(k)) <=> Overfull(items[k])
  BY CarrierIs DEF Overfull
<1>6. AnyRejected <=> \/ \E i \in 1..Len(Original): Broken(Original[i])
                      \/ \E k \in 1..Len(items): Overfull(items[k])
  BY <1>1, <1>2, <1>4, <1>5 DEF AnyRejected
<1> QED BY <1>3, <1>6

LEMMA FinishStep == ASSUME Inv, Finish PROVE Inv'
<1>1. /\ pc = "finish" /\ pc' = "done"
      /\ result' = IF BadNested \/ AnyRejected THEN [kind |-> "invalid"]
                   ELSE [kind |-> "body",
                         texts |-> [i \in 1..Len(flat) |-> flat[i].text],
                         nested |-> [i \in 1..Len(spans) |-> spans[i].text]]
      /\ UNCHANGED <<cfg, items, spans, sources, rule, flat>>
  BY DEF Finish
<1>2. /\ Original' = Original /\ (\A t: Final(t)' = Final(t)) /\ (\A t: Blocks(t)' <=> Blocks(t))
      /\ Emptied' = Emptied /\ Uncovered' = Uncovered
  BY <1>1, Kept
<1>3. TypeInv /\ FlatInv /\ flat # <<>>
  BY <1>1 DEF Inv, AnswerInv
<1>4. /\ Len(flat) = Len(Original) /\ Len(Original) \in Nat
      /\ \A i \in 1..Len(Original):
            /\ Original[i] \in Leaf
            /\ ~ Blocks(Original[i].text)
            /\ flat[i].text = Final(Original[i].text)
            /\ flat[i].changed <=> Final(Original[i].text) # Original[i].text
  BY <1>3, FlatIs
<1>5. \E i \in 1..Len(Original): Final(Original[i].text) # Original[i].text
  BY <1>3, <1>4 DEF FlatInv
<1>6. (BadNested \/ AnyRejected) <=>
         \/ \E i \in Emptied: Original[i].badNested
         \/ \E i \in 1..Len(Original): Broken(Original[i])
         \/ \E k \in 1..Len(items): Overfull(items[k])
  BY <1>3, RejectedIs
<1>7. TypeInv' /\ PassInv'
  BY <1>1 DEF Inv, TypeInv, PassInv
<1>8. FlatInv'
  BY <1>1, <1>2 DEF Inv, FlatInv
<1>9. BlockIsFirst'
  BY <1>2, <1>4 DEF BlockIsFirst
<1>10. CASE BadNested \/ AnyRejected
  <2>1. result'.kind = "invalid"
    BY <1>1, <1>10
  <2>2. ForwardedIsFiltered'
    BY <1>2, <1>5, <2>1 DEF ForwardedIsFiltered
  <2>3. ForwardedIsValid'
    BY <2>1 DEF ForwardedIsValid
  <2>4. RefusalHasCause'
    <3>1. CASE \E i \in Emptied: Original[i].badNested
      BY <1>2, <2>1, <3>1 DEF RefusalHasCause
    <3>2. CASE \E i \in 1..Len(Original): Broken(Original[i])
      BY <1>2, <2>1, <3>2 DEF RefusalHasCause, Broken
    <3>3. CASE \E k \in 1..Len(items): Overfull(items[k])
      <4>1. PICK k \in 1..Len(items): Overfull(items[k])
        BY <3>3
      <4> DEFINE leaves == items[k].leaves
                 n == Len(FlattenSeq([i \in 1..Len(leaves) |-> Final(leaves[i].text)]))
      <4>2. n \in Nat /\ items[k].max \in Nat /\ Overhead \in Nat
        BY <1>3, CarrierIs, TransformAssumption DEF Item
      <4>3. items[k].encoded /\ (\E i \in 1..Len(leaves): Final(leaves[i].text) # leaves[i].text)
            /\ Overhead + n > items[k].max
        BY <4>1 DEF Overfull
      <4> DEFINE q == [i \in 1..Len(leaves) |-> Final(leaves[i].text)]
      <4>4. items' = items /\ [i \in 1..Len(leaves) |-> Final(leaves[i].text)'] = q
        BY <1>1, <1>2
      <4>5. items[k].max < Overhead + n
        <5> HIDE DEF n
        <5> QED BY <4>2, <4>3
      <4> QED BY <1>2, <2>1, <4>3, <4>4, <4>5 DEF RefusalHasCause
    <3> QED BY <1>6, <1>10, <3>1, <3>2, <3>3
  <2> QED BY <1>1, <1>7, <1>8, <1>9, <2>2, <2>3, <2>4 DEF Inv, AnswerInv
<1>11. CASE ~ (BadNested \/ AnyRejected)
  <2>1. /\ result'.kind = "body"
        /\ result'.texts = [i \in 1..Len(flat) |-> flat[i].text]
        /\ result'.nested = [i \in 1..Len(spans) |-> spans[i].text]
    BY <1>1, <1>11
  <2>2. \A i \in 1..Len(Original): result'.texts[i] = Final(Original[i].text)
    BY <1>4, <2>1
  <2>3. sources = FlattenSeq(Uncovered) /\ Len(spans) = Len(sources)
        /\ \A i \in 1..Len(sources): ~ Blocks(sources[i].text)
                                     /\ spans[i].text = Final(sources[i].text)
    BY <1>1, <1>3, SpansTyped DEF Inv, FlatInv, AnswerInv
  <2>4. result'.nested = FlattenSeq(FinalNested)
    <3>1. result'.nested = [i \in 1..Len(sources) |-> Final(sources[i].text)]
      BY <2>1, <2>3
    <3>2. [i \in 1..Len(sources) |-> Final(sources[i].text)] = FlattenSeq(FinalNested)
      BY <1>3, <2>3, UncoveredTexts
    <3> QED BY <3>1, <3>2
  <2>5. ASSUME NEW i \in Emptied PROVE ~ Original[i].badNested /\ ~ Blocks(Original[i].nested)
    <3>1. ~ Original[i].badNested
      BY <1>6, <1>11
    <3>2. CASE Original[i].nested = <<>>
      BY <3>1, <3>2, EmptyHoldsNothing
    <3>3. CASE Original[i].nested # <<>>
      <4>1. PICK j \in 1..Len(FlattenSeq(Uncovered)):
               FlattenSeq(Uncovered)[j].text = Original[i].nested
        BY <1>3, <3>3, UncoveredAll
      <4>2. ~ Blocks(sources[j].text)
        BY <2>3
      <4> QED BY <2>3, <3>1, <4>1, <4>2
    <3> QED BY <3>2, <3>3
  <2>6. ForwardedIsFiltered'
    <3>1. FinalNested = [i \in 1..Len(Original) |->
             IF i \in Emptied /\ Original[i].nested # <<>>
             THEN <<Final(Original[i].nested)'>> ELSE <<>>]
      BY <1>2 DEF FinalNested
    <3> QED BY <1>2, <1>4, <1>5, <2>1, <2>2, <2>4, <2>5, <3>1 DEF ForwardedIsFiltered
  <2>7. ASSUME NEW i \in 1..Len(Original), Final(Original[i].text) # Original[i].text
        PROVE  /\ ~ Original[i].signed
               /\ Original[i].nonEmpty => Final(Original[i].text) # <<>>
               /\ Original[i].max > 0 => Len(Final(Original[i].text)) <= Original[i].max
    <3>1. ~ Broken(Original[i])
      BY <1>6, <1>11
    <3>2. Original[i].text \in Text /\ Original[i].max \in Nat
      BY <1>4 DEF Leaf
    <3>3. Len(Final(Original[i].text)) \in Nat
      BY <1>3, <3>2, FinalText
    <3> QED BY <2>7, <3>1, <3>2, <3>3 DEF Broken
  <2>8. ASSUME NEW k \in 1..Len(items), items[k].encoded, items[k].max > 0
        PROVE  LET texts == [i \in 1..Len(items[k].leaves) |-> Final(items[k].leaves[i].text)]
               IN  /\ Len(texts) = Len(items[k].leaves)
                   /\ \/ \A i \in 1..Len(texts): texts[i] = items[k].leaves[i].text
                      \/ Overhead + Len(FlattenSeq(texts)) <= items[k].max
    <3> DEFINE leaves == items[k].leaves
               texts == [i \in 1..Len(leaves) |-> Final(leaves[i].text)]
    <3>1. ~ Overfull(items[k])
      BY <1>6, <1>11
    <3>2. Len(FlattenSeq(texts)) \in Nat /\ items[k].max \in Nat /\ Overhead \in Nat
      BY <1>3, CarrierIs, TransformAssumption DEF Item
    <3>3. Len(texts) = Len(leaves) /\ \A i \in 1..Len(leaves): texts[i] = Final(leaves[i].text)
      BY <1>3, CarrierIs
    <3>4. \/ \A i \in 1..Len(leaves): Final(leaves[i].text) = leaves[i].text
          \/ ~ (Overhead + Len(FlattenSeq(texts)) > items[k].max)
      BY <2>8, <3>1 DEF Overfull
    <3> HIDE DEF texts
    <3>5. \/ \A i \in 1..Len(texts): texts[i] = leaves[i].text
          \/ Overhead + Len(FlattenSeq(texts)) <= items[k].max
      BY <3>2, <3>3, <3>4
    <3> QED BY <3>3, <3>5 DEF texts
  <2>9. ForwardedIsValid'
    <3>1. \A i \in 1..Len(Original): result'.texts[i] # Original[i].text =>
             /\ ~ Original[i].signed
             /\ Original[i].nonEmpty => result'.texts[i] # <<>>
             /\ Original[i].max > 0 => Len(result'.texts[i]) <= Original[i].max
      BY <2>2, <2>7
    <3>2. ASSUME NEW k \in 1..Len(items), items[k].encoded, items[k].max > 0
          PROVE  LET texts == [i \in 1..Len(items[k].leaves) |-> Final(items[k].leaves[i].text)']
                 IN  \/ \A i \in 1..Len(texts): texts[i] = items[k].leaves[i].text
                     \/ Overhead + Len(FlattenSeq(texts)) <= items[k].max
      <4> DEFINE t == [i \in 1..Len(items[k].leaves) |-> Final(items[k].leaves[i].text)]
                 u == [i \in 1..Len(items[k].leaves) |-> Final(items[k].leaves[i].text)']
      <4>1. u = t
        BY <1>1, <1>2
      <4>2. \/ \A i \in 1..Len(t): t[i] = items[k].leaves[i].text
            \/ Overhead + Len(FlattenSeq(t)) <= items[k].max
        BY <2>8, <3>2
      <4> HIDE DEF t, u
      <4>3. \/ \A i \in 1..Len(u): u[i] = items[k].leaves[i].text
            \/ Overhead + Len(FlattenSeq(u)) <= items[k].max
        BY <4>1, <4>2
      <4> QED BY <4>3 DEF u
    <3>3. items' = items
      BY <1>1
    <3> QED BY <1>2, <3>1, <3>2, <3>3 DEF ForwardedIsValid
  <2>10. RefusalHasCause'
    BY <2>1 DEF RefusalHasCause
  <2> QED BY <1>1, <1>7, <1>8, <1>9, <2>6, <2>9, <2>10 DEF Inv, AnswerInv
<1> QED BY <1>10, <1>11

LEMMA NextInv == Inv /\ [Next]_vars => Inv'
<1> SUFFICES ASSUME Inv, [Next]_vars PROVE Inv'
  OBVIOUS
<1>1. CASE Block
  BY <1>1, BlockedStep, UnblockedStep
<1>2. CASE RewriteRule
  BY <1>2, RewriteStep
<1>3. CASE FirstPassDone
  BY <1>3, FirstPassStep
<1>4. CASE SecondPassDone
  BY <1>4, SecondPassStep
<1>5. CASE Finish
  BY <1>5, FinishStep
<1>6. CASE UNCHANGED vars
  <2>1. UNCHANGED <<cfg, items, pc, spans, sources, rule, flat, result>>
    BY <1>6 DEF vars
  <2>2. /\ Original' = Original /\ (\A t: Final(t)' = Final(t))
        /\ (\A t: Blocks(t)' <=> Blocks(t)) /\ Emptied' = Emptied /\ Uncovered' = Uncovered
    BY <2>1, Kept
  <2>3. TypeInv' /\ PassInv'
    BY <2>1, <2>2 DEF Inv, TypeInv, PassInv
  <2>4. FlatInv'
    BY <2>1, <2>2 DEF Inv, FlatInv
  <2>5. BlockIsFirst' <=> BlockIsFirst
    BY <2>1, <2>2 DEF BlockIsFirst
  <2>6. ForwardedIsFiltered' <=> ForwardedIsFiltered
    BY <2>1 DEF ForwardedIsFiltered, Original, Blocks, Final, Emptied
  <2>7. ForwardedIsValid' <=> ForwardedIsValid
    BY <2>1 DEF ForwardedIsValid, Original, Final
  <2>8. RefusalHasCause' <=> RefusalHasCause
    BY <2>1 DEF RefusalHasCause, Original, Blocks, Final, Emptied
  <2>9. AnswerInv'
    BY <2>1, <2>2, <2>5, <2>6, <2>7, <2>8 DEF Inv, AnswerInv
  <2> QED BY <2>3, <2>4, <2>9 DEF Inv
<1> QED BY <1>1, <1>2, <1>3, <1>4, <1>5, <1>6 DEF Next

LEMMA SpecInv == Spec => []Inv
<1> QED BY InitInv, NextInv, PTL DEF Spec

-----------------------------------------------------------------------------
(* The theorems. *)

\* While there is no answer, nothing the answer promises can be broken; a body
\* that got past the first block search has no leaf with a block term.
LEMMA InvAnswers ==
    Inv => BlockIsFirst /\ ChangedIsDifferent /\ ForwardedIsFiltered /\ ForwardedIsValid
           /\ RefusalHasCause
<1> SUFFICES ASSUME Inv
             PROVE  BlockIsFirst /\ ChangedIsDifferent /\ ForwardedIsFiltered
                    /\ ForwardedIsValid /\ RefusalHasCause
  OBVIOUS
<1>1. ChangedIsDifferent
  <2>1. \A i \in 1..Len(flat): flat # <<>>
    <3>1. Len(<<>>) = 0
      OBVIOUS
    <3> QED BY <3>1
  <2> QED BY <2>1 DEF Inv, FlatInv, ChangedIsDifferent
<1>2. CASE pc = "done"
  BY <1>1, <1>2 DEF Inv, AnswerInv
<1>3. CASE pc # "done"
  <2>1. result.kind = "pending"
    BY <1>3 DEF Inv, AnswerInv, Pending
  <2>2. ForwardedIsFiltered /\ ForwardedIsValid /\ RefusalHasCause
    BY <1>3, <2>1 DEF ForwardedIsFiltered, ForwardedIsValid, RefusalHasCause
  <2>3. pc # "block" => \A i \in 1..Len(Original): ~ Blocks(Original[i].text)
    <3>1. CASE flat # <<>>
      BY <3>1, FlatIs DEF Inv
    <3>2. CASE flat = <<>>
      BY <1>3, <3>2 DEF Inv, TypeInv, PassInv, AnswerInv
    <3> QED BY <3>1, <3>2
  <2>4. BlockIsFirst
    BY <2>3 DEF BlockIsFirst
  <2> QED BY <1>1, <2>2, <2>4
<1> QED BY <1>2, <1>3

\* The variables keep their types (transformSelectedSpans and applyMode).
THEOREM TypeCorrect == Spec => []TypeInv
<1>1. Inv => TypeInv
  BY DEF Inv
<1> QED BY <1>1, SpecInv, PTL

\* matchExactBlock and the automata of matcher.go agree on what blocks: the first
\* rule that occurs in any leaf, with the role of the first leaf that holds it,
\* whatever the thresholds choose.
THEOREM FirstRuleBlocks == Spec => []BlockIsFirst
<1> QED BY SpecInv, InvAnswers, PTL

\* The changed flags of applyMode, with or without retained originals: strip
\* rules alone or obfs rules alone cannot cancel, both together are compared.
THEOREM FlagsAreDifferences == Spec => []ChangedIsDifferent
<1> QED BY SpecInv, InvAnswers, PTL

\* A forwarded body went through all rules, preflight or not, nested descriptions
\* included, and the original goes on exactly if the rules change nothing.
THEOREM ForwardedWentThrough == Spec => []ForwardedIsFiltered
<1> QED BY SpecInv, InvAnswers, PTL

\* changedSpanInvalidMessage and the carriers: no forwarded leaf or carrier breaks
\* a constraint by having been rewritten.
THEOREM ForwardedKeepsConstraints == Spec => []ForwardedIsValid
<1> QED BY SpecInv, InvAnswers, PTL

\* Every rejection of transformSelectedSpans is due to a block term, or to a text
\* or carrier the rules changed.
THEOREM RefusalsAreCaused == Spec => []RefusalHasCause
<1> QED BY SpecInv, InvAnswers, PTL

-----------------------------------------------------------------------------
(* The nesting guard (NestingGuard). *)

ReaderState ==
    [ok: BOOLEAN, open: Seq(Byte), deepest: Nat, inString: BOOLEAN, escaped: BOOLEAN]

\* One byte: the recursion it reaches is never forgotten, a stopped reader stays
\* stopped.
LEMMA ReadIs ==
    ASSUME NEW r \in ReaderState, NEW b \in Byte
    PROVE  /\ Read(r, b) \in ReaderState
           /\ r.deepest <= Read(r, b).deepest
           /\ ~ r.ok => Read(r, b) = r
<1> DEFINE stop == [r EXCEPT !.ok = FALSE]
<1>1. /\ r.deepest \in Nat /\ r.open \in Seq(Byte) /\ Len(r.open) \in Nat
      /\ r.ok \in BOOLEAN /\ r.inString \in BOOLEAN /\ r.escaped \in BOOLEAN
  BY LenProperties DEF ReaderState
<1>2. stop \in ReaderState /\ stop.deepest = r.deepest
  BY DEF ReaderState
<1>3. CASE ~ r.ok
  BY <1>1, <1>3 DEF Read
<1>4. CASE r.ok /\ r.escaped
  <2>1. Read(r, b) = [r EXCEPT !.escaped = FALSE]
    BY <1>4 DEF Read
  <2>2. Read(r, b) \in ReaderState /\ Read(r, b).deepest = r.deepest
    BY <2>1 DEF ReaderState
  <2> QED BY <1>1, <1>4, <2>2
<1>5. CASE r.ok /\ ~ r.escaped /\ r.inString
  <2> DEFINE e == (b = Escape)
             q == (b # Quote)
  <2>1. Read(r, b) = [r EXCEPT !.escaped = e, !.inString = q]
    BY <1>5 DEF Read
  <2>2. e \in BOOLEAN /\ q \in BOOLEAN
    OBVIOUS
  <2> HIDE DEF e, q
  <2>3. Read(r, b) \in ReaderState /\ Read(r, b).deepest = r.deepest
    BY <2>1, <2>2 DEF ReaderState
  <2> QED BY <1>1, <1>5, <2>3
<1>6. CASE r.ok /\ ~ r.escaped /\ ~ r.inString
  <2>1. Read(r, b) = CASE b = Quote -> [r EXCEPT !.inString = TRUE]
                       [] b = Escape -> stop
                       [] b \in Openers -> Opened(r, b)
                       [] b \in Closers -> Closed(r, b)
                       [] OTHER -> r
    BY <1>6 DEF Read
  <2> DEFINE d == IF r.deepest > Len(r.open) THEN r.deepest ELSE Len(r.open) + 1
  <2>2. Opened(r, b) \in ReaderState /\ r.deepest <= Opened(r, b).deepest
    <3>1. Append(r.open, b) \in Seq(Byte) /\ d \in Nat /\ r.deepest <= d
      BY <1>1
    <3>2. Opened(r, b) = [r EXCEPT !.open = Append(r.open, b), !.deepest = d]
      BY DEF Opened
    <3> HIDE DEF d
    <3> QED BY <3>1, <3>2 DEF ReaderState
  <2>3. Closed(r, b) \in ReaderState /\ Closed(r, b).deepest = r.deepest
    <3>1. r.open # <<>> => Front(r.open) \in Seq(Byte)
      <4>1. r.open # <<>> => Len(r.open) - 1 \in 0..Len(r.open)
        BY <1>1, EmptySeq
      <4> QED BY <1>1, <4>1 DEF Front
    <3>2. r.open # <<>> => [r EXCEPT !.open = Front(@)] \in ReaderState
      BY <3>1 DEF ReaderState
    <3>3. [r EXCEPT !.open = Front(@)].deepest = r.deepest
      BY DEF ReaderState
    <3> QED BY <1>2, <3>2, <3>3 DEF Closed
  <2>4. [r EXCEPT !.inString = TRUE] \in ReaderState
        /\ [r EXCEPT !.inString = TRUE].deepest = r.deepest
    BY DEF ReaderState
  <2>5. Read(r, b) \in {[r EXCEPT !.inString = TRUE], stop, Opened(r, b), Closed(r, b), r}
    BY <2>1
  <2> DEFINE quoted == [r EXCEPT !.inString = TRUE]
  <2>6. quoted \in ReaderState /\ quoted.deepest = r.deepest
    BY <2>4
  <2>7. Read(r, b) \in {quoted, stop, Opened(r, b), Closed(r, b), r}
    BY <2>5
  <2> HIDE DEF stop, quoted
  <2>8. Read(r, b) \in ReaderState /\ r.deepest <= Read(r, b).deepest
    BY <1>1, <1>2, <2>2, <2>3, <2>6, <2>7
  <2> QED BY <1>6, <2>8
<1> QED BY <1>1, <1>3, <1>4, <1>5, <1>6

LEMMA ReadUptoIs ==
    ASSUME NEW list \in Seq(Byte)
    PROVE  /\ ReadUpto(list)[0] = Unread
           /\ \A n \in 1..Len(list): ReadUpto(list)[n] = Read(ReadUpto(list)[n - 1], list[n])
           /\ \A n \in 0..Len(list): ReadUpto(list)[n] \in ReaderState
<1> DEFINE N == Len(list)
           Eq(f) == f = [n \in 0..N |-> IF n = 0 THEN Unread ELSE Read(f[n - 1], list[n])]
           reader == CHOOSE f: Eq(f)
<1>1. N \in Nat /\ \A n \in 1..N: list[n] \in Byte
  BY LenProperties, ElementOfSeq
<1>2. Unread \in ReaderState
  <2>1. <<>> \in Seq(Byte)
    OBVIOUS
  <2> QED BY <2>1 DEF Unread, ReaderState
<1>3. reader = ReadUpto(list)
  BY DEF ReadUpto
<1> HIDE DEF N
<1>4. Eq(reader)
  <2> DEFINE step == [p \in ReaderState \X ((0 + 1)..N) |-> Read(p[1], list[p[2]])]
             lo == 0
             start == Unread
  <2>1. N \in Nat /\ lo \in Nat /\ lo <= N /\ lo = 0 /\ lo + 1 = 1 /\ start = Unread
    BY <1>1
  <2>2. step \in [ReaderState \X ((lo + 1)..N) -> ReaderState] /\ start \in ReaderState
    <3>1. \A p \in ReaderState \X ((0 + 1)..N): p[1] \in ReaderState /\ p[2] \in 1..N
      OBVIOUS
    <3>2. \A p \in ReaderState \X ((0 + 1)..N): Read(p[1], list[p[2]]) \in ReaderState
      BY <1>1, <3>1, ReadIs
    <3> QED BY <1>2, <3>2
  <2>3. ASSUME NEW r \in ReaderState, NEW n \in 1..N PROVE step[<<r, n>>] = Read(r, list[n])
    <3>1. <<r, n>> \in ReaderState \X ((0 + 1)..N) /\ <<r, n>>[1] = r /\ <<r, n>>[2] = n
      OBVIOUS
    <3> QED BY <3>1
  <2> HIDE DEF step, lo, start
  <2>4. \E g \in [lo..N -> ReaderState]: Follows(g, lo, N, start, step)
    BY <2>1, <2>2, RecursionExists
  <2>5. PICK g \in [0..N -> ReaderState]:
           g[0] = Unread /\ \A n \in 1..N: g[n] = step[<<g[n - 1], n>>]
    BY <2>1, <2>4 DEF Follows
  <2>6. ASSUME NEW n \in 0..N
        PROVE  g[n] = IF n = 0 THEN Unread ELSE Read(g[n - 1], list[n])
    <3>1. CASE n = 0
      BY <2>5, <3>1
    <3>2. CASE n # 0
      <4>1. n \in 1..N /\ n - 1 \in 0..N
        BY <1>1, <3>2
      <4>2. g[n - 1] \in ReaderState /\ g[n] = step[<<g[n - 1], n>>]
        BY <2>5, <4>1
      <4> QED BY <2>3, <3>2, <4>1, <4>2
    <3> QED BY <3>1, <3>2
  <2>7. Eq(g)
    BY <2>5, <2>6
  <2> QED BY <2>7
<1> HIDE DEF reader
<1>5. \A n \in 0..N: reader[n] = IF n = 0 THEN Unread ELSE Read(reader[n - 1], list[n])
  BY <1>4
<1> HIDE DEF Eq
<1>6. reader[0] = Unread /\ \A n \in 1..N: reader[n] = Read(reader[n - 1], list[n])
  <2>1. 0 \in 0..N /\ \A n \in 1..N: n \in 0..N /\ n # 0
    BY <1>1
  <2> QED BY <1>5, <2>1
<1>7. \A n \in 0..N: reader[n] \in ReaderState
  <2> DEFINE T == {n \in 0..N: reader[n] \in ReaderState}
  <2>1. 0 \in T /\ 0 \in Nat
    BY <1>1, <1>2, <1>6
  <2>2. ASSUME NEW n \in 0..(N - 1), n \in T PROVE n + 1 \in T
    <3>1. n + 1 \in 1..N /\ n + 1 \in 0..N /\ (n + 1) - 1 = n
      BY <1>1
    <3>2. reader[n + 1] = Read(reader[n], list[n + 1]) /\ list[n + 1] \in Byte
      BY <1>1, <1>6, <3>1
    <3>3. reader[n + 1] \in ReaderState
      BY <2>2, <3>2, ReadIs
    <3> QED BY <3>1, <3>3
  <2> HIDE DEF T
  <2>3. 0..N \subseteq T
    BY <1>1, <2>1, <2>2, IntervalInduction
  <2> QED BY <2>3 DEF T
<1> QED BY <1>3, <1>6, <1>7 DEF N

\* What happens after the first n bytes does not take back what they did.
LEMMA ReaderKeeps ==
    ASSUME NEW list \in Seq(Byte), NEW n \in 0..Len(list)
    PROVE  /\ ReadUpto(list)[n].deepest <= Reader(list).deepest
           /\ ~ ReadUpto(list)[n].ok => ~ Reader(list).ok
<1> DEFINE N == Len(list)
           at == ReadUpto(list)
           T == {m \in n..N: at[n].deepest <= at[m].deepest /\ (~ at[n].ok => ~ at[m].ok)}
<1>1. N \in Nat /\ n \in Nat /\ n \in n..N /\ N \in n..N /\ \A m \in n..N: m \in 0..N
  BY LenProperties
<1>2. /\ \A m \in 1..N: at[m] = Read(at[m - 1], list[m])
      /\ \A m \in 0..N: at[m] \in ReaderState
      /\ \A m \in 1..N: list[m] \in Byte
  BY ReadUptoIs, ElementOfSeq
<1> HIDE DEF N, at
<1>3. n \in T
  <2>1. at[n].deepest \in Nat
    BY <1>1, <1>2 DEF ReaderState
  <2> QED BY <1>1, <2>1
<1>4. ASSUME NEW m \in n..(N - 1), m \in T PROVE m + 1 \in T
  <2>1. m + 1 \in 1..N /\ m + 1 \in n..N /\ (m + 1) - 1 = m /\ m \in 0..N
    BY <1>1
  <2>2. at[m + 1] = Read(at[m], list[m + 1]) /\ at[m] \in ReaderState /\ list[m + 1] \in Byte
    BY <1>2, <2>1
  <2>3. at[m].deepest <= at[m + 1].deepest /\ (~ at[m].ok => ~ at[m + 1].ok)
    BY <2>2, ReadIs
  <2>4. at[n].deepest \in Nat /\ at[m].deepest \in Nat /\ at[m + 1].deepest \in Nat
    <3>1. n \in 0..N /\ m + 1 \in 0..N
      BY <1>1, <2>1
    <3> QED BY <1>2, <2>2, <3>1 DEF ReaderState
  <2> QED BY <1>4, <2>1, <2>3, <2>4
<1> HIDE DEF T
<1>5. n..N \subseteq T
  BY <1>1, <1>3, <1>4, IntervalInduction
<1>6. at[n].deepest <= at[N].deepest /\ (~ at[n].ok => ~ at[N].ok)
  BY <1>1, <1>5 DEF T
<1> QED BY <1>6 DEF at, N, Reader

-----------------------------------------------------------------------------
(* While the guard reads, its counter and flags are those of the reader, as  *)
(* long as the reader has not stopped; once it has, the reader is as deep as *)
(* it will ever be.                                                          *)

InStep(r) ==
    /\ r.deepest <= MaxDepth
    /\ r.ok => /\ r.inString = inString
               /\ r.escaped = escaped
               /\ Len(r.open) = depth
               /\ depth <= r.deepest

GuardTypes ==
    /\ bytes \in Seq(Byte)
    /\ pos \in 0..Len(bytes)
    /\ depth \in Int
    /\ inString \in BOOLEAN
    /\ escaped \in BOOLEAN
    /\ verdict \in {"reading", "within", "refused"}

GuardInv ==
    /\ GuardTypes
    /\ ~ inString => ~ escaped
    /\ verdict = "reading" => InStep(ReadUpto(bytes)[pos])
    /\ GuardBoundsReader

LEMMA NextByte ==
    ASSUME GuardTypes, pos < Len(bytes)
    PROVE  /\ pos + 1 \in 0..Len(bytes)
           /\ bytes[pos + 1] \in Byte
           /\ ReadUpto(bytes)[pos] \in ReaderState
           /\ ReadUpto(bytes)[pos + 1] = Read(ReadUpto(bytes)[pos], bytes[pos + 1])
<1>1. Len(bytes) \in Nat /\ bytes \in Seq(Byte) /\ pos \in 0..Len(bytes)
  BY LenProperties DEF GuardTypes
<1>2. pos + 1 \in 1..Len(bytes) /\ pos + 1 \in 0..Len(bytes) /\ (pos + 1) - 1 = pos
  BY <1>1
<1>3. bytes[pos + 1] \in Byte
  BY <1>1, <1>2, ElementOfSeq
<1> QED BY <1>1, <1>2, <1>3, ReadUptoIs

\* What the reader makes of a byte, in and outside strings.
LEMMA ReadInString ==
    ASSUME NEW r \in ReaderState, NEW b \in Byte, r.ok, r.inString
    PROVE  /\ Read(r, b).ok /\ Read(r, b).open = r.open /\ Read(r, b).deepest = r.deepest
           /\ Read(r, b).escaped = (~ r.escaped /\ b = Escape)
           /\ Read(r, b).inString = (r.escaped \/ b # Quote)
<1>1. CASE r.escaped
  <2>1. Read(r, b) = [r EXCEPT !.escaped = FALSE]
    BY <1>1 DEF Read
  <2>2. /\ Read(r, b).ok = r.ok /\ Read(r, b).open = r.open /\ Read(r, b).deepest = r.deepest
        /\ Read(r, b).escaped = FALSE /\ Read(r, b).inString = r.inString
    BY <2>1 DEF ReaderState
  <2> QED BY <1>1, <2>2
<1>2. CASE ~ r.escaped
  <2> DEFINE e == (b = Escape)
             q == (b # Quote)
  <2>1. Read(r, b) = [r EXCEPT !.escaped = e, !.inString = q]
    BY <1>2 DEF Read
  <2> HIDE DEF e, q
  <2>2. /\ Read(r, b).ok = r.ok /\ Read(r, b).open = r.open /\ Read(r, b).deepest = r.deepest
        /\ Read(r, b).escaped = e /\ Read(r, b).inString = q
    BY <2>1 DEF ReaderState
  <2> QED BY <1>2, <2>2 DEF e, q
<1> QED BY <1>1, <1>2

LEMMA ReadOutsideString ==
    ASSUME NEW r \in ReaderState, NEW b \in Byte, r.ok, ~ r.inString, ~ r.escaped
    PROVE  LET s == Read(r, b)
           IN  /\ s.ok => s.escaped = FALSE /\ s.inString = (b = Quote)
               /\ b \in Openers => /\ s.ok /\ Len(s.open) = Len(r.open) + 1
                                   /\ s.deepest = IF r.deepest > Len(r.open) THEN r.deepest
                                                  ELSE Len(r.open) + 1
               /\ b \notin Openers => s.deepest = r.deepest
               /\ s.ok /\ b \in Closers => Len(s.open) = Len(r.open) - 1
               /\ s.ok /\ b \notin Openers \cup Closers => s.open = r.open
<1> DEFINE stop == [r EXCEPT !.ok = FALSE]
           quoted == [r EXCEPT !.inString = TRUE]
           s == Read(r, b)
<1>1. /\ Quote \notin Openers \cup Closers /\ Escape \notin Openers \cup Closers
      /\ Quote # Escape /\ Openers \cap Closers = {}
  BY DEF Quote, Escape, Openers, Closers
<1>2. s = CASE b = Quote -> quoted
            [] b = Escape -> stop
            [] b \in Openers -> Opened(r, b)
            [] b \in Closers -> Closed(r, b)
            [] OTHER -> r
  BY DEF Read
<1>3. r.open \in Seq(Byte) /\ Len(r.open) \in Nat /\ r.inString \in BOOLEAN /\ r.escaped \in BOOLEAN
  BY LenProperties DEF ReaderState
<1>4. /\ ~ stop.ok /\ stop.deepest = r.deepest
      /\ quoted.inString /\ quoted.escaped = r.escaped /\ quoted.open = r.open
      /\ quoted.deepest = r.deepest /\ quoted.ok
  BY DEF ReaderState
<1>5. CASE b = Quote
  <2>1. s = quoted
    BY <1>1, <1>2, <1>5
  <2> HIDE DEF quoted, s
  <2> QED BY <1>1, <1>3, <1>4, <1>5, <2>1 DEF s
<1>6. CASE b = Escape
  <2>1. s = stop
    BY <1>1, <1>2, <1>6
  <2> HIDE DEF stop, s
  <2> QED BY <1>1, <1>4, <1>6, <2>1 DEF s
<1>7. CASE b \in Openers
  <2> DEFINE d == IF r.deepest > Len(r.open) THEN r.deepest ELSE Len(r.open) + 1
  <2>1. s = [r EXCEPT !.open = Append(r.open, b), !.deepest = d]
    BY <1>1, <1>2, <1>7 DEF Opened
  <2> HIDE DEF d
  <2>2. /\ s.ok = r.ok /\ s.escaped = r.escaped /\ s.inString = r.inString
        /\ s.open = Append(r.open, b) /\ s.deepest = d
    BY <2>1 DEF ReaderState
  <2>3. Len(Append(r.open, b)) = Len(r.open) + 1
    BY <1>3
  <2> HIDE DEF s
  <2> QED BY <1>1, <1>3, <1>7, <2>2, <2>3 DEF d, s
<1>8. CASE b \in Closers
  <2> DEFINE shut == [r EXCEPT !.open = Front(r.open)]
  <2>1. s = Closed(r, b)
    BY <1>1, <1>2, <1>8
  <2>2. s = stop \/ (s = shut /\ r.open # <<>>)
    BY <2>1 DEF Closed
  <2>3. /\ shut.ok = r.ok /\ shut.escaped = r.escaped /\ shut.inString = r.inString
        /\ shut.open = Front(r.open) /\ shut.deepest = r.deepest
    BY DEF ReaderState
  <2>4. r.open # <<>> => Len(Front(r.open)) = Len(r.open) - 1
    <3>1. r.open # <<>> => Len(r.open) - 1 \in 0..Len(r.open)
      BY <1>3, EmptySeq
    <3> QED BY <1>3, <3>1 DEF Front
  <2> HIDE DEF s, stop, shut
  <2> QED BY <1>1, <1>3, <1>4, <1>8, <2>2, <2>3, <2>4 DEF s
<1>9. CASE b # Quote /\ b # Escape /\ b \notin Openers /\ b \notin Closers
  <2>1. s = r
    BY <1>2, <1>9
  <2> HIDE DEF s
  <2> QED BY <1>3, <1>9, <2>1 DEF s
<1> QED BY <1>5, <1>6, <1>7, <1>8, <1>9

LEMMA GuardStart == GuardInit => GuardInv
<1> SUFFICES ASSUME GuardInit PROVE GuardInv
  OBVIOUS
<1>1. /\ bytes \in Seq(Byte) /\ pos = 0 /\ depth = 0
      /\ inString = FALSE /\ escaped = FALSE /\ verdict = "reading"
  BY DEF GuardInit
<1>2. Len(bytes) \in Nat
  BY <1>1, LenProperties
<1>3. pos \in 0..Len(bytes)
  BY <1>1, <1>2
<1>4. GuardTypes
  <2>1. depth \in Int
    BY <1>1
  <2>2. inString \in BOOLEAN /\ escaped \in BOOLEAN
    BY <1>1
  <2>3. verdict \in {"reading", "within", "refused"}
    BY <1>1
  <2> QED BY <1>1, <1>3, <2>1, <2>2, <2>3 DEF GuardTypes
<1>5. ReadUpto(bytes)[pos] = Unread
  BY <1>1, ReadUptoIs
<1>6. /\ Unread.deepest = 0 /\ Len(Unread.open) = 0
      /\ Unread.inString = FALSE /\ Unread.escaped = FALSE
  BY DEF Unread
<1>7. InStep(Unread)
  <2>1. Unread.inString = inString /\ Unread.escaped = escaped
    BY <1>1, <1>6
  <2>2. Len(Unread.open) = depth /\ depth <= Unread.deepest
    BY <1>1, <1>6
  <2>3. Unread.deepest <= MaxDepth
    BY <1>6, GuardAssumption
  <2> QED BY <2>1, <2>2, <2>3 DEF InStep
<1>8. GuardBoundsReader
  BY <1>1 DEF GuardBoundsReader
<1> QED BY <1>1, <1>4, <1>5, <1>7, <1>8 DEF GuardInv

LEMMA InStringKeeps == ASSUME GuardInv, InString PROVE GuardInv'
<1> DEFINE r == ReadUpto(bytes)[pos]
           b == bytes[pos + 1]
           s == Read(r, b)
<1>1. /\ verdict = "reading" /\ pos < Len(bytes) /\ inString
      /\ escaped' = StartsEscape(b) /\ inString' = (escaped \/ b # Quote)
      /\ pos' = pos + 1 /\ bytes' = bytes /\ depth' = depth /\ verdict' = verdict
  BY DEF InString
<1>2. GuardTypes /\ InStep(r)
  BY <1>1 DEF GuardInv
<1>3. pos + 1 \in 0..Len(bytes) /\ b \in Byte /\ r \in ReaderState /\ ReadUpto(bytes)[pos + 1] = s
  BY <1>1, <1>2, NextByte
<1> HIDE DEF r, b, s
<1>4. GuardTypes'
  <2>1. escaped' \in BOOLEAN
    BY <1>1 DEF StartsEscape
  <2>2. inString' \in BOOLEAN
    BY <1>1
  <2> QED BY <1>1, <1>2, <1>3, <2>1, <2>2 DEF GuardTypes
<1>5. ~ inString' => ~ escaped'
  <2>1. ~ inString' => b = Quote
    BY <1>1
  <2>2. Quote # Escape
    BY DEF Quote, Escape
  <2>3. escaped' => b = Escape
    BY <1>1 DEF StartsEscape
  <2> QED BY <2>1, <2>2, <2>3
<1>6. s \in ReaderState /\ r.deepest <= s.deepest /\ (~ r.ok => s = r)
  BY <1>3, ReadIs DEF s
<1>7. r.ok => /\ s.ok /\ s.open = r.open /\ s.deepest = r.deepest
              /\ s.escaped = escaped' /\ s.inString = inString'
  <2> SUFFICES ASSUME r.ok
               PROVE  /\ s.ok /\ s.open = r.open /\ s.deepest = r.deepest
                      /\ s.escaped = escaped' /\ s.inString = inString'
    OBVIOUS
  <2>1. r.inString = inString /\ r.escaped = escaped
    BY <1>2 DEF InStep
  <2>2. /\ s.ok /\ s.open = r.open /\ s.deepest = r.deepest
        /\ s.escaped = (~ r.escaped /\ b = Escape) /\ s.inString = (r.escaped \/ b # Quote)
    BY <1>1, <1>3, <2>1, ReadInString DEF s
  <2>3. s.escaped = escaped'
    BY <1>1, <2>1, <2>2 DEF StartsEscape
  <2>4. s.inString = inString'
    BY <1>1, <2>1, <2>2
  <2> QED BY <2>2, <2>3, <2>4
<1>8. InStep(ReadUpto(bytes)[pos])'
  <2>1. ReadUpto(bytes')[pos'] = s
    BY <1>1, <1>3
  <2>2. s.deepest <= MaxDepth
    <3>1. r.ok => s.deepest = r.deepest
      BY <1>7
    <3> QED BY <1>2, <1>6, <3>1 DEF InStep
  <2>3. s.ok => /\ s.inString = inString' /\ s.escaped = escaped'
                /\ Len(s.open) = depth' /\ depth' <= s.deepest
    <3>1. s.ok => r.ok
      BY <1>6
    <3> QED BY <1>1, <1>2, <1>7, <3>1 DEF InStep
  <2> QED BY <2>1, <2>2, <2>3 DEF InStep
<1>9. GuardBoundsReader'
  BY <1>1 DEF GuardBoundsReader
<1> QED BY <1>4, <1>5, <1>8, <1>9 DEF GuardInv

LEMMA OutsideStringKeeps == ASSUME GuardInv, OutsideString PROVE GuardInv'
<1> DEFINE r == ReadUpto(bytes)[pos]
           b == bytes[pos + 1]
           s == Read(r, b)
<1>1. /\ verdict = "reading" /\ pos < Len(bytes) /\ ~ inString
      /\ inString' = (b = Quote)
      /\ depth' = CASE b \in Openers -> depth + 1
                    [] b \in Closers -> depth - 1
                    [] OTHER -> depth
      /\ verdict' = IF b \in Openers /\ TooDeep(depth') THEN "refused" ELSE verdict
      /\ pos' = pos + 1 /\ bytes' = bytes /\ escaped' = escaped
  BY DEF OutsideString
<1>2. GuardTypes /\ InStep(r) /\ ~ escaped
  BY <1>1 DEF GuardInv
<1>3. pos + 1 \in 0..Len(bytes) /\ b \in Byte /\ r \in ReaderState /\ ReadUpto(bytes)[pos + 1] = s
  BY <1>1, <1>2, NextByte
<1> HIDE DEF r, b, s
<1>4. s \in ReaderState /\ r.deepest <= s.deepest /\ (~ r.ok => s = r)
  BY <1>3, ReadIs DEF s
<1>5. Openers \cap Closers = {}
  BY DEF Openers, Closers
<1>6. depth' \in Int
  BY <1>1, <1>2 DEF GuardTypes
<1>7. GuardTypes'
  <2>1. inString' \in BOOLEAN
    BY <1>1
  <2>2. verdict' \in {"reading", "within", "refused"}
    BY <1>1
  <2> QED BY <1>1, <1>2, <1>3, <1>6, <2>1, <2>2 DEF GuardTypes
<1>8. r.ok => /\ s.ok => s.escaped = FALSE /\ s.inString = (b = Quote)
              /\ b \in Openers => /\ s.ok /\ Len(s.open) = Len(r.open) + 1
                                  /\ s.deepest = IF r.deepest > Len(r.open) THEN r.deepest
                                                 ELSE Len(r.open) + 1
              /\ b \notin Openers => s.deepest = r.deepest
              /\ s.ok /\ b \in Closers => Len(s.open) = Len(r.open) - 1
              /\ s.ok /\ b \notin Openers \cup Closers => s.open = r.open
  <2>1. r.ok => ~ r.inString /\ ~ r.escaped
    BY <1>1, <1>2 DEF InStep
  <2> QED BY <1>3, <2>1, ReadOutsideString DEF s
<1>9. r.ok => Len(r.open) = depth /\ depth <= r.deepest /\ r.deepest <= MaxDepth
  BY <1>2 DEF InStep
<1>10. r.deepest \in Nat /\ s.deepest \in Nat /\ depth \in Int /\ MaxDepth \in Nat
  BY <1>2, <1>3, <1>4, GuardAssumption DEF ReaderState, GuardTypes
\* The counter and the open brackets go together.
<1>11. s.ok => Len(s.open) = depth' /\ depth' <= s.deepest
  <2>1. s.ok => r.ok
    BY <1>4
  <2>2. CASE b \in Openers
    <3>1. depth' = depth + 1
      BY <1>1, <1>5, <2>2
    <3> QED BY <1>8, <1>9, <1>10, <2>1, <2>2, <3>1
  <2>3. CASE b \in Closers
    <3>1. depth' = depth - 1 /\ b \notin Openers
      BY <1>1, <1>5, <2>3
    <3> QED BY <1>8, <1>9, <1>10, <2>1, <2>3, <3>1
  <2>4. CASE b \notin Openers \cup Closers
    <3>1. depth' = depth
      BY <1>1, <2>4
    <3> QED BY <1>8, <1>9, <1>10, <2>1, <2>4, <3>1
  <2> QED BY <2>2, <2>3, <2>4
<1>12. CASE b \in Openers /\ depth' > MaxDepth
  <2>1. verdict' = "refused" /\ depth' = depth + 1
    BY <1>1, <1>5, <1>12 DEF TooDeep
  \* Either the reader has stopped before, or it opens one bracket too many.
  <2>2. ~ s.ok \/ s.deepest > MaxDepth
    BY <1>10, <1>11, <1>12, <1>6
  <2>3. s.deepest <= Reader(bytes).deepest /\ (~ s.ok => ~ Reader(bytes).ok)
    BY <1>2, <1>3, ReaderKeeps DEF GuardTypes
  <2>4. Reader(bytes).deepest \in Nat
    <3>1. Len(bytes) \in 0..Len(bytes)
      BY <1>2, LenProperties DEF GuardTypes
    <3> QED BY <1>2, <3>1, ReadUptoIs DEF GuardTypes, Reader, ReaderState
  <2>5. ~ Reads(bytes) \/ Reader(bytes).deepest > MaxDepth
    BY <1>10, <2>2, <2>3, <2>4 DEF Reads
  <2>6. GuardBoundsReader'
    BY <1>1, <2>1, <2>5 DEF GuardBoundsReader
  <2> QED BY <1>1, <1>2, <1>7, <2>1, <2>6 DEF GuardInv
<1>13. CASE ~ (b \in Openers /\ depth' > MaxDepth)
  <2>1. verdict' = "reading"
    BY <1>1, <1>13 DEF TooDeep
  <2>2. ReadUpto(bytes')[pos'] = s
    BY <1>1, <1>3
  <2>3. s.deepest <= MaxDepth
    <3>1. CASE ~ r.ok
      BY <1>2, <1>4, <3>1 DEF InStep
    <3>2. CASE r.ok /\ b \in Openers
      <4>1. depth' = depth + 1
        BY <1>1, <1>5, <3>2
      <4>2. depth + 1 <= MaxDepth
        BY <1>10, <1>13, <3>2, <4>1
      <4> QED BY <1>8, <1>9, <1>10, <3>2, <4>2
    <3>3. CASE r.ok /\ b \notin Openers
      BY <1>8, <1>9, <3>3
    <3> QED BY <3>1, <3>2, <3>3
  <2>4. s.ok => s.inString = inString' /\ s.escaped = escaped'
    <3>1. s.ok => r.ok
      BY <1>4
    <3>2. escaped' = FALSE
      BY <1>1, <1>2 DEF GuardTypes
    <3> QED BY <1>1, <1>8, <3>1, <3>2
  <2>5. InStep(ReadUpto(bytes)[pos])'
    BY <1>11, <2>2, <2>3, <2>4 DEF InStep
  <2>6. GuardBoundsReader'
    BY <2>1 DEF GuardBoundsReader
  <2> QED BY <1>1, <1>2, <1>7, <2>5, <2>6 DEF GuardInv
<1> QED BY <1>12, <1>13

LEMMA GuardEndsKeeps == ASSUME GuardInv, GuardEnds PROVE GuardInv'
<1> DEFINE r == ReadUpto(bytes)[pos]
<1>1. /\ verdict = "reading" /\ pos = Len(bytes)
      /\ verdict' = IF depth = 0 /\ ~ inString THEN "within" ELSE "refused"
      /\ bytes' = bytes /\ pos' = pos /\ depth' = depth
      /\ inString' = inString /\ escaped' = escaped
  BY DEF GuardEnds
<1>2. GuardTypes /\ InStep(r) /\ (~ inString => ~ escaped)
  BY <1>1 DEF GuardInv
<1>3. r = Reader(bytes)
  BY <1>1 DEF Reader
<1>4. r \in ReaderState
  BY <1>2, ReadUptoIs DEF GuardTypes
<1> HIDE DEF r
<1>5. verdict' = "within" => Reader(bytes).deepest <= MaxDepth
  BY <1>2, <1>3 DEF InStep
\* What the reader accepts leaves the counter at zero and no string open.
<1>6. Reads(bytes) => depth = 0 /\ ~ inString
  <2>1. Reads(bytes) => r.ok /\ r.open = <<>> /\ ~ r.inString
    BY <1>3 DEF Reads
  <2>2. Reads(bytes) => Len(r.open) = depth /\ r.inString = inString
    BY <1>2, <2>1 DEF InStep
  <2>3. Len(<<>>) = 0
    OBVIOUS
  <2> QED BY <2>1, <2>2, <2>3
<1>7. GuardBoundsReader'
  BY <1>1, <1>5, <1>6 DEF GuardBoundsReader
<1>8. GuardTypes' /\ verdict' # "reading"
  BY <1>1, <1>2 DEF GuardTypes
<1> QED BY <1>1, <1>2, <1>7, <1>8 DEF GuardInv

LEMMA GuardSpecInv == GuardSpec => []GuardInv
<1>1. GuardInv /\ [GuardNext]_guard => GuardInv'
  <2> SUFFICES ASSUME GuardInv, [GuardNext]_guard PROVE GuardInv'
    OBVIOUS
  <2>1. CASE InString
    BY <2>1, InStringKeeps
  <2>2. CASE OutsideString
    BY <2>2, OutsideStringKeeps
  <2>3. CASE GuardEnds
    BY <2>3, GuardEndsKeeps
  <2>4. CASE UNCHANGED guard
    BY <2>4 DEF guard, GuardInv, GuardTypes, InStep, GuardBoundsReader
  <2> QED BY <2>1, <2>2, <2>3, <2>4 DEF GuardNext
<1> QED BY <1>1, GuardStart, PTL DEF GuardSpec

\* jsonNestingWithin: for every sequence of bytes and every limit, what passes takes
\* a reader that recurses at each bracket no deeper than the limit, and what does
\* not is too deep for it or nothing it would read to the end.
THEOREM GuardIsSound == GuardSpec => []GuardBoundsReader
<1>1. GuardInv => GuardBoundsReader
  BY DEF GuardInv
<1> QED BY <1>1, GuardSpecInv, PTL

-----------------------------------------------------------------------------
(* Sorting: numbers that differ can be put in order. *)

InOrder(order, n, key) ==
    /\ order \in [1..n -> 1..n]
    /\ \A i, j \in 1..n: i < j => key[order[i]] < key[order[j]]

LEMMA InsertOne ==
    ASSUME NEW n \in Nat, NEW key \in [1..(n + 1) -> Int],
           \A i, j \in 1..(n + 1): i # j => key[i] # key[j],
           NEW o, InOrder(o, n, key)
    PROVE  \E p: InOrder(p, n + 1, key)
<1> DEFINE k == key[n + 1]
           S == {c \in 0..n: \A i \in (c + 1)..n: k < key[o[i]]}
<1>1. n + 1 \in 1..(n + 1) /\ k \in Int
  OBVIOUS
<1>2. /\ o \in [1..n -> 1..n]
      /\ \A i, j \in 1..n: i < j => key[o[i]] < key[o[j]]
  BY DEF InOrder
<1>3. \A i \in 1..n: o[i] \in 1..n /\ o[i] \in 1..(n + 1) /\ key[o[i]] \in Int /\ key[o[i]] # k
  <2>1. \A i \in 1..n: o[i] \in 1..n
    BY <1>2
  <2>2. \A m \in 1..n: m \in 1..(n + 1) /\ m # n + 1
    OBVIOUS
  <2> QED BY <2>1, <2>2, <1>1
<1> HIDE DEF k
<1>4. n \in S /\ S \subseteq Nat
  OBVIOUS
<1>5. PICK c \in S: \A m \in S: c <= m
  BY <1>4, LeastNatural
<1>6. c \in 0..n /\ \A i \in (c + 1)..n: k < key[o[i]]
  BY <1>5
<1>7. \A i \in 1..c: key[o[i]] < k
  <2> SUFFICES ASSUME NEW i \in 1..c PROVE key[o[i]] < k
    OBVIOUS
  <2>1. c \in 1..n /\ i \in 1..n /\ c - 1 \in 0..n /\ (c - 1) + 1 = c /\ ~ (c <= c - 1)
    BY <1>6
  <2>2. c - 1 \notin S
    BY <1>5, <2>1
  <2>3. PICK m \in c..n: ~ (k < key[o[m]])
    BY <2>1, <2>2
  <2>4. m = c
    BY <1>6, <2>1, <2>3
  <2>5. key[o[c]] < k
    BY <1>1, <1>3, <2>1, <2>3, <2>4
  <2>6. i = c \/ key[o[i]] < key[o[c]]
    <3>1. i = c \/ i < c
      BY <2>1
    <3> QED BY <1>2, <2>1, <3>1
  <2>7. key[o[i]] \in Int /\ key[o[c]] \in Int
    BY <1>3, <2>1
  <2>8. k \in Int
    BY <1>1
  <2> QED BY ONLY <2>5, <2>6, <2>7, <2>8
<1> HIDE DEF S
<1> DEFINE p == [i \in 1..(n + 1) |-> IF i <= c THEN o[i] ELSE IF i = c + 1 THEN n + 1 ELSE o[i - 1]]
<1>8. ASSUME NEW i \in 1..(n + 1)
      PROVE  /\ i <= c => i \in 1..n /\ p[i] = o[i]
             /\ i = c + 1 => p[i] = n + 1
             /\ i > c + 1 => i - 1 \in (c + 1)..n /\ i - 1 \in 1..n /\ p[i] = o[i - 1]
  BY <1>6
<1> HIDE DEF p
<1>9. \A i \in 1..(n + 1): p[i] \in 1..(n + 1)
  <2> SUFFICES ASSUME NEW i \in 1..(n + 1) PROVE p[i] \in 1..(n + 1)
    OBVIOUS
  <2>1. i <= c \/ i = c + 1 \/ i > c + 1
    BY <1>6
  <2> QED BY <1>1, <1>3, <1>8, <2>1
<1>10. ASSUME NEW i \in 1..(n + 1), NEW j \in 1..(n + 1), i < j
       PROVE  key[p[i]] < key[p[j]]
  <2>1. (i <= c \/ i = c + 1 \/ i > c + 1) /\ (j <= c \/ j = c + 1 \/ j > c + 1)
    BY <1>6
  <2>2. CASE j <= c
    <3>1. i <= c
      BY <1>6, <1>10, <2>2
    <3> QED BY <1>2, <1>8, <1>10, <2>2, <3>1
  <2>3. CASE j = c + 1
    <3>1. i <= c /\ i \in 1..c
      BY <1>6, <1>10, <2>3
    <3>2. p[i] = o[i] /\ p[j] = n + 1
      BY <1>8, <2>3, <3>1
    <3> QED BY <1>7, <3>1, <3>2 DEF k
  <2>4. CASE j > c + 1
    <3>1. j - 1 \in (c + 1)..n /\ j - 1 \in 1..n /\ p[j] = o[j - 1]
      BY <1>8, <2>4
    <3>2. CASE i <= c
      <4>1. i \in 1..n /\ p[i] = o[i] /\ i < j - 1
        BY <1>6, <1>8, <2>4, <3>2
      <4> QED BY <1>2, <3>1, <4>1
    <3>3. CASE i = c + 1
      <4>1. p[i] = n + 1
        BY <1>8, <3>3
      <4> QED BY <1>6, <3>1, <4>1 DEF k
    <3>4. CASE i > c + 1
      <4>1. i - 1 \in 1..n /\ p[i] = o[i - 1] /\ i - 1 < j - 1
        BY <1>8, <1>10, <3>4
      <4> QED BY <1>2, <3>1, <4>1
    <3> QED BY <2>1, <3>2, <3>3, <3>4
  <2> QED BY <2>1, <2>2, <2>3, <2>4
<1>11. p \in [1..(n + 1) -> 1..(n + 1)]
  <2>1. p = [i \in 1..(n + 1) |-> p[i]]
    BY DEF p
  <2> QED BY <1>9, <2>1
<1> QED BY <1>10, <1>11 DEF InOrder

LEMMA OrderExists ==
    ASSUME NEW n \in Nat, NEW key \in [1..n -> Int],
           \A i, j \in 1..n: i # j => key[i] # key[j]
    PROVE  \E o: InOrder(o, n, key)
<1> DEFINE T == {m \in 0..n: \E o: InOrder(o, m, key)}
<1>1. 0 \in T
  <2> DEFINE o == [i \in 1..0 |-> i]
  <2>1. o \in [1..0 -> 1..0]
    OBVIOUS
  <2>2. InOrder(o, 0, key)
    BY <2>1 DEF InOrder
  <2> QED BY <2>2
<1>2. ASSUME NEW m \in 0..(n - 1), m \in T PROVE m + 1 \in T
  <2>1. PICK o: InOrder(o, m, key)
    BY <1>2
  <2> DEFINE part == [i \in 1..(m + 1) |-> key[i]]
  <2>2. m \in Nat /\ \A i \in 1..(m + 1): i \in 1..n
    OBVIOUS
  <2>3. part \in [1..(m + 1) -> Int] /\ \A i \in 1..(m + 1): part[i] = key[i]
    BY <2>2
  <2> HIDE DEF part
  <2>4. \A i, j \in 1..(m + 1): i # j => part[i] # part[j]
    BY <2>2, <2>3
  <2>5. InOrder(o, m, part)
    <3>1. o \in [1..m -> 1..m] /\ \A i, j \in 1..m: i < j => key[o[i]] < key[o[j]]
      BY <2>1 DEF InOrder
    <3>2. \A i \in 1..m: o[i] \in 1..(m + 1)
      BY <2>2, <3>1
    <3> QED BY <2>3, <3>1, <3>2 DEF InOrder
  <2>6. PICK p: InOrder(p, m + 1, part)
    BY <2>2, <2>3, <2>4, <2>5, InsertOne
  <2>7. InOrder(p, m + 1, key)
    BY <2>3, <2>6 DEF InOrder
  <2> QED BY <2>7
<1> HIDE DEF T
<1>3. 0..n \subseteq T
  BY <1>1, <1>2, IntervalInduction
<1>4. n \in 0..n
  OBVIOUS
<1> QED BY <1>3, <1>4 DEF T

\* Spans that start at different places, sorted: the same ones, one after the other.
LEMMA SortedIs ==
    ASSUME NEW S, NEW list \in Seq(S),
           \A i \in 1..Len(list): list[i].start \in Int,
           \A i, j \in 1..Len(list): i # j => list[i].start # list[j].start
    PROVE  /\ Sorted(list) \in Seq(S) /\ Len(Sorted(list)) = Len(list)
           /\ \A i, j \in 1..Len(list): i < j => Sorted(list)[i].start < Sorted(list)[j].start
           /\ \A i \in 1..Len(list): \E k \in 1..Len(list): Sorted(list)[i] = list[k]
           /\ \A k \in 1..Len(list): \E i \in 1..Len(list): Sorted(list)[i] = list[k]
<1> DEFINE n == Len(list)
           key == [i \in 1..n |-> list[i].start]
<1>1. n \in Nat /\ DOMAIN list = 1..n /\ \A i \in 1..n: list[i] \in S
  BY LenProperties, ElementOfSeq
<1>2. key \in [1..n -> Int] /\ \A i \in 1..n: key[i] = list[i].start
  OBVIOUS
<1>3. IsFiniteSet(1..n) /\ Cardinality(1..n) = n
  <2>1. 1 \in Int /\ n \in Int /\ (1 > n => n = 0) /\ n - 1 + 1 = n
    BY <1>1
  <2> HIDE DEF n
  <2> QED BY <2>1, FS_Interval
<1>4. SetToSeqs(1..n) = {f \in [1..n -> 1..n]: \A i, j \in 1..n: i # j => f[i] # f[j]}
  BY <1>3 DEF SetToSeqs
<1> HIDE DEF n, key
<1>5. \E o \in SetToSeqs(1..n): \A i, j \in 1..n: i < j => list[o[i]].start <= list[o[j]].start
  <2>1. \A i, j \in 1..n: i # j => key[i] # key[j]
    BY <1>2 DEF n
  <2>2. PICK o: InOrder(o, n, key)
    BY <1>1, <1>2, <2>1, OrderExists
  <2>3. o \in [1..n -> 1..n] /\ \A i, j \in 1..n: i < j => key[o[i]] < key[o[j]]
    BY <2>2 DEF InOrder
  <2>4. \A i \in 1..n: o[i] \in 1..n /\ key[o[i]] \in Int
    BY <1>2, <2>3
  <2>5. \A i, j \in 1..n: i # j => o[i] # o[j]
    <3>1. \A i, j \in 1..n: i < j => o[i] # o[j]
      BY <2>3, <2>4
    <3> QED BY <1>1, <3>1
  <2>6. \A i, j \in 1..n: i < j => list[o[i]].start <= list[o[j]].start
    <3> SUFFICES ASSUME NEW i \in 1..n, NEW j \in 1..n, i < j
                 PROVE  list[o[i]].start <= list[o[j]].start
      OBVIOUS
    <3>1. key[o[i]] < key[o[j]] /\ key[o[i]] \in Int /\ key[o[j]] \in Int
      BY <2>3, <2>4
    <3>2. key[o[i]] = list[o[i]].start /\ key[o[j]] = list[o[j]].start
      BY <1>2, <2>4
    <3> QED BY <3>1, <3>2
  <2> QED BY <1>4, <2>3, <2>5, <2>6
<1> DEFINE o == Order(list)
<1>6. o \in SetToSeqs(1..n) /\ \A i, j \in 1..n: i < j => list[o[i]].start <= list[o[j]].start
  BY <1>1, <1>5 DEF Order, Ascending
<1>7. o \in [1..n -> 1..n] /\ \A i, j \in 1..n: i # j => o[i] # o[j]
  BY <1>4, <1>6
<1>8. Sorted(list) = [i \in 1..n |-> list[o[i]]]
  BY <1>1 DEF Sorted
<1> HIDE DEF o
<1>9. \A k \in 1..n: \E i \in 1..n: o[i] = k
  <2>1. o \in Injection(1..n, 1..n)
    BY <1>7 DEF Injection, IsInjective
  <2>2. o \in Surjection(1..n, 1..n)
    BY <1>3, <2>1, FS_Injection
  <2> QED BY <2>2 DEF Surjection
<1>10. \A i \in 1..n: o[i] \in 1..n /\ Sorted(list)[i] = list[o[i]]
  BY <1>7, <1>8
<1>11. Sorted(list) \in Seq(S) /\ Len(Sorted(list)) = n
  <2>1. \A i \in 1..n: list[o[i]] \in S
    BY <1>1, <1>10
  <2>2. Sorted(list) \in [1..n -> S]
    BY <1>8, <2>1
  <2> QED BY <1>1, <2>2, FunctionIsSeq
<1>12. ASSUME NEW i \in 1..n, NEW j \in 1..n, i < j
       PROVE  Sorted(list)[i].start < Sorted(list)[j].start
  <2>1. /\ o[i] \in 1..n /\ o[j] \in 1..n /\ o[i] # o[j]
        /\ Sorted(list)[i] = list[o[i]] /\ Sorted(list)[j] = list[o[j]]
    BY <1>7, <1>10, <1>12
  <2>2. list[o[i]].start <= list[o[j]].start
    BY <1>6, <1>12
  <2>3. list[o[i]].start # list[o[j]].start /\ list[o[i]].start \in Int /\ list[o[j]].start \in Int
    BY <2>1 DEF n
  <2> QED BY <2>1, <2>2, <2>3
<1>13. ASSUME NEW k \in 1..n PROVE \E i \in 1..n: Sorted(list)[i] = list[k]
  <2>1. PICK i \in 1..n: o[i] = k
    BY <1>9
  <2> QED BY <1>10, <2>1
<1> QED BY <1>10, <1>11, <1>12, <1>13 DEF n

-----------------------------------------------------------------------------
(* Pieces of the whole, and where two wholes agree. *)

LEMMA PieceOf ==
    ASSUME NEW S, NEW s \in Seq(Seq(S)), NEW k \in 1..Len(s)
    PROVE  /\ Len(Upto(s, k)) = Len(Upto(s, k - 1)) + Len(s[k])
           /\ Len(Upto(s, k)) \in 0..Len(FlattenSeq(s))
           /\ Len(Upto(s, k - 1)) \in 0..Len(FlattenSeq(s))
           /\ SubSeq(FlattenSeq(s), Len(Upto(s, k - 1)) + 1, Len(Upto(s, k))) = s[k]
<1>1. Len(s) \in Nat /\ s[k] \in Seq(S) /\ k \in 0..Len(s) /\ k - 1 \in 0..Len(s)
  BY LenProperties, ElementOfSeq
<1> DEFINE w == FlattenSeq(s)
           a == Len(Upto(s, k - 1))
           b == Len(s[k])
           p == SubSeq(w, a + 1, Len(Upto(s, k)))
<1>2. w \in Seq(S) /\ a \in Nat /\ a + b <= Len(w) /\ \A j \in 1..b: w[a + j] = s[k][j]
  BY FlattenPlaces
<1>3. Len(Upto(s, k)) = a + b
  <2>1. Upto(s, k) = Upto(s, k - 1) \o s[k] /\ Upto(s, k - 1) \in Seq(S)
    BY <1>1, UptoStep
  <2> QED BY <1>1, <2>1, ConcatProperties
<1>4. b \in Nat /\ Len(w) \in Nat
  BY <1>1, <1>2, LenProperties
<1> HIDE DEF w, a, b
<1>5. \A i \in (a + 1)..(a + b): w[i] \in S
  BY <1>2, <1>4, ElementOfSeq
<1>6. /\ SubSeq(w, a + 1, a + b) \in Seq(S)
      /\ Len(SubSeq(w, a + 1, a + b)) = b
      /\ \A i \in 1..b: SubSeq(w, a + 1, a + b)[i] = w[a + i]
  <2>1. a + 1 \in Int /\ a + b \in Int
    BY <1>2, <1>4
  <2>2. /\ SubSeq(w, a + 1, a + b) \in Seq(S)
        /\ Len(SubSeq(w, a + 1, a + b)) = IF a + 1 <= a + b THEN (a + b) - (a + 1) + 1 ELSE 0
        /\ \A i \in 1..((a + b) - (a + 1) + 1): SubSeq(w, a + 1, a + b)[i] = w[(a + 1) + i - 1]
    <3> DEFINE lo == a + 1
               hi == a + b
    <3>1. lo \in Int /\ hi \in Int /\ \A i \in lo..hi: w[i] \in S
      BY <1>5, <2>1
    <3> HIDE DEF lo, hi
    <3>2. /\ SubSeq(w, lo, hi) \in Seq(S)
          /\ Len(SubSeq(w, lo, hi)) = IF lo <= hi THEN hi - lo + 1 ELSE 0
          /\ \A i \in 1..(hi - lo + 1): SubSeq(w, lo, hi)[i] = w[lo + i - 1]
      BY <3>1, SubSeqProperties
    <3> QED BY <3>2 DEF lo, hi
  <2>3. (a + b) - (a + 1) + 1 = b /\ \A i \in 1..b: (a + 1) + i - 1 = a + i
    BY <1>2, <1>4
  <2>4. (a + 1 <= a + b) \/ b = 0
    BY <1>2, <1>4
  <2> QED BY <2>2, <2>3, <2>4
<1>7. SubSeq(w, a + 1, a + b) = s[k]
  <2>1. \A i \in 1..b: SubSeq(w, a + 1, a + b)[i] = s[k][i]
    BY <1>2, <1>6
  <2>2. Len(s[k]) = b
    BY DEF b
  <2> QED BY <1>1, <1>6, <2>1, <2>2, SeqEqual
<1>8. a + b \in 0..Len(w) /\ a \in 0..Len(w)
  BY <1>2, <1>4
<1> QED BY <1>3, <1>7, <1>8 DEF w, a, b

\* How three sequences are joined does not matter.  The provers know it only
\* of three at a time, so it has a name.
Joins(a, b, c) == (a \o b) \o c = a \o (b \o c)

LEMMA JoinThree == \A S: \A a, b, c \in Seq(S): Joins(a, b, c)
BY DEF Joins

\* Pieces that are the same in two lists, put after what came before them.
LEMMA Stretch ==
    ASSUME NEW S, NEW s \in Seq(Seq(S)), NEW t \in Seq(Seq(S)), Len(s) = Len(t),
           NEW p \in 0..Len(s), NEW q \in p..Len(s),
           \A k \in (p + 1)..q: s[k] = t[k]
    PROVE  Upto(t, q) = Upto(t, p) \o SubSeq(FlattenSeq(s), Len(Upto(s, p)) + 1, Len(Upto(s, q)))
<1> DEFINE w == FlattenSeq(s)
           at(k) == Len(Upto(s, k))
           T == {k \in p..q: Upto(t, k) = Upto(t, p) \o SubSeq(w, at(p) + 1, at(k))}
<1>1. Len(s) \in Nat /\ w \in Seq(S) /\ Len(w) \in Nat
  <2>1. Len(s) \in Nat /\ Len(s) \in 0..Len(s)
    BY LenProperties
  <2>2. w \in Seq(S)
    BY <2>1, UptoStep
  <2> QED BY <2>1, <2>2, LenProperties
<1>2. \A k \in p..q: k \in 0..Len(s)
  BY <1>1
<1>3. \A k \in 0..Len(s): Upto(t, k) \in Seq(S) /\ Upto(s, k) \in Seq(S) /\ at(k) \in 0..Len(w)
  <2>1. \A k \in 0..Len(s): Upto(t, k) \in Seq(S) /\ Upto(s, k) \in Seq(S)
    BY UptoStep
  <2>2. at(0) = 0
    BY UptoStep, EmptySeq
  <2>3. \A k \in 1..Len(s): at(k) \in 0..Len(w)
    BY PieceOf
  <2>4. \A k \in 0..Len(s): k = 0 \/ k \in 1..Len(s)
    BY <1>1
  <2> QED BY <1>1, <2>1, <2>2, <2>3, <2>4
<1> HIDE DEF w
<1>4. p \in T
  <2>1. at(p) \in Int /\ at(p) + 1 \in Int /\ at(p) < at(p) + 1
    BY <1>3
  <2>2. SubSeq(w, at(p) + 1, at(p)) = <<>>
    BY <2>1, SubSeqEmpty
  <2>3. Upto(t, p) \o <<>> = Upto(t, p)
    BY <1>3, ConcatEmptySeq
  <2>4. p \in p..q
    BY <1>1
  <2> HIDE DEF at
  <2> QED BY <2>2, <2>3, <2>4
<1>5. ASSUME NEW k \in p..(q - 1), k \in T PROVE k + 1 \in T
  <2>1. /\ k + 1 \in p..q /\ k + 1 \in 1..Len(s) /\ k + 1 \in (p + 1)..q /\ (k + 1) - 1 = k
        /\ k \in 0..Len(s) /\ k \in p..Len(s)
    BY <1>1
  <2>2. /\ at(k + 1) = at(k) + Len(s[k + 1])
        /\ SubSeq(w, at(k) + 1, at(k + 1)) = s[k + 1]
    BY <2>1, PieceOf DEF w
  <2>3. Upto(t, k + 1) = Upto(t, k) \o s[k + 1]
    <3>1. Upto(t, k + 1) = Upto(t, k) \o t[k + 1]
      BY <2>1, UptoStep
    <3> QED BY <2>1, <3>1
  <2>4. at(p) <= at(k)
    BY <2>1, UptoKeeps
  <2>5. /\ at(p) \in 0..Len(w) /\ at(k) \in 0..Len(w) /\ at(k + 1) \in 0..Len(w)
        /\ Len(s[k + 1]) \in Nat /\ s[k + 1] \in Seq(S)
    BY <1>3, <2>1, ElementOfSeq, LenProperties
  <2>6. Upto(t, k) = Upto(t, p) \o SubSeq(w, at(p) + 1, at(k))
    BY <1>5
  <2> DEFINE x == at(p)
             y == at(k)
             z == at(k + 1)
             l == Len(s[k + 1])
  <2>14. /\ x \in 0..Len(w) /\ y \in 0..Len(w) /\ z \in 0..Len(w)
         /\ x <= y /\ z = y + l /\ l \in Nat
    <3> HIDE DEF at
    <3> QED BY <2>2, <2>4, <2>5
  <2> HIDE DEF x, y, z, l
  <2>7. x \in 0..Len(w) /\ y \in 0..Len(w) /\ z \in 0..Len(w) /\ x <= y /\ y <= z
    BY <1>1, <2>14
  <2>8. SubSeq(w, x + 1, y) \o SubSeq(w, y + 1, z) = SubSeq(w, x + 1, z)
    <3>1. x + 1 \in 1..(Len(w) + 1) /\ y \in ((x + 1) - 1)..Len(w) /\ z \in y..Len(w)
      BY <1>1, <2>7
    <3> QED BY <1>1, <3>1, ConcatAdjacentSubSeq
  <2>9. SubSeq(w, x + 1, y) \in Seq(S)
    <3>1. \A i \in (x + 1)..y: i \in 1..Len(w)
      BY <1>1, <2>7
    <3>2. \A i \in (x + 1)..y: w[i] \in S
      BY <1>1, <3>1, ElementOfSeq
    <3>3. x + 1 \in Int /\ y \in Int
      BY <2>7
    <3> QED BY <3>2, <3>3, SubSeqProperties
  <2>10. SubSeq(w, y + 1, z) = s[k + 1]
    BY <2>2 DEF y, z
  <2>11. Upto(t, p) \in Seq(S)
    BY <1>3
  <2>12. (Upto(t, p) \o SubSeq(w, x + 1, y)) \o s[k + 1]
            = Upto(t, p) \o (SubSeq(w, x + 1, y) \o s[k + 1])
    <3> DEFINE a == Upto(t, p)
               b == SubSeq(w, x + 1, y)
               c == s[k + 1]
    <3>1. a \in Seq(S) /\ b \in Seq(S) /\ c \in Seq(S)
      BY <2>5, <2>9, <2>11
    <3> HIDE DEF a, b, c
    <3>2. (a \o b) \o c = a \o (b \o c)
      <4>1. Joins(a, b, c)
        BY <3>1, JoinThree, Zenon
      <4> QED BY ONLY <4>1 DEF Joins
    <3> QED BY <3>2 DEF a, b, c
  <2>13. Upto(t, k + 1) = Upto(t, p) \o SubSeq(w, x + 1, z)
    BY <2>3, <2>6, <2>8, <2>10, <2>12 DEF x, y
  <2> QED BY <2>1, <2>13 DEF x, z
<1>6. p \in Nat /\ q \in Nat /\ q \in p..q
  BY <1>1
<1> HIDE DEF T
<1>7. p..q \subseteq T
  BY <1>4, <1>5, <1>6, IntervalInduction
<1> QED BY <1>6, <1>7 DEF T, w

LEMMA EncodeIs ==
    ASSUME NEW text \in Seq(Byte)
    PROVE  Encode(text) \in Seq(Byte) /\ Encode(text) # <<>>
<1> DEFINE s == [i \in DOMAIN text |->
                    IF text[i] \in {Quote, Escape} THEN <<Escape, text[i]>> ELSE <<text[i]>>]
           mid == FlattenSeq(s)
<1>1. Len(text) \in Nat /\ DOMAIN text = 1..Len(text) /\ \A i \in 1..Len(text): text[i] \in Byte
  BY LenProperties, ElementOfSeq
<1>2. Quote \in Byte /\ Escape \in Byte
  BY GuardAssumption
<1>3. s \in [1..Len(text) -> Seq(Byte)]
  <2> SUFFICES ASSUME NEW i \in 1..Len(text) PROVE s[i] \in Seq(Byte)
    BY <1>1
  <2>1. <<Escape, text[i]>> \in Seq(Byte) /\ <<text[i]>> \in Seq(Byte)
    BY <1>1, <1>2
  <2>2. s[i] = <<Escape, text[i]>> \/ s[i] = <<text[i]>>
    BY <1>1
  <2> QED BY <2>1, <2>2
<1> HIDE DEF s
<1>4. s \in Seq(Seq(Byte)) /\ Len(s) = Len(text)
  BY <1>1, <1>3, FunctionIsSeq
<1>5. mid \in Seq(Byte)
  <2>1. Len(s) \in 0..Len(s)
    BY <1>1, <1>4
  <2> QED BY <1>4, <2>1, UptoStep
<1> DEFINE quote == <<Quote>>
<1>6. quote \in Seq(Byte) /\ quote # <<>>
  BY <1>2
<1>7. Encode(text) = (quote \o mid) \o quote
  BY DEF Encode, s
<1> HIDE DEF mid, quote
<1>8. (quote \o mid) \in Seq(Byte) /\ quote \o mid # <<>>
  BY <1>5, <1>6, ConcatProperties, ConcatEqualIffEmpty
<1>9. (quote \o mid) \o quote \in Seq(Byte) /\ (quote \o mid) \o quote # <<>>
  BY <1>6, <1>8, ConcatProperties, ConcatEqualIffEmpty
<1> QED BY <1>7, <1>9

-----------------------------------------------------------------------------
(* rebuildBody. *)

\* Where rebuildBody stands after some of the spans.
Copied(old) == [out: Seq(Byte), from: 0..Len(old), end: 0..Len(old)]

CopyNone == [out |-> <<>>, from |-> 0, end |-> 0]

CopyOne(old, done, span) ==
    [out |-> done.out \o Between(old, done, span) \o Encode(span.text),
     from |-> span.start, end |-> span.end]

\* A span as far as rebuildBody reads it.
Replaceable(span, length) ==
    /\ span.changed \in BOOLEAN
    /\ span.text \in Seq(Byte)
    /\ span.start \in 0..length
    /\ span.end \in 0..length

LEMMA CopyOneIs ==
    ASSUME NEW old \in Seq(Byte), NEW done \in Copied(old), NEW span, Replaceable(span, Len(old))
    PROVE  CopyOne(old, done, span) \in Copied(old)
<1>1. /\ done.out \in Seq(Byte) /\ done.end \in 0..Len(old) /\ Len(old) \in Nat
      /\ span.start \in 0..Len(old) /\ span.end \in 0..Len(old)
  BY LenProperties DEF Copied, Replaceable
<1>2. Encode(span.text) \in Seq(Byte)
  BY EncodeIs DEF Replaceable
<1> DEFINE between == SubSeq(old, done.end + 1, span.start)
<1>3. between \in Seq(Byte)
  <2>1. \A i \in (done.end + 1)..span.start: i \in 1..Len(old)
    BY <1>1
  <2>2. \A i \in (done.end + 1)..span.start: old[i] \in Byte
    BY <2>1, ElementOfSeq
  <2>3. done.end + 1 \in Int /\ span.start \in Int
    BY <1>1
  <2> QED BY <2>2, <2>3, SubSeqProperties
<1> DEFINE out == done.out \o between \o Encode(span.text)
<1>4. out \in Seq(Byte)
  <2> HIDE DEF between
  <2> QED BY <1>1, <1>2, <1>3, ConcatProperties
<1>5. CopyOne(old, done, span) = [out |-> out, from |-> span.start, end |-> span.end]
  BY DEF CopyOne, Between
<1> HIDE DEF out
<1> QED BY <1>1, <1>4, <1>5 DEF Copied

LEMMA RebuiltSteps ==
    ASSUME NEW old \in Seq(Byte), NEW S, NEW list \in Seq(S),
           \A n \in 1..Len(list): Replaceable(list[n], Len(old))
    PROVE  \E g \in [0..Len(list) -> Copied(old)]:
              /\ g[0] = CopyNone
              /\ \A n \in 1..Len(list):
                    g[n] = IF ~ list[n].changed THEN g[n - 1] ELSE CopyOne(old, g[n - 1], list[n])
              /\ Rebuilt(old, list) =
                    IF ~ Apart(list, Len(old)) THEN Failed
                    ELSE IF ~ AnyChanged(list) THEN [kind |-> "noop"]
                    ELSE [kind |-> "body",
                          bytes |-> g[Len(list)].out
                                       \o SubSeq(old, g[Len(list)].end + 1, Len(old))]
<1> DEFINE N == Len(list)
           B == Copied(old)
           Eq(f) == f = [n \in 0..N |->
                            IF n = 0 THEN CopyNone
                            ELSE IF ~ list[n].changed THEN f[n - 1]
                            ELSE CopyOne(old, f[n - 1], list[n])]
           done == CHOOSE f: Eq(f)
<1>1. N \in Nat
  BY LenProperties
<1>2. CopyNone \in B
  <2>1. <<>> \in Seq(Byte) /\ 0 \in 0..Len(old)
    BY EmptySeq, LenProperties
  <2> QED BY <2>1 DEF CopyNone, Copied
<1> HIDE DEF B
<1> DEFINE step == [p \in B \X (1..N) |->
                       IF ~ list[p[2]].changed THEN p[1] ELSE CopyOne(old, p[1], list[p[2]])]
<1>3. step \in [B \X (1..N) -> B]
  <2>1. \A v \in B, n \in 1..N: CopyOne(old, v, list[n]) \in B
    BY CopyOneIs DEF B
  <2> QED BY <2>1
<1>4. \A v \in B, n \in 1..N:
         step[<<v, n>>] = IF ~ list[n].changed THEN v ELSE CopyOne(old, v, list[n])
  OBVIOUS
<1> HIDE DEF step
<1>5. PICK g \in [0..N -> B]:
         g[0] = CopyNone /\ \A n \in 1..N: g[n] = step[<<g[n - 1], n>>]
  <2> DEFINE lo == 0
             base == CopyNone
  <2>1. lo \in Nat /\ N \in Nat /\ lo <= N /\ base \in B /\ step \in [B \X ((lo + 1)..N) -> B]
    BY <1>1, <1>2, <1>3
  <2>2. lo = 0 /\ lo + 1 = 1 /\ base = CopyNone
    OBVIOUS
  <2> HIDE DEF N, lo, base
  <2>3. \E f \in [lo..N -> B]: Follows(f, lo, N, base, step)
    BY <2>1, RecursionExists
  <2> QED BY <2>2, <2>3 DEF Follows
<1>6. \A n \in 1..N: g[n] = IF ~ list[n].changed THEN g[n - 1] ELSE CopyOne(old, g[n - 1], list[n])
  <2> SUFFICES ASSUME NEW n \in 1..N
               PROVE  g[n] = IF ~ list[n].changed THEN g[n - 1] ELSE CopyOne(old, g[n - 1], list[n])
    OBVIOUS
  <2>1. n - 1 \in 0..N
    BY <1>1
  <2>2. g[n - 1] \in B
    BY <1>5, <2>1
  <2> QED BY <1>4, <1>5, <2>2
<1>7. Eq(g)
  <2>1. \A n \in 0..N: g[n] = IF n = 0 THEN CopyNone
                              ELSE IF ~ list[n].changed THEN g[n - 1]
                              ELSE CopyOne(old, g[n - 1], list[n])
    <3>1. \A n \in 0..N: n = 0 \/ n \in 1..N
      BY <1>1
    <3> QED BY <1>5, <1>6, <3>1
  <2> QED BY <1>5, <2>1
<1>8. Eq(done)
  <2> HIDE DEF Eq
  <2> QED BY <1>7
<1>9. done \in [0..N -> B] /\ done[0] = CopyNone
      /\ \A n \in 1..N: done[n] = IF ~ list[n].changed THEN done[n - 1]
                                  ELSE CopyOne(old, done[n - 1], list[n])
  <2> HIDE DEF done, N
  <2>1. \A n \in 0..N: done[n] = IF n = 0 THEN CopyNone
                                 ELSE IF ~ list[n].changed THEN done[n - 1]
                                 ELSE CopyOne(old, done[n - 1], list[n])
    BY <1>8
  <2>2. 0 \in 0..N /\ \A n \in 1..N: n \in 0..N /\ n # 0 /\ n - 1 \in 0..N /\ (n - 1) + 1 = n
    BY <1>1
  <2>3. done[0] = CopyNone
        /\ \A n \in 1..N: done[n] = IF ~ list[n].changed THEN done[n - 1]
                                    ELSE CopyOne(old, done[n - 1], list[n])
    BY <2>1, <2>2
  <2> DEFINE T == {n \in 0..N: done[n] \in B}
  <2>4. 0 \in T
    BY <1>2, <2>2, <2>3
  <2>5. ASSUME NEW n \in 0..(N - 1), n \in T PROVE n + 1 \in T
    <3>1. n + 1 \in 1..N /\ n + 1 \in 0..N /\ (n + 1) - 1 = n /\ done[n] \in B
      BY <1>1, <2>5
    <3>2. done[n + 1] = IF ~ list[n + 1].changed THEN done[n] ELSE CopyOne(old, done[n], list[n + 1])
      BY <2>3, <3>1
    <3>3. CopyOne(old, done[n], list[n + 1]) \in B
      BY <3>1, CopyOneIs DEF B, N
    <3> QED BY <3>1, <3>2, <3>3
  <2> HIDE DEF T
  <2>6. 0..N \subseteq T
    BY <1>1, <2>4, <2>5, IntervalInduction
  <2>7. \A n \in 0..N: done[n] \in B
    BY <2>6 DEF T
  <2>8. done = [n \in 0..N |-> done[n]]
    BY <1>8
  <2>9. done \in [0..N -> B]
    BY <2>7, <2>8
  <2> QED BY <2>3, <2>9
<1>10. Rebuilt(old, list) =
          IF ~ Apart(list, Len(old)) THEN Failed
          ELSE IF ~ AnyChanged(list) THEN [kind |-> "noop"]
          ELSE [kind |-> "body",
                bytes |-> done[N].out \o SubSeq(old, done[N].end + 1, Len(old))]
  BY DEF Rebuilt, CopyNone, CopyOne
<1> HIDE DEF done, Eq
<1> QED BY <1>9, <1>10 DEF B

\* The spans of a text in pieces: each is a piece of its own, one after the other.
Owned(list, owner, raws) ==
    /\ owner \in [1..Len(list) -> 1..Len(raws)]
    /\ \A m, n \in 1..Len(list): m < n => owner[m] < owner[n]
    /\ \A n \in 1..Len(list):
          /\ list[n].changed \in BOOLEAN
          /\ list[n].text \in Seq(Byte)
          /\ raws[owner[n]] # <<>>
          /\ list[n].start = Len(Upto(raws, owner[n] - 1))
          /\ list[n].end = Len(Upto(raws, owner[n]))

\* The pieces with those of the changed spans exchanged.
Exchanged(list, owner, raws, new) ==
    /\ new \in Seq(Seq(Byte)) /\ Len(new) = Len(raws)
    /\ \A n \in 1..Len(list): list[n].changed => new[owner[n]] = Encode(list[n].text)
    /\ \A k \in 1..Len(raws):
          (\A n \in 1..Len(list): list[n].changed => owner[n] # k) => new[k] = raws[k]

LEMMA OwnedIs ==
    ASSUME NEW raws \in Seq(Seq(Byte)), NEW S, NEW list \in Seq(S),
           NEW owner, Owned(list, owner, raws)
    PROVE  /\ \A n \in 1..Len(list): Replaceable(list[n], Len(FlattenSeq(raws)))
           /\ \A n \in 1..Len(list): list[n].start < list[n].end
           /\ \A m, n \in 1..Len(list): m < n => list[m].end <= list[n].start
           /\ Valid(list, Len(FlattenSeq(raws)))
           /\ Apart(list, Len(FlattenSeq(raws)))
<1> DEFINE K == Len(raws)
           N == Len(list)
           w == FlattenSeq(raws)
           at(k) == Len(Upto(raws, k))
<1>1. K \in Nat /\ N \in Nat /\ DOMAIN list = 1..N
  BY LenProperties
<1>2. \A k \in 1..K: /\ at(k) = at(k - 1) + Len(raws[k])
                     /\ at(k) \in 0..Len(w) /\ at(k - 1) \in 0..Len(w)
  BY PieceOf
<1>3. \A k \in 1..K: raws[k] # <<>> => Len(raws[k]) \in Nat /\ Len(raws[k]) > 0
  <2> SUFFICES ASSUME NEW k \in 1..K, raws[k] # <<>> PROVE Len(raws[k]) \in Nat /\ Len(raws[k]) > 0
    OBVIOUS
  <2>1. raws[k] \in Seq(Byte)
    BY ElementOfSeq
  <2> QED BY <2>1, EmptySeq, LenProperties
<1>4. w \in Seq(Byte) /\ Len(w) \in Nat
  <2>1. Len(raws) \in 0..Len(raws)
    BY <1>1
  <2>2. w \in Seq(Byte)
    BY <2>1, UptoStep
  <2> QED BY <2>2, LenProperties
<1>5. \A j, k \in 1..K: j < k => at(j) <= at(k - 1)
  <2> SUFFICES ASSUME NEW j \in 1..K, NEW k \in 1..K, j < k PROVE at(j) <= at(k - 1)
    OBVIOUS
  <2>1. j \in 0..Len(raws) /\ k - 1 \in j..Len(raws)
    BY <1>1
  <2> QED BY <2>1, UptoKeeps
<1>6. /\ \A n \in 1..N: owner[n] \in 1..K
      /\ \A m, n \in 1..N: m < n => owner[m] < owner[n]
      /\ \A n \in 1..N: /\ list[n].changed \in BOOLEAN
                        /\ list[n].text \in Seq(Byte)
                        /\ raws[owner[n]] # <<>>
                        /\ list[n].start = at(owner[n] - 1)
                        /\ list[n].end = at(owner[n])
  BY DEF Owned
<1> HIDE DEF K, N, w, at
<1>7. ASSUME NEW n \in 1..N
      PROVE  /\ Replaceable(list[n], Len(w))
             /\ list[n].start < list[n].end
             /\ list[n].start \in 0..Len(w) /\ list[n].end \in 0..Len(w)
  <2>1. /\ at(owner[n]) = at(owner[n] - 1) + Len(raws[owner[n]])
        /\ at(owner[n]) \in 0..Len(w) /\ at(owner[n] - 1) \in 0..Len(w)
        /\ Len(raws[owner[n]]) \in Nat /\ Len(raws[owner[n]]) > 0
    BY <1>2, <1>3, <1>6
  <2>2. at(owner[n] - 1) < at(owner[n])
    BY <1>4, <2>1
  <2> QED BY <1>6, <2>1, <2>2 DEF Replaceable
<1>8. ASSUME NEW m \in 1..N, NEW n \in 1..N, m < n PROVE list[m].end <= list[n].start
  <2>1. owner[m] < owner[n] /\ owner[m] \in 1..K /\ owner[n] \in 1..K
    BY <1>6, <1>8
  <2> QED BY <1>5, <1>6, <2>1
<1>9. Valid(list, Len(w))
  <2> SUFFICES ASSUME NEW i \in 1..N
               PROVE  /\ 0 <= list[i].start /\ list[i].start < list[i].end
                      /\ list[i].end <= Len(w)
                      /\ i > 1 => list[i - 1].end <= list[i].start
    BY <1>1 DEF Valid
  <2>1. i > 1 => i - 1 \in 1..N /\ i - 1 < i
    BY <1>1
  <2> QED BY <1>4, <1>7, <1>8, <2>1
<1>10. Apart(list, Len(w))
  <2> SUFFICES ASSUME NEW i \in 1..N
               PROVE  /\ 0 <= list[i].start /\ list[i].start < list[i].end
                      /\ list[i].end <= Len(w)
                      /\ \A k \in 1..(i - 1): list[k].end <= list[i].start
    BY <1>1 DEF Apart
  <2>1. \A k \in 1..(i - 1): k \in 1..N /\ k < i
    BY <1>1
  <2> QED BY <1>4, <1>7, <1>8, <2>1
<1> QED BY <1>7, <1>8, <1>9, <1>10 DEF N, w

\* The bytes before the span after p and its new token, or the bytes to the end.
LEMMA RebuiltIs ==
    ASSUME NEW raws \in Seq(Seq(Byte)), NEW S, NEW list \in Seq(S),
           NEW owner, Owned(list, owner, raws),
           NEW new, Exchanged(list, owner, raws, new)
    PROVE  LET old == FlattenSeq(raws)
           IN  /\ FlattenSeq(new) \in Seq(Byte)
               /\ ~ AnyChanged(list) => new = raws /\ Rebuilt(old, list) = [kind |-> "noop"]
               /\ AnyChanged(list) =>
                     Rebuilt(old, list) = [kind |-> "body", bytes |-> FlattenSeq(new)]
<1> DEFINE K == Len(raws)
           N == Len(list)
           old == FlattenSeq(raws)
           at(k) == Len(Upto(raws, k))
<1>1. /\ K \in Nat /\ N \in Nat /\ DOMAIN list = 1..N /\ K \in 0..K
      /\ new \in Seq(Seq(Byte)) /\ Len(new) = K
  BY LenProperties DEF Exchanged
<1>2. /\ old \in Seq(Byte) /\ old = Upto(raws, K) /\ at(0) = 0
      /\ FlattenSeq(new) \in Seq(Byte) /\ FlattenSeq(new) = Upto(new, K) /\ Upto(new, 0) = <<>>
      /\ \A k \in 0..K: Upto(new, k) \in Seq(Byte)
      /\ \A k \in 1..K: Upto(new, k) = Upto(new, k - 1) \o new[k]
  <2>1. at(0) = 0
    BY UptoStep, EmptySeq
  <2> HIDE DEF at
  <2>2. FlattenSeq(raws) \in Seq(Byte) /\ FlattenSeq(raws) = Upto(raws, K)
    BY <1>1, UptoStep
  <2>3. /\ Upto(new, 0) = <<>>
        /\ \A k \in 1..Len(new): Upto(new, k) = Upto(new, k - 1) \o new[k]
        /\ \A k \in 0..Len(new): Upto(new, k) \in Seq(Byte)
        /\ FlattenSeq(new) = Upto(new, Len(new))
    BY <1>1, UptoStep
  <2> QED BY <1>1, <2>1, <2>2, <2>3
<1>3. \A n \in 1..N: Replaceable(list[n], Len(old))
  BY OwnedIs
<1>4. Apart(list, Len(old))
  BY OwnedIs
<1>5. PICK g \in [0..N -> Copied(old)]:
         /\ g[0] = CopyNone
         /\ \A n \in 1..N: g[n] = IF ~ list[n].changed THEN g[n - 1]
                                  ELSE CopyOne(old, g[n - 1], list[n])
         /\ Rebuilt(old, list) =
               IF ~ Apart(list, Len(old)) THEN Failed
               ELSE IF ~ AnyChanged(list) THEN [kind |-> "noop"]
               ELSE [kind |-> "body", bytes |-> g[N].out \o SubSeq(old, g[N].end + 1, Len(old))]
  BY <1>2, <1>3, RebuiltSteps
<1>6. /\ \A n \in 1..N: owner[n] \in 1..K /\ list[n].changed \in BOOLEAN
                        /\ list[n].start = at(owner[n] - 1) /\ list[n].end = at(owner[n])
      /\ \A m, n \in 1..N: m < n => owner[m] < owner[n]
      /\ \A n \in 1..N: list[n].changed => new[owner[n]] = Encode(list[n].text)
      /\ \A k \in 1..K: (\A n \in 1..N: list[n].changed => owner[n] # k) => new[k] = raws[k]
  BY DEF Owned, Exchanged
<1>7. \A p \in 0..K: \A q \in p..K: (\A k \in (p + 1)..q: raws[k] = new[k]) =>
         Upto(new, q) = Upto(new, p) \o SubSeq(old, at(p) + 1, at(q))
  BY <1>1, Stretch
<1> HIDE DEF K, N, old, at
<1> DEFINE Stands(n, p) ==
               /\ g[n].end = at(p) /\ g[n].out = Upto(new, p)
               /\ \A m \in 1..n: list[m].changed => owner[m] <= p
               /\ \A m \in (n + 1)..N: p < owner[m]
           T == {n \in 0..N: \E p \in 0..K: Stands(n, p)}
<1>8. 0 \in T
  <2>1. g[0].end = at(0) /\ g[0].out = Upto(new, 0)
    BY <1>2, <1>5 DEF CopyNone
  <2>2. \A m \in (0 + 1)..N: 0 < owner[m]
    <3>1. \A m \in (0 + 1)..N: m \in 1..N
      OBVIOUS
    <3>2. \A k \in 1..K: 0 < k
      BY <1>1
    <3> QED BY <1>6, <3>1, <3>2
  <2>3. \A m \in 1..0: FALSE
    OBVIOUS
  <2>4. Stands(0, 0)
    BY <2>1, <2>2, <2>3
  <2>5. 0 \in 0..N /\ 0 \in 0..K
    BY <1>1
  <2> HIDE DEF Stands
  <2> QED BY <2>4, <2>5
<1>9. ASSUME NEW n \in 0..(N - 1), n \in T PROVE n + 1 \in T
  <2>1. PICK p \in 0..K: Stands(n, p)
    BY <1>9
  <2>2. /\ n + 1 \in 1..N /\ n + 1 \in 0..N /\ (n + 1) - 1 = n /\ n + 1 \in (n + 1)..N
        /\ n \in 0..N /\ \A m \in ((n + 1) + 1)..N: m \in (n + 1)..N /\ m \in 1..N /\ n + 1 < m
        /\ \A m \in 1..(n + 1): m \in 1..n \/ m = n + 1
    BY <1>1
  <2> DEFINE span == list[n + 1]
             q == owner[n + 1]
  <2>3. q \in 1..K /\ p < q /\ p \in 0..K /\ q - 1 \in p..K /\ q \in 0..K /\ q - 1 \in 0..K
    <3>1. q \in 1..K
      BY <1>6, <2>2
    <3>2. p < q
      BY <2>1, <2>2
    <3> HIDE DEF q, Stands
    <3> QED BY <1>1, <3>1, <3>2
  <2>4. CASE ~ span.changed
    <3>1. g[n + 1] = g[n]
      BY <1>5, <2>2, <2>4
    <3>2. Stands(n + 1, p)
      BY <2>1, <2>2, <2>4, <3>1
    <3> HIDE DEF Stands
    <3> QED BY <2>2, <3>2
  <2>5. CASE span.changed
    <3>1. g[n + 1] = CopyOne(old, g[n], span)
      BY <1>5, <2>2, <2>5
    <3>2. \A k \in (p + 1)..(q - 1): raws[k] = new[k]
      <4> SUFFICES ASSUME NEW k \in (p + 1)..(q - 1) PROVE new[k] = raws[k]
        OBVIOUS
      <4>1. k \in 1..K /\ p < k /\ k < q
        BY <1>1, <2>3
      <4>2. ASSUME NEW m \in 1..N, list[m].changed PROVE owner[m] # k
        <5>1. owner[m] \in 1..K
          BY <1>6
        <5>2. CASE m \in 1..n
          <6>1. owner[m] <= p
            BY <2>1, <4>2, <5>2
          <6> QED BY <2>3, <4>1, <5>1, <6>1
        <5>3. CASE m = n + 1
          BY <4>1, <5>3
        <5>4. CASE n + 1 < m
          <6>1. q < owner[m]
            BY <1>6, <2>2, <5>4
          <6> QED BY <2>3, <4>1, <5>1, <6>1
        <5>5. m \in 1..n \/ m = n + 1 \/ n + 1 < m
          BY <1>1
        <5> QED BY <5>2, <5>3, <5>4, <5>5
      <4> QED BY <1>6, <4>1, <4>2
    <3>3. Upto(new, q - 1) = Upto(new, p) \o SubSeq(old, at(p) + 1, at(q - 1))
      BY <1>7, <2>3, <3>2
    <3>4. Upto(new, q) = Upto(new, q - 1) \o Encode(span.text)
      <4>1. Upto(new, q) = Upto(new, q - 1) \o new[q]
        BY <1>2, <2>3
      <4> QED BY <1>6, <2>2, <2>5, <4>1
    <3>5. /\ g[n + 1].out = (g[n].out \o SubSeq(old, g[n].end + 1, span.start)) \o Encode(span.text)
          /\ g[n + 1].end = span.end
      <4> DEFINE o == (g[n].out \o SubSeq(old, g[n].end + 1, span.start)) \o Encode(span.text)
      <4>1. g[n + 1] = [out |-> o, from |-> span.start, end |-> span.end]
        BY <3>1 DEF CopyOne, Between
      <4> HIDE DEF o
      <4>2. g[n + 1].out = o /\ g[n + 1].end = span.end
        BY <4>1
      <4> QED BY <4>2 DEF o
    <3>6. g[n].out = Upto(new, p) /\ g[n].end = at(p) /\ span.start = at(q - 1) /\ span.end = at(q)
      BY <1>6, <2>1, <2>2
    <3>7. g[n + 1].out = Upto(new, q) /\ g[n + 1].end = at(q)
      BY <3>3, <3>4, <3>5, <3>6
    <3>8. \A m \in 1..(n + 1): list[m].changed => owner[m] <= q
      <4> SUFFICES ASSUME NEW m \in 1..(n + 1), list[m].changed PROVE owner[m] <= q
        OBVIOUS
      <4>1. CASE m \in 1..n
        <5>1. m \in 1..N /\ owner[m] <= p
          BY <1>1, <2>1, <4>1
        <5>2. owner[m] \in 1..K
          BY <1>6, <5>1
        <5> QED BY <2>3, <5>1, <5>2
      <4>2. CASE m = n + 1
        BY <2>3, <4>2
      <4> QED BY <2>2, <4>1, <4>2
    <3>9. \A m \in ((n + 1) + 1)..N: q < owner[m]
      BY <1>6, <2>2
    <3>10. Stands(n + 1, q)
      <4> HIDE DEF q
      <4> QED BY <3>7, <3>8, <3>9
    <3> HIDE DEF Stands, q
    <3> QED BY <2>2, <2>3, <3>10
  <2> QED BY <1>6, <2>2, <2>4, <2>5
<1> HIDE DEF T
<1>10. N \in 0..N /\ 0..N \subseteq T
  <2>1. 0 \in Nat /\ N \in 0..N
    BY <1>1
  <2> QED BY <1>1, <1>8, <1>9, <2>1, IntervalInduction
<1>11. PICK p \in 0..K: Stands(N, p)
  BY <1>10 DEF T
<1>12. at(K) = Len(old)
  BY <1>2 DEF at
<1>13. \A k \in (p + 1)..K: raws[k] = new[k]
  <2> SUFFICES ASSUME NEW k \in (p + 1)..K PROVE new[k] = raws[k]
    OBVIOUS
  <2>1. k \in 1..K /\ p < k
    BY <1>1
  <2>2. ASSUME NEW m \in 1..N, list[m].changed PROVE owner[m] # k
    <3>1. owner[m] \in 1..K /\ owner[m] <= p
      BY <1>6, <1>11, <2>2
    <3> QED BY <2>1, <3>1
  <2> QED BY <1>6, <2>1, <2>2
<1>14. FlattenSeq(new) = g[N].out \o SubSeq(old, g[N].end + 1, Len(old))
  <2>1. K \in p..K
    BY <1>1
  <2> QED BY <1>2, <1>7, <1>11, <1>12, <1>13, <2>1
<1>15. ASSUME ~ AnyChanged(list) PROVE new = raws
  <2>1. \A n \in 1..N: ~ list[n].changed
    BY <1>1, <1>15 DEF AnyChanged
  <2>2. \A k \in 1..K: new[k] = raws[k]
    BY <1>6, <2>1
  <2> QED BY <1>1, <2>2, SeqEqual DEF K
<1> QED BY <1>2, <1>4, <1>5, <1>14, <1>15 DEF old

-----------------------------------------------------------------------------
(* Lists that hold each of some things once. *)

\* list holds F[i] for each i of I, the n-th for i = o[n].
Picks(list, o, I, F) ==
    /\ o \in [1..Len(list) -> I]
    /\ \A m, n \in 1..Len(list): m # n => o[m] # o[n]
    /\ \A i \in I: \E n \in 1..Len(list): o[n] = i
    /\ \A n \in 1..Len(list): list[n] = F[o[n]]

\* ... in the order of I.
Spread(list, o, I, F) ==
    /\ Picks(list, o, I, F)
    /\ \A m, n \in 1..Len(list): m < n => o[m] < o[n]

\* A function on 1..n is a sequence of its values.
LEMMA ListOf ==
    ASSUME NEW n \in Nat, NEW f, f = [i \in 1..n |-> f[i]]
    PROVE  f \in Seq({f[i]: i \in 1..n}) /\ Len(f) = n
<1> DEFINE S == {f[i]: i \in 1..n}
<1>1. \A i \in 1..n: f[i] \in S
  OBVIOUS
<1> HIDE DEF S
<1>2. f \in [1..n -> S]
  BY <1>1
<1>3. f \in Seq(S) /\ Len(f) = n
  BY <1>2, FunctionIsSeq
<1> QED BY <1>3 DEF S

LEMMA FlattenIs ==
    ASSUME NEW S, NEW s \in Seq(Seq(S))
    PROVE  FlattenSeq(s) \in Seq(S) /\ Len(FlattenSeq(s)) \in Nat
<1>1. Len(s) \in 0..Len(s)
  BY LenProperties
<1>2. FlattenSeq(s) \in Seq(S)
  BY <1>1, UptoStep
<1> QED BY <1>2, LenProperties

\* Pieces of one element at most, flattened.
LEMMA FlattenPicks ==
    ASSUME NEW S, NEW s \in Seq(Seq(S)), NEW I, NEW F, NEW c,
           \A m \in 1..Len(s): s[m] # <<>> => c[m] \in I /\ s[m] = <<F[c[m]]>>,
           \A m, n \in 1..Len(s): s[m] # <<>> /\ s[n] # <<>> /\ m # n => c[m] # c[n],
           \A i \in I: \E m \in 1..Len(s): s[m] # <<>> /\ c[m] = i
    PROVE  FlattenSeq(s) \in Seq(S) /\ \E o: Picks(FlattenSeq(s), o, I, F)
<1> DEFINE w == FlattenSeq(s)
           N == Len(w)
           at(m) == Len(Upto(s, m - 1))
           From(p, m) == /\ m \in 1..Len(s) /\ s[m] # <<>> /\ at(m) + 1 = p
                         /\ w[p] = F[c[m]] /\ c[m] \in I
           from == [p \in 1..N |-> CHOOSE m \in 1..Len(s): From(p, m)]
           o == [p \in 1..N |-> c[from[p]]]
<1>1. w \in Seq(S) /\ Len(s) \in Nat /\ N \in Nat
  BY FlattenIs, LenProperties
<1>10. ASSUME NEW m \in 1..Len(s)
       PROVE  /\ at(m) \in Nat /\ at(m) + Len(s[m]) <= N
              /\ \A j \in 1..Len(s[m]): w[at(m) + j] = s[m][j]
  <2>1. /\ Len(Upto(s, m - 1)) \in Nat
        /\ Len(Upto(s, m - 1)) + Len(s[m]) <= Len(FlattenSeq(s))
        /\ \A j \in 1..Len(s[m]): FlattenSeq(s)[Len(Upto(s, m - 1)) + j] = s[m][j]
    <3>1. m \in 1..Len(s)
      OBVIOUS
    <3> HIDE DEF at, From, from, o, w, N
    <3> QED BY ONLY <3>1, s \in Seq(Seq(S)), FlattenPlaces
  <2> QED BY <2>1
<1>11. ASSUME NEW p \in 1..N
       PROVE  \E m \in 1..Len(s): \E j \in 1..Len(s[m]): p = at(m) + j /\ w[p] = s[m][j]
  <2>1. p \in 1..Len(FlattenSeq(s))
    OBVIOUS
  <2>2. \E m \in 1..Len(s): \E j \in 1..Len(s[m]):
           p = Len(Upto(s, m - 1)) + j /\ FlattenSeq(s)[p] = s[m][j]
    <3> HIDE DEF at, From, from, o, w, N
    <3> QED BY ONLY <2>1, s \in Seq(Seq(S)), FlattenFrom
  <2> QED BY <2>2
<1>2. ASSUME NEW m \in 1..Len(s), s[m] # <<>>
      PROVE  Len(s[m]) = 1 /\ s[m][1] = F[c[m]] /\ at(m) + 1 \in 1..N /\ From(at(m) + 1, m)
  <2>1. s[m] = <<F[c[m]]>> /\ c[m] \in I
    BY <1>2
  <2>2. Len(s[m]) = 1 /\ s[m][1] = F[c[m]]
    BY <2>1
  <2>3. /\ at(m) \in Nat /\ at(m) + Len(s[m]) <= N
        /\ \A j \in 1..Len(s[m]): w[at(m) + j] = s[m][j]
    BY <1>10
  <2> HIDE DEF at, w
  <2>4. at(m) + 1 \in 1..N
    BY <1>1, <2>2, <2>3
  <2>5. w[at(m) + 1] = F[c[m]]
    BY <2>2, <2>3
  <2> QED BY <1>2, <2>1, <2>2, <2>4, <2>5
<1>3. ASSUME NEW p \in 1..N PROVE \E m \in 1..Len(s): From(p, m)
  <2>1. PICK m \in 1..Len(s): \E j \in 1..Len(s[m]): p = at(m) + j /\ w[p] = s[m][j]
    BY <1>11
  <2>2. PICK j \in 1..Len(s[m]): p = at(m) + j /\ w[p] = s[m][j]
    BY <2>1
  <2>3. s[m] # <<>>
    <3>1. s[m] \in Seq(S)
      BY ElementOfSeq
    <3>2. Len(s[m]) # 0
      BY <2>2, <3>1, LenProperties
    <3> QED BY <3>1, <3>2, EmptySeq
  <2>4. j = 1
    <3>1. Len(s[m]) = 1
      BY <1>2, <2>3
    <3> QED BY ONLY <2>2, <3>1
  <2>5. p = at(m) + 1
    BY <2>2, <2>4
  <2> HIDE DEF at, From
  <2> QED BY <1>2, <2>3, <2>5
<1> HIDE DEF w, N, at
<1>4. \A p \in 1..N: from[p] \in 1..Len(s) /\ From(from[p], from[p]) = From(from[p], from[p])
                     /\ From(p, from[p])
  <2> HIDE DEF From
  <2> QED BY <1>3
<1> HIDE DEF from
<1>5. \A p \in 1..N: /\ from[p] \in 1..Len(s) /\ s[from[p]] # <<>> /\ at(from[p]) + 1 = p
                     /\ w[p] = F[c[from[p]]] /\ c[from[p]] \in I /\ o[p] = c[from[p]]
  BY <1>4
<1>6. \A p, q \in 1..N: p # q => o[p] # o[q]
  <2> SUFFICES ASSUME NEW p \in 1..N, NEW q \in 1..N, p # q PROVE o[p] # o[q]
    OBVIOUS
  <2>1. from[p] # from[q]
    BY <1>5
  <2>2. /\ from[p] \in 1..Len(s) /\ s[from[p]] # <<>> /\ o[p] = c[from[p]]
        /\ from[q] \in 1..Len(s) /\ s[from[q]] # <<>> /\ o[q] = c[from[q]]
    BY <1>5
  <2> HIDE DEF o
  <2>3. c[from[p]] # c[from[q]]
    BY <2>1, <2>2
  <2> QED BY <2>2, <2>3
<1>7. \A i \in I: \E p \in 1..N: o[p] = i
  <2> SUFFICES ASSUME NEW i \in I PROVE \E p \in 1..N: o[p] = i
    OBVIOUS
  <2>1. PICK m \in 1..Len(s): s[m] # <<>> /\ c[m] = i
    OBVIOUS
  <2> DEFINE p == at(m) + 1
             k == from[p]
  <2>2. p \in 1..N
    BY <1>2, <2>1
  <2>3. /\ k \in 1..Len(s) /\ s[k] # <<>> /\ at(k) + 1 = at(m) + 1 /\ o[p] = c[k]
    BY <1>5, <2>2
  <2>4. at(k) \in Nat /\ at(m) \in Nat
    BY <1>10, <2>3
  <2>5. ~ (k < m) /\ ~ (m < k)
    <3>1. ASSUME NEW a \in 1..Len(s), NEW b \in 1..Len(s), s[a] # <<>>, a < b
          PROVE  at(a) < at(b)
      <4>1. a \in 0..Len(s) /\ b - 1 \in a..Len(s)
        BY <1>1, <3>1
      <4>2. Len(Upto(s, a)) <= at(b)
        BY <4>1, UptoKeeps DEF at
      <4>3. Len(Upto(s, a)) = at(a) + Len(s[a])
        BY PieceOf DEF at
      <4>4. Len(s[a]) = 1 /\ at(a) \in Nat /\ at(b) \in Nat
        BY <1>2, <1>10, <3>1
      <4> QED BY <4>2, <4>3, <4>4
    <3>2. k < m => at(k) < at(m)
      BY <2>3, <3>1
    <3>3. m < k => at(m) < at(k)
      BY <2>1, <2>3, <3>1
    <3> QED BY <2>3, <2>4, <3>2, <3>3
  <2>6. k = m
    BY <1>1, <2>3, <2>5
  <2> QED BY <2>1, <2>2, <2>3, <2>6
<1>8. o \in [1..N -> I] /\ \A p \in 1..N: w[p] = F[o[p]]
  BY <1>5
<1> HIDE DEF o
<1>9. Picks(w, o, I, F)
  BY <1>6, <1>7, <1>8 DEF Picks, N
<1> QED BY <1>1, <1>9 DEF w

\* Two lists of different things, one behind the other.
LEMMA JoinPicks ==
    ASSUME NEW S, NEW s \in Seq(S), NEW t \in Seq(S), NEW I, NEW J, I \cap J = {},
           NEW F, NEW o, Picks(s, o, I, F), NEW q, Picks(t, q, J, F)
    PROVE  s \o t \in Seq(S) /\ \E r: Picks(s \o t, r, I \cup J, F)
<1> DEFINE a == Len(s)
           b == Len(t)
           u == s \o t
           r == [n \in 1..(a + b) |-> IF n <= a THEN o[n] ELSE q[n - a]]
<1>1. /\ a \in Nat /\ b \in Nat /\ u \in Seq(S) /\ Len(u) = a + b
      /\ \A n \in 1..(a + b): u[n] = IF n <= a THEN s[n] ELSE t[n - a]
  BY ConcatProperties, LenProperties
<1>2. /\ \A n \in 1..a: o[n] \in I /\ s[n] = F[o[n]]
      /\ \A m, n \in 1..a: m # n => o[m] # o[n]
      /\ \A i \in I: \E n \in 1..a: o[n] = i
  BY DEF Picks
<1>3. /\ \A n \in 1..b: q[n] \in J /\ t[n] = F[q[n]]
      /\ \A m, n \in 1..b: m # n => q[m] # q[n]
      /\ \A i \in J: \E n \in 1..b: q[n] = i
  BY DEF Picks
<1> HIDE DEF a, b, u
<1>4. ASSUME NEW n \in 1..(a + b)
      PROVE  \/ n \in 1..a /\ r[n] = o[n] /\ u[n] = s[n]
             \/ ~ (n <= a) /\ n - a \in 1..b /\ r[n] = q[n - a] /\ u[n] = t[n - a]
  BY <1>1
<1>5. /\ \A n \in 1..a: n \in 1..(a + b) /\ r[n] = o[n]
      /\ \A n \in 1..b: a + n \in 1..(a + b) /\ r[a + n] = q[n]
  <2>1. \A n \in 1..a: n \in 1..(a + b) /\ n <= a
    BY <1>1
  <2>2. \A n \in 1..b: a + n \in 1..(a + b) /\ ~ (a + n <= a) /\ (a + n) - a = n
    BY <1>1
  <2> QED BY <2>1, <2>2
<1>6. r = [n \in 1..(a + b) |-> r[n]]
  OBVIOUS
<1> HIDE DEF r
<1>7. r \in [1..(a + b) -> I \cup J] /\ \A n \in 1..(a + b): u[n] = F[r[n]]
  <2>1. \A n \in 1..(a + b): r[n] \in I \cup J /\ u[n] = F[r[n]]
    BY <1>2, <1>3, <1>4
  <2> QED BY <1>6, <2>1
<1>8. ASSUME NEW m \in 1..(a + b), NEW n \in 1..(a + b), m # n PROVE r[m] # r[n]
  <2>1. CASE m \in 1..a /\ r[m] = o[m]
    <3>1. CASE n \in 1..a /\ r[n] = o[n]
      BY <1>2, <1>8, <2>1, <3>1
    <3>2. CASE n - a \in 1..b /\ r[n] = q[n - a]
      <4>1. r[m] \in I /\ r[n] \in J
        BY <1>2, <1>3, <2>1, <3>2
      <4> QED BY <4>1
    <3> QED BY <1>4, <3>1, <3>2
  <2>2. CASE m - a \in 1..b /\ r[m] = q[m - a]
    <3>1. CASE n \in 1..a /\ r[n] = o[n]
      <4>1. r[n] \in I /\ r[m] \in J
        BY <1>2, <1>3, <2>2, <3>1
      <4> QED BY <4>1
    <3>2. CASE n - a \in 1..b /\ r[n] = q[n - a]
      <4>1. m - a # n - a
        BY <1>1, <1>8
      <4> QED BY <1>3, <2>2, <3>2, <4>1
    <3> QED BY <1>4, <3>1, <3>2
  <2> QED BY <1>4, <2>1, <2>2
<1>9. ASSUME NEW i \in I \cup J PROVE \E n \in 1..(a + b): r[n] = i
  <2>1. CASE i \in I
    BY <1>2, <1>5, <2>1
  <2>2. CASE i \in J
    <3>1. PICK n \in 1..b: q[n] = i
      BY <1>3, <2>2
    <3>2. a + n \in 1..(a + b) /\ r[a + n] = i
      BY <1>5, <3>1
    <3> QED BY <3>2
  <2> QED BY <2>1, <2>2
<1>10. Picks(u, r, I \cup J, F)
  BY <1>1, <1>7, <1>8, <1>9 DEF Picks
<1> QED BY <1>1, <1>10 DEF u

\* Spans of different tokens, sorted: in the order of their tokens.
LEMMA SortedPicks ==
    ASSUME NEW raws \in Seq(Seq(Byte)), NEW I, I \subseteq 1..Len(raws), NEW F,
           \A i \in I: raws[i] # <<>> /\ F[i].start = Len(Upto(raws, i - 1)),
           NEW S, NEW list \in Seq(S), NEW o, Picks(list, o, I, F)
    PROVE  /\ Sorted(list) \in Seq(S) /\ Len(Sorted(list)) = Len(list)
           /\ \E q: Spread(Sorted(list), q, I, F)
<1> DEFINE N == Len(list)
           t == Sorted(list)
           at(i) == Len(Upto(raws, i - 1))
<1>1. N \in Nat
  BY LenProperties
<1>2. ASSUME NEW i \in I, NEW j \in I, i < j PROVE at(i) < at(j)
  <2>1. i \in 1..Len(raws) /\ j \in 1..Len(raws) /\ Len(raws) \in Nat
    BY LenProperties
  <2>2. i \in 0..Len(raws) /\ j - 1 \in i..Len(raws)
    BY <1>2, <2>1
  <2>3. Len(Upto(raws, i)) <= at(j)
    BY <2>2, UptoKeeps
  <2>4. Len(Upto(raws, i)) = at(i) + Len(raws[i])
    BY <2>1, PieceOf
  <2>5. raws[i] \in Seq(Byte) /\ raws[i] # <<>>
    BY <2>1, ElementOfSeq
  <2>6. Len(raws[i]) \in Nat /\ Len(raws[i]) # 0
    BY <2>5, EmptySeq, LenProperties
  <2>7. at(i) \in Nat /\ at(j) \in Nat
    BY <2>1, FlattenPlaces
  <2> HIDE DEF at
  <2> QED BY ONLY <2>3, <2>4, <2>6, <2>7
<1>3. \A i \in I: i \in Nat /\ at(i) \in Nat /\ F[i].start = at(i)
  <2>1. \A i \in 1..Len(raws): at(i) \in Nat
    BY FlattenPlaces
  <2> HIDE DEF at
  <2>2. \A i \in 1..Len(raws): i \in Nat
    OBVIOUS
  <2> QED BY <2>1, <2>2 DEF at
<1>4. /\ \A n \in 1..N: o[n] \in I /\ list[n] = F[o[n]]
      /\ \A m, n \in 1..N: m # n => o[m] # o[n]
      /\ \A i \in I: \E n \in 1..N: o[n] = i
  BY DEF Picks
<1> HIDE DEF at
<1>5. \A i, j \in I: i # j => at(i) # at(j)
  <2> SUFFICES ASSUME NEW i \in I, NEW j \in I, i # j PROVE at(i) # at(j)
    OBVIOUS
  <2>1. i < j \/ j < i
    BY <1>3
  <2>2. at(i) < at(j) \/ at(j) < at(i)
    BY <1>2, <2>1
  <2> QED BY <1>3, <2>2
<1>6. /\ \A n \in 1..N: list[n].start \in Int
      /\ \A m, n \in 1..N: m # n => list[m].start # list[n].start
  <2>1. \A n \in 1..N: o[n] \in I /\ list[n].start = at(o[n]) /\ at(o[n]) \in Nat
    BY <1>3, <1>4
  <2>2. \A m, n \in 1..N: m # n => at(o[m]) # at(o[n])
    BY <1>4, <1>5, <2>1
  <2>3. \A k \in Nat: k \in Int
    OBVIOUS
  <2> QED BY <2>1, <2>2, <2>3
<1>7. /\ t \in Seq(S) /\ Len(t) = N
      /\ \A m, n \in 1..N: m < n => t[m].start < t[n].start
      /\ \A n \in 1..N: \E k \in 1..N: t[n] = list[k]
      /\ \A k \in 1..N: \E n \in 1..N: t[n] = list[k]
  BY <1>6, SortedIs
<1> HIDE DEF t, N
<1> DEFINE q == [n \in 1..N |-> CHOOSE i \in I: t[n] = F[i]]
<1>8. \A n \in 1..N: q[n] \in I /\ t[n] = F[q[n]]
  <2> SUFFICES ASSUME NEW n \in 1..N PROVE \E i \in I: t[n] = F[i]
    OBVIOUS
  <2>1. PICK k \in 1..N: t[n] = list[k]
    BY <1>7
  <2>2. o[k] \in I /\ t[n] = F[o[k]]
    BY <1>4, <2>1
  <2> QED BY <2>2
<1>9. q \in [1..N -> I]
  BY <1>8
<1> HIDE DEF q
<1>10. ASSUME NEW m \in 1..N, NEW n \in 1..N, m < n PROVE q[m] < q[n]
  <2>1. at(q[m]) < at(q[n])
    <3>1. t[m].start < t[n].start
      BY <1>7, <1>10
    <3>2. t[m].start = at(q[m]) /\ t[n].start = at(q[n])
      BY <1>3, <1>8
    <3> QED BY <3>1, <3>2
  <2>2. q[m] \in I /\ q[n] \in I
    BY <1>8
  <2>3. q[m] \in Nat /\ q[n] \in Nat /\ at(q[m]) \in Nat /\ at(q[n]) \in Nat
    BY <1>3, <2>2
  <2>4. ~ (q[n] < q[m])
    <3>1. q[n] < q[m] => at(q[n]) < at(q[m])
      BY <1>2, <2>2
    <3> QED BY <2>1, <2>3, <3>1
  <2>5. q[m] # q[n]
    BY <2>1, <2>3
  <2> QED BY <2>3, <2>4, <2>5
<1>11. ASSUME NEW m \in 1..N, NEW n \in 1..N, m # n PROVE q[m] # q[n]
  <2>1. m < n \/ n < m
    BY <1>1, <1>11
  <2>2. q[m] < q[n] \/ q[n] < q[m]
    BY <1>10, <2>1
  <2>3. q[m] \in Nat /\ q[n] \in Nat
    BY <1>3, <1>8
  <2> QED BY <2>2, <2>3
<1>12. ASSUME NEW i \in I PROVE \E n \in 1..N: q[n] = i
  <2>1. PICK k \in 1..N: o[k] = i
    BY <1>4
  <2>2. PICK n \in 1..N: t[n] = list[k]
    BY <1>7
  <2>3. F[q[n]] = F[i] /\ q[n] \in I
    BY <1>4, <1>8, <2>1, <2>2
  <2>4. at(q[n]) = at(i)
    BY <1>3, <2>3
  <2>5. q[n] = i
    BY <1>5, <2>3, <2>4
  <2> QED BY <2>5
<1>13. Spread(t, q, I, F)
  <2>1. Picks(t, q, I, F)
    BY <1>7, <1>8, <1>9, <1>11, <1>12 DEF Picks
  <2> QED BY <1>7, <1>10, <2>1 DEF Spread
<1> QED BY <1>7, <1>13 DEF t, N

-----------------------------------------------------------------------------
(* Segments and their tokens. *)

Raws(segments) == [i \in DOMAIN segments |-> segments[i].raw]

LEMMA PieceIs ==
    ASSUME NEW p \in Piece
    PROVE  /\ p.raw \in Seq(Byte) /\ p.text \in Seq(Byte)
           /\ p.kind \in {"raw", "text", "tool", "nested", "carrier"}
           /\ p.kind = "carrier" => p.inner \in Seq(Plain)
           /\ DOMAIN p = {"kind", "tool", "raw", "text", "inner"}
<1>1. CASE p \in Segments({"raw", "text", "tool", "nested"}, {<<>>})
  BY <1>1 DEF Segments
<1>2. CASE p \in Segments({"carrier"}, Seq(Plain))
  BY <1>2 DEF Segments
<1> QED BY <1>1, <1>2 DEF Piece

LEMMA PlainIs ==
    ASSUME NEW p \in Plain
    PROVE  p \in Piece /\ p.kind \in {"raw", "text"}
<1>1. p \in Segments({"raw", "text"}, {<<>>})
  BY DEF Plain
<1>2. p.kind \in {"raw", "text"} /\ p \in Segments({"raw", "text", "tool", "nested"}, {<<>>})
  BY <1>1 DEF Segments
<1> QED BY <1>2 DEF Piece

LEMMA PlainsArePieces ==
    ASSUME NEW s \in Seq(Plain)
    PROVE  s \in Seq(Piece)
<1>1. Len(s) \in Nat /\ s \in [1..Len(s) -> Plain]
  BY LenProperties
<1>2. \A p \in Plain: p \in Piece
  BY PlainIs
<1>3. s \in [1..Len(s) -> Piece]
  BY <1>1, <1>2
<1> QED BY <1>1, <1>3, FunctionIsSeq

LEMMA RawsAre ==
    ASSUME NEW s \in Seq(Piece)
    PROVE  /\ Len(s) \in Nat /\ DOMAIN s = 1..Len(s)
           /\ Raws(s) \in Seq(Seq(Byte)) /\ Len(Raws(s)) = Len(s)
           /\ \A i \in 1..Len(s): s[i] \in Piece /\ Raws(s)[i] = s[i].raw
           /\ Render(s) = FlattenSeq(Raws(s))
           /\ Render(s) \in Seq(Byte)
<1>1. Len(s) \in Nat /\ DOMAIN s = 1..Len(s) /\ \A i \in 1..Len(s): s[i] \in Piece
  BY LenProperties, ElementOfSeq
<1>2. \A i \in 1..Len(s): s[i].raw \in Seq(Byte)
  BY <1>1, PieceIs
<1>3. Raws(s) \in [1..Len(s) -> Seq(Byte)] /\ \A i \in 1..Len(s): Raws(s)[i] = s[i].raw
  BY <1>1, <1>2 DEF Raws
<1>4. Raws(s) \in Seq(Seq(Byte)) /\ Len(Raws(s)) = Len(s)
  BY <1>1, <1>3, FunctionIsSeq
<1>5. Render(s) = FlattenSeq(Raws(s))
  BY DEF Render, Raws
<1>6. FlattenSeq(Raws(s)) \in Seq(Byte)
  BY <1>4, FlattenIs
<1> QED BY <1>1, <1>3, <1>4, <1>5, <1>6

\* Offsets are those of the pieces.
LEMMA StartIs ==
    ASSUME NEW s \in Seq(Piece), NEW i \in 1..Len(s)
    PROVE  /\ StartOf(s, i) = Len(Upto(Raws(s), i - 1))
           /\ StartOf(s, i) + Len(s[i].raw) = Len(Upto(Raws(s), i))
<1> DEFINE r == Raws(s)
           f == [k \in 1..(i - 1) |-> s[k].raw]
<1>1. /\ Len(s) \in Nat /\ r \in Seq(Seq(Byte)) /\ Len(r) = Len(s)
      /\ \A k \in 1..Len(s): r[k] = s[k].raw
  BY RawsAre
<1> HIDE DEF r
<1>2. SubSeq(r, 1, i - 1) = f
  <2>1. i - 1 \in Nat /\ 0 + (i - 1) = i - 1 /\ 0 + 1 = 1 /\ \A k \in 1..(i - 1): 0 + k = k
    BY <1>1
  <2>2. SubSeq(r, 0 + 1, 0 + (i - 1)) = [k \in 1..(i - 1) |-> r[0 + k]]
    BY <2>1, PartIs
  <2>3. \A k \in 1..(i - 1): k \in 1..Len(s)
    BY <1>1
  <2>4. [k \in 1..(i - 1) |-> r[0 + k]] = f
    BY <1>1, <2>1, <2>3
  <2> HIDE DEF f
  <2> QED BY <2>1, <2>2, <2>4
<1>3. StartOf(s, i) = Len(Upto(r, i - 1))
  BY <1>2 DEF StartOf, Upto
<1>4. i \in 1..Len(r)
  BY <1>1
<1>5. Len(Upto(r, i)) = Len(Upto(r, i - 1)) + Len(r[i])
  BY <1>1, <1>4, PieceOf
<1> QED BY <1>1, <1>3, <1>5 DEF r

LEMMA SpanAtIs ==
    ASSUME NEW s, NEW i, NEW id
    PROVE  LET span == SpanAt(s, i, id)
           IN  /\ span.id = id /\ span.text = s[i].text
               /\ span.start = StartOf(s, i) /\ span.end = StartOf(s, i) + Len(s[i].raw)
               /\ span.changed = FALSE /\ span.encoded = FALSE
               /\ span.nested = <<>> /\ span.children = <<>>
               /\ DOMAIN span = {"id", "start", "end", "text", "changed", "nested", "encoded", "children"}
BY DEF SpanAt

\* What applyMode makes of one span.
After1(s) == [s EXCEPT !.text = rewrites[s.id], !.changed = rewrites[s.id] # s.text]

LEMMA After1Is ==
    ASSUME NEW s,
           DOMAIN s = {"id", "start", "end", "text", "changed", "nested", "encoded", "children"}
    PROVE  LET t == After1(s)
           IN  /\ t.id = s.id /\ t.start = s.start /\ t.end = s.end
               /\ t.text = rewrites[s.id] /\ t.changed = (rewrites[s.id] # s.text)
               /\ t.nested = s.nested /\ t.encoded = s.encoded /\ t.children = s.children
BY DEF After1

\* A body the instance holds, and its rewrites.
Input == body \in Documents /\ rewrites \in [Ids(body) -> NewTexts]

LEMMA BodyIs ==
    ASSUME Input
    PROVE  /\ body \in Seq(Piece)
           /\ \A i \in 1..Len(body):
                 /\ body[i] \in Piece
                 /\ body[i].kind # "raw" => body[i].raw # <<>>
                 /\ body[i].kind = "carrier" =>
                       /\ body[i].inner \in Seq(Plain)
                       /\ body[i] = Carrier(body[i].inner)
                       /\ body[i].text = Render(body[i].inner)
                       /\ body[i].raw = Encode(Render(body[i].inner))
                       /\ \A k \in 1..Len(body[i].inner):
                             body[i].inner[k].kind = "text" => body[i].inner[k].raw # <<>>
           /\ \A i, j \in 1..Len(body): \A k \in NestedOf(body, i): \A m \in NestedOf(body, j):
                 i = j <=> k = m
<1>1. WellFormed(body)
  BY RebuildAssumption DEF Input
<1>2. body \in Seq(Piece)
  BY <1>1 DEF WellFormed
<1>3. DOMAIN body = 1..Len(body) /\ \A i \in 1..Len(body): body[i] \in Piece
  BY <1>2, RawsAre
<1>4. ASSUME NEW i \in 1..Len(body), body[i].kind = "carrier"
      PROVE  /\ body[i].inner \in Seq(Plain)
             /\ body[i] = Carrier(body[i].inner)
             /\ body[i].text = Render(body[i].inner)
             /\ body[i].raw = Encode(Render(body[i].inner))
             /\ \A k \in 1..Len(body[i].inner):
                   body[i].inner[k].kind = "text" => body[i].inner[k].raw # <<>>
  <2>1. body[i].inner \in Seq(Plain)
    BY <1>3, <1>4, PieceIs
  <2>2. /\ body[i] = Carrier(body[i].inner)
        /\ \A k \in DOMAIN body[i].inner:
              body[i].inner[k].kind = "text" => body[i].inner[k].raw # <<>>
    BY <1>1, <1>3, <1>4 DEF WellFormed
  <2>3. DOMAIN body[i].inner = 1..Len(body[i].inner)
    BY <2>1, LenProperties
  <2> DEFINE n == body[i].inner
  <2>4. Carrier(n).text = Render(n) /\ Carrier(n).raw = Encode(Render(n))
    BY DEF Carrier, Segment
  <2> QED BY <2>1, <2>2, <2>3, <2>4
<1>5. \A i \in 1..Len(body): body[i].kind # "raw" => body[i].raw # <<>>
  BY <1>1, <1>3 DEF WellFormed
<1>6. \A i, j \in 1..Len(body): \A k \in NestedOf(body, i): \A m \in NestedOf(body, j):
         i = j <=> k = m
  BY <1>1, <1>3 DEF WellFormed
<1> QED BY <1>2, <1>3, <1>4, <1>5, <1>6

\* Every text has a rewrite, and it is a text.
LEMMA RewritesAre ==
    ASSUME Input
    PROVE  /\ \A i \in 1..Len(body): body[i].kind \in TextKinds => rewrites[<<i>>] \in Seq(Byte)
           /\ \A i \in 1..Len(body): body[i].kind = "carrier" =>
                 \A k \in 1..Len(body[i].inner):
                    body[i].inner[k].kind = "text" => rewrites[<<i, k>>] \in Seq(Byte)
<1>1. DOMAIN body = 1..Len(body)
  BY BodyIs, RawsAre
<1>2. \A id \in Ids(body): rewrites[id] \in Seq(Byte)
  BY RebuildAssumption DEF Input
<1>3. \A i \in 1..Len(body): body[i].kind \in TextKinds => <<i>> \in Ids(body)
  BY <1>1 DEF Ids
<1>4. ASSUME NEW i \in 1..Len(body), body[i].kind = "carrier",
             NEW k \in 1..Len(body[i].inner), body[i].inner[k].kind = "text"
      PROVE  <<i, k>> \in Ids(body)
  <2>1. DOMAIN body[i].inner = 1..Len(body[i].inner)
    BY <1>4, BodyIs, LenProperties
  <2> QED BY <1>1, <1>4, <2>1 DEF Ids
<1> QED BY <1>2, <1>3, <1>4

LEMMA AppliedIs ==
    ASSUME NEW S, NEW list \in Seq(S)
    PROVE  /\ Len(Applied(list)) = Len(list) /\ DOMAIN Applied(list) = 1..Len(list)
           /\ \A n \in 1..Len(list): Applied(list)[n] = After1(list[n])
           /\ Applied(list) \in Seq({Applied(list)[n]: n \in 1..Len(list)})
<1>1. Len(list) \in Nat /\ DOMAIN list = 1..Len(list)
  BY LenProperties
<1>2. Applied(list) = [n \in 1..Len(list) |-> After1(list[n])]
  BY <1>1 DEF Applied, After1
<1> DEFINE f == Applied(list)
<1>3. f = [n \in 1..Len(list) |-> f[n]] /\ \A n \in 1..Len(list): f[n] = After1(list[n])
  BY <1>2
<1> HIDE DEF f
<1>4. f \in Seq({f[n]: n \in 1..Len(list)}) /\ Len(f) = Len(list)
  BY <1>1, <1>3, ListOf
<1>5. DOMAIN f = 1..Len(list)
  BY <1>3
<1> QED BY <1>3, <1>4, <1>5 DEF f

\* applyMode changes the spans where they are.
LEMMA AppliedPicks ==
    ASSUME NEW S, NEW list \in Seq(S), NEW I, NEW F, NEW o, Picks(list, o, I, F)
    PROVE  Picks(Applied(list), o, I, [i \in I |-> After1(F[i])])
<1> DEFINE G == [i \in I |-> After1(F[i])]
           t == Applied(list)
<1>1. Len(t) = Len(list) /\ \A n \in 1..Len(list): t[n] = After1(list[n])
  BY AppliedIs
<1>2. \A n \in 1..Len(list): o[n] \in I /\ list[n] = F[o[n]]
  BY DEF Picks
<1>3. \A n \in 1..Len(list): t[n] = G[o[n]]
  BY <1>1, <1>2
<1> HIDE DEF G, t
<1>4. Picks(t, o, I, G)
  BY <1>1, <1>3 DEF Picks
<1> QED BY <1>4 DEF G, t

LEMMA AppliedSpread ==
    ASSUME NEW S, NEW list \in Seq(S), NEW I, NEW F, NEW o, Spread(list, o, I, F)
    PROVE  Spread(Applied(list), o, I, [i \in I |-> After1(F[i])])
<1>1. Picks(list, o, I, F) /\ \A m, n \in 1..Len(list): m < n => o[m] < o[n]
  BY DEF Spread
<1>2. Picks(Applied(list), o, I, [i \in I |-> After1(F[i])])
  BY <1>1, AppliedPicks
<1>3. Len(Applied(list)) = Len(list)
  BY AppliedIs
<1> HIDE <1>1
<1> QED BY <1>1, <1>2, <1>3 DEF Spread

\* Spans in order, each of a token of its own.
LEMMA SpreadOwned ==
    ASSUME NEW raws \in Seq(Seq(Byte)), NEW I, I \subseteq 1..Len(raws), NEW F,
           \A i \in I: /\ raws[i] # <<>>
                       /\ F[i].start = Len(Upto(raws, i - 1)) /\ F[i].end = Len(Upto(raws, i))
                       /\ F[i].changed \in BOOLEAN /\ F[i].text \in Seq(Byte),
           NEW list, NEW o, Spread(list, o, I, F)
    PROVE  Owned(list, o, raws)
<1>1. /\ o \in [1..Len(list) -> I] /\ \A n \in 1..Len(list): list[n] = F[o[n]]
      /\ \A m, n \in 1..Len(list): m < n => o[m] < o[n]
  BY DEF Spread, Picks
<1>2. o \in [1..Len(list) -> 1..Len(raws)]
  BY <1>1
<1>3. \A n \in 1..Len(list): o[n] \in I /\ list[n] = F[o[n]]
  BY <1>1
<1> QED BY <1>1, <1>2, <1>3 DEF Owned

-----------------------------------------------------------------------------
(* The span of a text. *)

LEMMA TextSpanIs ==
    ASSUME Input, NEW i \in 1..Len(body), body[i].kind # "carrier"
    PROVE  LET span == SpanFor(i)
           IN  /\ span.id = <<i>> /\ span.text = body[i].text
               /\ span.start = Len(Upto(Raws(body), i - 1))
               /\ span.end = Len(Upto(Raws(body), i))
               /\ span.changed = FALSE /\ span.encoded = FALSE
               /\ NestedOf(body, i) = {} => span.nested = <<>>
               /\ \A k \in NestedOf(body, i): span.nested = <<SpanAt(body, k, <<k>>)>>
               /\ DOMAIN span = {"id", "start", "end", "text", "changed", "nested", "encoded",
                                 "children"}
<1> DEFINE at == SpanAt(body, i, <<i>>)
           below == NestedOf(body, i)
           nested == CHOOSE k \in below: TRUE
           under == IF below = {} THEN <<>> ELSE <<SpanAt(body, nested, <<nested>>)>>
           span == SpanFor(i)
<1>1. span = [at EXCEPT !.nested = under]
  BY DEF SpanFor, TextSpan
<1>2. /\ at.id = <<i>> /\ at.text = body[i].text
      /\ at.start = StartOf(body, i) /\ at.end = StartOf(body, i) + Len(body[i].raw)
      /\ at.changed = FALSE /\ at.encoded = FALSE
      /\ DOMAIN at = {"id", "start", "end", "text", "changed", "nested", "encoded", "children"}
  BY DEF SpanAt
<1>3. /\ StartOf(body, i) = Len(Upto(Raws(body), i - 1))
      /\ StartOf(body, i) + Len(body[i].raw) = Len(Upto(Raws(body), i))
  BY BodyIs, StartIs
<1>4. ASSUME NEW k \in below PROVE under = <<SpanAt(body, k, <<k>>)>>
  <2>1. nested \in below
    BY <1>4
  <2>2. nested = k
    BY <1>4, <2>1, BodyIs
  <2>3. below # {}
    BY <1>4
  <2> HIDE DEF below, nested
  <2> QED BY <2>2, <2>3
<1>5. below = {} => under = <<>>
  OBVIOUS
<1> HIDE DEF at, under, span
<1>6. /\ span.id = at.id /\ span.text = at.text /\ span.start = at.start /\ span.end = at.end
      /\ span.changed = at.changed /\ span.encoded = at.encoded /\ span.nested = under
      /\ DOMAIN span = DOMAIN at
  BY <1>1, <1>2
<1> QED BY <1>2, <1>3, <1>4, <1>5, <1>6 DEF span

-----------------------------------------------------------------------------
(* The span of a carrier. *)

\* The texts in a carrier and their spans.
TextsIn(i) == {k \in 1..Len(body[i].inner): body[i].inner[k].kind = "text"}
Child(i) == [k \in TextsIn(i) |-> SpanAt(body[i].inner, k, <<i, k>>)]

LEMMA CarrierSpanIs ==
    ASSUME Input, NEW i \in 1..Len(body), body[i].kind = "carrier"
    PROVE  LET span == SpanFor(i)
           IN  /\ span.id = <<i>> /\ span.text = Render(body[i].inner)
               /\ span.start = Len(Upto(Raws(body), i - 1))
               /\ span.end = Len(Upto(Raws(body), i))
               /\ span.changed = FALSE /\ span.encoded = TRUE /\ span.nested = <<>>
               /\ span.children = FlattenSeq([k \in 1..Len(body[i].inner) |->
                     IF k \in TextsIn(i) THEN <<Child(i)[k]>> ELSE <<>>])
               /\ DOMAIN span = {"id", "start", "end", "text", "changed", "nested", "encoded",
                                 "children"}
<1> DEFINE at == SpanAt(body, i, <<i>>)
           inner == body[i].inner
           pieces == [k \in 1..Len(inner) |-> IF k \in TextsIn(i) THEN <<Child(i)[k]>> ELSE <<>>]
           children == FlattenSeq(pieces)
           span == SpanFor(i)
<1>1. inner \in Seq(Plain) /\ body[i].text = Render(inner)
  BY BodyIs
<1>2. DOMAIN inner = 1..Len(inner)
  BY <1>1, LenProperties
<1>3. pieces = [k \in DOMAIN inner |->
                   IF inner[k].kind = "text" THEN <<SpanAt(inner, k, <<i, k>>)>> ELSE <<>>]
  BY <1>2 DEF TextsIn, Child
<1> HIDE DEF pieces
<1>4. span = [at EXCEPT !.encoded = TRUE, !.children = children]
  BY <1>3 DEF SpanFor, CarrierSpan
<1>5. /\ at.id = <<i>> /\ at.text = body[i].text
      /\ at.start = StartOf(body, i) /\ at.end = StartOf(body, i) + Len(body[i].raw)
      /\ at.changed = FALSE /\ at.nested = <<>>
      /\ DOMAIN at = {"id", "start", "end", "text", "changed", "nested", "encoded", "children"}
  BY DEF SpanAt
<1>6. /\ StartOf(body, i) = Len(Upto(Raws(body), i - 1))
      /\ StartOf(body, i) + Len(body[i].raw) = Len(Upto(Raws(body), i))
  BY BodyIs, StartIs
<1> HIDE DEF at, span, children
<1>7. /\ span.id = at.id /\ span.text = at.text /\ span.start = at.start /\ span.end = at.end
      /\ span.changed = at.changed /\ span.encoded = TRUE /\ span.nested = at.nested
      /\ span.children = children /\ DOMAIN span = DOMAIN at
  BY <1>4, <1>5
<1> QED BY <1>1, <1>5, <1>6, <1>7 DEF span, children, pieces

LEMMA ChildIs ==
    ASSUME Input, NEW i \in 1..Len(body), body[i].kind = "carrier"
    PROVE  /\ body[i].inner \in Seq(Piece)
           /\ Raws(body[i].inner) \in Seq(Seq(Byte))
           /\ TextsIn(i) \subseteq 1..Len(Raws(body[i].inner))
           /\ \A k \in TextsIn(i):
                 /\ Raws(body[i].inner)[k] # <<>>
                 /\ Child(i)[k].id = <<i, k>>
                 /\ Child(i)[k].start = Len(Upto(Raws(body[i].inner), k - 1))
                 /\ Child(i)[k].end = Len(Upto(Raws(body[i].inner), k))
                 /\ Child(i)[k].text = body[i].inner[k].text
                 /\ Child(i)[k].text \in Seq(Byte)
                 /\ Child(i)[k].changed = FALSE
                 /\ Child(i)[k].nested = <<>>
                 /\ DOMAIN Child(i)[k] = {"id", "start", "end", "text", "changed", "nested",
                                          "encoded", "children"}
<1> DEFINE inner == body[i].inner
<1>1. /\ inner \in Seq(Piece)
      /\ \A k \in 1..Len(inner): inner[k].kind = "text" => inner[k].raw # <<>>
  BY BodyIs, PlainsArePieces
<1> HIDE DEF inner
<1>2. /\ Raws(inner) \in Seq(Seq(Byte)) /\ Len(Raws(inner)) = Len(inner)
      /\ \A k \in 1..Len(inner): inner[k] \in Piece /\ Raws(inner)[k] = inner[k].raw
  BY <1>1, RawsAre
<1>3. TextsIn(i) = {k \in 1..Len(inner): inner[k].kind = "text"}
  BY DEF TextsIn, inner
<1>4. ASSUME NEW k \in TextsIn(i)
      PROVE  /\ Raws(inner)[k] # <<>>
             /\ Child(i)[k].id = <<i, k>>
             /\ Child(i)[k].start = Len(Upto(Raws(inner), k - 1))
             /\ Child(i)[k].end = Len(Upto(Raws(inner), k))
             /\ Child(i)[k].text = inner[k].text
             /\ Child(i)[k].text \in Seq(Byte)
             /\ Child(i)[k].changed = FALSE
             /\ Child(i)[k].nested = <<>>
             /\ DOMAIN Child(i)[k] = {"id", "start", "end", "text", "changed", "nested",
                                      "encoded", "children"}
  <2>1. k \in 1..Len(inner) /\ inner[k].kind = "text"
    BY <1>3
  <2>2. Raws(inner)[k] # <<>> /\ inner[k].text \in Seq(Byte)
    BY <1>1, <1>2, <2>1, PieceIs
  <2>3. /\ StartOf(inner, k) = Len(Upto(Raws(inner), k - 1))
        /\ StartOf(inner, k) + Len(inner[k].raw) = Len(Upto(Raws(inner), k))
    BY <1>1, <2>1, StartIs
  <2>4. Child(i)[k] = SpanAt(inner, k, <<i, k>>)
    BY DEF Child, inner
  <2> DEFINE c == SpanAt(inner, k, <<i, k>>)
  <2>5. /\ c.id = <<i, k>> /\ c.text = inner[k].text
        /\ c.start = StartOf(inner, k) /\ c.end = StartOf(inner, k) + Len(inner[k].raw)
        /\ c.changed = FALSE /\ c.nested = <<>>
        /\ DOMAIN c = {"id", "start", "end", "text", "changed", "nested", "encoded", "children"}
    BY DEF SpanAt
  <2> HIDE DEF c
  <2> QED BY <2>2, <2>3, <2>4, <2>5 DEF c
<1> QED BY <1>1, <1>2, <1>3, <1>4 DEF inner

Kids(i) == {Child(i)[k]: k \in TextsIn(i)}

\* The leaves of a carrier are the spans of its texts, in their order.
LEMMA ChildrenAre ==
    ASSUME Input, NEW i \in 1..Len(body), body[i].kind = "carrier"
    PROVE  /\ Leaves(SpanFor(i)) \in Seq(Kids(i))
           /\ \E q: Spread(Leaves(SpanFor(i)), q, TextsIn(i), Child(i))
<1> DEFINE I == TextsIn(i)
           F == Child(i)
           n == Len(body[i].inner)
           pieces == [k \in 1..n |-> IF k \in I THEN <<F[k]>> ELSE <<>>]
           c == [k \in 1..n |-> k]
           S == Kids(i)
           raws == Raws(body[i].inner)
           list == SpanFor(i).children
<1>1. list = FlattenSeq(pieces) /\ Leaves(SpanFor(i)) = Sorted(list)
  BY CarrierSpanIs DEF Leaves
<1>2. /\ raws \in Seq(Seq(Byte)) /\ I \subseteq 1..Len(raws)
      /\ \A k \in I: raws[k] # <<>> /\ F[k].start = Len(Upto(raws, k - 1))
  BY ChildIs
<1>3. n \in Nat /\ I \subseteq 1..n
  BY BodyIs, LenProperties DEF TextsIn
<1>4. \A k \in I: F[k] \in S
  BY DEF Kids
<1> HIDE DEF I, F, S, n, raws
<1>5. pieces \in [1..n -> Seq(S)]
  <2>1. \A k \in 1..n: pieces[k] = <<>> \/ \E x \in S: pieces[k] = <<x>>
    BY <1>4
  <2>2. <<>> \in Seq(S) /\ \A x \in S: <<x>> \in Seq(S)
    OBVIOUS
  <2>3. pieces = [k \in 1..n |-> pieces[k]]
    OBVIOUS
  <2> HIDE DEF pieces
  <2>4. \A k \in 1..n: pieces[k] \in Seq(S)
    BY <2>1, <2>2
  <2> QED BY <2>3, <2>4
<1>6. \A k \in 1..n: /\ c[k] = k
                     /\ k \in I => pieces[k] = <<F[k]>> /\ pieces[k] # <<>>
                     /\ k \notin I => pieces[k] = <<>>
  <2>1. \A x: <<x>> # <<>>
    OBVIOUS
  <2> QED BY <2>1
<1> HIDE DEF pieces, c, list
<1>7. pieces \in Seq(Seq(S)) /\ Len(pieces) = n
  BY <1>3, <1>5, FunctionIsSeq
<1>8. FlattenSeq(pieces) \in Seq(S) /\ \E o: Picks(FlattenSeq(pieces), o, I, F)
  <2>1. \A m \in 1..Len(pieces): pieces[m] # <<>> => c[m] \in I /\ pieces[m] = <<F[c[m]]>>
    BY <1>6, <1>7
  <2>2. \A m, k \in 1..Len(pieces): pieces[m] # <<>> /\ pieces[k] # <<>> /\ m # k => c[m] # c[k]
    BY <1>6, <1>7
  <2>3. \A k \in I: \E m \in 1..Len(pieces): pieces[m] # <<>> /\ c[m] = k
    BY <1>3, <1>6, <1>7
  <2> QED BY <1>7, <2>1, <2>2, <2>3, FlattenPicks
<1>9. PICK o: Picks(list, o, I, F)
  BY <1>1, <1>8
<1>10. list \in Seq(S)
  BY <1>1, <1>8
<1>11. Sorted(list) \in Seq(S) /\ \E q: Spread(Sorted(list), q, I, F)
  BY <1>2, <1>9, <1>10, SortedPicks
<1> QED BY <1>1, <1>11 DEF S, I, F

-----------------------------------------------------------------------------
(* The segments the rules leave, by their tokens. *)

\* The tool's own description before k was emptied.
EmptiedAt(segments, path, k) ==
    \E i \in DOMAIN segments:
        /\ k \in NestedOf(segments, i)
        /\ Altered(segments, path, i) /\ rewrites[Append(path, i)] = <<>>

Taken(segments, path, k) ==
    Altered(segments, path, k) /\ (segments[k].kind = "nested" => EmptiedAt(segments, path, k))

LEMMA ReplacedIs ==
    ASSUME NEW s \in Seq(Piece), NEW path,
           \A k \in 1..Len(s): Altered(s, path, k) => rewrites[Append(path, k)] \in Seq(Byte)
    PROVE  /\ Raws(Replaced(s, path)) \in Seq(Seq(Byte))
           /\ Len(Raws(Replaced(s, path))) = Len(s)
           /\ Render(Replaced(s, path)) = FlattenSeq(Raws(Replaced(s, path)))
           /\ DOMAIN Replaced(s, path) = 1..Len(s)
           /\ \A k \in 1..Len(s):
                 /\ Raws(Replaced(s, path))[k] = Replaced(s, path)[k].raw
                 /\ Taken(s, path, k) =>
                       Raws(Replaced(s, path))[k] = Encode(rewrites[Append(path, k)])
                 /\ ~ Taken(s, path, k) => Raws(Replaced(s, path))[k] = s[k].raw
<1> DEFINE new == Replaced(s, path)
           one(k) == [s[k] EXCEPT !.raw = Encode(rewrites[Append(path, k)])]
<1>1. /\ DOMAIN s = 1..Len(s) /\ Len(s) \in Nat
      /\ \A k \in 1..Len(s): s[k] \in Piece
  BY RawsAre
<1>2. new = [k \in DOMAIN s |-> IF Taken(s, path, k) THEN one(k) ELSE s[k]]
  BY DEF Replaced, Taken, EmptiedAt
<1> HIDE DEF new, one
<1>3. DOMAIN new = 1..Len(s)
  BY <1>1, <1>2
<1>4. \A k \in 1..Len(s): new[k] = IF Taken(s, path, k) THEN one(k) ELSE s[k]
  BY <1>1, <1>2
<1>5. \A k \in 1..Len(s): one(k).raw = Encode(rewrites[Append(path, k)])
  BY <1>1, PieceIs DEF one
<1>6. \A k \in 1..Len(s): /\ Taken(s, path, k) => new[k].raw = Encode(rewrites[Append(path, k)])
                          /\ ~ Taken(s, path, k) => new[k].raw = s[k].raw
  BY <1>4, <1>5
<1>7. \A k \in 1..Len(s): new[k].raw \in Seq(Byte)
  <2>1. \A k \in 1..Len(s): Taken(s, path, k) => Encode(rewrites[Append(path, k)]) \in Seq(Byte)
    BY EncodeIs DEF Taken
  <2>2. \A k \in 1..Len(s): s[k].raw \in Seq(Byte)
    BY <1>1, PieceIs
  <2> QED BY <1>6, <2>1, <2>2
<1>8. Raws(new) = [k \in 1..Len(s) |-> new[k].raw]
  BY <1>3 DEF Raws
<1>9. Raws(new) \in [1..Len(s) -> Seq(Byte)] /\ \A k \in 1..Len(s): Raws(new)[k] = new[k].raw
  BY <1>7, <1>8
<1>10. Raws(new) \in Seq(Seq(Byte)) /\ Len(Raws(new)) = Len(s)
  BY <1>1, <1>9, FunctionIsSeq
<1>11. Render(new) = FlattenSeq(Raws(new))
  BY DEF Render, Raws
<1> QED BY <1>3, <1>6, <1>9, <1>10, <1>11 DEF new

LEMMA PathOfTwo ==
    ASSUME NEW i \in Int, NEW k \in Int
    PROVE  Append(<<i>>, k) = <<i, k>>
<1> DEFINE one == <<i>>
           a == Append(one, k)
           b == <<i, k>>
<1>1. one \in Seq(Int) /\ Len(one) = 1 /\ one[1] = i
  OBVIOUS
<1>2. a \in Seq(Int) /\ Len(a) = 2 /\ a[1] = i /\ a[2] = k
  BY <1>1, AppendProperties
<1>3. b \in Seq(Int) /\ Len(b) = 2 /\ b[1] = i /\ b[2] = k
  OBVIOUS
<1> HIDE DEF a, b
<1>4. \A n \in 1..2: n = 1 \/ n = 2
  OBVIOUS
<1>5. a = b
  BY <1>2, <1>3, <1>4, SeqEqual
<1> QED BY <1>5 DEF a, b, one

\* A text in a carrier that the rules change.
Changes(i, k) == k \in TextsIn(i) /\ rewrites[<<i, k>>] # body[i].inner[k].text

LEMMA InnerIs ==
    ASSUME Input, NEW i \in 1..Len(body), body[i].kind = "carrier"
    PROVE  /\ Raws(Replaced(body[i].inner, <<i>>)) \in Seq(Seq(Byte))
           /\ Len(Raws(Replaced(body[i].inner, <<i>>))) = Len(Raws(body[i].inner))
           /\ Render(Replaced(body[i].inner, <<i>>)) = FlattenSeq(Raws(Replaced(body[i].inner, <<i>>)))
           /\ Render(body[i].inner) = FlattenSeq(Raws(body[i].inner))
           /\ DOMAIN body[i].inner = 1..Len(Raws(body[i].inner))
           /\ \A k \in 1..Len(Raws(body[i].inner)):
                 /\ Altered(body[i].inner, <<i>>, k) <=> Changes(i, k)
                 /\ Changes(i, k) =>
                       Raws(Replaced(body[i].inner, <<i>>))[k] = Encode(rewrites[<<i, k>>])
                 /\ ~ Changes(i, k) =>
                       Raws(Replaced(body[i].inner, <<i>>))[k] = Raws(body[i].inner)[k]
<1> DEFINE inner == body[i].inner
<1>1. inner \in Seq(Plain) /\ inner \in Seq(Piece)
  BY BodyIs, PlainsArePieces
<1>2. TextsIn(i) = {k \in 1..Len(inner): inner[k].kind = "text"}
  BY DEF TextsIn
<1>3. \A k \in 1..Len(inner): inner[k].kind = "text" => rewrites[<<i, k>>] \in Seq(Byte)
  BY RewritesAre
<1>4. \A k: Changes(i, k) <=> k \in TextsIn(i) /\ rewrites[<<i, k>>] # inner[k].text
  BY DEF Changes
<1> HIDE DEF inner
<1>5. \A k \in 1..Len(inner): inner[k].kind \in {"raw", "text"}
  BY <1>1, PlainIs
<1>6. \A k \in 1..Len(inner): Append(<<i>>, k) = <<i, k>>
  <2>1. \A k \in Int: Append(<<i>>, k) = <<i, k>>
    BY PathOfTwo
  <2>2. 1..Len(inner) \subseteq Int
    OBVIOUS
  <2> QED BY <2>1, <2>2
<1>7. \A k \in 1..Len(inner): /\ Altered(inner, <<i>>, k) <=> Changes(i, k)
                              /\ Taken(inner, <<i>>, k) <=> Changes(i, k)
  BY <1>2, <1>4, <1>5, <1>6 DEF Altered, Taken, TextKinds
<1>8. \A k \in 1..Len(inner): Altered(inner, <<i>>, k) => rewrites[Append(<<i>>, k)] \in Seq(Byte)
  BY <1>2, <1>3, <1>4, <1>6, <1>7
<1>9. /\ Raws(inner) \in Seq(Seq(Byte)) /\ Len(Raws(inner)) = Len(inner)
      /\ DOMAIN inner = 1..Len(inner)
      /\ \A k \in 1..Len(inner): Raws(inner)[k] = inner[k].raw
      /\ Render(inner) = FlattenSeq(Raws(inner))
  BY <1>1, RawsAre
<1> DEFINE new == Raws(Replaced(inner, <<i>>))
<1>10. /\ new \in Seq(Seq(Byte)) /\ Len(new) = Len(inner)
       /\ Render(Replaced(inner, <<i>>)) = FlattenSeq(new)
       /\ \A k \in 1..Len(inner):
             /\ Taken(inner, <<i>>, k) => new[k] = Encode(rewrites[Append(<<i>>, k)])
             /\ ~ Taken(inner, <<i>>, k) => new[k] = inner[k].raw
  BY <1>1, <1>8, ReplacedIs
<1> HIDE DEF new
<1>11. \A k \in 1..Len(inner): /\ Changes(i, k) => new[k] = Encode(rewrites[<<i, k>>])
                               /\ ~ Changes(i, k) => new[k] = Raws(inner)[k]
  BY <1>6, <1>7, <1>9, <1>10
<1> QED BY <1>7, <1>9, <1>10, <1>11 DEF inner, new

\* The new text of a carrier, in pieces.
NewRaws(i) == Raws(Replaced(body[i].inner, <<i>>))

\* Its texts as they stand, and as the rules leave them, are its spans.
LEMMA ChildAfter ==
    ASSUME Input, NEW i \in 1..Len(body), body[i].kind = "carrier", NEW k \in TextsIn(i)
    PROVE  /\ After1(Child(i)[k]).start = Child(i)[k].start
           /\ After1(Child(i)[k]).end = Child(i)[k].end
           /\ After1(Child(i)[k]).text = rewrites[<<i, k>>]
           /\ After1(Child(i)[k]).text \in Seq(Byte)
           /\ After1(Child(i)[k]).changed \in BOOLEAN
           /\ After1(Child(i)[k]).changed <=> Changes(i, k)
<1> DEFINE c == Child(i)[k]
           t == After1(c)
<1>1. /\ c.id = <<i, k>> /\ c.text = body[i].inner[k].text
      /\ DOMAIN c = {"id", "start", "end", "text", "changed", "nested", "encoded", "children"}
  BY ChildIs
<1>2. /\ t.start = c.start /\ t.end = c.end /\ t.text = rewrites[c.id]
      /\ t.changed = (rewrites[c.id] # c.text)
  BY <1>1 DEF After1
<1>3. rewrites[<<i, k>>] \in Seq(Byte)
  BY RewritesAre DEF TextsIn
<1> HIDE DEF c, t
<1>4. t.changed <=> Changes(i, k)
  BY <1>1, <1>2 DEF Changes
<1>5. t.changed \in BOOLEAN
  BY <1>2
<1> QED BY <1>1, <1>2, <1>3, <1>4, <1>5 DEF c, t

LEMMA CarrierParts ==
    ASSUME Input, NEW i \in 1..Len(body), body[i].kind = "carrier"
    PROVE  LET list == Leaves(SpanFor(i))
               raws == Raws(body[i].inner)
           IN  /\ list \in Seq(Kids(i))
               /\ \E q: /\ Spread(Applied(list), q, TextsIn(i), [k \in TextsIn(i) |-> After1(Child(i)[k])])
                        /\ Owned(list, q, raws)
                        /\ Owned(Applied(list), q, raws)
<1> DEFINE L == Leaves(SpanFor(i))
           I == TextsIn(i)
           F == Child(i)
           G == [k \in I |-> After1(F[k])]
           raws == Raws(body[i].inner)
<1>1. L \in Seq(Kids(i)) /\ \E q: Spread(L, q, I, F)
  BY ChildrenAre
<1>2. /\ raws \in Seq(Seq(Byte)) /\ I \subseteq 1..Len(raws)
      /\ \A k \in I: /\ raws[k] # <<>>
                     /\ F[k].start = Len(Upto(raws, k - 1)) /\ F[k].end = Len(Upto(raws, k))
                     /\ F[k].changed \in BOOLEAN /\ F[k].text \in Seq(Byte)
  BY ChildIs
<1>3. \A k \in I: G[k] = After1(F[k])
  OBVIOUS
<1>4. \A k \in I: /\ G[k].start = F[k].start /\ G[k].end = F[k].end
                  /\ G[k].changed \in BOOLEAN /\ G[k].text \in Seq(Byte)
  BY <1>3, ChildAfter
<1> HIDE DEF L, I, F, raws
<1>5. PICK q: Spread(L, q, I, F)
  BY <1>1
<1>6. Spread(Applied(L), q, I, G)
  BY <1>1, <1>5, AppliedSpread
<1> HIDE DEF G
<1>7. Owned(L, q, raws)
  BY <1>2, <1>5, SpreadOwned
<1>8. \A k \in I: /\ raws[k] # <<>>
                  /\ G[k].start = Len(Upto(raws, k - 1)) /\ G[k].end = Len(Upto(raws, k))
                  /\ G[k].changed \in BOOLEAN /\ G[k].text \in Seq(Byte)
  BY <1>2, <1>4
<1>9. Owned(Applied(L), q, raws)
  BY <1>2, <1>6, <1>8, SpreadOwned
<1> QED BY <1>1, <1>6, <1>7, <1>9 DEF L, I, F, G, raws

\* The leaves of a carrier lie in its text, and its text rebuilt is the new one.
LEMMA CarrierRebuilt ==
    ASSUME Input, NEW i \in 1..Len(body), body[i].kind = "carrier"
    PROVE  LET list == Leaves(SpanFor(i))
           IN  /\ Valid(list, Len(SpanFor(i).text))
               /\ AnyChanged(Applied(list)) <=> \E k \in TextsIn(i): Changes(i, k)
               /\ AnyChanged(Applied(list)) =>
                     Rebuilt(SpanFor(i).text, Applied(list)) =
                        [kind |-> "body", bytes |-> FlattenSeq(NewRaws(i))]
               /\ FlattenSeq(NewRaws(i)) \in Seq(Byte)
<1> DEFINE L == Leaves(SpanFor(i))
           A == Applied(L)
           I == TextsIn(i)
           G == [k \in I |-> After1(Child(i)[k])]
           raws == Raws(body[i].inner)
           new == NewRaws(i)
           text == SpanFor(i).text
<1>1. /\ L \in Seq(Kids(i))
      /\ \E q: Spread(A, q, I, G) /\ Owned(L, q, raws) /\ Owned(A, q, raws)
  BY CarrierParts
<1>2. text = FlattenSeq(raws)
  BY CarrierSpanIs, InnerIs
<1>3. raws \in Seq(Seq(Byte)) /\ I \subseteq 1..Len(raws)
  BY ChildIs
<1>4. \A k \in I: /\ G[k].text = rewrites[<<i, k>>]
                  /\ G[k].changed <=> Changes(i, k)
  BY ChildAfter
<1>5. /\ new \in Seq(Seq(Byte)) /\ Len(new) = Len(raws)
      /\ \A k \in 1..Len(raws): /\ Changes(i, k) => new[k] = Encode(rewrites[<<i, k>>])
                                /\ ~ Changes(i, k) => new[k] = raws[k]
  BY InnerIs DEF NewRaws
<1>6. \A k: Changes(i, k) => k \in I
  BY DEF Changes
<1>7. A \in Seq({A[n]: n \in 1..Len(L)}) /\ DOMAIN A = 1..Len(A)
  BY <1>1, AppliedIs
<1> HIDE DEF L, A, I, G, raws, new, text
<1>8. PICK q: Spread(A, q, I, G) /\ Owned(L, q, raws) /\ Owned(A, q, raws)
  BY <1>1
<1>9. /\ \A n \in 1..Len(A): q[n] \in I /\ A[n] = G[q[n]]
      /\ \A k \in I: \E n \in 1..Len(A): q[n] = k
  BY <1>8 DEF Spread, Picks
<1>10. \A n \in 1..Len(A): A[n].changed <=> Changes(i, q[n])
  BY <1>4, <1>9
<1>11. Exchanged(A, q, raws, new)
  <2>1. ASSUME NEW n \in 1..Len(A), A[n].changed PROVE new[q[n]] = Encode(A[n].text)
    <3>1. q[n] \in I /\ A[n] = G[q[n]] /\ Changes(i, q[n])
      BY <1>9, <1>10, <2>1
    <3>2. A[n].text = rewrites[<<i, q[n]>>]
      BY <1>4, <3>1
    <3>3. q[n] \in 1..Len(raws)
      BY <1>3, <3>1
    <3> QED BY <1>5, <3>1, <3>2, <3>3
  <2>2. ASSUME NEW k \in 1..Len(raws), \A n \in 1..Len(A): A[n].changed => q[n] # k
        PROVE  new[k] = raws[k]
    <3>1. ~ Changes(i, k)
      BY <1>6, <1>9, <1>10, <2>2
    <3> QED BY <1>5, <3>1
  <2> QED BY <1>5, <2>1, <2>2 DEF Exchanged
<1>12. Valid(L, Len(FlattenSeq(raws)))
  BY <1>1, <1>3, <1>8, OwnedIs
<1>13. /\ FlattenSeq(new) \in Seq(Byte)
       /\ AnyChanged(A) =>
             Rebuilt(FlattenSeq(raws), A) = [kind |-> "body", bytes |-> FlattenSeq(new)]
  BY <1>3, <1>7, <1>8, <1>11, RebuiltIs
<1>14. AnyChanged(A) <=> \E k \in I: Changes(i, k)
  <2>1. AnyChanged(A) <=> \E n \in 1..Len(A): A[n].changed
    BY <1>7 DEF AnyChanged
  <2> QED BY <1>9, <1>10, <2>1
<1> QED BY <1>2, <1>12, <1>13, <1>14 DEF L, A, I, raws, new, text

-----------------------------------------------------------------------------
(* The selected spans, from their collection to the leaves. *)

Found == [i \in Selectable |-> SpanFor(i)]
Spans == {SpanFor(i): i \in Selectable}

LEMMA SelectableIs ==
    ASSUME Input
    PROVE  /\ Selectable \subseteq 1..Len(body) /\ IsFiniteSet(Selectable)
           /\ Raws(body) \in Seq(Seq(Byte)) /\ Len(Raws(body)) = Len(body)
           /\ \A i \in Selectable: Found[i] = SpanFor(i)
<1>1. /\ body \in Seq(Piece) /\ Len(body) \in Nat /\ DOMAIN body = 1..Len(body)
      /\ Raws(body) \in Seq(Seq(Byte)) /\ Len(Raws(body)) = Len(body)
  BY BodyIs, RawsAre
<1>2. Selectable \subseteq 1..Len(body)
  BY <1>1 DEF Selectable
<1>3. IsFiniteSet(1..Len(body))
  BY <1>1, FS_Interval
<1>4. IsFiniteSet(Selectable)
  BY <1>2, <1>3, FS_Subset
<1> QED BY <1>1, <1>2, <1>4 DEF Found

\* A span as it is found.
LEMMA FoundIs ==
    ASSUME Input, NEW i \in Selectable
    PROVE  /\ i \in 1..Len(body) /\ Raws(body)[i] # <<>>
           /\ SpanFor(i).id = <<i>> /\ SpanFor(i).text = body[i].text
           /\ SpanFor(i).text \in Seq(Byte)
           /\ SpanFor(i).start = Len(Upto(Raws(body), i - 1))
           /\ SpanFor(i).end = Len(Upto(Raws(body), i))
           /\ SpanFor(i).changed = FALSE
           /\ SpanFor(i).encoded <=> body[i].kind = "carrier"
           /\ DOMAIN SpanFor(i) = {"id", "start", "end", "text", "changed", "nested", "encoded",
                                   "children"}
<1>1. i \in 1..Len(body) /\ body[i].kind \in {"text", "tool", "carrier"}
  BY SelectableIs DEF Selectable
<1>2. body \in Seq(Piece) /\ body[i].raw # <<>>
  BY <1>1, BodyIs
<1>3. Raws(body)[i] = body[i].raw /\ body[i] \in Piece
  BY <1>1, <1>2, RawsAre
<1>4. body[i].text \in Seq(Byte)
  BY <1>3, PieceIs
<1>5. CASE body[i].kind # "carrier"
  BY <1>1, <1>2, <1>3, <1>4, <1>5, TextSpanIs
<1>6. CASE body[i].kind = "carrier"
  <2>1. body[i].text = Render(body[i].inner)
    BY <1>1, <1>6, BodyIs
  <2> QED BY <1>1, <1>2, <1>3, <1>4, <1>6, <2>1, CarrierSpanIs
<1> QED BY <1>5, <1>6

\* In whatever order they are collected, each is there once.
LEMMA CollectedAre ==
    ASSUME Input, NEW order \in SetToSeqs(Selectable),
           NEW list, list = [n \in DOMAIN order |-> SpanFor(order[n])]
    PROVE  list \in Seq(Spans) /\ \E o: Picks(list, o, Selectable, Found)
<1> DEFINE n == Cardinality(Selectable)
           S == Selectable
<1>1. IsFiniteSet(S) /\ n \in Nat
  BY SelectableIs, FS_CardinalityType
<1>2. order \in [1..n -> S] /\ \A i, j \in 1..n: i # j => order[i] # order[j]
  BY DEF SetToSeqs
<1>3. \A i \in S: Found[i] = SpanFor(i) /\ SpanFor(i) \in Spans
  BY DEF Found, Spans
<1>4. IsFiniteSet(1..n) /\ Cardinality(1..n) = n
  <2>1. 1 \in Int /\ n \in Int /\ (1 > n => n = 0) /\ n - 1 + 1 = n
    BY <1>1
  <2> HIDE DEF n
  <2> QED BY <2>1, FS_Interval
<1>5. Cardinality(S) = n
  OBVIOUS
<1> HIDE DEF n, S
<1>6. \A i \in S: \E k \in 1..n: order[k] = i
  <2>1. order \in Injection(1..n, S)
    BY <1>2 DEF Injection, IsInjective
  <2>2. order \in Surjection(1..n, S)
    BY <1>1, <1>4, <1>5, <2>1, FS_Injection
  <2> QED BY <2>2 DEF Surjection
<1>7. list \in [1..n -> Spans] /\ \A k \in 1..n: list[k] = Found[order[k]]
  BY <1>2, <1>3
<1>8. list \in Seq(Spans) /\ Len(list) = n
  BY <1>1, <1>7, FunctionIsSeq
<1>9. Picks(list, order, S, Found)
  BY <1>2, <1>6, <1>7, <1>8 DEF Picks
<1> QED BY <1>8, <1>9 DEF S

\* Sorted, they are in the order of their tokens, and none is refused.
LEMMA SortedFound ==
    ASSUME Input, NEW list \in Seq(Spans), NEW o, Picks(list, o, Selectable, Found)
    PROVE  /\ Sorted(list) \in Seq(Spans)
           /\ \E q: Spread(Sorted(list), q, Selectable, Found)
           /\ Valid(Sorted(list), Len(Render(body)))
           /\ \A n \in 1..Len(Sorted(list)):
                 Sorted(list)[n].encoded => Valid(Leaves(Sorted(list)[n]), Len(Sorted(list)[n].text))
<1> DEFINE S == Selectable
           raws == Raws(body)
           new == Sorted(list)
<1>1. /\ raws \in Seq(Seq(Byte)) /\ S \subseteq 1..Len(raws)
      /\ \A i \in S: Found[i] = SpanFor(i)
  BY SelectableIs
<1>2. \A i \in S: /\ raws[i] # <<>>
                  /\ Found[i].start = Len(Upto(raws, i - 1)) /\ Found[i].end = Len(Upto(raws, i))
                  /\ Found[i].changed \in BOOLEAN /\ Found[i].text \in Seq(Byte)
  <2> SUFFICES ASSUME NEW i \in S
               PROVE  /\ raws[i] # <<>>
                      /\ Found[i].start = Len(Upto(raws, i - 1))
                      /\ Found[i].end = Len(Upto(raws, i))
                      /\ Found[i].changed \in BOOLEAN /\ Found[i].text \in Seq(Byte)
    OBVIOUS
  <2>1. Found[i] = SpanFor(i)
    BY <1>1
  <2> QED BY <2>1, FoundIs
<1>3. Render(body) = FlattenSeq(raws)
  BY BodyIs, RawsAre
<1> HIDE DEF S, raws
<1>4. Picks(list, o, S, Found)
  BY DEF S
<1>5. new \in Seq(Spans) /\ \E q: Spread(new, q, S, Found)
  <2>1. \A i \in S: raws[i] # <<>> /\ Found[i].start = Len(Upto(raws, i - 1))
    BY <1>2
  <2> QED BY <1>1, <1>4, <2>1, SortedPicks
<1> HIDE DEF new
<1>6. PICK q: Spread(new, q, S, Found)
  BY <1>5
<1>7. Owned(new, q, raws)
  BY <1>1, <1>2, <1>6, SpreadOwned
<1>8. Valid(new, Len(FlattenSeq(raws)))
  BY <1>1, <1>5, <1>7, OwnedIs
<1>9. ASSUME NEW n \in 1..Len(new), new[n].encoded
      PROVE  Valid(Leaves(new[n]), Len(new[n].text))
  <2>1. q[n] \in S /\ new[n] = SpanFor(q[n])
    BY <1>1, <1>6 DEF Spread, Picks
  <2>2. q[n] \in 1..Len(body) /\ body[q[n]].kind = "carrier"
    BY <1>9, <2>1, FoundIs DEF S
  <2> QED BY <2>1, <2>2, CarrierRebuilt
<1> QED BY <1>3, <1>5, <1>8, <1>9 DEF S, new

LeafSpans == Spans \cup UNION {Kids(i): i \in Selectable}

\* The leaves of each of some spans.
LeafLists(list) == [n \in 1..Len(list) |-> Leaves(list[n])]

LEMMA LeavesAre ==
    ASSUME Input, NEW span \in Spans
    PROVE  /\ Leaves(span) \in Seq(LeafSpans)
           /\ ~ span.encoded => Leaves(span) = <<span>>
<1>1. PICK i \in Selectable: span = SpanFor(i)
  BY DEF Spans
<1>2. i \in 1..Len(body) /\ (span.encoded <=> body[i].kind = "carrier")
  BY <1>1, FoundIs
<1>3. CASE ~ span.encoded
  <2>1. Leaves(span) = <<span>>
    BY <1>3 DEF Leaves
  <2>2. span \in LeafSpans
    BY DEF LeafSpans
  <2>3. <<span>> \in Seq(LeafSpans)
    BY <2>2
  <2> QED BY <2>1, <2>3
<1>4. CASE span.encoded
  <2>1. Leaves(span) \in Seq(Kids(i))
    BY <1>1, <1>2, <1>4, ChildrenAre
  <2>2. Kids(i) \subseteq LeafSpans
    BY DEF LeafSpans
  <2>3. Seq(Kids(i)) \subseteq Seq(LeafSpans)
    BY <2>2
  <2> QED BY <1>4, <2>1, <2>3
<1> QED BY <1>3, <1>4

LEMMA FlattenedIs ==
    ASSUME Input, NEW list \in Seq(Spans)
    PROVE  /\ LeafLists(list) \in Seq(Seq(LeafSpans)) /\ Len(LeafLists(list)) = Len(list)
           /\ \A n \in 1..Len(list): list[n] \in Spans /\ LeafLists(list)[n] = Leaves(list[n])
           /\ Flattened(list) = FlattenSeq(LeafLists(list))
           /\ Flattened(list) \in Seq(LeafSpans)
<1> DEFINE P == LeafLists(list)
<1>1. Len(list) \in Nat /\ DOMAIN list = 1..Len(list) /\ \A n \in 1..Len(list): list[n] \in Spans
  BY LenProperties, ElementOfSeq
<1>2. \A n \in 1..Len(list): Leaves(list[n]) \in Seq(LeafSpans)
  BY <1>1, LeavesAre
<1>3. P = [n \in 1..Len(list) |-> Leaves(list[n])]
  BY DEF LeafLists
<1>4. Flattened(list) = FlattenSeq(P)
  BY <1>1, <1>3 DEF Flattened
<1> HIDE DEF P
<1>5. P \in [1..Len(list) -> Seq(LeafSpans)] /\ \A n \in 1..Len(list): P[n] = Leaves(list[n])
  BY <1>2, <1>3
<1>6. P \in Seq(Seq(LeafSpans)) /\ Len(P) = Len(list)
  BY <1>1, <1>5, FunctionIsSeq
<1>7. FlattenSeq(P) \in Seq(LeafSpans)
  BY <1>6, FlattenIs
<1> QED BY <1>1, <1>4, <1>5, <1>6, <1>7 DEF P

\* A span finds its own leaves again.
LEMMA PartForIs ==
    ASSUME Input, selected \in Seq(Spans), flatSpans = Applied(Flattened(selected)),
           NEW n \in 1..Len(selected)
    PROVE  PartFor(n) = Applied(Leaves(selected[n]))
<1> DEFINE P == LeafLists(selected)
           whole == Flattened(selected)
           before == [k \in 1..(n - 1) |-> Leaves(selected[k])]
           own == Leaves(selected[n])
           start == Len(Upto(P, n - 1))
<1>1. /\ P \in Seq(Seq(LeafSpans)) /\ Len(P) = Len(selected)
      /\ \A k \in 1..Len(selected): P[k] = Leaves(selected[k])
      /\ whole = FlattenSeq(P)
      /\ whole \in Seq(LeafSpans)
  BY FlattenedIs
<1>2. Len(selected) \in Nat
  BY LenProperties
<1>3. PartFor(n) = SubSeq(flatSpans, Len(FlattenSeq(before)) + 1, Len(FlattenSeq(before)) + Len(own))
  BY DEF PartFor
<1>4. P[n] = own
  BY <1>1
<1> HIDE DEF P, whole, own, before
<1>5. SubSeq(P, 1, n - 1) = before
  <2>1. n - 1 \in Nat /\ 0 + (n - 1) = n - 1 /\ 0 + 1 = 1 /\ \A k \in 1..(n - 1): 0 + k = k
    BY <1>2
  <2>2. SubSeq(P, 0 + 1, 0 + (n - 1)) = [k \in 1..(n - 1) |-> P[0 + k]]
    BY <2>1, PartIs
  <2>3. \A k \in 1..(n - 1): k \in 1..Len(selected)
    BY <1>2
  <2>4. [k \in 1..(n - 1) |-> P[0 + k]] = before
    BY <1>1, <2>1, <2>3 DEF before
  <2> QED BY <2>1, <2>2, <2>4
<1>6. start = Len(FlattenSeq(before))
  BY <1>5 DEF Upto
<1>7. /\ start \in Nat /\ start + Len(own) <= Len(whole)
      /\ \A j \in 1..Len(own): whole[start + j] = own[j]
  <2>1. n \in 1..Len(P)
    BY <1>1
  <2>2. /\ Len(Upto(P, n - 1)) \in Nat
        /\ Len(Upto(P, n - 1)) + Len(P[n]) <= Len(FlattenSeq(P))
        /\ \A j \in 1..Len(P[n]): FlattenSeq(P)[Len(Upto(P, n - 1)) + j] = P[n][j]
    BY <1>1, <2>1, FlattenPlaces
  <2> QED BY <1>1, <1>4, <2>2
<1>8. own \in Seq(LeafSpans) /\ Len(own) \in Nat /\ DOMAIN own = 1..Len(own)
  <2>1. own \in Seq(LeafSpans)
    BY <1>1, <1>4, ElementOfSeq
  <2> QED BY <2>1, LenProperties
<1> HIDE DEF start
<1>9. SubSeq(flatSpans, start + 1, start + Len(own)) = [j \in 1..Len(own) |-> flatSpans[start + j]]
  BY <1>7, <1>8, PartIs
<1>10. \A j \in 1..Len(own): flatSpans[start + j] = After1(own[j])
  <2>1. Len(whole) \in Nat
    BY <1>1, LenProperties
  <2>2. \A j \in 1..Len(own): start + j \in 1..Len(whole)
    BY <1>7, <1>8, <2>1
  <2>3. \A m \in 1..Len(whole): flatSpans[m] = After1(whole[m])
    BY <1>1, AppliedIs DEF whole
  <2> QED BY <1>7, <2>2, <2>3
<1>11. Applied(own) = [j \in 1..Len(own) |-> After1(own[j])]
  BY <1>8 DEF Applied, After1
<1> QED BY <1>3, <1>6, <1>9, <1>10, <1>11 DEF own

-----------------------------------------------------------------------------
(* What becomes of each segment. *)

\* Whether a segment is encoded anew, and of which text.
Renews(i) ==
    IF body[i].kind = "carrier" THEN \E k \in TextsIn(i): Changes(i, k) ELSE Taken(body, <<>>, i)

NewText(i) == IF body[i].kind = "carrier" THEN FlattenSeq(NewRaws(i)) ELSE rewrites[<<i>>]

LEMMA TakenIs ==
    ASSUME Input, NEW i \in 1..Len(body)
    PROVE  /\ Altered(body, <<>>, i) <=> body[i].kind \in TextKinds /\ rewrites[<<i>>] # body[i].text
           /\ Altered(body, <<>>, i) => rewrites[Append(<<>>, i)] \in Seq(Byte)
           /\ Append(<<>>, i) = <<i>>
           /\ Taken(body, <<>>, i) <=>
                 /\ body[i].kind \in TextKinds /\ rewrites[<<i>>] # body[i].text
                 /\ body[i].kind = "nested" => EmptiedAt(body, <<>>, i)
<1>1. Append(<<>>, i) = <<i>>
  OBVIOUS
<1>2. Altered(body, <<>>, i) <=> body[i].kind \in TextKinds /\ rewrites[<<i>>] # body[i].text
  BY <1>1 DEF Altered
<1>3. Altered(body, <<>>, i) => rewrites[Append(<<>>, i)] \in Seq(Byte)
  BY <1>1, <1>2, RewritesAre
<1> QED BY <1>1, <1>2, <1>3 DEF Taken

LEMMA RenewedIs ==
    ASSUME Input
    PROVE  /\ Raws(Renewed) \in Seq(Seq(Byte)) /\ Len(Raws(Renewed)) = Len(body)
           /\ Expected = FlattenSeq(Raws(Renewed))
           /\ \A i \in 1..Len(body): /\ Renews(i) => Raws(Renewed)[i] = Encode(NewText(i))
                                     /\ ~ Renews(i) => Raws(Renewed)[i] = Raws(body)[i]
<1> DEFINE new == Replaced(body, <<>>)
           inside(i) == Replaced(body[i].inner, <<i>>)
           within(i) == body[i].kind = "carrier"
                        /\ \E k \in DOMAIN body[i].inner: Altered(body[i].inner, <<i>>, k)
<1>1. /\ body \in Seq(Piece) /\ Len(body) \in Nat /\ DOMAIN body = 1..Len(body)
      /\ Raws(body) \in Seq(Seq(Byte))
      /\ \A i \in 1..Len(body): Raws(body)[i] = body[i].raw /\ body[i].raw \in Seq(Byte)
  BY BodyIs, RawsAre, PieceIs
<1>2. \A i \in 1..Len(body): Altered(body, <<>>, i) => rewrites[Append(<<>>, i)] \in Seq(Byte)
  BY TakenIs
<1>3. \A i \in 1..Len(body): /\ Taken(body, <<>>, i) => new[i].raw = Encode(rewrites[<<i>>])
                             /\ ~ Taken(body, <<>>, i) => new[i].raw = Raws(body)[i]
  <2>1. \A i \in 1..Len(body):
           /\ Raws(new)[i] = new[i].raw
           /\ Taken(body, <<>>, i) => Raws(new)[i] = Encode(rewrites[Append(<<>>, i)])
           /\ ~ Taken(body, <<>>, i) => Raws(new)[i] = body[i].raw
    BY <1>1, <1>2, ReplacedIs
  <2>2. \A i \in 1..Len(body): Append(<<>>, i) = <<i>>
    BY TakenIs
  <2> QED BY <1>1, <2>1, <2>2
<1>4. Renewed = [i \in 1..Len(body) |-> IF within(i) THEN Carrier(inside(i)) ELSE new[i]]
  BY <1>1 DEF Renewed
<1>5. \A x: Carrier(x).raw = Encode(Render(x))
  BY DEF Carrier, Segment
<1>6. ASSUME NEW i \in 1..Len(body)
      PROVE  /\ Renews(i) => Renewed[i].raw = Encode(NewText(i)) /\ NewText(i) \in Seq(Byte)
             /\ ~ Renews(i) => Renewed[i].raw = Raws(body)[i]
  <2>1. CASE body[i].kind = "carrier"
    <3>1. within(i) <=> Renews(i)
      <4>1. /\ DOMAIN body[i].inner = 1..Len(Raws(body[i].inner))
            /\ \A k \in 1..Len(Raws(body[i].inner)): Altered(body[i].inner, <<i>>, k) <=> Changes(i, k)
        BY <2>1, InnerIs
      <4>2. TextsIn(i) \subseteq 1..Len(Raws(body[i].inner))
        BY <2>1, ChildIs
      <4>3. \A k: Changes(i, k) => k \in TextsIn(i)
        BY DEF Changes
      <4> QED BY <2>1, <4>1, <4>2, <4>3 DEF Renews
    <3>2. Render(inside(i)) = FlattenSeq(NewRaws(i)) /\ FlattenSeq(NewRaws(i)) \in Seq(Byte)
      BY <2>1, InnerIs, CarrierRebuilt DEF NewRaws
    <3>3. ~ Taken(body, <<>>, i)
      BY <2>1, TakenIs DEF TextKinds
    <3> HIDE DEF within, inside, new
    <3>4. Renewed[i] = IF within(i) THEN Carrier(inside(i)) ELSE new[i]
      BY <1>4
    <3>5. NewText(i) = FlattenSeq(NewRaws(i))
      BY <2>1 DEF NewText
    <3>6. Renews(i) => Renewed[i].raw = Encode(NewText(i)) /\ NewText(i) \in Seq(Byte)
      BY <1>5, <3>1, <3>2, <3>4, <3>5
    <3>7. ~ Renews(i) => Renewed[i].raw = Raws(body)[i]
      BY <1>3, <3>1, <3>3, <3>4
    <3> QED BY <3>6, <3>7
  <2>2. CASE body[i].kind # "carrier"
    <3>1. Renews(i) <=> Taken(body, <<>>, i)
      BY <2>2 DEF Renews
    <3>2. Renewed[i] = new[i]
      BY <1>4, <2>2
    <3>3. NewText(i) = rewrites[<<i>>]
      BY <2>2 DEF NewText
    <3>4. Taken(body, <<>>, i) => rewrites[<<i>>] \in Seq(Byte)
      BY TakenIs, RewritesAre
    <3> QED BY <1>3, <3>1, <3>2, <3>3, <3>4
  <2> QED BY <2>1, <2>2
<1>7. \A i \in 1..Len(body): Renewed[i].raw \in Seq(Byte)
  BY <1>1, <1>6, EncodeIs
<1>8. Raws(Renewed) = [i \in 1..Len(body) |-> Renewed[i].raw]
  BY <1>4 DEF Raws
<1>9. Raws(Renewed) \in [1..Len(body) -> Seq(Byte)]
      /\ \A i \in 1..Len(body): Raws(Renewed)[i] = Renewed[i].raw
  BY <1>7, <1>8
<1>10. Raws(Renewed) \in Seq(Seq(Byte)) /\ Len(Raws(Renewed)) = Len(body)
  BY <1>1, <1>9, FunctionIsSeq
<1>11. Expected = FlattenSeq(Raws(Renewed))
  BY DEF Expected, Render, Raws
<1> QED BY <1>6, <1>9, <1>10, <1>11

\* The span that comes back for a selected one.
SettledSpan(i) ==
    LET span == SpanFor(i)
        part == Applied(Leaves(span))
    IN  IF ~ span.encoded THEN After1(span)
        ELSE IF AnyChanged(part)
        THEN [span EXCEPT !.changed = TRUE, !.children = part, !.text = Rebuilt(span.text, part).bytes]
        ELSE [span EXCEPT !.children = part]

LEMMA GatheredIs ==
    ASSUME Input, selected \in Seq(Spans), flatSpans = Applied(Flattened(selected)),
           NEW n \in 1..Len(selected), NEW i \in Selectable, selected[n] = SpanFor(i)
    PROVE  Gathered(n) = SettledSpan(i)
<1> DEFINE span == SpanFor(i)
<1>1. PartFor(n) = Applied(Leaves(span))
  BY PartForIs
<1>2. span \in Spans
  BY DEF Spans
<1>3. CASE ~ span.encoded
  <2>1. Leaves(span) = <<span>>
    BY <1>2, <1>3, LeavesAre
  <2>2. Applied(<<span>>)[1] = After1(span)
    <3>1. <<span>> \in Seq(Spans) /\ Len(<<span>>) = 1 /\ <<span>>[1] = span
      BY <1>2
    <3>2. 1 \in 1..Len(<<span>>)
      BY <3>1
    <3>3. Applied(<<span>>)[1] = After1(<<span>>[1])
      BY <3>1, <3>2, AppliedIs
    <3> QED BY <3>1, <3>3
  <2> HIDE DEF span
  <2>3. Gathered(n) = PartFor(n)[1]
    BY <1>3 DEF Gathered, span
  <2>4. SettledSpan(i) = After1(span)
    BY <1>3 DEF SettledSpan, span
  <2> QED BY <1>1, <2>1, <2>2, <2>3, <2>4
<1>4. CASE span.encoded
  BY <1>1, <1>4 DEF Gathered, SettledSpan
<1> QED BY <1>3, <1>4

LEMMA SettledSpanIs ==
    ASSUME Input, NEW i \in Selectable
    PROVE  /\ SettledSpan(i).start = Len(Upto(Raws(body), i - 1))
           /\ SettledSpan(i).end = Len(Upto(Raws(body), i))
           /\ SettledSpan(i).changed \in BOOLEAN
           /\ SettledSpan(i).text \in Seq(Byte)
           /\ SettledSpan(i).changed <=> Renews(i)
           /\ Renews(i) => SettledSpan(i).text = NewText(i)
<1> DEFINE span == SpanFor(i)
           part == Applied(Leaves(span))
           made == Rebuilt(span.text, part).bytes
           new == SettledSpan(i)
<1>1. /\ i \in 1..Len(body)
      /\ span.id = <<i>> /\ span.text = body[i].text /\ span.text \in Seq(Byte)
      /\ span.start = Len(Upto(Raws(body), i - 1)) /\ span.end = Len(Upto(Raws(body), i))
      /\ span.changed = FALSE /\ (span.encoded <=> body[i].kind = "carrier")
      /\ DOMAIN span = {"id", "start", "end", "text", "changed", "nested", "encoded", "children"}
  BY FoundIs
<1>2. CASE body[i].kind # "carrier"
  <2>1. body[i].kind \in TextKinds /\ body[i].kind # "nested"
    BY <1>2 DEF Selectable, TextKinds
  <2>2. /\ NewText(i) = rewrites[<<i>>] /\ NewText(i) \in Seq(Byte)
        /\ Renews(i) <=> rewrites[<<i>>] # body[i].text
    BY <1>1, <1>2, <2>1, TakenIs, RewritesAre DEF Renews, NewText
  <2> HIDE DEF span
  <2>3. new = After1(span)
    BY <1>1, <1>2 DEF SettledSpan, span
  <2>4. /\ After1(span).start = span.start /\ After1(span).end = span.end
        /\ After1(span).text = rewrites[span.id]
        /\ After1(span).changed = (rewrites[span.id] # span.text)
    BY <1>1 DEF After1
  <2> QED BY <1>1, <2>2, <2>3, <2>4
<1>3. CASE body[i].kind = "carrier"
  <2>1. /\ AnyChanged(part) <=> Renews(i)
        /\ AnyChanged(part) => made = FlattenSeq(NewRaws(i))
        /\ FlattenSeq(NewRaws(i)) \in Seq(Byte)
    <3>1. /\ AnyChanged(part) <=> \E k \in TextsIn(i): Changes(i, k)
          /\ AnyChanged(part) =>
                Rebuilt(span.text, part) = [kind |-> "body", bytes |-> FlattenSeq(NewRaws(i))]
          /\ FlattenSeq(NewRaws(i)) \in Seq(Byte)
      BY <1>1, <1>3, CarrierRebuilt
    <3>2. Renews(i) <=> \E k \in TextsIn(i): Changes(i, k)
      BY <1>3 DEF Renews
    <3> HIDE DEF span, part
    <3> QED BY <3>1, <3>2
  <2>2. NewText(i) = FlattenSeq(NewRaws(i))
    BY <1>3 DEF NewText
  <2>3. new = IF AnyChanged(part)
              THEN [span EXCEPT !.changed = TRUE, !.children = part, !.text = made]
              ELSE [span EXCEPT !.children = part]
    BY <1>1, <1>3 DEF SettledSpan
  <2> HIDE DEF span, part, made, new
  <2>4. CASE AnyChanged(part)
    <3>1. /\ new.start = span.start /\ new.end = span.end /\ new.changed = TRUE /\ new.text = made
      BY <1>1, <2>3, <2>4
    <3> QED BY <1>1, <2>1, <2>2, <2>4, <3>1 DEF new
  <2>5. CASE ~ AnyChanged(part)
    <3>1. /\ new.start = span.start /\ new.end = span.end /\ new.changed = span.changed
          /\ new.text = span.text
      BY <1>1, <2>3, <2>5
    <3> QED BY <1>1, <2>1, <2>5, <3>1 DEF new
  <2> QED BY <2>4, <2>5
<1> QED BY <1>2, <1>3

\* A list of the spans in the order of their tokens, and their leaves after the rules.
Worked(list, q, work) ==
    /\ list \in Seq(Spans)
    /\ Spread(list, q, Selectable, Found)
    /\ work = Applied(Flattened(list))

\* Where the leaves of the n-th span begin.
Before(list, n) == Len(Upto(LeafLists(list), n - 1))

LEMMA WorkedIs ==
    ASSUME Input, NEW list, NEW q, NEW work, Worked(list, q, work)
    PROVE  /\ Len(list) \in Nat
           /\ \A n \in 1..Len(list): q[n] \in Selectable /\ list[n] = SpanFor(q[n])
           /\ \A m, n \in 1..Len(list): m # n => q[m] # q[n]
           /\ \A i \in Selectable: \E n \in 1..Len(list): q[n] = i
           /\ Len(work) \in Nat /\ DOMAIN work = 1..Len(work)
           /\ Len(work) = Len(Flattened(list))
<1>1. list \in Seq(Spans) /\ Picks(list, q, Selectable, Found) /\ work = Applied(Flattened(list))
  BY DEF Worked, Spread
<1>2. \A i \in Selectable: Found[i] = SpanFor(i)
  BY DEF Found
<1>3. \A n \in 1..Len(list): q[n] \in Selectable /\ list[n] = SpanFor(q[n])
  BY <1>1, <1>2 DEF Picks
<1>4. /\ \A m, n \in 1..Len(list): m # n => q[m] # q[n]
      /\ \A i \in Selectable: \E n \in 1..Len(list): q[n] = i
  BY <1>1 DEF Picks
<1>5. Flattened(list) \in Seq(LeafSpans)
  BY <1>1, FlattenedIs
<1>6. Len(work) = Len(Flattened(list)) /\ DOMAIN work = 1..Len(work)
  BY <1>1, <1>5, AppliedIs
<1>7. Len(list) \in Nat /\ Len(Flattened(list)) \in Nat
  BY <1>1, <1>5, LenProperties
<1> QED BY <1>3, <1>4, <1>6, <1>7

LEMMA LeafAt ==
    ASSUME Input, NEW list, NEW q, NEW work, Worked(list, q, work),
           NEW n \in 1..Len(list), NEW j \in 1..Len(Leaves(SpanFor(q[n])))
    PROVE  /\ Before(list, n) + j \in 1..Len(work)
           /\ work[Before(list, n) + j] = After1(Leaves(SpanFor(q[n]))[j])
<1> DEFINE P == LeafLists(list)
           own == Leaves(SpanFor(q[n]))
           start == Len(Upto(P, n - 1))
<1>1. /\ list \in Seq(Spans) /\ work = Applied(Flattened(list))
      /\ list[n] = SpanFor(q[n])
  BY WorkedIs DEF Worked
<1>2. /\ P \in Seq(Seq(LeafSpans)) /\ Len(P) = Len(list) /\ P[n] = own
      /\ Flattened(list) = FlattenSeq(P)
      /\ Flattened(list) \in Seq(LeafSpans)
  BY <1>1, FlattenedIs
<1> HIDE DEF P
<1>3. n \in 1..Len(P)
  BY <1>2
<1>4. /\ start \in Nat /\ start + Len(P[n]) <= Len(FlattenSeq(P))
      /\ \A k \in 1..Len(P[n]): FlattenSeq(P)[start + k] = P[n][k]
  BY <1>2, <1>3, FlattenPlaces
<1>5. /\ Len(work) = Len(Flattened(list))
      /\ \A m \in 1..Len(Flattened(list)): work[m] = After1(Flattened(list)[m])
  BY <1>1, <1>2, AppliedIs
<1>6. Len(own) \in Nat /\ Len(FlattenSeq(P)) \in Nat
  <2>1. own \in Seq(LeafSpans)
    BY <1>2, <1>3, ElementOfSeq
  <2> QED BY <1>2, <2>1, LenProperties
<1> HIDE DEF start, own
<1>7. j \in 1..Len(own)
  BY DEF own
<1>8. start + j \in 1..Len(FlattenSeq(P))
  BY <1>2, <1>4, <1>6, <1>7
<1>9. FlattenSeq(P)[start + j] = own[j]
  BY <1>2, <1>4, <1>7
<1>10. work[start + j] = After1(own[j])
  BY <1>2, <1>5, <1>8, <1>9
<1> QED BY <1>2, <1>5, <1>8, <1>10 DEF Before, P, start, own

LEMMA LeafFrom ==
    ASSUME Input, NEW list, NEW q, NEW work, Worked(list, q, work), NEW m \in 1..Len(work)
    PROVE  \E n \in 1..Len(list): \E j \in 1..Len(Leaves(SpanFor(q[n]))): m = Before(list, n) + j
<1> DEFINE P == LeafLists(list)
<1>1. list \in Seq(Spans) /\ Len(work) = Len(Flattened(list))
  BY WorkedIs DEF Worked
<1>2. /\ P \in Seq(Seq(LeafSpans)) /\ Len(P) = Len(list)
      /\ \A n \in 1..Len(list): P[n] = Leaves(list[n])
      /\ Flattened(list) = FlattenSeq(P)
  BY <1>1, FlattenedIs
<1> HIDE DEF P
<1>3. m \in 1..Len(FlattenSeq(P))
  BY <1>1, <1>2
<1>4. PICK n \in 1..Len(P): \E j \in 1..Len(P[n]): m = Len(Upto(P, n - 1)) + j
  BY <1>2, <1>3, FlattenFrom
<1>5. P[n] = Leaves(SpanFor(q[n]))
  BY <1>2, WorkedIs
<1> QED BY <1>2, <1>4, <1>5 DEF Before, P

\* A text is a leaf of its own.
LEMMA TextLeaf ==
    ASSUME Input, NEW i \in Selectable, body[i].kind # "carrier"
    PROVE  Leaves(SpanFor(i)) = <<SpanFor(i)>> /\ Len(Leaves(SpanFor(i))) = 1
           /\ Leaves(SpanFor(i))[1] = SpanFor(i)
<1>1. SpanFor(i) \in Spans
  BY DEF Spans
<1>2. ~ SpanFor(i).encoded
  BY FoundIs
<1>3. Leaves(SpanFor(i)) = <<SpanFor(i)>>
  BY <1>1, <1>2, LeavesAre
<1> QED BY <1>3

\* A text after the rules.
LEMMA TextAfter ==
    ASSUME Input, NEW i \in Selectable, body[i].kind # "carrier"
    PROVE  /\ After1(SpanFor(i)).changed <=> Altered(body, <<>>, i)
           /\ After1(SpanFor(i)).text = rewrites[<<i>>]
           /\ After1(SpanFor(i)).nested = SpanFor(i).nested
           /\ Altered(body, <<>>, i) <=> Renews(i)
<1> DEFINE span == SpanFor(i)
<1>1. /\ i \in 1..Len(body) /\ span.id = <<i>> /\ span.text = body[i].text
      /\ DOMAIN span = {"id", "start", "end", "text", "changed", "nested", "encoded", "children"}
  BY FoundIs
<1>2. body[i].kind \in TextKinds /\ body[i].kind # "nested"
  BY DEF Selectable, TextKinds
<1> HIDE DEF span
<1>3. /\ After1(span).text = rewrites[span.id] /\ After1(span).nested = span.nested
      /\ After1(span).changed = (rewrites[span.id] # span.text)
  BY <1>1 DEF After1
<1>4. Altered(body, <<>>, i) <=> rewrites[<<i>>] # body[i].text
  BY <1>1, <1>2, TakenIs
<1>5. Renews(i) <=> rewrites[<<i>>] # body[i].text
  BY <1>1, <1>2, TakenIs DEF Renews
<1> QED BY <1>1, <1>3, <1>4, <1>5 DEF span

\* If no leaf changed, the body stays as it is.
LEMMA NothingChanged ==
    ASSUME Input, NEW list, NEW q, NEW work, Worked(list, q, work), ~ AnyChanged(work)
    PROVE  Expected = Render(body)
<1>1. \A m \in 1..Len(work): ~ work[m].changed
  BY WorkedIs DEF AnyChanged
<1>2. ASSUME NEW i \in Selectable PROVE ~ Renews(i)
  <2>1. PICK n \in 1..Len(list): q[n] = i
    BY WorkedIs
  <2>2. ASSUME NEW j \in 1..Len(Leaves(SpanFor(i))) PROVE ~ After1(Leaves(SpanFor(i))[j]).changed
    <3>1. /\ Before(list, n) + j \in 1..Len(work)
          /\ work[Before(list, n) + j] = After1(Leaves(SpanFor(i))[j])
      BY <2>1, LeafAt
    <3> QED BY <1>1, <3>1
  <2>3. CASE body[i].kind # "carrier"
    <3>1. ~ After1(SpanFor(i)).changed
      BY <2>2, <2>3, TextLeaf
    <3> QED BY <2>3, <3>1, TextAfter
  <2>4. CASE body[i].kind = "carrier"
    <3> DEFINE L == Leaves(SpanFor(i))
    <3>1. i \in 1..Len(body)
      BY FoundIs
    <3>2. L \in Seq(Kids(i))
      BY <2>4, <3>1, CarrierParts
    <3>3. AnyChanged(Applied(L)) <=> Renews(i)
      BY <2>4, <3>1, CarrierRebuilt DEF Renews
    <3> HIDE DEF L
    <3>4. /\ Len(Applied(L)) = Len(L) /\ DOMAIN Applied(L) = 1..Len(L)
          /\ \A j \in 1..Len(L): Applied(L)[j] = After1(L[j])
      BY <3>2, AppliedIs
    <3>5. ~ AnyChanged(Applied(L))
      BY <2>2, <3>4 DEF AnyChanged, L
    <3> QED BY <3>3, <3>5
  <2> QED BY <2>3, <2>4
<1>3. body \in Seq(Piece) /\ DOMAIN body = 1..Len(body) /\ Len(body) \in Nat
      /\ Raws(body) \in Seq(Seq(Byte)) /\ Len(Raws(body)) = Len(body)
      /\ Render(body) = FlattenSeq(Raws(body))
  BY BodyIs, RawsAre
<1>4. \A i \in 1..Len(body): Altered(body, <<>>, i) /\ body[i].kind # "nested" => FALSE
  <2>1. \A i \in 1..Len(body): Altered(body, <<>>, i) /\ body[i].kind # "nested" =>
           i \in Selectable /\ body[i].kind # "carrier"
    BY <1>3, TakenIs DEF Selectable, TextKinds
  <2> QED BY <1>2, <2>1, TextAfter
<1>5. ASSUME NEW i \in 1..Len(body) PROVE ~ Renews(i)
  <2>1. CASE i \in Selectable
    BY <1>2, <2>1
  <2>2. CASE i \notin Selectable
    <3>1. body[i].kind # "carrier" /\ (body[i].kind \in TextKinds => body[i].kind = "nested")
      BY <1>3, <2>2 DEF Selectable, TextKinds
    <3>2. Renews(i) <=> Taken(body, <<>>, i)
      BY <3>1 DEF Renews
    <3>3. ~ EmptiedAt(body, <<>>, i)
      <4>1. \A j \in 1..Len(body): i \in NestedOf(body, j) => body[j].kind # "nested"
        BY DEF NestedOf
      <4> QED BY <1>3, <1>4, <4>1 DEF EmptiedAt
    <3>4. ~ Taken(body, <<>>, i)
      BY <3>1, <3>3, TakenIs
    <3> QED BY <3>2, <3>4
  <2> QED BY <2>1, <2>2
<1>6. /\ Raws(Renewed) \in Seq(Seq(Byte)) /\ Len(Raws(Renewed)) = Len(body)
      /\ Expected = FlattenSeq(Raws(Renewed))
      /\ \A i \in 1..Len(body): Raws(Renewed)[i] = Raws(body)[i]
  BY <1>5, RenewedIs
<1>7. Raws(Renewed) = Raws(body)
  BY <1>3, <1>6, SeqEqual
<1> QED BY <1>3, <1>6, <1>7

-----------------------------------------------------------------------------
(* The descriptions that take over. *)

Emp == {k \in 1..Len(body): EmptiedAt(body, <<>>, k)}
Under == [k \in Emp |-> SpanAt(body, k, <<k>>)]
UnderAfter == [k \in Emp |-> After1(Under[k])]

LEMMA EmpIs ==
    ASSUME Input, NEW k \in Emp
    PROVE  /\ k \in 1..Len(body) /\ body[k].kind = "nested" /\ Raws(body)[k] # <<>>
           /\ \E i \in Selectable: /\ k \in NestedOf(body, i) /\ body[i].kind # "carrier"
                                   /\ Altered(body, <<>>, i) /\ rewrites[<<i>>] = <<>>
           /\ Under[k].start = Len(Upto(Raws(body), k - 1))
           /\ Under[k].end = Len(Upto(Raws(body), k))
           /\ Under[k].id = <<k>>
           /\ UnderAfter[k].start = Len(Upto(Raws(body), k - 1))
           /\ UnderAfter[k].end = Len(Upto(Raws(body), k))
           /\ UnderAfter[k].changed \in BOOLEAN
           /\ UnderAfter[k].text \in Seq(Byte)
           /\ UnderAfter[k].text = NewText(k)
           /\ UnderAfter[k].changed <=> Renews(k)
<1>1. /\ body \in Seq(Piece) /\ DOMAIN body = 1..Len(body)
      /\ \A i \in 1..Len(body): body[i].kind # "raw" => body[i].raw # <<>>
      /\ \A i \in 1..Len(body): Raws(body)[i] = body[i].raw
  BY BodyIs, RawsAre
<1>2. k \in 1..Len(body)
  BY DEF Emp
<1>3. PICK i \in 1..Len(body): /\ k \in NestedOf(body, i)
                               /\ Altered(body, <<>>, i) /\ rewrites[<<i>>] = <<>>
  BY <1>1, TakenIs DEF Emp, EmptiedAt
<1>4. body[i].kind = "tool" /\ body[k].kind = "nested"
  BY <1>3 DEF NestedOf
<1>5. i \in Selectable
  BY <1>1, <1>4 DEF Selectable
<1>6. Raws(body)[k] # <<>>
  BY <1>1, <1>2, <1>4
<1> DEFINE u == SpanAt(body, k, <<k>>)
           t == After1(u)
<1>7. /\ u.id = <<k>> /\ u.text = body[k].text
      /\ u.start = StartOf(body, k) /\ u.end = StartOf(body, k) + Len(body[k].raw)
      /\ DOMAIN u = {"id", "start", "end", "text", "changed", "nested", "encoded", "children"}
  BY DEF SpanAt
<1>8. /\ StartOf(body, k) = Len(Upto(Raws(body), k - 1))
      /\ StartOf(body, k) + Len(body[k].raw) = Len(Upto(Raws(body), k))
  BY <1>1, <1>2, StartIs
<1>9. Under[k] = u /\ UnderAfter[k] = t
  BY DEF Under, UnderAfter
<1> HIDE DEF u
<1>10. /\ t.start = u.start /\ t.end = u.end /\ t.text = rewrites[u.id]
       /\ t.changed = (rewrites[u.id] # u.text)
  BY <1>7 DEF After1
<1> HIDE DEF t
<1>11. NewText(k) = rewrites[<<k>>] /\ rewrites[<<k>>] \in Seq(Byte)
  BY <1>2, <1>4, RewritesAre DEF NewText, TextKinds
<1>12. Renews(k) <=> rewrites[<<k>>] # body[k].text
  BY <1>2, <1>4, TakenIs DEF Renews, TextKinds, Emp
<1> QED BY <1>2, <1>3, <1>4, <1>5, <1>6, <1>7, <1>8, <1>9, <1>10, <1>11, <1>12

\* What each leaf hands over to.
HandedOver(leaf) == IF leaf.changed /\ leaf.text = <<>> THEN leaf.nested ELSE <<>>

\* An emptied leaf stands for a tool, the first of its span's leaves.
LEMMA HandsOver ==
    ASSUME Input, NEW list, NEW q, NEW work, Worked(list, q, work), NEW m \in 1..Len(work),
           HandedOver(work[m]) # <<>>
    PROVE  \E n \in 1..Len(list): \E k \in NestedOf(body, q[n]):
              /\ k \in Emp
              /\ m = Before(list, n) + 1
              /\ HandedOver(work[m]) = <<Under[k]>>
<1>1. work[m].changed /\ work[m].text = <<>> /\ HandedOver(work[m]) = work[m].nested
  BY DEF HandedOver
<1>2. PICK n \in 1..Len(list): \E j \in 1..Len(Leaves(SpanFor(q[n]))): m = Before(list, n) + j
  BY LeafFrom
<1>3. PICK j \in 1..Len(Leaves(SpanFor(q[n]))): m = Before(list, n) + j
  BY <1>2
<1>4. work[m] = After1(Leaves(SpanFor(q[n]))[j])
  BY <1>3, LeafAt
<1> DEFINE i == q[n]
<1>5. i \in Selectable /\ i \in 1..Len(body)
  BY WorkedIs, FoundIs
<1>6. CASE body[i].kind = "carrier"
  <2>1. Leaves(SpanFor(i)) \in Seq(Kids(i))
    BY <1>5, <1>6, ChildrenAre
  <2>2. Leaves(SpanFor(i))[j] \in Kids(i)
    BY <1>3, <2>1, ElementOfSeq
  <2>3. PICK k \in TextsIn(i): Leaves(SpanFor(i))[j] = Child(i)[k]
    BY <2>2 DEF Kids
  <2> DEFINE c == Child(i)[k]
  <2>4. /\ c.nested = <<>>
        /\ DOMAIN c = {"id", "start", "end", "text", "changed", "nested", "encoded", "children"}
    BY <1>5, <1>6, ChildIs
  <2> HIDE DEF c
  <2>5. After1(c).nested = c.nested
    BY <2>4 DEF After1
  <2> QED BY <1>1, <1>4, <2>3, <2>4, <2>5 DEF c
<1>7. CASE body[i].kind # "carrier"
  <2>1. j = 1 /\ work[m] = After1(SpanFor(i))
    BY <1>3, <1>4, <1>5, <1>7, TextLeaf
  <2>2. /\ Altered(body, <<>>, i) /\ rewrites[<<i>>] = <<>>
        /\ HandedOver(work[m]) = SpanFor(i).nested
    BY <1>1, <1>5, <1>7, <2>1, TextAfter
  <2>3. /\ NestedOf(body, i) = {} => SpanFor(i).nested = <<>>
        /\ \A k \in NestedOf(body, i): SpanFor(i).nested = <<SpanAt(body, k, <<k>>)>>
    BY <1>5, <1>7, TextSpanIs
  <2>4. PICK k \in NestedOf(body, i): TRUE
    BY <2>2, <2>3
  <2>5. DOMAIN body = 1..Len(body) /\ Append(<<>>, i) = <<i>>
    BY <1>5, BodyIs, RawsAre, TakenIs
  <2>6. k \in Emp
    BY <1>5, <2>2, <2>4, <2>5 DEF Emp, EmptiedAt, NestedOf
  <2>7. Under[k] = SpanAt(body, k, <<k>>)
    BY <2>6 DEF Under
  <2> QED BY <1>3, <2>1, <2>2, <2>3, <2>4, <2>6, <2>7
<1> QED BY <1>6, <1>7

\* Each emptied description has a leaf that hands over.
LEMMA TakesOver ==
    ASSUME Input, NEW list, NEW q, NEW work, Worked(list, q, work), NEW k \in Emp
    PROVE  \E m \in 1..Len(work): HandedOver(work[m]) = <<Under[k]>>
<1>1. PICK i \in Selectable: /\ k \in NestedOf(body, i) /\ body[i].kind # "carrier"
                             /\ Altered(body, <<>>, i) /\ rewrites[<<i>>] = <<>>
  BY EmpIs
<1>2. PICK n \in 1..Len(list): q[n] = i
  BY WorkedIs
<1>3. /\ Leaves(SpanFor(i))[1] = SpanFor(i) /\ 1 \in 1..Len(Leaves(SpanFor(i)))
  BY <1>1, TextLeaf
<1>4. /\ Before(list, n) + 1 \in 1..Len(work)
      /\ work[Before(list, n) + 1] = After1(SpanFor(i))
  BY <1>2, <1>3, LeafAt
<1>5. /\ After1(SpanFor(i)).changed /\ After1(SpanFor(i)).text = <<>>
      /\ After1(SpanFor(i)).nested = SpanFor(i).nested
  BY <1>1, TextAfter
<1>6. SpanFor(i).nested = <<SpanAt(body, k, <<k>>)>>
  BY <1>1, FoundIs, TextSpanIs
<1>7. Under[k] = SpanAt(body, k, <<k>>)
  BY DEF Under
<1>8. HandedOver(work[Before(list, n) + 1]) = <<Under[k]>>
  BY <1>4, <1>5, <1>6, <1>7 DEF HandedOver
<1> QED BY <1>4, <1>8

Unders == {Under[k]: k \in Emp}
UndersAfter == {UnderAfter[k]: k \in Emp}

LEMMA TakingOverIs ==
    ASSUME Input, NEW q, Worked(selected, q, flatSpans)
    PROVE  TakingOver \in Seq(UndersAfter) /\ \E o: Picks(TakingOver, o, Emp, UnderAfter)
<1> DEFINE s == [m \in 1..Len(flatSpans) |-> HandedOver(flatSpans[m])]
           c == [m \in 1..Len(flatSpans) |-> s[m][1].id[1]]
           raws == Raws(body)
           N == Len(flatSpans)
<1>1. /\ N \in Nat /\ DOMAIN flatSpans = 1..N
      /\ \A m, n \in 1..Len(selected): m # n => q[m] # q[n]
      /\ \A n \in 1..Len(selected): q[n] \in Selectable
  BY WorkedIs
<1>2. TakingOver = Applied(Sorted(FlattenSeq(s)))
  BY <1>1 DEF TakingOver, HandedOver
<1>3. \A m \in 1..N: s[m] = HandedOver(flatSpans[m]) /\ c[m] = s[m][1].id[1]
  OBVIOUS
<1>4. s = [m \in 1..N |-> s[m]]
  OBVIOUS
<1> HIDE DEF s, c, N
<1>5. \A k \in Emp: Under[k] \in Unders /\ Under[k].id = <<k>>
  BY EmpIs DEF Unders
<1>6. ASSUME NEW m \in 1..N, s[m] # <<>>
      PROVE  \E n \in 1..Len(selected): \E k \in NestedOf(body, q[n]):
                /\ k \in Emp /\ m = Before(selected, n) + 1
                /\ s[m] = <<Under[k]>> /\ c[m] = k
  <2>1. PICK n \in 1..Len(selected): \E k \in NestedOf(body, q[n]):
              /\ k \in Emp
              /\ m = Before(selected, n) + 1
              /\ HandedOver(flatSpans[m]) = <<Under[k]>>
    BY <1>3, <1>6, HandsOver DEF N
  <2>2. PICK k \in NestedOf(body, q[n]):
              /\ k \in Emp
              /\ m = Before(selected, n) + 1
              /\ HandedOver(flatSpans[m]) = <<Under[k]>>
    BY <2>1
  <2>3. s[m] = <<Under[k]>>
    BY <1>3, <2>2
  <2>4. c[m] = k
    <3>1. Under[k].id = <<k>>
      BY <1>5, <2>2
    <3>2. s[m][1] = Under[k]
      BY <2>3
    <3>3. \A x: <<x>>[1] = x
      OBVIOUS
    <3> QED BY <1>3, <3>1, <3>2, <3>3
  <2> QED BY <2>2, <2>3, <2>4
<1>7. s \in Seq(Seq(Unders)) /\ Len(s) = N
  <2>1. \A m \in 1..N: s[m] \in Seq(Unders)
    <3> SUFFICES ASSUME NEW m \in 1..N PROVE s[m] \in Seq(Unders)
      OBVIOUS
    <3>1. CASE s[m] = <<>>
      BY <3>1
    <3>2. CASE s[m] # <<>>
      <4>1. PICK k \in Emp: s[m] = <<Under[k]>>
        BY <1>6, <3>2
      <4>2. Under[k] \in Unders
        BY <1>5
      <4> QED BY <4>1, <4>2
    <3> QED BY <3>1, <3>2
  <2>2. s \in [1..N -> Seq(Unders)]
    BY <1>4, <2>1
  <2> QED BY <1>1, <2>2, FunctionIsSeq
<1>8. \A m \in 1..Len(s): s[m] # <<>> => c[m] \in Emp /\ s[m] = <<Under[c[m]]>>
  BY <1>6, <1>7
<1>9. ASSUME NEW m \in 1..Len(s), NEW w \in 1..Len(s), s[m] # <<>>, s[w] # <<>>, m # w
      PROVE  c[m] # c[w]
  <2>1. PICK n \in 1..Len(selected): /\ c[m] \in NestedOf(body, q[n])
                                     /\ m = Before(selected, n) + 1
    BY <1>6, <1>7, <1>9
  <2>2. PICK r \in 1..Len(selected): /\ c[w] \in NestedOf(body, q[r])
                                     /\ w = Before(selected, r) + 1
    BY <1>6, <1>7, <1>9
  <2>3. n # r
    BY <1>9, <2>1, <2>2
  <2>4. q[n] # q[r] /\ q[n] \in Selectable /\ q[r] \in Selectable
    BY <1>1, <2>3
  <2>5. q[n] \in 1..Len(body) /\ q[r] \in 1..Len(body)
    BY <2>4, FoundIs
  <2> QED BY <2>1, <2>2, <2>4, <2>5, BodyIs
<1>10. ASSUME NEW k \in Emp PROVE \E m \in 1..Len(s): s[m] # <<>> /\ c[m] = k
  <2>1. PICK m \in 1..N: HandedOver(flatSpans[m]) = <<Under[k]>>
    BY TakesOver DEF N
  <2>2. s[m] = <<Under[k]>>
    BY <1>3, <2>1
  <2>3. \A x: <<x>> # <<>> /\ <<x>>[1] = x
    OBVIOUS
  <2>4. c[m] = k
    BY <1>3, <1>5, <2>2, <2>3
  <2> QED BY <1>7, <2>2, <2>3, <2>4
<1>11. FlattenSeq(s) \in Seq(Unders) /\ \E o: Picks(FlattenSeq(s), o, Emp, Under)
  <2>1. \A m, n \in 1..Len(s): s[m] # <<>> /\ s[n] # <<>> /\ m # n => c[m] # c[n]
    BY <1>9
  <2>2. \A k \in Emp: \E m \in 1..Len(s): s[m] # <<>> /\ c[m] = k
    BY <1>10
  <2> QED BY ONLY <1>7, <1>8, <2>1, <2>2, FlattenPicks
<1>12. PICK o: Picks(FlattenSeq(s), o, Emp, Under)
  BY <1>11
<1>13. /\ raws \in Seq(Seq(Byte)) /\ Emp \subseteq 1..Len(raws)
       /\ \A k \in Emp: raws[k] # <<>> /\ Under[k].start = Len(Upto(raws, k - 1))
  BY EmpIs, SelectableIs
<1> HIDE DEF raws
<1>14. Sorted(FlattenSeq(s)) \in Seq(Unders) /\ \E r: Spread(Sorted(FlattenSeq(s)), r, Emp, Under)
  BY <1>11, <1>12, <1>13, SortedPicks
<1> DEFINE below == Sorted(FlattenSeq(s))
<1> HIDE DEF below
<1>15. below \in Seq(Unders) /\ TakingOver = Applied(below)
  BY <1>2, <1>14 DEF below
<1>16. PICK r: Spread(below, r, Emp, Under)
  BY <1>14 DEF below
<1>17. Picks(TakingOver, r, Emp, UnderAfter)
  BY <1>15, <1>16, AppliedPicks DEF Spread, UnderAfter
<1>18. TakingOver \in Seq(UndersAfter)
  <2>1. /\ TakingOver \in Seq({TakingOver[n]: n \in 1..Len(below)})
        /\ Len(TakingOver) = Len(below)
    BY <1>15, AppliedIs
  <2>2. \A n \in 1..Len(TakingOver): TakingOver[n] \in UndersAfter
    BY <1>17 DEF Picks, UndersAfter
  <2>3. {TakingOver[n]: n \in 1..Len(below)} \subseteq UndersAfter
    BY <2>1, <2>2
  <2> QED BY <2>1, <2>3
<1> QED BY <1>17, <1>18

\* Of these, the ones the rules change.
Act == {k \in Emp: Renews(k)}

LEMMA ActivatedAre ==
    ASSUME Input, NEW q, Worked(selected, q, flatSpans)
    PROVE  /\ ChangedOf(TakingOver) \in Seq(UndersAfter)
           /\ \E o: Picks(ChangedOf(TakingOver), o, Act, UnderAfter)
<1> DEFINE list == TakingOver
           N == Len(list)
           s == [m \in 1..N |-> IF list[m].changed THEN <<list[m]>> ELSE <<>>]
<1>1. list \in Seq(UndersAfter) /\ \E o: Picks(list, o, Emp, UnderAfter)
  BY TakingOverIs
<1> HIDE DEF list
<1>2. PICK o: Picks(list, o, Emp, UnderAfter)
  BY <1>1
<1>3. /\ N \in Nat /\ DOMAIN list = 1..N
      /\ \A m \in 1..N: list[m] \in UndersAfter
  BY <1>1, LenProperties, ElementOfSeq
<1>4. ChangedOf(list) = FlattenSeq(s)
  BY <1>3 DEF ChangedOf
<1>5. /\ \A m \in 1..N: o[m] \in Emp /\ list[m] = UnderAfter[o[m]]
      /\ \A m, n \in 1..N: m # n => o[m] # o[n]
      /\ \A k \in Emp: \E m \in 1..N: o[m] = k
  BY <1>2 DEF Picks
<1>6. \A m \in 1..N: list[m].changed <=> o[m] \in Act
  BY <1>5, EmpIs DEF Act
<1>7. \A x: <<x>> # <<>>
  OBVIOUS
<1>8. \A m \in 1..N: /\ o[m] \in Act => s[m] = <<list[m]>>
                     /\ o[m] \notin Act => s[m] = <<>>
  BY <1>6
<1>9. s = [m \in 1..N |-> s[m]]
  OBVIOUS
<1> HIDE DEF s, N
<1>10. s \in Seq(Seq(UndersAfter)) /\ Len(s) = N
  <2>1. <<>> \in Seq(UndersAfter) /\ \A x \in UndersAfter: <<x>> \in Seq(UndersAfter)
    OBVIOUS
  <2>2. \A m \in 1..N: s[m] \in Seq(UndersAfter)
    BY <1>3, <1>8, <2>1
  <2>3. s \in [1..N -> Seq(UndersAfter)]
    BY <1>9, <2>2
  <2> QED BY <1>3, <2>3, FunctionIsSeq
<1>11. \A m \in 1..Len(s): s[m] # <<>> => o[m] \in Act /\ s[m] = <<UnderAfter[o[m]]>>
  BY <1>5, <1>8, <1>10
<1>12. \A m, n \in 1..Len(s): s[m] # <<>> /\ s[n] # <<>> /\ m # n => o[m] # o[n]
  BY <1>5, <1>10
<1>13. ASSUME NEW k \in Act PROVE \E m \in 1..Len(s): s[m] # <<>> /\ o[m] = k
  <2>1. PICK m \in 1..N: o[m] = k
    BY <1>5 DEF Act
  <2>2. s[m] = <<list[m]>>
    BY <1>8, <2>1
  <2> QED BY <1>7, <1>10, <2>1, <2>2
<1>14. FlattenSeq(s) \in Seq(UndersAfter) /\ \E p: Picks(FlattenSeq(s), p, Act, UnderAfter)
  BY <1>10, <1>11, <1>12, <1>13, FlattenPicks
<1> QED BY <1>4, <1>14 DEF list

-----------------------------------------------------------------------------
(* The spans that rebuildBody is given. *)

LEMMA PicksSame ==
    ASSUME NEW list, NEW o, NEW I, NEW F, Picks(list, o, I, F), NEW G, \A i \in I: G[i] = F[i]
    PROVE  Picks(list, o, I, G)
<1>1. /\ o \in [1..Len(list) -> I]
      /\ \A m, n \in 1..Len(list): m # n => o[m] # o[n]
      /\ \A i \in I: \E n \in 1..Len(list): o[n] = i
      /\ \A n \in 1..Len(list): list[n] = F[o[n]]
  BY DEF Picks
<1>2. \A n \in 1..Len(list): o[n] \in I
  BY <1>1
<1>3. \A n \in 1..Len(list): list[n] = G[o[n]]
  BY <1>1, <1>2
<1> QED BY <1>1, <1>3 DEF Picks

\* Every segment that has a span, and its span after the rules.
Held == Selectable \cup Act
FinalSpan == [i \in Held |-> IF i \in Selectable THEN SettledSpan(i) ELSE UnderAfter[i]]

LEMMA HeldIs ==
    ASSUME Input
    PROVE  /\ Held \subseteq 1..Len(Raws(body)) /\ Selectable \cap Act = {}
           /\ \A i \in Selectable: FinalSpan[i] = SettledSpan(i)
           /\ \A i \in Act: FinalSpan[i] = UnderAfter[i]
           /\ \A i \in Held:
                 /\ Raws(body)[i] # <<>>
                 /\ FinalSpan[i].start = Len(Upto(Raws(body), i - 1))
                 /\ FinalSpan[i].end = Len(Upto(Raws(body), i))
                 /\ FinalSpan[i].changed \in BOOLEAN
                 /\ FinalSpan[i].text \in Seq(Byte)
                 /\ FinalSpan[i].changed <=> Renews(i)
                 /\ Renews(i) => FinalSpan[i].text = NewText(i)
<1>1. Act \subseteq Emp
  BY DEF Act
<1>2. \A i \in Act: body[i].kind = "nested" /\ i \in 1..Len(body)
  BY <1>1, EmpIs
<1>3. Selectable \cap Act = {}
  BY <1>2 DEF Selectable
<1>4. Len(Raws(body)) = Len(body) /\ Selectable \subseteq 1..Len(body)
  BY SelectableIs
<1>5. ASSUME NEW i \in Held
      PROVE  /\ Raws(body)[i] # <<>>
             /\ FinalSpan[i].start = Len(Upto(Raws(body), i - 1))
             /\ FinalSpan[i].end = Len(Upto(Raws(body), i))
             /\ FinalSpan[i].changed \in BOOLEAN
             /\ FinalSpan[i].text \in Seq(Byte)
             /\ FinalSpan[i].changed <=> Renews(i)
             /\ Renews(i) => FinalSpan[i].text = NewText(i)
  <2>1. CASE i \in Selectable
    <3>1. FinalSpan[i] = SettledSpan(i)
      BY <2>1 DEF FinalSpan, Held
    <3> QED BY <2>1, <3>1, FoundIs, SettledSpanIs
  <2>2. CASE i \in Act
    <3>1. FinalSpan[i] = UnderAfter[i]
      BY <1>3, <2>2 DEF FinalSpan, Held
    <3> QED BY <1>1, <2>2, <3>1, EmpIs
  <2> QED BY <2>1, <2>2 DEF Held
<1>6. \A i \in Selectable: FinalSpan[i] = SettledSpan(i)
  BY DEF FinalSpan, Held
<1>7. \A i \in Act: FinalSpan[i] = UnderAfter[i]
  BY <1>3 DEF FinalSpan, Held
<1> QED BY <1>2, <1>3, <1>4, <1>5, <1>6, <1>7 DEF Held

\* Everything that is encoded anew has one.
LEMMA RenewedHeld ==
    ASSUME Input, NEW i \in 1..Len(body), Renews(i)
    PROVE  i \in Held
<1>1. DOMAIN body = 1..Len(body)
  BY BodyIs, RawsAre
<1>2. CASE i \in Selectable
  BY <1>2 DEF Held
<1>3. CASE i \notin Selectable
  <2>1. body[i].kind # "carrier" /\ (body[i].kind \in TextKinds => body[i].kind = "nested")
    BY <1>1, <1>3 DEF Selectable, TextKinds
  <2>2. Taken(body, <<>>, i)
    BY <2>1 DEF Renews
  <2>3. EmptiedAt(body, <<>>, i)
    BY <2>1, <2>2, TakenIs
  <2> QED BY <2>3 DEF Held, Act, Emp
<1> QED BY <1>2, <1>3

\* What Settle leaves in selected.
SettledList(list) == Joined([n \in DOMAIN list |-> Gathered(n)], ChangedOf(TakingOver))

\* The spans for rebuildBody: in order, and with exactly the new tokens.
LEMMA SettledAre ==
    ASSUME Input, NEW q, Worked(selected, q, flatSpans)
    PROVE  /\ Valid(SettledList(selected), Len(Render(body)))
           /\ \E S: SettledList(selected) \in Seq(S)
           /\ \E r: /\ Owned(SettledList(selected), r, Raws(body))
                    /\ Exchanged(SettledList(selected), r, Raws(body), Raws(Renewed))
<1> DEFINE first == [n \in DOMAIN selected |-> Gathered(n)]
           second == ChangedOf(TakingOver)
           S == {FinalSpan[i]: i \in Held}
           raws == Raws(body)
           new == Raws(Renewed)
           list == SettledList(selected)
<1>1. /\ Len(selected) \in Nat /\ DOMAIN selected = 1..Len(selected)
      /\ \A n \in 1..Len(selected): q[n] \in Selectable /\ selected[n] = SpanFor(q[n])
      /\ selected \in Seq(Spans) /\ flatSpans = Applied(Flattened(selected))
  <2>1. selected \in Seq(Spans) /\ flatSpans = Applied(Flattened(selected))
    BY DEF Worked
  <2> QED BY <2>1, WorkedIs, LenProperties
<1>2. /\ Held \subseteq 1..Len(raws) /\ Selectable \cap Act = {}
      /\ \A i \in Selectable: FinalSpan[i] = SettledSpan(i)
      /\ \A i \in Act: FinalSpan[i] = UnderAfter[i]
      /\ \A i \in Held:
            /\ raws[i] # <<>>
            /\ FinalSpan[i].start = Len(Upto(raws, i - 1)) /\ FinalSpan[i].end = Len(Upto(raws, i))
            /\ FinalSpan[i].changed \in BOOLEAN /\ FinalSpan[i].text \in Seq(Byte)
            /\ FinalSpan[i].changed <=> Renews(i)
            /\ Renews(i) => FinalSpan[i].text = NewText(i)
  BY HeldIs
<1>3. first = [n \in 1..Len(selected) |-> Gathered(n)]
  BY <1>1
<1>4. \A n \in 1..Len(selected): Gathered(n) = FinalSpan[q[n]]
  BY <1>1, <1>2, GatheredIs
<1>5. list = Sorted(first \o second)
  BY DEF SettledList, Joined
<1>6. \A i \in Held: FinalSpan[i] \in S
  OBVIOUS
<1> HIDE DEF first, second, S, list
<1>7. Selectable \subseteq Held /\ Act \subseteq Held /\ Held = Selectable \cup Act
  BY DEF Held
<1>8. first \in Seq(S) /\ Len(first) = Len(selected)
      /\ \A n \in 1..Len(selected): first[n] = FinalSpan[q[n]]
  <2>1. first \in [1..Len(selected) -> S] /\ \A n \in 1..Len(selected): first[n] = FinalSpan[q[n]]
    BY <1>1, <1>3, <1>4, <1>6, <1>7
  <2> QED BY <1>1, <2>1, FunctionIsSeq
<1>9. Picks(first, q, Selectable, FinalSpan)
  BY <1>8 DEF Worked, Spread, Picks
<1>10. second \in Seq(UndersAfter) /\ \E o: Picks(second, o, Act, UnderAfter)
  BY ActivatedAre DEF second
<1>11. PICK o: Picks(second, o, Act, UnderAfter)
  BY <1>10
<1>12. Picks(second, o, Act, FinalSpan)
  BY <1>2, <1>11, PicksSame
<1>13. second \in Seq(S)
  <2>1. \A n \in 1..Len(second): second[n] \in S
    BY <1>6, <1>7, <1>12 DEF Picks
  <2>2. Len(second) \in Nat /\ second \in [1..Len(second) -> UndersAfter]
    BY <1>10, LenProperties
  <2>3. second \in [1..Len(second) -> S]
    BY <2>1, <2>2
  <2> QED BY <2>2, <2>3, FunctionIsSeq
<1>14. first \o second \in Seq(S) /\ \E r: Picks(first \o second, r, Held, FinalSpan)
  BY <1>2, <1>7, <1>8, <1>9, <1>12, <1>13, JoinPicks
<1>15. PICK p: Picks(first \o second, p, Held, FinalSpan)
  BY <1>14
<1>16. /\ raws \in Seq(Seq(Byte)) /\ Len(raws) = Len(body)
       /\ Render(body) = FlattenSeq(raws)
  BY BodyIs, RawsAre
<1> HIDE DEF raws
<1>17. list \in Seq(S) /\ \E r: Spread(list, r, Held, FinalSpan)
  <2>1. \A i \in Held: raws[i] # <<>> /\ FinalSpan[i].start = Len(Upto(raws, i - 1))
    BY <1>2
  <2> QED BY <1>2, <1>5, <1>14, <1>15, <1>16, <2>1, SortedPicks
<1>18. PICK r: Spread(list, r, Held, FinalSpan)
  BY <1>17
<1>19. Owned(list, r, raws)
  BY <1>2, <1>16, <1>18, SpreadOwned
<1>20. Valid(list, Len(FlattenSeq(raws)))
  BY <1>16, <1>17, <1>19, OwnedIs
<1>21. /\ \A n \in 1..Len(list): r[n] \in Held /\ list[n] = FinalSpan[r[n]]
       /\ \A i \in Held: \E n \in 1..Len(list): r[n] = i
  BY <1>18 DEF Spread, Picks
<1>22. /\ new \in Seq(Seq(Byte)) /\ Len(new) = Len(raws)
       /\ \A i \in 1..Len(raws): /\ Renews(i) => new[i] = Encode(NewText(i))
                                 /\ ~ Renews(i) => new[i] = raws[i]
  BY <1>16, RenewedIs DEF raws
<1> HIDE DEF new
<1>23. Exchanged(list, r, raws, new)
  <2>1. ASSUME NEW n \in 1..Len(list), list[n].changed PROVE new[r[n]] = Encode(list[n].text)
    <3>1. r[n] \in Held /\ r[n] \in 1..Len(raws) /\ list[n] = FinalSpan[r[n]]
      BY <1>2, <1>21
    <3>2. Renews(r[n]) /\ list[n].text = NewText(r[n])
      BY <1>2, <2>1, <3>1
    <3> QED BY <1>22, <3>1, <3>2
  <2>2. ASSUME NEW k \in 1..Len(raws), \A n \in 1..Len(list): list[n].changed => r[n] # k
        PROVE  new[k] = raws[k]
    <3>1. ~ Renews(k)
      <4>1. SUFFICES ASSUME Renews(k) PROVE FALSE
        OBVIOUS
      <4>2. k \in Held
        BY <1>16, <4>1, RenewedHeld
      <4>3. PICK n \in 1..Len(list): r[n] = k
        BY <1>21, <4>2
      <4>4. list[n].changed
        BY <1>2, <1>21, <4>1, <4>2, <4>3
      <4> QED BY <2>2, <4>3, <4>4
    <3> QED BY <1>22, <3>1
  <2> QED BY <1>22, <2>1, <2>2 DEF Exchanged
<1> QED BY <1>16, <1>17, <1>19, <1>20, <1>23 DEF list, raws, new

-----------------------------------------------------------------------------
(* The call. *)

Collected(list) == list \in Seq(Spans) /\ \E o: Picks(list, o, Selectable, Found)

Ready(list) ==
    /\ \E S: list \in Seq(S)
    /\ \E r: Owned(list, r, Raws(body)) /\ Exchanged(list, r, Raws(body), Raws(Renewed))

\* Each stage finds the spans as the one before left them.
RebuildInv ==
    /\ Input
    /\ bytes = Render(body)
    /\ stage = "rewrite" => Collected(selected)
    /\ stage = "settle" => \E q: Worked(selected, q, flatSpans)
    /\ stage = "rebuild" => Ready(selected)
    /\ stage # "done" => reply = [kind |-> "pending"]
    /\ RebuildReplaces

LEMMA SameInput ==
    ASSUME input' = input
    PROVE  /\ Input => Input'
           /\ Render(body)' = Render(body)
           /\ Raws(body)' = Raws(body)
           /\ Selectable' = Selectable
           /\ Found' = Found
           /\ Spans' = Spans
           /\ Raws(Renewed)' = Raws(Renewed)
           /\ Expected' = Expected
<1>1. body' = body /\ rewrites' = rewrites
  BY DEF input
<1>2. Input => Input'
  BY <1>1 DEF Input
<1>3. Render(body)' = Render(body) /\ Raws(body)' = Raws(body)
  BY <1>1
<1>4. Selectable' = Selectable
  BY <1>1 DEF Selectable
<1>5. \A i: SpanFor(i)' = SpanFor(i)
  BY <1>1 DEF SpanFor, TextSpan, CarrierSpan
<1>6. Found' = Found /\ Spans' = Spans
  BY <1>4, <1>5 DEF Found, Spans
<1>7. Renewed' = Renewed
  BY <1>1 DEF Renewed, Replaced, Altered
<1>8. Raws(Renewed)' = Raws(Renewed) /\ Expected' = Expected
  BY <1>7 DEF Expected
<1> QED BY <1>2, <1>3, <1>4, <1>6, <1>8

LEMMA SameStages ==
    ASSUME input' = input
    PROVE  /\ Collected(selected') => Collected(selected)'
           /\ \A q: Worked(selected', q, flatSpans') => Worked(selected, q, flatSpans)'
           /\ Ready(selected') => Ready(selected)'
<1>1. /\ Raws(body)' = Raws(body) /\ Selectable' = Selectable /\ Found' = Found /\ Spans' = Spans
      /\ Raws(Renewed)' = Raws(Renewed) /\ rewrites' = rewrites
  BY SameInput DEF input
<1>2. Collected(selected') => Collected(selected)'
  BY <1>1 DEF Collected
<1>3. \A list: Applied(list)' = Applied(list)
  BY <1>1 DEF Applied
<1>4. ASSUME NEW q, Worked(selected', q, flatSpans') PROVE Worked(selected, q, flatSpans)'
  <2>1. Applied(Flattened(selected))' = Applied(Flattened(selected'))
    BY <1>1 DEF Applied
  <2> QED BY <1>1, <1>4, <2>1 DEF Worked
<1>5. Ready(selected') => Ready(selected)'
  BY <1>1 DEF Ready
<1> QED BY <1>2, <1>4, <1>5

Unanswered == [kind |-> "pending"]

LEMMA UnansweredReplaces == reply = Unanswered => RebuildReplaces
<1>1. Unanswered.kind = "pending"
  BY DEF Unanswered
<1> QED BY <1>1 DEF RebuildReplaces

\* rebuildBody answers with the expected body.
LEMMA RebuiltExpected ==
    ASSUME Input, NEW list, Ready(list)
    PROVE  \/ Rebuilt(Render(body), list) = [kind |-> "body", bytes |-> Expected]
           \/ Rebuilt(Render(body), list) = [kind |-> "noop"] /\ Expected = Render(body)
<1> DEFINE raws == Raws(body)
           new == Raws(Renewed)
<1>1. raws \in Seq(Seq(Byte)) /\ Render(body) = FlattenSeq(raws) /\ Expected = FlattenSeq(new)
  BY BodyIs, RawsAre, RenewedIs
<1> HIDE DEF raws, new
<1>2. PICK S: list \in Seq(S)
  BY DEF Ready
<1>3. PICK r: Owned(list, r, raws) /\ Exchanged(list, r, raws, new)
  BY DEF Ready, raws, new
<1>4. /\ ~ AnyChanged(list) => new = raws /\ Rebuilt(FlattenSeq(raws), list) = [kind |-> "noop"]
      /\ AnyChanged(list) =>
            Rebuilt(FlattenSeq(raws), list) = [kind |-> "body", bytes |-> FlattenSeq(new)]
  BY <1>1, <1>2, <1>3, RebuiltIs
<1> QED BY <1>1, <1>4

LEMMA RebuildInvInit == RebuildInit => RebuildInv
<1>1. SUFFICES ASSUME RebuildInit PROVE RebuildInv
  OBVIOUS
<1>2. reply = Unanswered
  BY <1>1 DEF RebuildInit, Unanswered
<1>3. RebuildReplaces
  BY <1>2, UnansweredReplaces
<1> QED BY <1>1, <1>3 DEF RebuildInit, RebuildInv, Input

\* Nothing the invariant reads is touched.
LEMMA RebuildInvSame ==
    ASSUME RebuildInv, input' = input, stage' = stage, bytes' = bytes, selected' = selected,
           flatSpans' = flatSpans, reply' = reply
    PROVE  RebuildInv'
<1>1. /\ Input /\ bytes = Render(body)
      /\ stage = "rewrite" => Collected(selected)
      /\ stage = "settle" => \E q: Worked(selected, q, flatSpans)
      /\ stage = "rebuild" => Ready(selected)
      /\ stage # "done" => reply = [kind |-> "pending"]
      /\ RebuildReplaces
  BY DEF RebuildInv
<1>2. Input' /\ bytes' = Render(body)'
  BY <1>1, SameInput
<1>3. stage' = "rewrite" => Collected(selected)'
  BY <1>1, SameStages
<1>4. stage' = "settle" => (\E q: Worked(selected, q, flatSpans))'
  BY <1>1, SameStages
<1>5. stage' = "rebuild" => Ready(selected)'
  BY <1>1, SameStages
<1>6. RebuildReplaces'
  BY <1>1, SameInput DEF RebuildReplaces
<1> QED BY <1>1, <1>2, <1>3, <1>4, <1>5, <1>6 DEF RebuildInv

\* A call that goes on has answered nothing yet.
LEMMA RebuildInvNext ==
    ASSUME RebuildInv, input' = input, bytes' = bytes, reply' = Unanswered,
           stage' \notin {"done"},
           stage' = "rewrite" => Collected(selected'),
           stage' = "settle" => \E q: Worked(selected', q, flatSpans'),
           stage' = "rebuild" => Ready(selected')
    PROVE  RebuildInv'
<1>1. Input /\ bytes = Render(body)
  BY DEF RebuildInv
<1>2. Input' /\ bytes' = Render(body)'
  BY <1>1, SameInput
<1>3. stage' = "rewrite" => Collected(selected)'
  BY SameStages
<1>4. stage' = "settle" => (\E q: Worked(selected, q, flatSpans))'
  BY SameStages
<1>5. stage' = "rebuild" => Ready(selected)'
  BY SameStages
<1>6. reply'.kind = "pending"
  BY DEF Unanswered
<1>7. RebuildReplaces'
  BY <1>6 DEF RebuildReplaces
<1> QED BY <1>2, <1>3, <1>4, <1>5, <1>7 DEF RebuildInv, Unanswered

\* An answer is no error, and a new body the expected one.
LEMMA RebuildInvDone ==
    ASSUME RebuildInv, input' = input, bytes' = bytes, stage' = "done",
           \/ reply' = [kind |-> "refused"]
           \/ reply' = [kind |-> "noop"] /\ Expected = bytes
           \/ reply' = [kind |-> "body", bytes |-> Expected]
    PROVE  RebuildInv'
<1>1. Input /\ bytes = Render(body)
  BY DEF RebuildInv
<1>2. Input' /\ bytes' = Render(body)' /\ Expected' = Expected
  BY <1>1, SameInput
<1>3. RebuildReplaces'
  BY <1>2 DEF RebuildReplaces
<1> QED BY <1>2, <1>3 DEF RebuildInv

LEMMA RebuildInvStep == RebuildInv /\ [RebuildNext]_rebuild => RebuildInv'
<1> SUFFICES ASSUME RebuildInv, [RebuildNext]_rebuild PROVE RebuildInv'
  OBVIOUS
<1>1. /\ Input /\ bytes = Render(body)
      /\ stage = "rewrite" => Collected(selected)
      /\ stage = "settle" => \E q: Worked(selected, q, flatSpans)
      /\ stage = "rebuild" => Ready(selected)
      /\ stage # "done" => reply = Unanswered
  BY DEF RebuildInv, Unanswered
<1>2. CASE Guard
  BY <1>2, RebuildInvSame DEF Guard, GuardNext, InString, OutsideString, GuardEnds
<1>3. CASE Validate
  <2>1. input' = input /\ bytes' = bytes /\ reply = Unanswered
    BY <1>1, <1>3 DEF Validate, guard
  <2>2. CASE stage' = "collect" /\ reply' = reply
    BY <2>1, <2>2, RebuildInvNext
  <2>3. CASE stage' = "done" /\ reply' = [kind |-> "refused"]
    BY <2>1, <2>3, RebuildInvDone
  <2> QED BY <1>3, <2>2, <2>3 DEF Validate, Reply
<1>4. CASE Collect
  <2>1. input' = input /\ bytes' = bytes /\ reply' = Unanswered /\ stage' = "rewrite"
    BY <1>1, <1>4 DEF Collect, guard
  <2>2. PICK order \in SetToSeqs(Selectable): selected' = [n \in DOMAIN order |-> SpanFor(order[n])]
    BY <1>4 DEF Collect
  <2>3. Collected(selected')
    BY <1>1, <2>2, CollectedAre DEF Collected
  <2> QED BY <2>1, <2>3, RebuildInvNext
<1>5. CASE Rewrite
  <2>1. /\ input' = input /\ bytes' = bytes /\ reply = Unanswered
        /\ selected' = Sorted(selected) /\ flatSpans' = Applied(Flattened(selected'))
    BY <1>1, <1>5 DEF Rewrite, guard
  <2>2. Collected(selected)
    BY <1>1, <1>5 DEF Rewrite
  <2>3. /\ selected' \in Seq(Spans)
        /\ \E q: Spread(selected', q, Selectable, Found)
        /\ Valid(selected', Len(bytes))
        /\ \A n \in 1..Len(selected'):
              selected'[n].encoded => Valid(Leaves(selected'[n]), Len(selected'[n].text))
    BY <1>1, <2>1, <2>2, SortedFound DEF Collected
  <2>4. DOMAIN selected' = 1..Len(selected')
    BY <2>3, LenProperties
  <2>5. PICK q: Worked(selected', q, flatSpans')
    BY <2>1, <2>3 DEF Worked
  <2>6. \/ ~ AnyChanged(flatSpans') /\ stage' = "done" /\ reply' = [kind |-> "noop"]
        \/ stage' = "settle" /\ reply' = reply
    BY <1>5, <2>3, <2>4 DEF Rewrite, Reply
  <2>7. CASE ~ AnyChanged(flatSpans') /\ stage' = "done" /\ reply' = [kind |-> "noop"]
    <3>1. Expected = bytes
      BY <1>1, <2>5, <2>7, NothingChanged
    <3> QED BY <2>1, <2>7, <3>1, RebuildInvDone
  <2>8. CASE stage' = "settle" /\ reply' = reply
    BY <2>1, <2>5, <2>8, RebuildInvNext
  <2> QED BY <2>6, <2>7, <2>8
<1>6. CASE Settle
  <2>1. /\ input' = input /\ bytes' = bytes /\ reply = Unanswered
        /\ selected' = SettledList(selected)
    BY <1>1, <1>6 DEF Settle, SettledList, guard
  <2>2. PICK q: Worked(selected, q, flatSpans)
    BY <1>1, <1>6 DEF Settle
  <2>3. Valid(selected', Len(bytes)) /\ Ready(selected')
    BY <1>1, <2>1, <2>2, SettledAre DEF Ready
  <2>4. stage' = "rebuild" /\ reply' = reply
    BY <1>6, <2>3 DEF Settle
  <2> QED BY <2>1, <2>3, <2>4, RebuildInvNext
<1>7. CASE Rebuild
  <2>1. /\ input' = input /\ bytes' = bytes /\ stage' = "done"
        /\ reply' = Rebuilt(bytes, selected)
    BY <1>7 DEF Rebuild, Reply, guard
  <2>2. Ready(selected)
    BY <1>1, <1>7 DEF Rebuild
  <2>3. \/ reply' = [kind |-> "body", bytes |-> Expected]
        \/ reply' = [kind |-> "noop"] /\ Expected = bytes
    BY <1>1, <2>1, <2>2, RebuiltExpected
  <2> QED BY <2>1, <2>3, RebuildInvDone
<1>8. CASE UNCHANGED rebuild
  BY <1>8, RebuildInvSame DEF rebuild, guard
<1> QED BY <1>2, <1>3, <1>4, <1>5, <1>6, <1>7, <1>8 DEF RebuildNext

-----------------------------------------------------------------------------
(* The theorems about the call. *)

\* A body is never refused over its spans, and what rebuildBody writes is the
\* body with exactly the changed tokens exchanged: for every body, every order
\* in which the spans are collected and everything the rules make of its texts,
\* carriers and descriptions that take over included.
THEOREM BodyIsRebuilt == RebuildSpec => []RebuildReplaces
<1>1. RebuildInv => RebuildReplaces
  BY DEF RebuildInv
<1> QED BY <1>1, RebuildInvInit, RebuildInvStep, PTL DEF RebuildSpec

\* The guard reads the body as it reads any bytes: a call implements it.
THEOREM GuardInCall == RebuildSpec => GuardSpec
<1>1. RebuildInit => GuardInit
  BY DEF RebuildInit
<1>2. [RebuildNext]_rebuild => [GuardNext]_guard
  BY DEF RebuildNext, Guard, Validate, Collect, Rewrite, Settle, Rebuild, rebuild
<1> QED BY <1>1, <1>2, PTL DEF RebuildSpec, GuardSpec

\* So jsonNestingWithin lets no body through to the readers of a call whose
\* brackets nest deeper than the limit.
THEOREM GuardHoldsInCall == RebuildSpec => []GuardBoundsReader
BY GuardIsSound, GuardInCall, PTL
=============================================================================
