------------------------- MODULE RuleMatcher_proofs -------------------------
(***************************************************************************)
(* Proofs about RuleMatcher, for every list of terms and every text.       *)
(***************************************************************************)
EXTENDS RuleMatcher, SequenceTheorems, TLAPS

(* Suffixes, by position. *)

IsSuffix(t, s) ==
    /\ Len(t) <= Len(s)
    /\ \A i \in 1..Len(t): t[i] = s[Len(s) - Len(t) + i]

LEMMA SuffixCut ==
    ASSUME NEW S, NEW s \in Seq(S), NEW n \in 0..Len(s)
    PROVE  LET t == SubSeq(s, n + 1, Len(s))
           IN  /\ t \in Seq(S) /\ Len(t) = Len(s) - n
               /\ \A i \in 1..Len(t): t[i] = s[n + i]
<1>1. Len(s) \in Nat /\ \A i \in n + 1 .. Len(s): s[i] \in S
  BY LenProperties, ElementOfSeq
<1> DEFINE t == SubSeq(s, n + 1, Len(s))
<1>2. /\ t \in Seq(S) /\ Len(t) = IF n + 1 <= Len(s) THEN Len(s) - (n + 1) + 1 ELSE 0
      /\ \A i \in 1 .. Len(s) - (n + 1) + 1: t[i] = s[n + 1 + i - 1]
  <2> HIDE DEF t
  <2>1. n + 1 \in Int /\ Len(s) \in Int
    BY <1>1
  <2> QED BY <1>1, <2>1, SubSeqProperties DEF t
<1> HIDE DEF t
<1>3. Len(t) = Len(s) - n
  BY <1>1, <1>2
<1>4. \A i \in 1..Len(t): n + 1 + i - 1 = n + i /\ i \in 1 .. Len(s) - (n + 1) + 1
  BY <1>1, <1>3
<1>5. \A i \in 1..Len(t): t[i] = s[n + i]
  BY <1>2, <1>4
<1> QED BY <1>2, <1>3, <1>5 DEF t

LEMMA SuffixForm ==
    ASSUME NEW S, NEW s \in Seq(S)
    PROVE  /\ Suffixes(s) \subseteq Seq(S)
           /\ \A t \in Seq(S): t \in Suffixes(s) <=> IsSuffix(t, s)
<1>1. Len(s) \in Nat
  BY LenProperties
<1>2. Suffixes(s) \subseteq Seq(S)
  BY SuffixCut DEF Suffixes
<1>3. ASSUME NEW t \in Seq(S), t \in Suffixes(s) PROVE IsSuffix(t, s)
  <2>1. PICK n \in 0..Len(s): t = SubSeq(s, n + 1, Len(s))
    BY <1>3 DEF Suffixes
  <2>2. Len(t) = Len(s) - n /\ \A i \in 1..Len(t): t[i] = s[n + i]
    BY <2>1, SuffixCut
  <2>3. n = Len(s) - Len(t)
    BY <1>1, <2>2
  <2> QED BY <1>1, <2>2, <2>3 DEF IsSuffix
<1>4. ASSUME NEW t \in Seq(S), IsSuffix(t, s) PROVE t \in Suffixes(s)
  <2>1. PICK n \in 0..Len(s): n = Len(s) - Len(t)
    BY <1>1, <1>4, LenProperties DEF IsSuffix
  <2> DEFINE u == SubSeq(s, n + 1, Len(s))
  <2>2. u \in Seq(S) /\ Len(u) = Len(s) - n /\ \A i \in 1..Len(u): u[i] = s[n + i]
    BY SuffixCut
  <2>3. u \in Suffixes(s)
    BY DEF Suffixes
  <2> HIDE DEF u
  <2>4. Len(u) = Len(t)
    BY <1>1, <2>1, <2>2, LenProperties
  <2>5. \A i \in 1..Len(u): u[i] = t[i]
    BY <1>4, <2>1, <2>2, <2>4 DEF IsSuffix
  <2>6. u = t
    BY <2>2, <2>4, <2>5, SeqEqual
  <2> QED BY <2>3, <2>6
<1> QED BY <1>2, <1>3, <1>4

\* A suffix is known by its length.
LEMMA SuffixByLength ==
    ASSUME NEW S, NEW s \in Seq(S), NEW t \in Seq(S), NEW u \in Seq(S),
           IsSuffix(t, s), IsSuffix(u, s), Len(t) = Len(u)
    PROVE  t = u
BY SeqEqual DEF IsSuffix

LEMMA SuffixReflexive ==
    ASSUME NEW S, NEW s \in Seq(S)
    PROVE  IsSuffix(s, s) /\ IsSuffix(<<>>, s)
BY LenProperties DEF IsSuffix

LEMMA SuffixTransitive ==
    ASSUME NEW S, NEW s \in Seq(S), NEW t \in Seq(S), NEW u \in Seq(S),
           IsSuffix(t, s), IsSuffix(u, t)
    PROVE  IsSuffix(u, s)
<1>1. Len(s) \in Nat /\ Len(t) \in Nat /\ Len(u) \in Nat
  BY LenProperties
<1>2. ASSUME NEW i \in 1..Len(u) PROVE u[i] = s[Len(s) - Len(u) + i]
  <2>1. PICK j \in 1..Len(t): j = Len(t) - Len(u) + i
    BY <1>1 DEF IsSuffix
  <2>2. u[i] = t[j] /\ t[j] = s[Len(s) - Len(t) + j]
    BY <2>1 DEF IsSuffix
  <2>3. Len(s) - Len(t) + j = Len(s) - Len(u) + i
    BY <1>1, <2>1
  <2> QED BY <2>2, <2>3
<1> QED BY <1>1, <1>2 DEF IsSuffix

\* The shorter of two suffixes is a suffix of the longer.
LEMMA SuffixesNest ==
    ASSUME NEW S, NEW s \in Seq(S), NEW t \in Seq(S), NEW u \in Seq(S),
           IsSuffix(t, s), IsSuffix(u, s), Len(u) <= Len(t)
    PROVE  IsSuffix(u, t)
<1>1. Len(s) \in Nat /\ Len(t) \in Nat /\ Len(u) \in Nat
  BY LenProperties
<1>2. ASSUME NEW i \in 1..Len(u) PROVE u[i] = t[Len(t) - Len(u) + i]
  <2> Len(t) - Len(u) + i \in 1..Len(t)
    BY <1>1
  <2>1. PICK j \in 1..Len(t): j = Len(t) - Len(u) + i
    OBVIOUS
  <2>2. u[i] = s[Len(s) - Len(u) + i] /\ t[j] = s[Len(s) - Len(t) + j]
    BY <2>1 DEF IsSuffix
  <2>3. Len(s) - Len(t) + j = Len(s) - Len(u) + i
    BY <1>1, <2>1
  <2> QED BY <2>1, <2>2, <2>3
<1> QED BY <1>1, <1>2 DEF IsSuffix

\* Suffixes of an extended string are the extended suffixes, and the root.
LEMMA ExtendSuffix ==
    ASSUME NEW S, NEW s \in Seq(S), NEW k \in S, NEW u \in Seq(S)
    PROVE  IsSuffix(Append(u, k), Append(s, k)) <=> IsSuffix(u, s)
<1> DEFINE U == Append(u, k)
           V == Append(s, k)
<1>1. Len(s) \in Nat /\ Len(u) \in Nat
  BY LenProperties
<1>2. /\ Len(U) = Len(u) + 1 /\ Len(V) = Len(s) + 1
      /\ \A i \in 1..Len(u): U[i] = u[i]
      /\ \A i \in 1..Len(s): V[i] = s[i]
      /\ U[Len(u) + 1] = k /\ V[Len(s) + 1] = k
  BY AppendProperties
<1> HIDE DEF U, V
<1>3. ASSUME IsSuffix(u, s) PROVE IsSuffix(U, V)
  <2>1. ASSUME NEW i \in 1..Len(U) PROVE U[i] = V[Len(V) - Len(U) + i]
    <3>1. Len(V) - Len(U) + i = Len(s) - Len(u) + i
      BY <1>1, <1>2
    <3>2. CASE i = Len(u) + 1
      <4>1. Len(s) - Len(u) + i = Len(s) + 1
        BY <1>1, <3>2
      <4> QED BY <1>2, <3>1, <3>2, <4>1
    <3>3. CASE i # Len(u) + 1
      <4>1. i \in 1..Len(u)
        BY <1>1, <1>2, <3>3
      <4>2. Len(s) - Len(u) + i \in 1..Len(s)
        BY <1>1, <1>3, <4>1 DEF IsSuffix
      <4>3. u[i] = s[Len(s) - Len(u) + i]
        BY <1>3, <4>1 DEF IsSuffix
      <4> QED BY <1>2, <3>1, <4>1, <4>2, <4>3
    <3> QED BY <3>2, <3>3
  <2>2. Len(U) <= Len(V)
    BY <1>1, <1>2, <1>3 DEF IsSuffix
  <2> QED BY <2>1, <2>2 DEF IsSuffix
<1>4. ASSUME IsSuffix(U, V) PROVE IsSuffix(u, s)
  <2>1. Len(u) <= Len(s)
    BY <1>1, <1>2, <1>4 DEF IsSuffix
  <2>2. ASSUME NEW i \in 1..Len(u) PROVE u[i] = s[Len(s) - Len(u) + i]
    <3>1. i \in 1..Len(U) /\ Len(V) - Len(U) + i = Len(s) - Len(u) + i
      BY <1>1, <1>2
    <3>2. Len(s) - Len(u) + i \in 1..Len(s)
      BY <1>1, <2>1
    <3>3. U[i] = V[Len(V) - Len(U) + i]
      BY <1>4, <3>1 DEF IsSuffix
    <3> QED BY <1>2, <3>1, <3>2, <3>3
  <2> QED BY <2>1, <2>2 DEF IsSuffix
<1> QED BY <1>3, <1>4 DEF U, V

LEMMA SuffixOfExtended ==
    ASSUME NEW S, NEW s \in Seq(S), NEW k \in S,
           NEW t \in Seq(S), t # <<>>, IsSuffix(t, Append(s, k))
    PROVE  \E u \in Seq(S): t = Append(u, k) /\ IsSuffix(u, s)
<1>1. PICK u \in Seq(S), e \in S: t = Append(u, e)
  BY SequenceEmptyOrAppend
<1>2. /\ Len(t) = Len(u) + 1 /\ Len(Append(s, k)) = Len(s) + 1
      /\ t[Len(u) + 1] = e /\ Append(s, k)[Len(s) + 1] = k
      /\ Len(u) \in Nat /\ Len(s) \in Nat
  BY <1>1, AppendProperties, LenProperties
<1>3. Len(u) + 1 \in 1..Len(t)
  BY <1>2
<1>4. t[Len(u) + 1] = Append(s, k)[Len(Append(s, k)) - Len(t) + (Len(u) + 1)]
  BY <1>3 DEF IsSuffix
<1>5. Len(Append(s, k)) - Len(t) + (Len(u) + 1) = Len(s) + 1
  BY <1>2
<1>6. e = k
  BY <1>2, <1>4, <1>5
<1>7. IsSuffix(u, s)
  BY <1>1, <1>6, ExtendSuffix
<1> QED BY <1>1, <1>6, <1>7

-----------------------------------------------------------------------------
(* The longest of a set of suffixes, the least of a set of rules. *)

IsLongest(x, C) == x \in C /\ \A t \in C: Len(t) <= Len(x)

LEMMA LongestFound ==
    ASSUME NEW S, NEW s \in Seq(S), NEW C, C \subseteq Seq(S), \A t \in C: IsSuffix(t, s),
           NEW x, IsLongest(x, C)
    PROVE  Longest(C) = x
<1>1. ASSUME NEW y \in C, \A t \in C: Len(t) <= Len(y) PROVE y = x
  <2>1. x \in Seq(S) /\ y \in Seq(S) /\ x \in C
    BY DEF IsLongest
  <2>2. Len(x) \in Nat /\ Len(y) \in Nat
    BY <2>1, LenProperties
  <2>3. Len(y) <= Len(x) /\ Len(x) <= Len(y)
    BY <1>1, <2>1 DEF IsLongest
  <2>4. Len(x) = Len(y)
    BY <2>2, <2>3
  <2>5. IsSuffix(x, s) /\ IsSuffix(y, s)
    BY <2>1
  <2> QED BY <2>1, <2>4, <2>5, SuffixByLength
<1>2. x \in C /\ \A t \in C: Len(t) <= Len(x)
  BY DEF IsLongest
<1> QED BY <1>1, <1>2 DEF Longest

IsLeast(x, R) == IF R = {} THEN x = NoRule ELSE x \in R /\ \A y \in R: x <= y

LEMMA LeastFound ==
    ASSUME NEW R, R \subseteq Nat, NEW x, IsLeast(x, R)
    PROVE  Least(R) = x
<1>1. CASE R = {}
  BY <1>1 DEF IsLeast, Least
<1>2. CASE R # {}
  <2>1. x \in R /\ \A y \in R: x <= y
    BY <1>2 DEF IsLeast
  <2>2. ASSUME NEW z \in R, \A y \in R: z <= y PROVE z = x
    BY <2>1, <2>2
  <2> QED BY <1>2, <2>1, <2>2 DEF Least
<1> QED BY <1>1, <1>2

\* Taking the smaller of two rules, where NoRule yields, is the least of both sets.
LEMMA LeastOfUnion ==
    ASSUME NEW R, NEW T, \A r \in R \cup T: r \in Nat /\ r # NoRule,
           NEW a, NEW b, IsLeast(a, R), IsLeast(b, T)
    PROVE  IsLeast(IF b = NoRule THEN a ELSE KeepMin(a, b), R \cup T)
BY DEF IsLeast, KeepMin

-----------------------------------------------------------------------------
(* The trie. *)

LEMMA PrefixCut ==
    ASSUME NEW S, NEW s \in Seq(S), NEW n \in 0..Len(s)
    PROVE  LET t == SubSeq(s, 1, n)
           IN  t \in Seq(S) /\ Len(t) = n /\ \A i \in 1..n: t[i] = s[i]
<1>1. Len(s) \in Nat /\ \A i \in 1..n: s[i] \in S
  BY LenProperties, ElementOfSeq
<1> DEFINE t == SubSeq(s, 1, n)
<1>2. /\ t \in Seq(S) /\ Len(t) = IF 1 <= n THEN n - 1 + 1 ELSE 0
      /\ \A i \in 1 .. n - 1 + 1: t[i] = s[1 + i - 1]
  BY <1>1, SubSeqProperties
<1> HIDE DEF t
<1>3. Len(t) = n /\ \A i \in 1..n: t[i] = s[i]
  BY <1>1, <1>2
<1> QED BY <1>2, <1>3 DEF t

LEMMA PrefixForm ==
    ASSUME NEW S, NEW s \in Seq(S)
    PROVE  /\ Prefixes(s) \subseteq Seq(S)
           /\ s \in Prefixes(s)
           /\ <<>> \in Prefixes(s)
           /\ \A t \in Prefixes(s): Prefixes(t) \subseteq Prefixes(s)
<1>1. Len(s) \in Nat
  BY LenProperties
<1>2. Prefixes(s) \subseteq Seq(S)
  BY PrefixCut DEF Prefixes
<1>3. s \in Prefixes(s)
  BY <1>1, SubSeqFull DEF Prefixes
<1>4. <<>> \in Prefixes(s)
  BY <1>1, SubSeqEmpty DEF Prefixes
<1>5. ASSUME NEW t \in Prefixes(s), NEW u \in Prefixes(t) PROVE u \in Prefixes(s)
  <2>1. PICK n \in 0..Len(s): t = SubSeq(s, 1, n)
    BY DEF Prefixes
  <2>2. t \in Seq(S) /\ Len(t) = n /\ \A i \in 1..n: t[i] = s[i]
    BY <2>1, PrefixCut
  <2>3. PICK m \in 0..n: u = SubSeq(t, 1, m)
    BY <2>2 DEF Prefixes
  <2>4. u \in Seq(S) /\ Len(u) = m /\ \A i \in 1..m: u[i] = t[i]
    BY <2>2, <2>3, PrefixCut
  <2>5. m \in 0..Len(s)
    BY <1>1
  <2> DEFINE v == SubSeq(s, 1, m)
  <2>6. v \in Seq(S) /\ Len(v) = m /\ \A i \in 1..m: v[i] = s[i]
    BY <2>5, PrefixCut
  <2>7. v \in Prefixes(s)
    BY <2>5 DEF Prefixes
  <2> HIDE DEF v
  <2>8. \A i \in 1..m: u[i] = v[i]
    BY <2>2, <2>4, <2>6
  <2>9. u = v
    BY <2>4, <2>6, <2>8, SeqEqual
  <2> QED BY <2>7, <2>9
<1> QED BY <1>2, <1>3, <1>4, <1>5

PrefixClosed(N) == \A n \in N: Prefixes(n) \subseteq N

LEMMA ParentInTrie ==
    ASSUME NEW S, NEW N, PrefixClosed(N), NEW u \in Seq(S), NEW k \in S, Append(u, k) \in N
    PROVE  u \in N
<1> DEFINE n == Append(u, k)
<1>1. n \in Seq(S) /\ Len(n) = Len(u) + 1 /\ Len(u) \in Nat /\ \A i \in 1..Len(u): n[i] = u[i]
  BY AppendProperties, LenProperties
<1>2. Len(u) \in 0..Len(n)
  BY <1>1
<1> DEFINE v == SubSeq(n, 1, Len(u))
<1>3. v \in N
  BY <1>2 DEF PrefixClosed, Prefixes
<1> HIDE DEF n
<1>4. v \in Seq(S) /\ Len(v) = Len(u) /\ \A i \in 1..Len(u): v[i] = n[i]
  BY <1>1, <1>2, PrefixCut
<1> HIDE DEF v
<1>5. v = u
  BY <1>1, <1>4, SeqEqual
<1> QED BY <1>3, <1>5

LEMMA LastOf ==
    ASSUME NEW S, NEW u \in Seq(S), NEW k \in S
    PROVE  LastKey(Append(u, k)) = k
BY AppendProperties, LenProperties DEF LastKey

\* The nodes that end s and are no longer than b.
Candidates(s, b) == {t \in nodes: IsSuffix(t, s) /\ Len(t) <= b}

LEMMA CandidateForm ==
    ASSUME nodes \subseteq Seq(Keys), NEW s \in Seq(Keys)
    PROVE  /\ Suffixes(s) \cap nodes = Candidates(s, Len(s))
           /\ ProperSuffixes(s) \cap nodes = Candidates(s, Len(s) - 1)
<1>1. Len(s) \in Nat /\ \A t \in nodes: Len(t) \in Nat
  BY LenProperties
<1>2. \A t \in nodes: t \in Suffixes(s) <=> IsSuffix(t, s)
  BY SuffixForm
<1>3. \A t \in nodes: IsSuffix(t, s) => Len(t) <= Len(s)
  BY DEF IsSuffix
<1>4. \A t \in nodes: IsSuffix(t, s) /\ Len(t) = Len(s) => t = s
  BY SuffixReflexive, SuffixByLength
<1>5. \A t \in nodes: IsSuffix(t, s) => (t # s <=> Len(t) <= Len(s) - 1)
  BY <1>1, <1>3, <1>4
<1>6. Suffixes(s) \cap nodes = Candidates(s, Len(s))
  BY <1>2, <1>3 DEF Candidates
<1>7. ProperSuffixes(s) \cap nodes = Candidates(s, Len(s) - 1)
  BY <1>2, <1>5 DEF Candidates, ProperSuffixes
<1> QED BY <1>6, <1>7

\* The heart of the construction and of the scan.  If f is the longest candidate
\* of s with a transition on key, or the root when there is none, the node after
\* it is the longest candidate of s extended by key.
LEMMA NextIsLongest ==
    ASSUME nodes \subseteq Seq(Keys), PrefixClosed(nodes), Root \in nodes,
           NEW s \in Seq(Keys), NEW key \in Keys, NEW b \in Nat,
           NEW f \in Candidates(s, b), HasTransition(f, key) \/ f = Root,
           \A n \in Candidates(s, b): HasTransition(n, key) => Len(n) <= Len(f)
    PROVE  IsLongest(IF HasTransition(f, key) THEN Append(f, key) ELSE f,
                     Candidates(Append(s, key), b + 1))
<1> DEFINE C == Candidates(Append(s, key), b + 1)
<1>1. f \in Seq(Keys) /\ f \in nodes /\ IsSuffix(f, s) /\ Len(f) <= b /\ Len(f) \in Nat
  BY LenProperties DEF Candidates
<1>2. Append(s, key) \in Seq(Keys)
  BY AppendProperties
<1>3. ASSUME NEW t \in C, t # Root
      PROVE  \E u \in Candidates(s, b): t = Append(u, key) /\ HasTransition(u, key) /\ Len(t) = Len(u) + 1
  <2>1. t \in Seq(Keys) /\ t \in nodes /\ IsSuffix(t, Append(s, key)) /\ Len(t) <= b + 1
    BY DEF Candidates
  <2>2. PICK u \in Seq(Keys): t = Append(u, key) /\ IsSuffix(u, s)
    BY <1>3, <2>1, SuffixOfExtended DEF Root
  <2>3. u \in nodes
    BY <2>1, <2>2, ParentInTrie
  <2>4. Len(t) = Len(u) + 1 /\ Len(u) \in Nat
    BY <2>2, AppendProperties, LenProperties
  <2>5. u \in Candidates(s, b)
    BY <2>1, <2>2, <2>3, <2>4 DEF Candidates
  <2> QED BY <2>1, <2>2, <2>4, <2>5 DEF HasTransition
<1>4. CASE HasTransition(f, key)
  <2> DEFINE g == Append(f, key)
  <2>1. Len(g) = Len(f) + 1 /\ g \in nodes
    BY <1>1, <1>4, AppendProperties DEF HasTransition
  <2>2. IsSuffix(g, Append(s, key))
    BY <1>1, ExtendSuffix
  <2>3. g \in C
    BY <1>1, <2>1, <2>2 DEF Candidates
  <2>4. ASSUME NEW t \in C PROVE Len(t) <= Len(g)
    <3>1. CASE t = Root
      BY <1>1, <2>1, <3>1, EmptySeq DEF Root
    <3>2. CASE t # Root
      BY <1>1, <1>3, <2>1, <3>2, LenProperties DEF Candidates
    <3> QED BY <3>1, <3>2
  <2> QED BY <1>4, <2>3, <2>4 DEF IsLongest
<1>5. CASE ~HasTransition(f, key)
  <2>1. f = Root /\ Len(f) = 0
    BY <1>5, EmptySeq DEF Root
  <2>2. ASSUME NEW t \in C PROVE t = Root
    <3> SUFFICES ASSUME t # Root PROVE FALSE
      OBVIOUS
    <3>1. PICK u \in Candidates(s, b): HasTransition(u, key)
      BY <1>3
    <3>2. u \in Seq(Keys) /\ Len(u) <= 0
      BY <1>3, <2>1, <3>1 DEF Candidates
    <3>3. u = <<>>
      BY <3>2, EmptySeq
    <3> QED BY <1>5, <2>1, <3>1, <3>3 DEF Root
  <2>3. Root \in C
    <3>1. IsSuffix(Root, Append(s, key))
      BY <1>2, SuffixReflexive DEF Root
    <3>2. Len(Root) <= b + 1
      BY <2>1
    <3> QED BY <3>1, <3>2 DEF Candidates
  <2> QED BY <1>5, <2>1, <2>2, <2>3 DEF IsLongest
<1> QED BY <1>4, <1>5

-----------------------------------------------------------------------------
(* The invariant of the build. *)

Phase == {"insert", "roots", "expand", "children", "walk", "scan", "done"}

\* Every variable has its shape, and the nodes are a trie.
Shape ==
    /\ rules \in Seq(Seq(Chars) \ {<<>>}) /\ inserted \in 0..Len(rules)
    /\ nodes \subseteq Seq(Keys) /\ Root \in nodes /\ PrefixClosed(nodes)
    /\ minRule \in [nodes -> Nat] /\ fail \in [nodes -> nodes]
    /\ queue \in Seq(nodes) /\ head \in Nat \ {0}
    /\ todo \subseteq nodes /\ failure \in nodes /\ child \in nodes
    /\ text \in Seq(Chars) /\ pos \in 0..Len(text) /\ state \in nodes /\ best \in Nat
    /\ pc \in Phase
    /\ pc \in {"children", "walk"} => head <= Len(queue)
    /\ pc \notin {"scan", "done"} => pos = 0

\* What the phases before have done.
PhaseInv ==
    /\ pc = "insert" => queue = <<>>
    /\ pc \in {"insert", "roots"} => head = 1 /\ \A n \in nodes: fail[n] = Root
    /\ pc # "insert" => inserted = Len(rules)

Inserted == FirstRule..(FirstRule + inserted - 1)

\* A node knows a rule that ends in it, no larger than one that it is the term
\* of, and once it is linked the least of all rules that end in it.
RuleInv ==
    /\ \A r \in Inserted: TermOf(r) \in nodes /\ minRule[TermOf(r)] # NoRule /\ minRule[TermOf(r)] <= r
    /\ \A n \in nodes: minRule[n] = NoRule \/ minRule[n] \in EndingIn(n)
    /\ \A n \in Linked: IsLeast(minRule[n], EndingIn(n))

LinkInv == \A n \in Linked: n # Root /\ IsLongest(fail[n], Candidates(n, Len(n) - 1))

Expanding == {"expand", "children", "walk"}

\* The children the head still owes a link.
Owed == todo \cup (IF pc = "walk" THEN {child} ELSE {})

\* The queue is breadth first: all nodes up to the depth of the head are linked,
\* the queue holds at most one depth more, and the nodes before the head have
\* passed their children on.
QueueInv ==
    /\ pc = "roots" =>
          /\ \A j \in 1..Len(queue): Len(queue[j]) = 1
          /\ todo \subseteq Children(Root) /\ Children(Root) \subseteq Linked \cup todo
    /\ pc \in Expanding =>
          /\ \A i, j \in 1..Len(queue): i <= j => Len(queue[i]) <= Len(queue[j])
          /\ \A n \in nodes: Len(n) = 1 => n \in Linked
          /\ \A i \in 1..Len(queue): i < head => Children(queue[i]) \subseteq Linked
          /\ \A i \in 1..Len(queue): i <= head =>
                \A n \in nodes \ {Root}: Len(n) <= Len(queue[i]) => n \in Linked
          /\ head <= Len(queue) => \A j \in 1..Len(queue): Len(queue[j]) <= Len(queue[head]) + 1
          /\ head <= Len(queue) + 1
    /\ pc \in {"children", "walk"} =>
          Owed \subseteq Children(queue[head]) /\ Children(queue[head]) \subseteq Linked \cup Owed
    /\ pc \in {"scan", "done"} => nodes \ {Root} \subseteq Linked

\* The candidate is a proper suffix of the head, and no longer one takes the key
\* of the child.
WalkInv ==
    pc = "walk" =>
        /\ failure \in Candidates(queue[head], Len(queue[head]) - 1)
        /\ \A n \in Candidates(queue[head], Len(queue[head]) - 1):
               HasTransition(n, LastKey(child)) => Len(n) <= Len(failure)

BuildInv == Shape /\ PhaseInv /\ RuleInv /\ LinkInv /\ QueueInv /\ WalkInv

-----------------------------------------------------------------------------
(* The invariant of the scan. *)

SeenIn(t, n) == KeyString(SubSeq(t, 1, n))
Seen(n) == SeenIn(text, n)

ScanInv ==
    /\ pc \notin {"scan", "done"} => state = Root /\ best = NoRule
    /\ pc = "scan" =>
          /\ state \in Candidates(Seen(pos), pos)
          /\ \A n \in Candidates(Seen(pos), pos):
                 pos = Len(text) \/ HasTransition(n, NextKey) => Len(n) <= Len(state)
          /\ IsLeast(best, OccurringIn(Seen(pos)))
    /\ pc = "done" => IsLeast(best, OccurringIn(KeyString(text)))

IInv == BuildInv /\ ScanInv

-----------------------------------------------------------------------------
(* Shape. *)

LEMMA KeyStringForm ==
    ASSUME NEW s \in Seq(Chars)
    PROVE  KeyString(s) \in Seq(Keys) /\ Len(KeyString(s)) = Len(s)
<1>1. Len(s) \in Nat /\ \A i \in 1..Len(s): FoldClass[s[i]] \in Keys
  BY LenProperties, ElementOfSeq DEF Keys
<1> QED BY <1>1 DEF KeyString

LEMMA ShapeStart == Init => Shape
<1> SUFFICES ASSUME Init PROVE Shape
  OBVIOUS
<1>1. rules \in Seq(Seq(Chars) \ {<<>>}) /\ NoRule \in Nat /\ Len(rules) \in Nat
  BY MatcherAssumption DEF Init, NoRule
<1>2. nodes = {<<>>} /\ <<>> \in Seq(Keys) /\ <<>> \in Seq(nodes) /\ <<>> \in Seq(Chars)
  BY EmptySeq DEF Init, Root
<1>3. PrefixClosed({<<>>})
  <2>1. Prefixes(<<>>) = {<<>>}
    <3>1. Len(<<>>) = 0 /\ 0..0 = {0}
      BY EmptySeq
    <3>2. SubSeq(<<>>, 1, 0) = <<>>
      BY SubSeqEmpty
    <3> QED BY <3>1, <3>2 DEF Prefixes
  <2> QED BY <2>1 DEF PrefixClosed
<1> QED BY <1>1, <1>2, <1>3, EmptySeq DEF Init, Shape, Phase, Root

LEMMA TrieGrows ==
    ASSUME Shape, NEW t \in Seq(Keys)
    PROVE  nodes \cup Prefixes(t) \subseteq Seq(Keys) /\ PrefixClosed(nodes \cup Prefixes(t))
<1>1. Prefixes(t) \subseteq Seq(Keys) /\ \A u \in Prefixes(t): Prefixes(u) \subseteq Prefixes(t)
  BY PrefixForm
<1> QED BY <1>1 DEF Shape, PrefixClosed

LEMMA KeepMinTyped ==
    ASSUME NEW a \in Nat, NEW b \in Nat PROVE KeepMin(a, b) \in Nat /\ Inherit(a, b) \in Nat
BY DEF KeepMin, Inherit

LEMMA InsertShape == Shape /\ Insert => Shape'
<1> SUFFICES ASSUME Shape, Insert PROVE Shape'
  OBVIOUS
<1> DEFINE term == KeyString(rules[inserted + 1])
           added == nodes \cup Prefixes(term)
<1>1. rules[inserted + 1] \in Seq(Chars) /\ inserted + 1 \in 1..Len(rules)
  <2>1. rules \in Seq(Seq(Chars) \ {<<>>}) /\ inserted \in 0..Len(rules) /\ inserted < Len(rules)
    BY DEF Shape, Insert
  <2>2. inserted + 1 \in 1..Len(rules)
    BY <2>1, LenProperties
  <2>3. rules[inserted + 1] \in Seq(Chars) \ {<<>>}
    BY <2>1, <2>2, ElementOfSeq
  <2> QED BY <2>2, <2>3
<1>2. term \in Seq(Keys)
  BY <1>1, KeyStringForm
<1>3. nodes' = added /\ added \subseteq Seq(Keys) /\ PrefixClosed(added) /\ nodes \subseteq added
  BY <1>2, TrieGrows DEF Insert
<1>4. fail' \in [nodes' -> nodes']
  BY <1>3 DEF Insert, Shape
<1>5. minRule' \in [nodes' -> Nat]
  <2>1. NoRule \in Nat /\ RuleIndex \in Nat
    BY MatcherAssumption DEF NoRule, RuleIndex, Shape
  <2>2. \A n \in added: LET old == IF n \in nodes THEN minRule[n] ELSE NoRule
                        IN  (IF n = term THEN KeepMin(old, RuleIndex) ELSE old) \in Nat
    BY <2>1, KeepMinTyped DEF Shape
  <2> QED BY <1>3, <2>2 DEF Insert
<1>6. queue' \in Seq(nodes')
  BY <1>3, SeqMonotonic DEF Shape, Insert
<1>7. inserted' \in 0..Len(rules)
  BY <1>1 DEF Insert, Shape
<1> QED
  BY <1>3, <1>4, <1>5, <1>6, <1>7 DEF Shape, Insert, scan, Phase

LEMMA QueueShape ==
    Shape /\ (StartQueue \/ QueueRoot \/ RootsQueued \/ Expand \/ NextHead \/ PickChild \/ Walk \/ SetLink) => Shape'
<1> SUFFICES ASSUME Shape,
                    StartQueue \/ QueueRoot \/ RootsQueued \/ Expand \/ NextHead \/ PickChild \/ Walk \/ SetLink
             PROVE  Shape'
  OBVIOUS
<1>1. CASE StartQueue
  BY <1>1 DEF Shape, StartQueue, scan, Children, Phase
<1>2. CASE QueueRoot
  <2>1. queue' \in Seq(nodes) /\ todo' \subseteq nodes
    BY <1>2, AppendProperties DEF Shape, QueueRoot
  <2> QED BY <1>2, <2>1 DEF Shape, QueueRoot, scan, Phase
<1>3. CASE RootsQueued
  BY <1>3 DEF Shape, RootsQueued, build, scan, Phase
<1>4. CASE Expand
  BY <1>4 DEF Shape, Expand, scan, Children, Phase
<1>5. CASE NextHead
  <2>1. head' \in Nat \ {0} /\ pc' = "expand" /\ pos' = 0
    BY <1>5 DEF Shape, NextHead, scan
  <2> QED BY <1>5, <2>1 DEF Shape, NextHead, scan, Phase
<1>6. CASE PickChild
  <2>1. head \in 1..Len(queue)
    BY <1>6, LenProperties DEF Shape, PickChild
  <2>2. FirstCandidate \in nodes
    BY <2>1, ElementOfSeq DEF Shape, FirstCandidate
  <2> QED BY <1>6, <2>1, <2>2 DEF Shape, PickChild, scan, Phase
<1>7. CASE Walk
  BY <1>7 DEF Shape, Walk, scan, Phase
<1>8. CASE SetLink
  <2> DEFINE link == IF HasTransition(failure, LastKey(child))
                     THEN Append(failure, LastKey(child)) ELSE failure
  <2>1. link \in nodes
    BY <1>8 DEF Shape, HasTransition
  <2>2. fail' \in [nodes -> nodes] /\ minRule' \in [nodes -> Nat]
    BY <1>8, <2>1, KeepMinTyped DEF Shape, SetLink
  <2>3. queue' \in Seq(nodes) /\ Len(queue') = Len(queue) + 1 /\ Len(queue) \in Nat
    BY <1>8, AppendProperties, LenProperties DEF Shape, SetLink
  <2>4. head' <= Len(queue') /\ head' = head /\ pc' = "children" /\ pos' = 0
    BY <1>8, <2>3 DEF Shape, SetLink, scan
  <2>5. UNCHANGED <<rules, inserted, nodes, todo, failure, child, text, state, best>>
    BY <1>8 DEF SetLink, scan
  <2>6. /\ minRule' \in [nodes' -> Nat] /\ fail' \in [nodes' -> nodes'] /\ queue' \in Seq(nodes')
        /\ nodes' \subseteq Seq(Keys) /\ Root \in nodes' /\ PrefixClosed(nodes')
    BY <2>2, <2>3, <2>5 DEF Shape
  <2>7. /\ rules' \in Seq(Seq(Chars) \ {<<>>}) /\ inserted' \in 0..Len(rules')
        /\ head' \in Nat \ {0} /\ todo' \subseteq nodes' /\ failure' \in nodes' /\ child' \in nodes'
        /\ text' \in Seq(Chars) /\ pos' \in 0..Len(text') /\ state' \in nodes' /\ best' \in Nat
    <3>1. rules' \in Seq(Seq(Chars) \ {<<>>}) /\ inserted' \in 0..Len(rules')
      BY <2>5 DEF Shape
    <3>2. head' \in Nat \ {0} /\ todo' \subseteq nodes' /\ failure' \in nodes' /\ child' \in nodes'
      BY <2>4, <2>5 DEF Shape
    <3>3. text' \in Seq(Chars) /\ state' \in nodes' /\ best' \in Nat
      BY <2>5 DEF Shape
    <3>4. Len(text') \in Nat
      BY <3>3, LenProperties
    <3>5. pos' \in 0..Len(text')
      BY <2>4, <3>4
    <3> QED BY <3>1, <3>2, <3>3, <3>5
  <2> QED BY <2>4, <2>6, <2>7 DEF Shape, Phase
<1> QED BY <1>1, <1>2, <1>3, <1>4, <1>5, <1>6, <1>7, <1>8

LEMMA ScanShape == Shape /\ (StartScan \/ FallBack \/ Consume \/ ScanEnd) => Shape'
<1> SUFFICES ASSUME Shape, StartScan \/ FallBack \/ Consume \/ ScanEnd PROVE Shape'
  OBVIOUS
<1>1. CASE StartScan
  <2>1. text' \in Seq(Chars) /\ pos' = 0 /\ 0 \in 0..Len(text')
    BY <1>1, MatcherAssumption, LenProperties DEF Shape, StartScan
  <2> QED BY <1>1, <2>1 DEF Shape, StartScan, build, Phase
<1>2. CASE FallBack
  BY <1>2 DEF Shape, FallBack, ShorterState, build, Phase
<1>3. CASE Consume
  <2>1. state' \in nodes
    BY <1>3 DEF Shape, Consume, HasTransition
  <2>2. best' \in Nat
    BY <1>3, <2>1, KeepMinTyped DEF Shape, Consume
  <2>3. pos' \in 0..Len(text)
    <3>1. Len(text) \in Nat
      BY LenProperties DEF Shape
    <3> QED BY <1>3, <3>1 DEF Shape, Consume
  <2> QED BY <1>3, <2>1, <2>2, <2>3 DEF Shape, Consume, build, Phase
<1>4. CASE ScanEnd
  BY <1>4 DEF Shape, ScanEnd, build, scan, Phase
<1> QED BY <1>1, <1>2, <1>3, <1>4

LEMMA ShapeStep == Shape /\ [Next]_vars => Shape'
<1> SUFFICES ASSUME Shape, [Next]_vars PROVE Shape'
  OBVIOUS
<1>1. CASE UNCHANGED vars
  BY <1>1 DEF vars, build, scan, Shape
<1> QED BY <1>1, InsertShape, QueueShape, ScanShape DEF Next

-----------------------------------------------------------------------------
(* The rules that end in a node. *)

LEMMA TermForm ==
    ASSUME Shape, NEW r \in RuleNumbers
    PROVE  TermOf(r) \in Seq(Keys) /\ TermOf(r) # Root /\ r \in Nat /\ r # NoRule /\ FirstRule <= r
<1>1. FirstRule \in Nat \ {0} /\ Len(rules) \in Nat
  BY MatcherAssumption, LenProperties DEF Shape
<1>2. r \in Nat /\ r # NoRule /\ FirstRule <= r /\ r - FirstRule + 1 \in 1..Len(rules)
  BY <1>1 DEF RuleNumbers, NoRule
<1> DEFINE s == rules[r - FirstRule + 1]
<1>3. s \in Seq(Chars) /\ s # <<>>
  BY <1>2, ElementOfSeq DEF Shape
<1> HIDE DEF s
<1>4. KeyString(s) \in Seq(Keys) /\ Len(KeyString(s)) = Len(s) /\ Len(s) # 0
  BY <1>3, KeyStringForm, EmptySeq
<1>5. KeyString(s) # <<>>
  BY <1>4, EmptySeq
<1>6. TermOf(r) = KeyString(s)
  BY DEF TermOf, s
<1> QED BY <1>2, <1>4, <1>5, <1>6 DEF Root

LEMMA EndingForm ==
    ASSUME Shape, NEW s \in Seq(Keys)
    PROVE  /\ EndingIn(s) \subseteq RuleNumbers
           /\ \A r \in RuleNumbers: r \in EndingIn(s) <=> IsSuffix(TermOf(r), s)
BY TermForm, SuffixForm DEF EndingIn

LEMMA NothingEndsInRoot == Shape => EndingIn(Root) = {}
<1> SUFFICES ASSUME Shape, NEW r \in EndingIn(Root) PROVE FALSE
  OBVIOUS
<1>1. <<>> \in Seq(Keys) /\ Len(<<>>) = 0
  BY EmptySeq
<1>2. r \in RuleNumbers /\ IsSuffix(TermOf(r), <<>>)
  BY <1>1, EndingForm DEF Root
<1>3. TermOf(r) \in Seq(Keys) /\ TermOf(r) # <<>>
  BY <1>2, TermForm DEF Root
<1>4. Len(TermOf(r)) \in Nat \ {0}
  BY <1>3, EmptySeq
<1> QED BY <1>1, <1>2, <1>4 DEF IsSuffix

\* With all terms in the trie, the rules that end in s within b characters are
\* those that end in its longest candidate.
LEMMA EndingOfLongest ==
    ASSUME Shape, \A r \in RuleNumbers: TermOf(r) \in nodes,
           NEW s \in Seq(Keys), NEW b \in Nat, NEW l, IsLongest(l, Candidates(s, b))
    PROVE  EndingIn(l) = {r \in EndingIn(s): Len(TermOf(r)) <= b}
<1>1. l \in nodes /\ l \in Seq(Keys) /\ IsSuffix(l, s) /\ Len(l) <= b /\ Len(l) \in Nat
  BY LenProperties DEF IsLongest, Candidates, Shape
<1>2. ASSUME NEW r \in RuleNumbers, IsSuffix(TermOf(r), l)
      PROVE  IsSuffix(TermOf(r), s) /\ Len(TermOf(r)) <= b
  <2>1. TermOf(r) \in Seq(Keys)
    BY TermForm
  <2>2. IsSuffix(TermOf(r), s)
    BY <1>1, <1>2, <2>1, SuffixTransitive
  <2>3. Len(TermOf(r)) <= Len(l) /\ Len(TermOf(r)) \in Nat
    BY <1>2, <2>1, LenProperties DEF IsSuffix
  <2> QED BY <1>1, <2>2, <2>3
<1>3. ASSUME NEW r \in RuleNumbers, IsSuffix(TermOf(r), s), Len(TermOf(r)) <= b
      PROVE  IsSuffix(TermOf(r), l)
  <2>1. TermOf(r) \in Seq(Keys) /\ TermOf(r) \in Candidates(s, b)
    BY <1>3, TermForm DEF Candidates
  <2>2. Len(TermOf(r)) <= Len(l)
    BY <2>1 DEF IsLongest
  <2> QED BY <1>1, <1>3, <2>1, <2>2, SuffixesNest
<1>4. /\ EndingIn(l) \subseteq RuleNumbers /\ EndingIn(s) \subseteq RuleNumbers
      /\ \A r \in RuleNumbers: r \in EndingIn(l) <=> IsSuffix(TermOf(r), l)
      /\ \A r \in RuleNumbers: r \in EndingIn(s) <=> IsSuffix(TermOf(r), s)
  BY <1>1, EndingForm
<1> QED BY <1>2, <1>3, <1>4

-----------------------------------------------------------------------------
(* The build. *)

LEMMA BuildStart == Init => BuildInv
<1> SUFFICES ASSUME Init PROVE BuildInv
  OBVIOUS
<1>1. Shape /\ Linked = {} /\ Inserted = {}
  BY ShapeStart, MatcherAssumption, EmptySeq DEF Init, Linked, Inserted
<1> QED
  BY <1>1 DEF Init, BuildInv, PhaseInv, RuleInv, LinkInv, QueueInv, WalkInv, Expanding, NoRule

LEMMA InsertBuild == BuildInv /\ Insert => BuildInv'
<1> SUFFICES ASSUME BuildInv, Insert PROVE BuildInv'
  OBVIOUS
<1> DEFINE term == KeyString(rules[inserted + 1])
           added == nodes \cup Prefixes(term)
           old(n) == IF n \in nodes THEN minRule[n] ELSE NoRule
<1>1. Shape /\ Shape' /\ pc = "insert" /\ pc' = "insert" /\ queue = <<>> /\ queue' = <<>>
  BY InsertShape DEF BuildInv, PhaseInv, Insert
<1>2. FirstRule \in Nat \ {0} /\ Len(rules) \in Nat /\ inserted \in Nat /\ inserted + 1 <= Len(rules)
  BY MatcherAssumption, LenProperties DEF Shape, BuildInv, Insert
<1>3. /\ nodes' = added /\ rules' = rules /\ nodes \subseteq added
      /\ minRule' = [n \in added |-> IF n = term THEN KeepMin(old(n), RuleIndex) ELSE old(n)]
      /\ fail' = [n \in added |-> Root] /\ head' = head /\ inserted' = inserted + 1
  BY DEF Insert
<1>4. RuleIndex \in RuleNumbers /\ TermOf(RuleIndex) = term /\ RuleIndex = FirstRule + inserted
  <2>1. RuleIndex - FirstRule + 1 = inserted + 1
    BY <1>2 DEF RuleIndex
  <2> QED BY <1>2, <2>1 DEF RuleNumbers, RuleIndex, TermOf
<1>5. term \in added /\ term \in Seq(Keys)
  <2>1. term \in Seq(Keys)
    BY <1>1, <1>4, TermForm
  <2> QED BY <2>1, PrefixForm
<1>6. RuleIndex \in EndingIn(term)
  BY <1>1, <1>4, <1>5, EndingForm, SuffixReflexive
<1> HIDE DEF term, added
<1>7. Linked' = {} /\ \A r: TermOf(r)' = TermOf(r)
  <2>1. Len(queue') = 0
    BY <1>1, EmptySeq
  <2> QED BY <1>3, <2>1 DEF Linked, TermOf
<1>8. RuleNumbers' = RuleNumbers /\ \A n: EndingIn(n)' = EndingIn(n)
  BY <1>3 DEF RuleNumbers, EndingIn, TermOf
<1>9. \A r \in Inserted': TermOf(r) \in added /\ minRule'[TermOf(r)] # NoRule /\ minRule'[TermOf(r)] <= r
  <2> SUFFICES ASSUME NEW r \in Inserted'
               PROVE  TermOf(r) \in added /\ minRule'[TermOf(r)] # NoRule /\ minRule'[TermOf(r)] <= r
    OBVIOUS
  <2>1. r \in Inserted \/ r = RuleIndex
    BY <1>2, <1>3, <1>4 DEF Inserted
  <2>2. \A n \in nodes: minRule[n] \in Nat
    BY <1>1 DEF Shape
  <2>3. RuleIndex \in Nat /\ RuleIndex # NoRule
    BY <1>1, <1>4, TermForm
  <2>4. CASE r \in Inserted
    <3>1. TermOf(r) \in nodes /\ minRule[TermOf(r)] # NoRule /\ minRule[TermOf(r)] <= r
      BY <2>4 DEF BuildInv, RuleInv
    <3>2. old(TermOf(r)) = minRule[TermOf(r)] /\ minRule[TermOf(r)] \in Nat /\ r \in Nat
      BY <1>2, <2>2, <2>4, <3>1 DEF Inserted
    <3>3. KeepMin(minRule[TermOf(r)], RuleIndex) # NoRule /\ KeepMin(minRule[TermOf(r)], RuleIndex) <= r
      BY <2>3, <3>1, <3>2 DEF KeepMin
    <3> QED BY <1>3, <3>1, <3>2, <3>3
  <2>5. CASE r = RuleIndex
    <3>1. old(term) \in Nat
      BY <2>2, MatcherAssumption DEF NoRule
    <3>2. KeepMin(old(term), RuleIndex) # NoRule /\ KeepMin(old(term), RuleIndex) <= RuleIndex
      BY <2>3, <3>1 DEF KeepMin
    <3> QED BY <1>3, <1>4, <1>5, <2>5, <3>2
  <2> QED BY <2>1, <2>4, <2>5
<1>10. \A n \in added: minRule'[n] = NoRule \/ minRule'[n] \in EndingIn(n)
  BY <1>3, <1>6 DEF BuildInv, RuleInv, KeepMin
<1>11. RuleInv'
  BY <1>3, <1>7, <1>8, <1>9, <1>10 DEF RuleInv
<1>12. PhaseInv' /\ LinkInv' /\ QueueInv' /\ WalkInv'
  BY <1>1, <1>3, <1>7 DEF BuildInv, PhaseInv, LinkInv, QueueInv, WalkInv, Expanding
<1> QED BY <1>1, <1>11, <1>12 DEF BuildInv

LEMMA NodeForm ==
    ASSUME Shape, NEW n \in nodes \ {Root}
    PROVE  \E u \in nodes: Len(n) = Len(u) + 1 /\ n \in Children(u)
<1>1. PICK u \in Seq(Keys), k \in Keys: n = Append(u, k)
  BY SequenceEmptyOrAppend DEF Shape, Root
<1>2. u \in nodes
  BY <1>1, ParentInTrie DEF Shape
<1>3. Len(n) = Len(u) + 1
  BY <1>1, AppendProperties
<1> QED BY <1>1, <1>2, <1>3 DEF Children

LEMMA ChildForm ==
    ASSUME Shape, NEW u \in nodes, NEW n \in Children(u)
    PROVE  /\ n \in nodes \ {Root} /\ Len(n) = Len(u) + 1
           /\ LastKey(n) \in Keys /\ n = Append(u, LastKey(n))
<1>1. PICK k \in Keys: n = Append(u, k)
  BY DEF Children
<1>2. u \in Seq(Keys)
  BY DEF Shape
<1>3. LastKey(n) = k /\ Len(n) = Len(u) + 1 /\ n # <<>>
  BY <1>1, <1>2, LastOf, AppendProperties
<1> QED BY <1>1, <1>3 DEF Children, Root

LEMMA NodeLength ==
    ASSUME Shape, NEW n \in nodes
    PROVE  n \in Seq(Keys) /\ Len(n) \in Nat /\ (n # Root <=> Len(n) >= 1)
<1>1. n \in Seq(Keys)
  BY DEF Shape
<1> QED BY <1>1, EmptySeq, LenProperties DEF Root

LEMMA LinkedAppend ==
    ASSUME Shape, NEW n \in nodes, queue' = Append(queue, n)
    PROVE  /\ Linked' = Linked \cup {n} /\ Len(queue') = Len(queue) + 1 /\ Len(queue) \in Nat
           /\ queue'[Len(queue) + 1] = n
           /\ \A i \in 1..Len(queue): queue'[i] = queue[i]
<1>1. /\ Len(queue') = Len(queue) + 1 /\ Len(queue) \in Nat /\ queue'[Len(queue) + 1] = n
      /\ \A i \in 1..Len(queue): queue'[i] = queue[i]
  BY AppendProperties, LenProperties DEF Shape
<1>2. 1..Len(queue') = 1..Len(queue) \cup {Len(queue) + 1}
  BY <1>1
<1> QED BY <1>1, <1>2 DEF Linked

LEMMA LinkedInTrie == Shape => Linked \subseteq nodes
BY ElementOfSeq DEF Shape, Linked

\* What a step leaves alone when it changes neither trie, rules nor links.
LEMMA BuildKept ==
    ASSUME BuildInv, UNCHANGED <<rules, inserted, nodes, minRule, fail, queue>>
    PROVE  RuleInv' /\ LinkInv' /\ Linked' = Linked /\ \A s, b: Candidates(s, b)' = Candidates(s, b)
<1>1. Linked' = Linked /\ RuleNumbers' = RuleNumbers /\ Inserted' = Inserted
  BY DEF Linked, RuleNumbers, Inserted
<1>2. \A n: EndingIn(n)' = EndingIn(n) /\ TermOf(n)' = TermOf(n)
  BY DEF EndingIn, TermOf, RuleNumbers
<1>3. \A s, b: Candidates(s, b)' = Candidates(s, b)
  BY DEF Candidates
<1>4. RuleInv'
  BY <1>1, <1>2 DEF BuildInv, RuleInv
<1>5. LinkInv'
  BY <1>1, <1>3 DEF BuildInv, LinkInv
<1> QED BY <1>1, <1>3, <1>4, <1>5

LEMMA StartQueueBuild == BuildInv /\ StartQueue => BuildInv'
<1> SUFFICES ASSUME BuildInv, StartQueue PROVE BuildInv'
  OBVIOUS
<1>1. Shape' /\ RuleInv' /\ LinkInv'
  BY QueueShape, BuildKept DEF BuildInv, StartQueue
<1>2. queue' = <<>> /\ Len(queue') = 0 /\ pc' = "roots"
  BY EmptySeq DEF BuildInv, PhaseInv, StartQueue
<1>3. PhaseInv' /\ WalkInv'
  BY <1>2 DEF BuildInv, PhaseInv, WalkInv, StartQueue
<1>4. QueueInv'
  BY <1>2 DEF QueueInv, Expanding, StartQueue, Children
<1> QED BY <1>1, <1>3, <1>4 DEF BuildInv

\* The first link of a branch is the root, and only the terms equal to the node
\* end in it.
LEMMA QueueRootBuild == BuildInv /\ QueueRoot => BuildInv'
<1> SUFFICES ASSUME BuildInv, QueueRoot PROVE BuildInv'
  OBVIOUS
<1>1. Shape /\ Shape' /\ pc = "roots" /\ pc' = "roots"
  BY QueueShape DEF BuildInv, QueueRoot
<1>2. PICK n \in todo: queue' = Append(queue, n) /\ todo' = todo \ {n}
  BY DEF QueueRoot
<1>3. n \in nodes \ {Root} /\ Len(n) = 1 /\ n \in Seq(Keys)
  <2>1. Root \in nodes /\ n \in Children(Root)
    BY <1>1 DEF BuildInv, QueueInv, Shape
  <2>2. n \in nodes \ {Root} /\ Len(n) = Len(Root) + 1
    BY <1>1, <2>1, ChildForm
  <2> QED BY <1>1, <2>2, EmptySeq DEF Root, Shape
<1>4. /\ Linked' = Linked \cup {n} /\ Len(queue') = Len(queue) + 1 /\ Len(queue) \in Nat
      /\ queue'[Len(queue) + 1] = n
      /\ \A i \in 1..Len(queue): queue'[i] = queue[i]
  BY <1>1, <1>2, <1>3, LinkedAppend
<1>5. IsLongest(fail[n], Candidates(n, Len(n) - 1))
  <2>1. fail[n] = Root /\ Len(Root) = 0 /\ Root \in nodes
    BY <1>1, <1>3, EmptySeq DEF BuildInv, PhaseInv, Root, Shape
  <2>2. Root \in Candidates(n, Len(n) - 1)
    BY <1>3, <2>1, SuffixReflexive DEF Candidates, Root
  <2>3. \A t \in Candidates(n, Len(n) - 1): Len(t) <= 0
    BY <1>3 DEF Candidates
  <2> QED BY <2>1, <2>2, <2>3 DEF IsLongest
<1>6. IsLeast(minRule[n], EndingIn(n))
  <2>1. minRule[n] = NoRule \/ minRule[n] \in EndingIn(n)
    BY <1>3 DEF BuildInv, RuleInv
  <2>2. ASSUME NEW r \in EndingIn(n) PROVE minRule[n] # NoRule /\ minRule[n] <= r
    <3>1. r \in RuleNumbers /\ IsSuffix(TermOf(r), n)
      BY <1>1, <1>3, EndingForm
    <3>2. r \in Inserted
      BY <1>1, <3>1 DEF BuildInv, PhaseInv, RuleNumbers, Inserted
    <3>3. TermOf(r) \in Seq(Keys) /\ TermOf(r) # <<>>
      BY <1>1, <3>1, TermForm DEF Root
    <3>4. Len(TermOf(r)) = 1
      BY <1>3, <3>1, <3>3, EmptySeq DEF IsSuffix
    <3>5. TermOf(r) = n
      BY <1>3, <3>1, <3>3, <3>4, SuffixReflexive, SuffixByLength
    <3> QED BY <3>2, <3>5 DEF BuildInv, RuleInv
  <2> QED BY <2>1, <2>2 DEF IsLeast
<1>7. UNCHANGED <<rules, inserted, nodes, minRule, fail, head>>
  BY DEF QueueRoot
<1>8. RuleInv' /\ LinkInv'
  <2>1. \A m: EndingIn(m)' = EndingIn(m) /\ TermOf(m)' = TermOf(m)
    BY <1>7 DEF EndingIn, TermOf, RuleNumbers
  <2>2. \A s, b: Candidates(s, b)' = Candidates(s, b)
    BY <1>7 DEF Candidates
  <2>3. RuleInv'
    BY <1>4, <1>6, <1>7, <2>1 DEF BuildInv, RuleInv, Inserted
  <2>4. LinkInv'
    BY <1>3, <1>4, <1>5, <1>7, <2>2 DEF BuildInv, LinkInv
  <2> QED BY <2>3, <2>4
<1>9. PhaseInv' /\ WalkInv'
  BY <1>1, <1>7 DEF BuildInv, PhaseInv, WalkInv
<1>10. QueueInv'
  <2>1. \A j \in 1..Len(queue'): Len(queue'[j]) = 1
    BY <1>1, <1>3, <1>4 DEF BuildInv, QueueInv
  <2>2. todo' \subseteq Children(Root)' /\ Children(Root)' \subseteq Linked' \cup todo'
    BY <1>1, <1>2, <1>4, <1>7 DEF BuildInv, QueueInv, Children
  <2> QED BY <1>1, <2>1, <2>2 DEF QueueInv, Expanding
<1> QED BY <1>1, <1>8, <1>9, <1>10 DEF BuildInv

LEMMA RootsQueuedBuild == BuildInv /\ RootsQueued => BuildInv'
<1> SUFFICES ASSUME BuildInv, RootsQueued PROVE BuildInv'
  OBVIOUS
<1>1. /\ Shape /\ Shape' /\ pc = "roots" /\ pc' = "expand" /\ todo = {} /\ head = 1
      /\ UNCHANGED <<rules, inserted, nodes, minRule, fail, queue, head, todo>>
  BY QueueShape DEF BuildInv, PhaseInv, RootsQueued, build
<1>2. RuleInv' /\ LinkInv' /\ Linked' = Linked /\ Len(queue) \in Nat
  BY <1>1, BuildKept, LenProperties DEF Shape
<1>3. PhaseInv' /\ WalkInv'
  BY <1>1 DEF BuildInv, PhaseInv, WalkInv
<1>4. /\ \A j \in 1..Len(queue): Len(queue[j]) = 1
      /\ Children(Root) \subseteq Linked
  BY <1>1 DEF BuildInv, QueueInv
<1>5. \A n \in nodes \ {Root}: Len(n) = 1 => n \in Linked
  <2> SUFFICES ASSUME NEW n \in nodes \ {Root}, Len(n) = 1 PROVE n \in Linked
    OBVIOUS
  <2>1. PICK u \in nodes: Len(n) = Len(u) + 1 /\ n \in Children(u)
    BY <1>1, NodeForm
  <2>2. u = Root
    BY <1>1, <2>1, NodeLength
  <2> QED BY <1>4, <2>1, <2>2
<1>6. ASSUME NEW n \in nodes PROVE n # Root <=> Len(n) >= 1
  BY <1>1, NodeLength
<1>7. ASSUME NEW n \in nodes PROVE Len(n) \in Nat
  BY <1>1, NodeLength
<1>8. \A n \in nodes: Len(n) = 1 => n \in Linked
  BY <1>5, <1>6
<1>9. ASSUME NEW n \in nodes \ {Root}, Len(n) <= 1 PROVE n \in Linked
  <2>1. Len(n) >= 1 /\ Len(n) \in Nat
    BY <1>6, <1>7
  <2>2. \A l \in Nat: l >= 1 /\ l <= 1 => l = 1
    OBVIOUS
  <2> QED BY <1>5, <1>9, <2>1, <2>2
<1>10. \A i \in 1..Len(queue): \A n \in nodes \ {Root}: Len(n) <= Len(queue[i]) => n \in Linked
  BY <1>4, <1>9
<1>11. head \in 1..Len(queue) => \A j \in 1..Len(queue): Len(queue[j]) <= Len(queue[head]) + 1
  BY <1>4
<1>12. /\ \A i, j \in 1..Len(queue): i <= j => Len(queue[i]) <= Len(queue[j])
       /\ \A i \in 1..Len(queue): i < head => Children(queue[i]) \subseteq Linked
       /\ head <= Len(queue) + 1 /\ (head <= Len(queue) => head \in 1..Len(queue))
  BY <1>1, <1>2, <1>4
<1>13. QueueInv'
  BY <1>1, <1>2, <1>8, <1>10, <1>11, <1>12 DEF QueueInv, Expanding, Children
<1> QED BY <1>1, <1>2, <1>3, <1>13 DEF BuildInv

LEMMA ExpandBuild == BuildInv /\ Expand => BuildInv'
<1> SUFFICES ASSUME BuildInv, Expand PROVE BuildInv'
  OBVIOUS
<1>1. /\ Shape' /\ pc = "expand" /\ pc' = "children" /\ todo' = Children(queue[head]) /\ head <= Len(queue)
      /\ UNCHANGED <<rules, inserted, nodes, minRule, fail, queue, head>>
  BY QueueShape DEF BuildInv, Expand
<1>2. RuleInv' /\ LinkInv' /\ Linked' = Linked
  BY <1>1, BuildKept
<1>3. PhaseInv' /\ WalkInv'
  BY <1>1 DEF BuildInv, PhaseInv, WalkInv
<1>4. \A n: Children(n)' = Children(n)
  BY <1>1 DEF Children
<1>5. QueueInv'
  BY <1>1, <1>2, <1>4 DEF BuildInv, QueueInv, Expanding, Owed
<1> QED BY <1>1, <1>2, <1>3, <1>5 DEF BuildInv

\* The depth of the head grows only when all nodes of the depth before are linked.
LEMMA NextHeadBuild == BuildInv /\ NextHead => BuildInv'
<1> SUFFICES ASSUME BuildInv, NextHead PROVE BuildInv'
  OBVIOUS
<1>1. /\ Shape /\ Shape' /\ pc = "children" /\ pc' = "expand" /\ todo = {} /\ head' = head + 1
      /\ UNCHANGED <<rules, inserted, nodes, minRule, fail, queue>>
  BY QueueShape DEF BuildInv, NextHead
<1>2. RuleInv' /\ LinkInv' /\ Linked' = Linked
  BY <1>1, BuildKept
<1>3. PhaseInv' /\ WalkInv'
  BY <1>1 DEF BuildInv, PhaseInv, WalkInv
<1>4. \A n: Children(n)' = Children(n)
  BY <1>1 DEF Children
<1>5. /\ \A i, j \in 1..Len(queue): i <= j => Len(queue[i]) <= Len(queue[j])
      /\ \A n \in nodes: Len(n) = 1 => n \in Linked
      /\ \A i \in 1..Len(queue): i < head => Children(queue[i]) \subseteq Linked
      /\ \A i \in 1..Len(queue): i <= head =>
            \A n \in nodes \ {Root}: Len(n) <= Len(queue[i]) => n \in Linked
      /\ \A j \in 1..Len(queue): Len(queue[j]) <= Len(queue[head]) + 1
      /\ Children(queue[head]) \subseteq Linked
      /\ head \in 1..Len(queue) /\ Len(queue) \in Nat
  <2>1. head \in 1..Len(queue) /\ Len(queue) \in Nat /\ head <= Len(queue)
    BY <1>1, LenProperties DEF Shape
  <2>2. Owed = {} /\ QueueInv
    BY <1>1 DEF Owed, BuildInv
  <2> QED BY <1>1, <2>1, <2>2 DEF QueueInv, Expanding
<1>6. \A i \in 1..Len(queue): Len(queue[i]) \in Nat /\ queue[i] \in Linked /\ queue[i] \in nodes
  <2> TAKE i \in 1..Len(queue)
  <2>1. queue[i] \in Linked /\ queue[i] \in nodes
    BY <1>1, LinkedInTrie DEF Linked
  <2> QED BY <1>1, <2>1, NodeLength
<1>7. \A i \in 1..Len(queue): i < head + 1 => Children(queue[i]) \subseteq Linked
  BY <1>5
<1>8. ASSUME head + 1 <= Len(queue), NEW n \in nodes \ {Root}, Len(n) <= Len(queue[head + 1])
      PROVE  n \in Linked
  <2>1. head + 1 \in 1..Len(queue)
    BY <1>5, <1>8
  <2>2. PICK u \in nodes: Len(n) = Len(u) + 1 /\ n \in Children(u)
    BY <1>1, NodeForm
  <2>3. Len(n) \in Nat /\ Len(u) \in Nat /\ (u # Root <=> Len(u) >= 1)
    BY <1>1, NodeLength
  <2>4. CASE Len(n) <= Len(queue[head])
    BY <1>5, <2>4
  <2>5. CASE Len(n) > Len(queue[head])
    <3>1. Len(queue[head + 1]) <= Len(queue[head]) + 1
      BY <1>5, <2>1
    <3>2. Len(u) = Len(queue[head]) /\ Len(queue[head + 1]) = Len(u) + 1
      BY <1>5, <1>6, <1>8, <2>1, <2>2, <2>3, <2>5, <3>1
    <3>3. CASE u = Root
      <4>1. Len(n) = 1
        BY <2>2, <2>3, <3>3, <3>2, EmptySeq DEF Root
      <4> QED BY <1>5, <4>1
    <3>4. CASE u # Root
      <4>1. u \in Linked
        BY <1>5, <2>3, <3>2, <3>4
      <4>2. PICK i \in 1..Len(queue): u = queue[i]
        BY <4>1 DEF Linked
      <4>3. ~(head + 1 <= i)
        <5>1. head + 1 <= i => Len(queue[head + 1]) <= Len(queue[i])
          BY <1>5, <2>1
        <5> QED BY <2>3, <3>2, <4>2, <5>1
      <4>4. i < head + 1
        BY <1>5, <4>3
      <4> QED BY <1>7, <2>2, <4>2, <4>4
    <3> QED BY <3>3, <3>4
  <2> QED BY <1>6, <2>1, <2>3, <2>4, <2>5
<1>9. \A i \in 1..Len(queue): i <= head + 1 =>
         \A n \in nodes \ {Root}: Len(n) <= Len(queue[i]) => n \in Linked
  <2> SUFFICES ASSUME NEW i \in 1..Len(queue), i <= head + 1,
                      NEW n \in nodes \ {Root}, Len(n) <= Len(queue[i])
               PROVE  n \in Linked
    OBVIOUS
  <2>1. CASE i <= head
    BY <1>5, <2>1
  <2>2. CASE i = head + 1
    BY <1>8, <2>2
  <2> QED BY <1>5, <2>1, <2>2
<1>10. head + 1 <= Len(queue) => \A j \in 1..Len(queue): Len(queue[j]) <= Len(queue[head + 1]) + 1
  <2> SUFFICES ASSUME head + 1 <= Len(queue), NEW j \in 1..Len(queue)
               PROVE  Len(queue[j]) <= Len(queue[head + 1]) + 1
    OBVIOUS
  <2>1. head + 1 \in 1..Len(queue) /\ head <= head + 1
    BY <1>5
  <2>2. Len(queue[head]) <= Len(queue[head + 1])
    BY <1>5, <2>1
  <2>3. Len(queue[j]) <= Len(queue[head]) + 1
    BY <1>5
  <2> QED BY <1>5, <1>6, <2>1, <2>2, <2>3
<1>11. QueueInv'
  BY <1>1, <1>2, <1>4, <1>5, <1>7, <1>9, <1>10 DEF QueueInv, Expanding
<1> QED BY <1>1, <1>2, <1>3, <1>11 DEF BuildInv

LEMMA HeadForm ==
    ASSUME BuildInv, pc \in {"children", "walk"}
    PROVE  /\ head \in 1..Len(queue) /\ Len(queue) \in Nat
           /\ queue[head] \in Linked /\ queue[head] \in nodes /\ queue[head] # Root
           /\ queue[head] \in Seq(Keys) /\ Len(queue[head]) \in Nat /\ Len(queue[head]) >= 1
           /\ \A n \in nodes \ {Root}: Len(n) <= Len(queue[head]) => n \in Linked
<1>1. Shape /\ LinkInv /\ QueueInv
  BY DEF BuildInv
<1>2. head \in 1..Len(queue) /\ Len(queue) \in Nat
  BY <1>1, LenProperties DEF Shape
<1>3. queue[head] \in Linked
  BY <1>2 DEF Linked
<1>4. queue[head] \in nodes /\ queue[head] # Root
  BY <1>1, <1>3, LinkedInTrie DEF LinkInv
<1>5. queue[head] \in Seq(Keys) /\ Len(queue[head]) \in Nat /\ Len(queue[head]) >= 1
  BY <1>1, <1>4, NodeLength
<1>6. \A n \in nodes \ {Root}: Len(n) <= Len(queue[head]) => n \in Linked
  BY <1>1, <1>2 DEF QueueInv, Expanding
<1> QED BY <1>2, <1>3, <1>4, <1>5, <1>6

LEMMA PickChildBuild == BuildInv /\ PickChild => BuildInv'
<1> SUFFICES ASSUME BuildInv, PickChild PROVE BuildInv'
  OBVIOUS
<1>1. /\ Shape' /\ pc = "children" /\ pc' = "walk"
      /\ UNCHANGED <<rules, inserted, nodes, minRule, fail, queue, head>>
  BY QueueShape DEF BuildInv, PickChild
<1>2. RuleInv' /\ LinkInv' /\ Linked' = Linked /\ \A s, b: Candidates(s, b)' = Candidates(s, b)
  BY <1>1, BuildKept
<1>3. PhaseInv'
  BY <1>1 DEF BuildInv, PhaseInv
<1>4. IsLongest(fail[queue[head]], Candidates(queue[head], Len(queue[head]) - 1))
  BY <1>1, HeadForm DEF BuildInv, LinkInv
<1>5. WalkInv'
  <2>1. failure' = fail[queue[head]]
    BY DEF PickChild, FirstCandidate
  <2> QED BY <1>1, <1>2, <1>4, <2>1 DEF WalkInv, IsLongest
<1>6. Owed' = Owed
  BY <1>1 DEF PickChild, Owed
<1>7. \A n: Children(n)' = Children(n)
  BY <1>1 DEF Children
<1>8. QueueInv'
  BY <1>1, <1>2, <1>6, <1>7 DEF BuildInv, QueueInv, Expanding
<1> QED BY <1>1, <1>2, <1>3, <1>5, <1>8 DEF BuildInv

LEMMA WalkForm ==
    ASSUME BuildInv, pc = "walk"
    PROVE  /\ child \in nodes \ {Root} /\ child \in Seq(Keys) /\ LastKey(child) \in Keys
           /\ child = Append(queue[head], LastKey(child)) /\ Len(child) = Len(queue[head]) + 1
           /\ failure \in nodes /\ failure \in Seq(Keys) /\ Len(failure) \in Nat
           /\ IsSuffix(failure, queue[head]) /\ Len(failure) <= Len(queue[head]) - 1
           /\ failure # Root => failure \in Linked
<1>1. Shape /\ QueueInv /\ WalkInv
  BY DEF BuildInv
<1>2. child \in Children(queue[head])
  BY <1>1 DEF QueueInv, Owed
<1>3. /\ child \in nodes \ {Root} /\ Len(child) = Len(queue[head]) + 1
      /\ LastKey(child) \in Keys /\ child = Append(queue[head], LastKey(child))
  BY <1>1, <1>2, HeadForm, ChildForm
<1>4. child \in Seq(Keys)
  BY <1>1, <1>3, NodeLength
<1>5. failure \in nodes /\ IsSuffix(failure, queue[head]) /\ Len(failure) <= Len(queue[head]) - 1
  BY <1>1 DEF WalkInv, Candidates
<1>6. failure \in Seq(Keys) /\ Len(failure) \in Nat
  BY <1>1, <1>5, NodeLength
<1>7. failure # Root => failure \in Linked
  <2>1. Len(failure) <= Len(queue[head])
    BY <1>5, <1>6, HeadForm
  <2> QED BY <1>5, <2>1, HeadForm
<1> QED BY <1>3, <1>4, <1>5, <1>6, <1>7

\* A candidate that does not take the key gives way to the longest below it.
LEMMA WalkBuild == BuildInv /\ Walk => BuildInv'
<1> SUFFICES ASSUME BuildInv, Walk PROVE BuildInv'
  OBVIOUS
<1> DEFINE h == queue[head]
<1>1. /\ Shape /\ Shape' /\ pc = "walk" /\ pc' = "walk" /\ failure' = fail[failure]
      /\ ~HasTransition(failure, LastKey(child)) /\ failure # Root
      /\ UNCHANGED <<rules, inserted, nodes, minRule, fail, queue, head, todo, child>>
  BY QueueShape DEF BuildInv, Walk, WalkOn
<1>2. RuleInv' /\ LinkInv' /\ Linked' = Linked /\ \A s, b: Candidates(s, b)' = Candidates(s, b)
  BY <1>1, BuildKept
<1>3. PhaseInv'
  BY <1>1 DEF BuildInv, PhaseInv
<1>4. IsLongest(fail[failure], Candidates(failure, Len(failure) - 1))
  BY <1>1, WalkForm DEF BuildInv, LinkInv
<1>5. h \in Seq(Keys) /\ Len(h) \in Nat
  BY <1>1, HeadForm
<1>6. /\ failure \in Seq(Keys) /\ Len(failure) \in Nat /\ IsSuffix(failure, h)
      /\ Len(failure) <= Len(h) - 1
  BY <1>1, WalkForm
<1>7. fail[failure] \in Candidates(h, Len(h) - 1)
  <2>1. fail[failure] \in nodes /\ IsSuffix(fail[failure], failure) /\ Len(fail[failure]) <= Len(failure) - 1
    BY <1>4 DEF IsLongest, Candidates
  <2>2. fail[failure] \in Seq(Keys) /\ Len(fail[failure]) \in Nat
    BY <1>1, <2>1, NodeLength
  <2>3. IsSuffix(fail[failure], h)
    BY <1>5, <1>6, <2>1, <2>2, SuffixTransitive
  <2>4. Len(fail[failure]) <= Len(h) - 1
    BY <1>5, <1>6, <2>1, <2>2
  <2> QED BY <2>1, <2>3, <2>4 DEF Candidates
<1>8. ASSUME NEW n \in Candidates(h, Len(h) - 1), HasTransition(n, LastKey(child))
      PROVE  Len(n) <= Len(fail[failure])
  <2>1. n \in nodes /\ n \in Seq(Keys) /\ Len(n) \in Nat /\ IsSuffix(n, h)
    BY <1>1, NodeLength DEF Candidates
  <2>2. Len(n) <= Len(failure)
    BY <1>1, <1>8 DEF BuildInv, WalkInv
  <2>3. n # failure
    BY <1>1, <1>8
  <2>4. Len(n) # Len(failure)
    BY <1>5, <1>6, <2>1, <2>3, SuffixByLength
  <2>5. IsSuffix(n, failure)
    BY <1>5, <1>6, <2>1, <2>2, SuffixesNest
  <2>6. Len(n) <= Len(failure) - 1
    BY <1>6, <2>1, <2>2, <2>4
  <2>7. n \in Candidates(failure, Len(failure) - 1)
    BY <2>1, <2>5, <2>6 DEF Candidates
  <2> QED BY <1>4, <2>7 DEF IsLongest
<1>9. WalkInv'
  BY <1>1, <1>2, <1>7, <1>8 DEF WalkInv, HasTransition
<1>10. QueueInv'
  BY <1>1, <1>2 DEF BuildInv, QueueInv, Expanding, Owed, Children
<1> QED BY <1>1, <1>2, <1>3, <1>9, <1>10 DEF BuildInv

\* Once all terms are in, the least rule of a linked node and of the root is known.
LEMMA AllTermsIn ==
    ASSUME Shape, PhaseInv, RuleInv, pc # "insert"
    PROVE  /\ \A r \in RuleNumbers: TermOf(r) \in nodes /\ minRule[TermOf(r)] # NoRule
                                    /\ minRule[TermOf(r)] <= r
           /\ \A n \in Linked \cup {Root}: IsLeast(minRule[n], EndingIn(n))
<1>1. RuleNumbers = Inserted
  BY DEF PhaseInv, RuleNumbers, Inserted
<1>2. minRule[Root] = NoRule /\ EndingIn(Root) = {}
  BY NothingEndsInRoot DEF RuleInv, Shape
<1> QED BY <1>1, <1>2 DEF RuleInv, IsLeast

\* The link is the longest proper suffix in the trie, and what is inherited from
\* it completes the rules of the child.
LEMMA LinkFound ==
    ASSUME BuildInv, SetLink
    PROVE  /\ IsLongest(fail'[child], Candidates(child, Len(child) - 1))
           /\ IsLeast(minRule'[child], EndingIn(child))
<1> DEFINE h == queue[head]
           key == LastKey(child)
           link == IF HasTransition(failure, key) THEN Append(failure, key) ELSE failure
<1>1. /\ Shape /\ pc = "walk" /\ fail'[child] = link
      /\ minRule'[child] = Inherit(minRule[child], minRule[link])
      /\ (HasTransition(failure, key) \/ failure = Root)
  BY DEF BuildInv, Shape, SetLink, WalkOn
<1>2. h \in Seq(Keys) /\ Len(h) \in Nat /\ Len(h) >= 1
      /\ \A n \in nodes \ {Root}: Len(n) <= Len(h) => n \in Linked
  BY <1>1, HeadForm
<1>3. /\ child \in nodes /\ child \in Seq(Keys) /\ key \in Keys /\ child = Append(h, key)
      /\ Len(child) = Len(h) + 1 /\ failure \in Candidates(h, Len(h) - 1)
      /\ \A n \in Candidates(h, Len(h) - 1): HasTransition(n, key) => Len(n) <= Len(failure)
  BY <1>1, WalkForm DEF BuildInv, WalkInv
<1> HIDE DEF h, key
<1>4. Len(h) - 1 \in Nat /\ Len(h) - 1 + 1 = Len(child) - 1 /\ Len(child) - 1 \in Nat
  BY <1>2, <1>3
<1>5. IsLongest(link, Candidates(child, Len(child) - 1))
  <2>1. nodes \subseteq Seq(Keys) /\ PrefixClosed(nodes) /\ Root \in nodes
    BY <1>1 DEF Shape
  <2>2. IsLongest(link, Candidates(Append(h, key), Len(h) - 1 + 1))
    BY <1>1, <1>2, <1>3, <1>4, <2>1, NextIsLongest
  <2> QED BY <1>3, <1>4, <2>2
<1> HIDE DEF link
<1>6. /\ \A r \in RuleNumbers: TermOf(r) \in nodes /\ minRule[TermOf(r)] # NoRule
                               /\ minRule[TermOf(r)] <= r
      /\ \A n \in Linked \cup {Root}: IsLeast(minRule[n], EndingIn(n))
  BY <1>1, AllTermsIn DEF BuildInv
<1>7. EndingIn(link) = {r \in EndingIn(child): Len(TermOf(r)) <= Len(child) - 1}
  BY <1>1, <1>3, <1>4, <1>5, <1>6, EndingOfLongest
<1>8. IsLeast(minRule[link], EndingIn(link))
  <2>1. link \in nodes /\ Len(link) <= Len(h)
    BY <1>2, <1>3, <1>5 DEF IsLongest, Candidates
  <2> QED BY <1>2, <1>6, <2>1
<1>9. PICK R: R = {r \in EndingIn(child): TermOf(r) = child}
                  \cup (IF minRule[child] = NoRule THEN {} ELSE {minRule[child]})
  OBVIOUS
<1>10. R \subseteq EndingIn(child) /\ IsLeast(minRule[child], R)
  <2>1. minRule[child] = NoRule \/ minRule[child] \in EndingIn(child)
    BY <1>3 DEF BuildInv, RuleInv
  <2>2. \A r \in EndingIn(child): TermOf(r) = child => minRule[child] # NoRule /\ minRule[child] <= r
    BY <1>1, <1>3, <1>6, EndingForm
  <2>3. minRule[child] \in Nat
    BY <1>1, <1>3 DEF Shape
  <2> QED BY <1>9, <2>1, <2>2, <2>3 DEF IsLeast
<1>11. R \cup EndingIn(link) = EndingIn(child)
  <2>1. ASSUME NEW r \in EndingIn(child) PROVE TermOf(r) = child \/ Len(TermOf(r)) <= Len(child) - 1
    <3>1. TermOf(r) \in Seq(Keys) /\ IsSuffix(TermOf(r), child)
      BY <1>1, <1>3, EndingForm, TermForm
    <3>2. Len(TermOf(r)) \in Nat /\ Len(TermOf(r)) <= Len(child) /\ Len(child) \in Nat
      BY <1>3, <3>1, LenProperties DEF IsSuffix
    <3>3. Len(TermOf(r)) = Len(child) => TermOf(r) = child
      BY <1>3, <3>1, SuffixReflexive, SuffixByLength
    <3> QED BY <3>2, <3>3
  <2> QED BY <1>7, <1>9, <1>10, <2>1
<1>12. \A r \in R \cup EndingIn(link): r \in Nat /\ r # NoRule
  BY <1>1, <1>3, <1>11, EndingForm, TermForm
<1>13. IsLeast(Inherit(minRule[child], minRule[link]), R \cup EndingIn(link))
  BY <1>8, <1>10, <1>12, LeastOfUnion DEF Inherit
<1> QED BY <1>1, <1>5, <1>11, <1>13

LEMMA SetLinkBuild == BuildInv /\ SetLink => BuildInv'
<1> SUFFICES ASSUME BuildInv, SetLink PROVE BuildInv'
  OBVIOUS
<1> DEFINE h == queue[head]
<1>1. /\ Shape /\ Shape' /\ pc = "walk" /\ pc' = "children" /\ queue' = Append(queue, child)
      /\ UNCHANGED <<rules, inserted, nodes, head, todo, child>>
  BY QueueShape DEF BuildInv, SetLink
<1>2. /\ child \in nodes \ {Root} /\ Len(child) = Len(h) + 1
      /\ head \in 1..Len(queue) /\ h \in nodes /\ Len(h) \in Nat
  BY <1>1, WalkForm, HeadForm
<1>3. \A n \in nodes \ {child}: fail'[n] = fail[n] /\ minRule'[n] = minRule[n]
  BY <1>1 DEF SetLink, Shape
<1>4. /\ Linked' = Linked \cup {child} /\ Len(queue') = Len(queue) + 1 /\ Len(queue) \in Nat
      /\ queue'[Len(queue) + 1] = child
      /\ \A i \in 1..Len(queue): queue'[i] = queue[i]
  BY <1>1, <1>2, LinkedAppend
<1>5. Linked \subseteq nodes
  BY <1>1, LinkedInTrie
<1>6. /\ IsLongest(fail'[child], Candidates(child, Len(child) - 1))
      /\ IsLeast(minRule'[child], EndingIn(child))
  BY LinkFound
<1>7. /\ RuleNumbers' = RuleNumbers /\ Inserted' = Inserted
      /\ \A n: EndingIn(n)' = EndingIn(n) /\ TermOf(n)' = TermOf(n) /\ Children(n)' = Children(n)
      /\ \A s, b: Candidates(s, b)' = Candidates(s, b)
  BY <1>1 DEF RuleNumbers, Inserted, EndingIn, TermOf, Candidates, Children
<1>8. RuleInv'
  <2>1. ASSUME NEW r \in Inserted
        PROVE  TermOf(r) \in nodes /\ minRule'[TermOf(r)] # NoRule /\ minRule'[TermOf(r)] <= r
    <3>1. TermOf(r) \in nodes /\ minRule[TermOf(r)] # NoRule /\ minRule[TermOf(r)] <= r
      BY DEF BuildInv, RuleInv
    <3>2. CASE TermOf(r) # child
      BY <1>3, <3>1, <3>2
    <3>3. CASE TermOf(r) = child
      <4>1. r \in RuleNumbers /\ child \in Seq(Keys)
        BY <1>1, <1>2 DEF BuildInv, PhaseInv, RuleNumbers, Inserted, Shape
      <4>2. r \in EndingIn(child)
        BY <1>1, <3>3, <4>1, EndingForm, SuffixReflexive
      <4>3. minRule'[child] \in EndingIn(child) /\ minRule'[child] <= r
        BY <1>6, <4>2 DEF IsLeast
      <4>4. minRule'[child] # NoRule
        BY <1>1, <4>1, <4>3, EndingForm, TermForm
      <4> QED BY <3>1, <3>3, <4>3, <4>4
    <3> QED BY <3>2, <3>3
  <2>2. \A n \in nodes: minRule'[n] = NoRule \/ minRule'[n] \in EndingIn(n)
    BY <1>3, <1>6 DEF BuildInv, RuleInv, IsLeast
  <2>3. \A n \in Linked': IsLeast(minRule'[n], EndingIn(n))
    BY <1>3, <1>4, <1>5, <1>6 DEF BuildInv, RuleInv
  <2>4. \A n \in nodes: EndingIn(n)' = EndingIn(n)
    BY <1>7
  <2> QED BY <1>1, <1>7, <2>1, <2>2, <2>3, <2>4 DEF RuleInv
<1>9. LinkInv'
  <2>1. \A n \in Linked': n # Root /\ IsLongest(fail'[n], Candidates(n, Len(n) - 1))
    BY <1>2, <1>3, <1>4, <1>5, <1>6 DEF BuildInv, LinkInv
  <2> QED BY <1>7, <2>1 DEF LinkInv
<1>10. PhaseInv' /\ WalkInv'
  BY <1>1 DEF BuildInv, PhaseInv, WalkInv
<1>11. /\ \A i, j \in 1..Len(queue): i <= j => Len(queue[i]) <= Len(queue[j])
       /\ \A n \in nodes: Len(n) = 1 => n \in Linked
       /\ \A i \in 1..Len(queue): i < head => Children(queue[i]) \subseteq Linked
       /\ \A i \in 1..Len(queue): i <= head =>
             \A n \in nodes \ {Root}: Len(n) <= Len(queue[i]) => n \in Linked
       /\ \A j \in 1..Len(queue): Len(queue[j]) <= Len(h) + 1
       /\ Children(h) \subseteq Linked \cup (todo \cup {child}) /\ todo \subseteq Children(h)
  <2>1. head <= Len(queue) /\ QueueInv /\ Owed = todo \cup {child}
    BY <1>1, <1>2 DEF BuildInv, Owed
  <2> QED BY <1>1, <2>1 DEF QueueInv, Expanding
<1>12. \A i \in 1..Len(queue'): i \in 1..Len(queue) \/ (i = Len(queue) + 1 /\ queue'[i] = child)
  BY <1>4
<1>13. \A i, j \in 1..Len(queue'): i <= j => Len(queue'[i]) <= Len(queue'[j])
  <2> SUFFICES ASSUME NEW i \in 1..Len(queue'), NEW j \in 1..Len(queue'), i <= j
               PROVE  Len(queue'[i]) <= Len(queue'[j])
    OBVIOUS
  <2>1. CASE i \in 1..Len(queue) /\ j \in 1..Len(queue)
    BY <1>4, <1>11, <2>1
  <2>2. CASE i \in 1..Len(queue) /\ j = Len(queue) + 1
    BY <1>2, <1>4, <1>11, <2>2
  <2>3. CASE i = Len(queue) + 1
    <3>1. j = i
      BY <1>4, <2>3
    <3> QED BY <1>2, <1>4, <2>3, <3>1
  <2> QED BY <1>12, <2>1, <2>2, <2>3
<1>14. \A i \in 1..Len(queue'): i < head => Children(queue'[i]) \subseteq Linked'
  BY <1>2, <1>4, <1>11, <1>12
<1>15. \A i \in 1..Len(queue'): i <= head =>
          \A n \in nodes \ {Root}: Len(n) <= Len(queue'[i]) => n \in Linked'
  BY <1>2, <1>4, <1>11, <1>12
<1>16. \A j \in 1..Len(queue'): Len(queue'[j]) <= Len(queue'[head]) + 1
  BY <1>2, <1>4, <1>11, <1>12
<1>17. /\ \A n \in nodes: Len(n) = 1 => n \in Linked'
       /\ head <= Len(queue') + 1 /\ queue'[head] = h
       /\ todo \subseteq Children(h) /\ Children(h) \subseteq Linked' \cup todo
  BY <1>2, <1>4, <1>11
<1>18. QueueInv'
  <2>1. Owed' = todo
    BY <1>1 DEF Owed
  <2>2. \A n: Children(n)' = Children(n)
    BY <1>7
  <2> QED BY <1>1, <1>13, <1>14, <1>15, <1>16, <1>17, <2>1, <2>2 DEF QueueInv, Expanding
<1> QED BY <1>1, <1>8, <1>9, <1>10, <1>18 DEF BuildInv

\* When the queue is exhausted no node is left out: the path to one would leave
\* the linked nodes at a node whose children the queue has passed on.
LEMMA AllLinked ==
    ASSUME BuildInv, pc = "expand", head > Len(queue)
    PROVE  nodes \ {Root} \subseteq Linked
<1> SUFFICES ASSUME NEW n \in nodes \ {Root}, n \notin Linked PROVE FALSE
  OBVIOUS
<1>1. Shape /\ Len(queue) \in Nat
  BY LenProperties DEF BuildInv, Shape
<1>2. /\ \A i, j \in 1..Len(queue): i <= j => Len(queue[i]) <= Len(queue[j])
      /\ \A m \in nodes: Len(m) = 1 => m \in Linked
      /\ \A i \in 1..Len(queue): Children(queue[i]) \subseteq Linked
      /\ \A i \in 1..Len(queue): \A m \in nodes \ {Root}: Len(m) <= Len(queue[i]) => m \in Linked
  <2>1. QueueInv /\ head \in Nat /\ \A i \in 1..Len(queue): i < head /\ i <= head
    BY <1>1 DEF BuildInv, Shape
  <2> QED BY <2>1 DEF QueueInv, Expanding
<1>3. n \in Seq(Keys) /\ Len(n) \in Nat /\ Len(n) >= 1
  BY <1>1, NodeLength
\* d is the depth of the deepest linked node.
<1>4. PICK d \in Nat: /\ \A m \in nodes: Len(m) = d + 1 => m \in Linked
                      /\ \A m \in Linked: Len(m) <= d
                      /\ d < Len(n)
  <2>1. CASE Len(queue) = 0
    <3>1. Linked = {}
      BY <2>1 DEF Linked
    <3>2. 0 \in Nat /\ 0 + 1 = 1 /\ 0 < Len(n)
      BY <1>3
    <3>3. \A m \in nodes: Len(m) = 0 + 1 => m \in Linked
      BY <1>2, <3>2
    <3> QED BY <3>1, <3>2, <3>3
  <2>2. CASE Len(queue) # 0
    <3> DEFINE last == queue[Len(queue)]
    <3>1. Len(queue) \in 1..Len(queue)
      BY <1>1, <2>2
    <3>2. last \in Linked /\ last \in nodes
      BY <1>1, <3>1, LinkedInTrie DEF Linked
    <3>3. last # Root /\ Len(last) \in Nat /\ Len(last) >= 1
      BY <1>1, <3>2, NodeLength DEF BuildInv, LinkInv
    <3>4. \A m \in Linked: Len(m) <= Len(last)
      BY <1>2, <3>1 DEF Linked
    <3>5. ASSUME NEW m \in nodes, Len(m) = Len(last) + 1 PROVE m \in Linked
      <4>1. m # Root
        BY <1>1, <3>3, <3>5, NodeLength
      <4>2. PICK u \in nodes: Len(m) = Len(u) + 1 /\ m \in Children(u)
        BY <1>1, <4>1, NodeForm
      <4>3. Len(u) = Len(last) /\ u # Root
        BY <1>1, <3>3, <3>5, <4>2, NodeLength
      <4>4. u \in Linked
        BY <1>2, <3>1, <3>3, <4>3
      <4> QED BY <1>2, <4>2, <4>4 DEF Linked
    <3>6. Len(last) < Len(n)
      <4>1. ~(Len(n) <= Len(last))
        BY <1>2, <3>1
      <4> QED BY <1>3, <3>3, <4>1
    <3> QED BY <3>3, <3>4, <3>5, <3>6
  <2> QED BY <2>1, <2>2
<1>5. d + 1 \in 0..Len(n)
  BY <1>3, <1>4
<1> DEFINE p == SubSeq(n, 1, d + 1)
<1>6. p \in nodes /\ Len(p) = d + 1
  <2>1. p \in Prefixes(n)
    BY <1>5 DEF Prefixes
  <2>2. p \in nodes
    BY <1>1, <2>1 DEF Shape, PrefixClosed
  <2> QED BY <1>3, <1>5, <2>2, PrefixCut
<1> HIDE DEF p
<1>7. p \in Linked /\ Len(p) <= d
  BY <1>4, <1>6
<1> QED BY <1>4, <1>6, <1>7

LEMMA ScanBuild == BuildInv /\ (StartScan \/ FallBack \/ Consume \/ ScanEnd) => BuildInv'
<1> SUFFICES ASSUME BuildInv, StartScan \/ FallBack \/ Consume \/ ScanEnd PROVE BuildInv'
  OBVIOUS
<1>1. /\ Shape' /\ pc # "insert" /\ pc' \in {"scan", "done"}
      /\ UNCHANGED <<rules, inserted, nodes, minRule, fail, queue, head>>
  BY ScanShape DEF BuildInv, StartScan, FallBack, Consume, ScanEnd, build
<1>2. RuleInv' /\ LinkInv' /\ Linked' = Linked
  BY <1>1, BuildKept
<1>3. nodes \ {Root} \subseteq Linked
  <2>1. CASE StartScan
    <3>1. pc = "expand" /\ head > Len(queue)
      BY <2>1 DEF StartScan
    <3> QED BY <3>1, AllLinked
  <2>2. CASE FallBack \/ Consume \/ ScanEnd
    BY <2>2 DEF FallBack, Consume, ScanEnd, BuildInv, QueueInv
  <2> QED BY <2>1, <2>2
<1>4. PhaseInv' /\ WalkInv'
  BY <1>1 DEF BuildInv, PhaseInv, WalkInv
<1>5. QueueInv'
  BY <1>1, <1>2, <1>3 DEF QueueInv, Expanding
<1> QED BY <1>1, <1>2, <1>4, <1>5 DEF BuildInv

LEMMA BuildStep == BuildInv /\ [Next]_vars => BuildInv'
<1> SUFFICES ASSUME BuildInv, [Next]_vars PROVE BuildInv'
  OBVIOUS
<1>1. CASE UNCHANGED vars
  <2>1. Shape' /\ UNCHANGED <<rules, inserted, nodes, minRule, fail, queue, head, todo, failure, child, pc>>
    BY <1>1, ShapeStep DEF vars, build, BuildInv
  <2>2. RuleInv' /\ LinkInv' /\ Linked' = Linked /\ \A s, b: Candidates(s, b)' = Candidates(s, b)
    BY <2>1, BuildKept
  <2>3. PhaseInv' /\ WalkInv'
    BY <2>1, <2>2 DEF BuildInv, PhaseInv, WalkInv, HasTransition
  <2>4. QueueInv'
    BY <2>1, <2>2 DEF BuildInv, QueueInv, Expanding, Owed, Children
  <2> QED BY <2>1, <2>2, <2>3, <2>4 DEF BuildInv
<1> QED
  BY <1>1, InsertBuild, StartQueueBuild, QueueRootBuild, RootsQueuedBuild, ExpandBuild, NextHeadBuild,
     PickChildBuild, WalkBuild, SetLinkBuild, ScanBuild DEF Next

\* For any list of terms, and in whatever order the children of a node are
\* visited, a failure link is the longest proper suffix of its node in the trie.
THEOREM LinksLongest == Spec => []LinksAreLongest
<1>1. BuildInv => LinksAreLongest
  <2> SUFFICES ASSUME BuildInv, NEW n \in Linked PROVE fail[n] = Longest(ProperSuffixes(n) \cap nodes)
    BY DEF LinksAreLongest
  <2>1. n \in Seq(Keys) /\ nodes \subseteq Seq(Keys)
    BY LinkedInTrie DEF BuildInv, Shape
  <2>2. ProperSuffixes(n) \cap nodes = Candidates(n, Len(n) - 1)
    BY <2>1, CandidateForm
  <2>3. IsLongest(fail[n], Candidates(n, Len(n) - 1))
    BY DEF BuildInv, LinkInv
  <2>4. Candidates(n, Len(n) - 1) \subseteq Seq(Keys) /\ \A t \in Candidates(n, Len(n) - 1): IsSuffix(t, n)
    BY <2>1 DEF Candidates
  <2> QED BY <2>1, <2>2, <2>3, <2>4, LongestFound
<1> QED BY BuildStart, BuildStep, <1>1, PTL DEF Spec

\* For any list of terms, a linked node knows the least rule of the list that
\* ends in it, its own or inherited.
THEOREM MinRuleLeast == Spec => []MinRuleIsLeast
<1>1. BuildInv => MinRuleIsLeast
  <2> SUFFICES ASSUME BuildInv, NEW n \in Linked PROVE minRule[n] = Least(EndingIn(n))
    BY DEF MinRuleIsLeast
  <2>1. Shape /\ n \in Seq(Keys)
    BY LinkedInTrie DEF BuildInv, Shape
  <2>2. EndingIn(n) \subseteq Nat
    BY <2>1, EndingForm, TermForm
  <2>3. IsLeast(minRule[n], EndingIn(n))
    BY DEF BuildInv, RuleInv
  <2> QED BY <2>2, <2>3, LeastFound
<1> QED BY BuildStart, BuildStep, <1>1, PTL DEF Spec

-----------------------------------------------------------------------------
(* The scan. *)

LEMMA SeenForm ==
    ASSUME NEW t \in Seq(Chars)
    PROVE  /\ SeenIn(t, 0) = <<>> /\ SeenIn(t, Len(t)) = KeyString(t)
           /\ \A n \in 0..Len(t): SeenIn(t, n) \in Seq(Keys) /\ Len(SeenIn(t, n)) = n
           /\ \A n \in 0..(Len(t) - 1):
                 SeenIn(t, n + 1) = Append(SeenIn(t, n), FoldClass[t[n + 1]]) /\ FoldClass[t[n + 1]] \in Keys
<1>1. Len(t) \in Nat /\ KeyString(t) \in Seq(Keys) /\ Len(KeyString(t)) = Len(t)
  BY LenProperties, KeyStringForm
<1>2. ASSUME NEW n \in 0..Len(t)
      PROVE  /\ SeenIn(t, n) \in Seq(Keys) /\ Len(SeenIn(t, n)) = n
             /\ \A i \in 1..n: SeenIn(t, n)[i] = FoldClass[t[i]]
  <2> DEFINE s == SubSeq(t, 1, n)
  <2>1. s \in Seq(Chars) /\ Len(s) = n /\ \A i \in 1..n: s[i] = t[i]
    BY PrefixCut
  <2> HIDE DEF s
  <2>2. KeyString(s) \in Seq(Keys) /\ Len(KeyString(s)) = n
    BY <2>1, KeyStringForm
  <2>3. \A i \in 1..n: KeyString(s)[i] = FoldClass[t[i]]
    BY <2>1 DEF KeyString
  <2> QED BY <2>2, <2>3 DEF SeenIn, s
<1>3. SeenIn(t, 0) = <<>>
  <2>1. SeenIn(t, 0) \in Seq(Keys) /\ Len(SeenIn(t, 0)) = 0
    BY <1>1, <1>2
  <2> QED BY <2>1, EmptySeq
<1>4. SeenIn(t, Len(t)) = KeyString(t)
  BY SubSeqFull DEF SeenIn
<1>5. ASSUME NEW n \in 0..(Len(t) - 1)
      PROVE  SeenIn(t, n + 1) = Append(SeenIn(t, n), FoldClass[t[n + 1]]) /\ FoldClass[t[n + 1]] \in Keys
  <2> DEFINE a == SeenIn(t, n)
             b == SeenIn(t, n + 1)
             k == FoldClass[t[n + 1]]
  <2>1. n \in 0..Len(t) /\ n + 1 \in 0..Len(t) /\ n + 1 \in 1..Len(t)
    BY <1>1
  <2>2. a \in Seq(Keys) /\ Len(a) = n /\ \A i \in 1..n: a[i] = FoldClass[t[i]]
    BY <1>2, <2>1
  <2>3. b \in Seq(Keys) /\ Len(b) = n + 1 /\ \A i \in 1..(n + 1): b[i] = FoldClass[t[i]]
    BY <1>2, <2>1
  <2>4. k \in Keys
    BY <2>1, ElementOfSeq DEF Keys
  <2> HIDE DEF a, b
  <2>5. /\ Append(a, k) \in Seq(Keys) /\ Len(Append(a, k)) = n + 1
        /\ \A i \in 1..n: Append(a, k)[i] = a[i]
        /\ Append(a, k)[n + 1] = k
    BY <2>2, <2>4, AppendProperties
  <2>6. \A i \in 1..(n + 1): i \in 1..n \/ i = n + 1
    BY <2>1
  <2>7. \A i \in 1..(n + 1): b[i] = Append(a, k)[i]
    BY <2>2, <2>3, <2>5, <2>6
  <2>8. b = Append(a, k)
    BY <2>3, <2>5, <2>7, SeqEqual
  <2> QED BY <2>4, <2>8 DEF a, b
<1> QED BY <1>2, <1>3, <1>4, <1>5

\* What occurs in a longer text occurred before or ends at its last key.
LEMMA OccurringGrows ==
    ASSUME NEW S, NEW s \in Seq(S), NEW k \in S
    PROVE  OccurringIn(Append(s, k)) = OccurringIn(s) \cup EndingIn(Append(s, k))
<1> DEFINE v == Append(s, k)
<1>1. /\ Len(s) \in Nat /\ v \in Seq(S) /\ Len(v) = Len(s) + 1
      /\ \A i \in 1..Len(s): v[i] = s[i]
  BY LenProperties, AppendProperties
<1> HIDE DEF v
<1>2. ASSUME NEW n \in 0..Len(s) PROVE SubSeq(v, 1, n) = SubSeq(s, 1, n)
  <2>1. n \in 0..Len(v) /\ \A i \in 1..n: v[i] = s[i]
    BY <1>1
  <2> DEFINE a == SubSeq(v, 1, n)
             b == SubSeq(s, 1, n)
  <2>2. a \in Seq(S) /\ Len(a) = n /\ \A i \in 1..n: a[i] = v[i]
    BY <1>1, <2>1, PrefixCut
  <2>3. b \in Seq(S) /\ Len(b) = n /\ \A i \in 1..n: b[i] = s[i]
    BY PrefixCut
  <2> HIDE DEF a, b
  <2>4. a = b
    BY <2>1, <2>2, <2>3, SeqEqual
  <2> QED BY <2>4 DEF a, b
<1>3. SubSeq(v, 1, Len(s) + 1) = v
  BY <1>1, SubSeqFull
<1>4. \A n: n \in 0..(Len(s) + 1) <=> n \in 0..Len(s) \/ n = Len(s) + 1
  BY <1>1
<1>5. Prefixes(v) = Prefixes(s) \cup {v}
  BY <1>1, <1>2, <1>3, <1>4 DEF Prefixes
<1> QED BY <1>5 DEF OccurringIn, v

LEMMA OccurringForm ==
    ASSUME Shape, NEW s \in Seq(Keys)
    PROVE  \A r \in OccurringIn(s): r \in Nat /\ r # NoRule /\ FirstRule <= r
<1> SUFFICES ASSUME NEW r \in OccurringIn(s) PROVE r \in Nat /\ r # NoRule /\ FirstRule <= r
  OBVIOUS
<1>1. PICK p \in Prefixes(s): r \in EndingIn(p)
  BY DEF OccurringIn
<1>2. p \in Seq(Keys)
  BY PrefixForm
<1>3. r \in RuleNumbers
  BY <1>1, <1>2, EndingForm
<1> QED BY <1>3, TermForm

LEMMA SeenOccurs ==
    ASSUME NEW t \in Seq(Chars), NEW n \in 0..Len(t)
    PROVE  EndingIn(SeenIn(t, n)) \subseteq OccurringIn(KeyString(t))
<1> DEFINE v == KeyString(t)
           a == SeenIn(t, n)
           b == SubSeq(v, 1, n)
<1>1. v \in Seq(Keys) /\ Len(v) = Len(t) /\ Len(t) \in Nat
  BY KeyStringForm, LenProperties
<1>2. b \in Seq(Keys) /\ Len(b) = n /\ \A i \in 1..n: b[i] = v[i]
  BY <1>1, PrefixCut
<1>3. a \in Seq(Keys) /\ Len(a) = n /\ \A i \in 1..n: a[i] = v[i]
  <2> DEFINE s == SubSeq(t, 1, n)
  <2>1. s \in Seq(Chars) /\ Len(s) = n /\ \A i \in 1..n: s[i] = t[i]
    BY PrefixCut
  <2> HIDE DEF s
  <2>2. \A i \in 1..n: KeyString(s)[i] = FoldClass[t[i]] /\ KeyString(t)[i] = FoldClass[t[i]]
    BY <1>1, <2>1 DEF KeyString
  <2>3. KeyString(s) \in Seq(Keys) /\ Len(KeyString(s)) = n
    BY <2>1, KeyStringForm
  <2> QED BY <2>2, <2>3 DEF SeenIn, s
<1>4. b \in Prefixes(v)
  BY <1>1 DEF Prefixes
<1> HIDE DEF v, a, b
<1>5. a = b
  BY <1>2, <1>3, SeqEqual
<1>6. EndingIn(a) \subseteq OccurringIn(v)
  BY <1>4, <1>5 DEF OccurringIn
<1> QED BY <1>6 DEF a, v

LEMMA ScanInvStart == Init => ScanInv
BY DEF Init, ScanInv

\* Nothing is consumed before the scan.
LEMMA ScanInvBefore ==
    /\ IInv
    /\ Insert \/ StartQueue \/ QueueRoot \/ RootsQueued \/ Expand \/ NextHead \/ PickChild \/ Walk \/ SetLink
    => ScanInv'
<1> SUFFICES ASSUME IInv,
                    Insert \/ StartQueue \/ QueueRoot \/ RootsQueued \/ Expand
                           \/ NextHead \/ PickChild \/ Walk \/ SetLink
             PROVE  ScanInv'
  OBVIOUS
<1>1. pc \notin {"scan", "done"} /\ pc' \notin {"scan", "done"} /\ UNCHANGED scan
  BY DEF Insert, StartQueue, QueueRoot, RootsQueued, Expand, NextHead, PickChild, Walk, SetLink
<1> QED BY <1>1 DEF IInv, ScanInv, scan

LEMMA StartScanInv == IInv /\ StartScan => ScanInv'
<1> SUFFICES ASSUME IInv, StartScan PROVE ScanInv'
  OBVIOUS
<1>1. /\ Shape /\ Shape' /\ pc' = "scan" /\ pos' = 0 /\ state' = Root /\ best' = NoRule
      /\ UNCHANGED <<rules, nodes>>
  BY ScanShape DEF IInv, BuildInv, Shape, ScanInv, StartScan, build
<1>2. Seen(pos)' = <<>>
  BY <1>1, SeenForm DEF Seen, Shape
<1>3. Root \in nodes /\ Len(Root) = 0 /\ \A n \in nodes: Len(n) <= 0 => n = Root
  <2>1. \A n \in nodes: Len(n) \in Nat /\ (n # Root <=> Len(n) >= 1)
    BY <1>1, NodeLength
  <2> QED BY <1>1, <2>1, EmptySeq DEF Shape, Root
<1>4. Candidates(<<>>, 0) = {Root}
  <2>1. IsSuffix(Root, <<>>)
    BY EmptySeq, SuffixReflexive DEF Root
  <2> QED BY <1>3, <2>1 DEF Candidates
<1>5. OccurringIn(<<>>) = {}
  <2>1. Prefixes(<<>>) = {Root}
    <3>1. Len(<<>>) = 0 /\ 0..0 = {0}
      BY EmptySeq
    <3>2. SubSeq(<<>>, 1, 0) = <<>>
      BY SubSeqEmpty
    <3> QED BY <3>1, <3>2 DEF Prefixes, Root
  <2>2. EndingIn(Root) = {}
    BY <1>1, NothingEndsInRoot
  <2> QED BY <2>1, <2>2 DEF OccurringIn
<1>6. (Candidates(Seen(pos), pos))' = {Root} /\ (OccurringIn(Seen(pos)))' = {}
  <2>1. (Candidates(Seen(pos), pos))' = Candidates(<<>>, 0)
    BY <1>1, <1>2 DEF Candidates
  <2>2. (OccurringIn(Seen(pos)))' = OccurringIn(<<>>)
    BY <1>1, <1>2 DEF OccurringIn, EndingIn, TermOf, RuleNumbers
  <2> QED BY <1>4, <1>5, <2>1, <2>2
<1> QED BY <1>1, <1>3, <1>6 DEF ScanInv, IsLeast

LEMMA FallBackInv == IInv /\ FallBack => ScanInv'
<1> SUFFICES ASSUME IInv, FallBack PROVE ScanInv'
  OBVIOUS
<1> DEFINE s == Seen(pos)
<1>1. /\ Shape /\ pc = "scan" /\ pc' = "scan" /\ state' = fail[state] /\ pos # Len(text)
      /\ ~HasTransition(state, NextKey) /\ state # Root
      /\ UNCHANGED <<build, text, pos, best>>
  <2>1. pos # Len(text)
    BY LenProperties DEF IInv, BuildInv, Shape, FallBack
  <2> QED BY <2>1 DEF IInv, BuildInv, FallBack, ShorterState
<1>2. s \in Seq(Keys) /\ Len(s) = pos /\ pos \in Nat
  BY <1>1, SeenForm DEF Seen, Shape
<1>3. /\ state \in nodes /\ state \in Seq(Keys) /\ Len(state) \in Nat /\ IsSuffix(state, s) /\ Len(state) <= pos
      /\ \A n \in Candidates(s, pos): HasTransition(n, NextKey) => Len(n) <= Len(state)
  <2>1. state \in nodes
    BY <1>1 DEF Shape
  <2> QED BY <1>1, <2>1, NodeLength DEF IInv, ScanInv, Candidates
<1>4. IsLongest(fail[state], Candidates(state, Len(state) - 1))
  BY <1>1, <1>3 DEF IInv, BuildInv, QueueInv, LinkInv
<1> HIDE DEF s
<1>5. fail[state] \in Candidates(s, pos)
  <2>1. fail[state] \in nodes /\ IsSuffix(fail[state], state) /\ Len(fail[state]) <= Len(state) - 1
    BY <1>4 DEF IsLongest, Candidates
  <2>2. fail[state] \in Seq(Keys) /\ Len(fail[state]) \in Nat
    BY <1>1, <2>1, NodeLength
  <2>3. IsSuffix(fail[state], s)
    BY <1>2, <1>3, <2>1, <2>2, SuffixTransitive
  <2>4. Len(fail[state]) <= pos
    BY <1>2, <1>3, <2>1, <2>2
  <2> QED BY <2>1, <2>3, <2>4 DEF Candidates
<1>6. ASSUME NEW n \in Candidates(s, pos), HasTransition(n, NextKey)
      PROVE  Len(n) <= Len(fail[state])
  <2>1. n \in nodes /\ n \in Seq(Keys) /\ Len(n) \in Nat /\ IsSuffix(n, s)
    BY <1>1, NodeLength DEF Candidates
  <2>2. Len(n) <= Len(state) /\ n # state
    BY <1>1, <1>3, <1>6
  <2>3. Len(n) # Len(state)
    BY <1>2, <1>3, <2>1, <2>2, SuffixByLength
  <2>4. IsSuffix(n, state)
    BY <1>2, <1>3, <2>1, <2>2, SuffixesNest
  <2>5. Len(n) <= Len(state) - 1
    BY <1>3, <2>1, <2>2, <2>3
  <2>6. n \in Candidates(state, Len(state) - 1)
    BY <2>1, <2>4, <2>5 DEF Candidates
  <2> QED BY <1>4, <2>6 DEF IsLongest
<1>7. UNCHANGED <<rules, nodes, text, pos, best>>
  BY <1>1 DEF build
<1>8. /\ (Candidates(Seen(pos), pos))' = Candidates(s, pos) /\ (OccurringIn(Seen(pos)))' = OccurringIn(s)
      /\ NextKey' = NextKey /\ \A n, k: HasTransition(n, k)' <=> HasTransition(n, k)
  BY <1>7 DEF s, Seen, Candidates, OccurringIn, EndingIn, TermOf, RuleNumbers, NextKey, HasTransition
<1>9. IsLeast(best, OccurringIn(s))
  BY <1>1 DEF IInv, ScanInv, s
<1> QED BY <1>1, <1>5, <1>6, <1>7, <1>8, <1>9 DEF ScanInv

\* The node after the next key is the longest that ends what is now consumed, so
\* its rule is the least that ends there; an early end is on the least of all.
LEMMA ConsumeInv == IInv /\ Consume => ScanInv'
<1> SUFFICES ASSUME IInv, Consume PROVE ScanInv'
  OBVIOUS
<1>1. /\ Shape /\ pc = "scan" /\ pos' = pos + 1 /\ pos + 1 \in 0..Len(text) /\ pos + 1 \in Nat
      /\ pos \in 0..(Len(text) - 1) /\ pos \in 0..Len(text) /\ text \in Seq(Chars)
      /\ UNCHANGED <<rules, nodes, text>>
  <2>1. Shape /\ text \in Seq(Chars) /\ pos \in 0..Len(text)
    BY DEF IInv, BuildInv, Shape
  <2>2. pc = "scan" /\ pos < Len(text) /\ pos' = pos + 1 /\ UNCHANGED <<rules, nodes, text>>
    BY DEF Consume, build
  <2>3. Len(text) \in Nat
    BY <2>1, LenProperties
  <2> QED BY <2>1, <2>2, <2>3
<1> PICK s, t, key, g: s = SeenIn(text, pos) /\ t = SeenIn(text, pos + 1) /\ key = NextKey /\ g = state'
  OBVIOUS
<1>2. /\ g = IF HasTransition(state, key) THEN Append(state, key) ELSE state
      /\ HasTransition(state, key) \/ state = Root
      /\ best' = IF minRule[g] = NoRule THEN best ELSE KeepMin(best, minRule[g])
      /\ pc' = IF ReturnsNow(minRule[g]) THEN "done" ELSE "scan"
  BY DEF Consume
<1>3. /\ s \in Seq(Keys) /\ Len(s) = pos /\ pos \in Nat
      /\ t = Append(s, key) /\ key \in Keys /\ t \in Seq(Keys) /\ Len(t) = pos + 1
  BY <1>1, SeenForm DEF NextKey
<1>4. /\ state \in Candidates(s, pos)
      /\ \A n \in Candidates(s, pos): HasTransition(n, key) => Len(n) <= Len(state)
      /\ IsLeast(best, OccurringIn(s))
  BY <1>1 DEF IInv, ScanInv, Seen
<1>5. IsLongest(g, Candidates(t, pos + 1))
  <2>1. nodes \subseteq Seq(Keys) /\ PrefixClosed(nodes) /\ Root \in nodes
    BY <1>1 DEF Shape
  <2> QED BY <1>2, <1>3, <1>4, <2>1, NextIsLongest
<1>6. /\ \A r \in RuleNumbers: TermOf(r) \in nodes
      /\ \A n \in Linked \cup {Root}: IsLeast(minRule[n], EndingIn(n))
  BY <1>1, AllTermsIn DEF IInv, BuildInv
<1>7. EndingIn(g) = EndingIn(t)
  <2>1. EndingIn(g) = {r \in EndingIn(t): Len(TermOf(r)) <= pos + 1}
    BY <1>1, <1>3, <1>5, <1>6, EndingOfLongest
  <2>2. \A r \in EndingIn(t): Len(TermOf(r)) <= pos + 1
    BY <1>1, <1>3, EndingForm DEF IsSuffix
  <2> QED BY <2>1, <2>2
<1>8. IsLeast(minRule[g], EndingIn(t))
  <2>1. g \in Linked \cup {Root}
    BY <1>1, <1>5 DEF IInv, BuildInv, QueueInv, IsLongest, Candidates
  <2> QED BY <1>6, <1>7, <2>1
<1>9. OccurringIn(t) = OccurringIn(s) \cup EndingIn(t)
  <2>1. s \in Seq(Keys) /\ key \in Keys /\ t = Append(s, key)
    BY <1>3
  <2>2. OccurringIn(Append(s, key)) = OccurringIn(s) \cup EndingIn(Append(s, key))
    BY <2>1, OccurringGrows
  <2> QED BY <2>1, <2>2
<1>10. \A r \in OccurringIn(t): r \in Nat /\ r # NoRule /\ FirstRule <= r
  BY <1>1, <1>3, OccurringForm
<1>11. IsLeast(best', OccurringIn(t))
  <2>1. \A r \in OccurringIn(s) \cup EndingIn(t): r \in Nat /\ r # NoRule
    BY <1>9, <1>10
  <2>2. IsLeast(IF minRule[g] = NoRule THEN best ELSE KeepMin(best, minRule[g]),
                OccurringIn(s) \cup EndingIn(t))
    BY <1>4, <1>8, <2>1, LeastOfUnion
  <2> QED BY <1>2, <1>9, <2>2
<1>12. /\ (OccurringIn(KeyString(text)))' = OccurringIn(KeyString(text))
       /\ (Candidates(Seen(pos), pos))' = Candidates(t, pos + 1)
       /\ (OccurringIn(Seen(pos)))' = OccurringIn(t)
  <2>1. (Seen(pos))' = t /\ (KeyString(text))' = KeyString(text)
    BY <1>1 DEF Seen, SeenIn, KeyString
  <2>2. (OccurringIn(KeyString(text)))' = OccurringIn(KeyString(text)) /\ (OccurringIn(Seen(pos)))' = OccurringIn(t)
    BY <1>1, <2>1 DEF OccurringIn, EndingIn, TermOf, RuleNumbers
  <2>3. (Candidates(Seen(pos), pos))' = Candidates(t, pos + 1)
    BY <1>1, <2>1 DEF Candidates
  <2> QED BY <2>2, <2>3
<1>13. CASE ~ReturnsNow(minRule[g])
  BY <1>2, <1>5, <1>11, <1>12, <1>13 DEF ScanInv, IsLongest
<1>14. CASE ReturnsNow(minRule[g])
  <2>1. minRule[g] = FirstRule /\ FirstRule # NoRule /\ FirstRule \in Nat
    BY <1>14, MatcherAssumption DEF ReturnsNow, NoRule
  <2>2. FirstRule \in EndingIn(t)
    BY <1>8, <2>1 DEF IsLeast
  <2>3. best' = FirstRule
    <3>1. best' \in OccurringIn(t) /\ best' <= FirstRule
      BY <1>9, <1>11, <2>2 DEF IsLeast
    <3>2. best' \in Nat /\ FirstRule <= best'
      BY <1>10, <3>1
    <3> QED BY <2>1, <3>1, <3>2
  <2>4. FirstRule \in OccurringIn(KeyString(text))
    BY <1>1, <2>2, SeenOccurs
  <2>5. \A r \in OccurringIn(KeyString(text)): FirstRule <= r
    BY <1>1, KeyStringForm, OccurringForm
  <2>6. IsLeast(best', OccurringIn(KeyString(text)))
    BY <2>3, <2>4, <2>5 DEF IsLeast
  <2> QED BY <1>2, <1>12, <1>14, <2>6 DEF ScanInv
<1> QED BY <1>13, <1>14

LEMMA ScanEndInv == IInv /\ ScanEnd => ScanInv'
<1> SUFFICES ASSUME IInv, ScanEnd PROVE ScanInv'
  OBVIOUS
<1>1. Shape /\ pc = "scan" /\ pc' = "done" /\ pos = Len(text) /\ UNCHANGED <<rules, text, best>>
  BY DEF IInv, BuildInv, ScanEnd, build, scan
<1>2. IsLeast(best, OccurringIn(KeyString(text)))
  BY <1>1, SeenForm DEF IInv, ScanInv, Seen, Shape
<1>3. (OccurringIn(KeyString(text)))' = OccurringIn(KeyString(text))
  BY <1>1 DEF KeyString, OccurringIn, EndingIn, TermOf, RuleNumbers
<1> QED BY <1>1, <1>2, <1>3 DEF ScanInv

LEMMA IInvStep == IInv /\ [Next]_vars => IInv'
<1> SUFFICES ASSUME IInv, [Next]_vars PROVE IInv'
  OBVIOUS
<1>1. BuildInv'
  BY BuildStep DEF IInv
<1>2. ScanInv'
  <2>1. CASE UNCHANGED vars
    <3>1. UNCHANGED <<rules, nodes, text, pos, state, best, pc>>
      BY <2>1 DEF vars, build, scan
    <3>2. (Seen(pos))' = Seen(pos) /\ (KeyString(text))' = KeyString(text)
      BY <3>1 DEF Seen, SeenIn, KeyString
    <3>3. /\ (OccurringIn(KeyString(text)))' = OccurringIn(KeyString(text))
          /\ (OccurringIn(Seen(pos)))' = OccurringIn(Seen(pos))
      BY <3>1, <3>2 DEF OccurringIn, EndingIn, TermOf, RuleNumbers
    <3>4. /\ (Candidates(Seen(pos), pos))' = Candidates(Seen(pos), pos)
          /\ NextKey' = NextKey /\ \A n, k: HasTransition(n, k)' <=> HasTransition(n, k)
      BY <3>1, <3>2 DEF Candidates, NextKey, HasTransition
    <3> QED BY <3>1, <3>3, <3>4 DEF IInv, ScanInv
  <2> QED BY <2>1, ScanInvBefore, StartScanInv, FallBackInv, ConsumeInv, ScanEndInv DEF Next
<1> QED BY <1>1, <1>2 DEF IInv

\* For any list of terms and any text, the scan stands at a suffix of what it has
\* consumed and has fallen back past no longer node that takes the next key.
THEOREM ScanLongest == Spec => []ScanIsLongest
<1>1. Init => IInv
  BY BuildStart, ScanInvStart DEF IInv
<1>2. IInv => ScanIsLongest
  <2> SUFFICES ASSUME IInv, pc = "scan" PROVE ScanIsLongest
    BY DEF ScanIsLongest
  <2> DEFINE s == KeyString(SubSeq(text, 1, pos))
  <2>1. s = Seen(pos) /\ s \in Seq(Keys) /\ Len(s) = pos /\ nodes \subseteq Seq(Keys)
    BY SeenForm DEF IInv, BuildInv, Shape, Seen, SeenIn
  <2>2. /\ state \in Candidates(s, pos)
        /\ \A n \in Candidates(s, pos):
              pos = Len(text) \/ HasTransition(n, NextKey) => Len(n) <= Len(state)
    BY <2>1 DEF IInv, ScanInv
  <2> HIDE DEF s
  <2>3. Suffixes(s) \cap nodes = Candidates(s, pos)
    BY <2>1, CandidateForm
  <2>4. /\ state \in Suffixes(s)
        /\ \A n \in Suffixes(s) \cap nodes:
              pos = Len(text) \/ HasTransition(n, NextKey) => Len(n) <= Len(state)
    BY <2>2, <2>3
  <2> QED BY <2>4 DEF ScanIsLongest, s
<1> QED BY IInvStep, <1>1, <1>2, PTL DEF Spec

\* For any list of terms and any text, the scan returns the least rule whose term
\* occurs in the text, and none only if none occurs.
THEOREM MatchLeast == Spec => []MatchIsLeast
<1>1. Init => IInv
  BY BuildStart, ScanInvStart DEF IInv
<1>2. IInv => MatchIsLeast
  <2> SUFFICES ASSUME IInv, pc = "done" PROVE best = Least(OccurringIn(KeyString(text)))
    BY DEF MatchIsLeast
  <2>1. Shape /\ KeyString(text) \in Seq(Keys)
    BY KeyStringForm DEF IInv, BuildInv, Shape
  <2>2. OccurringIn(KeyString(text)) \subseteq Nat
    BY <2>1, OccurringForm
  <2>3. IsLeast(best, OccurringIn(KeyString(text)))
    BY DEF IInv, ScanInv
  <2> QED BY <2>2, <2>3, LeastFound
<1> QED BY IInvStep, <1>1, <1>2, PTL DEF Spec
=============================================================================
