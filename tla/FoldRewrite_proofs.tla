------------------------- MODULE FoldRewrite_proofs -------------------------
(***************************************************************************)
(* Proofs for every term and every text: the failure table and the         *)
(* positions of both searches stay in their ranges, so no index of the     *)
(* pattern or of the text leaves it; the table holds the longest borders;  *)
(* the search with the table misses no occurrence; and both searches do    *)
(* what LeftmostRewrite says.                                              *)
(***************************************************************************)
EXTENDS FoldRewrite, TLAPS

\* While the table is built, the candidate border is shorter than the prefix
\* before the one whose entry is next; TypeOK alone is not inductive there.
CandidateShorter == prefix <= i - 2

RangeInv == TypeOK /\ CandidateShorter

\* What every step leaves to the lemmas below: the inputs do not change.
InputsTyped == pattern \in Seq(Chars) \ {<<>>} /\ text \in Seq(Chars) /\ obfuscate \in BOOLEAN

\* The initial state is in range.
LEMMA RangeStart == Init => RangeInv
<1> SUFFICES ASSUME Init PROVE RangeInv
  OBVIOUS
<1>1. InputsTyped
  BY FoldRewriteAssumption DEF Init, InputsTyped
<1>2. Len(pattern) \in Nat \ {0} /\ Len(text) \in Nat
  BY <1>1 DEF InputsTyped
<1>3. /\ failure = [k \in 1..Len(pattern) |-> 0]
      /\ i = 2 /\ prefix = 0 /\ scan = 0 /\ state = 0 /\ written = 0 /\ pc = "compile"
  BY DEF Init
<1> QED BY <1>1, <1>2, <1>3 DEF RangeInv, TypeOK, CandidateShorter, InputsTyped

\* A step of the table construction.
LEMMA TableInRange == RangeInv /\ (TableFallBack \/ TableStep) => RangeInv'
<1> SUFFICES ASSUME RangeInv, TableFallBack \/ TableStep PROVE RangeInv'
  OBVIOUS
<1>1. /\ UNCHANGED <<pattern, text, obfuscate, scan, state, written, pc>>
      /\ i <= Len(pattern)
  BY DEF TableFallBack, TableStep, input, search
<1>2. /\ Len(pattern) \in Nat \ {0} /\ i \in 2..(Len(pattern) + 2)
      /\ prefix \in 0..(Len(pattern) - 1) /\ prefix <= i - 2
      /\ failure \in [1..Len(pattern) -> Nat]
      /\ \A k \in 1..Len(pattern): failure[k] < k
  BY DEF RangeInv, TypeOK, CandidateShorter
<1>3. CASE TableFallBack
  <2>1. prefix' = failure[prefix] /\ prefix \in 1..Len(pattern) /\ UNCHANGED <<failure, i>>
    BY <1>2, <1>3 DEF TableFallBack, NextBorder
  <2>2. prefix' \in 0..(Len(pattern) - 1) /\ prefix' <= i - 2
    BY <1>2, <2>1
  <2> QED BY <1>1, <1>2, <2>1, <2>2 DEF RangeInv, TypeOK, CandidateShorter
<1>4. CASE TableStep
  <2>1. PICK border \in {prefix, prefix + 1}:
           prefix' = border /\ failure' = [failure EXCEPT ![i] = border] /\ i' = i + 1
    BY <1>4 DEF TableStep
  <2>2. border \in Nat /\ border < i /\ border <= i' - 2 /\ border <= Len(pattern) - 1
    BY <1>1, <1>2, <2>1
  <2>3. /\ failure' \in [1..Len(pattern) -> Nat]
        /\ \A k \in 1..Len(pattern): failure'[k] < k
    BY <1>1, <1>2, <2>1, <2>2
  <2> QED BY <1>1, <1>2, <2>1, <2>2, <2>3 DEF RangeInv, TypeOK, CandidateShorter
<1> QED BY <1>3, <1>4

\* A step of the table-driven search.
LEMMA KmpInRange == RangeInv /\ (KmpFallBack \/ KmpStep) => RangeInv'
<1> SUFFICES ASSUME RangeInv, KmpFallBack \/ KmpStep PROVE RangeInv'
  OBVIOUS
<1>1. UNCHANGED <<pattern, failure, i, prefix, text, obfuscate, pc>> /\ scan < Len(text)
  BY DEF KmpFallBack, KmpStep, table, input
<1>2. /\ Len(pattern) \in Nat \ {0} /\ Len(text) \in Nat
      /\ scan \in 0..Len(text) /\ written \in 0..scan /\ state \in 0..(Len(pattern) - 1)
      /\ failure \in [1..Len(pattern) -> Nat]
      /\ \A k \in 1..Len(pattern): failure[k] < k
  BY DEF RangeInv, TypeOK
<1>3. CASE KmpFallBack
  <2>1. state' = failure[state] /\ state \in 1..Len(pattern) /\ UNCHANGED <<scan, written>>
    BY <1>2, <1>3 DEF KmpFallBack, ShorterState
  <2>2. state' \in 0..(Len(pattern) - 1)
    BY <1>2, <2>1
  <2> QED BY <1>1, <1>2, <2>1, <2>2 DEF RangeInv, TypeOK, CandidateShorter
<1>4. CASE KmpStep
  <2>1. PICK reached \in {state, state + 1}:
           IF reached = Len(pattern) THEN written' = scan + 1 /\ state' = 0
           ELSE state' = reached /\ UNCHANGED written
    BY <1>4 DEF KmpStep, StateAfterMatch
  <2>2. scan' = scan + 1
    BY <1>4 DEF KmpStep
  <2>3. scan' \in 0..Len(text) /\ written' \in 0..scan' /\ state' \in 0..(Len(pattern) - 1)
    BY <1>1, <1>2, <2>1, <2>2
  <2> QED BY <1>1, <1>2, <2>3 DEF RangeInv, TypeOK, CandidateShorter
<1> QED BY <1>3, <1>4

\* A step of the plain search, or the end of either search.
LEMMA NaiveInRange ==
    RangeInv /\ (Dispatch \/ NaiveSkip \/ NaiveMatch \/ Finish) => RangeInv'
<1> SUFFICES ASSUME RangeInv, Dispatch \/ NaiveSkip \/ NaiveMatch \/ Finish PROVE RangeInv'
  OBVIOUS
<1>1. UNCHANGED <<pattern, failure, i, prefix, text, obfuscate, state>>
  BY DEF Dispatch, NaiveSkip, NaiveMatch, Finish, table, input, search
<1>2. /\ Len(pattern) \in Nat \ {0} /\ Len(text) \in Nat
      /\ scan \in 0..Len(text) /\ written \in 0..scan
  BY DEF RangeInv, TypeOK
<1>3. scan' \in 0..Len(text) /\ written' \in 0..scan'
  <2>1. CASE NaiveSkip
    BY <1>2, <2>1 DEF NaiveSkip
  <2>2. CASE NaiveMatch
    BY <1>2, <2>2 DEF NaiveMatch, TermAt
  <2>3. CASE Dispatch \/ Finish
    BY <1>2, <2>3 DEF Dispatch, Finish, search
  <2> QED BY <2>1, <2>2, <2>3
<1>4. pc' \in {"compile", "kmp", "naive", "done"}
  BY DEF Dispatch, NaiveSkip, NaiveMatch, Finish, RangeInv, TypeOK
<1> QED BY <1>1, <1>2, <1>3, <1>4 DEF RangeInv, TypeOK, CandidateShorter

LEMMA RangeStep == RangeInv /\ [Next]_vars => RangeInv'
<1> SUFFICES ASSUME RangeInv, [Next]_vars PROVE RangeInv'
  OBVIOUS
<1>1. CASE UNCHANGED vars
  BY <1>1 DEF vars, table, input, search, RangeInv, TypeOK, CandidateShorter
<1> QED BY <1>1, TableInRange, KmpInRange, NaiveInRange DEF Next

\* For every term and text, the entries of the failure table are proper, the
\* search state stays below the length of the term, which the code uses as an
\* index without a test, and what is written never overtakes what is read.
THEOREM IndexesInRange == Spec => []TypeOK
<1>1. RangeInv => TypeOK
  BY DEF RangeInv
<1> QED BY RangeStart, RangeStep, <1>1, PTL DEF Spec

-----------------------------------------------------------------------------
(* The failure table. *)

\* The candidate is a border of the prefix before the one whose entry is next,
\* and no longer border of it can be extended by the next character.
CandidateLongest ==
    i <= Len(pattern) =>
        /\ Border(prefix, i - 1)
        /\ \A b \in (prefix + 1)..(i - 2): Border(b, i - 1) => pattern[b + 1] # pattern[i]

\* A search runs on a complete table and starts at the beginning.
Phases ==
    /\ pc # "compile" => i > Len(pattern)
    /\ pc = "compile" => scan = 0 /\ written = 0 /\ state = 0 /\ out = <<>>

TableInv == RangeInv /\ FailureIsLongest /\ CandidateLongest /\ Phases

\* A border of a border is a border.
LEMMA BorderOfBorder ==
    ASSUME NEW k \in Nat, NEW b \in 0..k, NEW a \in 0..b, Border(b, k), Border(a, b)
    PROVE  Border(a, k)
<1> SUFFICES ASSUME NEW x \in 1..a PROVE pattern[x] = pattern[k - a + x]
  BY DEF Border
<1>1. pattern[x] = pattern[b - a + x]
  BY DEF Border
<1>2. b - a + x \in 1..b /\ k - b + (b - a + x) = k - a + x
  OBVIOUS
<1>3. pattern[b - a + x] = pattern[k - b + (b - a + x)]
  BY <1>2 DEF Border
<1> QED BY <1>1, <1>2, <1>3

\* The shorter of two borders is a border of the longer.
LEMMA BordersNest ==
    ASSUME NEW k \in Nat, NEW b \in 0..k, NEW a \in 0..b, Border(b, k), Border(a, k)
    PROVE  Border(a, b)
<1> SUFFICES ASSUME NEW x \in 1..a PROVE pattern[x] = pattern[b - a + x]
  BY DEF Border
<1>1. pattern[x] = pattern[k - a + x]
  BY DEF Border
<1>2. b - a + x \in 1..b /\ k - b + (b - a + x) = k - a + x
  OBVIOUS
<1>3. pattern[b - a + x] = pattern[k - b + (b - a + x)]
  BY <1>2 DEF Border
<1> QED BY <1>1, <1>2, <1>3

\* A border grows by a character that follows it on both sides, and only so.
LEMMA BorderGrows ==
    ASSUME NEW k \in Nat \ {0}, NEW b \in 1..k
    PROVE  Border(b, k) <=> Border(b - 1, k - 1) /\ pattern[b] = pattern[k]
<1>1. \A x \in Nat: (k - 1) - (b - 1) + x = k - b + x
  OBVIOUS
<1>2. k - b + b = k /\ 1..b = 1..(b - 1) \cup {b}
  OBVIOUS
<1> QED BY <1>1, <1>2 DEF Border

\* What the table lemmas use of the ranges.
LEMMA TableRanges ==
    ASSUME RangeInv
    PROVE  /\ Len(pattern) \in Nat \ {0} /\ i \in Nat /\ i >= 2 /\ i <= Len(pattern) + 2
           /\ prefix \in 0..(i - 2)
           /\ failure \in [1..Len(pattern) -> Nat]
           /\ \A k \in 1..Len(pattern): failure[k] \in 0..(k - 1)
<1>1. TypeOK /\ prefix <= i - 2
  BY DEF RangeInv, CandidateShorter
<1>2. pattern \in Seq(Chars) /\ pattern # <<>>
  BY <1>1 DEF TypeOK
<1>3. Len(pattern) \in Nat \ {0}
  BY <1>2
<1>4. i \in 2..(Len(pattern) + 2) /\ prefix \in 0..(Len(pattern) - 1)
  BY <1>1 DEF TypeOK
<1>5. i \in Nat /\ i >= 2 /\ i <= Len(pattern) + 2 /\ prefix \in 0..(i - 2)
  BY <1>1, <1>3, <1>4
<1>6. /\ failure \in [1..Len(pattern) -> Nat]
      /\ \A k \in 1..Len(pattern): failure[k] < k
  BY <1>1 DEF TypeOK
<1>7. ASSUME NEW k \in 1..Len(pattern) PROVE failure[k] \in 0..(k - 1)
  BY <1>3, <1>6
<1> QED BY <1>3, <1>5, <1>6, <1>7

\* No candidate is extended by the next character: the entry of its own candidate
\* is tried next, and nothing between the two is a border.
LEMMA FallBackIsLongest ==
    ASSUME TableInv, TableFallBack PROVE CandidateLongest'
<1>1. /\ i <= Len(pattern) /\ prefix > 0 /\ pattern[i] # pattern[prefix + 1]
      /\ prefix' = failure[prefix] /\ UNCHANGED <<pattern, failure, i>>
  BY DEF TableFallBack, NextBorder
<1>2. Len(pattern) \in Nat /\ i \in Nat /\ prefix \in 1..(i - 2)
  BY <1>1, TableRanges DEF TableInv
<1>3. PICK next \in 0..(prefix - 1): prefix' = next /\ failure[prefix] = next
  BY <1>1, <1>2, TableRanges DEF TableInv
<1>4. /\ Border(prefix, i - 1)
      /\ \A b \in (prefix + 1)..(i - 2): Border(b, i - 1) => pattern[b + 1] # pattern[i]
  BY <1>1 DEF TableInv, CandidateLongest
<1>5. Border(next, prefix) /\ \A b \in (next + 1)..(prefix - 1): ~Border(b, prefix)
  BY <1>1, <1>2, <1>3 DEF TableInv, FailureIsLongest
<1>6. Border(next, i - 1)
  BY <1>2, <1>4, <1>5, BorderOfBorder
<1>7. ASSUME NEW b \in (next + 1)..(i - 2), Border(b, i - 1)
      PROVE  pattern[b + 1] # pattern[i]
  <2>1. CASE b > prefix
    BY <1>2, <1>4, <1>7, <2>1
  <2>2. CASE b = prefix
    BY <1>1, <2>2
  <2>3. CASE b < prefix
    <3>1. Border(b, prefix)
      BY <1>2, <1>4, <1>7, <2>3, BordersNest
    <3> QED BY <1>2, <1>5, <2>3, <3>1
  <2> QED BY <1>2, <2>1, <2>2, <2>3
<1> QED BY <1>1, <1>3, <1>6, <1>7 DEF CandidateLongest, Border

\* The entry for the next prefix is found.
LEMMA EntryIsLongest ==
    ASSUME TableInv, TableStep PROVE FailureIsLongest' /\ CandidateLongest'
<1>1. /\ i <= Len(pattern) /\ i' = i + 1 /\ UNCHANGED pattern
      /\ prefix = 0 \/ pattern[i] = pattern[prefix + 1]
      /\ prefix' = IF pattern[i] = pattern[prefix + 1] THEN prefix + 1 ELSE prefix
      /\ failure' = [failure EXCEPT ![i] = prefix']
  BY DEF TableStep
<1>2. /\ Len(pattern) \in Nat /\ i \in Nat /\ i >= 2 /\ prefix \in 0..(i - 2)
      /\ failure \in [1..Len(pattern) -> Nat] /\ prefix' \in 0..(i - 1)
  <2>1. RangeInv
    BY DEF TableInv
  <2>2. /\ Len(pattern) \in Nat /\ i \in Nat /\ i >= 2 /\ prefix \in 0..(i - 2)
        /\ failure \in [1..Len(pattern) -> Nat]
    BY <2>1, TableRanges
  <2>3. prefix' = prefix + 1 \/ prefix' = prefix
    BY <1>1
  <2> QED BY <2>2, <2>3
<1>3. /\ Border(prefix, i - 1)
      /\ \A b \in (prefix + 1)..(i - 2): Border(b, i - 1) => pattern[b + 1] # pattern[i]
  BY <1>1 DEF TableInv, CandidateLongest
<1>4. Border(prefix', i)
  <2>1. CASE pattern[i] = pattern[prefix + 1]
    <3>1. prefix + 1 \in 1..i /\ (prefix + 1) - 1 = prefix
      BY <1>2
    <3> QED BY <1>1, <1>2, <1>3, <2>1, <3>1, BorderGrows
  <2>2. CASE prefix' = 0
    BY <2>2 DEF Border
  <2> QED BY <1>1, <2>1, <2>2
<1>5. \A b \in (prefix' + 1)..(i - 1): ~Border(b, i)
  <2> SUFFICES ASSUME NEW b \in (prefix' + 1)..(i - 1), Border(b, i) PROVE FALSE
    OBVIOUS
  <2>1. b \in 1..i /\ b - 1 \in 0..(i - 2) /\ b - 1 >= prefix /\ (b - 1) + 1 = b
    BY <1>1, <1>2
  <2>2. Border(b - 1, i - 1) /\ pattern[b] = pattern[i]
    BY <1>2, <2>1, BorderGrows
  <2>3. b - 1 > prefix
    BY <1>1, <1>2, <2>1, <2>2
  <2> QED BY <1>2, <1>3, <2>1, <2>2, <2>3
<1>6. FailureIsLongest'
  <2> SUFFICES ASSUME NEW k \in 1..Len(pattern), k < i'
               PROVE  /\ Border(failure'[k], k)
                      /\ \A b \in (failure'[k] + 1)..(k - 1): ~Border(b, k)
    BY <1>1 DEF FailureIsLongest, Border
  <2>1. CASE k < i
    BY <1>1, <1>2, <2>1 DEF TableInv, FailureIsLongest
  <2>2. CASE k = i
    BY <1>1, <1>2, <1>4, <1>5, <2>2
  <2> QED BY <1>1, <1>2, <2>1, <2>2
<1>7. CandidateLongest'
  <2>1. i' - 1 = i /\ i' - 2 = i - 1
    BY <1>1, <1>2
  <2>2. /\ \A x \in 1..prefix': pattern'[x] = pattern'[i - prefix' + x]
        /\ \A b \in (prefix' + 1)..(i - 1): ~\A x \in 1..b: pattern'[x] = pattern'[i - b + x]
    BY <1>1, <1>4, <1>5 DEF Border
  <2> QED BY <2>1, <2>2 DEF CandidateLongest, Border
<1> QED BY <1>6, <1>7

\* The other steps leave the table alone, and a search starts on a complete one.
LEMMA TableKept ==
    ASSUME TableInv, UNCHANGED table PROVE FailureIsLongest' /\ CandidateLongest'
BY DEF TableInv, FailureIsLongest, CandidateLongest, Border, table

LEMMA PhasesKept == TableInv /\ [Next]_vars => Phases'
<1> SUFFICES ASSUME TableInv, [Next]_vars PROVE Phases'
  OBVIOUS
<1>1. CASE TableFallBack \/ TableStep
  BY <1>1 DEF TableInv, Phases, TableFallBack, TableStep, search
<1>2. CASE Dispatch
  BY <1>2 DEF TableInv, Phases, Dispatch, table, search
<1>3. CASE KmpFallBack \/ KmpStep \/ NaiveSkip \/ NaiveMatch \/ Finish
  BY <1>3 DEF TableInv, Phases, KmpFallBack, KmpStep, NaiveSkip, NaiveMatch, Finish, table
<1>4. CASE UNCHANGED vars
  BY <1>4 DEF TableInv, Phases, vars, table, search
<1> QED BY <1>1, <1>2, <1>3, <1>4 DEF Next

LEMMA TableStart == Init => TableInv
<1> SUFFICES ASSUME Init PROVE TableInv
  OBVIOUS
<1>1. /\ failure = [k \in 1..Len(pattern) |-> 0] /\ i = 2 /\ prefix = 0
      /\ scan = 0 /\ written = 0 /\ state = 0 /\ out = <<>> /\ pc = "compile"
  BY DEF Init
<1>2. RangeInv /\ Len(pattern) \in Nat
  BY RangeStart, TableRanges
<1>3. \A k: Border(0, k)
  BY DEF Border
<1>4. FailureIsLongest
  BY <1>1, <1>2, <1>3 DEF FailureIsLongest
<1>5. CandidateLongest
  BY <1>1, <1>3 DEF CandidateLongest
<1> QED BY <1>1, <1>2, <1>4, <1>5 DEF TableInv, Phases

LEMMA TableInductive == TableInv /\ [Next]_vars => TableInv'
<1> SUFFICES ASSUME TableInv, [Next]_vars PROVE TableInv'
  OBVIOUS
<1>1. RangeInv' /\ Phases'
  BY RangeStep, PhasesKept DEF TableInv
<1>2. CASE TableFallBack
  <2>1. FailureIsLongest'
    BY <1>2 DEF TableInv, FailureIsLongest, Border, TableFallBack
  <2> QED BY <1>1, <1>2, <2>1, FallBackIsLongest DEF TableInv
<1>3. CASE TableStep
  BY <1>1, <1>3, EntryIsLongest DEF TableInv
<1>4. CASE UNCHANGED table
  BY <1>1, <1>4, TableKept DEF TableInv
<1>5. TableFallBack \/ TableStep \/ UNCHANGED table
  BY DEF Next, Dispatch, KmpFallBack, KmpStep, NaiveSkip, NaiveMatch, Finish, vars
<1> QED BY <1>2, <1>3, <1>4, <1>5

\* For every term, buildFoldFailure computes the longest proper border of each of
\* its prefixes.
THEOREM TableIsBorders == Spec => []FailureIsLongest
<1>1. TableInv => FailureIsLongest
  BY DEF TableInv
<1> QED BY TableStart, TableInductive, <1>1, PTL DEF Spec

-----------------------------------------------------------------------------
(* The searches. *)

\* No occurrence that ended behind the last rewritten one was passed.
NoneMissed ==
    /\ pc = "kmp" => \A n \in written..(scan - Len(pattern)): ~TermAt(n)
    /\ pc = "naive" => \A n \in written..(scan - 1): ~TermAt(n)

SearchInv == TableInv /\ StateIsLongest /\ NoneMissed

\* What the search lemmas use of the ranges.
LEMMA SearchRanges ==
    ASSUME TableInv
    PROVE  /\ Len(pattern) \in Nat \ {0} /\ Len(text) \in Nat
           /\ scan \in Nat /\ scan <= Len(text) /\ written \in Nat /\ written <= scan
           /\ state \in Nat /\ state < Len(pattern)
           /\ \A k \in 1..Len(pattern): failure[k] \in 0..(k - 1)
<1>1. TypeOK
  BY DEF TableInv, RangeInv
<1>2. /\ Len(pattern) \in Nat \ {0} /\ Len(text) \in Nat
      /\ failure \in [1..Len(pattern) -> Nat]
      /\ \A k \in 1..Len(pattern): failure[k] < k
  BY <1>1 DEF TypeOK
<1>3. scan \in 0..Len(text) /\ written \in 0..scan /\ state \in 0..(Len(pattern) - 1)
  BY <1>1 DEF TypeOK
<1> QED BY <1>2, <1>3

\* A part of the term that ends here and a shorter one that does: the shorter is
\* a border of the longer.
LEMMA EndsNest ==
    ASSUME NEW k \in Nat, NEW b \in 0..k, scan \in Nat, EndsHere(k)
    PROVE  EndsHere(b) <=> Border(b, k)
<1>1. \A x \in 1..b: k - b + x \in 1..k /\ scan - k + (k - b + x) = scan - b + x
  OBVIOUS
<1>2. \A x \in 1..b: FoldClass[text[scan - b + x]] = pattern[k - b + x]
  BY <1>1 DEF EndsHere
<1> QED BY <1>2 DEF EndsHere, Border

\* The first k characters of the term are the last of the first s of the text.
EndsAt(k, s) == \A x \in 1..k: FoldClass[text[s - k + x]] = pattern[x]

\* What ends behind one more character ended before it and takes the character.
LEMMA EndsGrow ==
    ASSUME NEW k \in Nat \ {0}, NEW s \in Nat
    PROVE  EndsAt(k, s + 1) <=> EndsAt(k - 1, s) /\ FoldClass[text[s + 1]] = pattern[k]
<1>1. \A x \in 1..k: (s + 1) - k + x = s - (k - 1) + x
  OBVIOUS
<1>2. s - (k - 1) + k = s + 1 /\ 1..k = 1..(k - 1) \cup {k}
  OBVIOUS
<1>3. EndsAt(k, s + 1) <=> \A x \in 1..k: FoldClass[text[s - (k - 1) + x]] = pattern[x]
  BY <1>1 DEF EndsAt
<1> QED BY <1>2, <1>3 DEF EndsAt

\* The whole term ends there exactly if it stands in the text so far back.
LEMMA EndsIsTermAt ==
    ASSUME Len(pattern) \in Nat, Len(text) \in Nat, NEW s \in 0..Len(text),
           NEW n \in Nat, n + Len(pattern) = s
    PROVE  TermAt(n) <=> EndsAt(Len(pattern), s)
<1>1. s - Len(pattern) = n
  OBVIOUS
<1> QED BY <1>1 DEF TermAt, EndsAt

\* A mismatch: the next shorter part of the term that ends here is tried.
LEMMA FallBackLosesNothing ==
    ASSUME SearchInv, KmpFallBack PROVE StateIsLongest'
<1>1. /\ pc = "kmp" /\ scan < Len(text) /\ state > 0 /\ NextKey # pattern[state + 1]
      /\ state' = failure[state] /\ UNCHANGED <<pattern, text, scan, written, pc>>
  BY DEF KmpFallBack, ShorterState, table, input
<1>2. /\ Len(pattern) \in Nat /\ scan \in Nat /\ written \in Nat /\ written <= scan
      /\ state \in 1..(Len(pattern) - 1)
  BY <1>1, SearchRanges DEF SearchInv
<1>3. PICK next \in 0..(state - 1): state' = next /\ failure[state] = next
  BY <1>1, <1>2, SearchRanges DEF SearchInv
<1>4. /\ state <= scan - written /\ EndsHere(state)
      /\ \A k \in (state + 1)..(Len(pattern) - 1):
            k <= scan - written /\ EndsHere(k) => NextKey # pattern[k + 1]
  BY <1>1 DEF SearchInv, StateIsLongest
<1>5. i > Len(pattern) /\ i \in Nat
  BY <1>1, TableRanges DEF SearchInv, TableInv, Phases
<1>6. Border(next, state) /\ \A b \in (next + 1)..(state - 1): ~Border(b, state)
  BY <1>2, <1>3, <1>5 DEF SearchInv, TableInv, FailureIsLongest
<1>7. EndsHere(next)
  BY <1>2, <1>4, <1>6, EndsNest
<1>8. ASSUME NEW k \in (next + 1)..(Len(pattern) - 1), k <= scan - written, EndsHere(k)
      PROVE  NextKey # pattern[k + 1]
  <2>1. CASE k > state
    BY <1>2, <1>4, <1>8, <2>1
  <2>2. CASE k = state
    BY <1>1, <2>2
  <2>3. CASE k < state
    <3>1. Border(k, state)
      BY <1>2, <1>4, <1>8, <2>3, EndsNest
    <3> QED BY <1>2, <1>6, <2>3, <3>1
  <2> QED BY <1>2, <2>1, <2>2, <2>3
<1>9. next <= scan - written
  BY <1>2, <1>4
<1>10. NextKey' = NextKey /\ \A k: EndsHere(k)' <=> EndsHere(k)
  BY <1>1 DEF NextKey, EndsHere
<1> QED BY <1>1, <1>3, <1>7, <1>8, <1>9, <1>10 DEF StateIsLongest

\* What KmpStep reaches with the character it consumes: the part of the term of
\* that length ends behind it, and no longer one does, the whole term included.
Reached == IF NextKey = pattern[state + 1] THEN state + 1 ELSE state

LEMMA ReachedIsLongest ==
    ASSUME SearchInv, KmpStep
    PROVE  /\ Reached \in Nat /\ Reached <= Len(pattern) /\ Reached <= scan + 1 - written
           /\ EndsAt(Reached, scan + 1)
           /\ \A k \in (Reached + 1)..Len(pattern):
                 k <= scan + 1 - written => ~EndsAt(k, scan + 1)
<1>1. /\ pc = "kmp" /\ scan < Len(text)
      /\ state = 0 \/ NextKey = pattern[state + 1]
  BY DEF KmpStep
<1>2. /\ Len(pattern) \in Nat /\ scan \in Nat /\ written \in Nat /\ written <= scan
      /\ state \in Nat /\ state < Len(pattern)
  BY SearchRanges DEF SearchInv
<1>3. /\ state <= scan - written /\ EndsAt(state, scan)
      /\ \A k \in (state + 1)..(Len(pattern) - 1):
            k <= scan - written /\ EndsAt(k, scan) => NextKey # pattern[k + 1]
  <2>1. \A k: EndsHere(k) <=> EndsAt(k, scan)
    BY DEF EndsHere, EndsAt
  <2> QED BY <1>1, <2>1 DEF SearchInv, StateIsLongest
<1>4. NextKey = FoldClass[text[scan + 1]]
  BY DEF NextKey
<1>5. Reached \in {state, state + 1} /\ (Reached = state => state = 0)
  BY <1>1, <1>2 DEF Reached
<1>6. EndsAt(Reached, scan + 1)
  <2>1. CASE Reached = state + 1
    <3>1. NextKey = pattern[state + 1] /\ (state + 1) - 1 = state
      BY <1>2, <2>1 DEF Reached
    <3>2. EndsAt((state + 1) - 1, scan)
      BY <1>3, <3>1
    <3>3. state + 1 \in Nat \ {0}
      BY <1>2
    <3>4. EndsAt(state + 1, scan + 1)
      BY <1>2, <1>4, <3>1, <3>2, <3>3, EndsGrow
    <3> QED BY <2>1, <3>4
  <2>2. CASE Reached = 0
    BY <2>2 DEF EndsAt
  <2> QED BY <1>5, <2>1, <2>2
<1>7. ASSUME NEW k \in (Reached + 1)..Len(pattern), k <= scan + 1 - written,
             EndsAt(k, scan + 1)
      PROVE  FALSE
  <2>1. k \in Nat \ {0} /\ k - 1 >= state /\ k - 1 <= scan - written /\ k - 1 < Len(pattern)
    <3>1. Reached \in Nat /\ Reached >= state
      BY <1>2, <1>5
    <3> QED BY <1>2, <1>7, <3>1
  <2>2. EndsAt(k - 1, scan) /\ NextKey = pattern[k]
    BY <1>2, <1>4, <1>7, <2>1, EndsGrow
  <2>3. k - 1 # state
    <3> SUFFICES ASSUME k - 1 = state PROVE FALSE
      OBVIOUS
    <3>1. k = state + 1
      BY <1>2, <2>1
    <3>2. Reached = state + 1
      BY <2>2, <3>1 DEF Reached
    <3>3. k > Reached
      BY <1>2, <1>5
    <3> QED BY <1>2, <3>1, <3>2, <3>3
  <2>4. k - 1 \in (state + 1)..(Len(pattern) - 1) /\ (k - 1) + 1 = k
    BY <1>2, <2>1, <2>3
  <2> QED BY <1>3, <2>1, <2>2, <2>4
<1> QED BY <1>2, <1>3, <1>5, <1>6, <1>7

\* A consumed character: the search is at the longest part again, and passed no
\* occurrence.
LEMMA KmpStepLosesNothing ==
    ASSUME SearchInv, KmpStep PROVE StateIsLongest' /\ NoneMissed'
<1>1. /\ pc = "kmp" /\ scan < Len(text) /\ scan' = scan + 1
      /\ UNCHANGED <<pattern, text, pc>>
      /\ IF Reached = Len(pattern) THEN written' = scan + 1 /\ state' = 0
         ELSE state' = Reached /\ written' = written
  BY DEF KmpStep, Reached, StateAfterMatch, table, input
<1>2. /\ Len(pattern) \in Nat \ {0} /\ Len(text) \in Nat /\ scan \in Nat /\ scan <= Len(text)
      /\ written \in Nat
  BY SearchRanges DEF SearchInv
<1>3. /\ Reached \in Nat /\ Reached <= Len(pattern) /\ Reached <= scan + 1 - written
      /\ EndsAt(Reached, scan + 1)
      /\ \A k \in (Reached + 1)..Len(pattern):
            k <= scan + 1 - written => ~EndsAt(k, scan + 1)
  BY ReachedIsLongest
<1>4. \A k: EndsHere(k)' <=> EndsAt(k, scan + 1)
  BY <1>1 DEF EndsHere, EndsAt
<1>5. \A n: TermAt(n)' <=> TermAt(n)
  BY <1>1 DEF TermAt
<1>6. CASE Reached = Len(pattern)
  <2>1. EndsHere(0)'
    BY DEF EndsHere
  <2>2. StateIsLongest'
    BY <1>1, <1>2, <1>6, <2>1 DEF StateIsLongest
  <2>3. NoneMissed'
    BY <1>1, <1>2, <1>6 DEF NoneMissed
  <2> QED BY <2>2, <2>3
<1>7. CASE Reached # Len(pattern)
  <2>1. state' = Reached /\ written' = written
    BY <1>1, <1>7
  <2>2. StateIsLongest'
    BY <1>1, <1>2, <1>3, <1>4, <2>1 DEF StateIsLongest
  <2>3. ASSUME NEW n \in written..((scan + 1) - Len(pattern)) PROVE ~TermAt(n)
    <3>1. CASE n = scan + 1 - Len(pattern)
      <4>1. scan + 1 \in 0..Len(text) /\ n + Len(pattern) = scan + 1
        BY <1>1, <1>2, <3>1
      <4>2. ~EndsAt(Len(pattern), scan + 1)
        BY <1>2, <1>3, <1>7, <3>1, <2>3
      <4> QED BY <1>2, <2>3, <4>1, <4>2, EndsIsTermAt
    <3>2. CASE n \in written..(scan - Len(pattern))
      BY <1>1, <3>2 DEF SearchInv, NoneMissed
    <3> QED BY <1>2, <2>3, <3>1, <3>2
  <2>4. NoneMissed'
    BY <1>1, <1>5, <2>1, <2>3 DEF NoneMissed
  <2> QED BY <2>2, <2>4
<1> QED BY <1>6, <1>7

\* The plain search, and the beginning of either.
LEMMA PlainLosesNothing ==
    ASSUME SearchInv, Dispatch \/ NaiveSkip \/ NaiveMatch \/ Finish
    PROVE  StateIsLongest' /\ NoneMissed'
<1>1. UNCHANGED <<pattern, text, state>>
  BY DEF Dispatch, NaiveSkip, NaiveMatch, Finish, table, input, search
<1>2. /\ Len(pattern) \in Nat \ {0} /\ Len(text) \in Nat /\ scan \in Nat /\ written \in Nat
  BY SearchRanges DEF SearchInv
<1>3. \A n: TermAt(n)' <=> TermAt(n)
  BY <1>1 DEF TermAt
<1>4. CASE Dispatch
  <2>1. scan' = 0 /\ written' = 0 /\ state' = 0
    BY <1>4 DEF Dispatch, search, SearchInv, TableInv, Phases
  <2>2. EndsHere(0)'
    BY DEF EndsHere
  <2>3. StateIsLongest'
    BY <1>1, <1>2, <2>1, <2>2 DEF StateIsLongest
  <2> QED BY <1>1, <1>2, <2>1, <2>3 DEF NoneMissed
<1>5. CASE NaiveSkip
  <2>1. pc = "naive" /\ pc' = "naive" /\ ~TermAt(scan) /\ scan' = scan + 1 /\ written' = written
    BY <1>5 DEF NaiveSkip
  <2> QED BY <1>2, <1>3, <2>1 DEF SearchInv, StateIsLongest, NoneMissed
<1>6. CASE NaiveMatch
  <2>1. pc' = "naive" /\ scan' = scan + Len(pattern) /\ written' = scan + Len(pattern)
    BY <1>6 DEF NaiveMatch
  <2> QED BY <1>1, <1>2, <2>1 DEF StateIsLongest, NoneMissed
<1>7. CASE Finish
  BY <1>7 DEF Finish, StateIsLongest, NoneMissed
<1> QED BY <1>4, <1>5, <1>6, <1>7

LEMMA SearchStart == Init => SearchInv
BY TableStart DEF Init, SearchInv, StateIsLongest, NoneMissed

LEMMA SearchInductive == SearchInv /\ [Next]_vars => SearchInv'
<1> SUFFICES ASSUME SearchInv, [Next]_vars PROVE SearchInv'
  OBVIOUS
<1>1. TableInv'
  BY TableInductive DEF SearchInv
<1>2. CASE TableFallBack \/ TableStep
  BY <1>1, <1>2 DEF TableFallBack, TableStep, SearchInv, StateIsLongest, NoneMissed
<1>3. CASE KmpFallBack
  <2>1. pc = "kmp" /\ UNCHANGED <<pattern, text, scan, written, pc>>
    BY <1>3 DEF KmpFallBack, table, input
  <2>2. NoneMissed'
    BY <2>1 DEF SearchInv, NoneMissed, TermAt
  <2> QED BY <1>1, <1>3, <2>2, FallBackLosesNothing DEF SearchInv
<1>4. CASE KmpStep
  BY <1>1, <1>4, KmpStepLosesNothing DEF SearchInv
<1>5. CASE Dispatch \/ NaiveSkip \/ NaiveMatch \/ Finish
  BY <1>1, <1>5, PlainLosesNothing DEF SearchInv
<1>6. CASE UNCHANGED vars
  BY <1>1, <1>6 DEF vars, table, input, search, SearchInv, StateIsLongest, NoneMissed,
     EndsHere, NextKey, TermAt
<1> QED BY <1>2, <1>3, <1>4, <1>5, <1>6 DEF Next

\* The search with the table is always at the longest part of the term that ends
\* where it reads and can go on: no step passes an occurrence.
THEOREM SearchIsLongest == Spec => []StateIsLongest
<1>1. SearchInv => StateIsLongest
  BY DEF SearchInv
<1> QED BY SearchStart, SearchInductive, <1>1, PTL DEF Spec

-----------------------------------------------------------------------------
(* The abstract rewriting. *)

\* What either search rewrites is the next occurrence of LeftmostRewrite.
LEMMA RewriteIsReplace ==
    ASSUME SearchInv, NEW n \in Nat, written <= n, n <= Len(text), TermAt(n),
           \A earlier \in written..(n - 1): ~TermAt(earlier),
           pc # "done", pc' # "done", UNCHANGED <<pattern, text, obfuscate>>,
           out' = Rewrite(n), written' = n + Len(pattern)
    PROVE  Leftmost!Replace
<1>1. n \in written..Len(text)
  BY SearchRanges DEF SearchInv
<1>2. \A k: Leftmost!TermAt(k) <=> TermAt(k)
  BY DEF TermAt, Leftmost!TermAt
<1>3. out' = out \o SubSeq(text, written + 1, n) \o Leftmost!Replacement(n)
  BY DEF Rewrite, Leftmost!Replacement
<1> QED BY <1>1, <1>2, <1>3 DEF Leftmost!Replace

LEMMA StepImplements ==
    ASSUME SearchInv, [Next]_vars PROVE Leftmost!Next \/ UNCHANGED Leftmost!rvars
<1>1. /\ Len(pattern) \in Nat \ {0} /\ Len(text) \in Nat
      /\ scan \in Nat /\ scan <= Len(text) /\ written \in Nat /\ written <= scan
  BY SearchRanges DEF SearchInv
<1>2. CASE TableFallBack \/ TableStep \/ KmpFallBack \/ NaiveSkip
  BY <1>2 DEF TableFallBack, TableStep, KmpFallBack, NaiveSkip, table, input, search,
     Leftmost!rvars
<1>3. CASE Dispatch
  BY <1>3 DEF Dispatch, table, input, search, Leftmost!rvars
<1>4. CASE KmpStep
  <2>1. /\ pc = "kmp" /\ pc' = "kmp" /\ scan < Len(text)
        /\ UNCHANGED <<pattern, text, obfuscate>>
    BY <1>4 DEF KmpStep, table, input
  <2>2. CASE Reached # Len(pattern)
    BY <1>4, <2>1, <2>2 DEF KmpStep, Reached, Leftmost!rvars
  <2>3. CASE Reached = Len(pattern)
    <3>1. PICK n \in Nat: n = scan + 1 - Len(pattern)
      BY <1>1, <1>4, <2>3, ReachedIsLongest
    <3>2. n + Len(pattern) = scan + 1 /\ written <= n /\ n <= Len(text)
      BY <1>1, <1>4, <2>1, <2>3, <3>1, ReachedIsLongest
    <3>3. EndsAt(Len(pattern), scan + 1) /\ scan + 1 \in 0..Len(text)
      BY <1>1, <1>4, <2>1, <2>3, ReachedIsLongest
    <3>4. TermAt(n)
      BY <1>1, <3>2, <3>3, EndsIsTermAt
    <3>5. \A earlier \in written..(n - 1): ~TermAt(earlier)
      BY <1>1, <2>1, <3>1 DEF SearchInv, NoneMissed
    <3>6. out' = Rewrite(n) /\ written' = n + Len(pattern)
      BY <1>1, <1>4, <2>3, <3>1, <3>2 DEF KmpStep, Reached
    <3>7. Leftmost!Replace
      BY <2>1, <3>2, <3>4, <3>5, <3>6, RewriteIsReplace
    <3> QED BY <3>7 DEF Leftmost!Next
  <2> QED BY <2>2, <2>3
<1>5. CASE NaiveMatch
  <2>1. /\ pc = "naive" /\ pc' = "naive" /\ TermAt(scan)
        /\ out' = Rewrite(scan) /\ written' = scan + Len(pattern)
        /\ UNCHANGED <<pattern, text, obfuscate>>
    BY <1>5 DEF NaiveMatch, table, input
  <2>2. \A earlier \in written..(scan - 1): ~TermAt(earlier)
    BY <2>1 DEF SearchInv, NoneMissed
  <2>3. Leftmost!Replace
    BY <1>1, <2>1, <2>2, RewriteIsReplace
  <2> QED BY <2>3 DEF Leftmost!Next
<1>6. CASE Finish
  <2>1. /\ pc \in {"kmp", "naive"} /\ pc' = "done" /\ scan = Len(text) /\ out' = Rest
        /\ UNCHANGED <<pattern, text, obfuscate, written>>
    BY <1>6 DEF Finish, table, input
  <2>2. \A n \in written..Len(text): ~Leftmost!TermAt(n)
    <3> SUFFICES ASSUME NEW n \in written..Len(text), TermAt(n) PROVE FALSE
      BY DEF TermAt, Leftmost!TermAt
    <3>1. n <= scan - Len(pattern)
      BY <1>1, <2>1 DEF TermAt
    <3> QED BY <1>1, <2>1, <3>1 DEF SearchInv, NoneMissed
  <2>3. Leftmost!Finish
    BY <2>1, <2>2 DEF Rest, Leftmost!Finish
  <2> QED BY <2>3 DEF Leftmost!Next
<1>7. CASE UNCHANGED vars
  BY <1>7 DEF vars, table, input, search, Leftmost!rvars
<1> QED BY <1>2, <1>3, <1>4, <1>5, <1>6, <1>7 DEF Next

\* For every term, every text and every size at which the code changes from one
\* search to the other, strip and obfs replace exactly the leftmost occurrences
\* that do not overlap.
THEOREM RewritingIsLeftmost == Spec => ImplementsLeftmost
<1>1. Init => Leftmost!Init
  <2> SUFFICES ASSUME Init PROVE Leftmost!Init
    OBVIOUS
  <2>1. pattern \in Seq(Chars) \ {<<>>} /\ text \in Seq(Chars)
    BY FoldRewriteAssumption DEF Init
  <2> QED BY <2>1 DEF Init, Leftmost!Init
<1> QED
  BY <1>1, SearchStart, SearchInductive, StepImplements, PTL
     DEF Spec, ImplementsLeftmost, Leftmost!Spec
=============================================================================
