--------------------------- MODULE Filter_proofs ---------------------------
(***************************************************************************)
(* Proofs about the request filter: RequestFilter, for every filter, every *)
(* request and every order in which the map yields the headers; GlobMatch, *)
(* for every pattern, every value and every size of word.                  *)
(***************************************************************************)
EXTENDS RequestFilter, GlobMatch, Integers, SequenceTheorems, WellFoundedInduction, TLAPS

(* Extremes of sets of numbers. *)

LEMMA LeastNatural ==
    ASSUME NEW S, S \subseteq Nat, S # {}
    PROVE  \E n \in S: \A m \in S: n <= m
<1> DEFINE Below == {p \in Nat \X Nat: p[1] < p[2]}
<1>1. OpToRel(<, Nat) = Below
  BY DEF OpToRel
<1>2. IsWellFoundedOn(Below, Nat)
  BY <1>1, NatLessThanWellFounded, Zenon
<1>3. \A n, m \in Nat: <<m, n>> \in Below <=> m < n
  OBVIOUS
<1> HIDE DEF Below
<1>4. PICK n \in S: \A m \in S: ~ (<<m, n>> \in Below)
  BY <1>2, WFMin, Zenon
<1>5. ASSUME NEW m \in S PROVE n <= m
  <2>1. n \in Nat /\ m \in Nat
    OBVIOUS
  <2>2. ~ (m < n)
    BY <1>3, <1>4, <2>1
  <2> QED BY <2>1, <2>2
<1> QED BY <1>5

LEMMA GreatestIndex ==
    ASSUME NEW N \in Nat, NEW S, S \subseteq 1..N, S # {}
    PROVE  \E n \in S: \A m \in S: m <= n
<1> DEFINE T == {k \in Nat: \E m \in S: k = N - m}
<1>1. \A m \in S: N - m \in T
  OBVIOUS
<1>2. T \subseteq Nat /\ T # {}
  BY <1>1
<1>3. \A k \in T: \E m \in S: k = N - m
  OBVIOUS
<1> HIDE DEF T
<1>4. PICK k \in T: \A i \in T: k <= i
  BY <1>2, LeastNatural
<1>5. PICK n \in S: k = N - n
  BY <1>3
<1>6. ASSUME NEW m \in S PROVE m <= n
  <2>1. N - n <= N - m
    BY <1>1, <1>4, <1>5
  <2>2. m \in Int /\ n \in Int
    OBVIOUS
  <2> QED BY <2>1, <2>2
<1> QED BY <1>6

(* Texts. *)

\* What TrimSpace keeps runs from the first to the last character that is no space.
LEMMA TrimForm ==
    ASSUME NEW text \in Texts, Ends(text) # {}
    PROVE  \E first, last \in Ends(text):
              /\ \A n \in Ends(text): first <= n /\ n <= last
              /\ TrimSpace(text) = SubSeq(text, first, last)
<1>1. Len(text) \in Nat
  BY LenProperties DEF Texts
<1>2. Ends(text) \subseteq Nat /\ Ends(text) \subseteq 1..Len(text)
  BY <1>1 DEF Ends
<1> DEFINE S == Ends(text)
           first == CHOOSE n \in S: \A m \in S: n <= m
           last == CHOOSE n \in S: \A m \in S: m <= n
<1>3. TrimSpace(text) = SubSeq(text, first, last)
  BY DEF TrimSpace
<1> HIDE DEF S
<1>4. S \subseteq Nat /\ S \subseteq 1..Len(text) /\ S # {}
  BY <1>2 DEF S
<1>5. \E n \in S: \A m \in S: n <= m
  BY <1>4, LeastNatural
<1>6. \E n \in S: \A m \in S: m <= n
  BY <1>1, <1>4, GreatestIndex
<1>7. first \in S /\ \A m \in S: first <= m
  BY <1>5
<1>8. last \in S /\ \A m \in S: m <= last
  BY <1>6
<1> HIDE DEF first, last
<1> QED BY <1>3, <1>7, <1>8 DEF S

LEMMA TrimIsText == ASSUME NEW text \in Texts PROVE TrimSpace(text) \in Texts
<1>1. CASE Ends(text) = {}
  BY <1>1, EmptySeq DEF TrimSpace, Texts
<1>2. CASE Ends(text) # {}
  <2>1. PICK first, last \in Ends(text): TrimSpace(text) = SubSeq(text, first, last)
    BY <1>2, TrimForm
  <2>2. Len(text) \in Nat /\ \A n \in 1..Len(text): text[n] \in Characters
    BY LenProperties, ElementOfSeq DEF Texts
  <2>3. first \in 1..Len(text) /\ last \in 1..Len(text)
    BY DEF Ends
  <2>4. first \in Int /\ last \in Int /\ \A n \in first..last: text[n] \in Characters
    BY <2>2, <2>3
  <2>5. SubSeq(text, first, last) \in Seq(Characters)
    BY <2>4, SubSeqProperties
  <2> QED BY <2>1, <2>5 DEF Texts
<1> QED BY <1>1, <1>2

\* A trimmed text has nothing left to trim.
LEMMA TrimTwice ==
    ASSUME NEW text \in Texts PROVE TrimSpace(TrimSpace(text)) = TrimSpace(text)
<1>1. CASE Ends(text) = {}
  <2>1. TrimSpace(text) = <<>>
    BY <1>1 DEF TrimSpace
  <2>2. Ends(<<>>) = {}
    BY DEF Ends
  <2> QED BY <2>1, <2>2 DEF TrimSpace
<1>2. CASE Ends(text) # {}
  <2>1. PICK first, last \in Ends(text):
           /\ \A n \in Ends(text): first <= n /\ n <= last
           /\ TrimSpace(text) = SubSeq(text, first, last)
    BY <1>2, TrimForm
  <2> DEFINE t == TrimSpace(text)
  <2>2. Len(text) \in Nat /\ \A n \in 1..Len(text): text[n] \in Characters
    BY LenProperties, ElementOfSeq DEF Texts
  <2>3. first \in 1..Len(text) /\ last \in 1..Len(text) /\ first <= last
        /\ text[first] # Space /\ text[last] # Space
    BY <2>1 DEF Ends
  <2>4. first \in Int /\ last \in Int /\ \A n \in first..last: text[n] \in Characters
    BY <2>2, <2>3
  <2>5. /\ Len(t) = last - first + 1
        /\ \A i \in 1 .. last - first + 1: t[i] = text[first + i - 1]
    <3>1. /\ Len(SubSeq(text, first, last)) = IF first <= last THEN last - first + 1 ELSE 0
          /\ \A i \in 1 .. last - first + 1: SubSeq(text, first, last)[i] = text[first + i - 1]
      BY <2>4, SubSeqProperties
    <3> QED BY <2>1, <2>3, <3>1
  <2>6. t \in Texts
    BY TrimIsText
  <2> HIDE DEF t
  <2>7. Len(t) \in Nat /\ Len(t) >= 1
    BY <2>3, <2>4, <2>5
  <2>8. t[1] = text[first] /\ t[Len(t)] = text[last]
    <3>1. first + 1 - 1 = first /\ first + Len(t) - 1 = last
      BY <2>4, <2>5
    <3>2. 1 \in 1 .. last - first + 1 /\ Len(t) \in 1 .. last - first + 1
      BY <2>5, <2>7
    <3> QED BY <2>5, <3>1, <3>2
  <2>9. 1 \in Ends(t) /\ Len(t) \in Ends(t)
    BY <2>3, <2>7, <2>8 DEF Ends
  <2>10. PICK f, l \in Ends(t): /\ \A n \in Ends(t): f <= n /\ n <= l
                                /\ TrimSpace(t) = SubSeq(t, f, l)
    BY <2>6, <2>9, TrimForm
  <2>11. f = 1 /\ l = Len(t)
    <3>1. f \in 1..Len(t) /\ l \in 1..Len(t)
      BY DEF Ends
    <3>2. f <= 1 /\ Len(t) <= l
      BY <2>9, <2>10
    <3> QED BY <2>7, <3>1, <3>2
  <2>12. SubSeq(t, 1, Len(t)) = t
    BY <2>6, SubSeqFull DEF Texts
  <2> QED BY <2>10, <2>11, <2>12 DEF t
<1> QED BY <1>1, <1>2

(* Patterns without wildcards. *)

LEMMA LiteralGlob ==
    ASSUME NEW p \in Texts, NEW t \in Texts, ~IsWildcard(p)
    PROVE  GlobMatches(p, t) <=> p = t
<1>1. Len(p) \in Nat /\ Len(t) \in Nat
  BY LenProperties DEF Texts
<1>2. \A n \in 1..Len(p): p[n] # Star /\ p[n] # Question
  BY DEF IsWildcard
<1>3. ASSUME GlobMatches(p, t) PROVE p = t
  <2>1. PICK cut \in [0..Len(p) -> 0..Len(t)]:
           /\ cut[0] = 0 /\ cut[Len(p)] = Len(t)
           /\ \A n \in 1..Len(p):
                 IF p[n] = Star THEN cut[n - 1] <= cut[n]
                 ELSE /\ cut[n] = cut[n - 1] + 1
                      /\ p[n] \in {Question, t[cut[n]]}
    BY <1>3 DEF GlobMatches, Aligned
  <2>2. \A n \in 1..Len(p): cut[n] = cut[n - 1] + 1 /\ p[n] = t[cut[n]]
    BY <1>2, <2>1
  <2> DEFINE Off == {n \in 0..Len(p): cut[n] # n}
  <2>3. Off = {}
    <3> SUFFICES ASSUME Off # {} PROVE FALSE
      OBVIOUS
    <3>1. Off \subseteq Nat
      BY <1>1
    <3>2. \A n: n \in Off <=> n \in 0..Len(p) /\ cut[n] # n
      OBVIOUS
    <3> HIDE DEF Off
    <3>3. PICK n \in Off: \A m \in Off: n <= m
      BY <3>1, LeastNatural
    <3>4. n \in 0..Len(p) /\ n # 0
      BY <2>1, <3>2
    <3>5. n - 1 \in 0..Len(p) /\ n \in 1..Len(p) /\ ~ (n <= n - 1)
      BY <1>1, <3>4
    <3>6. cut[n - 1] = n - 1
      BY <3>2, <3>3, <3>5
    <3>7. cut[n] = n - 1 + 1
      BY <2>2, <3>5, <3>6
    <3>8. n - 1 + 1 = n
      BY <3>5
    <3> QED BY <3>2, <3>7, <3>8
  <2>4. \A n \in 0..Len(p): cut[n] = n
    BY <2>3
  <2>5. Len(p) = Len(t)
    BY <1>1, <2>1, <2>4
  <2>6. \A n \in 1..Len(p): p[n] = t[n]
    BY <1>1, <2>2, <2>4
  <2> QED BY <2>5, <2>6, SeqEqual DEF Texts
<1>4. ASSUME p = t PROVE GlobMatches(p, t)
  <2> DEFINE cut == [n \in 0..Len(p) |-> n]
  <2>1. cut \in [0..Len(p) -> 0..Len(t)]
    BY <1>4
  <2>2. \A n \in 0..Len(p): cut[n] = n
    OBVIOUS
  <2> HIDE DEF cut
  <2>3. cut[0] = 0 /\ cut[Len(p)] = Len(t)
    BY <1>1, <1>4, <2>2
  <2>4. ASSUME NEW n \in 1..Len(p)
        PROVE  /\ p[n] # Star /\ cut[n] = cut[n - 1] + 1
               /\ p[n] \in {Question, t[cut[n]]}
    <3>1. n \in 0..Len(p) /\ n - 1 \in 0..Len(p) /\ n = n - 1 + 1
      BY <1>1
    <3>2. cut[n] = n /\ cut[n - 1] = n - 1
      BY <2>2, <3>1
    <3> QED BY <1>2, <1>4, <3>1, <3>2
  <2> QED BY <2>1, <2>3, <2>4 DEF GlobMatches, Aligned
<1> QED BY <1>3, <1>4

(* Keys. *)

\* What a header is read for has been trimmed.
LEMMA CredentialTrimmed ==
    ASSUME NEW name, NEW text \in Texts
    PROVE  TrimSpace(Credential(name, text)) = Credential(name, text)
<1>1. SubSeq(text, 3, Len(text)) \in Texts
  <2>1. Len(text) \in Int /\ \A n \in 3..Len(text): text[n] \in Characters
    BY LenProperties, ElementOfSeq DEF Texts
  <2> QED BY <2>1, SubSeqProperties DEF Texts
<1>2. /\ TrimSpace(TrimSpace(SubSeq(text, 3, Len(text)))) = TrimSpace(SubSeq(text, 3, Len(text)))
      /\ TrimSpace(TrimSpace(text)) = TrimSpace(text)
  BY <1>1, TrimTwice
<1> QED BY <1>2 DEF Credential

LEMMA ScopeForm ==
    ASSUME request \in Requests
    PROVE  /\ ScopeOf(request.metadata) = [hash |-> CallerKey]
           /\ CallerKey \in Texts /\ TrimSpace(CallerKey) = CallerKey
           /\ ScopeOf(request.metadata) # NoScope <=> CallerKey # <<>>
<1>1. /\ request.metadata.scope \in [hash: Texts]
      /\ TrimSpace(request.metadata.scope.hash) = request.metadata.scope.hash
  BY FilterAssumption
<1>2. NoScope \in [hash: Texts] /\ NoScope.hash = <<>>
  BY EmptySeq DEF NoScope, Texts
<1>3. TrimSpace(<<>>) = <<>>
  BY DEF TrimSpace, Ends
<1>4. ScopeOf(request.metadata) \in [hash: Texts]
  BY <1>1, <1>2 DEF ScopeOf
<1>5. TrimSpace(CallerKey) = CallerKey
  BY <1>1, <1>2, <1>3 DEF ScopeOf, CallerKey
<1> QED BY <1>4, <1>5 DEF CallerKey, NoScope

Carries(entry) ==
    \E n \in 1..Len(entry.values): Credential(entry.name, entry.values[n]) = CallerKey

\* Only the caller's key binds, so an entry yields that key or nothing, and nothing
\* only if no value of it is the key.
LEMMA EntryYields ==
    ASSUME request \in Requests, NEW entry \in request.headers, CallerKey # <<>>
    PROVE  BoundValue(entry) = IF Carries(entry) THEN CallerKey ELSE <<>>
<1> DEFINE scope == ScopeOf(request.metadata)
           cred(n) == Credential(entry.name, entry.values[n])
           hits == {n \in 1..Len(entry.values): Bound(cred(n), scope)}
<1>1. entry.values \in Seq(Texts)
  BY FilterAssumption
<1>2. Len(entry.values) \in Nat /\ \A n \in 1..Len(entry.values): entry.values[n] \in Texts
  BY <1>1, LenProperties, ElementOfSeq
<1>3. ASSUME NEW n \in 1..Len(entry.values)
      PROVE  Bound(cred(n), scope) <=> cred(n) = CallerKey
  <2>1. TrimSpace(cred(n)) = cred(n)
    BY <1>2, CredentialTrimmed
  <2>2. scope = [hash |-> CallerKey]
    BY ScopeForm
  <2> HIDE DEF cred, scope
  <2>3. CallerScope(cred(n)) = [hash |-> cred(n)]
    BY <2>1 DEF CallerScope
  <2>4. [hash |-> cred(n)] = [hash |-> CallerKey] <=> cred(n) = CallerKey
    OBVIOUS
  <2> QED BY <2>2, <2>3, <2>4 DEF Bound
<1>4. \A n \in hits: cred(n) = CallerKey
  BY <1>3
<1>5. hits # {} <=> Carries(entry)
  BY <1>3 DEF Carries
<1>6. BoundValue(entry) = IF hits = {} THEN <<>> ELSE cred(CHOOSE n \in hits: \A m \in hits: n <= m)
  BY DEF BoundValue
<1>7. hits \subseteq Nat
  BY <1>2
<1> HIDE DEF hits, cred, scope
<1>8. ASSUME hits # {} PROVE (CHOOSE n \in hits: \A m \in hits: n <= m) \in hits
  <2>1. \E n \in hits: \A m \in hits: n <= m
    BY <1>7, <1>8, LeastNatural
  <2> QED BY <2>1
<1> QED BY <1>4, <1>5, <1>6, <1>8

(* The inductive invariant of RequestFilter. *)

LiteralHit ==
    \E n \in 1..Len(filter.apiKeys): ~IsWildcard(filter.apiKeys[n]) /\ filter.apiKeys[n] = CallerKey

HasWildcard == \E n \in 1..Len(filter.apiKeys): IsWildcard(filter.apiKeys[n])

\* The entries met so far: those of the headers before, and this header's.
Met(entry) ==
    \/ \E n \in 1..Len(Carriers): n < slot /\ entry.name = Carriers[n]
    \/ entry.name = Carriers[slot] /\ entry \notin unseen

TypeInv ==
    /\ filter \in Filters /\ request \in Requests
    /\ pc \in {"model", "literal", "search", "glob", "decide", "done"}
    /\ modelMatched \in BOOLEAN /\ keyMatched \in BOOLEAN
    /\ slot \in 0..Len(Carriers)

\* What the model decided, and that the keys are only asked for when it did not.
ModelInv ==
    /\ pc \in {"model", "literal"} => slot = 0 /\ candidate = <<>> /\ ~keyMatched
    /\ pc # "model" => (modelMatched <=> UsesModels /\ ModelMatches)
    /\ pc \in {"literal", "search", "glob"} => ~ModelDecides(modelMatched)

\* The search goes on only while no literal is the key, and has missed nothing.
SearchInv ==
    pc = "search" =>
        /\ CallerKey # <<>> /\ ~LiteralHit /\ HasWildcard
        /\ slot >= 1 /\ candidate = <<>> /\ ~keyMatched
        /\ unseen \subseteq request.headers
        /\ \A entry \in request.headers: Met(entry) => ~Carries(entry)

WildcardInv ==
    pc = "glob" => CallerKey # <<>> /\ candidate = CallerKey /\ Carried /\ ~LiteralHit

KeyInv ==
    pc \in {"decide", "done"} =>
        IF ModelDecides(modelMatched) THEN ~keyMatched ELSE keyMatched <=> KeyMatches

FilterInv ==
    /\ TypeInv /\ ModelInv /\ SearchInv /\ WildcardInv /\ KeyInv
    /\ SearchFindsCaller /\ DecisionIsTheCallers

LEMMA FilterStart == Init => FilterInv
<1> SUFFICES ASSUME Init PROVE FilterInv
  OBVIOUS
<1>1. TypeInv
  <2>1. Len(Carriers) = 3
    BY DEF Carriers
  <2>2. slot \in 0..Len(Carriers)
    BY <2>1 DEF Init
  <2> QED BY <2>2 DEF Init, TypeInv
<1>2. ModelInv /\ SearchInv /\ WildcardInv /\ KeyInv /\ SearchFindsCaller /\ DecisionIsTheCallers
  BY DEF Init, ModelInv, SearchInv, WildcardInv, KeyInv, SearchFindsCaller, DecisionIsTheCallers
<1> QED BY <1>1, <1>2 DEF FilterInv

\* Literals are compared as texts and wildcards by globs; a literal is a glob that
\* matches itself alone.
LEMMA ModelAgrees ==
    ASSUME filter \in Filters, request \in Requests
    PROVE  UsesModels /\ MatchesModel <=> UsesModels /\ ModelMatches
<1>1. filter.models \in Seq(Texts) /\ request.model \in Texts
  BY FilterAssumption
<1>2. \A n \in 1..Len(filter.models): filter.models[n] \in Texts
  BY <1>1, ElementOfSeq
<1>3. \A n \in 1..Len(filter.models):
         ~IsWildcard(filter.models[n]) =>
            (GlobMatches(filter.models[n], request.model) <=> filter.models[n] = request.model)
  BY <1>1, <1>2, LiteralGlob
<1> QED BY <1>3 DEF MatchesModel, ModelMatches, AnyGlob

LEMMA ModelStep == FilterInv /\ Model => FilterInv'
<1> SUFFICES ASSUME FilterInv, Model PROVE FilterInv'
  OBVIOUS
<1>1. /\ TypeInv /\ pc = "model" /\ slot = 0 /\ candidate = <<>> /\ ~keyMatched
      /\ filter' = filter /\ request' = request /\ slot' = slot /\ unseen' = unseen
      /\ candidate' = candidate /\ keyMatched' = keyMatched
      /\ modelMatched' = (UsesModels /\ MatchesModel)
      /\ pc' \in {"decide", "literal"}
      /\ pc' = "decide" <=> ModelDecides(modelMatched')
  BY DEF FilterInv, ModelInv, Model
<1>2. modelMatched' <=> UsesModels /\ ModelMatches
  BY <1>1, ModelAgrees DEF TypeInv
<1>3. CallerKey' = CallerKey /\ (UsesModels /\ ModelMatches)' = (UsesModels /\ ModelMatches)
      /\ ModelDecides(modelMatched)' = ModelDecides(modelMatched')
  BY <1>1 DEF CallerKey, UsesModels, ModelMatches, ModelDecides, UsesKeys
<1>4. TypeInv'
  BY <1>1 DEF TypeInv
<1>5. ModelInv'
  BY <1>1, <1>2, <1>3 DEF ModelInv
<1>6. SearchInv' /\ WildcardInv' /\ DecisionIsTheCallers'
  BY <1>1 DEF SearchInv, WildcardInv, DecisionIsTheCallers
<1>7. KeyInv'
  BY <1>1, <1>3 DEF KeyInv
<1>8. SearchFindsCaller'
  BY <1>1 DEF SearchFindsCaller, Carriers
<1> QED BY <1>4, <1>5, <1>6, <1>7, <1>8 DEF FilterInv

\* A literal with spaces is no key, and the key is a text without.
LEMMA LiteralAgrees ==
    ASSUME filter \in Filters, request \in Requests, CallerKey # <<>>
    PROVE  \A n \in 1..Len(filter.apiKeys):
              LiteralScope(filter.apiKeys[n]) = ScopeOf(request.metadata)
                 <=> filter.apiKeys[n] = CallerKey
<1> SUFFICES ASSUME NEW n \in 1..Len(filter.apiKeys)
             PROVE  LiteralScope(filter.apiKeys[n]) = ScopeOf(request.metadata)
                       <=> filter.apiKeys[n] = CallerKey
  OBVIOUS
<1> DEFINE p == filter.apiKeys[n]
<1>1. /\ ScopeOf(request.metadata) = [hash |-> CallerKey]
      /\ TrimSpace(CallerKey) = CallerKey
  BY ScopeForm
<1> HIDE DEF p
<1>2. CASE p = TrimSpace(p)
  <2>1. LiteralScope(p) = [hash |-> p]
    BY <1>2 DEF LiteralScope, CallerScope
  <2>2. [hash |-> p] = [hash |-> CallerKey] <=> p = CallerKey
    OBVIOUS
  <2> QED BY <1>1, <2>1, <2>2 DEF p
<1>3. CASE p # TrimSpace(p)
  <2>1. LiteralScope(p) = [hash |-> <<>>]
    BY <1>3 DEF LiteralScope, NoScope
  <2>2. [hash |-> <<>>] # [hash |-> CallerKey]
    <3>1. [hash |-> <<>>].hash = <<>> /\ [hash |-> CallerKey].hash = CallerKey
      OBVIOUS
    <3> QED BY <3>1
  <2>3. p # CallerKey
    BY <1>1, <1>3
  <2> QED BY <1>1, <2>1, <2>2, <2>3 DEF p
<1> QED BY <1>2, <1>3

LEMMA LiteralStep == FilterInv /\ Literal => FilterInv'
<1> SUFFICES ASSUME FilterInv, Literal PROVE FilterInv'
  OBVIOUS
<1>1. /\ TypeInv /\ pc = "literal" /\ candidate = <<>> /\ ~keyMatched
      /\ (modelMatched <=> UsesModels /\ ModelMatches) /\ ~ModelDecides(modelMatched)
      /\ filter' = filter /\ request' = request /\ slot' = 1 /\ unseen' = request.headers
      /\ candidate' = candidate /\ modelMatched' = modelMatched /\ decision' = decision
  BY DEF FilterInv, ModelInv, Literal
<1>2. ScopeOf(request.metadata) # NoScope <=> CallerKey # <<>>
  BY <1>1, ScopeForm DEF TypeInv
<1>3. /\ keyMatched' \in BOOLEAN
      /\ keyMatched' <=> CallerKey # <<>> /\ LiteralHit
      /\ pc' = IF CallerKey # <<>> /\ ~LiteralHit /\ HasWildcard THEN "search" ELSE "decide"
  <2> DEFINE literal == \E n \in 1..Len(filter.apiKeys):
                         /\ ~IsWildcard(filter.apiKeys[n])
                         /\ LiteralScope(filter.apiKeys[n]) = ScopeOf(request.metadata)
  <2>1. /\ keyMatched' = (ScopeOf(request.metadata) # NoScope /\ literal)
        /\ pc' = IF ScopeOf(request.metadata) # NoScope /\ ~literal /\ HasWildcard
                 THEN "search" ELSE "decide"
    BY DEF Literal, HasWildcard
  <2>2. CallerKey # <<>> => (literal <=> LiteralHit)
    BY <1>1, LiteralAgrees DEF LiteralHit, TypeInv
  <2> HIDE DEF literal
  <2> QED BY <1>2, <2>1, <2>2
<1>4. /\ CallerKey' = CallerKey /\ LiteralHit' = LiteralHit /\ HasWildcard' = HasWildcard
      /\ (UsesModels /\ ModelMatches)' = (UsesModels /\ ModelMatches)
      /\ ModelDecides(modelMatched)' = ModelDecides(modelMatched)
      /\ KeyMatches' = KeyMatches
  BY <1>1 DEF CallerKey, LiteralHit, HasWildcard, UsesModels, ModelMatches, ModelDecides,
              UsesKeys, KeyMatches, Carried
<1>5. TypeInv'
  BY <1>1, <1>3 DEF TypeInv, Carriers
<1>6. ModelInv'
  BY <1>1, <1>3, <1>4 DEF ModelInv
<1>7. SearchInv'
  <2> SUFFICES ASSUME pc' = "search"
               PROVE  /\ CallerKey' # <<>> /\ ~LiteralHit' /\ HasWildcard'
                      /\ slot' >= 1 /\ candidate' = <<>> /\ ~keyMatched'
                      /\ unseen' \subseteq request'.headers
                      /\ \A entry \in request'.headers: ~Met(entry)'
    BY DEF SearchInv
  <2>1. ASSUME NEW entry \in request.headers PROVE ~Met(entry)'
    <3>1. \A n \in 1..Len(Carriers): ~(n < 1)
      OBVIOUS
    <3> QED BY <1>1, <3>1 DEF Met
  <2> QED BY <1>1, <1>3, <1>4, <2>1
<1>8. WildcardInv' /\ DecisionIsTheCallers'
  BY <1>3 DEF WildcardInv, DecisionIsTheCallers
<1>9. KeyInv'
  <2>1. pc' # "search" => (keyMatched' <=> KeyMatches)
    BY <1>3 DEF KeyMatches, LiteralHit, HasWildcard
  <2> QED BY <1>1, <1>3, <1>4, <2>1 DEF KeyInv
<1>10. SearchFindsCaller'
  BY <1>1 DEF SearchFindsCaller, Carriers
<1> QED BY <1>5, <1>6, <1>7, <1>8, <1>9, <1>10 DEF FilterInv

LEMMA EntryStep == FilterInv /\ Entry => FilterInv'
<1> SUFFICES ASSUME FilterInv, Entry PROVE FilterInv'
  OBVIOUS
<1>1. /\ TypeInv /\ pc = "search"
      /\ (modelMatched <=> UsesModels /\ ModelMatches) /\ ~ModelDecides(modelMatched)
      /\ CallerKey # <<>> /\ ~LiteralHit /\ HasWildcard
      /\ slot >= 1 /\ candidate = <<>> /\ ~keyMatched
      /\ unseen \subseteq request.headers
      /\ \A entry \in request.headers: Met(entry) => ~Carries(entry)
  BY DEF FilterInv, ModelInv, SearchInv, Entry
<1>2. /\ filter' = filter /\ request' = request /\ modelMatched' = modelMatched /\ slot' = slot
      /\ keyMatched' = keyMatched /\ decision' = decision
      /\ pc' = IF candidate' # <<>> THEN "glob" ELSE pc
  BY DEF Entry
<1>3. PICK entry \in unseen:
         /\ unseen' = unseen \ {entry}
         /\ candidate' = IF entry.name = Carriers[slot] THEN BoundValue(entry) ELSE <<>>
  BY DEF Entry
<1>4. BoundValue(entry) = IF Carries(entry) THEN CallerKey ELSE <<>>
  BY <1>1, EntryYields DEF TypeInv
<1>5. candidate' = IF entry.name = Carriers[slot] /\ Carries(entry) THEN CallerKey ELSE <<>>
  BY <1>3, <1>4
<1>6. /\ CallerKey' = CallerKey /\ LiteralHit' = LiteralHit /\ HasWildcard' = HasWildcard
      /\ (UsesModels /\ ModelMatches)' = (UsesModels /\ ModelMatches)
      /\ ModelDecides(modelMatched)' = ModelDecides(modelMatched)
      /\ Carried' = Carried /\ \A e \in request.headers: Carries(e)' <=> Carries(e)
  BY <1>2 DEF CallerKey, LiteralHit, HasWildcard, UsesModels, ModelMatches, ModelDecides,
              UsesKeys, Carried, Carries
<1>7. slot \in 1..Len(Carriers)
  BY <1>1 DEF TypeInv, Carriers
<1>8. pc' \in {"search", "glob"} /\ (pc' = "glob" <=> candidate' # <<>>)
  BY <1>1, <1>2
<1>9. TypeInv'
  BY <1>1, <1>2, <1>8 DEF TypeInv
<1>10. ModelInv'
  BY <1>1, <1>2, <1>6, <1>8 DEF ModelInv
<1>11. SearchInv'
  <2> SUFFICES ASSUME pc' = "search"
               PROVE  /\ CallerKey' # <<>> /\ ~LiteralHit' /\ HasWildcard'
                      /\ slot' >= 1 /\ candidate' = <<>> /\ ~keyMatched'
                      /\ unseen' \subseteq request'.headers
                      /\ \A e \in request'.headers: Met(e)' => ~Carries(e)'
    BY DEF SearchInv
  <2>1. candidate' = <<>> /\ ~ (entry.name = Carriers[slot] /\ Carries(entry))
    BY <1>1, <1>5, <1>8
  <2>2. ASSUME NEW e \in request.headers, Met(e)' PROVE ~Carries(e)
    <3>1. Met(e) \/ (e = entry /\ e.name = Carriers[slot])
      BY <1>2, <1>3, <2>2 DEF Met
    <3> QED BY <1>1, <2>1, <3>1
  <2>3. \A e \in request'.headers: Met(e)' => ~Carries(e)'
    BY <1>2, <1>6, <2>2
  <2> QED BY <1>1, <1>2, <1>3, <1>6, <2>1, <2>3
<1>12. WildcardInv'
  <2> SUFFICES ASSUME pc' = "glob"
               PROVE  CallerKey' # <<>> /\ candidate' = CallerKey' /\ Carried' /\ ~LiteralHit'
    BY DEF WildcardInv
  <2>1. entry.name = Carriers[slot] /\ Carries(entry) /\ candidate' = CallerKey
    BY <1>5, <1>8
  <2>2. Carried
    BY <1>1, <1>7, <2>1 DEF Carried, Carries
  <2> QED BY <1>1, <1>6, <2>1, <2>2
<1>13. KeyInv' /\ DecisionIsTheCallers'
  BY <1>8 DEF KeyInv, DecisionIsTheCallers
<1>14. SearchFindsCaller'
  BY <1>5, <1>6, <1>8 DEF SearchFindsCaller
<1> QED BY <1>9, <1>10, <1>11, <1>12, <1>13, <1>14 DEF FilterInv

LEMMA CarriedIsMet ==
    Carried <=> \E entry \in request.headers:
                    /\ \E n \in 1..Len(Carriers): entry.name = Carriers[n]
                    /\ Carries(entry)
BY DEF Carried, Carries

LEMMA NextCarrierStep == FilterInv /\ NextCarrier => FilterInv'
<1> SUFFICES ASSUME FilterInv, NextCarrier PROVE FilterInv'
  OBVIOUS
<1>1. /\ TypeInv /\ pc = "search" /\ unseen = {}
      /\ (modelMatched <=> UsesModels /\ ModelMatches) /\ ~ModelDecides(modelMatched)
      /\ CallerKey # <<>> /\ ~LiteralHit /\ HasWildcard
      /\ slot >= 1 /\ candidate = <<>> /\ ~keyMatched
      /\ \A entry \in request.headers: Met(entry) => ~Carries(entry)
  BY DEF FilterInv, ModelInv, SearchInv, NextCarrier
<1>2. /\ filter' = filter /\ request' = request /\ modelMatched' = modelMatched
      /\ keyMatched' = keyMatched /\ decision' = decision /\ candidate' = candidate
  BY DEF NextCarrier
<1>3. /\ CallerKey' = CallerKey /\ LiteralHit' = LiteralHit /\ HasWildcard' = HasWildcard
      /\ (UsesModels /\ ModelMatches)' = (UsesModels /\ ModelMatches)
      /\ ModelDecides(modelMatched)' = ModelDecides(modelMatched) /\ KeyMatches' = KeyMatches
      /\ Carried' = Carried /\ \A e \in request.headers: Carries(e)' <=> Carries(e)
  BY <1>2 DEF CallerKey, LiteralHit, HasWildcard, UsesModels, ModelMatches, ModelDecides,
              UsesKeys, Carried, Carries, KeyMatches
<1>4. Len(Carriers) = 3 /\ slot \in 1..3
  BY <1>1 DEF TypeInv, Carriers
<1>5. CASE slot < LastSlot
  <2>1. slot' = slot + 1 /\ unseen' = request.headers /\ pc' = pc
    BY <1>5 DEF NextCarrier
  <2>2. slot' \in 1..3
    BY <1>4, <1>5, <2>1 DEF LastSlot
  <2>3. ASSUME NEW e \in request.headers, Met(e)' PROVE Met(e)
    <3>1. PICK n \in 1..Len(Carriers): n < slot' /\ e.name = Carriers[n]
      BY <1>2, <2>1, <2>3 DEF Met
    <3>2. n < slot \/ n = slot
      BY <1>4, <2>1, <3>1
    <3> QED BY <1>1, <3>1, <3>2 DEF Met
  <2>4. SearchInv'
    <3>1. \A e \in request'.headers: Met(e)' => ~Carries(e)'
      BY <1>1, <1>2, <1>3, <2>3
    <3>2. slot' >= 1 /\ unseen' \subseteq request'.headers
      BY <1>2, <2>1, <2>2
    <3> QED BY <1>1, <1>2, <1>3, <3>1, <3>2 DEF SearchInv
  <2>5. TypeInv'
    BY <1>1, <1>2, <1>4, <2>1, <2>2 DEF TypeInv
  <2>6. ModelInv'
    BY <1>1, <1>2, <1>3, <2>1 DEF ModelInv
  <2>7. WildcardInv' /\ KeyInv' /\ DecisionIsTheCallers' /\ SearchFindsCaller'
    BY <1>1, <1>2, <2>1 DEF WildcardInv, KeyInv, DecisionIsTheCallers, SearchFindsCaller
  <2> QED BY <2>4, <2>5, <2>6, <2>7 DEF FilterInv
<1>6. CASE ~ (slot < LastSlot)
  <2>1. slot' = slot /\ unseen' = unseen /\ pc' = "decide"
    BY <1>6 DEF NextCarrier
  <2>2. slot = 3
    BY <1>4, <1>6 DEF LastSlot
  <2>3. ~Carried
    <3>1. \A n \in 1..Len(Carriers): n < slot \/ n = slot
      BY <1>4, <2>2
    <3>2. ASSUME NEW e \in request.headers, NEW n \in 1..Len(Carriers), e.name = Carriers[n]
          PROVE  ~Carries(e)
      BY <1>1, <3>1, <3>2 DEF Met
    <3> QED BY <3>2, CarriedIsMet
  <2>4. ~KeyMatches
    BY <1>1, <2>3 DEF KeyMatches, LiteralHit
  <2>5. TypeInv'
    BY <1>1, <1>2, <1>4, <2>1 DEF TypeInv
  <2>6. ModelInv' /\ KeyInv'
    BY <1>1, <1>2, <1>3, <2>1, <2>4 DEF ModelInv, KeyInv
  <2>7. SearchInv' /\ WildcardInv' /\ DecisionIsTheCallers'
    BY <2>1 DEF SearchInv, WildcardInv, DecisionIsTheCallers
  <2>8. SearchFindsCaller'
    BY <1>1, <1>2, <1>3, <2>3 DEF SearchFindsCaller
  <2> QED BY <2>5, <2>6, <2>7, <2>8 DEF FilterInv
<1> QED BY <1>5, <1>6

LEMMA WildcardStep == FilterInv /\ Glob => FilterInv'
<1> SUFFICES ASSUME FilterInv, Glob PROVE FilterInv'
  OBVIOUS
<1>1. /\ TypeInv /\ pc = "glob"
      /\ (modelMatched <=> UsesModels /\ ModelMatches) /\ ~ModelDecides(modelMatched)
      /\ CallerKey # <<>> /\ candidate = CallerKey /\ Carried /\ ~LiteralHit
  BY DEF FilterInv, ModelInv, WildcardInv, Glob
<1>2. /\ filter' = filter /\ request' = request /\ modelMatched' = modelMatched /\ slot' = slot
      /\ unseen' = unseen /\ decision' = decision /\ candidate' = candidate
      /\ pc' = "decide" /\ keyMatched' = AnyGlob(filter.apiKeys, CallerKey)
  BY <1>1 DEF Glob
<1>3. AnyGlob(filter.apiKeys, CallerKey) <=> KeyMatches
  BY <1>1 DEF AnyGlob, KeyMatches, LiteralHit
<1>4. /\ CallerKey' = CallerKey /\ (UsesModels /\ ModelMatches)' = (UsesModels /\ ModelMatches)
      /\ ModelDecides(modelMatched)' = ModelDecides(modelMatched) /\ KeyMatches' = KeyMatches
  BY <1>2 DEF CallerKey, UsesModels, ModelMatches, ModelDecides, UsesKeys, Carried, KeyMatches
<1>5. TypeInv'
  BY <1>1, <1>2 DEF TypeInv, AnyGlob
<1>6. ModelInv' /\ KeyInv'
  BY <1>1, <1>2, <1>3, <1>4 DEF ModelInv, KeyInv
<1>7. SearchInv' /\ WildcardInv' /\ DecisionIsTheCallers'
  BY <1>2 DEF SearchInv, WildcardInv, DecisionIsTheCallers
<1>8. SearchFindsCaller'
  BY <1>1, <1>2, <1>4 DEF SearchFindsCaller
<1> QED BY <1>5, <1>6, <1>7, <1>8 DEF FilterInv

LEMMA DecideStep == FilterInv /\ Decide => FilterInv'
<1> SUFFICES ASSUME FilterInv, Decide PROVE FilterInv'
  OBVIOUS
<1>1. /\ TypeInv /\ pc = "decide"
      /\ (modelMatched <=> UsesModels /\ ModelMatches)
      /\ IF ModelDecides(modelMatched) THEN ~keyMatched ELSE keyMatched <=> KeyMatches
      /\ candidate \in {<<>>, CallerKey}
  BY DEF FilterInv, ModelInv, KeyInv, SearchFindsCaller, Decide
<1>2. /\ filter' = filter /\ request' = request /\ modelMatched' = modelMatched /\ slot' = slot
      /\ unseen' = unseen /\ keyMatched' = keyMatched /\ candidate' = candidate
      /\ pc' = "done"
  BY DEF Decide
<1> DEFINE matched == IF UsesModels /\ UsesKeys /\ filter.logic = "and"
                      THEN modelMatched /\ keyMatched ELSE modelMatched \/ keyMatched
<1>3. decision' = IF ~Enabled \/ matched = (filter.mode = "include") THEN "process" ELSE "bypass"
  BY DEF Decide
<1>4. matched \in BOOLEAN
  BY <1>1 DEF TypeInv
<1>5. Enabled => (matched <=> FilterMatches)
  <2>1. ~UsesKeys => ~KeyMatches
    BY DEF UsesKeys, KeyMatches
  <2>2. ModelDecides(modelMatched) <=>
           ~UsesKeys \/ (UsesModels /\ (IF filter.logic = "and" THEN ~modelMatched ELSE modelMatched))
    BY DEF ModelDecides
  <2> QED BY <1>1, <2>1, <2>2 DEF Enabled, FilterMatches
<1> HIDE DEF matched
<1>6. decision' = "process" <=> ~Enabled \/ (FilterMatches <=> filter.mode = "include")
  <2>1. matched = (filter.mode = "include") <=> (matched <=> filter.mode = "include")
    BY <1>4
  <2>2. decision' = "process" <=> ~Enabled \/ matched = (filter.mode = "include")
    BY <1>3
  <2> QED BY <1>5, <2>1, <2>2
<1>7. /\ (~Enabled \/ (FilterMatches <=> filter.mode = "include"))'
         <=> (~Enabled \/ (FilterMatches <=> filter.mode = "include"))
      /\ (UsesModels /\ ModelMatches)' = (UsesModels /\ ModelMatches)
      /\ ModelDecides(modelMatched)' = ModelDecides(modelMatched)
      /\ KeyMatches' = KeyMatches /\ CallerKey' = CallerKey
  BY <1>2 DEF CallerKey, UsesModels, ModelMatches, ModelDecides, UsesKeys, Carried, KeyMatches,
              Enabled, FilterMatches
<1>8. DecisionIsTheCallers'
  BY <1>6, <1>7 DEF DecisionIsTheCallers
<1>9. TypeInv'
  BY <1>1, <1>2 DEF TypeInv
<1>10. ModelInv' /\ KeyInv'
  BY <1>1, <1>2, <1>7 DEF ModelInv, KeyInv
<1>11. SearchInv' /\ WildcardInv' /\ SearchFindsCaller'
  BY <1>1, <1>2, <1>7 DEF SearchInv, WildcardInv, SearchFindsCaller
<1> QED BY <1>8, <1>9, <1>10, <1>11 DEF FilterInv

LEMMA FilterIdle == FilterInv /\ UNCHANGED vars => FilterInv'
BY DEF FilterInv, TypeInv, ModelInv, SearchInv, WildcardInv, KeyInv, SearchFindsCaller,
       DecisionIsTheCallers, vars, CallerKey, LiteralHit, HasWildcard, Met, Carries, Carried,
       UsesModels, UsesKeys, ModelMatches, ModelDecides, KeyMatches, FilterMatches, Enabled

LEMMA FilterStep == FilterInv /\ [Next]_vars => FilterInv'
BY ModelStep, LiteralStep, EntryStep, NextCarrierStep, WildcardStep, DecideStep, FilterIdle DEF Next

\* For any filter and any headers, the key put to the globs is the caller's, and a
\* search that ends without one has passed no header that carries it
\* (authenticatedCallerAPIKey, scopeBoundHeaderValue).
THEOREM SearchSound == Spec => []SearchFindsCaller
<1>1. FilterInv => SearchFindsCaller
  BY DEF FilterInv
<1> QED BY FilterStart, FilterStep, <1>1, PTL DEF Spec

\* For any filter and any request, a request is processed exactly if the model and
\* the authenticated caller say so, whatever the order of the headers and whatever
\* else they hold (shouldProcess, matchesModel, matchesAPIKey).
THEOREM DecisionSound == Spec => []DecisionIsTheCallers
<1>1. FilterInv => DecisionIsTheCallers
  BY DEF FilterInv
<1> QED BY FilterStart, FilterStep, <1>1, PTL DEF Spec

-----------------------------------------------------------------------------
(* Wildcard patterns: alignments, one token at a time. *)

LEMMA GreatestBelow ==
    ASSUME NEW N \in Nat, NEW S, S \subseteq 0..N, S # {}
    PROVE  \E n \in S: \A m \in S: m <= n
<1> DEFINE T == {m + 1: m \in S}
<1>1. \A m \in S: m + 1 \in T
  OBVIOUS
<1>2. T \subseteq 1..(N + 1) /\ T # {} /\ N + 1 \in Nat
  <2>1. \A m \in S: m \in Nat /\ m <= N
    OBVIOUS
  <2>2. \A k \in T: k \in 1..(N + 1)
    BY <2>1
  <2>3. T # {}
    BY <1>1
  <2> QED BY <2>2, <2>3
<1>3. \A k \in T: \E m \in S: k = m + 1
  OBVIOUS
<1> HIDE DEF T
<1>4. PICK k \in T: \A i \in T: i <= k
  BY <1>2, GreatestIndex
<1>5. PICK n \in S: k = n + 1
  BY <1>3
<1>6. ASSUME NEW m \in S PROVE m <= n
  <2>1. m + 1 <= n + 1 /\ m \in Int /\ n \in Int
    BY <1>1, <1>4, <1>5
  <2> QED BY <2>1
<1> QED BY <1>6

LEMMA AlignedNone ==
    ASSUME NEW glob, NEW text, NEW j \in Nat
    PROVE  Aligned(glob, 0, text, j) <=> j = 0
<1>1. ASSUME j = 0 PROVE Aligned(glob, 0, text, j)
  <2> DEFINE cut == [n \in 0..0 |-> 0]
  <2>1. cut \in [0..0 -> 0..j] /\ cut[0] = 0
    BY <1>1
  <2> HIDE DEF cut
  <2> QED BY <1>1, <2>1 DEF Aligned
<1> QED BY <1>1 DEF Aligned

\* Places that never go back lie before the last of them.
LEMMA CutsOrdered ==
    ASSUME NEW k \in Nat, NEW j \in Nat, NEW cut \in [0..k -> 0..j],
           \A n \in 1..k: cut[n - 1] <= cut[n]
    PROVE  \A n \in 0..k: cut[n] <= cut[k]
<1> DEFINE Past == {n \in 0..k: cut[n] > cut[k]}
<1>1. Past = {}
  <2> SUFFICES ASSUME Past # {} PROVE FALSE
    OBVIOUS
  <2>1. Past \subseteq 0..k /\ \A n: n \in Past <=> n \in 0..k /\ cut[n] > cut[k]
    OBVIOUS
  <2> HIDE DEF Past
  <2>2. PICK n \in Past: \A m \in Past: m <= n
    BY <2>1, GreatestBelow
  <2>3. n \in 0..k /\ cut[n] > cut[k]
    BY <2>1
  <2>4. n # k
    BY <2>3
  <2>5. n + 1 \in 1..k /\ n + 1 \in 0..k /\ n + 1 - 1 = n /\ ~ (n + 1 <= n)
    BY <2>3, <2>4
  <2>6. cut[n] <= cut[n + 1]
    <3>1. PICK m \in 1..k: m = n + 1 /\ m - 1 = n
      BY <2>3, <2>5
    <3>2. cut[m - 1] <= cut[m]
      OBVIOUS
    <3> QED BY <3>1, <3>2
  <2>7. cut[n + 1] > cut[k]
    BY <2>3, <2>5, <2>6
  <2> QED BY <2>1, <2>2, <2>5, <2>7
<1> QED BY <1>1

\* An alignment of k + 1 tokens is one of k tokens and a place for the last.
LEMMA AlignedNext ==
    ASSUME NEW glob, NEW text, NEW k \in Nat, NEW j \in Nat
    PROVE  Aligned(glob, k + 1, text, j) <=>
              IF glob[k + 1] = Star THEN \E i \in 0..j: Aligned(glob, k, text, i)
              ELSE j > 0 /\ Aligned(glob, k, text, j - 1) /\ glob[k + 1] \in {Question, text[j]}
<1> DEFINE Step(cut, n) == IF glob[n] = Star THEN cut[n - 1] <= cut[n]
                           ELSE /\ cut[n] = cut[n - 1] + 1
                                /\ glob[n] \in {Question, text[cut[n]]}
<1>1. ASSUME NEW i \in 0..j, Aligned(glob, k, text, i),
             IF glob[k + 1] = Star THEN TRUE
             ELSE j = i + 1 /\ glob[k + 1] \in {Question, text[j]}
      PROVE  Aligned(glob, k + 1, text, j)
  <2>1. PICK cut \in [0..k -> 0..i]: cut[0] = 0 /\ cut[k] = i /\ \A n \in 1..k: Step(cut, n)
    BY <1>1 DEF Aligned
  <2> DEFINE more == [n \in 0..(k + 1) |-> IF n = k + 1 THEN j ELSE cut[n]]
  <2>2. more \in [0..(k + 1) -> 0..j]
    <3>1. \A n \in 0..(k + 1): n # k + 1 => n \in 0..k
      OBVIOUS
    <3>2. \A n \in 0..k: cut[n] \in 0..j
      OBVIOUS
    <3> QED BY <3>1, <3>2
  <2>3. more[k + 1] = j /\ \A n \in 0..k: more[n] = cut[n]
    OBVIOUS
  <2> HIDE DEF more
  <2>4. more[0] = 0
    BY <2>1, <2>3
  <2>5. ASSUME NEW n \in 1..(k + 1) PROVE Step(more, n)
    <3>1. CASE n = k + 1
      <4>1. n - 1 = k /\ k \in 0..k
        BY <3>1
      <4>2. more[n] = j /\ more[n - 1] = i
        BY <2>1, <2>3, <3>1, <4>1
      <4> QED BY <1>1, <3>1, <4>2
    <3>2. CASE n # k + 1
      <4>1. n \in 1..k /\ n \in 0..k /\ n - 1 \in 0..k
        BY <3>2
      <4>2. more[n] = cut[n] /\ more[n - 1] = cut[n - 1]
        BY <2>3, <4>1
      <4> QED BY <2>1, <4>1, <4>2
    <3> QED BY <3>1, <3>2
  <2> QED BY <2>2, <2>3, <2>4, <2>5 DEF Aligned
<1>2. ASSUME Aligned(glob, k + 1, text, j)
      PROVE  \E i \in 0..j: /\ Aligned(glob, k, text, i)
                            /\ IF glob[k + 1] = Star THEN TRUE
                               ELSE j = i + 1 /\ glob[k + 1] \in {Question, text[j]}
  <2>1. PICK more \in [0..(k + 1) -> 0..j]:
           more[0] = 0 /\ more[k + 1] = j /\ \A n \in 1..(k + 1): Step(more, n)
    BY <1>2 DEF Aligned
  <2> DEFINE cut == [n \in 0..k |-> more[n]]
             i == more[k]
  <2>2. i \in 0..j /\ \A n \in 0..k: cut[n] = more[n] /\ more[n] \in 0..j /\ n \in 0..(k + 1)
    OBVIOUS
  <2>3. cut \in [0..k -> 0..j]
    OBVIOUS
  <2> HIDE DEF cut
  <2>4. \A n \in 1..k: n \in 1..(k + 1) /\ n \in 0..k /\ n - 1 \in 0..k
    OBVIOUS
  <2>5. \A n \in 1..k: Step(cut, n)
    BY <2>1, <2>2, <2>4
  <2>6. \A n \in 1..k: cut[n - 1] <= cut[n]
    BY <2>2, <2>4, <2>5
  <2>7. \A n \in 0..k: cut[n] <= cut[k]
    BY <2>3, <2>6, CutsOrdered
  <2>8. cut \in [0..k -> 0..i]
    <3>1. \A n \in 0..k: cut[n] \in 0..i
      BY <2>2, <2>7
    <3> QED BY <2>3, <3>1
  <2>9. cut[0] = 0 /\ cut[k] = i
    BY <2>1, <2>2
  <2>10. Aligned(glob, k, text, i)
    BY <2>5, <2>8, <2>9 DEF Aligned
  <2>11. k + 1 \in 1..(k + 1) /\ k + 1 - 1 = k
    OBVIOUS
  <2>12. Step(more, k + 1)
    BY <2>1, <2>11
  <2>13. IF glob[k + 1] = Star THEN TRUE
         ELSE j = i + 1 /\ glob[k + 1] \in {Question, text[j]}
    BY <2>1, <2>11, <2>12
  <2> QED BY <2>2, <2>10, <2>13
<1>3. CASE glob[k + 1] = Star
  BY <1>1, <1>2, <1>3
<1>4. CASE glob[k + 1] # Star
  <2>1. ASSUME Aligned(glob, k + 1, text, j)
        PROVE  j > 0 /\ Aligned(glob, k, text, j - 1) /\ glob[k + 1] \in {Question, text[j]}
    <3>1. PICK i \in 0..j: /\ Aligned(glob, k, text, i)
                           /\ j = i + 1 /\ glob[k + 1] \in {Question, text[j]}
      BY <1>2, <1>4, <2>1
    <3>2. j > 0 /\ j - 1 = i
      BY <3>1
    <3> QED BY <3>1, <3>2
  <2>2. ASSUME j > 0, Aligned(glob, k, text, j - 1), glob[k + 1] \in {Question, text[j]}
        PROVE  Aligned(glob, k + 1, text, j)
    <3>1. j - 1 \in 0..j /\ j = j - 1 + 1
      BY <2>2
    <3> QED BY <1>1, <1>4, <2>2, <3>1
  <2> QED BY <1>4, <2>1, <2>2
<1> QED BY <1>3, <1>4

\* Only the tokens aligned matter.
LEMMA AlignedPrefix ==
    ASSUME NEW glob, NEW other, NEW text, NEW k \in Nat, NEW j \in Nat,
           \A n \in 1..k: glob[n] = other[n]
    PROVE  Aligned(glob, k, text, j) <=> Aligned(other, k, text, j)
<1> DEFINE Fits(g, cut) ==
              /\ cut[0] = 0 /\ cut[k] = j
              /\ \A n \in 1..k:
                    IF g[n] = Star THEN cut[n - 1] <= cut[n]
                    ELSE /\ cut[n] = cut[n - 1] + 1
                         /\ g[n] \in {Question, text[cut[n]]}
<1>1. \A cut \in [0..k -> 0..j]: Fits(glob, cut) <=> Fits(other, cut)
  OBVIOUS
<1>2. /\ Aligned(glob, k, text, j) <=> \E cut \in [0..k -> 0..j]: Fits(glob, cut)
      /\ Aligned(other, k, text, j) <=> \E cut \in [0..k -> 0..j]: Fits(other, cut)
  BY DEF Aligned
<1> HIDE DEF Fits
<1> QED BY <1>1, <1>2

(* Words and bits. *)

LEMMA WordsFacts ==
    /\ WordBits \in Nat /\ WordBits > 0
    /\ Star \notin Chars /\ Question \notin Chars /\ Star # Question
BY GlobAssumption

\* A product grows with its factor.
LEMMA ProductGrows ==
    ASSUME NEW v \in Nat, NEW w \in Nat, v < w
    PROVE  WordBits * v + WordBits <= WordBits * w
<1>1. PICK d \in Nat: w = v + 1 + d
  <2>1. w - v - 1 \in Nat /\ w = v + 1 + (w - v - 1)
    OBVIOUS
  <2> QED BY <2>1
<1>2. WordBits * w = WordBits * v + WordBits + WordBits * d
  BY <1>1, WordsFacts
<1>3. WordBits * d \in Nat /\ WordBits * v \in Nat
  BY WordsFacts
<1> QED BY <1>2, <1>3, WordsFacts

LEMMA PlaceUnique ==
    ASSUME NEW v \in Nat, NEW w \in Nat, NEW a \in Bits, NEW b \in Bits,
           Position(v, a) = Position(w, b)
    PROVE  v = w /\ a = b
<1>1. WordBits * v \in Nat /\ WordBits * w \in Nat /\ a \in 0..(WordBits - 1) /\ b \in 0..(WordBits - 1)
  BY WordsFacts DEF Bits
<1>2. WordBits * v + a = WordBits * w + b
  BY DEF Position
<1>3. ~ (v < w)
  BY <1>1, <1>2, ProductGrows, WordsFacts
<1>4. ~ (w < v)
  BY <1>1, <1>2, ProductGrows, WordsFacts
<1>5. v = w
  BY <1>3, <1>4
<1> QED BY <1>1, <1>2, <1>5

LEMMA PlaceOf ==
    ASSUME NEW k \in Nat
    PROVE  /\ k \div WordBits \in Nat /\ k % WordBits \in Bits
           /\ Position(k \div WordBits, k % WordBits) = k
<1>1. k \div WordBits \in Int /\ k % WordBits \in 0..(WordBits - 1)
      /\ k = (k % WordBits) + WordBits * (k \div WordBits)
  BY WordsFacts
<1>2. k \div WordBits >= 0
  BY WordsFacts
<1>3. PICK w \in Int, b \in 0..(WordBits - 1): w = k \div WordBits /\ b = k % WordBits
  BY <1>1
<1>4. w \in Nat /\ WordBits * w + b = k
  <2>1. WordBits * w \in Int /\ b \in Int /\ k = b + WordBits * w
    BY <1>1, <1>3, WordsFacts
  <2>2. w >= 0
    BY <1>2, <1>3
  <2> QED BY <2>1, <2>2
<1> QED BY <1>3, <1>4 DEF Position, Bits

LEMMA PlaceExists ==
    ASSUME NEW S, tokens \in Seq(S), NEW k \in 0..Len(tokens)
    PROVE  k \div WordBits \in Words
<1>1. Len(tokens) \in Nat
  BY LenProperties
<1>2. PICK n \in Nat: n = Len(tokens) + WordBits /\ k + WordBits <= n
  <2>1. Len(tokens) + WordBits \in Nat /\ k + WordBits <= Len(tokens) + WordBits
    BY <1>1, WordsFacts
  <2> QED BY <2>1
<1>3. /\ Position(n \div WordBits, n % WordBits) = n /\ n % WordBits \in Bits
      /\ n \div WordBits \in Nat
  BY PlaceOf
<1>4. /\ Position(k \div WordBits, k % WordBits) = k /\ k % WordBits \in Bits
      /\ k \div WordBits \in Nat
  BY <1>1, PlaceOf
<1>5. PICK v \in Nat, a \in Bits, w \in Nat, b \in Bits:
         v = k \div WordBits /\ a = k % WordBits /\ w = n \div WordBits /\ b = n % WordBits
  BY <1>3, <1>4
<1>6. k = WordBits * v + a /\ n = WordBits * w + b
  BY <1>3, <1>4, <1>5 DEF Position
<1>7. v < w
  <2>1. CASE w < v
    <3>1. WordBits * w + WordBits <= WordBits * v /\ WordBits * v \in Nat /\ WordBits * w \in Nat
      BY <2>1, ProductGrows, WordsFacts
    <3> QED BY <1>1, <1>2, <1>6, <3>1, WordsFacts DEF Bits
  <2>2. CASE w = v
    <3>1. WordBits * v \in Nat /\ a \in 0..(WordBits - 1) /\ b \in 0..(WordBits - 1)
      BY WordsFacts DEF Bits
    <3> QED BY <1>1, <1>2, <1>6, <2>2, <3>1, WordsFacts
  <2> QED BY <2>1, <2>2
<1> QED BY <1>2, <1>5, <1>7 DEF Words, NumWords

\* The position is among those the words hold.
On(buffer, k) == \E w \in Words, b \in Bits: k = Position(w, b) /\ b \in buffer[w]

Places == {Position(w, b): w \in Words, b \in Bits}

LEMMA WordsAreNat == tokens \in Seq(Chars \cup {Star, Question}) => Words \subseteq Nat
<1> SUFFICES ASSUME tokens \in Seq(Chars \cup {Star, Question}) PROVE Words \subseteq Nat
  OBVIOUS
<1>1. Len(tokens) + WordBits \in Nat
  BY LenProperties, WordsFacts
<1>2. NumWords \in Nat
  BY <1>1, PlaceOf DEF NumWords
<1> QED BY <1>2 DEF Words

LEMMA OnWord ==
    ASSUME tokens \in Seq(Chars \cup {Star, Question}), NEW buffer, NEW w \in Words, NEW b \in Bits
    PROVE  On(buffer, Position(w, b)) <=> b \in buffer[w]
<1>1. \A v \in Words, a \in Bits: Position(w, b) = Position(v, a) => v = w /\ a = b
  BY WordsAreNat, PlaceUnique
<1> QED BY <1>1 DEF On

LEMMA IsSetOn ==
    ASSUME tokens \in Seq(Chars \cup {Star, Question}), NEW buffer, NEW k \in 0..Len(tokens)
    PROVE  IsSet(buffer, k) <=> On(buffer, k)
<1>1. k \in Nat
  BY LenProperties
<1>2. PICK w \in Words, b \in Bits: w = k \div WordBits /\ b = k % WordBits /\ Position(w, b) = k
  BY <1>1, PlaceOf, PlaceExists
<1>3. On(buffer, k) <=> b \in buffer[w]
  BY <1>2, OnWord
<1> QED BY <1>2, <1>3 DEF IsSet

\* The position before one is in the same word, or the last of the word below.
LEMMA PlaceBefore ==
    ASSUME tokens \in Seq(Chars \cup {Star, Question}), NEW w \in Words, NEW b \in Bits
    PROVE  /\ Position(w, b) \in Nat
           /\ b > 0 => b - 1 \in Bits /\ Position(w, b - 1) = Position(w, b) - 1
           /\ b = 0 /\ w > 0 => /\ w - 1 \in Words /\ WordBits - 1 \in Bits
                                /\ Position(w - 1, WordBits - 1) = Position(w, b) - 1
           /\ b = 0 /\ w = 0 => Position(w, b) = 0
           /\ b > 0 \/ w > 0 => Position(w, b) > 0
<1>1. w \in Nat /\ b \in 0..(WordBits - 1) /\ WordBits * w \in Nat
  BY WordsAreNat, WordsFacts DEF Bits
<1>2. Position(w, b) \in Nat
  BY <1>1 DEF Position
<1>3. b > 0 => b - 1 \in Bits /\ Position(w, b - 1) = Position(w, b) - 1
  BY <1>1, WordsFacts DEF Position, Bits
<1>4. ASSUME b = 0, w > 0
      PROVE  /\ w - 1 \in Words /\ WordBits - 1 \in Bits
             /\ Position(w - 1, WordBits - 1) = Position(w, b) - 1
  <2>1. w - 1 \in Words
    <3>1. PICK n \in Nat: n = NumWords
      <4>1. Len(tokens) + WordBits \in Nat
        BY LenProperties, WordsFacts
      <4> QED BY <4>1, PlaceOf DEF NumWords
    <3> QED BY <1>1, <1>4, <3>1 DEF Words
  <2>2. WordBits - 1 \in Bits
    BY WordsFacts DEF Bits
  <2>3. WordBits * (w - 1) = WordBits * w - WordBits
    BY <1>1, WordsFacts
  <2>4. Position(w - 1, WordBits - 1) = WordBits * w - 1 /\ Position(w, b) = WordBits * w
    BY <1>1, <1>4, <2>3, WordsFacts DEF Position
  <2> QED BY <2>1, <2>2, <2>4
<1>5. b = 0 /\ w = 0 => Position(w, b) = 0
  BY WordsFacts DEF Position
<1>6. w > 0 => Position(w, b) > 0
  BY <1>1, WordsFacts DEF Position
<1>7. b > 0 => Position(w, b) > 0
  BY <1>1 DEF Position
<1> QED BY <1>2, <1>3, <1>4, <1>5, <1>6, <1>7

\* Across the words, a shift takes every position to the next.
LEMMA ShiftMoves ==
    ASSUME tokens \in Seq(Chars \cup {Star, Question}),
           NEW buffer, NEW w \in Words, NEW b \in Bits,
           \A v \in Words: buffer[v] \subseteq Bits
    PROVE  b \in Shifted(buffer, w) <=>
              Position(w, b) > 0 /\ On(buffer, Position(w, b) - 1)
<1>1. w \in Nat /\ b \in 0..(WordBits - 1)
  BY WordsAreNat DEF Bits
<1>2. b \in ShiftLeft(buffer[w]) <=> b > 0 /\ b - 1 \in buffer[w]
  <2>1. ASSUME b \in ShiftLeft(buffer[w]) PROVE b > 0 /\ b - 1 \in buffer[w]
    <3>1. PICK a \in buffer[w]: b = a + 1
      BY <2>1 DEF ShiftLeft
    <3>2. a \in 0..(WordBits - 1)
      BY DEF Bits
    <3>3. b > 0 /\ b - 1 = a
      BY <3>1, <3>2, WordsFacts
    <3> QED BY <3>3
  <2>2. ASSUME b > 0, b - 1 \in buffer[w] PROVE b \in ShiftLeft(buffer[w])
    <3>1. b = (b - 1) + 1
      BY <1>1, WordsFacts
    <3> QED BY <2>2, <3>1 DEF ShiftLeft
  <2> QED BY <2>1, <2>2
<1>3. b \in Shifted(buffer, w) <=>
         \/ b > 0 /\ b - 1 \in buffer[w]
         \/ b = 0 /\ w # 0 /\ WordBits - 1 \in buffer[w - 1]
  BY <1>2 DEF Shifted, Carry
<1>4. CASE b > 0
  <2>1. On(buffer, Position(w, b) - 1) <=> b - 1 \in buffer[w]
    <3>1. b - 1 \in Bits /\ Position(w, b - 1) = Position(w, b) - 1
      BY <1>4, PlaceBefore
    <3>2. PICK a \in Bits: a = b - 1
      BY <3>1
    <3>3. On(buffer, Position(w, a)) <=> a \in buffer[w]
      BY OnWord
    <3>4. Position(w, a) = Position(w, b) - 1
      BY <3>1, <3>2
    <3> QED BY <3>2, <3>3, <3>4
  <2> QED BY <1>3, <1>4, <2>1, PlaceBefore
<1>5. CASE b = 0 /\ w # 0
  <2>1. w > 0
    BY <1>1, <1>5
  <2>2. On(buffer, Position(w, b) - 1) <=> WordBits - 1 \in buffer[w - 1]
    <3>1. /\ w - 1 \in Words /\ WordBits - 1 \in Bits
          /\ Position(w - 1, WordBits - 1) = Position(w, b) - 1
      BY <1>5, <2>1, PlaceBefore
    <3>2. PICK v \in Words, a \in Bits: v = w - 1 /\ a = WordBits - 1
      BY <3>1
    <3>3. On(buffer, Position(v, a)) <=> a \in buffer[v]
      BY OnWord
    <3>4. Position(v, a) = Position(w, b) - 1
      BY <3>1, <3>2
    <3> QED BY <3>2, <3>3, <3>4
  <2> QED BY <1>3, <1>5, <2>1, <2>2, PlaceBefore
<1>6. CASE b = 0 /\ w = 0
  BY <1>3, <1>6, PlaceBefore
<1> QED BY <1>1, <1>4, <1>5, <1>6

TokenAt(k, token) == k < Len(tokens) /\ tokens[k + 1] = token

\* What expandStars makes of the positions.
LEMMA ExpandOn ==
    ASSUME tokens \in Seq(Chars \cup {Star, Question}),
           NEW buffer, \A v \in Words: buffer[v] \subseteq Bits
    PROVE  /\ ExpandStars(buffer) \in [Words -> SUBSET Bits]
           /\ \A w \in Words, b \in Bits: LET k == Position(w, b) IN
                 b \in ExpandStars(buffer)[w] <=>
                    \/ On(buffer, k)
                    \/ k > 0 /\ On(buffer, k - 1) /\ TokenAt(k - 1, Star)
<1> DEFINE starred == [w \in Words |-> buffer[w] \cap Stars(w)]
<1>1. \A v \in Words: starred[v] \subseteq Bits
  OBVIOUS
<1>2. ExpandStars(buffer) = [w \in Words |-> buffer[w] \cup Shifted(starred, w)]
  BY DEF ExpandStars
<1>3. \A k: On(starred, k) <=> On(buffer, k) /\ TokenAt(k, Star)
  <2>1. ASSUME NEW k, NEW w \in Words, NEW b \in Bits, k = Position(w, b)
        PROVE  b \in starred[w] <=> b \in buffer[w] /\ TokenAt(k, Star)
    BY <2>1 DEF Stars, Bitmap, TokenAt
  <2> HIDE DEF starred
  <2> QED BY <2>1 DEF On
<1>4. \A w \in Words: Shifted(starred, w) \subseteq Bits
  <2>1. 0 \in Bits
    BY WordsFacts DEF Bits
  <2> QED BY <2>1 DEF Shifted, ShiftLeft, Carry
<1> HIDE DEF starred
<1>5. ASSUME NEW w \in Words, NEW b \in Bits
      PROVE  b \in ExpandStars(buffer)[w] <=>
                \/ On(buffer, Position(w, b))
                \/ /\ Position(w, b) > 0 /\ On(buffer, Position(w, b) - 1)
                   /\ TokenAt(Position(w, b) - 1, Star)
  <2>1. b \in ExpandStars(buffer)[w] <=> b \in buffer[w] \/ b \in Shifted(starred, w)
    BY <1>2
  <2>2. b \in Shifted(starred, w) <=>
           Position(w, b) > 0 /\ On(starred, Position(w, b) - 1)
    BY <1>1, ShiftMoves
  <2> QED BY <1>3, <2>1, <2>2, OnWord
<1> QED BY <1>2, <1>4, <1>5

\* What a rune makes of the positions, whichever form its literal has.
LEMMA SteppedOn ==
    ASSUME tokens \in Seq(Chars \cup {Star, Question}), NEW char,
           active \in [Words -> SUBSET Bits]
    PROVE  \A w \in Words:
              /\ Stepped(char)[w] \subseteq Bits
              /\ \A b \in Bits: LET k == Position(w, b) IN
                    b \in Stepped(char)[w] <=>
                       \/ On(active, k) /\ TokenAt(k, Star)
                       \/ /\ k > 0 /\ On(active, k - 1)
                          /\ TokenAt(k - 1, Question) \/ TokenAt(k - 1, char)
<1> DEFINE stepped == [w \in Words |->
               active[w] \cap (Questions(w) \cup IF Dense(char) THEN Literals(w, char) ELSE {})]
           listed == IF Dense(char) THEN {} ELSE {k \in Occurrences(char): IsSet(active, k)}
<1>1. \A w \in Words: Stepped(char)[w] =
         (active[w] \cap Stars(w)) \cup Shifted(stepped, w)
         \cup {b \in Bits: \E k \in listed: Position(w, b) = k + 1}
  BY DEF Stepped
<1>2. \A v \in Words: stepped[v] \subseteq Bits
  OBVIOUS
<1>3. \A k: On(stepped, k) <=>
         On(active, k) /\ (TokenAt(k, Question) \/ (Dense(char) /\ TokenAt(k, char)))
  <2>1. ASSUME NEW k, NEW w \in Words, NEW b \in Bits, k = Position(w, b)
        PROVE  b \in stepped[w] <=>
                  b \in active[w] /\ (TokenAt(k, Question) \/ (Dense(char) /\ TokenAt(k, char)))
    BY <2>1 DEF Questions, Literals, Bitmap, TokenAt
  <2> HIDE DEF stepped
  <2> QED BY <2>1 DEF On
<1>4. \A k \in Nat: k \in listed <=> ~Dense(char) /\ On(active, k) /\ TokenAt(k, char)
  <2>1. Len(tokens) \in Nat
    BY LenProperties
  <2>2. ASSUME NEW k \in Nat
        PROVE  k \in Occurrences(char) <=> TokenAt(k, char)
    BY <2>1 DEF Occurrences, TokenAt
  <2>3. ASSUME NEW k \in Nat, TokenAt(k, char) PROVE IsSet(active, k) <=> On(active, k)
    <3>1. k \in 0..Len(tokens)
      BY <2>1, <2>3 DEF TokenAt
    <3> QED BY <3>1, IsSetOn
  <2> QED BY <2>2, <2>3
<1>5. listed \subseteq Nat
  BY DEF Occurrences
<1>6. \A w \in Words: Shifted(stepped, w) \subseteq Bits
  <2>1. 0 \in Bits
    BY WordsFacts DEF Bits
  <2> QED BY <2>1 DEF Shifted, ShiftLeft, Carry
<1>7. \A w \in Words: Stars(w) \subseteq Bits
  BY DEF Stars, Bitmap
<1> HIDE DEF stepped, listed
<1>8. ASSUME NEW w \in Words PROVE Stepped(char)[w] \subseteq Bits
  BY <1>1, <1>6, <1>7
<1>9. ASSUME NEW w \in Words, NEW b \in Bits
      PROVE  b \in Stepped(char)[w] <=>
                \/ On(active, Position(w, b)) /\ TokenAt(Position(w, b), Star)
                \/ /\ Position(w, b) > 0 /\ On(active, Position(w, b) - 1)
                   /\ TokenAt(Position(w, b) - 1, Question) \/ TokenAt(Position(w, b) - 1, char)
  <2> DEFINE k == Position(w, b)
  <2>1. k \in Nat
    BY PlaceBefore
  <2>2. b \in active[w] \cap Stars(w) <=> On(active, k) /\ TokenAt(k, Star)
    <3>1. b \in active[w] <=> On(active, k)
      BY OnWord
    <3>2. b \in Stars(w) <=> TokenAt(k, Star)
      BY DEF Stars, Bitmap, TokenAt
    <3> QED BY <3>1, <3>2
  <2>3. b \in Shifted(stepped, w) <=> k > 0 /\ On(stepped, k - 1)
    BY <1>2, ShiftMoves
  <2> HIDE DEF k
  <2>4. (\E n \in listed: k = n + 1) <=> k > 0 /\ k - 1 \in listed
    <3>1. ASSUME NEW n \in listed, k = n + 1 PROVE k > 0 /\ k - 1 \in listed
      <4>1. n \in Nat
        BY <1>5
      <4>2. k > 0 /\ k - 1 = n
        BY <3>1, <4>1
      <4> QED BY <4>2
    <3>2. k = (k - 1) + 1
      BY <2>1
    <3> QED BY <3>1, <3>2
  <2>5. k > 0 => k - 1 \in Nat
    BY <2>1
  <2>6. k > 0 => (k - 1 \in listed <=>
                    ~Dense(char) /\ On(active, k - 1) /\ TokenAt(k - 1, char))
    BY <1>4, <2>5
  <2>7. k > 0 => (On(stepped, k - 1) <=>
                    /\ On(active, k - 1)
                    /\ TokenAt(k - 1, Question) \/ (Dense(char) /\ TokenAt(k - 1, char)))
    BY <1>3
  <2>8. b \in Stepped(char)[w] <=>
           \/ b \in active[w] \cap Stars(w) \/ b \in Shifted(stepped, w)
           \/ \E n \in listed: k = n + 1
    BY <1>1 DEF k
  <2>9. b \in Stepped(char)[w] <=>
           \/ On(active, k) /\ TokenAt(k, Star)
           \/ /\ k > 0 /\ On(active, k - 1)
              /\ TokenAt(k - 1, Question) \/ TokenAt(k - 1, char)
    BY <2>2, <2>3, <2>4, <2>6, <2>7, <2>8
  <2> QED BY <2>9 DEF k
<1> QED BY <1>8, <1>9

(* Reached positions, one rune at a time. *)

NoDoubleStar == \A n \in 2..Len(tokens): ~ (tokens[n - 1] = Star /\ tokens[n] = Star)

Within(k, j) == k <= Len(tokens) /\ Reached(k, j)

\* The positions a rune leads to before stars are expanded.
Led(k, j) ==
    \/ Within(k, j) /\ TokenAt(k, Star)
    \/ /\ k > 0 /\ Within(k - 1, j)
       /\ TokenAt(k - 1, Question) \/ TokenAt(k - 1, value[j + 1])

Fit(k, j) == Aligned(tokens, k, value, j)

LEMMA LastToken ==
    ASSUME tokens \in Seq(Chars \cup {Star, Question}), NEW k \in 1..Len(tokens), NEW j \in Nat
    PROVE  Fit(k, j) <=> IF tokens[k] = Star THEN \E i \in 0..j: Fit(k - 1, i)
                       ELSE j > 0 /\ Fit(k - 1, j - 1) /\ tokens[k] \in {Question, value[j]}
<1>1. PICK m \in Nat: k = m + 1 /\ k - 1 = m
  <2>1. k - 1 \in Nat /\ k = (k - 1) + 1
    BY LenProperties
  <2> QED BY <2>1
<1>2. Fit(m + 1, j) <=> IF tokens[m + 1] = Star THEN \E i \in 0..j: Fit(m, i)
                      ELSE j > 0 /\ Fit(m, j - 1) /\ tokens[m + 1] \in {Question, value[j]}
  BY AlignedNext DEF Fit
<1> HIDE DEF Fit
<1> QED BY <1>1, <1>2

LEMMA LedForm ==
    ASSUME tokens \in Seq(Chars \cup {Star, Question}), NEW k \in Nat, NEW j \in Nat,
           value[j + 1] \in Chars
    PROVE  Led(k, j) <=>
              \/ TokenAt(k, Star) /\ \E i \in 0..j: Fit(k, i)
              \/ k \in 1..Len(tokens) /\ tokens[k] # Star /\ Fit(k, j + 1)
<1>1. Len(tokens) \in Nat
  BY LenProperties
<1>2. Within(k, j) /\ TokenAt(k, Star) <=> TokenAt(k, Star) /\ \E i \in 0..j: Fit(k, i)
  <2>1. j \in 0..j
    OBVIOUS
  <2>2. TokenAt(k, Star) => k <= Len(tokens) /\ k < Len(tokens) /\ tokens[k + 1] = Star
    BY <1>1 DEF TokenAt
  <2> QED BY <2>1, <2>2 DEF Within, Reached, Fit
<1>3. ASSUME k > 0
      PROVE  /\ Within(k - 1, j)
             /\ TokenAt(k - 1, Question) \/ TokenAt(k - 1, value[j + 1])
             <=> k \in 1..Len(tokens) /\ tokens[k] # Star /\ Fit(k, j + 1)
  <2>1. PICK m \in Nat: k = m + 1 /\ k - 1 = m
    <3>1. k - 1 \in Nat /\ k = (k - 1) + 1
      BY <1>3
    <3> QED BY <3>1
  <2>2. \A token: TokenAt(m, token) <=> k \in 1..Len(tokens) /\ tokens[k] = token
    BY <1>1, <2>1 DEF TokenAt
  <2>3. Question # Star /\ value[j + 1] # Star
    BY WordsFacts
  <2>4. k \in 1..Len(tokens) /\ tokens[k] # Star => (Within(m, j) <=> Fit(m, j))
    <3>1. k \in 1..Len(tokens) => m <= Len(tokens)
      BY <1>1, <2>1
    <3> QED BY <2>1, <3>1 DEF Within, Reached, Fit
  <2>5. k \in 1..Len(tokens) /\ tokens[k] # Star =>
           (Fit(k, j + 1) <=> Fit(m, j) /\ tokens[k] \in {Question, value[j + 1]})
    <3>1. PICK i \in Nat: i = j + 1 /\ i > 0 /\ i - 1 = j
      <4>1. j + 1 \in Nat /\ j + 1 > 0 /\ (j + 1) - 1 = j
        OBVIOUS
      <4> QED BY <4>1
    <3>2. k \in 1..Len(tokens) /\ tokens[k] # Star =>
             (Fit(k, i) <=> i > 0 /\ Fit(k - 1, i - 1) /\ tokens[k] \in {Question, value[i]})
      BY LastToken
    <3> QED BY <2>1, <3>1, <3>2
  <2> QED BY <2>1, <2>2, <2>3, <2>4, <2>5
<1>4. k \in 1..Len(tokens) => k > 0
  OBVIOUS
<1> QED BY <1>2, <1>3, <1>4 DEF Led

LEMMA ReachedNext ==
    ASSUME tokens \in Seq(Chars \cup {Star, Question}), NoDoubleStar, NEW k \in Nat, NEW j \in Nat,
           value[j + 1] \in Chars
    PROVE  Led(k, j) \/ (k > 0 /\ Led(k - 1, j) /\ TokenAt(k - 1, Star)) <=> Within(k, j + 1)
<1>1. Len(tokens) \in Nat
  BY LenProperties
<1>2. PICK i \in Nat: i = j + 1 /\ i > 0 /\ i - 1 = j
  <2>1. j + 1 \in Nat /\ j + 1 > 0 /\ (j + 1) - 1 = j
    OBVIOUS
  <2> QED BY <2>1
<1>3. \A n: (\E h \in 0..i: Fit(n, h)) <=> (\E h \in 0..j: Fit(n, h)) \/ Fit(n, i)
  <2>1. \A h: h \in 0..i <=> h \in 0..j \/ h = i
    BY <1>2
  <2> HIDE DEF Fit
  <2> QED BY <2>1
<1>4. Within(k, i) <=>
         \/ TokenAt(k, Star) /\ \E h \in 0..j: Fit(k, h)
         \/ k <= Len(tokens) /\ Fit(k, i)
  <2>1. TokenAt(k, Star) <=> k <= Len(tokens) /\ k < Len(tokens) /\ tokens[k + 1] = Star
    BY <1>1 DEF TokenAt
  <2>2. Within(k, i) <=>
           /\ k <= Len(tokens)
           /\ Fit(k, i) \/ (k < Len(tokens) /\ tokens[k + 1] = Star /\ \E h \in 0..i: Fit(k, h))
    BY DEF Within, Reached, Fit
  <2> QED BY <1>3, <2>1, <2>2
<1>5. k <= Len(tokens) /\ Fit(k, i) <=> k \in 1..Len(tokens) /\ Fit(k, i)
  <2>1. ~ Fit(0, i)
    BY <1>2, AlignedNone DEF Fit
  <2>2. k <= Len(tokens) <=> k = 0 \/ k \in 1..Len(tokens)
    BY <1>1
  <2> QED BY <2>1, <2>2
<1>6. Led(k, j) <=>
         \/ TokenAt(k, Star) /\ \E h \in 0..j: Fit(k, h)
         \/ k \in 1..Len(tokens) /\ tokens[k] # Star /\ Fit(k, i)
  BY <1>2, LedForm
<1>7. k > 0 /\ Led(k - 1, j) /\ TokenAt(k - 1, Star) <=>
         k \in 1..Len(tokens) /\ tokens[k] = Star /\ Fit(k, i)
  <2>1. k > 0 /\ TokenAt(k - 1, Star) <=> k \in 1..Len(tokens) /\ tokens[k] = Star
    BY <1>1 DEF TokenAt
  <2>2. ASSUME k \in 1..Len(tokens), tokens[k] = Star
        PROVE  Led(k - 1, j) <=> Fit(k, i)
    <3>1. PICK m \in Nat: m = k - 1 /\ k = m + 1
      <4>1. k - 1 \in Nat /\ k = (k - 1) + 1
        BY <2>2
      <4> QED BY <4>1
    <3>2. Fit(k, i) <=> (\E h \in 0..j: Fit(m, h)) \/ Fit(m, i)
      BY <1>3, <2>2, <3>1, LastToken
    <3>3. Fit(m, i) => m \in 1..Len(tokens) /\ tokens[m] # Star
      <4>1. ~ Fit(0, i)
        BY <1>2, AlignedNone DEF Fit
      <4>2. m = 0 \/ (m \in 1..Len(tokens) /\ k \in 2..Len(tokens))
        BY <1>1, <2>2, <3>1
      <4>3. k \in 2..Len(tokens) => tokens[k - 1] # Star
        BY <2>2 DEF NoDoubleStar
      <4> QED BY <3>1, <4>1, <4>2, <4>3
    <3>4. Led(m, j) <=>
             \/ TokenAt(m, Star) /\ \E h \in 0..j: Fit(m, h)
             \/ m \in 1..Len(tokens) /\ tokens[m] # Star /\ Fit(m, i)
      BY <1>2, LedForm
    <3>5. TokenAt(m, Star)
      BY <1>1, <2>2, <3>1 DEF TokenAt
    <3> QED BY <3>1, <3>2, <3>3, <3>4, <3>5
  <2> QED BY <2>1, <2>2
<1> QED BY <1>2, <1>4, <1>5, <1>6, <1>7

(* The inductive invariant of GlobMatch. *)

GlobTypeInv ==
    /\ pattern \in Patterns /\ value \in Values
    /\ taken \in 0..Len(pattern)
    /\ tokens \in Seq(Chars \cup {Star, Question})
    /\ pos \in Nat
    /\ phase \in {"compile", "match", "matched", "unmatched"}
    /\ phase = "compile" => pos = 0
    /\ phase # "compile" => taken = Len(pattern)

\* What has been compiled means what has been taken of the pattern.
Collapsed ==
    \A j \in Nat: Aligned(tokens, Len(tokens), value, j) <=> Aligned(pattern, taken, value, j)

GlobInv == GlobTypeInv /\ Collapsed /\ NoDoubleStar /\ ActiveIsAligned /\ DecidesGlob

LEMMA GlobTypes ==
    ASSUME GlobTypeInv
    PROVE  /\ pattern \in Seq(Chars \cup {Star, Question}) /\ value \in Seq(Chars)
           /\ Len(pattern) \in Nat /\ Len(value) \in Nat /\ Len(tokens) \in Nat
           /\ taken \in Nat
           /\ \A n \in 1..Len(value): value[n] \in Chars
<1>1. pattern \in Seq(Chars \cup {Star, Question}) /\ value \in Seq(Chars)
  BY GlobAssumption DEF GlobTypeInv
<1>2. tokens \in Seq(Chars \cup {Star, Question})
  BY DEF GlobTypeInv
<1>3. Len(pattern) \in Nat /\ Len(value) \in Nat /\ Len(tokens) \in Nat
  BY <1>1, <1>2, LenProperties
<1>4. taken \in Nat
  BY <1>3 DEF GlobTypeInv
<1> QED BY <1>1, <1>3, <1>4, ElementOfSeq

LEMMA GlobStart == GlobInit => GlobInv
<1> SUFFICES ASSUME GlobInit PROVE GlobInv
  OBVIOUS
<1>1. pattern \in Seq(Chars \cup {Star, Question})
  BY GlobAssumption DEF GlobInit
<1>2. Len(pattern) \in Nat /\ Len(<<>>) = 0 /\ <<>> \in Seq(Chars \cup {Star, Question})
  BY <1>1, LenProperties, EmptySeq
<1>3. GlobTypeInv
  BY <1>2 DEF GlobInit, GlobTypeInv
<1>4. Collapsed
  BY <1>2, AlignedNone DEF GlobInit, Collapsed
<1>5. NoDoubleStar
  BY <1>2 DEF GlobInit, NoDoubleStar
<1> QED BY <1>3, <1>4, <1>5 DEF GlobInit, GlobInv, ActiveIsAligned, DecidesGlob

\* A star behind a star aligns with nothing new.
LEMMA StarTwice ==
    ASSUME tokens \in Seq(Chars \cup {Star, Question}), NEW k \in 1..Len(tokens),
           tokens[k] = Star, NEW j \in Nat
    PROVE  (\E i \in 0..j: Fit(k, i)) <=> Fit(k, j)
<1>1. \A i \in Nat: Fit(k, i) <=> \E h \in 0..i: Fit(k - 1, h)
  BY LastToken
<1>2. j \in 0..j /\ \A i \in 0..j: i \in Nat /\ \A h \in 0..i: h \in 0..j
  OBVIOUS
<1> HIDE DEF Fit
<1> QED BY <1>1, <1>2

LEMMA CompileStep == GlobInv /\ CompileToken => GlobInv'
<1> SUFFICES ASSUME GlobInv, CompileToken PROVE GlobInv'
  OBVIOUS
<1> DEFINE token == pattern[taken + 1]
           L == Len(tokens)
<1>1. /\ GlobTypeInv /\ Collapsed /\ NoDoubleStar
      /\ phase = "compile" /\ taken < Len(pattern) /\ taken' = taken + 1
      /\ pattern' = pattern /\ value' = value /\ pos' = pos /\ active' = active /\ phase' = phase
      /\ tokens' = IF RepeatsStar(token) THEN tokens ELSE Append(tokens, token)
  BY DEF GlobInv, CompileToken
<1>2. /\ tokens \in Seq(Chars \cup {Star, Question}) /\ L \in Nat
      /\ taken \in Nat /\ Len(pattern) \in Nat
      /\ pattern \in Seq(Chars \cup {Star, Question})
  BY <1>1, GlobTypes DEF GlobTypeInv
<1>3. taken + 1 \in 1..Len(pattern) /\ taken + 1 \in 0..Len(pattern)
  BY <1>1, <1>2
<1>4. token \in Chars \cup {Star, Question}
  BY <1>2, <1>3, ElementOfSeq
<1>5. \A j \in Nat: Aligned(pattern, taken + 1, value, j) <=>
         IF token = Star THEN \E i \in 0..j: Aligned(pattern, taken, value, i)
         ELSE j > 0 /\ Aligned(pattern, taken, value, j - 1) /\ token \in {Question, value[j]}
  BY <1>2, AlignedNext
<1>6. \A j \in Nat: Fit(L, j) <=> Aligned(pattern, taken, value, j)
  BY <1>1 DEF Collapsed, Fit
<1> HIDE DEF token, L
<1>7. CASE RepeatsStar(token)
  <2>1. token = Star /\ tokens # <<>> /\ tokens[L] = Star /\ tokens' = tokens
    BY <1>1, <1>7 DEF RepeatsStar, L
  <2>2. L \in 1..Len(tokens)
    <3>1. L # 0
      BY <1>2, <2>1, EmptySeq DEF L
    <3> QED BY <1>2, <3>1 DEF L
  <2>3. ASSUME NEW j \in Nat
        PROVE  Aligned(tokens, L, value, j) <=> Aligned(pattern, taken + 1, value, j)
    <3>1. \A i \in 0..j: i \in Nat
      OBVIOUS
    <3>2. Aligned(pattern, taken + 1, value, j) <=> \E i \in 0..j: Fit(L, i)
      BY <1>5, <1>6, <2>1, <3>1
    <3>3. (\E i \in 0..j: Fit(L, i)) <=> Fit(L, j)
      BY <1>2, <2>1, <2>2, StarTwice
    <3> QED BY <3>2, <3>3 DEF Fit
  <2>4. Collapsed'
    BY <1>1, <2>1, <2>3 DEF Collapsed, L
  <2>5. GlobTypeInv'
    BY <1>1, <1>3, <2>1 DEF GlobTypeInv
  <2>6. NoDoubleStar'
    BY <1>1, <2>1 DEF NoDoubleStar
  <2> QED BY <1>1, <2>4, <2>5, <2>6 DEF GlobInv, ActiveIsAligned, DecidesGlob
<1>8. CASE ~RepeatsStar(token)
  <2>1. PICK more: more = Append(tokens, token)
    OBVIOUS
  <2>2. /\ more \in Seq(Chars \cup {Star, Question}) /\ Len(more) = L + 1
        /\ more[L + 1] = token /\ \A n \in 1..L: more[n] = tokens[n]
    BY <1>2, <1>4, <2>1, AppendProperties DEF L
  <2>3. tokens' = more
    BY <1>1, <1>8, <2>1
  <2>4. \A j \in Nat: Aligned(more, L, value, j) <=> Aligned(tokens, L, value, j)
    BY <1>2, <2>2, AlignedPrefix
  <2>5. ASSUME NEW j \in Nat
        PROVE  Aligned(more, L + 1, value, j) <=> Aligned(pattern, taken + 1, value, j)
    <3>1. Aligned(more, L + 1, value, j) <=>
             IF token = Star THEN \E i \in 0..j: Aligned(more, L, value, i)
             ELSE j > 0 /\ Aligned(more, L, value, j - 1) /\ token \in {Question, value[j]}
      BY <1>2, <2>2, AlignedNext
    <3>2. (\A i \in 0..j: i \in Nat) /\ (j > 0 => j - 1 \in Nat)
      OBVIOUS
    <3>3. \A i \in Nat: Aligned(more, L, value, i) <=> Aligned(pattern, taken, value, i)
      BY <1>6, <2>4 DEF Fit
    <3> QED BY <1>5, <3>1, <3>2, <3>3
  <2>6. Collapsed'
    BY <1>1, <2>2, <2>3, <2>5 DEF Collapsed
  <2>7. GlobTypeInv'
    BY <1>1, <1>3, <2>2, <2>3 DEF GlobTypeInv
  <2>8. ASSUME NEW n \in 2..(L + 1) PROVE ~ (more[n - 1] = Star /\ more[n] = Star)
    <3>1. CASE n = L + 1
      <4>1. n - 1 = L /\ L \in 1..L /\ L > 0
        BY <1>2, <2>8, <3>1
      <4>2. tokens # <<>>
        BY <1>2, <4>1, EmptySeq DEF L
      <4>3. ~ (token = Star /\ tokens[L] = Star)
        BY <1>8, <4>2 DEF RepeatsStar, L
      <4> QED BY <2>2, <3>1, <4>1, <4>3
    <3>2. CASE n # L + 1
      <4>1. n \in 1..L /\ n - 1 \in 1..L /\ n \in 2..L
        BY <1>2, <2>8, <3>2
      <4> QED BY <1>1, <2>2, <4>1 DEF NoDoubleStar, L
    <3> QED BY <3>1, <3>2
  <2>9. NoDoubleStar'
    BY <2>2, <2>3, <2>8 DEF NoDoubleStar
  <2> QED BY <1>1, <2>6, <2>7, <2>9 DEF GlobInv, ActiveIsAligned, DecidesGlob
<1> QED BY <1>7, <1>8

ActiveAt(buffer, j) ==
    /\ buffer \in [Words -> SUBSET Bits]
    /\ \A w \in Words, b \in Bits: b \in buffer[w] <=> Within(Position(w, b), j)

LEMMA ActiveForm == ActiveIsAligned <=> (phase = "match" => ActiveAt(active, pos))
BY DEF ActiveIsAligned, ActiveAt, Within

\* Every position of the tokens has its bit, so nothing reached is lost.
LEMMA ActiveOn ==
    ASSUME tokens \in Seq(Chars \cup {Star, Question}), NEW buffer, NEW j, ActiveAt(buffer, j)
    PROVE  \A k \in Nat: On(buffer, k) <=> Within(k, j)
<1> SUFFICES ASSUME NEW k \in Nat PROVE On(buffer, k) <=> Within(k, j)
  OBVIOUS
<1>1. On(buffer, k) => Within(k, j)
  BY DEF On, ActiveAt
<1>2. ASSUME Within(k, j) PROVE On(buffer, k)
  <2>1. Len(tokens) \in Nat
    BY LenProperties
  <2>2. k \in 0..Len(tokens)
    BY <1>2, <2>1 DEF Within
  <2>3. PICK w \in Words, b \in Bits: Position(w, b) = k
    BY <2>2, PlaceOf, PlaceExists
  <2> QED BY <1>2, <2>3 DEF On, ActiveAt
<1> QED BY <1>1, <1>2

\* The same frame for StartMatch and ReadRune: tokens, pattern and value stay.
LEMMA FrameKept ==
    ASSUME UNCHANGED <<pattern, taken, tokens, value>>
    PROVE  /\ (Collapsed' <=> Collapsed) /\ (NoDoubleStar' <=> NoDoubleStar)
           /\ Words' = Words
           /\ \A k, j: Reached(k, j)' <=> Reached(k, j)
<1>1. tokens' = tokens /\ value' = value /\ pattern' = pattern /\ taken' = taken
  OBVIOUS
<1>2. Collapsed' <=> Collapsed
  BY <1>1 DEF Collapsed
<1>3. NoDoubleStar' <=> NoDoubleStar
  BY <1>1 DEF NoDoubleStar
<1>4. Words' = Words
  BY <1>1 DEF Words, NumWords
<1>5. \A k, j: Reached(k, j)' <=> Reached(k, j)
  BY <1>1 DEF Reached
<1> QED BY <1>2, <1>3, <1>4, <1>5

LEMMA ActiveKept ==
    ASSUME UNCHANGED <<pattern, taken, tokens, value>>, ActiveAt(active', pos')
    PROVE  ActiveIsAligned'
<1>1. tokens' = tokens /\ Words' = Words /\ \A k, j: Reached(k, j)' <=> Reached(k, j)
  BY FrameKept
<1>2. \A k: Reached(k, pos)' <=> Reached(k, pos')
  BY <1>1 DEF Reached
<1>3. /\ active' \in [Words -> SUBSET Bits]
      /\ \A w \in Words, b \in Bits:
            b \in active'[w] <=> Position(w, b) <= Len(tokens) /\ Reached(Position(w, b), pos')
  BY DEF ActiveAt, Within
<1> QED BY <1>1, <1>2, <1>3 DEF ActiveIsAligned

\* Only stars take no rune, and no two of them stand together.
LEMMA ReachedFirst ==
    ASSUME tokens \in Seq(Chars \cup {Star, Question}), NoDoubleStar, NEW k \in Nat
    PROVE  Within(k, 0) <=> k = 0 \/ (k > 0 /\ k - 1 = 0 /\ TokenAt(k - 1, Star))
<1>1. Len(tokens) \in Nat
  BY LenProperties
<1>2. Fit(0, 0)
  BY AlignedNone DEF Fit
<1>3. Within(k, 0) <=> k <= Len(tokens) /\ Fit(k, 0)
  <2>1. \A i \in 0..0: i = 0
    OBVIOUS
  <2> QED BY <2>1 DEF Within, Reached, Fit
<1>4. \A n \in 1..Len(tokens): Fit(n, 0) <=> tokens[n] = Star /\ Fit(n - 1, 0)
  <2> SUFFICES ASSUME NEW n \in 1..Len(tokens)
               PROVE  Fit(n, 0) <=> tokens[n] = Star /\ Fit(n - 1, 0)
    OBVIOUS
  <2>1. Fit(n, 0) <=> IF tokens[n] = Star THEN \E i \in 0..0: Fit(n - 1, i)
                      ELSE 0 > 0 /\ Fit(n - 1, 0 - 1) /\ tokens[n] \in {Question, value[0]}
    BY LastToken
  <2>2. 0 \in 0..0 /\ \A i \in 0..0: i = 0
    OBVIOUS
  <2> HIDE DEF Fit
  <2>3. (\E i \in 0..0: Fit(n - 1, i)) <=> Fit(n - 1, 0)
    BY <2>2
  <2> QED BY <2>1, <2>3
<1>5. CASE k = 0
  BY <1>1, <1>2, <1>3, <1>5
<1>6. CASE k = 1
  <2>1. TokenAt(k - 1, Star) <=> 1 <= Len(tokens) /\ tokens[1] = Star
    BY <1>1, <1>6 DEF TokenAt
  <2>2. 1 <= Len(tokens) => (Fit(1, 0) <=> tokens[1] = Star)
    <3>1. 1 - 1 = 0 /\ (1 <= Len(tokens) => 1 \in 1..Len(tokens))
      BY <1>1
    <3> HIDE DEF Fit
    <3> QED BY <1>2, <1>4, <3>1
  <2> QED BY <1>3, <1>6, <2>1, <2>2
<1>7. CASE k > 1
  <2>1. ASSUME k <= Len(tokens) PROVE ~ Fit(k, 0)
    <3>1. k \in 1..Len(tokens) /\ k \in 2..Len(tokens) /\ k - 1 \in 1..Len(tokens)
      BY <1>1, <1>7, <2>1
    <3>2. /\ Fit(k, 0) => tokens[k] = Star /\ Fit(k - 1, 0)
          /\ Fit(k - 1, 0) => tokens[k - 1] = Star
      BY <1>4, <3>1
    <3> QED BY <3>1, <3>2 DEF NoDoubleStar
  <2>2. k # 0 /\ k - 1 # 0
    BY <1>7
  <2> QED BY <1>3, <2>1, <2>2
<1>8. k = 0 \/ k = 1 \/ k > 1
  OBVIOUS
<1> QED BY <1>5, <1>6, <1>7, <1>8

LEMMA StartStep == GlobInv /\ StartMatch => GlobInv'
<1> SUFFICES ASSUME GlobInv, StartMatch PROVE GlobInv'
  OBVIOUS
<1> DEFINE first == [w \in Words |-> IF w = 0 THEN {0} ELSE {}]
<1>1. /\ GlobTypeInv /\ Collapsed /\ NoDoubleStar
      /\ phase = "compile" /\ taken = Len(pattern) /\ pos = 0
      /\ pattern' = pattern /\ taken' = taken /\ tokens' = tokens /\ value' = value /\ pos' = pos
      /\ phase' = "match" /\ active' = ExpandStars(first)
  BY DEF GlobInv, GlobTypeInv, StartMatch
<1>2. tokens \in Seq(Chars \cup {Star, Question}) /\ Words \subseteq Nat
  BY <1>1, WordsAreNat DEF GlobTypeInv
<1>3. 0 \in Bits /\ \A v \in Words: first[v] \subseteq Bits
  <2>1. 0 \in Bits
    BY WordsFacts DEF Bits
  <2> QED BY <2>1
<1>4. 0 \in Words /\ Position(0, 0) = 0
  <2>1. Position(0, 0) = 0
    BY WordsFacts DEF Position
  <2>2. 0 \in 0..Len(tokens)
    BY <1>2, LenProperties
  <2>3. 0 \div WordBits \in Words /\ 0 % WordBits \in Bits
        /\ Position(0 \div WordBits, 0 % WordBits) = 0
    BY <1>2, <2>2, PlaceOf, PlaceExists
  <2>4. PICK w \in Words, b \in Bits: w = 0 \div WordBits /\ Position(w, b) = 0
    BY <2>3
  <2>5. w = 0
    BY <1>2, <1>3, <2>1, <2>4, PlaceUnique
  <2> QED BY <2>1, <2>5
<1>5. \A k: On(first, k) <=> k = 0
  <2>1. \A w \in Words: \A b: b \in first[w] <=> w = 0 /\ b = 0
    OBVIOUS
  <2> HIDE DEF first
  <2> QED BY <1>3, <1>4, <2>1 DEF On
<1> HIDE DEF first
<1>6. /\ active' \in [Words -> SUBSET Bits]
      /\ \A w \in Words, b \in Bits: b \in active'[w] <=>
            \/ On(first, Position(w, b))
            \/ /\ Position(w, b) > 0 /\ On(first, Position(w, b) - 1)
               /\ TokenAt(Position(w, b) - 1, Star)
  BY <1>1, <1>2, <1>3, ExpandOn
<1>7. \A w \in Words, b \in Bits: b \in active'[w] <=> Within(Position(w, b), 0)
  <2> SUFFICES ASSUME NEW w \in Words, NEW b \in Bits
               PROVE  b \in active'[w] <=> Within(Position(w, b), 0)
    OBVIOUS
  <2>1. PICK k \in Nat: k = Position(w, b)
    BY <1>2, PlaceBefore
  <2>2. Within(k, 0) <=> k = 0 \/ (k > 0 /\ k - 1 = 0 /\ TokenAt(k - 1, Star))
    BY <1>1, <1>2, ReachedFirst
  <2>3. b \in active'[w] <=>
           On(first, k) \/ (k > 0 /\ On(first, k - 1) /\ TokenAt(k - 1, Star))
    BY <1>6, <2>1
  <2> QED BY <1>5, <2>1, <2>2, <2>3
<1>8. ActiveAt(active', pos')
  BY <1>1, <1>6, <1>7 DEF ActiveAt
<1>9. ActiveIsAligned'
  BY <1>1, <1>8, ActiveKept
<1>10. Collapsed' /\ NoDoubleStar'
  BY <1>1, FrameKept
<1>11. GlobTypeInv'
  BY <1>1 DEF GlobTypeInv
<1>12. DecidesGlob'
  BY <1>1 DEF DecidesGlob
<1> QED BY <1>9, <1>10, <1>11, <1>12 DEF GlobInv

LEMMA ReadStep == GlobInv /\ ReadRune => GlobInv'
<1> SUFFICES ASSUME GlobInv, ReadRune PROVE GlobInv'
  OBVIOUS
<1> DEFINE buffer == Stepped(value[pos + 1])
<1>1. /\ GlobTypeInv /\ Collapsed /\ NoDoubleStar
      /\ phase = "match" /\ pos < Len(value) /\ pos' = pos + 1
      /\ pattern' = pattern /\ taken' = taken /\ tokens' = tokens /\ value' = value
      /\ phase' = phase /\ active' = ExpandStars(buffer)
      /\ ActiveAt(active, pos)
  BY ActiveForm DEF GlobInv, ReadRune
<1>2. tokens \in Seq(Chars \cup {Star, Question}) /\ pos \in Nat /\ value[pos + 1] \in Chars
  <2>1. pos + 1 \in 1..Len(value)
    BY <1>1, GlobTypes DEF GlobTypeInv
  <2> QED BY <1>1, <2>1, GlobTypes DEF GlobTypeInv
<1>3. \A k \in Nat: On(active, k) <=> Within(k, pos)
  BY <1>1, <1>2, ActiveOn
<1>4. \A w \in Words:
         /\ buffer[w] \subseteq Bits
         /\ \A b \in Bits: b \in buffer[w] <=>
               \/ On(active, Position(w, b)) /\ TokenAt(Position(w, b), Star)
               \/ /\ Position(w, b) > 0 /\ On(active, Position(w, b) - 1)
                  /\ \/ TokenAt(Position(w, b) - 1, Question)
                     \/ TokenAt(Position(w, b) - 1, value[pos + 1])
  <2>1. active \in [Words -> SUBSET Bits]
    BY <1>1 DEF ActiveAt
  <2> QED BY <1>2, <2>1, SteppedOn
<1> HIDE DEF buffer
<1>5. ASSUME NEW w \in Words, NEW b \in Bits, NEW k \in Nat, k = Position(w, b)
      PROVE  b \in buffer[w] <=> Led(k, pos)
  <2>1. b \in buffer[w] <=>
           \/ On(active, k) /\ TokenAt(k, Star)
           \/ k > 0 /\ On(active, k - 1)
              /\ (TokenAt(k - 1, Question) \/ TokenAt(k - 1, value[pos + 1]))
    BY <1>4, <1>5
  <2>2. k > 0 => k - 1 \in Nat
    OBVIOUS
  <2> QED BY <1>3, <2>1, <2>2 DEF Led
<1>6. ASSUME NEW k \in Nat PROVE On(buffer, k) <=> Led(k, pos)
  <2>1. ASSUME Led(k, pos) PROVE k \in 0..Len(tokens)
    <3>1. Len(tokens) \in Nat
      BY <1>2, LenProperties
    <3>2. k <= Len(tokens)
      BY <2>1, <3>1 DEF Led, Within, TokenAt
    <3> QED BY <3>1, <3>2
  <2>2. ASSUME Led(k, pos) PROVE On(buffer, k)
    <3>1. PICK w \in Words, b \in Bits: Position(w, b) = k
      BY <1>2, <2>1, <2>2, PlaceOf, PlaceExists
    <3> QED BY <1>5, <2>2, <3>1 DEF On
  <2>3. ASSUME On(buffer, k) PROVE Led(k, pos)
    BY <1>5, <2>3 DEF On
  <2> QED BY <2>2, <2>3
<1>7. /\ active' \in [Words -> SUBSET Bits]
      /\ \A w \in Words, b \in Bits: b \in active'[w] <=>
            \/ On(buffer, Position(w, b))
            \/ /\ Position(w, b) > 0 /\ On(buffer, Position(w, b) - 1)
               /\ TokenAt(Position(w, b) - 1, Star)
  BY <1>1, <1>2, <1>4, ExpandOn
<1>8. \A w \in Words, b \in Bits: b \in active'[w] <=> Within(Position(w, b), pos')
  <2> SUFFICES ASSUME NEW w \in Words, NEW b \in Bits
               PROVE  b \in active'[w] <=> Within(Position(w, b), pos')
    OBVIOUS
  <2>1. PICK k \in Nat: k = Position(w, b)
    BY <1>2, PlaceBefore
  <2>2. Led(k, pos) \/ (k > 0 /\ Led(k - 1, pos) /\ TokenAt(k - 1, Star)) <=> Within(k, pos + 1)
    BY <1>1, <1>2, ReachedNext
  <2>3. b \in active'[w] <=>
           On(buffer, k) \/ (k > 0 /\ On(buffer, k - 1) /\ TokenAt(k - 1, Star))
    BY <1>7, <2>1
  <2>4. k > 0 => k - 1 \in Nat
    OBVIOUS
  <2> QED BY <1>1, <1>6, <2>1, <2>2, <2>3, <2>4
<1>9. ActiveAt(active', pos')
  BY <1>7, <1>8 DEF ActiveAt
<1>10. ActiveIsAligned'
  BY <1>1, <1>9, ActiveKept
<1>11. Collapsed' /\ NoDoubleStar'
  BY <1>1, FrameKept
<1>12. GlobTypeInv'
  BY <1>1, <1>2 DEF GlobTypeInv
<1>13. DecidesGlob'
  BY <1>1 DEF DecidesGlob
<1> QED BY <1>10, <1>11, <1>12, <1>13 DEF GlobInv

LEMMA AnswerStep == GlobInv /\ Answer => GlobInv'
<1> SUFFICES ASSUME GlobInv, Answer PROVE GlobInv'
  OBVIOUS
<1>1. /\ GlobTypeInv /\ Collapsed /\ NoDoubleStar
      /\ phase = "match" /\ pos = Len(value)
      /\ pattern' = pattern /\ taken' = taken /\ tokens' = tokens /\ value' = value
      /\ phase' = IF IsSet(active, Len(tokens)) THEN "matched" ELSE "unmatched"
      /\ pos' = pos /\ ActiveAt(active, pos)
  BY ActiveForm DEF GlobInv, Answer
<1>2. /\ tokens \in Seq(Chars \cup {Star, Question})
      /\ Len(tokens) \in Nat /\ Len(value) \in Nat /\ taken = Len(pattern)
  BY <1>1, GlobTypes DEF GlobTypeInv
<1>3. IsSet(active, Len(tokens)) <=> Within(Len(tokens), pos)
  <2>1. Len(tokens) \in 0..Len(tokens)
    BY <1>2
  <2>2. PICK k \in 0..Len(tokens): k = Len(tokens)
    BY <2>1
  <2>3. IsSet(active, k) <=> On(active, k)
    BY <1>2, IsSetOn
  <2>4. k \in Nat
    BY <1>2
  <2> QED BY <1>1, <1>2, <2>2, <2>3, <2>4, ActiveOn
<1>4. Within(Len(tokens), pos) <=> Aligned(tokens, Len(tokens), value, Len(value))
  BY <1>1, <1>2 DEF Within, Reached
<1>5. Aligned(tokens, Len(tokens), value, Len(value)) <=> GlobMatches(pattern, value)
  BY <1>1, <1>2 DEF Collapsed, GlobMatches
<1>6. GlobMatches(pattern, value)' <=> GlobMatches(pattern, value)
  BY <1>1
<1>7. DecidesGlob'
  BY <1>1, <1>3, <1>4, <1>5, <1>6 DEF DecidesGlob
<1>8. Collapsed' /\ NoDoubleStar'
  BY <1>1, FrameKept
<1>9. GlobTypeInv'
  BY <1>1 DEF GlobTypeInv
<1>10. ActiveIsAligned'
  BY <1>1 DEF ActiveIsAligned
<1> QED BY <1>7, <1>8, <1>9, <1>10 DEF GlobInv

LEMMA GlobIdle == GlobInv /\ UNCHANGED globVars => GlobInv'
<1> SUFFICES ASSUME GlobInv, UNCHANGED globVars PROVE GlobInv'
  OBVIOUS
<1>1. /\ pattern' = pattern /\ taken' = taken /\ tokens' = tokens /\ value' = value
      /\ pos' = pos /\ active' = active /\ phase' = phase
  BY DEF globVars
<1>2. GlobTypeInv' /\ DecidesGlob'
  BY <1>1 DEF GlobInv, GlobTypeInv, DecidesGlob
<1>3. Collapsed' /\ NoDoubleStar'
  BY <1>1, FrameKept DEF GlobInv
<1>4. ActiveIsAligned'
  <2>1. CASE phase = "match"
    <3>1. ActiveAt(active', pos')
      BY <1>1, <2>1, ActiveForm DEF GlobInv
    <3> QED BY <1>1, <3>1, ActiveKept
  <2>2. CASE phase # "match"
    BY <1>1, <2>2 DEF ActiveIsAligned
  <2> QED BY <2>1, <2>2
<1> QED BY <1>2, <1>3, <1>4 DEF GlobInv

LEMMA GlobStep == GlobInv /\ [GlobNext]_globVars => GlobInv'
BY CompileStep, StartStep, ReadStep, AnswerStep, GlobIdle DEF GlobNext

\* For every pattern, value and size of word, the bits set after a rune are exactly
\* the positions the runes read so far reach: no carry between words is lost, dense
\* and sparse literals step alike, and one expansion of the stars is enough
\* (compiledFilterGlob.matches, expandStars).
THEOREM BitsAreReached == GlobSpec => []ActiveIsAligned
<1>1. GlobInv => ActiveIsAligned
  BY DEF GlobInv
<1> QED BY GlobStart, GlobStep, <1>1, PTL DEF GlobSpec

\* For every pattern and value, the compiled pattern accepts exactly the values the
\* pattern as written means (compileFilterGlob, matches).
THEOREM GlobDecides == GlobSpec => []DecidesGlob
<1>1. GlobInv => DecidesGlob
  BY DEF GlobInv
<1> QED BY GlobStart, GlobStep, <1>1, PTL DEF GlobSpec
=============================================================================
