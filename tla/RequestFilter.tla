--------------------------- MODULE RequestFilter ---------------------------
(***************************************************************************)
(* Whether a request is processed at all (request_filter.go): models and   *)
(* API keys are matched against the patterns of the configuration, and a   *)
(* wildcard pattern for keys needs the key itself, which is looked for in  *)
(* the headers as the value whose hash is the authenticated caller scope.  *)
(*                                                                         *)
(* A text is a sequence of characters; the word Bearer is one character of *)
(* its own.  The headers are a Go map from spellings of a name to values:  *)
(* the entries are met in an order of Go's own.                            *)
(***************************************************************************)
EXTENDS Globs

CONSTANTS
    Filters,    \* the filters of the instance
    Requests,   \* the requests of the instance
    Characters, \* what texts are made of
    Space, Bearer

(* A filter: mode, logic, and the patterns of keys and models as sequences.   *)
(* A request: model, the metadata entry caller_scope, and the headers, a set  *)
(* of entries [name, spelling, values] with one entry per spelling.           *)

-----------------------------------------------------------------------------
(* Texts, scopes and patterns. *)

Texts == Seq(Characters)

Ends(text) == {n \in 1..Len(text): text[n] # Space}
TrimSpace(text) ==
    IF Ends(text) = {} THEN <<>>
    ELSE LET first == CHOOSE n \in Ends(text): \A m \in Ends(text): n <= m
             last == CHOOSE n \in Ends(text): \A m \in Ends(text): m <= n
         IN  SubSeq(text, first, last)

\* A caller scope is the hash of a trimmed key, and metadata is well formed when
\* it has the shape of such a hash.
ASSUME FilterAssumption ==
    /\ \A f \in Filters: /\ f.mode \in {"include", "exclude"} /\ f.logic \in {"and", "or"}
                         /\ f.apiKeys \in Seq(Texts) /\ f.models \in Seq(Texts)
    /\ \A r \in Requests:
          /\ r.model \in Texts
          /\ r.metadata.scope \in [hash: Texts] /\ r.metadata.wellFormed \in BOOLEAN
          /\ TrimSpace(r.metadata.scope.hash) = r.metadata.scope.hash
          /\ \A entry \in r.headers: entry.values \in Seq(Texts)

VARIABLES
    filter,
    request,
    pc,
    modelMatched,   \* the model was asked for and matches
    slot,           \* which of the three headers is searched
    unseen,         \* the entries of the map not met yet
    candidate,      \* what authenticatedCallerAPIKey returns, or <<>>
    keyMatched,
    decision        \* processed or bypassed

vars == <<filter, request, pc, modelMatched, slot, unseen, candidate, keyMatched, decision>>

\* A scope is the hash of a trimmed text; an empty text has none.
NoScope == [hash |-> <<>>]
CallerScope(text) == [hash |-> TrimSpace(text)]

\* Metadata that is not a string of hexadecimal digits is no scope.
ScopeOf(metadata) == IF metadata.wellFormed THEN metadata.scope ELSE NoScope

\* A literal with spaces around it stands for no key.
LiteralScope(pattern) ==
    IF pattern = TrimSpace(pattern) THEN CallerScope(pattern) ELSE NoScope

\* GlobMatch decides the same, on bitmaps.
AnyGlob(patterns, text) ==
    \E n \in 1..Len(patterns): IsWildcard(patterns[n]) /\ GlobMatches(patterns[n], text)

-----------------------------------------------------------------------------
Init ==
    /\ filter \in Filters /\ request \in Requests
    /\ pc = "model"
    /\ modelMatched = FALSE /\ keyMatched = FALSE
    /\ slot = 0 /\ unseen = {} /\ candidate = <<>>
    /\ decision = "pending"

UsesModels == filter.models # <<>>
UsesKeys == filter.apiKeys # <<>>
Enabled == UsesModels \/ UsesKeys

MatchesModel ==
    /\ request.model # <<>>
    /\ \/ \E n \in 1..Len(filter.models): filter.models[n] = request.model
                                         /\ ~IsWildcard(filter.models[n])
       \/ AnyGlob(filter.models, request.model)

\* Whether the model leaves nothing for the keys to decide.
ModelDecides(matched) ==
    \/ ~UsesKeys
    \/ UsesModels /\ (IF filter.logic = "and" THEN ~matched ELSE matched)

Model ==
    /\ pc = "model"
    /\ modelMatched' = (UsesModels /\ MatchesModel)
    /\ pc' = IF ModelDecides(modelMatched') THEN "decide" ELSE "literal"
    /\ UNCHANGED <<filter, request, slot, unseen, candidate, keyMatched, decision>>

\* matchesAPIKey up to the search: literals compare scopes, and only a wildcard
\* makes the headers worth reading.
Literal ==
    /\ pc = "literal"
    /\ LET scope == ScopeOf(request.metadata)
           literal == \E n \in 1..Len(filter.apiKeys):
                         /\ ~IsWildcard(filter.apiKeys[n])
                         /\ LiteralScope(filter.apiKeys[n]) = scope
           wildcard == \E n \in 1..Len(filter.apiKeys): IsWildcard(filter.apiKeys[n])
       IN  /\ keyMatched' = (scope # NoScope /\ literal)
           /\ pc' = IF scope # NoScope /\ ~literal /\ wildcard THEN "search" ELSE "decide"
    /\ slot' = 1 /\ unseen' = request.headers
    /\ UNCHANGED <<filter, request, modelMatched, candidate, decision>>

\* The order in which the headers are searched.
Carriers == <<"Authorization", "X-Goog-Api-Key", "X-Api-Key">>

Credential(name, value) ==
    IF name = "Authorization" /\ Len(value) >= 2 /\ value[1] = Bearer /\ value[2] = Space
    THEN TrimSpace(SubSeq(value, 3, Len(value))) ELSE TrimSpace(value)

\* Mutant: the first value there is, bound to the scope or not.
AnyValue(text, scope) == text # <<>>
Bound(text, scope) == text # <<>> /\ CallerScope(text) = scope

\* The first bound value of an entry, or <<>>.
BoundValue(entry) ==
    LET scope == ScopeOf(request.metadata)
        hits == {n \in 1..Len(entry.values): Bound(Credential(entry.name, entry.values[n]), scope)}
    IN  IF hits = {} THEN <<>>
        ELSE Credential(entry.name, entry.values[CHOOSE n \in hits: \A m \in hits: n <= m])

\* scopeBoundHeaderValue meets one entry of the map.
Entry ==
    /\ pc = "search"
    /\ \E entry \in unseen:
          /\ unseen' = unseen \ {entry}
          /\ candidate' = IF entry.name = Carriers[slot] THEN BoundValue(entry) ELSE <<>>
    /\ pc' = IF candidate' # <<>> THEN "glob" ELSE pc
    /\ UNCHANGED <<filter, request, modelMatched, slot, keyMatched, decision>>

\* Mutant: only the first header is searched.
LastCarrier == 1
LastSlot == Len(Carriers)

\* The map is exhausted: the next header, or no candidate.
NextCarrier ==
    /\ pc = "search" /\ unseen = {}
    /\ IF slot < LastSlot
       THEN slot' = slot + 1 /\ unseen' = request.headers /\ pc' = pc
       ELSE pc' = "decide" /\ UNCHANGED <<slot, unseen>>
    /\ UNCHANGED <<filter, request, modelMatched, candidate, keyMatched, decision>>

Glob ==
    /\ pc = "glob"
    /\ keyMatched' = AnyGlob(filter.apiKeys, candidate)
    /\ pc' = "decide"
    /\ UNCHANGED <<filter, request, modelMatched, slot, unseen, candidate, decision>>

Decide ==
    /\ pc = "decide"
    /\ LET matched == IF UsesModels /\ UsesKeys /\ filter.logic = "and"
                      THEN modelMatched /\ keyMatched ELSE modelMatched \/ keyMatched
       IN  decision' = IF ~Enabled \/ matched = (filter.mode = "include")
                       THEN "process" ELSE "bypass"
    /\ pc' = "done"
    /\ UNCHANGED <<filter, request, modelMatched, slot, unseen, candidate, keyMatched>>

Next == Model \/ Literal \/ Entry \/ NextCarrier \/ Glob \/ Decide

Spec == Init /\ [][Next]_vars

-----------------------------------------------------------------------------
(* Properties. *)

\* The authenticated key, which the code never sees unless a header carries it.
CallerKey == ScopeOf(request.metadata).hash

\* Some header of the three, in any spelling and among any other values, carries
\* the caller's key.
Carried ==
    \E entry \in request.headers:
        /\ entry.name \in {Carriers[n]: n \in 1..Len(Carriers)}
        /\ \E n \in 1..Len(entry.values): Credential(entry.name, entry.values[n]) = CallerKey

KeyMatches ==
    /\ CallerKey # <<>>
    /\ \E n \in 1..Len(filter.apiKeys): LET pattern == filter.apiKeys[n] IN
          IF IsWildcard(pattern) THEN Carried /\ GlobMatches(pattern, CallerKey)
          ELSE pattern = CallerKey

ModelMatches ==
    request.model # <<>> /\ \E n \in 1..Len(filter.models): GlobMatches(filter.models[n], request.model)

FilterMatches ==
    IF UsesModels /\ UsesKeys
    THEN IF filter.logic = "and" THEN ModelMatches /\ KeyMatches ELSE ModelMatches \/ KeyMatches
    ELSE IF UsesModels THEN ModelMatches ELSE KeyMatches

\* The decision is that of the authenticated caller and the model, in whatever
\* order the map yields the headers and whatever else they hold: a value that is
\* not the caller's key never decides, however early it is met, and the caller's
\* key does, however late (README "every wildcard candidate is trimmed and
\* scope-bound before glob matching").
DecisionIsTheCallers ==
    pc = "done" =>
        (decision = "process" <=>
            ~Enabled \/ (FilterMatches <=> filter.mode = "include"))

\* A key the headers carry is found, and only that key is ever put to the globs.
SearchFindsCaller ==
    /\ candidate \in {<<>>, CallerKey}
    /\ pc = "decide" /\ slot = Len(Carriers) /\ unseen = {} /\ candidate = <<>> => ~Carried
=============================================================================
