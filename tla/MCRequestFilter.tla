-------------------------- MODULE MCRequestFilter --------------------------
(***************************************************************************)
(* RequestFilter for a caller with key k1 among the keys k1 and k2: the    *)
(* key in any of the headers, in two spellings, behind another value, with *)
(* spaces, or in none; metadata right, malformed or absent.                *)
(***************************************************************************)
EXTENDS RequestFilter

MCCharacters == {"k", "1", "2", "?", "*", " ", "B", "m", "n"}

Key == <<"k", "1">>
Other == <<"k", "2">>

MCFilters ==
    {[mode |-> m, logic |-> l, apiKeys |-> ks, models |-> ms]:
        m \in {"exclude", "include"}, l \in {"or", "and"},
        ks \in {<<>>, <<Key>>, <<Other, <<"k", "?">>>>, <<<<" ", "k", "1">>, <<"*", "2">>>>,
                <<<<"?", "1">>>>},
        ms \in {<<>>, <<<<"m">>>>, <<<<"n">>, <<"m", "*">>>>}}

Values == {<<Key>>, <<Other>>, <<Other, Key>>, <<<<" ">> \o Key>>, <<<<"B", " ", " ">> \o Key>>,
           <<<<"B", " ">> \o Other>>}
Entry1 == {[name |-> n, spelling |-> "canonical", values |-> v]:
            n \in {"Authorization", "X-Goog-Api-Key", "X-Api-Key"}, v \in Values}
Entry2 == {[name |-> n, spelling |-> "lower", values |-> v]:
            n \in {"Authorization", "X-Api-Key", "Cookie"}, v \in {<<Key>>, <<Other>>}}
MCHeaders == {{}} \cup {{e}: e \in Entry1} \cup {{e, f}: e \in Entry1, f \in Entry2}

MCRequests ==
    {[model |-> m, metadata |-> [wellFormed |-> TRUE, scope |-> CallerScope(Key)], headers |-> h]:
        m \in {<<"m">>, <<"m", "n">>}, h \in MCHeaders}
    \cup {[model |-> m, metadata |-> d, headers |-> h]:
        m \in {<<>>, <<"m">>}, h \in {{e}: e \in Entry1},
        d \in {[wellFormed |-> FALSE, scope |-> CallerScope(Key)],
               [wellFormed |-> TRUE, scope |-> NoScope]}}
=============================================================================
