---------------------------- MODULE RuleMatcher ----------------------------
(***************************************************************************)
(* The automaton that finds the first block rule in a text (matcher.go,    *)
(* byteMatcher and foldMatcher): a trie of the terms, failure links laid   *)
(* breadth first, and a scan that follows them.                            *)
(*                                                                         *)
(* A node is the key string that leads to it, so the root is <<>> and a    *)
(* transition appends a key.  A key is a byte, or the case class of a      *)
(* rune: FoldClass maps characters to keys and is the identity for bytes.  *)
(* Go iterates a map of children in an order of its own: the order in      *)
(* which the children of a node are queued is a choice.                    *)
(***************************************************************************)
EXTENDS Naturals, Sequences, FiniteSets

CONSTANTS
    Chars,      \* the characters of terms and texts
    FoldClass,  \* the key of each of them
    RuleLists,  \* the lists of terms the matcher is built for
    Texts,      \* the texts it scans
    FirstRule   \* ruleOffset: the number of the first rule of the list

Keys == {FoldClass[c]: c \in Chars}
NoRule == FirstRule - 1

ASSUME MatcherAssumption ==
    /\ FirstRule \in Nat \ {0}
    /\ FoldClass \in [Chars -> Chars]
    /\ RuleLists \subseteq Seq(Seq(Chars) \ {<<>>})
    /\ Texts \subseteq Seq(Chars)

VARIABLES
    rules,    \* the terms
    inserted, \* how many of them the trie holds
    nodes,    \* matcher.nodes
    minRule,  \* per node, the least rule known to end there
    fail,     \* per node, its failure link
    queue,    \* the nodes whose link is set, in breadth-first order
    head,     \* the queue position being expanded
    todo,     \* the children of the head still without a link
    failure,  \* the candidate link the inner loop is at
    child,    \* the child it is for
    text,     \* the text to scan
    pos,      \* how many characters of it are consumed
    state,    \* the node the scan is at
    best,     \* bestRule
    pc

build == <<rules, inserted, nodes, minRule, fail, queue, head, todo, failure, child>>
scan == <<text, pos, state, best>>
vars == <<build, scan, pc>>

Root == <<>>
KeyString(s) == [i \in 1..Len(s) |-> FoldClass[s[i]]]
Prefixes(s) == {SubSeq(s, 1, n): n \in 0..Len(s)}
Least(S) == IF S = {} THEN NoRule ELSE CHOOSE x \in S: \A y \in S: x <= y

HasTransition(node, key) == Append(node, key) \in nodes
Children(node) == {n \in nodes: \E key \in Keys: n = Append(node, key)}

Init ==
    /\ rules \in RuleLists
    /\ inserted = 0
    /\ nodes = {Root}
    /\ minRule = [n \in {Root} |-> NoRule]
    /\ fail = [n \in {Root} |-> Root]
    /\ queue = <<>> /\ head = 1 /\ todo = {} /\ failure = Root /\ child = Root
    /\ text = <<>> /\ pos = 0 /\ state = Root /\ best = NoRule
    /\ pc = "insert"

-----------------------------------------------------------------------------
(* Building. *)

KeepMin(old, r) == IF old = NoRule \/ r < old THEN r ELSE old

\* Mutant: the offset of the list is forgotten.
LocalIndex == inserted
RuleIndex == FirstRule + inserted

\* The next term becomes a path of the trie and its rule marks the end.
Insert ==
    /\ pc = "insert" /\ inserted < Len(rules)
    /\ LET term == KeyString(rules[inserted + 1])
           added == nodes \cup Prefixes(term)
       IN  /\ nodes' = added
           /\ fail' = [n \in added |-> Root]
           /\ minRule' = [n \in added |->
                  LET old == IF n \in nodes THEN minRule[n] ELSE NoRule
                  IN  IF n = term THEN KeepMin(old, RuleIndex) ELSE old]
    /\ inserted' = inserted + 1
    /\ UNCHANGED <<rules, queue, head, todo, failure, child, scan, pc>>

\* All terms are in: the children of the root are queued, their links stay at
\* the root.
StartQueue ==
    /\ pc = "insert" /\ inserted = Len(rules)
    /\ todo' = Children(Root)
    /\ pc' = "roots"
    /\ UNCHANGED <<rules, inserted, nodes, minRule, fail, queue, head, failure, child, scan>>

QueueRoot ==
    /\ pc = "roots"
    /\ \E n \in todo: /\ queue' = Append(queue, n)
                      /\ todo' = todo \ {n}
    /\ UNCHANGED <<rules, inserted, nodes, minRule, fail, head, failure, child, scan, pc>>

RootsQueued ==
    /\ pc = "roots" /\ todo = {}
    /\ pc' = "expand"
    /\ UNCHANGED <<build, scan>>

\* The next node of the queue: its children need links.
Expand ==
    /\ pc = "expand" /\ head <= Len(queue)
    /\ todo' = Children(queue[head])
    /\ pc' = "children"
    /\ UNCHANGED <<rules, inserted, nodes, minRule, fail, queue, head, failure, child, scan>>

NextHead ==
    /\ pc = "children" /\ todo = {}
    /\ head' = head + 1
    /\ pc' = "expand"
    /\ UNCHANGED <<rules, inserted, nodes, minRule, fail, queue, todo, failure, child, scan>>

\* Mutant: the walk starts at the parent itself, not at its link.
OwnParent == queue[head]
FirstCandidate == fail[queue[head]]

\* Some child: the walk for its link starts at the link of its parent.
PickChild ==
    /\ pc = "children"
    /\ \E n \in todo: /\ child' = n
                      /\ todo' = todo \ {n}
    /\ failure' = FirstCandidate
    /\ pc' = "walk"
    /\ UNCHANGED <<rules, inserted, nodes, minRule, fail, queue, head, scan>>

LastKey(node) == node[Len(node)]
Parent(node) == SubSeq(node, 1, Len(node) - 1)

\* Mutant: the walk does not stop at the root.
WalkForever(node, key) == ~HasTransition(node, key)
WalkOn(node, key) == ~HasTransition(node, key) /\ node # Root

\* No transition from the candidate: try the candidate's link.
Walk ==
    /\ pc = "walk" /\ WalkOn(failure, LastKey(child))
    /\ failure' = fail[failure]
    /\ UNCHANGED <<rules, inserted, nodes, minRule, fail, queue, head, todo, child, scan, pc>>

\* Mutant: a child does not inherit the rule of its link.
NoInheritance(own, inherited) == own
Inherit(own, inherited) == IF inherited = NoRule THEN own ELSE KeepMin(own, inherited)

\* The link is found, or there is none but the root.
SetLink ==
    /\ pc = "walk" /\ ~WalkOn(failure, LastKey(child))
    /\ LET link == IF HasTransition(failure, LastKey(child))
                   THEN Append(failure, LastKey(child)) ELSE failure
       IN  /\ fail' = [fail EXCEPT ![child] = link]
           /\ minRule' = [minRule EXCEPT ![child] = Inherit(@, minRule[link])]
    /\ queue' = Append(queue, child)
    /\ pc' = "children"
    /\ UNCHANGED <<rules, inserted, nodes, head, todo, failure, child, scan>>

-----------------------------------------------------------------------------
(* Matching. *)

StartScan ==
    /\ pc = "expand" /\ head > Len(queue)
    /\ text' \in Texts
    /\ pc' = "scan"
    /\ UNCHANGED <<build, pos, state, best>>

NextKey == FoldClass[text[pos + 1]]

\* Mutant: a mismatch starts over.
StartOver == Root
ShorterState == fail[state]

\* No transition on the next key: fall back along the link.
FallBack ==
    /\ pc = "scan" /\ pos < Len(text)
    /\ ~HasTransition(state, NextKey) /\ state # Root
    /\ state' = ShorterState
    /\ UNCHANGED <<build, text, pos, best, pc>>

\* Mutant: the first rule met is returned at once.
ReturnsAny(rule) == rule # NoRule
ReturnsNow(rule) == rule = FirstRule

\* The next character is consumed; the first rule of the list ends the scan.
Consume ==
    /\ pc = "scan" /\ pos < Len(text)
    /\ HasTransition(state, NextKey) \/ state = Root
    /\ pos' = pos + 1
    /\ state' = IF HasTransition(state, NextKey) THEN Append(state, NextKey) ELSE Root
    /\ best' = IF minRule[state'] = NoRule THEN best ELSE KeepMin(best, minRule[state'])
    /\ pc' = IF ReturnsNow(minRule[state']) THEN "done" ELSE "scan"
    /\ UNCHANGED <<build, text>>

ScanEnd ==
    /\ pc = "scan" /\ pos = Len(text)
    /\ pc' = "done"
    /\ UNCHANGED <<build, scan>>

Next ==
    \/ Insert \/ StartQueue \/ QueueRoot \/ RootsQueued \/ Expand \/ NextHead \/ PickChild \/ Walk \/ SetLink
    \/ StartScan \/ FallBack \/ Consume \/ ScanEnd

Spec == Init /\ [][Next]_vars /\ WF_vars(Next)

-----------------------------------------------------------------------------
(* Properties. *)

Suffixes(s) == {SubSeq(s, n + 1, Len(s)): n \in 0..Len(s)}
ProperSuffixes(s) == Suffixes(s) \ {s}
Longest(S) == CHOOSE s \in S: \A t \in S: Len(t) <= Len(s)

RuleNumbers == FirstRule..(FirstRule + Len(rules) - 1)
TermOf(r) == KeyString(rules[r - FirstRule + 1])
EndingIn(s) == {r \in RuleNumbers: TermOf(r) \in Suffixes(s)}
OccurringIn(s) == UNION {EndingIn(p): p \in Prefixes(s)}

Linked == {queue[i]: i \in 1..Len(queue)}

\* A link leads to the longest proper suffix that is in the trie, in whatever
\* order the maps are iterated.
LinksAreLongest ==
    \A n \in Linked: fail[n] = Longest(ProperSuffixes(n) \cap nodes)

\* Once linked, a node knows the least of all rules that end in it.
MinRuleIsLeast == \A n \in Linked: minRule[n] = Least(EndingIn(n))

\* The scan is at a suffix of what it consumed, and falling back never passes a
\* longer one that could take the next key (at the end: any longer one).
ScanIsLongest ==
    pc = "scan" =>
        LET seen == Suffixes(KeyString(SubSeq(text, 1, pos)))
        IN  /\ state \in seen
            /\ \A n \in seen \cap nodes:
                   pos = Len(text) \/ HasTransition(n, NextKey) => Len(n) <= Len(state)

\* The scan returns the least rule whose term occurs in the text, and none only
\* if none occurs: the early return on the first rule loses nothing.
MatchIsLeast == pc = "done" => best = Least(OccurringIn(KeyString(text)))

\* Both loops over failure links end.
Terminates == <>(pc = "done")
=============================================================================
