# Verification of cpa-plugin-censorship

TLA+ models of the censorship plugin for CLIProxyAPI: a Go shared library that
the host loads, configures while it runs, and asks about every request body it
is about to send upstream. The plugin finds the text of the body, blocks the
request on a forbidden term, or strips or obfuscates terms and hands a new body
back. All references `file:line` are to `src/`.

## 1. Inventory

| Component | State it keeps | Operations | Talks to | What is hard |
| --- | --- | --- | --- | --- |
| **Plugin instance** `main.go`, `config.go:81`, `abi_cgo.go:160` | `activeConfig` (atomic pointer to an immutable snapshot), `hostCallbackFn` under `hostAPIMu` | register, reconfigure, intercept before/after auth, shutdown | host threads call in; the log callback calls out | calls on different threads; load, compare and store are three steps; two phases of one attempt load separately; callback copied, then taken away |
| **ABI boundary** `abi_cgo.go`, `main.go:262` | C buffers handed over and freed, the lock around the host callback | init, call, callback, free, shutdown | host | lengths of 64 bits narrowed to C int; who frees what on which path; a host that hangs in the callback |
| **Configuration parser** `config.go` | none; builds a snapshot | parse, compile | instance | values that depend on keys that may stand before or after; rule ranges |
| **Rule automaton** `matcher.go:56-275` | trie, failure links, least rule per node | build, match | transformation (block, preflight) | links computed in Go map order; early return; rule offset |
| **Rule rewriting** `matcher.go:277-455` | failure table per rule | strip, obfuscate; exact, plain and table-driven | transformation | three searches that must agree, chosen by size |
| **Request transformation** `transform.go` | leaves with flags, two passes | transformRequest | selectors, automaton, rewriting | four search orders for one answer; cancelling rules; leaves that become effective late; limits on carriers |
| **JSON selectors** `selectors*.go` | none | collect text spans per format and role | transformation | inherited roles, nesting, duplicate members, disjoint spans |
| **Request filter** `request_filter.go` | compiled patterns | shouldProcess, glob matching | instance | bit positions over words; headers searched for the key the scope is the hash of |
| **Release packager** `.github/scripts/package-release.go` | files on disk | aggregate and single-library mode | file system | crash or failure between two renames; outputs of earlier runs |
| **Integration runner** `.github/scripts/integration-runner.go` | checkouts on disk | prepare, build, test | git, go | reuse of a checkout left by a run that died |
| Integration tests, workflow, docs | - | - | - | not part of the program |

How they interact: a lifecycle call parses a configuration into a snapshot
(parser, automaton, failure tables, globs are built there once) and publishes
it with one atomic store. An interception loads the pointer once, decides by
`filter.models` whether this phase is the one that works, asks the request
filter, lets the selectors find the leaves, and lets the transformation run the
block rules through the automaton and the others through the rewriters. Nothing
but the pointer and the callback is shared between threads.

What makes each correct: *instance* - every attempt is judged by exactly one
phase with one whole snapshot, and the last good configuration survives;
*parser* - order means nothing, every rule is compiled for its action;
*automaton* - the least rule that occurs is found; *rewriting* - leftmost
non-overlapping occurrences, whichever search runs; *transformation* - what
goes on has been filtered and is still valid, what is refused is refused for a
cause; *selectors* - every text of an enabled role is selected once, whoever
reads the body finds the same texts outside carriers, and rebuilding it changes nothing else;
*ABI* - every buffer has one owner and is copied whole, shutdown is not held up;
*filter* - a glob means what it says; *packager* - nothing is lost and
success means a consistent release.

`PROJECT.json` lists the hazards of the code at their lines with the properties
that would catch them.

## 2. Modules

| Module | Models | Abstract specification | Run | Proofs |
| --- | --- | --- | --- | --- |
| `PluginLifecycle` | the instance and its host threads | `PhaseContract` | `lifecycle`, `lifecycle_overlap` | `PluginLifecycle_proofs` |
| `ConfigParse` | `parseConfigYAML`, `compileSnapshot` | declared values, in the properties | `config` | `ConfigParse_proofs` |
| `CompiledRules` | `applyMode` on one text, through what was compiled | the declared terms, in the property | `config` | `ConfigParse_proofs` |
| `TermSearch` | what the searches and rewriters of `matcher.go` result in | | `config`, `transform` | |
| `RuleMatcher` | `newFoldMatcher`, `newByteMatcher` and their `match` | least rule occurring | `matcher` | `RuleMatcher_proofs` |
| `FoldRewrite` | `buildFoldFailure`, `rewriteFoldedKMP`, `rewriteFolded` | `LeftmostRewrite` | `rewrite` | `FoldRewrite_proofs` |
| `JsonBody` | gjson values, spans, tool-result carriers, JSON schemas, duplicate members (`selectors.go`) | | `selectors` | |
| `SelectOpenAI`, `SelectClaude`, `SelectGemini`, `SelectInteractions` | the collectors of `selectors_*.go` | | `selectors` | |
| `Selectors` | `selectTextSpans` over the four of them | roles, readers and turns, in the properties | `selectors` | |
| `Transform` | `transformSelectedSpans`, `applyMode`, `matchExactBlock` | rules in order on each text | `transform` | `Transform_proofs` |
| `NestingGuard` | `jsonNestingWithin` | a recursive reader, in the property | `body` | `Transform_proofs` |
| `BodyRebuild` | `sortAndValidateSpans`, the offsets of `transformSelectedSpans`, `rebuildBody` | the body with changed tokens replaced | `body` | `Transform_proofs` |
| `AbiBuffers` | `abi_cgo.go`, `callHost` | owner of each block, in the properties | `abi` | `AbiBuffers_proofs` |
| `RequestFilter` | `shouldProcess`, `matchesAPIKey`, `matchesModel`, the search of the headers | caller, model and patterns, in the properties | `filter` | `Filter_proofs` |
| `Globs` | what a pattern means, for the two next to it | | `filter`, `glob` | |
| `GlobMatch` | `compileFilterGlob`, `matches`, `expandStars` | `Globs`: alignment of tokens and runes | `glob` | `Filter_proofs` |
| `ReleasePackager` | `packageExistingArtifacts`, `writeOutputFile`, `replaceOutputFile` | release predicate | `packager` | `ReleasePackager_proofs` |

The modules meet at definitions, not at variables: the snapshot `PluginLifecycle`
publishes is what `ConfigParse` builds; `Transform` takes the answer of
`RuleMatcher` as `LeastRule` and the output of `FoldRewrite` as `Stripped` and
`Obfuscated`, which are what those modules are shown to compute, and shares these
operators of `TermSearch` with `CompiledRules`; the leaves it
starts from are spans of `Selectors`, and `BodyRebuild` carries the same spans
through the same steps on bytes; `PluginLifecycle` and `AbiBuffers` both have the
callback, one for what a call answers, the other for its memory and its lock;
`RequestFilter` takes the answer of `GlobMatch` as `GlobMatches`, which both have
from `Globs` and `GlobDecides` proves to be that answer.
A definition above the one the specification uses and introduced by `Mutant:` is
a changed form of it, a mistake the code could contain; each property of a run
is violated by at least one of them.

### PluginLifecycle

| TLA+ | Go |
| --- | --- |
| `activeConfig` | `config.go` atomic pointer, `NoSnapshot` is nil |
| `hostCallbackFn` | `main.go:259`, whether it is set |
| `call[c]` | the locals and the program point of a lifecycle call on thread `c` |
| `req[r]` | a request execution of the host: the snapshots its phases loaded, the transforms applied to the current attempt |
| `Register`, `ReconfigureRejected`, `ReconfigureLoad`, `ReconfigureCompare` | `handlePluginRegister`, `handlePluginReconfigure` cut at each access to `activeConfig` |
| `CopyCallback`, `InvokeCallback`, `AfterLog` | `callHost` cut at the unlock; the reply after it, which loads `activeConfig` again |
| `BeforeLoad`/`BeforeRun`, `AfterLoad`/`AfterRun` | the two interception phases, cut between the gate and the rules |
| `Shutdown` | `cliproxyPluginShutdown` |

The code between two accesses to shared state is one action. `Run` chooses
between going on and termination: what the rules decide is the subject of
`Transform`. A failed interception counts as going on, since the host fails open.

Host assumptions: it registers an instance once and reconfigures it afterwards;
no new lifecycle call or request starts after shutdown
(`docs/superpowers/specs/2026-09-07-censorship-v0.2.0-design.md:770`); with
`Serialized` it makes one lifecycle call at a time. `lifecycle` runs with
`Serialized = TRUE`; `lifecycle_overlap` shows what the plugin does without.

Properties: `AtMostOneTransform` and `NoPhaseGap` (together: exactly one phase
judges), `GateMatchesRules` (one snapshot per phase), `AcceptedIsInForce` (answers
against the state), `PhaseClassStable` (no step changes the phase class),
`FirstValidInstalls` (liveness), `ImplementsContract` (refinement of
`PhaseContract`).

`PhaseContract` knows one policy, executions and a count of transforms. The
refinement maps the policy to `activeConfig`, the first policy an execution met
to the snapshot loaded in the before phase, and the count to the number of
judgements of the attempt.

### ConfigParse

A document is its key order and the value of each key. One action per key
(`ReadMode`, `ReadWords`, ...), `Validate` for the duplicates found before any
key is read, `Reject` for an unknown key, a refused value or an empty word,
`Assemble` for the end of `parseConfigYAML` (the words of a sequence go under
the mode, the rules are laid out block, strip, obfs, the obfs terms checked
against the mark), `Compile` for `compileSnapshot`. `Declared` reads the document
without order and `DeclaredSnapshot` is the snapshot it makes; `OrderMeansNothing` compares
with the snapshot compiled, field by field.

`compiled` holds what `compileSnapshot` derives: the folded runes and the exact
replacement of each rule, and for each search structure the rules it is built from.
`CompiledRules` judges a text with them and with nothing else, in the order of
`applyMode`: the rules tried before the automaton, the automaton or the rest one by one,
the preflight, then rule by rule the rewriters. `CompiledAsDeclared` compares what comes
of it with the terms the document lists, under its own case rule and mark: a range or an
offset that is one off, or terms laid out under another action, shows in some text.
Length thresholds are a choice (`long`), since both ways must agree. A wrong table of
`rule.FoldFailure` would not show here; that is `FoldRewrite`.

### RuleMatcher

A node is the key string leading to it, so the trie is a prefix-closed set of
strings, `transition` is `Append`, and the invariants speak about suffixes.
`PickChild` chooses any remaining child: Go's map order. The fold and the byte
automaton are the same algorithm over case classes and bytes.

### FoldRewrite

Positions count characters. The code keeps byte offsets beside them only to cut
the output at the borders of characters (`starts` of `rewriteFoldedKMP`).
`Dispatch` chooses the search by size, so one refinement of `LeftmostRewrite`
covers both. `TypeOK` includes what keeps the unchecked index
`pattern[state]` inside the pattern.

### JsonBody, the collectors, Selectors

A body is a JSON tree; a node of it is its value with the path that leads there, and
a span is the path of a string with its role, constraints, nested description and,
for a tool result that is a JSON text with an image in it, the spans inside. A
string is its text and, if it parses as JSON, the tree it encodes. Each collector is
an operator with the name of the Go function that takes a node and the enabled roles
and gives its spans (the sort that follows makes their order of no account), with the
role tests of the function: a part of it that the code guards with `roles.has` or with
a test for several roles is under `When` with that test. `Selectors` has one step
per body: `Refuse` (no object, duplicate members) or `Select` (collect, sort,
validate).

A member name may be spelled with escapes; `canonicalJSONMemberName` decides which
names are equal. Positions take the place of offsets: two spans overlap when they
are one string. Where they lie in the bytes is the subject of `BodyRebuild`.

`SpansDisjoint`: no string is selected by two collectors, although the Gemini
schemas are walked twice, once for JSON Schema keys and once for `any_of`, and the
request would go on unfiltered; nor does a nested description that may join later
overlap a selected string or another nested one. `RolesChoose`: no early return and no
test for several roles loses a text of an enabled role, and none of another role gets
through; the reference is the collection with all roles enabled. Each of the role tests,
made false, violates it.
`ReadersAgree`: collecting from the body with its members reversed gives the same
texts, for the texts outside the strings of carriers. Inside one it need not: the body is
searched for equal members, the JSON a carrier's string encodes is not
(`selectors.go:159`), so a body whose carrier holds an object with two equal members is
accepted and two readers of that object may differ. `README.md:168` refuses equal members
at any depth; whether this reaches into a carrier it leaves open. The instance has such
bodies. `EmptyingUncoversNested`: collecting again after any selected text, or all of
them, were emptied finds nothing new but the nested descriptions the first pass
kept. `TurnsAlternate`: the role of a Gemini content against the last content before
it that names its turn.

### NestingGuard

The guard runs byte by byte: `InString`, `OutsideString` and `GuardEnds` are the loop of
`jsonNestingWithin` and its return. `Byte` is the set a body's bytes are from. `GuardBoundsReader` compares it, a counter that
ignores the kinds of the brackets, with `Reader`, which keeps the stack. It is about
readers of the body: a carrier's string is decoded and read again (`selectors.go:159`)
without the guard, which has skipped its brackets with the string. `BodyRebuild`
takes its steps as they are and leaves its variables alone in every other step, so what
`GuardSpec` promises holds there too (`GuardInCall`).

### BodyRebuild

Bytes are one-character strings; a body of `Documents` is a sequence of segments (raw bytes,
tokens of texts, tools' descriptions, nested descriptions, carriers). `WellFormed` says
what makes one: tokens are not empty, a carrier is the encoding of what it carries, and a
nested description belongs to one tool: it may stand anywhere in the body, before or
behind the tool's own, with selected texts between, since `function.description` is found
by its path. The variable `stage` is the place
in `transformSelectedSpans`: the guard of `NestingGuard` goes first, `Collect` presents the
spans in any order (`selected`), `Rewrite` sorts, flattens carriers and gives each leaf any
new text (`flatSpans`), `Settle` puts the leaves back (`Gathered`), rebuilds carriers and
lets the activated descriptions join (`TakingOver`), `Rebuild` is `rebuildBody`. `Rebuilt`
is written as a function of how many spans are done, and sorting as the choice of an order,
since the code relies on nothing else of either. `reply` is the result; an error of
`rebuildBody` inside `Settle` has no step of its own, because it would leave a carrier
without a text, and the theorem below shows that it never happens. `Expected` is the body
with the segments replaced, with no offsets; `RebuildReplaces` compares bytes.

### AbiBuffers

| TLA+ | Go |
| --- | --- |
| `heap` | who allocated each C block: `malloc` of the plugin, the host, nobody |
| `frame[t]` | a host thread's call: its arguments, its response structure, which the host keeps from call to call, and the blocks of a callback under way |
| `misuse` | a block was freed twice or by the wrong allocator, or a copy was not whole |
| `Enter`, `Handle`, `Answer` | `cliproxyPluginCall` around `handleMethod` |
| `ReadLock`, `CopyCallback` | `callHost` up to its unlock |
| `Marshal`, `HostAnswers`, `HostAnswered` | the closure of `cliproxy_plugin_init` before, during and after the host's function, with its deferred calls |
| `HostFrees` | `cliproxyPluginFree` |
| `ShutdownCalled`, `ShutdownReturns` | `cliproxyPluginShutdown` waiting for and holding the write lock |

Freed blocks are used again at once, the lowest first, so a stale pointer meets
another thread's block. The host calls with every combination of null pointers and
gives whatever is in its response structure to `cliproxyPluginFree`, whatever the
code says. `BuffersOwned`: the blocks in use are exactly those somebody still
answers for, each by one. `ShutdownIsNotBlocked` is liveness.

### Transform

A body is the sequence of its selected leaves, each with role, constraints and
a possibly nested description, or an encoded carrier of several. Offsets are the
order of the leaves here and bytes in `BodyRebuild`. The four ways to search for a block rule are `RuleMajor`,
`SpanMajor` and their combinations in `ExactBlock`; `BlockIsFirst` says they
agree with rule order, then document order. What the encoding of a carrier adds to its
texts is the constant `Overhead`; the code measures the encoded string, which may need
more or fewer escapes after a rewrite. `Final` is what the rules mean for
one text, with no passes and no flags; the properties compare against it.

### GlobMatch

A word is the set of its set bits. `Shifted` is the shift of all words with the
carry. An alignment (`Globs`) is a place in the value where each token ends;
`ActiveIsAligned` says that after every rune exactly those positions are
active that some alignment of pattern and value reaches, word by word.

### RequestFilter

`Model`, `Literal`, `Entry`/`NextCarrier`, `Glob`, `Decide` follow `shouldProcess` and
`matchesAPIKey`. The headers are a set of entries, one per spelling of a name, and
`Entry` meets any of them: Go's map order. A scope is a record with the trimmed
text it is the hash of, so hashing is injective; the code compares hashes only.
`DecisionIsTheCallers` compares with the authenticated key, which the code has to
find first.

### ReleasePackager

What a file holds is a function from platforms to builds (hashes are taken to be
injective). Every operation of the file system is a step that may fail, and
`Crash` may follow any. `temps` and `backups` are what nobody will remove any
more, `last` is what was last installed at each destination. A library may
change until the archiver opens it. Validation of paths is a choice to refuse in
`Start`, before any output is touched.

## 3. Runs

| Run | Instance | Distinct states | Shows |
| --- | --- | --- | --- |
| `lifecycle` | 4 snapshots (two per class, one of each without rules), 1 caller, 2 requests, 2 attempts | 358 thousand | reconfigurations at every point between the phases of two executions |
| `lifecycle_overlap` | 2 callers, not serialized | counterexample | the phase lock is not atomic (finding 1) |
| `matcher` | pairs of terms of up to 3 keys and lists of 3 and 4, all texts of 5 | 89 thousand | links over up to three levels, terms inside each other, every map order |
| `rewrite` | all terms of up to 5 keys, all texts of 4 and 7 characters and some with both cases | 277 thousand | repeated fallback (`aabaa`), occurrences that overlap, both sides of both thresholds |
| `transform` | 120 rule sets, bodies of two items, texts of up to 4 | 60 thousand | strip and obfs that cancel, the second pass, limits of leaves and carriers |
| `selectors` | about a thousand bodies: every place of templates of the five formats filled in turn, under the sets of no, one, four and all five roles (one role alone meets every test for several roles; with one missing, a text of it that slips through shows) | 25 thousand | schemas under both spellings of `any_of`, carriers, some with equal members inside, tools with two descriptions, turns of three contents, duplicate and escaped member names |
| `body` | all strings of up to 5 brackets, quotes and backslashes; bodies of up to three texts, two tools and their nested descriptions, every rewrite, every order of collection | 122 thousand | counts below zero, escaped quotes, limit 1; carriers in front of and behind tokens that change length; nested descriptions on either side, with another token between |
| `abi` | 2 threads, 6 blocks, lengths 0, 3, 4 and 9 for a C int of 3 bits | 241 thousand | callbacks of both threads under way at once, at shutdown, with host errors and failing allocations |
| `glob` | all patterns of up to 4 tokens and some of 5, all values of up to 4 runes, 2-bit words | 105 thousand | up to three words, runs of stars over their borders, dense and listed literals |
| `filter` | 60 filters, header maps of up to two entries, metadata right, malformed or absent | 125 thousand | the caller's key behind other values, in another spelling, in any of three headers or in none |
| `config` | up to 5 keys in every order; 13 texts of both cases | 65 thousand | mode and mark before and behind the words; refusals; rules tried before, in and without the automaton, texts the preflight takes out |
| `packager` | 2 platforms, 2 builds, 2 runs, 3 faults | 81 thousand | failure of a rename, of its rollback and of the cleanup in one run; a second run over the remains |

Bounds and why they suffice. `abi`: a block changes hands between two calls at most,
and a thread holds three blocks at most, so six never run out; 4 is the first
length that does not fit and would become negative, 9 would be cut to 1. `selectors`:
collectors work item by item, so one item of each kind beside another is enough;
only the turns of Gemini run through a list. `body`: a wrong offset shows at the
second changed token at the latest, and a carrier adds one level. `lifecycle`: a violation of the phase contract
needs one execution, two loads and one store between them; the second
request and the second attempt add retries. `MaxAttempts` bounds the retries of
the host. Thresholds of the code (64 rules, 4 KiB of text and the like) are
constants scaled to where both sides occur in the instance: the code only
compares sizes with them. `WordBits` is 2 instead of 64: carries depend on
positions modulo the word. `MaxRuns`, `MaxFaults`: three faults are a failed
install, a failed rollback and a failed cleanup, or one crash per run and a
failure; a third run meets nothing a second does not.

Deadlock is not checked where the system stops by design: an instance that is
shut down, a search that is done, a packager out of runs.

Fairness. `PluginLifecycle`: weak fairness of the steps of a lifecycle call. A
host thread inside the plugin runs on; no lock is held while the host callback
runs, and the host answers its log call. Nothing is assumed of the host's own
steps: it need not call, retry or shut down. `RuleMatcher` and `FoldRewrite`:
weak fairness of `Next`, a loop that can step does. `AbiBuffers`: weak fairness of
the plugin's own steps and of the write lock, which Go's `RWMutex` gives a waiting
writer once the readers are gone. The host's answer to a callback is not fair: it may
hang there, and shutdown returns all the same. The other modules state
safety only.

Finding 1 (`lifecycle_overlap`): `README.md:176` promises that a candidate that
changes the phase class is rejected. `handlePluginReconfigure` loads
(`main.go:97`), compares (`:98-100`) and stores (`:104`) with no lock, so two
overlapping lifecycle calls can leave a snapshot of the other class in force. A
host that makes one lifecycle call at a time, as `lifecycle` and the theorems
assume, never meets it.

## 4. Proofs

`PluginLifecycle_proofs`, for any sets of snapshots, callers and requests and
any bound of attempts:

- `TypeCorrect`: `Spec => []TypeOK`, with and without overlapping calls. It needs
  `CompareParsed`: a call that has come to the comparison has a parsed candidate.
- `PhaseLock`, `NoAttemptSlips`, `ExactlyOneJudgement` and `Refinement` assume
  `Serialized`. They rest on `IInv == TypeInv /\ SerialInv /\ RequestInv`. `SerialInv`: at most one
  call is under way, and at its comparison the snapshot it loaded is still the
  active one. That is what makes load, compare and store atomic in effect
  (`ClassKept`), and it is what overlapping calls break. `RequestInv`
  (`Judged`): by phase of the execution, which snapshots it has loaded, that
  they are of the class still in force, and which judgements the attempt has.
  `AtMostOneTransform` is not inductive: only the classes of the two loaded
  snapshots exclude that both gates opened.
- `OneSnapshotPerPhase`: `Spec => []GateMatchesRules` for any host, since a phase runs
  with the pointer its gate has tested (`GateInv`).
- `OkIsHonest`: `Spec => []AcceptedIsInForce`, with `Serialized`. A candidate that is being
  logged though it is valid is of the other class (`LoggedInv`), and nobody installs
  between a comparison and its reply.
- `Refinement` shows every step to be a step of `PhaseContract` or to change
  nothing it sees, one lemma per request step.

`ReleasePackager_proofs`, for any platforms, builds, runs, faults and crashes:

- `OutputsSurvive`, `Spec => []NothingLost`. The invariant `PackInv` says that a file
  at a destination is what was last installed there, that what was last installed is
  there or in a kept backup unless it is being replaced, and that while it is
  (`install`, `rollback`) the backup in hand is it. The jobs have to name outputs for
  this (`PlanTyped`).
- `SuccessLeavesRelease`, `Spec => []SuccessIsRelease`, and `AggregateComesLast`, `Spec =>
  AggregateIsLast`. `RunInv` adds what a run that is alive owes: the jobs left are well
  ordered, as any tail of a plan is (`PlanSettles`, `TailOrdered`); an output with no job
  left is settled with the build the run archived (`PairsDone`, `ContentInv`); a sidecar's
  job comes after its archive's (`SidecarFollows`), and the aggregate is the last job of
  all. Success is not inductive without the order: a job done early could be undone by a
  later one on the same output. That no two outputs share a name is `OutputsDiffer`.

`AbiBuffers_proofs`, for any threads, lengths and limits of the integers:
`BuffersAreOwned`, `Spec => []BuffersOwned`. The invariant adds to the property which
allocator each held block has (`OwnInv`) and what a frame keeps between its steps
(`Kept`: from the prologue to the return the response is cleared). A step of one
thread that takes free blocks only and frees what it gives up keeps `OwnInv`
(`OneThread`); each action is shown to be such a step. A copy is whole because a
number below the limit survives the conversion (`CIntKeeps`).

`RuleMatcher_proofs`, for any list of terms, any text and any order of the children:
`LinksLongest`, `MinRuleLeast`, `ScanLongest` and `MatchLeast`, one theorem for each
invariant of the run. Suffixes are compared by position (`IsSuffix`), two suffixes of a
string by their length. While links are built, a node's failure link is the longest
proper suffix in the trie because its parent's is, and the candidates the loop steps
over are exactly the suffixes in between (`WalkInv`); the queue is breadth first (`QueueInv`),
so every node nearer the root has its link already. Minimal rules follow since every term that
ends in a node ends in its link or is the node itself. The scan keeps the longest suffix
of what it consumed, so an early return on the least rule of the list misses nothing.

`FoldRewrite_proofs`, for any alphabet, terms, texts and thresholds:

- `IndexesInRange`, `Spec => []TypeOK`. The code indexes the term with the search state
  and the table with a candidate border and tests neither. `TypeOK` is not inductive
  while the table is built: the next entry is the candidate plus one, and it is
  below its own position only because the candidate is two shorter than the prefix
  that comes next (`CandidateShorter`).
- `TableIsBorders`, `SearchIsLongest`: an entry is the longest border because no longer
  border of the prefix before extends, and the state of the table-driven search is the longest prefix of the
  term that ends where the search is, by the same argument on the text.
- `RewritingIsLeftmost`, `Spec => ImplementsLeftmost`: each step of either search is a step
  of `LeftmostRewrite` or changes nothing it sees. That the state is the longest is what
  makes a match the leftmost one.

`ConfigParse_proofs`, for any documents and thresholds: `OrderIrrelevant`, `Spec =>
[]OrderMeansNothing`, and `RulesCompiled`, which is what `CompiledAsDeclared` says of block
rules and of the preflight, for every text. `ReadInv` says of
each key met that its field holds the value declared and that nothing refused has been
passed, and of each key not met that its field is still the default; so at the end of the
document the fields depend on the document alone. `MadeInv` carries them through
`Assemble` and `Compile`. A compiled rule is found in what a search sees of a text exactly
where the declared term occurs (`SearchFindsTerm`), the rules before the automaton all come
before those in it (`LeastFirst`), so each way to search decides on the least
(`SearchDecides`).

`Filter_proofs`, for any filters, requests and headers: `SearchSound`, `Spec =>
[]SearchFindsCaller`, and `DecisionSound`, `Spec => []DecisionIsTheCallers`. `TrimTwice` (a
trimmed text has nothing left to trim) makes a value that binds the caller's key itself
(`EntryYields`), and `LiteralGlob` (a pattern without wildcards matches itself alone) makes
the comparison of texts and scopes the same as matching. `SearchInv`: no entry met so far,
of this header or an earlier one, carries the key. The short cuts of `shouldProcess` need
`KeyInv`: a key is not looked for exactly when the model leaves nothing to decide.

For any patterns, values and size of word, in the same module: `BitsAreReached`, `GlobSpec =>
[]ActiveIsAligned`, and `GlobDecides`, `GlobSpec => []DecidesGlob`. Three arguments meet.
*Alignment*: one more token is one more place (`AlignedNext`), so the positions a rune
leads to follow from those before (`ReachedNext`); that one expansion is enough rests on
`NoDoubleStar`. *Bits*: a shift with its carries takes position k to k + 1 and loses none
(`ShiftMoves`, from the uniqueness of quotient and remainder, `PlaceUnique`), and every
position has its bit (`PlaceExists`). *Collapsing*: a star behind a star aligns with
nothing new (`StarTwice`), so the tokens mean what the pattern means (`Collapsed`).

`Transform_proofs`, for any alphabet, rule sets, bodies and thresholds: `FirstRuleBlocks`,
`FlagsAreDifferences`, `ForwardedWentThrough`, `ForwardedKeepsConstraints` and
`RefusalsAreCaused`, one theorem for each invariant of the run. Three layers meet.
*Sequences*: where the pieces of a concatenation lie (`FlattenPlaces`), when two have equal
pieces (`FlattenAlike`) and how their lengths compare. The library's induction cannot be
used here, so these rest on two lemmas of sets of numbers: a set of naturals that is not
empty has a least member (`LeastNatural`), hence `IntervalInduction`; and a recursive
function over an interval has the values its equation says (`RecursionExists`).
*Operators*: the two loop orders and the automaton find the same rule and leaf
(`RuleMajorFirst`, `SpanMajorFirst`, `BlockMatchFirst`); rules of one kind never restore a
text they changed, since stripping shortens and obfuscation lengthens (`AfterOneKind`), so
comparing with retained originals is only needed with both kinds; a text no rule occurs in
stays as it is (`AfterAlone`), so the preflight skips nothing. *State*: `PassInv` says that
at rule r each leaf is what the rules before r make of its source; `FlatInv` carries
the first pass through the second, whose sources are exactly the descriptions the rules
uncovered (`UncoveredAll`); `PartOfIs` says that the leaves cut out for a carrier are its own.
None of the five properties is inductive alone: each speaks of the answer, and what it says
is decided by texts the passes have meanwhile overwritten.

In the same module `GuardIsSound`, `GuardSpec => []GuardBoundsReader`, for any bytes and any
limit. `GuardInv` carries the reader along: after each byte, either the reader has stopped,
or the guard's count is the height of its stack and both agree on strings and escapes; and the
reader's deepest point so far is within the limit. A reader that has stopped at
a mismatched bracket stays stopped (`ReaderKeeps`), so the guard may count on. `GuardInCall`,
`RebuildSpec => GuardSpec`: each step of the call is a step of the guard or leaves its
variables alone, so `GuardHoldsInCall`, `RebuildSpec => []GuardBoundsReader`, follows.

`BodyIsRebuilt`, `RebuildSpec => []RebuildReplaces`, for any well-formed bodies, any
rewrites and any order of collection, in five steps.
*Sorting*: numbers that differ can be put in one order only (`OrderExists`, `SortedIs`), so
it does not matter how the collectors found the spans.
*Rebuilding*: if each changed span owns one piece of the text and no two the same piece
(`Owned`), the text that `Rebuilt` makes is the concatenation with those pieces exchanged
(`RebuiltIs`, by `IntervalInduction` over the spans: so far, what is written is the pieces
up to the last token, exchanged). It is used on the text of a carrier (`CarrierRebuilt`)
and again on the body.
*Leaves*: where a span's leaves lie in the flattened list depends on the lengths before it
(`PartForIs`), so each span gets its own back.
*Taking over*: a nested description joins exactly if the description above it was emptied,
and once (`TakingOverIs`), because no two tools share one.
*State*: `RebuildReplaces` speaks of the reply alone and is not inductive. `RebuildInv` says
at each stage what the spans are: those of the body in some order (`Collected`), with
their rewritten leaves (`Worked`), one for every token that changes and in order (`Ready`).

Assumptions: `FoldRewriteAssumption`, `MatcherAssumption`, `ConfigAssumption`,
`HostAssumption`, `PackagerAssumption`, `AbiAssumption`, `FilterAssumption`,
`GlobAssumption`, `TransformAssumption`, `GuardAssumption`, `RebuildAssumption`, evaluated by
TLC in the runs of the modules that extend them. They give the constants their shapes;
`RebuildAssumption` says that the documents are `WellFormed`, which is what a body is by
construction of its segments; `FilterAssumption` also says that a scope is the hash of a
trimmed key, as `callerScope` makes it, and `PackagerAssumption` that no platform has the
name the records of files use as a tag. `Serialized`, where a theorem of the lifecycle
assumes it, is the host assumption of section 2.

Only model-checked:

- liveness (`FirstValidInstalls`, `Terminates`, `ShutdownIsNotBlocked`): fairness and
  ENABLED are beyond the proof system;
- what the strip and obfs rules make of a text in the end (`CompiledAsDeclared`): its
  reference is a fold over the declared terms, which needs induction over data;
- `Selectors`: the collectors walk JSON trees with recursive operators, which the proof
  system cannot use, and its five properties compare what they collect.

## 5. Not modelled

- JSON and YAML decoding, UTF-8, error texts: data no property tells apart. Quoting is
  modelled in `BodyRebuild` as far as it moves offsets.
- The exact rewriter is one call of `strings.ReplaceAll`; `TermSearch` has its meaning.
- The overflow checks of `rebuildBody` and `appendStringSpan`: a body's length is an int.
- Path comparison and symbolic links in the packager: they ask the file system of the
  platform. Its single-library mode runs the same `packageLibrary` and `writeChecksum`.
- The integration runner runs git and go and keeps no state of the program; a checkout
  that a dead run left (`integration-runner.go:282`) is the one hazard of it.
- Tests and the workflow.

## 6. Plan

Order of the work that is left, most important first.

1. The packager's path checks with files that have several names, and its
   single-library mode beside the aggregate one.
2. The checkouts of the integration runner over runs that die between two commands.
