-------------------------- MODULE PluginLifecycle --------------------------
(***************************************************************************)
(* The plugin instance while the host uses it (main.go, config.go,         *)
(* abi_cgo.go): lifecycle calls publish configuration snapshots through    *)
(* one atomic pointer, request executions read it once per interception    *)
(* phase, and rejected reconfigurations are logged through a host callback *)
(* that shutdown takes away.  Every call runs on a host thread of its own; *)
(* one action is the code between two accesses to shared state.            *)
(*                                                                         *)
(* A behaviour starts after cliproxy_plugin_init in a fresh process, with  *)
(* the host callback installed and no snapshot.                            *)
(***************************************************************************)
EXTENDS Naturals, FiniteSets

CONSTANTS
    Snapshots,      \* configurations parseConfigYAML accepts
    ModelBearing,   \* those whose filter.models is not empty
    RuleFree,       \* those without any rule
    NoSnapshot,     \* the nil pointer activeConfig starts with
    Rejected,       \* a candidate parseLifecycleSnapshot rejects
    Callers,        \* host threads that make lifecycle calls
    Requests,       \* request executions of the host
    MaxAttempts,    \* bound on the upstream attempts of one execution
    Serialized      \* TRUE: the host makes one lifecycle call at a time

ASSUME ConfigAssumption ==
    /\ ModelBearing \subseteq Snapshots
    /\ RuleFree \subseteq Snapshots
    /\ NoSnapshot \notin Snapshots
    /\ Rejected \notin Snapshots \cup {NoSnapshot}

ASSUME HostAssumption == MaxAttempts \in Nat /\ Serialized \in BOOLEAN

VARIABLES
    activeConfig,    \* config.go's atomic pointer
    hostCallbackFn,  \* whether main.go's host callback is set
    registered,      \* the host has made its plugin.register call
    shutDown,        \* the host has called cliproxyPluginShutdown
    call,            \* each caller's lifecycle call
    req              \* each request execution

vars == <<activeConfig, hostCallbackFn, registered, shutDown, call, req>>

Pointers == Snapshots \cup {NoSnapshot}

CallStates == {"idle", "entry", "compare", "log", "hostcall", "logged", "return"}
Call == [pc: CallStates, op: {"register", "reconfigure"},
         cand: Snapshots \cup {Rejected}, cur: Pointers,
         reply: {"none", "ok", "plugin_error"}]

RequestStates == {"new", "beforeRun", "routed", "afterRun", "forwarded", "terminated"}
Applied == [phase: {"before", "after"}, cfg: Pointers]
Request == [pc: RequestStates, before: Pointers, after: Pointers,
            applied: SUBSET Applied, attempts: 0..MaxAttempts]

\* The state has its shape: a published pointer is a whole snapshot or nil.
TypeOK ==
    /\ activeConfig \in Pointers
    /\ hostCallbackFn \in BOOLEAN
    /\ registered \in BOOLEAN
    /\ shutDown \in BOOLEAN
    /\ call \in [Callers -> Call]
    /\ req \in [Requests -> Request]

Init ==
    /\ activeConfig = NoSnapshot
    /\ hostCallbackFn = TRUE
    /\ registered = FALSE
    /\ shutDown = FALSE
    /\ call = [c \in Callers |-> [pc |-> "idle", op |-> "register", cand |-> Rejected,
                                cur |-> NoSnapshot, reply |-> "none"]]
    /\ req = [r \in Requests |-> [pc |-> "new", before |-> NoSnapshot,
                                  after |-> NoSnapshot, applied |-> {}, attempts |-> 0]]

-----------------------------------------------------------------------------
(* Lifecycle calls. *)

Idle(c) == call[c].pc = "idle"

\* The ABI call arrives: the envelope and the YAML are parsed from the call's
\* own copy of the request, which touches no shared state.  The host registers
\* an instance once and reconfigures it afterwards.
LifecycleCall(c, op, cand) ==
    /\ Idle(c)
    /\ Serialized => \A d \in Callers: Idle(d)
    /\ ~shutDown
    /\ op = "register" <=> ~registered
    /\ registered' = TRUE
    /\ call' = [call EXCEPT ![c] = [pc |-> "entry", op |-> op, cand |-> cand,
                                    cur |-> NoSnapshot, reply |-> "none"]]
    /\ UNCHANGED <<activeConfig, hostCallbackFn, shutDown, req>>

Goto(c, pc) == call' = [call EXCEPT ![c].pc = pc]
Reply(c, answer) == call' = [call EXCEPT ![c].pc = "return", ![c].reply = answer]

\* installSnapshot: one atomic store.
Install(c) == activeConfig' = call[c].cand

\* handlePluginRegister installs whatever it could parse.
Register(c) ==
    /\ call[c].pc = "entry" /\ call[c].op = "register"
    /\ IF call[c].cand = Rejected
       THEN Reply(c, "plugin_error") /\ UNCHANGED activeConfig
       ELSE Reply(c, "ok") /\ Install(c)
    /\ UNCHANGED <<hostCallbackFn, registered, shutDown, req>>

\* handlePluginReconfigure, a candidate that does not parse: log it first.
ReconfigureRejected(c) ==
    /\ call[c].pc = "entry" /\ call[c].op = "reconfigure"
    /\ call[c].cand = Rejected
    /\ Goto(c, "log")
    /\ UNCHANGED <<activeConfig, hostCallbackFn, registered, shutDown, req>>

\* handlePluginReconfigure, a valid candidate: load the current snapshot.
ReconfigureLoad(c) ==
    /\ call[c].pc = "entry" /\ call[c].op = "reconfigure"
    /\ call[c].cand # Rejected
    /\ call' = [call EXCEPT ![c].pc = "compare", ![c].cur = activeConfig]
    /\ UNCHANGED <<activeConfig, hostCallbackFn, registered, shutDown, req>>

SameClass(s, t) == s \in ModelBearing <=> t \in ModelBearing

\* Mutants: the nil test forgotten; no phase test.
PhaseChangeOnNil(cur, cand) == ~SameClass(cur, cand)
PhaseChangeIgnored(cur, cand) == FALSE

\* A candidate of the other filter.models class than the loaded snapshot.
PhaseChange(cur, cand) == cur # NoSnapshot /\ ~SameClass(cur, cand)

\* The candidate is compared with the snapshot loaded before, then stored.
ReconfigureCompare(c) ==
    /\ call[c].pc = "compare"
    /\ IF PhaseChange(call[c].cur, call[c].cand)
       THEN Goto(c, "log") /\ UNCHANGED activeConfig
       ELSE Reply(c, "ok") /\ Install(c)
    /\ UNCHANGED <<hostCallbackFn, registered, shutDown, req>>

\* callHost copies the callback under the read lock ...
CopyCallback(c) ==
    /\ call[c].pc = "log"
    /\ Goto(c, IF hostCallbackFn THEN "hostcall" ELSE "logged")
    /\ UNCHANGED <<activeConfig, hostCallbackFn, registered, shutDown, req>>

\* ... and calls the copy after releasing it; the answer is ignored.
InvokeCallback(c) ==
    /\ call[c].pc = "hostcall"
    /\ Goto(c, "logged")
    /\ UNCHANGED <<activeConfig, hostCallbackFn, registered, shutDown, req>>

\* Mutant: every rejection is answered as kept.
KeptReplyAlways(c) == "ok"

\* A rejected reconfiguration is an error only while there is nothing to keep.
KeptReply(c) ==
    IF call[c].cand = Rejected /\ activeConfig = NoSnapshot THEN "plugin_error" ELSE "ok"

AfterLog(c) ==
    /\ call[c].pc = "logged"
    /\ Reply(c, KeptReply(c))
    /\ UNCHANGED <<activeConfig, hostCallbackFn, registered, shutDown, req>>

Return(c) ==
    /\ call[c].pc = "return"
    /\ Goto(c, "idle")
    /\ UNCHANGED <<activeConfig, hostCallbackFn, registered, shutDown, req>>

\* cliproxyPluginShutdown takes the callback away and leaves activeConfig.
Shutdown ==
    /\ ~shutDown
    /\ shutDown' = TRUE
    /\ hostCallbackFn' = FALSE
    /\ UNCHANGED <<activeConfig, registered, call, req>>

-----------------------------------------------------------------------------
(* Request executions: request.intercept_before once, then                 *)
(* request.intercept_after for every upstream attempt the host makes.      *)

\* Mutants: a gate that forgets which class it belongs to.
GateIgnoresModels(cfg) == cfg # NoSnapshot /\ cfg \notin RuleFree
GateNeverOpen(cfg) == FALSE

\* The early returns of interceptBeforeAuth and interceptAfterAuth.
BeforeGateOpen(cfg) == cfg # NoSnapshot /\ cfg \notin RuleFree /\ cfg \notin ModelBearing
AfterGateOpen(cfg) == cfg # NoSnapshot /\ cfg \notin RuleFree /\ cfg \in ModelBearing

UnchangedByRequests == UNCHANGED <<activeConfig, hostCallbackFn, registered, shutDown, call>>

BeforeLoad(r) ==
    /\ req[r].pc = "new" /\ ~shutDown
    /\ req' = [req EXCEPT ![r].before = activeConfig,
                          ![r].pc = IF BeforeGateOpen(activeConfig)
                                    THEN "beforeRun" ELSE "routed"]
    /\ UnchangedByRequests

\* Mutant: interceptRequest loads the pointer again.
RunReloads(r, loaded) == activeConfig

\* interceptRequest runs with the snapshot its caller loaded.
RunSnapshot(r, loaded) == loaded

\* interceptRequest: the filter and the rules of one snapshot judge the body; it
\* terminates the execution or lets a body go on (a failed call counts as the
\* latter: the host fails open).
Run(r, phase, loaded, next) ==
    \E verdict \in {next, "terminated"}:
        req' = [req EXCEPT ![r].pc = verdict,
                           ![r].applied = @ \cup {[phase |-> phase,
                                                   cfg |-> RunSnapshot(r, loaded)]}]

BeforeRun(r) ==
    /\ req[r].pc = "beforeRun"
    /\ Run(r, "before", req[r].before, "routed")
    /\ UnchangedByRequests

\* An attempt with a selected auth marker reaches the after gate; an early call
\* without it changes nothing and is left out.
AfterLoad(r) ==
    /\ req[r].pc = "routed" /\ req[r].attempts < MaxAttempts
    /\ req' = [req EXCEPT ![r].after = activeConfig,
                          ![r].attempts = @ + 1,
                          ![r].pc = IF AfterGateOpen(activeConfig)
                                    THEN "afterRun" ELSE "forwarded"]
    /\ UnchangedByRequests

AfterRun(r) ==
    /\ req[r].pc = "afterRun"
    /\ Run(r, "after", req[r].after, "forwarded")
    /\ UnchangedByRequests

\* The host retries with another auth: the next attempt starts again from the
\* body that left the before phase.
NextAttempt(r) ==
    /\ req[r].pc = "forwarded"
    /\ req' = [req EXCEPT ![r].pc = "routed",
                          ![r].applied = {a \in @: a.phase = "before"}]
    /\ UnchangedByRequests

-----------------------------------------------------------------------------
CallStep(c) ==
    \/ Register(c) \/ ReconfigureRejected(c) \/ ReconfigureLoad(c)
    \/ ReconfigureCompare(c) \/ CopyCallback(c) \/ InvokeCallback(c)
    \/ AfterLog(c) \/ Return(c)

RequestStep(r) ==
    \/ BeforeLoad(r) \/ BeforeRun(r) \/ AfterLoad(r) \/ AfterRun(r) \/ NextAttempt(r)

Next ==
    \/ \E c \in Callers, op \in {"register", "reconfigure"},
          cand \in Snapshots \cup {Rejected}: LifecycleCall(c, op, cand)
    \/ \E c \in Callers: CallStep(c)
    \/ \E r \in Requests: RequestStep(r)
    \/ Shutdown

\* A thread inside a call runs on: no lock is held across the host callback,
\* and the host answers its log call.  Nothing obliges the host to call.
Fairness == \A c \in Callers: WF_vars(CallStep(c))

Spec == Init /\ [][Next]_vars /\ Fairness

-----------------------------------------------------------------------------
(* Properties. *)

\* An attempt is transformed in at most one of the two phases, however
\* reconfigurations interleave with it (README "an ordinary AuthManager attempt
\* receives at most one transform").
AtMostOneTransform == \A r \in Requests: Cardinality(req[r].applied) <= 1

\* The dual: no attempt slips between the phases.  If a snapshot was there when
\* the execution began, and the two it loaded both have rules, a forwarded
\* attempt was judged.
NoPhaseGap ==
    \A r \in Requests:
        (/\ req[r].pc = "forwarded"
         /\ req[r].before \notin RuleFree \cup {NoSnapshot}
         /\ req[r].after \notin RuleFree) => req[r].applied # {}

\* The snapshot whose rules ran is one whose own gate opens for that phase: a
\* reconfiguration between the gate and the rules does not mix two snapshots.
GateMatchesRules ==
    \A r \in Requests: \A a \in req[r].applied:
        /\ a.cfg \notin RuleFree \cup {NoSnapshot}
        /\ (a.phase = "after") <=> (a.cfg \in ModelBearing)

\* What an OK tells the host: there is a valid snapshot (README "Invalid
\* reconfiguration returns plugin_error while no valid snapshot exists"), and a valid
\* candidate is in force unless it would change the phase class.
AcceptedIsInForce ==
    \A c \in Callers:
        call[c].pc = "return" /\ call[c].reply = "ok" =>
            /\ activeConfig # NoSnapshot
            /\ call[c].cand # Rejected =>
                  activeConfig = call[c].cand \/ ~SameClass(activeConfig, call[c].cand)

\* Once a valid snapshot is installed there is always one, and it never leaves
\* its filter.models class (README "a candidate that changes the phase class is
\* rejected and keeps the last-known-good snapshot").
KeepsClass ==
    activeConfig # NoSnapshot =>
        activeConfig' # NoSnapshot /\ SameClass(activeConfig, activeConfig')
PhaseClassStable == [][KeepsClass]_vars

\* The same of reconfigurations alone, for a host that may overlap lifecycle calls.
ReconfigureKeepsClass ==
    [][(\E c \in Callers: call[c].pc = "compare" /\ call'[c].pc = "return")
        => KeepsClass]_vars

\* A valid candidate ends the unconfigured state whatever its class: the failed
\* first registration does not lock a phase (README "a valid reconfiguration with
\* either empty or non-empty filter.models installs the first valid snapshot").
FirstValidInstalls ==
    \A c \in Callers:
        (call[c].pc = "entry" /\ call[c].cand # Rejected) ~> (activeConfig # NoSnapshot)

\* The interception contract the two gates and the phase lock implement.
Contract == INSTANCE PhaseContract WITH
    policy <- activeConfig,
    admitted <- [r \in Requests |-> req[r].pc # "new"],
    first <- [r \in Requests |-> req[r].before],
    transforms <- [r \in Requests |-> Cardinality(req[r].applied)]
ImplementsContract == Contract!Spec
=============================================================================
