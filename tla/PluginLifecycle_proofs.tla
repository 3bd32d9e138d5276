----------------------- MODULE PluginLifecycle_proofs -----------------------
(***************************************************************************)
(* Proofs about PluginLifecycle, for any sets of snapshots, threads and    *)
(* executions: the type invariant for every host, and, for a host that     *)
(* makes one lifecycle call at a time, the phase lock and the exactly-once *)
(* judgement of attempts it gives.                                         *)
(***************************************************************************)
EXTENDS PluginLifecycle, FiniteSetTheorems, TLAPS

-----------------------------------------------------------------------------
(* The type invariant. *)

\* Only a candidate that parsed reaches the comparison.
CompareParsed == \A c \in Callers: call[c].pc = "compare" => call[c].cand # Rejected

TypeInv == TypeOK /\ CompareParsed

\* A lifecycle step keeps the types.
LEMMA CallTyped ==
    ASSUME TypeInv, NEW c \in Callers, CallStep(c)
    PROVE  TypeInv'
<1> USE ConfigAssumption, HostAssumption DEF TypeInv, TypeOK, Pointers, CompareParsed
<1>0. call[c] \in Call
  OBVIOUS
<1>1. ASSUME NEW s \in CallStates \ {"compare"}, Goto(c, s)
      PROVE  call' \in [Callers -> Call] /\ CompareParsed'
  BY <1>0, <1>1 DEF Call, Goto
<1>2. ASSUME NEW a \in {"none", "ok", "plugin_error"}, Reply(c, a)
      PROVE  call' \in [Callers -> Call] /\ CompareParsed'
  BY <1>0, <1>2 DEF Call, Reply, CallStates
<1>3. CASE Register(c)
  BY <1>0, <1>2, <1>3 DEF Register, Install, Call
<1>4. CASE ReconfigureRejected(c)
  BY <1>1, <1>4 DEF ReconfigureRejected, CallStates
<1>5. CASE ReconfigureLoad(c)
  BY <1>0, <1>5 DEF ReconfigureLoad, Call, CallStates
<1>6. CASE ReconfigureCompare(c)
  <2>1. CASE PhaseChange(call[c].cur, call[c].cand)
    BY <1>1, <1>6, <2>1 DEF ReconfigureCompare, CallStates
  <2>2. CASE ~PhaseChange(call[c].cur, call[c].cand)
    BY <1>0, <1>2, <1>6, <2>2 DEF ReconfigureCompare, Install, Call
  <2> QED BY <2>1, <2>2
<1>7. CASE CopyCallback(c)
  BY <1>1, <1>7 DEF CopyCallback, CallStates
<1>8. CASE InvokeCallback(c)
  BY <1>1, <1>8 DEF InvokeCallback, CallStates
<1>9. CASE AfterLog(c)
  BY <1>2, <1>9 DEF AfterLog, KeptReply
<1>10. CASE Return(c)
  BY <1>1, <1>10 DEF Return, CallStates
<1> QED
  BY <1>3, <1>4, <1>5, <1>6, <1>7, <1>8, <1>9, <1>10 DEF CallStep

\* A step of a request execution keeps the types.
LEMMA RequestTyped ==
    ASSUME TypeInv, NEW r \in Requests, RequestStep(r)
    PROVE  TypeInv'
<1> USE ConfigAssumption, HostAssumption DEF TypeInv, TypeOK, Pointers, CompareParsed
<1>0. req[r] \in Request
  OBVIOUS
<1>1. UnchangedByRequests /\ CompareParsed'
  BY DEF RequestStep, BeforeLoad, BeforeRun, AfterLoad, AfterRun, NextAttempt,
         UnchangedByRequests
<1>2. ASSUME NEW phase \in {"before", "after"}, NEW loaded \in Pointers,
             NEW next \in RequestStates, Run(r, phase, loaded, next)
      PROVE  req' \in [Requests -> Request]
  <2>1. PICK v \in RequestStates:
            req' = [req EXCEPT ![r].pc = v,
                               ![r].applied = @ \cup {[phase |-> phase, cfg |-> loaded]}]
    BY <1>2 DEF Run, RunSnapshot, RequestStates
  <2>2. [phase |-> phase, cfg |-> loaded] \in Applied
    BY DEF Applied
  <2>3. req[r].applied \cup {[phase |-> phase, cfg |-> loaded]} \in SUBSET Applied
    BY <1>0, <2>2 DEF Request
  <2>4. [req[r] EXCEPT !.pc = v,
             !.applied = @ \cup {[phase |-> phase, cfg |-> loaded]}] \in Request
    BY <1>0, <2>3 DEF Request
  <2> QED BY <2>1, <2>4
<1>3. ASSUME BeforeLoad(r) PROVE  req' \in [Requests -> Request]
  BY <1>0, <1>3 DEF BeforeLoad, Request, RequestStates
<1>4. ASSUME BeforeRun(r) PROVE  req' \in [Requests -> Request]
  <2>1. req[r].before \in Pointers /\ "routed" \in RequestStates
    BY <1>0 DEF Request, RequestStates
  <2> QED BY <1>2, <1>4, <2>1 DEF BeforeRun
<1>5. ASSUME AfterLoad(r) PROVE  req' \in [Requests -> Request]
  <2>1. req[r].attempts + 1 \in 0..MaxAttempts
    BY <1>0, <1>5 DEF AfterLoad, Request
  <2>2. [req[r] EXCEPT !.after = activeConfig, !.attempts = @ + 1,
                       !.pc = IF AfterGateOpen(activeConfig) THEN "afterRun"
                                                             ELSE "forwarded"] \in Request
    BY <1>0, <2>1 DEF Request, RequestStates
  <2> QED BY <1>5, <2>2 DEF AfterLoad
<1>6. ASSUME AfterRun(r) PROVE  req' \in [Requests -> Request]
  <2>1. req[r].after \in Pointers /\ "forwarded" \in RequestStates
    BY <1>0 DEF Request, RequestStates
  <2> QED BY <1>2, <1>6, <2>1 DEF AfterRun
<1>7. ASSUME NextAttempt(r) PROVE  req' \in [Requests -> Request]
  BY <1>0, <1>7 DEF NextAttempt, Request, RequestStates
<1>8. req' \in [Requests -> Request]
  BY <1>3, <1>4, <1>5, <1>6, <1>7 DEF RequestStep
<1> QED
  BY <1>1, <1>8 DEF UnchangedByRequests

\* The arrival of a lifecycle call keeps the types.
LEMMA ArrivalTyped ==
    ASSUME TypeInv, NEW c \in Callers, NEW op \in {"register", "reconfigure"},
           NEW cand \in Snapshots \cup {Rejected}, LifecycleCall(c, op, cand)
    PROVE  TypeInv'
  BY ConfigAssumption
  DEF TypeInv, TypeOK, CompareParsed, LifecycleCall, Call, CallStates, Pointers

\* The initial state is well typed.
LEMMA InitTyped == Init => TypeInv
<1> SUFFICES ASSUME Init PROVE TypeInv
  OBVIOUS
<1>1. call \in [Callers -> Call] /\ CompareParsed
  BY DEF Init, Call, CallStates, Pointers, CompareParsed
<1>2. req \in [Requests -> Request]
  BY HostAssumption DEF Init, Request, RequestStates, Pointers
<1> QED BY <1>1, <1>2 DEF Init, TypeInv, TypeOK, Pointers

\* Every step of Next keeps the types, and so does a stutter.
LEMMA TypeStep == TypeInv /\ [Next]_vars => TypeInv'
<1> SUFFICES ASSUME TypeInv, [Next]_vars PROVE TypeInv'
  OBVIOUS
<1>1. CASE UNCHANGED vars
  BY <1>1 DEF vars, TypeInv, TypeOK, CompareParsed
<1>2. CASE Shutdown
  BY <1>2 DEF Shutdown, TypeInv, TypeOK, CompareParsed
<1> QED
  BY <1>1, <1>2, ArrivalTyped, CallTyped, RequestTyped DEF Next

\* Every reachable state is well typed, whatever the host does: no rejected
\* candidate ever reaches activeConfig.
THEOREM TypeCorrect == Spec => []TypeOK
<1>1. TypeInv => TypeOK
  BY DEF TypeInv
<1> QED
  BY <1>1, InitTyped, TypeStep, PTL DEF Spec

-----------------------------------------------------------------------------
(* A host that makes one lifecycle call at a time. *)

\* What serialization gives: the snapshot a reconfiguration compares with is the
\* active one, and a registration finds none.
SerialInv ==
    /\ \A c, d \in Callers: ~Idle(c) /\ ~Idle(d) => c = d
    /\ ~registered => activeConfig = NoSnapshot
    /\ \A c \in Callers:
          /\ ~Idle(c) => registered
          /\ call[c].pc = "entry" /\ call[c].op = "register" => activeConfig = NoSnapshot
          /\ call[c].pc = "compare" => call[c].cur = activeConfig

\* No step takes the snapshot away or changes its filter.models class.
LEMMA ClassKept ==
    ASSUME TypeInv, SerialInv, [Next]_vars
    PROVE  KeepsClass
<1> USE DEF KeepsClass, SameClass
<1>1. CASE activeConfig' = activeConfig
  BY <1>1
<1>2. CASE activeConfig' # activeConfig
  <2>1. PICK c \in Callers: Register(c) \/ ReconfigureCompare(c)
    BY <1>2 DEF Next, vars, CallStep, RequestStep, LifecycleCall, Shutdown,
       ReconfigureRejected, ReconfigureLoad, CopyCallback, InvokeCallback, AfterLog,
       Return, BeforeLoad, BeforeRun, AfterLoad, AfterRun, NextAttempt,
       UnchangedByRequests
  <2>2. CASE Register(c)
    BY <2>2 DEF Register, SerialInv
  <2>3. CASE ReconfigureCompare(c)
    <3>1. /\ ~PhaseChange(call[c].cur, call[c].cand)
          /\ activeConfig' = call[c].cand /\ call[c].cur = activeConfig
      BY <1>2, <2>3 DEF ReconfigureCompare, Install, SerialInv
    <3>2. call[c].cand \in Snapshots
      BY <2>3 DEF ReconfigureCompare, TypeInv, TypeOK, CompareParsed, Call
    <3> QED BY <3>1, <3>2, ConfigAssumption DEF PhaseChange
  <2> QED BY <2>1, <2>2, <2>3
<1> QED BY <1>1, <1>2

\* Steps outside the lifecycle calls leave what SerialInv speaks of alone.
LEMMA SerialFrame ==
    ASSUME SerialInv, UNCHANGED <<activeConfig, registered, call>>
    PROVE  SerialInv'
  BY DEF SerialInv, Idle

\* Serialization is kept by every step.
LEMMA SerialKept ==
    ASSUME Serialized, TypeInv, SerialInv, [Next]_vars
    PROVE  SerialInv'
<1>1. ASSUME NEW c \in Callers, NEW op \in {"register", "reconfigure"},
             NEW cand \in Snapshots \cup {Rejected}, LifecycleCall(c, op, cand)
      PROVE  SerialInv'
  <2>1. /\ \A d \in Callers: Idle(d)
        /\ call' = [call EXCEPT ![c] = [pc |-> "entry", op |-> op, cand |-> cand,
                                        cur |-> NoSnapshot, reply |-> "none"]]
        /\ registered' = TRUE /\ activeConfig' = activeConfig
        /\ op = "register" => activeConfig = NoSnapshot
    BY <1>1 DEF LifecycleCall, SerialInv
  <2>2. \A d \in Callers: call'[d].pc = IF d = c THEN "entry" ELSE "idle"
    BY <2>1 DEF TypeInv, TypeOK, Idle
  <2>3. call'[c].op = op
    BY <2>1 DEF TypeInv, TypeOK
  <2> QED BY <2>1, <2>2, <2>3 DEF SerialInv, Idle
<1>2. ASSUME NEW c \in Callers, CallStep(c) PROVE SerialInv'
  <2> DEFINE Moved == /\ \A d \in Callers \ {c}: call'[d] = call[d]
                      /\ call'[c].op = call[c].op
                      /\ call'[c].pc # "entry"
                      /\ registered' = registered
  <2>0. call \in [Callers -> Call]
    BY DEF TypeInv, TypeOK
  <2>1. ~Idle(c) /\ registered /\ \A d \in Callers \ {c}: Idle(d)
    <3>1. ~Idle(c)
      BY <1>2 DEF CallStep, Register, ReconfigureRejected, ReconfigureLoad,
         ReconfigureCompare, CopyCallback, InvokeCallback, AfterLog, Return, Idle
    <3> QED BY <3>1 DEF SerialInv
  <2>2. ASSUME Moved, call'[c].pc = "compare" => call'[c].cur = activeConfig'
        PROVE  SerialInv'
    BY <2>1, <2>2 DEF SerialInv, Idle
  <2>3. \A s: Goto(c, s) /\ registered' = registered /\ s # "entry" => Moved /\ call'[c].pc = s
    BY <2>0 DEF Goto, Call
  <2>4. \A a: Reply(c, a) /\ registered' = registered => Moved /\ call'[c].pc = "return"
    BY <2>0 DEF Reply, Call
  <2>5. CASE Register(c)
    BY <2>2, <2>4, <2>5 DEF Register
  <2>6. CASE ReconfigureLoad(c)
    <3>1. Moved /\ call'[c].cur = activeConfig /\ activeConfig' = activeConfig
      BY <2>0, <2>6 DEF ReconfigureLoad, Call
    <3> QED BY <2>2, <3>1
  <2>7. CASE ReconfigureCompare(c)
    BY <2>2, <2>3, <2>4, <2>7 DEF ReconfigureCompare
  <2>8. CASE \/ ReconfigureRejected(c) \/ CopyCallback(c) \/ InvokeCallback(c) \/ Return(c)
    <3>1. PICK s \in {"log", "hostcall", "logged", "idle"}: Goto(c, s)
      BY <2>8 DEF ReconfigureRejected, CopyCallback, InvokeCallback, Return
    <3>2. registered' = registered /\ activeConfig' = activeConfig
      BY <2>8 DEF ReconfigureRejected, CopyCallback, InvokeCallback, Return
    <3> QED BY <2>2, <2>3, <3>1, <3>2
  <2>9. CASE AfterLog(c)
    BY <2>2, <2>4, <2>9 DEF AfterLog
  <2> QED BY <1>2, <2>5, <2>6, <2>7, <2>8, <2>9 DEF CallStep
<1>3. ASSUME NEW r \in Requests, RequestStep(r) PROVE SerialInv'
  BY <1>3, SerialFrame
  DEF RequestStep, BeforeLoad, BeforeRun, AfterLoad, AfterRun, NextAttempt,
      UnchangedByRequests
<1>4. CASE Shutdown
  BY <1>4, SerialFrame DEF Shutdown
<1>5. CASE UNCHANGED vars
  BY <1>5, SerialFrame DEF vars
<1> QED BY <1>1, <1>2, <1>3, <1>4, <1>5 DEF Next

-----------------------------------------------------------------------------
(* Request executions under a phase lock. *)

\* A snapshot an execution has met fixes the class of the active one.
Met(s) == s # NoSnapshot => activeConfig # NoSnapshot /\ SameClass(s, activeConfig)

\* What is known of one execution q: the snapshots it met agree in class with the
\* active one, at most one transform was applied to its attempt, in the phase of
\* that class, and an open gate was not passed without one.
Judged(q) ==
    /\ Met(q.before) /\ Met(q.after)
    /\ q.pc = "beforeRun" => BeforeGateOpen(q.before)
    /\ q.pc = "afterRun" => AfterGateOpen(q.after)
    /\ \A a \in q.applied: /\ a.cfg # NoSnapshot /\ a.cfg \notin RuleFree /\ Met(a.cfg)
                           /\ a.phase = "after" <=> a.cfg \in ModelBearing
    /\ q.applied = {} \/ \E a \in q.applied: q.applied = {a}
    /\ q.pc \in {"new", "beforeRun"} => q.applied = {}
    /\ q.pc \in {"routed", "afterRun"} => \A a \in q.applied: a.phase = "before"
    /\ q.pc \in {"routed", "afterRun", "forwarded"} /\ BeforeGateOpen(q.before)
          => \E a \in q.applied: a.phase = "before"
    /\ q.pc = "forwarded" /\ AfterGateOpen(q.after) => q.applied # {}
    /\ q.pc \in {"afterRun", "forwarded"} /\ q.before # NoSnapshot => q.after # NoSnapshot

RequestInv == \A r \in Requests: Judged(req[r])

\* A step that only moves activeConfig within its class keeps what is known.
LEMMA JudgedFrame ==
    ASSUME TypeInv, RequestInv, KeepsClass, req' = req
    PROVE  RequestInv'
<1>1. ASSUME NEW s, Met(s) PROVE Met(s)'
  BY <1>1 DEF Met, KeepsClass, SameClass
<1> QED BY <1>1 DEF RequestInv, Judged, BeforeGateOpen, AfterGateOpen

\* A transform applied where none was applied before.
LEMMA JudgedStep ==
    ASSUME TypeInv, RequestInv, NEW r \in Requests, RequestStep(r)
    PROVE  RequestInv'
<1> DEFINE q == req[r]
           w == req'[r]
<1>1. req \in [Requests -> Request] /\ q \in Request /\ Judged(q)
  BY DEF TypeInv, TypeOK, RequestInv
<1>2. activeConfig' = activeConfig
  BY DEF RequestStep, BeforeLoad, BeforeRun, AfterLoad, AfterRun, NextAttempt,
     UnchangedByRequests
<1>3. SUFFICES Judged(w)
  <2>1. \A t \in Requests \ {r}: req'[t] = req[t]
    BY <1>1 DEF RequestStep, BeforeLoad, BeforeRun, AfterLoad, AfterRun, NextAttempt, Run
  <2> QED BY <1>2, <2>1 DEF RequestInv, Judged, Met
<1>4. CASE BeforeLoad(r)
  <2>1. /\ q.pc = "new" /\ q.applied = {} /\ w.applied = {} /\ w.after = q.after
        /\ w.before = activeConfig
        /\ w.pc = IF BeforeGateOpen(activeConfig) THEN "beforeRun" ELSE "routed"
    BY <1>1, <1>4 DEF BeforeLoad, Request, Judged
  <2> QED BY <1>1, <2>1 DEF Judged, Met, SameClass
<1>5. CASE BeforeRun(r)
  <2>1. /\ q.pc = "beforeRun" /\ q.applied = {} /\ BeforeGateOpen(q.before)
        /\ w.before = q.before /\ w.after = q.after /\ w.pc \in {"routed", "terminated"}
        /\ w.applied = {[phase |-> "before", cfg |-> q.before]}
    BY <1>1, <1>5 DEF BeforeRun, Run, RunSnapshot, Request, Judged
  <2> QED BY <1>1, <2>1 DEF Judged, BeforeGateOpen
<1>6. CASE AfterLoad(r)
  <2>1. /\ q.pc = "routed" /\ w.applied = q.applied /\ w.before = q.before
        /\ w.after = activeConfig
        /\ w.pc = IF AfterGateOpen(activeConfig) THEN "afterRun" ELSE "forwarded"
    BY <1>1, <1>6 DEF AfterLoad, Request
  <2> QED BY <1>1, <2>1 DEF Judged, Met, SameClass
<1>7. CASE AfterRun(r)
  <2>1. /\ q.pc = "afterRun" /\ AfterGateOpen(q.after)
        /\ w.before = q.before /\ w.after = q.after /\ w.pc \in {"forwarded", "terminated"}
        /\ w.applied = q.applied \cup {[phase |-> "after", cfg |-> q.after]}
    BY <1>1, <1>7 DEF AfterRun, Run, RunSnapshot, Request, Judged
  <2>2. q.applied = {} /\ ~BeforeGateOpen(q.before)
    BY <1>1, <2>1 DEF Judged, AfterGateOpen, BeforeGateOpen, Met, SameClass
  <2>3. w.applied = {[phase |-> "after", cfg |-> q.after]}
    BY <2>1, <2>2
  <2> QED BY <1>1, <2>1, <2>2, <2>3 DEF Judged, AfterGateOpen
<1>8. CASE NextAttempt(r)
  <2>1. /\ q.pc = "forwarded" /\ w.pc = "routed"
        /\ w.before = q.before /\ w.after = q.after
        /\ w.applied = {a \in q.applied: a.phase = "before"}
    BY <1>1, <1>8 DEF NextAttempt, Request
  <2>2. w.applied = {} \/ \E a \in w.applied: w.applied = {a}
    BY <1>1, <2>1 DEF Judged
  <2> QED BY <1>1, <2>1, <2>2 DEF Judged
<1> QED BY <1>4, <1>5, <1>6, <1>7, <1>8 DEF RequestStep

\* The whole invariant of a serializing host.
IInv == TypeInv /\ SerialInv /\ RequestInv

\* The invariant holds at start.
LEMMA InvariantStart == Init => IInv
<1> SUFFICES ASSUME Init PROVE IInv
  OBVIOUS
<1>1. TypeInv
  BY InitTyped
<1>2. SerialInv
  BY DEF Init, SerialInv, Idle
<1>3. RequestInv
  BY DEF Init, RequestInv, Judged, Met
<1> QED BY <1>1, <1>2, <1>3 DEF IInv

\* Every step of a serializing host keeps the invariant and the phase class.
LEMMA InvariantStep == Serialized /\ IInv /\ [Next]_vars => IInv' /\ KeepsClass
<1> SUFFICES ASSUME Serialized, IInv, [Next]_vars PROVE IInv' /\ KeepsClass
  OBVIOUS
<1>1. TypeInv' /\ SerialInv' /\ KeepsClass
  BY TypeStep, SerialKept, ClassKept DEF IInv
<1>2. RequestInv'
  <2>1. CASE req' = req
    BY <1>1, <2>1, JudgedFrame DEF IInv
  <2>2. CASE req' # req
    <3>1. PICK r \in Requests: RequestStep(r)
      BY <2>2 DEF Next, vars, LifecycleCall, CallStep, Shutdown, Register,
         ReconfigureRejected, ReconfigureLoad, ReconfigureCompare, CopyCallback,
         InvokeCallback, AfterLog, Return
    <3> QED BY <3>1, JudgedStep DEF IInv
  <2> QED BY <2>1, <2>2
<1> QED BY <1>1, <1>2 DEF IInv

\* With serialized lifecycle calls a published snapshot never leaves its
\* filter.models class.
THEOREM PhaseLock == ASSUME Serialized PROVE Spec => PhaseClassStable
<1>1. IInv /\ [Next]_vars => [KeepsClass]_vars
  BY InvariantStep
<1>2. IInv /\ [Next]_vars => IInv'
  BY InvariantStep
<1> QED
  BY <1>1, <1>2, InvariantStart, PTL DEF Spec, PhaseClassStable

\* The transforms of an attempt, counted.
LEMMA TransformCount ==
    ASSUME RequestInv, NEW r \in Requests
    PROVE  /\ req[r].applied = {} /\ Cardinality(req[r].applied) = 0
           \/ /\ Cardinality(req[r].applied) = 1
              /\ \E a \in req[r].applied: req[r].applied = {a}
<1>1. CASE req[r].applied = {}
  BY <1>1, FS_EmptySet
<1>2. ASSUME NEW a \in req[r].applied, req[r].applied = {a}
      PROVE  Cardinality(req[r].applied) = 1
  BY <1>2, FS_Singleton
<1> QED BY <1>1, <1>2 DEF RequestInv, Judged

\* With serialized lifecycle calls the two phases together transform an attempt
\* at most once: no reconfiguration opens both gates for it.
THEOREM ExactlyOneJudgement ==
    ASSUME Serialized PROVE Spec => []AtMostOneTransform
<1>1. IInv => AtMostOneTransform
  BY TransformCount DEF IInv, AtMostOneTransform
<1>2. IInv /\ [Next]_vars => IInv'
  BY InvariantStep
<1> QED
  BY <1>1, <1>2, InvariantStart, PTL DEF Spec

\* Nor does a reconfiguration shut both gates for an attempt: one that is
\* forwarded has been transformed by one phase, unless a snapshot without rules
\* judged it.
THEOREM NoAttemptSlips ==
    ASSUME Serialized PROVE Spec => []NoPhaseGap
<1>1. IInv => NoPhaseGap
  <2> SUFFICES ASSUME IInv, NEW r \in Requests, req[r].pc = "forwarded",
                      req[r].before \notin RuleFree \cup {NoSnapshot},
                      req[r].after \notin RuleFree
               PROVE  req[r].applied # {}
    BY DEF NoPhaseGap
  <2>1. Judged(req[r]) /\ req[r].after # NoSnapshot
    BY DEF IInv, RequestInv, Judged
  <2>2. CASE req[r].after \in ModelBearing
    BY <2>1, <2>2 DEF Judged, AfterGateOpen
  <2>3. CASE req[r].after \notin ModelBearing
    BY <2>1, <2>3 DEF Judged, BeforeGateOpen, Met, SameClass
  <2> QED BY <2>2, <2>3
<1>2. IInv /\ [Next]_vars => IInv'
  BY InvariantStep
<1> QED
  BY <1>1, <1>2, InvariantStart, PTL DEF Spec

-----------------------------------------------------------------------------
(* One snapshot per phase, for any host. *)

\* A phase that runs has found its gate open in the snapshot it loaded, and what
\* was applied went through such a gate.
GateInv ==
    /\ \A r \in Requests:
          /\ req[r].pc = "beforeRun" => BeforeGateOpen(req[r].before)
          /\ req[r].pc = "afterRun" => AfterGateOpen(req[r].after)
    /\ GateMatchesRules

\* A step of an execution keeps it.
LEMMA GateStep ==
    ASSUME TypeInv, GateInv, NEW r \in Requests, RequestStep(r)
    PROVE  GateInv'
<1> DEFINE q == req[r]
           w == req'[r]
           Fits(a) == /\ a.cfg \notin RuleFree \cup {NoSnapshot}
                      /\ (a.phase = "after") <=> (a.cfg \in ModelBearing)
<1>1. req \in [Requests -> Request] /\ q \in Request /\ \A a \in q.applied: Fits(a)
  BY DEF TypeInv, TypeOK, GateInv, GateMatchesRules
<1>2. SUFFICES /\ w.pc = "beforeRun" => BeforeGateOpen(w.before)
               /\ w.pc = "afterRun" => AfterGateOpen(w.after)
               /\ \A a \in w.applied: Fits(a)
  <2>1. \A t \in Requests \ {r}: req'[t] = req[t]
    BY <1>1 DEF RequestStep, BeforeLoad, BeforeRun, AfterLoad, AfterRun, NextAttempt, Run
  <2> QED BY <1>2, <2>1 DEF GateInv, GateMatchesRules, BeforeGateOpen, AfterGateOpen
<1>3. CASE BeforeLoad(r)
  <2>1. /\ w.applied = q.applied /\ w.before = activeConfig
        /\ w.pc = IF BeforeGateOpen(activeConfig) THEN "beforeRun" ELSE "routed"
    BY <1>1, <1>3 DEF BeforeLoad, Request
  <2> QED BY <1>1, <2>1
<1>4. CASE BeforeRun(r)
  <2>1. /\ BeforeGateOpen(q.before) /\ w.pc \in {"routed", "terminated"}
        /\ w.applied = q.applied \cup {[phase |-> "before", cfg |-> q.before]}
    BY <1>1, <1>4 DEF BeforeRun, Run, RunSnapshot, Request, GateInv
  <2> QED BY <1>1, <2>1 DEF BeforeGateOpen
<1>5. CASE AfterLoad(r)
  <2>1. /\ w.applied = q.applied /\ w.after = activeConfig
        /\ w.pc = IF AfterGateOpen(activeConfig) THEN "afterRun" ELSE "forwarded"
    BY <1>1, <1>5 DEF AfterLoad, Request
  <2> QED BY <1>1, <2>1
<1>6. CASE AfterRun(r)
  <2>1. /\ AfterGateOpen(q.after) /\ w.pc \in {"forwarded", "terminated"}
        /\ w.applied = q.applied \cup {[phase |-> "after", cfg |-> q.after]}
    BY <1>1, <1>6 DEF AfterRun, Run, RunSnapshot, Request, GateInv
  <2> QED BY <1>1, <2>1 DEF AfterGateOpen
<1>7. CASE NextAttempt(r)
  <2>1. w.pc = "routed" /\ w.applied \subseteq q.applied
    BY <1>1, <1>7 DEF NextAttempt, Request
  <2> QED BY <1>1, <2>1
<1> QED BY <1>3, <1>4, <1>5, <1>6, <1>7 DEF RequestStep

\* For any host, overlapping lifecycle calls included, the rules that judge in a
\* phase are those of a snapshot whose gate opens for that phase.
THEOREM OneSnapshotPerPhase == Spec => []GateMatchesRules
<1>1. Init => TypeInv /\ GateInv
  BY InitTyped DEF Init, GateInv, GateMatchesRules
<1>2. TypeInv /\ GateInv /\ [Next]_vars => TypeInv' /\ GateInv'
  <2> SUFFICES ASSUME TypeInv, GateInv, [Next]_vars PROVE TypeInv' /\ GateInv'
    OBVIOUS
  <2>1. CASE req' = req
    BY <2>1, TypeStep DEF GateInv, GateMatchesRules, BeforeGateOpen, AfterGateOpen
  <2>2. CASE req' # req
    <3>1. PICK r \in Requests: RequestStep(r)
      BY <2>2 DEF Next, vars, LifecycleCall, CallStep, Shutdown, Register,
         ReconfigureRejected, ReconfigureLoad, ReconfigureCompare, CopyCallback,
         InvokeCallback, AfterLog, Return
    <3> QED BY <3>1, GateStep, TypeStep
  <2> QED BY <2>1, <2>2
<1>3. GateInv => GateMatchesRules
  BY DEF GateInv
<1> QED BY <1>1, <1>2, <1>3, PTL DEF Spec

-----------------------------------------------------------------------------
(* What an OK says, for a host that makes one lifecycle call at a time. *)

\* A valid candidate that is being logged is one of the other class.
LoggedInv ==
    \A c \in Callers:
        call[c].pc \in {"log", "hostcall", "logged"} /\ call[c].cand # Rejected =>
            activeConfig # NoSnapshot /\ ~SameClass(activeConfig, call[c].cand)

AcceptInv == LoggedInv /\ AcceptedIsInForce

\* Steps outside the lifecycle calls leave what AcceptInv speaks of alone.
LEMMA AcceptFrame ==
    ASSUME AcceptInv, UNCHANGED <<activeConfig, call>>
    PROVE  AcceptInv'
BY DEF AcceptInv, LoggedInv, AcceptedIsInForce, SameClass

\* A step of a lifecycle call keeps it: no other call is under way.
LEMMA AcceptStep ==
    ASSUME TypeInv, SerialInv, AcceptInv, NEW c \in Callers, CallStep(c)
    PROVE  AcceptInv'
<1> DEFINE Ok(d, pc, reply, cfg) ==
        /\ pc \in {"log", "hostcall", "logged"} /\ call[d].cand # Rejected =>
              cfg # NoSnapshot /\ ~SameClass(cfg, call[d].cand)
        /\ pc = "return" /\ reply = "ok" =>
              /\ cfg # NoSnapshot
              /\ call[d].cand # Rejected =>
                    cfg = call[d].cand \/ ~SameClass(cfg, call[d].cand)
<1>0. call \in [Callers -> Call] /\ call[c] \in Call
  BY DEF TypeInv, TypeOK
<1>1. \A d \in Callers \ {c}: call'[d] = call[d] /\ call[d].pc = "idle"
  <2>1. ~Idle(c)
    BY DEF CallStep, Register, ReconfigureRejected, ReconfigureLoad, ReconfigureCompare,
       CopyCallback, InvokeCallback, AfterLog, Return, Idle
  <2>2. \A d \in Callers \ {c}: call'[d] = call[d]
    BY <1>0 DEF CallStep, Register, ReconfigureRejected, ReconfigureLoad, ReconfigureCompare,
       CopyCallback, InvokeCallback, AfterLog, Return, Goto, Reply
  <2> QED BY <2>1, <2>2 DEF SerialInv, Idle
<1>2. call'[c].cand = call[c].cand
  BY <1>0 DEF CallStep, Register, ReconfigureRejected, ReconfigureLoad, ReconfigureCompare,
     CopyCallback, InvokeCallback, AfterLog, Return, Goto, Reply, Call
<1>3. SUFFICES Ok(c, call'[c].pc, call'[c].reply, activeConfig')
  BY <1>1, <1>2, <1>3 DEF AcceptInv, LoggedInv, AcceptedIsInForce, SameClass
<1>4. \A s: Goto(c, s) => call'[c].pc = s
  BY <1>0 DEF Goto, Call
<1>5. \A a: Reply(c, a) => call'[c].pc = "return" /\ call'[c].reply = a
  BY <1>0 DEF Reply, Call
<1>6. CASE Register(c)
  <2>1. CASE call[c].cand = Rejected
    BY <1>5, <1>6, <2>1 DEF Register
  <2>2. CASE call[c].cand # Rejected
    <3>1. call[c].cand \in Snapshots /\ activeConfig' = call[c].cand
      BY <1>0, <1>6, <2>2 DEF Register, Install, Call
    <3> QED BY <1>5, <1>6, <2>2, <3>1, ConfigAssumption DEF Register
  <2> QED BY <2>1, <2>2
<1>7. CASE ReconfigureRejected(c)
  BY <1>4, <1>7 DEF ReconfigureRejected
<1>8. CASE ReconfigureLoad(c)
  BY <1>0, <1>8 DEF ReconfigureLoad, Call
<1>9. CASE ReconfigureCompare(c)
  <2>1. call[c].cand \in Snapshots /\ call[c].cur = activeConfig
    BY <1>0, <1>9 DEF ReconfigureCompare, TypeInv, CompareParsed, SerialInv, Call
  <2>2. CASE PhaseChange(call[c].cur, call[c].cand)
    BY <1>4, <1>9, <2>1, <2>2 DEF ReconfigureCompare, PhaseChange
  <2>3. CASE ~PhaseChange(call[c].cur, call[c].cand)
    BY <1>5, <1>9, <2>1, <2>3, ConfigAssumption DEF ReconfigureCompare, Install
  <2> QED BY <2>2, <2>3
<1>10. CASE CopyCallback(c) \/ InvokeCallback(c)
  <2>1. /\ activeConfig' = activeConfig /\ call'[c].pc \in {"hostcall", "logged"}
        /\ call[c].pc \in {"log", "hostcall"}
    BY <1>4, <1>10 DEF CopyCallback, InvokeCallback
  <2> QED BY <2>1 DEF AcceptInv, LoggedInv
<1>11. CASE AfterLog(c)
  <2>1. /\ activeConfig' = activeConfig /\ call[c].pc = "logged"
        /\ call'[c].pc = "return" /\ call'[c].reply = KeptReply(c)
    BY <1>5, <1>11 DEF AfterLog
  <2> QED BY <2>1 DEF AcceptInv, LoggedInv, KeptReply
<1>12. CASE Return(c)
  BY <1>4, <1>12 DEF Return
<1> QED BY <1>6, <1>7, <1>8, <1>9, <1>10, <1>11, <1>12 DEF CallStep

\* With serialized lifecycle calls an OK means that a valid snapshot is in force,
\* and that it is the candidate unless that would change the phase class.
THEOREM OkIsHonest == ASSUME Serialized PROVE Spec => []AcceptedIsInForce
<1> DEFINE Inv == TypeInv /\ SerialInv /\ AcceptInv
<1>1. Init => Inv
  BY InvariantStart DEF Init, IInv, AcceptInv, LoggedInv, AcceptedIsInForce
<1>2. Inv /\ [Next]_vars => Inv'
  <2> SUFFICES ASSUME Inv, [Next]_vars PROVE Inv'
    OBVIOUS
  <2>1. TypeInv' /\ SerialInv'
    BY TypeStep, SerialKept
  <2>2. ASSUME NEW c \in Callers, NEW op \in {"register", "reconfigure"},
               NEW cand \in Snapshots \cup {Rejected}, LifecycleCall(c, op, cand)
        PROVE  AcceptInv'
    <3>1. \A d \in Callers: call'[d].pc \in {"idle", "entry"}
      BY <2>2 DEF LifecycleCall, TypeInv, TypeOK, Idle
    <3> QED BY <3>1 DEF AcceptInv, LoggedInv, AcceptedIsInForce
  <2>3. ASSUME NEW c \in Callers, CallStep(c) PROVE AcceptInv'
    BY <2>3, AcceptStep
  <2>4. ASSUME UNCHANGED <<activeConfig, call>> PROVE AcceptInv'
    BY <2>4, AcceptFrame
  <2>5. ASSUME Shutdown \/ UNCHANGED vars PROVE AcceptInv'
    BY <2>4, <2>5 DEF Shutdown, vars
  <2>6. ASSUME NEW r \in Requests, RequestStep(r) PROVE AcceptInv'
    BY <2>4, <2>6 DEF RequestStep, BeforeLoad, BeforeRun, AfterLoad, AfterRun, NextAttempt,
       UnchangedByRequests
  <2>7. AcceptInv'
    BY <2>2, <2>3, <2>5, <2>6 DEF Next
  <2> QED BY <2>1, <2>7
<1>3. Inv => AcceptedIsInForce
  BY DEF AcceptInv
<1> HIDE DEF Inv
<1> QED BY <1>1, <1>2, <1>3, PTL DEF Spec

-----------------------------------------------------------------------------
(* The contract. *)

\* A request step is a step of the contract or changes nothing it sees.
LEMMA ContractRequestStep ==
    ASSUME IInv, NEW r \in Requests, RequestStep(r)
    PROVE  Contract!Next \/ UNCHANGED Contract!cvars
<1> DEFINE q == req[r]
           w == req'[r]
<1>1. req \in [Requests -> Request] /\ q \in Request /\ Judged(q)
  BY DEF IInv, TypeInv, TypeOK, RequestInv
<1>2. activeConfig' = activeConfig
  BY DEF RequestStep, BeforeLoad, BeforeRun, AfterLoad, AfterRun, NextAttempt,
     UnchangedByRequests
<1>3. \A t \in Requests \ {r}: req'[t] = req[t]
  BY <1>1 DEF RequestStep, BeforeLoad, BeforeRun, AfterLoad, AfterRun, NextAttempt, Run
<1>4. CASE BeforeLoad(r)
  <2>1. /\ q.pc = "new" /\ w.pc # "new" /\ w.applied = q.applied
        /\ w.before = activeConfig
    BY <1>1, <1>4 DEF BeforeLoad, Request
  <2>2. Contract!Admit(r)
    BY <1>2, <1>3, <2>1 DEF Contract!Admit
  <2> QED BY <2>2 DEF Contract!Next
<1>5. ASSUME w.pc # "new", q.pc # "new", w.before = q.before,
             q.applied = {}, NEW a, w.applied = {a},
             q.before \in Snapshots \ ModelBearing \/ activeConfig \in ModelBearing
      PROVE  Contract!Transform(r)
  <2>1. Cardinality(q.applied) = 0 /\ Cardinality(w.applied) = 1
    BY <1>5, FS_EmptySet, FS_Singleton
  <2> QED BY <1>2, <1>3, <1>5, <2>1 DEF Contract!Transform
<1>6. CASE BeforeRun(r)
  <2>1. /\ q.pc = "beforeRun" /\ q.applied = {} /\ w.before = q.before
        /\ w.pc \in {"routed", "terminated"}
        /\ w.applied = {[phase |-> "before", cfg |-> q.before]}
    BY <1>1, <1>6 DEF BeforeRun, Run, RunSnapshot, Request, Judged
  <2>2. q.before \in Snapshots \ ModelBearing
    BY <1>1, <2>1 DEF Judged, BeforeGateOpen, Request, Pointers
  <2> QED BY <1>5, <2>1, <2>2 DEF Contract!Next
<1>7. CASE AfterLoad(r)
  <2>1. w.applied = q.applied /\ w.before = q.before /\ q.pc # "new" /\ w.pc # "new"
    BY <1>1, <1>7 DEF AfterLoad, Request
  <2> QED BY <1>2, <1>3, <2>1 DEF Contract!cvars
<1>8. CASE AfterRun(r)
  <2>1. /\ q.pc = "afterRun" /\ AfterGateOpen(q.after) /\ w.before = q.before
        /\ w.pc \in {"forwarded", "terminated"}
        /\ w.applied = q.applied \cup {[phase |-> "after", cfg |-> q.after]}
    BY <1>1, <1>8 DEF AfterRun, Run, RunSnapshot, Request, Judged
  <2>2. q.applied = {} /\ activeConfig \in ModelBearing
    BY <1>1, <2>1 DEF Judged, AfterGateOpen, BeforeGateOpen, Met, SameClass
  <2>3. w.applied = {[phase |-> "after", cfg |-> q.after]}
    BY <2>1, <2>2
  <2> QED BY <1>5, <2>1, <2>2, <2>3 DEF Contract!Next
<1>9. CASE NextAttempt(r)
  <2>1. /\ q.pc = "forwarded" /\ w.pc = "routed" /\ w.before = q.before
        /\ w.applied = {a \in q.applied: a.phase = "before"}
    BY <1>1, <1>9 DEF NextAttempt, Request
  <2>2. CASE w.applied = q.applied
    BY <1>2, <1>3, <2>1, <2>2 DEF Contract!cvars
  <2>3. CASE w.applied # q.applied
    <3>1. PICK a \in q.applied: q.applied = {a} /\ a.phase # "before"
      BY <1>1, <2>1, <2>3 DEF Judged
    <3>2. a.phase = "after"
      BY <1>1, <3>1 DEF Request, Applied
    <3>3. activeConfig \in ModelBearing
      BY <1>1, <3>1, <3>2 DEF Judged, Met, SameClass
    <3>4. Cardinality(q.applied) = 1 /\ Cardinality(w.applied) = 0
      <4>1. w.applied = {}
        BY <2>1, <3>1
      <4>2. Cardinality(q.applied) = 1
        BY <3>1, FS_Singleton
      <4> QED BY <4>1, <4>2, FS_EmptySet
    <3>5. Contract!Retry(r)
      BY <1>2, <1>3, <2>1, <3>3, <3>4 DEF Contract!Retry
    <3> QED BY <3>5 DEF Contract!Next
  <2> QED BY <2>2, <2>3
<1> QED BY <1>4, <1>6, <1>7, <1>8, <1>9 DEF RequestStep

\* With serialized lifecycle calls the gates, the phase lock and the atomic
\* pointer implement the interception contract.
THEOREM Refinement == ASSUME Serialized PROVE Spec => ImplementsContract
<1>1. Init => Contract!Init
  <2> SUFFICES ASSUME Init PROVE Contract!Init
    OBVIOUS
  <2>1. \A r \in Requests: /\ req[r].pc = "new" /\ req[r].before = NoSnapshot
                           /\ req[r].applied = {}
    BY DEF Init
  <2>2. \A r \in Requests: Cardinality(req[r].applied) = 0
    BY <2>1, FS_EmptySet
  <2> QED BY <2>1, <2>2 DEF Init, Contract!Init
<1>2. ASSUME IInv, IInv', [Next]_vars, KeepsClass
      PROVE  Contract!Next \/ UNCHANGED Contract!cvars
  <2>1. CASE req' = req /\ activeConfig' = activeConfig
    BY <2>1 DEF Contract!cvars
  <2>2. CASE req' # req
    <3>1. PICK r \in Requests: RequestStep(r)
      BY <1>2, <2>2 DEF Next, vars, LifecycleCall, CallStep, Shutdown, Register,
         ReconfigureRejected, ReconfigureLoad, ReconfigureCompare, CopyCallback,
         InvokeCallback, AfterLog, Return
    <3> QED BY <1>2, <3>1, ContractRequestStep DEF IInv
  <2>3. CASE req' = req /\ activeConfig' # activeConfig
    <3>1. activeConfig' \in Snapshots
      <4>1. activeConfig' \in Pointers
        BY <1>2 DEF IInv, TypeInv, TypeOK
      <4>2. activeConfig' # NoSnapshot
        BY <1>2, <2>3, <4>1 DEF KeepsClass, Pointers, IInv, TypeInv, TypeOK
      <4> QED BY <4>1, <4>2 DEF Pointers
    <3>2. Contract!Publish(activeConfig')
      BY <1>2, <2>3 DEF Contract!Publish, KeepsClass, SameClass
    <3> QED BY <3>1, <3>2 DEF Contract!Next
  <2> QED BY <2>1, <2>2, <2>3
<1>3. IInv /\ [Next]_vars => IInv' /\ KeepsClass
  BY InvariantStep
<1> QED
  BY <1>1, <1>2, <1>3, InvariantStart, PTL DEF Spec, ImplementsContract, Contract!Spec
=============================================================================
