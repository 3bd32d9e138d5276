----------------------------- MODULE AbiBuffers -----------------------------
(***************************************************************************)
(* The C side of the plugin (abi_cgo.go) and the callback into the host    *)
(* (callHost, main.go): who allocates, reads and frees a buffer, how a     *)
(* length goes from size_t to C.int, and the lock around the callback that *)
(* shutdown takes away.  What a method answers is the subject of the other *)
(* modules; here it may log to the host and then answers something.        *)
(*                                                                         *)
(* A block is a number, the null pointer 0.  A host thread keeps its       *)
(* response structure from one call to the next, as it was left.           *)
(***************************************************************************)
EXTENDS Integers, FiniteSets

CONSTANTS
    Threads,        \* threads of the host that call the plugin
    MaxBlocks,      \* bound on the blocks in use
    CIntLimit,      \* the first number above a C int, 2^31 in the code
    GoIntLimit,     \* the first number above Go's int, 2^63 in the code
    RequestLens,    \* lengths the host passes with a request
    AnswerLens      \* lengths the host answers a callback with

ASSUME AbiAssumption ==
    /\ MaxBlocks \in Nat
    /\ CIntLimit \in Nat \ {0} /\ GoIntLimit \in Nat
    /\ RequestLens \cup AnswerLens \subseteq 0..(2 * GoIntLimit - 1)

VARIABLES
    heap,           \* who allocated each block
    misuse,         \* a block was read or freed in a way it must not be
    hostCallbackFn, \* whether the host callback is set
    stage,          \* what the host has made of the library
    frame           \* each thread's call

vars == <<heap, misuse, hostCallbackFn, stage, frame>>

Null == 0
Blocks == 1..MaxBlocks
NoBuffer == [ptr |-> Null, len |-> 0]

Init ==
    /\ heap = [b \in Blocks |-> "free"]
    /\ misuse = FALSE
    /\ hostCallbackFn = FALSE
    /\ stage = "loaded"
    /\ frame = [t \in Threads |->
          [pc |-> "idle", hasMethod |-> TRUE, hasRequest |-> TRUE, len |-> 0,
           hasResponse |-> TRUE, response |-> NoBuffer, rc |-> 0,
           strings |-> {}, answer |-> NoBuffer, callbackRc |-> 0]]

-----------------------------------------------------------------------------
(* The C heap. *)

Free == {b \in Blocks: heap[b] = "free"}

\* What malloc may return.
Malloc == {Null} \cup {b \in Free: \A c \in Free: b <= c}

Taken(blocks, allocator) == [b \in Blocks |-> IF b \in blocks THEN allocator ELSE heap[b]]
Freed(blocks) == Taken(blocks, "free")

\* A block is freed twice, or by another allocator than its own.
Misfreed(blocks, allocator) == \E b \in blocks: heap[b] # allocator

-----------------------------------------------------------------------------
(* Lengths. *)

\* A conversion to a C int keeps the low bits.
CInt(n) ==
    LET low == n % (2 * CIntLimit)
    IN  IF low >= CIntLimit THEN low - 2 * CIntLimit ELSE low

\* Mutant: the bound of the unsigned type.
FitsUnsigned(n) == n < 2 * CIntLimit

\* checkedCIntLength.
checkedCIntLength(n) == n < CIntLimit

\* The test of borrowedRequest: what a slice can be long.
FitsGoInt(n) == n < GoIntLimit

\* A copy: whether it succeeds and the bytes C.GoBytes takes.
Refused == [ok |-> FALSE, len |-> 0]
Copy(n) ==
    IF n = 0 THEN [ok |-> TRUE, len |-> 0]
    ELSE IF checkedCIntLength(n) THEN [ok |-> TRUE, len |-> CInt(n)] ELSE Refused

validPluginRequest(present, n) == present \/ n = 0

copyPluginRequest(present, n) ==
    IF n # 0 /\ (~FitsGoInt(n) \/ ~present) THEN Refused ELSE Copy(n)

copyHostResponse(ptr, n) == IF n # 0 /\ ptr = Null THEN Refused ELSE Copy(n)

-----------------------------------------------------------------------------
(* A call of the plugin. *)

\* cliproxy_plugin_init, with a host interface it accepts; the host makes no
\* call of a plugin that refused.
PluginInit ==
    /\ stage = "loaded"
    /\ stage' = "up" /\ hostCallbackFn' = TRUE
    /\ UNCHANGED <<heap, misuse, frame>>

\* The host calls, with whatever its response structure holds.
HostCalls(t) ==
    /\ frame[t].pc = "idle" /\ stage = "up"
    /\ \E hasMethod, hasRequest, hasResponse \in BOOLEAN, len \in RequestLens:
          frame' = [frame EXCEPT ![t].pc = "enter", ![t].hasMethod = hasMethod,
                                 ![t].hasRequest = hasRequest, ![t].len = len,
                                 ![t].hasResponse = hasResponse]
    /\ UNCHANGED <<heap, misuse, hostCallbackFn, stage>>

\* Mutant: the response is cleared only when the arguments are in order.
ClearedLate(f) == IF f.hasMethod THEN NoBuffer ELSE f.response

\* The response a call begins with.
Cleared(f) == NoBuffer

\* The arguments are checked and the request is copied.
Enter(t) ==
    LET f == frame[t]
        copy == copyPluginRequest(f.hasRequest, f.len)
        accepted == f.hasMethod /\ validPluginRequest(f.hasRequest, f.len) /\ copy.ok
    IN  /\ f.pc = "enter"
        /\ frame' = [frame EXCEPT
              ![t].pc = IF f.hasResponse /\ accepted THEN "handle" ELSE "returned",
              ![t].rc = IF f.hasResponse /\ accepted THEN 0 ELSE 1,
              ![t].response = IF f.hasResponse THEN Cleared(f) ELSE @,
              ![t].len = 0, ![t].hasMethod = TRUE, ![t].hasRequest = TRUE]
        /\ misuse' = (misuse \/ (f.hasResponse /\ accepted /\ copy.len # f.len))
        /\ UNCHANGED <<heap, hostCallbackFn, stage>>

\* handleMethod: a reconfiguration that is rejected logs first.
Handle(t) ==
    /\ frame[t].pc = "handle"
    /\ \E next \in {"log", "answer"}: frame' = [frame EXCEPT ![t].pc = next]
    /\ UNCHANGED <<heap, misuse, hostCallbackFn, stage>>

\* Mutant: the read lock is kept until the host has answered.
LockedThroughout == {"locked", "marshal", "host", "answered"}

\* Where a thread holds hostAPIMu's read lock.
LockedAt == {"locked"}

\* callHost takes the read lock, which waits for a writer that waits.
ReadLock(t) ==
    /\ frame[t].pc = "log" /\ stage # "stopping"
    /\ frame' = [frame EXCEPT ![t].pc = "locked"]
    /\ UNCHANGED <<heap, misuse, hostCallbackFn, stage>>

\* The callback is copied and the lock released; without one nothing is called.
CopyCallback(t) ==
    /\ frame[t].pc = "locked"
    /\ frame' = [frame EXCEPT ![t].pc = IF hostCallbackFn THEN "marshal" ELSE "answer"]
    /\ UNCHANGED <<heap, misuse, hostCallbackFn, stage>>

\* The closure of cliproxy_plugin_init copies the method and the request to C.
Marshal(t) ==
    /\ frame[t].pc = "marshal"
    /\ \E strings \in SUBSET Free:
          /\ Cardinality(strings) = 2
          /\ \A b \in strings: \A c \in Free \ strings: b < c
          /\ heap' = Taken(strings, "malloc")
          /\ frame' = [frame EXCEPT ![t].pc = "host", ![t].strings = strings]
    /\ UNCHANGED <<misuse, hostCallbackFn, stage>>

\* The host answers, with a buffer of its own or without, and a return code.
HostAnswers(t) ==
    /\ frame[t].pc = "host"
    /\ \E rc \in {0, 1}, len \in AnswerLens, ptr \in Malloc:
          /\ heap' = Taken({ptr}, "host")
          /\ frame' = [frame EXCEPT ![t].pc = "answered", ![t].callbackRc = rc,
                                    ![t].answer = [ptr |-> ptr, len |-> len]]
    /\ UNCHANGED <<misuse, hostCallbackFn, stage>>

\* Mutant: the free of the answer is deferred behind the test of the code.
FreedIfSuccess(rc, ptr) == IF rc = 0 THEN {ptr} \ {Null} ELSE {}

\* What the deferred cliproxy_host_free gives back to the host.
FreedByHost(rc, ptr) == {ptr} \ {Null}

\* The closure copies the answer if the code is 0; the deferred calls free the
\* answer and the two copies on every path.  The log ignores what came of it.
HostAnswered(t) ==
    LET f == frame[t]
        copy == IF f.callbackRc = 0 THEN copyHostResponse(f.answer.ptr, f.answer.len) ELSE Refused
        answers == FreedByHost(f.callbackRc, f.answer.ptr)
    IN  /\ f.pc = "answered"
        /\ heap' = Freed(answers \cup f.strings)
        /\ misuse' = (\/ misuse \/ Misfreed(answers, "host") \/ Misfreed(f.strings, "malloc")
                      \/ copy.ok /\ copy.len # f.answer.len)
        /\ frame' = [frame EXCEPT ![t].pc = "answer", ![t].strings = {},
                                  ![t].answer = NoBuffer, ![t].callbackRc = 0]
        /\ UNCHANGED <<hostCallbackFn, stage>>

\* The payload, an envelope and never empty, is copied to C memory, if there is
\* any: the host owns the copy from here.
Answer(t) ==
    /\ frame[t].pc = "answer"
    /\ \E ptr \in Malloc:
          /\ heap' = Taken({ptr}, "malloc")
          /\ frame' = [frame EXCEPT ![t].pc = "returned",
                          ![t].rc = IF ptr = Null THEN 1 ELSE 0,
                          ![t].response = IF ptr = Null THEN @ ELSE [ptr |-> ptr, len |-> 1]]
    /\ UNCHANGED <<misuse, hostCallbackFn, stage>>

\* The host reads what it got and gives it to cliproxyPluginFree, whatever the
\* code; a call without a response structure left it nothing.
HostFrees(t) ==
    LET got == IF frame[t].hasResponse THEN {frame[t].response.ptr} \ {Null} ELSE {}
    IN  /\ frame[t].pc = "returned"
        /\ heap' = Freed(got)
        /\ misuse' = (misuse \/ Misfreed(got, "malloc"))
        /\ frame' = [frame EXCEPT ![t].pc = "idle", ![t].rc = 0, ![t].hasResponse = TRUE]
        /\ UNCHANGED <<hostCallbackFn, stage>>

-----------------------------------------------------------------------------
(* Shutdown. *)

\* cliproxyPluginShutdown asks for the write lock, which keeps new readers out.
ShutdownCalled ==
    /\ stage = "up"
    /\ stage' = "stopping"
    /\ UNCHANGED <<heap, misuse, hostCallbackFn, frame>>

\* It has the lock when no reader is left.
ShutdownReturns ==
    /\ stage = "stopping"
    /\ \A t \in Threads: frame[t].pc \notin LockedAt
    /\ stage' = "down" /\ hostCallbackFn' = FALSE
    /\ UNCHANGED <<heap, misuse, frame>>

-----------------------------------------------------------------------------
\* What a thread does without the host.
PluginStep(t) ==
    \/ Enter(t) \/ Handle(t) \/ ReadLock(t) \/ CopyCallback(t)
    \/ Marshal(t) \/ HostAnswered(t) \/ Answer(t)

Next ==
    \/ \E t \in Threads: HostCalls(t) \/ PluginStep(t) \/ HostAnswers(t) \/ HostFrees(t)
    \/ PluginInit \/ ShutdownCalled \/ ShutdownReturns

\* The threads run and a lock that stays free is given: a host that never
\* answers a callback, or never asks for a shutdown, is no violation of this.
Fairness == WF_vars(ShutdownReturns) /\ \A t \in Threads: WF_vars(PluginStep(t))

Spec == Init /\ [][Next]_vars /\ Fairness

-----------------------------------------------------------------------------
(* Properties. *)

\* The blocks a call answers for at each point: the copies for the callback, the
\* host's answer, the response from the return of the call until the host frees it.
Held(t) ==
    LET f == frame[t]
        returned == IF f.pc = "returned" /\ f.hasResponse THEN {f.response.ptr} ELSE {}
    IN  (f.strings \cup {f.answer.ptr} \cup returned) \ {Null}

\* Every block in use has one owner and nobody owns a free one: no leak, no
\* double or foreign free and no stale response, on any path of any two calls; what
\* is copied is copied whole (README "reject lengths that exceed C.int").  A failed
\* call hands out nothing.
BuffersOwned ==
    /\ ~misuse
    /\ {b \in Blocks: heap[b] # "free"} = UNION {Held(t): t \in Threads}
    /\ \A t, u \in Threads: t # u => Held(t) \cap Held(u) = {}
    /\ \A t \in Threads: frame[t].pc = "returned" /\ frame[t].rc # 0 => Held(t) = {}

\* Shutdown returns even if the host never answers a callback that is under way:
\* callHost calls its copy of the callback without the lock.
ShutdownIsNotBlocked == stage = "stopping" ~> stage = "down"
=============================================================================
