-------------------------- MODULE AbiBuffers_proofs --------------------------
(***************************************************************************)
(* Buffers are owned, for any number of threads, any lengths and any       *)
(* widths of the integers.  Shutdown's liveness stays with TLC.            *)
(***************************************************************************)
EXTENDS AbiBuffers, TLAPS

-----------------------------------------------------------------------------
(* The inductive invariant. *)

Pointers == Blocks \cup {Null}
Buffer == [ptr: Pointers, len: Nat]
Lens == RequestLens \cup AnswerLens \cup {0}

\* Between the copy of the request and the return of the call.
Inside == {"handle", "log", "locked", "marshal", "host", "answered", "answer"}

Frame == [pc: {"idle", "enter", "returned"} \cup Inside,
          hasMethod: BOOLEAN, hasRequest: BOOLEAN, len: Lens, hasResponse: BOOLEAN,
          response: Buffer, rc: {0, 1}, strings: SUBSET Blocks,
          answer: [ptr: Pointers, len: Lens], callbackRc: {0, 1}]

TypeInv ==
    /\ heap \in [Blocks -> {"free", "malloc", "host"}]
    /\ frame \in [Threads -> Frame]

\* What a thread keeps from one step of its call to the next.
Kept(f) ==
    /\ f.pc \notin {"host", "answered"} => f.strings = {}
    /\ f.pc # "answered" => f.answer = NoBuffer
    /\ f.pc \in Inside => f.hasResponse /\ f.response = NoBuffer
    /\ f.pc = "returned" /\ f.rc # 0 => ~f.hasResponse \/ f.response.ptr = Null

FrameInv == \A t \in Threads: Kept(frame[t])

\* The blocks of malloc a frame answers for, and the host's.
Returned(f) == IF f.pc = "returned" /\ f.hasResponse THEN {f.response.ptr} \ {Null} ELSE {}
Mallocs(f) == f.strings \cup Returned(f)
Answers(f) == {f.answer.ptr} \ {Null}
Owned(f) == Mallocs(f) \cup Answers(f)

\* Each owner knows the allocator, each block in use has one owner.
OwnInv ==
    /\ \A t \in Threads: \A b \in Mallocs(frame[t]): heap[b] = "malloc"
    /\ \A t \in Threads: \A b \in Answers(frame[t]): heap[b] = "host"
    /\ \A b \in Blocks: heap[b] # "free" => \E t \in Threads: b \in Owned(frame[t])
    /\ \A t, u \in Threads: t # u => Owned(frame[t]) \cap Owned(frame[u]) = {}

IInv == TypeInv /\ FrameInv /\ OwnInv /\ misuse = FALSE

-----------------------------------------------------------------------------
(* Facts about blocks and lengths. *)

\* Null is no block.
LEMMA NullIsNoBlock == Null \notin Blocks
BY AbiAssumption DEF Null, Blocks

\* What a frame owns are blocks; the module's Held is Owned where Null is no string.
LEMMA OwnedAreBlocks ==
    ASSUME TypeInv, NEW t \in Threads
    PROVE  Owned(frame[t]) \subseteq Blocks /\ Held(t) = Owned(frame[t])
<1>1. frame[t] \in Frame
  BY DEF TypeInv
<1>2. frame[t].strings \subseteq Blocks /\ frame[t].answer.ptr \in Pointers
      /\ frame[t].response.ptr \in Pointers
  BY <1>1 DEF Frame, Buffer
<1> QED
  BY <1>2, NullIsNoBlock DEF Owned, Mallocs, Answers, Returned, Pointers, Held

\* A number below the limit survives the conversion.
LEMMA CIntKeeps ==
    ASSUME NEW n \in Nat, n < CIntLimit
    PROVE  CInt(n) = n
<1>1. n % (2 * CIntLimit) = n
  BY AbiAssumption
<1> QED
  BY <1>1, AbiAssumption DEF CInt

\* A copy that succeeds is whole.
LEMMA CopyIsWhole ==
    ASSUME NEW n \in Nat, Copy(n).ok
    PROVE  Copy(n).len = n
<1>1. CASE n = 0
  BY <1>1 DEF Copy
<1>2. CASE n # 0
  BY <1>2, CIntKeeps DEF Copy, Refused, checkedCIntLength
<1> QED BY <1>1, <1>2

\* So are the copies of a request and of the host's answer.
LEMMA RequestIsWhole ==
    ASSUME NEW n \in Nat, NEW p, copyPluginRequest(p, n).ok
    PROVE  copyPluginRequest(p, n).len = n
BY CopyIsWhole DEF copyPluginRequest, Refused

LEMMA AnswerIsWhole ==
    ASSUME NEW n \in Nat, NEW p, copyHostResponse(p, n).ok
    PROVE  copyHostResponse(p, n).len = n
BY CopyIsWhole DEF copyHostResponse, Refused

\* A step of one thread that takes only free blocks, and frees what it gives up,
\* leaves every block with one owner.
LEMMA OneThread ==
    ASSUME IInv, NEW t \in Threads, NEW f \in Frame,
           frame' = [frame EXCEPT ![t] = f],
           heap' \in [Blocks -> {"free", "malloc", "host"}],
           Owned(f) \subseteq Owned(frame[t]) \cup Free,
           \A b \in Blocks \ (Owned(frame[t]) \cup Owned(f)): heap'[b] = heap[b],
           \A b \in Owned(frame[t]) \ Owned(f): heap'[b] = "free",
           \A b \in Mallocs(f): heap'[b] = "malloc",
           \A b \in Answers(f): heap'[b] = "host"
    PROVE  OwnInv'
<1> USE DEF IInv
<1>1. frame'[t] = f /\ \A u \in Threads \ {t}: frame'[u] = frame[u]
  BY DEF TypeInv
<1>2. \A u \in Threads: Owned(frame[u]) \subseteq Blocks
  BY OwnedAreBlocks
<1>3. \A u \in Threads: \A b \in Owned(frame[u]): heap[b] # "free"
  BY DEF OwnInv, Owned
<1>4. \A u \in Threads \ {t}: Owned(frame[u]) \cap (Owned(frame[t]) \cup Owned(f)) = {}
  BY <1>3 DEF OwnInv, Free
<1>5. \A u \in Threads \ {t}: \A b \in Owned(frame[u]): heap'[b] = heap[b]
  BY <1>2, <1>4
<1>6. \A u \in Threads: \A b \in Mallocs(frame'[u]): heap'[b] = "malloc"
  BY <1>1, <1>5 DEF OwnInv, Owned
<1>7. \A u \in Threads: \A b \in Answers(frame'[u]): heap'[b] = "host"
  BY <1>1, <1>5 DEF OwnInv, Owned
<1>8. ASSUME NEW b \in Blocks, heap'[b] # "free"
      PROVE  \E u \in Threads: b \in Owned(frame'[u])
  <2>1. CASE b \in Owned(f)
    BY <1>1, <2>1
  <2>2. CASE b \notin Owned(f)
    <3>1. b \notin Owned(frame[t]) /\ heap[b] # "free"
      BY <1>8, <2>2
    <3>2. PICK u \in Threads: b \in Owned(frame[u])
      BY <3>1 DEF OwnInv
    <3> QED BY <1>1, <3>1, <3>2
  <2> QED BY <2>1, <2>2
<1>9. \A u, v \in Threads: u # v => Owned(frame'[u]) \cap Owned(frame'[v]) = {}
  BY <1>1, <1>4 DEF OwnInv
<1> QED
  BY <1>6, <1>7, <1>8, <1>9 DEF OwnInv

-----------------------------------------------------------------------------
(* The invariant is kept. *)

\* A step that changes neither the heap nor what thread t owns.
LEMMA NothingOwned ==
    ASSUME IInv, NEW t \in Threads, NEW f \in Frame,
           frame' = [frame EXCEPT ![t] = f], heap' = heap, misuse' = FALSE, Kept(f),
           Mallocs(f) = Mallocs(frame[t]), Answers(f) = Answers(frame[t])
    PROVE  IInv'
<1>1. TypeInv' /\ FrameInv'
  BY DEF IInv, TypeInv, FrameInv
<1>2. Owned(f) = Owned(frame[t])
  BY DEF Owned
<1>3. OwnInv'
  BY <1>2, OneThread DEF IInv, TypeInv, OwnInv
<1> QED BY <1>1, <1>3 DEF IInv

\* A step that changes what thread t owns.
LEMMA OwnedChanges ==
    ASSUME IInv, NEW t \in Threads, NEW f \in Frame,
           frame' = [frame EXCEPT ![t] = f],
           heap' \in [Blocks -> {"free", "malloc", "host"}], misuse' = FALSE, Kept(f),
           Owned(f) \subseteq Owned(frame[t]) \cup Free,
           \A b \in Blocks \ (Owned(frame[t]) \cup Owned(f)): heap'[b] = heap[b],
           \A b \in Owned(frame[t]) \ Owned(f): heap'[b] = "free",
           \A b \in Mallocs(f): heap'[b] = "malloc",
           \A b \in Answers(f): heap'[b] = "host"
    PROVE  IInv'
<1>1. TypeInv' /\ FrameInv'
  BY DEF IInv, TypeInv, FrameInv
<1>2. OwnInv'
  BY OneThread
<1> QED BY <1>1, <1>2 DEF IInv

\* A call begins, with a stale response that nobody owns.
LEMMA CallKeeps ==
    ASSUME IInv, NEW t \in Threads, HostCalls(t)
    PROVE  IInv'
<1>1. frame[t] \in Frame /\ Kept(frame[t])
  BY DEF IInv, TypeInv, FrameInv
<1>2. PICK hasMethod \in BOOLEAN, hasRequest \in BOOLEAN, hasResponse \in BOOLEAN,
           len \in RequestLens:
        frame' = [frame EXCEPT ![t].pc = "enter", ![t].hasMethod = hasMethod,
                               ![t].hasRequest = hasRequest, ![t].len = len,
                               ![t].hasResponse = hasResponse]
  BY Zenon DEF HostCalls
<1> DEFINE f == [frame[t] EXCEPT !.pc = "enter", !.hasMethod = hasMethod,
                                 !.hasRequest = hasRequest, !.len = len,
                                 !.hasResponse = hasResponse]
<1>6. frame' = [frame EXCEPT ![t] = f]
  BY <1>2 DEF IInv, TypeInv
<1>3. f \in Frame
  BY <1>1 DEF Frame, Lens
<1>4. frame[t].pc = "idle" /\ heap' = heap /\ misuse' = FALSE
  BY DEF HostCalls, IInv
<1>5. Kept(f) /\ Mallocs(f) = Mallocs(frame[t]) /\ Answers(f) = Answers(frame[t])
  BY <1>1, <1>4 DEF Kept, Mallocs, Answers, Returned, Frame, Inside
<1> HIDE DEF f
<1> QED BY <1>3, <1>4, <1>5, <1>6, NothingOwned

\* The prologue clears the response before it can fail.
LEMMA EnterKeeps ==
    ASSUME IInv, NEW t \in Threads, Enter(t)
    PROVE  IInv'
<1> DEFINE g == frame[t]
           copy == copyPluginRequest(g.hasRequest, g.len)
           accepted == g.hasMethod /\ validPluginRequest(g.hasRequest, g.len) /\ copy.ok
           f == [g EXCEPT
              !.pc = IF g.hasResponse /\ accepted THEN "handle" ELSE "returned",
              !.rc = IF g.hasResponse /\ accepted THEN 0 ELSE 1,
              !.response = IF g.hasResponse THEN NoBuffer ELSE @,
              !.len = 0, !.hasMethod = TRUE, !.hasRequest = TRUE]
<1>1. g \in Frame /\ Kept(g) /\ g.pc = "enter" /\ heap' = heap
  BY DEF Enter, IInv, TypeInv, FrameInv
<1>2. frame' = [frame EXCEPT ![t] = f]
  BY DEF Enter, Cleared, IInv, TypeInv
<1>3. NoBuffer \in Buffer
  BY DEF NoBuffer, Buffer, Pointers
<1>4. f \in Frame
  <2> HIDE DEF g, accepted
  <2> QED BY <1>1, <1>3 DEF Frame, Lens, Inside
<1>5. g.len \in Nat
  BY <1>1, AbiAssumption DEF Frame, Lens
<1>6. misuse' = FALSE
  <2>1. copy.ok => copy.len = g.len
    BY <1>5, RequestIsWhole
  <2> QED BY <2>1 DEF Enter, IInv
<1>7. Kept(f) /\ Mallocs(f) = Mallocs(g) /\ Answers(f) = Answers(g)
  BY <1>1 DEF Kept, Mallocs, Answers, Returned, Frame, Inside, NoBuffer
<1> HIDE DEF f
<1> QED BY <1>1, <1>2, <1>4, <1>6, <1>7, NothingOwned

\* The steps that only move on inside a call.
LEMMA MoveKeeps ==
    ASSUME IInv, NEW t \in Threads, Handle(t) \/ ReadLock(t) \/ CopyCallback(t)
    PROVE  IInv'
<1>1. frame[t] \in Frame /\ Kept(frame[t])
  BY DEF IInv, TypeInv, FrameInv
<1>2. PICK pc \in {"log", "locked", "marshal", "answer"}:
        frame' = [frame EXCEPT ![t] = [frame[t] EXCEPT !.pc = pc]]
  BY DEF Handle, ReadLock, CopyCallback, IInv, TypeInv
<1>3. frame[t].pc \in {"handle", "log", "locked"} /\ heap' = heap /\ misuse' = FALSE
  BY DEF Handle, ReadLock, CopyCallback, IInv
<1> DEFINE f == [frame[t] EXCEPT !.pc = pc]
<1>4. f \in Frame
  BY <1>1 DEF Frame, Inside
<1>5. Kept(f) /\ Mallocs(f) = Mallocs(frame[t]) /\ Answers(f) = Answers(frame[t])
  BY <1>1, <1>3 DEF Kept, Mallocs, Answers, Returned, Frame, Inside
<1> QED BY <1>2, <1>3, <1>4, <1>5, NothingOwned

\* The copies for the callback come from free blocks.
LEMMA MarshalKeeps ==
    ASSUME IInv, NEW t \in Threads, Marshal(t)
    PROVE  IInv'
<1>1. frame[t] \in Frame /\ Kept(frame[t]) /\ frame[t].pc = "marshal" /\ misuse' = FALSE
  BY DEF Marshal, IInv, TypeInv, FrameInv
<1>2. PICK strings \in SUBSET Free:
        /\ heap' = Taken(strings, "malloc")
        /\ frame' = [frame EXCEPT ![t].pc = "host", ![t].strings = strings]
  BY DEF Marshal
<1> DEFINE f == [frame[t] EXCEPT !.pc = "host", !.strings = strings]
<1>3. strings \subseteq Blocks
  BY DEF Free
<1>4. f \in Frame /\ frame' = [frame EXCEPT ![t] = f]
  BY <1>1, <1>2, <1>3 DEF Frame, Inside, IInv, TypeInv
<1>5. Kept(f) /\ Mallocs(f) = strings /\ Answers(f) = {}
  BY <1>1 DEF Kept, Mallocs, Answers, Returned, Frame, Inside, NoBuffer
<1>6. Owned(frame[t]) = {} /\ Owned(f) = strings
  BY <1>1, <1>5 DEF Owned, Kept, Mallocs, Answers, Returned, NoBuffer
<1>7. heap' \in [Blocks -> {"free", "malloc", "host"}]
      /\ \A b \in Blocks: heap'[b] = IF b \in strings THEN "malloc" ELSE heap[b]
  BY <1>2 DEF Taken, IInv, TypeInv
<1> HIDE DEF f
<1> QED BY <1>1, <1>3, <1>4, <1>5, <1>6, <1>7, OwnedChanges

\* The host's answer is a free block or none.
LEMMA HostAnswersKeeps ==
    ASSUME IInv, NEW t \in Threads, HostAnswers(t)
    PROVE  IInv'
<1>1. frame[t] \in Frame /\ Kept(frame[t]) /\ frame[t].pc = "host" /\ misuse' = FALSE
  BY DEF HostAnswers, IInv, TypeInv, FrameInv
<1>2. PICK rc \in {0, 1}, len \in AnswerLens, ptr \in Malloc:
        /\ heap' = Taken({ptr}, "host")
        /\ frame' = [frame EXCEPT ![t].pc = "answered", ![t].callbackRc = rc,
                                  ![t].answer = [ptr |-> ptr, len |-> len]]
  BY Zenon DEF HostAnswers
<1> DEFINE f == [frame[t] EXCEPT !.pc = "answered", !.callbackRc = rc,
                                 !.answer = [ptr |-> ptr, len |-> len]]
<1>3. ptr \in Free \cup {Null} /\ Free \subseteq Blocks
  BY DEF Malloc, Free
<1>4. f \in Frame /\ frame' = [frame EXCEPT ![t] = f]
  BY <1>1, <1>2, <1>3 DEF Frame, Inside, Pointers, Lens, IInv, TypeInv
<1>5. Kept(f) /\ Mallocs(f) = frame[t].strings /\ Answers(f) = {ptr} \ {Null}
  BY <1>1 DEF Kept, Mallocs, Answers, Returned, Frame, Inside
<1>6. Mallocs(frame[t]) = frame[t].strings /\ Answers(frame[t]) = {}
  BY <1>1 DEF Kept, Mallocs, Answers, Returned, NoBuffer
<1>7. Owned(f) = frame[t].strings \cup ({ptr} \ {Null}) /\ Owned(frame[t]) = frame[t].strings
  BY <1>5, <1>6 DEF Owned
<1>8. heap' \in [Blocks -> {"free", "malloc", "host"}]
      /\ \A b \in Blocks: heap'[b] = IF b = ptr THEN "host" ELSE heap[b]
  BY <1>2 DEF Taken, IInv, TypeInv
<1>9. \A b \in frame[t].strings: b \in Blocks /\ heap[b] = "malloc" /\ b # ptr
  BY <1>1, <1>3, <1>6, NullIsNoBlock DEF IInv, OwnInv, Frame, Free
<1> HIDE DEF f
<1>10. Owned(f) \subseteq Owned(frame[t]) \cup Free
  BY <1>3, <1>7
<1>11. /\ \A b \in Blocks \ (Owned(frame[t]) \cup Owned(f)): heap'[b] = heap[b]
       /\ \A b \in Owned(frame[t]) \ Owned(f): heap'[b] = "free"
  BY <1>7, <1>8, NullIsNoBlock
<1>12. \A b \in Mallocs(f): heap'[b] = "malloc"
  BY <1>5, <1>8, <1>9
<1>13. \A b \in Answers(f): heap'[b] = "host"
  BY <1>3, <1>5, <1>8
<1> QED BY <1>1, <1>4, <1>5, <1>8, <1>10, <1>11, <1>12, <1>13, OwnedChanges

\* What a thread owns before a step that gives everything back.
LEMMA Allocators ==
    ASSUME IInv, NEW t \in Threads
    PROVE  /\ \A b \in Mallocs(frame[t]): b \in Blocks /\ heap[b] = "malloc"
           /\ \A b \in Answers(frame[t]): b \in Blocks /\ heap[b] = "host"
BY OwnedAreBlocks DEF IInv, OwnInv, Owned

\* Every path out of the callback frees the copies and the answer.
LEMMA HostAnsweredKeeps ==
    ASSUME IInv, NEW t \in Threads, HostAnswered(t)
    PROVE  IInv'
<1> DEFINE g == frame[t]
           copy == IF g.callbackRc = 0 THEN copyHostResponse(g.answer.ptr, g.answer.len)
                   ELSE Refused
           f == [g EXCEPT !.pc = "answer", !.strings = {}, !.answer = NoBuffer,
                          !.callbackRc = 0]
<1>1. g \in Frame /\ Kept(g) /\ g.pc = "answered"
  BY DEF HostAnswered, IInv, TypeInv, FrameInv
<1>2. NoBuffer \in [ptr: Pointers, len: Lens]
  BY DEF NoBuffer, Pointers, Lens
<1>3. f \in Frame /\ frame' = [frame EXCEPT ![t] = f]
  BY <1>1, <1>2 DEF HostAnswered, Frame, Inside, IInv, TypeInv
<1>4. Kept(f) /\ Mallocs(f) = {} /\ Answers(f) = {} /\ Owned(f) = {}
  BY <1>1 DEF Kept, Mallocs, Answers, Returned, Owned, Frame, Inside, NoBuffer
<1>5. Mallocs(g) = g.strings /\ Answers(g) = FreedByHost(g.callbackRc, g.answer.ptr)
  BY <1>1 DEF Mallocs, Answers, Returned, FreedByHost
<1>6. misuse' = FALSE
  <2>1. g.answer.len \in Nat
    BY <1>1, AbiAssumption DEF Frame, Lens
  <2>2. copy.ok => copy.len = g.answer.len
    BY <2>1, AnswerIsWhole DEF Refused
  <2>3. ~Misfreed(Answers(g), "host") /\ ~Misfreed(Mallocs(g), "malloc")
    BY Allocators DEF Misfreed
  <2> QED BY <1>5, <2>2, <2>3 DEF HostAnswered, IInv
<1>7. heap' \in [Blocks -> {"free", "malloc", "host"}]
      /\ \A b \in Blocks: heap'[b] = IF b \in Owned(g) THEN "free" ELSE heap[b]
  BY <1>5 DEF HostAnswered, Freed, Taken, Owned, IInv, TypeInv
<1>8. Owned(g) \subseteq Blocks
  BY OwnedAreBlocks DEF IInv
<1> HIDE DEF f, g
<1> QED BY <1>3, <1>4, <1>6, <1>7, <1>8, OwnedChanges DEF g

\* The response is a free block, or the call fails without one.
LEMMA AnswerKeeps ==
    ASSUME IInv, NEW t \in Threads, Answer(t)
    PROVE  IInv'
<1>1. frame[t] \in Frame /\ Kept(frame[t]) /\ frame[t].pc = "answer" /\ misuse' = FALSE
  BY DEF Answer, IInv, TypeInv, FrameInv
<1>2. PICK ptr \in Malloc:
        /\ heap' = Taken({ptr}, "malloc")
        /\ frame' = [frame EXCEPT ![t].pc = "returned",
                        ![t].rc = IF ptr = Null THEN 1 ELSE 0,
                        ![t].response = IF ptr = Null THEN @ ELSE [ptr |-> ptr, len |-> 1]]
  BY Zenon DEF Answer
<1> DEFINE f == [frame[t] EXCEPT !.pc = "returned", !.rc = IF ptr = Null THEN 1 ELSE 0,
                    !.response = IF ptr = Null THEN @ ELSE [ptr |-> ptr, len |-> 1]]
<1>3. ptr \in Free \cup {Null} /\ Free \subseteq Blocks
  BY DEF Malloc, Free
<1>4. (IF ptr = Null THEN frame[t].response ELSE [ptr |-> ptr, len |-> 1]) \in Buffer
  BY <1>1, <1>3 DEF Frame, Buffer, Pointers
<1>5. f \in Frame /\ frame' = [frame EXCEPT ![t] = f]
  BY <1>1, <1>2, <1>4 DEF Frame, IInv, TypeInv
<1>6. frame[t].hasResponse /\ frame[t].response = NoBuffer /\ frame[t].strings = {}
      /\ frame[t].answer = NoBuffer
  BY <1>1 DEF Kept, Inside
<1>7. Kept(f) /\ Mallocs(f) = {ptr} \ {Null} /\ Answers(f) = {}
  BY <1>1, <1>6 DEF Kept, Mallocs, Answers, Returned, Frame, Inside, NoBuffer
<1>8. Owned(frame[t]) = {} /\ Owned(f) = {ptr} \ {Null}
  BY <1>1, <1>6, <1>7 DEF Owned, Mallocs, Answers, Returned, NoBuffer
<1>9. heap' \in [Blocks -> {"free", "malloc", "host"}]
      /\ \A b \in Blocks: heap'[b] = IF b = ptr THEN "malloc" ELSE heap[b]
  BY <1>2 DEF Taken, IInv, TypeInv
<1> HIDE DEF f
<1>10. Owned(f) \subseteq Owned(frame[t]) \cup Free
  BY <1>3, <1>8
<1>11. /\ \A b \in Blocks \ (Owned(frame[t]) \cup Owned(f)): heap'[b] = heap[b]
       /\ \A b \in Owned(frame[t]) \ Owned(f): heap'[b] = "free"
  BY <1>8, <1>9, NullIsNoBlock
<1>12. \A b \in Mallocs(f): heap'[b] = "malloc"
  BY <1>3, <1>7, <1>9
<1> QED BY <1>1, <1>5, <1>7, <1>9, <1>10, <1>11, <1>12, OwnedChanges

\* The host frees what the last call handed out.
LEMMA HostFreesKeeps ==
    ASSUME IInv, NEW t \in Threads, HostFrees(t)
    PROVE  IInv'
<1> DEFINE g == frame[t]
           f == [g EXCEPT !.pc = "idle", !.rc = 0, !.hasResponse = TRUE]
<1>1. g \in Frame /\ Kept(g) /\ g.pc = "returned"
  BY DEF HostFrees, IInv, TypeInv, FrameInv
<1>2. f \in Frame /\ frame' = [frame EXCEPT ![t] = f]
  BY <1>1 DEF HostFrees, Frame, IInv, TypeInv
<1>3. Kept(f) /\ Mallocs(f) = {} /\ Answers(f) = {} /\ Owned(f) = {}
  BY <1>1 DEF Kept, Mallocs, Answers, Returned, Owned, Frame, Inside, NoBuffer
<1>4. Mallocs(g) = Returned(g) /\ Answers(g) = {}
  BY <1>1 DEF Kept, Mallocs, Answers, NoBuffer
<1>5. misuse' = FALSE
  <2>1. ~Misfreed(Mallocs(g), "malloc")
    BY Allocators DEF Misfreed
  <2> QED BY <1>1, <1>4, <2>1 DEF HostFrees, Returned, IInv
<1>6. heap' \in [Blocks -> {"free", "malloc", "host"}]
      /\ \A b \in Blocks: heap'[b] = IF b \in Owned(g) THEN "free" ELSE heap[b]
  BY <1>1, <1>4 DEF HostFrees, Freed, Taken, Owned, Returned, IInv, TypeInv
<1>7. Owned(g) \subseteq Blocks
  BY OwnedAreBlocks DEF IInv
<1> HIDE DEF f, g
<1> QED BY <1>2, <1>3, <1>5, <1>6, <1>7, OwnedChanges DEF g

-----------------------------------------------------------------------------
(* The theorem. *)

\* A fresh process owns nothing.
LEMMA Initial ==
    ASSUME Init PROVE IInv
<1>1. NoBuffer \in Buffer /\ NoBuffer \in [ptr: Pointers, len: Lens]
  BY DEF NoBuffer, Buffer, Pointers, Lens
<1>2. TypeInv
  BY <1>1 DEF Init, TypeInv, Frame, Lens
<1>3. FrameInv /\ \A t \in Threads: Owned(frame[t]) = {}
  BY DEF Init, FrameInv, Kept, Inside, Owned, Mallocs, Answers, Returned, NoBuffer
<1>4. OwnInv
  BY <1>3 DEF Init, OwnInv, Owned
<1> QED BY <1>2, <1>3, <1>4 DEF IInv, Init

\* Every step keeps the invariant.
LEMMA Inductive ==
    ASSUME IInv, [Next]_vars PROVE IInv'
<1>1. ASSUME NEW t \in Threads,
             HostCalls(t) \/ PluginStep(t) \/ HostAnswers(t) \/ HostFrees(t)
      PROVE  IInv'
  BY <1>1, CallKeeps, EnterKeeps, MoveKeeps, MarshalKeeps, HostAnswersKeeps,
     HostAnsweredKeeps, AnswerKeeps, HostFreesKeeps DEF PluginStep
<1>2. ASSUME heap' = heap, frame' = frame, misuse' = misuse
      PROVE  IInv'
  BY <1>2 DEF IInv, TypeInv, FrameInv, OwnInv
<1>3. CASE PluginInit \/ ShutdownCalled \/ ShutdownReturns
  BY <1>2, <1>3 DEF PluginInit, ShutdownCalled, ShutdownReturns
<1>4. CASE UNCHANGED vars
  BY <1>2, <1>4 DEF vars
<1> QED BY <1>1, <1>3, <1>4 DEF Next

\* The invariant is what BuffersOwned asks for.
LEMMA Sufficient ==
    ASSUME IInv PROVE BuffersOwned
<1>1. \A t \in Threads: Held(t) = Owned(frame[t]) /\ Held(t) \subseteq Blocks
  BY OwnedAreBlocks DEF IInv
<1>2. {b \in Blocks: heap[b] # "free"} = UNION {Held(t): t \in Threads}
  <2>1. ASSUME NEW b \in Blocks, heap[b] # "free"
        PROVE  \E t \in Threads: b \in Held(t)
    BY <1>1, <2>1 DEF IInv, OwnInv
  <2>2. ASSUME NEW t \in Threads, NEW b \in Held(t)
        PROVE  b \in Blocks /\ heap[b] # "free"
    BY <1>1, Allocators DEF Owned
  <2> QED BY <2>1, <2>2
<1>3. \A t, u \in Threads: t # u => Held(t) \cap Held(u) = {}
  BY <1>1 DEF IInv, OwnInv
<1>4. ASSUME NEW t \in Threads, frame[t].pc = "returned", frame[t].rc # 0
      PROVE  Held(t) = {}
  BY <1>4 DEF IInv, FrameInv, Kept, Held, NoBuffer
<1> QED BY <1>2, <1>3, <1>4 DEF BuffersOwned, IInv

\* For any number of threads, any lengths and any widths of the integers, every
\* buffer has one owner, is copied whole, and is freed once by its allocator.
THEOREM BuffersAreOwned == Spec => []BuffersOwned
<1>1. Init => IInv
  BY Initial
<1>2. IInv /\ [Next]_vars => IInv'
  BY Inductive
<1>3. IInv => BuffersOwned
  BY Sufficient
<1> QED BY <1>1, <1>2, <1>3, PTL DEF Spec
=============================================================================
