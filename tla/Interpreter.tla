----------------------------- MODULE Interpreter -----------------------------
(****************************************************************************)
(* The running interpreter: the read-eval-print loop (repl/repl.c) hands an *)
(* expression to its own evaluator, runs the scheduler until no thread can  *)
(* run, and prints the value it finds on that evaluator's operand stack.    *)
(* The threads use locks and message queues; what is left blocked when an   *)
(* expression has been evaluated is still there for the next one.           *)
(****************************************************************************)
EXTENDS Lock, MsgQ

CONSTANT MaxDepth   \* bound on the frames of the REPL's evaluator

ASSUME MaxDepthAssumption == MaxDepth \in Nat

VARIABLE repl   \* "read", "run" (in threadManager_runAll), "quit" or "aborted"

vars == <<schedulerVars, lockVars, msgqVars, repl>>

Init ==
    /\ SchedulerInit
    /\ LockInit
    /\ MsgQInit
    /\ repl = "read"

-----------------------------------------------------------------------------
(* The read-eval-print loop.                                                *)

\* The expression goes on top of whatever the evaluator has not finished, and
\* the evaluator is made to run even if it is blocked.
ReplEval ==
    /\ repl = "read"
    /\ Len(estack[Main]) < MaxDepth
    /\ repl' = "run"
    /\ estack' = [estack EXCEPT ![Main] = <<Code>> \o @]
    /\ AddThread(Main)
    /\ stray' = (stray \/ status[Main] = "Blocked")
    /\ UNCHANGED <<blockingObject, waitingThreads, hasValue>>
    /\ UNCHANGED <<sliceVars, allocVars, lockVars, msgqVars>>

\* No thread can run: runAll returns and the value is popped.  If the evaluator
\* is blocked in a call that has not pushed one, what is popped is an operand of
\* the unfinished expression or, if it has none, NULL: the assertion fails.
ReplPrint ==
    /\ repl = "run"
    /\ current = NIL
    /\ running = <<>>
    /\ hasValue' = [hasValue EXCEPT ![Main] = FALSE]
    /\ repl' \in IF hasValue[Main] THEN {"read"} ELSE {"read", "aborted"}
    /\ UNCHANGED <<queueVars, sliceVars, estack, allocVars, stray>>
    /\ UNCHANGED <<lockVars, msgqVars>>

ReplQuit ==
    /\ repl = "read"
    /\ repl' = "quit"
    /\ UNCHANGED <<schedulerVars, lockVars, msgqVars>>

\* The process has ended.
Ended ==
    /\ repl \in {"quit", "aborted"}
    /\ UNCHANGED vars

-----------------------------------------------------------------------------
(* threadManager_runAll.                                                    *)

SliceStep ==
    \/ BeginSlice
    \/ WakeNext
    \/ WakeDone
    \/ KillNext
    \/ EndSlice

TaskStep(t) ==
    \/ FinishThread(t)
    \/ Async(t)
    \/ Join(t)
    \/ Cobegin(t)
    \/ CobeginContinue(t)
    \/ Nondet(t)
    \/ NondetContinue(t)
    \/ Compute(t)
    \/ Return(t)
    \/ Yield(t)
    \/ Catch(t)
    \/ Throw(t)

LockStep(t) == \E l \in Locks : Acquire(t, l) \/ Release(t, l)

MsgQStep(t) == \E q \in MsgQs : Wait(t, q) \/ \E m \in Messages : Enq(t, q, m)

RunAll ==
    /\ repl = "run"
    /\ UNCHANGED repl
    /\ \/ (SliceStep \/ \E t \in Threads : TaskStep(t)) /\ UNCHANGED <<lockVars, msgqVars>>
       \/ (\E t \in Threads : LockStep(t)) /\ UNCHANGED msgqVars
       \/ (\E t \in Threads : MsgQStep(t)) /\ UNCHANGED lockVars

Next == ReplEval \/ ReplPrint \/ ReplQuit \/ Ended \/ RunAll

Spec == Init /\ [][Next]_vars

\* The process is never suspended for ever inside runAll.  Nothing is assumed of
\* the user, nor of which operation a program performs.
FairSpec == Spec /\ WF_vars(RunAll)

-----------------------------------------------------------------------------
(* Safety.  nondet and a REPL that resumes a blocked evaluator leave threads *)
(* in queues of blockers they no longer wait for, and set stray.  Most       *)
(* properties of threads are those of every run up to that point; that of    *)
(* sleepers, and those of locks and message queues, are of every run.        *)

\* Every variable holds values of the type its C declaration and use give it.
TypeOK ==
    /\ SchedulerTypeOK
    /\ LockTypeOK
    /\ MsgQTypeOK
    /\ repl \in {"read", "run", "quit", "aborted"}

\* The run queue holds each thread that can run, once, and no other but the
\* thread in a slice (threadManager_addThread, threadManager_runNextThread).
RunQueueIsExact ==
    ~stray =>
       /\ Distinct(running)
       /\ \A t \in Threads : status[t] = "Running" => Has(running, t)
       /\ \A t \in Threads : Has(running, t) => status[t] = "Running" \/ t = current

\* A thread in a queue of waiting threads is blocked on the owner of that queue
\* and is there once: a wakeup reaches the thread that waits for this event.
WaiterIsBlocked ==
    ~stray =>
       \A b \in Blockers :
          /\ Distinct(waitingThreads[b])
          /\ \A t \in Threads : Has(waitingThreads[b], t) =>
                status[t] = "Blocked" /\ blockingObject[t] = b

\* A thread blocked on a lock or on a message queue is in its queue, so that a
\* release or a message can still reach it: also after threads have been taken from
\* queues they no longer waited in (nondet.c:89), terminated while they were blocked
\* (nondet.c:66) or resumed by the REPL (repl.c:223), and have blocked again.
SleeperIsQueued ==
    \A t \in Threads : \A b \in Locks \cup MsgQs :
       status[t] = "Blocked" /\ blockingObject[t] = b => Has(waitingThreads[b], t)

\* When the continuation of a cobegin takes the value of a thread, that thread
\* has terminated and its value has not been taken (cobegin.c:55).
CobeginTakesResults ==
    ~stray =>
       \A t \in Threads :
          (MayStep(t) /\ estack[t] # <<>> /\ Head(estack[t]).kind = "cobegin") =>
             LET kid == Head(estack[t]).kids[Head(estack[t]).index]
             IN  status[kid] = "Terminated" /\ hasValue[kid]

\* task:join and cobegin return only when the thread they wait for has
\* terminated: nothing else makes a thread run that is blocked on a thread.
JoinReturnsAfterTermination ==
    [][ \A t \in Threads :
           (~stray' /\ status[t] = "Blocked" /\ blockingObject[t] \in Threads
                    /\ status'[t] # "Blocked")
              => status[blockingObject[t]] = "Terminated" ]_vars

\* A thread that has terminated never runs again; the REPL's own evaluator does.
TerminationIsFinal ==
    [][ \A t \in Threads \ {Main} :
           ~stray' /\ status[t] = "Terminated" => status'[t] = "Terminated" ]_vars

\* Locks serve acquire calls in order, also when threads are woken by stray
\* wakeups, terminate while they own a lock, or release one they do not own.
Served == INSTANCE FifoLock WITH line <- [l \in Locks |-> Line(l)]

LocksAreFair == Served!Spec

-----------------------------------------------------------------------------
(* The inductive invariant behind the safety properties.                     *)

\* A cobegin among the frames waits for one of its own threads.
FramesOK(frames) ==
    \A i \in DOMAIN frames :
       frames[i].kind = "cobegin" => frames[i].index \in DOMAIN frames[i].kids

\* Where the interpreter is: no slice outside runAll, the thread in a slice at the
\* head of the queue, a thread whose waiters the loop wakes, well-formed frames.
ControlOK ==
    /\ repl # "run" => current = NIL /\ running = <<>>
    /\ current # NIL => running # <<>> /\ Head(running) = current
    /\ waking # NotWaking => waking.thread \in Threads
    /\ \A t \in Threads : FramesOK(estack[t])

\* The frames of a thread that is not in a nondet.
CalmFrame == {f \in Frame : f.kind # "nondet"}

\* Until threads go astray, nobody is in a nondet, only a thread that has just
\* terminated wakes others, a thread that has not been allocated is dormant, and
\* only a blocked thread has a blocking object.
ThreadsOK ==
    ~stray =>
       /\ killing = <<>>
       /\ \A t \in Threads : estack[t] \in Seq(CalmFrame)
       /\ waking # NotWaking => waking.thread = current /\ status[current] = "Terminated"
       /\ \A t \in Threads : t >= nThreads => status[t] = "Dormant"
       /\ \A t \in Threads : status[t] # "Blocked" => blockingObject[t] = NIL

IInv ==
    /\ TypeOK
    /\ ControlOK
    /\ ThreadsOK
    /\ RunQueueIsExact
    /\ WaiterIsBlocked
    /\ SleeperIsQueued
    /\ FreeLockHasNoWaiters
    /\ NoMessageWithWaiter
    /\ MutualExclusion

-----------------------------------------------------------------------------
(* The inductive invariant behind CobeginTakesResults, on top of IInv.       *)

\* Thread t is in a cobegin: the threads it has created, and the last of those whose
\* results it has still to take.
InCobegin(t) == estack[t] # <<>> /\ Head(estack[t]).kind = "cobegin"
Kids(t) == Head(estack[t]).kids
Index(t) == Head(estack[t]).index

\* A continuation is on top of an expression, and nothing is on top of it.
StackOK(frames) ==
    \A i \in DOMAIN frames : frames[i].kind # "code" => i = 1 /\ Len(frames) > 1

\* A thread that does not run has nothing to do.
StacksOK ==
    \A t \in Threads :
       /\ StackOK(estack[t])
       /\ status[t] \in {"Dormant", "Terminated"} => estack[t] = <<>>

\* Every thread whose result is still to be taken leaves a result.
ResultsOK(t) ==
    /\ Distinct(Kids(t))
    /\ \A i \in 1 .. Index(t) :
          /\ Kids(t)[i] \in Allocated \ {Main}
          /\ estack[Kids(t)[i]] = <<>> => hasValue[Kids(t)[i]]

\* A thread in a cobegin waits for the last of them until it has terminated.
AwaitsLast(t) ==
    IF status[t] = "Blocked"
    THEN blockingObject[t] = Kids(t)[Index(t)]
    ELSE status[Kids(t)[Index(t)]] = "Terminated"

\* No two threads take the result of the same thread.
Apart(t, u) == \A i \in 1 .. Index(t) : \A j \in 1 .. Index(u) : Kids(t)[i] # Kids(u)[j]

CobeginsOK ==
    \A t \in Threads : InCobegin(t) =>
       /\ ResultsOK(t)
       /\ AwaitsLast(t)
       /\ \A u \in Threads : u # t /\ InCobegin(u) => Apart(t, u)

CobeginInv == ~stray => StacksOK /\ CobeginsOK

-----------------------------------------------------------------------------
(* Liveness, under FairSpec.                                                *)

\* Round robin: a thread that can run gets a slice.  This is about programs that
\* catch no exception: each catch may start the slice's steps again (Longjmp).
EveryThreadRuns == \A t \in Threads : Has(running, t) ~> current = t

\* Thread t is in a cobegin whose threads have all terminated.
CobeginDone(t) ==
    /\ estack[t] # <<>>
    /\ Head(estack[t]).kind = "cobegin"
    /\ \A i \in DOMAIN Head(estack[t]).kids :
          status[Head(estack[t]).kids[i]] = "Terminated"

\* A cobegin whose threads have all terminated returns, provided that no thread
\* is ever waited for by two (the loop of evaluator_unblockWaitingThreads would
\* wake one of them) and that no exception is uncaught (it drops the queue).
CobeginReturns ==
    [](\A c \in Threads : Len(waitingThreads[c]) <= 1) =>
       \A t \in Threads : CobeginDone(t) ~> (~CobeginDone(t) \/ stray)

-----------------------------------------------------------------------------
(* What the documentation, a comment and an assertion say, and the code does *)
(* not do.                                                                    *)

\* "Blocks the caller until the target task has terminated" (task:join,
\* doc/UFO.html:1751): nobody stays blocked on a thread once the loop that wakes
\* those who wait for it is over.
JoinersAreWoken ==
    \A t, c \in Threads :
       (status[t] = "Blocked" /\ blockingObject[t] = c /\ status[c] = "Terminated")
          => waking.thread = c

\* "terminate the remaining threads" (nondet.c:62): a thread that a nondet
\* terminates, or that terminates by itself, stays so.
TerminatedThreadsStayTerminated ==
    [][ \A t \in Threads \ {Main} :
           status[t] = "Terminated" => status'[t] = "Terminated" ]_vars

\* assert(self->value != NULL) (repl.c:244): when runAll returns there is a
\* value to print.
ReplHasValue == repl # "aborted"

=============================================================================
