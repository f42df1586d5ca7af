------------------------------ MODULE Scheduler ------------------------------
(****************************************************************************)
(* The green-thread scheduler of the UFO interpreter:                       *)
(* etor/threadmanager.c and the part of etor/evaluator.c that runs a time   *)
(* slice.  One operating system thread executes everything; a "thread" is   *)
(* an Evaluator, which is also a first-class value of the language.         *)
(*                                                                          *)
(* A thread's unfinished work is its expression stack, estack.  Only what   *)
(* the scheduler and the concurrent expressions do with it is kept: a frame *)
(* is either "code", an arbitrary expression still to be evaluated, or the  *)
(* continuation of a cobegin or of a nondet.  A step of the model is one    *)
(* any_eval; the loops of C that touch several threads                      *)
(* (evaluator_unblockWaitingThreads here, the one of nondet in Tasks) take  *)
(* one step per iteration, with the interrupted step waiting for them.      *)
(****************************************************************************)
EXTENDS Naturals, Sequences

CONSTANTS
    MaxThreads,   \* Evaluators that can ever be allocated, the REPL's included
    NSteps,       \* any_eval calls in a time slice (_nSteps)
    Locks,        \* the Lock objects
    MsgQs,        \* the MsgQ objects
    NIL           \* the UFO value nil, and C's NULL

Threads == 0 .. MaxThreads - 1

\* The REPL's evaluator is the first to be allocated.
Main == 0

\* What a thread can be blocked on: each has a queue named waitingThreads.
Blockers == Threads \cup Locks \cup MsgQs

ASSUME MaxThreadsAssumption == MaxThreads \in Nat \ {0}
ASSUME NStepsAssumption == NSteps \in Nat \ {0}
ASSUME BlockersAssumption ==
    /\ Threads \cap Locks = {}
    /\ Threads \cap MsgQs = {}
    /\ Locks \cap MsgQs = {}
    /\ NIL \notin Blockers

VARIABLES
    running,         \* _running: the run queue; the thread in a slice stays at its head
    current,         \* the thread runNextThread runs, NIL between two slices
    steps,           \* any_eval calls left in the slice (nSteps)
    status,          \* threadStatus of each thread
    blockingObject,  \* blockingObject of each thread
    waitingThreads,  \* the waitingThreads queue of each blocker (NULL is <<>>)
    estack,          \* frames of each thread, the top one first
    hasValue,        \* whether a thread has left a value on its ostack: its result,
                     \* or what the call it is blocked in has pushed already
    waking,          \* loop of evaluator_unblockWaitingThreads: whose queue, and n
    killing,         \* loop of nondet's continuation: the threads still to terminate
    nThreads,        \* evaluators allocated so far
    tid,             \* tid of each thread
    nextTid,         \* nextTid of evaluator_initialize
    stray            \* history: a thread may be in the queue of a blocker it does
                     \* not, or not only, wait for (set by nondet and by the REPL)

queueVars == <<running, status, blockingObject, waitingThreads>>
sliceVars == <<current, steps, waking, killing>>
workVars == <<estack, hasValue>>
allocVars == <<nThreads, tid, nextTid>>
schedulerVars == <<queueVars, sliceVars, workVars, allocVars, stray>>

\* TS_Yield is missing: runSteps turns it back into TS_Running before anything
\* can see it (see Yield in Tasks).
ThreadStatus == {"Dormant", "Running", "Blocked", "Terminated"}

\* x is an element of the queue s; no element of s is there twice.
Has(s, x) == \E i \in DOMAIN s : s[i] = x
Distinct(s) == \A i, j \in DOMAIN s : s[i] = s[j] => i = j

Frame == [kind : {"code", "cobegin", "nondet"}, kids : Seq(Threads), index : Nat]

Code == [kind |-> "code", kids |-> <<>>, index |-> 0]

NotWaking == [thread |-> NIL, n |-> 0]

SchedulerTypeOK ==
    /\ running \in Seq(Threads)
    /\ current \in Threads \cup {NIL}
    /\ steps \in 0 .. NSteps
    /\ status \in [Threads -> ThreadStatus]
    /\ blockingObject \in [Threads -> Blockers \cup {NIL}]
    /\ waitingThreads \in [Blockers -> Seq(Threads)]
    /\ estack \in [Threads -> Seq(Frame)]
    /\ hasValue \in [Threads -> BOOLEAN]
    /\ waking \in [thread : Threads \cup {NIL}, n : Nat]
    /\ killing \in Seq(Threads)
    /\ nThreads \in 1 .. MaxThreads
    /\ tid \in [Threads -> Nat]
    /\ nextTid \in Nat
    /\ stray \in BOOLEAN

\* The state in which the REPL finds the scheduler: its evaluator is allocated
\* (tid 0), dormant and has nothing to do.
SchedulerInit ==
    /\ running = <<>>
    /\ current = NIL
    /\ steps = 0
    /\ status = [t \in Threads |-> "Dormant"]
    /\ blockingObject = [t \in Threads |-> NIL]
    /\ waitingThreads = [b \in Blockers |-> <<>>]
    /\ estack = [t \in Threads |-> <<>>]
    /\ hasValue = [t \in Threads |-> FALSE]
    /\ waking = NotWaking
    /\ killing = <<>>
    /\ nThreads = 1
    /\ tid = [t \in Threads |-> 0]
    /\ nextTid = 1
    /\ stray = FALSE

-----------------------------------------------------------------------------
(* The operations the rest of the interpreter calls.                        *)

\* Only a thread that is not already Running is queued.
AddThread(t) ==
    /\ status' = [status EXCEPT ![t] = "Running"]
    /\ running' = IF status[t] = "Running" THEN running ELSE Append(running, t)

\* Mistake: only the caller that blocks on a thread is queued.
BlockThreadUnqueued(t, b) ==
    IF b \in Threads /\ status[b] = "Terminated"
    THEN UNCHANGED <<status, blockingObject, waitingThreads>>
    ELSE /\ status' = [status EXCEPT ![t] = "Blocked"]
         /\ blockingObject' = [blockingObject EXCEPT ![t] = b]
         /\ waitingThreads' = IF b \in Threads
                              THEN [waitingThreads EXCEPT ![b] = Append(@, t)]
                              ELSE waitingThreads

\* A thread cannot be blocked on one that has terminated.  For a lock or a
\* message queue the caller enqueues the thread just after; that is included.
BlockThread(t, b) ==
    IF b \in Threads /\ status[b] = "Terminated"
    THEN UNCHANGED <<status, blockingObject, waitingThreads>>
    ELSE /\ status' = [status EXCEPT ![t] = "Blocked"]
         /\ blockingObject' = [blockingObject EXCEPT ![t] = b]
         /\ waitingThreads' = [waitingThreads EXCEPT ![b] = Append(@, t)]

\* Mistake: the blocking object is not cleared.
UnblockThreadKeepsObject(t) ==
    /\ UNCHANGED blockingObject
    /\ AddThread(t)

UnblockThread(t) ==
    /\ blockingObject' = [blockingObject EXCEPT ![t] = NIL]
    /\ AddThread(t)

\* The threads that wait for t are woken by the loop that this starts.
TerminateThread(t) ==
    /\ status' = [status EXCEPT ![t] = "Terminated"]
    /\ waking' = [thread |-> t, n |-> 0]

-----------------------------------------------------------------------------
(* A time slice: threadManager_runNextThread and evaluator_runSteps.        *)

\* No loop over other threads is under way in the current step.
StepComplete == waking = NotWaking /\ killing = <<>>

BeginSlice ==
    /\ current = NIL
    /\ running # <<>>
    /\ current' = Head(running)
    /\ status' = [status EXCEPT ![Head(running)] = "Running"]
    /\ steps' = NSteps
    /\ UNCHANGED <<running, blockingObject, waitingThreads, waking, killing>>
    /\ UNCHANGED <<workVars, allocVars, stray>>

\* Thread t is about to execute the next iteration of runSteps' loop.
MayStep(t) ==
    /\ current = t
    /\ StepComplete
    /\ steps > 0
    /\ status[t] = "Running"

\* Thread t is about to evaluate a frame of the given kind.
Evaluates(t, kind) ==
    /\ MayStep(t)
    /\ estack[t] # <<>>
    /\ Head(estack[t]).kind = kind

\* One any_eval of such a frame.
EvalStep(t, kind) ==
    /\ Evaluates(t, kind)
    /\ steps' = steps - 1
    /\ UNCHANGED <<current, waking, killing>>

\* The expression stack is empty: the thread terminates and the slice is over.
FinishThread(t) ==
    /\ MayStep(t)
    /\ estack[t] = <<>>
    /\ TerminateThread(t)
    /\ steps' = 0
    /\ UNCHANGED <<current, killing, running, blockingObject, waitingThreads>>
    /\ UNCHANGED <<workVars, allocVars, stray>>

\* Mistake: the waiting threads are visited and not dequeued.
WakeNextPeeks ==
    /\ waking # NotWaking
    /\ waking.n < Len(waitingThreads[waking.thread])
    /\ waking' = [waking EXCEPT !.n = @ + 1]
    /\ UnblockThread(Head(waitingThreads[waking.thread]))
    /\ UNCHANGED <<current, steps, killing, waitingThreads, workVars, allocVars, stray>>

\* Mistake: the loop stops one short.
WakeNextStopsShort ==
    /\ waking # NotWaking
    /\ waking.n + 1 < Len(waitingThreads[waking.thread])
    /\ waking' = [waking EXCEPT !.n = @ + 1]
    /\ waitingThreads' = [waitingThreads EXCEPT ![waking.thread] = Tail(@)]
    /\ UnblockThread(Head(waitingThreads[waking.thread]))
    /\ UNCHANGED <<current, steps, killing, workVars, allocVars, stray>>

\* for (int n=0; n<queue_count(threadQ); n++): the bound is read again at each
\* iteration, from a queue that the loop is emptying.
WakeNext ==
    /\ waking # NotWaking
    /\ waking.n < Len(waitingThreads[waking.thread])
    /\ waking' = [waking EXCEPT !.n = @ + 1]
    /\ waitingThreads' = [waitingThreads EXCEPT ![waking.thread] = Tail(@)]
    /\ UnblockThread(Head(waitingThreads[waking.thread]))
    /\ UNCHANGED <<current, steps, killing, workVars, allocVars, stray>>

WakeDone ==
    /\ waking # NotWaking
    /\ waking.n >= Len(waitingThreads[waking.thread])
    /\ waking' = NotWaking
    /\ UNCHANGED <<current, steps, killing, queueVars, workVars, allocVars, stray>>

\* What EndSlice does besides moving the thread.
EndSliceOf(queue) ==
    /\ current # NIL
    /\ StepComplete
    /\ steps = 0 \/ status[current] # "Running"
    /\ running' = queue
    /\ current' = NIL
    /\ steps' = 0
    /\ UNCHANGED <<waking, killing, status, blockingObject, waitingThreads>>
    /\ UNCHANGED <<workVars, allocVars, stray>>

\* Mistake: every thread that has not terminated goes to the tail.
EndSliceKeepsBlocked ==
    EndSliceOf(IF status[current] # "Terminated"
               THEN Append(Tail(running), current) ELSE Tail(running))

\* Mistake: every thread that is not blocked goes to the tail.
EndSliceKeepsTerminated ==
    EndSliceOf(IF status[current] # "Blocked"
               THEN Append(Tail(running), current) ELSE Tail(running))

\* Mistake: the thread stays at the head.
EndSliceAtHead ==
    EndSliceOf(IF status[current] = "Running" THEN running ELSE Tail(running))

\* The thread leaves the head of the queue, and goes to the tail if it can run.
EndSlice ==
    EndSliceOf(IF status[current] = "Running"
               THEN Append(Tail(running), current) ELSE Tail(running))

=============================================================================
