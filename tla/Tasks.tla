-------------------------------- MODULE Tasks --------------------------------
(****************************************************************************)
(* What a program can do with threads: async, task:spawn, task:join,        *)
(* cobegin, nondet, task:sleep and exceptions (expr/async.c, expr/cobegin.c,*)
(* expr/nondet.c, ns/task.c, io/sleep.c, evaluator_handleException).        *)
(*                                                                          *)
(* A "code" frame stands for an arbitrary expression: each step it does one *)
(* of these things, a step that no other thread can see (Compute), or it is *)
(* done (Return).  A thread can name every allocated thread, because        *)
(* task:self() is a value like any other.                                   *)
(****************************************************************************)
EXTENDS Scheduler

CONSTANTS
    Ops,          \* the operations that the programs of an instance use
    MaxKids,      \* expressions in an async, cobegin or nondet
    MaxWaiting,   \* bound on a queue of waiting threads
    MaxTid        \* bound on the thread identifiers that are given out

AllOps == {"async", "join", "cobegin", "nondet", "yield", "catch", "throw",
           "acquire", "release", "enq", "wait"}

ASSUME OpsAssumption == Ops \subseteq AllOps
ASSUME MaxKidsAssumption == MaxKids \in Nat
ASSUME MaxWaitingAssumption == MaxWaiting \in Nat
ASSUME MaxTidAssumption == MaxTid \in Nat

\* The value of TS_Terminated in enum ThreadStatus.
TS_Terminated == 4

Allocated == 0 .. nThreads - 1

\* Thread t's program performs the operation op.
Performs(t, op) ==
    /\ op \in Ops
    /\ EvalStep(t, "code")

-----------------------------------------------------------------------------
\* The k evaluators allocated next, as a sequence.
NewKids(k) == [i \in 1 .. k |-> nThreads + i - 1]

\* k calls of evaluator_new, setEnv, pushExpr and addThread, in this order;
\* then thread t's own frames become frames.
SpawnKids(t, k, frames) ==
    LET IsKid(u) == u \in nThreads .. nThreads + k - 1
    IN  /\ nThreads + k <= MaxThreads
        /\ nThreads' = nThreads + k
        /\ nextTid' = nextTid + k
        /\ tid' = [u \in Threads |-> IF IsKid(u) THEN nextTid + (u - nThreads)
                                     ELSE tid[u]]
        /\ estack' = [u \in Threads |-> IF IsKid(u) THEN <<Code>>
                                        ELSE IF u = t THEN frames ELSE estack[u]]
        /\ running' = running \o NewKids(k)

\* async e1 .. ek end, and task:spawn (k = 1): the threads run on their own.
Async(t) ==
    /\ Performs(t, "async")
    /\ \E k \in 1 .. MaxKids :
          /\ SpawnKids(t, k, estack[t])
          /\ status' = [u \in Threads |->
                          IF u \in nThreads .. nThreads + k - 1
                          THEN "Running" ELSE status[u]]
    /\ UNCHANGED <<blockingObject, waitingThreads, hasValue, stray>>

\* task:join(c).  Nothing forbids c = t.  The result nil is pushed at once.
Join(t) ==
    /\ Performs(t, "join")
    /\ \E c \in Allocated :
          /\ Len(waitingThreads[c]) < MaxWaiting
          /\ BlockThread(t, c)
    /\ hasValue' = [hasValue EXCEPT ![t] = TRUE]
    /\ UNCHANGED <<running, estack, allocVars, stray>>

-----------------------------------------------------------------------------
\* cobegin e1 .. ek end: the threads are joined one by one, the last one first.
CobeginFrame(kids, i) == [kind |-> "cobegin", kids |-> kids, index |-> i]

\* Mistake: the first thread is joined first, and the results are taken from the
\* last to the first.
CobeginJoinsFirst(t) ==
    /\ Performs(t, "cobegin")
    /\ \E k \in 1 .. MaxKids :
          /\ SpawnKids(t, k, <<CobeginFrame(NewKids(k), k)>> \o estack[t])
          /\ status' = [u \in Threads |->
                          IF u \in nThreads .. nThreads + k - 1 THEN "Running"
                          ELSE IF u = t THEN "Blocked" ELSE status[u]]
          /\ blockingObject' = [blockingObject EXCEPT ![t] = nThreads]
          /\ waitingThreads' = [waitingThreads EXCEPT ![nThreads] = Append(@, t)]
    /\ hasValue' = [hasValue EXCEPT ![t] = FALSE]
    /\ UNCHANGED stray

Cobegin(t) ==
    /\ Performs(t, "cobegin")
    /\ \E k \in 1 .. MaxKids :
          LET last == nThreads + k - 1
          IN  /\ SpawnKids(t, k, <<CobeginFrame(NewKids(k), k)>> \o estack[t])
              /\ status' = [u \in Threads |->
                              IF u \in nThreads .. last THEN "Running"
                              ELSE IF u = t THEN "Blocked" ELSE status[u]]
              /\ blockingObject' = [blockingObject EXCEPT ![t] = last]
              /\ waitingThreads' = [waitingThreads EXCEPT ![last] = Append(@, t)]
    /\ hasValue' = [hasValue EXCEPT ![t] = FALSE]
    /\ UNCHANGED stray

\* The continuation pops the value of the thread it was waiting for, whatever
\* that thread's status is, and joins the one before.
CobeginContinue(t) ==
    /\ EvalStep(t, "cobegin")
    /\ LET f == Head(estack[t])
           rest == Tail(estack[t])
       IN  /\ hasValue' = [hasValue EXCEPT ![f.kids[f.index]] = FALSE]
           /\ IF f.index = 1
              THEN /\ estack' = [estack EXCEPT ![t] = rest]
                   /\ UNCHANGED <<status, blockingObject, waitingThreads>>
              ELSE /\ estack' = [estack EXCEPT ![t] =
                                   <<CobeginFrame(f.kids, f.index - 1)>> \o rest]
                   /\ BlockThread(t, f.kids[f.index - 1])
    /\ UNCHANGED <<running, allocVars, stray>>

-----------------------------------------------------------------------------
\* nondet e1 .. ek end: the evaluating thread waits for all of them at once.
NondetFrame(kids) == [kind |-> "nondet", kids |-> kids, index |-> 0]

Nondet(t) ==
    /\ Performs(t, "nondet")
    /\ \E k \in 1 .. MaxKids :
          LET last == nThreads + k - 1
              kids == nThreads .. last
          IN  /\ SpawnKids(t, k, <<NondetFrame(NewKids(k))>> \o estack[t])
              /\ status' = [u \in Threads |->
                              IF u \in kids THEN "Running"
                              ELSE IF u = t THEN "Blocked" ELSE status[u]]
              /\ blockingObject' = [blockingObject EXCEPT ![t] = last]
              /\ waitingThreads' = [b \in Blockers |->
                                      IF b \in kids THEN Append(waitingThreads[b], t)
                                      ELSE waitingThreads[b]]
    /\ hasValue' = [hasValue EXCEPT ![t] = FALSE]
    /\ stray' = TRUE

\* The places of the terminated threads in a sequence of threads.
Finished(kids) == {i \in DOMAIN kids : status[kids[i]] = "Terminated"}

\* The continuation takes the value of the first terminated thread in the order
\* of the expressions; that one and those after it are "the remaining threads".
NondetContinue(t) ==
    /\ Evaluates(t, "nondet")
    /\ steps' = steps - 1
    /\ LET kids == Head(estack[t]).kids
       IN  /\ estack' = [estack EXCEPT ![t] = Tail(@)]
           /\ IF Finished(kids) = {}
              THEN UNCHANGED <<hasValue, killing>>
              ELSE \E n \in Finished(kids) :
                      /\ \A i \in Finished(kids) : n <= i
                      /\ hasValue' = [hasValue EXCEPT ![kids[n]] = FALSE]
                      /\ killing' = SubSeq(kids, n, Len(kids))
    /\ UNCHANGED <<current, waking, queueVars, allocVars, stray>>

\* if (TS_Terminated != evaluator_getTid(thread)): the test compares a thread
\* identifier with a status.
KillNext ==
    /\ waking = NotWaking
    /\ killing # <<>>
    /\ killing' = Tail(killing)
    /\ IF tid[Head(killing)] # TS_Terminated
       THEN TerminateThread(Head(killing))
       ELSE UNCHANGED <<status, waking>>
    /\ UNCHANGED <<current, steps, running, blockingObject, waitingThreads>>
    /\ UNCHANGED <<workVars, allocVars, stray>>

-----------------------------------------------------------------------------
\* A step that changes nothing another thread can see.
Compute(t) ==
    /\ EvalStep(t, "code")
    /\ UNCHANGED <<queueVars, workVars, allocVars, stray>>

\* Mistake: the waiting threads are woken when there is a value, not when the
\* thread has terminated.
ReturnWakes(t) ==
    /\ Evaluates(t, "code")
    /\ steps' = steps - 1
    /\ waking' = [thread |-> t, n |-> 0]
    /\ estack' = [estack EXCEPT ![t] = Tail(@)]
    /\ hasValue' = [hasValue EXCEPT ![t] = TRUE]
    /\ UNCHANGED <<current, killing, queueVars, allocVars, stray>>

\* The expression is evaluated and its value is on the operand stack.
Return(t) ==
    /\ EvalStep(t, "code")
    /\ estack' = [estack EXCEPT ![t] = Tail(@)]
    /\ hasValue' = [hasValue EXCEPT ![t] = TRUE]
    /\ UNCHANGED <<queueVars, allocVars, stray>>

\* task:sleep and io:readLine before their time has come: the thread gives up
\* the rest of its slice, with TS_Yield, and comes back to the same expression.
Yield(t) ==
    /\ "yield" \in Ops
    /\ Evaluates(t, "code")
    /\ steps' = 0
    /\ UNCHANGED <<current, waking, killing, queueVars, workVars, allocVars, stray>>

\* An exception leaves runSteps' loop by longjmp and comes back to its start.
\* nSteps has changed since setjmp and is not volatile: its value is then either
\* the current one or the one it had at setjmp, as the compiler placed it.
Longjmp(t) ==
    /\ Evaluates(t, "code")
    /\ steps' \in {steps - 1, NSteps}
    /\ UNCHANGED <<current, waking, killing>>

\* An exception handler among the frames of t matches: everything above it is
\* popped, and its catch expression is evaluated in its place.
Catch(t) ==
    /\ "catch" \in Ops
    /\ Longjmp(t)
    /\ \E i \in DOMAIN estack[t] :
          /\ estack[t][i].kind = "code"
          /\ estack' = [estack EXCEPT ![t] = SubSeq(@, i, Len(@))]
    /\ UNCHANGED <<queueVars, hasValue, allocVars, stray>>

\* No handler matches: the evaluator is initialized again, with a new tid and no
\* waitingThreads, and goes on with the value nil and nothing to evaluate.
Throw(t) ==
    /\ "throw" \in Ops
    /\ nextTid < MaxTid
    /\ Longjmp(t)
    /\ estack' = [estack EXCEPT ![t] = <<>>]
    /\ hasValue' = [hasValue EXCEPT ![t] = TRUE]
    /\ blockingObject' = [blockingObject EXCEPT ![t] = NIL]
    /\ waitingThreads' = [waitingThreads EXCEPT ![t] = <<>>]
    /\ tid' = [tid EXCEPT ![t] = nextTid]
    /\ nextTid' = nextTid + 1
    /\ UNCHANGED <<running, status, nThreads, stray>>

=============================================================================
