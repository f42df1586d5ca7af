-------------------------------- MODULE Lock --------------------------------
(****************************************************************************)
(* The Lock objects: data/lock.c and the primitives lock:acquire and        *)
(* lock:release of ns/lock.c.                                               *)
(****************************************************************************)
EXTENDS Tasks

VARIABLES
    lockedBy,     \* lockedBy of each lock
    inside,       \* history: the locks a thread has asked for and not given back
    rogue         \* history: a thread has released a lock it was not inside of

lockVars == <<lockedBy, inside, rogue>>

LockTypeOK ==
    /\ lockedBy \in [Locks -> Threads \cup {NIL}]
    /\ inside \in [Threads -> SUBSET Locks]
    /\ rogue \in BOOLEAN

LockInit ==
    /\ lockedBy = [l \in Locks |-> NIL]
    /\ inside = [t \in Threads |-> {}]
    /\ rogue = FALSE

\* The owner that acquires the lock again waits for itself.  The result nil is
\* pushed at once, also when the thread has to wait.
Acquire(t, l) ==
    /\ Performs(t, "acquire")
    /\ inside' = [inside EXCEPT ![t] = @ \cup {l}]
    /\ IF lockedBy[l] = NIL
       THEN /\ lockedBy' = [lockedBy EXCEPT ![l] = t]
            /\ UNCHANGED queueVars
       ELSE /\ Len(waitingThreads[l]) < MaxWaiting
            /\ BlockThread(t, l)
            /\ UNCHANGED <<lockedBy, running>>
    /\ hasValue' = [hasValue EXCEPT ![t] = TRUE]
    /\ UNCHANGED <<rogue, estack, allocVars, stray>>

\* What Release does if threads wait: nextThread runs, the queue becomes queue and
\* the lock is held by owner.
HandOver(l, nextThread, queue, owner) ==
    /\ waitingThreads' = [waitingThreads EXCEPT ![l] = queue]
    /\ UnblockThread(nextThread)
    /\ lockedBy' = [lockedBy EXCEPT ![l] = owner]

\* What Release does if nobody waits.
SetFree(l) ==
    /\ lockedBy' = [lockedBy EXCEPT ![l] = NIL]
    /\ UNCHANGED queueVars

\* What a call of release does whatever the lock.
Releasing(t, l) ==
    /\ Performs(t, "release")
    /\ inside' = [inside EXCEPT ![t] = @ \ {l}]
    /\ rogue' = (rogue \/ l \notin inside[t])
    /\ UNCHANGED <<workVars, allocVars, stray>>

\* Mistake: nobody is woken.
ReleaseWakesNobody(t, l) == Releasing(t, l) /\ SetFree(l)

\* Mistake: the woken thread does not become the owner.
ReleaseWithoutOwner(t, l) ==
    /\ Releasing(t, l)
    /\ IF waitingThreads[l] = <<>>
       THEN SetFree(l)
       ELSE HandOver(l, Head(waitingThreads[l]), Tail(waitingThreads[l]), NIL)

\* Mistake: the last thread that came is served first.
ReleaseToLast(t, l) ==
    LET n == Len(waitingThreads[l])
    IN  /\ Releasing(t, l)
        /\ IF n = 0
           THEN SetFree(l)
           ELSE HandOver(l, waitingThreads[l][n], SubSeq(waitingThreads[l], 1, n - 1),
                         waitingThreads[l][n])

\* Whoever holds it, the lock is given to the first thread that waits, or freed.
Release(t, l) ==
    /\ Releasing(t, l)
    /\ IF waitingThreads[l] = <<>>
       THEN SetFree(l)
       ELSE HandOver(l, Head(waitingThreads[l]), Tail(waitingThreads[l]),
                     Head(waitingThreads[l]))

-----------------------------------------------------------------------------
\* The threads that own l or wait for it, in the order in which they get it.
Line(l) ==
    IF lockedBy[l] = NIL THEN <<>> ELSE <<lockedBy[l]>> \o waitingThreads[l]

\* A lock that is free has nobody waiting for it: release (lock.c:64) hands it
\* over in the same call, and no wakeup is lost between the two.
FreeLockHasNoWaiters ==
    \A l \in Locks : lockedBy[l] = NIL => waitingThreads[l] = <<>>

\* Mutual exclusion.  As long as threads release only locks they have acquired,
\* and no thread was woken by something else than the release that hands it the
\* lock, a thread that has returned from lock:acquire is the one owner.
MutualExclusion ==
    ~stray /\ ~rogue =>
       \A t \in Threads : \A l \in inside[t] :
          blockingObject[t] # l => lockedBy[l] = t

=============================================================================
