-------------------------------- MODULE MsgQ --------------------------------
(****************************************************************************)
(* The MsgQ objects: data/msgq.c and the primitives msgq:enq and msgq:wait  *)
(* of ns/msgq.c.                                                            *)
(****************************************************************************)
EXTENDS Tasks

CONSTANTS
    Messages,     \* the values that are sent
    MaxSends,     \* bound on the messages sent to a queue
    MaxWaits      \* bound on the calls of msgq:wait on a queue

ASSUME MaxSendsAssumption == MaxSends \in Nat
ASSUME MaxWaitsAssumption == MaxWaits \in Nat

VARIABLES
    messages,     \* messages of each MsgQ
    sent,         \* history: the messages sent to each MsgQ, in order
    asked,        \* history: the threads that called msgq:wait on it, in order
    got           \* history: the values pushed on ostacks, as <<thread, message>>

msgqVars == <<messages, sent, asked, got>>

MsgQTypeOK ==
    /\ messages \in [MsgQs -> Seq(Messages)]
    /\ sent \in [MsgQs -> Seq(Messages)]
    /\ asked \in [MsgQs -> Seq(Threads)]
    /\ got \in [MsgQs -> Seq(Threads \X Messages)]

MsgQInit ==
    /\ messages = [q \in MsgQs |-> <<>>]
    /\ sent = [q \in MsgQs |-> <<>>]
    /\ asked = [q \in MsgQs |-> <<>>]
    /\ got = [q \in MsgQs |-> <<>>]

\* Mistake: the message is queued and no waiting thread is triggered.
EnqWithoutTrigger(t, q, m) ==
    /\ Performs(t, "enq")
    /\ Len(sent[q]) < MaxSends
    /\ sent' = [sent EXCEPT ![q] = Append(@, m)]
    /\ messages' = [messages EXCEPT ![q] = Append(@, m)]
    /\ UNCHANGED <<asked, got, queueVars, hasValue, estack, allocVars, stray>>

\* A thread waits, so the oldest message of the queue goes to the thread that has
\* waited longest.
Trigger(q, queued) ==
    LET thread == Head(waitingThreads[q])
    IN  /\ messages' = [messages EXCEPT ![q] = Tail(queued)]
        /\ waitingThreads' = [waitingThreads EXCEPT ![q] = Tail(@)]
        /\ got' = [got EXCEPT ![q] = Append(@, <<thread, Head(queued)>>)]
        /\ hasValue' = [hasValue EXCEPT ![thread] = TRUE]
        /\ UnblockThread(thread)

\* The message goes through the queue even if a thread waits for it.
Enq(t, q, m) ==
    LET queued == Append(messages[q], m)
    IN  /\ Performs(t, "enq")
        /\ Len(sent[q]) < MaxSends
        /\ sent' = [sent EXCEPT ![q] = Append(@, m)]
        /\ IF waitingThreads[q] = <<>>
           THEN /\ messages' = [messages EXCEPT ![q] = queued]
                /\ UNCHANGED <<got, queueVars, hasValue>>
           ELSE Trigger(q, queued)
        /\ UNCHANGED <<asked, estack, allocVars, stray>>

\* Mistake: the newest message is taken.
WaitTakesLast(t, q) ==
    LET n == Len(messages[q])
    IN  /\ Performs(t, "wait")
        /\ Len(asked[q]) < MaxWaits
        /\ n > 0
        /\ asked' = [asked EXCEPT ![q] = Append(@, t)]
        /\ messages' = [messages EXCEPT ![q] = SubSeq(@, 1, n - 1)]
        /\ got' = [got EXCEPT ![q] = Append(@, <<t, messages[q][n]>>)]
        /\ hasValue' = [hasValue EXCEPT ![t] = TRUE]
        /\ UNCHANGED <<queueVars, sent, estack, allocVars, stray>>

Wait(t, q) ==
    /\ Performs(t, "wait")
    /\ Len(asked[q]) < MaxWaits
    /\ asked' = [asked EXCEPT ![q] = Append(@, t)]
    /\ IF messages[q] = <<>>
       THEN /\ Len(waitingThreads[q]) < MaxWaiting
            /\ BlockThread(t, q)
            /\ hasValue' = [hasValue EXCEPT ![t] = FALSE]
            /\ UNCHANGED <<messages, got, running>>
       ELSE /\ messages' = [messages EXCEPT ![q] = Tail(@)]
            /\ got' = [got EXCEPT ![q] = Append(@, <<t, Head(messages[q])>>)]
            /\ hasValue' = [hasValue EXCEPT ![t] = TRUE]
            /\ UNCHANGED queueVars
    /\ UNCHANGED <<sent, estack, allocVars, stray>>

-----------------------------------------------------------------------------
\* A message never stays in a queue that a thread is waiting at: msgq_enq
\* (msgq.c:49) delivers it in the same call.
NoMessageWithWaiter ==
    \A q \in MsgQs : messages[q] # <<>> => waitingThreads[q] = <<>>

\* Delivery is in order on both sides, whatever the interleaving: the n-th call
\* of msgq:wait gets the n-th message sent, exactly once.
MatchedInOrder ==
    \A q \in MsgQs :
       /\ sent[q] = [n \in DOMAIN got[q] |-> got[q][n][2]] \o messages[q]
       /\ asked[q] = [n \in DOMAIN got[q] |-> got[q][n][1]] \o waitingThreads[q]

=============================================================================
