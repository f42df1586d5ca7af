------------------------- MODULE InterpreterResults -------------------------
(****************************************************************************)
(* What the threads of a program get from each other, for any number of     *)
(* threads, locks, queues and messages: locks and messages in the order in  *)
(* which they ask for them, whatever goes astray, and the results of the    *)
(* threads of a cobegin, each of them once.                                 *)
(****************************************************************************)
EXTENDS InterpreterProofs

-----------------------------------------------------------------------------
(* Sequences of pairs.                                                      *)

\* The i-th components of a sequence of pairs.
Column(p, i) == [n \in DOMAIN p |-> p[n][i]]

\* The i-th components of a sequence of pairs, and then a queue.
Then(p, i, s) == Column(p, i) \o s

\* The i-th components of a sequence of pairs are in S.
ColumnIn(p, i, S) == \A n \in DOMAIN p : p[n][i] \in S

\* A column of a sequence of pairs is a sequence.
LEMMA ColumnIsSeq ==
    ASSUME NEW T, NEW p \in Seq(T), NEW S, NEW i, ColumnIn(p, i, S)
    PROVE  /\ Column(p, i) \in Seq(S)
           /\ Len(Column(p, i)) = Len(p)
           /\ \A n \in 1 .. Len(p) : Column(p, i)[n] = p[n][i]
<1> DEFINE c == Column(p, i)
<1>1. c \in [1 .. Len(p) -> S] /\ Len(p) \in Nat
  BY DEF Column, ColumnIn
<1>2. \A n \in 1 .. Len(p) : c[n] = p[n][i]
  BY DEF Column
<1> HIDE DEF c
<1>3. c \in Seq(S) /\ Len(c) = Len(p)
  <2>1. c \in Seq(S)
    BY <1>1, IsASeq
  <2> QED
    BY <1>1, <2>1
<1> QED
  BY <1>2, <1>3 DEF c

\* The head of a queue moves to the end of what precedes it.
LEMMA HeadMoves ==
    ASSUME NEW S, NEW c \in Seq(S), NEW s \in Seq(S), s # <<>>
    PROVE  Append(c, Head(s)) \o Tail(s) = c \o s
<1>1. Head(s) \in S /\ s = <<Head(s)>> \o Tail(s) /\ Tail(s) \in Seq(S)
  OBVIOUS
<1>2. <<Head(s)>> \in Seq(S)
  BY <1>1
<1>3. Append(c, Head(s)) = c \o <<Head(s)>>
  BY <1>1, AppendIsConcat
<1>4. (c \o <<Head(s)>>) \o Tail(s) = c \o (<<Head(s)>> \o Tail(s))
  BY <1>1, <1>2, ConcatAssociative
<1> QED
  BY <1>1, <1>3, <1>4

\* A column followed by a queue: an element joins the queue.
LEMMA ColumnJoin ==
    ASSUME NEW T, NEW g \in Seq(T), NEW S, NEW i, ColumnIn(g, i, S),
           NEW s \in Seq(S), NEW x \in S
    PROVE  Then(g, i, Append(s, x)) = Append(Then(g, i, s), x)
<1> DEFINE c == Column(g, i)
<1>1. c \in Seq(S) /\ <<x>> \in Seq(S)
  BY ColumnIsSeq
<1> HIDE DEF c
<1>2. c \o s \in Seq(S)
  BY <1>1, ConcatProperties
<1>3. Append(c \o s, x) = (c \o s) \o <<x>>
  BY <1>2, AppendIsConcat
<1>4. Append(s, x) = s \o <<x>>
  BY AppendIsConcat
<1>5. (c \o s) \o <<x>> = c \o (s \o <<x>>)
  BY <1>1, ConcatAssociative
<1> QED
  BY <1>3, <1>4, <1>5 DEF c, Then

\* A column followed by a queue: a tuple with the head of the queue joins the column.
LEMMA ColumnTakesHead ==
    ASSUME NEW T, NEW g \in Seq(T), NEW S, NEW i, ColumnIn(g, i, S),
           NEW s \in Seq(S), s # <<>>,
           NEW p \in T, p[i] = Head(s)
    PROVE  Then(Append(g, p), i, Tail(s)) = Then(g, i, s)
<1> DEFINE a == Append(g, p)
           c == Column(g, i)
           d == Column(a, i)
<1>1. /\ a \in Seq(T)
      /\ Len(a) = Len(g) + 1
      /\ DOMAIN a = 1 .. Len(g) + 1 /\ DOMAIN g = 1 .. Len(g)
      /\ \A n \in 1 .. Len(g) : a[n] = g[n]
      /\ a[Len(g) + 1] = p
      /\ Len(g) \in Nat
  BY AppendProperties
<1>2. Head(s) \in S
  OBVIOUS
<1>3. c \in Seq(S) /\ Len(c) = Len(g) /\ \A n \in 1 .. Len(g) : c[n] = g[n][i]
  BY ColumnIsSeq
<1> HIDE DEF a
<1>4. ColumnIn(a, i, S)
  BY <1>1, <1>2 DEF ColumnIn
<1>5. d \in Seq(S) /\ Len(d) = Len(a) /\ \A n \in 1 .. Len(a) : d[n] = a[n][i]
  BY <1>1, <1>4, ColumnIsSeq
<1> HIDE DEF c, d
<1>6. d = Append(c, Head(s))
  <2> DEFINE e == Append(c, Head(s))
  <2>1. /\ e \in Seq(S) /\ Len(e) = Len(c) + 1
        /\ \A n \in 1 .. Len(c) : e[n] = c[n]
        /\ e[Len(c) + 1] = Head(s)
    BY <1>2, <1>3, AppendProperties
  <2> HIDE DEF e
  <2>2. \A n \in 1 .. Len(d) : d[n] = e[n]
    <3>1. ASSUME NEW n \in 1 .. Len(g) PROVE d[n] = e[n]
      <4>1. d[n] = a[n][i] /\ a[n] = g[n] /\ c[n] = g[n][i]
        BY <1>1, <1>3, <1>5
      <4> QED
        BY <1>3, <2>1, <4>1
    <3>2. d[Len(g) + 1] = e[Len(g) + 1]
      <4>1. Len(g) + 1 \in 1 .. Len(a)
        BY <1>1
      <4>2. d[Len(g) + 1] = p[i]
        BY <1>1, <1>5, <4>1
      <4> QED
        BY <1>3, <2>1, <4>2
    <3>3. Len(d) = Len(g) + 1
      BY <1>1, <1>5
    <3>4. \A n \in 1 .. Len(d) : n \in 1 .. Len(g) \/ n = Len(g) + 1
      BY <1>1, <3>3
    <3> QED
      BY <3>1, <3>2, <3>4
  <2>3. Len(d) = Len(e)
    BY <1>1, <1>3, <1>5, <2>1
  <2> QED
    BY <1>5, <2>1, <2>2, <2>3, SeqEqual DEF e
<1>7. Append(c, Head(s)) \o Tail(s) = c \o s
  BY <1>3, HeadMoves
<1> QED
  BY <1>6, <1>7 DEF a, c, d, Then

-----------------------------------------------------------------------------
(* Message queues.                                                          *)

\* What is known of the values received from a MsgQ and of their receivers.
Received(g, T, A, B) ==
    T = A \X B /\ g \in Seq(T) /\ ColumnIn(g, 1, A) /\ ColumnIn(g, 2, B)

\* The first message of a queue goes to the first thread that waits.
LEMMA PairTaken ==
    ASSUME NEW A, NEW B, NEW T, NEW g, Received(g, T, A, B),
           NEW s \in Seq(B), s # <<>>, NEW w \in Seq(A), w # <<>>,
           NEW p \in T, p[1] = Head(w), p[2] = Head(s)
    PROVE  /\ Then(Append(g, p), 2, Tail(s)) = Then(g, 2, s)
           /\ Then(Append(g, p), 1, Tail(w)) = Then(g, 1, w)
<1>1. g \in Seq(T) /\ ColumnIn(g, 1, A) /\ ColumnIn(g, 2, B)
  BY DEF Received
<1>2. Then(Append(g, p), 2, Tail(s)) = Then(g, 2, s)
  BY <1>1, ColumnTakesHead
<1>3. Then(Append(g, p), 1, Tail(w)) = Then(g, 1, w)
  BY <1>1, ColumnTakesHead
<1> QED
  BY <1>2, <1>3

\* Waiting threads and messages are matched in the order in which they come: no step
\* of an interpreter loses, doubles or overtakes one.
LEMMA NextMatched ==
    ASSUME TypeOK, ControlOK, NoMessageWithWaiter, MatchedInOrder, [Next]_vars
    PROVE  MatchedInOrder'
<1>1. SchedulerTypeOK /\ MsgQTypeOK
  BY DEF TypeOK
<1>2. ASSUME UNCHANGED msgqVars, \A q \in MsgQs : waitingThreads'[q] = waitingThreads[q]
      PROVE  MatchedInOrder'
  BY <1>2 DEF MatchedInOrder, msgqVars
<1>3. CASE \/ SliceStep /\ UNCHANGED <<lockVars, msgqVars>>
           \/ (\E t \in Threads : TaskStep(t)) /\ UNCHANGED <<lockVars, msgqVars>>
           \/ (ReplEval \/ ReplPrint \/ ReplQuit) /\ UNCHANGED <<lockVars, msgqVars>>
  BY <1>1, <1>2, <1>3, OthersKeepWaiters
<1>4. CASE \E t \in Threads : \E l \in Locks :
              (Acquire(t, l) \/ Release(t, l)) /\ UNCHANGED msgqVars
  BY <1>1, <1>2, <1>4, PrimitivesKeepWaiters DEF LockStep
<1>5. CASE UNCHANGED vars
  BY <1>2, <1>5 DEF vars, schedulerVars, queueVars
\* A step that concerns the queue q.
<1>6. ASSUME NEW t \in Threads, NEW q \in MsgQs,
             \A c \in MsgQs : c # q =>
                /\ sent'[c] = sent[c] /\ messages'[c] = messages[c] /\ asked'[c] = asked[c]
                /\ got'[c] = got[c] /\ waitingThreads'[c] = waitingThreads[c],
             sent'[q] = Then(got'[q], 2, messages'[q]),
             asked'[q] = Then(got'[q], 1, waitingThreads'[q])
      PROVE  MatchedInOrder'
  <2> SUFFICES ASSUME NEW c \in MsgQs
               PROVE  /\ sent'[c] = Then(got'[c], 2, messages'[c])
                      /\ asked'[c] = Then(got'[c], 1, waitingThreads'[c])
    BY DEF MatchedInOrder, Column, Then
  <2>1. /\ sent[c] = Then(got[c], 2, messages[c])
        /\ asked[c] = Then(got[c], 1, waitingThreads[c])
    BY DEF MatchedInOrder, Column, Then
  <2> QED
    BY <1>6, <2>1
<1> DEFINE T == Threads \X Messages
<1>7. ASSUME NEW q \in MsgQs
      PROVE  /\ Received(got[q], T, Threads, Messages)
             /\ messages[q] \in Seq(Messages) /\ waitingThreads[q] \in Seq(Threads)
             /\ sent[q] = Then(got[q], 2, messages[q])
             /\ asked[q] = Then(got[q], 1, waitingThreads[q])
  <2>1. got[q] \in Seq(Threads \X Messages)
    BY <1>1 DEF MsgQTypeOK
  <2>2. Received(got[q], T, Threads, Messages)
    BY <2>1 DEF Received, ColumnIn
  <2> QED
    BY <1>1, <2>2, Constants DEF SchedulerTypeOK, MsgQTypeOK, MatchedInOrder, Column, Then
<1> HIDE DEF T
<1>8. ASSUME NEW t \in Threads, NEW q \in MsgQs, Wait(t, q)
      PROVE  MatchedInOrder'
  <2> DEFINE g == got[q]
             s == messages[q]
             w == waitingThreads[q]
  <2>0. /\ Received(g, T, Threads, Messages)
        /\ s \in Seq(Messages) /\ w \in Seq(Threads)
        /\ sent[q] = Then(g, 2, s)
        /\ asked[q] = Then(g, 1, w)
    BY <1>7
  <2> HIDE DEF g, s, w
  <2>1. /\ UNCHANGED sent
        /\ asked' = [asked EXCEPT ![q] = Append(@, t)]
    BY <1>8 DEF Wait
  <2>2. CASE messages[q] = <<>>
    <3>1. UNCHANGED <<messages, got>> /\ BlockThread(t, q)
      BY <1>8, <2>2 DEF Wait
    <3>2. waitingThreads' = [waitingThreads EXCEPT ![q] = Append(@, t)]
      BY <3>1, Constants DEF BlockThread
    <3>3. Append(asked[q], t) = Then(g, 1, Append(w, t))
      BY <2>0, ColumnJoin DEF Received
    <3>4. /\ asked'[q] = Append(asked[q], t)
          /\ waitingThreads'[q] = Append(w, t) /\ got'[q] = g
          /\ sent'[q] = sent[q] /\ messages'[q] = s
          /\ \A c \in MsgQs : c # q =>
                asked'[c] = asked[c] /\ waitingThreads'[c] = waitingThreads[c]
      BY <1>1, <2>1, <3>1, <3>2, Constants DEF MsgQTypeOK, SchedulerTypeOK, g, s, w
    <3> QED
      BY <1>6, <2>0, <2>1, <3>1, <3>3, <3>4
  <2>3. CASE messages[q] # <<>>
    <3>1. /\ UNCHANGED waitingThreads
          /\ messages' = [messages EXCEPT ![q] = Tail(@)]
          /\ got' = [got EXCEPT ![q] = Append(@, <<t, Head(messages[q])>>)]
      BY <1>8, <2>3 DEF Wait, queueVars
    <3>2. w = <<>> /\ s # <<>>
      BY <2>3 DEF NoMessageWithWaiter, s, w
    <3> DEFINE p == <<t, Head(s)>>
               v == Append(w, t)
    <3>3. /\ p \in T /\ p[1] = Head(v) /\ p[2] = Head(s)
          /\ v \in Seq(Threads) /\ v # <<>> /\ Tail(v) = w
      <4>1. v \in Seq(Threads) /\ v # <<>> /\ Head(v) = t /\ Tail(v) = w
        BY <2>0, <3>2
      <4>2. Head(s) \in Messages
        BY <2>0, <3>2
      <4>3. p \in T /\ p[1] = t /\ p[2] = Head(s)
        BY <4>2 DEF T
      <4> HIDE DEF v, p
      <4> QED
        BY <4>1, <4>3
    <3>4. Then(g, 1, v) = Append(Then(g, 1, w), t)
      BY <2>0, ColumnJoin DEF Received
    <3> HIDE DEF p, v
    <3>5. /\ Then(Append(g, p), 2, Tail(s)) = Then(g, 2, s)
          /\ Then(Append(g, p), 1, Tail(v)) = Then(g, 1, v)
      BY <2>0, <3>2, <3>3, PairTaken
    <3>6. /\ got'[q] = Append(g, p) /\ messages'[q] = Tail(s)
          /\ sent'[q] = sent[q] /\ waitingThreads'[q] = w
          /\ asked'[q] = Append(asked[q], t)
          /\ \A c \in MsgQs : c # q =>
                asked'[c] = asked[c] /\ messages'[c] = messages[c] /\ got'[c] = got[c]
      BY <1>1, <2>1, <3>1 DEF MsgQTypeOK, g, s, w, p
    <3>7. sent'[q] = Then(got'[q], 2, messages'[q])
      BY <2>0, <3>5, <3>6
    <3>8. asked'[q] = Then(got'[q], 1, waitingThreads'[q])
      BY <2>0, <3>3, <3>4, <3>5, <3>6
    <3> QED
      BY <1>6, <2>1, <3>1, <3>6, <3>7, <3>8
  <2> QED
    BY <2>2, <2>3
<1>9. ASSUME NEW t \in Threads, NEW q \in MsgQs, NEW m \in Messages, Enq(t, q, m)
      PROVE  MatchedInOrder'
  <2> DEFINE g == got[q]
             s == messages[q]
             w == waitingThreads[q]
  <2>0. /\ Received(g, T, Threads, Messages)
        /\ s \in Seq(Messages) /\ w \in Seq(Threads)
        /\ sent[q] = Then(g, 2, s)
        /\ asked[q] = Then(g, 1, w)
    BY <1>7
  <2> HIDE DEF g, s, w
  <2>1. /\ UNCHANGED asked
        /\ sent' = [sent EXCEPT ![q] = Append(@, m)]
    BY <1>9 DEF Enq
  <2>2. /\ sent'[q] = Append(sent[q], m)
        /\ \A c \in MsgQs : c # q => sent'[c] = sent[c]
    BY <1>1, <2>1 DEF MsgQTypeOK
  <2>3. CASE waitingThreads[q] = <<>>
    <3>1. /\ UNCHANGED <<got, waitingThreads>>
          /\ messages' = [messages EXCEPT ![q] = Append(messages[q], m)]
      BY <1>9, <2>3 DEF Enq, queueVars
    <3>2. Append(sent[q], m) = Then(g, 2, Append(s, m))
      BY <2>0, ColumnJoin DEF Received
    <3>3. /\ messages'[q] = Append(s, m)
          /\ got'[q] = g /\ waitingThreads'[q] = w /\ asked'[q] = asked[q]
          /\ \A c \in MsgQs : c # q => messages'[c] = messages[c]
      BY <1>1, <2>1, <3>1 DEF MsgQTypeOK, g, s, w
    <3> QED
      BY <1>6, <2>0, <2>1, <2>2, <3>1, <3>2, <3>3
  <2>4. CASE waitingThreads[q] # <<>>
    <3> DEFINE queued == Append(s, m)
               p      == <<Head(w), Head(queued)>>
    <3>1. /\ messages' = [messages EXCEPT ![q] = Tail(queued)]
          /\ waitingThreads' = [waitingThreads EXCEPT ![q] = Tail(@)]
          /\ got' = [got EXCEPT ![q] = Append(@, p)]
      BY <1>9, <2>4 DEF Enq, Trigger, g, s, w
    <3>2. /\ w # <<>> /\ queued \in Seq(Messages) /\ queued # <<>>
          /\ p \in T /\ p[1] = Head(w) /\ p[2] = Head(queued)
      <4>1. w # <<>>
        BY <2>4 DEF w
      <4>2. queued \in Seq(Messages) /\ queued # <<>>
        BY <2>0, AppendProperties
      <4> HIDE DEF queued
      <4> QED
        BY <2>0, <4>1, <4>2 DEF T
    <3>3. Then(g, 2, queued) = Append(Then(g, 2, s), m)
      BY <2>0, ColumnJoin DEF Received
    <3> HIDE DEF queued, p
    <3>4. /\ Then(Append(g, p), 2, Tail(queued)) = Then(g, 2, queued)
          /\ Then(Append(g, p), 1, Tail(w)) = Then(g, 1, w)
      BY <2>0, <3>2, PairTaken
    <3>5. /\ got'[q] = Append(g, p) /\ messages'[q] = Tail(queued)
          /\ waitingThreads'[q] = Tail(w) /\ asked'[q] = asked[q]
          /\ \A c \in MsgQs : c # q => /\ messages'[c] = messages[c] /\ got'[c] = got[c]
                                       /\ waitingThreads'[c] = waitingThreads[c]
      BY <1>1, <2>1, <3>1, Constants DEF MsgQTypeOK, SchedulerTypeOK, w, g
    <3>6. sent'[q] = Then(got'[q], 2, messages'[q])
      BY <2>0, <2>2, <3>3, <3>4, <3>5
    <3>7. asked'[q] = Then(got'[q], 1, waitingThreads'[q])
      BY <2>0, <3>4, <3>5
    <3> QED
      BY <1>6, <2>1, <2>2, <3>5, <3>6, <3>7
  <2> QED
    BY <2>3, <2>4
<1> QED
  BY <1>3, <1>4, <1>5, <1>8, <1>9, StepForms DEF MsgQStep

\* The n-th call of msgq:wait gets the n-th message sent (msgq_enq, msgq_wait), for
\* any number of threads, queues and messages, and whatever goes astray.
THEOREM DeliveryIsInOrder == Spec => []MatchedInOrder
<1>1. Init => MatchedInOrder
  <2>1. Column(<<>>, 1) \o <<>> = <<>> /\ Column(<<>>, 2) \o <<>> = <<>>
    BY DEF Column
  <2> QED
    BY <2>1, Constants DEF Init, SchedulerInit, MsgQInit, MatchedInOrder, Column, Then
<1>2. IInv /\ MatchedInOrder /\ [Next]_vars => MatchedInOrder'
  BY NextMatched DEF IInv
<1> QED
  BY <1>1, <1>2, Inductive, PTL DEF Spec

-----------------------------------------------------------------------------
(* Locks.                                                                   *)

\* The lines of all locks, as FifoLock sees them.
Lines == [l \in Locks |-> Line(l)]

\* A step that leaves the owner and the waiting threads of every lock alone.
LEMMA SameLines ==
    ASSUME \A l \in Locks : lockedBy'[l] = lockedBy[l]
                               /\ waitingThreads'[l] = waitingThreads[l]
    PROVE  UNCHANGED Lines
BY DEF Lines, Line

\* A thread that asks for a lock goes to the end of its line.
LEMMA AcquireArrives ==
    ASSUME SchedulerTypeOK, LockTypeOK, FreeLockHasNoWaiters,
           NEW t \in Threads, NEW l \in Locks, Acquire(t, l)
    PROVE  Lines' = [Lines EXCEPT ![l] = Append(@, t)]
<1> DEFINE w == waitingThreads[l]
<1>1. w \in Seq(Threads) /\ t # NIL
  BY Constants DEF SchedulerTypeOK
<1>2. SUFFICES /\ Line(l)' = Append(Line(l), t)
               /\ \A c \in Locks : c # l => Line(c)' = Line(c)
  BY DEF Lines
<1>3. CASE lockedBy[l] = NIL
  <2>1. lockedBy' = [lockedBy EXCEPT ![l] = t] /\ UNCHANGED waitingThreads
    BY <1>3 DEF Acquire, queueVars
  <2>2. w = <<>>
    BY <1>3 DEF FreeLockHasNoWaiters
  <2>3. lockedBy'[l] = t /\ waitingThreads'[l] = <<>>
    BY <2>1, <2>2 DEF LockTypeOK
  <2>4. \A c \in Locks : c # l => Line(c)' = Line(c)
    BY <2>1 DEF Line, LockTypeOK
  <2>5. Line(l)' = <<t>> \o <<>> /\ Line(l) = <<>>
    BY <1>1, <1>3, <2>3 DEF Line
  <2> QED
    BY <2>4, <2>5
<1>4. CASE lockedBy[l] # NIL
  <2>1. UNCHANGED lockedBy /\ BlockThread(t, l)
    BY <1>4 DEF Acquire
  <2>2. waitingThreads' = [waitingThreads EXCEPT ![l] = Append(@, t)]
    BY <2>1, Constants DEF BlockThread
  <2>3. waitingThreads'[l] = Append(w, t)
    BY <2>2, Constants DEF SchedulerTypeOK
  <2>4. \A c \in Locks : c # l => Line(c)' = Line(c)
    BY <2>1, <2>2, Constants DEF Line, SchedulerTypeOK
  <2>5. /\ Line(l)' = <<lockedBy[l]>> \o Append(w, t)
        /\ Line(l) = <<lockedBy[l]>> \o w
    BY <1>4, <2>1, <2>3 DEF Line
  <2>6. lockedBy[l] \in Threads
    BY <1>4 DEF LockTypeOK
  <2> DEFINE o == <<lockedBy[l]>>
  <2>7. o \in Seq(Threads)
    BY <2>6
  <2> HIDE DEF o, w
  <2>8. o \o Append(w, t) = Append(o \o w, t)
    BY <1>1, <2>7
  <2> QED
    BY <2>4, <2>5, <2>8 DEF o
<1> QED
  BY <1>3, <1>4

\* A release of a lock that is held serves the next thread of its line; one of a lock
\* that is free changes nothing.
LEMMA ReleaseLeaves ==
    ASSUME SchedulerTypeOK, LockTypeOK, FreeLockHasNoWaiters,
           NEW t \in Threads, NEW l \in Locks, Release(t, l)
    PROVE  \/ UNCHANGED Lines
           \/ Lines[l] # <<>> /\ Lines' = [Lines EXCEPT ![l] = Tail(@)]
<1> DEFINE w == waitingThreads[l]
<1>1. w \in Seq(Threads)
  BY Constants DEF SchedulerTypeOK
<1>2. CASE lockedBy[l] = NIL
  <2>1. w = <<>>
    BY <1>2 DEF FreeLockHasNoWaiters
  <2>2. lockedBy' = [lockedBy EXCEPT ![l] = NIL] /\ UNCHANGED waitingThreads
    BY <2>1 DEF Release, Releasing, SetFree, queueVars
  <2>3. \A c \in Locks : lockedBy'[c] = lockedBy[c] /\ waitingThreads'[c] = waitingThreads[c]
    BY <1>2, <2>2 DEF LockTypeOK
  <2> QED
    BY <2>3, SameLines
<1>3. CASE lockedBy[l] # NIL
  <2> DEFINE o == lockedBy[l]
  <2>1. o \in Threads /\ Line(l) = <<o>> \o w
    BY <1>3 DEF LockTypeOK, Line
  <2>2. <<o>> \o w # <<>> /\ Tail(<<o>> \o w) = w
    BY <1>1, <2>1
  <2>3. SUFFICES /\ Line(l)' = w
                 /\ \A c \in Locks : c # l => Line(c)' = Line(c)
    BY <2>1, <2>2 DEF Lines
  <2>4. CASE w = <<>>
    <3>1. lockedBy' = [lockedBy EXCEPT ![l] = NIL] /\ UNCHANGED waitingThreads
      BY <2>4 DEF Release, Releasing, SetFree, queueVars
    <3> QED
      BY <2>4, <3>1 DEF Line, LockTypeOK
  <2>5. CASE w # <<>>
    <3>1. /\ lockedBy' = [lockedBy EXCEPT ![l] = Head(w)]
          /\ waitingThreads' = [waitingThreads EXCEPT ![l] = Tail(@)]
      BY <2>5 DEF Release, Releasing, HandOver
    <3>2. Head(w) \in Threads /\ <<Head(w)>> \o Tail(w) = w
      BY <1>1, <2>5
    <3>3. lockedBy'[l] = Head(w) /\ waitingThreads'[l] = Tail(w)
      BY <3>1, Constants DEF LockTypeOK, SchedulerTypeOK
    <3>4. \A c \in Locks : c # l => Line(c)' = Line(c)
      BY <3>1, Constants DEF Line, LockTypeOK, SchedulerTypeOK
    <3>5. Head(w) # NIL
      BY <3>2, Constants
    <3>6. Line(l)' = <<Head(w)>> \o Tail(w)
      BY <3>3, <3>5 DEF Line
    <3> QED
      BY <3>2, <3>4, <3>6
  <2> QED
    BY <2>4, <2>5
<1> QED
  BY <1>2, <1>3

\* Every step of the interpreter is a step of FifoLock, or changes no line.
LEMMA NextServes ==
    ASSUME TypeOK, ControlOK, FreeLockHasNoWaiters, [Next]_vars
    PROVE  [Served!Next]_Lines
<1>1. SchedulerTypeOK /\ LockTypeOK
  BY DEF TypeOK
<1>2. ASSUME UNCHANGED lockVars, \A l \in Locks : waitingThreads'[l] = waitingThreads[l]
      PROVE  UNCHANGED Lines
  BY <1>2, SameLines DEF lockVars
<1>3. CASE \/ SliceStep /\ UNCHANGED <<lockVars, msgqVars>>
           \/ (\E t \in Threads : TaskStep(t)) /\ UNCHANGED <<lockVars, msgqVars>>
           \/ (ReplEval \/ ReplPrint \/ ReplQuit) /\ UNCHANGED <<lockVars, msgqVars>>
  BY <1>1, <1>2, <1>3, OthersKeepWaiters
<1>4. CASE \E t \in Threads : MsgQStep(t) /\ UNCHANGED lockVars
  BY <1>1, <1>2, <1>4, PrimitivesKeepWaiters
<1>5. CASE UNCHANGED vars
  BY <1>2, <1>5 DEF vars, schedulerVars, queueVars
<1>6. ASSUME NEW t \in Threads, NEW l \in Locks, Acquire(t, l)
      PROVE  Served!Next
  <2>1. Served!Arrive(t, l)
    BY <1>1, <1>6, AcquireArrives DEF Served!Arrive, Lines
  <2> QED
    BY <2>1 DEF Served!Next
<1>7. ASSUME NEW t \in Threads, NEW l \in Locks, Release(t, l)
      PROVE  [Served!Next]_Lines
  <2>1. CASE Lines[l] # <<>> /\ Lines' = [Lines EXCEPT ![l] = Tail(@)]
    <3>1. Served!Leave(l)
      BY <2>1 DEF Served!Leave, Lines
    <3> QED
      BY <3>1 DEF Served!Next
  <2> QED
    BY <1>1, <1>7, <2>1, ReleaseLeaves
<1> QED
  BY <1>3, <1>4, <1>5, <1>6, <1>7, StepForms

\* Locks serve the calls of lock:acquire in the order in which they are made
\* (lock_acquire, lock_release), for any number of threads and locks, whoever releases
\* a lock and whatever goes astray: the interpreter implements FifoLock.
THEOREM LocksServeInOrder == Spec => LocksAreFair
<1>1. Init => Served!Init
  BY DEF Init, LockInit, Served!Init, Line
<1>2. IInv /\ [Next]_vars => [Served!Next]_[l \in Locks |-> Line(l)]
  BY NextServes DEF IInv, Lines
<1> QED
  BY <1>1, <1>2, Inductive, PTL DEF Spec, LocksAreFair, Served!Spec

\* A thread that waits for a lock or for a message is in the queue from which it is woken
\* (lock_acquire, msgq_wait), in every run: nothing that nondet, an uncaught exception or the
\* REPL does to the threads takes it out and leaves it blocked (nondet.c:66 and 89, repl.c:223).
THEOREM SleepersAreReached == Spec => []SleeperIsQueued
<1>1. IInv => SleeperIsQueued
  BY DEF IInv
<1> QED
  BY <1>1, Inductive, PTL

-----------------------------------------------------------------------------
(* Results: cobegin.  First, what the operations do to the frames of a      *)
(* thread.                                                                  *)

\* A step of a thread whose top frame is an expression.
InCode(s) == s # <<>> /\ Head(s).kind = "code"

\* Nothing to do is a good stack.
LEMMA EmptyStack == StackOK(<<>>)
BY DEF StackOK

\* A frame goes on top of an expression.
LEMMA PushStack ==
    ASSUME NEW s \in Seq(Frame), StackOK(s), NEW f \in Frame,
           s = <<>> => f.kind = "code", s # <<>> => Head(s).kind = "code"
    PROVE  /\ StackOK(<<f>> \o s)
           /\ <<f>> \o s # <<>> /\ Head(<<f>> \o s) = f
<1> DEFINE a == <<f>> \o s
<1>1. /\ Len(a) = Len(s) + 1 /\ DOMAIN a = 1 .. Len(s) + 1 /\ Len(s) \in Nat
      /\ a[1] = f /\ \A i \in 2 .. Len(s) + 1 : a[i] = s[i - 1]
      /\ a # <<>> /\ Head(a) = f
  OBVIOUS
<1> HIDE DEF a
<1>2. ASSUME NEW i \in DOMAIN a, a[i].kind # "code" PROVE i = 1 /\ Len(a) > 1
  <2>1. CASE i = 1
    BY <1>1, <1>2, <2>1
  <2>2. CASE i # 1
    <3>1. i - 1 \in DOMAIN s /\ a[i] = s[i - 1]
      BY <1>1, <2>2
    <3>2. i - 1 = 1 /\ s[1] = Head(s) /\ s # <<>>
      BY <1>2, <3>1 DEF StackOK
    <3> QED
      BY <1>2, <3>1, <3>2
  <2> QED
    BY <2>1, <2>2
<1> QED
  BY <1>1, <1>2 DEF StackOK, a

\* The top frame is done; below a continuation there is an expression.
LEMMA PopStack ==
    ASSUME NEW s \in Seq(Frame), StackOK(s), s # <<>>
    PROVE  /\ StackOK(Tail(s)) /\ Tail(s) \in Seq(Frame)
           /\ Tail(s) # <<>> => Head(Tail(s)).kind = "code"
           /\ Head(s).kind # "code" => Tail(s) # <<>>
<1> DEFINE a == Tail(s)
<1>1. /\ Len(s) \in Nat \ {0} /\ a \in Seq(Frame)
      /\ Len(a) = Len(s) - 1 /\ DOMAIN a = 1 .. Len(s) - 1
      /\ Head(s) = s[1]
      /\ \A i \in 1 .. Len(s) - 1 : a[i] = s[i + 1] /\ i + 1 \in DOMAIN s /\ i + 1 # 1
      /\ a # <<>> => Head(a) = a[1] /\ 1 \in 1 .. Len(s) - 1
      /\ Len(s) > 1 => a # <<>>
      /\ 1 \in DOMAIN s
  OBVIOUS
<1> HIDE DEF a
<1>2. ASSUME NEW i \in DOMAIN a PROVE a[i].kind = "code"
  <2>1. i + 1 \in DOMAIN s /\ i + 1 # 1 /\ a[i] = s[i + 1]
    BY <1>1
  <2> QED
    BY <2>1 DEF StackOK
<1>3. StackOK(a)
  BY <1>2 DEF StackOK
<1>4. a # <<>> => Head(a).kind = "code"
  BY <1>1, <1>2
<1>5. s[1].kind # "code" => Len(s) > 1
  <2>1. 1 \in DOMAIN s
    BY <1>1
  <2> QED
    BY <2>1 DEF StackOK
<1> QED
  BY <1>1, <1>3, <1>4, <1>5 DEF a

\* The frames above an expression are popped.
LEMMA CutStack ==
    ASSUME NEW s \in Seq(Frame), StackOK(s), InCode(s),
           NEW n \in DOMAIN s, s[n].kind = "code"
    PROVE  LET a == SubSeq(s, n, Len(s)) IN StackOK(a) /\ InCode(a)
<1> DEFINE a == SubSeq(s, n, Len(s))
<1>1. /\ Len(s) \in Nat /\ n \in 1 .. Len(s)
      /\ DOMAIN a = 1 .. Len(s) - n + 1
      /\ \A i \in 1 .. Len(s) - n + 1 : a[i] = s[i + n - 1] /\ i + n - 1 \in DOMAIN s
      /\ a # <<>> /\ Head(a) = a[1]
      /\ s[1].kind = "code"
  BY DEF InCode
<1>2. \A i \in DOMAIN s : s[i].kind = "code"
  BY <1>1 DEF StackOK
<1> HIDE DEF a
<1>3. \A i \in DOMAIN a : a[i].kind = "code"
  BY <1>1, <1>2
<1>4. 1 \in DOMAIN a
  BY <1>1
<1> QED
  BY <1>1, <1>3, <1>4 DEF StackOK, InCode, a

-----------------------------------------------------------------------------
(* Next, the steps that start no cobegin and take no result of one.         *)

\* Who is woken, and who is not: the facts of StepWakes.
Wakes == WokenFrom(TerminatedThreads \cup Locks \cup MsgQs) /\ TerminatedStay

\* Frames and results: no thread enters a cobegin or a loses a result to take, and none
\* is blocked while it is in a cobegin.
KeepsResults ==
    /\ nThreads' >= nThreads
    /\ \A u \in Threads :
          /\ InCobegin(u)' => /\ estack'[u] = estack[u]
                              /\ status'[u] = "Blocked" =>
                                    /\ status[u] = "Blocked"
                                    /\ blockingObject'[u] = blockingObject[u]
          /\ u # Main => \/ estack'[u] # <<>>
                         \/ estack[u] = <<>> /\ hasValue'[u] = hasValue[u]
                         \/ hasValue'[u]

\* What is known of a thread in a cobegin.
LEMMA CobeginTypes ==
    ASSUME SchedulerTypeOK, ControlOK, NEW t \in Threads, InCobegin(t)
    PROVE  /\ Kids(t) \in Seq(Threads)
           /\ Index(t) \in Nat /\ Index(t) \in 1 .. Len(Kids(t))
           /\ \A i \in 1 .. Index(t) : i \in DOMAIN Kids(t) /\ Kids(t)[i] \in Threads
           /\ Index(t) \in 1 .. Index(t)
<1>1. estack[t] \in Seq(Frame) /\ FramesOK(estack[t]) /\ estack[t] # <<>>
  BY DEF SchedulerTypeOK, ControlOK, InCobegin
<1> DEFINE f == Head(estack[t])
<1>2. f \in Frame /\ 1 \in DOMAIN estack[t] /\ estack[t][1] = f
  BY <1>1
<1>3. f.kids \in Seq(Threads) /\ f.index \in 1 .. Len(f.kids)
  BY <1>1, <1>2 DEF Frame, FramesOK, InCobegin
<1> HIDE DEF f
<1>4. /\ f.index \in Nat
      /\ \A i \in 1 .. f.index : i \in DOMAIN f.kids /\ f.kids[i] \in Threads
      /\ f.index \in 1 .. f.index
  BY <1>3
<1> QED
  BY <1>3, <1>4 DEF f, Kids, Index

\* Who is allocated stays so when others are.
LEMMA LongerInterval ==
    \A m, k \in Nat : k >= m => \A i \in 0 .. m - 1 : i \in 0 .. k - 1
OBVIOUS

\* Such a step keeps the invariant of cobegins.
LEMMA CobeginsStay ==
    ASSUME SchedulerTypeOK, ControlOK, nThreads' \in Nat, CobeginsOK, Wakes, KeepsResults
    PROVE  CobeginsOK'
<1> SUFFICES ASSUME NEW t \in Threads, InCobegin(t)'
             PROVE  /\ ResultsOK(t)' /\ AwaitsLast(t)'
                    /\ \A u \in Threads : u # t /\ InCobegin(u)' => Apart(t, u)'
  BY DEF CobeginsOK
<1>1. \A u \in Threads : InCobegin(u)' =>
         InCobegin(u) /\ Kids(u)' = Kids(u) /\ Index(u)' = Index(u)
  BY DEF KeepsResults, InCobegin, Kids, Index
<1>2. /\ Kids(t) \in Seq(Threads)
      /\ \A i \in 1 .. Index(t) : Kids(t)[i] \in Threads
      /\ Index(t) \in 1 .. Index(t)
  BY <1>1, CobeginTypes
<1>3. ResultsOK(t)'
  <2>1. ResultsOK(t)
    BY <1>1 DEF CobeginsOK
  <2>2. ASSUME NEW i \in 1 .. Index(t)
        PROVE  /\ Kids(t)[i] \in Allocated' \ {Main}
               /\ estack'[Kids(t)[i]] = <<>> => hasValue'[Kids(t)[i]]
    <3> DEFINE c == Kids(t)[i]
    <3>1. c \in Allocated \ {Main} /\ (estack[c] = <<>> => hasValue[c]) /\ c \in Threads
      BY <1>2, <2>1 DEF ResultsOK
    <3> HIDE DEF c
    <3>2. c \in Allocated'
      <4>1. nThreads \in Nat /\ nThreads' \in Nat /\ nThreads' >= nThreads
        BY MaxThreadsAssumption DEF KeepsResults, SchedulerTypeOK
      <4>2. \A n \in Allocated : n \in Allocated'
        BY <4>1, LongerInterval DEF Allocated
      <4> QED
        BY <3>1, <4>2
    <3>3. estack'[c] = <<>> => hasValue'[c]
      BY <3>1 DEF KeepsResults
    <3> QED
      BY <3>1, <3>2, <3>3 DEF c
  <2> QED
    BY <1>1, <2>1, <2>2 DEF ResultsOK
<1>4. AwaitsLast(t)'
  <2> DEFINE c == Kids(t)[Index(t)]
  <2>1. c \in Threads /\ c # Main
    BY <1>1, <1>2 DEF CobeginsOK, ResultsOK
  <2>2. IF status[t] = "Blocked" THEN blockingObject[t] = c ELSE status[c] = "Terminated"
    BY <1>1 DEF CobeginsOK, AwaitsLast
  <2>3. status[c] = "Terminated" => status'[c] = "Terminated"
    BY <2>1 DEF Wakes, TerminatedStay
  <2> HIDE DEF c
  <2>4. IF status'[t] = "Blocked" THEN blockingObject'[t] = c ELSE status'[c] = "Terminated"
    <3>1. CASE status[t] # "Blocked"
      BY <2>2, <2>3, <3>1 DEF KeepsResults
    <3>2. CASE status[t] = "Blocked" /\ status'[t] = "Blocked"
      BY <2>2, <3>2 DEF KeepsResults
    <3>3. CASE status[t] = "Blocked" /\ status'[t] # "Blocked"
      <4>1. c \in TerminatedThreads \cup Locks \cup MsgQs
        BY <2>2, <3>3 DEF Wakes, WokenFrom
      <4>2. status[c] = "Terminated"
        BY <2>1, <4>1, Constants DEF TerminatedThreads
      <4> QED
        BY <2>3, <3>3, <4>2
    <3> QED
      BY <3>1, <3>2, <3>3
  <2> QED
    BY <1>1, <2>4 DEF AwaitsLast, c
<1>5. \A u \in Threads : u # t /\ InCobegin(u)' => Apart(t, u)'
  BY <1>1 DEF CobeginsOK, Apart
<1> QED
  BY <1>3, <1>4, <1>5

\* The thread u does nothing to cobegins in this step.
Quiet(u) ==
    /\ StackOK(estack'[u])
    /\ status'[u] \in {"Dormant", "Terminated"} => estack'[u] = <<>>
    /\ InCobegin(u)' => /\ estack'[u] = estack[u]
                        /\ status'[u] = "Blocked" =>
                              /\ status[u] = "Blocked"
                              /\ blockingObject'[u] = blockingObject[u]
    /\ u # Main => \/ estack'[u] # <<>>
                   \/ estack[u] = <<>> /\ hasValue'[u] = hasValue[u]
                   \/ hasValue'[u]

\* A step in which all threads are quiet.
LEMMA QuietStep ==
    ASSUME nThreads' >= nThreads, \A u \in Threads : Quiet(u)
    PROVE  StacksOK' /\ KeepsResults
BY DEF Quiet, StacksOK, KeepsResults

\* A thread whose frames stay the same; only an expression may block it.
LEMMA SameFramesQuiet ==
    ASSUME StacksOK, NEW u \in Threads, estack'[u] = estack[u],
           \/ status'[u] \in {status[u], "Running"}
           \/ status'[u] = "Blocked" /\ InCode(estack[u]),
           status'[u] = "Blocked" /\ ~InCode(estack[u]) =>
              blockingObject'[u] = blockingObject[u],
           hasValue'[u] = hasValue[u] \/ hasValue'[u] \/ u = Main \/ InCode(estack[u])
    PROVE  Quiet(u)
<1>1. InCode(estack[u]) => estack'[u] # <<>> /\ ~InCobegin(u)'
  BY DEF InCode, InCobegin
<1>2. StackOK(estack'[u])
  BY DEF StacksOK
<1>3. status'[u] \in {"Dormant", "Terminated"} => estack'[u] = <<>>
  BY DEF StacksOK
<1> QED
  BY <1>1, <1>2, <1>3 DEF Quiet

\* A thread that comes to another expression, or to the end with a value.
LEMMA NewFramesQuiet ==
    ASSUME NEW u \in Threads, StackOK(estack'[u]),
           InCode(estack'[u]) \/ (estack'[u] = <<>> /\ hasValue'[u]),
           status'[u] \in {"Running", "Blocked"}
    PROVE  Quiet(u)
<1>1. ~InCobegin(u)'
  BY DEF InCode, InCobegin
<1>2. estack'[u] # <<>> \/ hasValue'[u]
  BY DEF InCode
<1> QED
  BY <1>1, <1>2 DEF Quiet

\* A step of thread t within an expression, which may wake others.
LEMMA CodeStepQuiet ==
    ASSUME StacksOK, NEW t \in Threads, InCode(estack[t]), UNCHANGED estack,
           status'[t] \in {"Running", "Blocked"},
           \A u \in Threads : u # t =>
              /\ hasValue'[u] = hasValue[u] \/ hasValue'[u]
              /\ status'[u] \in {status[u], "Running"}
              /\ status'[u] = "Blocked" => blockingObject'[u] = blockingObject[u]
    PROVE  \A u \in Threads : Quiet(u)
<1> SUFFICES ASSUME NEW u \in Threads PROVE Quiet(u)
  OBVIOUS
<1>1. CASE u = t
  BY <1>1, NewFramesQuiet DEF StacksOK
<1>2. CASE u # t
  BY <1>2, SameFramesQuiet
<1> QED
  BY <1>1, <1>2

\* The slice machinery does nothing to cobegins.
LEMMA SliceStepQuiet ==
    ASSUME SchedulerTypeOK, ControlOK, SlicesOK, StacksOK, SliceStep
    PROVE  StacksOK' /\ KeepsResults
<1>1. UNCHANGED <<estack, hasValue, nThreads>> /\ nThreads' >= nThreads
  <2>1. UNCHANGED <<estack, hasValue, nThreads>>
    BY DEF SliceStep, BeginSlice, WakeNext, WakeDone, KillNext, EndSlice, EndSliceOf,
           workVars, allocVars
  <2> QED
    BY <2>1, MaxThreadsAssumption DEF SchedulerTypeOK
<1>2. ASSUME NEW w \in Threads, status' = [status EXCEPT ![w] = "Running"],
             \/ UNCHANGED blockingObject
             \/ blockingObject' = [blockingObject EXCEPT ![w] = NIL]
      PROVE  \A u \in Threads : Quiet(u)
  <2> SUFFICES ASSUME NEW u \in Threads PROVE Quiet(u)
    OBVIOUS
  <2>1. /\ status'[u] \in {status[u], "Running"}
        /\ status'[u] = "Blocked" => blockingObject'[u] = blockingObject[u]
    BY <1>2 DEF SchedulerTypeOK
  <2> QED
    BY <1>1, <2>1, SameFramesQuiet
<1>3. CASE BeginSlice
  <2>1. Head(running) \in Threads
    BY <1>3 DEF BeginSlice, SchedulerTypeOK
  <2> DEFINE w == Head(running)
  <2>2. /\ w \in Threads /\ status' = [status EXCEPT ![w] = "Running"]
        /\ UNCHANGED blockingObject
    BY <1>3, <2>1 DEF BeginSlice
  <2> HIDE DEF w
  <2>3. \A u \in Threads : Quiet(u)
    BY <1>2, <2>2
  <2> QED
    BY <1>1, <2>3, QuietStep
<1>4. CASE WakeNext
  <2> DEFINE w == Head(waitingThreads[waking.thread])
  <2>1. waking.thread \in Threads /\ waitingThreads[waking.thread] # <<>>
    BY <1>4 DEF WakeNext, ControlOK, SchedulerTypeOK
  <2>2. w \in Threads
    BY <2>1, DequeueType, Constants DEF SchedulerTypeOK
  <2>3. UnblockThread(w)
    BY <1>4 DEF WakeNext
  <2> HIDE DEF w
  <2>4. \A u \in Threads : Quiet(u)
    BY <1>2, <2>2, <2>3 DEF UnblockThread, AddThread
  <2> QED
    BY <1>1, <2>4, QuietStep
<1>5. ~KillNext
  BY DEF KillNext, SlicesOK
<1>6. CASE WakeDone \/ EndSlice
  <2>1. UNCHANGED <<status, blockingObject>>
    BY <1>6 DEF WakeDone, EndSlice, EndSliceOf, queueVars
  <2>2. \A u \in Threads : Quiet(u)
    BY <1>1, <2>1, SameFramesQuiet
  <2> QED
    BY <1>1, <2>2, QuietStep
<1> QED
  BY <1>3, <1>4, <1>5, <1>6 DEF SliceStep

\* A thread that performs an operation is at an expression.
LEMMA ActsInCode ==
    ASSUME NEW t \in Threads
    PROVE  /\ Evaluates(t, "code") => InCode(estack[t]) /\ status[t] = "Running"
           /\ \A op : Performs(t, op) => InCode(estack[t]) /\ status[t] = "Running"
           /\ Longjmp(t) => InCode(estack[t]) /\ status[t] = "Running"
BY DEF Performs, EvalStep, Evaluates, Longjmp, MayStep, InCode

\* Neither do the steps of a thread, with the exception of cobegin and of its
\* continuation.  nondet is where threads go astray.
LEMMA TaskStepQuiet ==
    ASSUME SchedulerTypeOK, SlicesOK, StacksOK, NEW t \in Threads, TaskStep(t), ~stray',
           ~Cobegin(t), ~CobeginContinue(t)
    PROVE  StacksOK' /\ KeepsResults
<1>0. nThreads \in Nat /\ \A u \in Threads : estack[u] \in Seq(Frame)
  BY MaxThreadsAssumption DEF SchedulerTypeOK
<1>1. CASE FinishThread(t)
  <2>1. /\ UNCHANGED <<estack, hasValue, nThreads, blockingObject>> /\ estack[t] = <<>>
        /\ \A u \in Threads : u # t => status'[u] = status[u]
    BY <1>1 DEF FinishThread, TerminateThread, workVars, allocVars, SchedulerTypeOK
  <2>2. Quiet(t)
    BY <2>1, EmptyStack DEF Quiet, InCobegin
  <2>3. \A u \in Threads : u # t => Quiet(u)
    BY <2>1, SameFramesQuiet
  <2> QED
    BY <1>0, <2>1, <2>2, <2>3, QuietStep
<1>2. CASE Async(t)
  <2>1. PICK k \in 1 .. MaxKids :
           /\ SpawnKids(t, k, estack[t])
           /\ status' = [u \in Threads |-> IF u \in nThreads .. nThreads + k - 1
                                           THEN "Running" ELSE status[u]]
    BY <1>2 DEF Async
  <2>2. UNCHANGED <<blockingObject, hasValue>>
    BY <1>2 DEF Async
  <2>3. k \in Nat /\ nThreads' = nThreads + k
    BY <2>1, MaxKidsAssumption DEF SpawnKids
  <2>4. ASSUME NEW u \in Threads, u \in nThreads .. nThreads + k - 1 PROVE Quiet(u)
    <3>1. estack'[u] = <<Code>> /\ status'[u] = "Running"
      BY <2>1, <2>4 DEF SpawnKids
    <3> QED
      BY <3>1, NewFramesQuiet DEF StackOK, InCode, Code
  <2>5. ASSUME NEW u \in Threads, u \notin nThreads .. nThreads + k - 1 PROVE Quiet(u)
    <3>1. estack'[u] = estack[u] /\ status'[u] = status[u]
      BY <2>1, <2>5 DEF SpawnKids
    <3> QED
      BY <2>2, <3>1, SameFramesQuiet
  <2>6. nThreads' >= nThreads
    BY <1>0, <2>3
  <2> QED
    BY <2>4, <2>5, <2>6, QuietStep
<1>3. CASE Join(t)
  <2>1. InCode(estack[t]) /\ status[t] = "Running"
    BY <1>3, ActsInCode DEF Join
  <2>2. PICK c \in Allocated : BlockThread(t, c)
    BY <1>3 DEF Join
  <2>3. /\ UNCHANGED <<estack, nThreads>>
        /\ hasValue' = [hasValue EXCEPT ![t] = TRUE]
    BY <1>3 DEF Join, allocVars
  <2>4. /\ status'[t] \in {"Running", "Blocked"}
        /\ \A u \in Threads : u # t =>
              /\ status'[u] = status[u] /\ blockingObject'[u] = blockingObject[u]
              /\ hasValue'[u] = hasValue[u]
    BY <2>1, <2>2, <2>3 DEF BlockThread, SchedulerTypeOK
  <2>5. \A u \in Threads : Quiet(u)
    BY <2>1, <2>3, <2>4, CodeStepQuiet
  <2> QED
    BY <1>0, <2>3, <2>5, QuietStep
<1>4. ~Nondet(t)
  BY DEF Nondet
<1>5. ~NondetContinue(t)
  <2>1. SUFFICES ASSUME NondetContinue(t) PROVE FALSE
    OBVIOUS
  <2>2. estack[t] \in Seq(CalmFrame) /\ estack[t] # <<>> /\ Head(estack[t]).kind = "nondet"
    BY <2>1 DEF NondetContinue, Evaluates, SlicesOK
  <2>3. Head(estack[t]) \in CalmFrame
    BY <2>2
  <2> QED
    BY <2>2, <2>3 DEF CalmFrame
<1>6. CASE Compute(t) \/ Yield(t)
  <2>1. UNCHANGED <<status, blockingObject, estack, hasValue, nThreads>>
    BY <1>6 DEF Compute, Yield, queueVars, workVars, allocVars
  <2>2. \A u \in Threads : Quiet(u)
    BY <2>1, SameFramesQuiet
  <2> QED
    BY <1>0, <2>1, <2>2, QuietStep
\* The remaining steps change the frames of t, and of no other.
<1>7. ASSUME InCode(estack[t]), status[t] = "Running",
             UNCHANGED <<status, nThreads>>,
             NEW frames, estack' = [estack EXCEPT ![t] = frames],
             StackOK(frames), InCode(frames) \/ (frames = <<>> /\ hasValue'[t]),
             \A u \in Threads : u # t => /\ hasValue'[u] = hasValue[u]
                                         /\ blockingObject'[u] = blockingObject[u]
      PROVE  StacksOK' /\ KeepsResults
  <2>1. estack'[t] = frames /\ \A u \in Threads : u # t => estack'[u] = estack[u]
    BY <1>7 DEF SchedulerTypeOK
  <2>2. Quiet(t)
    BY <1>7, <2>1, NewFramesQuiet
  <2>3. \A u \in Threads : u # t => Quiet(u)
    BY <1>7, <2>1, SameFramesQuiet
  <2> QED
    BY <1>0, <1>7, <2>2, <2>3, QuietStep
<1>8. CASE Return(t)
  <2>1. /\ InCode(estack[t]) /\ status[t] = "Running"
        /\ UNCHANGED <<status, blockingObject, nThreads>>
        /\ estack' = [estack EXCEPT ![t] = Tail(estack[t])]
        /\ hasValue' = [hasValue EXCEPT ![t] = TRUE]
    BY <1>8, ActsInCode DEF Return, EvalStep, queueVars, allocVars
  <2> DEFINE frames == Tail(estack[t])
  <2>2. StackOK(frames) /\ (InCode(frames) \/ frames = <<>>)
    BY <1>0, <2>1, PopStack DEF StacksOK, InCode
  <2>3. hasValue'[t] /\ \A u \in Threads : u # t => hasValue'[u] = hasValue[u]
    BY <2>1 DEF SchedulerTypeOK
  <2> HIDE DEF frames
  <2>4. estack' = [estack EXCEPT ![t] = frames]
    BY <2>1 DEF frames
  <2> QED
    BY <1>7, <2>1, <2>2, <2>3, <2>4
<1>9. CASE Catch(t)
  <2>1. /\ InCode(estack[t]) /\ status[t] = "Running"
        /\ UNCHANGED <<status, blockingObject, nThreads, hasValue>>
    BY <1>9, ActsInCode DEF Catch, queueVars, allocVars
  <2>2. PICK i \in DOMAIN estack[t] :
           /\ estack[t][i].kind = "code"
           /\ estack' = [estack EXCEPT ![t] = SubSeq(estack[t], i, Len(estack[t]))]
    BY <1>9 DEF Catch
  <2> DEFINE frames == SubSeq(estack[t], i, Len(estack[t]))
  <2>3. StackOK(frames) /\ InCode(frames)
    BY <1>0, <2>1, <2>2, CutStack DEF StacksOK
  <2> HIDE DEF frames
  <2>4. estack' = [estack EXCEPT ![t] = frames]
    BY <2>2 DEF frames
  <2> QED
    BY <1>7, <2>1, <2>3, <2>4
<1>10. CASE Throw(t)
  <2>1. /\ InCode(estack[t]) /\ status[t] = "Running"
        /\ UNCHANGED <<status, nThreads>>
        /\ estack' = [estack EXCEPT ![t] = <<>>]
        /\ hasValue' = [hasValue EXCEPT ![t] = TRUE]
        /\ blockingObject' = [blockingObject EXCEPT ![t] = NIL]
    BY <1>10, ActsInCode DEF Throw
  <2>2. /\ hasValue'[t]
        /\ \A u \in Threads : u # t => /\ hasValue'[u] = hasValue[u]
                                       /\ blockingObject'[u] = blockingObject[u]
    BY <2>1 DEF SchedulerTypeOK
  <2> QED
    BY <1>7, <2>1, <2>2, EmptyStack
<1> QED
  BY <1>1, <1>2, <1>3, <1>4, <1>5, <1>6, <1>8, <1>9, <1>10 DEF TaskStep

\* Nor do the primitives of locks.
LEMMA LockStepQuiet ==
    ASSUME SchedulerTypeOK, StacksOK, NEW t \in Threads, NEW l \in Locks,
           Acquire(t, l) \/ Release(t, l)
    PROVE  StacksOK' /\ KeepsResults
<1>0. nThreads \in Nat
  BY MaxThreadsAssumption DEF SchedulerTypeOK
<1>1. InCode(estack[t]) /\ status[t] = "Running"
  BY ActsInCode DEF Acquire, Release, Releasing
<1>2. CASE Acquire(t, l)
  <2>1. /\ UNCHANGED <<estack, nThreads>>
        /\ hasValue' = [hasValue EXCEPT ![t] = TRUE]
    BY <1>2 DEF Acquire, allocVars
  <2>2. UNCHANGED <<status, blockingObject>> \/ BlockThread(t, l)
    BY <1>2 DEF Acquire, queueVars
  <2>3. /\ status'[t] \in {"Running", "Blocked"}
        /\ \A u \in Threads : u # t =>
              /\ status'[u] = status[u] /\ blockingObject'[u] = blockingObject[u]
              /\ hasValue'[u] = hasValue[u]
    BY <1>1, <2>1, <2>2 DEF BlockThread, SchedulerTypeOK
  <2>4. \A u \in Threads : Quiet(u)
    BY <1>1, <2>1, <2>3, CodeStepQuiet
  <2> QED
    BY <1>0, <2>1, <2>4, QuietStep
<1>3. CASE Release(t, l)
  <2>1. UNCHANGED <<estack, hasValue, nThreads>>
    BY <1>3 DEF Release, Releasing, workVars, allocVars
  <2> DEFINE w == Head(waitingThreads[l])
  <2>2. CASE waitingThreads[l] = <<>>
    <3>1. UNCHANGED <<status, blockingObject>>
      BY <1>3, <2>2 DEF Release, SetFree, queueVars
    <3>2. \A u \in Threads : Quiet(u)
      BY <1>1, <2>1, <3>1, CodeStepQuiet
    <3> QED
      BY <1>0, <2>1, <3>2, QuietStep
  <2>3. CASE waitingThreads[l] # <<>>
    <3>1. UnblockThread(w)
      BY <1>3, <2>3 DEF Release, HandOver
    <3>2. w \in Threads
      BY <2>3, DequeueType, Constants
    <3> HIDE DEF w
    <3>3. \A u \in Threads :
             /\ status'[u] \in {status[u], "Running"}
             /\ status'[u] = "Blocked" => blockingObject'[u] = blockingObject[u]
      BY <3>1, <3>2 DEF UnblockThread, AddThread, SchedulerTypeOK
    <3>4. \A u \in Threads : Quiet(u)
      BY <1>1, <2>1, <3>3, CodeStepQuiet
    <3> QED
      BY <1>0, <2>1, <3>4, QuietStep
  <2> QED
    BY <2>2, <2>3
<1> QED
  BY <1>2, <1>3

\* Nor do the primitives of message queues.
LEMMA MsgQStepQuiet ==
    ASSUME SchedulerTypeOK, StacksOK, NEW t \in Threads, MsgQStep(t)
    PROVE  StacksOK' /\ KeepsResults
<1>0. nThreads \in Nat
  BY MaxThreadsAssumption DEF SchedulerTypeOK
<1>1. ASSUME InCode(estack[t]), UNCHANGED <<estack, nThreads>>,
             status'[t] \in {"Running", "Blocked"},
             \A u \in Threads : u # t =>
                /\ hasValue'[u] = hasValue[u] \/ hasValue'[u]
                /\ status'[u] \in {status[u], "Running"}
                /\ status'[u] = "Blocked" => blockingObject'[u] = blockingObject[u]
      PROVE  StacksOK' /\ KeepsResults
  <2>1. \A u \in Threads : Quiet(u)
    BY <1>1, CodeStepQuiet
  <2> QED
    BY <1>0, <1>1, <2>1, QuietStep
<1>2. ASSUME NEW q \in MsgQs, Wait(t, q)
      PROVE  StacksOK' /\ KeepsResults
  <2>1. /\ InCode(estack[t]) /\ status[t] = "Running"
        /\ UNCHANGED <<estack, nThreads>>
    BY <1>2, ActsInCode DEF Wait, allocVars
  <2>2. UNCHANGED <<status, blockingObject>> \/ BlockThread(t, q)
    BY <1>2 DEF Wait, queueVars
  <2>3. \E v : hasValue' = [hasValue EXCEPT ![t] = v]
    BY <1>2 DEF Wait
  <2>4. /\ status'[t] \in {"Running", "Blocked"}
        /\ \A u \in Threads : u # t =>
              /\ status'[u] = status[u] /\ blockingObject'[u] = blockingObject[u]
              /\ hasValue'[u] = hasValue[u]
    BY <2>1, <2>2, <2>3 DEF BlockThread, SchedulerTypeOK
  <2> QED
    BY <1>1, <2>1, <2>4
<1>3. ASSUME NEW q \in MsgQs, NEW m \in Messages, Enq(t, q, m)
      PROVE  StacksOK' /\ KeepsResults
  <2>1. /\ InCode(estack[t]) /\ status[t] = "Running"
        /\ UNCHANGED <<estack, nThreads>>
    BY <1>3, ActsInCode DEF Enq, allocVars
  <2> DEFINE w == Head(waitingThreads[q])
  <2>2. CASE waitingThreads[q] = <<>>
    <3>1. UNCHANGED <<status, blockingObject, hasValue>>
      BY <1>3, <2>2 DEF Enq, queueVars
    <3> QED
      BY <1>1, <2>1, <3>1
  <2>3. CASE waitingThreads[q] # <<>>
    <3>1. UnblockThread(w) /\ hasValue' = [hasValue EXCEPT ![w] = TRUE]
      BY <1>3, <2>3 DEF Enq, Trigger
    <3>2. w \in Threads
      BY <2>3, DequeueType, Constants
    <3> HIDE DEF w
    <3>3. \A u \in Threads :
             /\ status'[u] \in {status[u], "Running"}
             /\ status'[u] = "Blocked" => blockingObject'[u] = blockingObject[u]
      BY <3>1, <3>2 DEF UnblockThread, AddThread, SchedulerTypeOK
    <3>4. \A u \in Threads : hasValue'[u] = hasValue[u] \/ hasValue'[u]
      BY <3>1, <3>2 DEF SchedulerTypeOK
    <3> QED
      BY <1>1, <2>1, <3>3, <3>4
  <2> QED
    BY <2>2, <2>3
<1> QED
  BY <1>2, <1>3 DEF MsgQStep

\* The REPL evaluates an expression only when its evaluator has nothing else to do, or
\* is blocked, and then it goes astray.
LEMMA ReplStepQuiet ==
    ASSUME SchedulerTypeOK, ControlOK, QueuesOK, StacksOK,
           ReplEval \/ ReplPrint \/ ReplQuit, ~stray'
    PROVE  StacksOK' /\ KeepsResults
<1>0. nThreads \in Nat /\ Main \in Threads
  BY MaxThreadsAssumption, Constants DEF SchedulerTypeOK
<1>1. CASE ReplEval
  <2>1. /\ UNCHANGED <<hasValue, nThreads, blockingObject>>
        /\ estack' = [estack EXCEPT ![Main] = <<Code>> \o estack[Main]]
        /\ AddThread(Main) /\ running = <<>> /\ status[Main] # "Blocked"
    BY <1>1 DEF ReplEval, allocVars, ControlOK
  <2>2. status[Main] \in {"Dormant", "Terminated"}
    <3>1. ~Has(running, Main)
      BY <2>1, EmptyQueue
    <3>2. status[Main] # "Running"
      BY <1>0, <3>1 DEF QueuesOK
    <3> QED
      BY <1>0, <2>1, <3>2 DEF SchedulerTypeOK, ThreadStatus
  <2>3. estack[Main] = <<>>
    BY <1>0, <2>2 DEF StacksOK
  <2>4. /\ estack'[Main] = <<Code>> /\ status'[Main] = "Running"
        /\ \A u \in Threads : u # Main => estack'[u] = estack[u] /\ status'[u] = status[u]
    BY <1>0, <2>1, <2>3 DEF AddThread, SchedulerTypeOK
  <2>5. Quiet(Main)
    <3>1. StackOK(<<Code>>) /\ InCode(<<Code>>)
      BY DEF StackOK, InCode, Code
    <3> QED
      BY <1>0, <2>4, <3>1, NewFramesQuiet
  <2>6. \A u \in Threads : u # Main => Quiet(u)
    BY <2>1, <2>4, SameFramesQuiet
  <2> QED
    BY <1>0, <2>1, <2>5, <2>6, QuietStep
<1>2. CASE ReplPrint \/ ReplQuit
  <2>1. UNCHANGED <<estack, status, blockingObject, nThreads>>
    BY <1>2 DEF ReplPrint, ReplQuit, schedulerVars, queueVars, workVars, allocVars
  <2>2. \A u \in Threads : u # Main => hasValue'[u] = hasValue[u]
    BY <1>2 DEF ReplPrint, ReplQuit, schedulerVars, workVars, SchedulerTypeOK
  <2>3. \A u \in Threads : Quiet(u)
    BY <2>1, <2>2, SameFramesQuiet
  <2> QED
    BY <1>0, <2>1, <2>3, QuietStep
<1> QED
  BY <1>1, <1>2

-----------------------------------------------------------------------------
(* Last, cobegin and its continuation.                                      *)

\* cobegin creates the threads whose results it takes; nobody else can take them.
LEMMA CobeginStarts ==
    ASSUME SchedulerTypeOK, ControlOK, SlicesOK, StacksOK, CobeginsOK, Wakes,
           NEW t \in Threads, Cobegin(t)
    PROVE  StacksOK' /\ CobeginsOK'
<1>1. PICK k \in 1 .. MaxKids :
         /\ SpawnKids(t, k, <<CobeginFrame(NewKids(k), k)>> \o estack[t])
         /\ status' = [u \in Threads |->
                         IF u \in nThreads .. nThreads + k - 1 THEN "Running"
                         ELSE IF u = t THEN "Blocked" ELSE status[u]]
         /\ blockingObject' = [blockingObject EXCEPT ![t] = nThreads + k - 1]
  BY DEF Cobegin
<1> DEFINE kids == NewKids(k)
           New(u) == u \in nThreads .. nThreads + k - 1
           f == CobeginFrame(kids, k)
<1>2. /\ InCode(estack[t]) /\ status[t] = "Running"
      /\ hasValue' = [hasValue EXCEPT ![t] = FALSE]
  BY ActsInCode DEF Cobegin
<1>3. /\ k \in Nat /\ k >= 1 /\ nThreads \in Nat /\ nThreads >= 1
      /\ nThreads + k <= MaxThreads /\ nThreads' = nThreads + k
  BY <1>1, MaxKidsAssumption, MaxThreadsAssumption DEF SpawnKids, SchedulerTypeOK
<1>4. /\ kids \in Seq(Threads) /\ Len(kids) = k
      /\ \A i \in 1 .. k : kids[i] = nThreads + i - 1
  <2>1. kids \in Seq(Threads) /\ Len(kids) = k
    BY <1>3, SpawnQueue DEF SchedulerTypeOK
  <2>2. \A i \in 1 .. k : kids[i] = nThreads + i - 1
    BY DEF NewKids
  <2> QED
    BY <2>1, <2>2
<1>5. t < nThreads /\ ~New(t)
  BY <1>2, <1>3, Constants DEF SlicesOK
<1>6. f \in Frame /\ f.kind = "cobegin" /\ f.kids = kids /\ f.index = k
  BY <1>3, <1>4, FrameTypes DEF CobeginFrame
<1>7. /\ \A u \in Threads : New(u) =>
            estack'[u] = <<Code>> /\ status'[u] = "Running"
      /\ \A u \in Threads : ~New(u) /\ u # t =>
            /\ estack'[u] = estack[u] /\ status'[u] = status[u]
            /\ hasValue'[u] = hasValue[u] /\ blockingObject'[u] = blockingObject[u]
      /\ estack'[t] = <<f>> \o estack[t] /\ status'[t] = "Blocked"
      /\ blockingObject'[t] = nThreads + k - 1
  BY <1>1, <1>2, <1>5 DEF SpawnKids, SchedulerTypeOK
<1> HIDE DEF kids, f
<1>8. /\ StackOK(estack'[t]) /\ estack'[t] # <<>>
      /\ InCobegin(t)' /\ Kids(t)' = kids /\ Index(t)' = k
  <2>1. estack[t] \in Seq(Frame) /\ StackOK(estack[t])
    BY DEF SchedulerTypeOK, StacksOK
  <2>2. StackOK(<<f>> \o estack[t]) /\ <<f>> \o estack[t] # <<>> /\ Head(<<f>> \o estack[t]) = f
    BY <1>2, <1>6, <2>1, PushStack DEF InCode
  <2> QED
    BY <1>6, <1>7, <2>2 DEF InCobegin, Kids, Index
<1>9. \A u \in Threads : u # t /\ InCobegin(u)' =>
         ~New(u) /\ InCobegin(u) /\ Kids(u)' = Kids(u) /\ Index(u)' = Index(u)
  BY <1>7 DEF InCobegin, Kids, Index, Code
<1>10. StacksOK'
  <2>1. StackOK(<<Code>>)
    BY DEF StackOK, Code
  <2> QED
    BY <1>7, <1>8, <2>1 DEF StacksOK
\* The threads whose results the others take were there before.
<1>11. ASSUME NEW u \in Threads, InCobegin(u), NEW i \in 1 .. Index(u)
       PROVE  /\ Kids(u)[i] \in Threads \ {Main} /\ ~New(Kids(u)[i])
              /\ Kids(u)[i] \in Allocated'
              /\ estack'[Kids(u)[i]] = <<>> => hasValue'[Kids(u)[i]]
  <2> DEFINE c == Kids(u)[i]
  <2>1. c \in Threads
    BY <1>11, CobeginTypes
  <2>2. c \in 0 .. nThreads - 1 /\ c # Main /\ (estack[c] = <<>> => hasValue[c])
    BY <1>11 DEF CobeginsOK, ResultsOK, Allocated
  <2> HIDE DEF c
  <2>3. ~New(c)
    BY <1>3, <2>2
  <2>4. \A n \in 0 .. nThreads - 1 : n \in 0 .. nThreads + k - 1
    BY <1>3
  <2>5. c \in Allocated'
    BY <1>3, <2>2, <2>4 DEF Allocated
  <2>6. estack'[c] = <<>> => hasValue'[c]
    BY <1>7, <1>8, <2>1, <2>2, <2>3
  <2> QED
    BY <2>1, <2>2, <2>3, <2>5, <2>6 DEF c
<1>12. ResultsOK(t)' /\ AwaitsLast(t)'
  <2>1. \A i, j \in 1 .. k : kids[i] = kids[j] => i = j
    BY <1>3, <1>4
  <2>2. Distinct(kids)
    BY <1>4, <2>1 DEF Distinct
  <2>3. ASSUME NEW i \in 1 .. k
        PROVE  kids[i] \in Allocated' \ {Main} /\ (estack'[kids[i]] = <<>> => hasValue'[kids[i]])
    <3>1. New(kids[i]) /\ kids[i] \in Threads /\ kids[i] # 0
      BY <1>3, <1>4
    <3>2. \A n \in nThreads .. nThreads + k - 1 : n \in 0 .. nThreads + k - 1
      BY <1>3
    <3>3. kids[i] \in Allocated'
      BY <1>3, <3>1, <3>2 DEF Allocated
    <3>4. estack'[kids[i]] # <<>>
      <4> HIDE DEF New
      <4>1. estack'[kids[i]] = <<Code>>
        BY <1>7, <3>1
      <4>2. <<Code>> # <<>>
        OBVIOUS
      <4> QED
        BY <4>1, <4>2
    <3> QED
      BY <3>1, <3>3, <3>4 DEF Main
  <2>4. ResultsOK(t)'
    BY <1>8, <2>2, <2>3 DEF ResultsOK
  <2>5. kids[k] = nThreads + k - 1
    BY <1>3, <1>4
  <2> QED
    BY <1>7, <1>8, <2>4, <2>5 DEF AwaitsLast
<1>13. ASSUME NEW u \in Threads, u # t, InCobegin(u)'
       PROVE  ResultsOK(u)' /\ AwaitsLast(u)' /\ Apart(t, u)' /\ Apart(u, t)'
  <2>1. ~New(u) /\ InCobegin(u) /\ Kids(u)' = Kids(u) /\ Index(u)' = Index(u)
    BY <1>9, <1>13
  <2>2. ResultsOK(u)'
    <3>1. Distinct(Kids(u))
      BY <2>1 DEF CobeginsOK, ResultsOK
    <3> QED
      BY <1>11, <2>1, <3>1 DEF ResultsOK
  <2>3. AwaitsLast(u)'
    <3> DEFINE c == Kids(u)[Index(u)]
    <3>1. c \in Threads \ {Main}
      BY <1>11, <2>1, CobeginTypes
    <3>2. IF status[u] = "Blocked" THEN blockingObject[u] = c ELSE status[c] = "Terminated"
      BY <2>1 DEF CobeginsOK, AwaitsLast
    <3> HIDE DEF c
    <3>3. status[c] = "Terminated" => status'[c] = "Terminated"
      BY <3>1 DEF Wakes, TerminatedStay
    <3>4. IF status'[u] = "Blocked" THEN blockingObject'[u] = c ELSE status'[c] = "Terminated"
      BY <1>7, <1>13, <2>1, <3>2, <3>3
    <3> QED
      BY <2>1, <3>4 DEF AwaitsLast, c
  <2>4. ASSUME NEW i \in 1 .. k, NEW j \in 1 .. Index(u) PROVE kids[i] # Kids(u)[j]
    <3>1. New(kids[i])
      BY <1>3, <1>4
    <3>2. ~New(Kids(u)[j])
      BY <1>11, <2>1
    <3> QED
      BY <3>1, <3>2
  <2> QED
    BY <1>8, <2>1, <2>2, <2>3, <2>4 DEF Apart
<1>14. ASSUME NEW u \in Threads, NEW v \in Threads, u # t, v # t, u # v,
              InCobegin(u)', InCobegin(v)'
       PROVE  Apart(u, v)'
  BY <1>9, <1>14 DEF CobeginsOK, Apart
<1>15. CobeginsOK'
  BY <1>12, <1>13, <1>14 DEF CobeginsOK
<1> QED
  BY <1>10, <1>15

\* The continuation takes one result and waits for the thread before.
LEMMA CobeginTakes ==
    ASSUME SchedulerTypeOK, ControlOK, StacksOK, CobeginsOK, Wakes,
           NEW t \in Threads, CobeginContinue(t)
    PROVE  StacksOK' /\ CobeginsOK'
<1> DEFINE kids == Kids(t)
           n == Index(t)
           rest == Tail(estack[t])
           f == CobeginFrame(kids, n - 1)
<1>1. InCobegin(t) /\ status[t] = "Running"
  BY DEF CobeginContinue, EvalStep, Evaluates, MayStep, InCobegin
<1>2. /\ hasValue' = [hasValue EXCEPT ![kids[n]] = FALSE]
      /\ UNCHANGED nThreads
      /\ \/ /\ n = 1
            /\ estack' = [estack EXCEPT ![t] = rest]
            /\ UNCHANGED <<status, blockingObject>>
         \/ /\ n # 1
            /\ estack' = [estack EXCEPT ![t] = <<f>> \o rest]
            /\ BlockThread(t, kids[n - 1])
  BY DEF CobeginContinue, Kids, Index, allocVars
<1>3. /\ kids \in Seq(Threads) /\ n \in Nat /\ n \in 1 .. Len(kids)
      /\ \A i \in 1 .. n : i \in DOMAIN kids /\ kids[i] \in Threads
  BY <1>1, CobeginTypes
<1>4. rest \in Seq(Frame) /\ StackOK(rest) /\ rest # <<>> /\ Head(rest).kind = "code"
  <2>1. estack[t] \in Seq(Frame) /\ StackOK(estack[t])
    BY DEF SchedulerTypeOK, StacksOK
  <2>2. estack[t] # <<>> /\ Head(estack[t]).kind # "code"
    BY <1>1 DEF InCobegin
  <2> QED
    BY <2>1, <2>2, PopStack
<1>5. ASSUME n # 1
      PROVE  /\ StackOK(<<f>> \o rest) /\ <<f>> \o rest # <<>> /\ Head(<<f>> \o rest) = f
             /\ f.kind = "cobegin" /\ f.kids = kids /\ f.index = n - 1
  <2>1. n - 1 \in Nat
    BY <1>3
  <2>2. f \in Frame /\ f.kind = "cobegin" /\ f.kids = kids /\ f.index = n - 1
    BY <1>3, <2>1, FrameTypes DEF CobeginFrame
  <2> HIDE DEF f, rest
  <2> QED
    BY <1>4, <2>2, PushStack
<1> HIDE DEF kids, n, rest, f
<1>6. /\ \A u \in Threads : u # t =>
            /\ estack'[u] = estack[u] /\ status'[u] = status[u]
            /\ blockingObject'[u] = blockingObject[u]
      /\ estack'[t] # <<>> /\ StackOK(estack'[t])
      /\ status'[t] \in {"Running", "Blocked"}
  BY <1>1, <1>2, <1>4, <1>5 DEF BlockThread, SchedulerTypeOK
<1>7. StacksOK'
  BY <1>6 DEF StacksOK
<1>8. kids[n] \in Threads /\ \A c \in Threads : c # kids[n] => hasValue'[c] = hasValue[c]
  BY <1>2, <1>3 DEF SchedulerTypeOK
\* Other threads in a cobegin.
<1>9. ASSUME NEW u \in Threads, u # t, InCobegin(u)'
      PROVE  /\ InCobegin(u) /\ Kids(u)' = Kids(u) /\ Index(u)' = Index(u)
             /\ ResultsOK(u)' /\ AwaitsLast(u)'
  <2>1. InCobegin(u) /\ Kids(u)' = Kids(u) /\ Index(u)' = Index(u)
    BY <1>6, <1>9 DEF InCobegin, Kids, Index
  <2>2. ASSUME NEW i \in 1 .. Index(u)
        PROVE  /\ Kids(u)[i] \in Allocated' \ {Main}
               /\ estack'[Kids(u)[i]] = <<>> => hasValue'[Kids(u)[i]]
    <3> DEFINE c == Kids(u)[i]
    <3>1. /\ c \in Threads /\ c \in Allocated \ {Main}
          /\ estack[c] = <<>> => hasValue[c]
      BY <2>1, CobeginTypes DEF CobeginsOK, ResultsOK
    <3>2. c # kids[n]
      <4>1. Apart(u, t)
        BY <1>1, <1>9, <2>1 DEF CobeginsOK
      <4>2. n \in 1 .. Index(t)
        BY <1>3 DEF n
      <4> QED
        BY <4>1, <4>2 DEF Apart, kids
    <3> HIDE DEF c
    <3>3. Allocated' = Allocated
      BY <1>2 DEF Allocated
    <3> QED
      BY <1>6, <1>8, <3>1, <3>2, <3>3 DEF c
  <2>3. ResultsOK(u)'
    <3>1. Distinct(Kids(u))
      BY <2>1 DEF CobeginsOK, ResultsOK
    <3> QED
      BY <2>1, <2>2, <3>1 DEF ResultsOK
  <2>4. AwaitsLast(u)'
    <3> DEFINE c == Kids(u)[Index(u)]
    <3>1. c \in Threads \ {Main}
      BY <2>1, CobeginTypes DEF CobeginsOK, ResultsOK
    <3>2. IF status[u] = "Blocked" THEN blockingObject[u] = c ELSE status[c] = "Terminated"
      BY <2>1 DEF CobeginsOK, AwaitsLast
    <3> HIDE DEF c
    <3>3. status[c] = "Terminated" => status'[c] = "Terminated"
      BY <3>1 DEF Wakes, TerminatedStay
    <3>4. IF status'[u] = "Blocked" THEN blockingObject'[u] = c ELSE status'[c] = "Terminated"
      BY <1>6, <1>9, <3>2, <3>3
    <3> QED
      BY <2>1, <3>4 DEF AwaitsLast, c
  <2> QED
    BY <2>1, <2>3, <2>4
\* Thread t itself, if it goes on to the thread before.
<1>10. ASSUME InCobegin(t)'
       PROVE  n # 1 /\ Kids(t)' = kids /\ Index(t)' = n - 1
  <2>1. n # 1
    BY <1>2, <1>4, <1>10 DEF InCobegin, SchedulerTypeOK
  <2>2. estack'[t] = <<f>> \o rest
    BY <1>2, <2>1 DEF SchedulerTypeOK
  <2> QED
    BY <1>5, <2>1, <2>2 DEF Kids, Index
<1>11. ASSUME InCobegin(t)'
       PROVE  ResultsOK(t)' /\ AwaitsLast(t)'
  <2>1. \A i \in 1 .. n - 1 : i \in 1 .. n /\ i # n
    BY <1>3
  <2>2. ResultsOK(t)
    BY <1>1 DEF CobeginsOK
  <2>3. ASSUME NEW i \in 1 .. n - 1
        PROVE  kids[i] \in Allocated' \ {Main} /\ (estack'[kids[i]] = <<>> => hasValue'[kids[i]])
    <3> DEFINE c == kids[i]
    <3>1. /\ c \in Threads /\ c \in Allocated \ {Main}
          /\ estack[c] = <<>> => hasValue[c]
      BY <1>3, <2>1, <2>2 DEF ResultsOK, kids, n
    <3>2. c # kids[n]
      BY <1>3, <2>1, <2>2 DEF ResultsOK, Distinct, kids
    <3> HIDE DEF c
    <3>3. Allocated' = Allocated
      BY <1>2 DEF Allocated
    <3> QED
      BY <1>6, <1>8, <3>1, <3>2, <3>3 DEF c
  <2>4. Distinct(kids)
    BY <2>2 DEF ResultsOK, kids
  <2>5. ResultsOK(t)'
    BY <1>10, <1>11, <2>3, <2>4 DEF ResultsOK
  <2>6. n - 1 \in 1 .. n /\ kids[n - 1] \in Threads
    BY <1>3, <1>10, <1>11
  <2>7. BlockThread(t, kids[n - 1])
    BY <1>2, <1>10, <1>11
  <2>8. IF status'[t] = "Blocked"
        THEN blockingObject'[t] = kids[n - 1] ELSE status'[kids[n - 1]] = "Terminated"
    BY <1>1, <2>6, <2>7 DEF BlockThread, SchedulerTypeOK
  <2> QED
    BY <1>10, <1>11, <2>5, <2>8 DEF AwaitsLast
<1>12. ASSUME NEW u \in Threads, u # t, InCobegin(u)', InCobegin(t)'
       PROVE  Apart(t, u)' /\ Apart(u, t)'
  <2>1. /\ InCobegin(u) /\ Kids(u)' = Kids(u) /\ Index(u)' = Index(u)
        /\ Kids(t)' = kids /\ Index(t)' = n - 1
    BY <1>9, <1>10, <1>12
  <2>2. Apart(t, u) /\ Apart(u, t)
    BY <1>1, <1>12, <2>1 DEF CobeginsOK
  <2>3. \A i \in 1 .. n - 1 : i \in 1 .. Index(t)
    BY <1>3 DEF n
  <2> QED
    BY <2>1, <2>2, <2>3 DEF Apart, kids
<1>13. ASSUME NEW u \in Threads, NEW v \in Threads, u # t, v # t, u # v,
              InCobegin(u)', InCobegin(v)'
       PROVE  Apart(u, v)'
  <2>1. /\ InCobegin(u) /\ Kids(u)' = Kids(u) /\ Index(u)' = Index(u)
        /\ InCobegin(v) /\ Kids(v)' = Kids(v) /\ Index(v)' = Index(v)
    BY <1>9, <1>13
  <2> QED
    BY <1>13, <2>1 DEF CobeginsOK, Apart
<1>14. CobeginsOK'
  BY <1>9, <1>11, <1>12, <1>13 DEF CobeginsOK
<1> QED
  BY <1>7, <1>14

\* The invariant of cobegins is kept by every step of an interpreter.
LEMMA NextCobegins ==
    ASSUME IInv, CobeginInv, [Next]_vars
    PROVE  CobeginInv'
<1> SUFFICES ASSUME ~stray' PROVE StacksOK' /\ CobeginsOK'
  BY DEF CobeginInv
<1>1. SchedulerTypeOK /\ ControlOK
  BY DEF IInv, TypeOK
<1>2. ~stray
  BY <1>1, StrayIsForever DEF vars, schedulerVars, SchedulerTypeOK
<1>3. SlicesOK /\ QueuesOK
  BY <1>2, CalmParts DEF IInv, Calm
<1>4. StacksOK /\ CobeginsOK
  BY <1>2 DEF CobeginInv
<1>5. Wakes
  BY StepWakes DEF Wakes
<1>6. nThreads' \in Nat
  BY NextType, MaxThreadsAssumption DEF IInv, TypeOK, SchedulerTypeOK
<1>7. StacksOK' /\ KeepsResults => StacksOK' /\ CobeginsOK'
  BY <1>1, <1>4, <1>5, <1>6, CobeginsStay
<1>8. CASE SliceStep
  BY <1>1, <1>3, <1>4, <1>7, <1>8, SliceStepQuiet
<1>9. ASSUME NEW t \in Threads, TaskStep(t)
      PROVE  StacksOK' /\ CobeginsOK'
  BY <1>1, <1>3, <1>4, <1>5, <1>7, <1>9, TaskStepQuiet, CobeginStarts, CobeginTakes
<1>10. CASE ReplEval \/ ReplPrint \/ ReplQuit
  BY <1>1, <1>3, <1>4, <1>7, <1>10, ReplStepQuiet
<1>11. CASE \E t \in Threads : \E l \in Locks : Acquire(t, l) \/ Release(t, l)
  BY <1>1, <1>4, <1>7, <1>11, LockStepQuiet
<1>12. CASE \E t \in Threads : MsgQStep(t)
  BY <1>1, <1>4, <1>7, <1>12, MsgQStepQuiet
<1>13. CASE UNCHANGED vars
  <2>1. UNCHANGED <<status, blockingObject, estack, hasValue, nThreads>>
    BY <1>13 DEF vars, schedulerVars, queueVars, workVars, allocVars
  <2>2. nThreads' >= nThreads
    BY <2>1, MaxThreadsAssumption, <1>1 DEF SchedulerTypeOK
  <2>3. \A u \in Threads : Quiet(u)
    BY <1>4, <2>1, SameFramesQuiet
  <2> QED
    BY <1>7, <2>2, <2>3, QuietStep
<1> QED
  BY <1>8, <1>9, <1>10, <1>11, <1>12, <1>13, StepForms

\* cobegin takes results that are there: the thread whose result its continuation takes has
\* terminated, with a value that nobody has taken (cobegin.c:55), for any number of
\* threads and expressions, until threads go astray.
THEOREM CobeginIsCorrect == Spec => []CobeginTakesResults
<1>1. Init => CobeginInv
  BY EmptyStack DEF Init, SchedulerInit, CobeginInv, StacksOK, CobeginsOK, InCobegin
<1>2. IInv /\ CobeginInv => CobeginTakesResults
  <2> SUFFICES ASSUME IInv, CobeginInv, ~stray, NEW t \in Threads, MayStep(t), InCobegin(t)
               PROVE  LET kid == Kids(t)[Index(t)]
                      IN  status[kid] = "Terminated" /\ hasValue[kid]
    BY DEF CobeginTakesResults, InCobegin, Kids, Index
  <2> DEFINE kid == Kids(t)[Index(t)]
  <2>1. SchedulerTypeOK /\ ControlOK /\ StacksOK /\ ResultsOK(t) /\ AwaitsLast(t)
    BY DEF IInv, TypeOK, CobeginInv, CobeginsOK
  <2>2. /\ kid \in Threads
        /\ estack[kid] = <<>> => hasValue[kid]
    BY <2>1, CobeginTypes DEF ResultsOK
  <2>3. status[kid] = "Terminated"
    BY <2>1 DEF MayStep, AwaitsLast
  <2>4. estack[kid] = <<>>
    BY <2>1, <2>2, <2>3 DEF StacksOK
  <2> QED
    BY <2>2, <2>3, <2>4
<1> QED
  BY <1>1, <1>2, NextCobegins, Inductive, PTL DEF Spec

=============================================================================
