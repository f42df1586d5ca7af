-------------------------- MODULE InterpreterProofs --------------------------
(****************************************************************************)
(* Type correctness of Interpreter and the safety of threads, locks and     *)
(* message queues, for any number of them.                                  *)
(*                                                                          *)
(* IInv is inductive.  Its heart is QueuesOK, which says where a thread is: *)
(* in the run queue, in the queue of the one blocker it waits for, or in    *)
(* none.  Three operations move threads (blocking one, waking one, creating *)
(* some), and a lemma about each carries QueuesOK through every action.     *)
(****************************************************************************)
EXTENDS Interpreter, SequenceTheorems, TLAPS

-----------------------------------------------------------------------------
(* Queues: what Append, Tail and concatenation do to Has and Distinct.      *)

\* The empty queue has no element.
LEMMA EmptyQueue ==
    /\ Distinct(<<>>)
    /\ \A y : ~Has(<<>>, y)
BY DEF Distinct, Has

\* queue_enq.
LEMMA AppendQueue ==
    ASSUME NEW S, NEW s \in Seq(S), NEW x \in S
    PROVE  /\ Append(s, x) \in Seq(S)
           /\ Append(s, x) # <<>>
           /\ s # <<>> => Head(Append(s, x)) = Head(s)
           /\ \A y : Has(Append(s, x), y) <=> Has(s, y) \/ y = x
           /\ Distinct(s) /\ ~Has(s, x) => Distinct(Append(s, x))
<1> DEFINE a == Append(s, x)
<1>1. /\ a \in Seq(S)
      /\ Len(a) = Len(s) + 1
      /\ DOMAIN a = 1 .. Len(s) + 1
      /\ DOMAIN s = 1 .. Len(s)
      /\ Len(s) \in Nat
      /\ \A i \in 1 .. Len(s) : a[i] = s[i]
      /\ a[Len(s) + 1] = x
  OBVIOUS
<1>2. a # <<>>
  BY <1>1
<1>3. s # <<>> => Head(a) = Head(s)
  BY <1>1
<1>4. \A y : Has(a, y) <=> Has(s, y) \/ y = x
  <2>1. ASSUME NEW y, Has(a, y) PROVE Has(s, y) \/ y = x
    BY <2>1, <1>1 DEF Has
  <2>2. ASSUME NEW y, Has(s, y) PROVE Has(a, y)
    BY <2>2, <1>1 DEF Has
  <2>3. Has(a, x)
    <3>1. Len(s) + 1 \in DOMAIN a
      BY <1>1
    <3> QED
      BY <3>1, <1>1 DEF Has
  <2> QED
    BY <2>1, <2>2, <2>3
<1>5. ASSUME Distinct(s), ~Has(s, x) PROVE Distinct(a)
  BY <1>5, <1>1 DEF Has, Distinct
<1> QED
  BY <1>1, <1>2, <1>3, <1>4, <1>5

\* queue_deq.
LEMMA TailQueue ==
    ASSUME NEW S, NEW s \in Seq(S), s # <<>>
    PROVE  /\ Head(s) \in S
           /\ Tail(s) \in Seq(S)
           /\ \A y : Has(s, y) <=> y = Head(s) \/ Has(Tail(s), y)
           /\ Distinct(s) => Distinct(Tail(s)) /\ ~Has(Tail(s), Head(s))
<1>1. /\ Head(s) \in S
      /\ Tail(s) \in Seq(S)
      /\ Len(s) \in Nat \ {0}
      /\ DOMAIN s = 1 .. Len(s)
      /\ DOMAIN Tail(s) = 1 .. Len(s) - 1
      /\ Head(s) = s[1]
      /\ \A i \in 1 .. Len(s) - 1 : Tail(s)[i] = s[i + 1]
  OBVIOUS
<1>2. ASSUME NEW y, Has(s, y), y # Head(s) PROVE Has(Tail(s), y)
  <2>1. PICK i \in DOMAIN s : s[i] = y
    BY <1>2 DEF Has
  <2>2. i - 1 \in DOMAIN Tail(s) /\ Tail(s)[i - 1] = y
    BY <2>1, <1>1, <1>2
  <2> QED
    BY <2>2 DEF Has
<1>3. ASSUME NEW y, Has(Tail(s), y) PROVE Has(s, y)
  <2>1. PICK i \in DOMAIN Tail(s) : Tail(s)[i] = y
    BY <1>3 DEF Has
  <2>2. i + 1 \in DOMAIN s /\ s[i + 1] = y
    BY <2>1, <1>1
  <2> QED
    BY <2>2 DEF Has
<1>4. Has(s, Head(s))
  <2>1. 1 \in DOMAIN s
    BY <1>1
  <2> QED
    BY <2>1, <1>1 DEF Has
<1>5. ASSUME Distinct(s) PROVE Distinct(Tail(s)) /\ ~Has(Tail(s), Head(s))
  <2>1. \A i \in DOMAIN Tail(s) : i + 1 \in DOMAIN s /\ i + 1 # 1 /\ Tail(s)[i] = s[i + 1]
    BY <1>1
  <2>2. 1 \in DOMAIN s
    BY <1>1
  <2>3. Distinct(Tail(s))
    <3> SUFFICES ASSUME NEW i \in DOMAIN Tail(s), NEW j \in DOMAIN Tail(s),
                        Tail(s)[i] = Tail(s)[j]
                 PROVE  i = j
      BY DEF Distinct
    <3>1. i + 1 = j + 1
      BY <2>1, <1>5 DEF Distinct
    <3> QED
      BY <3>1, <1>1
  <2>4. ~Has(Tail(s), Head(s))
    BY <2>1, <2>2, <1>1, <1>5 DEF Distinct, Has
  <2> QED
    BY <2>3, <2>4
<1> QED
  BY <1>1, <1>2, <1>3, <1>4, <1>5

\* k threads that are not in the run queue are added to it, in order.
LEMMA SpawnQueue ==
    ASSUME NEW s \in Seq(Threads), NEW k \in Nat, nThreads \in Nat,
           nThreads + k <= MaxThreads
    PROVE  /\ NewKids(k) \in Seq(Threads)
           /\ Len(NewKids(k)) = k
           /\ s \o NewKids(k) \in Seq(Threads)
           /\ s # <<>> => s \o NewKids(k) # <<>> /\ Head(s \o NewKids(k)) = Head(s)
           /\ \A y \in Threads :
                 Has(s \o NewKids(k), y) <=> Has(s, y) \/ y \in nThreads .. nThreads + k - 1
           /\ Distinct(s) /\ (\A y \in nThreads .. nThreads + k - 1 : ~Has(s, y))
                 => Distinct(s \o NewKids(k))
<1> DEFINE n == NewKids(k)
           c == s \o n
<1>1. /\ n \in Seq(Threads)
      /\ Len(n) = k
      /\ \A i \in 1 .. k : n[i] = nThreads + i - 1
  <2>1. \A i \in 1 .. k : nThreads + i - 1 \in Threads
    BY MaxThreadsAssumption DEF Threads
  <2>2. n \in [1 .. k -> Threads]
    BY <2>1 DEF NewKids
  <2>3. \A i \in 1 .. k : n[i] = nThreads + i - 1
    BY DEF NewKids
  <2> HIDE DEF n
  <2>4. n \in Seq(Threads)
    BY <2>2, IsASeq
  <2>5. Len(n) = k
    BY <2>2, <2>4
  <2> QED
    BY <2>3, <2>4, <2>5
<1>2. /\ c \in Seq(Threads)
      /\ Len(c) = Len(s) + k
      /\ Len(s) \in Nat
      /\ DOMAIN s = 1 .. Len(s)
      /\ DOMAIN c = 1 .. Len(s) + k
      /\ \A i \in 1 .. Len(s) : c[i] = s[i]
      /\ \A i \in 1 .. k : c[Len(s) + i] = nThreads + i - 1
  <2>1. c \in Seq(Threads) /\ Len(c) = Len(s) + Len(n)
    BY <1>1
  <2>2. \A i \in 1 .. Len(s) + Len(n) :
           c[i] = IF i <= Len(s) THEN s[i] ELSE n[i - Len(s)]
    BY <1>1, ConcatProperties
  <2>3. \A i \in 1 .. k : c[Len(s) + i] = n[i]
    BY <1>1, <2>2
  <2> HIDE DEF c, n
  <2>4. \A i \in 1 .. Len(s) : c[i] = s[i]
    BY <1>1, <2>2
  <2>5. \A i \in 1 .. k : c[Len(s) + i] = nThreads + i - 1
    BY <1>1, <2>3
  <2> QED
    BY <1>1, <2>1, <2>4, <2>5
<1>3. s # <<>> => c # <<>> /\ Head(c) = Head(s)
  BY <1>2
<1>4. ASSUME NEW y \in Threads
      PROVE  Has(c, y) <=> Has(s, y) \/ y \in nThreads .. nThreads + k - 1
  <2>1. ASSUME Has(c, y) PROVE Has(s, y) \/ y \in nThreads .. nThreads + k - 1
    <3>1. PICK i \in DOMAIN c : c[i] = y
      BY <2>1 DEF Has
    <3>2. CASE i <= Len(s)
      BY <3>1, <3>2, <1>2 DEF Has
    <3>3. CASE i > Len(s)
      <4>1. i - Len(s) \in 1 .. k /\ i = Len(s) + (i - Len(s))
        BY <3>3, <1>2
      <4>2. y = nThreads + (i - Len(s)) - 1
        BY <4>1, <3>1, <1>2
      <4> QED
        BY <4>1, <4>2
    <3> QED
      BY <3>2, <3>3, <1>2
  <2>2. ASSUME Has(s, y) PROVE Has(c, y)
    BY <2>2, <1>2 DEF Has
  <2>3. ASSUME y \in nThreads .. nThreads + k - 1 PROVE Has(c, y)
    <3> DEFINE m == y - nThreads + 1
    <3>1. m \in 1 .. k /\ nThreads + m - 1 = y
      BY <2>3
    <3> HIDE DEF m
    <3>2. Len(s) + m \in DOMAIN c
      BY <3>1, <1>2
    <3>3. c[Len(s) + m] = y
      BY <3>1, <1>2
    <3> QED
      BY <3>2, <3>3 DEF Has
  <2> QED
    BY <2>1, <2>2, <2>3
<1>5. ASSUME Distinct(s), \A y \in nThreads .. nThreads + k - 1 : ~Has(s, y)
      PROVE  Distinct(c)
  <2> SUFFICES ASSUME NEW i \in DOMAIN c, NEW j \in DOMAIN c, c[i] = c[j]
               PROVE  i = j
    BY DEF Distinct
  <2>1. \A m \in DOMAIN c : m <= Len(s) => m \in DOMAIN s /\ c[m] = s[m]
    BY <1>2
  <2>2. \A m \in DOMAIN c :
           m > Len(s) => /\ c[m] = nThreads + (m - Len(s)) - 1
                         /\ m - Len(s) \in 1 .. k
    <3>1. \A m \in DOMAIN c : m > Len(s) => m - Len(s) \in 1 .. k /\ m = Len(s) + (m - Len(s))
      BY <1>2
    <3> HIDE DEF c
    <3> QED
      BY <3>1, <1>2
  <2> HIDE DEF c, n
  <2>3. CASE i <= Len(s) /\ j <= Len(s)
    BY <2>1, <2>3, <1>5 DEF Distinct
  <2>4. CASE i > Len(s) /\ j > Len(s)
    <3>1. i \in Nat /\ j \in Nat /\ Len(s) \in Nat
      BY <1>2
    <3>2. c[i] = nThreads + (i - Len(s)) - 1 /\ c[j] = nThreads + (j - Len(s)) - 1
      BY <2>2, <2>4
    <3>3. nThreads + (i - Len(s)) - 1 = nThreads + (j - Len(s)) - 1
      BY <3>2, c[i] = c[j]
    <3> QED
      BY <3>1, <3>3
  <2>5. \A m \in DOMAIN c : m > Len(s) => ~Has(s, c[m])
    BY <2>2, <1>5
  <2>6. \A m \in DOMAIN c : m <= Len(s) => Has(s, c[m])
    BY <2>1 DEF Has
  <2>7. CASE i <= Len(s) /\ j > Len(s)
    BY <2>5, <2>6, <2>7
  <2>8. CASE i > Len(s) /\ j <= Len(s)
    BY <2>5, <2>6, <2>8
  <2> QED
    BY <2>3, <2>4, <2>7, <2>8, <1>2
<1> QED
  BY <1>1, <1>2, <1>3, <1>4, <1>5

-----------------------------------------------------------------------------
(* Type correctness.                                                        *)

\* Main is a thread, and the kinds of blocker do not overlap.
LEMMA Constants ==
    /\ Main \in Threads
    /\ Threads \subseteq Nat
    /\ NIL \notin Threads /\ NIL \notin Locks /\ NIL \notin MsgQs
    /\ Threads \subseteq Blockers /\ Locks \subseteq Blockers /\ MsgQs \subseteq Blockers
    /\ \A b \in Threads : b \notin Locks /\ b \notin MsgQs
    /\ \A b \in Locks : b \notin MsgQs
BY MaxThreadsAssumption, BlockersAssumption DEF Threads, Blockers, Main

\* The frames the model builds are frames.
LEMMA FrameTypes ==
    /\ Code \in Frame
    /\ \A kids \in Seq(Threads) : \A i \in Nat : CobeginFrame(kids, i) \in Frame
    /\ \A kids \in Seq(Threads) : NondetFrame(kids) \in Frame
BY DEF Code, Frame, CobeginFrame, NondetFrame

\* The positions of the loop of evaluator_unblockWaitingThreads.
LEMMA WakingTypes ==
    /\ NotWaking \in [thread : Threads \cup {NIL}, n : Nat]
    /\ \A t \in Threads :
          LET w == [thread |-> t, n |-> 0]
          IN  w \in [thread : Threads \cup {NIL}, n : Nat] /\ w.thread = t
    /\ \A w \in [thread : Threads \cup {NIL}, n : Nat] :
          LET next == [w EXCEPT !.n = @ + 1]
          IN  next \in [thread : Threads \cup {NIL}, n : Nat] /\ next.thread = w.thread
<1>1. NotWaking \in [thread : Threads \cup {NIL}, n : Nat]
  BY DEF NotWaking
<1>2. \A t \in Threads :
          LET w == [thread |-> t, n |-> 0]
          IN  w \in [thread : Threads \cup {NIL}, n : Nat] /\ w.thread = t
  OBVIOUS
<1>3. \A w \in [thread : Threads \cup {NIL}, n : Nat] :
          LET next == [w EXCEPT !.n = @ + 1]
          IN  next \in [thread : Threads \cup {NIL}, n : Nat] /\ next.thread = w.thread
  OBVIOUS
<1> QED
  BY <1>1, <1>2, <1>3

\* threadManager_addThread keeps the types and the head of the run queue.
LEMMA AddThreadType ==
    ASSUME SchedulerTypeOK, NEW t \in Threads, AddThread(t)
    PROVE  /\ status' \in [Threads -> ThreadStatus]
           /\ running' \in Seq(Threads)
           /\ running # <<>> => running' # <<>> /\ Head(running') = Head(running)
BY AppendQueue DEF AddThread, SchedulerTypeOK, ThreadStatus

\* threadManager_blockThread keeps the types.
LEMMA BlockThreadType ==
    ASSUME SchedulerTypeOK, NEW t \in Threads, NEW b \in Blockers, BlockThread(t, b)
    PROVE  /\ status' \in [Threads -> ThreadStatus]
           /\ blockingObject' \in [Threads -> Blockers \cup {NIL}]
           /\ waitingThreads' \in [Blockers -> Seq(Threads)]
<1>1. Append(waitingThreads[b], t) \in Seq(Threads)
  BY DEF SchedulerTypeOK
<1> QED
  BY <1>1 DEF BlockThread, SchedulerTypeOK, ThreadStatus

\* The first thread of a queue, and the queue without it.
LEMMA DequeueType ==
    ASSUME SchedulerTypeOK, NEW b \in Blockers, waitingThreads[b] # <<>>
    PROVE  /\ Head(waitingThreads[b]) \in Threads
           /\ [waitingThreads EXCEPT ![b] = Tail(@)] \in [Blockers -> Seq(Threads)]
<1>1. waitingThreads[b] \in Seq(Threads)
  BY DEF SchedulerTypeOK
<1>2. Head(waitingThreads[b]) \in Threads /\ Tail(waitingThreads[b]) \in Seq(Threads)
  BY <1>1, TailQueue
<1> QED
  BY <1>2 DEF SchedulerTypeOK

\* The new evaluators and the frames of the thread that creates them.
LEMMA SpawnKidsType ==
    ASSUME SchedulerTypeOK, NEW t \in Threads, NEW k \in Nat, NEW frames \in Seq(Frame),
           SpawnKids(t, k, frames)
    PROVE  /\ running' \in Seq(Threads)
           /\ running # <<>> => running' # <<>> /\ Head(running') = Head(running)
           /\ estack' \in [Threads -> Seq(Frame)]
           /\ \A u \in Threads : estack'[u] = <<Code>> \/ estack'[u] = estack[u]
                                    \/ (u = t /\ estack'[u] = frames)
           /\ nThreads' \in 1 .. MaxThreads
           /\ tid' \in [Threads -> Nat]
           /\ nextTid' \in Nat
           /\ NewKids(k) \in Seq(Threads) /\ Len(NewKids(k)) = k
           /\ \A u \in nThreads .. nThreads + k - 1 : u \in Threads
<1>1. nThreads \in Nat /\ nThreads + k <= MaxThreads /\ nThreads >= 1 /\ nextTid \in Nat
  BY MaxThreadsAssumption DEF SpawnKids, SchedulerTypeOK
<1>2. /\ running' \in Seq(Threads)
      /\ running # <<>> => running' # <<>> /\ Head(running') = Head(running)
      /\ NewKids(k) \in Seq(Threads) /\ Len(NewKids(k)) = k
  BY <1>1, SpawnQueue DEF SpawnKids, SchedulerTypeOK
<1>3. <<Code>> \in Seq(Frame)
  BY FrameTypes
<1>4. estack' \in [Threads -> Seq(Frame)]
  BY <1>3 DEF SpawnKids, SchedulerTypeOK
<1>5. \A u \in Threads : estack'[u] = <<Code>> \/ estack'[u] = estack[u]
                            \/ (u = t /\ estack'[u] = frames)
  BY DEF SpawnKids, SchedulerTypeOK
<1>6. nThreads' \in 1 .. MaxThreads /\ nextTid' \in Nat
  BY <1>1, MaxThreadsAssumption DEF SpawnKids
<1>7. tid' \in [Threads -> Nat]
  <2>1. \A u \in Threads : u \in nThreads .. nThreads + k - 1 => nextTid + (u - nThreads) \in Nat
    BY <1>1
  <2> QED
    BY <2>1, <1>1 DEF SpawnKids, SchedulerTypeOK
<1>8. \A u \in nThreads .. nThreads + k - 1 : u \in Threads
  BY <1>1, MaxThreadsAssumption DEF Threads
<1> QED
  BY <1>2, <1>4, <1>5, <1>6, <1>7, <1>8


\* Popping frames and pushing one keep frames well formed.
LEMMA FramesStayOK ==
    ASSUME NEW frames \in Seq(Frame), FramesOK(frames)
    PROVE  /\ frames # <<>> => Tail(frames) \in Seq(Frame) /\ FramesOK(Tail(frames))
           /\ frames # <<>> => Head(frames) \in Frame
           /\ \A i \in DOMAIN frames :
                 /\ SubSeq(frames, i, Len(frames)) \in Seq(Frame)
                 /\ FramesOK(SubSeq(frames, i, Len(frames)))
           /\ \A f \in Frame :
                 (f.kind = "cobegin" => f.index \in DOMAIN f.kids) =>
                    /\ <<f>> \o frames \in Seq(Frame)
                    /\ FramesOK(<<f>> \o frames)
<1>1. ASSUME frames # <<>>
      PROVE  Tail(frames) \in Seq(Frame) /\ FramesOK(Tail(frames)) /\ Head(frames) \in Frame
  BY <1>1 DEF FramesOK
<1>2. ASSUME NEW i \in DOMAIN frames
      PROVE  /\ SubSeq(frames, i, Len(frames)) \in Seq(Frame)
             /\ FramesOK(SubSeq(frames, i, Len(frames)))
  BY SubSeqProperties DEF FramesOK
<1>3. ASSUME NEW f \in Frame, f.kind = "cobegin" => f.index \in DOMAIN f.kids
      PROVE  <<f>> \o frames \in Seq(Frame) /\ FramesOK(<<f>> \o frames)
  <2>1. <<f>> \in Seq(Frame) /\ Len(<<f>>) = 1 /\ <<f>>[1] = f
    OBVIOUS
  <2>2. /\ <<f>> \o frames \in Seq(Frame)
        /\ Len(<<f>> \o frames) = 1 + Len(frames)
        /\ \A i \in 1 .. 1 + Len(frames) :
              (<<f>> \o frames)[i] = IF i <= 1 THEN <<f>>[i] ELSE frames[i - 1]
    BY <2>1, ConcatProperties
  <2> DEFINE c == <<f>> \o frames
  <2>3. DOMAIN c = 1 .. 1 + Len(frames) /\ DOMAIN frames = 1 .. Len(frames)
    BY <2>2
  <2>4. ASSUME NEW i \in DOMAIN c
        PROVE  c[i].kind = "cobegin" => c[i].index \in DOMAIN c[i].kids
    <3>1. CASE i = 1
      BY <3>1, <2>1, <2>2, <2>3, <1>3
    <3>2. CASE i # 1
      <4>1. i - 1 \in DOMAIN frames /\ c[i] = frames[i - 1]
        BY <3>2, <2>2, <2>3
      <4> QED
        BY <4>1 DEF FramesOK
    <3> QED
      BY <3>1, <3>2
  <2> QED
    BY <2>2, <2>4 DEF FramesOK
<1> QED
  BY <1>1, <1>2, <1>3


-----------------------------------------------------------------------------
\* The steps of the slice machinery keep the types and the control facts.
LEMMA SliceStepType ==
    ASSUME SchedulerTypeOK, ControlOK, repl = "run", repl' = repl, SliceStep
    PROVE  SchedulerTypeOK' /\ ControlOK'
<1> USE Constants
<1>1. CASE BeginSlice
  <2>1. Head(running) \in Threads
    BY <1>1, TailQueue DEF BeginSlice, SchedulerTypeOK
  <2>2. SchedulerTypeOK'
    BY <1>1, <2>1, NStepsAssumption
       DEF BeginSlice, SchedulerTypeOK, ThreadStatus, workVars, allocVars
  <2>3. ControlOK'
    BY <1>1, <2>1 DEF BeginSlice, ControlOK, workVars
  <2> QED
    BY <2>2, <2>3
<1>2. CASE WakeNext
  <2> DEFINE b == waking.thread
             w == Head(waitingThreads[b])
  <2>1. b \in Threads /\ waking.n \in Nat /\ waitingThreads[b] # <<>>
    BY <1>2 DEF WakeNext, ControlOK, SchedulerTypeOK
  <2>2. w \in Threads /\ waitingThreads' \in [Blockers -> Seq(Threads)]
    BY <2>1, <1>2, DequeueType DEF WakeNext
  <2>3. AddThread(w) /\ blockingObject' \in [Threads -> Blockers \cup {NIL}]
    BY <1>2, <2>2 DEF WakeNext, UnblockThread, SchedulerTypeOK
  <2>4. /\ status' \in [Threads -> ThreadStatus]
        /\ running' \in Seq(Threads)
        /\ running # <<>> => running' # <<>> /\ Head(running') = Head(running)
    BY <2>2, <2>3, AddThreadType
  <2>5. waking' \in [thread : Threads \cup {NIL}, n : Nat] /\ waking'.thread \in Threads
    BY <1>2, <2>1, WakingTypes DEF WakeNext, SchedulerTypeOK
  <2>6. SchedulerTypeOK'
    BY <1>2, <2>2, <2>3, <2>4, <2>5 DEF WakeNext, SchedulerTypeOK, workVars, allocVars
  <2>7. ControlOK'
    BY <1>2, <2>4, <2>5 DEF WakeNext, ControlOK, workVars
  <2> QED
    BY <2>6, <2>7
<1>3. CASE WakeDone
  <2>1. SchedulerTypeOK'
    BY <1>3 DEF WakeDone, SchedulerTypeOK, queueVars, workVars, allocVars, NotWaking
  <2>2. ControlOK'
    BY <1>3 DEF WakeDone, ControlOK, queueVars, workVars
  <2> QED
    BY <2>1, <2>2
<1>4. CASE KillNext
  <2>1. Head(killing) \in Threads /\ Tail(killing) \in Seq(Threads)
    BY <1>4, TailQueue DEF KillNext, SchedulerTypeOK
  <2>2. /\ status' \in [Threads -> ThreadStatus]
        /\ waking' \in [thread : Threads \cup {NIL}, n : Nat]
        /\ waking' # NotWaking => waking'.thread \in Threads
    <3>1. CASE tid[Head(killing)] # TS_Terminated
      <4>1. /\ status' = [status EXCEPT ![Head(killing)] = "Terminated"]
            /\ waking' = [thread |-> Head(killing), n |-> 0]
        BY <1>4, <3>1 DEF KillNext, TerminateThread
      <4>2. status' \in [Threads -> ThreadStatus]
        BY <2>1, <4>1 DEF SchedulerTypeOK, ThreadStatus
      <4>3. waking' \in [thread : Threads \cup {NIL}, n : Nat] /\ waking'.thread \in Threads
        BY <2>1, <4>1, WakingTypes
      <4> QED
        BY <4>2, <4>3
    <3>2. CASE tid[Head(killing)] = TS_Terminated
      BY <1>4, <3>2 DEF KillNext, SchedulerTypeOK
    <3> QED
      BY <3>1, <3>2
  <2>3. SchedulerTypeOK'
    BY <1>4, <2>1, <2>2 DEF KillNext, SchedulerTypeOK, workVars, allocVars
  <2>4. ControlOK'
    BY <1>4, <2>2 DEF KillNext, ControlOK, workVars
  <2> QED
    BY <2>3, <2>4
<1>5. CASE EndSlice
  <2>1. current \in Threads /\ running # <<>>
    BY <1>5 DEF EndSlice, EndSliceOf, ControlOK, SchedulerTypeOK
  <2>2. Tail(running) \in Seq(Threads)
    BY <2>1, TailQueue DEF SchedulerTypeOK
  <2>3. running' \in Seq(Threads)
    BY <1>5, <2>1, <2>2, AppendQueue DEF EndSlice, EndSliceOf
  <2>4. current' \in Threads \cup {NIL} /\ steps' \in 0 .. NSteps
    BY <1>5, NStepsAssumption DEF EndSlice, EndSliceOf
  <2>5. SchedulerTypeOK'
    BY <1>5, <2>3, <2>4 DEF EndSlice, EndSliceOf, SchedulerTypeOK, workVars, allocVars
  <2>6. ControlOK'
    BY <1>5 DEF EndSlice, EndSliceOf, ControlOK, workVars
  <2> QED
    BY <2>5, <2>6
<1> QED
  BY <1>1, <1>2, <1>3, <1>4, <1>5 DEF SliceStep

\* So do the steps of a thread that use neither locks nor message queues.
LEMMA TaskStepType ==
    ASSUME SchedulerTypeOK, ControlOK, repl = "run", repl' = repl,
           NEW t \in Threads, TaskStep(t)
    PROVE  SchedulerTypeOK' /\ ControlOK'
<1> USE Constants
<1>1. /\ estack[t] \in Seq(Frame) /\ FramesOK(estack[t])
      /\ estack[t] # <<>> => Tail(estack[t]) \in Seq(Frame) /\ FramesOK(Tail(estack[t]))
      /\ estack[t] # <<>> => Head(estack[t]) \in Frame
      /\ \A i \in DOMAIN estack[t] :
            /\ SubSeq(estack[t], i, Len(estack[t])) \in Seq(Frame)
            /\ FramesOK(SubSeq(estack[t], i, Len(estack[t])))
      /\ \A f \in Frame :
            (f.kind = "cobegin" => f.index \in DOMAIN f.kids) =>
               <<f>> \o estack[t] \in Seq(Frame) /\ FramesOK(<<f>> \o estack[t])
  <2>1. estack[t] \in Seq(Frame) /\ FramesOK(estack[t])
    BY DEF SchedulerTypeOK, ControlOK
  <2> QED
    BY <2>1, FramesStayOK
<1>2. Code \in Frame /\ FramesOK(<<Code>>) /\ FramesOK(<<>>)
  BY FrameTypes DEF FramesOK, Code
<1>3. steps > 0 => steps - 1 \in 0 .. NSteps
  BY NStepsAssumption DEF SchedulerTypeOK
<1>4. CASE FinishThread(t)
  <2>1. /\ status' \in [Threads -> ThreadStatus]
        /\ waking' \in [thread : Threads \cup {NIL}, n : Nat]
        /\ waking'.thread \in Threads
        /\ steps' \in 0 .. NSteps
    BY <1>4, WakingTypes, NStepsAssumption
       DEF FinishThread, TerminateThread, SchedulerTypeOK, ThreadStatus
  <2>2. SchedulerTypeOK'
    BY <1>4, <2>1 DEF FinishThread, SchedulerTypeOK, workVars, allocVars
  <2>3. ControlOK'
    BY <1>4, <2>1 DEF FinishThread, ControlOK, workVars
  <2> QED
    BY <2>2, <2>3
<1>5. CASE Async(t)
  <2>1. PICK k \in 1 .. MaxKids :
           /\ SpawnKids(t, k, estack[t])
           /\ status' = [u \in Threads |->
                           IF u \in nThreads .. nThreads + k - 1
                           THEN "Running" ELSE status[u]]
    BY <1>5 DEF Async
  <2>2. k \in Nat
    BY MaxKidsAssumption
  <2>3. steps' \in 0 .. NSteps
    BY <1>5, <1>3 DEF Async, Performs, EvalStep, Evaluates, MayStep
  <2>4. status' \in [Threads -> ThreadStatus]
    BY <2>1 DEF SchedulerTypeOK, ThreadStatus
  <2>5. /\ SpawnKids(t, k, estack[t])
        /\ UNCHANGED <<current, waking, killing, blockingObject, waitingThreads,
                       hasValue, stray>>
    BY <1>5, <2>1 DEF Async, Performs, EvalStep
  <2>6. SchedulerTypeOK'
    BY <1>1, <2>2, <2>3, <2>4, <2>5, SpawnKidsType DEF SchedulerTypeOK
  <2>7. ControlOK'
    <3>1. /\ running # <<>> => running' # <<>> /\ Head(running') = Head(running)
          /\ \A u \in Threads : estack'[u] = <<Code>> \/ estack'[u] = estack[u]
      BY <1>1, <2>2, <2>5, SpawnKidsType
    <3> QED
      BY <1>2, <2>5, <3>1 DEF ControlOK
  <2> QED
    BY <2>6, <2>7
<1>6. CASE Join(t)
  <2>1. PICK c \in Allocated : BlockThread(t, c)
    BY <1>6 DEF Join
  <2>2. c \in Blockers
    BY MaxThreadsAssumption DEF Allocated, SchedulerTypeOK, Threads, Blockers
  <2>3. steps' \in 0 .. NSteps
    BY <1>6, <1>3 DEF Join, Performs, EvalStep, Evaluates, MayStep
  <2>4. SchedulerTypeOK'
    BY <1>6, <2>1, <2>2, <2>3, BlockThreadType
       DEF Join, Performs, EvalStep, SchedulerTypeOK, allocVars
  <2>5. ControlOK'
    BY <1>6 DEF Join, Performs, EvalStep, ControlOK
  <2> QED
    BY <2>4, <2>5
<1>7. CASE Cobegin(t)
  <2>1. PICK k \in 1 .. MaxKids :
           LET last == nThreads + k - 1
           IN  /\ SpawnKids(t, k, <<CobeginFrame(NewKids(k), k)>> \o estack[t])
               /\ status' = [u \in Threads |->
                               IF u \in nThreads .. last THEN "Running"
                               ELSE IF u = t THEN "Blocked" ELSE status[u]]
               /\ blockingObject' = [blockingObject EXCEPT ![t] = last]
               /\ waitingThreads' = [waitingThreads EXCEPT ![last] = Append(@, t)]
    BY <1>7 DEF Cobegin
  <2> DEFINE last == nThreads + k - 1
             frames == <<CobeginFrame(NewKids(k), k)>> \o estack[t]
  <2>2. k \in Nat /\ k >= 1 /\ nThreads \in Nat /\ nThreads + k <= MaxThreads
    BY <2>1, MaxKidsAssumption DEF SpawnKids, SchedulerTypeOK
  <2>3. NewKids(k) \in Seq(Threads) /\ Len(NewKids(k)) = k
    <3>1. <<>> \in Seq(Threads)
      OBVIOUS
    <3> QED
      BY <2>2, <3>1, SpawnQueue
  <2>4. frames \in Seq(Frame) /\ FramesOK(frames)
    <3>1. CobeginFrame(NewKids(k), k) \in Frame
      BY <2>2, <2>3, FrameTypes
    <3>2. k \in DOMAIN NewKids(k)
      BY <2>2, <2>3
    <3>3. /\ CobeginFrame(NewKids(k), k).index = k
          /\ CobeginFrame(NewKids(k), k).kids = NewKids(k)
      BY DEF CobeginFrame
    <3> QED
      BY <1>1, <3>1, <3>2, <3>3
  <2>5. last \in Threads /\ last \in Blockers
    <3>1. last \in Threads
      BY <2>2, MaxThreadsAssumption DEF Threads
    <3> QED
      BY <3>1
  <2>6. steps' \in 0 .. NSteps
    BY <1>7, <1>3 DEF Cobegin, Performs, EvalStep, Evaluates, MayStep
  <2>7. status' \in [Threads -> ThreadStatus]
    BY <2>1 DEF SchedulerTypeOK, ThreadStatus
  <2>8. /\ blockingObject' \in [Threads -> Blockers \cup {NIL}]
        /\ waitingThreads' \in [Blockers -> Seq(Threads)]
    <3>1. Append(waitingThreads[last], t) \in Seq(Threads)
      BY <2>5 DEF SchedulerTypeOK
    <3> QED
      BY <2>1, <2>5, <3>1 DEF SchedulerTypeOK
  <2> HIDE DEF frames, last
  <2>9. /\ SpawnKids(t, k, frames)
        /\ hasValue' = [hasValue EXCEPT ![t] = FALSE]
        /\ UNCHANGED <<current, waking, killing, stray>>
    BY <1>7, <2>1 DEF frames, Cobegin, Performs, EvalStep
  <2>10. SchedulerTypeOK'
    BY <2>2, <2>4, <2>6, <2>7, <2>8, <2>9, SpawnKidsType DEF SchedulerTypeOK
  <2>11. ControlOK'
    <3>1. /\ running # <<>> => running' # <<>> /\ Head(running') = Head(running)
          /\ \A u \in Threads : \/ estack'[u] = <<Code>>
                                \/ estack'[u] = estack[u]
                                \/ estack'[u] = frames
      BY <2>2, <2>4, <2>9, SpawnKidsType
    <3> QED
      BY <1>2, <2>4, <2>9, <3>1 DEF ControlOK
  <2> QED
    BY <2>10, <2>11
<1>8. CASE CobeginContinue(t)
  <2> DEFINE f == Head(estack[t])
             rest == Tail(estack[t])
             kid == f.kids[f.index - 1]
             next == <<CobeginFrame(f.kids, f.index - 1)>> \o rest
  <2>1. /\ estack[t] # <<>> /\ f.kind = "cobegin" /\ f \in Frame
        /\ rest \in Seq(Frame) /\ FramesOK(rest)
    BY <1>8, <1>1 DEF CobeginContinue, EvalStep, Evaluates
  <2>2. f.kids \in Seq(Threads) /\ f.index \in 1 .. Len(f.kids)
    <3>1. 1 \in DOMAIN estack[t] /\ estack[t][1] = f
      BY <1>1, <2>1
    <3>2. f.index \in DOMAIN f.kids
      BY <3>1, <1>1, <2>1 DEF FramesOK
    <3> QED
      BY <2>1, <3>2 DEF Frame
  <2>3. ASSUME f.index # 1
        PROVE  /\ kid \in Threads /\ kid \in Blockers
               /\ next \in Seq(Frame) /\ FramesOK(next)
    <3>1. f.index - 1 \in DOMAIN f.kids /\ f.index - 1 \in Nat
      BY <2>2, <2>3
    <3>2. kid \in Threads /\ kid \in Blockers
      <4>1. \A i \in DOMAIN f.kids : f.kids[i] \in Threads
        <5> HIDE DEF f
        <5> QED
          BY <2>2
      <4> QED
        BY <3>1, <4>1
    <3>3. CobeginFrame(f.kids, f.index - 1) \in Frame
      BY <3>1, <2>2, FrameTypes
    <3>4. /\ CobeginFrame(f.kids, f.index - 1).index = f.index - 1
          /\ CobeginFrame(f.kids, f.index - 1).kids = f.kids
      BY DEF CobeginFrame
    <3>5. next \in Seq(Frame) /\ FramesOK(next)
      BY <2>1, <3>1, <3>3, <3>4, FramesStayOK
    <3> QED
      BY <3>2, <3>5
  <2>4. steps' \in 0 .. NSteps /\ UNCHANGED <<current, waking, killing>>
    BY <1>8, <1>3 DEF CobeginContinue, EvalStep, Evaluates, MayStep
  <2>5. hasValue' \in [Threads -> BOOLEAN] /\ UNCHANGED <<running, allocVars, stray>>
    BY <1>8 DEF CobeginContinue, SchedulerTypeOK
  <2>6. CASE f.index = 1
    <3>1. /\ estack' = [estack EXCEPT ![t] = rest]
          /\ UNCHANGED <<status, blockingObject, waitingThreads>>
      BY <1>8, <2>6 DEF CobeginContinue
    <3>2. SchedulerTypeOK'
      BY <2>1, <2>4, <2>5, <3>1 DEF SchedulerTypeOK, allocVars
    <3>3. ControlOK'
      BY <2>1, <2>4, <2>5, <3>1 DEF ControlOK, SchedulerTypeOK
    <3> QED
      BY <3>2, <3>3
  <2>7. CASE f.index # 1
    <3>1. estack' = [estack EXCEPT ![t] = next] /\ BlockThread(t, kid)
      BY <1>8, <2>7 DEF CobeginContinue
    <3>2. /\ status' \in [Threads -> ThreadStatus]
          /\ blockingObject' \in [Threads -> Blockers \cup {NIL}]
          /\ waitingThreads' \in [Blockers -> Seq(Threads)]
      BY <2>3, <2>7, <3>1, BlockThreadType
    <3> HIDE DEF next
    <3>3. SchedulerTypeOK'
      BY <2>3, <2>4, <2>5, <2>7, <3>1, <3>2 DEF SchedulerTypeOK, allocVars
    <3>4. ControlOK'
      BY <2>3, <2>4, <2>5, <2>7, <3>1 DEF ControlOK, SchedulerTypeOK
    <3> QED
      BY <3>3, <3>4
  <2> QED
    BY <2>6, <2>7
<1>9. CASE Nondet(t)
  <2>1. PICK k \in 1 .. MaxKids :
           LET last == nThreads + k - 1
               kids == nThreads .. last
           IN  /\ SpawnKids(t, k, <<NondetFrame(NewKids(k))>> \o estack[t])
               /\ status' = [u \in Threads |->
                               IF u \in kids THEN "Running"
                               ELSE IF u = t THEN "Blocked" ELSE status[u]]
               /\ blockingObject' = [blockingObject EXCEPT ![t] = last]
               /\ waitingThreads' = [b \in Blockers |->
                                       IF b \in kids THEN Append(waitingThreads[b], t)
                                       ELSE waitingThreads[b]]
    BY <1>9 DEF Nondet
  <2> DEFINE last == nThreads + k - 1
             frames == <<NondetFrame(NewKids(k))>> \o estack[t]
  <2>2. k \in Nat /\ k >= 1 /\ nThreads \in Nat /\ nThreads + k <= MaxThreads
    BY <2>1, MaxKidsAssumption DEF SpawnKids, SchedulerTypeOK
  <2>3. NewKids(k) \in Seq(Threads) /\ Len(NewKids(k)) = k
    <3>1. <<>> \in Seq(Threads)
      OBVIOUS
    <3> QED
      BY <2>2, <3>1, SpawnQueue
  <2>4. frames \in Seq(Frame) /\ FramesOK(frames)
    <3>1. NondetFrame(NewKids(k)) \in Frame
      BY <2>2, <2>3, FrameTypes
    <3>2. NondetFrame(NewKids(k)).kind = "nondet"
      BY DEF NondetFrame
    <3> QED
      BY <1>1, <3>1, <3>2
  <2>5. last \in Blockers
    <3>1. last \in Threads
      BY <2>2, MaxThreadsAssumption DEF Threads
    <3> QED
      BY <3>1
  <2>6. steps' \in 0 .. NSteps
    BY <1>9, <1>3 DEF Nondet, Performs, EvalStep, Evaluates, MayStep
  <2>7. status' \in [Threads -> ThreadStatus]
    BY <2>1 DEF SchedulerTypeOK, ThreadStatus
  <2>8. /\ blockingObject' \in [Threads -> Blockers \cup {NIL}]
        /\ waitingThreads' \in [Blockers -> Seq(Threads)]
    <3>1. \A b \in Blockers : Append(waitingThreads[b], t) \in Seq(Threads)
      BY DEF SchedulerTypeOK
    <3> QED
      BY <2>1, <2>5, <3>1 DEF SchedulerTypeOK
  <2> HIDE DEF frames, last
  <2>9. /\ SpawnKids(t, k, frames)
        /\ hasValue' = [hasValue EXCEPT ![t] = FALSE]
        /\ stray' = TRUE
        /\ UNCHANGED <<current, waking, killing>>
    BY <1>9, <2>1 DEF frames, Nondet, Performs, EvalStep
  <2>10. SchedulerTypeOK'
    BY <2>2, <2>4, <2>6, <2>7, <2>8, <2>9, SpawnKidsType DEF SchedulerTypeOK
  <2>11. ControlOK'
    <3>1. /\ running # <<>> => running' # <<>> /\ Head(running') = Head(running)
          /\ \A u \in Threads : \/ estack'[u] = <<Code>>
                                \/ estack'[u] = estack[u]
                                \/ estack'[u] = frames
      BY <2>2, <2>4, <2>9, SpawnKidsType
    <3> QED
      BY <1>2, <2>4, <2>9, <3>1 DEF ControlOK
  <2> QED
    BY <2>10, <2>11
<1>10. CASE NondetContinue(t)
  <2> DEFINE kids == Head(estack[t]).kids
  <2>1. /\ estack[t] # <<>>
        /\ kids \in Seq(Threads)
        /\ steps' \in 0 .. NSteps
    BY <1>10, <1>1, <1>3 DEF NondetContinue, Evaluates, MayStep, Frame
  <2>2. killing' \in Seq(Threads) /\ hasValue' \in [Threads -> BOOLEAN]
    <3>1. CASE Finished(kids) = {}
      BY <1>10, <3>1 DEF NondetContinue, SchedulerTypeOK
    <3>2. CASE Finished(kids) # {}
      <4>1. PICK n \in Finished(kids) :
               /\ hasValue' = [hasValue EXCEPT ![kids[n]] = FALSE]
               /\ killing' = SubSeq(kids, n, Len(kids))
        BY <1>10, <3>2 DEF NondetContinue
      <4>2. n \in DOMAIN kids
        BY DEF Finished
      <4>3. SubSeq(kids, n, Len(kids)) \in Seq(Threads)
        BY <2>1, <4>2, SubSeqProperties
      <4> QED
        BY <4>1, <4>3 DEF SchedulerTypeOK
    <3> QED
      BY <3>1, <3>2
  <2>3. SchedulerTypeOK'
    BY <1>10, <1>1, <2>1, <2>2 DEF NondetContinue, SchedulerTypeOK, queueVars, allocVars
  <2>4. ControlOK'
    BY <1>10, <1>1, <2>1 DEF NondetContinue, ControlOK, queueVars, SchedulerTypeOK
  <2> QED
    BY <2>3, <2>4
<1>11. CASE Compute(t) \/ Yield(t)
  <2>1. steps' \in 0 .. NSteps
    BY <1>11, <1>3, NStepsAssumption DEF Compute, Yield, EvalStep, Evaluates, MayStep
  <2>2. UNCHANGED <<current, waking, killing, queueVars, workVars, allocVars, stray>>
    BY <1>11 DEF Compute, Yield, EvalStep
  <2>3. SchedulerTypeOK' /\ ControlOK'
    BY <2>1, <2>2 DEF SchedulerTypeOK, ControlOK, queueVars, workVars, allocVars
  <2> QED
    BY <2>3
<1>12. CASE Return(t)
  <2>1. estack[t] # <<>> /\ steps' \in 0 .. NSteps
    BY <1>12, <1>3 DEF Return, EvalStep, Evaluates, MayStep
  <2>2. SchedulerTypeOK'
    BY <1>12, <1>1, <2>1 DEF Return, EvalStep, SchedulerTypeOK, queueVars, allocVars
  <2>3. ControlOK'
    BY <1>12, <1>1, <2>1 DEF Return, EvalStep, ControlOK, queueVars, SchedulerTypeOK
  <2> QED
    BY <2>2, <2>3
<1>13. CASE Catch(t)
  <2>1. steps' \in 0 .. NSteps
    BY <1>13, <1>3, NStepsAssumption DEF Catch, Longjmp, Evaluates, MayStep
  <2>2. PICK i \in DOMAIN estack[t] :
           estack' = [estack EXCEPT ![t] = SubSeq(estack[t], i, Len(estack[t]))]
    BY <1>13 DEF Catch, SchedulerTypeOK
  <2>3. SchedulerTypeOK'
    BY <1>13, <1>1, <2>1, <2>2 DEF Catch, Longjmp, SchedulerTypeOK, queueVars, allocVars
  <2>4. ControlOK'
    BY <1>13, <1>1, <2>2 DEF Catch, Longjmp, ControlOK, queueVars, SchedulerTypeOK
  <2> QED
    BY <2>3, <2>4
<1>14. CASE Throw(t)
  <2>1. steps' \in 0 .. NSteps
    BY <1>14, <1>3, NStepsAssumption DEF Throw, Longjmp, Evaluates, MayStep
  <2>2. /\ estack' \in [Threads -> Seq(Frame)]
        /\ hasValue' \in [Threads -> BOOLEAN]
        /\ blockingObject' \in [Threads -> Blockers \cup {NIL}]
        /\ waitingThreads' \in [Blockers -> Seq(Threads)]
    <3>1. /\ estack' = [estack EXCEPT ![t] = <<>>]
          /\ hasValue' = [hasValue EXCEPT ![t] = TRUE]
          /\ blockingObject' = [blockingObject EXCEPT ![t] = NIL]
          /\ waitingThreads' = [waitingThreads EXCEPT ![t] = <<>>]
      BY <1>14 DEF Throw
    <3>2. /\ estack \in [Threads -> Seq(Frame)]
          /\ hasValue \in [Threads -> BOOLEAN]
          /\ blockingObject \in [Threads -> Blockers \cup {NIL}]
          /\ waitingThreads \in [Blockers -> Seq(Threads)]
      BY DEF SchedulerTypeOK
    <3>3. <<>> \in Seq(Frame) /\ <<>> \in Seq(Threads)
      OBVIOUS
    <3> QED
      BY <3>1, <3>2, <3>3
  <2>3. tid' \in [Threads -> Nat] /\ nextTid' \in Nat
    BY <1>14 DEF Throw, SchedulerTypeOK
  <2>4. SchedulerTypeOK'
    BY <1>14, <2>1, <2>2, <2>3 DEF Throw, Longjmp, SchedulerTypeOK
  <2>5. ControlOK'
    BY <1>14, <1>2 DEF Throw, Longjmp, ControlOK, SchedulerTypeOK
  <2> QED
    BY <2>4, <2>5
<1> QED
  BY <1>4, <1>5, <1>6, <1>7, <1>8, <1>9, <1>10, <1>11, <1>12, <1>13, <1>14 DEF TaskStep


\* An operation of a program takes one of the steps of the slice.
LEMMA PerformsType ==
    ASSUME SchedulerTypeOK, NEW t, NEW op, Performs(t, op)
    PROVE  steps' \in 0 .. NSteps /\ UNCHANGED <<current, waking, killing>>
<1>1. steps > 0 /\ steps' = steps - 1 /\ UNCHANGED <<current, waking, killing>>
  BY DEF Performs, EvalStep, Evaluates, MayStep
<1>2. steps \in 0 .. NSteps /\ NSteps \in Nat
  BY NStepsAssumption DEF SchedulerTypeOK
<1>3. steps - 1 \in 0 .. NSteps
  BY <1>1, <1>2
<1> QED
  BY <1>1, <1>3

\* Locks: lock:acquire and lock:release.
LEMMA LockStepType ==
    ASSUME SchedulerTypeOK, LockTypeOK, ControlOK, repl = "run", repl' = repl,
           NEW t \in Threads, LockStep(t)
    PROVE  SchedulerTypeOK' /\ LockTypeOK' /\ ControlOK'
<1> USE Constants
<1>1. PICK l \in Locks : Acquire(t, l) \/ Release(t, l)
  BY DEF LockStep
<1>2. Performs(t, "acquire") \/ Performs(t, "release")
  BY <1>1 DEF Acquire, Release, Releasing, SetFree, HandOver
<1>3. steps' \in 0 .. NSteps /\ UNCHANGED <<current, waking, killing>>
  BY <1>2, PerformsType
<1>4. LockTypeOK'
  <2>1. inside' \in [Threads -> SUBSET Locks] /\ rogue' \in BOOLEAN
    <3>1. inside[t] \cup {l} \in SUBSET Locks /\ inside[t] \ {l} \in SUBSET Locks
      BY DEF LockTypeOK
    <3>2. inside' \in [Threads -> SUBSET Locks]
      BY <1>1, <3>1 DEF Acquire, Release, Releasing, SetFree, HandOver, LockTypeOK
    <3>3. rogue' = rogue \/ rogue' = (rogue \/ l \notin inside[t])
      BY <1>1 DEF Acquire, Release, Releasing, SetFree, HandOver
    <3>4. rogue' \in BOOLEAN
      BY <3>3 DEF LockTypeOK
    <3> QED
      BY <3>2, <3>4
  <2>2. CASE Acquire(t, l)
    BY <2>1, <2>2 DEF Acquire, LockTypeOK
  <2>3. CASE Release(t, l) /\ waitingThreads[l] = <<>>
    BY <2>1, <2>3 DEF Release, Releasing, SetFree, HandOver, LockTypeOK
  <2>4. CASE Release(t, l) /\ waitingThreads[l] # <<>>
    <3>1. Head(waitingThreads[l]) \in Threads
      BY <2>4, DequeueType
    <3> QED
      BY <2>1, <2>4, <3>1 DEF Release, Releasing, SetFree, HandOver, LockTypeOK
  <2> QED
    BY <1>1, <2>2, <2>3, <2>4
<1>5. /\ UNCHANGED <<estack, allocVars, stray>>
      /\ hasValue' \in [Threads -> BOOLEAN]
  BY <1>1 DEF Acquire, Release, Releasing, SetFree, HandOver, workVars, SchedulerTypeOK
<1>6. /\ status' \in [Threads -> ThreadStatus]
      /\ blockingObject' \in [Threads -> Blockers \cup {NIL}]
      /\ waitingThreads' \in [Blockers -> Seq(Threads)]
      /\ running' \in Seq(Threads)
      /\ running # <<>> => running' # <<>> /\ Head(running') = Head(running)
  <2>1. CASE UNCHANGED queueVars
    BY <2>1 DEF queueVars, SchedulerTypeOK
  <2>2. CASE BlockThread(t, l) /\ UNCHANGED running
    BY <2>2, BlockThreadType DEF SchedulerTypeOK
  <2>3. CASE Release(t, l) /\ waitingThreads[l] # <<>>
    <3> DEFINE w == Head(waitingThreads[l])
    <3>1. w \in Threads /\ waitingThreads' \in [Blockers -> Seq(Threads)]
      <4>1. waitingThreads' = [waitingThreads EXCEPT ![l] = Tail(@)]
        BY <2>3 DEF Release, Releasing, SetFree, HandOver
      <4> QED
        BY <2>3, <4>1, DequeueType
    <3>2. /\ AddThread(w)
          /\ blockingObject' = [blockingObject EXCEPT ![w] = NIL]
      BY <2>3 DEF Release, Releasing, SetFree, HandOver, UnblockThread
    <3>3. blockingObject' \in [Threads -> Blockers \cup {NIL}]
      BY <3>1, <3>2 DEF SchedulerTypeOK
    <3> QED
      BY <3>1, <3>2, <3>3, AddThreadType
  <2> QED
    BY <1>1, <2>1, <2>2, <2>3 DEF Acquire, Release, Releasing, SetFree, HandOver
<1>7. SchedulerTypeOK'
  BY <1>3, <1>5, <1>6 DEF SchedulerTypeOK, allocVars
<1>8. ControlOK'
  BY <1>3, <1>5, <1>6 DEF ControlOK
<1> QED
  BY <1>4, <1>7, <1>8

\* Message queues: msgq:enq and msgq:wait.
LEMMA MsgQStepType ==
    ASSUME SchedulerTypeOK, MsgQTypeOK, ControlOK, repl = "run", repl' = repl,
           NEW t \in Threads, MsgQStep(t)
    PROVE  SchedulerTypeOK' /\ MsgQTypeOK' /\ ControlOK'
<1> USE Constants
<1>1. PICK q \in MsgQs : Wait(t, q) \/ \E m \in Messages : Enq(t, q, m)
  BY DEF MsgQStep
<1>2. Performs(t, "wait") \/ Performs(t, "enq")
  BY <1>1 DEF Wait, Enq, Trigger
<1>3. steps' \in 0 .. NSteps /\ UNCHANGED <<current, waking, killing>>
  BY <1>2, PerformsType
<1>4. UNCHANGED <<estack, allocVars, stray>>
  BY <1>1 DEF Wait, Enq, Trigger
<1>5. CASE Wait(t, q)
  <2>1. asked' \in [MsgQs -> Seq(Threads)]
    <3>1. Append(asked[q], t) \in Seq(Threads)
      BY DEF MsgQTypeOK
    <3> QED
      BY <1>5, <3>1 DEF Wait, MsgQTypeOK
  <2>2. hasValue' \in [Threads -> BOOLEAN] /\ running' = running /\ sent' = sent
    BY <1>5 DEF Wait, SchedulerTypeOK, queueVars
  <2>3. /\ messages' \in [MsgQs -> Seq(Messages)]
        /\ got' \in [MsgQs -> Seq(Threads \X Messages)]
    <3>1. CASE messages[q] = <<>>
      BY <1>5, <3>1 DEF Wait, MsgQTypeOK
    <3>2. CASE messages[q] # <<>>
      <4>1. messages[q] \in Seq(Messages) /\ got[q] \in Seq(Threads \X Messages)
        BY DEF MsgQTypeOK
      <4>2. /\ Tail(messages[q]) \in Seq(Messages)
            /\ Append(got[q], <<t, Head(messages[q])>>) \in Seq(Threads \X Messages)
        BY <3>2, <4>1
      <4> QED
        BY <1>5, <3>2, <4>2 DEF Wait, MsgQTypeOK
    <3> QED
      BY <3>1, <3>2
  <2>4. /\ status' \in [Threads -> ThreadStatus]
        /\ blockingObject' \in [Threads -> Blockers \cup {NIL}]
        /\ waitingThreads' \in [Blockers -> Seq(Threads)]
    <3>1. CASE BlockThread(t, q)
      BY <3>1, BlockThreadType
    <3>2. CASE UNCHANGED queueVars
      BY <3>2 DEF queueVars, SchedulerTypeOK
    <3> QED
      BY <1>5, <3>1, <3>2 DEF Wait
  <2>5. SchedulerTypeOK'
    BY <1>3, <1>4, <2>2, <2>4 DEF SchedulerTypeOK, allocVars
  <2>6. MsgQTypeOK'
    BY <2>1, <2>2, <2>3 DEF MsgQTypeOK
  <2>7. ControlOK'
    BY <1>3, <1>4, <2>2 DEF ControlOK
  <2> QED
    BY <2>5, <2>6, <2>7
<1>6. CASE \E m \in Messages : Enq(t, q, m)
  <2>1. PICK m \in Messages : Enq(t, q, m)
    BY <1>6
  <2> DEFINE queued == Append(messages[q], m)
             w == Head(waitingThreads[q])
  <2>2. asked' = asked /\ sent' = [sent EXCEPT ![q] = Append(sent[q], m)]
    BY <2>1 DEF Enq, Trigger, MsgQTypeOK
  <2>3. sent' \in [MsgQs -> Seq(Messages)]
    <3>1. Append(sent[q], m) \in Seq(Messages)
      BY DEF MsgQTypeOK
    <3> QED
      BY <2>2, <3>1 DEF MsgQTypeOK
  <2>4. queued \in Seq(Messages) /\ queued # <<>>
    <3>1. messages[q] \in Seq(Messages)
      BY DEF MsgQTypeOK
    <3> QED
      BY <3>1, AppendQueue
  <2>5. Head(queued) \in Messages /\ Tail(queued) \in Seq(Messages)
    <3> HIDE DEF queued
    <3> QED
      BY <2>4
  <2>6. CASE waitingThreads[q] = <<>>
    <3>1. /\ messages' = [messages EXCEPT ![q] = queued]
          /\ UNCHANGED <<got, queueVars, hasValue>>
      BY <2>1, <2>6 DEF Enq, Trigger
    <3> HIDE DEF queued
    <3>2. SchedulerTypeOK'
      BY <1>3, <1>4, <3>1 DEF SchedulerTypeOK, queueVars, allocVars
    <3>3. MsgQTypeOK'
      BY <2>2, <2>3, <2>4, <3>1 DEF MsgQTypeOK
    <3>4. ControlOK'
      BY <1>3, <1>4, <3>1 DEF ControlOK, queueVars
    <3> QED
      BY <3>2, <3>3, <3>4
  <2>7. CASE waitingThreads[q] # <<>>
    <3>1. /\ messages' = [messages EXCEPT ![q] = Tail(queued)]
          /\ waitingThreads' = [waitingThreads EXCEPT ![q] = Tail(@)]
          /\ got' = [got EXCEPT ![q] = Append(@, <<w, Head(queued)>>)]
          /\ hasValue' = [hasValue EXCEPT ![w] = TRUE]
          /\ AddThread(w)
          /\ blockingObject' = [blockingObject EXCEPT ![w] = NIL]
      BY <2>1, <2>7 DEF Enq, Trigger, UnblockThread
    <3>2. w \in Threads /\ waitingThreads' \in [Blockers -> Seq(Threads)]
      BY <2>7, <3>1, DequeueType
    <3> HIDE DEF queued, w
    <3>3. /\ hasValue' \in [Threads -> BOOLEAN]
          /\ blockingObject' \in [Threads -> Blockers \cup {NIL}]
      BY <3>1, <3>2 DEF SchedulerTypeOK
    <3>4. /\ status' \in [Threads -> ThreadStatus]
          /\ running' \in Seq(Threads)
          /\ running # <<>> => running' # <<>> /\ Head(running') = Head(running)
      BY <3>1, <3>2, AddThreadType
    <3>5. SchedulerTypeOK'
      BY <1>3, <1>4, <3>2, <3>3, <3>4 DEF SchedulerTypeOK, allocVars
    <3>6. got' \in [MsgQs -> Seq(Threads \X Messages)]
      <4>1. got[q] \in Seq(Threads \X Messages)
        BY DEF MsgQTypeOK
      <4>2. Append(got[q], <<w, Head(queued)>>) \in Seq(Threads \X Messages)
        BY <2>5, <3>2, <4>1
      <4> QED
        BY <3>1, <4>2 DEF MsgQTypeOK
    <3>7. MsgQTypeOK'
      BY <2>2, <2>3, <2>5, <3>1, <3>6 DEF MsgQTypeOK
    <3>8. ControlOK'
      BY <1>3, <1>4, <3>4 DEF ControlOK
    <3> QED
      BY <3>5, <3>7, <3>8
  <2> QED
    BY <2>6, <2>7
<1> QED
  BY <1>1, <1>5, <1>6

\* repl/repl.c: the read-eval-print loop.
LEMMA ReplStepType ==
    ASSUME SchedulerTypeOK, ControlOK, repl \in {"read", "run", "quit", "aborted"},
           ReplEval \/ ReplPrint \/ ReplQuit
    PROVE  /\ SchedulerTypeOK' /\ ControlOK'
           /\ repl' \in {"read", "run", "quit", "aborted"}
           /\ UNCHANGED <<lockVars, msgqVars>>
<1> USE Constants
<1>1. CASE ReplEval
  <2>1. /\ status' \in [Threads -> ThreadStatus]
        /\ running' \in Seq(Threads)
    BY <1>1, AddThreadType DEF ReplEval
  <2>2. estack[Main] \in Seq(Frame) /\ FramesOK(estack[Main])
    BY DEF SchedulerTypeOK, ControlOK
  <2>3. Code \in Frame /\ Code.kind # "cobegin"
    BY FrameTypes DEF Code
  <2>4. <<Code>> \o estack[Main] \in Seq(Frame) /\ FramesOK(<<Code>> \o estack[Main])
    BY <2>2, <2>3, FramesStayOK
  <2>5. estack' = [estack EXCEPT ![Main] = <<Code>> \o estack[Main]]
    BY <1>1 DEF ReplEval
  <2>6. stray' \in BOOLEAN
    BY <1>1 DEF ReplEval, SchedulerTypeOK
  <2>7. SchedulerTypeOK'
    <3>1. UNCHANGED <<current, steps, waking, killing, nThreads, tid, nextTid>>
          /\ UNCHANGED <<blockingObject, waitingThreads, hasValue>>
      BY <1>1 DEF ReplEval, sliceVars, allocVars
    <3>2. estack' \in [Threads -> Seq(Frame)]
      BY <2>4, <2>5 DEF SchedulerTypeOK
    <3> QED
      BY <2>1, <2>6, <3>1, <3>2 DEF SchedulerTypeOK
  <2>8. ControlOK'
    BY <1>1, <2>4, <2>5 DEF ReplEval, ControlOK, SchedulerTypeOK, sliceVars
  <2> QED
    BY <1>1, <2>7, <2>8 DEF ReplEval
<1>2. CASE ReplPrint
  <2>1. SchedulerTypeOK'
    BY <1>2 DEF ReplPrint, SchedulerTypeOK, queueVars, sliceVars, allocVars
  <2>2. ControlOK'
    BY <1>2 DEF ReplPrint, ControlOK, queueVars, sliceVars
  <2> QED
    BY <1>2, <2>1, <2>2 DEF ReplPrint
<1>3. CASE ReplQuit
  <2>1. SchedulerTypeOK'
    BY <1>3 DEF ReplQuit, SchedulerTypeOK, schedulerVars, queueVars, sliceVars,
                workVars, allocVars
  <2>2. ControlOK'
    BY <1>3 DEF ReplQuit, ControlOK, schedulerVars, queueVars, sliceVars, workVars
  <2> QED
    BY <1>3, <2>1, <2>2 DEF ReplQuit
<1> QED
  BY <1>1, <1>2, <1>3

-----------------------------------------------------------------------------
\* The initial state of the interpreter.
LEMMA InitType == Init => TypeOK /\ ControlOK
<1> SUFFICES ASSUME Init PROVE TypeOK /\ ControlOK
  OBVIOUS
<1> USE Constants
<1>1. SchedulerTypeOK
  <2>1. /\ running \in Seq(Threads) /\ killing \in Seq(Threads)
        /\ waitingThreads \in [Blockers -> Seq(Threads)]
        /\ estack \in [Threads -> Seq(Frame)]
    BY DEF Init, SchedulerInit
  <2>2. /\ status \in [Threads -> ThreadStatus]
        /\ blockingObject \in [Threads -> Blockers \cup {NIL}]
        /\ hasValue \in [Threads -> BOOLEAN]
        /\ stray \in BOOLEAN
    BY DEF Init, SchedulerInit, ThreadStatus
  <2>3. /\ current \in Threads \cup {NIL}
        /\ steps \in 0 .. NSteps
        /\ nThreads \in 1 .. MaxThreads
        /\ tid \in [Threads -> Nat]
        /\ nextTid \in Nat
    BY MaxThreadsAssumption, NStepsAssumption DEF Init, SchedulerInit
  <2>4. waking \in [thread : Threads \cup {NIL}, n : Nat]
    BY WakingTypes DEF Init, SchedulerInit
  <2> QED
    BY <2>1, <2>2, <2>3, <2>4 DEF SchedulerTypeOK
<1>2. LockTypeOK /\ MsgQTypeOK
  <2>1. /\ lockedBy \in [Locks -> Threads \cup {NIL}]
        /\ inside = [t \in Threads |-> {}]
        /\ rogue \in BOOLEAN
    BY DEF Init, LockInit
  <2>2. inside \in [Threads -> SUBSET Locks]
    BY <2>1
  <2>3. MsgQTypeOK
    BY DEF Init, MsgQInit, MsgQTypeOK
  <2> QED
    BY <2>1, <2>2, <2>3 DEF LockTypeOK
<1>3. ControlOK
  BY DEF Init, SchedulerInit, ControlOK, FramesOK
<1> QED
  BY <1>1, <1>2, <1>3 DEF Init, TypeOK

\* Every step of the interpreter keeps the types and the control facts.
LEMMA NextType ==
    TypeOK /\ ControlOK /\ [Next]_vars => TypeOK' /\ ControlOK'
<1> SUFFICES ASSUME TypeOK, ControlOK, [Next]_vars PROVE TypeOK' /\ ControlOK'
  OBVIOUS
<1>1. SchedulerTypeOK /\ LockTypeOK /\ MsgQTypeOK /\ repl \in {"read", "run", "quit", "aborted"}
  BY DEF TypeOK
<1>2. CASE ReplEval \/ ReplPrint \/ ReplQuit
  BY <1>1, <1>2, ReplStepType DEF TypeOK, LockTypeOK, MsgQTypeOK, lockVars, msgqVars
<1>3. CASE RunAll
  <2>1. repl = "run" /\ repl' = repl
    BY <1>3 DEF RunAll
  <2>2. CASE SliceStep /\ UNCHANGED <<lockVars, msgqVars>>
    BY <1>1, <2>1, <2>2, SliceStepType
       DEF TypeOK, LockTypeOK, MsgQTypeOK, lockVars, msgqVars
  <2>3. CASE (\E t \in Threads : TaskStep(t)) /\ UNCHANGED <<lockVars, msgqVars>>
    BY <1>1, <2>1, <2>3, TaskStepType
       DEF TypeOK, LockTypeOK, MsgQTypeOK, lockVars, msgqVars
  <2>4. CASE (\E t \in Threads : LockStep(t)) /\ UNCHANGED msgqVars
    BY <1>1, <2>1, <2>4, LockStepType DEF TypeOK, MsgQTypeOK, msgqVars
  <2>5. CASE (\E t \in Threads : MsgQStep(t)) /\ UNCHANGED lockVars
    BY <1>1, <2>1, <2>5, MsgQStepType DEF TypeOK, LockTypeOK, lockVars
  <2> QED
    BY <1>3, <2>2, <2>3, <2>4, <2>5 DEF RunAll
<1>4. CASE UNCHANGED vars
  BY <1>1, <1>4 DEF TypeOK, ControlOK, SchedulerTypeOK, LockTypeOK, MsgQTypeOK, vars,
                schedulerVars, queueVars, sliceVars, workVars, allocVars, lockVars, msgqVars
<1> QED
  BY <1>2, <1>3, <1>4 DEF Next, Ended

\* The types alone are not inductive: the loop that wakes waiting threads needs
\* to know that it works on the queue of a thread.
LEMMA TypeInvariant == Spec => [](TypeOK /\ ControlOK)
<1>1. Init => TypeOK /\ ControlOK
  BY InitType
<1>2. TypeOK /\ ControlOK /\ [Next]_vars => TypeOK' /\ ControlOK'
  BY NextType
<1> QED
  BY <1>1, <1>2, PTL DEF Spec

\* Every variable always has the type that its C declaration and use give it
\* (evaluator.c, threadmanager.c, lock.c, msgq.c).
THEOREM TypeCorrect == Spec => []TypeOK
BY TypeInvariant, PTL

-----------------------------------------------------------------------------
(* Where a thread is. *)

\* The run queue, the queues of waiting threads and the states of the threads
\* agree with each other.
QueuesOK ==
    /\ Distinct(running)
    /\ \A t \in Threads : status[t] = "Running" => Has(running, t)
    /\ \A t \in Threads : Has(running, t) => status[t] = "Running" \/ t = current
    /\ \A b \in Blockers : Distinct(waitingThreads[b])
    /\ \A b \in Blockers : \A t \in Threads :
          Has(waitingThreads[b], t) => status[t] = "Blocked" /\ blockingObject[t] = b
    /\ \A t \in Threads : status[t] # "Blocked" => blockingObject[t] = NIL

\* The rest of ThreadsOK.
SlicesOK ==
    /\ killing = <<>>
    /\ \A t \in Threads : estack[t] \in Seq(CalmFrame)
    /\ waking # NotWaking => waking.thread = current /\ status[current] = "Terminated"
    /\ \A t \in Threads : t >= nThreads => status[t] = "Dormant"

Calm == ~stray => SlicesOK /\ QueuesOK

\* Calm is the conjunction of three parts of IInv.
LEMMA CalmParts == Calm <=> ThreadsOK /\ RunQueueIsExact /\ WaiterIsBlocked
BY DEF Calm, SlicesOK, QueuesOK, ThreadsOK, RunQueueIsExact, WaiterIsBlocked

-----------------------------------------------------------------------------
(* The operations that move threads between queues.                         *)

\* A thread in a slice blocks (threadManager_blockThread).
LEMMA BlockKeepsQueues ==
    ASSUME SchedulerTypeOK, QueuesOK, NEW t \in Threads, NEW b \in Blockers,
           current = t, status[t] = "Running", BlockThread(t, b),
           UNCHANGED <<current, running>>
    PROVE  QueuesOK'
<1>1. CASE UNCHANGED <<status, blockingObject, waitingThreads>>
  BY <1>1 DEF QueuesOK
<1>2. CASE /\ status' = [status EXCEPT ![t] = "Blocked"]
           /\ blockingObject' = [blockingObject EXCEPT ![t] = b]
           /\ waitingThreads' = [waitingThreads EXCEPT ![b] = Append(@, t)]
  <2>1. /\ waitingThreads[b] \in Seq(Threads)
        /\ waitingThreads'[b] = Append(waitingThreads[b], t)
        /\ \A c \in Blockers : c # b => waitingThreads'[c] = waitingThreads[c]
        /\ status'[t] = "Blocked" /\ blockingObject'[t] = b
        /\ \A u \in Threads : u # t => /\ status'[u] = status[u]
                                       /\ blockingObject'[u] = blockingObject[u]
    BY <1>2 DEF SchedulerTypeOK
  <2>2. \A c \in Blockers : ~Has(waitingThreads[c], t)
    BY DEF QueuesOK
  <2>3. /\ \A u : Has(waitingThreads'[b], u) <=> Has(waitingThreads[b], u) \/ u = t
        /\ Distinct(waitingThreads'[b])
    BY <2>1, <2>2, AppendQueue DEF QueuesOK
  <2>4. \A u \in Threads : /\ status'[u] = "Running" => Has(running', u)
                           /\ Has(running', u) => status'[u] = "Running" \/ u = current'
    BY <2>1 DEF QueuesOK
  <2>5. \A c \in Blockers : \A u \in Threads :
           Has(waitingThreads'[c], u) => status'[u] = "Blocked" /\ blockingObject'[u] = c
    <3> SUFFICES ASSUME NEW c \in Blockers, NEW u \in Threads, Has(waitingThreads'[c], u)
                 PROVE  status'[u] = "Blocked" /\ blockingObject'[u] = c
      OBVIOUS
    <3>1. CASE c = b /\ u = t
      BY <2>1, <3>1
    <3>2. CASE u # t
      <4>1. Has(waitingThreads[c], u)
        BY <2>1, <2>3, <3>2
      <4> QED
        BY <2>1, <3>2, <4>1 DEF QueuesOK
    <3>3. CASE c # b /\ u = t
      BY <2>1, <2>2, <3>3
    <3> QED
      BY <3>1, <3>2, <3>3
  <2>6. \A u \in Threads : status'[u] # "Blocked" => blockingObject'[u] = NIL
    BY <2>1 DEF QueuesOK
  <2> QED
    BY <2>1, <2>3, <2>4, <2>5, <2>6 DEF QueuesOK
<1> QED
  BY <1>1, <1>2 DEF BlockThread

\* The thread that has waited longest for b is made to run (queue_deq followed by
\* threadManager_unblockThread); it was in no other queue.
LEMMA UnblockKeepsQueues ==
    ASSUME SchedulerTypeOK, QueuesOK, NEW b \in Blockers, waitingThreads[b] # <<>>,
           waitingThreads' = [waitingThreads EXCEPT ![b] = Tail(@)],
           UnblockThread(Head(waitingThreads[b])),
           current \in Threads, status[current] # "Blocked", UNCHANGED current
    PROVE  /\ QueuesOK'
           /\ Head(waitingThreads[b]) \in Threads
           /\ status[Head(waitingThreads[b])] = "Blocked"
           /\ blockingObject[Head(waitingThreads[b])] = b
           /\ status' = [status EXCEPT ![Head(waitingThreads[b])] = "Running"]
           /\ blockingObject' = [blockingObject EXCEPT ![Head(waitingThreads[b])] = NIL]
<1> DEFINE w == Head(waitingThreads[b])
<1>1. /\ w \in Threads
      /\ \A u : Has(waitingThreads[b], u) <=> u = w \/ Has(Tail(waitingThreads[b]), u)
      /\ Distinct(Tail(waitingThreads[b])) /\ ~Has(Tail(waitingThreads[b]), w)
  BY TailQueue DEF SchedulerTypeOK, QueuesOK
<1>2. status[w] = "Blocked" /\ blockingObject[w] = b
  BY <1>1 DEF QueuesOK
<1>3. /\ status' = [status EXCEPT ![w] = "Running"]
      /\ blockingObject' = [blockingObject EXCEPT ![w] = NIL]
      /\ running' = Append(running, w)
  BY <1>2 DEF UnblockThread, AddThread
<1> HIDE DEF w
<1>4. /\ waitingThreads'[b] = Tail(waitingThreads[b])
      /\ \A c \in Blockers : c # b => waitingThreads'[c] = waitingThreads[c]
      /\ status'[w] = "Running" /\ blockingObject'[w] = NIL
      /\ \A u \in Threads : u # w => /\ status'[u] = status[u]
                                     /\ blockingObject'[u] = blockingObject[u]
  BY <1>1, <1>3 DEF SchedulerTypeOK
<1>5. ~Has(running, w)
  BY <1>1, <1>2 DEF QueuesOK
<1>6. /\ Distinct(running')
      /\ \A u : Has(running', u) <=> Has(running, u) \/ u = w
  BY <1>1, <1>3, <1>5, AppendQueue DEF SchedulerTypeOK, QueuesOK
<1>7. \A u \in Threads : /\ status'[u] = "Running" => Has(running', u)
                         /\ Has(running', u) => status'[u] = "Running" \/ u = current'
  BY <1>4, <1>6 DEF QueuesOK
<1>8. \A c \in Blockers : \A u \in Threads :
         Has(waitingThreads'[c], u) => status'[u] = "Blocked" /\ blockingObject'[u] = c
  BY <1>1, <1>2, <1>4 DEF QueuesOK
<1>9. \A c \in Blockers : Distinct(waitingThreads'[c])
  BY <1>1, <1>4 DEF QueuesOK
<1>10. \A u \in Threads : status'[u] # "Blocked" => blockingObject'[u] = NIL
  BY <1>4 DEF QueuesOK
<1>11. QueuesOK'
  BY <1>6, <1>7, <1>8, <1>9, <1>10 DEF QueuesOK
<1> QED
  BY <1>1, <1>2, <1>3, <1>11 DEF w

\* The thread in a slice creates threads and goes on (evaluator_new followed by
\* threadManager_addThread).
LEMMA SpawnKeepsQueues ==
    ASSUME SchedulerTypeOK, SlicesOK, QueuesOK, NEW t \in Threads, NEW k \in Nat,
           NEW frames \in Seq(CalmFrame), SpawnKids(t, k, frames),
           current \in Threads, status[current] = "Running",
           status' = [u \in Threads |->
                        IF u \in nThreads .. nThreads + k - 1 THEN "Running"
                        ELSE status[u]],
           UNCHANGED <<current, blockingObject, waitingThreads>>
    PROVE  /\ QueuesOK'
           /\ \A u \in Threads : estack'[u] \in Seq(CalmFrame)
           /\ \A u \in Threads : u >= nThreads' => status'[u] = "Dormant"
           /\ \A u \in nThreads .. nThreads + k - 1 :
                 u \in Threads /\ status[u] = "Dormant" /\ blockingObject[u] = NIL
<1> DEFINE IsKid(u) == u \in nThreads .. nThreads + k - 1
<1>1. nThreads \in Nat /\ nThreads + k <= MaxThreads /\ nThreads' = nThreads + k
  BY MaxThreadsAssumption DEF SpawnKids, SchedulerTypeOK
<1>2. \A u \in Threads : IsKid(u) => status[u] = "Dormant" /\ blockingObject[u] = NIL
  BY <1>1, Constants DEF SlicesOK, QueuesOK
<1>3. \A u : IsKid(u) => u \in Threads
  BY <1>1, MaxThreadsAssumption DEF Threads
<1>4. \A u \in Threads : status'[u] = IF IsKid(u) THEN "Running" ELSE status[u]
  OBVIOUS
<1>5. \A u \in Threads : IsKid(u) => ~Has(running, u)
  BY <1>2 DEF QueuesOK
<1>6. /\ Distinct(running')
      /\ \A u \in Threads : Has(running', u) <=> Has(running, u) \/ IsKid(u)
  <2>1. running' = running \o NewKids(k)
    BY DEF SpawnKids
  <2>2. \A u \in nThreads .. nThreads + k - 1 : ~Has(running, u)
    BY <1>3, <1>5
  <2> QED
    BY <1>1, <2>1, <2>2, SpawnQueue DEF SchedulerTypeOK, QueuesOK
<1>7. QueuesOK'
  <2> HIDE DEF IsKid
  <2>1. \A u \in Threads : /\ status'[u] = "Running" => Has(running', u)
                           /\ Has(running', u) => status'[u] = "Running" \/ u = current'
    BY <1>4, <1>6 DEF QueuesOK
  <2>2. \A c \in Blockers : \A u \in Threads :
           Has(waitingThreads'[c], u) => status'[u] = "Blocked" /\ blockingObject'[u] = c
    BY <1>2, <1>4 DEF QueuesOK
  <2>3. \A u \in Threads : status'[u] # "Blocked" => blockingObject'[u] = NIL
    BY <1>2, <1>4 DEF QueuesOK
  <2> QED
    BY <1>6, <2>1, <2>2, <2>3 DEF QueuesOK
<1>8. \A u \in Threads : estack'[u] \in Seq(CalmFrame)
  <2>1. <<Code>> \in Seq(CalmFrame)
    <3>1. Code \in CalmFrame
      BY FrameTypes DEF CalmFrame, Code
    <3> QED
      BY <3>1
  <2>2. \A u \in Threads : estack'[u] = <<Code>> \/ estack'[u] = estack[u]
                              \/ estack'[u] = frames
    BY DEF SpawnKids
  <2> QED
    BY <2>1, <2>2 DEF SlicesOK
<1>9. \A u \in Threads : u >= nThreads' => status'[u] = "Dormant"
  BY <1>1, <1>4, Constants DEF SlicesOK
<1> QED
  BY <1>2, <1>3, <1>7, <1>8, <1>9

-----------------------------------------------------------------------------
(* Calm, action by action.                                                  *)

\* Nothing that QueuesOK speaks of changes.
LEMMA SameQueues ==
    ASSUME QueuesOK, UNCHANGED <<running, status, blockingObject, waitingThreads, current>>
    PROVE  QueuesOK'
BY DEF QueuesOK

\* The frames of one thread change, into frames that are in no nondet.
LEMMA CalmFrames ==
    ASSUME SchedulerTypeOK, \A u \in Threads : estack[u] \in Seq(CalmFrame),
           NEW t \in Threads, NEW frames \in Seq(CalmFrame),
           estack' = [estack EXCEPT ![t] = frames]
    PROVE  \A u \in Threads : estack'[u] \in Seq(CalmFrame)
BY DEF SchedulerTypeOK

\* The steps of the slice machinery.
LEMMA SliceStepCalm ==
    ASSUME SchedulerTypeOK, ControlOK, SlicesOK, QueuesOK, SliceStep
    PROVE  SlicesOK' /\ QueuesOK'
<1> USE Constants
<1>1. CASE BeginSlice
  <2> DEFINE t == Head(running)
  <2>1. t \in Threads /\ Has(running, t) /\ t # current
    BY <1>1, TailQueue DEF BeginSlice, SchedulerTypeOK
  <2>2. status[t] = "Running"
    BY <2>1 DEF QueuesOK
  <2>3. /\ UNCHANGED <<running, blockingObject, waitingThreads, waking, killing,
                       estack, nThreads>>
        /\ status' = [status EXCEPT ![t] = "Running"]
        /\ current = NIL /\ current' = t
    BY <1>1 DEF BeginSlice, workVars, allocVars
  <2>4. status' = status
    BY <2>1, <2>2, <2>3 DEF SchedulerTypeOK
  <2>5. QueuesOK'
    BY <2>1, <2>3, <2>4 DEF QueuesOK
  <2>6. waking = NotWaking
    BY <2>3 DEF SlicesOK, ControlOK
  <2>7. SlicesOK'
    BY <2>3, <2>4, <2>6 DEF SlicesOK
  <2> QED
    BY <2>5, <2>7
<1>2. CASE WakeNext
  <2> DEFINE c == waking.thread
  <2>1. /\ c = current /\ c \in Threads /\ status[c] = "Terminated"
        /\ waitingThreads[c] # <<>>
    BY <1>2 DEF WakeNext, SlicesOK, ControlOK, SchedulerTypeOK
  <2>2. /\ waitingThreads' = [waitingThreads EXCEPT ![c] = Tail(@)]
        /\ UnblockThread(Head(waitingThreads[c]))
        /\ UNCHANGED <<current, killing, estack, nThreads>>
    BY <1>2 DEF WakeNext, workVars, allocVars
  <2> DEFINE w == Head(waitingThreads[c])
  <2>3. /\ QueuesOK' /\ w \in Threads /\ status[w] = "Blocked"
        /\ status' = [status EXCEPT ![w] = "Running"]
    BY <2>1, <2>2, UnblockKeepsQueues
  <2>4. waking'.thread = c
    BY <1>2, WakingTypes DEF WakeNext, SchedulerTypeOK
  <2> HIDE DEF w, c
  <2>5. w # c /\ status'[c] = "Terminated"
    BY <2>1, <2>3 DEF SchedulerTypeOK
  <2>6. \A u \in Threads : u >= nThreads => u # w /\ status'[u] = status[u]
    BY <2>3 DEF SlicesOK, SchedulerTypeOK
  <2>7. SlicesOK'
    BY <2>1, <2>2, <2>4, <2>5, <2>6 DEF SlicesOK
  <2> QED
    BY <2>3, <2>7
<1>3. CASE WakeDone
  <2>1. UNCHANGED <<running, status, blockingObject, waitingThreads, current, killing,
                    estack, nThreads>>
    BY <1>3 DEF WakeDone, queueVars, workVars, allocVars
  <2>2. waking' = NotWaking
    BY <1>3 DEF WakeDone
  <2>3. NotWaking' = NotWaking
    BY DEF NotWaking
  <2>4. SlicesOK'
    BY <2>1, <2>2, <2>3 DEF SlicesOK
  <2> QED
    BY <2>1, <2>4, SameQueues
<1>4. ~KillNext
  BY DEF KillNext, SlicesOK
<1>5. CASE EndSlice
  <2>1. /\ current \in Threads /\ running # <<>> /\ Head(running) = current
        /\ waking = NotWaking
    BY <1>5 DEF EndSlice, EndSliceOf, StepComplete, ControlOK, SchedulerTypeOK
  <2>2. /\ UNCHANGED <<status, blockingObject, waitingThreads, killing, waking, estack,
                       nThreads>>
        /\ current' = NIL
    BY <1>5 DEF EndSlice, EndSliceOf, workVars, allocVars
  <2>3. /\ Tail(running) \in Seq(Threads)
        /\ \A u : Has(running, u) <=> u = current \/ Has(Tail(running), u)
        /\ Distinct(Tail(running)) /\ ~Has(Tail(running), current)
    BY <2>1, TailQueue DEF SchedulerTypeOK, QueuesOK
  <2>4. /\ Distinct(running')
        /\ \A u : Has(running', u) <=>
                     Has(Tail(running), u) \/ (u = current /\ status[current] = "Running")
    <3>1. CASE status[current] = "Running"
      <4>1. running' = Append(Tail(running), current)
        BY <1>5, <3>1 DEF EndSlice, EndSliceOf
      <4> DEFINE rest == Tail(running)
      <4>2. /\ rest \in Seq(Threads) /\ Distinct(rest) /\ ~Has(rest, current)
            /\ \A u : Has(Tail(running), u) <=> Has(rest, u)
        BY <2>3
      <4> HIDE DEF rest
      <4>3. /\ \A u : Has(Append(rest, current), u) <=> Has(rest, u) \/ u = current
            /\ Distinct(Append(rest, current))
        BY <2>1, <4>2, AppendQueue
      <4>4. running' = Append(rest, current)
        BY <4>1 DEF rest
      <4> QED
        BY <3>1, <4>2, <4>3, <4>4
    <3>2. CASE status[current] # "Running"
      BY <1>5, <2>3, <3>2 DEF EndSlice, EndSliceOf
    <3> QED
      BY <3>1, <3>2
  <2>5. QueuesOK'
    BY <2>2, <2>3, <2>4 DEF QueuesOK
  <2>6. SlicesOK'
    BY <2>1, <2>2 DEF SlicesOK
  <2> QED
    BY <2>5, <2>6
<1> QED
  BY <1>1, <1>2, <1>3, <1>4, <1>5 DEF SliceStep

\* The steps of a thread that use neither locks nor message queues.  nondet is
\* where threads go astray.
LEMMA TaskStepCalm ==
    ASSUME SchedulerTypeOK, ControlOK, SlicesOK, QueuesOK, NEW t \in Threads, TaskStep(t),
           ~stray'
    PROVE  SlicesOK' /\ QueuesOK'
<1> USE Constants
<1>1. MayStep(t)
  BY DEF TaskStep, FinishThread, Async, Join, Cobegin, CobeginContinue, Nondet,
         NondetContinue, Compute, Return, Yield, Catch, Throw, Performs, EvalStep,
         Evaluates, Longjmp
<1>2. /\ current = t /\ status[t] = "Running" /\ blockingObject[t] = NIL
      /\ waking = NotWaking /\ killing = <<>>
      /\ t < nThreads
      /\ nThreads \in Nat
  <2>1. /\ current = t /\ status[t] = "Running" /\ waking = NotWaking /\ killing = <<>>
        /\ blockingObject[t] = NIL /\ nThreads \in Nat
    BY <1>1, MaxThreadsAssumption
       DEF MayStep, StepComplete, QueuesOK, SchedulerTypeOK
  <2>2. ~(t >= nThreads)
    BY <2>1 DEF SlicesOK
  <2> QED
    BY <2>1, <2>2
<1>3. NotWaking' = NotWaking
  BY DEF NotWaking
<1>4. estack[t] \in Seq(CalmFrame)
  BY DEF SlicesOK
<1>5. CASE FinishThread(t)
  <2>1. /\ status' = [status EXCEPT ![t] = "Terminated"]
        /\ waking' = [thread |-> t, n |-> 0]
        /\ UNCHANGED <<current, killing, running, blockingObject, waitingThreads, estack,
                       nThreads>>
    BY <1>5 DEF FinishThread, TerminateThread, workVars, allocVars
  <2>2. /\ status'[t] = "Terminated"
        /\ \A u \in Threads : u # t => status'[u] = status[u]
    BY <2>1 DEF SchedulerTypeOK
  <2>3. QueuesOK'
    BY <1>2, <2>1, <2>2 DEF QueuesOK
  <2>4. SlicesOK'
    BY <1>2, <2>1, <2>2 DEF SlicesOK
  <2> QED
    BY <2>3, <2>4
<1>6. CASE Async(t)
  <2>1. PICK k \in 1 .. MaxKids :
           /\ SpawnKids(t, k, estack[t])
           /\ status' = [u \in Threads |->
                           IF u \in nThreads .. nThreads + k - 1
                           THEN "Running" ELSE status[u]]
    BY <1>6 DEF Async
  <2>2. /\ k \in Nat
        /\ UNCHANGED <<current, waking, killing, blockingObject, waitingThreads>>
    BY <1>6, MaxKidsAssumption DEF Async, Performs, EvalStep
  <2>3. /\ QueuesOK'
        /\ \A u \in Threads : estack'[u] \in Seq(CalmFrame)
        /\ \A u \in Threads : u >= nThreads' => status'[u] = "Dormant"
    BY <1>2, <1>4, <2>1, <2>2, SpawnKeepsQueues
  <2>4. SlicesOK'
    BY <1>2, <1>3, <2>2, <2>3 DEF SlicesOK
  <2> QED
    BY <2>3, <2>4
<1>7. CASE Join(t)
  <2>1. PICK c \in Allocated : BlockThread(t, c)
    BY <1>7 DEF Join
  <2>2. c \in Blockers
    BY <1>2, MaxThreadsAssumption DEF Allocated, SchedulerTypeOK, Threads, Blockers
  <2>3. UNCHANGED <<current, waking, killing, running, estack, nThreads>>
    BY <1>7 DEF Join, Performs, EvalStep, allocVars
  <2>4. QueuesOK'
    BY <1>2, <2>1, <2>2, <2>3, BlockKeepsQueues
  <2>5. \A u \in Threads : u >= nThreads' => status'[u] = status[u]
    BY <1>2, <2>1, <2>3 DEF BlockThread, SchedulerTypeOK
  <2>6. SlicesOK'
    BY <1>2, <1>3, <2>3, <2>5 DEF SlicesOK
  <2> QED
    BY <2>4, <2>6
<1>8. CASE Cobegin(t)
  \* First the threads are created, then t blocks on the last of them.
  <2>1. PICK k \in 1 .. MaxKids :
           LET last == nThreads + k - 1
           IN  /\ SpawnKids(t, k, <<CobeginFrame(NewKids(k), k)>> \o estack[t])
               /\ status' = [u \in Threads |->
                               IF u \in nThreads .. last THEN "Running"
                               ELSE IF u = t THEN "Blocked" ELSE status[u]]
               /\ blockingObject' = [blockingObject EXCEPT ![t] = last]
               /\ waitingThreads' = [waitingThreads EXCEPT ![last] = Append(@, t)]
    BY <1>8 DEF Cobegin
  <2> DEFINE last == nThreads + k - 1
             frames == <<CobeginFrame(NewKids(k), k)>> \o estack[t]
             IsKid(u) == u \in nThreads .. nThreads + k - 1
  <2>2. k \in Nat /\ k >= 1 /\ nThreads + k <= MaxThreads
    BY <2>1, MaxKidsAssumption DEF SpawnKids
  <2>3. UNCHANGED <<current, waking, killing>>
    BY <1>8 DEF Cobegin, Performs, EvalStep
  <2>4. frames \in Seq(CalmFrame)
    <3>1. CobeginFrame(NewKids(k), k) \in CalmFrame
      <4>1. NewKids(k) \in Seq(Threads)
        BY <1>2, <2>2, SpawnQueue, EmptySeq
      <4>2. CobeginFrame(NewKids(k), k).kind = "cobegin"
        BY DEF CobeginFrame
      <4> QED
        BY <2>2, <4>1, <4>2, FrameTypes DEF CalmFrame
    <3> QED
      BY <1>4, <3>1
  <2>5. last \in Threads /\ last \in Blockers /\ last # t /\ IsKid(last) /\ ~IsKid(t)
    BY <1>2, <2>2, MaxThreadsAssumption DEF Threads, Blockers
  <2>6. /\ \A u \in Threads : IsKid(u) => /\ status[u] = "Dormant"
                                          /\ blockingObject[u] = NIL
                                          /\ ~Has(running, u)
        /\ \A u \in nThreads .. nThreads + k - 1 : u \in Threads
    BY <1>2, <2>2, MaxThreadsAssumption DEF SlicesOK, QueuesOK, Threads
  <2>7. /\ Distinct(running')
        /\ \A u \in Threads : Has(running', u) <=> Has(running, u) \/ IsKid(u)
    <3>1. running' = running \o NewKids(k)
      BY <2>1 DEF SpawnKids
    <3>2. \A u \in nThreads .. nThreads + k - 1 : ~Has(running, u)
      BY <2>6
    <3> QED
      BY <1>2, <2>2, <3>1, <3>2, SpawnQueue DEF SchedulerTypeOK, QueuesOK
  <2>8. /\ \A u \in Threads : status'[u] = IF IsKid(u) THEN "Running"
                                           ELSE IF u = t THEN "Blocked" ELSE status[u]
        /\ blockingObject'[t] = last
        /\ \A u \in Threads : u # t => blockingObject'[u] = blockingObject[u]
        /\ \A b \in Blockers : b # last => waitingThreads'[b] = waitingThreads[b]
        /\ waitingThreads'[last] = Append(waitingThreads[last], t)
    BY <2>1, <2>5 DEF SchedulerTypeOK
  <2> HIDE DEF last, IsKid, frames
  <2>9. \A b \in Blockers : ~Has(waitingThreads[b], t)
    BY <1>2 DEF QueuesOK
  <2>10. /\ \A u : Has(waitingThreads'[last], u) <=> Has(waitingThreads[last], u) \/ u = t
         /\ Distinct(waitingThreads'[last])
    <3>1. waitingThreads[last] \in Seq(Threads) /\ Distinct(waitingThreads[last])
      BY <2>5 DEF SchedulerTypeOK, QueuesOK
    <3> QED
      BY <2>5, <2>8, <2>9, <3>1, AppendQueue
  <2>11. QueuesOK'
    <3>1. \A u \in Threads : /\ status'[u] = "Running" => Has(running', u)
                             /\ Has(running', u) => status'[u] = "Running" \/ u = current'
      BY <1>2, <2>3, <2>7, <2>8 DEF QueuesOK
    <3>2. ASSUME NEW b \in Blockers, NEW u \in Threads, Has(waitingThreads'[b], u)
          PROVE  status'[u] = "Blocked" /\ blockingObject'[u] = b
      <4>1. CASE u = t
        <5>1. b = last
          BY <2>8, <2>9, <3>2, <4>1
        <5> QED
          BY <2>5, <2>8, <4>1, <5>1
      <4>2. CASE u # t
        <5>1. Has(waitingThreads[b], u)
          BY <2>8, <2>10, <3>2, <4>2
        <5>2. status[u] = "Blocked" /\ blockingObject[u] = b
          BY <5>1 DEF QueuesOK
        <5>3. ~IsKid(u)
          BY <2>6, <5>2
        <5> QED
          BY <2>8, <4>2, <5>2, <5>3
      <4> QED
        BY <4>1, <4>2
    <3>3. \A u \in Threads : status'[u] # "Blocked" => blockingObject'[u] = NIL
      BY <2>5, <2>6, <2>8 DEF QueuesOK
    <3>4. \A b \in Blockers : Distinct(waitingThreads'[b])
      BY <2>8, <2>10 DEF QueuesOK
    <3> QED
      BY <2>7, <3>1, <3>2, <3>3, <3>4 DEF QueuesOK
  <2>12. SlicesOK'
    <3>1. nThreads' = nThreads + k
      BY <2>1 DEF SpawnKids
    <3>2. \A u \in Threads : u >= nThreads' => status'[u] = "Dormant"
      <4>1. \A u \in Threads : u >= nThreads + k => u >= nThreads /\ ~IsKid(u) /\ u # t
        BY <1>2, <2>2, Constants DEF IsKid
      <4> QED
        BY <2>8, <3>1, <4>1 DEF SlicesOK
    <3>3. \A u \in Threads : estack'[u] \in Seq(CalmFrame)
      <4>1. <<Code>> \in Seq(CalmFrame)
        <5>1. Code \in CalmFrame
          BY FrameTypes DEF CalmFrame, Code
        <5> QED
          BY <5>1
      <4>2. \A u \in Threads : estack'[u] = <<Code>> \/ estack'[u] = estack[u]
                                  \/ estack'[u] = frames
        BY <2>1 DEF SpawnKids, frames
      <4> QED
        BY <2>4, <4>1, <4>2 DEF SlicesOK
    <3> QED
      BY <1>2, <1>3, <2>3, <3>2, <3>3 DEF SlicesOK
  <2> QED
    BY <2>11, <2>12
<1>9. CASE CobeginContinue(t)
  <2> DEFINE f == Head(estack[t])
             rest == Tail(estack[t])
             kid == f.kids[f.index - 1]
             next == <<CobeginFrame(f.kids, f.index - 1)>> \o rest
  <2>1. /\ UNCHANGED <<current, waking, killing, running, nThreads>>
        /\ estack[t] # <<>> /\ f.kind = "cobegin"
    BY <1>9 DEF CobeginContinue, EvalStep, Evaluates, allocVars
  <2>2. rest \in Seq(CalmFrame) /\ f \in CalmFrame
    BY <1>4, <2>1
  <2>3. f.kids \in Seq(Threads) /\ f.index \in DOMAIN f.kids
    <3>1. 1 \in DOMAIN estack[t] /\ estack[t][1] = f
      BY <1>4, <2>1
    <3> QED
      BY <2>1, <2>2, <3>1 DEF CalmFrame, Frame, ControlOK, FramesOK
  <2>4. CASE f.index = 1
    <3>1. /\ estack' = [estack EXCEPT ![t] = rest]
          /\ UNCHANGED <<status, blockingObject, waitingThreads>>
      BY <1>9, <2>4 DEF CobeginContinue
    <3>2. \A u \in Threads : estack'[u] \in Seq(CalmFrame)
      BY <2>2, <3>1, CalmFrames DEF SlicesOK
    <3>3. SlicesOK'
      BY <1>2, <1>3, <2>1, <3>1, <3>2 DEF SlicesOK
    <3> QED
      BY <2>1, <3>1, <3>3, SameQueues
  <2>5. CASE f.index # 1
    <3>1. estack' = [estack EXCEPT ![t] = next] /\ BlockThread(t, kid)
      BY <1>9, <2>5 DEF CobeginContinue
    <3>2. f.index - 1 \in DOMAIN f.kids /\ f.index - 1 \in Nat
      <4> HIDE DEF f
      <4>1. Len(f.kids) \in Nat /\ DOMAIN f.kids = 1 .. Len(f.kids)
        BY <2>3
      <4> QED
        BY <4>1, <2>3, <2>5
    <3>3. kid \in Blockers
      <4>1. \A i \in DOMAIN f.kids : f.kids[i] \in Threads
        <5> HIDE DEF f
        <5> QED
          BY <2>3
      <4> QED
        BY <3>2, <4>1
    <3>4. next \in Seq(CalmFrame)
      <4>1. CobeginFrame(f.kids, f.index - 1) \in CalmFrame
        <5>1. CobeginFrame(f.kids, f.index - 1).kind = "cobegin"
          BY DEF CobeginFrame
        <5> QED
          BY <2>3, <3>2, <5>1, FrameTypes DEF CalmFrame
      <4> QED
        BY <2>2, <4>1
    <3> HIDE DEF next, kid
    <3>5. QueuesOK'
      BY <1>2, <2>1, <3>1, <3>3, BlockKeepsQueues
    <3>6. \A u \in Threads : u >= nThreads' => status'[u] = status[u]
      BY <1>2, <2>1, <3>1 DEF BlockThread, SchedulerTypeOK
    <3>7. \A u \in Threads : estack'[u] \in Seq(CalmFrame)
      BY <3>1, <3>4, CalmFrames DEF SlicesOK
    <3>8. SlicesOK'
      BY <1>2, <1>3, <2>1, <3>6, <3>7 DEF SlicesOK
    <3> QED
      BY <3>5, <3>8
  <2> QED
    BY <2>4, <2>5
<1>10. ~Nondet(t)
  BY DEF Nondet
<1>11. ~NondetContinue(t)
  <2> SUFFICES ASSUME NondetContinue(t) PROVE FALSE
    OBVIOUS
  <2>1. estack[t] # <<>> /\ Head(estack[t]).kind = "nondet"
    BY DEF NondetContinue, Evaluates
  <2>2. Head(estack[t]) \in CalmFrame
    BY <1>4, <2>1
  <2> QED
    BY <2>1, <2>2 DEF CalmFrame
<1>12. CASE Compute(t) \/ Yield(t)
  <2>1. UNCHANGED <<running, status, blockingObject, waitingThreads, current, waking,
                    killing, estack, nThreads>>
    BY <1>12 DEF Compute, Yield, EvalStep, queueVars, workVars, allocVars
  <2>2. SlicesOK'
    BY <1>3, <2>1 DEF SlicesOK
  <2> QED
    BY <2>1, <2>2, SameQueues
<1>13. CASE Return(t) \/ Catch(t)
  <2>1. /\ UNCHANGED <<running, status, blockingObject, waitingThreads, current, waking,
                       killing, nThreads>>
        /\ estack[t] # <<>>
    BY <1>13 DEF Return, Catch, EvalStep, Evaluates, Longjmp, queueVars, allocVars
  <2>2. PICK frames \in Seq(CalmFrame) : estack' = [estack EXCEPT ![t] = frames]
    <3>1. CASE Return(t)
      <4>1. Tail(estack[t]) \in Seq(CalmFrame)
        BY <1>4, <2>1
      <4> QED
        BY <3>1, <4>1 DEF Return, SchedulerTypeOK
    <3>2. CASE Catch(t)
      <4>1. PICK i \in DOMAIN estack[t] :
               estack' = [estack EXCEPT ![t] = SubSeq(estack[t], i, Len(estack[t]))]
        BY <3>2 DEF Catch, SchedulerTypeOK
      <4>2. SubSeq(estack[t], i, Len(estack[t])) \in Seq(CalmFrame)
        BY <1>4, SubSeqProperties
      <4> QED
        BY <4>1, <4>2
    <3> QED
      BY <1>13, <3>1, <3>2
  <2>3. \A u \in Threads : estack'[u] \in Seq(CalmFrame)
    BY <2>2, CalmFrames DEF SlicesOK
  <2>4. SlicesOK'
    BY <1>3, <2>1, <2>3 DEF SlicesOK
  <2> QED
    BY <2>1, <2>4, SameQueues
<1>14. CASE Throw(t)
  <2>1. /\ UNCHANGED <<running, status, current, waking, killing, nThreads>>
        /\ estack' = [estack EXCEPT ![t] = <<>>]
        /\ blockingObject' = [blockingObject EXCEPT ![t] = NIL]
        /\ waitingThreads' = [waitingThreads EXCEPT ![t] = <<>>]
    BY <1>14 DEF Throw, Longjmp
  <2>2. /\ blockingObject' = blockingObject
        /\ waitingThreads'[t] = <<>>
        /\ \A b \in Blockers : b # t => waitingThreads'[b] = waitingThreads[b]
    BY <1>2, <2>1 DEF SchedulerTypeOK
  <2>3. QueuesOK'
    BY <2>1, <2>2, EmptyQueue DEF QueuesOK
  <2>4. \A u \in Threads : estack'[u] \in Seq(CalmFrame)
    BY <2>1, CalmFrames, EmptySeq DEF SlicesOK
  <2>5. SlicesOK'
    BY <1>3, <2>1, <2>4 DEF SlicesOK
  <2> QED
    BY <2>3, <2>5
<1> QED
  BY <1>5, <1>6, <1>7, <1>8, <1>9, <1>10, <1>11, <1>12, <1>13, <1>14 DEF TaskStep

\* lock:acquire and lock:release.
LEMMA LockStepCalm ==
    ASSUME SchedulerTypeOK, ControlOK, SlicesOK, QueuesOK, NEW t \in Threads, LockStep(t)
    PROVE  SlicesOK' /\ QueuesOK'
<1> USE Constants
<1>1. PICK l \in Locks : Acquire(t, l) \/ Release(t, l)
  BY DEF LockStep
<1>2. MayStep(t) /\ UNCHANGED <<current, waking, killing, estack, nThreads>>
  BY <1>1 DEF Acquire, Release, Releasing, SetFree, HandOver, Performs, EvalStep,
              Evaluates, workVars, allocVars
<1>3. current = t /\ status[t] = "Running" /\ waking = NotWaking
  BY <1>2 DEF MayStep, StepComplete
<1>4. NotWaking' = NotWaking
  BY DEF NotWaking
<1>5. CASE UNCHANGED queueVars
  <2>1. SlicesOK'
    BY <1>2, <1>4, <1>5 DEF SlicesOK, queueVars
  <2> QED
    BY <1>2, <1>5, <2>1, SameQueues DEF queueVars
<1>6. CASE BlockThread(t, l) /\ UNCHANGED running
  <2>1. QueuesOK'
    BY <1>2, <1>3, <1>6, BlockKeepsQueues
  <2>2. \A u \in Threads : u >= nThreads => status'[u] = status[u]
    BY <1>3, <1>6 DEF BlockThread, SlicesOK, SchedulerTypeOK
  <2>3. SlicesOK'
    BY <1>2, <1>3, <1>4, <2>2 DEF SlicesOK
  <2> QED
    BY <2>1, <2>3
<1>7. CASE Release(t, l) /\ waitingThreads[l] # <<>>
  <2> DEFINE w == Head(waitingThreads[l])
  <2>1. /\ waitingThreads' = [waitingThreads EXCEPT ![l] = Tail(@)]
        /\ UnblockThread(w)
    BY <1>7 DEF Release, Releasing, SetFree, HandOver
  <2>2. /\ QueuesOK' /\ w \in Threads /\ status[w] = "Blocked"
        /\ status' = [status EXCEPT ![w] = "Running"]
    BY <1>2, <1>3, <1>7, <2>1, UnblockKeepsQueues
  <2> HIDE DEF w
  <2>3. \A u \in Threads : u >= nThreads => status'[u] = status[u]
    BY <2>2 DEF SlicesOK, SchedulerTypeOK
  <2>4. SlicesOK'
    BY <1>2, <1>3, <1>4, <2>3 DEF SlicesOK
  <2> QED
    BY <2>2, <2>4
<1> QED
  BY <1>1, <1>5, <1>6, <1>7 DEF Acquire, Release, Releasing, SetFree, HandOver

\* msgq:enq and msgq:wait.
LEMMA MsgQStepCalm ==
    ASSUME SchedulerTypeOK, ControlOK, SlicesOK, QueuesOK, NEW t \in Threads, MsgQStep(t)
    PROVE  SlicesOK' /\ QueuesOK'
<1> USE Constants
<1>1. PICK q \in MsgQs : Wait(t, q) \/ \E m \in Messages : Enq(t, q, m)
  BY DEF MsgQStep
<1>2. MayStep(t) /\ UNCHANGED <<current, waking, killing, estack, nThreads>>
  BY <1>1 DEF Wait, Enq, Trigger, Performs, EvalStep, Evaluates, allocVars
<1>3. current = t /\ status[t] = "Running" /\ waking = NotWaking
  BY <1>2 DEF MayStep, StepComplete
<1>4. NotWaking' = NotWaking
  BY DEF NotWaking
<1>5. CASE UNCHANGED queueVars
  <2>1. SlicesOK'
    BY <1>2, <1>4, <1>5 DEF SlicesOK, queueVars
  <2> QED
    BY <1>2, <1>5, <2>1, SameQueues DEF queueVars
<1>6. CASE BlockThread(t, q) /\ UNCHANGED running
  <2>1. QueuesOK'
    BY <1>2, <1>3, <1>6, BlockKeepsQueues
  <2>2. \A u \in Threads : u >= nThreads => status'[u] = status[u]
    BY <1>3, <1>6 DEF BlockThread, SlicesOK, SchedulerTypeOK
  <2>3. SlicesOK'
    BY <1>2, <1>3, <1>4, <2>2 DEF SlicesOK
  <2> QED
    BY <2>1, <2>3
<1>7. CASE (\E m \in Messages : Enq(t, q, m)) /\ waitingThreads[q] # <<>>
  <2> DEFINE w == Head(waitingThreads[q])
  <2>1. /\ waitingThreads' = [waitingThreads EXCEPT ![q] = Tail(@)]
        /\ UnblockThread(w)
    BY <1>7 DEF Enq, Trigger
  <2>2. /\ QueuesOK' /\ w \in Threads /\ status[w] = "Blocked"
        /\ status' = [status EXCEPT ![w] = "Running"]
    BY <1>2, <1>3, <1>7, <2>1, UnblockKeepsQueues
  <2> HIDE DEF w
  <2>3. \A u \in Threads : u >= nThreads => status'[u] = status[u]
    BY <2>2 DEF SlicesOK, SchedulerTypeOK
  <2>4. SlicesOK'
    BY <1>2, <1>3, <1>4, <2>3 DEF SlicesOK
  <2> QED
    BY <2>2, <2>4
<1> QED
  BY <1>1, <1>5, <1>6, <1>7 DEF Wait, Enq, Trigger

\* The read-eval-print loop; when it makes a blocked evaluator run, threads have
\* gone astray.
LEMMA ReplStepCalm ==
    ASSUME SchedulerTypeOK, ControlOK, SlicesOK, QueuesOK,
           ReplEval \/ ReplPrint \/ ReplQuit, ~stray'
    PROVE  SlicesOK' /\ QueuesOK'
<1> USE Constants
<1>1. NotWaking' = NotWaking
  BY DEF NotWaking
<1>2. CASE ReplPrint \/ ReplQuit
  <2>1. UNCHANGED <<running, status, blockingObject, waitingThreads, current, waking,
                    killing, estack, nThreads>>
    BY <1>2 DEF ReplPrint, ReplQuit, schedulerVars, queueVars, sliceVars, workVars,
                allocVars
  <2>2. SlicesOK'
    BY <1>1, <2>1 DEF SlicesOK
  <2> QED
    BY <2>1, <2>2, SameQueues
<1>3. CASE ReplEval
  <2>1. /\ current = NIL /\ running = <<>>
        /\ UNCHANGED <<blockingObject, waitingThreads, current, waking, killing, nThreads>>
        /\ estack' = [estack EXCEPT ![Main] = <<Code>> \o estack[Main]]
        /\ AddThread(Main)
        /\ status[Main] # "Blocked"
    BY <1>3 DEF ReplEval, ControlOK, sliceVars, allocVars
  <2>2. \A u \in Threads : status[u] # "Running"
    BY <2>1, EmptyQueue DEF QueuesOK
  <2>3. /\ status' = [status EXCEPT ![Main] = "Running"]
        /\ running' = Append(running, Main)
    BY <2>1, <2>2 DEF AddThread
  <2>4. /\ \A u : Has(running', u) <=> u = Main
        /\ Distinct(running')
    <3>1. <<>> \in Seq(Threads) /\ Main \in Threads /\ running' = Append(<<>>, Main)
      BY <2>1, <2>3
    <3>2. /\ \A u : Has(Append(<<>>, Main), u) <=> Has(<<>>, u) \/ u = Main
          /\ Distinct(<<>>) /\ ~Has(<<>>, Main) => Distinct(Append(<<>>, Main))
      BY <3>1, AppendQueue
    <3> QED
      BY <3>1, <3>2, EmptyQueue
  <2>5. /\ status'[Main] = "Running"
        /\ \A u \in Threads : u # Main => status'[u] = status[u]
    BY <2>3 DEF SchedulerTypeOK
  <2>6. QueuesOK'
    BY <2>1, <2>2, <2>4, <2>5 DEF QueuesOK
  <2>7. \A u \in Threads : u >= nThreads => u # Main
    BY DEF SchedulerTypeOK, Main
  <2>8. <<Code>> \o estack[Main] \in Seq(CalmFrame)
    <3>1. Code \in CalmFrame /\ estack[Main] \in Seq(CalmFrame)
      BY FrameTypes DEF CalmFrame, Code, SlicesOK
    <3> QED
      BY <3>1
  <2>9. \A u \in Threads : estack'[u] \in Seq(CalmFrame)
    BY <2>1, <2>8, CalmFrames DEF SlicesOK
  <2>10. waking = NotWaking
    BY <2>1 DEF SlicesOK, ControlOK
  <2>11. SlicesOK'
    BY <1>1, <2>1, <2>5, <2>7, <2>9, <2>10 DEF SlicesOK
  <2> QED
    BY <2>6, <2>11
<1> QED
  BY <1>2, <1>3

\* Once threads have gone astray, they stay so.
LEMMA StrayIsForever ==
    ASSUME stray \in BOOLEAN, Next
    PROVE  stray => stray'
<1>1. CASE RunAll
  <2>1. CASE SliceStep
    BY <2>1 DEF SliceStep, BeginSlice, WakeNext, WakeDone, KillNext, EndSlice, EndSliceOf
  <2>2. CASE \E t \in Threads : TaskStep(t)
    BY <2>2 DEF TaskStep, FinishThread, Async, Join, Cobegin, CobeginContinue, Nondet,
                NondetContinue, Compute, Return, Yield, Catch, Throw
  <2>3. CASE \E t \in Threads : LockStep(t) \/ MsgQStep(t)
    BY <2>3 DEF LockStep, Acquire, Release, Releasing, SetFree, HandOver, MsgQStep,
                Wait, Enq, Trigger
  <2> QED
    BY <1>1, <2>1, <2>2, <2>3 DEF RunAll
<1>2. CASE ReplEval \/ ReplPrint \/ ReplQuit \/ Ended
  BY <1>2 DEF ReplEval, ReplPrint, ReplQuit, Ended, vars, schedulerVars
<1> QED
  BY <1>1, <1>2 DEF Next

\* Calm is inductive, with the types.
LEMMA NextCalm ==
    ASSUME TypeOK, ControlOK, Calm, [Next]_vars
    PROVE  Calm'
<1> SUFFICES ASSUME ~stray' PROVE SlicesOK' /\ QueuesOK'
  BY DEF Calm
<1>1. SchedulerTypeOK
  BY DEF TypeOK
<1>2. CASE UNCHANGED vars
  <2>1. UNCHANGED <<running, status, blockingObject, waitingThreads, current, waking,
                    killing, estack, nThreads, stray>>
    BY <1>2 DEF vars, schedulerVars, queueVars, sliceVars, workVars, allocVars
  <2>2. NotWaking' = NotWaking
    BY DEF NotWaking
  <2>3. SlicesOK /\ QueuesOK
    BY <2>1 DEF Calm
  <2>4. SlicesOK'
    BY <2>1, <2>2, <2>3 DEF SlicesOK
  <2> QED
    BY <2>1, <2>3, <2>4, SameQueues
<1>3. CASE Next
  <2>1. SlicesOK /\ QueuesOK
    BY <1>1, <1>3, StrayIsForever DEF Calm, SchedulerTypeOK
  <2>2. CASE RunAll
    <3>1. CASE SliceStep
      BY <1>1, <2>1, <3>1, SliceStepCalm
    <3>2. CASE \E t \in Threads : TaskStep(t)
      BY <1>1, <2>1, <3>2, TaskStepCalm
    <3>3. CASE \E t \in Threads : LockStep(t)
      BY <1>1, <2>1, <3>3, LockStepCalm
    <3>4. CASE \E t \in Threads : MsgQStep(t)
      BY <1>1, <2>1, <3>4, MsgQStepCalm
    <3> QED
      BY <2>2, <3>1, <3>2, <3>3, <3>4 DEF RunAll
  <2>3. CASE ReplEval \/ ReplPrint \/ ReplQuit
    BY <1>1, <2>1, <2>3, ReplStepCalm
  <2> QED
    BY <1>2, <1>3, <2>2, <2>3 DEF Next, Ended
<1> QED
  BY <1>2, <1>3

\* The initial state is calm.
LEMMA InitCalm == Init => Calm
<1> SUFFICES ASSUME Init PROVE SlicesOK /\ QueuesOK
  BY DEF Calm
<1> USE Constants
<1>1. SlicesOK
  BY EmptySeq DEF Init, SchedulerInit, SlicesOK
<1>2. QueuesOK
  BY EmptyQueue DEF Init, SchedulerInit, QueuesOK
<1> QED
  BY <1>1, <1>2

-----------------------------------------------------------------------------
(* Who is woken by what, until threads go astray.                           *)

\* A blocked thread that this step wakes, or makes wait for something else, was
\* waiting for a member of S.
WokenFrom(S) ==
    \A u \in Threads :
       status[u] = "Blocked" /\ (status'[u] # "Blocked" \/ blockingObject'[u] # blockingObject[u])
          => blockingObject[u] \in S

\* Terminated threads stay so, with the exception of the REPL's evaluator.
TerminatedStay ==
    \A u \in Threads \ {Main} : status[u] = "Terminated" => status'[u] = "Terminated"

TerminatedThreads == {c \in Threads : status[c] = "Terminated"}

\* The slice machinery wakes only threads that wait for a terminated thread.
LEMMA SliceStepWakes ==
    ASSUME SchedulerTypeOK, ControlOK, SlicesOK, QueuesOK, SliceStep
    PROVE  WokenFrom(TerminatedThreads) /\ TerminatedStay
<1> USE Constants
<1>1. CASE BeginSlice
  <2> DEFINE t == Head(running)
  <2>1. t \in Threads /\ Has(running, t) /\ t # current
    BY <1>1, TailQueue DEF BeginSlice, SchedulerTypeOK
  <2>2. status[t] = "Running"
    BY <2>1 DEF QueuesOK
  <2>3. status' = [status EXCEPT ![t] = "Running"] /\ UNCHANGED blockingObject
    BY <1>1 DEF BeginSlice
  <2>4. status' = status
    BY <2>1, <2>2, <2>3 DEF SchedulerTypeOK
  <2> QED
    BY <2>3, <2>4 DEF WokenFrom, TerminatedStay
<1>2. CASE WakeNext
  <2> DEFINE c == waking.thread
             w == Head(waitingThreads[c])
  <2>1. /\ c = current /\ c \in Threads /\ status[c] = "Terminated"
        /\ waitingThreads[c] # <<>>
    BY <1>2 DEF WakeNext, SlicesOK, ControlOK, SchedulerTypeOK
  <2>2. /\ waitingThreads' = [waitingThreads EXCEPT ![c] = Tail(@)]
        /\ UnblockThread(w)
        /\ UNCHANGED current
    BY <1>2 DEF WakeNext
  <2>3. /\ w \in Threads /\ status[w] = "Blocked" /\ blockingObject[w] = c
        /\ status' = [status EXCEPT ![w] = "Running"]
        /\ blockingObject' = [blockingObject EXCEPT ![w] = NIL]
    BY <2>1, <2>2, UnblockKeepsQueues
  <2> HIDE DEF c, w
  <2> QED
    BY <2>1, <2>3 DEF WokenFrom, TerminatedStay, TerminatedThreads, SchedulerTypeOK
<1>3. ~KillNext
  BY DEF KillNext, SlicesOK
<1>4. CASE WakeDone \/ EndSlice
  BY <1>4 DEF WakeDone, EndSlice, EndSliceOf, queueVars, WokenFrom, TerminatedStay
<1> QED
  BY <1>1, <1>2, <1>3, <1>4 DEF SliceStep

\* The steps of a thread that use neither locks nor message queues wake nobody.
LEMMA TaskStepWakes ==
    ASSUME SchedulerTypeOK, SlicesOK, QueuesOK, NEW t \in Threads, TaskStep(t), ~stray'
    PROVE  WokenFrom({}) /\ TerminatedStay
<1>1. current = t /\ status[t] = "Running"
  BY DEF TaskStep, FinishThread, Async, Join, Cobegin, CobeginContinue, Nondet,
         NondetContinue, Compute, Return, Yield, Catch, Throw, Performs, EvalStep,
         Evaluates, Longjmp, MayStep
<1>2. \A u \in Threads : u >= nThreads => status[u] = "Dormant"
  BY DEF SlicesOK
<1> DEFINE Others ==
      \A u \in Threads : status[u] # "Dormant" /\ u # t =>
         status'[u] = status[u] /\ blockingObject'[u] = blockingObject[u]
<1>3. Others => WokenFrom({}) /\ TerminatedStay
  BY <1>1 DEF WokenFrom, TerminatedStay
<1>4. CASE FinishThread(t)
  BY <1>3, <1>4 DEF FinishThread, TerminateThread, SchedulerTypeOK
<1>5. CASE Async(t)
  <2>1. PICK k \in 1 .. MaxKids :
           status' = [u \in Threads |-> IF u \in nThreads .. nThreads + k - 1
                                        THEN "Running" ELSE status[u]]
    BY <1>5 DEF Async
  <2>2. \A u \in Threads : u \in nThreads .. nThreads + k - 1 => status[u] = "Dormant"
    BY <1>2, Constants
  <2>3. UNCHANGED blockingObject
    BY <1>5 DEF Async
  <2> QED
    BY <1>3, <2>1, <2>2, <2>3
<1>6. CASE Cobegin(t)
  <2>1. PICK k \in 1 .. MaxKids :
           /\ status' = [u \in Threads |->
                           IF u \in nThreads .. nThreads + k - 1 THEN "Running"
                           ELSE IF u = t THEN "Blocked" ELSE status[u]]
           /\ blockingObject' = [blockingObject EXCEPT ![t] = nThreads + k - 1]
    BY <1>6 DEF Cobegin
  <2>2. \A u \in Threads : u \in nThreads .. nThreads + k - 1 => status[u] = "Dormant"
    BY <1>2, Constants
  <2> QED
    BY <1>3, <2>1, <2>2 DEF SchedulerTypeOK
<1>7. ASSUME NEW b, BlockThread(t, b) PROVE Others
  BY <1>7 DEF BlockThread, SchedulerTypeOK
<1>8. CASE Join(t)
  BY <1>3, <1>7, <1>8 DEF Join
<1>9. CASE CobeginContinue(t)
  <2>1. CASE UNCHANGED <<status, blockingObject>>
    BY <1>3, <2>1
  <2> QED
    BY <1>3, <1>7, <1>9, <2>1 DEF CobeginContinue
<1>10. ~Nondet(t)
  BY DEF Nondet
<1>11. CASE NondetContinue(t) \/ Compute(t) \/ Return(t) \/ Yield(t) \/ Catch(t)
  BY <1>3, <1>11 DEF NondetContinue, Compute, Return, Yield, Catch, queueVars
<1>12. CASE Throw(t)
  BY <1>3, <1>12 DEF Throw, SchedulerTypeOK
<1> QED
  BY <1>4, <1>5, <1>6, <1>8, <1>9, <1>10, <1>11, <1>12 DEF TaskStep

\* lock:release wakes the first thread that waits for the lock, and no other.
LEMMA LockStepWakes ==
    ASSUME SchedulerTypeOK, SlicesOK, QueuesOK, NEW t \in Threads, NEW l \in Locks,
           Acquire(t, l) \/ Release(t, l)
    PROVE  /\ current = t /\ status[t] = "Running" /\ blockingObject[t] = NIL
           /\ WokenFrom({l}) /\ TerminatedStay
           /\ \A u \in Threads : status[u] = "Blocked" =>
                 \/ status'[u] = "Blocked" /\ blockingObject'[u] = blockingObject[u]
                 \/ waitingThreads[l] # <<>> /\ u = Head(waitingThreads[l])
<1> USE Constants
<1>1. MayStep(t) /\ UNCHANGED current
  BY DEF Acquire, Release, Releasing, SetFree, HandOver, Performs, EvalStep, Evaluates
<1>2. current = t /\ status[t] = "Running" /\ blockingObject[t] = NIL
  BY <1>1 DEF MayStep, QueuesOK
<1>3. CASE UNCHANGED queueVars
  BY <1>2, <1>3 DEF queueVars, WokenFrom, TerminatedStay
<1>4. CASE Acquire(t, l)
  <2>1. CASE BlockThread(t, l)
    <3>1. \A u \in Threads : u # t =>
             status'[u] = status[u] /\ blockingObject'[u] = blockingObject[u]
      BY <2>1 DEF BlockThread, SchedulerTypeOK
    <3> QED
      BY <1>2, <3>1 DEF WokenFrom, TerminatedStay
  <2> QED
    BY <1>3, <1>4, <2>1 DEF Acquire
<1>5. CASE Release(t, l) /\ waitingThreads[l] # <<>>
  <2> DEFINE w == Head(waitingThreads[l])
  <2>1. /\ waitingThreads' = [waitingThreads EXCEPT ![l] = Tail(@)]
        /\ UnblockThread(w)
    BY <1>5 DEF Release, Releasing, SetFree, HandOver
  <2>2. /\ w \in Threads /\ status[w] = "Blocked" /\ blockingObject[w] = l
        /\ status' = [status EXCEPT ![w] = "Running"]
        /\ blockingObject' = [blockingObject EXCEPT ![w] = NIL]
    BY <1>1, <1>2, <1>5, <2>1, UnblockKeepsQueues
  <2> HIDE DEF w
  <2>3. WokenFrom({l}) /\ TerminatedStay
    BY <2>2 DEF WokenFrom, TerminatedStay, SchedulerTypeOK
  <2>4. \A u \in Threads : status[u] = "Blocked" /\ u # w =>
           status'[u] = "Blocked" /\ blockingObject'[u] = blockingObject[u]
    BY <2>2 DEF SchedulerTypeOK
  <2> QED
    BY <1>2, <1>5, <2>3, <2>4 DEF w
<1> QED
  BY <1>3, <1>4, <1>5 DEF Release, Releasing, SetFree, HandOver

\* msgq:enq wakes a thread that waits for a message.
LEMMA MsgQStepWakes ==
    ASSUME SchedulerTypeOK, SlicesOK, QueuesOK, NEW t \in Threads, MsgQStep(t)
    PROVE  WokenFrom(MsgQs) /\ TerminatedStay
<1> USE Constants
<1>1. PICK q \in MsgQs : Wait(t, q) \/ \E m \in Messages : Enq(t, q, m)
  BY DEF MsgQStep
<1>2. MayStep(t) /\ UNCHANGED current
  BY <1>1 DEF Wait, Enq, Trigger, Performs, EvalStep, Evaluates
<1>3. current = t /\ status[t] = "Running"
  BY <1>2 DEF MayStep
<1>4. CASE UNCHANGED queueVars
  BY <1>4 DEF queueVars, WokenFrom, TerminatedStay
<1>5. CASE BlockThread(t, q)
  BY <1>3, <1>5 DEF BlockThread, WokenFrom, TerminatedStay, SchedulerTypeOK
<1>6. CASE (\E m \in Messages : Enq(t, q, m)) /\ waitingThreads[q] # <<>>
  <2> DEFINE w == Head(waitingThreads[q])
  <2>1. /\ waitingThreads' = [waitingThreads EXCEPT ![q] = Tail(@)]
        /\ UnblockThread(w)
    BY <1>6 DEF Enq, Trigger
  <2>2. /\ w \in Threads /\ status[w] = "Blocked" /\ blockingObject[w] = q
        /\ status' = [status EXCEPT ![w] = "Running"]
        /\ blockingObject' = [blockingObject EXCEPT ![w] = NIL]
    BY <1>2, <1>3, <1>6, <2>1, UnblockKeepsQueues
  <2> HIDE DEF w
  <2> QED
    BY <2>2 DEF WokenFrom, TerminatedStay, SchedulerTypeOK
<1> QED
  BY <1>1, <1>4, <1>5, <1>6 DEF Wait, Enq, Trigger

\* The REPL wakes no blocked evaluator without setting stray.
LEMMA ReplStepWakes ==
    ASSUME SchedulerTypeOK, ReplEval \/ ReplPrint \/ ReplQuit, ~stray'
    PROVE  WokenFrom({}) /\ TerminatedStay
<1>1. CASE ReplPrint \/ ReplQuit
  BY <1>1 DEF ReplPrint, ReplQuit, schedulerVars, queueVars, WokenFrom, TerminatedStay
<1>2. CASE ReplEval
  <2>1. status[Main] # "Blocked" /\ status' = [status EXCEPT ![Main] = "Running"]
    BY <1>2 DEF ReplEval, AddThread
  <2>2. UNCHANGED blockingObject
    BY <1>2 DEF ReplEval
  <2> QED
    BY <2>1, <2>2 DEF WokenFrom, TerminatedStay, SchedulerTypeOK
<1> QED
  BY <1>1, <1>2

-----------------------------------------------------------------------------
(* Locks and message queues.                                                *)

\* Only the primitives of locks and of message queues touch the threads that wait
\* for one.
LEMMA OthersKeepWaiters ==
    ASSUME SchedulerTypeOK, ControlOK,
           SliceStep \/ (\E t \in Threads : TaskStep(t))
              \/ ReplEval \/ ReplPrint \/ ReplQuit
    PROVE  \A b \in Locks \cup MsgQs : waitingThreads'[b] = waitingThreads[b]
<1> USE Constants
<1>1. CASE UNCHANGED waitingThreads
  BY <1>1
<1>2. ASSUME NEW c \in Threads, NEW q, waitingThreads' = [waitingThreads EXCEPT ![c] = q]
      PROVE  \A b \in Locks \cup MsgQs : waitingThreads'[b] = waitingThreads[b]
  BY <1>2 DEF SchedulerTypeOK
<1>3. CASE SliceStep
  <2>1. CASE WakeNext
    BY <1>2, <2>1 DEF WakeNext, ControlOK
  <2>2. CASE ~WakeNext
    BY <1>1, <1>3, <2>2 DEF SliceStep, BeginSlice, WakeDone, KillNext, EndSlice,
                            EndSliceOf, queueVars
  <2> QED
    BY <2>1, <2>2
<1>4. ASSUME NEW t \in Threads, TaskStep(t)
      PROVE  \A b \in Locks \cup MsgQs : waitingThreads'[b] = waitingThreads[b]
  <2>1. ASSUME NEW k \in Nat, NEW frames, SpawnKids(t, k, frames)
        PROVE  \A c \in nThreads .. nThreads + k - 1 : c \in Threads
    BY <2>1, MaxThreadsAssumption DEF SpawnKids, SchedulerTypeOK, Threads
  <2>2. CASE Cobegin(t)
    <3>1. PICK k \in 1 .. MaxKids :
             /\ SpawnKids(t, k, <<CobeginFrame(NewKids(k), k)>> \o estack[t])
             /\ waitingThreads' =
                   [waitingThreads EXCEPT ![nThreads + k - 1] = Append(@, t)]
      BY <2>2 DEF Cobegin
    <3>2. nThreads + k - 1 \in Threads
      <4>1. /\ k \in Nat /\ k >= 1
            /\ nThreads \in Nat
            /\ nThreads + k - 1 \in nThreads .. nThreads + k - 1
        BY MaxKidsAssumption, MaxThreadsAssumption DEF SchedulerTypeOK
      <4> QED
        BY <2>1, <3>1, <4>1
    <3> QED
      BY <1>2, <3>1, <3>2
  <2>3. CASE Nondet(t)
    <3>1. PICK k \in 1 .. MaxKids :
             /\ SpawnKids(t, k, <<NondetFrame(NewKids(k))>> \o estack[t])
             /\ waitingThreads' =
                   [b \in Blockers |->
                      IF b \in nThreads .. nThreads + k - 1
                      THEN Append(waitingThreads[b], t) ELSE waitingThreads[b]]
      BY <2>3 DEF Nondet
    <3>2. k \in Nat
      BY MaxKidsAssumption
    <3>3. \A c \in nThreads .. nThreads + k - 1 : c \in Threads
      BY <2>1, <3>1, <3>2
    <3> QED
      BY <3>1, <3>3
  <2>4. ASSUME NEW c \in Threads, BlockThread(t, c)
        PROVE  \A b \in Locks \cup MsgQs : waitingThreads'[b] = waitingThreads[b]
    BY <1>1, <1>2, <2>4 DEF BlockThread
  <2>5. CASE Join(t)
    <3>1. PICK c \in Allocated : BlockThread(t, c)
      BY <2>5 DEF Join
    <3>2. c \in Threads
      BY MaxThreadsAssumption DEF Allocated, SchedulerTypeOK, Threads
    <3> QED
      BY <2>4, <3>1, <3>2
  <2>6. CASE CobeginContinue(t)
    <3> DEFINE f == Head(estack[t])
    <3>1. CASE f.index = 1
      BY <1>1, <2>6, <3>1 DEF CobeginContinue
    <3>2. CASE f.index # 1
      <4>1. /\ BlockThread(t, f.kids[f.index - 1])
            /\ estack[t] # <<>> /\ f.kind = "cobegin"
        BY <2>6, <3>2 DEF CobeginContinue, EvalStep, Evaluates
      <4>2. estack[t] \in Seq(Frame) /\ FramesOK(estack[t])
        BY DEF SchedulerTypeOK, ControlOK
      <4>3. f \in Frame /\ 1 \in DOMAIN estack[t] /\ estack[t][1] = f
        BY <4>1, <4>2
      <4>4. f.kids \in Seq(Threads) /\ f.index \in 1 .. Len(f.kids)
        BY <4>1, <4>2, <4>3 DEF Frame, FramesOK
      <4> HIDE DEF f
      <4>5. f.index - 1 \in 1 .. Len(f.kids)
        BY <3>2, <4>4
      <4>6. f.kids[f.index - 1] \in Threads
        BY <4>4, <4>5
      <4> QED
        BY <2>4, <4>1, <4>6
    <3> QED
      BY <3>1, <3>2
  <2>7. CASE Throw(t)
    BY <1>2, <2>7 DEF Throw
  <2>8. CASE FinishThread(t) \/ Async(t) \/ NondetContinue(t) \/ Compute(t) \/ Return(t)
                \/ Yield(t) \/ Catch(t)
    BY <1>1, <2>8 DEF FinishThread, Async, NondetContinue, Compute, Return, Yield, Catch,
                      queueVars
  <2> QED
    BY <1>4, <2>2, <2>3, <2>5, <2>6, <2>7, <2>8 DEF TaskStep
<1>5. CASE ReplEval \/ ReplPrint \/ ReplQuit
  BY <1>1, <1>5 DEF ReplEval, ReplPrint, ReplQuit, schedulerVars, queueVars
<1> QED
  BY <1>3, <1>4, <1>5

\* The primitives of one kind of object leave those of the other kind alone.
LEMMA PrimitivesKeepWaiters ==
    ASSUME SchedulerTypeOK, NEW t \in Threads
    PROVE  /\ LockStep(t) => \A q \in MsgQs : waitingThreads'[q] = waitingThreads[q]
           /\ MsgQStep(t) => \A l \in Locks : waitingThreads'[l] = waitingThreads[l]
<1> USE Constants
<1>1. ASSUME LockStep(t) PROVE \A q \in MsgQs : waitingThreads'[q] = waitingThreads[q]
  <2>1. PICK l \in Locks : Acquire(t, l) \/ Release(t, l)
    BY <1>1 DEF LockStep
  <2>2. \/ UNCHANGED waitingThreads
        \/ \E s : waitingThreads' = [waitingThreads EXCEPT ![l] = s]
    BY <2>1 DEF Acquire, Release, Releasing, SetFree, HandOver, BlockThread, queueVars
  <2> QED
    BY <2>2 DEF SchedulerTypeOK
<1>2. ASSUME MsgQStep(t) PROVE \A l \in Locks : waitingThreads'[l] = waitingThreads[l]
  <2>1. PICK q \in MsgQs : Wait(t, q) \/ \E m \in Messages : Enq(t, q, m)
    BY <1>2 DEF MsgQStep
  <2>2. \/ UNCHANGED waitingThreads
        \/ \E s : waitingThreads' = [waitingThreads EXCEPT ![q] = s]
    BY <2>1 DEF Wait, Enq, Trigger, BlockThread, queueVars
  <2> QED
    BY <2>2 DEF SchedulerTypeOK
<1> QED
  BY <1>1, <1>2

\* Every step of the interpreter is of one of these forms.
LEMMA StepForms ==
    ASSUME [Next]_vars
    PROVE  \/ SliceStep /\ UNCHANGED <<lockVars, msgqVars>>
           \/ (\E t \in Threads : TaskStep(t)) /\ UNCHANGED <<lockVars, msgqVars>>
           \/ (ReplEval \/ ReplPrint \/ ReplQuit) /\ UNCHANGED <<lockVars, msgqVars>>
           \/ \E t \in Threads : \E l \in Locks :
                 (Acquire(t, l) \/ Release(t, l)) /\ UNCHANGED msgqVars
           \/ \E t \in Threads : MsgQStep(t) /\ UNCHANGED lockVars
           \/ UNCHANGED vars
<1>1. CASE ReplEval \/ ReplPrint \/ ReplQuit
  BY <1>1 DEF ReplEval, ReplPrint, ReplQuit
<1>2. CASE RunAll
  BY <1>2 DEF RunAll, LockStep
<1> QED
  BY <1>1, <1>2 DEF Next, Ended

\* Thread u is blocked on b.
Sleeps(u, b) == status[u] = "Blocked" /\ blockingObject[u] = b

\* threadManager_blockThread puts one thread to sleep.
LEMMA BlockSleepers ==
    ASSUME SchedulerTypeOK, NEW t \in Threads, NEW c \in Blockers, BlockThread(t, c)
    PROVE  \A u \in Threads : \A b : Sleeps(u, b)' => Sleeps(u, b) \/ (u = t /\ b = c)
BY DEF BlockThread, SchedulerTypeOK, Sleeps

\* threadManager_unblockThread wakes its thread and puts nobody to sleep.
LEMMA UnblockSleepers ==
    ASSUME SchedulerTypeOK, NEW w \in Threads, UnblockThread(w)
    PROVE  \A u \in Threads : \A b : Sleeps(u, b)' => Sleeps(u, b) /\ u # w
BY DEF UnblockThread, AddThread, SchedulerTypeOK, Sleeps

\* Only the primitives of locks and of message queues put a thread to sleep on one.
LEMMA OthersKeepSleepers ==
    ASSUME SchedulerTypeOK, ControlOK,
           SliceStep \/ (\E t \in Threads : TaskStep(t))
              \/ ReplEval \/ ReplPrint \/ ReplQuit
    PROVE  \A u \in Threads : \A b \in Locks \cup MsgQs : Sleeps(u, b)' => Sleeps(u, b)
<1> USE Constants
<1>1. CASE UNCHANGED <<status, blockingObject>>
  BY <1>1 DEF Sleeps
<1>2. ASSUME NEW w \in Threads, NEW new \in {"Running", "Terminated"},
             status' = [status EXCEPT ![w] = new], UNCHANGED blockingObject
      PROVE  \A u \in Threads : \A b \in Locks \cup MsgQs : Sleeps(u, b)' => Sleeps(u, b)
  BY <1>2 DEF SchedulerTypeOK, Sleeps
<1>3. ASSUME NEW t \in Threads, NEW c \in Threads, BlockThread(t, c)
      PROVE  \A u \in Threads : \A b \in Locks \cup MsgQs : Sleeps(u, b)' => Sleeps(u, b)
  BY <1>3, BlockSleepers
<1>4. CASE SliceStep
  <2>1. CASE BeginSlice
    <3>1. Head(running) \in Threads
      BY <2>1, TailQueue DEF BeginSlice, SchedulerTypeOK
    <3> QED
      BY <1>2, <2>1, <3>1 DEF BeginSlice
  <2>2. CASE WakeNext
    <3>1. waking.thread \in Threads /\ waitingThreads[waking.thread] # <<>>
      BY <2>2 DEF WakeNext, ControlOK, SchedulerTypeOK
    <3>2. Head(waitingThreads[waking.thread]) \in Threads
      BY <3>1, DequeueType
    <3> QED
      BY <2>2, <3>2, UnblockSleepers DEF WakeNext
  <2>3. CASE KillNext
    <3>1. Head(killing) \in Threads
      BY <2>3, TailQueue DEF KillNext, SchedulerTypeOK
    <3> QED
      BY <1>1, <1>2, <2>3, <3>1 DEF KillNext, TerminateThread
  <2>4. CASE WakeDone \/ EndSlice
    BY <1>1, <2>4 DEF WakeDone, EndSlice, EndSliceOf, queueVars
  <2> QED
    BY <1>4, <2>1, <2>2, <2>3, <2>4 DEF SliceStep
<1>5. ASSUME NEW t \in Threads, TaskStep(t)
      PROVE  \A u \in Threads : \A b \in Locks \cup MsgQs : Sleeps(u, b)' => Sleeps(u, b)
  <2>1. ASSUME NEW k \in 1 .. MaxKids, NEW frames, SpawnKids(t, k, frames),
               status' = [u \in Threads |->
                            IF u \in nThreads .. nThreads + k - 1 THEN "Running"
                            ELSE IF u = t THEN "Blocked" ELSE status[u]],
               blockingObject' = [blockingObject EXCEPT ![t] = nThreads + k - 1]
        PROVE  \A u \in Threads : \A b \in Locks \cup MsgQs : Sleeps(u, b)' => Sleeps(u, b)
    <3>1. nThreads + k - 1 \in Threads
      BY <2>1, MaxKidsAssumption, MaxThreadsAssumption DEF SpawnKids, SchedulerTypeOK, Threads
    <3>2. blockingObject'[t] \in Threads
      BY <2>1, <3>1 DEF SchedulerTypeOK
    <3>3. \A u \in Threads \ {t} :
             /\ blockingObject'[u] = blockingObject[u]
             /\ status'[u] = "Blocked" => status[u] = "Blocked"
      BY <2>1 DEF SchedulerTypeOK
    <3> QED
      BY <3>2, <3>3 DEF Sleeps
  <2>2. CASE Cobegin(t)
    BY <2>1, <2>2 DEF Cobegin
  <2>3. CASE Nondet(t)
    BY <2>1, <2>3 DEF Nondet
  <2>4. CASE Join(t)
    <3>1. PICK c \in Allocated : BlockThread(t, c)
      BY <2>4 DEF Join
    <3>2. c \in Threads
      BY MaxThreadsAssumption DEF Allocated, SchedulerTypeOK, Threads
    <3> QED
      BY <1>3, <3>1, <3>2
  <2>5. CASE CobeginContinue(t)
    <3> DEFINE f == Head(estack[t])
    <3>1. CASE f.index = 1
      BY <1>1, <2>5, <3>1 DEF CobeginContinue
    <3>2. CASE f.index # 1
      <4>1. /\ BlockThread(t, f.kids[f.index - 1])
            /\ estack[t] # <<>> /\ f.kind = "cobegin"
        BY <2>5, <3>2 DEF CobeginContinue, EvalStep, Evaluates
      <4>2. estack[t] \in Seq(Frame) /\ FramesOK(estack[t])
        BY DEF SchedulerTypeOK, ControlOK
      <4>3. f \in Frame /\ 1 \in DOMAIN estack[t] /\ estack[t][1] = f
        BY <4>1, <4>2
      <4>4. f.kids \in Seq(Threads) /\ f.index \in 1 .. Len(f.kids)
        BY <4>1, <4>2, <4>3 DEF Frame, FramesOK
      <4> HIDE DEF f
      <4>5. f.kids[f.index - 1] \in Threads
        BY <3>2, <4>4
      <4> QED
        BY <1>3, <4>1, <4>5
    <3> QED
      BY <3>1, <3>2
  <2>6. CASE Throw(t)
    <3>1. UNCHANGED status /\ blockingObject' = [blockingObject EXCEPT ![t] = NIL]
      BY <2>6 DEF Throw
    <3> QED
      BY <3>1 DEF SchedulerTypeOK, Sleeps
  <2>7. CASE Async(t)
    BY <2>7 DEF Async, Sleeps
  <2>8. CASE FinishThread(t)
    BY <1>2, <2>8 DEF FinishThread, TerminateThread
  <2>9. CASE NondetContinue(t) \/ Compute(t) \/ Return(t) \/ Yield(t) \/ Catch(t)
    BY <1>1, <2>9 DEF NondetContinue, Compute, Return, Yield, Catch, queueVars
  <2> QED
    BY <1>5, <2>2, <2>3, <2>4, <2>5, <2>6, <2>7, <2>8, <2>9 DEF TaskStep
<1>6. CASE ReplPrint \/ ReplQuit
  BY <1>1, <1>6 DEF ReplPrint, ReplQuit, schedulerVars, queueVars
<1>7. CASE ReplEval
  BY <1>2, <1>7 DEF ReplEval, AddThread
<1> QED
  BY <1>4, <1>5, <1>6, <1>7

\* The call of a primitive of b, which may change who waits for b and nothing else: it does
\* nothing to the threads, blocks its caller, or wakes the thread that has waited longest.
LEMMA PrimitiveKeepsSleepers ==
    ASSUME SchedulerTypeOK, SleeperIsQueued, NEW t \in Threads, NEW b \in Locks \cup MsgQs,
           \/ UNCHANGED queueVars
           \/ BlockThread(t, b)
           \/ /\ waitingThreads[b] # <<>>
              /\ waitingThreads' = [waitingThreads EXCEPT ![b] = Tail(@)]
              /\ UnblockThread(Head(waitingThreads[b]))
    PROVE  SleeperIsQueued'
<1>1. b \in Blockers /\ b \notin Threads /\ waitingThreads[b] \in Seq(Threads)
  BY Constants DEF SchedulerTypeOK
<1>2. SUFFICES ASSUME NEW u \in Threads, NEW c \in Locks \cup MsgQs, Sleeps(u, c)'
               PROVE  Has(waitingThreads'[c], u)
  BY DEF SleeperIsQueued, Sleeps
<1>3. c \in Blockers /\ (Sleeps(u, c) => Has(waitingThreads[c], u))
  BY Constants DEF SleeperIsQueued, Sleeps
<1>4. CASE UNCHANGED queueVars
  BY <1>2, <1>3, <1>4 DEF Sleeps, queueVars
<1>5. CASE BlockThread(t, b)
  <2>1. waitingThreads' = [waitingThreads EXCEPT ![b] = Append(@, t)]
    BY <1>1, <1>5 DEF BlockThread
  <2>2. waitingThreads'[b] = Append(waitingThreads[b], t)
        /\ \A d \in Blockers : d # b => waitingThreads'[d] = waitingThreads[d]
    BY <1>1, <2>1 DEF SchedulerTypeOK
  <2>3. \A y : Has(waitingThreads'[b], y) <=> Has(waitingThreads[b], y) \/ y = t
    BY <1>1, <2>2, AppendQueue
  <2>4. Sleeps(u, c) \/ (u = t /\ c = b)
    BY <1>1, <1>2, <1>5, BlockSleepers
  <2> QED
    BY <1>3, <2>2, <2>3, <2>4
<1>6. CASE /\ waitingThreads[b] # <<>>
           /\ waitingThreads' = [waitingThreads EXCEPT ![b] = Tail(@)]
           /\ UnblockThread(Head(waitingThreads[b]))
  <2>1. PICK w \in Threads : w = Head(waitingThreads[b])
    BY <1>1, <1>6, TailQueue
  <2>2. \A y : Has(waitingThreads[b], y) <=> y = w \/ Has(Tail(waitingThreads[b]), y)
    BY <1>1, <1>6, <2>1, TailQueue
  <2>3. waitingThreads'[b] = Tail(waitingThreads[b])
        /\ \A d \in Blockers : d # b => waitingThreads'[d] = waitingThreads[d]
    BY <1>1, <1>6 DEF SchedulerTypeOK
  <2>4. Sleeps(u, c) /\ u # w
    BY <1>2, <1>6, <2>1, UnblockSleepers
  <2> QED
    BY <1>3, <2>2, <2>3, <2>4
<1> QED
  BY <1>4, <1>5, <1>6

\* A thread blocked on a lock or on a message queue stays in its queue until it is woken,
\* whatever has gone astray.
LEMMA NextSleepers ==
    ASSUME TypeOK, ControlOK, SleeperIsQueued, [Next]_vars
    PROVE  SleeperIsQueued'
<1>1. SchedulerTypeOK
  BY DEF TypeOK
<1>2. CASE SliceStep \/ (\E t \in Threads : TaskStep(t))
              \/ ReplEval \/ ReplPrint \/ ReplQuit
  <2>1. \A u \in Threads : \A b \in Locks \cup MsgQs :
           /\ Sleeps(u, b)' => Sleeps(u, b)
           /\ waitingThreads'[b] = waitingThreads[b]
    BY <1>1, <1>2, OthersKeepSleepers, OthersKeepWaiters
  <2> QED
    BY <2>1 DEF SleeperIsQueued, Sleeps
<1>3. ASSUME NEW t \in Threads, NEW l \in Locks, Acquire(t, l) \/ Release(t, l)
      PROVE  SleeperIsQueued'
  <2>1. \/ UNCHANGED queueVars
        \/ BlockThread(t, l)
        \/ /\ waitingThreads[l] # <<>>
           /\ waitingThreads' = [waitingThreads EXCEPT ![l] = Tail(@)]
           /\ UnblockThread(Head(waitingThreads[l]))
    BY <1>3 DEF Acquire, Release, Releasing, SetFree, HandOver
  <2> QED
    BY <1>1, <2>1, PrimitiveKeepsSleepers
<1>4. ASSUME NEW t \in Threads, MsgQStep(t)
      PROVE  SleeperIsQueued'
  <2>1. PICK q \in MsgQs : Wait(t, q) \/ \E m \in Messages : Enq(t, q, m)
    BY <1>4 DEF MsgQStep
  <2>2. \/ UNCHANGED queueVars
        \/ BlockThread(t, q)
        \/ /\ waitingThreads[q] # <<>>
           /\ waitingThreads' = [waitingThreads EXCEPT ![q] = Tail(@)]
           /\ UnblockThread(Head(waitingThreads[q]))
    BY <2>1 DEF Wait, Enq, Trigger
  <2> QED
    BY <1>1, <2>2, PrimitiveKeepsSleepers
<1>5. CASE UNCHANGED vars
  BY <1>5 DEF vars, schedulerVars, queueVars, SleeperIsQueued
<1> QED
  BY <1>2, <1>3, <1>4, <1>5, StepForms

\* A lock that is free has nobody waiting for it.
LEMMA NextFreeLock ==
    ASSUME TypeOK, ControlOK, FreeLockHasNoWaiters, [Next]_vars
    PROVE  FreeLockHasNoWaiters'
<1>1. SchedulerTypeOK /\ LockTypeOK
  BY DEF TypeOK
<1>2. ASSUME UNCHANGED lockVars,
             \A l \in Locks : waitingThreads'[l] = waitingThreads[l]
      PROVE  FreeLockHasNoWaiters'
  BY <1>2 DEF FreeLockHasNoWaiters, lockVars
<1>3. CASE \/ SliceStep /\ UNCHANGED <<lockVars, msgqVars>>
           \/ (\E t \in Threads : TaskStep(t)) /\ UNCHANGED <<lockVars, msgqVars>>
           \/ (ReplEval \/ ReplPrint \/ ReplQuit) /\ UNCHANGED <<lockVars, msgqVars>>
  BY <1>1, <1>2, <1>3, OthersKeepWaiters
<1>4. CASE \E t \in Threads : MsgQStep(t) /\ UNCHANGED lockVars
  BY <1>1, <1>2, <1>4, PrimitivesKeepWaiters
<1>5. CASE UNCHANGED vars
  BY <1>2, <1>5 DEF vars, schedulerVars, queueVars
<1>6. ASSUME NEW t \in Threads, NEW l \in Locks, Acquire(t, l)
      PROVE  FreeLockHasNoWaiters'
  <2>1. CASE lockedBy[l] = NIL
    <3>1. lockedBy' = [lockedBy EXCEPT ![l] = t] /\ UNCHANGED waitingThreads
      BY <1>6, <2>1 DEF Acquire, queueVars
    <3> QED
      BY <1>1, <3>1, Constants DEF FreeLockHasNoWaiters, LockTypeOK
  <2>2. CASE lockedBy[l] # NIL
    <3>1. UNCHANGED lockedBy /\ BlockThread(t, l)
      BY <1>6, <2>2 DEF Acquire
    <3>2. \A c \in Locks : c # l => waitingThreads'[c] = waitingThreads[c]
      BY <1>1, <3>1, Constants DEF BlockThread, SchedulerTypeOK
    <3> QED
      BY <2>2, <3>1, <3>2 DEF FreeLockHasNoWaiters
  <2> QED
    BY <2>1, <2>2
<1>7. ASSUME NEW t \in Threads, NEW l \in Locks, Release(t, l)
      PROVE  FreeLockHasNoWaiters'
  <2>1. CASE waitingThreads[l] = <<>>
    <3>1. lockedBy' = [lockedBy EXCEPT ![l] = NIL] /\ UNCHANGED waitingThreads
      BY <1>7, <2>1 DEF Release, Releasing, SetFree, HandOver, queueVars
    <3> QED
      BY <1>1, <2>1, <3>1 DEF FreeLockHasNoWaiters, LockTypeOK
  <2>2. CASE waitingThreads[l] # <<>>
    <3>1. /\ lockedBy' = [lockedBy EXCEPT ![l] = Head(waitingThreads[l])]
          /\ waitingThreads' = [waitingThreads EXCEPT ![l] = Tail(@)]
      BY <1>7, <2>2 DEF Release, Releasing, SetFree, HandOver
    <3>2. Head(waitingThreads[l]) \in Threads
      BY <1>1, <2>2, DequeueType, Constants
    <3>3. lockedBy'[l] # NIL
      BY <1>1, <3>1, <3>2, Constants DEF LockTypeOK
    <3>4. \A c \in Locks : c # l =>
             waitingThreads'[c] = waitingThreads[c] /\ lockedBy'[c] = lockedBy[c]
      BY <1>1, <3>1, Constants DEF LockTypeOK, SchedulerTypeOK
    <3> QED
      BY <3>3, <3>4 DEF FreeLockHasNoWaiters
  <2> QED
    BY <2>1, <2>2
<1> QED
  BY <1>3, <1>4, <1>5, <1>6, <1>7, StepForms

\* A message does not stay in a queue that a thread waits at.
LEMMA NextNoMessage ==
    ASSUME TypeOK, ControlOK, NoMessageWithWaiter, [Next]_vars
    PROVE  NoMessageWithWaiter'
<1>1. SchedulerTypeOK /\ MsgQTypeOK
  BY DEF TypeOK
<1>2. ASSUME UNCHANGED msgqVars,
             \A q \in MsgQs : waitingThreads'[q] = waitingThreads[q]
      PROVE  NoMessageWithWaiter'
  BY <1>2 DEF NoMessageWithWaiter, msgqVars
<1>3. CASE \/ SliceStep /\ UNCHANGED <<lockVars, msgqVars>>
           \/ (\E t \in Threads : TaskStep(t)) /\ UNCHANGED <<lockVars, msgqVars>>
           \/ (ReplEval \/ ReplPrint \/ ReplQuit) /\ UNCHANGED <<lockVars, msgqVars>>
  BY <1>1, <1>2, <1>3, OthersKeepWaiters
<1>4. CASE \E t \in Threads : \E l \in Locks :
              (Acquire(t, l) \/ Release(t, l)) /\ UNCHANGED msgqVars
  BY <1>1, <1>2, <1>4, PrimitivesKeepWaiters DEF LockStep
<1>5. CASE UNCHANGED vars
  BY <1>2, <1>5 DEF vars, schedulerVars, queueVars
<1>6. ASSUME NEW t \in Threads, NEW q \in MsgQs, Wait(t, q)
      PROVE  NoMessageWithWaiter'
  <2>1. CASE messages[q] = <<>>
    <3>1. UNCHANGED messages /\ BlockThread(t, q)
      BY <1>6, <2>1 DEF Wait
    <3>2. \A c \in MsgQs : c # q => waitingThreads'[c] = waitingThreads[c]
      BY <1>1, <3>1, Constants DEF BlockThread, SchedulerTypeOK
    <3> QED
      BY <2>1, <3>1, <3>2 DEF NoMessageWithWaiter
  <2>2. CASE messages[q] # <<>>
    <3>1. UNCHANGED waitingThreads
          /\ messages' = [messages EXCEPT ![q] = Tail(@)]
      BY <1>6, <2>2 DEF Wait, queueVars
    <3> QED
      BY <1>1, <2>2, <3>1 DEF NoMessageWithWaiter, MsgQTypeOK
  <2> QED
    BY <2>1, <2>2
<1>7. ASSUME NEW t \in Threads, NEW q \in MsgQs, NEW m \in Messages, Enq(t, q, m)
      PROVE  NoMessageWithWaiter'
  <2>1. CASE waitingThreads[q] = <<>>
    <3>1. UNCHANGED waitingThreads
          /\ messages' = [messages EXCEPT ![q] = Append(messages[q], m)]
      BY <1>7, <2>1 DEF Enq, Trigger, queueVars
    <3> QED
      BY <1>1, <2>1, <3>1 DEF NoMessageWithWaiter, MsgQTypeOK
  <2>2. CASE waitingThreads[q] # <<>>
    <3>1. messages[q] = <<>>
      BY <2>2 DEF NoMessageWithWaiter
    <3>2. /\ messages' = [messages EXCEPT ![q] = Tail(Append(messages[q], m))]
          /\ waitingThreads' = [waitingThreads EXCEPT ![q] = Tail(@)]
      BY <1>7, <2>2 DEF Enq, Trigger
    <3>3. Tail(Append(<<>>, m)) = <<>>
      OBVIOUS
    <3>4. \A c \in MsgQs :
             /\ c # q => waitingThreads'[c] = waitingThreads[c] /\ messages'[c] = messages[c]
             /\ c = q => messages'[c] = <<>>
      BY <1>1, <3>1, <3>2, <3>3, Constants DEF MsgQTypeOK, SchedulerTypeOK
    <3> QED
      BY <3>4 DEF NoMessageWithWaiter
  <2> QED
    BY <2>1, <2>2
<1> QED
  BY <1>3, <1>4, <1>5, <1>6, <1>7, StepForms DEF MsgQStep

\* A thread that waits for a lock goes on waiting, unless the lock is released to it.
LEMMA NextMutualExclusion ==
    ASSUME TypeOK, ControlOK, Calm, MutualExclusion, [Next]_vars
    PROVE  MutualExclusion'
<1> USE Constants
<1> SUFFICES ASSUME ~stray', ~rogue' PROVE
       \A u \in Threads : \A l \in inside'[u] : blockingObject'[u] # l => lockedBy'[l] = u
  BY DEF MutualExclusion
<1>1. SchedulerTypeOK /\ LockTypeOK
  BY DEF TypeOK
<1>2. ~stray /\ SlicesOK /\ QueuesOK
  <2>1. ~stray
    BY <1>1, StrayIsForever DEF vars, schedulerVars, SchedulerTypeOK
  <2> QED
    BY <2>1 DEF Calm
<1>3. \A u \in Threads : \A l \in Locks :
         blockingObject[u] = l => status[u] = "Blocked"
  BY <1>2 DEF QueuesOK
\* Steps that concern no lock.
<1>4. ASSUME NEW S, WokenFrom(S), \A l \in Locks : l \notin S, UNCHANGED lockVars
      PROVE  \A u \in Threads : \A l \in inside'[u] :
                blockingObject'[u] # l => lockedBy'[l] = u
  <2> SUFFICES ASSUME NEW u \in Threads, NEW l \in inside[u], blockingObject'[u] # l
               PROVE  lockedBy[l] = u
    BY <1>4 DEF lockVars
  <2>1. l \in Locks
    BY <1>1 DEF LockTypeOK
  <2>2. blockingObject[u] # l
    BY <1>3, <1>4, <2>1 DEF WokenFrom
  <2>3. ~rogue
    BY <1>4 DEF lockVars
  <2> QED
    BY <1>2, <2>2, <2>3 DEF MutualExclusion
<1>5. CASE SliceStep /\ UNCHANGED <<lockVars, msgqVars>>
  <2>1. \A l \in Locks : l \notin TerminatedThreads
    BY DEF TerminatedThreads
  <2> QED
    BY <1>1, <1>2, <1>4, <1>5, <2>1, SliceStepWakes
<1>6. CASE (\E t \in Threads : TaskStep(t)) /\ UNCHANGED <<lockVars, msgqVars>>
  BY <1>1, <1>2, <1>4, <1>6, TaskStepWakes
<1>7. CASE (ReplEval \/ ReplPrint \/ ReplQuit) /\ UNCHANGED <<lockVars, msgqVars>>
  BY <1>1, <1>2, <1>4, <1>7, ReplStepWakes
<1>8. CASE \E t \in Threads : MsgQStep(t) /\ UNCHANGED lockVars
  BY <1>1, <1>2, <1>4, <1>8, MsgQStepWakes
<1>9. CASE UNCHANGED vars
  BY <1>2, <1>9 DEF vars, schedulerVars, queueVars, lockVars, MutualExclusion
\* Steps that concern lock l.
<1>10. ASSUME NEW t \in Threads, NEW l \in Locks, Acquire(t, l) \/ Release(t, l)
       PROVE  \A u \in Threads : \A m \in inside'[u] :
                 blockingObject'[u] # m => lockedBy'[m] = u
  <2> SUFFICES ASSUME NEW u \in Threads, NEW m \in inside'[u], blockingObject'[u] # m
               PROVE  lockedBy'[m] = u
    OBVIOUS
  <2>1. /\ current = t /\ status[t] = "Running" /\ blockingObject[t] = NIL
        /\ WokenFrom({l})
        /\ \A v \in Threads : status[v] = "Blocked" =>
              \/ status'[v] = "Blocked" /\ blockingObject'[v] = blockingObject[v]
              \/ waitingThreads[l] # <<>> /\ v = Head(waitingThreads[l])
    BY <1>1, <1>2, <1>10, LockStepWakes
  <2>2. CASE Acquire(t, l)
    <3>1. /\ inside' = [inside EXCEPT ![t] = @ \cup {l}]
          /\ ~rogue
      BY <2>2 DEF Acquire
    <3>2. m \in Locks /\ (m \in inside[u] \/ (u = t /\ m = l))
      BY <1>1, <3>1 DEF LockTypeOK
    <3>3. CASE lockedBy[l] = NIL
      <4>1. lockedBy' = [lockedBy EXCEPT ![l] = t] /\ UNCHANGED queueVars
        BY <2>2, <3>3 DEF Acquire
      <4>2. CASE u = t /\ m = l
        BY <1>1, <4>1, <4>2 DEF LockTypeOK
      <4>3. CASE m \in inside[u]
        <5>1. lockedBy[m] = u
          BY <1>2, <3>1, <4>1, <4>3 DEF MutualExclusion, queueVars
        <5>2. m # l
          BY <3>3, <5>1
        <5> QED
          BY <1>1, <3>2, <4>1, <5>1, <5>2 DEF LockTypeOK
      <4> QED
        BY <3>2, <4>2, <4>3
    <3>4. CASE lockedBy[l] # NIL
      <4>1. UNCHANGED lockedBy /\ BlockThread(t, l)
        BY <2>2, <3>4 DEF Acquire
      <4>2. blockingObject' = [blockingObject EXCEPT ![t] = l]
        BY <4>1 DEF BlockThread
      <4>3. blockingObject'[t] = l /\ (u # t => blockingObject'[u] = blockingObject[u])
        BY <1>1, <4>2 DEF SchedulerTypeOK
      <4>4. m \in inside[u] /\ blockingObject[u] # m
        BY <2>1, <3>2, <4>3
      <4> QED
        BY <1>2, <3>1, <4>1, <4>4 DEF MutualExclusion
    <3> QED
      BY <3>3, <3>4
  <2>3. CASE Release(t, l)
    <3>1. /\ inside' = [inside EXCEPT ![t] = @ \ {l}]
          /\ ~rogue /\ l \in inside[t]
      BY <2>3 DEF Release, Releasing, SetFree, HandOver
    <3>2. lockedBy[l] = t
      BY <1>2, <2>1, <3>1 DEF MutualExclusion
    <3>3. m \in Locks /\ m \in inside[u] /\ ~(u = t /\ m = l)
      BY <1>1, <3>1 DEF LockTypeOK
    <3>4. CASE blockingObject[u] # m
      <4>1. lockedBy[m] = u
        BY <1>2, <3>1, <3>3, <3>4 DEF MutualExclusion
      <4>2. m # l
        BY <3>2, <3>3, <4>1
      <4>3. lockedBy'[m] = lockedBy[m]
        BY <1>1, <2>3, <3>3, <4>2 DEF Release, Releasing, SetFree, HandOver, LockTypeOK
      <4> QED
        BY <4>1, <4>3
    <3>5. CASE blockingObject[u] = m
      <4>1. status[u] = "Blocked"
        BY <1>3, <3>3, <3>5
      <4>2. m = l
        BY <2>1, <3>5, <4>1 DEF WokenFrom
      <4>3. waitingThreads[l] # <<>> /\ u = Head(waitingThreads[l])
        BY <2>1, <3>5, <4>1
      <4> QED
        BY <1>1, <2>3, <4>2, <4>3 DEF Release, Releasing, SetFree, HandOver, LockTypeOK
    <3> QED
      BY <3>4, <3>5
  <2> QED
    BY <1>10, <2>2, <2>3
<1> QED
  BY <1>5, <1>6, <1>7, <1>8, <1>9, <1>10, StepForms

-----------------------------------------------------------------------------
(* The theorems.                                                            *)

\* The inductive invariant holds in every state.
THEOREM Inductive == Spec => []IInv
<1>1. Init => IInv
  <2> SUFFICES ASSUME Init PROVE IInv
    OBVIOUS
  <2>1. TypeOK /\ ControlOK /\ Calm
    BY InitType, InitCalm
  <2>2. SleeperIsQueued /\ FreeLockHasNoWaiters /\ NoMessageWithWaiter /\ MutualExclusion
    BY Constants DEF Init, SchedulerInit, LockInit, MsgQInit, SleeperIsQueued,
                     FreeLockHasNoWaiters, NoMessageWithWaiter, MutualExclusion
  <2> QED
    BY <2>1, <2>2, CalmParts DEF IInv
<1>2. IInv /\ [Next]_vars => IInv'
  <2> SUFFICES ASSUME IInv, [Next]_vars PROVE IInv'
    OBVIOUS
  <2>1. TypeOK /\ ControlOK /\ Calm
    BY CalmParts DEF IInv
  <2>2. TypeOK' /\ ControlOK'
    BY <2>1, NextType
  <2>3. Calm'
    BY <2>1, NextCalm
  <2>4. SleeperIsQueued' /\ FreeLockHasNoWaiters' /\ NoMessageWithWaiter' /\ MutualExclusion'
    BY <2>1, NextSleepers, NextFreeLock, NextNoMessage, NextMutualExclusion DEF IInv
  <2>5. ThreadsOK' /\ RunQueueIsExact' /\ WaiterIsBlocked'
    BY <2>3 DEF Calm, SlicesOK, QueuesOK, ThreadsOK, RunQueueIsExact, WaiterIsBlocked
  <2> QED
    BY <2>2, <2>4, <2>5 DEF IInv
<1> QED
  BY <1>1, <1>2, PTL DEF Spec

\* No thread is lost by the run queue or runs twice in a round of it
\* (threadManager_addThread, threadManager_runNextThread).
THEOREM RunQueueCorrect == Spec => []RunQueueIsExact
<1>1. IInv => RunQueueIsExact
  BY DEF IInv
<1> QED
  BY <1>1, Inductive, PTL

\* A wakeup reaches only threads that wait for it, and each of them once
\* (evaluator_addWaitingThread and the waitingThreads of locks and queues).
THEOREM WakeupsAreExact == Spec => []WaiterIsBlocked
<1>1. IInv => WaiterIsBlocked
  BY DEF IInv
<1> QED
  BY <1>1, Inductive, PTL

\* No wakeup is lost between a release and an acquire (lock_release).
THEOREM NoLostLock == Spec => []FreeLockHasNoWaiters
<1>1. IInv => FreeLockHasNoWaiters
  BY DEF IInv
<1> QED
  BY <1>1, Inductive, PTL

\* No wakeup is lost between an enq and a wait (msgq_enq, msgq_wait).
THEOREM NoLostMessage == Spec => []NoMessageWithWaiter
<1>1. IInv => NoMessageWithWaiter
  BY DEF IInv
<1> QED
  BY <1>1, Inductive, PTL

\* lock_acquire and lock_release exclude each other's owners.
THEOREM LocksExclude == Spec => []MutualExclusion
<1>1. IInv => MutualExclusion
  BY DEF IInv
<1> QED
  BY <1>1, Inductive, PTL

\* What a step may do to the states of threads, until threads go astray.
LEMMA StepWakes ==
    ASSUME IInv, [Next]_vars, ~stray'
    PROVE  /\ WokenFrom(TerminatedThreads \cup Locks \cup MsgQs)
           /\ TerminatedStay
<1>1. SchedulerTypeOK /\ ControlOK
  BY DEF IInv, TypeOK
<1>2. SlicesOK /\ QueuesOK
  <2>1. ~stray
    BY <1>1, StrayIsForever DEF vars, schedulerVars, SchedulerTypeOK
  <2> QED
    BY <2>1, CalmParts DEF IInv, Calm
<1>3. ASSUME NEW S, WokenFrom(S), S \subseteq TerminatedThreads \cup Locks \cup MsgQs
      PROVE  WokenFrom(TerminatedThreads \cup Locks \cup MsgQs)
  BY <1>3 DEF WokenFrom
<1>4. CASE SliceStep
  BY <1>1, <1>2, <1>3, <1>4, SliceStepWakes
<1>5. CASE \E t \in Threads : TaskStep(t)
  BY <1>1, <1>2, <1>3, <1>5, TaskStepWakes
<1>6. CASE ReplEval \/ ReplPrint \/ ReplQuit
  BY <1>1, <1>3, <1>6, ReplStepWakes
<1>7. CASE \E t \in Threads : \E l \in Locks : Acquire(t, l) \/ Release(t, l)
  <2>1. PICK t \in Threads, l \in Locks : Acquire(t, l) \/ Release(t, l)
    BY <1>7
  <2>2. WokenFrom({l}) /\ TerminatedStay
    BY <1>1, <1>2, <2>1, LockStepWakes
  <2> QED
    BY <1>3, <2>2
<1>8. CASE \E t \in Threads : MsgQStep(t)
  BY <1>1, <1>2, <1>3, <1>8, MsgQStepWakes
<1>9. CASE UNCHANGED vars
  BY <1>9 DEF vars, schedulerVars, queueVars, WokenFrom, TerminatedStay
<1> QED
  BY <1>4, <1>5, <1>6, <1>7, <1>8, <1>9, StepForms

\* Whoever waits for a thread, in task:join or in cobegin, waits until it has
\* terminated (threadManager_blockThread, evaluator_unblockWaitingThreads).
THEOREM JoinIsCorrect == Spec => JoinReturnsAfterTermination
<1>1. IInv /\ [Next]_vars =>
         [\A t \in Threads :
             (~stray' /\ status[t] = "Blocked" /\ blockingObject[t] \in Threads
                      /\ status'[t] # "Blocked")
                => status[blockingObject[t]] = "Terminated"]_vars
  <2> SUFFICES ASSUME IInv, [Next]_vars, ~stray', NEW t \in Threads,
                      status[t] = "Blocked", blockingObject[t] \in Threads,
                      status'[t] # "Blocked"
               PROVE  status[blockingObject[t]] = "Terminated"
    OBVIOUS
  <2>1. blockingObject[t] \in TerminatedThreads \cup Locks \cup MsgQs
    BY StepWakes DEF WokenFrom
  <2> QED
    BY <2>1, Constants DEF TerminatedThreads
<1> QED
  BY <1>1, Inductive, PTL DEF Spec, JoinReturnsAfterTermination

\* Nothing brings a thread that has terminated back to the run queue.
THEOREM ThreadsStayTerminated == Spec => TerminationIsFinal
<1>1. IInv /\ [Next]_vars =>
         [\A t \in Threads \ {Main} :
             ~stray' /\ status[t] = "Terminated" => status'[t] = "Terminated"]_vars
  BY StepWakes DEF TerminatedStay
<1> QED
  BY <1>1, Inductive, PTL DEF Spec, TerminationIsFinal

=============================================================================
