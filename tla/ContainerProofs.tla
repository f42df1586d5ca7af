--------------------------- MODULE ContainerProofs ---------------------------
(****************************************************************************)
(* What holds things behaves as what it promises.  A queue of any length    *)
(* and a buffer of any number of segments are first in, first out: Queue    *)
(* and StringBuffer implement Fifo.  A hash table of any size is a          *)
(* dictionary: HashTable implements Dictionary.                             *)
(*                                                                          *)
(* The chains of the first two are sequences, of which the first section    *)
(* says what the proofs need.  The numbers in it are the induction: what    *)
(* holds up to a least counterexample holds.  The links of a table are seen *)
(* as the set All of them, which the loops over the table, the folds of     *)
(* resize and of the copy, go through one by one.                           *)
(****************************************************************************)
EXTENDS Queue, StringBuffer, HashTable, SequenceTheorems, FiniteSetTheorems,
        WellFoundedInduction, TLAPS

\* A set of numbers that is not empty has a least one.  What is shown for a least number that
\* would be a counterexample is shown for every number.
LEMMA LeastNumber ==
    ASSUME NEW s \in SUBSET Nat, s # {}
    PROVE  \E n \in s : \A m \in s : n <= m
<1> DEFINE less == {ss \in Nat \X Nat : ss[1] < ss[2]}
<1>1. OpToRel(<, Nat) = less
  BY DEF OpToRel
<1>2. IsWellFoundedOn(less, Nat)
  BY <1>1, NatLessThanWellFounded
<1>3. \E n \in s : \A m \in s : ~ (<<m, n>> \in less)
  <2> HIDE DEF less
  <2> QED BY <1>2, WFMin
<1>4. PICK n \in s : \A m \in s : ~ (<<m, n>> \in less)
  BY <1>3
<1>5. ASSUME NEW m \in s PROVE n <= m
  <2>1. ~ (m < n)
    BY <1>4
  <2> QED BY <2>1
<1> QED BY <1>5

-----------------------------------------------------------------------------
(* Sequences of sequences put one behind the other. *)

\* g runs through the sequences that the first parts make, up to n of them.
JoinedTo(parts, g, n) ==
    g = [m \in 1..n |-> IF m = 1 THEN parts[m] ELSE g[m - 1] \o parts[m]]

\* There is such a function for each number of parts.
LEMMA JoinedExists ==
    ASSUME NEW parts, NEW n \in Nat
    PROVE  \E g : JoinedTo(parts, g, n)
<1> DEFINE Missing == {m \in Nat : ~ \E g : JoinedTo(parts, g, m)}
<1> SUFFICES ASSUME Missing # {} PROVE FALSE
  OBVIOUS
<1>1. PICK m \in Missing : \A k \in Missing : m <= k
  <2> HIDE DEF Missing
  <2>1. Missing \in SUBSET Nat
    BY DEF Missing
  <2> QED BY <2>1, LeastNumber
<1>2. m # 0
  <2>1. JoinedTo(parts, [k \in 1..0 |-> IF k = 1 THEN parts[k] ELSE parts[k]], 0)
    BY DEF JoinedTo
  <2> QED BY <2>1
<1>3. PICK g : JoinedTo(parts, g, m - 1)
  BY <1>1, <1>2
<1> DEFINE h == [k \in 1..m |-> IF k = m THEN IF m = 1 THEN parts[m] ELSE g[m - 1] \o parts[m]
                                ELSE g[k]]
<1>4. JoinedTo(parts, h, m)
  <2>1. ASSUME NEW k \in 1..m
        PROVE  h[k] = IF k = 1 THEN parts[k] ELSE h[k - 1] \o parts[k]
    <3>1. CASE k = m
      BY <3>1, <1>2
    <3>2. CASE k # m
      <4>1. k \in 1..(m - 1) /\ h[k] = g[k]
        BY <3>2
      <4>2. k # 1 => h[k - 1] = g[k - 1]
        BY <3>2
      <4>3. g[k] = IF k = 1 THEN parts[k] ELSE g[k - 1] \o parts[k]
        BY <4>1, <1>3 DEF JoinedTo
      <4> QED BY <4>1, <4>2, <4>3
    <3> QED BY <3>1, <3>2
  <2> QED BY <2>1 DEF JoinedTo
<1> QED BY <1>4

\* What FlattenSeq computes is the last of those sequences.
LEMMA FlattenIsJoined ==
    ASSUME NEW S, NEW parts \in Seq(Seq(S)), parts # <<>>
    PROVE  \E g : JoinedTo(parts, g, Len(parts)) /\ FlattenSeq(parts) = g[Len(parts)]
<1>1. Len(parts) \in Nat /\ Len(parts) # 0
  OBVIOUS
<1>2. PICK g : JoinedTo(parts, g, Len(parts))
  BY <1>1, JoinedExists
<1> QED BY <1>1, <1>2 DEF FlattenSeq, JoinedTo

\* P runs through the sequences that the first parts make, from the empty one on.
Stepwise(S, parts, P) ==
    /\ P \in [0..Len(parts) -> Seq(S)]
    /\ P[0] = <<>>
    /\ \A m \in 1..Len(parts) : P[m] = P[m - 1] \o parts[m]

\* The same from the empty sequence on, which needs no case for the first part.
LEMMA FlattenIsStepwise ==
    ASSUME NEW S, NEW parts \in Seq(Seq(S))
    PROVE  \E P : Stepwise(S, parts, P) /\ FlattenSeq(parts) = P[Len(parts)]
<1>1. CASE parts = <<>>
  <2> DEFINE P == [m \in 0..0 |-> <<>>]
  <2>1. Len(parts) = 0 /\ P \in [0..0 -> Seq(S)]
    BY <1>1
  <2>2. FlattenSeq(parts) = <<>>
    BY <1>1 DEF FlattenSeq
  <2>3. Stepwise(S, parts, P) /\ FlattenSeq(parts) = P[Len(parts)]
    BY <2>1, <2>2 DEF Stepwise
  <2> QED BY <2>3
<1>2. CASE parts # <<>>
  <2>1. PICK g : JoinedTo(parts, g, Len(parts)) /\ FlattenSeq(parts) = g[Len(parts)]
    BY <1>2, FlattenIsJoined
  <2> DEFINE N == Len(parts)
             P == [m \in 0..N |-> IF m = 0 THEN <<>> ELSE g[m]]
             Bad == {m \in 0..N : ~ (P[m] \in Seq(S))}
  <2>2. N \in Nat /\ N # 0
    BY <1>2
  <2>3. \A m \in 1..N : parts[m] \in Seq(S)
    OBVIOUS
  <2>4. \A m \in 1..N : g[m] = IF m = 1 THEN parts[m] ELSE g[m - 1] \o parts[m]
    BY <2>1 DEF JoinedTo
  <2> HIDE DEF N
  <2>5. \A m \in 0..N : P[m] \in Seq(S)
    <3> SUFFICES ASSUME Bad # {} PROVE FALSE
      OBVIOUS
    <3>1. PICK m \in Bad : \A k \in Bad : m <= k
      <4> HIDE DEF Bad
      <4>1. Bad \in SUBSET Nat
        BY <2>2 DEF Bad
      <4> QED BY <4>1, LeastNumber
    <3>2. m \in 1..N /\ P[m] = g[m]
      BY <3>1
    <3>3. m # 1 => g[m - 1] \in Seq(S)
      <4>1. m # 1 => m - 1 \in 1..N /\ m - 1 \notin Bad
        BY <3>1, <3>2, <2>2
      <4> QED BY <4>1
    <3>4. g[m] \in Seq(S)
      <4> DEFINE q == g[m - 1]
                 r == parts[m]
      <4>1. r \in Seq(S) /\ g[m] = IF m = 1 THEN r ELSE q \o r
        BY <2>3, <2>4, <3>2
      <4>2. m # 1 => q \in Seq(S)
        BY <3>3
      <4> HIDE DEF q, r
      <4>3. m # 1 => q \o r \in Seq(S)
        BY <4>1, <4>2, ConcatProperties
      <4> QED BY <4>1, <4>3
    <3> QED BY <3>1, <3>2, <3>4
  <2>6. \A m \in 1..N : P[m] = P[m - 1] \o parts[m]
    <3> SUFFICES ASSUME NEW m \in 1..N PROVE P[m] = P[m - 1] \o parts[m]
      OBVIOUS
    <3>0. g[m] = IF m = 1 THEN parts[m] ELSE g[m - 1] \o parts[m]
      BY <2>4
    <3>3. m \in 0..N /\ m # 0 /\ m - 1 \in 0..N
      BY <2>2
    <3>4. P[m] = g[m] /\ P[m - 1] = IF m - 1 = 0 THEN <<>> ELSE g[m - 1]
      BY <3>3
    <3>1. CASE m = 1
      <4>1. P[m] = parts[m] /\ P[m - 1] = <<>> /\ parts[m] \in Seq(S)
        BY <2>3, <3>0, <3>4, <3>1
      <4> HIDE DEF P
      <4> QED BY <4>1, ConcatEmptySeq
    <3>2. CASE m # 1
      <4>1. m - 1 # 0
        BY <3>2
      <4> QED BY <3>0, <3>4, <3>2, <4>1
    <3> QED BY <3>1, <3>2
  <2>7. Stepwise(S, parts, P) /\ FlattenSeq(parts) = P[Len(parts)]
    <3>1. P \in [0..N -> Seq(S)]
      BY <2>5
    <3>2. P[0] = <<>> /\ P[N] = g[N]
      BY <2>2
    <3> HIDE DEF P
    <3> QED BY <2>1, <2>6, <3>1, <3>2 DEF Stepwise, N
  <2> HIDE DEF P
  <2> QED BY <2>7
<1> QED BY <1>1, <1>2

\* What is shown of P for a number follows for all of them by looking at the least
\* counterexample; two runs over parts that agree up to n agree up to n.
LEMMA StepwiseAgree ==
    ASSUME NEW S, NEW p1 \in Seq(Seq(S)), NEW p2 \in Seq(Seq(S)),
           NEW P1, Stepwise(S, p1, P1), NEW P2, Stepwise(S, p2, P2),
           NEW n \in Nat, n <= Len(p1), n <= Len(p2),
           \A m \in 1..n : p1[m] = p2[m]
    PROVE  P1[n] = P2[n]
<1> DEFINE Bad == {m \in 0..n : P1[m] # P2[m]}
<1> SUFFICES ASSUME Bad # {} PROVE FALSE
  OBVIOUS
<1>1. PICK m \in Bad : \A k \in Bad : m <= k
  <2> HIDE DEF Bad
  <2>1. Bad \in SUBSET Nat
    BY DEF Bad
  <2> QED BY <2>1, LeastNumber
<1>2. m # 0
  BY <1>1 DEF Stepwise
<1>3. P1[m - 1] = P2[m - 1]
  BY <1>1, <1>2
<1>4. m \in 1..n /\ m \in 1..Len(p1) /\ m \in 1..Len(p2)
  BY <1>1, <1>2
<1> QED BY <1>1, <1>3, <1>4 DEF Stepwise

\* A part behind the others comes last.
LEMMA FlattenAppend ==
    ASSUME NEW S, NEW parts \in Seq(Seq(S)), NEW part \in Seq(S)
    PROVE  /\ FlattenSeq(parts) \in Seq(S)
           /\ FlattenSeq(Append(parts, part)) = FlattenSeq(parts) \o part
<1> DEFINE more == Append(parts, part)
           N == Len(parts)
<1>1. /\ more \in Seq(Seq(S)) /\ Len(more) = N + 1 /\ N \in Nat
      /\ \A m \in 1..N : more[m] = parts[m]
      /\ more[N + 1] = part
  BY AppendProperties
<1> HIDE DEF more, N
<1>2. PICK P : Stepwise(S, parts, P) /\ FlattenSeq(parts) = P[N]
  BY FlattenIsStepwise DEF N
<1>3. PICK Q : Stepwise(S, more, Q) /\ FlattenSeq(more) = Q[N + 1]
  BY <1>1, FlattenIsStepwise
<1>4. P[N] = Q[N]
  <2>1. N <= Len(parts) /\ N <= Len(more)
    BY <1>1 DEF N
  <2> QED BY <1>1, <1>2, <1>3, <2>1, StepwiseAgree
<1>5. N + 1 \in 1..Len(more) /\ (N + 1) - 1 = N
  BY <1>1
<1>6. Q[N + 1] = Q[N] \o part
  <2>1. Q[N + 1] = Q[(N + 1) - 1] \o more[N + 1]
    BY <1>3, <1>5 DEF Stepwise
  <2> QED BY <1>1, <1>5, <2>1
<1>7. P[N] \in Seq(S)
  <2>1. P \in [0..N -> Seq(S)]
    BY <1>2 DEF Stepwise, N
  <2> QED BY <1>1, <2>1
<1> QED BY <1>2, <1>3, <1>4, <1>6, <1>7 DEF more

\* No parts, no elements.
LEMMA FlattenEmpty == FlattenSeq(<<>>) = <<>>
BY DEF FlattenSeq

\* A part before the others comes first.
LEMMA FlattenCons ==
    ASSUME NEW S, NEW parts \in Seq(Seq(S)), parts # <<>>
    PROVE  FlattenSeq(parts) = Head(parts) \o FlattenSeq(Tail(parts))
<1> DEFINE rest == Tail(parts)
           first == parts[1]
           N == Len(rest)
<1>1. /\ rest \in Seq(Seq(S)) /\ N \in Nat /\ Len(parts) = N + 1 /\ first \in Seq(S)
      /\ Head(parts) = first
      /\ \A m \in 1..N : rest[m] = parts[m + 1]
  <2>1. Len(parts) \in Nat \ {0}
    BY EmptySeq
  <2>2. 1 \in 1..Len(parts)
    BY <2>1
  <2> QED BY <2>1, <2>2, HeadTailProperties, ElementOfSeq
<1> HIDE DEF rest, first
<1>2. PICK P : Stepwise(S, parts, P) /\ FlattenSeq(parts) = P[N + 1]
  BY <1>1, FlattenIsStepwise
<1>3. PICK Q : Stepwise(S, rest, Q) /\ FlattenSeq(rest) = Q[N]
  BY <1>1, FlattenIsStepwise
<1> HIDE DEF N
<1> DEFINE Bad == {m \in 0..N : P[m + 1] # first \o Q[m]}
<1>4. Bad = {}
  <2> SUFFICES ASSUME Bad # {} PROVE FALSE
    OBVIOUS
  <2>1. PICK m \in Bad : \A k \in Bad : m <= k
    <3> HIDE DEF Bad
    <3>1. Bad \in SUBSET Nat
      BY <1>1 DEF Bad
    <3> QED BY <3>1, LeastNumber
  <2>2. m \in 0..N /\ P[m + 1] # first \o Q[m]
    BY <2>1
  <2>3. P[m + 1] = P[m] \o parts[m + 1]
    <3>1. m + 1 \in 1..Len(parts) /\ (m + 1) - 1 = m
      BY <1>1, <2>2
    <3>2. P[m + 1] = P[(m + 1) - 1] \o parts[m + 1]
      BY <1>2, <3>1 DEF Stepwise
    <3> QED BY <3>1, <3>2
  <2>4. m # 0
    <3> SUFFICES ASSUME m = 0 PROVE FALSE
      OBVIOUS
    <3>1. P[0] = <<>> /\ Q[0] = <<>>
      BY <1>2, <1>3 DEF Stepwise
    <3>2. P[m + 1] = <<>> \o first
      BY <2>3, <3>1, <1>1 DEF first
    <3>3. <<>> \o first = first /\ first \o <<>> = first
      BY <1>1, ConcatEmptySeq
    <3> QED BY <2>2, <3>1, <3>2, <3>3
  <2>5. P[m] = first \o Q[m - 1]
    <3>1. m - 1 \in 0..N /\ (m - 1) + 1 = m
      BY <2>2, <2>4, <1>1
    <3>2. m - 1 \notin Bad
      <4> HIDE DEF Bad
      <4> QED BY <2>1, <3>1
    <3> QED BY <3>1, <3>2
  <2>6. Q[m] = Q[m - 1] \o rest[m] /\ rest[m] = parts[m + 1]
    <3>1. m \in 1..N
      BY <2>2, <2>4, <1>1
    <3> QED BY <1>1, <1>3, <3>1 DEF Stepwise, N
  <2>7. Q[m - 1] \in Seq(S) /\ rest[m] \in Seq(S)
    <3>1. m \in 1..N /\ m - 1 \in 0..N
      BY <2>2, <2>4, <1>1
    <3>2. Q \in [0..N -> Seq(S)]
      BY <1>3 DEF Stepwise, N
    <3>3. rest[m] \in Seq(S)
      BY <1>1, <3>1, ElementOfSeq DEF N
    <3> QED BY <3>1, <3>2, <3>3
  <2> DEFINE q == Q[m - 1]
             r == rest[m]
  <2>8. /\ q \in Seq(S) /\ r \in Seq(S) /\ first \in Seq(S)
        /\ P[m] = first \o q
        /\ P[m + 1] = P[m] \o r
        /\ P[m + 1] # first \o (q \o r)
    BY <1>1, <2>2, <2>3, <2>5, <2>6, <2>7
  <2> HIDE DEF q, r
  <2>9. (first \o q) \o r = first \o (q \o r)
    <3> HIDE DEF Bad, N
    <3>1. q \in Seq(S) /\ r \in Seq(S) /\ first \in Seq(S)
      BY <2>8
    <3> HIDE DEF first
    <3>2. \A x, y, z \in Seq(S) : (x \o y) \o z = x \o (y \o z)
      BY ConcatAssociative, SMTT(60)
    <3> QED BY <3>1, <3>2
  <2> QED BY <2>8, <2>9
<1>5. N \in 0..N
  BY <1>1
<1>6. P[N + 1] = first \o Q[N]
  BY <1>4, <1>5
<1> QED BY <1>1, <1>2, <1>3, <1>6 DEF rest

-----------------------------------------------------------------------------
(* The queue. *)

\* A list cell: an element and the number of a cell, or EMPTY_LIST.
Cell == [first : Elems, rest : Nat]

\* The types of the fields of a queue.
CountType ==
    /\ cells \in Seq(Cell)
    /\ queueCount \in Nat /\ head \in Nat /\ tail \in Nat

\* Without elements both ends are EMPTY_LIST.
EmptyEnds == queueCount = 0 => head = EMPTY_LIST /\ tail = EMPTY_LIST

\* The elements are in the cells allocated last, as many as the count says.
LastCells ==
    queueCount # 0 =>
        /\ head >= 1
        /\ tail = Len(cells)
        /\ tail = head + queueCount - 1

\* The links follow the order of allocation and end at the tail.
Linked ==
    queueCount # 0 =>
        /\ cells[tail].rest = EMPTY_LIST
        /\ \A i \in head..tail - 1 : cells[i].rest = i + 1

\* What holds in all states of a queue.
QueueInv == CountType /\ EmptyEnds /\ LastCells /\ Linked

-----------------------------------------------------------------------------
\* A new queue has no cells.
LEMMA QueueInvInit == QueueInit => QueueInv
BY DEF QueueInit, QueueInv, CountType, EmptyEnds, LastCells, Linked, EMPTY_LIST

\* What Enq does to the cells: the last one gets a link, all keep their
\* elements, and the new one ends the chain.
LEMMA EnqCells ==
    ASSUME QueueInv, NEW e \in Elems, Enq(e)
    PROVE  /\ cells' \in Seq(Cell)
           /\ Len(cells') = Len(cells) + 1
           /\ cells'[Len(cells) + 1] = [first |-> e, rest |-> EMPTY_LIST]
           /\ \A i \in 1..Len(cells) : cells'[i].first = cells[i].first
           /\ \A i \in 1..Len(cells) :
                 cells'[i].rest = IF queueCount # 0 /\ i = tail
                                  THEN Len(cells) + 1 ELSE cells[i].rest
<1> DEFINE new == Len(cells) + 1
           cell == [first |-> e, rest |-> EMPTY_LIST]
<1>1. cells \in Seq(Cell) /\ cell \in Cell /\ new \in Nat
  BY DEF QueueInv, CountType, Cell, EMPTY_LIST
<1>2. CASE queueCount = 0
  BY <1>1, <1>2 DEF Enq
<1>3. CASE queueCount # 0
  <2> DEFINE linked == [cells EXCEPT ![tail].rest = new]
  <2>1. tail \in 1..Len(cells)
    BY <1>3 DEF QueueInv, LastCells, CountType
  <2>2. linked \in Seq(Cell) /\ Len(linked) = Len(cells)
    <3>1. \A i \in 1..Len(cells) : cells[i] \in Cell
      BY <1>1
    <3>2. [cells[tail] EXCEPT !.rest = new] \in Cell
      BY <1>1, <2>1, <3>1 DEF Cell
    <3> QED BY <1>1, <2>1, <3>2
  <2>3. cells' = Append(linked, cell)
    BY <1>3 DEF Enq
  <2>4. \A i \in 1..Len(cells) :
           /\ linked[i].first = cells[i].first
           /\ linked[i].rest = IF i = tail THEN new ELSE cells[i].rest
    BY <1>1, <2>1 DEF Cell
  <2> HIDE DEF linked
  <2> QED BY <1>1, <1>3, <2>2, <2>3, <2>4
<1> QED BY <1>2, <1>3

\* The line of elements, element by element.
LineShape ==
    /\ Line \in Seq(Elems)
    /\ Len(Line) = queueCount
    /\ \A i \in 1..queueCount : Line[i] = cells[head + i - 1].first

\* In the states of a queue the cells that are counted are there.
LEMMA LineIsASequence == QueueInv => LineShape
<1> SUFFICES ASSUME QueueInv PROVE LineShape
  OBVIOUS
<1>1. \A i \in 1..queueCount : head + i - 1 \in 1..Len(cells)
  BY DEF QueueInv, CountType, LastCells
<1>2. \A i \in 1..Len(cells) : cells[i].first \in Elems
  <2>1. \A i \in 1..Len(cells) : cells[i] \in Cell
    BY ElementOfSeq DEF QueueInv, CountType
  <2> QED BY <2>1 DEF Cell
<1>3. \A i \in 1..queueCount : cells[head + i - 1].first \in Elems
  BY <1>1, <1>2
<1> QED BY <1>3 DEF Line, LineShape, QueueInv, CountType

\* The same of the state after a step.
LEMMA LineStaysASequence == QueueInv' => LineShape'
BY LineIsASequence, PTL

\* The head of a queue that is not empty is a cell, and its link is the next
\* cell or, at the tail, EMPTY_LIST.
LEMMA HeadCell ==
    ASSUME QueueInv, queueCount # 0
    PROVE  /\ head \in 1..Len(cells)
           /\ cells[head].rest = IF queueCount = 1 THEN EMPTY_LIST ELSE head + 1
BY DEF QueueInv, CountType, LastCells, Linked

\* Each operation keeps the ends, the count and the links in agreement.
LEMMA QueueInvStep == QueueInv /\ [QueueNext]_queueVars => QueueInv'
<1> SUFFICES ASSUME QueueInv, [QueueNext]_queueVars
             PROVE  QueueInv'
  OBVIOUS
<1> USE DEF EMPTY_LIST
<1>1. ASSUME NEW e \in Elems, Enq(e)
      PROVE  QueueInv'
  <2>1. CountType'
    <3>1. cells' \in Seq(Cell)
      BY <1>1, EnqCells
    <3>2. /\ queueCount' = queueCount + 1
          /\ head' \in {head, Len(cells) + 1} /\ tail' = Len(cells) + 1
      BY <1>1 DEF Enq
    <3>3. queueCount \in Nat /\ head \in Nat /\ Len(cells) \in Nat
      BY DEF QueueInv, CountType
    <3> QED BY <3>1, <3>2, <3>3 DEF CountType
  <2>2. EmptyEnds'
    BY <1>1 DEF QueueInv, CountType, EmptyEnds, Enq
  <2>3. LastCells'
    BY <1>1, EnqCells DEF QueueInv, CountType, LastCells, Enq
  <2>4. Linked'
    <3>1. CASE queueCount = 0
      BY <1>1, <3>1, EnqCells DEF QueueInv, CountType, Linked, Enq
    <3>2. CASE queueCount # 0
      <4>1. tail' = Len(cells) + 1 /\ head' = head /\ tail = Len(cells) /\ head >= 1
        BY <1>1, <3>2 DEF QueueInv, LastCells, Enq
      <4>2. cells'[tail'].rest = EMPTY_LIST
        <5>1. cells'[Len(cells) + 1] = [first |-> e, rest |-> EMPTY_LIST]
          BY <1>1, EnqCells
        <5> QED BY <4>1, <5>1
      <4>3. ASSUME NEW i \in head..tail
            PROVE  cells'[i].rest = i + 1
        <5>1. i \in 1..Len(cells)
          BY <4>1 DEF QueueInv, CountType
        <5>2. cells'[i].rest = IF i = tail THEN Len(cells) + 1 ELSE cells[i].rest
          BY <1>1, <3>2, <5>1, EnqCells
        <5>3. i # tail => cells[i].rest = i + 1
          BY <3>2 DEF QueueInv, CountType, Linked
        <5> QED BY <4>1, <5>2, <5>3
      <4> QED BY <4>1, <4>2, <4>3 DEF QueueInv, CountType, Linked
    <3> QED BY <3>1, <3>2
  <2> QED BY <2>1, <2>2, <2>3, <2>4 DEF QueueInv
<1>2. ASSUME Deq
      PROVE  QueueInv'
  <2>1. CASE queueCount = 0
    BY <1>2, <2>1
       DEF Deq, QueueInv, CountType, EmptyEnds, LastCells, Linked
  <2>2. CASE queueCount # 0
    <3>1. /\ cells' = cells
          /\ head' = cells[head].rest
          /\ queueCount' = queueCount - 1
          /\ tail' = IF head' = EMPTY_LIST THEN head' ELSE tail
      BY <1>2, <2>2 DEF Deq
    <3> QED BY <2>2, <3>1, HeadCell
            DEF QueueInv, CountType, EmptyEnds, LastCells, Linked
  <2> QED BY <2>1, <2>2
<1>3. CASE QueuePeek
  BY <1>3 DEF QueuePeek, QueueInv, CountType, EmptyEnds, LastCells, Linked
<1>4. CASE AsList
  BY <1>4 DEF AsList, QueueInv, CountType, EmptyEnds, LastCells, Linked
<1>5. CASE HeldNext
  BY <1>5 DEF HeldNext, QueueInv, CountType, EmptyEnds, LastCells, Linked
<1>6. CASE UNCHANGED queueVars
  BY <1>6 DEF queueVars, QueueInv, CountType, EmptyEnds, LastCells, Linked
<1> QED BY <1>1, <1>2, <1>3, <1>4, <1>5, <1>6 DEF QueueNext

-----------------------------------------------------------------------------
\* Every step of the cells is a step of the line or leaves it alone.
LEMMA QueueStep ==
    QueueInv /\ QueueInv' /\ [QueueNext]_queueVars => [F!Next]_<<Line, queueAnswer>>
<1> SUFFICES ASSUME QueueInv, QueueInv', [QueueNext]_queueVars
             PROVE  F!Next \/ UNCHANGED <<Line, queueAnswer>>
  OBVIOUS
<1> USE DEF EMPTY_LIST
<1>0. /\ Line' \in Seq(Elems)
      /\ Len(Line') = queueCount'
      /\ \A i \in 1..queueCount' : Line'[i] = cells'[head' + i - 1].first
  BY LineStaysASequence DEF LineShape
<1>1. ASSUME NEW e \in Elems, Enq(e)
      PROVE  F!Put(e)
  <2>1. Append(Line, e) \in Seq(Elems) /\ Len(Append(Line, e)) = queueCount + 1
    BY LineIsASequence DEF LineShape
  <2>2. queueCount' = queueCount + 1 /\ queueCount \in Nat
    BY <1>1 DEF Enq, QueueInv, CountType
  <2>3. ASSUME NEW i \in 1..queueCount + 1
        PROVE  Line'[i] = Append(Line, e)[i]
    <3>1. Line'[i] = cells'[head' + i - 1].first
      BY <1>0, <2>2
    <3>2. CASE i = queueCount + 1
      <4>1. head' + i - 1 = Len(cells) + 1
        BY <1>1, <2>2, <3>2 DEF Enq, QueueInv, CountType, LastCells
      <4>2. cells'[Len(cells) + 1].first = e
        <5>1. cells'[Len(cells) + 1] = [first |-> e, rest |-> EMPTY_LIST]
          BY <1>1, EnqCells
        <5> QED BY <5>1
      <4> QED BY <3>1, <3>2, <4>1, <4>2, LineIsASequence DEF LineShape
    <3>3. CASE i # queueCount + 1
      <4>1. i \in 1..queueCount /\ queueCount # 0
        BY <2>2, <3>3
      <4>2. head' = head /\ head + i - 1 \in 1..Len(cells)
        BY <1>1, <4>1 DEF Enq, QueueInv, CountType, LastCells
      <4>3. cells'[head + i - 1].first = cells[head + i - 1].first
        BY <1>1, <4>2, EnqCells
      <4> QED BY <3>1, <4>1, <4>2, <4>3, LineIsASequence DEF LineShape
    <3> QED BY <3>2, <3>3
  <2>4. Line' = Append(Line, e)
    BY <1>0, <2>1, <2>2, <2>3, SeqEqual
  <2> QED BY <1>1, <2>4 DEF Enq, F!Put
<1>2. ASSUME Deq
      PROVE  F!Take
  <2>1. CASE queueCount = 0
    <3>1. Line = <<>>
      BY <2>1, LineIsASequence DEF LineShape
    <3>2. Line' = Line
      BY <1>2, <2>1 DEF Deq, Line
    <3> QED BY <1>2, <2>1, <3>1, <3>2 DEF Deq, F!Take
  <2>2. CASE queueCount # 0
    <3>1. /\ cells' = cells
          /\ head' = IF queueCount = 1 THEN EMPTY_LIST ELSE head + 1
          /\ queueCount' = queueCount - 1
          /\ queueCount \in Nat /\ head \in Nat
      BY <1>2, <2>2, HeadCell DEF Deq, QueueInv, CountType
    <3>2. Line # <<>> /\ Line \in Seq(Elems) /\ Len(Line) = queueCount
      BY <2>2, LineIsASequence DEF LineShape
    <3>3. Tail(Line) \in Seq(Elems) /\ Len(Tail(Line)) = queueCount - 1
      BY <3>2, HeadTailProperties
    <3>4. ASSUME NEW i \in 1..queueCount - 1
          PROVE  Line'[i] = Tail(Line)[i]
      <4>1. Line'[i] = cells[head + 1 + i - 1].first
        BY <1>0, <3>1
      <4>2. Tail(Line)[i] = Line[i + 1]
        BY <3>2, <3>3, HeadTailProperties
      <4>3. Line[i + 1] = cells[head + (i + 1) - 1].first
        BY <3>1, LineIsASequence DEF LineShape
      <4>4. head + 1 + i - 1 = head + (i + 1) - 1
        BY <3>1
      <4> QED BY <4>1, <4>2, <4>3, <4>4
    <3>5. Line' = Tail(Line)
      BY <1>0, <3>1, <3>3, <3>4, SeqEqual
    <3>6. queueAnswer' = Head(Line)
      <4>1. Head(Line) = Line[1] /\ Line[1] = cells[head + 1 - 1].first
        BY <2>2, <3>1, <3>2, LineIsASequence DEF LineShape
      <4> QED BY <1>2, <2>2, <3>1, <4>1 DEF Deq
    <3> QED BY <3>2, <3>5, <3>6 DEF F!Take
  <2> QED BY <2>1, <2>2
<1>3. ASSUME QueuePeek
      PROVE  F!Peek
  <2>1. Line' = Line
    BY <1>3 DEF QueuePeek, Line
  <2>2. Line = <<>> <=> head = EMPTY_LIST
    BY LineIsASequence DEF LineShape, QueueInv, CountType, EmptyEnds, LastCells
  <2>3. Line # <<>> => Head(Line) = cells[head].first
    <3>1. ASSUME Line # <<>>
          PROVE  Head(Line) = Line[1] /\ 1 \in 1..queueCount /\ head + 1 - 1 = head
      BY <3>1, LineIsASequence DEF LineShape, QueueInv, CountType
    <3> QED BY <3>1, LineIsASequence DEF LineShape
  <2> QED BY <1>3, <2>1, <2>2, <2>3 DEF QueuePeek, F!Peek
<1>4. CASE AsList
  BY <1>4 DEF AsList, Line
<1>5. CASE HeldNext
  BY <1>5 DEF HeldNext, Line
<1>6. CASE UNCHANGED queueVars
  BY <1>6 DEF queueVars, Line
<1> QED BY <1>1, <1>2, <1>3, <1>4, <1>5, <1>6 DEF QueueNext, F!Next

\* The queue is first in, first out, whatever its length and its elements.
THEOREM QueueImplementsFifo == QueueSpec => QueueIsFifo
<1>1. QueueInit => F!Init
  BY QueueInvInit, LineIsASequence DEF LineShape, QueueInit, F!Init
<1> QED BY <1>1, QueueInvInit, QueueInvStep, QueueStep, PTL
        DEF QueueSpec, QueueIsFifo, F!Spec

\* A cell leads to the one allocated next, or to none; what is held is a cell.
CellsInv ==
    /\ \A i \in 1..Len(cells) :
          cells[i].rest = EMPTY_LIST \/ (cells[i].rest = i + 1 /\ i < Len(cells))
    /\ held \in 0..Len(cells)

\* Each operation leaves a cell that leads to the next one or to none.
LEMMA CellsInvStep ==
    QueueInv /\ CellsInv /\ [QueueNext]_queueVars => CellsInv'
<1> SUFFICES ASSUME QueueInv, CellsInv, [QueueNext]_queueVars
             PROVE  CellsInv'
  OBVIOUS
<1> USE DEF EMPTY_LIST
<1>0. Len(cells) \in Nat
  BY DEF QueueInv, CountType
<1>1. ASSUME NEW e \in Elems, Enq(e)
      PROVE  CellsInv'
  <2>1. /\ Len(cells') = Len(cells) + 1
        /\ cells'[Len(cells) + 1] = [first |-> e, rest |-> EMPTY_LIST]
        /\ \A i \in 1..Len(cells) :
              cells'[i].rest = IF queueCount # 0 /\ i = tail THEN Len(cells) + 1 ELSE cells[i].rest
    BY <1>1, EnqCells
  <2>2. queueCount # 0 => tail = Len(cells)
    BY DEF QueueInv, LastCells
  <2>3. ASSUME NEW i \in 1..Len(cells) + 1
        PROVE  cells'[i].rest = EMPTY_LIST \/ (cells'[i].rest = i + 1 /\ i < Len(cells) + 1)
    <3>1. CASE i = Len(cells) + 1
      BY <2>1, <3>1
    <3>2. CASE i # Len(cells) + 1
      <4>1. i \in 1..Len(cells)
        BY <1>0, <3>2
      <4>2. cells[i].rest = EMPTY_LIST \/ (cells[i].rest = i + 1 /\ i < Len(cells))
        BY <4>1 DEF CellsInv
      <4> QED BY <1>0, <2>1, <2>2, <4>1, <4>2
    <3> QED BY <3>1, <3>2
  <2>4. held' = held /\ held \in 0..Len(cells)
    BY <1>1 DEF Enq, CellsInv
  <2>5. held \in 0..Len(cells) + 1
    BY <1>0, <2>4
  <2> QED BY <2>1, <2>3, <2>4, <2>5 DEF CellsInv
<1>2. CASE Deq \/ QueuePeek \/ UNCHANGED queueVars
  BY <1>2 DEF Deq, QueuePeek, queueVars, CellsInv
<1>3. CASE AsList
  <2>1. head \in 0..Len(cells)
    BY DEF QueueInv, CountType, EmptyEnds, LastCells
  <2> QED BY <1>3, <2>1 DEF AsList, CellsInv
<1>4. CASE HeldNext
  <2>1. held \in 1..Len(cells)
    BY <1>4 DEF HeldNext, CellsInv
  <2>2. cells[held].rest \in 0..Len(cells)
    BY <1>0, <2>1 DEF CellsInv
  <2> QED BY <1>4, <2>2 DEF HeldNext, CellsInv
<1> QED BY <1>1, <1>2, <1>3, <1>4 DEF QueueNext

\* The walk along the rests, as a function of where it starts.
Walks(from) ==
    from = [i \in 0..Len(cells) |->
               IF i = EMPTY_LIST THEN <<>> ELSE <<cells[i].first>> \o from[cells[i].rest]]

\* A sequence whose elements are a first one and those of another.
LEMMA ElementBefore ==
    ASSUME NEW S, NEW f \in S, NEW rest \in Seq(S), NEW more \in Seq(S),
           Len(more) = Len(rest) + 1, more[1] = f,
           \A n \in 1..Len(rest) : more[n + 1] = rest[n]
    PROVE  more = <<f>> \o rest
<1> DEFINE one == <<f>>
<1>1. one \in Seq(S) /\ Len(one) = 1 /\ one[1] = f
  OBVIOUS
<1> HIDE DEF one
<1>2. /\ one \o rest \in Seq(S) /\ Len(one \o rest) = 1 + Len(rest)
      /\ \A n \in 1..1 + Len(rest) : (one \o rest)[n] = IF n <= 1 THEN one[n] ELSE rest[n - 1]
  <2>1. one \in Seq(S) /\ rest \in Seq(S)
    BY <1>1
  <2>2. /\ one \o rest \in Seq(S) /\ Len(one \o rest) = Len(one) + Len(rest)
        /\ \A n \in 1..Len(one) + Len(rest) :
              (one \o rest)[n] = IF n <= Len(one) THEN one[n] ELSE rest[n - Len(one)]
    BY <2>1, ConcatProperties
  <2> QED BY <1>1, <2>2
<1>3. Len(rest) \in Nat
  OBVIOUS
<1>4. ASSUME NEW n \in 1..Len(more) PROVE more[n] = (one \o rest)[n]
  <2>1. n \in 1..1 + Len(rest)
    BY <1>3
  <2>2. CASE n = 1
    BY <1>1, <1>2, <2>1, <2>2
  <2>3. CASE n # 1
    <3>1. n - 1 \in 1..Len(rest) /\ (n - 1) + 1 = n /\ ~ (n <= 1)
      BY <1>3, <2>1, <2>3
    <3>2. more[(n - 1) + 1] = rest[n - 1]
      BY <3>1
    <3> QED BY <1>2, <2>1, <3>1, <3>2
  <2> QED BY <2>2, <2>3
<1>5. Len(more) = Len(one \o rest)
  BY <1>2, <1>3
<1>6. more = one \o rest
  BY <1>2, <1>4, <1>5, SeqEqual
<1> QED BY <1>6 DEF one

\* There is such a function, although a cell leads to a later one: each walk goes on to
\* the first cell from there that has no rest.
LEMMA WalkExists ==
    ASSUME QueueInv, CellsInv
    PROVE  \E from : Walks(from)
<1> DEFINE N == Len(cells)
           Ends(i) == {j \in i..N : cells[j].rest = EMPTY_LIST}
           end == [i \in 1..N |-> CHOOSE j \in Ends(i) : \A k \in Ends(i) : j <= k]
           from == [i \in 0..N |->
                       IF i = EMPTY_LIST THEN <<>>
                       ELSE [n \in 1..end[i] - i + 1 |-> cells[i + n - 1].first]]
<1>1. N \in Nat /\ cells \in Seq(Cell)
  BY DEF QueueInv, CountType
<1>2. \A i \in 1..N : cells[i].rest = EMPTY_LIST \/ (cells[i].rest = i + 1 /\ i < N)
  BY DEF CellsInv
<1>3. \A i \in 1..N : cells[i].first \in Elems
  <2>1. \A i \in 1..N : cells[i] \in Cell
    BY <1>1
  <2> QED BY <2>1 DEF Cell
<1> HIDE DEF N
<1>4. ASSUME NEW i \in 1..N
      PROVE  /\ end[i] \in i..N /\ cells[end[i]].rest = EMPTY_LIST
             /\ \A k \in Ends(i) : end[i] <= k
  <2>1. N \in Ends(i)
    BY <1>1, <1>2
  <2>2. \E j \in Ends(i) : \A k \in Ends(i) : j <= k
    <3> DEFINE s == Ends(i)
    <3>1. s \in SUBSET Nat /\ s # {}
      BY <1>1, <2>1
    <3> HIDE DEF s
    <3>2. \E j \in s : \A k \in s : j <= k
      BY <3>1, LeastNumber
    <3> QED BY <3>2 DEF s
  <2>3. end[i] \in Ends(i) /\ \A k \in Ends(i) : end[i] <= k
    BY <2>2
  <2> QED BY <2>3
<1>5. ASSUME NEW i \in 1..N, cells[i].rest = EMPTY_LIST
      PROVE  end[i] = i
  <2>1. i \in Ends(i)
    BY <1>1, <1>5
  <2>2. end[i] <= i /\ end[i] \in i..N
    BY <1>4, <2>1
  <2> HIDE DEF end
  <2> QED BY <1>1, <2>2
<1>6. ASSUME NEW i \in 1..N, cells[i].rest # EMPTY_LIST
      PROVE  i + 1 \in 1..N /\ cells[i].rest = i + 1 /\ end[i] = end[i + 1]
  <2>1. i + 1 \in 1..N /\ cells[i].rest = i + 1
    BY <1>1, <1>2, <1>6
  <2>2. /\ end[i] \in i..N /\ cells[end[i]].rest = EMPTY_LIST
        /\ \A k \in Ends(i) : end[i] <= k
    BY <1>4
  <2>3. /\ end[i + 1] \in i + 1..N /\ cells[end[i + 1]].rest = EMPTY_LIST
        /\ \A k \in Ends(i + 1) : end[i + 1] <= k
    BY <1>4, <2>1
  <2> HIDE DEF end
  <2>4. end[i] # i
    BY <1>6, <2>2
  <2>5. end[i] \in Ends(i + 1) /\ end[i + 1] \in Ends(i)
    BY <1>1, <2>2, <2>3, <2>4
  <2>6. end[i + 1] <= end[i] /\ end[i] <= end[i + 1]
    BY <2>2, <2>3, <2>5
  <2> QED BY <1>1, <2>1, <2>2, <2>3, <2>6
<1>7. \A i \in 1..N : end[i] \in i..N
  BY <1>4
<1> HIDE DEF end
<1>10. /\ from = [i \in 0..N |-> from[i]]
       /\ from[0] = <<>>
       /\ \A i \in 1..N : from[i] = [n \in 1..end[i] - i + 1 |-> cells[i + n - 1].first]
  BY <1>1 DEF EMPTY_LIST
<1> HIDE DEF from
<1>8. ASSUME NEW i \in 0..N
      PROVE  from[i] = IF i = EMPTY_LIST THEN <<>> ELSE <<cells[i].first>> \o from[cells[i].rest]
  <2>1. CASE i = 0
    BY <1>10, <2>1 DEF EMPTY_LIST
  <2>2. CASE i # 0
    <3> DEFINE rest == from[cells[i].rest]
               more == from[i]
               f == cells[i].first
    <3>0. i \in 1..N /\ f \in Elems
      BY <1>1, <1>3, <2>2
    <3>1. more = [n \in 1..end[i] - i + 1 |-> cells[i + n - 1].first]
      BY <1>10, <3>0
    <3>2. more \in Seq(Elems) /\ Len(more) = end[i] - i + 1
          /\ \A n \in 1..end[i] - i + 1 : more[n] = cells[i + n - 1].first
      <4>1. end[i] - i + 1 \in Nat
        BY <1>1, <1>7, <3>0
      <4>2. \A n \in 1..end[i] - i + 1 : cells[i + n - 1].first \in Elems
        <5>1. \A n \in 1..end[i] - i + 1 : i + n - 1 \in 1..N
          BY <1>1, <1>7, <3>0
        <5> QED BY <1>3, <5>1
      <4> HIDE DEF more
      <4> QED BY <3>1, <4>1, <4>2
    <3>3. /\ rest \in Seq(Elems) /\ Len(rest) = end[i] - i
          /\ \A n \in 1..end[i] - i : rest[n] = cells[i + n].first
      <4>1. CASE cells[i].rest = EMPTY_LIST
        <5>1. rest = <<>> /\ end[i] - i = 0
          <6>1. rest = <<>>
            BY <1>10, <4>1 DEF EMPTY_LIST
          <6>2. end[i] = i
            BY <1>5, <3>0, <4>1
          <6> QED BY <1>1, <6>1, <6>2
        <5> HIDE DEF rest
        <5> QED BY <5>1
      <4>2. CASE cells[i].rest # EMPTY_LIST
        <5>1. i + 1 \in 1..N /\ cells[i].rest = i + 1 /\ end[i] = end[i + 1]
          BY <1>6, <3>0, <4>2
        <5>2. rest = [n \in 1..end[i + 1] - (i + 1) + 1 |-> cells[(i + 1) + n - 1].first]
          BY <1>10, <5>1
        <5>3. end[i + 1] - (i + 1) + 1 = end[i] - i /\ end[i] - i \in Nat
          BY <1>1, <1>7, <5>1
        <5>4. \A n \in 1..end[i] - i : (i + 1) + n - 1 = i + n /\ i + n \in 1..N
          BY <1>1, <1>7, <3>0
        <5>5. rest = [n \in 1..end[i] - i |-> cells[i + n].first]
          BY <5>2, <5>3, <5>4
        <5> HIDE DEF rest
        <5>6. \A n \in 1..end[i] - i : cells[i + n].first \in Elems
          BY <1>3, <5>4
        <5> QED BY <5>3, <5>5, <5>6
      <4> QED BY <4>1, <4>2
    <3>4. more = <<f>> \o rest
      <4> HIDE DEF more, rest, f
      <4>1. end[i] - i \in Nat /\ i \in Nat
        BY <1>1, <1>7, <3>0
      <4>2. more[1] = f
        <5>1. 1 \in 1..end[i] - i + 1 /\ i + 1 - 1 = i
          BY <4>1
        <5> QED BY <3>2, <5>1 DEF f
      <4>3. \A n \in 1..end[i] - i : more[n + 1] = rest[n]
        <5>1. \A n \in 1..end[i] - i : n + 1 \in 1..end[i] - i + 1 /\ i + (n + 1) - 1 = i + n
          BY <4>1
        <5> QED BY <3>2, <3>3, <5>1
      <4>4. f \in Elems /\ rest \in Seq(Elems) /\ more \in Seq(Elems) /\ Len(more) = Len(rest) + 1
        BY <3>0, <3>2, <3>3, <4>1
      <4> QED BY <3>3, <4>2, <4>3, <4>4, ElementBefore
    <3> QED BY <2>2, <3>4 DEF EMPTY_LIST
  <2> QED BY <2>1, <2>2
<1>9. Walks(from)
  <2> QED BY <1>8, <1>10 DEF Walks, N
<1> QED BY <1>9

\* What is walked from a cell between the head and the tail are the elements from there on.
LEMMA WalkIsLine ==
    ASSUME QueueInv, CellsInv, NEW from, Walks(from)
    PROVE  /\ from[EMPTY_LIST] = <<>>
           /\ queueCount # 0 =>
                 \A c \in head..tail :
                    /\ from[c] \in Seq(Elems) /\ Len(from[c]) = tail - c + 1
                    /\ \A n \in 1..tail - c + 1 : from[c][n] = cells[c + n - 1].first
<1> DEFINE N == Len(cells)
<1>1. N \in Nat /\ head \in Nat /\ tail \in Nat /\ cells \in Seq(Cell)
  BY DEF QueueInv, CountType
<1>2. \A i \in 0..N :
          from[i] = IF i = EMPTY_LIST THEN <<>> ELSE <<cells[i].first>> \o from[cells[i].rest]
  BY DEF Walks
<1>7. N = Len(cells)
  OBVIOUS
<1> HIDE DEF N
<1>3. from[EMPTY_LIST] = <<>>
  <2>1. EMPTY_LIST \in 0..N
    BY <1>1 DEF EMPTY_LIST
  <2> QED BY <1>2, <2>1
<1>4. \A i \in 1..N : cells[i].first \in Elems
  <2>1. \A i \in 1..N : cells[i] \in Cell
    BY <1>1 DEF N
  <2> QED BY <2>1 DEF Cell
<1> DEFINE Seen(c) == /\ from[c] \in Seq(Elems) /\ Len(from[c]) = tail - c + 1
                      /\ \A n \in 1..tail - c + 1 : from[c][n] = cells[c + n - 1].first
           Bad == {k \in 0..tail - head : ~ Seen(tail - k)}
<1>5. ASSUME queueCount # 0 PROVE Bad = {}
  <2> SUFFICES ASSUME Bad # {} PROVE FALSE
    OBVIOUS
  <2>1. PICK k \in Bad : \A l \in Bad : k <= l
    <3> HIDE DEF Bad
    <3>1. Bad \in SUBSET Nat
      BY <1>1 DEF Bad
    <3> QED BY <3>1, LeastNumber
  <2> DEFINE c == tail - k
             rest == from[cells[c].rest]
  <2>2. k \in 0..tail - head /\ ~ Seen(c) /\ c \in head..tail /\ c \in 1..N /\ head >= 1 /\ tail = N
    BY <1>1, <1>5, <1>7, <2>1 DEF QueueInv, LastCells
  <2>6. c \in Nat /\ tail \in Nat
    <3> HIDE DEF c, Seen, Bad
    <3>1. head \in Nat /\ tail \in Nat
      BY <1>1
    <3> QED BY <2>2, <3>1
  <2>3. from[c] = <<cells[c].first>> \o rest
    <3>1. c \in 0..N /\ c # EMPTY_LIST
      BY <1>1, <2>2 DEF EMPTY_LIST
    <3> HIDE DEF c
    <3> QED BY <1>2, <3>1
  <2>4. /\ rest \in Seq(Elems) /\ Len(rest) = tail - c
        /\ \A n \in 1..tail - c : rest[n] = cells[c + n].first
    <3>1. CASE k = 0
      <4>1. cells[c].rest = EMPTY_LIST /\ tail - c = 0
        BY <1>1, <1>5, <2>2, <3>1 DEF QueueInv, Linked
      <4>2. rest = <<>>
        BY <1>3, <4>1
      <4> HIDE DEF rest
      <4> QED BY <4>1, <4>2
    <3>2. CASE k # 0
      <4>1. k - 1 \in 0..tail - head /\ k - 1 < k /\ tail - (k - 1) = c + 1
        BY <1>1, <2>2, <3>2
      <4>2. k - 1 \notin Bad
        <5> HIDE DEF Bad
        <5> QED BY <2>1, <2>2, <4>1
      <4>3. Seen(c + 1)
        BY <4>1, <4>2
      <4>4. cells[c].rest = c + 1
        <5>1. c \in head..tail - 1
          BY <1>1, <2>2, <3>2
        <5> QED BY <1>5, <5>1 DEF QueueInv, Linked
      <4>5. /\ rest \in Seq(Elems) /\ Len(rest) = tail - (c + 1) + 1
            /\ \A n \in 1..tail - (c + 1) + 1 : rest[n] = cells[(c + 1) + n - 1].first
        BY <4>3, <4>4
      <4> HIDE DEF rest, c
      <4>6. c \in Nat /\ tail - (c + 1) + 1 = tail - c
        BY <2>6
      <4> DEFINE left == tail - c
      <4>7. /\ rest \in Seq(Elems) /\ Len(rest) = left
            /\ \A n \in 1..left : rest[n] = cells[(c + 1) + n - 1].first
        BY <4>5, <4>6
      <4> HIDE DEF left
      <4>8. \A n \in 1..left : (c + 1) + n - 1 = c + n
        BY <4>6
      <4>9. \A n \in 1..left : rest[n] = cells[c + n].first
        BY <4>7, <4>8
      <4> QED BY <4>7, <4>9 DEF left
    <3> QED BY <3>1, <3>2
  <2>5. Seen(c)
    <3> DEFINE f == cells[c].first
               one == <<f>>
               more == from[c]
    <3>1. f \in Elems /\ more = one \o rest
      BY <1>4, <2>2, <2>3
    <3>2. one \in Seq(Elems) /\ Len(one) = 1 /\ one[1] = f
      BY <3>1
    <3> HIDE DEF f, one, rest
    <3>3. /\ one \o rest \in Seq(Elems) /\ Len(one \o rest) = Len(one) + Len(rest)
          /\ \A n \in 1..Len(one) + Len(rest) :
                (one \o rest)[n] = IF n <= Len(one) THEN one[n] ELSE rest[n - Len(one)]
      <4>1. one \in Seq(Elems) /\ rest \in Seq(Elems)
        BY <2>4, <3>2
      <4> QED BY <4>1, ConcatProperties
    <3> HIDE DEF c, more
    <3>4. c \in Nat /\ tail - c \in Nat
      <4>1. c \in head..tail
        BY <2>2
      <4>2. head \in Nat /\ tail \in Nat
        BY <1>1
      <4> QED BY <4>1, <4>2
    <3>5. more \in Seq(Elems) /\ Len(more) = tail - c + 1
      BY <2>4, <3>1, <3>2, <3>3, <3>4
    <3>6. ASSUME NEW n \in 1..tail - c + 1 PROVE more[n] = cells[c + n - 1].first
      <4>0. n \in 1..Len(one) + Len(rest)
        BY <2>4, <3>2, <3>4
      <4>1. CASE n = 1
        <5>1. c + n - 1 = c
          BY <3>4, <4>1
        <5> QED BY <3>1, <3>2, <3>3, <4>0, <4>1, <5>1 DEF f
      <4>2. CASE n # 1
        <5>1. n - 1 \in 1..tail - c /\ c + (n - 1) = c + n - 1 /\ ~ (n <= 1)
          BY <3>4, <4>2
        <5>2. more[n] = rest[n - 1]
          BY <3>1, <3>2, <3>3, <4>0, <5>1
        <5>3. rest[n - 1] = cells[c + (n - 1)].first
          BY <2>4, <5>1
        <5> QED BY <5>1, <5>2, <5>3
      <4> QED BY <4>1, <4>2
    <3> QED BY <3>5, <3>6 DEF more
  <2> QED BY <2>2, <2>5
<1>6. ASSUME queueCount # 0, NEW c \in head..tail PROVE Seen(c)
  <2>1. tail - c \in 0..tail - head /\ tail - (tail - c) = c
    BY <1>1
  <2>2. tail - c \notin Bad
    <3> HIDE DEF Bad
    <3> QED BY <1>5, <1>6
  <2> QED BY <2>1, <2>2
<1> QED BY <1>3, <1>6

\* The walk from the head, and that from a cell that is held, show the line.
LEMMA ListsFromInv == QueueInv /\ CellsInv => ListsSeeTheQueue
<1> SUFFICES ASSUME QueueInv, CellsInv PROVE ListsSeeTheQueue
  OBVIOUS
<1> DEFINE from == CHOOSE g : Walks(g)
<1>1. Walks(from)
  BY WalkExists
<1>2. \A c : ListFrom(c) = from[c]
  BY DEF ListFrom, Walks
<1> HIDE DEF from
<1>3. /\ from[EMPTY_LIST] = <<>>
      /\ queueCount # 0 =>
            \A c \in head..tail :
               /\ from[c] \in Seq(Elems) /\ Len(from[c]) = tail - c + 1
               /\ \A n \in 1..tail - c + 1 : from[c][n] = cells[c + n - 1].first
  BY <1>1, WalkIsLine
<1>4. /\ Line \in Seq(Elems) /\ Len(Line) = queueCount
      /\ \A i \in 1..queueCount : Line[i] = cells[head + i - 1].first
      /\ queueCount \in Nat /\ head \in Nat /\ tail \in Nat /\ held \in Nat
  BY LineIsASequence DEF LineShape, QueueInv, CountType, CellsInv
<1>5. CASE queueCount = 0
  <2>1. head = EMPTY_LIST
    BY <1>5 DEF QueueInv, EmptyEnds
  <2>2. Line = <<>>
    BY <1>4, <1>5, EmptySeq
  <2> QED BY <1>2, <1>3, <2>1, <2>2 DEF ListsSeeTheQueue
<1>6. CASE queueCount # 0
  <2>1. head >= 1 /\ tail = head + queueCount - 1 /\ tail = Len(cells) /\ held <= tail
    BY <1>6 DEF QueueInv, LastCells, CellsInv
  <2>2. from[head] = Line
    <3> DEFINE f == from[head]
    <3>1. head \in head..tail /\ tail - head + 1 = queueCount
      BY <1>4, <1>6, <2>1
    <3>2. /\ f \in Seq(Elems) /\ Len(f) = queueCount
          /\ \A n \in 1..queueCount : f[n] = cells[head + n - 1].first
      BY <1>3, <1>6, <3>1
    <3> HIDE DEF f
    <3>3. \A n \in 1..queueCount : f[n] = Line[n]
      BY <1>4, <3>2
    <3>4. f = Line
      BY <1>4, <3>2, <3>3, SeqEqual
    <3> QED BY <3>4 DEF f
  <2>3. ASSUME held >= head
        PROVE  from[held] = SubSeq(Line, held - head + 1, queueCount)
    <3> DEFINE f == from[held]
               part == SubSeq(Line, held - head + 1, queueCount)
               first == held - head + 1
    <3>1. /\ held \in head..tail /\ tail - held + 1 = queueCount - first + 1
          /\ first \in 1..queueCount /\ queueCount - first + 1 \in Nat
      BY <1>4, <1>6, <2>1, <2>3
    <3>2. /\ f \in Seq(Elems) /\ Len(f) = queueCount - first + 1
          /\ \A n \in 1..queueCount - first + 1 : f[n] = cells[held + n - 1].first
      BY <1>3, <1>6, <3>1
    <3> HIDE DEF f, first
    <3>3. /\ part \in Seq(Elems) /\ Len(part) = queueCount - first + 1
          /\ \A n \in 1..queueCount - first + 1 : part[n] = Line[first + n - 1]
      <4> DEFINE l == Line
      <4>1. l \in Seq(Elems) /\ Len(l) = queueCount
        BY <1>4
      <4> HIDE DEF l
      <4>2. /\ SubSeq(l, first, queueCount) \in Seq(Elems)
            /\ Len(SubSeq(l, first, queueCount)) = queueCount - first + 1
            /\ \A n \in 1..queueCount - first + 1 :
                    SubSeq(l, first, queueCount)[n] = l[first + n - 1]
        BY <1>4, <3>1, <4>1, SubSeqProperties
      <4>3. part = SubSeq(l, first, queueCount)
        BY DEF l, first
      <4> HIDE DEF part
      <4> QED BY <4>2, <4>3 DEF l
    <3>4. ASSUME NEW n \in 1..queueCount - first + 1 PROVE f[n] = part[n]
      <4>1. first + n - 1 \in 1..queueCount /\ head + (first + n - 1) - 1 = held + n - 1
        BY <1>4, <3>1 DEF first
      <4>2. Line[first + n - 1] = cells[head + (first + n - 1) - 1].first
        BY <1>4, <4>1
      <4> HIDE DEF part
      <4> QED BY <3>2, <3>3, <4>1, <4>2
    <3> HIDE DEF part
    <3>5. f = part
      BY <3>2, <3>3, <3>4, SeqEqual
    <3> QED BY <3>5 DEF f, part
  <2> QED BY <1>2, <2>2, <2>3 DEF ListsSeeTheQueue
<1> QED BY <1>5, <1>6

\* The list of the elements is what the count counts, and a list that was handed out is
\* the end of the queue.
THEOREM QueueListsAgree == QueueSpec => []ListsSeeTheQueue
<1>1. QueueInit => CellsInv
  BY DEF QueueInit, CellsInv, EMPTY_LIST
<1> QED BY <1>1, QueueInvInit, QueueInvStep, CellsInvStep, ListsFromInv, PTL DEF QueueSpec

-----------------------------------------------------------------------------
(* The string buffer. *)

\* A segment, written or not.
Segment ==
    [chars : [0..SegmentSize - 1 -> Chars \cup {NULL}], readIndex : Nat, writeIndex : Nat]

\* What a segment is: its indexes stay within it, and what is between them has been written.
SegmentOK(s) ==
    /\ s \in Segment
    /\ s.readIndex <= s.writeIndex /\ s.writeIndex <= SegmentSize
    /\ s.readIndex < SegmentSize
    /\ \A n \in s.readIndex..s.writeIndex - 1 : s.chars[n] \in Chars

\* Only the first segment has been read from, only the last has room.
ChainOK(ss) ==
    /\ ss \in Seq(Segment)
    /\ \A i \in 1..Len(ss) :
          /\ SegmentOK(ss[i])
          /\ i > 1 => ss[i].readIndex = 0 /\ ss[i].writeIndex > 0
          /\ i < Len(ss) => ss[i].writeIndex = SegmentSize

\* The characters that are in a chain and have not been read.
Text(ss) == FlattenSeq([i \in 1..Len(ss) |-> Unread(ss[i])])

\* What holds in all states of a buffer: the count is that of the text.
BufferInv == ChainOK(segs) /\ charCount \in Nat /\ charCount = Len(Text(segs))

-----------------------------------------------------------------------------
\* The characters between the two indexes of a segment, one by one.
LEMMA UnreadIsText ==
    ASSUME NEW s, SegmentOK(s)
    PROVE  /\ Unread(s) \in Seq(Chars)
           /\ Len(Unread(s)) = s.writeIndex - s.readIndex
           /\ \A n \in 1..s.writeIndex - s.readIndex :
                 Unread(s)[n] = s.chars[s.readIndex + n - 1]
<1> DEFINE r == s.readIndex
           n == s.writeIndex - s.readIndex
<1>1. r \in Nat /\ n \in Nat
  BY SegmentSizeAssumption DEF SegmentOK, Segment
<1>2. \A i \in 1..n : s.chars[r + i - 1] \in Chars
  BY <1>1 DEF SegmentOK, Segment
<1>3. Unread(s) = [i \in 1..n |-> s.chars[r + i - 1]]
  BY DEF Unread
<1> HIDE DEF r, n
<1> QED BY <1>1, <1>2, <1>3 DEF r, n

\* The texts of the segments, as a sequence of sequences.
LEMMA PartsOfChain ==
    ASSUME NEW ss, ChainOK(ss)
    PROVE  /\ [i \in 1..Len(ss) |-> Unread(ss[i])] \in Seq(Seq(Chars))
           /\ Len([i \in 1..Len(ss) |-> Unread(ss[i])]) = Len(ss)
           /\ Len(ss) \in Nat
<1>1. \A i \in 1..Len(ss) : Unread(ss[i]) \in Seq(Chars)
  BY UnreadIsText DEF ChainOK
<1>2. Len(ss) \in Nat
  BY DEF ChainOK
<1> QED BY <1>1, <1>2

\* Where there is no segment there is no text.
LEMMA TextOfEmpty == Text(<<>>) = <<>>
<1>1. [i \in 1..0 |-> Unread(<<>>[i])] = <<>>
  OBVIOUS
<1> QED BY <1>1, FlattenEmpty DEF Text

\* A segment behind a chain, and the first of a chain.
LEMMA TextOfAppend ==
    ASSUME NEW ss, ChainOK(ss), NEW s, SegmentOK(s)
    PROVE  /\ Text(ss) \in Seq(Chars)
           /\ Text(Append(ss, s)) = Text(ss) \o Unread(s)
<1> DEFINE parts == [i \in 1..Len(ss) |-> Unread(ss[i])]
           more == Append(ss, s)
           moreParts == [i \in 1..Len(more) |-> Unread(more[i])]
<1>1. /\ parts \in Seq(Seq(Chars)) /\ Len(parts) = Len(ss) /\ Len(ss) \in Nat
      /\ Unread(s) \in Seq(Chars)
  BY PartsOfChain, UnreadIsText
<1>2. /\ Len(more) = Len(ss) + 1 /\ more[Len(ss) + 1] = s
      /\ \A i \in 1..Len(ss) : more[i] = ss[i]
  BY AppendProperties DEF ChainOK, SegmentOK
<1> HIDE DEF more
<1>3. moreParts = Append(parts, Unread(s))
  <2> DEFINE added == Append(parts, Unread(s))
  <2>1. /\ added \in Seq(Seq(Chars)) /\ Len(added) = Len(ss) + 1
        /\ \A i \in 1..Len(ss) : added[i] = parts[i]
        /\ added[Len(ss) + 1] = Unread(s)
    <3> HIDE DEF parts
    <3> QED BY <1>1, AppendProperties
  <2>2. \A i \in 1..Len(ss) + 1 : moreParts[i] = added[i]
    <3> SUFFICES ASSUME NEW i \in 1..Len(ss) + 1 PROVE moreParts[i] = added[i]
      OBVIOUS
    <3>1. moreParts[i] = Unread(more[i])
      BY <1>2
    <3>2. CASE i = Len(ss) + 1
      <4> HIDE DEF added, moreParts
      <4> QED BY <1>2, <2>1, <3>1, <3>2
    <3>3. CASE i # Len(ss) + 1
      <4>1. i \in 1..Len(ss)
        BY <1>1, <3>3
      <4>2. parts[i] = Unread(ss[i])
        BY <4>1
      <4> HIDE DEF added, moreParts, parts
      <4> QED BY <1>2, <2>1, <3>1, <4>1, <4>2
    <3> QED BY <3>2, <3>3
  <2>3. DOMAIN added = 1..Len(ss) + 1 /\ moreParts = [i \in 1..Len(ss) + 1 |-> moreParts[i]]
    <3>1. DOMAIN added = 1..Len(ss) + 1
      <4> HIDE DEF added
      <4> QED BY <2>1
    <3> QED BY <1>2, <3>1
  <2>4. added = [i \in 1..Len(ss) + 1 |-> added[i]]
    <3> HIDE DEF added
    <3> QED BY <2>1, <2>3
  <2> HIDE DEF added, moreParts
  <2>5. moreParts = added
    BY <2>2, <2>3, <2>4
  <2> QED BY <2>5 DEF added
<1>4. /\ FlattenSeq(parts) \in Seq(Chars)
      /\ FlattenSeq(Append(parts, Unread(s))) = FlattenSeq(parts) \o Unread(s)
  <2> HIDE DEF parts
  <2> QED BY <1>1, FlattenAppend
<1>5. Text(ss) = FlattenSeq(parts) /\ Text(more) = FlattenSeq(moreParts)
  BY DEF Text
<1> HIDE DEF parts, moreParts
<1> QED BY <1>3, <1>4, <1>5 DEF more

\* The first segment holds the beginning of the text.
LEMMA TextOfFirst ==
    ASSUME NEW ss, ChainOK(ss), ss # <<>>
    PROVE  /\ SegmentOK(Head(ss)) /\ ChainOK(Tail(ss))
           /\ Text(ss) = Unread(Head(ss)) \o Text(Tail(ss))
<1> DEFINE parts == [i \in 1..Len(ss) |-> Unread(ss[i])]
           rest == Tail(ss)
           restParts == [i \in 1..Len(rest) |-> Unread(rest[i])]
<1>1. /\ parts \in Seq(Seq(Chars)) /\ Len(parts) = Len(ss) /\ Len(ss) \in Nat
      /\ Len(ss) # 0 /\ ss \in Seq(Segment)
  <2>1. ss \in Seq(Segment) /\ Len(ss) # 0
    BY EmptySeq DEF ChainOK
  <2> QED BY <2>1, PartsOfChain
<1>2. /\ Len(rest) = Len(ss) - 1 /\ rest \in Seq(Segment)
      /\ Head(ss) = ss[1]
      /\ \A i \in 1..Len(ss) - 1 : rest[i] = ss[i + 1]
  BY <1>1, HeadTailProperties
<1> HIDE DEF rest
<1>3. SegmentOK(ss[1])
  BY <1>1 DEF ChainOK
<1>4. ChainOK(rest)
  <2> SUFFICES ASSUME NEW i \in 1..Len(rest)
               PROVE  /\ SegmentOK(rest[i])
                      /\ i > 1 => rest[i].readIndex = 0 /\ rest[i].writeIndex > 0
                      /\ i < Len(rest) => rest[i].writeIndex = SegmentSize
    BY <1>2 DEF ChainOK
  <2>1. i + 1 \in 1..Len(ss) /\ rest[i] = ss[i + 1] /\ (i < Len(rest) => i + 1 < Len(ss))
        /\ i + 1 > 1
    BY <1>1, <1>2
  <2> QED BY <2>1 DEF ChainOK
<1>5. parts # <<>> /\ Head(parts) = Unread(ss[1])
  <2>1. parts # <<>> /\ parts[1] = Unread(ss[1])
    BY <1>1
  <2> HIDE DEF parts
  <2> QED BY <1>1, <2>1
<1>6. restParts = Tail(parts)
  <2>1. /\ Tail(parts) \in Seq(Seq(Chars)) /\ Len(Tail(parts)) = Len(ss) - 1
        /\ \A i \in 1..Len(ss) - 1 : Tail(parts)[i] = parts[i + 1]
    <3> HIDE DEF parts
    <3> QED BY <1>1, <1>5, HeadTailProperties
  <2>2. restParts \in Seq(Seq(Chars)) /\ Len(restParts) = Len(ss) - 1
    BY <1>2, <1>4, PartsOfChain
  <2>3. \A i \in 1..Len(ss) - 1 : restParts[i] = parts[i + 1]
    BY <1>1, <1>2
  <2> HIDE DEF restParts, parts
  <2> QED BY <1>1, <2>1, <2>2, <2>3, SeqEqual
<1>7. FlattenSeq(parts) = Head(parts) \o FlattenSeq(Tail(parts))
  <2> HIDE DEF parts
  <2> QED BY <1>1, <1>5, FlattenCons
<1>8. Text(ss) = FlattenSeq(parts) /\ Text(rest) = FlattenSeq(restParts)
  BY DEF Text
<1> HIDE DEF parts, restParts
<1>9. Text(ss) = Unread(ss[1]) \o Text(rest)
  BY <1>5, <1>6, <1>7, <1>8
<1> QED BY <1>2, <1>3, <1>4, <1>9 DEF rest

\* A new segment can be written to, and has nothing to read.
LEMMA NewSegmentIsEmpty ==
    /\ SegmentOK(NewSegment) /\ Unread(NewSegment) = <<>>
    /\ NewSegment.readIndex = 0 /\ NewSegment.writeIndex = 0
<1>1. SegmentOK(NewSegment) /\ NewSegment.readIndex = 0 /\ NewSegment.writeIndex = 0
  BY SegmentSizeAssumption DEF NewSegment, SegmentOK, Segment
<1>2. Unread(NewSegment) \in Seq(Chars) /\ Len(Unread(NewSegment)) = 0
  BY <1>1, UnreadIsText
<1>3. Unread(NewSegment) = <<>>
  BY <1>2, EmptySeq
<1> QED BY <1>1, <1>3

\* A character written to a segment that has room is its last one.
LEMMA WrittenIsLast ==
    ASSUME NEW c \in Chars, NEW s, SegmentOK(s), s.writeIndex < SegmentSize
    PROVE  /\ SegmentOK(Written(s, c))
           /\ Written(s, c).readIndex = s.readIndex
           /\ Written(s, c).writeIndex = s.writeIndex + 1
           /\ Unread(Written(s, c)) = Append(Unread(s), c)
<1> DEFINE t == Written(s, c)
<1>1. /\ s \in Segment /\ s.readIndex \in Nat /\ s.writeIndex \in 0..SegmentSize - 1
      /\ s.readIndex <= s.writeIndex /\ s.readIndex < SegmentSize
      /\ s.chars \in [0..SegmentSize - 1 -> Chars \cup {NULL}]
      /\ \A n \in s.readIndex..s.writeIndex - 1 : s.chars[n] \in Chars
  BY SegmentSizeAssumption DEF SegmentOK, Segment
<1>2. /\ t \in Segment
      /\ t.readIndex = s.readIndex /\ t.writeIndex = s.writeIndex + 1
      /\ t.chars = [s.chars EXCEPT ![s.writeIndex] = c]
  <2> DEFINE cs == [s.chars EXCEPT ![s.writeIndex] = c]
             n == s.writeIndex + 1
  <2>1. t.chars = cs /\ t.readIndex = s.readIndex /\ t.writeIndex = n
    BY <1>1 DEF Written, Segment
  <2>2. t = [[s EXCEPT !.chars = cs] EXCEPT !.writeIndex = n]
    BY <1>1 DEF Written, Segment
  <2>3. cs \in [0..SegmentSize - 1 -> Chars \cup {NULL}] /\ n \in Nat
    BY <1>1
  <2> HIDE DEF cs, n
  <2>4. [[s EXCEPT !.chars = cs] EXCEPT !.writeIndex = n] \in Segment
    BY <1>1, <2>3 DEF Segment
  <2> QED BY <2>1, <2>2, <2>4 DEF cs, n
<1> HIDE DEF t
<1>3. \A n \in 0..SegmentSize - 1 : t.chars[n] = IF n = s.writeIndex THEN c ELSE s.chars[n]
  BY <1>1, <1>2
<1>4. SegmentOK(t)
  <2>1. \A n \in t.readIndex..t.writeIndex - 1 : t.chars[n] \in Chars
    BY <1>1, <1>2, <1>3, SegmentSizeAssumption
  <2> QED BY <1>1, <1>2, <2>1, SegmentSizeAssumption DEF SegmentOK
<1>5. Unread(t) = Append(Unread(s), c)
  <2> DEFINE n == s.writeIndex - s.readIndex
             longer == Append(Unread(s), c)
  <2>1. /\ Unread(s) \in Seq(Chars) /\ Len(Unread(s)) = n /\ n \in Nat
        /\ \A i \in 1..n : Unread(s)[i] = s.chars[s.readIndex + i - 1]
    BY <1>1, UnreadIsText
  <2>2. /\ Unread(t) \in Seq(Chars) /\ Len(Unread(t)) = n + 1
        /\ \A i \in 1..n + 1 : Unread(t)[i] = t.chars[s.readIndex + i - 1]
    <3>1. t.writeIndex - t.readIndex = n + 1
      BY <1>1, <1>2
    <3> HIDE DEF n
    <3>2. /\ Unread(t) \in Seq(Chars) /\ Len(Unread(t)) = t.writeIndex - t.readIndex
          /\ \A i \in 1..t.writeIndex - t.readIndex : Unread(t)[i] = t.chars[t.readIndex + i - 1]
      BY <1>4, UnreadIsText
    <3>3. t.readIndex = s.readIndex
      BY <1>2
    <3> QED BY <3>1, <3>2, <3>3
  <2>3. /\ longer \in Seq(Chars) /\ Len(longer) = n + 1
        /\ \A i \in 1..n : longer[i] = Unread(s)[i]
        /\ longer[n + 1] = c
    <3> HIDE DEF n
    <3> QED BY <2>1, AppendProperties
  <2>4. \A i \in 1..n + 1 : Unread(t)[i] = longer[i]
    <3> SUFFICES ASSUME NEW i \in 1..n + 1 PROVE Unread(t)[i] = longer[i]
      OBVIOUS
    <3>1. /\ s.readIndex + i - 1 \in 0..SegmentSize - 1
          /\ (i = n + 1 <=> s.readIndex + i - 1 = s.writeIndex)
      BY <1>1, SegmentSizeAssumption
    <3>2. Unread(t)[i] = IF i = n + 1 THEN c ELSE s.chars[s.readIndex + i - 1]
      BY <1>3, <2>2, <3>1
    <3>3. i # n + 1 => i \in 1..n
      BY <2>1
    <3> HIDE DEF n, longer
    <3> QED BY <2>1, <2>3, <3>2, <3>3
  <2> HIDE DEF n, longer
  <2>5. Unread(t) = longer
    BY <2>1, <2>2, <2>3, <2>4, SeqEqual
  <2> QED BY <2>5 DEF longer
<1> QED BY <1>2, <1>4, <1>5 DEF t

\* A chain without its last segment, and the last segment.
LEMMA ChainEnd ==
    ASSUME NEW ss, ChainOK(ss), ss # <<>>
    PROVE  /\ ChainOK(Front(ss)) /\ SegmentOK(Last(ss))
           /\ ss = Append(Front(ss), Last(ss))
           /\ Len(Front(ss)) = Len(ss) - 1
           /\ \A i \in 1..Len(ss) - 1 : Front(ss)[i] = ss[i]
<1> DEFINE N == Len(ss)
<1>1. ss \in Seq(Segment) /\ N \in Nat /\ N # 0
  BY EmptySeq DEF ChainOK
<1>2. /\ Front(ss) \in Seq(Segment) /\ Len(Front(ss)) = N - 1
      /\ \A i \in 1..N - 1 : Front(ss)[i] = ss[i]
  <2>1. 1 \in 1..N + 1 /\ N - 1 \in 0..N /\ (N - 1) - 1 + 1 = N - 1
    BY <1>1
  <2>2. \A i \in 1..N - 1 : 1 + i - 1 = i
    BY <1>1
  <2> DEFINE k == N - 1
  <2>3. SubSeq(ss, 1, k) = [i \in 1..k |-> ss[i]] /\ k \in Nat
    BY <1>1, <2>1
  <2>4. \A i \in 1..k : ss[i] \in Segment
    BY <1>1, <2>1
  <2>5. Front(ss) = SubSeq(ss, 1, k)
    BY DEF Front
  <2> HIDE DEF k, N
  <2>6. /\ Front(ss) \in Seq(Segment) /\ Len(Front(ss)) = k
        /\ \A i \in 1..k : Front(ss)[i] = ss[i]
    BY <2>3, <2>4, <2>5
  <2> QED BY <2>6 DEF k
<1>3. Last(ss) = ss[N] /\ SegmentOK(ss[N]) /\ ss[N] \in Segment
  BY <1>1 DEF Last, ChainOK, SegmentOK
<1>4. ChainOK(Front(ss))
  <2>1. \A i \in 1..N - 1 : i \in 1..N /\ i < N
    BY <1>1
  <2> HIDE DEF N
  <2> QED BY <1>1, <1>2, <2>1 DEF ChainOK, N
<1>5. ss = Append(Front(ss), ss[N])
  <2> DEFINE f == Front(ss)
  <2> HIDE DEF f
  <2>1. /\ Append(f, ss[N]) \in Seq(Segment) /\ Len(Append(f, ss[N])) = N
        /\ \A i \in 1..N - 1 : Append(f, ss[N])[i] = f[i]
        /\ Append(f, ss[N])[N] = ss[N]
    <3>1. f \in Seq(Segment) /\ Len(f) = N - 1 /\ (N - 1) + 1 = N
      BY <1>1, <1>2 DEF f
    <3> HIDE DEF N
    <3> QED BY <1>3, <3>1, AppendProperties
  <2>2. \A i \in 1..N : ss[i] = Append(f, ss[N])[i]
    BY <1>1, <1>2, <2>1 DEF f
  <2>3. ss = Append(f, ss[N])
    <3> HIDE DEF N
    <3>1. N = Len(ss)
      BY DEF N
    <3> QED BY <1>1, <2>1, <2>2, <3>1, SeqEqual
  <2> QED BY <2>3 DEF f
<1> QED BY <1>1, <1>2, <1>3, <1>4, <1>5

\* A chain without segments, after the last one was freed.
LEMMA EmptyChain == ChainOK(<<>>)
BY DEF ChainOK

\* A chain of one segment.
LEMMA TextOfOne ==
    ASSUME NEW s, SegmentOK(s)
    PROVE  ChainOK(<<s>>) /\ Text(<<s>>) = Unread(s)
<1>1. ChainOK(<<s>>)
  <2>1. <<s>> \in Seq(Segment) /\ Len(<<s>>) = 1 /\ <<s>>[1] = s
    BY DEF SegmentOK
  <2> QED BY <2>1 DEF ChainOK
<1>2. Text(Append(<<>>, s)) = Text(<<>>) \o Unread(s)
  BY EmptyChain, TextOfAppend
<1>3. Append(<<>>, s) = <<s>>
  OBVIOUS
<1>4. Text(<<>>) \o Unread(s) = Unread(s)
  <2>1. Unread(s) \in Seq(Chars)
    BY UnreadIsText
  <2> QED BY <2>1, TextOfEmpty, ConcatEmptySeq
<1> QED BY <1>1, <1>2, <1>3, <1>4

\* A new buffer is one new segment.
LEMMA BufferInvInit == BufferInit => BufferInv /\ Text(segs) = <<>>
<1> SUFFICES ASSUME BufferInit PROVE BufferInv /\ Text(segs) = <<>>
  OBVIOUS
<1>1. segs = <<NewSegment>> /\ charCount = 0
  BY DEF BufferInit
<1>2. ChainOK(segs) /\ Text(segs) = <<>>
  BY <1>1, NewSegmentIsEmpty, TextOfOne
<1> QED BY <1>1, <1>2 DEF BufferInv

\* writeChar puts a character behind the text, in the last segment, rewound or not, or in a
\* new one.
LEMMA WriteCharAppends ==
    ASSUME BufferInv, NEW c \in Chars, WriteChar(c)
    PROVE  /\ ChainOK(segs') /\ Text(segs') = Append(Text(segs), c)
           /\ charCount' = charCount + 1 /\ charAnswer' = NULL
<1> DEFINE N == Len(segs)
           end == Last(segs)
           last == Rewound(end)
           front == Front(segs)
<1>1. /\ ChainOK(segs) /\ segs # <<>> /\ N \in Nat /\ N # 0 /\ segs \in Seq(Segment)
      /\ charCount' = charCount + 1 /\ charAnswer' = NULL
  BY EmptySeq DEF WriteChar, BufferInv, ChainOK
<1>2. /\ ChainOK(front) /\ SegmentOK(end) /\ segs = Append(front, end)
      /\ Len(front) = N - 1
      /\ \A i \in 1..N - 1 : front[i] = segs[i]
      /\ end = segs[N]
  <2>1. end = segs[N]
    BY DEF Last
  <2> QED BY <1>1, <2>1, ChainEnd
<1>3. /\ SegmentOK(last) /\ Unread(last) = Unread(end)
      /\ last.writeIndex = SegmentSize => last = end
      /\ N > 1 => last.readIndex = 0
  <2>1. CASE N = 1 /\ end.readIndex = end.writeIndex
    <3>1. last = [end EXCEPT !.readIndex = 0, !.writeIndex = 0]
      BY <2>1 DEF Rewound
    <3> HIDE DEF last, end
    <3>2. last.readIndex = 0 /\ last.writeIndex = 0 /\ SegmentOK(last)
      <4>1. end \in Segment
        BY <1>2 DEF SegmentOK
      <4>2. last \in Segment /\ last.readIndex = 0 /\ last.writeIndex = 0
        BY <3>1, <4>1 DEF Segment
      <4> QED BY <4>2, SegmentSizeAssumption DEF SegmentOK
    <3>3. /\ Unread(last) \in Seq(Chars) /\ Len(Unread(last)) = 0
          /\ Unread(end) \in Seq(Chars) /\ Len(Unread(end)) = 0
      <4>1. end.writeIndex - end.readIndex = 0
        BY <1>2, <2>1 DEF SegmentOK, Segment
      <4> QED BY <1>2, <3>2, <4>1, UnreadIsText
    <3>4. Unread(last) = <<>> /\ Unread(end) = <<>>
      BY <3>3, EmptySeq
    <3>5. last.writeIndex # SegmentSize
      BY <3>2, SegmentSizeAssumption
    <3> QED BY <3>2, <3>4, <3>5
  <2>2. CASE ~ (N = 1 /\ end.readIndex = end.writeIndex)
    <3>1. last = end
      BY <2>2 DEF Rewound
    <3>2. N > 1 => end.readIndex = 0
      BY <1>1, <1>2 DEF ChainOK
    <3> QED BY <1>2, <3>1, <3>2
  <2> QED BY <2>1, <2>2
<1>4. segs' = IF last.writeIndex = SegmentSize THEN Append(segs, Written(NewSegment, c))
              ELSE Append(front, Written(last, c))
  BY DEF WriteChar
<1>5. Text(segs) = Text(front) \o Unread(last) /\ Text(front) \in Seq(Chars)
  BY <1>2, <1>3, TextOfAppend
<1> HIDE DEF N, end, last, front
<1>6. ASSUME NEW ss, ChainOK(ss), NEW s, SegmentOK(s), s.writeIndex < SegmentSize,
             \A i \in 1..Len(ss) : ss[i].writeIndex = SegmentSize,
             Len(ss) > 0 => s.readIndex = 0
      PROVE  /\ ChainOK(Append(ss, Written(s, c)))
             /\ Text(Append(ss, Written(s, c))) = Append(Text(ss) \o Unread(s), c)
  <2> DEFINE t == Written(s, c)
  <2>1. /\ SegmentOK(t) /\ t.readIndex = s.readIndex /\ t.writeIndex = s.writeIndex + 1
        /\ Unread(t) = Append(Unread(s), c)
    BY <1>6, WrittenIsLast
  <2> HIDE DEF t
  <2>2. ChainOK(Append(ss, t))
    <3>1. /\ ss \in Seq(Segment) /\ t \in Segment /\ Len(ss) \in Nat
          /\ s.writeIndex \in Nat
      BY <1>6, <2>1 DEF ChainOK, SegmentOK, Segment
    <3>2. /\ Append(ss, t) \in Seq(Segment) /\ Len(Append(ss, t)) = Len(ss) + 1
          /\ \A i \in 1..Len(ss) : Append(ss, t)[i] = ss[i]
          /\ Append(ss, t)[Len(ss) + 1] = t
      BY <3>1, AppendProperties
    <3>3. ASSUME NEW i \in 1..Len(ss) + 1
          PROVE  /\ SegmentOK(Append(ss, t)[i])
                 /\ i > 1 => Append(ss, t)[i].readIndex = 0 /\ Append(ss, t)[i].writeIndex > 0
                 /\ i < Len(ss) + 1 => Append(ss, t)[i].writeIndex = SegmentSize
      <4>1. CASE i \in 1..Len(ss)
        BY <1>6, <3>2, <4>1 DEF ChainOK
      <4>2. CASE i = Len(ss) + 1
        BY <1>6, <2>1, <3>1, <3>2, <4>2
      <4> QED BY <3>1, <4>1, <4>2
    <3> QED BY <3>2, <3>3 DEF ChainOK
  <2>3. Text(ss) \in Seq(Chars) /\ Unread(s) \in Seq(Chars)
    BY <1>6, TextOfAppend, UnreadIsText
  <2>4. Text(Append(ss, t)) = Text(ss) \o Append(Unread(s), c)
    BY <1>6, <2>1, TextOfAppend
  <2>5. Text(ss) \o Append(Unread(s), c) = Append(Text(ss) \o Unread(s), c)
    <3> DEFINE a == Text(ss)
               b == Unread(s)
    <3>1. a \in Seq(Chars) /\ b \in Seq(Chars)
      BY <2>3
    <3> HIDE DEF a, b
    <3>2. a \o Append(b, c) = Append(a \o b, c)
      BY <3>1
    <3> QED BY <3>2 DEF a, b
  <2> QED BY <2>2, <2>4, <2>5 DEF t
<1>7. CASE last.writeIndex = SegmentSize
  <2>1. \A i \in 1..Len(segs) : segs[i].writeIndex = SegmentSize
    <3>1. \A i \in 1..Len(segs) : i = N \/ i < N
      BY <1>1 DEF N
    <3> QED BY <1>1, <1>2, <1>3, <1>7, <3>1 DEF ChainOK, N
  <2>2. /\ SegmentOK(NewSegment) /\ NewSegment.writeIndex < SegmentSize
        /\ NewSegment.readIndex = 0 /\ Unread(NewSegment) = <<>>
    BY NewSegmentIsEmpty, SegmentSizeAssumption
  <2>3. /\ ChainOK(segs')
        /\ Text(segs') = Append(Text(segs) \o Unread(NewSegment), c)
    BY <1>1, <1>4, <1>6, <1>7, <2>1, <2>2
  <2>4. Text(segs) \in Seq(Chars)
    BY <1>1, NewSegmentIsEmpty, TextOfAppend
  <2>5. Text(segs) \o Unread(NewSegment) = Text(segs)
    BY <2>2, <2>4, ConcatEmptySeq
  <2> QED BY <1>1, <2>3, <2>5
<1>8. CASE last.writeIndex # SegmentSize
  <2>1. last.writeIndex < SegmentSize
    BY <1>3, <1>8, SegmentSizeAssumption DEF SegmentOK, Segment
  <2>2. \A i \in 1..Len(front) : front[i].writeIndex = SegmentSize
    <3>1. \A i \in 1..Len(front) : i \in 1..N /\ i < N /\ front[i] = segs[i]
      BY <1>1, <1>2
    <3> QED BY <1>1, <3>1 DEF ChainOK, N
  <2>3. Len(front) > 0 => last.readIndex = 0
    BY <1>1, <1>2, <1>3
  <2>4. ChainOK(segs') /\ Text(segs') = Append(Text(front) \o Unread(last), c)
    BY <1>2, <1>3, <1>4, <1>6, <1>8, <2>1, <2>2, <2>3
  <2> QED BY <1>1, <1>5, <2>4
<1> QED BY <1>7, <1>8

\* readChar takes the first character of the text, and frees the segment it was the last of.
LEMMA ReadCharTakes ==
    ASSUME BufferInv, ReadChar
    PROVE  /\ ChainOK(segs')
           /\ \/ /\ Text(segs) = <<>> /\ segs' = segs /\ charCount' = charCount
                 /\ charAnswer' = NULL
              \/ /\ Text(segs) # <<>> /\ charAnswer' = Head(Text(segs))
                 /\ Text(segs') = Tail(Text(segs)) /\ charCount' = charCount - 1
<1>1. /\ ChainOK(segs) /\ charCount \in Nat /\ charCount = Len(Text(segs))
      /\ Text(segs) \in Seq(Chars)
  BY NewSegmentIsEmpty, TextOfAppend DEF BufferInv
<1>2. CASE charCount = 0
  <2>1. Text(segs) = <<>>
    BY <1>1, <1>2, EmptySeq
  <2> QED BY <1>1, <1>2, <2>1 DEF ReadChar
<1>3. CASE charCount # 0
  <2> DEFINE s == Head(segs)
             rest == Tail(segs)
             n == s.writeIndex - s.readIndex
             next == [s EXCEPT !.readIndex = @ + 1]
  <2>1. segs # <<>> /\ Text(segs) # <<>>
    BY <1>1, <1>3, TextOfEmpty, EmptySeq
  <2>2. /\ SegmentOK(s) /\ ChainOK(rest) /\ Text(segs) = Unread(s) \o Text(rest)
        /\ Text(rest) \in Seq(Chars)
    BY <1>1, <2>1, TextOfFirst, NewSegmentIsEmpty, TextOfAppend
  <2>3. /\ segs \in Seq(Segment) /\ Len(segs) \in Nat /\ Len(segs) # 0
        /\ rest \in Seq(Segment) /\ Len(rest) = Len(segs) - 1
        /\ \A i \in 1..Len(segs) - 1 : rest[i] = segs[i + 1]
        /\ s = segs[1]
    <3>1. segs \in Seq(Segment)
      BY <1>1 DEF ChainOK
    <3> QED BY <2>1, <3>1, EmptySeq, HeadTailProperties
  <2>4. /\ s.readIndex \in Nat /\ s.writeIndex \in Nat /\ s.readIndex <= s.writeIndex
        /\ s.writeIndex <= SegmentSize /\ s.readIndex < SegmentSize /\ s \in Segment
        /\ SegmentSize \in Nat
    BY <2>2, SegmentSizeAssumption DEF SegmentOK, Segment
  <2>5. /\ Unread(s) \in Seq(Chars) /\ Len(Unread(s)) = n
        /\ \A i \in 1..n : Unread(s)[i] = s.chars[s.readIndex + i - 1]
    BY <2>2, UnreadIsText
  <2>6. s.readIndex < s.writeIndex
    <3> SUFFICES ASSUME s.readIndex = s.writeIndex PROVE FALSE
      BY <2>4
    <3>1. Len(segs) = 1
      <4>1. 1 \in 1..Len(segs) /\ (Len(segs) # 1 => 1 < Len(segs))
        BY <2>3
      <4> QED BY <1>1, <2>3, <2>4, <4>1 DEF ChainOK
    <3>2. Text(rest) = <<>>
      <4>1. rest = <<>>
        <5> HIDE DEF rest
        <5>1. rest \in Seq(Segment) /\ Len(rest) = 0
          BY <2>3, <3>1
        <5> QED BY <5>1, EmptySeq
      <4> QED BY <4>1, TextOfEmpty
    <3>3. Unread(s) = <<>>
      BY <2>4, <2>5, EmptySeq
    <3> QED BY <2>1, <2>2, <3>2, <3>3
  <2>7. /\ charAnswer' = s.chars[s.readIndex] /\ charCount' = charCount - 1
        /\ segs' = IF s.readIndex + 1 = SegmentSize THEN rest
                   ELSE [segs EXCEPT ![1].readIndex = @ + 1]
    BY <1>3 DEF ReadChar
  <2>8. /\ Unread(s) # <<>> /\ Head(Unread(s)) = s.chars[s.readIndex]
        /\ Tail(Unread(s)) \in Seq(Chars) /\ Len(Tail(Unread(s))) = n - 1
        /\ \A i \in 1..n - 1 : Tail(Unread(s))[i] = s.chars[s.readIndex + (i + 1) - 1]
    <3>1. n \in Nat /\ n # 0
      BY <2>4, <2>6
    <3>2. Unread(s)[1] = s.chars[s.readIndex]
      <4>1. 1 \in 1..n /\ s.readIndex + 1 - 1 = s.readIndex
        BY <2>4, <3>1
      <4> HIDE DEF n
      <4>2. Unread(s)[1] = s.chars[s.readIndex + 1 - 1]
        BY <2>5, <4>1
      <4> QED BY <4>1, <4>2
    <3> DEFINE u == Unread(s)
    <3> HIDE DEF n, u
    <3>3. u \in Seq(Chars) /\ Len(u) = n
      BY <2>5 DEF u
    <3>4. /\ u # <<>> /\ Head(u) = u[1] /\ Tail(u) \in Seq(Chars) /\ Len(Tail(u)) = n - 1
          /\ \A i \in 1..n - 1 : Tail(u)[i] = u[i + 1]
      BY <3>1, <3>3, EmptySeq, HeadTailProperties
    <3>5. \A i \in 1..n - 1 : u[i + 1] = s.chars[s.readIndex + (i + 1) - 1]
      <4>1. \A i \in 1..n - 1 : i + 1 \in 1..n
        BY <3>1
      <4> QED BY <2>5, <4>1 DEF u
    <3> QED BY <3>2, <3>4, <3>5 DEF u
  <2> HIDE DEF s, rest, n
  <2>9. /\ Head(Text(segs)) = s.chars[s.readIndex]
        /\ Tail(Text(segs)) = Tail(Unread(s)) \o Text(rest)
    <3> DEFINE u == Unread(s)
               r == Text(rest)
    <3>1. u \in Seq(Chars) /\ r \in Seq(Chars) /\ u # <<>>
      BY <2>2, <2>5, <2>8
    <3> HIDE DEF u, r
    <3>2. Head(u \o r) = Head(u) /\ Tail(u \o r) = Tail(u) \o r
      BY <3>1
    <3> QED BY <2>2, <2>8, <3>2 DEF u, r
  <2>10. CASE s.readIndex + 1 = SegmentSize
    <3>1. n = 1
      BY <2>4, <2>6, <2>10 DEF n
    <3>2. Tail(Unread(s)) = <<>>
      BY <2>8, <3>1, EmptySeq
    <3>3. Tail(Text(segs)) = Text(rest)
      BY <2>2, <2>9, <3>2, ConcatEmptySeq
    <3> QED BY <2>1, <2>2, <2>7, <2>9, <2>10, <3>3
  <2>11. CASE s.readIndex + 1 # SegmentSize
    <3>1. /\ next \in Segment /\ next.readIndex = s.readIndex + 1
          /\ next.writeIndex = s.writeIndex /\ next.chars = s.chars
      BY <2>4 DEF Segment
    <3> HIDE DEF next
    <3>2. SegmentOK(next)
      BY <2>2, <2>4, <2>6, <2>11, <3>1 DEF SegmentOK
    <3>3. Unread(next) = Tail(Unread(s))
      <4>1. next.writeIndex - next.readIndex = n - 1 /\ n - 1 \in Nat
        BY <2>4, <2>6, <3>1 DEF n
      <4>2. /\ Unread(next) \in Seq(Chars) /\ Len(Unread(next)) = n - 1
            /\ \A i \in 1..n - 1 : Unread(next)[i] = next.chars[next.readIndex + i - 1]
        BY <3>2, <4>1, UnreadIsText
      <4>3. \A i \in 1..n - 1 : next.readIndex + i - 1 = s.readIndex + (i + 1) - 1
        BY <2>4, <3>1, <4>1
      <4>4. \A i \in 1..n - 1 : Unread(next)[i] = Tail(Unread(s))[i]
        BY <2>8, <3>1, <4>2, <4>3
      <4> QED BY <2>8, <4>2, <4>4, SeqEqual
    <3>4. /\ segs' \in Seq(Segment) /\ Len(segs') = Len(segs)
          /\ segs'[1] = next
          /\ \A i \in 2..Len(segs) : segs'[i] = segs[i]
      <4>1. segs' = [segs EXCEPT ![1] = next]
        BY <2>3, <2>7, <2>11 DEF next
      <4> QED BY <2>3, <3>1, <4>1, ExceptSeq
    <3>5. ChainOK(segs')
      <4>1. ASSUME NEW i \in 1..Len(segs)
            PROVE  /\ SegmentOK(segs'[i])
                   /\ i > 1 => segs'[i].readIndex = 0 /\ segs'[i].writeIndex > 0
                   /\ i < Len(segs) => segs'[i].writeIndex = SegmentSize
        <5>1. i = 1 \/ i \in 2..Len(segs)
          BY <2>3
        <5> QED BY <1>1, <2>3, <3>1, <3>2, <3>4, <5>1 DEF ChainOK
      <4> QED BY <3>4, <4>1 DEF ChainOK
    <3>6. Head(segs') = next /\ Tail(segs') = rest /\ segs' # <<>>
      <4> DEFINE new == segs'
      <4>1. /\ new \in Seq(Segment) /\ Len(new) = Len(segs) /\ new[1] = next
            /\ \A i \in 2..Len(segs) : new[i] = segs[i]
        BY <3>4
      <4> HIDE DEF new
      <4>2. /\ new # <<>> /\ Head(new) = next /\ Tail(new) \in Seq(Segment)
            /\ Len(Tail(new)) = Len(segs) - 1
            /\ \A i \in 1..Len(segs) - 1 : Tail(new)[i] = new[i + 1]
        BY <2>3, <4>1, HeadTailProperties
      <4>3. \A i \in 1..Len(segs) - 1 : Tail(new)[i] = rest[i]
        <5>1. \A i \in 1..Len(segs) - 1 : i + 1 \in 2..Len(segs)
          BY <2>3
        <5> QED BY <2>3, <4>1, <4>2, <5>1
      <4>4. Tail(new) = rest
        BY <2>3, <4>2, <4>3, SeqEqual
      <4> QED BY <4>2, <4>4 DEF new
    <3>7. Text(segs') = Unread(next) \o Text(rest)
      <4> DEFINE new == segs'
      <4>1. ChainOK(new) /\ new # <<>> /\ Head(new) = next /\ Tail(new) = rest
        BY <3>5, <3>6
      <4> HIDE DEF new
      <4>2. Text(new) = Unread(next) \o Text(rest)
        BY <4>1, TextOfFirst
      <4> QED BY <4>2 DEF new
    <3> QED BY <2>1, <2>7, <2>9, <3>3, <3>5, <3>7
  <2> QED BY <2>10, <2>11
<1> QED BY <1>2, <1>3

\* Where a number is: in a segment and at a place of it.
LEMMA DivMod ==
    ASSUME NEW d \in Nat \ {0}, NEW q \in Nat, NEW r \in 0..d - 1
    PROVE  (q * d + r) \div d = q /\ (q * d + r) % d = r
OBVIOUS

\* A product with the number before.
LEMMA NextMultiple ==
    ASSUME NEW d \in Nat, NEW q \in Nat \ {0}
    PROVE  q * d \in Nat /\ (q - 1) * d \in Nat /\ q * d = (q - 1) * d + d
OBVIOUS

\* The n-th character, behind the segments before, is at the place that the loop computes.
LEMMA PlaceInSegment ==
    ASSUME NEW before \in Nat, NEW full \in Nat, NEW r \in Nat, NEW w \in Nat, NEW d \in Nat,
           w <= d, before = full - r,
           NEW n \in 1..full + w - r, n > before
    PROVE  /\ n - before - 1 \in 0..w - 1 /\ n - before - 1 \in 0..d - 1
           /\ n = before + ((n - before - 1) + 1)
           /\ (n - before - 1) + 1 \in 1..w
           /\ r + n - 1 = full + (n - before - 1)
           /\ 0 + ((n - before - 1) + 1) - 1 = n - before - 1
OBVIOUS

\* The loops of readChars, which count places, go through the characters that are unread.
LEMMA ReadCharsIsText ==
    ASSUME BufferInv, segs # <<>>
    PROVE  ReadChars = Text(segs)
<1> DEFINE N == Len(segs)
           d == SegmentSize
           r == segs[1].readIndex
           parts == [i \in 1..N |-> Unread(segs[i])]
           at(n) == r + n - 1
           Char(n) == segs[1 + at(n) \div d].chars[at(n) % d]
<1>1. /\ ChainOK(segs) /\ charCount \in Nat /\ charCount = Len(Text(segs))
      /\ Text(segs) \in Seq(Chars)
      /\ segs \in Seq(Segment) /\ N \in Nat /\ N # 0 /\ d \in Nat \ {0}
      /\ Head(segs) = segs[1]
  <2>1. ChainOK(segs) /\ charCount \in Nat /\ charCount = Len(Text(segs))
    BY DEF BufferInv
  <2>2. Text(segs) \in Seq(Chars)
    BY <2>1, NewSegmentIsEmpty, TextOfAppend
  <2>3. segs \in Seq(Segment)
    BY <2>1 DEF ChainOK
  <2> QED BY <2>1, <2>2, <2>3, EmptySeq, SegmentSizeAssumption
<1>2. parts \in Seq(Seq(Chars)) /\ Len(parts) = N
  BY <1>1, PartsOfChain
<1>3. PICK P : Stepwise(Chars, parts, P) /\ FlattenSeq(parts) = P[N]
  <2> HIDE DEF parts
  <2> QED BY <1>2, FlattenIsStepwise
<1>4. /\ P \in [0..N -> Seq(Chars)] /\ P[0] = <<>>
      /\ \A m \in 1..N : P[m] = P[m - 1] \o parts[m]
  BY <1>2, <1>3 DEF Stepwise
<1>5. Text(segs) = P[N]
  BY <1>3 DEF Text
<1>6. \A m \in 1..N : SegmentOK(segs[m])
  BY <1>1 DEF ChainOK
<1>7. \A m \in 1..N : parts[m] = Unread(segs[m])
  OBVIOUS
<1>8. r \in Nat /\ r < d
  BY <1>1, <1>6 DEF SegmentOK, Segment
<1>9. /\ \A m \in 1..N : m > 1 => segs[m].readIndex = 0
      /\ \A m \in 1..N : m < N => segs[m].writeIndex = d
  BY <1>1 DEF ChainOK
<1>10. ReadChars = [n \in 1..charCount |-> Char(n)]
  BY <1>1 DEF ReadChars
<1> HIDE DEF parts, N, r, d
<1> DEFINE Read(m) == /\ Len(P[m]) = (m - 1) * d + segs[m].writeIndex - r
                      /\ \A n \in 1..Len(P[m]) : P[m][n] = Char(n)
           Bad == {m \in 1..N : ~ Read(m)}
<1>11. Bad = {}
  <2> SUFFICES ASSUME Bad # {} PROVE FALSE
    OBVIOUS
  <2>1. PICK m \in Bad : \A k \in Bad : m <= k
    <3> HIDE DEF Bad
    <3>1. Bad \in SUBSET Nat
      BY <1>1 DEF Bad
    <3> QED BY <3>1, LeastNumber
  <2>2. m \in 1..N /\ ~ Read(m)
    BY <2>1
  <2> DEFINE s == segs[m]
             u == Unread(s)
             w == s.writeIndex
             first == s.readIndex
             before == P[m - 1]
  <2>3. /\ P[m] = before \o u /\ before \in Seq(Chars)
        /\ SegmentOK(s)
    <3>1. m \in 1..N /\ N \in Nat
      BY <1>1, <2>1
    <3>2. m - 1 \in 0..N
      BY <3>1
    <3> QED BY <1>4, <1>6, <1>7, <2>2, <3>2
  <2>4. /\ u \in Seq(Chars) /\ Len(u) = w - first
        /\ \A i \in 1..w - first : u[i] = s.chars[first + i - 1]
    BY <2>3, UnreadIsText
  <2>5. first \in Nat /\ w \in Nat /\ first <= w /\ w <= d
    BY <2>3 DEF SegmentOK, Segment, d
  <2> HIDE DEF u, before
  <2>6. /\ P[m] \in Seq(Chars) /\ Len(P[m]) = Len(before) + (w - first)
        /\ \A n \in 1..Len(before) : P[m][n] = before[n]
        /\ \A i \in 1..w - first : P[m][Len(before) + i] = s.chars[first + i - 1]
    <3>0. Len(u) \in Nat /\ Len(before) \in Nat
      BY <2>3, <2>4
    <3>1. /\ before \o u \in Seq(Chars) /\ Len(before \o u) = Len(before) + Len(u)
          /\ \A n \in 1..Len(before) + Len(u) : (before \o u)[n] =
                IF n <= Len(before) THEN before[n] ELSE u[n - Len(before)]
      BY <2>3, <2>4, ConcatProperties
    <3>2. \A n \in 1..Len(before) : (before \o u)[n] = before[n]
      BY <3>0, <3>1
    <3>3. \A i \in 1..Len(u) : (before \o u)[Len(before) + i] = u[i]
      <4> SUFFICES ASSUME NEW i \in 1..Len(u) PROVE (before \o u)[Len(before) + i] = u[i]
        OBVIOUS
      <4>1. /\ Len(before) + i \in 1..Len(before) + Len(u)
            /\ ~ (Len(before) + i <= Len(before)) /\ (Len(before) + i) - Len(before) = i
        BY <3>0
      <4> QED BY <3>1, <4>1
    <3> QED BY <2>3, <2>4, <3>1, <3>2, <3>3
  <2>7. CASE m = 1
    <3>1. Len(before) = 0 /\ first = r
      <4>1. m - 1 = 0
        BY <2>7
      <4>2. before = <<>>
        BY <1>4, <4>1 DEF before
      <4> QED BY <2>7, <4>2 DEF r
    <3>2. Len(P[m]) = w - first
      BY <2>5, <2>6, <3>1
    <3>3. (m - 1) * d = 0
      BY <1>1, <2>7
    <3>4. Len(P[m]) = (m - 1) * d + w - r
      BY <2>5, <3>1, <3>2, <3>3
    <3>5. ASSUME NEW n \in 1..Len(P[m]) PROVE P[m][n] = Char(n)
      <4>1. P[m][n] = s.chars[first + n - 1]
        <5>1. n \in 1..w - first /\ Len(before) + n = n
          BY <2>5, <3>1, <3>2
        <5> QED BY <2>6, <5>1
      <4>2. at(n) \in 0..d - 1 /\ at(n) = first + n - 1 /\ at(n) \in Int
        <5> HIDE DEF first, w
        <5>1. n \in 1..w - first /\ at(n) = first + n - 1
          BY <3>1, <3>2
        <5> HIDE DEF at
        <5>2. d \in Nat
          BY <1>1
        <5> QED BY <1>8, <2>5, <5>1, <5>2
      <4> HIDE DEF at
      <4> DEFINE a == at(n)
      <4>4. a \in 0..d - 1 /\ d \in Nat \ {0} /\ 0 \in Nat
        BY <1>1, <4>2
      <4> HIDE DEF a
      <4>5. (0 * d + a) \div d = 0 /\ (0 * d + a) % d = a
        BY <4>4, DivMod
      <4>6. 0 * d + a = a
        BY <4>4
      <4>3. at(n) \div d = 0 /\ at(n) % d = at(n)
        BY <4>5, <4>6 DEF a
      <4> QED BY <2>7, <4>1, <4>2, <4>3
    <3> QED BY <2>2, <3>4, <3>5
  <2>8. CASE m # 1
    <3>1. m - 1 \in 1..N /\ m - 1 < N /\ m > 1 /\ m - 1 \in Nat \ {0}
      BY <1>1, <2>2, <2>8
    <3>2. Read(m - 1)
      <4>1. m - 1 \notin Bad
        <5> HIDE DEF Bad
        <5> QED BY <2>1, <2>2, <3>1
      <4> QED BY <3>1, <4>1
    <3>3. segs[m - 1].writeIndex = d /\ first = 0
      BY <1>9, <2>2, <3>1
    <3> DEFINE full == (m - 1) * d
               less == ((m - 1) - 1) * d
    <3>4. full \in Nat /\ less \in Nat /\ full = less + d
      BY <1>1, <3>1, NextMultiple
    <3>5. Len(before) = less + d - r /\ \A n \in 1..Len(before) : before[n] = Char(n)
      BY <3>2, <3>3 DEF before
    <3> HIDE DEF full, less
    <3>6. Len(before) = full - r /\ Len(before) \in Nat
      BY <1>1, <1>8, <3>4, <3>5
    <3>7. Len(P[m]) = full + w - r
      BY <1>8, <2>5, <2>6, <3>3, <3>4, <3>6
    <3>8. ASSUME NEW n \in 1..Len(P[m]) PROVE P[m][n] = Char(n)
      <4>1. CASE n <= Len(before)
        <5>1. n \in 1..Len(before)
          BY <3>6, <4>1
        <5>2. P[m][n] = before[n]
          BY <2>6, <5>1
        <5> QED BY <3>5, <5>1, <5>2
      <4>2. CASE n > Len(before)
        <5> DEFINE j == n - Len(before) - 1
        <5>1. j \in 0..w - 1 /\ j \in 0..d - 1 /\ n = Len(before) + (j + 1) /\ j + 1 \in 1..w - first
              /\ first + (j + 1) - 1 = j
          <6> DEFINE L == Len(before)
          <6>1. /\ L \in Nat /\ full \in Nat /\ r \in Nat /\ w \in Nat /\ d \in Nat /\ w <= d
                /\ L = full - r /\ n \in 1..full + w - r /\ n > L
            BY <1>1, <1>8, <2>5, <3>4, <3>6, <3>7, <4>2
          <6> HIDE DEF L, w
          <6>2. /\ n - L - 1 \in 0..w - 1 /\ n - L - 1 \in 0..d - 1
                /\ n = L + ((n - L - 1) + 1)
                /\ (n - L - 1) + 1 \in 1..w
                /\ 0 + ((n - L - 1) + 1) - 1 = n - L - 1
            BY <6>1, PlaceInSegment
          <6>3. w - first = w
            BY <6>1, <3>3
          <6> QED BY <6>2, <6>3, <3>3 DEF L
        <5>2. at(n) = full + j
          <6> DEFINE L == Len(before)
          <6>1. /\ L \in Nat /\ full \in Nat /\ r \in Nat /\ w \in Nat /\ d \in Nat /\ w <= d
                /\ L = full - r /\ n \in 1..full + w - r /\ n > L
            BY <1>1, <1>8, <2>5, <3>4, <3>6, <3>7, <4>2
          <6> HIDE DEF L, w
          <6>2. r + n - 1 = full + (n - L - 1)
            BY <6>1, PlaceInSegment
          <6> QED BY <6>2 DEF L
        <5> HIDE DEF j
        <5>3. P[m][n] = s.chars[j]
          BY <2>6, <5>1
        <5>4. (full + j) \div d = m - 1 /\ (full + j) % d = j
          <6>1. m - 1 \in Nat
            BY <3>1
          <6> QED BY <1>1, <5>1, <6>1, DivMod DEF full
        <5>5. 1 + (m - 1) = m
          BY <3>1
        <5> HIDE DEF at
        <5> QED BY <5>2, <5>3, <5>4, <5>5
      <4> QED BY <3>6, <4>1, <4>2
    <3> QED BY <2>2, <3>7, <3>8 DEF full
  <2> QED BY <2>7, <2>8
<1>12. \A n \in 1..charCount : P[N][n] = Char(n)
  <2>1. N \in 1..N /\ charCount = Len(P[N])
    BY <1>1, <1>5
  <2>2. Read(N)
    BY <1>11, <2>1
  <2> QED BY <2>1, <2>2
<1> HIDE DEF Char
<1>13. Text(segs) = [n \in 1..charCount |-> Char(n)]
  <2> DEFINE t == Text(segs)
  <2>1. t \in Seq(Chars) /\ Len(t) = charCount /\ \A n \in 1..charCount : t[n] = Char(n)
    BY <1>1, <1>5, <1>12
  <2> HIDE DEF t
  <2>2. t = [n \in 1..charCount |-> t[n]]
    BY <2>1
  <2>3. t = [n \in 1..charCount |-> Char(n)]
    BY <2>1, <2>2
  <2> QED BY <2>3 DEF t
<1> QED BY <1>10, <1>13

\* clear leaves one segment with nothing to read.
LEMMA BufferClearEmpties ==
    ASSUME BufferInv, BufferClear
    PROVE  ChainOK(segs') /\ Text(segs') = <<>> /\ charCount' = 0 /\ charAnswer' = NULL
<1> DEFINE s == [Head(segs) EXCEPT !.readIndex = 0, !.writeIndex = 0]
<1>1. ChainOK(segs) /\ segs # <<>>
  BY DEF BufferInv, BufferClear
<1>2. SegmentOK(Head(segs))
  BY <1>1, TextOfFirst
<1>3. s \in Segment /\ s.readIndex = 0 /\ s.writeIndex = 0
  <2> DEFINE h == Head(segs)
  <2>1. h \in Segment
    BY <1>2 DEF SegmentOK
  <2> HIDE DEF h
  <2>2. [h EXCEPT !.readIndex = 0, !.writeIndex = 0] \in Segment
    BY <2>1 DEF Segment
  <2>3. /\ [h EXCEPT !.readIndex = 0, !.writeIndex = 0].readIndex = 0
        /\ [h EXCEPT !.readIndex = 0, !.writeIndex = 0].writeIndex = 0
    BY <2>1 DEF Segment
  <2> QED BY <2>2, <2>3 DEF h
<1>4. segs' = <<s>> /\ charCount' = 0 /\ charAnswer' = NULL
  BY DEF BufferClear
<1> HIDE DEF s
<1>5. SegmentOK(s)
  BY <1>3, SegmentSizeAssumption DEF SegmentOK
<1>6. Unread(s) = <<>>
  <2> DEFINE u == Unread(s)
  <2>1. u \in Seq(Chars) /\ Len(u) = 0
    BY <1>3, <1>5, UnreadIsText
  <2> HIDE DEF u
  <2>2. u = <<>>
    BY <2>1, EmptySeq
  <2> QED BY <2>2 DEF u
<1>7. ChainOK(<<s>>) /\ Text(<<s>>) = <<>>
  BY <1>5, <1>6, TextOfOne
<1> QED BY <1>4, <1>7

\* Each step is one of the queue of characters, or leaves it alone.
LEMMA BufferStep ==
    BufferInv /\ [BufferNext]_bufferVars =>
        /\ BufferInv'
        /\ [BF!Next]_<<Text(segs), charAnswer>>
<1> SUFFICES ASSUME BufferInv, [BufferNext]_bufferVars
             PROVE  BufferInv' /\ (BF!Next \/ UNCHANGED <<Text(segs), charAnswer>>)
  OBVIOUS
<1>1. ChainOK(segs) /\ charCount \in Nat /\ charCount = Len(Text(segs)) /\ Text(segs) \in Seq(Chars)
  BY NewSegmentIsEmpty, TextOfAppend DEF BufferInv
<1>0. BF!Next <=>
        \/ BF!Take \/ BF!Peek \/ BF!Contents \/ BF!Clear
        \/ \E c \in Chars : BF!Put(c)
  BY DEF BF!Next
<1>2. ASSUME NEW c \in Chars, WriteChar(c) PROVE BufferInv' /\ BF!Put(c)
  <2>1. /\ ChainOK(segs') /\ Text(segs') = Append(Text(segs), c)
        /\ charCount' = charCount + 1 /\ charAnswer' = NULL
    BY <1>2, WriteCharAppends
  <2>2. Len(Append(Text(segs), c)) = Len(Text(segs)) + 1
    <3> DEFINE t == Text(segs)
    <3>1. t \in Seq(Chars)
      BY <1>1
    <3> HIDE DEF t
    <3>2. Len(Append(t, c)) = Len(t) + 1
      BY <3>1, AppendProperties
    <3> QED BY <3>2 DEF t
  <2>3. BufferInv'
    BY <1>1, <2>1, <2>2 DEF BufferInv
  <2>4. BF!Put(c)
    BY <2>1 DEF BF!Put, Text
  <2> QED BY <2>3, <2>4
<1>3. ASSUME ReadChar PROVE BufferInv' /\ BF!Take
  <2>1. /\ ChainOK(segs')
        /\ \/ /\ Text(segs) = <<>> /\ segs' = segs /\ charCount' = charCount
              /\ charAnswer' = NULL
           \/ /\ Text(segs) # <<>> /\ charAnswer' = Head(Text(segs))
              /\ Text(segs') = Tail(Text(segs)) /\ charCount' = charCount - 1
    BY <1>3, ReadCharTakes
  <2>2. CASE Text(segs) = <<>>
    BY <1>1, <2>1, <2>2 DEF BufferInv, BF!Take, Text
  <2>3. CASE Text(segs) # <<>>
    <3>1. Len(Tail(Text(segs))) = Len(Text(segs)) - 1 /\ Len(Text(segs)) # 0
      <4> DEFINE t == Text(segs)
      <4>1. t \in Seq(Chars) /\ t # <<>>
        BY <1>1, <2>3
      <4> HIDE DEF t
      <4>2. Len(Tail(t)) = Len(t) - 1 /\ Len(t) # 0
        BY <4>1, HeadTailProperties, EmptySeq
      <4> QED BY <4>2 DEF t
    <3>2. BufferInv'
      BY <1>1, <2>1, <2>3, <3>1 DEF BufferInv
    <3>3. BF!Take
      BY <2>1, <2>3 DEF BF!Take, Text
    <3> QED BY <3>2, <3>3
  <2> QED BY <2>2, <2>3
<1>4. ASSUME BufferAsString PROVE BufferInv' /\ BF!Contents
  <2>1. segs # <<>> /\ segs' = segs /\ charCount' = charCount /\ charAnswer' = ReadChars
    BY <1>4 DEF BufferAsString
  <2>2. ReadChars = Text(segs)
    BY <2>1, ReadCharsIsText
  <2> QED BY <1>1, <2>1, <2>2 DEF BufferInv, BF!Contents, Text
<1>5. ASSUME BufferClear PROVE BufferInv' /\ BF!Clear
  <2>1. ChainOK(segs') /\ Text(segs') = <<>> /\ charCount' = 0 /\ charAnswer' = NULL
    BY <1>5, BufferClearEmpties
  <2> QED BY <2>1 DEF BufferInv, BF!Clear, Text
<1>6. ASSUME UseOfNoSegment \/ UNCHANGED bufferVars
      PROVE  BufferInv' /\ UNCHANGED <<Text(segs), charAnswer>>
  <2>1. segs' = segs /\ charCount' = charCount /\ charAnswer' = charAnswer
    BY <1>6 DEF UseOfNoSegment, bufferVars
  <2> QED BY <1>1, <2>1 DEF BufferInv, Text
<1> QED BY <1>0, <1>2, <1>3, <1>4, <1>5, <1>6 DEF BufferNext

\* No index leaves its segment and the count is that of the characters that are unread.
THEOREM BufferSegmentsAgree == BufferSpec => []SegmentsAreExact
<1>1. BufferInv => SegmentsAreExact
  <2> SUFFICES ASSUME BufferInv PROVE SegmentsAreExact
    OBVIOUS
  <2>1. charCount = Len(FlattenSeq([i \in 1..Len(segs) |-> Unread(segs[i])]))
    BY DEF BufferInv, Text
  <2>2. ASSUME NEW i \in 1..Len(segs)
        PROVE  /\ segs[i].readIndex \in 0..segs[i].writeIndex
               /\ segs[i].writeIndex \in 0..SegmentSize
               /\ i > 1 => segs[i].readIndex = 0 /\ segs[i].writeIndex > 0
               /\ i < Len(segs) => segs[i].writeIndex = SegmentSize
               /\ segs[i].readIndex < SegmentSize
    BY SegmentSizeAssumption DEF BufferInv, ChainOK, SegmentOK, Segment
  <2> QED BY <2>1, <2>2 DEF SegmentsAreExact
<1> QED BY <1>1, BufferInvInit, BufferStep, PTL DEF BufferSpec

\* Characters leave the buffer in the order they came, whatever the size of a segment, and
\* asString shows those that are left.
THEOREM BufferImplementsFifo == BufferSpec => BufferIsFifo
<1>1. BufferInit => BF!Init
  BY BufferInvInit DEF BufferInit, BF!Init, Text
<1>2. [BF!Next]_<<Text(segs), charAnswer>>
        => [BF!Next]_<<FlattenSeq([i \in 1..Len(segs) |-> Unread(segs[i])]), charAnswer>>
  BY DEF Text
<1> QED BY <1>1, <1>2, BufferInvInit, BufferStep, PTL DEF BufferSpec, BufferIsFifo, BF!Spec

-----------------------------------------------------------------------------
(* Folds over the links. *)

\* One step of the two loops over links: those of resize and those of the copy.
LoopStep(grows, t, l) == IF grows THEN Putting(t, l) ELSE Updated(t, l)

\* The recursion of FoldLeft, over sets of indexes of which the largest comes last.
Folds(grows, base, s, n, iter) ==
    iter = [is \in SUBSET (1..n) |->
               IF is = {} THEN base
               ELSE LoopStep(grows, iter[is \ {Max(is)}], s[Max(is)])]

\* The index that comes last.
LEMMA LargestIs ==
    ASSUME NEW n \in Nat, NEW is \in SUBSET (1..n), n \in is
    PROVE  Max(is) = n
<1>1. \A i \in is : n >= i
  OBVIOUS
<1>2. \A x \in is : (\A y \in is : x >= y) => x = n
  OBVIOUS
<1> QED BY <1>1, <1>2 DEF Max

\* The recursion is well defined: subsets of 1..n with n come from those without.
LEMMA FoldsExist ==
    ASSUME NEW grows, NEW base, NEW s, NEW n \in Nat
    PROVE  \E iter : Folds(grows, base, s, n, iter)
<1> DEFINE Bad == {m \in Nat : ~ \E iter : Folds(grows, base, s, m, iter)}
<1> SUFFICES ASSUME Bad # {} PROVE FALSE
  OBVIOUS
<1>1. PICK m \in Bad : \A k \in Bad : m <= k
  <2> HIDE DEF Bad
  <2>1. Bad \in SUBSET Nat
    BY DEF Bad
  <2> QED BY <2>1, LeastNumber
<1>2. m \in Nat /\ ~ \E iter : Folds(grows, base, s, m, iter)
  BY <1>1
<1>3. CASE m = 0
  <2> DEFINE iter == [is \in SUBSET (1..0) |-> base]
  <2>1. SUBSET (1..0) = {{}}
    OBVIOUS
  <2>2. ASSUME NEW is \in SUBSET (1..0)
        PROVE  iter[is] = IF is = {} THEN base
                          ELSE LoopStep(grows, iter[is \ {Max(is)}], s[Max(is)])
    <3>1. is = {}
      BY <2>1
    <3> QED BY <3>1
  <2>3. iter = [is \in SUBSET (1..0) |-> iter[is]]
    OBVIOUS
  <2> HIDE DEF iter
  <2>4. Folds(grows, base, s, 0, iter)
    BY <2>2, <2>3 DEF Folds
  <2> QED BY <1>2, <1>3, <2>4
<1>4. CASE m # 0
  <2>1. m - 1 \in Nat /\ m - 1 \notin Bad
    <3>1. m - 1 \in Nat /\ m - 1 < m
      BY <1>2, <1>4
    <3> HIDE DEF Bad
    <3> QED BY <1>1, <3>1, <1>2
  <2>2. PICK less : Folds(grows, base, s, m - 1, less)
    BY <2>1
  <2> DEFINE iter == [is \in SUBSET (1..m) |->
                         IF m \in is THEN LoopStep(grows, less[is \ {m}], s[m]) ELSE less[is]]
  <2>3. \A is \in SUBSET (1..m - 1) :
           less[is] = IF is = {} THEN base
                      ELSE LoopStep(grows, less[is \ {Max(is)}], s[Max(is)])
    BY <2>2 DEF Folds
  <2>4. ASSUME NEW is \in SUBSET (1..m)
        PROVE  iter[is] = IF is = {} THEN base
                          ELSE LoopStep(grows, iter[is \ {Max(is)}], s[Max(is)])
    <3>1. CASE m \in is
      <4>1. Max(is) = m /\ is # {}
        BY <1>2, <3>1, LargestIs
      <4>2. is \ {m} \in SUBSET (1..m) /\ m \notin is \ {m}
        OBVIOUS
      <4>3. iter[is \ {m}] = less[is \ {m}]
        BY <4>2
      <4>4. iter[is] = LoopStep(grows, less[is \ {m}], s[m])
        BY <3>1
      <4> HIDE DEF iter
      <4> QED BY <4>1, <4>3, <4>4
    <3>2. CASE m \notin is
      <4>1. is \in SUBSET (1..m - 1)
        BY <1>2, <3>2
      <4>2. iter[is] = less[is]
        BY <3>2
      <4>3. CASE is = {}
        <5> HIDE DEF iter
        <5> QED BY <2>3, <4>1, <4>2, <4>3
      <4>4. CASE is # {}
        <5> DEFINE rest == is \ {Max(is)}
        <5>1. rest \in SUBSET (1..m) /\ m \notin rest
          BY <3>2
        <5> HIDE DEF rest
        <5>2. iter[rest] = less[rest]
          BY <5>1
        <5> HIDE DEF iter
        <5> QED BY <2>3, <4>1, <4>2, <4>4, <5>2 DEF rest
      <4> QED BY <4>3, <4>4
    <3> QED BY <3>1, <3>2
  <2>5. iter = [is \in SUBSET (1..m) |-> iter[is]]
    OBVIOUS
  <2> HIDE DEF iter
  <2>6. Folds(grows, base, s, m, iter)
    BY <2>4, <2>5 DEF Folds
  <2> QED BY <1>2, <2>6
<1> QED BY <1>3, <1>4

\* The tables a loop goes through, from the first one on.
LoopTrace(grows, base, s, tabs) ==
    /\ tabs[0] = base
    /\ \A m \in 1..Len(s) : tabs[m] = LoopStep(grows, tabs[m - 1], s[m])

\* The recursion passes through one table after the other.
LEMMA FoldsTrace ==
    ASSUME NEW grows, NEW base, NEW S, NEW s \in Seq(S), NEW iter,
           Folds(grows, base, s, Len(s), iter)
    PROVE  \E tabs : LoopTrace(grows, base, s, tabs) /\ iter[1..Len(s)] = tabs[Len(s)]
<1> DEFINE N == Len(s)
           tabs == [m \in 0..N |-> iter[1..m]]
<1>1. N \in Nat
  OBVIOUS
<1>2. \A is \in SUBSET (1..N) :
         iter[is] = IF is = {} THEN base
                    ELSE LoopStep(grows, iter[is \ {Max(is)}], s[Max(is)])
  BY DEF Folds
<1> HIDE DEF N
<1>3. tabs[0] = base
  <2>1. 1..0 = {} /\ 1..0 \in SUBSET (1..N) /\ 0 \in 0..N
    BY <1>1
  <2>2. iter[1..0] = base
    BY <1>2, <2>1
  <2> QED BY <2>1, <2>2
<1>4. ASSUME NEW m \in 1..N
      PROVE  tabs[m] = LoopStep(grows, tabs[m - 1], s[m])
  <2>1. 1..m \in SUBSET (1..N) /\ m \in 1..m /\ (1..m) \ {m} = 1..m - 1 /\ m \in Nat
    BY <1>1
  <2>2. Max(1..m) = m
    <3>1. 1..m \in SUBSET (1..m)
      OBVIOUS
    <3> QED BY <2>1, <3>1, LargestIs
  <2>3. 1..m # {}
    BY <2>1
  <2>4. iter[1..m] = LoopStep(grows, iter[1..m - 1], s[m])
    BY <1>2, <2>1, <2>2, <2>3
  <2>5. m \in 0..N /\ m - 1 \in 0..N
    BY <1>1
  <2>6. tabs[m] = iter[1..m] /\ tabs[m - 1] = iter[1..m - 1]
    BY <2>5
  <2> HIDE DEF tabs
  <2> QED BY <2>4, <2>6
<1>5. tabs[N] = iter[1..N]
  BY <1>1
<1> HIDE DEF tabs
<1> QED BY <1>3, <1>4, <1>5 DEF LoopTrace, N

\* The loop of resize.
LEMMA UpdatesTrace ==
    ASSUME NEW base, NEW S, NEW s \in Seq(S)
    PROVE  \E tabs : LoopTrace(FALSE, base, s, tabs) /\ FoldLeft(Updated, base, s) = tabs[Len(s)]
<1> DEFINE Eq(g) == g = [is \in SUBSET (DOMAIN s) |->
                            IF is = {} THEN base ELSE Updated(g[is \ {Max(is)}], s[Max(is)])]
           iter == CHOOSE g : Eq(g)
<1>1. DOMAIN s = 1..Len(s) /\ Len(s) \in Nat
  OBVIOUS
<1>2. \A g : Eq(g) <=> Folds(FALSE, base, s, Len(s), g)
  BY <1>1 DEF Folds, LoopStep
<1>3. FoldLeft(Updated, base, s) = iter[DOMAIN s]
  BY DEF FoldLeft, MapThenFoldSet
<1>4. Eq(iter)
  <2>1. \E g : Eq(g)
    BY <1>1, <1>2, FoldsExist
  <2> QED BY <2>1
<1> HIDE DEF iter
<1>5. Folds(FALSE, base, s, Len(s), iter)
  BY <1>2, <1>4
<1> HIDE DEF Eq
<1> DEFINE Traced(g) == \E tabs : LoopTrace(FALSE, base, s, tabs) /\ g[1..Len(s)] = tabs[Len(s)]
<1>8. \A g : Folds(FALSE, base, s, Len(s), g) => Traced(g)
  BY FoldsTrace
<1>9. Traced(iter)
  <2> HIDE DEF Traced
  <2> QED BY <1>5, <1>8
<1>6. PICK tabs : LoopTrace(FALSE, base, s, tabs) /\ iter[1..Len(s)] = tabs[Len(s)]
  BY <1>9
<1>7. FoldLeft(Updated, base, s) = tabs[Len(s)]
  BY <1>1, <1>3, <1>6
<1> QED BY <1>6, <1>7

\* The loop of the copy.
LEMMA PuttingsTrace ==
    ASSUME NEW base, NEW S, NEW s \in Seq(S)
    PROVE  \E tabs : LoopTrace(TRUE, base, s, tabs) /\ FoldLeft(Putting, base, s) = tabs[Len(s)]
<1> DEFINE Eq(g) == g = [is \in SUBSET (DOMAIN s) |->
                            IF is = {} THEN base ELSE Putting(g[is \ {Max(is)}], s[Max(is)])]
           iter == CHOOSE g : Eq(g)
<1>1. DOMAIN s = 1..Len(s) /\ Len(s) \in Nat
  OBVIOUS
<1>2. \A g : Eq(g) <=> Folds(TRUE, base, s, Len(s), g)
  BY <1>1 DEF Folds, LoopStep
<1>3. FoldLeft(Putting, base, s) = iter[DOMAIN s]
  BY DEF FoldLeft, MapThenFoldSet
<1>4. Eq(iter)
  <2>1. \E g : Eq(g)
    BY <1>1, <1>2, FoldsExist
  <2> QED BY <2>1
<1> HIDE DEF iter
<1>5. Folds(TRUE, base, s, Len(s), iter)
  BY <1>2, <1>4
<1> HIDE DEF Eq
<1> DEFINE Traced(g) == \E tabs : LoopTrace(TRUE, base, s, tabs) /\ g[1..Len(s)] = tabs[Len(s)]
<1>8. \A g : Folds(TRUE, base, s, Len(s), g) => Traced(g)
  BY FoldsTrace
<1>9. Traced(iter)
  <2> HIDE DEF Traced
  <2> QED BY <1>5, <1>8
<1>6. PICK tabs : LoopTrace(TRUE, base, s, tabs) /\ iter[1..Len(s)] = tabs[Len(s)]
  BY <1>9
<1>7. FoldLeft(Putting, base, s) = tabs[Len(s)]
  BY <1>1, <1>3, <1>6
<1> QED BY <1>6, <1>7

\* The elements of a concatenation.
LEMMA ToSetConcat ==
    ASSUME NEW S, NEW q \in Seq(S), NEW r \in Seq(S)
    PROVE  ToSet(q \o r) = ToSet(q) \cup ToSet(r)
<1> DEFINE s == q \o r
           N == Len(q)
           M == Len(r)
<1>1. /\ s \in Seq(S) /\ Len(s) = N + M /\ N \in Nat /\ M \in Nat
      /\ \A n \in 1..N + M : s[n] = IF n <= N THEN q[n] ELSE r[n - N]
  BY ConcatProperties
<1>2. /\ ToSet(s) = {s[n] : n \in 1..N + M}
      /\ ToSet(q) = {q[n] : n \in 1..N} /\ ToSet(r) = {r[n] : n \in 1..M}
  <2>1. DOMAIN q = 1..N /\ DOMAIN r = 1..M
    OBVIOUS
  <2> HIDE DEF s
  <2>2. DOMAIN s = 1..N + M
    BY <1>1
  <2> QED BY <2>1, <2>2 DEF ToSet
<1> HIDE DEF s, N, M
<1>3. ASSUME NEW n \in 1..N + M
      PROVE  s[n] \in {q[i] : i \in 1..N} \cup {r[i] : i \in 1..M}
  <2>1. CASE n <= N
    <3>1. n \in 1..N /\ s[n] = q[n]
      BY <1>1, <2>1
    <3> QED BY <3>1
  <2>2. CASE ~ (n <= N)
    <3>1. n - N \in 1..M /\ s[n] = r[n - N]
      BY <1>1, <2>2
    <3> QED BY <3>1
  <2> QED BY <2>1, <2>2
<1>4. ASSUME NEW i \in 1..N PROVE q[i] \in {s[n] : n \in 1..N + M}
  <2>1. i \in 1..N + M /\ i <= N
    BY <1>1
  <2>2. s[i] = q[i]
    BY <1>1, <2>1
  <2> QED BY <2>1, <2>2
<1>5. ASSUME NEW i \in 1..M PROVE r[i] \in {s[n] : n \in 1..N + M}
  <2>1. N + i \in 1..N + M /\ ~ (N + i <= N) /\ (N + i) - N = i
    BY <1>1
  <2>2. s[N + i] = r[i]
    BY <1>1, <2>1
  <2> QED BY <2>1, <2>2
<1>6. {s[n] : n \in 1..N + M} = {q[i] : i \in 1..N} \cup {r[i] : i \in 1..M}
  BY <1>3, <1>4, <1>5
<1> QED BY <1>2, <1>6 DEF s

\* What is in the parts is in the whole, and the other way around.
LEMMA FlattenToSet ==
    ASSUME NEW S, NEW parts \in Seq(Seq(S))
    PROVE  ToSet(FlattenSeq(parts)) = UNION {ToSet(parts[b]) : b \in 1..Len(parts)}
<1> DEFINE N == Len(parts)
<1>1. N \in Nat /\ \A m \in 1..N : parts[m] \in Seq(S)
  OBVIOUS
<1>2. PICK P : Stepwise(S, parts, P) /\ FlattenSeq(parts) = P[N]
  BY FlattenIsStepwise
<1>3. P[0] = <<>> /\ \A m \in 1..N : P[m] = P[m - 1] \o parts[m] /\ P[m - 1] \in Seq(S)
  <2>1. \A m \in 1..N : m - 1 \in 0..N
    BY <1>1
  <2>2. P \in [0..N -> Seq(S)]
    BY <1>2 DEF Stepwise
  <2> QED BY <1>2, <2>1, <2>2 DEF Stepwise
<1> HIDE DEF N
<1> DEFINE Bad == {m \in 0..N : ToSet(P[m]) # UNION {ToSet(parts[b]) : b \in 1..m}}
<1>4. Bad = {}
  <2> SUFFICES ASSUME Bad # {} PROVE FALSE
    OBVIOUS
  <2>1. PICK m \in Bad : \A k \in Bad : m <= k
    <3> HIDE DEF Bad
    <3>1. Bad \in SUBSET Nat
      BY <1>1 DEF Bad
    <3> QED BY <3>1, LeastNumber
  <2>2. m \in 0..N /\ ToSet(P[m]) # UNION {ToSet(parts[b]) : b \in 1..m}
    BY <2>1
  <2>3. m # 0
    <3>1. ToSet(P[0]) = {}
      <4>1. DOMAIN P[0] = {}
        BY <1>3
      <4> QED BY <4>1 DEF ToSet
    <3>2. UNION {ToSet(parts[b]) : b \in 1..0} = {}
      OBVIOUS
    <3> QED BY <2>2, <3>1, <3>2
  <2>4. m \in 1..N /\ m - 1 \in 0..N /\ m - 1 < m /\ 1..m = (1..m - 1) \cup {m}
    BY <1>1, <2>2, <2>3
  <2>5. ToSet(P[m - 1]) = UNION {ToSet(parts[b]) : b \in 1..m - 1}
    <3>1. m - 1 \notin Bad
      <4> HIDE DEF Bad
      <4> QED BY <1>1, <2>1, <2>4
    <3> QED BY <2>4, <3>1
  <2>6. ToSet(P[m]) = ToSet(P[m - 1]) \cup ToSet(parts[m])
    <3> DEFINE q == P[m - 1]
               r == parts[m]
    <3>1. q \in Seq(S) /\ r \in Seq(S) /\ P[m] = q \o r
      BY <1>1, <1>3, <2>4
    <3> HIDE DEF q, r
    <3>2. ToSet(q \o r) = ToSet(q) \cup ToSet(r)
      BY <3>1, ToSetConcat
    <3> QED BY <3>1, <3>2 DEF q, r
  <2>7. UNION {ToSet(parts[b]) : b \in 1..m} =
           (UNION {ToSet(parts[b]) : b \in 1..m - 1}) \cup ToSet(parts[m])
    BY <2>4
  <2> QED BY <2>2, <2>5, <2>6, <2>7
<1>5. N \in 0..N
  BY <1>1
<1>6. ToSet(P[N]) = UNION {ToSet(parts[b]) : b \in 1..N}
  BY <1>4, <1>5
<1> QED BY <1>2, <1>6 DEF N

\* Two sums of which the parts differ.
LEMMA Difference ==
    ASSUME NEW i \in Nat, NEW j \in Nat, NEW k \in Nat, NEW l \in Nat, NEW d, j - i = d
    PROVE  (j + l) - (i + k) = d + (l - k)
OBVIOUS

\* If one part changes, the length of the whole changes by as much.
LEMMA FlattenLength ==
    ASSUME NEW S, NEW parts \in Seq(Seq(S)), NEW new \in Seq(Seq(S)), Len(new) = Len(parts),
           NEW b \in 1..Len(parts),
           \A m \in 1..Len(parts) : m # b => new[m] = parts[m]
    PROVE  Len(FlattenSeq(new)) - Len(FlattenSeq(parts)) = Len(new[b]) - Len(parts[b])
<1> DEFINE N == Len(parts)
<1>1. N \in Nat /\ \A m \in 1..N : parts[m] \in Seq(S) /\ new[m] \in Seq(S)
  OBVIOUS
<1>2. PICK P : Stepwise(S, parts, P) /\ FlattenSeq(parts) = P[N]
  BY FlattenIsStepwise
<1>3. PICK Q : Stepwise(S, new, Q) /\ FlattenSeq(new) = Q[N]
  BY FlattenIsStepwise
<1>4. /\ P[0] = <<>> /\ Q[0] = <<>>
      /\ \A m \in 1..N : /\ P[m] = P[m - 1] \o parts[m] /\ P[m - 1] \in Seq(S)
                         /\ Q[m] = Q[m - 1] \o new[m] /\ Q[m - 1] \in Seq(S)
  <2>1. \A m \in 1..N : m - 1 \in 0..N
    BY <1>1
  <2>2. P \in [0..N -> Seq(S)] /\ Q \in [0..N -> Seq(S)]
    BY <1>2, <1>3 DEF Stepwise
  <2> QED BY <1>2, <1>3, <2>1, <2>2 DEF Stepwise
<1> HIDE DEF N
<1> DEFINE more == Len(new[b]) - Len(parts[b])
           change == [m \in 0..N |-> IF m < b THEN 0 ELSE more]
<1>7. b \in 1..N /\ more = Len(new[b]) - Len(parts[b])
  BY DEF N
<1>8. \A m \in 0..N : change[m] = IF m < b THEN 0 ELSE more
  OBVIOUS
<1> HIDE DEF change, more
<1> DEFINE Changes(m) == Len(Q[m]) - Len(P[m]) = change[m]
           Bad == {m \in 0..N : ~ Changes(m)}
<1>5. Bad = {}
  <2> SUFFICES ASSUME Bad # {} PROVE FALSE
    OBVIOUS
  <2>1. PICK m \in Bad : \A k \in Bad : m <= k
    <3> HIDE DEF Bad
    <3>1. Bad \in SUBSET Nat
      <4>1. N \in Nat
        BY <1>1
      <4> HIDE DEF Changes
      <4> QED BY <4>1 DEF Bad
    <3> QED BY <3>1, LeastNumber
  <2>2. m \in 0..N /\ Len(Q[m]) - Len(P[m]) # change[m]
    BY <2>1
  <2>3. m # 0
    <3>1. 0 < b /\ Len(P[0]) = 0 /\ Len(Q[0]) = 0
      BY <1>4, <1>7
    <3>2. change[0] = 0 /\ Len(Q[0]) - Len(P[0]) = 0
      BY <1>1, <1>8, <3>1
    <3> QED BY <2>2, <3>2
  <2>4. m \in 1..N /\ m - 1 \in 0..N /\ m - 1 < m
    BY <1>1, <2>2, <2>3
  <2>5. Len(Q[m - 1]) - Len(P[m - 1]) = change[m - 1]
    <3>1. m - 1 \notin Bad
      <4> HIDE DEF Bad
      <4> QED BY <1>1, <2>1, <2>4
    <3> QED BY <2>4, <3>1
  <2> DEFINE p == P[m - 1]
             q == Q[m - 1]
             x == parts[m]
             y == new[m]
  <2>6. p \in Seq(S) /\ q \in Seq(S) /\ x \in Seq(S) /\ y \in Seq(S)
        /\ P[m] = p \o x /\ Q[m] = q \o y
    BY <1>1, <1>4, <2>4
  <2>7. Len(q) - Len(p) = change[m - 1]
    BY <2>5
  <2> HIDE DEF p, q, x, y
  <2>8. Len(p \o x) = Len(p) + Len(x) /\ Len(q \o y) = Len(q) + Len(y)
    <3>1. p \in Seq(S) /\ q \in Seq(S) /\ x \in Seq(S) /\ y \in Seq(S)
      BY <2>6
    <3> QED BY <3>1, ConcatProperties
  <2>9. m # b => y = x
    BY <2>4 DEF x, y, N
  <2>10. m = b => x = parts[b] /\ y = new[b]
    BY DEF x, y
  <2>11. Len(p) \in Nat /\ Len(q) \in Nat /\ Len(x) \in Nat /\ Len(y) \in Nat
    <3>1. p \in Seq(S) /\ q \in Seq(S) /\ x \in Seq(S) /\ y \in Seq(S)
      BY <2>6
    <3> QED BY <3>1, LenProperties
  <2>12. m \in Nat /\ b \in Nat
    BY <1>1, <1>7, <2>2
  <2>15. Len(P[m]) = Len(p) + Len(x) /\ Len(Q[m]) = Len(q) + Len(y)
    BY <2>6, <2>8
  <2>13. CASE m = b
    <3>1. change[m] = Len(y) - Len(x) /\ change[m - 1] = 0
      <4>1. m \in 0..N /\ ~ (m < b) /\ m - 1 < b /\ m - 1 \in 0..N
        BY <2>2, <2>4, <2>12, <2>13
      <4>2. change[m] = more /\ change[m - 1] = 0
        BY <1>8, <4>1
      <4> QED BY <1>7, <2>10, <2>13, <4>2
    <3> HIDE DEF Bad
    <3>2. Len(q) - Len(p) = 0
      BY <2>7, <3>1
    <3>3. (Len(q) + Len(y)) - (Len(p) + Len(x)) = 0 + (Len(y) - Len(x))
      <4> DEFINE i == Len(p)
                 j == Len(q)
                 k == Len(x)
                 l == Len(y)
      <4>1. i \in Nat /\ j \in Nat /\ k \in Nat /\ l \in Nat /\ j - i = 0
        BY <2>11, <3>2
      <4> HIDE DEF i, j, k, l
      <4>2. (j + l) - (i + k) = 0 + (l - k)
        BY <4>1, Difference
      <4> QED BY <4>2 DEF i, j, k, l
    <3>4. 0 + (Len(y) - Len(x)) = Len(y) - Len(x)
      BY <2>11
    <3> QED BY <2>2, <2>15, <3>1, <3>3, <3>4
  <2>14. CASE m # b
    <3>1. change[m] = change[m - 1]
      <4>1. m \in 0..N /\ m - 1 \in 0..N /\ (m < b <=> m - 1 < b)
        BY <2>2, <2>4, <2>12, <2>14
      <4> QED BY <1>8, <4>1
    <3> HIDE DEF Bad
    <3> QED BY <2>2, <2>7, <2>9, <2>11, <2>14, <2>15, <3>1
  <2> QED BY <2>13, <2>14
<1>6. N \in 0..N /\ ~ (N < b)
  BY <1>1, <1>7
<1>9. Len(Q[N]) - Len(P[N]) = change[N]
  BY <1>5, <1>6
<1>10. change[N] = more
  BY <1>6, <1>8
<1> QED BY <1>2, <1>3, <1>7, <1>9, <1>10

-----------------------------------------------------------------------------
(* Tables and their buckets. *)

\* A link of a chain.
Link == [key : Keys, value : Values]

\* Arrays of chains, of every size.
BucketArrays == UNION {[0..n - 1 -> Seq(Link)] : n \in Nat}

\* The record of a table.
Tables == [buckets : BucketArrays, nBuckets : Nat, count : Nat, loadingFactor : Nat]

\* What a table is.
Shape(t) ==
    /\ t \in Tables
    /\ t.nBuckets \in Nat /\ t.nBuckets >= 4 /\ t.count \in Nat
    /\ t.loadingFactor = t.nBuckets \div 2 + t.nBuckets \div 4
    /\ t.buckets \in [Buckets(t) -> Seq(Link)]

\* Each link is in the bucket of its key, and a key with hash code has no other one there.
Placed(t) ==
    \A b \in Buckets(t) : \A i \in 1..Len(t.buckets[b]) :
        /\ b = BucketOf(t, t.buckets[b][i].key)
        /\ t.buckets[b][i].key \in Hashable =>
              \A j \in 1..Len(t.buckets[b]) :
                 t.buckets[b][j].key = t.buckets[b][i].key => j = i

\* The links of a table.
All(t) == UNION {ToSet(t.buckets[b]) : b \in Buckets(t)}

\* What a table is as long as no put has overfilled it.
TableOK(t) == Shape(t) /\ Placed(t) /\ Len(Links(t)) <= t.count

-----------------------------------------------------------------------------
\* The remainder is a number of a bucket.
LEMMA Remainder ==
    ASSUME NEW n \in Nat, n >= 4, NEW h \in Nat
    PROVE  h % n \in 0..n - 1
OBVIOUS

\* A key has a bucket of the table.
LEMMA BucketIsOne ==
    ASSUME NEW t, Shape(t), NEW k \in Keys
    PROVE  BucketOf(t, k) \in Buckets(t)
<1>1. t.nBuckets \in Nat /\ t.nBuckets >= 4
  BY DEF Shape
<1>2. CASE k \in Hashable
  <2>1. HashCode[k] \in Nat
    BY <1>2, HashAssumption DEF Hashable
  <2>2. HashCode[k] % t.nBuckets \in 0..t.nBuckets - 1
    BY <1>1, <2>1, Remainder
  <2> QED BY <1>2, <2>2 DEF BucketOf, Buckets
<1>3. CASE k \notin Hashable
  BY <1>1, <1>3 DEF BucketOf, Buckets
<1> QED BY <1>2, <1>3

\* The search for a key in a chain.
FirstWith(chain, k) == SelectInSeq(chain, LAMBDA l : l.key = k)

\* The search in a chain ends at a link with the key, or there is none.
LEMMA SelectIsFirst ==
    ASSUME NEW chain \in Seq(Link), NEW k
    PROVE  LET n == FirstWith(chain, k)
           IN  /\ n \in 0..Len(chain)
               /\ n = 0 => \A i \in 1..Len(chain) : chain[i].key # k
               /\ n # 0 => chain[n].key = k
<1> DEFINE I == {i \in 1..Len(chain) : chain[i].key = k}
           n == FirstWith(chain, k)
<1>1. n = IF I # {} THEN Min(I) ELSE 0
  BY DEF FirstWith, SelectInSeq
<1>2. Len(chain) \in Nat
  OBVIOUS
<1>3. I # {} => Min(I) \in I
  <2> SUFFICES ASSUME I # {} PROVE Min(I) \in I
    OBVIOUS
  <2>1. I \in SUBSET Nat
    BY <1>2
  <2> HIDE DEF I
  <2>2. \E i \in I : \A j \in I : i <= j
    BY <2>1, LeastNumber
  <2> QED BY <2>2 DEF Min
<1> HIDE DEF n
<1>4. CASE I = {}
  BY <1>1, <1>2, <1>4 DEF n
<1>5. CASE I # {}
  <2>1. n \in I
    BY <1>1, <1>3, <1>5
  <2>2. n \in 1..Len(chain) /\ chain[n].key = k
    BY <2>1
  <2>3. n \in 0..Len(chain) /\ n # 0
    BY <1>2, <2>2
  <2> QED BY <2>2, <2>3 DEF n
<1> QED BY <1>4, <1>5

\* The place of a key's link.
LEMMA LocatedIs ==
    ASSUME NEW t, Shape(t), NEW k \in Hashable
    PROVE  LET chain == t.buckets[BucketOf(t, k)]
               at == Located(t, k)
           IN  /\ BucketOf(t, k) \in Buckets(t) /\ chain \in Seq(Link)
               /\ at \in 0..Len(chain)
               /\ at = 0 => \A i \in 1..Len(chain) : chain[i].key # k
               /\ at # 0 => at \in 1..Len(chain) /\ chain[at].key = k
<1> DEFINE chain == t.buckets[BucketOf(t, k)]
           at == Located(t, k)
<1>1. k \in Keys
  BY HashAssumption DEF Hashable
<1>2. BucketOf(t, k) \in Buckets(t) /\ chain \in Seq(Link)
  <2>1. BucketOf(t, k) \in Buckets(t)
    BY <1>1, BucketIsOne
  <2> QED BY <2>1 DEF Shape
<1>3. at = FirstWith(chain, k)
  BY DEF Located, FirstWith
<1> HIDE DEF chain, at
<1>4. /\ at \in 0..Len(chain)
      /\ at = 0 => \A i \in 1..Len(chain) : chain[i].key # k
      /\ at # 0 => chain[at].key = k
  <2> DEFINE n == FirstWith(chain, k)
  <2>1. chain \in Seq(Link)
    BY <1>2
  <2>2. /\ n \in 0..Len(chain)
        /\ n = 0 => \A i \in 1..Len(chain) : chain[i].key # k
        /\ n # 0 => chain[n].key = k
    BY <2>1, SelectIsFirst
  <2>3. at = n
    BY <1>3
  <2> HIDE DEF n
  <2> QED BY <2>2, <2>3
<1>5. at # 0 => at \in 1..Len(chain)
  BY <1>2, <1>4
<1> QED BY <1>2, <1>4, <1>5 DEF chain, at

\* What is found for a key is the value of its link.
LEMMA FoundIs ==
    ASSUME NEW t, Shape(t), Placed(t), NEW k \in Hashable
    PROVE  /\ \A l \in All(t) : l.key = k => Found(t, k) = l.value
           /\ (\A l \in All(t) : l.key # k) => Found(t, k) = NULL
           /\ Located(t, k) # 0 => \E l \in All(t) : l.key = k
           /\ Located(t, k) = 0 => Found(t, k) = NULL /\ \A l \in All(t) : l.key # k
<1> DEFINE b == BucketOf(t, k)
           chain == t.buckets[b]
           at == Located(t, k)
<1>1. /\ b \in Buckets(t) /\ chain \in Seq(Link) /\ at \in 0..Len(chain)
      /\ at = 0 => \A i \in 1..Len(chain) : chain[i].key # k
      /\ at # 0 => at \in 1..Len(chain) /\ chain[at].key = k
  BY LocatedIs
<1>2. Found(t, k) = IF at = 0 THEN NULL ELSE chain[at].value
  BY DEF Found
<1>3. ASSUME NEW l \in All(t), l.key = k
      PROVE  at # 0 /\ chain[at] = l
  <2>1. PICK c \in Buckets(t) : l \in ToSet(t.buckets[c])
    BY <1>3 DEF All
  <2>2. t.buckets[c] \in Seq(Link)
    BY <2>1 DEF Shape
  <2>3. PICK i \in 1..Len(t.buckets[c]) : l = t.buckets[c][i]
    <3>1. DOMAIN t.buckets[c] = 1..Len(t.buckets[c])
      BY <2>2
    <3> QED BY <2>1, <3>1 DEF ToSet
  <2>4. c = b /\ \A j \in 1..Len(t.buckets[c]) : t.buckets[c][j].key = k => j = i
    BY <1>3, <2>3 DEF Placed
  <2> HIDE DEF b, at
  <2> QED BY <1>1, <1>3, <2>3, <2>4
<1>4. at # 0 => chain[at] \in All(t) /\ chain[at].key = k
  <2> SUFFICES ASSUME at # 0 PROVE chain[at] \in All(t) /\ chain[at].key = k
    OBVIOUS
  <2>1. at \in DOMAIN chain /\ chain[at].key = k
    BY <1>1
  <2>2. chain[at] \in ToSet(chain)
    <3> HIDE DEF chain, at
    <3> QED BY <2>1 DEF ToSet
  <2> QED BY <1>1, <2>1, <2>2 DEF All
<1> HIDE DEF at, chain
<1>5. \A l \in All(t) : l.key = k => Found(t, k) = l.value
  BY <1>2, <1>3
<1>6. (\A l \in All(t) : l.key # k) => Found(t, k) = NULL
  BY <1>2, <1>4
<1>7. Located(t, k) # 0 => \E l \in All(t) : l.key = k
  BY <1>4 DEF at
<1>8. Located(t, k) = 0 => Found(t, k) = NULL /\ \A l \in All(t) : l.key # k
  BY <1>2, <1>3 DEF at
<1> QED BY <1>5, <1>6, <1>7, <1>8

\* The loops over a table meet each of its links.
LEMMA LinksAreAll ==
    ASSUME NEW t, Shape(t)
    PROVE  /\ Links(t) \in Seq(Link) /\ ToSet(Links(t)) = All(t) /\ All(t) \subseteq Link
           /\ \A i \in 1..Len(Links(t)) : Links(t)[i] \in All(t)
           /\ [i \in 1..t.nBuckets |-> t.buckets[i - 1]] \in Seq(Seq(Link))
<1> DEFINE parts == [i \in 1..t.nBuckets |-> t.buckets[i - 1]]
           N == t.nBuckets
<1>1. N \in Nat /\ \A i \in 1..N : i - 1 \in Buckets(t) /\ t.buckets[i - 1] \in Seq(Link)
  <2>1. N \in Nat /\ \A i \in 1..N : i - 1 \in Buckets(t)
    BY DEF Shape, Buckets
  <2> QED BY <2>1 DEF Shape
<1>2. parts \in Seq(Seq(Link)) /\ Len(parts) = N /\ \A i \in 1..N : parts[i] = t.buckets[i - 1]
  <2> HIDE DEF N
  <2>1. parts = [i \in 1..N |-> t.buckets[i - 1]]
    BY DEF N
  <2> HIDE DEF parts
  <2> QED BY <1>1, <2>1
<1>3. Links(t) = FlattenSeq(parts)
  BY DEF Links
<1> HIDE DEF parts
<1>4. ToSet(Links(t)) = UNION {ToSet(parts[b]) : b \in 1..N}
  BY <1>2, <1>3, FlattenToSet
<1>5. Links(t) \in Seq(Link)
  BY <1>2, <1>3, FlattenAppend
<1>6. UNION {ToSet(parts[b]) : b \in 1..N} = All(t)
  <2>1. \A b \in Buckets(t) : b + 1 \in 1..N /\ parts[b + 1] = t.buckets[b]
    <3>1. \A b \in Buckets(t) : b + 1 \in 1..N /\ (b + 1) - 1 = b
      BY <1>1 DEF Buckets
    <3> QED BY <1>2, <3>1
  <2>2. \A i \in 1..N : i - 1 \in Buckets(t) /\ parts[i] = t.buckets[i - 1]
    BY <1>1, <1>2
  <2> QED BY <2>1, <2>2 DEF All
<1>7. DOMAIN Links(t) = 1..Len(Links(t)) /\ \A i \in 1..Len(Links(t)) : Links(t)[i] \in Link
  <2> DEFINE l == Links(t)
  <2>1. l \in Seq(Link)
    BY <1>5
  <2> HIDE DEF l
  <2>2. DOMAIN l = 1..Len(l) /\ \A i \in 1..Len(l) : l[i] \in Link
    BY <2>1
  <2> QED BY <2>2 DEF l
<1>8. ToSet(Links(t)) \subseteq Link /\ \A i \in 1..Len(Links(t)) : Links(t)[i] \in ToSet(Links(t))
  BY <1>7 DEF ToSet
<1> QED BY <1>2, <1>4, <1>5, <1>6, <1>8 DEF parts

\* A table that has another chain in one of its buckets.
Rechained(t, u, b, w) ==
    /\ Shape(u) /\ u.nBuckets = t.nBuckets /\ u.loadingFactor = t.loadingFactor
    /\ \A c \in Buckets(t) : u.buckets[c] = IF c = b THEN w ELSE t.buckets[c]

\* A table with another chain and count.
WithChain(t, b, w, n) == [t EXCEPT !.buckets[b] = w, !.count = n]

\* Another chain in a bucket leaves a table what it is.
LEMMA ReplacedChain ==
    ASSUME NEW t, Shape(t), NEW b \in Buckets(t), NEW w \in Seq(Link), NEW n \in Nat
    PROVE  Rechained(t, WithChain(t, b, w, n), b, w) /\ WithChain(t, b, w, n).count = n
<1> DEFINE u == [t EXCEPT !.buckets[b] = w, !.count = n]
           bs == [t.buckets EXCEPT ![b] = w]
<1>1. t \in Tables /\ t.nBuckets \in Nat /\ t.buckets \in [Buckets(t) -> Seq(Link)]
  BY DEF Shape
<1>2. /\ bs \in [Buckets(t) -> Seq(Link)]
      /\ \A c \in Buckets(t) : bs[c] = IF c = b THEN w ELSE t.buckets[c]
  BY <1>1
<1>3. bs \in BucketArrays
  BY <1>1, <1>2 DEF BucketArrays, Buckets
<1>4. /\ u.buckets = bs /\ u.nBuckets = t.nBuckets /\ u.count = n
      /\ u.loadingFactor = t.loadingFactor
  BY <1>1 DEF Tables
<1> HIDE DEF bs
<1>5. u \in Tables
  <2>1. u = [[t EXCEPT !.buckets = bs] EXCEPT !.count = n]
    BY <1>1 DEF Tables, bs
  <2>2. [t EXCEPT !.buckets = bs] \in Tables
    BY <1>1, <1>3 DEF Tables
  <2> DEFINE v == [t EXCEPT !.buckets = bs]
  <2> HIDE DEF v
  <2>3. [v EXCEPT !.count = n] \in Tables
    BY <2>2 DEF Tables, v
  <2> QED BY <2>1, <2>3 DEF v
<1> HIDE DEF u
<1>6. Shape(u)
  BY <1>2, <1>4, <1>5 DEF Shape, Buckets
<1>7. Rechained(t, u, b, w) /\ u.count = n
  BY <1>2, <1>4, <1>6 DEF Rechained
<1> QED BY <1>7 DEF u, WithChain

\* The links become as many more as the chain has.
LEMMA RechainedLinks ==
    ASSUME NEW t, Shape(t), NEW b \in Buckets(t), NEW w \in Seq(Link), NEW u, Rechained(t, u, b, w)
    PROVE  Len(Links(u)) - Len(Links(t)) = Len(w) - Len(t.buckets[b])
<1> DEFINE N == t.nBuckets
           parts == [i \in 1..N |-> t.buckets[i - 1]]
           new == [i \in 1..N |-> u.buckets[i - 1]]
<1>1. /\ N \in Nat /\ u.nBuckets = N /\ Shape(u)
      /\ \A i \in 1..N : i - 1 \in Buckets(t)
      /\ b \in Nat /\ b + 1 \in 1..N
  <2>1. N \in Nat /\ u.nBuckets = N /\ Shape(u)
    BY DEF Rechained, Shape
  <2>2. b \in 0..N - 1 /\ Buckets(t) = 0..N - 1
    BY DEF Buckets
  <2> HIDE DEF N
  <2> QED BY <2>1, <2>2
<1>2. Links(t) = FlattenSeq(parts) /\ Links(u) = FlattenSeq(new)
  BY <1>1 DEF Links
<1>3. parts \in Seq(Seq(Link)) /\ new \in Seq(Seq(Link))
  BY <1>1, LinksAreAll
<1>4. /\ Len(parts) = N /\ Len(new) = N
      /\ \A i \in 1..N : parts[i] = t.buckets[i - 1] /\ new[i] = u.buckets[i - 1]
  BY <1>1
<1>5. \A m \in 1..N : m # b + 1 => new[m] = parts[m]
  <2> SUFFICES ASSUME NEW m \in 1..N, m # b + 1 PROVE new[m] = parts[m]
    OBVIOUS
  <2>1. m - 1 \in Buckets(t) /\ m - 1 # b
    BY <1>1
  <2>2. u.buckets[m - 1] = t.buckets[m - 1]
    BY <2>1 DEF Rechained
  <2> HIDE DEF N, parts, new
  <2> QED BY <1>4, <2>2
<1>6. new[b + 1] = w /\ parts[b + 1] = t.buckets[b]
  <2>1. (b + 1) - 1 = b /\ u.buckets[b] = w
    BY <1>1 DEF Rechained
  <2> HIDE DEF N, parts, new
  <2> QED BY <1>1, <1>4, <2>1
<1> HIDE DEF N, parts, new
<1>7. Len(FlattenSeq(new)) - Len(FlattenSeq(parts)) = Len(new[b + 1]) - Len(parts[b + 1])
  <2>1. /\ Len(new) = Len(parts) /\ b + 1 \in 1..Len(parts)
        /\ \A m \in 1..Len(parts) : m # b + 1 => new[m] = parts[m]
    BY <1>1, <1>4, <1>5
  <2> QED BY <1>3, <2>1, FlattenLength
<1> QED BY <1>2, <1>6, <1>7

\* The links outside the bucket stay.
LEMMA RechainedAll ==
    ASSUME NEW t, Shape(t), NEW b \in Buckets(t), NEW w, NEW u, Rechained(t, u, b, w)
    PROVE  All(u) = (UNION {ToSet(t.buckets[c]) : c \in Buckets(t) \ {b}}) \cup ToSet(w)
<1>1. Buckets(u) = Buckets(t)
  BY DEF Rechained, Buckets
<1>2. u.buckets[b] = w /\ \A c \in Buckets(t) \ {b} : u.buckets[c] = t.buckets[c]
  BY DEF Rechained
<1> QED BY <1>1, <1>2 DEF All

\* If the links of the chain belong there, all are still placed.
LEMMA RechainedPlaced ==
    ASSUME NEW t, Shape(t), Placed(t), NEW b \in Buckets(t), NEW w, NEW u, Rechained(t, u, b, w),
           \A i \in 1..Len(w) :
              /\ b = BucketOf(t, w[i].key)
              /\ w[i].key \in Hashable => \A j \in 1..Len(w) : w[j].key = w[i].key => j = i
    PROVE  Placed(u)
<1>1. Buckets(u) = Buckets(t) /\ \A k : BucketOf(u, k) = BucketOf(t, k)
  BY DEF Rechained, Buckets, BucketOf
<1>2. \A c \in Buckets(t) : u.buckets[c] = IF c = b THEN w ELSE t.buckets[c]
  BY DEF Rechained
<1>3. ASSUME NEW c \in Buckets(t), NEW i \in 1..Len(u.buckets[c])
      PROVE  /\ c = BucketOf(t, u.buckets[c][i].key)
             /\ u.buckets[c][i].key \in Hashable =>
                   \A j \in 1..Len(u.buckets[c]) :
                      u.buckets[c][j].key = u.buckets[c][i].key => j = i
  <2>1. CASE c = b
    <3>1. u.buckets[c] = w
      BY <1>2, <2>1
    <3> QED BY <2>1, <3>1
  <2>2. CASE c # b
    <3>1. u.buckets[c] = t.buckets[c]
      BY <1>2, <2>2
    <3> QED BY <3>1 DEF Placed
  <2> QED BY <2>1, <2>2
<1> QED BY <1>1, <1>3 DEF Placed

\* Of the links of a table after another has been put.
Gains(t, u, l) ==
    /\ l \in All(u)
    /\ \A x \in All(u) : x = l \/ x \in All(t)
    /\ \A x \in All(t) : x.key # l.key => x \in All(u)

\* A table that gained a link finds its value for its key, and for others what it found.
LEMMA FoundAfterGain ==
    ASSUME NEW t, Shape(t), Placed(t), NEW u, Shape(u), Placed(u), NEW l, Gains(t, u, l),
           NEW k \in Hashable
    PROVE  Found(u, k) = IF k = l.key THEN l.value ELSE Found(t, k)
<1>1. CASE k = l.key
  BY <1>1, FoundIs DEF Gains
<1>2. CASE k # l.key
  <2>1. CASE \E x \in All(t) : x.key = k
    <3>1. PICK x \in All(t) : x.key = k
      BY <2>1
    <3>2. x \in All(u)
      BY <1>2, <3>1 DEF Gains
    <3> QED BY <1>2, <3>1, <3>2, FoundIs
  <2>2. CASE \A x \in All(t) : x.key # k
    <3>1. \A x \in All(u) : x.key # k
      BY <1>2, <2>2 DEF Gains
    <3>2. Found(u, k) = NULL /\ Found(t, k) = NULL
      BY <2>2, <3>1, FoundIs
    <3> QED BY <1>2, <3>2
  <2> QED BY <2>1, <2>2
<1> QED BY <1>1, <1>2

\* The links of a table can be counted.
LEMMA LinksLength ==
    ASSUME NEW t, Shape(t)
    PROVE  Len(Links(t)) \in Nat
<1> DEFINE q == Links(t)
<1>1. q \in Seq(Link)
  BY LinksAreAll
<1> HIDE DEF q
<1>2. Len(q) \in Nat
  BY <1>1
<1> QED BY <1>2 DEF q

\* A new link is put in front of the chain of its bucket.
LEMMA PutInFront ==
    ASSUME NEW t, TableOK(t), NEW l \in Link, Located(t, l.key) = 0
    PROVE  LET u == Updated(t, l)
           IN  /\ TableOK(u) /\ Gains(t, u, l)
               /\ u.nBuckets = t.nBuckets /\ u.loadingFactor = t.loadingFactor
               /\ u.count = t.count + 1
<1> DEFINE b == BucketOf(t, l.key)
           chain == t.buckets[b]
           one == <<l>>
           w == one \o chain
           n == t.count + 1
           u == Updated(t, l)
<1>1. Shape(t) /\ Placed(t) /\ Len(Links(t)) <= t.count /\ t.count \in Nat
  BY DEF TableOK, Shape
<1>2. b \in Buckets(t) /\ chain \in Seq(Link)
  <2>1. b \in Buckets(t)
    BY <1>1, BucketIsOne DEF Link
  <2> QED BY <1>1, <2>1 DEF Shape
<1>3. u = [t EXCEPT !.buckets[b] = w, !.count = n]
  <2>1. u = [t EXCEPT !.buckets[b] = <<l>> \o @, !.count = @ + 1]
    BY DEF Updated
  <2> QED BY <2>1
<1>4. one \in Seq(Link) /\ Len(one) = 1 /\ one[1] = l /\ ToSet(one) = {l}
  BY DEF ToSet
<1>11. \A i \in 1..Len(chain) :
          /\ b = BucketOf(t, chain[i].key)
          /\ chain[i].key \in Hashable =>
                  \A j \in 1..Len(chain) : chain[j].key = chain[i].key => j = i
  BY <1>1, <1>2 DEF Placed
<1>12. l.key \in Hashable => \A i \in 1..Len(chain) : chain[i].key # l.key
  BY <1>1, LocatedIs
<1>13. b = BucketOf(t, l.key)
  OBVIOUS
<1> HIDE DEF one, u, chain, b
<1>5. /\ w \in Seq(Link) /\ Len(w) = 1 + Len(chain) /\ w[1] = l
      /\ \A i \in 1..Len(chain) : w[i + 1] = chain[i]
      /\ ToSet(w) = {l} \cup ToSet(chain)
  <2>1. /\ w \in Seq(Link) /\ Len(w) = Len(one) + Len(chain)
        /\ \A i \in 1..Len(one) + Len(chain) :
               w[i] = IF i <= Len(one) THEN one[i] ELSE chain[i - Len(one)]
    <3>1. one \in Seq(Link) /\ chain \in Seq(Link)
      BY <1>2, <1>4
    <3> QED BY <3>1, ConcatProperties
  <2>2. ToSet(w) = ToSet(one) \cup ToSet(chain)
    <3>1. one \in Seq(Link) /\ chain \in Seq(Link)
      BY <1>2, <1>4
    <3> QED BY <3>1, ToSetConcat
  <2> HIDE DEF w
  <2>3. Len(chain) \in Nat
    BY <1>2
  <2>4. /\ 1 \in 1..1 + Len(chain)
        /\ \A i \in 1..Len(chain) : i + 1 \in 1..1 + Len(chain) /\ ~ (i + 1 <= 1) /\ (i + 1) - 1 = i
    BY <2>3
  <2> QED BY <1>4, <2>1, <2>2, <2>4
<1> HIDE DEF w
<1>6. Rechained(t, u, b, w) /\ u.count = n
  <2>1. Shape(t) /\ b \in Buckets(t) /\ w \in Seq(Link) /\ n \in Nat
    BY <1>1, <1>2, <1>5
  <2> HIDE DEF n
  <2> DEFINE v == WithChain(t, b, w, n)
  <2>2. Rechained(t, v, b, w) /\ v.count = n
    BY <2>1, ReplacedChain
  <2>3. u = v
    BY <1>3 DEF WithChain
  <2> HIDE DEF v
  <2> QED BY <2>2, <2>3
<1>7. Placed(u)
  <2>1. ASSUME NEW i \in 1..Len(w)
        PROVE  /\ b = BucketOf(t, w[i].key)
               /\ w[i].key \in Hashable => \A j \in 1..Len(w) : w[j].key = w[i].key => j = i
    <3>0. Len(chain) \in Nat
      BY <1>2
    <3>1. \A j \in 1..Len(w) : j # 1 => j - 1 \in 1..Len(chain) /\ w[j] = chain[j - 1]
      <4>1. \A j \in 1..Len(w) : j # 1 => j - 1 \in 1..Len(chain) /\ (j - 1) + 1 = j
        BY <1>5, <3>0
      <4> QED BY <1>5, <4>1
    <3>2. CASE i = 1
      <4>1. w[i] = l
        BY <1>5, <3>2
      <4> QED BY <1>12, <1>13, <3>1, <3>2, <4>1
    <3>3. CASE i # 1
      <4>1. i - 1 \in 1..Len(chain) /\ w[i] = chain[i - 1]
        BY <3>1, <3>3
      <4>2. b = BucketOf(t, w[i].key)
        BY <1>11, <4>1
      <4>3. ASSUME w[i].key \in Hashable, NEW j \in 1..Len(w), w[j].key = w[i].key
            PROVE  j = i
        <5>1. j # 1
          BY <1>5, <1>12, <4>1, <4>3
        <5>2. j - 1 \in 1..Len(chain) /\ w[j] = chain[j - 1]
          BY <3>1, <5>1
        <5>3. j - 1 = i - 1
          BY <1>11, <4>1, <4>3, <5>2
        <5> QED BY <1>5, <3>0, <5>3
      <4> QED BY <4>2, <4>3
    <3> QED BY <3>2, <3>3
  <2> QED BY <1>1, <1>2, <1>6, <2>1, RechainedPlaced
<1>8. Len(Links(u)) <= u.count
  <2>1. Len(Links(u)) - Len(Links(t)) = Len(w) - Len(t.buckets[b])
    BY <1>1, <1>2, <1>5, <1>6, RechainedLinks
  <2>2. Len(w) - Len(t.buckets[b]) = 1
    <3>1. t.buckets[b] = chain /\ Len(chain) \in Nat
      BY <1>2 DEF chain
    <3> QED BY <1>5, <3>1
  <2>3. Len(Links(u)) \in Nat /\ Len(Links(t)) \in Nat
    BY <1>1, <1>6, LinksLength DEF Rechained
  <2> QED BY <1>1, <1>6, <2>1, <2>2, <2>3
<1>9. Gains(t, u, l)
  <2>1. All(u) = (UNION {ToSet(t.buckets[c]) : c \in Buckets(t) \ {b}}) \cup ToSet(w)
    BY <1>1, <1>2, <1>6, RechainedAll
  <2>2. All(t) = (UNION {ToSet(t.buckets[c]) : c \in Buckets(t) \ {b}}) \cup ToSet(chain)
    BY <1>2 DEF All, chain
  <2> QED BY <1>5, <2>1, <2>2 DEF Gains
<1>10. TableOK(u)
  BY <1>6, <1>7, <1>8 DEF TableOK, Rechained
<1> QED BY <1>6, <1>9, <1>10 DEF Rechained, u

\* The value of a link that is there is replaced.
LEMMA PutInPlace ==
    ASSUME NEW t, TableOK(t), NEW l \in Link, Located(t, l.key) # 0
    PROVE  LET u == Updated(t, l)
           IN  /\ TableOK(u) /\ Gains(t, u, l)
               /\ u.nBuckets = t.nBuckets /\ u.loadingFactor = t.loadingFactor
               /\ u.count = t.count
<1> DEFINE b == BucketOf(t, l.key)
           at == Located(t, l.key)
           chain == t.buckets[b]
           w == [chain EXCEPT ![at].value = l.value]
           n == t.count
           u == Updated(t, l)
<1>1. Shape(t) /\ Placed(t) /\ Len(Links(t)) <= t.count /\ t.count \in Nat
  BY DEF TableOK, Shape
<1>2. l.key \in Hashable
  BY DEF Located
<1>3. b \in Buckets(t) /\ chain \in Seq(Link) /\ at \in 1..Len(chain) /\ chain[at].key = l.key
  BY <1>1, <1>2, LocatedIs
<1>4. u = [t EXCEPT !.buckets[b] = w, !.count = n]
  <2>1. u = [t EXCEPT !.buckets[b][at].value = l.value]
    BY DEF Updated
  <2>2. t \in Tables /\ t.buckets \in [Buckets(t) -> Seq(Link)]
    BY <1>1 DEF Shape
  <2>3. [t EXCEPT !.buckets[b][at].value = l.value] = [t EXCEPT !.buckets[b] = w]
    OBVIOUS
  <2>4. [t EXCEPT !.buckets[b] = w] = [t EXCEPT !.buckets[b] = w, !.count = n]
    BY <2>2 DEF Tables
  <2> QED BY <2>1, <2>3, <2>4
<1>11. \A i \in 1..Len(chain) :
          /\ b = BucketOf(t, chain[i].key)
          /\ chain[i].key \in Hashable =>
                  \A j \in 1..Len(chain) : chain[j].key = chain[i].key => j = i
  BY <1>1, <1>3 DEF Placed
<1> HIDE DEF u, chain, b, at
<1>5. /\ w \in Seq(Link) /\ Len(w) = Len(chain) /\ w[at] = l
      /\ \A i \in 1..Len(chain) : i # at => w[i] = chain[i]
  <2> DEFINE x == [chain[at] EXCEPT !.value = l.value]
  <2>1. chain[at] \in Link
    BY <1>3
  <2>2. x \in Link /\ x = l
    BY <1>3, <2>1 DEF Link
  <2>3. w = [chain EXCEPT ![at] = x]
    OBVIOUS
  <2> HIDE DEF x, w
  <2>4. /\ [chain EXCEPT ![at] = x] \in Seq(Link) /\ Len([chain EXCEPT ![at] = x]) = Len(chain)
        /\ \A i \in 1..Len(chain) : [chain EXCEPT ![at] = x][i] = IF i = at THEN x ELSE chain[i]
    BY <1>3, <2>2, ExceptSeq
  <2> QED BY <1>3, <2>2, <2>3, <2>4
<1> HIDE DEF w
<1>6. Rechained(t, u, b, w) /\ u.count = n
  <2>1. Shape(t) /\ b \in Buckets(t) /\ w \in Seq(Link) /\ n \in Nat
    BY <1>1, <1>3, <1>5
  <2> HIDE DEF n
  <2> DEFINE v == WithChain(t, b, w, n)
  <2>2. Rechained(t, v, b, w) /\ v.count = n
    BY <2>1, ReplacedChain
  <2>3. u = v
    BY <1>4 DEF WithChain
  <2> HIDE DEF v
  <2> QED BY <2>2, <2>3
<1>7. Placed(u)
  <2>1. \A i \in 1..Len(w) : w[i].key = chain[i].key
    BY <1>3, <1>5
  <2>2. ASSUME NEW i \in 1..Len(w)
        PROVE  /\ b = BucketOf(t, w[i].key)
               /\ w[i].key \in Hashable => \A j \in 1..Len(w) : w[j].key = w[i].key => j = i
    BY <1>5, <1>11, <2>1
  <2> QED BY <1>1, <1>3, <1>6, <2>2, RechainedPlaced
<1>8. Len(Links(u)) <= u.count
  <2>1. Len(Links(u)) - Len(Links(t)) = Len(w) - Len(t.buckets[b])
    BY <1>1, <1>3, <1>5, <1>6, RechainedLinks
  <2>2. Len(w) - Len(t.buckets[b]) = 0
    <3>1. t.buckets[b] = chain /\ Len(chain) \in Nat
      BY <1>3 DEF chain
    <3> QED BY <1>5, <3>1
  <2>3. Len(Links(u)) \in Nat /\ Len(Links(t)) \in Nat
    BY <1>1, <1>6, LinksLength DEF Rechained
  <2> QED BY <1>1, <1>6, <2>1, <2>2, <2>3
<1>9. Gains(t, u, l)
  <2>1. All(u) = (UNION {ToSet(t.buckets[c]) : c \in Buckets(t) \ {b}}) \cup ToSet(w)
    BY <1>1, <1>3, <1>6, RechainedAll
  <2>2. All(t) = (UNION {ToSet(t.buckets[c]) : c \in Buckets(t) \ {b}}) \cup ToSet(chain)
    BY <1>3 DEF All, chain
  <2>3. DOMAIN w = 1..Len(chain) /\ DOMAIN chain = 1..Len(chain)
    BY <1>3, <1>5
  <2>4. l \in ToSet(w) /\ \A x \in ToSet(w) : x = l \/ x \in ToSet(chain)
    BY <1>3, <1>5, <2>3 DEF ToSet
  <2>5. \A x \in ToSet(chain) : x.key # l.key => x \in ToSet(w)
    BY <1>3, <1>5, <2>3 DEF ToSet
  <2> QED BY <2>1, <2>2, <2>4, <2>5 DEF Gains
<1>10. TableOK(u)
  BY <1>6, <1>7, <1>8 DEF TableOK, Rechained
<1> QED BY <1>6, <1>9, <1>10 DEF Rechained, u

-----------------------------------------------------------------------------
(* put, resize, copy and remove. *)

\* put into a table that need not grow.
LEMMA UpdatedIs ==
    ASSUME NEW t, TableOK(t), NEW l \in Link
    PROVE  LET u == Updated(t, l)
           IN  /\ TableOK(u) /\ u.nBuckets = t.nBuckets /\ u.loadingFactor = t.loadingFactor
               /\ u.count = IF Located(t, l.key) = 0 THEN t.count + 1 ELSE t.count
               /\ \A k \in Hashable : Found(u, k) = IF k = l.key THEN l.value ELSE Found(t, k)
<1> DEFINE u == Updated(t, l)
<1>1. /\ TableOK(u) /\ u.nBuckets = t.nBuckets /\ u.loadingFactor = t.loadingFactor
      /\ u.count = IF Located(t, l.key) = 0 THEN t.count + 1 ELSE t.count
      /\ Gains(t, u, l)
  BY PutInFront, PutInPlace
<1> HIDE DEF u
<1>2. \A k \in Hashable : Found(u, k) = IF k = l.key THEN l.value ELSE Found(t, k)
  BY <1>1, FoundAfterGain DEF TableOK
<1> QED BY <1>1, <1>2 DEF u

\* A new table has no links, and room for one.
LEMMA NewTableIs ==
    ASSUME NEW n \in Nat, n >= 4
    PROVE  LET t == NewTable(n)
           IN  /\ TableOK(t) /\ t.nBuckets = n /\ t.count = 0
               /\ t.loadingFactor = n \div 2 + n \div 4 /\ t.loadingFactor > 0
               /\ \A k \in Hashable : Found(t, k) = NULL
<1> DEFINE t == NewTable(n)
           bs == [b \in 0..n - 1 |-> <<>>]
<1>1. /\ t.nBuckets = n /\ t.count = 0 /\ t.buckets = bs
      /\ t.loadingFactor = n \div 2 + n \div 4
  BY DEF NewTable
<1>2. bs \in [0..n - 1 -> Seq(Link)] /\ \A b \in 0..n - 1 : bs[b] = <<>>
  OBVIOUS
<1>3. n \div 2 + n \div 4 \in Nat /\ n \div 2 + n \div 4 > 0
  OBVIOUS
<1>4. t \in Tables
  <2>1. bs \in BucketArrays
    BY <1>2 DEF BucketArrays
  <2> QED BY <1>3, <2>1 DEF NewTable, Tables
<1> HIDE DEF t, bs
<1>5. Shape(t)
  BY <1>1, <1>2, <1>4 DEF Shape, Buckets
<1>6. \A b \in Buckets(t) : t.buckets[b] = <<>>
  BY <1>1, <1>2 DEF Buckets
<1>7. Placed(t)
  BY <1>6 DEF Placed
<1>8. All(t) = {}
  <2>1. \A b \in Buckets(t) : ToSet(t.buckets[b]) = {}
    BY <1>6 DEF ToSet
  <2> QED BY <2>1 DEF All
<1>9. Len(Links(t)) = 0
  <2>1. \A i \in 1..Len(Links(t)) : FALSE
    BY <1>5, <1>8, LinksAreAll
  <2>2. Len(Links(t)) \in Nat
    BY <1>5, LinksLength
  <2> HIDE DEF t
  <2>3. Len(Links(t)) # 0 => 1 \in 1..Len(Links(t))
    BY <2>2
  <2> QED BY <2>1, <2>3
<1>10. TableOK(t)
  BY <1>1, <1>5, <1>7, <1>9 DEF TableOK
<1>11. \A k \in Hashable : Found(t, k) = NULL
  BY <1>5, <1>7, <1>8, FoundIs
<1> QED BY <1>1, <1>3, <1>10, <1>11 DEF t

-----------------------------------------------------------------------------
\* What a table holds after the first m links of another were put into it.
FoundUpTo(t, s, m, u) ==
    \A k \in Hashable :
        Found(u, k) = IF \E i \in 1..m : s[i].key = k THEN Found(t, k) ELSE NULL

\* One more link has been put: what is found for its key is what the table finds.
LEMMA FoundUpToNext ==
    ASSUME NEW t, TableOK(t), NEW m \in 1..Len(Links(t)), NEW u, FoundUpTo(t, Links(t), m - 1, u),
           NEW v, \A k \in Hashable : Found(v, k) = IF k = Links(t)[m].key THEN Links(t)[m].value
                                                   ELSE Found(u, k)
    PROVE  FoundUpTo(t, Links(t), m, v)
<1> DEFINE s == Links(t)
<1>1. Shape(t) /\ Placed(t) /\ s[m] \in All(t)
  BY LinksAreAll DEF TableOK
<1>2. m \in Nat /\ 1..m = (1..m - 1) \cup {m}
  BY <1>1, LinksLength
<1> HIDE DEF s
<1>3. ASSUME NEW k \in Hashable
      PROVE  Found(v, k) = IF \E i \in 1..m : s[i].key = k THEN Found(t, k) ELSE NULL
  <2>1. CASE k = s[m].key
    <3>1. Found(v, k) = s[m].value
      BY <2>1 DEF s
    <3>2. Found(t, k) = s[m].value
      BY <1>1, <2>1, FoundIs
    <3> QED BY <1>2, <2>1, <3>1, <3>2
  <2>2. CASE k # s[m].key
    <3>1. Found(v, k) = Found(u, k)
      BY <2>2 DEF s
    <3>2. Found(u, k) = IF \E i \in 1..m - 1 : s[i].key = k THEN Found(t, k) ELSE NULL
      BY DEF FoundUpTo, s
    <3>3. (\E i \in 1..m : s[i].key = k) <=> (\E i \in 1..m - 1 : s[i].key = k)
      BY <1>2, <2>2
    <3> QED BY <3>1, <3>2, <3>3
  <2> QED BY <2>1, <2>2
<1> QED BY <1>3 DEF FoundUpTo, s

\* When all links have been put, the same is found for each key.
LEMMA FoundUpToAll ==
    ASSUME NEW t, TableOK(t), NEW u, FoundUpTo(t, Links(t), Len(Links(t)), u)
    PROVE  \A k \in Hashable : Found(u, k) = Found(t, k)
<1> DEFINE s == Links(t)
<1>1. Shape(t) /\ Placed(t) /\ s \in Seq(Link) /\ ToSet(s) = All(t)
  BY LinksAreAll DEF TableOK
<1>2. DOMAIN s = 1..Len(s)
  <2>1. s \in Seq(Link)
    BY <1>1
  <2> HIDE DEF s
  <2> QED BY <2>1
<1> HIDE DEF s
<1>3. ASSUME NEW k \in Hashable, ~ \E i \in 1..Len(s) : s[i].key = k
      PROVE  Found(t, k) = NULL
  <2>1. \A l \in All(t) : l.key # k
    BY <1>1, <1>2, <1>3 DEF ToSet
  <2> QED BY <1>1, <2>1, FoundIs
<1> QED BY <1>3 DEF FoundUpTo, s

\* A table that grows has room for its links and one more, and finds what it found.
LEMMA ResizedIs ==
    ASSUME NEW t, TableOK(t), t.count <= t.loadingFactor
    PROVE  LET r == Resized(t)
           IN  /\ TableOK(r) /\ r.count < r.loadingFactor
               /\ \A k \in Hashable : Found(r, k) = Found(t, k)
<1> DEFINE s == Links(t)
           G == Grown(t)
           n == t.nBuckets
           more == n + n \div 2
<1>1. /\ Shape(t) /\ s \in Seq(Link) /\ Len(s) \in Nat /\ Len(s) <= t.count /\ t.count \in Nat
      /\ \A i \in 1..Len(s) : s[i] \in Link
      /\ n \in Nat /\ n >= 4 /\ t.loadingFactor = n \div 2 + n \div 4
  BY LinksAreAll, LinksLength DEF TableOK, Shape
<1>2. more \in Nat /\ more >= 4 /\ n \div 2 + n \div 4 < more \div 2 + more \div 4
  <2>1. n \in Nat /\ n >= 4
    BY <1>1
  <2> HIDE DEF n
  <2>2. more \in Nat /\ more >= n + 2
    BY <2>1
  <2> HIDE DEF more
  <2>3. more \div 2 >= n \div 2 + 1 /\ more \div 4 >= n \div 4
    BY <2>1, <2>2
  <2> QED BY <2>1, <2>2, <2>3
<1>3. G = NewTable(more)
  BY DEF Grown
<1> HIDE DEF n, more, G
<1>4. /\ TableOK(G) /\ G.count = 0 /\ G.loadingFactor = more \div 2 + more \div 4
      /\ \A k \in Hashable : Found(G, k) = NULL
  BY <1>2, <1>3, NewTableIs
<1> HIDE DEF s
<1>5. PICK tabs : LoopTrace(FALSE, G, s, tabs) /\ FoldLeft(Updated, G, s) = tabs[Len(s)]
  BY <1>1, UpdatesTrace
<1>6. tabs[0] = G /\ \A m \in 1..Len(s) : tabs[m] = Updated(tabs[m - 1], s[m])
  BY <1>5 DEF LoopTrace, LoopStep
<1> DEFINE Holds(m) == /\ TableOK(tabs[m]) /\ tabs[m].loadingFactor = G.loadingFactor
                       /\ tabs[m].count \in Nat /\ tabs[m].count <= m
                       /\ FoundUpTo(t, s, m, tabs[m])
           Bad == {m \in 0..Len(s) : ~ Holds(m)}
<1>7. Holds(0)
  <2>1. FoundUpTo(t, s, 0, G)
    BY <1>4 DEF FoundUpTo
  <2> QED BY <1>4, <1>6, <2>1
<1>8. ASSUME NEW m \in 1..Len(s), Holds(m - 1) PROVE Holds(m)
  <2> DEFINE u == tabs[m - 1]
             v == tabs[m]
             l == s[m]
  <2>1. TableOK(u) /\ l \in Link /\ v = Updated(u, l)
    BY <1>1, <1>6, <1>8
  <2> HIDE DEF u, v, l
  <2>2. /\ TableOK(v) /\ v.loadingFactor = u.loadingFactor
        /\ v.count = IF Located(u, l.key) = 0 THEN u.count + 1 ELSE u.count
        /\ \A k \in Hashable : Found(v, k) = IF k = l.key THEN l.value ELSE Found(u, k)
    BY <2>1, UpdatedIs
  <2>3. FoundUpTo(t, s, m, v)
    <3>1. FoundUpTo(t, Links(t), m - 1, u) /\ m \in 1..Len(Links(t))
      BY <1>8 DEF u, s
    <3>2. \A k \in Hashable : Found(v, k) = IF k = Links(t)[m].key THEN Links(t)[m].value
                                            ELSE Found(u, k)
      BY <2>2 DEF l, s
    <3>3. FoundUpTo(t, Links(t), m, v)
      BY <3>1, <3>2, FoundUpToNext
    <3> QED BY <3>3 DEF s
  <2>4. v.count \in Nat /\ v.count <= m
    <3>1. u.count \in Nat /\ u.count <= m - 1 /\ m \in Nat
      BY <1>1, <1>8 DEF u
    <3> QED BY <2>2, <3>1
  <2>5. u.loadingFactor = G.loadingFactor
    BY <1>8 DEF u
  <2> QED BY <2>2, <2>3, <2>4, <2>5 DEF v
<1> HIDE DEF Holds
<1>9. Bad = {}
  <2> SUFFICES ASSUME Bad # {} PROVE FALSE
    OBVIOUS
  <2>1. PICK m \in Bad : \A k \in Bad : m <= k
    <3> HIDE DEF Bad
    <3>1. Bad \in SUBSET Nat
      BY <1>1 DEF Bad
    <3> QED BY <3>1, LeastNumber
  <2>2. m \in 0..Len(s) /\ ~ Holds(m)
    BY <2>1
  <2>3. m \in 1..Len(s) /\ m - 1 \in 0..Len(s) /\ m - 1 < m
    <3>1. m # 0
      BY <1>7, <2>2
    <3> QED BY <1>1, <2>2, <3>1
  <2>4. m - 1 \notin Bad
    <3> HIDE DEF Bad
    <3> QED BY <1>1, <2>1, <2>3
  <2> QED BY <1>8, <2>2, <2>3, <2>4
<1>10. Holds(Len(s))
  <2>1. Len(s) \in 0..Len(s)
    BY <1>1
  <2> QED BY <1>9, <2>1
<1> DEFINE r == tabs[Len(s)]
<1>11. TableOK(r) /\ r.count < r.loadingFactor
  <2>1. /\ TableOK(r) /\ r.loadingFactor = G.loadingFactor /\ r.count \in Nat /\ r.count <= Len(s)
    BY <1>10 DEF Holds
  <2>2. /\ r.count <= n \div 2 + n \div 4
        /\ n \div 2 + n \div 4 \in Nat /\ more \div 2 + more \div 4 \in Nat
    BY <1>1, <1>2, <2>1
  <2> HIDE DEF r
  <2> QED BY <1>2, <1>4, <2>1, <2>2
<1>12. \A k \in Hashable : Found(r, k) = Found(t, k)
  <2>1. FoundUpTo(t, Links(t), Len(Links(t)), r)
    BY <1>10 DEF Holds, s
  <2> HIDE DEF r
  <2> QED BY <2>1, FoundUpToAll
<1>13. Resized(t) = r
  BY <1>5 DEF Resized, s, G
<1> QED BY <1>11, <1>12, <1>13

\* put, which may resize first, leaves a table that is not overfull and finds the value.
LEMMA PuttingIs ==
    ASSUME NEW t, TableOK(t), t.count <= t.loadingFactor, NEW l \in Link
    PROVE  LET p == Putting(t, l)
           IN  /\ TableOK(p) /\ p.count <= p.loadingFactor
               /\ \A k \in Hashable : Found(p, k) = IF k = l.key THEN l.value ELSE Found(t, k)
<1> DEFINE p == Putting(t, l)
           r == Resized(t)
<1>0. t.count \in Nat /\ t.loadingFactor \in Nat
  BY DEF TableOK, Shape
<1>1. CASE Full(t, l.key)
  <2>1. p = Updated(r, l)
    BY <1>1 DEF Putting
  <2> HIDE DEF p, r
  <2>2. /\ TableOK(r) /\ r.count < r.loadingFactor
        /\ \A k \in Hashable : Found(r, k) = Found(t, k)
    BY ResizedIs DEF r
  <2>3. /\ TableOK(p) /\ p.loadingFactor = r.loadingFactor
        /\ p.count = IF Located(r, l.key) = 0 THEN r.count + 1 ELSE r.count
        /\ \A k \in Hashable : Found(p, k) = IF k = l.key THEN l.value ELSE Found(r, k)
    BY <2>1, <2>2, UpdatedIs
  <2>4. r.count \in Nat /\ r.loadingFactor \in Nat
    BY <2>2 DEF TableOK, Shape
  <2>5. p.count <= p.loadingFactor
    BY <2>2, <2>3, <2>4
  <2> QED BY <2>2, <2>3, <2>5 DEF p
<1>2. CASE ~ Full(t, l.key)
  <2>1. p = Updated(t, l)
    BY <1>2 DEF Putting
  <2> HIDE DEF p
  <2>2. /\ TableOK(p) /\ p.loadingFactor = t.loadingFactor
        /\ p.count = IF Located(t, l.key) = 0 THEN t.count + 1 ELSE t.count
        /\ \A k \in Hashable : Found(p, k) = IF k = l.key THEN l.value ELSE Found(t, k)
    BY <2>1, UpdatedIs
  <2>3. Located(t, l.key) = 0 => t.count # t.loadingFactor
    BY <1>2 DEF Full
  <2>4. p.count <= p.loadingFactor
    BY <1>0, <2>2, <2>3
  <2> QED BY <2>2, <2>4 DEF p
<1> QED BY <1>1, <1>2

\* A copy finds what the table finds, although its sizes may be others.
LEMMA CopiedIs ==
    ASSUME NEW t, TableOK(t)
    PROVE  LET c == Copied(t)
           IN  /\ TableOK(c) /\ c.count <= c.loadingFactor
               /\ \A k \in Hashable : Found(c, k) = Found(t, k)
<1> DEFINE s == Links(t)
           G == NewTable(InitialBuckets)
<1>1. /\ Shape(t) /\ s \in Seq(Link) /\ Len(s) \in Nat
      /\ \A i \in 1..Len(s) : s[i] \in Link
  BY LinksAreAll, LinksLength DEF TableOK, Shape
<1> HIDE DEF G
<1>4. /\ TableOK(G) /\ G.count <= G.loadingFactor
      /\ \A k \in Hashable : Found(G, k) = NULL
  <2>1. /\ TableOK(G) /\ G.count = 0 /\ G.loadingFactor > 0
        /\ \A k \in Hashable : Found(G, k) = NULL
        /\ G.loadingFactor = InitialBuckets \div 2 + InitialBuckets \div 4
    BY HashAssumption, NewTableIs DEF G
  <2>2. G.loadingFactor \in Nat
    BY HashAssumption, <2>1
  <2> QED BY <2>1, <2>2
<1> HIDE DEF s
<1>5. PICK tabs : LoopTrace(TRUE, G, s, tabs) /\ FoldLeft(Putting, G, s) = tabs[Len(s)]
  BY <1>1, PuttingsTrace
<1>6. tabs[0] = G /\ \A m \in 1..Len(s) : tabs[m] = Putting(tabs[m - 1], s[m])
  BY <1>5 DEF LoopTrace, LoopStep
<1> DEFINE Holds(m) == /\ TableOK(tabs[m]) /\ tabs[m].count <= tabs[m].loadingFactor
                       /\ FoundUpTo(t, s, m, tabs[m])
           Bad == {m \in 0..Len(s) : ~ Holds(m)}
<1>7. Holds(0)
  <2>1. FoundUpTo(t, s, 0, G)
    BY <1>4 DEF FoundUpTo
  <2> QED BY <1>4, <1>6, <2>1
<1>8. ASSUME NEW m \in 1..Len(s), Holds(m - 1) PROVE Holds(m)
  <2> DEFINE u == tabs[m - 1]
             v == tabs[m]
             l == s[m]
  <2>1. TableOK(u) /\ u.count <= u.loadingFactor /\ l \in Link /\ v = Putting(u, l)
    BY <1>1, <1>6, <1>8
  <2> HIDE DEF u, v, l
  <2>2. /\ TableOK(v) /\ v.count <= v.loadingFactor
        /\ \A k \in Hashable : Found(v, k) = IF k = l.key THEN l.value ELSE Found(u, k)
    BY <2>1, PuttingIs
  <2>3. FoundUpTo(t, s, m, v)
    <3>1. FoundUpTo(t, Links(t), m - 1, u) /\ m \in 1..Len(Links(t))
      BY <1>8 DEF u, s
    <3>2. \A k \in Hashable : Found(v, k) = IF k = Links(t)[m].key THEN Links(t)[m].value
                                            ELSE Found(u, k)
      BY <2>2 DEF l, s
    <3>3. FoundUpTo(t, Links(t), m, v)
      BY <3>1, <3>2, FoundUpToNext
    <3> QED BY <3>3 DEF s
  <2> QED BY <2>2, <2>3 DEF v
<1> HIDE DEF Holds
<1>9. Bad = {}
  <2> SUFFICES ASSUME Bad # {} PROVE FALSE
    OBVIOUS
  <2>1. PICK m \in Bad : \A k \in Bad : m <= k
    <3> HIDE DEF Bad
    <3>1. Bad \in SUBSET Nat
      BY <1>1 DEF Bad
    <3> QED BY <3>1, LeastNumber
  <2>2. m \in 0..Len(s) /\ ~ Holds(m)
    BY <2>1
  <2>3. m \in 1..Len(s) /\ m - 1 \in 0..Len(s) /\ m - 1 < m
    <3>1. m # 0
      BY <1>7, <2>2
    <3> QED BY <1>1, <2>2, <3>1
  <2>4. m - 1 \notin Bad
    <3> HIDE DEF Bad
    <3> QED BY <1>1, <2>1, <2>3
  <2> QED BY <1>8, <2>2, <2>3, <2>4
<1>10. Holds(Len(s))
  <2>1. Len(s) \in 0..Len(s)
    BY <1>1
  <2> QED BY <1>9, <2>1
<1> DEFINE c == tabs[Len(s)]
<1>11. TableOK(c) /\ c.count <= c.loadingFactor
  BY <1>10 DEF Holds
<1>12. \A k \in Hashable : Found(c, k) = Found(t, k)
  <2>1. FoundUpTo(t, Links(t), Len(Links(t)), c)
    BY <1>10 DEF Holds, s
  <2> HIDE DEF c
  <2> QED BY <2>1, FoundUpToAll
<1>13. Copied(t) = c
  BY <1>5 DEF Copied, s, G
<1> QED BY <1>11, <1>12, <1>13

\* A removal makes its key disappear, and others of the bucket at most with it.
LEMMA RemovedIs ==
    ASSUME NEW t, TableOK(t), NEW k \in Hashable, Located(t, k) # 0
    PROVE  LET r == Removed(t, k)
           IN  /\ TableOK(r) /\ r.loadingFactor = t.loadingFactor /\ r.count = t.count - 1
               /\ Found(r, k) = NULL
               /\ \A q \in Hashable : Found(r, q) = NULL \/ Found(r, q) = Found(t, q)
<1> DEFINE b == BucketOf(t, k)
           chain == t.buckets[b]
           at == Located(t, k)
           w == SubSeq(chain, at + 1, Len(chain))
           n == t.count - 1
           r == Removed(t, k)
<1>1. Shape(t) /\ Placed(t) /\ Len(Links(t)) <= t.count /\ t.count \in Nat
  BY DEF TableOK, Shape
<1>3. b \in Buckets(t) /\ chain \in Seq(Link) /\ at \in 1..Len(chain) /\ chain[at].key = k
  BY <1>1, LocatedIs
<1>4. r = WithChain(t, b, w, n)
  BY DEF Removed, WithChain
<1>11. \A i \in 1..Len(chain) :
          /\ b = BucketOf(t, chain[i].key)
          /\ chain[i].key \in Hashable =>
                  \A j \in 1..Len(chain) : chain[j].key = chain[i].key => j = i
  BY <1>1, <1>3 DEF Placed
<1>14. Len(chain) <= Len(Links(t))
  <2>1. chain \in Seq(Link) /\ <<>> \in Seq(Link) /\ b \in Buckets(t)
    BY <1>3
  <2> DEFINE e == <<>>
             z == WithChain(t, b, e, 0)
  <2>2. e \in Seq(Link) /\ Len(e) = 0
    OBVIOUS
  <2> HIDE DEF e, z, b, chain
  <2>3. Rechained(t, z, b, e)
    <3>1. Shape(t) /\ b \in Buckets(t) /\ e \in Seq(Link) /\ 0 \in Nat
      BY <1>1, <2>1, <2>2
    <3>2. Rechained(t, WithChain(t, b, e, 0), b, e)
      BY <3>1, ReplacedChain
    <3> QED BY <3>2 DEF z
  <2>4. Len(Links(z)) - Len(Links(t)) = Len(e) - Len(t.buckets[b])
    BY <1>1, <2>1, <2>2, <2>3, RechainedLinks
  <2>5. Len(Links(z)) \in Nat /\ Len(Links(t)) \in Nat
    BY <1>1, <2>3, LinksLength DEF Rechained
  <2>6. Len(chain) \in Nat /\ t.buckets[b] = chain
    BY <2>1 DEF chain
  <2> QED BY <2>2, <2>4, <2>5, <2>6
<1> HIDE DEF r, chain, b, at
<1>5. /\ w \in Seq(Link) /\ Len(w) = Len(chain) - at
      /\ \A i \in 1..Len(w) : at + i \in 1..Len(chain) /\ w[i] = chain[at + i]
  <2>0. Len(chain) \in Nat
    BY <1>3
  <2>1. CASE at = Len(chain)
    <3>1. w = <<>>
      <4>1. at + 1 > Len(chain)
        BY <2>0, <2>1
      <4> QED BY <1>3, <4>1, SubSeqEmpty
    <3> HIDE DEF w
    <3> QED BY <2>0, <2>1, <3>1
  <2>2. CASE at # Len(chain)
    <3>1. at + 1 \in 1..Len(chain) /\ Len(chain) \in at + 1..Len(chain) /\ at \in Nat
      BY <1>3, <2>0, <2>2
    <3>2. /\ w \in Seq(Link) /\ Len(w) = Len(chain) - (at + 1) + 1
          /\ \A i \in 1..Len(chain) - (at + 1) + 1 : w[i] = chain[(at + 1) + i - 1]
      BY <1>3, <3>1, SubSeqProperties
    <3> HIDE DEF w
    <3>3. Len(w) = Len(chain) - at
      BY <2>0, <3>1, <3>2
    <3>4. \A i \in 1..Len(w) : at + i \in 1..Len(chain) /\ (at + 1) + i - 1 = at + i
      BY <2>0, <3>1, <3>3
    <3> QED BY <3>2, <3>3, <3>4
  <2> QED BY <2>1, <2>2
<1> HIDE DEF w
<1>15. n \in Nat
  <2>1. at \in Nat /\ at >= 1 /\ Len(chain) \in Nat /\ at <= Len(chain)
    BY <1>3
  <2>2. Len(Links(t)) \in Nat
    BY <1>1, LinksLength
  <2> QED BY <1>1, <1>14, <2>1, <2>2
<1>6. Rechained(t, r, b, w) /\ r.count = n
  <2>1. Shape(t) /\ b \in Buckets(t) /\ w \in Seq(Link) /\ n \in Nat
    BY <1>1, <1>3, <1>5, <1>15
  <2> HIDE DEF n
  <2> DEFINE v == WithChain(t, b, w, n)
  <2>2. Rechained(t, v, b, w) /\ v.count = n
    BY <2>1, ReplacedChain
  <2>3. r = v
    BY <1>4
  <2> HIDE DEF v
  <2> QED BY <2>2, <2>3
<1>7. Placed(r)
  <2>1. ASSUME NEW i \in 1..Len(w)
        PROVE  /\ b = BucketOf(t, w[i].key)
               /\ w[i].key \in Hashable => \A j \in 1..Len(w) : w[j].key = w[i].key => j = i
    <3>1. at + i \in 1..Len(chain) /\ w[i] = chain[at + i]
      BY <1>5
    <3>2. ASSUME w[i].key \in Hashable, NEW j \in 1..Len(w), w[j].key = w[i].key
          PROVE  j = i
      <4>1. at + j \in 1..Len(chain) /\ w[j] = chain[at + j]
        BY <1>5
      <4>2. at + j = at + i
        BY <1>11, <3>1, <3>2, <4>1
      <4>3. at \in Nat /\ i \in Nat /\ j \in Nat
        BY <1>3
      <4> QED BY <4>2, <4>3
    <3> QED BY <1>11, <3>1, <3>2
  <2> QED BY <1>1, <1>3, <1>6, <2>1, RechainedPlaced
<1>8. Len(Links(r)) <= r.count
  <2>1. Len(Links(r)) - Len(Links(t)) = Len(w) - Len(t.buckets[b])
    BY <1>1, <1>3, <1>5, <1>6, RechainedLinks
  <2>2. Len(w) - Len(t.buckets[b]) <= -1 /\ Len(w) - Len(t.buckets[b]) \in Int
    <3>1. t.buckets[b] = chain /\ Len(chain) \in Nat /\ at \in Nat /\ at >= 1
      BY <1>3 DEF chain
    <3> QED BY <1>5, <3>1
  <2>3. Len(Links(r)) \in Nat /\ Len(Links(t)) \in Nat
    BY <1>1, <1>6, LinksLength DEF Rechained
  <2> QED BY <1>1, <1>6, <2>1, <2>2, <2>3
<1>9. (\A x \in All(r) : x \in All(t)) /\ (\A x \in All(r) : x.key # k)
  <2>1. All(r) = (UNION {ToSet(t.buckets[c]) : c \in Buckets(t) \ {b}}) \cup ToSet(w)
    BY <1>1, <1>3, <1>6, RechainedAll
  <2>2. All(t) = (UNION {ToSet(t.buckets[c]) : c \in Buckets(t) \ {b}}) \cup ToSet(chain)
    BY <1>3 DEF All, chain
  <2>3. DOMAIN w = 1..Len(w) /\ DOMAIN chain = 1..Len(chain)
    BY <1>3, <1>5
  <2>4. ASSUME NEW x \in ToSet(w) PROVE x \in ToSet(chain) /\ x.key # k
    <3>1. PICK i \in 1..Len(w) : x = w[i]
      BY <2>3 DEF ToSet
    <3>2. at + i \in 1..Len(chain) /\ x = chain[at + i]
      BY <1>5, <3>1
    <3>3. x.key # k
      <4> SUFFICES ASSUME x.key = k PROVE FALSE
        OBVIOUS
      <4>1. at + i = at
        BY <1>3, <1>11, <3>2
      <4>2. at \in Nat /\ i \in Nat /\ i >= 1
        BY <1>3
      <4> QED BY <4>1, <4>2
    <3> QED BY <2>3, <3>2, <3>3 DEF ToSet
  <2>5. ASSUME NEW c \in Buckets(t) \ {b}, NEW x \in ToSet(t.buckets[c]) PROVE x.key # k
    <3>1. t.buckets[c] \in Seq(Link)
      BY <1>1 DEF Shape
    <3>2. PICK i \in 1..Len(t.buckets[c]) : x = t.buckets[c][i]
      <4>1. DOMAIN t.buckets[c] = 1..Len(t.buckets[c])
        BY <3>1
      <4> QED BY <4>1 DEF ToSet
    <3>3. c = BucketOf(t, x.key)
      BY <1>1, <3>2 DEF Placed
    <3> QED BY <3>3 DEF b
  <2> QED BY <2>1, <2>2, <2>4, <2>5
<1>10. TableOK(r)
  BY <1>6, <1>7, <1>8 DEF TableOK, Rechained
<1>12. Found(r, k) = NULL
  BY <1>9, <1>10, FoundIs DEF TableOK
<1>13. ASSUME NEW q \in Hashable PROVE Found(r, q) = NULL \/ Found(r, q) = Found(t, q)
  <2>1. CASE \E x \in All(r) : x.key = q
    <3>1. PICK x \in All(r) : x.key = q
      BY <2>1
    <3>2. Found(r, q) = x.value /\ Found(t, q) = x.value
      BY <1>1, <1>9, <1>10, <3>1, FoundIs DEF TableOK
    <3> QED BY <3>2
  <2>2. CASE \A x \in All(r) : x.key # q
    BY <1>10, <2>2, FoundIs DEF TableOK
  <2> QED BY <2>1, <2>2
<1> QED BY <1>6, <1>10, <1>12, <1>13 DEF r, Rechained

-----------------------------------------------------------------------------
\* What holds in all states of the table.
HashInv == TableOK(table) /\ table.count <= table.loadingFactor

\* What the dictionary sees of the table.
Map == [k \in Keys |-> Found(table, k)]

\* A key without hash code has no link that can be found.
LEMMA NothingWithoutHashCode ==
    ASSUME NEW t, NEW k, k \notin Hashable
    PROVE  Found(t, k) = NULL /\ Located(t, k) = 0
BY DEF Found, Located

\* The table starts empty.
LEMMA HashInvInit == HashInit => HashInv /\ Map = [k \in Keys |-> NULL]
<1> SUFFICES ASSUME HashInit PROVE HashInv /\ Map = [k \in Keys |-> NULL]
  OBVIOUS
<1> DEFINE G == NewTable(InitialBuckets)
<1>1. table = G
  BY DEF HashInit
<1> HIDE DEF G
<1>2. /\ TableOK(G) /\ G.count = 0 /\ G.loadingFactor > 0
      /\ G.loadingFactor = InitialBuckets \div 2 + InitialBuckets \div 4
      /\ \A k \in Hashable : Found(G, k) = NULL
  BY HashAssumption, NewTableIs DEF G
<1>3. G.loadingFactor \in Nat
  BY <1>2, HashAssumption
<1>4. G.count <= G.loadingFactor
  BY <1>2, <1>3
<1>5. \A k \in Keys : Found(G, k) = NULL
  BY <1>2, NothingWithoutHashCode
<1> QED BY <1>1, <1>2, <1>4, <1>5 DEF HashInv, Map

\* Each operation keeps the table well made, and is one of the dictionary.
LEMMA HashStep ==
    HashInv /\ [HashNext]_hashVars => HashInv' /\ [D!Next]_<<Map, hashAnswer>>
<1> SUFFICES ASSUME HashInv, [HashNext]_hashVars
             PROVE  HashInv' /\ (D!Next \/ UNCHANGED <<Map, hashAnswer>>)
  OBVIOUS
<1>0. TableOK(table) /\ table.count <= table.loadingFactor
  BY DEF HashInv
<1>1. /\ Map = [k \in Keys |-> Found(table, k)]
      /\ Map' = [k \in Keys |-> Found(table', k)]
  BY DEF Map
<1>2. ASSUME HashCopy PROVE HashInv' /\ UNCHANGED <<Map, hashAnswer>>
  <2> DEFINE c == Copied(table)
  <2>1. table' = c /\ hashAnswer' = hashAnswer
    BY <1>2 DEF HashCopy
  <2>2. /\ TableOK(c) /\ c.count <= c.loadingFactor
        /\ \A k \in Hashable : Found(c, k) = Found(table, k)
    BY <1>0, CopiedIs
  <2> HIDE DEF c
  <2>3. \A k \in Keys : Found(c, k) = Found(table, k)
    BY <2>2, NothingWithoutHashCode
  <2> QED BY <1>1, <2>1, <2>2, <2>3 DEF HashInv
<1>3. ASSUME NEW k \in Keys, HashGet(k) PROVE HashInv' /\ D!Get(k)
  <2>1. table' = table /\ hashAnswer' = Found(table, k)
    BY <1>3 DEF HashGet
  <2> QED BY <1>0, <2>1 DEF HashInv, D!Get
<1>4. ASSUME NEW k \in Keys, HashRemove(k) PROVE HashInv' /\ D!Remove(k)
  <2>1. CASE Located(table, k) = 0
    <3>1. table' = table /\ hashAnswer' = FALSE
      BY <1>4, <2>1 DEF HashRemove
    <3>2. Found(table, k) = NULL
      BY <2>1 DEF Found
    <3>3. Map[k] = NULL /\ Map' = Map
      BY <1>1, <3>1, <3>2
    <3> QED BY <1>0, <3>1, <3>3 DEF HashInv, D!Remove, Map
  <2>2. CASE Located(table, k) # 0
    <3> DEFINE r == Removed(table, k)
    <3>1. table' = r /\ hashAnswer' = TRUE /\ k \in Hashable
      BY <1>4, <2>2, NothingWithoutHashCode DEF HashRemove
    <3>2. /\ TableOK(r) /\ r.loadingFactor = table.loadingFactor /\ r.count = table.count - 1
          /\ Found(r, k) = NULL
          /\ \A q \in Hashable : Found(r, q) = NULL \/ Found(r, q) = Found(table, q)
      BY <1>0, <2>2, <3>1, RemovedIs
    <3> HIDE DEF r
    <3>3. r.count <= r.loadingFactor
      <4>1. table.count \in Nat /\ table.loadingFactor \in Nat
        BY <1>0 DEF TableOK, Shape
      <4> QED BY <1>0, <3>2, <4>1
    <3>4. \A q \in Keys : Found(r, q) = NULL \/ Found(r, q) = Found(table, q)
      BY <3>2, NothingWithoutHashCode
    <3>5. Found(table, k) # NULL
      <4>1. PICK l \in All(table) : l.key = k
        BY <1>0, <2>2, <3>1, FoundIs DEF TableOK
      <4>4. l \in Link
        BY <1>0, <4>1, LinksAreAll DEF TableOK
      <4>2. Found(table, k) = l.value
        BY <1>0, <3>1, <4>1, FoundIs DEF TableOK
      <4>3. l.value \in Values
        BY <4>4 DEF Link
      <4> QED BY <4>2, <4>3, HashAssumption
    <3> DEFINE lost == {q \in Keys \ {k} : Found(r, q) # Found(table, q)}
    <3>6. Map' = [q \in Keys |-> IF q \in lost \cup {k} THEN NULL ELSE Map[q]]
      <4>1. \A q \in Keys : Found(r, q) = IF q \in lost \cup {k} THEN NULL ELSE Found(table, q)
        BY <3>2, <3>4
      <4> HIDE DEF lost
      <4> QED BY <1>1, <3>1, <4>1
    <3>7. Map[k] # NULL /\ lost \in SUBSET (Keys \ {k})
      BY <1>1, <3>5
    <3> HIDE DEF lost
    <3>8. D!Remove(k)
      <4>1. hashAnswer' = (Map[k] # NULL)
        BY <3>1, <3>7
      <4> QED BY <3>6, <3>7, <4>1 DEF D!Remove, Map
    <3> QED BY <3>1, <3>2, <3>3, <3>8 DEF HashInv
  <2> QED BY <2>1, <2>2
<1>5. ASSUME NEW k \in Keys, NEW v \in Values, HashPut(k, v) PROVE HashInv' /\ D!Put(k, v)
  <2> DEFINE l == [key |-> k, value |-> v]
             p == Putting(table, l)
  <2>1. table' = p /\ hashAnswer' = NULL
    BY <1>5 DEF HashPut
  <2>2. l \in Link /\ l.key = k /\ l.value = v
    BY DEF Link
  <2> HIDE DEF l
  <2>3. /\ TableOK(p) /\ p.count <= p.loadingFactor
        /\ \A q \in Hashable : Found(p, q) = IF q = l.key THEN l.value ELSE Found(table, q)
    BY <1>0, <2>2, PuttingIs
  <2> HIDE DEF p
  <2>4. CASE k \in Hashable
    <3>1. \A q \in Keys : Found(p, q) = IF q = k THEN v ELSE Found(table, q)
      BY <2>2, <2>3, <2>4, NothingWithoutHashCode
    <3>2. Map' = [Map EXCEPT ![k] = v]
      BY <1>1, <2>1, <3>1
    <3> QED BY <2>1, <2>3, <2>4, <3>2 DEF HashInv, D!Put, Map
  <2>5. CASE k \notin Hashable
    <3>1. \A q \in Keys : Found(p, q) = Found(table, q)
      BY <2>2, <2>3, <2>5, NothingWithoutHashCode
    <3>2. Map' = Map
      BY <1>1, <2>1, <3>1
    <3> QED BY <2>1, <2>3, <2>5, <3>2 DEF HashInv, D!Put, Map
  <2> QED BY <2>4, <2>5
<1>6. ASSUME UNCHANGED hashVars PROVE HashInv' /\ UNCHANGED <<Map, hashAnswer>>
  BY <1>0, <1>1, <1>6 DEF hashVars, HashInv
<1> QED BY <1>2, <1>3, <1>4, <1>5, <1>6 DEF HashNext, D!Next

\* In a table that is well made the links are where the loops look for them.
LEMMA LinksFromInv == HashInv => LinksAreExact
<1> SUFFICES ASSUME HashInv PROVE LinksAreExact
  OBVIOUS
<1>1. TableOK(table) /\ table.count <= table.loadingFactor /\ Shape(table) /\ Placed(table)
  BY DEF HashInv, TableOK
<1>2. ASSUME NEW b \in Buckets(table), NEW i \in 1..Len(table.buckets[b])
      PROVE  LET k == table.buckets[b][i].key
             IN  b = BucketOf(table, k) /\ (k \in Hashable => Located(table, k) = i)
  <2> DEFINE k == table.buckets[b][i].key
             at == Located(table, k)
  <2>1. /\ b = BucketOf(table, k)
        /\ k \in Hashable =>
              \A j \in 1..Len(table.buckets[b]) : table.buckets[b][j].key = k => j = i
    BY <1>1 DEF Placed
  <2>2. ASSUME k \in Hashable PROVE at = i
    <3>1. /\ at = 0 => \A j \in 1..Len(table.buckets[b]) : table.buckets[b][j].key # k
          /\ at # 0 => at \in 1..Len(table.buckets[b]) /\ table.buckets[b][at].key = k
      <4> HIDE DEF k
      <4> QED BY <1>1, <2>1, <2>2, LocatedIs
    <3> HIDE DEF at
    <3>2. at # 0
      BY <3>1
    <3> QED BY <2>1, <2>2, <3>1, <3>2
  <2> QED BY <2>1, <2>2
<1>3. Len(Links(table)) <= table.count
  BY <1>1 DEF TableOK
<1>4. Resized(table).count < Resized(table).loadingFactor
  BY <1>1, ResizedIs
<1> QED BY <1>1, <1>2, <1>3, <1>4 DEF LinksAreExact

\* The links are where the loops look for them.
THEOREM LinksCorrect == HashSpec => []LinksAreExact
BY HashInvInit, HashStep, LinksFromInv, PTL DEF HashSpec

\* A table of any size finds for a key the value put last, over collisions, growth and
\* copies.
THEOREM HashImplementsDictionary == HashSpec => HashIsDictionary
<1>1. HashInit => D!Init
  BY HashInvInit DEF HashInit, D!Init, Map
<1>2. [D!Next]_<<Map, hashAnswer>>
        => [D!Next]_<<[k \in Keys |-> Found(table, k)], hashAnswer>>
  BY DEF Map
<1> QED BY <1>1, <1>2, HashInvInit, HashStep, PTL DEF HashSpec, HashIsDictionary, D!Spec

\* A table of four buckets or more grows, and its loading factor with it, so
\* that the links of the full table and one more fit without a second resize
\* inside the first one.
THEOREM GrowthMakesRoom ==
    ASSUME NEW n \in Nat, n >= 4
    PROVE  LET full == NewTable(n)
           IN  /\ Grown(full).nBuckets >= n + 2
               /\ Grown(full).loadingFactor > full.loadingFactor
<1> DEFINE m == n + n \div 2
<1>1. m \in Nat /\ m >= n + 2
  OBVIOUS
<1>2. m \div 2 + m \div 4 > n \div 2 + n \div 4
  <2>1. m \div 2 >= n \div 2 + 1
    BY <1>1
  <2>2. m \div 4 >= n \div 4
    BY <1>1
  <2> QED BY <1>1, <2>1, <2>2
<1>3. NewTable(n).nBuckets = n /\ NewTable(n).loadingFactor = n \div 2 + n \div 4
  BY DEF NewTable
<1>4. Grown(NewTable(n)) = NewTable(m)
  BY <1>3 DEF Grown
<1>5. NewTable(m).nBuckets = m /\ NewTable(m).loadingFactor = m \div 2 + m \div 4
  BY DEF NewTable
<1> QED BY <1>1, <1>2, <1>3, <1>4, <1>5
==============================================================================
