-------------------------------- MODULE Queue --------------------------------
(****************************************************************************)
(* data/queue.c: a queue is a chain of list cells from head to tail.  A     *)
(* cell is named by the order of its allocation, EMPTY_LIST by 0.  held is  *)
(* a cell of the chain that the program got as a list or as the state of an *)
(* iterator: it shares the cells with the queue.                            *)
(****************************************************************************)
EXTENDS Integers, Sequences, Answers

CONSTANTS
    Elems,
    MaxCells   \* bound: allocated cells

EMPTY_LIST == 0

VARIABLES cells, head, tail, queueCount, held, queueAnswer

queueVars == <<cells, head, tail, queueCount, held, queueAnswer>>

QueueInit ==
    /\ cells = <<>>
    /\ head = EMPTY_LIST /\ tail = EMPTY_LIST
    /\ queueCount = 0
    /\ held = EMPTY_LIST
    /\ queueAnswer = NULL

-----------------------------------------------------------------------------
\* Mistake: an element behind others does not become the tail.
EnqKeepsTail(e) ==
    LET new == Len(cells) + 1
        cell == [first |-> e, rest |-> EMPTY_LIST]
    IN  /\ new <= MaxCells
        /\ \/ queueCount = 0 /\ head' = new /\ tail' = new /\ cells' = Append(cells, cell)
           \/ /\ queueCount # 0
              /\ cells' = Append([cells EXCEPT ![tail].rest = new], cell)
              /\ UNCHANGED <<head, tail>>
        /\ queueCount' = queueCount + 1
        /\ queueAnswer' = NULL
        /\ UNCHANGED held

\* The cell e is allocated and linked behind the tail, unless the queue is
\* empty: the count tells, and the old chain keeps its end.
Enq(e) ==
    LET new == Len(cells) + 1
        cell == [first |-> e, rest |-> EMPTY_LIST]
    IN  /\ new <= MaxCells
        /\ \/ /\ queueCount = 0
              /\ head' = new
              /\ cells' = Append(cells, cell)
           \/ /\ queueCount # 0
              /\ cells' = Append([cells EXCEPT ![tail].rest = new], cell)
              /\ UNCHANGED head
        /\ tail' = new
        /\ queueCount' = queueCount + 1
        /\ queueAnswer' = NULL
        /\ UNCHANGED held

Deq ==
    \/ /\ queueCount = 0
       /\ queueAnswer' = NULL
       /\ UNCHANGED <<cells, head, tail, queueCount, held>>
    \/ /\ queueCount # 0
       /\ queueAnswer' = cells[head].first
       /\ head' = cells[head].rest
       /\ queueCount' = queueCount - 1
       /\ tail' = IF head' = EMPTY_LIST THEN head' ELSE tail
       /\ UNCHANGED <<cells, held>>

\* Mistake: peek looks at the wrong end.
PeekAtTail ==
    /\ queueAnswer' = IF tail = EMPTY_LIST THEN NULL ELSE cells[tail].first
    /\ UNCHANGED <<cells, head, tail, queueCount, held>>

\* Unlike Deq, peek looks at the head and not at the count.
QueuePeek ==
    /\ queueAnswer' = IF head = EMPTY_LIST THEN NULL ELSE cells[head].first
    /\ UNCHANGED <<cells, head, tail, queueCount, held>>

\* queue:asList and queue:iterator hand out the head itself.
AsList ==
    /\ held' = head
    /\ UNCHANGED <<cells, head, tail, queueCount, queueAnswer>>

\* The holder of a list goes to its rest.
HeldNext ==
    /\ held # EMPTY_LIST
    /\ held' = cells[held].rest
    /\ UNCHANGED <<cells, head, tail, queueCount, queueAnswer>>

QueueNext == Deq \/ QueuePeek \/ AsList \/ HeldNext \/ \E e \in Elems : Enq(e)

QueueSpec == QueueInit /\ [][QueueNext]_queueVars

-----------------------------------------------------------------------------
\* The elements by the count, which queue_eval, count and isEmpty go by.
Line == [i \in 1..queueCount |-> cells[head + i - 1].first]

\* The elements of a list, which equality, match, show and iterators go by.
ListFrom(c) ==
    LET from[i \in 0..Len(cells)] ==
            IF i = EMPTY_LIST THEN <<>>
            ELSE <<cells[i].first>> \o from[cells[i].rest]
    IN  from[c]

F == INSTANCE Fifo WITH line <- Line, answer <- queueAnswer

\* The queue is first in, first out, although the count decides about the
\* first cell, the list about the last one and peek about neither.
QueueIsFifo == F!Spec

\* The two ways to read a queue agree: what is walked from the head is what is
\* counted, and a list that was handed out and not dequeued past is the end of
\* the queue, enqueued elements included.
ListsSeeTheQueue ==
    /\ ListFrom(head) = Line
    /\ head # EMPTY_LIST /\ held >= head =>
          ListFrom(held) = SubSeq(Line, held - head + 1, queueCount)

=============================================================================
