------------------------------- MODULE Arrays -------------------------------
(****************************************************************************)
(* data/array.c and ns/array.c: the operations that change an array, loop   *)
(* by loop.  Index n of the program is place n + 1.  The program goes on    *)
(* with the array that an operation returns.  Elements are compared by      *)
(* their rank; two of one rank need not be equal.  Indices that are         *)
(* negative are left out, and so are those past the end of the array where  *)
(* the operation does not check (array_delete, array_insert).               *)
(****************************************************************************)
EXTENDS Integers, SequencesExt, Answers

CONSTANTS
    Items,     \* elements
    Rank,      \* their ranks
    MaxItems   \* bound: the length of an array

ASSUME ArraysAssumption ==
    /\ MaxItems \in Nat /\ NULL \notin Items
    /\ DOMAIN Rank = Items /\ \A e \in Items : Rank[e] \in Nat

VARIABLES
    array,
    arrayCall,  \* the primitive and the arguments that it has found to be right, or NULL
    threw

arrayVars == <<array, arrayCall, threw>>

Elements == Items \cup {NULL}
ArraysInit == array \in SeqOf(Elements, MaxItems) /\ arrayCall = NULL /\ threw = FALSE

Holding(elems) == array' = elems /\ arrayCall' = NULL /\ threw' = FALSE
Throwing == threw' = TRUE /\ arrayCall' = NULL /\ UNCHANGED array

Upto(first, last) == [n \in 1..last - first + 1 |-> first + n - 1]
Swapped(elems, i, j) == [elems EXCEPT ![i] = elems[j], ![j] = elems[i]]

\* What any_compare answers for two elements: NULL has no method for it.
Smaller(e, other) == Rank[e] < Rank[other]

-----------------------------------------------------------------------------
array_delete(elems, i) ==
    LET moved == FoldLeft(LAMBDA es, n : [es EXCEPT ![n] = es[n + 1]], elems, Upto(i, Len(elems) - 1))
    IN  [moved EXCEPT ![Len(elems)] = NULL]

\* Mistake: the dead element stops the loop before it is moved.
array_insertEarly(elems, i, e, deadZone) ==
    LET Move(s, n) ==
            IF s.done \/ s.temp \in deadZone THEN [s EXCEPT !.done = TRUE]
            ELSE [elems |-> [s.elems EXCEPT ![n] = s.temp], temp |-> s.elems[n], done |-> FALSE]
        moved == FoldLeft(Move, [elems |-> elems, temp |-> elems[i], done |-> FALSE],
                          Upto(i + 1, Len(elems)))
    IN  [moved.elems EXCEPT ![i] = e]

\* Every element is put over the next one, until one that is dead has been moved.
array_insert(elems, i, e, deadZone) ==
    LET Move(s, n) ==
            IF s.done THEN s
            ELSE [elems |-> [s.elems EXCEPT ![n] = s.temp], temp |-> s.elems[n],
                  done |-> s.temp \in deadZone]
        moved == FoldLeft(Move, [elems |-> elems, temp |-> elems[i], done |-> FALSE],
                          Upto(i + 1, Len(elems)))
    IN  [moved.elems EXCEPT ![i] = e]

array_reverse(elems) ==
    FoldLeft(LAMBDA es, n : Swapped(es, n, Len(elems) - n + 1), elems, Upto(1, Len(elems) \div 2))

\* An element is inserted before the first larger one of those sorted so far, or put
\* into the first place that is nil.
array_insertionSort(elems) ==
    LET Put(new, n) ==
            LET places == Upto(1, n)
                m == SelectInSeq(places,
                                 LAMBDA k : new[k] = NULL \/ Smaller(elems[n], new[k]))
            IN  CASE n = 1 -> [new EXCEPT ![1] = elems[1]]
                  [] n > 1 /\ new[m] = NULL -> [new EXCEPT ![m] = elems[n]]
                  [] OTHER -> array_insert(new, m, elems[n], {NULL})
    IN  FoldLeft(Put, [n \in 1..Len(elems) |-> NULL], Upto(1, Len(elems)))

\* The first of the smallest elements from n on changes places with the one at n.
array_selectionSort(elems) ==
    LET Smallest(es, n) ==
            FoldLeft(LAMBDA k, m : IF Smaller(es[m], es[k]) THEN m ELSE k, n, Upto(n + 1, Len(es)))
    IN  FoldLeft(LAMBDA es, n : Swapped(es, n, Smallest(es, n)), elems, Upto(1, Len(elems)))

-----------------------------------------------------------------------------
ArraySet(i, e) ==
    IF i <= Len(array) THEN Holding([array EXCEPT ![i] = e]) ELSE Throwing

ArrayDelete(i) == Holding(array_delete(array, i))

\* deadZone is no element if the program gives none.
ArrayInsert(i, e, deadZone) == Holding(array_insert(array, i, e, deadZone))

ArrayReverse == Holding(array_reverse(array))

\* rand() chooses another place for each.
ArrayShuffle ==
    \E chosen \in [1..Len(array) -> 1..Len(array)] :
        Holding(FoldLeft(LAMBDA es, n : Swapped(es, n, chosen[n]), array, Upto(1, Len(array))))

\* Comparing nil with another element throws.  A nil that comes first is overwritten.
ArrayInsertionSort ==
    IF \E i \in 2..Len(array) : array[i] = NULL /\ \E n \in 1..i - 1 : array[n] # NULL
    THEN Throwing
    ELSE Holding(array_insertionSort(array))

\* Comparing another element with nil does not throw, but takes nil for one of its type:
\* it is left out that nil comes first, and something else next.
ArraySelectionSort ==
    IF Len(array) <= 1 \/ NULL \notin ToSet(array) THEN Holding(array_selectionSort(array))
    ELSE Throwing

ArrayNew(count, e) == Holding([n \in 1..count |-> e])

ArraySimple == {"reverse", "shuffle", "insertionSort", "selectionSort"}
IndicesOf(elems) == 1..Len(elems)

\* The calls of the primitives, but those that are left out.
ArrayCalls ==
    {[op |-> op] : op \in
        {o \in ArraySimple : o = "selectionSort" /\ Len(array) > 1 /\ array[1] = NULL
                                => array[2] = NULL}}
    \cup [op : {"new"}, count : 0..MaxItems, e : Elements]
    \cup [op : {"set"}, i : 1..MaxItems + 1, e : Elements]
    \cup [op : {"delete"}, i : IndicesOf(array)]
    \cup [op : {"insert"}, i : IndicesOf(array), e : Elements,
          dead : {{}} \cup {{d} : d \in Elements}]

ArrayApply ==
    /\ arrayCall = NULL /\ arrayCall' \in ArrayCalls
    /\ threw' = FALSE /\ UNCHANGED array

ArraysNext ==
    \/ ArrayApply
    \/ /\ arrayCall # NULL
       /\ \/ arrayCall.op = "reverse" /\ ArrayReverse
          \/ arrayCall.op = "shuffle" /\ ArrayShuffle
          \/ arrayCall.op = "insertionSort" /\ ArrayInsertionSort
          \/ arrayCall.op = "selectionSort" /\ ArraySelectionSort
          \/ arrayCall.op = "new" /\ ArrayNew(arrayCall.count, arrayCall.e)
          \/ arrayCall.op = "set" /\ ArraySet(arrayCall.i, arrayCall.e)
          \/ arrayCall.op = "delete" /\ ArrayDelete(arrayCall.i)
          \/ arrayCall.op = "insert" /\ ArrayInsert(arrayCall.i, arrayCall.e, arrayCall.dead)

ArraysSpec == ArraysInit /\ [][ArraysNext]_arrayVars

-----------------------------------------------------------------------------
V == INSTANCE Vector WITH items <- array, call <- arrayCall, failed <- threw

\* The loops that move and exchange elements lose none and double none, but where the
\* vector says so: insertion and deletion move what they should, both sorts sort, the
\* insertion sort keeps the order of elements of one rank, and an operation that throws
\* leaves the array as it was (the operations of ns/array.c).
ArrayIsVector == V!Spec

=============================================================================
