------------------------------- MODULE Vector -------------------------------
(****************************************************************************)
(* What an array promises: a number of places that stays as it is, and      *)
(* operations that put their elements in another order, replace one, or     *)
(* move some of them by one place.  NULL (nil) fills a place that has       *)
(* become free.  An operation that fails changes nothing.  The program      *)
(* calls one after the other.                                               *)
(****************************************************************************)
EXTENDS Integers, Sequences, SequencesExt

CONSTANTS Items, Rank, MaxItems, NULL

VARIABLES
    items,   \* the elements
    call,    \* the operation that has been called, or NULL
    failed   \* has the last operation failed?

Filled == Items \cup {NULL}

\* dead is {}, or holds the element that is dead.
Calls ==
    {[op |-> op] : op \in {"reverse", "shuffle", "insertionSort", "selectionSort"}}
    \cup [op : {"new"}, count : 0..MaxItems, e : Filled]
    \cup [op : {"set"}, i : 1..MaxItems + 1, e : Filled]
    \cup [op : {"delete"}, i : 1..MaxItems]
    \cup [op : {"insert"}, i : 1..MaxItems, e : Filled, dead : {{}} \cup {{d} : d \in Filled}]

Init == items \in SeqOf(Filled, MaxItems) /\ call = NULL /\ failed = FALSE

Call ==
    /\ call = NULL /\ call' \in Calls
    /\ failed' = FALSE /\ UNCHANGED items

Returns == call' = NULL
Becomes(new) == Returns /\ items' = new /\ failed' = FALSE
Fails == Returns /\ failed' = TRUE /\ UNCHANGED items

Replace(i, e) ==
    \/ i \in DOMAIN items /\ Becomes([items EXCEPT ![i] = e])
    \/ i \notin DOMAIN items /\ Fails

Delete(i) == i \in DOMAIN items /\ Becomes(Append(RemoveAt(items, i), NULL))

\* The elements from i on move by one: the last one is lost, or the one behind the first
\* that is dead.
Insert(i, e, dead) ==
    LET deaths == {j \in i..Len(items) - 1 : items[j] \in dead}
    IN  /\ i \in DOMAIN items
        /\ \/ deaths = {} /\ Becomes(SubSeq(InsertAt(items, i, e), 1, Len(items)))
           \/ \E j \in deaths :
                 /\ \A k \in deaths : j <= k
                 /\ Becomes(InsertAt(RemoveAt(items, j + 1), i, e))

\* The elements in another order.
Orders == {p \in [DOMAIN items -> DOMAIN items] : IsInjective(p)}
Ordered(p) == [i \in DOMAIN items |-> items[p[i]]]

Reversed == Becomes(Reverse(items))
Shuffled == \E p \in Orders : Becomes(Ordered(p))

\* Elements of one rank stay in their order, and what is nil comes last; it must not
\* stand behind anything else before.
SortedStably ==
    LET NilBehind == \E i, j \in DOMAIN items : i < j /\ items[i] # NULL /\ items[j] = NULL
        Comes(i, j) ==
            IF items[i] = NULL THEN items[j] = NULL
            ELSE \/ items[j] = NULL \/ Rank[items[i]] < Rank[items[j]]
                 \/ Rank[items[i]] = Rank[items[j]] /\ i < j
    IN  \/ NilBehind /\ Fails
        \/ /\ ~NilBehind
           /\ \E p \in Orders :
                 /\ \A i, j \in DOMAIN items : i < j => Comes(p[i], p[j])
                 /\ Becomes(Ordered(p))

\* Nothing is nil in an array of more than one element.
Sorted ==
    \/ Len(items) > 1 /\ NULL \in ToSet(items) /\ Fails
    \/ /\ Len(items) <= 1 \/ NULL \notin ToSet(items)
       /\ \E p \in Orders :
             /\ \A i, j \in DOMAIN items : i < j => Rank[items[p[i]]] <= Rank[items[p[j]]]
             /\ Becomes(Ordered(p))

New(count, e) == Becomes([i \in 1..count |-> e])

Next ==
    \/ Call
    \/ /\ call # NULL
       /\ \/ call.op = "reverse" /\ Reversed
          \/ call.op = "shuffle" /\ Shuffled
          \/ call.op = "insertionSort" /\ SortedStably
          \/ call.op = "selectionSort" /\ Sorted
          \/ call.op = "new" /\ New(call.count, call.e)
          \/ call.op = "set" /\ Replace(call.i, call.e)
          \/ call.op = "delete" /\ Delete(call.i)
          \/ call.op = "insert" /\ Insert(call.i, call.e, call.dead)

Spec == Init /\ [][Next]_<<items, call, failed>>

=============================================================================
