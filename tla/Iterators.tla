----------------------------- MODULE Iterators -----------------------------
(****************************************************************************)
(* What a loop, list:map and array:map go over (any_iterator and what the   *)
(* types put in its place, ns/iterator.c), and the other ways to read the   *)
(* same object.  A list is improper if its last cell has a rest that is no  *)
(* list.  Sequences go upwards: sequence_contains and sequence_count do not *)
(* agree on the others.                                                     *)
(****************************************************************************)
EXTENDS Integers, SequencesExt, FiniteSets, Answers

CONSTANTS
    Things,     \* elements
    MaxThings,  \* bound: elements of a list, an array or a string
    MaxNumber   \* bound: the numbers of a sequence, up and down

ASSUME IteratorsAssumption ==
    /\ NULL \notin Things /\ Things # {} /\ NULL \notin Int
    /\ MaxThings \in Nat /\ MaxNumber \in Nat

VARIABLES
    iterable,   \* what is gone over
    walk,       \* how: by an iterator or by the continuations of map
    iterState,  \* the state object of the iterator, or what is left to map
    visited     \* what has come out of it

iterVars == <<iterable, walk, iterState, visited>>

List(elems, rest) == [type |-> "List", elems |-> elems, rest |-> rest]
Proper(elems) == List(elems, <<>>)
Sequence(from, to, by) == [type |-> "Sequence", from |-> from, to |-> to, by |-> by]

\* Atoms are what has the method of methods/methods.c.
Iterables ==
    LET lines == SeqOf(Things, MaxThings)
        numbers == -MaxNumber..MaxNumber
    IN  {[type |-> t, elems |-> s] : t \in {"Array", "String", "Queue"}, s \in lines}
        \cup {[type |-> "Set", elems |-> s] : s \in {l \in lines : IsInjective(l)}}
        \cup {Proper(s) : s \in lines}
        \cup {List(s, <<e>>) : s \in lines \ {<<>>}, e \in Things}
        \cup {Sequence(from, to, by) : from \in numbers, to \in numbers, by \in 1..3}
        \cup {[type |-> "Integer", value |-> n] : n \in numbers}
        \cup {[type |-> "Atom", elems |-> <<e>>] : e \in Things}

-----------------------------------------------------------------------------
(* Lists. *)

list_count(l) == Len(l.elems) + Len(l.rest)
list_asArray(l) ==
    [n \in 1..list_count(l) |-> IF n <= Len(l.elems) THEN l.elems[n] ELSE l.rest[1]]

\* NULL is the exception.  A negative index finds the first element.
list_getNth(l, n) ==
    IF l.elems = <<>> \/ n >= Len(l.elems) THEN NULL
    ELSE l.elems[IF n < 0 THEN 1 ELSE n + 1]
ns_list_get(l, index) == list_getNth(l, index)
list_getRestAsList(l) == IF Len(l.elems) = 1 THEN Proper(l.rest) ELSE List(Tail(l.elems), l.rest)

list_iterator(l) == l
list_iteratorHasNext(l) == l.elems # <<>>

\* Mistake: the last rest is not taken for an element.
list_iteratorNextProper(l) ==
    IF l.elems = <<>> THEN <<NULL, l>> ELSE <<Head(l.elems), Proper(Tail(l.elems))>>

list_iteratorNext(l) ==
    IF l.elems = <<>> THEN <<NULL, l>> ELSE <<Head(l.elems), list_getRestAsList(l)>>

-----------------------------------------------------------------------------
(* Arrays and strings: an index that counts from 0. *)

array_iterator == [index |-> 0]
array_iteratorHasNext(x, s) == s.index < Len(x.elems)
array_iteratorNext(x, s) ==
    IF s.index < Len(x.elems) THEN <<x.elems[s.index + 1], [index |-> s.index + 1]>>
    ELSE <<NULL, s>>

array_asQueue(elems) == FoldLeft(Append, <<>>, elems)
array_contains(elems, e) == \E n \in 1..Len(elems) : elems[n] = e
array_get(elems, n) == IF n >= Len(elems) THEN NULL ELSE elems[n + 1]

string_iterator == [index |-> 0]
string_iteratorHasNext(x, s) == s.index < Len(x.elems)
string_iteratorNext(x, s) ==
    IF s.index < Len(x.elems) THEN <<x.elems[s.index + 1], [index |-> s.index + 1]>>
    ELSE <<NULL, s>>

string_getChar(chars, n) == IF n < 0 \/ n >= Len(chars) THEN NULL ELSE chars[n + 1]
string_startsWith(chars, prefix) ==
    Len(chars) >= Len(prefix) /\ \A n \in 1..Len(prefix) : chars[n] = prefix[n]
string_join(chars, others) == FoldLeft(LAMBDA cs, other : cs \o other, chars, others)

\* The index where the token is first found, NULL if it is not; the third argument of the
\* primitive is not used.
string_locate(chars, token) ==
    LET found == {n \in 0..Len(chars) - Len(token) :
                    SubSeq(chars, n + 1, n + Len(token)) = token}
    IN  IF found = {} THEN NULL ELSE CHOOSE n \in found : \A m \in found : n <= m

\* The sequence of the indices.
array_domain(elems) == Sequence(0, Len(elems) - 1, 1)

\* A range that stops at the end of the array or later reads what is behind it: left out.
array_getRange(elems, range) ==
    LET start == IF range.from < 0 THEN 0 ELSE range.from
        from[n \in 0..Len(elems) + range.by] ==
            IF n <= range.to THEN <<elems[n + 1]>> \o from[n + range.by] ELSE <<>>
    IN  IF start > range.to THEN <<>> ELSE from[start]

\* A key that is neither a number nor a sequence is looked for in the elements, which have
\* no pairs here.
ns_array_get(elems, index) ==
    CASE index.type = "Integer" -> array_get(elems, index.value)
      [] index.type = "Sequence" -> array_getRange(elems, index)
      [] OTHER -> NULL

-----------------------------------------------------------------------------
(* Sequences of numbers. *)

sequence_contains(x, n) ==
    n - x.from >= 0 /\ n - x.from <= x.to - x.from /\ (n - x.from) % x.by = 0

\* The division rounds towards 0.
sequence_count(x) ==
    LET quotient == IF x.to >= x.from THEN (x.to - x.from) \div x.by
                    ELSE -((x.from - x.to) \div x.by)
    IN  IF quotient + 1 >= 0 THEN quotient + 1 ELSE 0

sequence_next(x, n) == IF sequence_contains(x, n) THEN [n |-> n] ELSE [n |-> NULL]
sequence_iterator(x) == sequence_next(x, x.from)
sequence_iteratorHasNext(s) == s.n # NULL
sequence_iteratorNext(x, s) ==
    IF s.n = NULL THEN <<NULL, s>> ELSE <<s.n, sequence_next(x, s.n + x.by)>>

-----------------------------------------------------------------------------
(* The methods. *)

queue_iterator(x) == Proper(x.elems)
set_iterator(x) == array_iterator   \* of the array of its keys
integer_asSequence(x) == Sequence(0, x.value - 1, 1)
m_iterator(x) == Proper(x.elems)

any_iterator(x) ==
    CASE x.type = "List" -> list_iterator(x)
      [] x.type = "Queue" -> queue_iterator(x)
      [] x.type = "Atom" -> m_iterator(x)
      [] x.type = "Array" -> array_iterator
      [] x.type = "Set" -> set_iterator(x)
      [] x.type = "String" -> string_iterator
      [] x.type = "Sequence" -> sequence_iterator(x)
      [] x.type = "Integer" -> sequence_iterator(integer_asSequence(x))

iterator_hasNext(x, s) ==
    CASE x.type \in {"List", "Queue", "Atom"} -> list_iteratorHasNext(s)
      [] x.type \in {"Array", "Set"} -> array_iteratorHasNext(x, s)
      [] x.type = "String" -> string_iteratorHasNext(x, s)
      [] x.type \in {"Sequence", "Integer"} -> sequence_iteratorHasNext(s)

\* What comes out of the iterator, and its new state.
iterator_next(x, s) ==
    CASE x.type \in {"List", "Queue", "Atom"} -> list_iteratorNext(s)
      [] x.type \in {"Array", "Set"} -> array_iteratorNext(x, s)
      [] x.type = "String" -> string_iteratorNext(x, s)
      [] x.type = "Sequence" -> sequence_iteratorNext(x, s)
      [] x.type = "Integer" -> sequence_iteratorNext(integer_asSequence(x), s)

\* A list with an improper end and an empty array are not mapped: list:map takes the end
\* for a list, array:map takes the first element of none.
Mappable(x) ==
    \/ x.type = "List" /\ x.rest = <<>>
    \/ x.type = "Array" /\ x.elems # <<>>

IteratorsInit ==
    /\ iterable \in Iterables
    /\ walk \in {"iterator"} \cup (IF Mappable(iterable) THEN {"map"} ELSE {})
    /\ iterState = any_iterator(iterable)
    /\ visited = <<>>

\* iterator:next, and the continuation of loop.  At the end it throws and changes nothing.
IteratorNext ==
    LET next == iterator_next(iterable, iterState)
    IN  /\ walk = "iterator" /\ next[1] # NULL
        /\ visited' = Append(visited, next[1]) /\ iterState' = next[2]
        /\ UNCHANGED <<iterable, walk>>

\* Is there another element to apply the function to?
ToMap ==
    IF iterable.type = "List" THEN iterState.elems # <<>>
    ELSE iterState.index < Len(iterable.elems)

\* The function has been applied to the first element of what is left.
ListMap ==
    /\ walk = "map" /\ iterable.type = "List" /\ ToMap
    /\ visited' = Append(visited, Head(iterState.elems))
    /\ iterState' = Proper(Tail(iterState.elems))
    /\ UNCHANGED <<iterable, walk>>

\* The function has been applied to the element at the index.
ArrayMap ==
    /\ walk = "map" /\ iterable.type = "Array" /\ ToMap
    /\ visited' = Append(visited, iterable.elems[iterState.index + 1])
    /\ iterState' = [index |-> iterState.index + 1]
    /\ UNCHANGED <<iterable, walk>>

IteratorsNext == IteratorNext \/ ListMap \/ ArrayMap

IteratorsSpec == IteratorsInit /\ [][IteratorsNext]_iterVars

-----------------------------------------------------------------------------
Numbers(x) == IF x.type = "Integer" THEN integer_asSequence(x) ELSE x

\* What an object consists of.
Consists(x) ==
    CASE x.type = "List" -> x.elems \o x.rest
      [] x.type \in {"Sequence", "Integer"} ->
            LET numbers == {n \in Numbers(x).from..Numbers(x).to :
                               (n - Numbers(x).from) % Numbers(x).by = 0}
            IN  [k \in 1..Cardinality(numbers) |-> Numbers(x).from + (k - 1) * Numbers(x).by]
      [] OTHER -> x.elems

\* The other ways to read an object agree with it.
ReadAlike(x) ==
    LET all == Consists(x)
    IN  CASE x.type = "List" ->
                /\ list_count(x) = Len(all) /\ list_asArray(x) = all
                /\ \A n \in 0..MaxThings :
                      ns_list_get(x, n) = IF n < Len(x.elems) THEN all[n + 1] ELSE NULL
          [] x.type = "Array" ->
                /\ array_asQueue(x.elems) = all
                /\ Consists(array_domain(x.elems)) = [n \in 1..Len(all) |-> n - 1]
                /\ \A e \in Things : array_contains(x.elems, e) = (e \in ToSet(all))
                /\ \A n \in 0..MaxThings :
                      ns_array_get(x.elems, [type |-> "Integer", value |-> n])
                          = IF n < Len(all) THEN all[n + 1] ELSE NULL
                /\ \A from \in 0..MaxThings, to \in 0..Len(all) - 1, by \in 1..3 :
                      LET range == Sequence(from, to, by)
                          places == Consists(range)
                      IN  ns_array_get(x.elems, range) = [n \in 1..Len(places) |-> all[places[n] + 1]]
          [] x.type = "String" ->
                /\ \A n \in -1..MaxThings :
                      string_getChar(x.elems, n) = IF n \in 0..Len(all) - 1 THEN all[n + 1] ELSE NULL
                /\ \A token \in SeqOf(Things, 2) :
                      LET at == string_locate(all, token)
                      IN  /\ string_startsWith(all, token) = (at = 0)
                          /\ string_locate(string_join(token, <<all, token>>), token) = 0
                          /\ at # NULL =>
                                string_join(SubSeq(all, 1, at),
                                            <<token, SubSeq(all, at + Len(token) + 1, Len(all))>>) = all
                          /\ at = NULL => \A n \in 0..Len(all) :
                                ~string_startsWith(SubSeq(all, n + 1, Len(all)), token)
          [] x.type = "Sequence" ->
                /\ x.from <= x.to \/ x.by = 1 => sequence_count(x) = Len(all)
                /\ \A n \in -MaxNumber..MaxNumber : sequence_contains(x, n) = (n \in ToSet(all))
          [] OTHER -> TRUE

\* A loop and a map visit each element of an object once and in order, the end of an
\* improper list too; hasNext and next agree on where the end is, and counts, indices,
\* ranges, searches and conversions on what there is (the iterators of data/list.c,
\* array.c, string.c, sequence.c and integer.c, list:map and array:map).
VisitsEachOnce ==
    LET all == Consists(iterable)
    IN  /\ visited = SubSeq(all, 1, Len(visited)) /\ Len(visited) <= Len(all)
        /\ walk = "iterator" =>
              /\ iterator_hasNext(iterable, iterState) = (Len(visited) < Len(all))
              /\ (iterator_next(iterable, iterState)[1] # NULL) = (Len(visited) < Len(all))
        /\ walk = "map" => ToMap = (Len(visited) < Len(all))
        /\ visited = <<>> => ReadAlike(iterable)

=============================================================================
