------------------------------ MODULE Matching ------------------------------
(***************************************************************************)
(* any_match: the bindings that a pattern makes with an object.            *)
(***************************************************************************)
EXTENDS Syntax

RECURSIVE MatchObject(_, _), MatchAll(_, _)

\* array_match goes on with the next element in the bindings of those before.
MatchAll(patterns, objs) ==
    IF Len(patterns) # Len(objs) THEN {}
    ELSE IF patterns = <<>> THEN {<<>>}
    ELSE {b[1] \o b[2] : b \in MatchObject(Head(patterns), Head(objs))
                              \X MatchAll(Tail(patterns), Tail(objs))}

\* identifier_match binds an identifier to anything, even if the pattern binds it twice;
\* list_match matches the first objects, then the rests, and queue_match the lists of the
\* queues; an array, a binding and a term match their parts in turn; any other object
\* matches what it is equal to (symbols are interned and nil is one object).  The result is
\* the set of the bindings, in the order they are made: empty if there is no match.
MatchObject(pattern, obj) ==
    IF pattern.type = "Identifier" THEN {<<[key |-> pattern.name, value |-> obj]>>}
    ELSE IF pattern.type \notin {"List", "Array", "Queue", "Binding", "Term"}
    THEN {bs \in {<<>>} : pattern = obj}
    ELSE IF obj.type # pattern.type THEN {}
    ELSE CASE pattern.type = "List" /\ ~IsEmpty(pattern) /\ ~IsEmpty(obj) ->
                 MatchAll(pattern.cell, obj.cell)
           [] pattern.type = "List" -> {bs \in {<<>>} : pattern = obj}
           [] pattern.type = "Array" -> MatchAll(pattern.elems, obj.elems)
           [] pattern.type = "Queue" -> MatchObject(List(pattern.elems), List(obj.elems))
           [] pattern.type = "Binding" ->
                 MatchAll(<<pattern.key, pattern.val>>, <<obj.key, obj.val>>)
           [] pattern.type = "Term" ->
                 IF pattern.symbol = obj.symbol THEN MatchObject(pattern.elems, obj.elems) ELSE {}
=============================================================================
