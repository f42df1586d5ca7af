------------------------------ MODULE FifoLock ------------------------------
(****************************************************************************)
(* What a set of locks promises: each lock serves the calls of acquire in   *)
(* the order of their arrival.  The head of a lock's line owns the lock; a  *)
(* release serves the next one in line, and nobody joins anywhere but at    *)
(* the end.                                                                 *)
(****************************************************************************)
EXTENDS Sequences

CONSTANTS Locks, Threads

VARIABLE line   \* for each lock, its owner followed by the threads that wait

Init == line = [l \in Locks |-> <<>>]

Arrive(t, l) == line' = [line EXCEPT ![l] = Append(@, t)]

Leave(l) ==
    /\ line[l] # <<>>
    /\ line' = [line EXCEPT ![l] = Tail(@)]

Next == \E l \in Locks : Leave(l) \/ \E t \in Threads : Arrive(t, l)

Spec == Init /\ [][Next]_line

=============================================================================
