-------------------------------- MODULE Fifo --------------------------------
(****************************************************************************)
(* What a queue promises: elements leave in the order they came, each of    *)
(* them once, and looking does not change anything.  NULL is the answer     *)
(* that there is no element.                                                *)
(****************************************************************************)
EXTENDS Sequences

CONSTANTS Elems, NULL

VARIABLES
    line,    \* the elements, the first to leave first
    answer   \* what the last operation returned

Init == line = <<>> /\ answer = NULL

Put(e) == line' = Append(line, e) /\ answer' = NULL

Take ==
    \/ line = <<>> /\ answer' = NULL /\ UNCHANGED line
    \/ line # <<>> /\ answer' = Head(line) /\ line' = Tail(line)

Peek ==
    /\ answer' = IF line = <<>> THEN NULL ELSE Head(line)
    /\ UNCHANGED line

Contents == answer' = line /\ UNCHANGED line

Clear == line' = <<>> /\ answer' = NULL

Next == Take \/ Peek \/ Contents \/ Clear \/ \E e \in Elems : Put(e)

Spec == Init /\ [][Next]_<<line, answer>>

=============================================================================
