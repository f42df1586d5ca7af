-------------------------------- MODULE Heap --------------------------------
(****************************************************************************)
(* What the memory of the interpreter promises to the code that uses it: an *)
(* object that is still needed is never freed.  Needed are the objects that *)
(* can be reached from a root (an object that is always there) or from a C  *)
(* variable of the evaluation step under way.  When an object that is not   *)
(* needed is freed, and whether it is, is left open.                        *)
(****************************************************************************)

CONSTANT Objects   \* the places where objects can be allocated

VARIABLES
    alive,    \* the objects that are allocated
    refs,     \* the objects each object points to
    rootSet,  \* the objects that are always needed
    held      \* the objects that C variables point to

vars == <<alive, refs, rootSet, held>>

Closed(s) == \A o \in s : refs[o] \subseteq s

\* The objects that can be reached from the set from.
Reachable(from) ==
    {o \in Objects : \A s \in SUBSET Objects : from \subseteq s /\ Closed(s) => o \in s}

Needed == Reachable(rootSet \cup held)

Init ==
    /\ alive = {}
    /\ refs = [o \in Objects |-> {}]
    /\ rootSet = {}
    /\ held = {}

\* An object is put into memory; it points to objects that its creator can reach.
Place(o, children) ==
    /\ o \notin alive
    /\ alive' = alive \cup {o}
    /\ refs' = [refs EXCEPT ![o] = children]
    /\ children \subseteq Needed

Allocate(o, children) ==
    /\ Place(o, children)
    /\ held' = held \cup {o}
    /\ UNCHANGED rootSet

AllocateRoot(o, children) ==
    /\ Place(o, children)
    /\ rootSet' = rootSet \cup {o}
    /\ UNCHANGED held

\* The step changes what an object that it can reach points to.
Assign(o, children) ==
    /\ UNCHANGED <<alive, held>>
    /\ refs' = [refs EXCEPT ![o] = children]
    /\ UNCHANGED rootSet
    /\ {o} \cup children \subseteq Needed

AddRoots(s) ==
    /\ UNCHANGED <<alive, refs, held>>
    /\ s \subseteq Needed
    /\ rootSet' = rootSet \cup s

\* C variables go out of scope.
Drop(s) ==
    /\ held' = held \ s
    /\ UNCHANGED <<alive, refs, rootSet>>

\* What a freed object pointed to is lost.
Free(o) ==
    /\ alive' = alive \ {o}
    /\ refs' = [refs EXCEPT ![o] = {}]
    /\ UNCHANGED <<rootSet, held>>
    /\ o \in alive \ Needed

Next ==
    \/ \E o \in Objects, children \in SUBSET Objects :
          Allocate(o, children) \/ Assign(o, children) \/ AllocateRoot(o, children)
    \/ \E s \in SUBSET Objects : AddRoots(s) \/ Drop(s)
    \/ \E o \in Objects : Free(o)

Spec == Init /\ [][Next]_vars

-----------------------------------------------------------------------------
\* No pointer that the code can still follow leads to freed memory.
NoDanglingPointer == Needed \subseteq alive

=============================================================================
