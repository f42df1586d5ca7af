------------------------------ MODULE HeapProofs ------------------------------
(****************************************************************************)
(* What follows from the promise of Heap: the code never follows a pointer  *)
(* to freed memory.                                                         *)
(****************************************************************************)
EXTENDS Heap, TLAPS

TypeOK ==
    /\ alive \subseteq Objects
    /\ refs \in [Objects -> SUBSET Objects]
    /\ rootSet \subseteq Objects
    /\ held \subseteq Objects

-----------------------------------------------------------------------------
\* What can be reached is closed under following pointers and contains where it
\* starts from.
LEMMA ReachableIsClosed ==
    ASSUME TypeOK, NEW s \in SUBSET Objects
    PROVE  /\ s \subseteq Reachable(s)
           /\ Closed(Reachable(s))
           /\ Reachable(s) \subseteq Objects
<1>1. s \subseteq Reachable(s) /\ Reachable(s) \subseteq Objects
  BY DEF Reachable
<1>2. ASSUME NEW x \in Reachable(s), NEW y \in refs[x]
      PROVE  y \in Reachable(s)
  <2>1. y \in Objects
    BY <1>1, <1>2 DEF TypeOK
  <2>2. ASSUME NEW c \in SUBSET Objects, s \subseteq c, Closed(c)
        PROVE  y \in c
    BY <1>2, <2>2 DEF Reachable, Closed
  <2> QED
    BY <2>1, <2>2 DEF Reachable
<1> QED
  BY <1>1, <1>2 DEF Closed

\* It is the smallest such set.
LEMMA ReachableIsLeast ==
    ASSUME NEW s, NEW c \in SUBSET Objects, s \subseteq c, Closed(c)
    PROVE  Reachable(s) \subseteq c
  BY DEF Reachable

\* Memory that is needed after a step was needed before it or is new.
LEMMA NeededAfter ==
    ASSUME NEW c \in SUBSET Objects,
           (rootSet \cup held)' \subseteq c,
           \A x \in c : refs'[x] \subseteq c
    PROVE  Needed' \subseteq c
  BY DEF Needed, Reachable, Closed

-----------------------------------------------------------------------------
\* A new object becomes needed, and nothing else.
LEMMA PlacePreserves ==
    ASSUME TypeOK, NoDanglingPointer,
           NEW o \in Objects, NEW children \in SUBSET Objects, Place(o, children),
           (rootSet \cup held)' = (rootSet \cup held) \cup {o}
    PROVE  NoDanglingPointer'
<1> DEFINE c == Needed \cup {o}
<1>1. /\ rootSet \cup held \subseteq Needed
      /\ Closed(Needed)
      /\ Needed \in SUBSET Objects
  BY ReachableIsClosed DEF Needed, TypeOK
<1>2. o \notin Needed
  BY DEF NoDanglingPointer, Place
<1>3. c \in SUBSET Objects /\ (rootSet \cup held)' \subseteq c
  BY <1>1
<1>4. ASSUME NEW x \in c
      PROVE  refs'[x] \subseteq c
  <2>1. CASE x = o
    BY <2>1 DEF Place, TypeOK
  <2>2. CASE x # o
    BY <1>1, <1>4, <2>2 DEF Place, TypeOK, Closed
  <2> QED
    BY <2>1, <2>2
<1>5. Needed' \subseteq c
  <2> HIDE DEF c
  <2> QED
    BY <1>3, <1>4, NeededAfter
<1> QED
  BY <1>5 DEF NoDanglingPointer, Place

\* If all that changes is among what is needed, no more is needed afterwards.
LEMMA NoMoreNeeded ==
    ASSUME TypeOK,
           (rootSet \cup held)' \subseteq Needed,
           \A x \in Needed : refs'[x] \subseteq Needed
    PROVE  Needed' \subseteq Needed
<1>1. Needed \in SUBSET Objects
  BY ReachableIsClosed DEF Needed, TypeOK
<1> DEFINE c == Needed
<1>2. c \in SUBSET Objects /\ (rootSet \cup held)' \subseteq c /\ \A x \in c : refs'[x] \subseteq c
  BY <1>1
<1> HIDE DEF c
<1>3. Needed' \subseteq c
  BY <1>2, NeededAfter
<1> QED
  BY <1>3 DEF c

\* Nothing is freed in the beginning.
LEMMA InitSafe == Init => TypeOK /\ NoDanglingPointer
<1> SUFFICES ASSUME Init PROVE TypeOK /\ NoDanglingPointer
  OBVIOUS
<1>1. TypeOK
  BY DEF Init, TypeOK
<1>2. Closed({})
  BY DEF Closed
<1>3. Reachable(rootSet \cup held) \subseteq {}
  BY <1>2, ReachableIsLeast DEF Init
<1> QED
  BY <1>1, <1>3 DEF NoDanglingPointer, Needed

\* No step leads to freed memory.
LEMMA NextSafe == TypeOK /\ NoDanglingPointer /\ [Next]_vars => (TypeOK /\ NoDanglingPointer)'
<1> SUFFICES ASSUME TypeOK, NoDanglingPointer, [Next]_vars
             PROVE  TypeOK' /\ NoDanglingPointer'
  OBVIOUS
<1>1. /\ rootSet \cup held \subseteq Needed
      /\ Closed(Needed)
      /\ Needed \in SUBSET Objects
  BY ReachableIsClosed DEF Needed, TypeOK
<1>2. ASSUME NEW o \in Objects, NEW children \in SUBSET Objects, Allocate(o, children)
      PROVE  TypeOK' /\ NoDanglingPointer'
  <2>1. TypeOK'
    BY <1>2 DEF Allocate, Place, TypeOK
  <2>2. (rootSet \cup held)' = (rootSet \cup held) \cup {o}
    BY <1>2 DEF Allocate
  <2> QED
    BY <1>2, <2>1, <2>2, PlacePreserves DEF Allocate
<1>3. ASSUME NEW o \in Objects, NEW children \in SUBSET Objects, AllocateRoot(o, children)
      PROVE  TypeOK' /\ NoDanglingPointer'
  <2>1. TypeOK'
    BY <1>3 DEF AllocateRoot, Place, TypeOK
  <2>2. (rootSet \cup held)' = (rootSet \cup held) \cup {o}
    BY <1>3 DEF AllocateRoot
  <2> QED
    BY <1>3, <2>1, <2>2, PlacePreserves DEF AllocateRoot
<1>4. ASSUME NEW o \in Objects, NEW children \in SUBSET Objects, Assign(o, children)
      PROVE  TypeOK' /\ NoDanglingPointer'
  <2>1. TypeOK'
    BY <1>4 DEF Assign, TypeOK
  <2>2. \A x \in Needed : refs'[x] \subseteq Needed
    BY <1>1, <1>4 DEF Assign, TypeOK, Closed
  <2>3. (rootSet \cup held)' \subseteq Needed
    BY <1>1, <1>4 DEF Assign
  <2> QED
    BY <1>4, <2>1, <2>2, <2>3, NoMoreNeeded DEF NoDanglingPointer, Assign
<1>5. ASSUME NEW s \in SUBSET Objects, AddRoots(s) \/ Drop(s)
      PROVE  TypeOK' /\ NoDanglingPointer'
  <2>1. TypeOK'
    BY <1>5 DEF AddRoots, Drop, TypeOK
  <2>2. \A x \in Needed : refs'[x] \subseteq Needed
    BY <1>1, <1>5 DEF AddRoots, Drop, Closed
  <2>3. (rootSet \cup held)' \subseteq Needed
    BY <1>1, <1>5 DEF AddRoots, Drop
  <2> QED
    BY <1>5, <2>1, <2>2, <2>3, NoMoreNeeded DEF NoDanglingPointer, AddRoots, Drop
<1>6. ASSUME NEW o \in Objects, Free(o)
      PROVE  TypeOK' /\ NoDanglingPointer'
  <2>1. TypeOK'
    BY <1>6 DEF Free, TypeOK
  <2>2. \A x \in Needed : refs'[x] \subseteq Needed
    BY <1>1, <1>6 DEF Free, TypeOK, Closed
  <2>3. (rootSet \cup held)' \subseteq Needed
    BY <1>1, <1>6 DEF Free
  <2> QED
    BY <1>6, <2>1, <2>2, <2>3, NoMoreNeeded DEF NoDanglingPointer, Free
<1>7. CASE UNCHANGED vars
  BY <1>7 DEF vars, TypeOK, NoDanglingPointer, Needed, Reachable, Closed
<1> QED
  BY <1>2, <1>3, <1>4, <1>5, <1>6, <1>7 DEF Next

\* No pointer that the code can still follow leads to freed memory: a program in C
\* that runs over this memory never uses an object after it is freed.
THEOREM NeverDangling == Spec => []NoDanglingPointer
<1>1. Spec => [](TypeOK /\ NoDanglingPointer)
  BY InitSafe, NextSafe, PTL DEF Spec
<1> QED
  BY <1>1, PTL

=============================================================================
