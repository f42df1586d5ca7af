--------------------------------- MODULE GC ---------------------------------
(****************************************************************************)
(* The mark and sweep collector: memory/gc.c, called from the loop of       *)
(* evaluator_runSteps, from the set-up functions and from the REPL.         *)
(*                                                                          *)
(* Objects are chained by their field next, the latest first, in a list     *)
(* called the spine.  _committed and _permanentObjects point into it: what  *)
(* is before _committed was allocated in the current step and is not swept, *)
(* what starts at _permanentObjects never is.  Roots are in a list of their *)
(* own.  The loops take one step per iteration; a call of any_mark, which   *)
(* recurs along the pointers and stops at marked objects, is one step.      *)
(* The counters that set GC_NEEDED are left out: any allocation may do it.  *)
(****************************************************************************)
EXTENDS Naturals, FiniteSets

CONSTANTS
    Objects,        \* the places where malloc can put an object
    NIL,            \* C's NULL
    MaxRefs,        \* bound on the pointers in an object
    MaxRoots,       \* bound on the objects of the root list
    MarkCommand     \* whether the user gives the REPL's command :gcm

ASSUME ObjectsAssumption == IsFiniteSet(Objects)
ASSUME NILAssumption == NIL \notin Objects
ASSUME MaxRefsAssumption == MaxRefs \in Nat
ASSUME MaxRootsAssumption == MaxRoots \in Nat
ASSUME MarkCommandAssumption == MarkCommand \in BOOLEAN

VARIABLES
    alive,             \* the objects that are allocated
    refs,              \* the objects each object points to
    isMarked,          \* isMarked of each object
    next,              \* next of each object
    spine,             \* _spine
    committed,         \* _committed
    permanentObjects,  \* _permanentObjects
    roots,             \* _roots
    needed,            \* GC_NEEDED
    held,              \* the objects that C variables point to
    phase,             \* what the interpreter is doing
    obj,               \* local variable of the loops of markRoots and sweep
    prev               \* local variable of the loop of sweep

listVars == <<next, spine, committed, permanentObjects, roots>>
vars == <<alive, refs, isMarked, listVars, needed, held, phase, obj, prev>>

\* Set-up: the permanent objects, the root objects, then gc_commitRootObjects.
\* The program; then gc_collect: markRoots (or :gcm) and the three loops of sweep.
SetUpPhases == {"permanent", "roots", "commitRoots"}
Phases == SetUpPhases \cup {"run", "mark", "gcm", "unmarkRoots", "unmarkFresh", "sweep"}

Pointers == Objects \cup {NIL}

TypeOK ==
    /\ alive \subseteq Objects
    /\ refs \in [Objects -> SUBSET Objects]
    /\ isMarked \in [Objects -> BOOLEAN]
    /\ next \in [Objects -> Pointers]
    /\ {spine, committed, permanentObjects, roots, obj, prev} \subseteq Pointers
    /\ needed \in BOOLEAN
    /\ held \subseteq Objects
    /\ phase \in Phases

Init ==
    /\ alive = {}
    /\ refs = [o \in Objects |-> {}]
    /\ isMarked = [o \in Objects |-> FALSE]
    /\ next = [o \in Objects |-> NIL]
    /\ spine = NIL
    /\ committed = NIL
    /\ permanentObjects = NIL
    /\ roots = NIL
    /\ needed = FALSE
    /\ held = {}
    /\ phase = "permanent"
    /\ obj = NIL
    /\ prev = NIL

-----------------------------------------------------------------------------
\* The objects reached from those in from along the pointers in edges, without
\* going through the objects in stop.
Reach(from, edges, stop) ==
    LET within[n \in 0 .. Cardinality(Objects)] ==
            IF n = 0 THEN from \ stop
            ELSE LET near == within[n - 1]
                 IN  near \cup ((UNION {edges[o] : o \in near}) \ stop)
    IN  within[Cardinality(Objects)]

\* The objects of the list that starts at the pointer p.
List(p) ==
    LET link == [o \in Objects |-> {next[o]} \ {NIL}]
    IN  Reach({p} \ {NIL}, link, {})

\* What never needs to be reached: the roots and the permanent objects.
RootSet == List(roots) \cup List(permanentObjects)

\* What the C code of a step can get hold of.
Accessible == Reach(RootSet \cup held, refs, {})

\* What an object can point to.
ChildSets(s) == {c \in SUBSET s : Cardinality(c) <= MaxRefs}

-----------------------------------------------------------------------------
(* The program.                                                             *)

\* gc_alloc, but for the list that the object is put at the head of.
Allocate(o, children, head) ==
    /\ o \notin alive
    /\ alive' = alive \cup {o}
    /\ refs' = [refs EXCEPT ![o] = children]
    /\ next' = [next EXCEPT ![o] = head]
    /\ isMarked' = [isMarked EXCEPT ![o] = FALSE]
    /\ needed' \in {needed, TRUE}
    /\ UNCHANGED <<committed, permanentObjects, phase, obj, prev>>

\* An object is created; it points to objects that its creator can reach.
New(o) ==
    /\ phase \in {"permanent", "roots", "run"}
    /\ \E children \in ChildSets(Accessible) : Allocate(o, children, spine)
    /\ spine' = o
    /\ held' = held \cup {o}
    /\ UNCHANGED roots

\* repl_new(true): the object is moved at once from the spine to the roots.
NewRoot(o) ==
    /\ phase = "run"
    /\ Cardinality(List(roots)) < MaxRoots
    /\ \E children \in ChildSets(Accessible) : Allocate(o, children, roots)
    /\ roots' = o
    /\ UNCHANGED <<spine, held>>

\* A field of an object is assigned.  Permanent objects are constants.
Assign(o) ==
    /\ phase = "run"
    /\ o \in Accessible \ List(permanentObjects)
    /\ \E children \in ChildSets(Accessible) : refs' = [refs EXCEPT ![o] = children]
    /\ UNCHANGED <<alive, isMarked, listVars, needed, held, phase, obj, prev>>

\* The primitive gc:collect.
RequestCollection ==
    /\ phase = "run"
    /\ needed' = TRUE
    /\ UNCHANGED <<alive, refs, isMarked, listVars, held, phase, obj, prev>>

-----------------------------------------------------------------------------
(* Set-up.                                                                   *)

CommitPermanentObjects ==
    /\ phase = "permanent"
    /\ permanentObjects' = spine
    /\ committed' = spine
    /\ phase' = "roots"
    /\ UNCHANGED <<alive, refs, isMarked, next, spine, roots, needed, held, obj, prev>>

\* The root objects have been created.
CommitRootObjects ==
    /\ phase = "roots"
    /\ phase' = "commitRoots"
    /\ UNCHANGED <<alive, refs, isMarked, listVars, needed, held, obj, prev>>

\* Everything that was created since moves from the spine to the roots.
CommitRoot ==
    /\ phase = "commitRoots"
    /\ spine # committed
    /\ spine' = next[spine]
    /\ next' = [next EXCEPT ![spine] = roots]
    /\ roots' = spine
    /\ UNCHANGED <<alive, refs, isMarked, committed, permanentObjects, needed, held>>
    /\ UNCHANGED <<phase, obj, prev>>

Start ==
    /\ phase = "commitRoots"
    /\ spine = committed
    /\ phase' = "run"
    /\ UNCHANGED <<alive, refs, isMarked, listVars, needed, held, obj, prev>>

-----------------------------------------------------------------------------
(* Collection.                                                               *)

\* gc_commit, between two steps.  C variables point only to what the roots lead to:
\* the REPL, its evaluator, the thread at the head of the run queue.  The
\* loop of runSteps then collects if that is needed; that of the REPL does not.
Commit ==
    /\ phase = "run"
    /\ committed' = spine
    /\ held' = {}
    /\ \/ UNCHANGED <<phase, obj>>
       \/ needed /\ phase' = "mark" /\ obj' = roots
    /\ UNCHANGED <<alive, refs, isMarked, next, spine, permanentObjects, roots>>
    /\ UNCHANGED <<needed, prev>>

\* The REPL's commands :gc and :gcm, without gc_commit.
Command ==
    /\ phase = "run"
    /\ held' = {}
    /\ phase' \in {"mark"} \cup (IF MarkCommand THEN {"gcm"} ELSE {})
    /\ obj' = roots
    /\ UNCHANGED <<alive, refs, isMarked, listVars, needed, prev>>

\* What any_mark(o) marks: it returns at once from an object that is marked.
Marks(o) == Reach({o}, refs, {x \in Objects : isMarked[x]})

\* gc_markRoots.
MarkRoot ==
    /\ phase \in {"mark", "gcm"}
    /\ obj # NIL
    /\ isMarked' = [o \in Objects |-> isMarked[o] \/ o \in Marks(obj)]
    /\ obj' = next[obj]
    /\ UNCHANGED <<alive, refs, listVars, needed, held, phase, prev>>

\* The end of markRoots: gc_sweep starts; :gcm does no more.
SweepBegins ==
    /\ phase \in {"mark", "gcm"}
    /\ obj = NIL
    /\ phase' = IF phase = "mark" THEN "unmarkRoots" ELSE "run"
    /\ obj' = IF phase = "mark" THEN roots ELSE NIL
    /\ UNCHANGED <<alive, refs, isMarked, listVars, needed, held, prev>>

\* Unmarks obj if it is not the end of the loop, and goes on to the next one.
Unmark ==
    /\ isMarked' = [isMarked EXCEPT ![obj] = FALSE]
    /\ obj' = next[obj]

\* Mistake: the roots keep their marks.
RootsKeepMarks ==
    /\ phase = "unmarkRoots"
    /\ phase' = "unmarkFresh"
    /\ obj' = spine
    /\ prev' = NIL
    /\ UNCHANGED <<alive, refs, isMarked, listVars, needed, held>>

UnmarkRoot ==
    /\ phase = "unmarkRoots"
    /\ IF obj # NIL
       THEN Unmark /\ UNCHANGED <<phase, prev>>
       ELSE /\ phase' = "unmarkFresh"
            /\ obj' = spine
            /\ prev' = NIL
            /\ UNCHANGED isMarked
    /\ UNCHANGED <<alive, refs, listVars, needed, held>>

\* Mistake: the objects of the current step keep their marks.
FreshKeepMarks ==
    /\ phase = "unmarkFresh"
    /\ IF obj # committed
       THEN obj' = next[obj] /\ prev' = obj /\ UNCHANGED phase
       ELSE phase' = "sweep" /\ UNCHANGED <<obj, prev>>
    /\ UNCHANGED <<alive, refs, isMarked, listVars, needed, held>>

\* The objects that are not committed are not swept.
UnmarkFresh ==
    /\ phase = "unmarkFresh"
    /\ IF obj # committed
       THEN Unmark /\ prev' = obj /\ UNCHANGED phase
       ELSE phase' = "sweep" /\ UNCHANGED <<isMarked, obj, prev>>
    /\ UNCHANGED <<alive, refs, listVars, needed, held>>

\* The current object of the sweep is kept.
Keep ==
    /\ phase = "sweep"
    /\ obj # permanentObjects
    /\ isMarked[obj]

\* Mistake: the mark is not cleared.
SweepKeepsMark ==
    /\ Keep
    /\ prev' = obj
    /\ obj' = next[obj]
    /\ UNCHANGED <<alive, refs, isMarked, listVars, needed, held, phase>>

SweepMarked ==
    /\ Keep
    /\ Unmark
    /\ prev' = obj
    /\ UNCHANGED <<alive, refs, listVars, needed, held, phase>>

\* The current object is freed, and _committed becomes the pointer head if the
\* object is what it points to.
SweepFreeing(head) ==
    /\ phase = "sweep"
    /\ obj # permanentObjects
    /\ ~isMarked[obj]
    /\ spine' = IF prev = NIL THEN next[obj] ELSE spine
    /\ next' = [o \in Objects |-> IF o = obj THEN NIL
                                  ELSE IF o = prev THEN next[obj] ELSE next[o]]
    /\ committed' = IF obj = committed THEN head ELSE committed
    /\ alive' = alive \ {obj}
    /\ refs' = [refs EXCEPT ![obj] = {}]
    /\ obj' = next[obj]
    /\ UNCHANGED <<isMarked, permanentObjects, roots, needed, held, phase, prev>>

\* Mistake: _committed is left as it is.
SweepKeepsCommitted == SweepFreeing(committed)

SweepUnmarked == SweepFreeing(next[obj])

SweepEnds ==
    /\ phase = "sweep"
    /\ obj = permanentObjects
    /\ needed' = FALSE
    /\ phase' = "run"
    /\ obj' = NIL
    /\ prev' = NIL
    /\ UNCHANGED <<alive, refs, isMarked, listVars, held>>

-----------------------------------------------------------------------------
Next ==
    \/ \E o \in Objects : New(o) \/ NewRoot(o) \/ Assign(o)
    \/ RequestCollection
    \/ CommitPermanentObjects
    \/ CommitRootObjects
    \/ CommitRoot
    \/ Start
    \/ Commit
    \/ Command
    \/ MarkRoot
    \/ SweepBegins
    \/ UnmarkRoot
    \/ UnmarkFresh
    \/ SweepMarked
    \/ SweepUnmarked
    \/ SweepEnds

Spec == Init /\ [][Next]_vars

-----------------------------------------------------------------------------
(* Properties.                                                               *)

Memory == INSTANCE Heap WITH rootSet <- RootSet

\* The collector, the lists it keeps and the commits between two steps together
\* never free what the program still needs: GC implements Heap.
MemoryIsSafe == Memory!Spec

\* Types, and: every allocated object is in exactly one of the two lists, and _committed and
\* _permanentObjects point into the spine in this order: gc_collect walks to
\* them without meeting NULL, and gc_stop frees each object once.
ListsAreExact ==
    /\ TypeOK
    /\ List(spine) \cup List(roots) = alive
    /\ List(spine) \cap List(roots) = {}
    /\ List(permanentObjects) \subseteq List(committed)
    /\ List(committed) \subseteq List(spine)

\* A collection leaves no garbage among the committed objects.
GarbageIsCollected ==
    [][ phase = "sweep" /\ phase' = "run" =>
           List(committed) \subseteq Accessible ]_vars

\* "Root objects are always marked during GC collection" (setup.c:21) and "allow
\* their contents to be marked" (globals.c:58): when the sweep starts, whatever
\* can be reached from a root is marked.
ContentsAreMarked ==
    phase = "unmarkRoots" /\ obj = roots =>
       \A o \in Reach(List(roots), refs, {}) : isMarked[o]

=============================================================================
