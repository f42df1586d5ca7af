-------------------------- MODULE EvaluatorProofs --------------------------
(***************************************************************************)
(* What is true of the evaluator whatever the programs: frames and         *)
(* environments are of their types, a call in tail position pushes no      *)
(* frame, and the operands of every continuation are there when it pops    *)
(* them.                                                                   *)
(*                                                                         *)
(* The proofs rest on two things.  A set of objects that has the parts of  *)
(* each of them has everything on the stacks and in the environments; it   *)
(* grows with the objects that a step makes.  And the stack of expressions *)
(* can be read from its top as a list of what it needs: how many operands  *)
(* it finds and of which type the first one is.  A step pops a frame and   *)
(* pushes others that need and leave together what the first one did.      *)
(***************************************************************************)
EXTENDS Evaluator, Programs, SequenceTheorems, FiniteSetTheorems, WellFoundedInduction, TLAPS

-----------------------------------------------------------------------------
(* Numbers and recursive functions over them. *)

\* A set of numbers that is not empty has a least one.
LEMMA LeastNumber ==
    ASSUME NEW s \in SUBSET Nat, s # {}
    PROVE  \E n \in s : \A m \in s : n <= m
<1> DEFINE less == {ss \in Nat \X Nat : ss[1] < ss[2]}
<1>1. OpToRel(<, Nat) = less
  BY DEF OpToRel
<1>2. IsWellFoundedOn(less, Nat)
  BY <1>1, NatLessThanWellFounded
<1>3. \E n \in s : \A m \in s : ~ (<<m, n>> \in less)
  <2> HIDE DEF less
  <2> QED BY <1>2, WFMin
<1>4. PICK n \in s : \A m \in s : ~ (<<m, n>> \in less)
  BY <1>3
<1>5. ASSUME NEW m \in s PROVE n <= m
  <2>1. ~ (m < n)
    BY <1>4
  <2> QED BY <2>1
<1> QED BY <1>5

\* What holds of 0 and goes over from each number to the next holds of all of them.
LEMMA Counting ==
    ASSUME NEW n \in Nat, NEW S, 0 \in S, \A m \in 1..n : m - 1 \in S => m \in S
    PROVE  \A m \in 0..n : m \in S
<1> DEFINE Bad == {m \in 0..n : m \notin S}
<1> SUFFICES ASSUME Bad # {} PROVE FALSE
  OBVIOUS
<1>1. PICK m \in Bad : \A k \in Bad : m <= k
  <2>1. Bad \in SUBSET Nat
    OBVIOUS
  <2> HIDE DEF Bad
  <2> QED BY <2>1, LeastNumber
<1>2. m \in 1..n
  OBVIOUS
<1>3. m - 1 \in Bad
  BY <1>2
<1> QED BY <1>1, <1>2, <1>3

\* The least number of a set of them that is not empty.
LEMMA MinIs ==
    ASSUME NEW s \in SUBSET Nat, s # {}
    PROVE  Min(s) \in s /\ \A m \in s : Min(s) <= m
BY LeastNumber DEF Min

\* The greatest number of a set of them that is not empty and has a bound.
LEMMA MaxIs ==
    ASSUME NEW n \in Nat, NEW s \in SUBSET (0..n), s # {}
    PROVE  Max(s) \in s /\ \A m \in s : Max(s) >= m
<1> DEFINE t == {n - m : m \in s}
<1>1. t \in SUBSET Nat /\ t # {}
  <2>1. \A m \in s : n - m \in Nat
    OBVIOUS
  <2>2. t # {}
    <3>1. PICK m \in s : TRUE
      OBVIOUS
    <3>2. n - m \in t
      OBVIOUS
    <3> QED BY <3>2
  <2> QED BY <2>1, <2>2
<1>2. PICK k \in t : \A m \in t : k <= m
  <2> HIDE DEF t
  <2> QED BY <1>1, LeastNumber
<1>3. n - k \in s
  <2>1. PICK m \in s : k = n - m
    BY <1>2
  <2> QED BY <2>1
<1>4. \A m \in s : n - k >= m
  <2> SUFFICES ASSUME NEW m \in s PROVE n - k >= m
    OBVIOUS
  <2>1. n - m \in t
    OBVIOUS
  <2>2. k <= n - m /\ k \in Nat
    BY <1>1, <1>2, <2>1
  <2> QED BY <2>2
<1>5. \E m \in s : \A l \in s : m >= l
  BY <1>3, <1>4
<1> QED BY <1>5 DEF Max

\* f takes the first n steps of a function over a set of values.
Iterates(f, n, first, next) ==
    f[0] = first /\ \A i \in 1..n : f[i] = next[<<i, f[i - 1]>>]

\* A value and a function from each value to the next one give a function of numbers.
LEMMA IterateExists ==
    ASSUME NEW n \in Nat, NEW V, NEW first \in V, NEW next \in [(1..n) \X V -> V]
    PROVE  \E f \in [0..n -> V] : Iterates(f, n, first, next)
<1> DEFINE Good == {m \in 0..n : \E f \in [0..m -> V] : Iterates(f, m, first, next)}
<1>1. 0 \in Good
  <2> DEFINE f == [i \in 0..0 |-> first]
  <2>1. f \in [0..0 -> V] /\ Iterates(f, 0, first, next)
    BY DEF Iterates
  <2> QED BY <2>1
<1>2. ASSUME NEW m \in 1..n, m - 1 \in Good PROVE m \in Good
  <2>1. PICK f \in [0..(m - 1) -> V] : Iterates(f, m - 1, first, next)
    BY <1>2
  <2> DEFINE g == [i \in 0..m |-> IF i = m THEN next[<<m, f[m - 1]>>] ELSE f[i]]
  <2>2. g \in [0..m -> V]
    OBVIOUS
  <2>3. Iterates(g, m, first, next)
    <3>1. g[0] = first
      BY <2>1 DEF Iterates
    <3>2. ASSUME NEW i \in 1..m PROVE g[i] = next[<<i, g[i - 1]>>]
      <4>1. CASE i = m
        <5>1. g[m] = next[<<m, f[m - 1]>>] /\ i - 1 \in 0..m /\ i - 1 # m
          BY <4>1
        <5>2. g[i - 1] = f[i - 1]
          BY <5>1
        <5> QED BY <4>1, <5>1, <5>2
      <4>2. CASE i # m
        <5>1. i \in 1..(m - 1) /\ i - 1 \in 0..(m - 1) /\ i - 1 # m
          BY <4>2
        <5>2. f[i] = next[<<i, f[i - 1]>>]
          BY <2>1, <5>1 DEF Iterates
        <5>3. g[i] = f[i] /\ g[i - 1] = f[i - 1]
          BY <4>2, <5>1
        <5> QED BY <5>2, <5>3
      <4> QED BY <4>1, <4>2
    <3> QED BY <3>1, <3>2 DEF Iterates
  <2> QED BY <2>2, <2>3
<1>3. \A m \in 0..n : m \in Good
  <2> HIDE DEF Good
  <2> QED BY <1>1, <1>2, Counting
<1>4. n \in Good
  <2> HIDE DEF Good
  <2> QED BY <1>3
<1> QED BY <1>4

-----------------------------------------------------------------------------
(* Sets of objects. *)

\* An object of a set of objects is one of a larger set, with more triples.
LEMMA ObjectGrows ==
    ASSUME NEW S, NEW T, S \subseteq T, NEW n \in Nat, NEW m \in Nat, n <= m,
           NEW obj, IsObject(obj, S, n)
    PROVE  IsObject(obj, T, m)
<1>1. Seq(S) \subseteq Seq(T)
  BY SeqMonotonic
<1>2. Bindings(S) \subseteq Bindings(T)
  <2>1. [lhs : S, rhs : S] \subseteq [lhs : T, rhs : T]
    OBVIOUS
  <2> QED BY <2>1, SeqMonotonic DEF Bindings
<1>3. Rules(S) \subseteq Rules(T)
  <2>1. [params : S, body : S] \subseteq [params : T, body : T]
    OBVIOUS
  <2> QED BY <2>1, SeqMonotonic DEF Rules
<1>4. 0..n \subseteq 0..m
  OBVIOUS
<1> QED BY <1>1, <1>2, <1>3, <1>4 DEF IsObject

\* Objects whose parts are objects of a set, or are among them, can join the set.
LEMMA ObjectsJoin ==
    ASSUME NEW S, NEW n \in Nat, Closed(S, n), NEW New,
           \A obj \in New : IsObject(obj, S \union New, n)
    PROVE  Closed(S \union New, n)
<1> SUFFICES ASSUME NEW obj \in S \union New PROVE IsObject(obj, S \union New, n)
  BY DEF Closed
<1>1. CASE obj \in S
  <2>1. IsObject(obj, S, n) /\ S \subseteq S \union New /\ n <= n
    BY <1>1 DEF Closed
  <2> HIDE DEF IsObject
  <2> QED BY <2>1, ObjectGrows
<1> QED BY <1>1

\* T is a larger set of objects that has another one.
With(S, n, T, obj) == S \subseteq T /\ Closed(T, n) /\ obj \in T

\* An object whose parts are in a set is in a larger one.
LEMMA ObjectJoins ==
    ASSUME NEW S, NEW n \in Nat, Closed(S, n), NEW obj, IsObject(obj, S, n)
    PROVE  \E T : With(S, n, T, obj)
<1> DEFINE T == S \union {obj}
<1>1. IsObject(obj, T, n)
  BY ObjectGrows
<1>2. Closed(T, n)
  BY <1>1, ObjectsJoin
<1>3. With(S, n, T, obj)
  BY <1>2 DEF With
<1> QED BY <1>3

\* A set of objects stays one when there are more triples.
LEMMA ClosedGrows ==
    ASSUME NEW S, NEW n \in Nat, NEW m \in Nat, n <= m, Closed(S, n)
    PROVE  Closed(S, m)
<1> SUFFICES ASSUME NEW obj \in S PROVE IsObject(obj, S, m)
  BY DEF Closed
<1>1. IsObject(obj, S, n)
  BY DEF Closed
<1> QED BY <1>1, ObjectGrows

-----------------------------------------------------------------------------
(* What the stack of expressions needs of the stack of operands. *)

\* What the j-th frame pops and pushes, whether it is a handler and how many operands it keeps.
PopsAt(es, j) == Pops(es[j].expr)
PushesAt(es, j) == Pushes(es[j].expr)
Handles(es, j) == es[j].expr.type = "ExceptionHandler"
KeptAt(es, j) == Len(es[j].expr.ostack)

\* need[j] operands are enough for the frames from the j-th one on: each finds what it pops,
\* one is left in the end, and no frame above a handler pops an operand that was there when
\* its expression was tried.
Needs(es, need) ==
    /\ need \in [1..(Len(es) + 1) -> Nat]
    /\ need[Len(es) + 1] >= 1
    /\ \A j \in 1..Len(es) :
        /\ PopsAt(es, j) \in Nat /\ PopsAt(es, j) <= need[j]
        /\ PushesAt(es, j) \in Nat
        /\ need[j + 1] <= need[j] - PopsAt(es, j) + PushesAt(es, j)
    /\ \A j \in 1..Len(es) : Handles(es, j) =>
        /\ KeptAt(es, j) \in Nat
        /\ need[j + 1] <= KeptAt(es, j) + 1
        /\ \A h \in 1..j : KeptAt(es, j) <= need[h] - PopsAt(es, h)

\* No handler counts on more than the lowest low operands.
KeepsLow(es, low) == \A j \in 1..Len(es) : Handles(es, j) => KeptAt(es, j) <= low

\* k operands are enough, and no handler counts on more than the lowest low of them.
Enough(es, k, low) ==
    /\ \E need : Needs(es, need) /\ need[1] <= k
    /\ KeepsLow(es, low)

\* left[j] operands are on the stack before the j-th frame.  A handler whose expression leaves
\* more than its value, because of subscribers, can only be reached with more than it keeps.
Spare(es, left, j) == IF left[j] = KeptAt(es, j) + 1 THEN 0 ELSE 1
Counts(es, left) ==
    /\ left \in [1..(Len(es) + 1) -> Nat]
    /\ \A j \in 1..Len(es) :
        /\ PopsAt(es, j) \in Nat /\ PushesAt(es, j) \in Nat
        /\ left[j + 1] = left[j] - PopsAt(es, j) + PushesAt(es, j)
    /\ \A j \in 1..Len(es) : Handles(es, j) =>
        /\ KeptAt(es, j) \in Nat
        /\ KeptAt(es, j) < left[j]
        /\ PopsAt(es, j) = 0 /\ PushesAt(es, j) = 0
        /\ \A h \in 1..j : KeptAt(es, j) + Spare(es, left, j) <= left[h] - PopsAt(es, h)

\* No handler counts on more than the lowest low operands, nor is it reached with them alone.
SparesLow(es, left, low) ==
    \A j \in 1..Len(es) : Handles(es, j) => KeptAt(es, j) + Spare(es, left, j) <= low

\* k operands leave total.
Exact(es, k, low, total) ==
    \E left :
        /\ Counts(es, left) /\ left[1] = k /\ left[Len(es) + 1] = total
        /\ SparesLow(es, left, low)

\* The type of the operand that a frame must find on top, and of the one it leaves there.
Wanted(expr) ==
    IF expr.type # "Continuation" THEN "any"
    ELSE IF expr.name \in {"term", "recordSpec"} THEN "Array"
    ELSE IF expr.name = "primitiveApplyArgs" THEN "List" ELSE "any"
Given(expr) ==
    IF expr.type \in {"Array", "List"} THEN expr.type
    ELSE IF expr.type # "Continuation" THEN "any"
    ELSE IF expr.name = "array" THEN "Array"
    ELSE IF expr.name = "list" THEN "List" ELSE "any"

\* Every frame that wants an operand of a type finds it, top being that of the one on top.
Served(es, top) ==
    \A j \in 1..Len(es) : Wanted(es[j].expr) # "any" =>
        Wanted(es[j].expr) = IF j = 1 THEN top ELSE Given(es[j - 1].expr)

\* A frame that restores an environment; no two of them are in a row.
Saves(es, j) == es[j].expr.type = "SavedEnv"
NoPairs(es) == \A j \in 1..(Len(es) - 1) : ~(Saves(es, j) /\ Saves(es, j + 1))

\* The stack of expressions fits a stack of k operands with one of a type on top.
Fits(es, k, low, top, exact, total) ==
    /\ Enough(es, k, low)
    /\ exact => Exact(es, k, low, total)
    /\ Served(es, top)
    /\ NoPairs(es)

\* rest is es without its first d frames.
Suffix(es, d, rest) ==
    /\ Len(rest) \in Nat
    /\ Len(es) = d + Len(rest)
    /\ \A j \in 1..Len(rest) : rest[j] = es[d + j]

\* The frames of a suffix are those that follow the first d, and need and leave the same.
LEMMA SuffixFrames ==
    ASSUME NEW es, NEW d \in Nat, NEW rest, Suffix(es, d, rest), NEW j \in 1..Len(rest)
    PROVE  /\ d + j \in 1..Len(es)
           /\ PopsAt(rest, j) = PopsAt(es, d + j)
           /\ PushesAt(rest, j) = PushesAt(es, d + j)
           /\ Handles(rest, j) <=> Handles(es, d + j)
           /\ KeptAt(rest, j) = KeptAt(es, d + j)
           /\ Saves(rest, j) <=> Saves(es, d + j)
<1>1. rest[j] = es[d + j] /\ d + j \in 1..Len(es)
  BY DEF Suffix
<1> QED BY <1>1 DEF PopsAt, PushesAt, Handles, KeptAt, Saves

\* What the frames of a stack need, those below need.
LEMMA NeedsBelow ==
    ASSUME NEW es, NEW d \in Nat, NEW rest, Suffix(es, d, rest), NEW need, Needs(es, need)
    PROVE  /\ d + 1 \in 1..(Len(es) + 1)
           /\ Needs(rest, [j \in 1..(Len(rest) + 1) |-> need[d + j]])
<1> DEFINE n == Len(rest)
           below == [j \in 1..(n + 1) |-> need[d + j]]
<1>1. n \in Nat /\ Len(es) = d + n
  BY DEF Suffix
<1>2. \A j \in 1..(n + 1) : d + j \in 1..(Len(es) + 1) /\ below[j] = need[d + j]
  BY <1>1
<1>3. below \in [1..(n + 1) -> Nat]
  BY <1>2 DEF Needs
<1>4. below[n + 1] >= 1
  BY <1>1, <1>2 DEF Needs
<1>5. ASSUME NEW j \in 1..n
      PROVE  /\ PopsAt(rest, j) \in Nat /\ PopsAt(rest, j) <= below[j]
             /\ PushesAt(rest, j) \in Nat
             /\ below[j + 1] <= below[j] - PopsAt(rest, j) + PushesAt(rest, j)
  <2> DEFINE i == d + j
  <2>1. i \in 1..Len(es) /\ PopsAt(rest, j) = PopsAt(es, i) /\ PushesAt(rest, j) = PushesAt(es, i)
    BY SuffixFrames
  <2>2. below[j] = need[i] /\ below[j + 1] = need[i + 1]
    BY <1>1, <1>2
  <2>3. /\ PopsAt(es, i) \in Nat /\ PopsAt(es, i) <= need[i]
        /\ PushesAt(es, i) \in Nat
        /\ need[i + 1] <= need[i] - PopsAt(es, i) + PushesAt(es, i)
    <3> HIDE DEF i
    <3> QED BY <2>1 DEF Needs
  <2> HIDE DEF i, below
  <2> QED BY <2>1, <2>2, <2>3
<1>6. ASSUME NEW j \in 1..n, Handles(rest, j)
      PROVE  /\ KeptAt(rest, j) \in Nat
             /\ below[j + 1] <= KeptAt(rest, j) + 1
             /\ \A h \in 1..j : KeptAt(rest, j) <= below[h] - PopsAt(rest, h)
  <2> DEFINE i == d + j
  <2>1. i \in 1..Len(es) /\ Handles(es, i) /\ KeptAt(rest, j) = KeptAt(es, i)
    BY <1>6, SuffixFrames
  <2>2. below[j + 1] = need[i + 1]
    BY <1>1, <1>2
  <2>3. /\ KeptAt(es, i) \in Nat /\ need[i + 1] <= KeptAt(es, i) + 1
        /\ \A h \in 1..i : KeptAt(es, i) <= need[h] - PopsAt(es, h)
    <3> HIDE DEF i
    <3> QED BY <2>1 DEF Needs
  <2>4. ASSUME NEW h \in 1..j PROVE KeptAt(rest, j) <= below[h] - PopsAt(rest, h)
    <3>1. h \in 1..Len(rest) /\ h \in 1..n /\ d + h \in 1..i
      BY <1>1
    <3>2. PopsAt(rest, h) = PopsAt(es, d + h)
      <4>1. h \in 1..Len(rest)
        BY <3>1
      <4>2. rest[h] = es[d + h]
        BY <4>1 DEF Suffix
      <4> QED BY <4>2 DEF PopsAt
    <3>3. below[h] = need[d + h]
      BY <1>1, <1>2, <3>1
    <3>4. KeptAt(es, i) <= need[d + h] - PopsAt(es, d + h)
      BY <2>3, <3>1
    <3> HIDE DEF i, below
    <3> QED BY <2>1, <3>2, <3>3, <3>4
  <2> HIDE DEF i, below
  <2> QED BY <2>1, <2>2, <2>3, <2>4
<1>7. Needs(rest, below)
  <2> HIDE DEF below
  <2> QED BY <1>3, <1>4, <1>5, <1>6 DEF Needs
<1> QED BY <1>1, <1>7

\* What is counted of a stack is counted of its suffixes from where they begin.
LEMMA CountsBelow ==
    ASSUME NEW es, NEW d \in Nat, NEW rest, Suffix(es, d, rest), NEW left, Counts(es, left)
    PROVE  /\ d + 1 \in 1..(Len(es) + 1)
           /\ Counts(rest, [j \in 1..(Len(rest) + 1) |-> left[d + j]])
           /\ \A j \in 1..Len(rest) :
                Spare(rest, [i \in 1..(Len(rest) + 1) |-> left[d + i]], j) = Spare(es, left, d + j)
<1> DEFINE n == Len(rest)
           below == [j \in 1..(n + 1) |-> left[d + j]]
<1>1. n \in Nat /\ Len(es) = d + n
  BY DEF Suffix
<1>2. \A j \in 1..(n + 1) : d + j \in 1..(Len(es) + 1) /\ below[j] = left[d + j]
  BY <1>1
<1>3. below \in [1..(n + 1) -> Nat]
  BY <1>2 DEF Counts
<1>4. ASSUME NEW j \in 1..n PROVE Spare(rest, below, j) = Spare(es, left, d + j)
  <2>1. KeptAt(rest, j) = KeptAt(es, d + j)
    BY SuffixFrames, SMTT(20)
  <2>2. below[j] = left[d + j]
    BY <1>1, <1>2
  <2> HIDE DEF below
  <2> QED BY <2>1, <2>2 DEF Spare
<1>5. ASSUME NEW j \in 1..n
      PROVE  /\ PopsAt(rest, j) \in Nat
             /\ PushesAt(rest, j) \in Nat
             /\ below[j + 1] = below[j] - PopsAt(rest, j) + PushesAt(rest, j)
  <2> DEFINE i == d + j
  <2>1. i \in 1..Len(es) /\ PopsAt(rest, j) = PopsAt(es, i) /\ PushesAt(rest, j) = PushesAt(es, i)
    BY SuffixFrames
  <2>2. below[j] = left[i] /\ below[j + 1] = left[i + 1]
    BY <1>1, <1>2
  <2>3. /\ PopsAt(es, i) \in Nat
        /\ PushesAt(es, i) \in Nat
        /\ left[i + 1] = left[i] - PopsAt(es, i) + PushesAt(es, i)
    <3> HIDE DEF i
    <3> QED BY <2>1 DEF Counts
  <2> HIDE DEF i, below
  <2> QED BY <2>1, <2>2, <2>3
<1>6. ASSUME NEW j \in 1..n, Handles(rest, j)
      PROVE  /\ KeptAt(rest, j) \in Nat
             /\ KeptAt(rest, j) < below[j]
             /\ PopsAt(rest, j) = 0 /\ PushesAt(rest, j) = 0
             /\ \A h \in 1..j : KeptAt(rest, j) + Spare(rest, below, j) <= below[h] - PopsAt(rest, h)
  <2> DEFINE i == d + j
  <2>1. /\ i \in 1..Len(es) /\ Handles(es, i) /\ KeptAt(rest, j) = KeptAt(es, i)
        /\ PopsAt(rest, j) = PopsAt(es, i) /\ PushesAt(rest, j) = PushesAt(es, i)
    BY <1>6, SuffixFrames
  <2>2. below[j] = left[i] /\ Spare(rest, below, j) = Spare(es, left, i)
    BY <1>1, <1>2, <1>4
  <2>3. /\ KeptAt(es, i) \in Nat /\ KeptAt(es, i) < left[i]
        /\ PopsAt(es, i) = 0 /\ PushesAt(es, i) = 0
        /\ \A h \in 1..i : KeptAt(es, i) + Spare(es, left, i) <= left[h] - PopsAt(es, h)
    <3> HIDE DEF i
    <3> QED BY <2>1 DEF Counts
  <2>4. ASSUME NEW h \in 1..j
        PROVE  KeptAt(rest, j) + Spare(rest, below, j) <= below[h] - PopsAt(rest, h)
    <3>1. h \in 1..Len(rest) /\ h \in 1..n /\ d + h \in 1..i
      BY <1>1
    <3>2. PopsAt(rest, h) = PopsAt(es, d + h)
      <4>1. h \in 1..Len(rest)
        BY <3>1
      <4>2. rest[h] = es[d + h]
        BY <4>1 DEF Suffix
      <4> QED BY <4>2 DEF PopsAt
    <3>3. below[h] = left[d + h]
      BY <1>1, <1>2, <3>1
    <3>4. KeptAt(es, i) + Spare(es, left, i) <= left[d + h] - PopsAt(es, d + h)
      BY <2>3, <3>1
    <3> HIDE DEF i, below
    <3> QED BY <2>1, <2>2, <3>2, <3>3, <3>4
  <2> HIDE DEF i, below
  <2> QED BY <2>1, <2>2, <2>3, <2>4
<1>7. Counts(rest, below)
  <2> HIDE DEF below
  <2> QED BY <1>3, <1>5, <1>6 DEF Counts
<1> QED BY <1>1, <1>4, <1>7

\* Frames on top of others: up[j] operands are on the stack before the j-th of them, and none
\* of the lowest low ones is popped.
Climbs(es, m, up, low, top) ==
    /\ up \in [1..(m + 1) -> Nat]
    /\ \A j \in 1..m :
        /\ PopsAt(es, j) \in Nat /\ PushesAt(es, j) \in Nat
        /\ up[j + 1] = up[j] - PopsAt(es, j) + PushesAt(es, j)
        /\ low <= up[j] - PopsAt(es, j)
    /\ \A j \in 1..m : Handles(es, j) =>
        /\ KeptAt(es, j) \in Nat /\ KeptAt(es, j) <= low
        /\ PopsAt(es, j) = 0 /\ PushesAt(es, j) = 0
        /\ up[j + 1] = KeptAt(es, j) + 1
        /\ \A h \in 1..j : KeptAt(es, j) <= up[h] - PopsAt(es, h)
    /\ \A j \in 1..m : Wanted(es[j].expr) # "any" =>
        Wanted(es[j].expr) = IF j = 1 THEN top ELSE Given(es[j - 1].expr)
    /\ \A j \in 1..m : j < Len(es) => ~(Saves(es, j) /\ Saves(es, j + 1))

\* The frames on top of a stack that needs what they leave need what they find.
LEMMA NeedsAbove ==
    ASSUME NEW es, NEW m \in Nat, NEW rest, Suffix(es, m, rest), NEW need, Needs(rest, need),
           NEW low \in Nat, KeepsLow(rest, low), NEW up, NEW top, Climbs(es, m, up, low, top),
           need[1] <= up[m + 1]
    PROVE  Needs(es, [j \in 1..(Len(es) + 1) |-> IF j <= m THEN up[j] ELSE need[j - m]])
<1> DEFINE n == Len(es)
           all == [j \in 1..(n + 1) |-> IF j <= m THEN up[j] ELSE need[j - m]]
<1>a. /\ up \in [1..(m + 1) -> Nat]
      /\ \A j \in 1..m :
            /\ PopsAt(es, j) \in Nat /\ PushesAt(es, j) \in Nat
            /\ up[j + 1] = up[j] - PopsAt(es, j) + PushesAt(es, j)
            /\ low <= up[j] - PopsAt(es, j)
      /\ \A j \in 1..m : Handles(es, j) =>
            /\ KeptAt(es, j) \in Nat
            /\ PopsAt(es, j) = 0 /\ PushesAt(es, j) = 0
            /\ up[j + 1] = KeptAt(es, j) + 1
            /\ \A h \in 1..j : KeptAt(es, j) <= up[h] - PopsAt(es, h)
  BY DEF Climbs
<1> USE <1>a
<1>b. \A j \in 1..Len(rest) : Handles(rest, j) => KeptAt(rest, j) <= low
  BY DEF KeepsLow
<1> USE <1>b
<1>1. n \in Nat /\ Len(rest) \in Nat /\ n = m + Len(rest)
  BY DEF Suffix
<1>2. \A j \in 1..m : all[j] = up[j] /\ up[j] \in Nat /\ up[j + 1] \in Nat
  <2> SUFFICES ASSUME NEW j \in 1..m
               PROVE  all[j] = up[j] /\ up[j] \in Nat /\ up[j + 1] \in Nat
    OBVIOUS
  <2>1. j \in 1..(m + 1) /\ j + 1 \in 1..(m + 1) /\ j \in 1..(n + 1)
    BY <1>1
  <2> QED BY <2>1
<1>3. \A j \in (m + 1)..(n + 1) : all[j] = need[j - m] /\ j - m \in 1..(Len(rest) + 1)
  BY <1>1
<1>4. need \in [1..(Len(rest) + 1) -> Nat] /\ need[Len(rest) + 1] >= 1
  BY DEF Needs
<1>5. all \in [1..(n + 1) -> Nat]
  <2>1. ASSUME NEW j \in 1..(n + 1) PROVE all[j] \in Nat
    <3>1. CASE j <= m
      <4>1. j \in 1..m
        BY <3>1
      <4> HIDE DEF all
      <4> QED BY <4>1, <1>2
    <3>2. CASE j > m
      <4>1. j \in (m + 1)..(n + 1)
        BY <3>2, <1>1
      <4> HIDE DEF all
      <4> QED BY <4>1, <1>3, <1>4
    <3> QED BY <3>1, <3>2
  <2> QED BY <2>1
<1>6. all[n + 1] >= 1
  <2>1. all[n + 1] = need[n + 1 - m] /\ n + 1 - m = Len(rest) + 1
    BY <1>1, <1>3
  <2> HIDE DEF all
  <2> QED BY <2>1, <1>4
<1>7. ASSUME NEW j \in 1..m PROVE all[j + 1] <= up[j + 1]
  <2>1. CASE j < m
    <3>1. j + 1 \in 1..m
      BY <2>1
    <3> HIDE DEF all
    <3>2. all[j + 1] = up[j + 1] /\ up[j + 1] \in Nat
      BY <3>1, <1>2
    <3> QED BY <3>2
  <2>2. CASE j = m
    <3>1. all[j + 1] = need[1]
      BY <2>2, <1>1, <1>3
    <3> HIDE DEF all
    <3> QED BY <3>1, <2>2
  <2> QED BY <2>1, <2>2
<1>8. ASSUME NEW j \in (m + 1)..n
      PROVE  /\ j - m \in 1..Len(rest)
             /\ PopsAt(es, j) = PopsAt(rest, j - m) /\ PushesAt(es, j) = PushesAt(rest, j - m)
             /\ KeptAt(es, j) = KeptAt(rest, j - m)
             /\ Handles(es, j) <=> Handles(rest, j - m)
             /\ all[j] = need[j - m] /\ all[j + 1] = need[j - m + 1]
  <2>1. j - m \in 1..Len(rest) /\ m + (j - m) = j /\ j + 1 - m = j - m + 1
    BY <1>1
  <2>2. rest[j - m] = es[j]
    BY <2>1 DEF Suffix
  <2>3. all[j] = need[j - m] /\ all[j + 1] = need[j - m + 1]
    BY <2>1, <1>1, <1>3
  <2> QED BY <2>1, <2>2, <2>3 DEF PopsAt, PushesAt, KeptAt, Handles
<1>9. ASSUME NEW j \in 1..n
      PROVE  /\ PopsAt(es, j) \in Nat /\ PopsAt(es, j) <= all[j]
             /\ PushesAt(es, j) \in Nat
             /\ all[j + 1] <= all[j] - PopsAt(es, j) + PushesAt(es, j)
  <2>1. CASE j <= m
    <3>1. j \in 1..m
      BY <2>1
    <3> HIDE DEF all
    <3>2. all[j] = up[j] /\ up[j] \in Nat
      BY <3>1, <1>2
    <3>3. all[j + 1] <= up[j + 1]
      BY <3>1, <1>7
    <3>4. /\ PopsAt(es, j) \in Nat /\ PushesAt(es, j) \in Nat
          /\ up[j + 1] = up[j] - PopsAt(es, j) + PushesAt(es, j)
          /\ low <= up[j] - PopsAt(es, j)
      BY <3>1
    <3> QED BY <3>2, <3>3, <3>4
  <2>2. CASE j > m
    <3>1. j \in (m + 1)..n
      BY <2>2, <1>1
    <3> HIDE DEF all
    <3>2. /\ j - m \in 1..Len(rest)
          /\ PopsAt(es, j) = PopsAt(rest, j - m) /\ PushesAt(es, j) = PushesAt(rest, j - m)
          /\ all[j] = need[j - m] /\ all[j + 1] = need[j - m + 1]
      BY <3>1, <1>8
    <3>3. PICK i \in 1..Len(rest) : i = j - m
      BY <3>2
    <3> QED BY <3>2, <3>3 DEF Needs
  <2> QED BY <2>1, <2>2, <1>1
<1>10. ASSUME NEW j \in 1..n, Handles(es, j)
       PROVE  /\ KeptAt(es, j) \in Nat
              /\ all[j + 1] <= KeptAt(es, j) + 1
              /\ \A h \in 1..j : KeptAt(es, j) <= all[h] - PopsAt(es, h)
  <2>1. CASE j <= m
    <3>1. j \in 1..m
      BY <2>1
    <3>2. /\ KeptAt(es, j) \in Nat /\ up[j + 1] = KeptAt(es, j) + 1
          /\ \A h \in 1..j : KeptAt(es, j) <= up[h] - PopsAt(es, h)
      BY <3>1, <1>10
    <3> HIDE DEF all
    <3>3. all[j + 1] <= up[j + 1]
      BY <3>1, <1>7
    <3>4. ASSUME NEW h \in 1..j PROVE h \in 1..m /\ all[h] = up[h]
      <4>1. h \in 1..m
        BY <3>1
      <4> QED BY <4>1, <1>2
    <3>5. all[j + 1] <= KeptAt(es, j) + 1
      BY <3>2, <3>3
    <3>6. \A h \in 1..j : KeptAt(es, j) <= all[h] - PopsAt(es, h)
      BY <3>2, <3>4
    <3> QED BY <3>2, <3>5, <3>6
  <2>2. CASE j > m
    <3>1. j \in (m + 1)..n
      BY <2>2, <1>1
    <3> HIDE DEF all
    <3>2. /\ j - m \in 1..Len(rest) /\ Handles(rest, j - m)
          /\ KeptAt(es, j) = KeptAt(rest, j - m) /\ all[j + 1] = need[j - m + 1]
      BY <3>1, <1>8, <1>10
    <3>3. PICK i \in 1..Len(rest) : i = j - m
      BY <3>2
    <3>4. /\ KeptAt(rest, i) \in Nat /\ KeptAt(rest, i) <= low
          /\ need[i + 1] <= KeptAt(rest, i) + 1
          /\ \A h \in 1..i : KeptAt(rest, i) <= need[h] - PopsAt(rest, h)
      BY <3>2, <3>3 DEF Needs
    <3>5. ASSUME NEW h \in 1..j PROVE KeptAt(es, j) <= all[h] - PopsAt(es, h)
      <4>1. CASE h <= m
        <5>1. h \in 1..m /\ PopsAt(es, h) \in Nat /\ up[h] \in Nat /\ low <= up[h] - PopsAt(es, h)
          BY <4>1
        <5>2. all[h] = up[h]
          BY <5>1, <1>2
        <5>3. KeptAt(es, j) \in Nat /\ KeptAt(es, j) <= low
          BY <3>2, <3>3, <3>4
        <5>4. KeptAt(es, j) <= up[h] - PopsAt(es, h)
          <6>1. PICK a, b \in Nat : a = up[h] /\ b = PopsAt(es, h)
            BY <5>1
          <6>2. low <= a - b
            BY <5>1, <6>1
          <6>3. KeptAt(es, j) <= a - b
            BY <5>3, <6>2
          <6> QED BY <6>1, <6>3
        <5> QED BY <5>2, <5>4
      <4>2. CASE h > m
        <5>1. h \in (m + 1)..n
          BY <4>2, <1>1
        <5>2. h - m \in 1..i
          BY <4>2, <3>3, <1>1
        <5>3. PopsAt(es, h) = PopsAt(rest, h - m) /\ all[h] = need[h - m]
          BY <5>1, <1>8
        <5>4. PICK g \in 1..i : g = h - m
          BY <5>2
        <5> QED BY <5>3, <5>4, <3>2, <3>3, <3>4
      <4> QED BY <4>1, <4>2, <1>1
    <3> QED BY <3>2, <3>3, <3>4, <3>5
  <2> HIDE DEF all
  <2> QED BY <2>1, <2>2, <1>1
<1>11. Needs(es, all)
  <2> HIDE DEF all
  <2> QED BY <1>5, <1>6, <1>9, <1>10 DEF Needs
<1> QED BY <1>11

\* The same, counting exactly.
LEMMA CountsAbove ==
    ASSUME NEW es, NEW m \in Nat, NEW rest, Suffix(es, m, rest), NEW left, Counts(rest, left),
           NEW low \in Nat, SparesLow(rest, left, low), NEW up, NEW top,
           Climbs(es, m, up, low, top), left[1] = up[m + 1]
    PROVE  \E all : /\ Counts(es, all) /\ SparesLow(es, all, low)
                    /\ all = [j \in 1..(Len(es) + 1) |-> IF j <= m THEN up[j] ELSE left[j - m]]
<1> DEFINE n == Len(es)
           all == [j \in 1..(n + 1) |-> IF j <= m THEN up[j] ELSE left[j - m]]
<1>a. /\ up \in [1..(m + 1) -> Nat]
      /\ \A j \in 1..m :
            /\ PopsAt(es, j) \in Nat /\ PushesAt(es, j) \in Nat
            /\ up[j + 1] = up[j] - PopsAt(es, j) + PushesAt(es, j)
            /\ low <= up[j] - PopsAt(es, j)
      /\ \A j \in 1..m : Handles(es, j) =>
            /\ KeptAt(es, j) \in Nat /\ KeptAt(es, j) <= low
            /\ PopsAt(es, j) = 0 /\ PushesAt(es, j) = 0
            /\ up[j + 1] = KeptAt(es, j) + 1
            /\ \A h \in 1..j : KeptAt(es, j) <= up[h] - PopsAt(es, h)
  BY DEF Climbs
<1> USE <1>a
<1>b. \A j \in 1..Len(rest) : Handles(rest, j) => KeptAt(rest, j) + Spare(rest, left, j) <= low
  BY DEF SparesLow
<1> USE <1>b
<1>1. n \in Nat /\ Len(rest) \in Nat /\ n = m + Len(rest)
  BY DEF Suffix
<1>2. \A j \in 1..m : all[j] = up[j] /\ up[j] \in Nat /\ up[j + 1] \in Nat
  <2> SUFFICES ASSUME NEW j \in 1..m
               PROVE  all[j] = up[j] /\ up[j] \in Nat /\ up[j + 1] \in Nat
    OBVIOUS
  <2>1. j \in 1..(m + 1) /\ j + 1 \in 1..(m + 1) /\ j \in 1..(n + 1)
    BY <1>1
  <2> QED BY <2>1
<1>3. \A j \in (m + 1)..(n + 1) : all[j] = left[j - m] /\ j - m \in 1..(Len(rest) + 1)
  BY <1>1
<1>4. left \in [1..(Len(rest) + 1) -> Nat]
  BY DEF Counts
<1>5. all \in [1..(n + 1) -> Nat]
  <2>1. ASSUME NEW j \in 1..(n + 1) PROVE all[j] \in Nat
    <3>1. CASE j <= m
      <4>1. j \in 1..m
        BY <3>1
      <4> HIDE DEF all
      <4> QED BY <4>1, <1>2
    <3>2. CASE j > m
      <4>1. j \in (m + 1)..(n + 1)
        BY <3>2, <1>1
      <4> HIDE DEF all
      <4> QED BY <4>1, <1>3, <1>4
    <3> QED BY <3>1, <3>2
  <2> QED BY <2>1
<1>7. ASSUME NEW j \in 1..m PROVE all[j + 1] = up[j + 1]
  <2>1. CASE j < m
    <3>1. j + 1 \in 1..m
      BY <2>1
    <3> HIDE DEF all
    <3> QED BY <3>1, <1>2
  <2>2. CASE j = m
    <3>1. all[j + 1] = left[1]
      BY <2>2, <1>1, <1>3
    <3> HIDE DEF all
    <3> QED BY <3>1, <2>2
  <2> QED BY <2>1, <2>2
<1>8. ASSUME NEW j \in (m + 1)..n
      PROVE  /\ j - m \in 1..Len(rest)
             /\ PopsAt(es, j) = PopsAt(rest, j - m) /\ PushesAt(es, j) = PushesAt(rest, j - m)
             /\ KeptAt(es, j) = KeptAt(rest, j - m)
             /\ Handles(es, j) <=> Handles(rest, j - m)
             /\ all[j] = left[j - m] /\ all[j + 1] = left[j - m + 1]
  <2>1. j - m \in 1..Len(rest) /\ m + (j - m) = j /\ j + 1 - m = j - m + 1
    BY <1>1
  <2>2. rest[j - m] = es[j]
    BY <2>1 DEF Suffix
  <2>3. all[j] = left[j - m] /\ all[j + 1] = left[j - m + 1]
    BY <2>1, <1>1, <1>3
  <2> QED BY <2>1, <2>2, <2>3 DEF PopsAt, PushesAt, KeptAt, Handles
<1>9. ASSUME NEW j \in 1..n
      PROVE  /\ PopsAt(es, j) \in Nat
             /\ PushesAt(es, j) \in Nat
             /\ all[j + 1] = all[j] - PopsAt(es, j) + PushesAt(es, j)
  <2> HIDE DEF all
  <2>1. CASE j <= m
    <3>1. j \in 1..m
      BY <2>1
    <3>2. all[j] = up[j] /\ up[j] \in Nat
      BY <3>1, <1>2
    <3>3. all[j + 1] = up[j + 1]
      BY <3>1, <1>7
    <3>4. /\ PopsAt(es, j) \in Nat /\ PushesAt(es, j) \in Nat
          /\ up[j + 1] = up[j] - PopsAt(es, j) + PushesAt(es, j)
      BY <3>1
    <3> QED BY <3>2, <3>3, <3>4
  <2>2. CASE j > m
    <3>1. j \in (m + 1)..n
      BY <2>2, <1>1
    <3>2. /\ j - m \in 1..Len(rest)
          /\ PopsAt(es, j) = PopsAt(rest, j - m) /\ PushesAt(es, j) = PushesAt(rest, j - m)
          /\ all[j] = left[j - m] /\ all[j + 1] = left[j - m + 1]
      BY <3>1, <1>8
    <3>3. PICK i \in 1..Len(rest) : i = j - m
      BY <3>2
    <3> QED BY <3>2, <3>3 DEF Counts
  <2> QED BY <2>1, <2>2, <1>1
<1>10. ASSUME NEW j \in 1..n, Handles(es, j)
       PROVE  /\ KeptAt(es, j) \in Nat
              /\ KeptAt(es, j) < all[j]
              /\ PopsAt(es, j) = 0 /\ PushesAt(es, j) = 0
              /\ \A h \in 1..j : KeptAt(es, j) + Spare(es, all, j) <= all[h] - PopsAt(es, h)
              /\ KeptAt(es, j) + Spare(es, all, j) <= low
  <2> HIDE DEF all
  <2>1. CASE j <= m
    <3>1. j \in 1..m
      BY <2>1
    <3>2. /\ KeptAt(es, j) \in Nat /\ up[j + 1] = KeptAt(es, j) + 1
          /\ PopsAt(es, j) = 0 /\ PushesAt(es, j) = 0
          /\ \A h \in 1..j : KeptAt(es, j) <= up[h] - PopsAt(es, h)
      BY <3>1, <1>10
    <3>3. ASSUME NEW h \in 1..j PROVE h \in 1..m /\ all[h] = up[h]
      <4>1. h \in 1..m
        BY <3>1
      <4> QED BY <4>1, <1>2
    <3>4. all[j] = KeptAt(es, j) + 1
      <4>1. up[j + 1] = up[j] - 0 + 0 /\ up[j] \in Nat
        BY <3>1, <3>2, <1>2
      <4>2. all[j] = up[j]
        BY <3>1, <1>2
      <4> QED BY <3>2, <4>1, <4>2
    <3>5. Spare(es, all, j) = 0
      BY <3>4 DEF Spare
    <3>6. \A h \in 1..j : KeptAt(es, j) <= all[h] - PopsAt(es, h)
      BY <3>2, <3>3
    <3>7. KeptAt(es, j) + Spare(es, all, j) = KeptAt(es, j) /\ KeptAt(es, j) < all[j]
      BY <3>2, <3>4, <3>5
    <3>8. /\ \A h \in 1..j : KeptAt(es, j) + Spare(es, all, j) <= all[h] - PopsAt(es, h)
          /\ KeptAt(es, j) + Spare(es, all, j) <= low
      BY <3>1, <3>2, <3>6, <3>7, <1>10
    <3> QED BY <2>1, <3>2, <3>7, <3>8
  <2>2. CASE j > m
    <3>1. j \in (m + 1)..n
      BY <2>2, <1>1
    <3>2. /\ j - m \in 1..Len(rest) /\ Handles(rest, j - m)
          /\ PopsAt(es, j) = PopsAt(rest, j - m) /\ PushesAt(es, j) = PushesAt(rest, j - m)
          /\ KeptAt(es, j) = KeptAt(rest, j - m) /\ all[j] = left[j - m]
      BY <3>1, <1>8, <1>10
    <3>3. PICK i \in 1..Len(rest) : i = j - m
      BY <3>2
    <3>4. Spare(es, all, j) = Spare(rest, left, i) /\ Spare(rest, left, i) \in Nat
      BY <3>2, <3>3 DEF Spare
    <3>5. /\ KeptAt(rest, i) \in Nat
          /\ KeptAt(rest, i) < left[i]
          /\ PopsAt(rest, i) = 0 /\ PushesAt(rest, i) = 0
          /\ \A h \in 1..i : KeptAt(rest, i) + Spare(rest, left, i) <= left[h] - PopsAt(rest, h)
      BY <3>2, <3>3 DEF Counts
    <3>6. PICK c \in Nat : c = KeptAt(es, j) + Spare(es, all, j)
      BY <3>2, <3>3, <3>4, <3>5
    <3>7. c <= low
      BY <3>2, <3>3, <3>4, <3>6
    <3>8. ASSUME NEW h \in 1..j PROVE c <= all[h] - PopsAt(es, h)
      <4>1. CASE h <= m
        <5>1. h \in 1..m /\ PopsAt(es, h) \in Nat /\ up[h] \in Nat /\ low <= up[h] - PopsAt(es, h)
          BY <4>1
        <5>2. all[h] = up[h]
          BY <5>1, <1>2
        <5>3. PICK a, b \in Nat : a = up[h] /\ b = PopsAt(es, h)
          BY <5>1
        <5>4. low <= a - b
          BY <5>1, <5>3
        <5>5. c <= a - b
          BY <3>7, <5>4
        <5> QED BY <5>2, <5>3, <5>5
      <4>2. CASE h > m
        <5>1. h \in (m + 1)..n
          BY <4>2, <1>1
        <5>2. h - m \in 1..i
          BY <4>2, <3>3, <1>1
        <5>3. PopsAt(es, h) = PopsAt(rest, h - m) /\ all[h] = left[h - m]
          BY <5>1, <1>8
        <5>4. PICK g \in 1..i : g = h - m
          BY <5>2
        <5>5. KeptAt(rest, i) + Spare(rest, left, i) <= left[g] - PopsAt(rest, g)
          BY <3>5
        <5>6. c = KeptAt(rest, i) + Spare(rest, left, i)
          BY <3>2, <3>3, <3>4, <3>6
        <5> QED BY <5>3, <5>4, <5>5, <5>6
      <4> QED BY <4>1, <4>2, <1>1
    <3>9. KeptAt(es, j) \in Nat /\ KeptAt(es, j) < all[j] /\ PopsAt(es, j) = 0 /\ PushesAt(es, j) = 0
      BY <3>2, <3>3, <3>5
    <3> QED BY <2>2, <3>6, <3>7, <3>8, <3>9
  <2> QED BY <2>1, <2>2, <1>1
<1>11. Counts(es, all)
  <2> HIDE DEF all
  <2> QED BY <1>5, <1>9, <1>10 DEF Counts
<1>12. SparesLow(es, all, low)
  <2> HIDE DEF all
  <2> QED BY <1>10 DEF SparesLow
<1> QED BY <1>11, <1>12

\* The first frame popped.
LEMMA TailIsSuffix ==
    ASSUME NEW F, NEW es \in Seq(F), es # <<>>
    PROVE  Suffix(es, 1, Tail(es)) /\ Head(es) = es[1] /\ Len(es) >= 1 /\ Tail(es) \in Seq(F)
<1>1. Len(es) \in Nat /\ Len(es) >= 1 /\ Len(Tail(es)) = Len(es) - 1 /\ Tail(es) \in Seq(F)
  OBVIOUS
<1>2. \A j \in 1..Len(Tail(es)) : Tail(es)[j] = es[1 + j]
  BY <1>1
<1> QED BY <1>1, <1>2 DEF Suffix

\* Frames pushed.
LEMMA ConcatIsSuffix ==
    ASSUME NEW F, NEW fs \in Seq(F), NEW es \in Seq(F)
    PROVE  /\ Suffix(fs \o es, Len(fs), es) /\ Len(fs) \in Nat
           /\ \A j \in 1..Len(fs) : (fs \o es)[j] = fs[j]
           /\ fs \o es \in Seq(F)
BY DEF Suffix

\* A stack that fits, fits without its first frame what this frame leaves.
LEMMA FitsPop ==
    ASSUME NEW F, NEW es \in Seq(F), es # <<>>, NEW k \in Nat, NEW top, NEW exact, NEW total,
           Fits(es, k, k, top, exact, total)
    PROVE  /\ Pops(Head(es).expr) \in Nat /\ Pops(Head(es).expr) <= k
           /\ Pushes(Head(es).expr) \in Nat
           /\ Wanted(Head(es).expr) \in {"any", top}
           /\ Fits(Tail(es), k - Pops(Head(es).expr) + Pushes(Head(es).expr),
                   k - Pops(Head(es).expr), Given(Head(es).expr), exact, total)
<1> DEFINE e == Head(es).expr
           rest == Tail(es)
           p == Pops(e)
           q == Pushes(e)
<1>1. /\ Suffix(es, 1, rest) /\ Len(es) \in Nat /\ 1 \in 1..Len(es)
      /\ Len(rest) \in Nat /\ Len(es) = 1 + Len(rest)
  BY TailIsSuffix DEF Suffix
<1>2. p = PopsAt(es, 1) /\ q = PushesAt(es, 1) /\ e = es[1].expr
  BY TailIsSuffix DEF PopsAt, PushesAt
<1>3. PICK need : Needs(es, need) /\ need[1] <= k
  BY DEF Fits, Enough
<1>4. /\ p \in Nat /\ p <= need[1] /\ q \in Nat
      /\ need[1] \in Nat /\ need[2] \in Nat /\ need[2] <= need[1] - p + q
  <2>1. 1 + 1 = 2 /\ 2 \in 1..(Len(es) + 1) /\ 1 \in 1..(Len(es) + 1)
    BY <1>1
  <2> HIDE DEF p, q
  <2> QED BY <1>1, <1>2, <1>3, <2>1 DEF Needs
<1>5. p <= k
  <2> HIDE DEF p
  <2> QED BY <1>3, <1>4
<1>6. Wanted(e) \in {"any", top}
  BY <1>1, <1>2 DEF Fits, Served
<1>7. \A j \in 1..Len(rest) : /\ Handles(rest, j) <=> Handles(es, 1 + j)
                              /\ KeptAt(rest, j) = KeptAt(es, 1 + j)
                              /\ rest[j] = es[1 + j]
                              /\ 1 + j \in 1..Len(es) /\ 1 \in 1..(1 + j)
  BY <1>1 DEF Suffix, Handles, KeptAt
<1>8. Enough(rest, k - p + q, k - p)
  <2> DEFINE below == [j \in 1..(Len(rest) + 1) |-> need[1 + j]]
  <2>1. Needs(rest, below)
    BY <1>1, <1>3, NeedsBelow
  <2>2. below[1] <= k - p + q
    <3>1. below[1] = need[2]
      BY <1>1
    <3> HIDE DEF below, p, q
    <3> QED BY <3>1, <1>3, <1>4
  <2>3. ASSUME NEW j \in 1..Len(rest), Handles(rest, j) PROVE KeptAt(rest, j) <= k - p
    <3>1. PICK i \in 1..Len(es) : i = 1 + j
      BY <1>7
    <3>2. Handles(es, i) /\ KeptAt(rest, j) = KeptAt(es, i) /\ 1 \in 1..i
      BY <1>7, <2>3, <3>1
    <3>3. KeptAt(es, i) \in Nat /\ KeptAt(es, i) <= need[1] - PopsAt(es, 1)
      BY <1>3, <3>2 DEF Needs
    <3> HIDE DEF p
    <3> QED BY <3>2, <3>3, <1>2, <1>3, <1>4
  <2> HIDE DEF below
  <2> QED BY <2>1, <2>2, <2>3 DEF Enough, KeepsLow
<1>9. ASSUME exact PROVE Exact(rest, k - p + q, k - p, total)
  <2>1. PICK left : Counts(es, left) /\ left[1] = k /\ left[Len(es) + 1] = total
    BY <1>9 DEF Fits, Exact
  <2> DEFINE below == [j \in 1..(Len(rest) + 1) |-> left[1 + j]]
  <2>2. /\ Counts(rest, below)
        /\ \A j \in 1..Len(rest) : Spare(rest, below, j) = Spare(es, left, 1 + j)
    <3> HIDE DEF rest
    <3>1. Counts(es, left) /\ Suffix(es, 1, rest) /\ 1 \in Nat
      BY <1>1, <2>1
    <3>2. Counts(rest, below)
      BY <3>1, CountsBelow
    <3>3. \A j \in 1..Len(rest) : Spare(rest, below, j) = Spare(es, left, 1 + j)
      BY <3>1, CountsBelow, SMTT(20)
    <3> QED BY <3>2, <3>3
  <2>3. below[1] = k - p + q
    <3>1. below[1] = left[1 + 1]
      BY <1>1
    <3>2. left[1 + 1] = left[1] - PopsAt(es, 1) + PushesAt(es, 1)
      BY <1>1, <2>1 DEF Counts
    <3> HIDE DEF below, p, q
    <3> QED BY <3>1, <3>2, <2>1, <1>2
  <2>4. below[Len(rest) + 1] = total
    BY <1>1, <2>1
  <2>5. ASSUME NEW j \in 1..Len(rest), Handles(rest, j)
        PROVE  KeptAt(rest, j) + Spare(rest, below, j) <= k - p
    <3>1. PICK i \in 1..Len(es) : i = 1 + j
      BY <1>7
    <3>2. Handles(es, i) /\ KeptAt(rest, j) = KeptAt(es, i) /\ 1 \in 1..i
      BY <1>7, <2>5, <3>1
    <3>3. KeptAt(es, i) + Spare(es, left, i) <= left[1] - PopsAt(es, 1)
      BY <2>1, <3>2 DEF Counts
    <3>4. Spare(rest, below, j) = Spare(es, left, i)
      BY <2>2, <3>1
    <3> HIDE DEF p, below
    <3> QED BY <3>2, <3>3, <3>4, <1>2, <2>1
  <2> HIDE DEF below
  <2> QED BY <2>2, <2>3, <2>4, <2>5 DEF Exact, SparesLow
<1>10. Served(rest, Given(e))
  <2> SUFFICES ASSUME NEW j \in 1..Len(rest), Wanted(rest[j].expr) # "any"
               PROVE  Wanted(rest[j].expr) = IF j = 1 THEN Given(e) ELSE Given(rest[j - 1].expr)
    BY DEF Served
  <2>1. 1 + j \in 1..Len(es) /\ 1 + j # 1 /\ rest[j] = es[1 + j]
    BY <1>7
  <2>2. Wanted(es[1 + j].expr) = Given(es[(1 + j) - 1].expr)
    BY <2>1 DEF Fits, Served
  <2>3. CASE j = 1
    BY <2>1, <2>2, <2>3, <1>2
  <2>4. CASE j # 1
    <3>1. j - 1 \in 1..Len(rest) /\ 1 + (j - 1) = (1 + j) - 1
      BY <2>4
    <3>2. rest[j - 1] = es[(1 + j) - 1]
      BY <1>7, <3>1
    <3> QED BY <2>1, <2>2, <2>4, <3>2
  <2> QED BY <2>3, <2>4
<1>11. NoPairs(rest)
  <2> SUFFICES ASSUME NEW j \in 1..(Len(rest) - 1), Saves(rest, j), Saves(rest, j + 1) PROVE FALSE
    BY DEF NoPairs
  <2>1. /\ j \in 1..Len(rest) /\ j + 1 \in 1..Len(rest)
        /\ 1 + j \in 1..(Len(es) - 1) /\ 1 + (j + 1) = (1 + j) + 1
    BY <1>1
  <2>2. rest[j] = es[1 + j] /\ rest[j + 1] = es[(1 + j) + 1]
    BY <1>7, <2>1
  <2>3. Saves(es, 1 + j) /\ Saves(es, (1 + j) + 1)
    BY <2>2 DEF Saves
  <2> QED BY <2>1, <2>3 DEF Fits, NoPairs
<1> HIDE DEF e, rest, p, q
<1>12. Fits(rest, k - p + q, k - p, Given(e), exact, total)
  BY <1>8, <1>9, <1>10, <1>11 DEF Fits
<1> QED BY <1>4, <1>5, <1>6, <1>12 DEF e, rest, p, q

\* A stack on which frames are pushed fits if the frames do and what they leave fits the stack.
PushedOn(es, rest, k0, k, low, top, gives) ==
    \E m, up :
        /\ m \in Nat \ {0}
        /\ Suffix(es, m, rest) /\ low \in Nat /\ Climbs(es, m, up, low, top)
        /\ k0 = up[1] /\ k = up[m + 1] /\ gives = Given(es[m].expr)

\* Frames that need the operands there are and leave those the stack below them needs can be
\* pushed on it.
LEMMA FitsPush ==
    ASSUME NEW es, NEW rest, NEW k0, NEW k, NEW low, NEW top, NEW gives,
           PushedOn(es, rest, k0, k, low, top, gives),
           NEW exact, NEW total, Fits(rest, k, low, gives, exact, total)
    PROVE  Fits(es, k0, low, top, exact, total)
<1>0. PICK m, up :
        /\ m \in Nat \ {0}
        /\ Suffix(es, m, rest) /\ low \in Nat /\ Climbs(es, m, up, low, top)
        /\ k0 = up[1] /\ k = up[m + 1] /\ gives = Given(es[m].expr)
  BY DEF PushedOn
<1> USE <1>0
<1>1. /\ Len(es) \in Nat /\ Len(rest) \in Nat /\ Len(es) = m + Len(rest)
      /\ m \in Nat /\ m >= 1 /\ 1 \in 1..(Len(es) + 1)
  BY DEF Suffix
<1>2. /\ up \in [1..(m + 1) -> Nat]
      /\ \A j \in 1..m :
            /\ PopsAt(es, j) \in Nat /\ PushesAt(es, j) \in Nat
            /\ up[j + 1] = up[j] - PopsAt(es, j) + PushesAt(es, j)
            /\ low <= up[j] - PopsAt(es, j)
      /\ \A j \in 1..m : Handles(es, j) =>
            /\ KeptAt(es, j) \in Nat /\ KeptAt(es, j) <= low
            /\ PopsAt(es, j) = 0 /\ PushesAt(es, j) = 0
            /\ up[j + 1] = KeptAt(es, j) + 1
            /\ \A h \in 1..j : KeptAt(es, j) <= up[h] - PopsAt(es, h)
  BY DEF Climbs
<1>3. \A j \in 1..Len(es) : j > m => /\ j - m \in 1..Len(rest) /\ rest[j - m] = es[j]
                                     /\ Handles(rest, j - m) <=> Handles(es, j)
                                     /\ KeptAt(rest, j - m) = KeptAt(es, j)
                                     /\ Saves(rest, j - m) <=> Saves(es, j)
  <2> SUFFICES ASSUME NEW j \in 1..Len(es), j > m
               PROVE  /\ j - m \in 1..Len(rest) /\ rest[j - m] = es[j]
                      /\ Handles(rest, j - m) <=> Handles(es, j)
                      /\ KeptAt(rest, j - m) = KeptAt(es, j)
                      /\ Saves(rest, j - m) <=> Saves(es, j)
    OBVIOUS
  <2>1. j - m \in 1..Len(rest) /\ m + (j - m) = j
    BY <1>1
  <2>2. rest[j - m] = es[j]
    BY <2>1 DEF Suffix
  <2> QED BY <2>1, <2>2 DEF Handles, KeptAt, Saves
<1>4. Enough(es, up[1], low)
  <2>1. PICK need : Needs(rest, need) /\ need[1] <= up[m + 1]
    BY DEF Fits, Enough
  <2>2. KeepsLow(rest, low)
    BY DEF Fits, Enough
  <2> DEFINE all == [j \in 1..(Len(es) + 1) |-> IF j <= m THEN up[j] ELSE need[j - m]]
  <2>3. Needs(es, all)
    BY <1>1, <2>1, <2>2, NeedsAbove
  <2>4. all[1] = up[1] /\ up[1] \in Nat
    BY <1>1, <1>2
  <2>5. ASSUME NEW j \in 1..Len(es), Handles(es, j) PROVE KeptAt(es, j) <= low
    <3>1. CASE j <= m
      BY <3>1, <2>5, <1>2
    <3>2. CASE j > m
      <4>1. j - m \in 1..Len(rest) /\ Handles(rest, j - m) /\ KeptAt(rest, j - m) = KeptAt(es, j)
        BY <3>2, <2>5, <1>3
      <4> QED BY <2>2, <4>1 DEF KeepsLow
    <3> QED BY <3>1, <3>2, <1>1
  <2> HIDE DEF all
  <2>6. all[1] <= up[1]
    BY <2>4
  <2> QED BY <2>3, <2>6, <2>5 DEF Enough, KeepsLow
<1>5. ASSUME exact PROVE Exact(es, up[1], low, total)
  <2>1. PICK left : /\ Counts(rest, left) /\ left[1] = up[m + 1] /\ left[Len(rest) + 1] = total
                    /\ SparesLow(rest, left, low)
    BY <1>5 DEF Fits, Exact
  <2>2. PICK all : /\ Counts(es, all) /\ SparesLow(es, all, low)
                   /\ all = [j \in 1..(Len(es) + 1) |-> IF j <= m THEN up[j] ELSE left[j - m]]
    BY <1>1, <2>1, CountsAbove
  <2>3. all[1] = up[1]
    BY <1>1, <2>2
  <2>4. all[Len(es) + 1] = total
    <3>1. /\ Len(es) + 1 \in 1..(Len(es) + 1) /\ ~ (Len(es) + 1 <= m)
          /\ Len(es) + 1 - m = Len(rest) + 1
      BY <1>1
    <3> QED BY <3>1, <2>1, <2>2
  <2> QED BY <2>2, <2>3, <2>4 DEF Exact
<1>6. Served(es, top)
  <2> SUFFICES ASSUME NEW j \in 1..Len(es), Wanted(es[j].expr) # "any"
               PROVE  Wanted(es[j].expr) = IF j = 1 THEN top ELSE Given(es[j - 1].expr)
    BY DEF Served
  <2>1. CASE j <= m
    <3>1. j \in 1..m
      BY <2>1
    <3>2. \A i \in 1..m : Wanted(es[i].expr) # "any" =>
            Wanted(es[i].expr) = IF i = 1 THEN top ELSE Given(es[i - 1].expr)
      BY DEF Climbs
    <3> QED BY <3>1, <3>2
  <2>2. CASE j > m
    <3>1. j - m \in 1..Len(rest) /\ rest[j - m] = es[j] /\ j # 1
      BY <2>2, <1>1, <1>3
    <3>2. Wanted(es[j].expr) = IF j - m = 1 THEN Given(es[m].expr) ELSE Given(rest[(j - m) - 1].expr)
      BY <3>1 DEF Fits, Served
    <3>3. CASE j - m = 1
      <4>1. j - 1 = m
        BY <3>3, <1>1
      <4> QED BY <3>1, <3>2, <3>3, <4>1
    <3>4. CASE j - m # 1
      <4>1. j - 1 \in 1..Len(es) /\ j - 1 > m /\ (j - 1) - m = (j - m) - 1
        BY <3>1, <3>4, <2>2, <1>1
      <4>2. rest[(j - m) - 1] = es[j - 1]
        BY <4>1, <1>3
      <4> QED BY <3>1, <3>2, <3>4, <4>2
    <3> QED BY <3>3, <3>4
  <2> QED BY <2>1, <2>2, <1>1
<1>7. NoPairs(es)
  <2> SUFFICES ASSUME NEW j \in 1..(Len(es) - 1) PROVE ~(Saves(es, j) /\ Saves(es, j + 1))
    BY DEF NoPairs
  <2>1. CASE j <= m
    BY <2>1, <1>1 DEF Climbs
  <2>2. CASE j > m
    <3>1. /\ j \in 1..Len(es) /\ j + 1 \in 1..Len(es) /\ j + 1 > m /\ (j + 1) - m = (j - m) + 1
          /\ j - m \in 1..(Len(rest) - 1)
      BY <2>2, <1>1
    <3>2. /\ Saves(es, j) <=> Saves(rest, j - m)
          /\ Saves(es, j + 1) <=> Saves(rest, (j - m) + 1)
      BY <3>1, <2>2, <1>3
    <3>3. ~(Saves(rest, j - m) /\ Saves(rest, (j - m) + 1))
      BY <3>1 DEF Fits, NoPairs
    <3> QED BY <3>2, <3>3
  <2> QED BY <2>1, <2>2, <1>1
<1> QED BY <1>4, <1>5, <1>6, <1>7 DEF Fits

\* One frame pushed, which is no handler.
LEMMA FitsPushOne ==
    ASSUME NEW F, NEW es \in Seq(F), NEW expr, NEW e, NEW k \in Nat, NEW low \in Nat, NEW l \in Nat,
           Pops(expr) \in Nat, Pushes(expr) \in Nat, low + Pops(expr) <= k,
           l = k - Pops(expr) + Pushes(expr), expr.type # "ExceptionHandler",
           NEW top, Wanted(expr) \in {"any", top},
           expr.type = "SavedEnv" => es = <<>> \/ Head(es).expr.type # "SavedEnv",
           NEW exact, NEW total, NEW gives, gives = Given(expr), Fits(es, l, low, gives, exact, total)
    PROVE  Fits(<<Frame(expr, e)>> \o es, k, low, top, exact, total)
<1> DEFINE f == Frame(expr, e)
           all == <<f>> \o es
           G == F \union {f}
           up == [j \in 1..2 |-> IF j = 1 THEN k ELSE l]
<1>1. <<f>> \in Seq(G) /\ es \in Seq(G) /\ Len(<<f>>) = 1 /\ <<f>>[1] = f
  OBVIOUS
<1>2. Suffix(all, 1, es) /\ all[1] = f /\ Len(all) = 1 + Len(es) /\ Len(es) \in Nat
  <2> HIDE DEF f, G
  <2> QED BY <1>1, ConcatIsSuffix DEF Suffix
<1>3. all[1].expr = expr
  <2> HIDE DEF all
  <2> QED BY <1>2 DEF Frame
<1>4. /\ PopsAt(all, 1) = Pops(expr) /\ PushesAt(all, 1) = Pushes(expr) /\ ~Handles(all, 1)
      /\ Saves(all, 1) <=> expr.type = "SavedEnv"
  BY <1>3 DEF PopsAt, PushesAt, Handles, Saves
<1>5. 1 < Len(all) => ~(Saves(all, 1) /\ Saves(all, 2))
  <2>1. ASSUME 1 < Len(all) PROVE es # <<>> /\ all[2] = Head(es)
    <3>1. 1 \in 1..Len(es) /\ 1 + 1 = 2
      BY <1>2, <2>1
    <3>2. all[2] = es[1]
      BY <1>2, <3>1 DEF Suffix
    <3> QED BY <3>1, <3>2
  <2> HIDE DEF all
  <2> QED BY <1>4, <2>1 DEF Saves
<1>6. up \in [1..(1 + 1) -> Nat] /\ up[1] = k /\ up[2] = l /\ 1..1 = {1} /\ 1 + 1 = 2
  OBVIOUS
<1> HIDE DEF up, all
<1>7. Climbs(all, 1, up, low, top)
  <2>1. low <= k - Pops(expr)
    OBVIOUS
  <2>2. \A j \in 1..1 : /\ PopsAt(all, j) \in Nat /\ PushesAt(all, j) \in Nat
                        /\ up[j + 1] = up[j] - PopsAt(all, j) + PushesAt(all, j)
                        /\ low <= up[j] - PopsAt(all, j)
    BY <1>4, <1>6, <2>1
  <2>3. \A j \in 1..1 : ~Handles(all, j)
    BY <1>4, <1>6
  <2>4. \A j \in 1..1 : Wanted(all[j].expr) # "any" =>
            Wanted(all[j].expr) = IF j = 1 THEN top ELSE Given(all[j - 1].expr)
    BY <1>3
  <2>5. \A j \in 1..1 : j < Len(all) => ~(Saves(all, j) /\ Saves(all, j + 1))
    BY <1>5, <1>6
  <2> QED BY <1>6, <2>2, <2>3, <2>4, <2>5 DEF Climbs
<1>8. 1 \in Nat \ {0} /\ k = up[1] /\ l = up[1 + 1] /\ gives = Given(all[1].expr)
  BY <1>3, <1>6
<1>9. PushedOn(all, es, k, l, low, top, gives)
  BY <1>2, <1>7, <1>8 DEF PushedOn
<1>10. Fits(all, k, low, top, exact, total)
  BY <1>9, FitsPush
<1> QED BY <1>10 DEF all

\* More operands may be left to the handlers.
LEMMA FitsLow ==
    ASSUME NEW es, NEW k, NEW low \in Nat, NEW low2 \in Nat, low <= low2, NEW top, NEW exact,
           NEW total, Fits(es, k, low, top, exact, total)
    PROVE  Fits(es, k, low2, top, exact, total)
<1>1. Enough(es, k, low2)
  <2>1. PICK need : Needs(es, need) /\ need[1] <= k
    BY DEF Fits, Enough
  <2>2. \A j \in 1..Len(es) : Handles(es, j) => KeptAt(es, j) \in Nat /\ KeptAt(es, j) <= low
    BY <2>1 DEF Fits, Enough, Needs, KeepsLow
  <2>3. KeepsLow(es, low2)
    BY <2>2 DEF KeepsLow
  <2> QED BY <2>1, <2>3 DEF Enough
<1>2. ASSUME exact PROVE Exact(es, k, low2, total)
  <2>1. PICK left : Counts(es, left) /\ left[1] = k /\ left[Len(es) + 1] = total /\ SparesLow(es, left, low)
    BY <1>2 DEF Fits, Exact
  <2>2. \A j \in 1..Len(es) : Handles(es, j) =>
            KeptAt(es, j) \in Nat /\ Spare(es, left, j) \in Nat /\ KeptAt(es, j) + Spare(es, left, j) <= low
    BY <2>1 DEF Counts, SparesLow, Spare
  <2>3. SparesLow(es, left, low2)
    BY <2>2 DEF SparesLow
  <2> QED BY <2>1, <2>3 DEF Exact
<1> QED BY <1>1, <1>2 DEF Fits

\* A stack that fits any operand on top fits one of any type.
LEMMA FitsTop ==
    ASSUME NEW es, NEW k, NEW low, NEW top, NEW exact, NEW total,
           Fits(es, k, low, "any", exact, total)
    PROVE  Fits(es, k, low, top, exact, total)
BY DEF Fits, Served

\* More operands than needed, when nothing is counted.
LEMMA FitsLoose ==
    ASSUME NEW es, Len(es) \in Nat, NEW k \in Nat, NEW k2 \in Nat, k <= k2, NEW low, NEW top,
           NEW exact, NEW total, NEW total2,
           Fits(es, k, low, top, exact, total)
    PROVE  Fits(es, k2, low, top, FALSE, total2)
<1>1. Enough(es, k2, low)
  <2>1. PICK need : Needs(es, need) /\ need[1] <= k /\ KeepsLow(es, low)
    BY DEF Fits, Enough
  <2>2. need[1] \in Nat
    BY <2>1 DEF Needs
  <2>3. need[1] <= k2
    BY <2>1, <2>2
  <2> QED BY <2>1, <2>3 DEF Enough
<1> QED BY <1>1 DEF Fits

\* A stack of a count less exact.
LEMMA FitsWeaker ==
    ASSUME NEW es, NEW k, NEW low, NEW top, NEW exact, NEW exact2, exact2 => exact, NEW total,
           Fits(es, k, low, top, exact, total)
    PROVE  Fits(es, k, low, top, exact2, total)
BY DEF Fits

\* The operands that r subscribers leave lie below those of every frame.
LEMMA FitsMore ==
    ASSUME NEW es, Len(es) \in Nat, NEW k \in Nat, NEW low \in Nat, NEW top, NEW exact,
           NEW total \in Nat, Fits(es, k, low, top, exact, total), NEW r \in Nat \ {0}
    PROVE  Fits(es, k + r, low + 1, top, exact, total + r)
<1>1. Enough(es, k + r, low + 1)
  <2>1. PICK need : Needs(es, need) /\ need[1] <= k /\ KeepsLow(es, low)
    BY DEF Fits, Enough
  <2>2. need[1] \in Nat /\ need[1] <= k + r
    <3>1. need[1] \in Nat
      BY <2>1 DEF Needs
    <3> QED BY <2>1, <3>1
  <2>3. \A j \in 1..Len(es) : Handles(es, j) => KeptAt(es, j) \in Nat /\ KeptAt(es, j) <= low
    BY <2>1 DEF Needs, KeepsLow
  <2>4. KeepsLow(es, low + 1)
    BY <2>3 DEF KeepsLow
  <2> QED BY <2>1, <2>2, <2>4 DEF Enough
<1>2. ASSUME exact PROVE Exact(es, k + r, low + 1, total + r)
  <2>1. PICK left : Counts(es, left) /\ left[1] = k /\ left[Len(es) + 1] = total /\ SparesLow(es, left, low)
    BY <1>2 DEF Fits, Exact
  <2> DEFINE more == [j \in 1..(Len(es) + 1) |-> left[j] + r]
  <2>2. \A j \in 1..(Len(es) + 1) : left[j] \in Nat /\ more[j] = left[j] + r
    BY <2>1 DEF Counts
  <2>3. ASSUME NEW j \in 1..Len(es)
        PROVE  /\ PopsAt(es, j) \in Nat /\ PushesAt(es, j) \in Nat
               /\ more[j + 1] = more[j] - PopsAt(es, j) + PushesAt(es, j)
    <3>1. /\ PopsAt(es, j) \in Nat /\ PushesAt(es, j) \in Nat
          /\ left[j + 1] = left[j] - PopsAt(es, j) + PushesAt(es, j)
      BY <2>1 DEF Counts
    <3>2. j \in 1..(Len(es) + 1) /\ j + 1 \in 1..(Len(es) + 1)
      OBVIOUS
    <3>3. left[j] \in Nat /\ more[j] = left[j] + r /\ more[j + 1] = left[j + 1] + r
      BY <2>2, <3>2
    <3> HIDE DEF more
    <3> QED BY <3>1, <3>3
  <2>4. ASSUME NEW j \in 1..Len(es), Handles(es, j)
        PROVE  /\ KeptAt(es, j) \in Nat
               /\ KeptAt(es, j) < more[j]
               /\ PopsAt(es, j) = 0 /\ PushesAt(es, j) = 0
               /\ \A h \in 1..j : KeptAt(es, j) + Spare(es, more, j) <= more[h] - PopsAt(es, h)
               /\ KeptAt(es, j) + Spare(es, more, j) <= low + 1
    <3>1. /\ KeptAt(es, j) \in Nat
          /\ KeptAt(es, j) < left[j]
          /\ PopsAt(es, j) = 0 /\ PushesAt(es, j) = 0
          /\ \A h \in 1..j : KeptAt(es, j) + Spare(es, left, j) <= left[h] - PopsAt(es, h)
          /\ KeptAt(es, j) + Spare(es, left, j) <= low
      BY <2>1, <2>4 DEF Counts, SparesLow
    <3>2. left[j] \in Nat /\ more[j] = left[j] + r
      BY <2>2
    <3> HIDE DEF more
    <3>3. Spare(es, more, j) = 1 /\ Spare(es, left, j) \in {0, 1}
      BY <3>1, <3>2 DEF Spare
    <3>4. KeptAt(es, j) + Spare(es, more, j) <= low + 1 /\ KeptAt(es, j) < more[j]
      BY <3>1, <3>2, <3>3
    <3>5. ASSUME NEW h \in 1..j PROVE KeptAt(es, j) + Spare(es, more, j) <= more[h] - PopsAt(es, h)
      <4>1. h \in 1..(Len(es) + 1) /\ h \in 1..Len(es)
        OBVIOUS
      <4>2. left[h] \in Nat /\ more[h] = left[h] + r /\ PopsAt(es, h) \in Nat
        BY <2>1, <2>2, <4>1 DEF Counts
      <4>3. KeptAt(es, j) + Spare(es, left, j) <= left[h] - PopsAt(es, h)
        BY <3>1
      <4>4. KeptAt(es, j) <= left[h] - PopsAt(es, h)
        BY <3>1, <3>3, <4>2, <4>3
      <4>5. r >= 1
        OBVIOUS
      <4> QED BY <3>1, <3>3, <4>2, <4>4, <4>5, SMTT(20)
    <3> QED BY <3>1, <3>4, <3>5
  <2>5. more[1] = k + r /\ more[Len(es) + 1] = total + r
    BY <2>1
  <2>6. more \in [1..(Len(es) + 1) -> Nat]
    BY <2>2
  <2> HIDE DEF more
  <2>7. Counts(es, more)
    BY <2>3, <2>4, <2>6 DEF Counts
  <2>8. SparesLow(es, more, low + 1)
    BY <2>4 DEF SparesLow
  <2> QED BY <2>5, <2>7, <2>8 DEF Exact
<1> QED BY <1>1, <1>2 DEF Fits

\* The empty stack fits one operand, or the total.
LEMMA FitsEmpty ==
    ASSUME NEW k \in Nat, NEW low, NEW top, NEW exact, NEW total
    PROVE  /\ (k >= 1 /\ (exact => total = k)) => Fits(<<>>, k, low, top, exact, total)
           /\ Fits(<<>>, k, low, top, exact, total) => k >= 1 /\ (exact => total = k)
<1>1. Len(<<>>) = 0 /\ 1..0 = {}
  OBVIOUS
<1>2. ASSUME k >= 1, exact => total = k PROVE Fits(<<>>, k, low, top, exact, total)
  <2> DEFINE f == [j \in 1..1 |-> k]
  <2>1. f \in [1..(Len(<<>>) + 1) -> Nat] /\ f[1] = k /\ f[Len(<<>>) + 1] = k
    BY <1>1
  <2> HIDE DEF f
  <2>2. Needs(<<>>, f)
    BY <1>1, <1>2, <2>1 DEF Needs
  <2>3. Enough(<<>>, k, low)
    BY <1>1, <2>1, <2>2 DEF Enough, KeepsLow
  <2>4. Counts(<<>>, f) /\ SparesLow(<<>>, f, low)
    BY <1>1, <2>1 DEF Counts, SparesLow
  <2>5. exact => Exact(<<>>, k, low, total)
    BY <1>2, <2>1, <2>4 DEF Exact
  <2>6. Served(<<>>, top) /\ NoPairs(<<>>)
    BY <1>1 DEF Served, NoPairs
  <2> QED BY <2>3, <2>5, <2>6 DEF Fits
<1>3. ASSUME Fits(<<>>, k, low, top, exact, total) PROVE k >= 1 /\ (exact => total = k)
  <2>1. PICK need : Needs(<<>>, need) /\ need[1] <= k
    BY <1>3 DEF Fits, Enough
  <2>2. need[1] \in Nat /\ need[1] >= 1
    BY <1>1, <2>1 DEF Needs
  <2>3. k >= 1
    BY <2>1, <2>2
  <2>4. exact => total = k
    BY <1>1, <1>3 DEF Fits, Exact
  <2> QED BY <2>3, <2>4
<1> QED BY <1>2, <1>3

\* Saving the environment leaves what is below untouched.
LEMMA FitsSaveEnv ==
    ASSUME NEW F, NEW es \in Seq(F), NEW e, NEW k \in Nat, NEW low \in Nat, low <= k,
           NEW exact, NEW total, Fits(es, k, low, "any", exact, total)
    PROVE  Fits(SaveEnv(es, e), k, low, "any", exact, total)
<1>1. CASE es # <<>> /\ Head(es).expr.type = "SavedEnv"
  BY <1>1 DEF SaveEnv
<1>2. CASE ~(es # <<>> /\ Head(es).expr.type = "SavedEnv")
  <2> DEFINE expr == SavedEnv(e)
  <2>1. SaveEnv(es, e) = <<Frame(expr, e)>> \o es
    BY <1>2 DEF SaveEnv
  <2>2. /\ Pops(expr) = 0 /\ Pushes(expr) = 0 /\ expr.type = "SavedEnv"
        /\ Wanted(expr) = "any" /\ "any" = Given(expr)
    BY DEF Pops, Pushes, SavedEnv, Wanted, Given
  <2> HIDE DEF expr
  <2>3. /\ Pops(expr) \in Nat /\ Pushes(expr) \in Nat
        /\ k = k - Pops(expr) + Pushes(expr) /\ low + Pops(expr) <= k
    BY <2>2
  <2>4. expr.type # "ExceptionHandler" /\ Wanted(expr) \in {"any", "any"}
    BY <2>2
  <2>5. expr.type = "SavedEnv" => es = <<>> \/ Head(es).expr.type # "SavedEnv"
    BY <1>2
  <2>6. Fits(<<Frame(expr, e)>> \o es, k, low, "any", exact, total)
    BY <2>2, <2>3, <2>4, <2>5, FitsPushOne
  <2> QED BY <2>1, <2>6
<1> QED BY <1>1, <1>2

\* The frames below a handler fit its operands and the value of a rule.
LEMMA FitsCaught ==
    ASSUME NEW es, NEW d \in 1..Len(es), Len(es) \in Nat, Handles(es, d), NEW rest,
           Suffix(es, d, rest), NEW k, NEW low \in Nat, NEW l \in Nat, low <= l, NEW top,
           NEW exact, NEW total, Fits(es, k, low, top, exact, total)
    PROVE  Fits(rest, l + 1, l, "any", exact /\ l = KeptAt(es, d), total)
<1>1. d \in Nat /\ Len(rest) \in Nat /\ Len(es) = d + Len(rest)
  BY DEF Suffix
<1>2. Enough(rest, l + 1, l)
  <2>1. PICK need : Needs(es, need) /\ KeepsLow(es, low)
    BY DEF Fits, Enough
  <2> DEFINE below == [j \in 1..(Len(rest) + 1) |-> need[d + j]]
  <2>2. Needs(rest, below)
    BY <1>1, <2>1, NeedsBelow
  <2>3. need[d + 1] <= KeptAt(es, d) + 1 /\ KeptAt(es, d) \in Nat /\ KeptAt(es, d) <= low
    BY <2>1 DEF Needs, KeepsLow
  <2>4. below[1] = need[d + 1] /\ need[d + 1] \in Nat
    <3>1. d + 1 \in 1..(Len(es) + 1) /\ 1 \in 1..(Len(rest) + 1)
      BY <1>1
    <3> QED BY <3>1, <2>1 DEF Needs
  <2>5. below[1] <= l + 1
    <3> HIDE DEF below
    <3> QED BY <2>3, <2>4
  <2>6. ASSUME NEW j \in 1..Len(rest), Handles(rest, j) PROVE KeptAt(rest, j) <= l
    <3>1. rest[j] = es[d + j] /\ d + j \in 1..Len(es)
      BY <1>1 DEF Suffix
    <3>2. KeptAt(rest, j) = KeptAt(es, d + j) /\ Handles(es, d + j)
      BY <2>6, <3>1 DEF KeptAt, Handles
    <3>3. KeptAt(es, d + j) \in Nat /\ KeptAt(es, d + j) <= low
      BY <2>1, <3>1, <3>2 DEF Needs, KeepsLow
    <3> QED BY <3>2, <3>3
  <2> HIDE DEF below
  <2> QED BY <2>2, <2>5, <2>6 DEF Enough, KeepsLow
<1>3. ASSUME exact, l = KeptAt(es, d) PROVE Exact(rest, l + 1, l, total)
  <2>1. PICK left : Counts(es, left) /\ left[Len(es) + 1] = total /\ SparesLow(es, left, low)
    BY <1>3 DEF Fits, Exact
  <2> DEFINE below == [j \in 1..(Len(rest) + 1) |-> left[d + j]]
  <2>2. Counts(rest, below)
    BY <1>1, <2>1, CountsBelow
  <2>3. \A j \in 1..Len(rest) : Spare(rest, below, j) = Spare(es, left, d + j)
    <3>1. Counts(es, left) /\ Suffix(es, d, rest) /\ d \in Nat
      BY <1>1, <2>1
    <3> QED BY <3>1, CountsBelow
  <2>4. /\ KeptAt(es, d) \in Nat /\ KeptAt(es, d) < left[d] /\ PopsAt(es, d) = 0 /\ PushesAt(es, d) = 0
        /\ left[d + 1] = left[d] - PopsAt(es, d) + PushesAt(es, d)
        /\ KeptAt(es, d) + Spare(es, left, d) <= low
        /\ left[d] \in Nat
    <3>1. d \in 1..(Len(es) + 1)
      BY <1>1
    <3>2. KeptAt(es, d) + Spare(es, left, d) <= low
      BY <2>1 DEF SparesLow
    <3> QED BY <2>1, <3>1, <3>2 DEF Counts
  <2>5. Spare(es, left, d) = 0 /\ left[d] = KeptAt(es, d) + 1
    BY <1>3, <2>4 DEF Spare
  <2>6. left[d + 1] = l + 1
    BY <1>3, <2>4, <2>5
  <2>7. below[1] = l + 1 /\ below[Len(rest) + 1] = total
    BY <1>1, <2>1, <2>6
  <2>8. ASSUME NEW j \in 1..Len(rest), Handles(rest, j)
        PROVE  KeptAt(rest, j) + Spare(rest, below, j) <= l
    <3>1. rest[j] = es[d + j] /\ d + j \in 1..Len(es)
      BY <1>1 DEF Suffix
    <3>2. KeptAt(rest, j) = KeptAt(es, d + j) /\ Handles(es, d + j)
      BY <2>8, <3>1 DEF KeptAt, Handles
    <3>3. KeptAt(es, d + j) \in Nat /\ KeptAt(es, d + j) + Spare(es, left, d + j) <= low
      BY <2>1, <3>1, <3>2 DEF Counts, SparesLow
    <3>4. Spare(rest, below, j) = Spare(es, left, d + j) /\ Spare(es, left, d + j) \in Nat
      BY <2>3 DEF Spare
    <3> HIDE DEF below
    <3> QED BY <3>2, <3>3, <3>4
  <2> HIDE DEF below
  <2> QED BY <2>2, <2>7, <2>8 DEF Exact, SparesLow
<1>4. Served(rest, "any")
  <2> SUFFICES ASSUME NEW j \in 1..Len(rest), Wanted(rest[j].expr) # "any"
               PROVE  Wanted(rest[j].expr) = IF j = 1 THEN "any" ELSE Given(rest[j - 1].expr)
    BY DEF Served
  <2>1. d + j \in 1..Len(es) /\ d + j # 1 /\ rest[j] = es[d + j]
    BY <1>1 DEF Suffix
  <2>2. Wanted(es[d + j].expr) = Given(es[(d + j) - 1].expr)
    BY <2>1 DEF Fits, Served
  <2>3. CASE j = 1
    <3>1. Given(es[d].expr) = "any"
      BY DEF Handles, Given
    <3>2. (d + j) - 1 = d
      BY <2>3
    <3> QED BY <2>1, <2>2, <2>3, <3>1, <3>2
  <2>4. CASE j # 1
    <3>1. j - 1 \in 1..Len(rest) /\ d + (j - 1) = (d + j) - 1
      BY <2>4, <1>1
    <3>2. rest[j - 1] = es[(d + j) - 1]
      BY <3>1 DEF Suffix
    <3> QED BY <2>1, <2>2, <2>4, <3>2
  <2> QED BY <2>3, <2>4
<1>5. NoPairs(rest)
  <2> SUFFICES ASSUME NEW j \in 1..(Len(rest) - 1), Saves(rest, j), Saves(rest, j + 1) PROVE FALSE
    BY DEF NoPairs
  <2>1. /\ j \in 1..Len(rest) /\ j + 1 \in 1..Len(rest)
        /\ d + j \in 1..(Len(es) - 1) /\ d + (j + 1) = (d + j) + 1
    BY <1>1
  <2>2. rest[j] = es[d + j] /\ rest[j + 1] = es[(d + j) + 1]
    BY <2>1 DEF Suffix
  <2>3. Saves(es, d + j) /\ Saves(es, (d + j) + 1)
    BY <2>2 DEF Saves
  <2> QED BY <2>1, <2>3 DEF Fits, NoPairs
<1> QED BY <1>2, <1>3, <1>4, <1>5 DEF Fits

\* What the stack needs is there: the operands that each frame pops, and one in the end.
LEMMA FitsBalance ==
    ASSUME NEW F, estack \in Seq(F), Len(ostack) \in Nat, NEW low, NEW top, NEW exact, NEW total,
           Fits(estack, Len(ostack), low, top, exact, total)
    PROVE  /\ \A n \in DOMAIN estack : Pops(estack[n].expr) <= OperandsAfter(n - 1)
           /\ exact => OperandsAfter(Len(estack)) = total
           /\ OperandsAfter(Len(estack)) >= 1
<1> DEFINE N == Len(estack)
           k == Len(ostack)
           after(n) == CHOOSE f : f = [i \in 0..n |->
                IF i = 0 THEN k ELSE f[i - 1] - Pops(estack[i].expr) + Pushes(estack[i].expr)]
<1>1. N \in Nat /\ DOMAIN estack = 1..N
  OBVIOUS
<1>2. PICK need : Needs(estack, need) /\ need[1] <= k
  BY DEF Fits, Enough
<1>3. ASSUME NEW n \in 0..N
      PROVE  /\ OperandsAfter(n) = after(n)[n] /\ after(n) \in [0..n -> Int] /\ after(n)[0] = k
             /\ \A i \in 1..n : after(n)[i] = after(n)[i - 1] - PopsAt(estack, i) + PushesAt(estack, i)
  <2> DEFINE next == [p \in (1..n) \X Int |-> p[2] - PopsAt(estack, p[1]) + PushesAt(estack, p[1])]
             isAfter(f) == f = [i \in 0..n |-> IF i = 0 THEN k
                              ELSE f[i - 1] - Pops(estack[i].expr) + Pushes(estack[i].expr)]
  <2>1. \A i \in 1..n : PopsAt(estack, i) \in Nat /\ PushesAt(estack, i) \in Nat
    BY <1>1, <1>2 DEF Needs
  <2>2. next \in [(1..n) \X Int -> Int]
    BY <2>1
  <2>3. k \in Int /\ n \in Nat
    OBVIOUS
  <2>4. PICK f \in [0..n -> Int] : Iterates(f, n, k, next)
    <3> HIDE DEF next, k
    <3> QED BY <2>2, <2>3, IterateExists
  <2>5. isAfter(f)
    <3>1. ASSUME NEW i \in 1..n
          PROVE  f[i] = f[i - 1] - Pops(estack[i].expr) + Pushes(estack[i].expr)
      <4>1. f[i] = next[<<i, f[i - 1]>>]
        BY <2>4 DEF Iterates
      <4>2. <<i, f[i - 1]>> \in (1..n) \X Int
        OBVIOUS
      <4>3. f[i] = f[i - 1] - PopsAt(estack, i) + PushesAt(estack, i)
        BY <4>1, <4>2
      <4> QED BY <4>3 DEF PopsAt, PushesAt
    <3>2. f[0] = k
      BY <2>4 DEF Iterates
    <3> QED BY <3>1, <3>2
  <2>6. isAfter(after(n))
    BY <2>5
  <2>7. after(n)[0] = k /\ \A i \in 1..n : after(n)[i] = after(n)[i - 1] - PopsAt(estack, i) + PushesAt(estack, i)
    <3> DEFINE g == after(n)
    <3>1. isAfter(g)
      BY <2>6
    <3> HIDE DEF g
    <3>2. g[0] = k /\ \A i \in 1..n : g[i] = g[i - 1] - PopsAt(estack, i) + PushesAt(estack, i)
      BY <3>1 DEF PopsAt, PushesAt
    <3> QED BY <3>2 DEF g
  <2>8. after(n) \in [0..n -> Int]
    <3> DEFINE g == after(n)
               Good == {i \in 0..n : g[i] \in Int}
    <3>1. isAfter(g)
      BY <2>6
    <3>2. 0 \in Good
      BY <2>7
    <3>3. ASSUME NEW i \in 1..n, i - 1 \in Good PROVE i \in Good
      <4>1. g[i] = g[i - 1] - PopsAt(estack, i) + PushesAt(estack, i)
        BY <2>7
      <4>2. g[i - 1] \in Int /\ PopsAt(estack, i) \in Nat /\ PushesAt(estack, i) \in Nat
        BY <3>3, <2>1
      <4> HIDE DEF g
      <4>3. g[i] \in Int
        BY <4>1, <4>2
      <4> QED BY <4>3
    <3>4. \A i \in 0..n : i \in Good
      <4> HIDE DEF Good
      <4> QED BY <2>3, <3>2, <3>3, Counting
    <3> HIDE DEF g
    <3>5. g \in [0..n -> Int]
      BY <3>1, <3>4
    <3> QED BY <3>5 DEF g
  <2>9. OperandsAfter(n) = after(n)[n]
    BY DEF OperandsAfter
  <2> QED BY <2>7, <2>8, <2>9
<1> HIDE DEF after, N, k
<1>4. ASSUME NEW n \in 0..N
      PROVE  OperandsAfter(n) \in Int /\ need[n + 1] <= OperandsAfter(n)
  <2> DEFINE Good == {i \in 0..n : need[i + 1] <= after(n)[i]}
  <2>1. 0 \in Good
    BY <1>2, <1>3
  <2>2. ASSUME NEW i \in 1..n, i - 1 \in Good PROVE i \in Good
    <3>1. after(n)[i] = after(n)[i - 1] - PopsAt(estack, i) + PushesAt(estack, i)
      BY <1>3
    <3>2. /\ PopsAt(estack, i) \in Nat /\ PushesAt(estack, i) \in Nat
          /\ need[i + 1] <= need[i] - PopsAt(estack, i) + PushesAt(estack, i)
          /\ need[i] \in Nat /\ need[i + 1] \in Nat
      <4>1. i \in 1..Len(estack) /\ i \in 1..(Len(estack) + 1) /\ i + 1 \in 1..(Len(estack) + 1)
        BY <1>1 DEF N
      <4> QED BY <1>2, <4>1 DEF Needs
    <3>3. after(n)[i - 1] \in Int /\ need[i] <= after(n)[i - 1]
      <4>1. i - 1 + 1 = i /\ i - 1 \in 0..n
        BY <1>1
      <4> QED BY <4>1, <2>2, <1>3
    <3>4. PICK a \in Int, b, c, x, y \in Nat :
            /\ a = after(n)[i - 1] /\ b = PopsAt(estack, i) /\ c = PushesAt(estack, i)
            /\ x = need[i] /\ y = need[i + 1]
      BY <3>2, <3>3
    <3>5. x <= a /\ y <= x - b + c
      BY <3>2, <3>3, <3>4
    <3>6. y <= a - b + c
      BY <3>5
    <3>7. need[i + 1] <= after(n)[i]
      BY <3>1, <3>4, <3>6
    <3> QED BY <3>7
  <2>3. \A i \in 0..n : i \in Good
    <3> HIDE DEF Good
    <3>1. n \in Nat
      BY <1>1
    <3> QED BY <2>1, <2>2, <3>1, Counting
  <2>4. need[n + 1] <= after(n)[n] /\ after(n)[n] \in Int
    BY <2>3, <1>1, <1>3
  <2> QED BY <2>4, <1>3
<1>5. ASSUME NEW n \in DOMAIN estack PROVE Pops(estack[n].expr) <= OperandsAfter(n - 1)
  <2>1. n \in 1..N /\ n - 1 \in 0..N /\ (n - 1) + 1 = n
    BY <1>1
  <2>2. need[n] <= OperandsAfter(n - 1) /\ OperandsAfter(n - 1) \in Int
    BY <2>1, <1>4
  <2>3. PopsAt(estack, n) \in Nat /\ PopsAt(estack, n) <= need[n] /\ need[n] \in Nat
    BY <1>1, <1>2, <2>1 DEF Needs, N
  <2> QED BY <2>2, <2>3 DEF PopsAt
<1>6. OperandsAfter(N) >= 1
  <2>1. N \in 0..N /\ N + 1 \in 1..(N + 1)
    BY <1>1
  <2>2. need[N + 1] \in Nat /\ need[N + 1] >= 1
    BY <1>2, <2>1 DEF Needs, N
  <2> QED BY <2>1, <2>2, <1>4
<1>7. ASSUME exact PROVE OperandsAfter(N) = total
  <2>1. PICK left : Counts(estack, left) /\ left[1] = k /\ left[N + 1] = total
    BY <1>7 DEF Fits, Exact, N, k
  <2> DEFINE Good == {i \in 0..N : left[i + 1] = after(N)[i]}
  <2>0. N \in 0..N
    BY <1>1
  <2>2. 0 \in Good
    BY <1>1, <1>3, <2>0, <2>1
  <2>3. ASSUME NEW i \in 1..N, i - 1 \in Good PROVE i \in Good
    <3>1. after(N)[i] = after(N)[i - 1] - PopsAt(estack, i) + PushesAt(estack, i)
      BY <1>3, <2>0
    <3>2. left[i + 1] = left[i] - PopsAt(estack, i) + PushesAt(estack, i)
      BY <2>1 DEF Counts, N
    <3>3. left[i] = after(N)[i - 1]
      <4>1. i - 1 + 1 = i
        OBVIOUS
      <4> QED BY <4>1, <2>3
    <3>4. i \in 0..N
      OBVIOUS
    <3> QED BY <3>1, <3>2, <3>3, <3>4
  <2>4. \A i \in 0..N : i \in Good
    <3> HIDE DEF Good
    <3> QED BY <1>1, <2>2, <2>3, Counting
  <2>5. left[N + 1] = after(N)[N]
    BY <2>0, <2>4
  <2> QED BY <2>0, <2>1, <2>5, <1>3
<1> QED BY <1>5, <1>6, <1>7 DEF N

-----------------------------------------------------------------------------
(* Frames pushed together. *)

\* The frames of expressions in one environment.
FramesOf(exprs, e) == [i \in DOMAIN exprs |-> Frame(exprs[i], e)]

\* The frames of expressions are as many as the expressions, in their order.
LEMMA FramesAre ==
    ASSUME NEW X, NEW xs \in Seq(X), NEW e
    PROVE  /\ FramesOf(xs, e) \in Seq({Frame(x, e) : x \in X})
           /\ Len(FramesOf(xs, e)) = Len(xs) /\ Len(xs) \in Nat
           /\ \A i \in 1..Len(xs) : FramesOf(xs, e)[i] = Frame(xs[i], e)
<1>1. DOMAIN xs = 1..Len(xs) /\ Len(xs) \in Nat
  OBVIOUS
<1>2. FramesOf(xs, e) \in [1..Len(xs) -> {Frame(x, e) : x \in X}]
  BY <1>1 DEF FramesOf
<1>3. \A i \in 1..Len(xs) : FramesOf(xs, e)[i] = Frame(xs[i], e)
  BY <1>1 DEF FramesOf
<1> HIDE DEF FramesOf
<1> QED BY <1>1, <1>2, <1>3

\* Sequences of the same length with the same elements.
LEMMA SameFrames ==
    ASSUME NEW F, NEW fs \in Seq(F), NEW gs \in Seq(F), Len(fs) = Len(gs),
           \A i \in 1..Len(fs) : fs[i] = gs[i]
    PROVE  fs = gs
OBVIOUS

\* es is a sequence.
IsSeq(es) == \E F : es \in Seq(F)

\* A stack with a frame pushed is a sequence as well.
LEMMA PushedIsSeq ==
    ASSUME NEW es, IsSeq(es), NEW f
    PROVE  IsSeq(<<f>> \o es)
<1>1. PICK F : es \in Seq(F)
  BY DEF IsSeq
<1>2. es \in Seq(F \union {f}) /\ <<f>> \in Seq(F \union {f})
  BY <1>1
<1>3. <<f>> \o es \in Seq(F \union {f})
  BY <1>2
<1> QED BY <1>3 DEF IsSeq

\* One frame, and the frames of expressions, on top of others.
OnTop(expr, e, es) == <<Frame(expr, e)>> \o es
AllOnTop(exprs, e, es) == FramesOf(exprs, e) \o es

\* The frame of a last expression is on top of those below.
LEMMA AppendedFrames ==
    ASSUME NEW xs, IsSeq(xs), NEW c, NEW e, NEW es, IsSeq(es)
    PROVE  AllOnTop(Append(xs, c), e, es) = AllOnTop(xs, e, OnTop(c, e, es))
<1>0. PICK X, F : xs \in Seq(X) /\ es \in Seq(F)
  BY DEF IsSeq
<1> USE <1>0
<1> DEFINE Y == X \union {c}
           G == F \union {Frame(x, e) : x \in Y}
           top == FramesOf(xs, e)
           new == FramesOf(Append(xs, c), e)
           f == Frame(c, e)
<1>1. /\ Append(xs, c) \in Seq(Y) /\ Len(Append(xs, c)) = Len(xs) + 1 /\ Len(xs) \in Nat
      /\ Append(xs, c)[Len(xs) + 1] = c
      /\ \A i \in 1..Len(xs) : Append(xs, c)[i] = xs[i]
  <2>1. xs \in Seq(Y) /\ c \in Y
    OBVIOUS
  <2> QED BY <2>1
<1>2. /\ top \in Seq({Frame(x, e) : x \in X}) /\ Len(top) = Len(xs)
      /\ \A i \in 1..Len(xs) : top[i] = Frame(xs[i], e)
  BY FramesAre
<1>3. /\ new \in Seq({Frame(x, e) : x \in Y}) /\ Len(new) = Len(xs) + 1
      /\ \A i \in 1..(Len(xs) + 1) : new[i] = Frame(Append(xs, c)[i], e)
  <2> HIDE DEF Y
  <2> QED BY <1>1, FramesAre
<1>4. top \in Seq(G) /\ new \in Seq(G) /\ es \in Seq(G) /\ f \in G
  <2>1. {Frame(x, e) : x \in X} \subseteq G /\ {Frame(x, e) : x \in Y} \subseteq G
    OBVIOUS
  <2>2. f \in G /\ F \subseteq G
    OBVIOUS
  <2> HIDE DEF G, top, new, f
  <2> QED BY <1>2, <1>3, <2>1, <2>2, SeqMonotonic
<1>5. /\ \A i \in 1..Len(xs) : new[i] = top[i]
      /\ new[Len(xs) + 1] = f
  <2>1. \A i \in 1..Len(xs) : i \in 1..(Len(xs) + 1)
    BY <1>1
  <2>2. Len(xs) + 1 \in 1..(Len(xs) + 1)
    BY <1>1
  <2> HIDE DEF top, new
  <2> QED BY <1>1, <1>2, <1>3, <2>1, <2>2
<1> HIDE DEF top, new, f, G
<1>6. new = Append(top, f)
  <2>1. Append(top, f) \in Seq(G) /\ Len(Append(top, f)) = Len(new)
    BY <1>2, <1>3, <1>4
  <2>2. \A i \in 1..Len(new) : new[i] = Append(top, f)[i]
    BY <1>1, <1>2, <1>3, <1>4, <1>5
  <2> QED BY <1>4, <2>1, <2>2, SameFrames
<1>7. Append(top, f) = top \o <<f>>
  BY <1>4
<1>8. (top \o <<f>>) \o es = top \o (<<f>> \o es)
  <2>1. <<f>> \in Seq(G)
    BY <1>4
  <2> QED BY <1>4, <2>1, ConcatAssociative
<1> QED BY <1>6, <1>7, <1>8 DEF top, new, f, OnTop, AllOnTop

\* So it is with the frame of an expression.
LEMMA OnTopIsSeq ==
    ASSUME NEW es, IsSeq(es), NEW expr, NEW e
    PROVE  IsSeq(OnTop(expr, e, es))
BY PushedIsSeq DEF OnTop

\* The frames of one, two and three expressions.
LEMMA OneFrame ==
    ASSUME NEW a, NEW e, NEW es
    PROVE  AllOnTop(<<a>>, e, es) = OnTop(a, e, es)
BY DEF FramesOf, AllOnTop, OnTop

\* Two expressions pushed together are two frames pushed, the last one first.
LEMMA TwoFrames ==
    ASSUME NEW a, NEW b, NEW e, NEW es, IsSeq(es)
    PROVE  AllOnTop(<<a, b>>, e, es) = OnTop(a, e, OnTop(b, e, es))
<1>1. <<a>> \in Seq({a, b}) /\ <<a, b>> \in Seq({a, b}) /\ Append(<<a>>, b) \in Seq({a, b})
  OBVIOUS
<1>2. Len(Append(<<a>>, b)) = 2 /\ Append(<<a>>, b)[1] = a /\ Append(<<a>>, b)[2] = b
  BY <1>1
<1>3. Len(<<a, b>>) = 2 /\ <<a, b>>[1] = a /\ <<a, b>>[2] = b
  OBVIOUS
<1>4. \A i \in 1..Len(Append(<<a>>, b)) : Append(<<a>>, b)[i] = <<a, b>>[i]
  BY <1>2, <1>3
<1>5. Append(<<a>>, b) = <<a, b>>
  BY <1>1, <1>2, <1>3, <1>4, SameFrames
<1>6. IsSeq(<<a>>)
  BY <1>1 DEF IsSeq
<1>7. AllOnTop(Append(<<a>>, b), e, es) = AllOnTop(<<a>>, e, OnTop(b, e, es))
  BY <1>6, AppendedFrames
<1> QED BY <1>5, <1>7, OneFrame

\* So it is with three.
LEMMA ThreeFrames ==
    ASSUME NEW a, NEW b, NEW c, NEW e, NEW es, IsSeq(es)
    PROVE  AllOnTop(<<a, b, c>>, e, es) = OnTop(a, e, OnTop(b, e, OnTop(c, e, es)))
<1> DEFINE S == {a, b, c}
<1>1. <<a, b>> \in Seq(S) /\ <<a, b, c>> \in Seq(S) /\ c \in S
  OBVIOUS
<1>2. /\ Append(<<a, b>>, c) \in Seq(S) /\ Len(Append(<<a, b>>, c)) = 3
      /\ Append(<<a, b>>, c)[1] = a /\ Append(<<a, b>>, c)[2] = b /\ Append(<<a, b>>, c)[3] = c
  BY <1>1
<1>3. /\ Len(<<a, b, c>>) = 3
      /\ <<a, b, c>>[1] = a /\ <<a, b, c>>[2] = b /\ <<a, b, c>>[3] = c
  OBVIOUS
<1>4. \A i \in 1..Len(Append(<<a, b>>, c)) : Append(<<a, b>>, c)[i] = <<a, b, c>>[i]
  BY <1>2, <1>3
<1>5. Append(<<a, b>>, c) = <<a, b, c>>
  BY <1>1, <1>2, <1>3, <1>4, SameFrames
<1>6. IsSeq(<<a, b>>)
  BY <1>1 DEF IsSeq
<1>7. AllOnTop(Append(<<a, b>>, c), e, es) = AllOnTop(<<a, b>>, e, OnTop(c, e, es))
  BY <1>6, AppendedFrames
<1>8. AllOnTop(<<a, b>>, e, OnTop(c, e, es)) = OnTop(a, e, OnTop(b, e, OnTop(c, e, es)))
  BY OnTopIsSeq, TwoFrames
<1> QED BY <1>5, <1>7, <1>8

\* Expressions of programs, which are no frames of the evaluator's own.
Plain(expr) == expr.type \notin {"Continuation", "SavedEnv", "ExceptionHandler"}

\* An expression of a program pops no operands and leaves one, of any type.
LEMMA PlainIs ==
    ASSUME NEW expr, Plain(expr)
    PROVE  /\ Pops(expr) = 0 /\ Pushes(expr) = 1 /\ Wanted(expr) = "any"
           /\ expr.type # "ExceptionHandler" /\ expr.type # "SavedEnv"
BY DEF Plain, Pops, Pushes, Wanted

\* Expressions of programs pushed: each leaves an operand.
LEMMA FitsPlain ==
    ASSUME NEW all, NEW m \in Nat, NEW es, Suffix(all, m, es),
           \A j \in 1..m : Plain(all[j].expr),
           NEW k \in Nat, NEW low \in Nat, low <= k, NEW l, l = k + m,
           NEW exact, NEW total, Fits(es, l, low, "any", exact, total), m # 0
    PROVE  Fits(all, k, low, "any", exact, total)
<1> DEFINE up == [j \in 1..(m + 1) |-> k + j - 1]
<1>1. ASSUME NEW j \in 1..m
      PROVE  /\ PopsAt(all, j) = 0 /\ PushesAt(all, j) = 1 /\ ~Handles(all, j) /\ ~Saves(all, j)
             /\ Wanted(all[j].expr) = "any"
  <2>1. Plain(all[j].expr)
    OBVIOUS
  <2> QED BY <2>1, PlainIs DEF PopsAt, PushesAt, Handles, Saves
<1>2. /\ up \in [1..(m + 1) -> Nat] /\ up[1] = k /\ up[m + 1] = l
      /\ \A j \in 1..m : up[j] = k + j - 1 /\ up[j + 1] = k + j /\ up[j] \in Nat
  OBVIOUS
<1> HIDE DEF up
<1>3. \A j \in 1..m : /\ PopsAt(all, j) \in Nat /\ PushesAt(all, j) \in Nat
                      /\ up[j + 1] = up[j] - PopsAt(all, j) + PushesAt(all, j)
                      /\ low <= up[j] - PopsAt(all, j)
  <2> SUFFICES ASSUME NEW j \in 1..m
               PROVE  /\ PopsAt(all, j) \in Nat /\ PushesAt(all, j) \in Nat
                      /\ up[j + 1] = up[j] - PopsAt(all, j) + PushesAt(all, j)
                      /\ low <= up[j] - PopsAt(all, j)
    OBVIOUS
  <2>1. PopsAt(all, j) = 0 /\ PushesAt(all, j) = 1
    BY <1>1
  <2>2. up[j] = k + j - 1 /\ up[j + 1] = k + j /\ up[j] \in Nat
    BY <1>2
  <2> QED BY <2>1, <2>2
<1>4. \A j \in 1..m : ~Handles(all, j) /\ ~Saves(all, j) /\ Wanted(all[j].expr) = "any"
  BY <1>1
<1>5. Climbs(all, m, up, low, "any")
  BY <1>2, <1>3, <1>4 DEF Climbs
<1>6. m \in Nat \ {0} /\ l = up[m + 1]
  BY <1>2
<1>7. PICK gives : gives = Given(all[m].expr)
  OBVIOUS
<1>8. Fits(es, l, low, gives, exact, total)
  BY FitsTop
<1>9. PushedOn(all, es, k, l, low, "any", gives)
  BY <1>2, <1>5, <1>6, <1>7 DEF PushedOn
<1> QED BY <1>8, <1>9, FitsPush

\* Expressions of programs pushed together leave as many operands as they are.
LEMMA FitsPushMany ==
    ASSUME NEW es, IsSeq(es), NEW S, \A x \in S : Plain(x), NEW xs \in Seq(S), NEW e,
           NEW k \in Nat, NEW low \in Nat, low <= k, NEW l, l = k + Len(xs),
           NEW exact, NEW total, Fits(es, l, low, "any", exact, total)
    PROVE  Fits(AllOnTop(xs, e, es), k, low, "any", exact, total)
<1>0. PICK F : es \in Seq(F)
  BY DEF IsSeq
<1> USE <1>0
<1> DEFINE new == FramesOf(xs, e)
           all == new \o es
           m == Len(xs)
           G == F \union {Frame(x, e) : x \in S}
<1>1. /\ new \in Seq({Frame(x, e) : x \in S}) /\ Len(new) = m /\ m \in Nat
      /\ \A i \in 1..m : new[i] = Frame(xs[i], e)
  BY FramesAre
<1>2. new \in Seq(G) /\ es \in Seq(G)
  <2>1. F \subseteq G /\ {Frame(x, e) : x \in S} \subseteq G
    OBVIOUS
  <2> HIDE DEF G, new, m
  <2> QED BY <1>1, <2>1, SeqMonotonic
<1>3. Suffix(all, m, es) /\ \A j \in 1..m : all[j] = new[j]
  <2> HIDE DEF G, new, m
  <2> QED BY <1>1, <1>2, ConcatIsSuffix
<1>4. \A j \in 1..m : Plain(all[j].expr)
  <2> SUFFICES ASSUME NEW j \in 1..m PROVE Plain(all[j].expr)
    OBVIOUS
  <2>1. all[j] = new[j] /\ new[j] = Frame(xs[j], e)
    BY <1>1, <1>3
  <2>2. Plain(xs[j])
    OBVIOUS
  <2> HIDE DEF all, new, AllOnTop
  <2> QED BY <2>1, <2>2 DEF Frame
<1>5. CASE m = 0
  <2>1. new = <<>> /\ all = es
    <3>1. new = <<>>
      <4> HIDE DEF new, m
      <4> QED BY <1>1, <1>5
    <3> HIDE DEF new
    <3> QED BY <3>1
  <2>2. l = k
    BY <1>5
  <2> HIDE DEF new, all
  <2> QED BY <2>1, <2>2 DEF all, new, AllOnTop
<1>6. CASE m # 0
  <2> HIDE DEF new, all, m, G
  <2>1. m \in Nat /\ l = k + m /\ Suffix(all, m, es)
    BY <1>1, <1>3 DEF m
  <2>2. Fits(all, k, low, "any", exact, total)
    BY <1>4, <1>6, <2>1, FitsPlain
  <2> QED BY <2>2 DEF all, new, AllOnTop
<1> QED BY <1>5, <1>6

-----------------------------------------------------------------------------
(* Frames. *)

\* The names of the continuations that the evaluator pushes.
Continuations ==
    {"list", "array", "Queue", "binding", "term", "BracketExpr", "recordSpec", "if", "do", "Let",
     "LetIn", "letRec", "apply", "closureApplyArgs", "primitiveApplyArgs", "colon", "reassign",
     "loop1", "loop2"}

\* What a continuation holds, when objects are in S and there are n triples.
IsContinuation(c, S, n) ==
    /\ c.name \in Continuations
    /\ c.name \in {"array", "Queue", "do"} => c.arg \in Nat
    /\ c.name \in {"term", "colon", "reassign"} => c.arg \in S
    /\ c.name = "recordSpec" => c.arg \in Seq(S)
    /\ c.name = "if" => c.arg[1] \in S /\ c.arg[2] \in S
    /\ c.name \in {"Let", "LetIn"} => c.arg \in S /\ c.arg.type = c.name
    /\ c.name = "letRec" => c.arg.first \in Nat /\ c.arg.count \in Nat
    /\ c.name = "apply" => c.arg \in S /\ c.arg.type = "List"
    /\ c.name = "closureApplyArgs" => c.arg \in S /\ c.arg.type = "Closure"
    /\ c.name = "primitiveApplyArgs" => c.arg \in S /\ c.arg.type = "Primitive" /\ ~c.arg.isMacro
    /\ c.name = "loop1" => c.arg \in S /\ c.arg.type = "Loop"
    /\ c.name = "loop2" => /\ c.arg \in [remaining : S, body : S, binding : 0..n]
                           /\ c.arg.remaining.type = "List"

\* The expression of a frame: one of a program, or one of the evaluator's own.
IsExpr(expr, S, n) ==
    \/ expr \in S
    \/ expr.type = "Continuation" /\ IsContinuation(expr, S, n)
    \/ expr.type = "SavedEnv" /\ expr.env \in 0..n
    \/ expr.type = "ExceptionHandler" /\ expr.rules \in Rules(S) /\ expr.ostack \in Seq(S)
                                      /\ expr.env \in 0..n

\* The environment of a frame: one of those of n triples, or the one it will find.
IsEnv(e, n) == e \in {Dynamic} \union 0..n

\* A frame: that of a handler has an environment of its own.
IsFrame(expr, e, S, n) ==
    /\ IsExpr(expr, S, n) /\ IsEnv(e, n)
    /\ expr.type = "ExceptionHandler" => e # Dynamic

\* The frames of a stack.
Framed(es, S, n) ==
    /\ IsSeq(es)
    /\ \A j \in 1..Len(es) : IsFrame(es[j].expr, es[j].env, S, n)

\* A set of objects holds expressions of programs only.
LEMMA ClosedPlain ==
    ASSUME NEW S, NEW n, Closed(S, n), NEW x \in S
    PROVE  Plain(x)
BY DEF Closed, IsObject, ObjectTypes, Plain

\* Frames stay frames when there are more objects and more triples.
LEMMA FramesGrow ==
    ASSUME NEW S, NEW T, S \subseteq T, NEW n \in Nat, NEW m \in Nat, n <= m,
           NEW es, Framed(es, S, n)
    PROVE  Framed(es, T, m)
<1>1. Seq(S) \subseteq Seq(T)
  BY SeqMonotonic
<1>2. Rules(S) \subseteq Rules(T)
  <2>1. [params : S, body : S] \subseteq [params : T, body : T]
    OBVIOUS
  <2> QED BY <2>1, SeqMonotonic DEF Rules
<1>3. 0..n \subseteq 0..m
  OBVIOUS
<1>4. [remaining : S, body : S, binding : 0..n] \subseteq [remaining : T, body : T, binding : 0..m]
  BY <1>3
<1>5. ASSUME NEW c, IsContinuation(c, S, n) PROVE IsContinuation(c, T, m)
  BY <1>1, <1>4, <1>5 DEF IsContinuation
<1>6. ASSUME NEW expr, IsExpr(expr, S, n) PROVE IsExpr(expr, T, m)
  BY <1>1, <1>2, <1>3, <1>5, <1>6 DEF IsExpr
<1>7. ASSUME NEW e, IsEnv(e, n) PROVE IsEnv(e, m)
  BY <1>3, <1>7 DEF IsEnv
<1>8. ASSUME NEW expr, NEW e, IsFrame(expr, e, S, n) PROVE IsFrame(expr, e, T, m)
  BY <1>6, <1>7, <1>8 DEF IsFrame
<1> QED BY <1>8 DEF Framed

\* The first frame and those below it.
LEMMA FramedTail ==
    ASSUME NEW S, NEW n, NEW es, Framed(es, S, n), es # <<>>
    PROVE  /\ IsExpr(Head(es).expr, S, n) /\ IsEnv(Head(es).env, n)
           /\ Framed(Tail(es), S, n)
<1>1. PICK F : es \in Seq(F)
  BY DEF Framed, IsSeq
<1>2. /\ Suffix(es, 1, Tail(es)) /\ Head(es) = es[1] /\ Len(es) >= 1 /\ Tail(es) \in Seq(F)
      /\ Len(es) \in Nat
  BY <1>1, TailIsSuffix
<1>3. 1 \in 1..Len(es)
  BY <1>2
<1>4. IsFrame(Head(es).expr, Head(es).env, S, n)
  BY <1>2, <1>3 DEF Framed
<1>5. ASSUME NEW j \in 1..Len(Tail(es))
      PROVE  IsFrame(Tail(es)[j].expr, Tail(es)[j].env, S, n)
  <2>1. Tail(es)[j] = es[1 + j] /\ 1 + j \in 1..Len(es)
    BY <1>2 DEF Suffix
  <2> QED BY <2>1 DEF Framed
<1> QED BY <1>2, <1>4, <1>5 DEF Framed, IsSeq, IsFrame

\* The frames below any of them.
LEMMA FramedSuffix ==
    ASSUME NEW S, NEW n, NEW es, Framed(es, S, n), NEW d \in Nat, NEW rest, IsSeq(rest),
           Suffix(es, d, rest)
    PROVE  Framed(rest, S, n)
<1>1. ASSUME NEW j \in 1..Len(rest)
      PROVE  IsFrame(rest[j].expr, rest[j].env, S, n)
  <2>1. rest[j] = es[d + j] /\ d + j \in 1..Len(es)
    BY DEF Suffix
  <2> QED BY <2>1 DEF Framed
<1> QED BY <1>1 DEF Framed

\* A frame pushed.
LEMMA FramedOnTop ==
    ASSUME NEW S, NEW n, NEW es, Framed(es, S, n), NEW expr, NEW e, IsFrame(expr, e, S, n)
    PROVE  Framed(OnTop(expr, e, es), S, n)
<1> DEFINE f == Frame(expr, e)
           all == <<f>> \o es
<1>1. IsSeq(all)
  BY PushedIsSeq DEF Framed
<1>2. PICK F : es \in Seq(F)
  BY DEF Framed, IsSeq
<1> DEFINE G == F \union {f}
<1>3. <<f>> \in Seq(G) /\ es \in Seq(G) /\ Len(<<f>>) = 1 /\ <<f>>[1] = f
  BY <1>2
<1>4. Suffix(all, 1, es) /\ all[1] = f
  <2> HIDE DEF f, G
  <2>1. 1 \in 1..Len(<<f>>)
    BY <1>3
  <2>2. /\ Suffix(<<f>> \o es, Len(<<f>>), es)
        /\ \A j \in 1..Len(<<f>>) : (<<f>> \o es)[j] = <<f>>[j]
    BY <1>3, ConcatIsSuffix
  <2> QED BY <1>3, <2>1, <2>2
<1>5. ASSUME NEW j \in 1..Len(all) PROVE IsFrame(all[j].expr, all[j].env, S, n)
  <2>1. CASE j = 1
    <3>1. all[j].expr = expr /\ all[j].env = e
      <4> HIDE DEF all
      <4>1. f.expr = expr /\ f.env = e
        BY DEF Frame
      <4> QED BY <1>4, <2>1, <4>1
    <3> HIDE DEF all
    <3> QED BY <3>1
  <2>2. CASE j # 1
    <3>1. j - 1 \in 1..Len(es) /\ 1 + (j - 1) = j
      <4> HIDE DEF all
      <4> QED BY <1>4, <2>2 DEF Suffix
    <3>2. all[j] = es[j - 1]
      <4> HIDE DEF all
      <4> QED BY <1>4, <3>1 DEF Suffix
    <3> HIDE DEF all
    <3> QED BY <3>1, <3>2 DEF Framed
  <2> QED BY <2>1, <2>2
<1> HIDE DEF all
<1>6. Framed(all, S, n)
  BY <1>1, <1>5 DEF Framed
<1> QED BY <1>6 DEF all, f, OnTop

\* The frames of expressions pushed.
LEMMA FramedAll ==
    ASSUME NEW S, NEW n, NEW es, Framed(es, S, n), \A x \in S : Plain(x), NEW xs \in Seq(S),
           NEW e, IsEnv(e, n)
    PROVE  Framed(AllOnTop(xs, e, es), S, n)
<1> DEFINE new == FramesOf(xs, e)
           all == new \o es
           m == Len(xs)
<1>1. PICK F : es \in Seq(F)
  BY DEF Framed, IsSeq
<1> DEFINE G == F \union {Frame(x, e) : x \in S}
<1>2. /\ new \in Seq({Frame(x, e) : x \in S}) /\ Len(new) = m /\ m \in Nat
      /\ \A i \in 1..m : new[i] = Frame(xs[i], e)
  BY FramesAre
<1>3. new \in Seq(G) /\ es \in Seq(G)
  <2>1. F \subseteq G /\ {Frame(x, e) : x \in S} \subseteq G
    OBVIOUS
  <2> HIDE DEF G, new, m
  <2> QED BY <1>1, <1>2, <2>1, SeqMonotonic
<1>4. Suffix(all, m, es) /\ (\A j \in 1..m : all[j] = new[j]) /\ all \in Seq(G)
  <2> HIDE DEF G, new, m
  <2> QED BY <1>2, <1>3, ConcatIsSuffix
<1>5. ASSUME NEW j \in 1..Len(all) PROVE IsFrame(all[j].expr, all[j].env, S, n)
  <2> HIDE DEF all, new, G
  <2>1. CASE j <= m
    <3>1. j \in 1..m
      BY <1>2, <2>1
    <3>2. all[j] = Frame(xs[j], e) /\ xs[j] \in S
      BY <1>2, <1>4, <3>1
    <3>3. all[j].expr = xs[j] /\ all[j].env = e
      BY <3>2 DEF Frame
    <3> QED BY <3>2, <3>3 DEF IsExpr, IsFrame, Plain
  <2>2. CASE ~ (j <= m)
    <3>1. j - m \in 1..Len(es) /\ m + (j - m) = j
      BY <1>2, <1>4, <2>2 DEF Suffix
    <3>2. all[j] = es[j - m]
      BY <1>4, <3>1 DEF Suffix
    <3> QED BY <3>1, <3>2 DEF Framed
  <2> QED BY <2>1, <2>2
<1> HIDE DEF all, G
<1>6. Framed(all, S, n)
  BY <1>4, <1>5 DEF Framed, IsSeq
<1> QED BY <1>6 DEF all, AllOnTop

\* The frame that restores an environment.
LEMMA FramedSaveEnv ==
    ASSUME NEW S, NEW n, NEW es, Framed(es, S, n), NEW e \in 0..n
    PROVE  Framed(SaveEnv(es, e), S, n)
<1>1. IsFrame(SavedEnv(e), e, S, n)
  BY DEF IsFrame, IsExpr, IsEnv, SavedEnv
<1>2. Framed(OnTop(SavedEnv(e), e, es), S, n)
  BY <1>1, FramedOnTop
<1> QED BY <1>2 DEF SaveEnv, OnTop

-----------------------------------------------------------------------------
(* Objects made of others. *)

\* Objects with no parts.
LEMMA SymbolJoins ==
    ASSUME NEW S, NEW n \in Nat, Closed(S, n), NEW name
    PROVE  \E T : With(S, n, T, Symbol(name))
<1>1. IsObject(Symbol(name), S, n)
  BY DEF IsObject, ObjectTypes, Symbol
<1> QED BY <1>1, ObjectJoins

\* A number joins as a symbol does: it has no parts.
LEMMA IntegerJoins ==
    ASSUME NEW S, NEW n \in Nat, Closed(S, n), NEW m \in Int
    PROVE  \E T : With(S, n, T, Integer(m))
<1>1. IsObject(Integer(m), S, n)
  BY DEF IsObject, ObjectTypes, Integer
<1> QED BY <1>1, ObjectJoins

\* Collections of objects.
LEMMA ArrayJoins ==
    ASSUME NEW S, NEW n \in Nat, Closed(S, n), NEW elems \in Seq(S)
    PROVE  \E T : With(S, n, T, Array(elems))
<1>1. IsObject(Array(elems), S, n)
  BY DEF IsObject, ObjectTypes, Array
<1> QED BY <1>1, ObjectJoins

\* A queue of objects joins them.
LEMMA QueueJoins ==
    ASSUME NEW S, NEW n \in Nat, Closed(S, n), NEW elems \in Seq(S)
    PROVE  \E T : With(S, n, T, Queue(elems))
<1>1. IsObject(Queue(elems), S, n)
  BY DEF IsObject, ObjectTypes, Queue
<1> QED BY <1>1, ObjectJoins

\* A pair of objects, which is what a binding leaves, joins them.
LEMMA PairJoins ==
    ASSUME NEW S, NEW n \in Nat, Closed(S, n), NEW key \in S, NEW val \in S
    PROVE  \E T : With(S, n, T, Pair(key, val))
<1>1. IsObject(Pair(key, val), S, n)
  BY DEF IsObject, ObjectTypes, Pair
<1> QED BY <1>1, ObjectJoins

\* What a cell is made of, and that the empty list is none.
LEMMA CellIs ==
    ASSUME NEW first, NEW rest
    PROVE  /\ Cell(first, rest).type = "List" /\ ~IsEmpty(Cell(first, rest))
           /\ First(Cell(first, rest)) = first /\ Rest(Cell(first, rest)) = rest
           /\ EMPTY_LIST.type = "List" /\ IsEmpty(EMPTY_LIST)
BY DEF Cell, IsEmpty, First, Rest, EMPTY_LIST

\* A cell in front of a list joins them.
LEMMA CellJoins ==
    ASSUME NEW S, NEW n \in Nat, Closed(S, n), NEW first \in S, NEW rest \in S
    PROVE  \E T : With(S, n, T, Cell(first, rest))
<1>1. IsObject(Cell(first, rest), S, n)
  BY DEF IsObject, ObjectTypes, Cell
<1> QED BY <1>1, ObjectJoins

\* A term joins its symbol and its elements.
LEMMA TermJoins ==
    ASSUME NEW S, NEW n \in Nat, Closed(S, n), NEW symbol \in S, NEW elems \in Seq(S)
    PROVE  \E T : With(S, n, T, Term(symbol, elems))
<1>1. PICK U : With(S, n, U, Array(elems))
  BY ArrayJoins
<1>2. symbol \in U /\ Array(elems) \in U /\ Array(elems).type = "Array" /\ Closed(U, n) /\ S \subseteq U
  BY <1>1 DEF With, Array
<1>3. IsObject(Term(symbol, elems), U, n)
  BY <1>2 DEF IsObject, ObjectTypes, Term
<1>4. PICK T : With(U, n, T, Term(symbol, elems))
  BY <1>2, <1>3, ObjectJoins
<1>5. With(S, n, T, Term(symbol, elems))
  BY <1>2, <1>4 DEF With
<1> QED BY <1>5

\* A record joins its names and its elements.
LEMMA RecordJoins ==
    ASSUME NEW S, NEW n \in Nat, Closed(S, n), NEW names \in Seq(S), NEW elems \in Seq(S)
    PROVE  \E T : With(S, n, T, Record(names, elems))
<1>1. IsObject(Record(names, elems), S, n)
  BY DEF IsObject, ObjectTypes, Record
<1> QED BY <1>1, ObjectJoins

\* A closure joins the rules of its abstraction: its environment is one there is.
LEMMA ClosureJoins ==
    ASSUME NEW S, NEW n \in Nat, Closed(S, n), NEW rules \in Rules(S), NEW e \in 0..n
    PROVE  \E T : With(S, n, T, Closure(rules, e))
<1>1. IsObject(Closure(rules, e), S, n)
  BY DEF IsObject, ObjectTypes, Closure
<1> QED BY <1>1, ObjectJoins

\* A larger set has the elements of a sequence as well.
LEMMA SeqGrows ==
    ASSUME NEW S, NEW T, S \subseteq T, NEW xs \in Seq(S)
    PROVE  xs \in Seq(T)
BY SeqMonotonic

\* What an exception throws: an array of a symbol, a text and an object.
LEMMA ExnJoins ==
    ASSUME NEW S, NEW n \in Nat, Closed(S, n), NEW kind, NEW obj \in S, Text \in S
    PROVE  \E T : With(S, n, T, Exn(kind, obj))
<1>1. PICK U : With(S, n, U, Symbol(kind))
  BY SymbolJoins
<1>2. Closed(U, n) /\ S \subseteq U /\ Symbol(kind) \in U /\ Text \in U /\ obj \in U
  BY <1>1 DEF With
<1>3. <<Symbol(kind), Text, obj>> \in Seq(U)
  BY <1>2
<1>4. PICK T : With(U, n, T, Array(<<Symbol(kind), Text, obj>>))
  BY <1>2, <1>3, ArrayJoins
<1>5. With(S, n, T, Exn(kind, obj))
  BY <1>2, <1>4 DEF With, Exn
<1> QED BY <1>5

\* Pairs of objects in an array.
LEMMA TwoJoin ==
    ASSUME NEW S, NEW n \in Nat, Closed(S, n), NEW a \in S, NEW b \in S
    PROVE  \E T : With(S, n, T, Array(<<a, b>>))
<1>1. <<a, b>> \in Seq(S)
  OBVIOUS
<1> QED BY <1>1, ArrayJoins

\* The lists of the rests of a sequence.
Unrolls(f, objs) ==
    f = [i \in 1..Len(objs) + 1 |-> IF i > Len(objs) THEN EMPTY_LIST ELSE Cell(objs[i], f[i + 1])]

\* Every sequence has the lists of its rests, from the empty one up.
LEMMA UnrollsExists ==
    ASSUME NEW X, NEW objs \in Seq(X)
    PROVE  \E f : Unrolls(f, objs)
<1> DEFINE N == Len(objs)
           Part(m, f) == /\ f = [i \in (N + 1 - m)..(N + 1) |-> f[i]]
                         /\ f[N + 1] = EMPTY_LIST
                         /\ \A i \in (N + 1 - m)..N : f[i] = Cell(objs[i], f[i + 1])
           Good == {m \in 0..N : \E f : Part(m, f)}
<1>1. N \in Nat
  OBVIOUS
<1>2. 0 \in Good
  <2> DEFINE f == [i \in (N + 1)..(N + 1) |-> EMPTY_LIST]
  <2>1. f[N + 1] = EMPTY_LIST /\ (N + 1)..N = {} /\ N + 1 - 0 = N + 1
    BY <1>1
  <2>2. f = [i \in (N + 1)..(N + 1) |-> f[i]]
    OBVIOUS
  <2>3. Part(0, f)
    <3> HIDE DEF f
    <3> QED BY <2>1, <2>2
  <2> HIDE DEF Part
  <2> QED BY <1>1, <2>3
<1>3. ASSUME NEW m \in 1..N, m - 1 \in Good PROVE m \in Good
  <2>1. PICK f : Part(m - 1, f)
    BY <1>3
  <2> DEFINE s == N + 1 - m
             g == [i \in s..(N + 1) |-> IF i = s THEN Cell(objs[s], f[s + 1]) ELSE f[i]]
  <2>2. /\ s \in Int /\ s <= N /\ s >= 1 /\ N + 1 - (m - 1) = s + 1
        /\ N + 1 \in s..(N + 1) /\ N + 1 # s
    BY <1>1
  <2>3. g[N + 1] = EMPTY_LIST
    BY <2>1, <2>2
  <2>4. ASSUME NEW i \in s..N PROVE g[i] = Cell(objs[i], g[i + 1])
    <3>1. i + 1 \in s..(N + 1) /\ i + 1 # s /\ i \in s..(N + 1)
      BY <1>1, <2>2
    <3>2. g[i + 1] = f[i + 1]
      BY <3>1
    <3>3. CASE i = s
      BY <3>1, <3>2, <3>3
    <3>4. CASE i # s
      <4>1. i \in (s + 1)..N
        BY <1>1, <2>2, <3>4
      <4>2. f[i] = Cell(objs[i], f[i + 1])
        BY <2>1, <2>2, <4>1
      <4>3. g[i] = f[i]
        BY <3>1, <3>4
      <4> QED BY <3>2, <4>2, <4>3
    <3> QED BY <3>3, <3>4
  <2>5. g = [i \in s..(N + 1) |-> g[i]]
    OBVIOUS
  <2>6. Part(m, g)
    <3> HIDE DEF g
    <3> QED BY <2>3, <2>4, <2>5
  <2> HIDE DEF Part, g
  <2> QED BY <2>6
<1>4. N \in Good
  <2>1. \A m \in 0..N : m \in Good
    <3> HIDE DEF Good, N
    <3> QED BY <1>1, <1>2, <1>3, Counting
  <2> HIDE DEF Good
  <2> QED BY <1>1, <2>1
<1>5. PICK f : Part(N, f)
  BY <1>4
<1>6. Unrolls(f, objs)
  <2>1. N + 1 - N = 1
    BY <1>1
  <2>2. \A i \in 1..(N + 1) : f[i] = IF i > N THEN EMPTY_LIST ELSE Cell(objs[i], f[i + 1])
    <3> SUFFICES ASSUME NEW i \in 1..(N + 1)
                 PROVE  f[i] = IF i > N THEN EMPTY_LIST ELSE Cell(objs[i], f[i + 1])
      OBVIOUS
    <3>1. CASE i = N + 1
      BY <3>1, <1>1, <1>5
    <3>2. CASE i # N + 1
      <4>1. i \in 1..N /\ ~ (i > N)
        BY <1>1, <3>2
      <4> QED BY <4>1, <1>5, <2>1
    <3> QED BY <3>1, <3>2
  <2>3. f = [i \in 1..(N + 1) |-> f[i]]
    BY <1>5, <2>1
  <2> QED BY <2>2, <2>3 DEF Unrolls
<1> QED BY <1>6

\* A list of objects of a set is in a larger one.
LEMMA ListJoins ==
    ASSUME NEW S, NEW n \in Nat, Closed(S, n), EMPTY_LIST \in S, NEW objs \in Seq(S)
    PROVE  /\ \E T : With(S, n, T, List(objs))
           /\ List(objs).type = "List"
<1> DEFINE N == Len(objs)
           f == CHOOSE f : f = [i \in 1..Len(objs) + 1 |->
                    IF i > Len(objs) THEN EMPTY_LIST ELSE Cell(objs[i], f[i + 1])]
<1>1. N \in Nat /\ \A i \in 1..N : objs[i] \in S
  OBVIOUS
<1>2. Unrolls(f, objs)
  BY UnrollsExists DEF Unrolls
<1>3. List(objs) = f[1]
  BY DEF List
<1> HIDE DEF f
<1>4. /\ f[N + 1] = EMPTY_LIST
      /\ \A i \in 1..N : f[i] = Cell(objs[i], f[i + 1])
  <2>1. N + 1 \in 1..(N + 1) /\ N + 1 > N
    BY <1>1
  <2>2. \A i \in 1..N : i \in 1..(N + 1) /\ ~ (i > N)
    BY <1>1
  <2>3. \A i \in 1..(N + 1) : f[i] = IF i > N THEN EMPTY_LIST ELSE Cell(objs[i], f[i + 1])
    BY <1>2 DEF Unrolls
  <2> QED BY <2>1, <2>2, <2>3
<1> DEFINE Good == {m \in 0..N : \E T : With(S, n, T, f[N + 1 - m])}
<1>5. 0 \in Good
  <2>1. N + 1 - 0 = N + 1 /\ S \subseteq S
    BY <1>1
  <2>2. With(S, n, S, f[N + 1 - 0])
    BY <1>4, <2>1 DEF With
  <2> QED BY <2>2, <1>1
<1>6. ASSUME NEW m \in 1..N, m - 1 \in Good PROVE m \in Good
  <2> DEFINE i == N + 1 - m
  <2>1. i \in 1..N /\ N + 1 - (m - 1) = i + 1
    BY <1>1
  <2>2. PICK U : With(S, n, U, f[i + 1])
    BY <1>6, <2>1
  <2>3. Closed(U, n) /\ S \subseteq U /\ f[i + 1] \in U /\ objs[i] \in U
    BY <1>1, <2>2 DEF With
  <2>4. PICK T : With(U, n, T, Cell(objs[i], f[i + 1]))
    BY <2>3, CellJoins
  <2>5. With(S, n, T, f[i])
    BY <1>4, <2>3, <2>4 DEF With
  <2> QED BY <2>5
<1>7. N \in Good
  <2>1. \A m \in 0..N : m \in Good
    <3> HIDE DEF Good, N
    <3> QED BY <1>1, <1>5, <1>6, Counting
  <2> HIDE DEF Good
  <2> QED BY <1>1, <2>1
<1>8. N + 1 - N = 1
  BY <1>1
<1>9. \E T : With(S, n, T, List(objs))
  BY <1>3, <1>7, <1>8
<1>10. List(objs).type = "List"
  <2>1. CASE N = 0
    BY <1>3, <1>4, <2>1, CellIs
  <2>2. CASE N # 0
    <3>1. 1 \in 1..N
      BY <1>1, <2>2
    <3>2. f[1] = Cell(objs[1], f[1 + 1])
      BY <1>4, <3>1
    <3> QED BY <1>3, <3>2, CellIs
  <2> QED BY <2>1, <2>2
<1> QED BY <1>9, <1>10

\* Calls of functions with one argument.
LEMMA ApplyJoins ==
    ASSUME NEW S, NEW n \in Nat, Closed(S, n), EMPTY_LIST \in S, NEW obj \in S
    PROVE  \E T : /\ S \subseteq T /\ Closed(T, n)
                  /\ \A abstr \in S : Apply(abstr, <<obj>>) \in T
<1>1. <<obj>> \in Seq(S)
  OBVIOUS
<1>2. PICK U : With(S, n, U, List(<<obj>>))
  BY <1>1, ListJoins
<1>3. S \subseteq U /\ Closed(U, n) /\ List(<<obj>>) \in U /\ List(<<obj>>).type = "List"
  BY <1>1, <1>2, ListJoins DEF With
<1> DEFINE New == {Apply(abstr, <<obj>>) : abstr \in S}
           T == U \union New
<1>4. ASSUME NEW call \in New PROVE IsObject(call, T, n)
  <2>1. PICK abstr \in S : call = Apply(abstr, <<obj>>)
    OBVIOUS
  <2>2. abstr \in T /\ List(<<obj>>) \in T
    BY <1>3
  <2> HIDE DEF T
  <2>3. IsObject(Apply(abstr, <<obj>>), T, n)
    BY <1>3, <2>2 DEF IsObject, ObjectTypes, Apply
  <2> QED BY <2>1, <2>3
<1>5. Closed(T, n)
  <2> HIDE DEF New
  <2> QED BY <1>3, <1>4, ObjectsJoin
<1>6. S \subseteq T /\ \A abstr \in S : Apply(abstr, <<obj>>) \in T
  BY <1>3
<1> HIDE DEF T
<1> QED BY <1>5, <1>6

\* The list that an iterator has still to give.
LEMMA IteratorJoins ==
    ASSUME NEW S, NEW n \in Nat, Closed(S, n), EMPTY_LIST \in S, NEW obj \in S,
           obj.type # "String"
    PROVE  /\ \E T : With(S, n, T, Iterator(obj))
           /\ Iterator(obj).type = "List"
<1>1. IsObject(obj, S, n)
  BY DEF Closed
<1>2. CASE obj.type = "List"
  <2>1. Iterator(obj) = obj
    BY <1>2 DEF Iterator
  <2>2. With(S, n, S, obj)
    BY DEF With
  <2> QED BY <1>2, <2>1, <2>2
<1>3. CASE obj.type \in {"Array", "Queue"}
  <2>1. obj.elems \in Seq(S)
    BY <1>1, <1>3 DEF IsObject
  <2>2. Iterator(obj) = List(obj.elems)
    BY <1>3 DEF Iterator
  <2> QED BY <2>1, <2>2, ListJoins
<1>4. CASE obj.type = "Integer"
  <2> DEFINE ints == [i \in 1..obj.value |-> Integer(i - 1)]
             New == {Integer(m) : m \in Int}
             U == S \union New
  <2>1. Closed(U, n)
    <3>1. ASSUME NEW int \in New PROVE IsObject(int, U, n)
      <4>1. PICK m \in Int : int = Integer(m)
        OBVIOUS
      <4> HIDE DEF U
      <4>2. IsObject(Integer(m), U, n)
        BY DEF IsObject, ObjectTypes, Integer
      <4> QED BY <4>1, <4>2
    <3> HIDE DEF New
    <3> QED BY <3>1, ObjectsJoin
  <2>2. S \subseteq U /\ EMPTY_LIST \in U
    OBVIOUS
  <2>3. obj.value \in Int
    BY <1>1, <1>4 DEF IsObject
  <2>4. ints \in Seq(U)
    <3>1. \A i \in 1..obj.value : ints[i] \in U
      BY <2>3
    <3>2. PICK l \in Nat : 1..obj.value = 1..l
      <4>1. CASE obj.value >= 0
        BY <2>3, <4>1
      <4>2. CASE ~ (obj.value >= 0)
        <5>1. 1..obj.value = 1..0 /\ 0 \in Nat
          BY <2>3, <4>2
        <5> QED BY <5>1
      <4> QED BY <4>1, <4>2
    <3>3. ints \in [1..l -> U]
      <4> HIDE DEF U
      <4> QED BY <3>1, <3>2
    <3> HIDE DEF ints, U
    <3> QED BY <3>3
  <2> HIDE DEF U, ints
  <2>5. PICK T : With(U, n, T, List(ints))
    BY <2>1, <2>2, <2>4, ListJoins
  <2>6. With(S, n, T, List(ints))
    BY <2>2, <2>5 DEF With
  <2>7. Iterator(obj) = List(ints)
    BY <1>4 DEF Iterator, ints
  <2>8. List(ints).type = "List"
    BY <2>1, <2>2, <2>4, ListJoins
  <2> QED BY <2>6, <2>7, <2>8
<1>5. CASE obj.type \notin {"List", "Array", "Queue", "Integer", "String"}
  <2>1. Iterator(obj) = List(<<obj>>)
    BY <1>5 DEF Iterator
  <2>2. <<obj>> \in Seq(S)
    OBVIOUS
  <2> QED BY <2>1, <2>2, ListJoins
<1> QED BY <1>2, <1>3, <1>4, <1>5

\* The parts of a list that is not empty, and what is behind its first cell.
LEMMA ListParts ==
    ASSUME NEW S, NEW n, Closed(S, n), EMPTY_LIST \in S, NEW list \in S, list.type = "List",
           ~IsEmpty(list)
    PROVE  First(list) \in S /\ Rest(list) \in S
BY DEF Closed, IsObject, IsEmpty, First, Rest

\* The rest of a list joins it, as the list that list_new makes of a rest that is no list.
LEMMA RestJoins ==
    ASSUME NEW S, NEW n \in Nat, Closed(S, n), EMPTY_LIST \in S, NEW list \in S,
           list.type = "List", ~IsEmpty(list)
    PROVE  /\ \E T : With(S, n, T, RestAsList(list))
           /\ RestAsList(list).type = "List"
<1>1. Rest(list) \in S
  BY ListParts
<1>2. <<Rest(list)>> \in Seq(S)
  BY <1>1
<1>3. With(S, n, S, Rest(list))
  BY <1>1 DEF With
<1>4. CASE Rest(list).type = "List"
  <2>1. RestAsList(list) = Rest(list)
    BY <1>4 DEF RestAsList
  <2> QED BY <1>3, <1>4, <2>1
<1>5. CASE Rest(list).type # "List"
  <2>1. RestAsList(list) = List(<<Rest(list)>>)
    BY <1>5 DEF RestAsList
  <2> QED BY <1>2, <2>1, ListJoins
<1> QED BY <1>4, <1>5

\* What is behind a number of cells of a list.
LEMMA NthIn ==
    ASSUME NEW S, NEW n, Closed(S, n), EMPTY_LIST \in S, NEW list \in S, list.type = "List",
           NEW place \in Int
    PROVE  /\ ListGetNth(list, place) \subseteq S
           /\ ListGetNth(list, place) # {} => ~IsEmpty(list)
           /\ (ListGetNth(list, place) # {} /\ place >= 1) =>
                /\ Rest(list).type = "List" /\ ~IsEmpty(Rest(list))
<1> DEFINE cells == IF place > 0 THEN place ELSE 0
           lists == {l \in S : l.type = "List"}
           f == CHOOSE f : f = [m \in 0..cells |->
                    IF m = 0 THEN {list}
                    ELSE {Rest(l) : l \in {l \in f[m - 1] : ~IsEmpty(l) /\ Rest(l).type = "List"}}]
           isFrom(g) == g = [m \in 0..cells |->
                    IF m = 0 THEN {list}
                    ELSE {Rest(l) : l \in {l \in g[m - 1] : ~IsEmpty(l) /\ Rest(l).type = "List"}}]
           next == [p \in (1..cells) \X SUBSET lists |->
                    {Rest(l) : l \in {l \in p[2] : ~IsEmpty(l) /\ Rest(l).type = "List"}}]
<1>1. cells \in Nat /\ (place >= 1 => cells >= 1)
  OBVIOUS
<1>2. ASSUME NEW ls \in SUBSET lists
      PROVE  {Rest(l) : l \in {l \in ls : ~IsEmpty(l) /\ Rest(l).type = "List"}} \in SUBSET lists
  <2>1. ASSUME NEW l \in ls, ~IsEmpty(l), Rest(l).type = "List" PROVE Rest(l) \in lists
    <3>1. l \in S /\ l.type = "List"
      OBVIOUS
    <3> QED BY <2>1, <3>1, ListParts
  <2> QED BY <2>1
<1>3. next \in [(1..cells) \X SUBSET lists -> SUBSET lists]
  <2> SUFFICES ASSUME NEW p \in (1..cells) \X SUBSET lists
               PROVE  {Rest(l) : l \in {l \in p[2] : ~IsEmpty(l) /\ Rest(l).type = "List"}}
                        \in SUBSET lists
    OBVIOUS
  <2>1. p[2] \in SUBSET lists
    OBVIOUS
  <2> HIDE DEF lists
  <2> QED BY <2>1, <1>2
<1>4. {list} \in SUBSET lists
  OBVIOUS
<1>5. PICK g \in [0..cells -> SUBSET lists] : Iterates(g, cells, {list}, next)
  <2> HIDE DEF next, cells, lists
  <2> QED BY <1>1, <1>3, <1>4, IterateExists
<1>6. isFrom(g)
  <2>1. ASSUME NEW m \in 1..cells
        PROVE  g[m] = {Rest(l) : l \in {l \in g[m - 1] : ~IsEmpty(l) /\ Rest(l).type = "List"}}
    <3>1. g[m] = next[<<m, g[m - 1]>>]
      BY <1>5 DEF Iterates
    <3>2. <<m, g[m - 1]>> \in (1..cells) \X SUBSET lists
      <4>1. m - 1 \in 0..cells
        BY <1>1
      <4> HIDE DEF lists, cells
      <4> QED BY <1>5, <4>1
    <3> HIDE DEF lists, cells
    <3> QED BY <3>1, <3>2
  <2>2. g[0] = {list}
    BY <1>5 DEF Iterates
  <2> HIDE DEF lists, cells
  <2> QED BY <2>1, <2>2
<1>7. isFrom(f)
  BY <1>6
<1>8. ListGetNth(list, place) = {First(l) : l \in {l \in f[cells] : ~IsEmpty(l)}}
  BY DEF ListGetNth
<1>9. /\ f[0] = {list}
      /\ \A m \in 1..cells :
            f[m] = {Rest(l) : l \in {l \in f[m - 1] : ~IsEmpty(l) /\ Rest(l).type = "List"}}
  <2> DEFINE h == f
  <2>1. isFrom(h)
    BY <1>7
  <2>2. 0 \in 0..cells /\ \A m \in 1..cells : m \in 0..cells /\ m # 0
    BY <1>1
  <2> HIDE DEF h, cells
  <2>3. /\ h[0] = {list}
        /\ \A m \in 1..cells :
            h[m] = {Rest(l) : l \in {l \in h[m - 1] : ~IsEmpty(l) /\ Rest(l).type = "List"}}
    BY <2>1, <2>2
  <2> QED BY <2>3 DEF h
<1> HIDE DEF f, cells
\* What is reached is reached by way of the first cell.
<1> DEFINE Good == {m \in 0..cells :
                        /\ f[m] \subseteq lists
                        /\ (m >= 1 /\ f[m] # {}) => ~IsEmpty(list) /\ Rest(list).type = "List"
                        /\ (m = 1) => f[m] \subseteq {Rest(list)}
                        /\ (m >= 2 /\ f[m] # {}) => ~IsEmpty(Rest(list))}
<1>10. 0 \in Good
  BY <1>1, <1>4, <1>9
<1>11. ASSUME NEW m \in 1..cells, m - 1 \in Good PROVE m \in Good
  <2>1. f[m] = {Rest(l) : l \in {l \in f[m - 1] : ~IsEmpty(l) /\ Rest(l).type = "List"}}
    BY <1>9
  <2>2. f[m] \subseteq lists
    <3> HIDE DEF lists
    <3>1. f[m - 1] \in SUBSET lists
      BY <1>11
    <3> QED BY <1>2, <2>1, <3>1
  <2>3. f[m] # {} => f[m - 1] # {}
    BY <2>1
  <2>4. CASE m = 1
    <3>1. f[1] = {Rest(l) : l \in {l \in {list} : ~IsEmpty(l) /\ Rest(l).type = "List"}}
      BY <2>1, <2>4, <1>9
    <3>2. f[1] \subseteq {Rest(list)} /\ (f[1] # {} => ~IsEmpty(list) /\ Rest(list).type = "List")
      BY <3>1
    <3> HIDE DEF lists
    <3> QED BY <2>2, <2>4, <3>2
  <2>5. CASE m # 1
    <3>1. m - 1 >= 1 /\ m >= 2 /\ m \in 0..cells
      BY <2>5
    <3>2. f[m] # {} => ~IsEmpty(list) /\ Rest(list).type = "List"
      BY <1>11, <2>3, <3>1
    <3>3. f[m] # {} => ~IsEmpty(Rest(list))
      <4>1. CASE m - 1 = 1
        <5>1. f[m - 1] \subseteq {Rest(list)}
          BY <1>11, <4>1
        <5> QED BY <2>1, <5>1
      <4>2. CASE m - 1 # 1
        <5>1. m - 1 >= 2
          BY <3>1, <4>2
        <5> QED BY <1>11, <2>3, <5>1
      <4> QED BY <4>1, <4>2
    <3> HIDE DEF lists
    <3> QED BY <2>2, <2>5, <3>1, <3>2, <3>3
  <2> QED BY <2>4, <2>5
<1>12. cells \in Good
  <2>1. \A m \in 0..cells : m \in Good
    <3> HIDE DEF Good
    <3> QED BY <1>1, <1>10, <1>11, Counting
  <2> HIDE DEF Good
  <2> QED BY <1>1, <2>1
<1>13. ListGetNth(list, place) \subseteq S
  <2>1. ASSUME NEW l \in f[cells], ~IsEmpty(l) PROVE First(l) \in S
    <3>1. l \in S /\ l.type = "List"
      BY <1>12
    <3> QED BY <2>1, <3>1, ListParts
  <2> QED BY <1>8, <2>1
<1>14. ASSUME ListGetNth(list, place) # {} PROVE ~IsEmpty(list)
  <2>1. PICK l \in f[cells] : ~IsEmpty(l)
    BY <1>8, <1>14
  <2>2. CASE cells = 0
    BY <2>1, <2>2, <1>9
  <2>3. CASE cells # 0
    <3>1. cells >= 1
      BY <1>1, <2>3
    <3> QED BY <1>12, <2>1, <3>1
  <2> QED BY <2>2, <2>3
<1>15. ASSUME ListGetNth(list, place) # {}, place >= 1
       PROVE  Rest(list).type = "List" /\ ~IsEmpty(Rest(list))
  <2>1. PICK l \in f[cells] : ~IsEmpty(l)
    BY <1>8, <1>15
  <2>2. cells >= 1
    BY <1>1, <1>15
  <2>3. Rest(list).type = "List"
    BY <1>12, <2>1, <2>2
  <2>4. CASE cells = 1
    <3>1. f[cells] \subseteq {Rest(list)}
      BY <1>12, <2>4
    <3> QED BY <2>1, <2>3, <3>1
  <2>5. CASE cells # 1
    <3>1. cells >= 2
      BY <1>1, <2>2, <2>5
    <3> QED BY <1>12, <2>1, <2>3, <3>1
  <2> QED BY <2>4, <2>5
<1> QED BY <1>13, <1>14, <1>15

\* As many arguments as are counted are there.
LEMMA ArgsCounted ==
    ASSUME NEW S, NEW n, Closed(S, n), EMPTY_LIST \in S, NEW args \in S, args.type = "List"
    PROVE  /\ ArgCount(args) \in Nat
           /\ ArgCount(args) >= 1 => First(args) \in S
           /\ ArgCount(args) >= 2 => First(Rest(args)) \in S
<1> DEFINE there == {i \in 0..(MaxArgs - 1) : ListGetNth(args, i) # {}}
<1>1. ArgCount(args) = Cardinality(there)
  BY DEF ArgCount
<1>2. IsFiniteSet(there) /\ there \subseteq 0..2
  <2>1. \A a, b \in Int : IsFiniteSet(a..b)
    BY FS_Interval
  <2>2. there \subseteq 0..2
    BY DEF MaxArgs
  <2>3. IsFiniteSet(0..2)
    <3>1. 0 \in Int /\ 2 \in Int
      OBVIOUS
    <3> QED BY <2>1, <3>1, Zenon
  <2> HIDE DEF there
  <2> QED BY <2>2, <2>3, FS_Subset
<1>3. Cardinality(there) \in Nat
  <2> HIDE DEF there
  <2> QED BY <1>2, FS_CardinalityType
<1>4. ASSUME Cardinality(there) >= 1 PROVE First(args) \in S
  <2>1. there # {}
    <3> HIDE DEF there
    <3> QED BY <1>4, FS_EmptySet
  <2>2. PICK i \in there : TRUE
    BY <2>1
  <2>3. i \in Int /\ ListGetNth(args, i) # {}
    BY <1>2
  <2>4. ~IsEmpty(args)
    BY <2>3, NthIn
  <2> QED BY <2>4, ListParts
<1>5. ASSUME Cardinality(there) >= 2 PROVE First(Rest(args)) \in S
  <2>1. ~ (there \subseteq {0})
    <3> SUFFICES ASSUME there \subseteq {0} PROVE FALSE
      OBVIOUS
    <3>1. IsFiniteSet({0}) /\ Cardinality({0}) = 1
      BY FS_Singleton
    <3>2. Cardinality(there) <= 1
      <4> HIDE DEF there
      <4> QED BY <3>1, FS_Subset
    <3> HIDE DEF there
    <3> QED BY <1>3, <1>5, <3>2
  <2>2. PICK i \in there : i # 0
    BY <2>1
  <2>3. i \in Int /\ i >= 1 /\ ListGetNth(args, i) # {}
    BY <1>2, <2>2
  <2>4. ~IsEmpty(args) /\ Rest(args).type = "List" /\ ~IsEmpty(Rest(args))
    BY <2>3, NthIn
  <2>5. Rest(args) \in S
    BY <2>4, ListParts
  <2> QED BY <2>4, <2>5, ListParts
<1> QED BY <1>1, <1>3, <1>4, <1>5

\* What brackets find are parts of the object.
LEMMA PairValueIn ==
    ASSUME NEW S, NEW n, Closed(S, n), NEW obj \in S, NEW key
    PROVE  PairValue(obj, key) \subseteq S
<1>1. IsObject(obj, S, n)
  BY DEF Closed
<1>2. CASE obj.type = "Binding" /\ obj.key = key
  <2>1. PairValue(obj, key) = {obj.val}
    BY <1>2 DEF PairValue
  <2> QED BY <1>1, <1>2, <2>1 DEF IsObject
<1>3. CASE obj.type = "Array" /\ Len(obj.elems) >= 2 /\ obj.elems[1] = key
  <2>1. PairValue(obj, key) = {obj.elems[2]}
    BY <1>3 DEF PairValue
  <2>2. obj.elems \in Seq(S)
    BY <1>1, <1>3 DEF IsObject
  <2>3. obj.elems[2] \in S
    BY <1>3, <2>2
  <2> QED BY <2>1, <2>3
<1>4. CASE obj.type = "List" /\ ~IsEmpty(obj) /\ First(obj) = key
  <2>1. PairValue(obj, key) = {Rest(obj)}
    BY <1>4 DEF PairValue
  <2>2. Rest(obj) \in S
    BY <1>1, <1>4 DEF IsObject, IsEmpty, Rest
  <2> QED BY <2>1, <2>2
<1>5. CASE obj.type = "Term" /\ obj.symbol = key
  <2>1. PairValue(obj, key) = {obj.elems}
    BY <1>5 DEF PairValue
  <2>2. obj.elems \in S
    BY <1>1, <1>5 DEF IsObject
  <2> QED BY <2>1, <2>2
<1>6. CASE ~ (\/ obj.type = "Binding" /\ obj.key = key
              \/ obj.type = "Array" /\ Len(obj.elems) >= 2 /\ obj.elems[1] = key
              \/ obj.type = "List" /\ ~IsEmpty(obj) /\ First(obj) = key
              \/ obj.type = "Term" /\ obj.symbol = key)
  BY <1>6 DEF PairValue
<1> QED BY <1>2, <1>3, <1>4, <1>5, <1>6

\* What an index finds in an object is a part of it.
LEMMA IndexedIn ==
    ASSUME NEW S, NEW n, Closed(S, n), EMPTY_LIST \in S, NEW obj \in S, NEW index \in S,
           ~LeftOut(obj, index)
    PROVE  Indexed(obj, index) \subseteq S
<1>1. IsObject(obj, S, n) /\ IsObject(index, S, n)
  BY DEF Closed
<1>2. CASE obj.type = "Array" /\ index.type = "Integer"
  <2>1. Indexed(obj, index) = ArrayGet(obj.elems, index.value)
    BY <1>2 DEF Indexed
  <2>2. obj.elems \in Seq(S) /\ index.value \in Int /\ ~ (index.value < 0)
    BY <1>1, <1>2 DEF IsObject, LeftOut
  <2>3. ASSUME ~ (index.value >= Len(obj.elems)) PROVE obj.elems[index.value + 1] \in S
    <3>1. index.value + 1 \in 1..Len(obj.elems)
      BY <2>2, <2>3
    <3> QED BY <2>2, <3>1
  <2> QED BY <2>1, <2>3 DEF ArrayGet
<1>3. CASE obj.type = "Array" /\ index.type # "Integer"
  <2>1. Indexed(obj, index) = ArrayGetAssoc(obj.elems, index)
    BY <1>3 DEF Indexed
  <2>2. obj.elems \in Seq(S)
    BY <1>1, <1>3 DEF IsObject
  <2> DEFINE found == {i \in DOMAIN obj.elems : PairValue(obj.elems[i], index) # {}}
  <2>3. ASSUME found # {} PROVE obj.elems[Min(found)] \in S
    <3>1. found \in SUBSET Nat /\ found \subseteq 1..Len(obj.elems)
      BY <2>2
    <3>2. Min(found) \in found
      <4> HIDE DEF found
      <4> QED BY <2>3, <3>1, MinIs
    <3>3. Min(found) \in 1..Len(obj.elems)
      <4> HIDE DEF found
      <4> QED BY <3>1, <3>2
    <3> HIDE DEF found
    <3> QED BY <2>2, <3>3
  <2>4. ArrayGetAssoc(obj.elems, index) =
            IF found = {} THEN {} ELSE PairValue(obj.elems[Min(found)], index)
    BY DEF ArrayGetAssoc
  <2> HIDE DEF found
  <2>5. found # {} => PairValue(obj.elems[Min(found)], index) \subseteq S
    BY <2>3, PairValueIn
  <2> QED BY <2>1, <2>4, <2>5
<1>4. CASE obj.type = "List" /\ index.type = "Integer"
  <2>1. Indexed(obj, index) = ListGetNth(obj, index.value)
    BY <1>4 DEF Indexed
  <2>2. index.value \in Int
    BY <1>1, <1>4 DEF IsObject
  <2> QED BY <1>4, <2>1, <2>2, NthIn
<1>5. CASE obj.type # "Array" /\ ~ (obj.type = "List" /\ index.type = "Integer")
  BY <1>5 DEF Indexed
<1> QED BY <1>2, <1>3, <1>4, <1>5

\* What is thrown when they find nothing.
LEMMA NotIndexedJoins ==
    ASSUME NEW S, NEW n \in Nat, Closed(S, n), Text \in S, NEW obj \in S, NEW index \in S,
           ~LeftOut(obj, index)
    PROVE  \E T : With(S, n, T, NotIndexed(obj, index))
<1>1. PICK U : With(S, n, U, Array(<<index, obj>>))
  BY TwoJoin
<1>2. S \subseteq U /\ Closed(U, n) /\ Array(<<index, obj>>) \in U /\ Text \in U
  BY <1>1 DEF With
<1>3. ASSUME NEW kind PROVE \E T : With(S, n, T, Exn(kind, Array(<<index, obj>>)))
  <2>1. PICK T : With(U, n, T, Exn(kind, Array(<<index, obj>>)))
    BY <1>2, ExnJoins
  <2>2. With(S, n, T, Exn(kind, Array(<<index, obj>>)))
    BY <1>2, <2>1 DEF With
  <2> QED BY <2>2
<1>4. CASE obj.type = "Array"
  <2>1. NotIndexed(obj, index) = Exn("Array", Array(<<index, obj>>))
    BY <1>4 DEF NotIndexed
  <2> QED BY <1>3, <2>1
<1>5. CASE obj.type = "List"
  <2>1. PICK kind : kind = IF index.type = "Integer" THEN "List" ELSE "Get"
    OBVIOUS
  <2>2. NotIndexed(obj, index) = Exn(kind, Array(<<index, obj>>))
    BY <1>5, <2>1 DEF NotIndexed
  <2> QED BY <1>3, <2>2
<1>6. CASE obj.type \notin {"Array", "List"}
  <2>1. NotIndexed(obj, index) = Exn("Index", obj)
    BY <1>6 DEF NotIndexed, LeftOut
  <2> QED BY <2>1, ExnJoins
<1> QED BY <1>4, <1>5, <1>6

\* What a colon finds are parts of the object.
LEMMA MemberIn ==
    ASSUME NEW S, NEW n, Closed(S, n), NEW obj \in S, NEW key, ~Unvalued(obj, key)
    PROVE  Member(obj, key) \subseteq S
<1>1. IsObject(obj, S, n)
  BY DEF Closed
<1>2. CASE obj.type = "HashTable"
  <2>1. Member(obj, key) = {obj.map[name] : name \in {m \in DOMAIN obj.map : key = Identifier(m)}}
    BY <1>2 DEF Member
  <2> QED BY <1>1, <1>2, <2>1 DEF IsObject
<1>3. CASE obj.type = "Record"
  <2>1. Member(obj, key) = {obj.values[i] : i \in FieldIndex(obj.fieldNames, key)}
    BY <1>3 DEF Member
  <2>2. obj.values \in Seq(S)
    BY <1>1, <1>3 DEF IsObject
  <2>3. FieldIndex(obj.fieldNames, key) \subseteq DOMAIN obj.values
    BY <1>3 DEF Unvalued
  <2>4. \A i \in DOMAIN obj.values : obj.values[i] \in S
    BY <2>2
  <2> QED BY <2>1, <2>3, <2>4
<1>4. CASE obj.type \notin {"HashTable", "Record"}
  BY <1>4 DEF Member
<1> QED BY <1>2, <1>3, <1>4

\* The array that says how many arguments there should have been.
LEMMA WrongArgsJoins ==
    ASSUME NEW S, NEW n \in Nat, Closed(S, n), Text \in S, EMPTY_LIST \in S, NEW prim,
           NEW args \in S, args.type = "List"
    PROVE  \E T : With(S, n, T, WrongArgs(prim, args))
<1> DEFINE a == Symbol("Expected")
           b == Integer(ParamCount(prim))
           c == Symbol("Found")
           d == Integer(ArgCount(args))
           e == Symbol("ArgumentList")
           all == Array(<<a, b, c, d, e, args>>)
<1>1. PICK S1 : With(S, n, S1, a)
  BY SymbolJoins
<1>2. PICK S2 : With(S1, n, S2, b)
  <2>1. ParamCount(prim) \in Int
    BY DEF ParamCount
  <2>2. Closed(S1, n)
    BY <1>1 DEF With
  <2> QED BY <2>1, <2>2, IntegerJoins
<1>3. PICK S3 : With(S2, n, S3, c)
  <2>1. Closed(S2, n)
    BY <1>2 DEF With
  <2> QED BY <2>1, SymbolJoins
<1>4. PICK S4 : With(S3, n, S4, d)
  <2>1. Closed(S3, n)
    BY <1>3 DEF With
  <2>2. ArgCount(args) \in Int
    BY ArgsCounted
  <2> QED BY <2>1, <2>2, IntegerJoins
<1>5. PICK S5 : With(S4, n, S5, e)
  <2>1. Closed(S4, n)
    BY <1>4 DEF With
  <2> QED BY <2>1, SymbolJoins
<1> HIDE DEF a, b, c, d, e
<1>6. /\ S \subseteq S5 /\ Closed(S5, n) /\ a \in S5 /\ b \in S5 /\ c \in S5 /\ d \in S5 /\ e \in S5
      /\ args \in S5 /\ Text \in S5
  BY <1>1, <1>2, <1>3, <1>4, <1>5 DEF With
<1>7. <<a, b, c, d, e, args>> \in Seq(S5)
  BY <1>6
<1>8. PICK S6 : With(S5, n, S6, all)
  BY <1>6, <1>7, ArrayJoins
<1>9. Closed(S6, n) /\ S5 \subseteq S6 /\ all \in S6 /\ Text \in S6
  BY <1>6, <1>8 DEF With
<1>10. PICK T : With(S6, n, T, Exn("Argument", all))
  <2> HIDE DEF all
  <2> QED BY <1>9, ExnJoins
<1>11. WrongArgs(prim, args) = Exn("Argument", all)
  BY DEF WrongArgs, a, b, c, d, e
<1>12. With(S, n, T, WrongArgs(prim, args))
  BY <1>6, <1>9, <1>10, <1>11 DEF With
<1> QED BY <1>12

\* The triples of environments, chained downwards.
Chained(ts, S) ==
    /\ \E K : ts \in Seq([key : K, value : S, next : Nat])
    /\ \A t \in 1..Len(ts) : ts[t].next \in 0..(t - 1)

\* An identifier is looked for down the chain.
LEMMA LocateIn ==
    ASSUME NEW S, Chained(triples, S), NEW e \in 0..Len(triples), NEW name
    PROVE  Locate(e, name) \in 0..e
<1> DEFINE Finds(g, m) == /\ g = [i \in 0..m |-> g[i]]
                          /\ \A i \in 0..m : g[i] = IF i = EMPTY_TRIPLE \/ triples[i].key = name
                                                    THEN i ELSE g[triples[i].next]
           Good == {m \in 0..e : \E g : Finds(g, m)}
           f == CHOOSE f : f = [i \in 0..e |-> IF i = EMPTY_TRIPLE \/ triples[i].key = name
                                               THEN i ELSE f[triples[i].next]]
<1>1. e \in Nat /\ Len(triples) \in Nat
  BY DEF Chained
<1>2. \A i \in 1..e : triples[i].next \in 0..(i - 1)
  BY <1>1 DEF Chained
<1>3. 0 \in Good
  <2> DEFINE g == [i \in 0..0 |-> 0]
  <2>1. \A i \in 0..0 : g[i] = i /\ i = EMPTY_TRIPLE
    BY DEF EMPTY_TRIPLE
  <2>2. g = [i \in 0..0 |-> g[i]]
    OBVIOUS
  <2>3. Finds(g, 0)
    <3> HIDE DEF g
    <3> QED BY <2>1, <2>2
  <2> HIDE DEF Finds, g
  <2> QED BY <2>3, <1>1
<1>4. ASSUME NEW m \in 1..e, m - 1 \in Good PROVE m \in Good
  <2>1. PICK g : Finds(g, m - 1)
    BY <1>4
  <2> DEFINE h == [i \in 0..m |-> IF i = m
                    THEN (IF triples[m].key = name THEN m ELSE g[triples[m].next])
                    ELSE g[i]]
  <2>2. \A i \in 0..(m - 1) : h[i] = g[i]
    OBVIOUS
  <2>3. h[m] = IF triples[m].key = name THEN m ELSE g[triples[m].next]
    OBVIOUS
  <2>4. ASSUME NEW i \in 0..m
        PROVE  h[i] = IF i = EMPTY_TRIPLE \/ triples[i].key = name THEN i ELSE h[triples[i].next]
    <3>0. i # 0 => triples[i].next \in 0..(m - 1)
      <4>1. CASE i = 0
        BY <4>1
      <4>2. CASE i # 0
        <5>1. triples[i].next \in 0..(i - 1)
          BY <1>2, <4>2
        <5> QED BY <5>1
      <4> QED BY <4>1, <4>2
    <3> HIDE DEF h
    <3>1. CASE i = m
      BY <3>0, <3>1, <2>2, <2>3 DEF EMPTY_TRIPLE
    <3>2. CASE i # m
      <4>1. i \in 0..(m - 1)
        BY <3>2
      <4>2. g[i] = IF i = EMPTY_TRIPLE \/ triples[i].key = name THEN i ELSE g[triples[i].next]
        BY <2>1, <4>1
      <4>3. h[i] = g[i] /\ (i # EMPTY_TRIPLE => h[triples[i].next] = g[triples[i].next])
        BY <2>2, <3>0, <4>1 DEF EMPTY_TRIPLE
      <4> QED BY <4>2, <4>3
    <3> QED BY <3>1, <3>2
  <2>5. h = [i \in 0..m |-> h[i]]
    OBVIOUS
  <2>6. Finds(h, m)
    <3> HIDE DEF h
    <3> QED BY <2>4, <2>5
  <2> HIDE DEF h, Finds
  <2> QED BY <2>6
<1>5. e \in Good
  <2>1. \A m \in 0..e : m \in Good
    <3> HIDE DEF Good
    <3> QED BY <1>1, <1>3, <1>4, Counting
  <2> HIDE DEF Good
  <2> QED BY <1>1, <2>1
<1>6. PICK g : Finds(g, e)
  BY <1>5
<1>7. g = [i \in 0..e |-> IF i = EMPTY_TRIPLE \/ triples[i].key = name
                           THEN i ELSE g[triples[i].next]]
  BY <1>6
<1>8. f = [i \in 0..e |-> IF i = EMPTY_TRIPLE \/ triples[i].key = name
                           THEN i ELSE f[triples[i].next]]
  BY <1>7
<1>9. Locate(e, name) = f[e]
  BY DEF Locate
<1>10. \A i \in 0..e : f[i] = IF i = EMPTY_TRIPLE \/ triples[i].key = name
                              THEN i ELSE f[triples[i].next]
  <2> DEFINE h == f
  <2>1. h = [i \in 0..e |-> IF i = EMPTY_TRIPLE \/ triples[i].key = name
                           THEN i ELSE h[triples[i].next]]
    BY <1>8
  <2> HIDE DEF h
  <2>2. \A i \in 0..e : h[i] = IF i = EMPTY_TRIPLE \/ triples[i].key = name
                              THEN i ELSE h[triples[i].next]
    BY <2>1
  <2> QED BY <2>2 DEF h
<1> HIDE DEF f
<1> DEFINE Below == {m \in 0..e : \A i \in 0..m : f[i] \in 0..e}
<1>11. 0 \in Below
  BY <1>1, <1>10 DEF EMPTY_TRIPLE
<1>12. ASSUME NEW m \in 1..e, m - 1 \in Below PROVE m \in Below
  <2>1. triples[m].next \in 0..(m - 1)
    BY <1>2
  <2>2. f[triples[m].next] \in 0..e
    BY <1>12, <2>1
  <2>3. f[m] \in 0..e
    BY <1>10, <2>2
  <2>4. \A i \in 0..m : i = m \/ i \in 0..(m - 1)
    OBVIOUS
  <2> QED BY <2>3, <2>4, <1>12
<1>13. e \in Below
  <2>1. \A m \in 0..e : m \in Below
    <3> HIDE DEF Below
    <3> QED BY <1>1, <1>11, <1>12, Counting
  <2> HIDE DEF Below
  <2> QED BY <1>1, <2>1
<1> QED BY <1>1, <1>9, <1>13

\* The objects that the evaluator uses by itself.
Basic(S) ==
    /\ NIL \in S /\ Text \in S /\ EMPTY_LIST \in S
    /\ \A name \in DOMAIN GlobalEnv : GlobalEnv[name] \in S

\* The objects that the evaluator uses by itself can join any others.
LEMMA BasicJoins ==
    ASSUME NEW S, NEW n \in Nat, Closed(S, n)
    PROVE  \E T : S \subseteq T /\ Closed(T, n) /\ Basic(T)
<1> DEFINE prims == {Primitive("throw", FALSE), Primitive("publish", FALSE),
                     Primitive("subscribe", FALSE), Primitive(":", TRUE), Primitive(":=", TRUE)}
           basics == {NIL, Text, EMPTY_LIST} \union prims
           exn == [throw |-> Primitive("throw", FALSE)]
           event == [publish |-> Primitive("publish", FALSE), subscribe |-> Primitive("subscribe", FALSE)]
           U == S \union basics
           T == U \union {HashTable(exn), HashTable(event)}
<1>1. ASSUME NEW prim \in prims PROVE IsObject(prim, U, n)
  <2>1. \/ \E name \in {"throw", "publish", "subscribe"} : prim = Primitive(name, FALSE)
        \/ \E name \in {":", ":="} : prim = Primitive(name, TRUE)
    OBVIOUS
  <2> HIDE DEF prims, U
  <2>2. ASSUME NEW name \in {"throw", "publish", "subscribe"}
        PROVE  IsObject(Primitive(name, FALSE), U, n)
    BY DEF IsObject, ObjectTypes, Primitive
  <2>3. ASSUME NEW name \in {":", ":="} PROVE IsObject(Primitive(name, TRUE), U, n)
    BY DEF IsObject, ObjectTypes, Primitive
  <2> QED BY <2>1, <2>2, <2>3
<1>2. IsObject(NIL, U, n) /\ IsObject(Text, U, n) /\ IsObject(EMPTY_LIST, U, n)
  <2> HIDE DEF U
  <2>1. IsObject(NIL, U, n)
    BY DEF IsObject, ObjectTypes, NIL
  <2>2. IsObject(Text, U, n)
    BY DEF IsObject, ObjectTypes, Text
  <2>3. IsObject(EMPTY_LIST, U, n)
    BY DEF IsObject, ObjectTypes, EMPTY_LIST
  <2> QED BY <2>1, <2>2, <2>3
<1>3. Closed(U, n)
  <2>1. \A obj \in basics : IsObject(obj, U, n)
    <3> HIDE DEF U, prims
    <3> QED BY <1>1, <1>2
  <2> HIDE DEF basics
  <2> QED BY <2>1, ObjectsJoin
<1>4. /\ \A name \in DOMAIN exn : exn[name] \in T
      /\ \A name \in DOMAIN event : event[name] \in T
  <2>1. prims \subseteq T
    OBVIOUS
  <2>2. DOMAIN exn = {"throw"} /\ exn["throw"] \in prims
    OBVIOUS
  <2>3. /\ DOMAIN event = {"publish", "subscribe"}
        /\ event["publish"] \in prims /\ event["subscribe"] \in prims
    OBVIOUS
  <2> HIDE DEF prims, exn, event, T
  <2> QED BY <2>1, <2>2, <2>3
<1>5. Closed(T, n)
  <2> HIDE DEF exn, event
  <2>1. ASSUME NEW map, \A name \in DOMAIN map : map[name] \in T PROVE IsObject(HashTable(map), T, n)
    <3> HIDE DEF T
    <3> QED BY <2>1 DEF IsObject, ObjectTypes, HashTable
  <2>2. \A obj \in {HashTable(exn), HashTable(event)} : IsObject(obj, T, n)
    <3> HIDE DEF T
    <3> QED BY <1>4, <2>1
  <2> HIDE DEF U
  <2> QED BY <1>3, <2>2, ObjectsJoin
<1>6. Basic(T)
  <2>1. NIL \in T /\ Text \in T /\ EMPTY_LIST \in T
    OBVIOUS
  <2>2. /\ HashTable(exn) \in T /\ HashTable(event) \in T
        /\ Primitive(":", TRUE) \in T /\ Primitive(":=", TRUE) \in T
    OBVIOUS
  <2>3. /\ DOMAIN GlobalEnv = {":", ":=", "exn", "event"}
        /\ GlobalEnv["exn"] = HashTable(exn) /\ GlobalEnv["event"] = HashTable(event)
        /\ GlobalEnv[":"] = Primitive(":", TRUE) /\ GlobalEnv[":="] = Primitive(":=", TRUE)
    BY DEF GlobalEnv
  <2> HIDE DEF T, exn, event
  <2> QED BY <2>1, <2>2, <2>3 DEF Basic
<1>7. S \subseteq T
  OBVIOUS
<1> HIDE DEF T
<1> QED BY <1>5, <1>6, <1>7

\* The elements of a sequence.
LEMMA SeqElements ==
    ASSUME NEW X, NEW xs \in Seq(X)
    PROVE  /\ Len(xs) \in Nat /\ DOMAIN xs = 1..Len(xs)
           /\ \A i \in 1..Len(xs) : xs[i] \in X
OBVIOUS

-----------------------------------------------------------------------------
(* Environments. *)

\* Bindings of names to objects.
IsBinds(binds, S) == \E K : binds \in Seq([key : K, value : S])

\* More triples, chained to those of an environment.
LEMMA ExtendedIs ==
    ASSUME NEW S, Chained(triples, S), NEW e \in 0..Len(triples), NEW binds, IsBinds(binds, S)
    PROVE  /\ Chained(Extended(e, binds), S)
           /\ Len(Extended(e, binds)) \in Nat
           /\ Len(Extended(e, binds)) = Len(triples) + Len(binds)
           /\ ExtendedEnv(e, binds) \in 0..Len(Extended(e, binds))
<1>1. PICK K1 : triples \in Seq([key : K1, value : S, next : Nat])
  BY DEF Chained
<1>2. PICK K2 : binds \in Seq([key : K2, value : S])
  BY DEF IsBinds
<1>0. \A i \in 1..Len(binds) : binds[i] \in [key : K2, value : S]
  BY <1>2, SeqElements
<1> DEFINE K == K1 \union K2
           R == [key : K, value : S, next : Nat]
           n == Len(triples)
           m == Len(binds)
           new == [i \in 1..m |-> [key |-> binds[i].key, value |-> binds[i].value,
                                   next |-> IF i = 1 THEN e ELSE n + i - 1]]
<1>3. triples \in Seq(R)
  <2>1. [key : K1, value : S, next : Nat] \subseteq R
    OBVIOUS
  <2> HIDE DEF R
  <2> QED BY <1>1, <2>1, SeqMonotonic
<1>4. n \in Nat /\ m \in Nat
  BY <1>1, <1>2
<1>5. new \in Seq(R) /\ Len(new) = m
  <2>1. \A i \in 1..m : new[i] \in R
    <3> SUFFICES ASSUME NEW i \in 1..m PROVE new[i] \in R
      OBVIOUS
    <3>1. binds[i] \in [key : K2, value : S]
      BY <1>0
    <3>2. (IF i = 1 THEN e ELSE n + i - 1) \in Nat
      BY <1>4
    <3> HIDE DEF n
    <3> QED BY <3>1, <3>2
  <2>2. new \in [1..m -> R]
    <3> HIDE DEF R, m
    <3> QED BY <2>1
  <2> HIDE DEF new, m, R
  <2> QED BY <2>2, <1>4
<1>6. /\ Extended(e, binds) = triples \o new
      /\ \A i \in 1..m : new[i].next = IF i = 1 THEN e ELSE n + i - 1
  BY DEF Extended
<1> HIDE DEF new, R, n, m
<1>7. /\ triples \o new \in Seq(R) /\ Len(triples \o new) = n + m
      /\ \A t \in 1..n : (triples \o new)[t] = triples[t]
      /\ \A i \in 1..m : (triples \o new)[n + i] = new[i]
  BY <1>3, <1>5 DEF n
<1>8. ASSUME NEW t \in 1..(n + m) PROVE (triples \o new)[t].next \in 0..(t - 1)
  <2>1. CASE t <= n
    <3>1. t \in 1..n
      BY <1>4, <2>1
    <3>2. triples[t].next \in 0..(t - 1)
      BY <3>1 DEF Chained, n
    <3> QED BY <3>1, <3>2, <1>7
  <2>2. CASE ~ (t <= n)
    <3>1. PICK i \in 1..m : t = n + i
      <4>1. t - n \in 1..m /\ t = n + (t - n)
        BY <1>4, <2>2
      <4> QED BY <4>1
    <3>2. (triples \o new)[t].next = IF i = 1 THEN e ELSE n + i - 1
      BY <1>6, <1>7, <3>1
    <3>3. e \in 0..n
      BY DEF n
    <3> QED BY <3>1, <3>2, <3>3, <1>4
  <2> QED BY <2>1, <2>2
<1>9. Chained(triples \o new, S)
  <2>1. triples \o new \in Seq([key : K, value : S, next : Nat])
    BY <1>7 DEF R
  <2> QED BY <2>1, <1>7, <1>8 DEF Chained
<1>10. ExtendedEnv(e, binds) \in 0..(n + m)
  BY <1>4 DEF ExtendedEnv, n, m
<1> QED BY <1>4, <1>6, <1>7, <1>9, <1>10 DEF n, m

\* The chains do not depend on the objects they hold.
LEMMA ChainedGrows ==
    ASSUME NEW S, NEW T, S \subseteq T, NEW ts, Chained(ts, S)
    PROVE  Chained(ts, T) /\ Len(ts) \in Nat
<1>1. PICK K : ts \in Seq([key : K, value : S, next : Nat])
  BY DEF Chained
<1>2. [key : K, value : S, next : Nat] \subseteq [key : K, value : T, next : Nat]
  OBVIOUS
<1>3. ts \in Seq([key : K, value : T, next : Nat])
  BY <1>1, <1>2, SeqMonotonic
<1>4. Len(ts) \in Nat
  BY <1>1
<1>5. \A t \in 1..Len(ts) : ts[t].next \in 0..(t - 1)
  BY DEF Chained
<1>6. Chained(ts, T)
  BY <1>3, <1>5 DEF Chained
<1> QED BY <1>4, <1>6

\* new is ts with other values, of S.
Puts(new, ts, S) ==
    /\ DOMAIN new = DOMAIN ts /\ new = [t \in DOMAIN ts |-> new[t]]
    /\ \A t \in DOMAIN ts : new[t] = ts[t] \/ \E v \in S : new[t] = [ts[t] EXCEPT !.value = v]

\* Values of triples are given in place.
LEMMA ChainedPut ==
    ASSUME NEW S, NEW ts, Chained(ts, S), NEW new, Puts(new, ts, S)
    PROVE  Chained(new, S) /\ Len(new) = Len(ts)
<1>7. /\ DOMAIN new = DOMAIN ts /\ new = [t \in DOMAIN ts |-> new[t]]
      /\ \A t \in DOMAIN ts :
            new[t] = ts[t] \/ \E v \in S : new[t] = [ts[t] EXCEPT !.value = v]
  BY DEF Puts
<1>1. PICK K : ts \in Seq([key : K, value : S, next : Nat])
  BY DEF Chained
<1> DEFINE R == [key : K, value : S, next : Nat]
<1>0. \A t \in DOMAIN ts : ts[t] \in R
  <2>1. ts \in Seq(R)
    BY <1>1
  <2> HIDE DEF R
  <2>2. DOMAIN ts = 1..Len(ts) /\ \A t \in 1..Len(ts) : ts[t] \in R
    BY <2>1, SeqElements
  <2> QED BY <2>2
<1>2. ASSUME NEW t \in DOMAIN ts PROVE new[t] \in R /\ new[t].next = ts[t].next
  <2>1. ts[t] \in R
    BY <1>0
  <2>2. CASE new[t] = ts[t]
    BY <2>1, <2>2
  <2>3. CASE \E v \in S : new[t] = [ts[t] EXCEPT !.value = v]
    BY <2>1, <2>3
  <2> QED BY <1>7, <2>2, <2>3
<1> HIDE DEF R
<1>3. DOMAIN ts = 1..Len(ts) /\ Len(ts) \in Nat
  BY <1>1
<1>4. new \in [1..Len(ts) -> R]
  BY <1>2, <1>3, <1>7
<1>5. new \in Seq(R) /\ Len(new) = Len(ts)
  BY <1>3, <1>4
<1>6. \A t \in 1..Len(new) : new[t].next \in 0..(t - 1)
  BY <1>2, <1>3, <1>5 DEF Chained
<1> QED BY <1>5, <1>6 DEF Chained, R

\* The environment after popping every frame.
LEMMA BottomEnvIn ==
    ASSUME NEW S, NEW n \in Nat, Framed(estack, S, n), env \in 0..n
    PROVE  BottomEnv \in 0..n
<1> DEFINE static == {i \in DOMAIN estack : estack[i].env # Dynamic}
<1>1. /\ DOMAIN estack = 1..Len(estack) /\ Len(estack) \in Nat
      /\ \A j \in 1..Len(estack) : IsEnv(estack[j].env, n)
  BY DEF Framed, IsSeq, IsFrame
<1>2. CASE static = {}
  BY <1>2 DEF BottomEnv
<1>3. CASE static # {}
  <2>1. static \in SUBSET (0..Len(estack))
    BY <1>1
  <2>2. Max(static) \in static
    <3> HIDE DEF static
    <3> QED BY <1>1, <1>3, <2>1, MaxIs
  <2>3. BottomEnv = estack[Max(static)].env
    BY <1>3 DEF BottomEnv
  <2>4. estack[Max(static)].env # Dynamic /\ Max(static) \in 1..Len(estack)
    BY <1>1, <2>2
  <2> HIDE DEF static
  <2> QED BY <1>1, <2>3, <2>4 DEF IsEnv
<1> QED BY <1>2, <1>3

-----------------------------------------------------------------------------
(* Records and letrec. *)

\* The array of the values of a record in the making.
LEMMA ValueAryIn ==
    ASSUME NEW S, NIL \in S, Expr.fieldBindings \in Bindings(S), NEW n \in 0..Len(Expr.fieldBindings)
    PROVE  ValueAry(n) \in Seq(S)
<1> DEFINE bindings == Expr.fieldBindings
           N == Len(bindings)
           V == [1..N -> S]
           place(i) == Min(FieldOf(bindings[i]))
           first == [p \in DOMAIN bindings |-> NIL]
           put(v, i) == [v EXCEPT ![place(i)] = bindings[i].rhs]
           next == [p \in (1..n) \X V |-> put(p[2], p[1])]
           isFilled(f) == f = [i \in 0..n |-> IF i = 0 THEN first ELSE put(f[i - 1], i)]
           filled == CHOOSE f : f = [i \in 0..n |-> IF i = 0 THEN first ELSE put(f[i - 1], i)]
<1>0. \A i \in 1..Len(bindings) : bindings[i] \in [lhs : S, rhs : S]
  <2>1. bindings \in Seq([lhs : S, rhs : S])
    BY DEF Bindings
  <2> HIDE DEF bindings
  <2> QED BY <2>1, SeqElements
<1>1. N \in Nat /\ DOMAIN bindings = 1..N /\ n \in Nat /\ \A i \in 1..n : bindings[i].rhs \in S
  <2>1. N \in Nat /\ DOMAIN bindings = 1..N
    BY DEF Bindings
  <2>2. ASSUME NEW i \in 1..n PROVE bindings[i].rhs \in S
    <3>1. i \in 1..Len(bindings)
      BY <2>1
    <3>2. bindings[i] \in [lhs : S, rhs : S]
      BY <1>0, <3>1
    <3> HIDE DEF bindings
    <3> QED BY <3>2
  <2> QED BY <2>1, <2>2
<1>2. first \in V
  BY <1>1
<1>3. ASSUME NEW i \in 1..n, NEW v \in V PROVE put(v, i) \in V
  <2>1. bindings[i].rhs \in S
    BY <1>1
  <2> HIDE DEF place, N
  <2> QED BY <2>1
<1>8. ValueAry(n) = filled[n]
  BY DEF ValueAry
<1> HIDE DEF put, first
<1>4. next \in [(1..n) \X V -> V]
  <2> SUFFICES ASSUME NEW p \in (1..n) \X V PROVE put(p[2], p[1]) \in V
    OBVIOUS
  <2>1. p[1] \in 1..n /\ p[2] \in V
    OBVIOUS
  <2> HIDE DEF V
  <2> QED BY <1>3, <2>1
<1>5. PICK g \in [0..n -> V] : Iterates(g, n, first, next)
  <2> HIDE DEF next, V
  <2> QED BY <1>1, <1>2, <1>4, IterateExists
<1>6. isFilled(g)
  <2>1. ASSUME NEW i \in 1..n PROVE g[i] = put(g[i - 1], i)
    <3>1. g[i] = next[<<i, g[i - 1]>>]
      BY <1>5 DEF Iterates
    <3>2. <<i, g[i - 1]>> \in (1..n) \X V
      <4>1. i - 1 \in 0..n
        OBVIOUS
      <4> HIDE DEF V
      <4> QED BY <1>5, <4>1
    <3> HIDE DEF V
    <3> QED BY <3>1, <3>2
  <2>2. g[0] = first
    BY <1>5 DEF Iterates
  <2> HIDE DEF V
  <2> QED BY <2>1, <2>2
<1>7. isFilled(filled)
  BY <1>6
<1>9. filled[0] = first /\ \A i \in 1..n : filled[i] = put(filled[i - 1], i)
  <2> DEFINE h == filled
  <2>1. isFilled(h)
    BY <1>7
  <2> HIDE DEF h
  <2>2. h[0] = first
    BY <2>1
  <2>3. \A i \in 1..n : h[i] = put(h[i - 1], i)
    BY <2>1
  <2> QED BY <2>2, <2>3 DEF h
<1> HIDE DEF filled
<1> DEFINE Good == {i \in 0..n : filled[i] \in V}
<1>10. 0 \in Good
  BY <1>1, <1>2, <1>9
<1>11. ASSUME NEW i \in 1..n, i - 1 \in Good PROVE i \in Good
  <2> HIDE DEF V
  <2>1. filled[i] = put(filled[i - 1], i)
    BY <1>9
  <2> QED BY <1>3, <1>11, <2>1
<1>12. n \in Good
  <2>1. \A i \in 0..n : i \in Good
    <3> HIDE DEF Good
    <3> QED BY <1>1, <1>10, <1>11, Counting
  <2> HIDE DEF Good
  <2> QED BY <1>1, <2>1
<1>13. filled[n] \in [1..N -> S] /\ N \in Nat
  BY <1>1, <1>12
<1> HIDE DEF N
<1>14. filled[n] \in Seq(S)
  BY <1>13
<1> QED BY <1>8, <1>14

\* The identifiers of a letrec are no more than its bindings.
LEMMA NamesCounted ==
    ASSUME NEW S, NEW bindings \in Bindings(S)
    PROVE  /\ IsSeq(LetRecNames(bindings))
           /\ Len(LetRecNames(bindings)) \in Nat
           /\ Len(LetRecNames(bindings)) <= Len(bindings)
<1> DEFINE names == {bindings[i].lhs.name : i \in DOMAIN bindings}
           N == Len(bindings)
<1>1. N \in Nat /\ DOMAIN bindings = 1..N
  BY DEF Bindings
<1>2. IsFiniteSet(1..N) /\ Cardinality(1..N) = N
  <2>1. 1 \in Int /\ N \in Int
    BY <1>1
  <2>2. /\ IsFiniteSet(1..N)
        /\ Cardinality(1..N) = IF 1 > N THEN 0 ELSE N - 1 + 1
    <3> HIDE DEF N
    <3> QED BY <2>1, FS_Interval
  <2> HIDE DEF N
  <2> QED BY <1>1, <2>2
<1>3. names = {bindings[i].lhs.name : i \in 1..N}
  BY <1>1
<1> DEFINE f == [i \in 1..N |-> bindings[i].lhs.name]
<1>4. f \in Surjection(1..N, names)
  BY <1>3 DEF Surjection
<1>5. IsFiniteSet(names) /\ Cardinality(names) <= N /\ Cardinality(names) \in Nat
  <2> HIDE DEF names, N, f
  <2>1. IsFiniteSet(names) /\ Cardinality(names) <= Cardinality(1..N)
    BY <1>2, <1>4, FS_Surjection
  <2> QED BY <1>2, <2>1, FS_CardinalityType
<1> DEFINE place(name) == Cardinality({other \in names : order[other] <= order[name]})
           pick(i) == CHOOSE name \in names : place(name) = i
           T == {pick(i) : i \in 1..Cardinality(names)}
<1>6. LetRecNames(bindings) = [i \in 1..Cardinality(names) |-> pick(i)]
  BY DEF LetRecNames
<1>7. [i \in 1..Cardinality(names) |-> pick(i)] \in [1..Cardinality(names) -> T]
  <2> HIDE DEF pick
  <2> QED OBVIOUS
<1> HIDE DEF names, T, pick
<1>8. LetRecNames(bindings) \in Seq(T) /\ Len(LetRecNames(bindings)) = Cardinality(names)
  <2> DEFINE all == LetRecNames(bindings)
  <2>1. all \in [1..Cardinality(names) -> T]
    BY <1>6, <1>7
  <2> HIDE DEF all
  <2>2. all \in Seq(T) /\ Len(all) = Cardinality(names)
    BY <1>5, <2>1
  <2> QED BY <2>2 DEF all
<1> QED BY <1>5, <1>8 DEF IsSeq

\* The type of the operand on top.
TopType(os) == IF os = <<>> THEN "any" ELSE Head(os).type

\* Everything that is stored is an object of S.
Stored(S) ==
    /\ Closed(S, Len(triples)) /\ Basic(S) /\ Chained(triples, S)
    /\ env \in 0..Len(triples)
    /\ inputs \in Seq(S)
    /\ \A key \in DOMAIN records : records[key] \in Seq(S)
    /\ \A key \in DOMAIN subscribers : subscribers[key] \in Seq(S)

\* So is everything on the stacks.
Stacked(S) == Framed(estack, S, Len(triples)) /\ ostack \in Seq(S)

\* The stack of expressions needs the operands there are, and leaves the value of the input
\* and those of the subscribers.
Counted == ~mixed /\ ~scrambled
Balanced ==
    Fits(estack, Len(ostack), Len(ostack), TopType(ostack), Counted, 1 + unasked)

\* What the stacks are at the prompt, while an input is evaluated, and when it has been.
Phases ==
    /\ given \in 0..Len(inputs)
    /\ status \in {"prompt", "running", "terminated"}
    /\ mixed \in BOOLEAN /\ scrambled \in BOOLEAN /\ unasked \in Nat
    /\ status = "prompt" => estack = <<>> /\ (Counted => Len(ostack) = unasked)
    /\ status = "terminated" => estack = <<>>
    /\ status # "prompt" => Balanced

\* The inductive invariant: some set of objects has everything in it, and the stacks fit.
Sound(S) == Stored(S) /\ Stacked(S) /\ Phases
IInv == \E S : Sound(S)

-----------------------------------------------------------------------------
(* What the evaluator does next. *)

\* There is a frame to evaluate.
Running == status = "running" /\ estack # <<>>

\* T is the set of objects after the step, S the one before it.
Grows(S, T) ==
    /\ S \subseteq T /\ Closed(T, Len(triples')) /\ Chained(triples', T)
    /\ Len(triples) \in Nat /\ Len(triples') \in Nat /\ Len(triples) <= Len(triples')
    /\ env' \in 0..Len(triples')

\* The stacks after the step.
Moves(T) ==
    /\ Framed(estack', T, Len(triples')) /\ ostack' \in Seq(T)
    /\ mixed' \in BOOLEAN /\ scrambled' \in BOOLEAN /\ unasked' \in Nat
    /\ Fits(estack', Len(ostack'), Len(ostack'), TopType(ostack'), ~mixed' /\ ~scrambled', 1 + unasked')

\* A step of the evaluator that gives objects of a larger set keeps the invariant.
LEMMA StepKeeps ==
    ASSUME NEW S, Sound(S), Running, NEW T, Grows(S, T), Moves(T), UNCHANGED input,
           \A key \in DOMAIN records' : records'[key] \in Seq(T),
           \A key \in DOMAIN subscribers' : subscribers'[key] \in Seq(T)
    PROVE  IInv'
<1>1. Stored(T)'
  <2>1. Basic(T)
    BY DEF Sound, Stored, Basic, Grows
  <2>2. inputs' \in Seq(T)
    <3>1. inputs \in Seq(S) /\ S \subseteq T
      BY DEF Sound, Stored, Grows
    <3>2. inputs \in Seq(T)
      BY <3>1, SeqMonotonic
    <3> QED BY <3>2 DEF input
  <2>3. /\ Closed(T, Len(triples')) /\ Chained(triples', T) /\ env' \in 0..Len(triples')
    BY DEF Grows
  <2> QED BY <2>1, <2>2, <2>3 DEF Stored
<1>2. Stacked(T)'
  BY DEF Moves, Stacked
<1>3. Phases'
  <2>1. given' \in 0..Len(inputs') /\ status' = "running"
    BY DEF Sound, Phases, input, Running
  <2>2. Balanced'
    BY DEF Moves, Balanced, Counted
  <2>3. mixed' \in BOOLEAN /\ scrambled' \in BOOLEAN /\ unasked' \in Nat
    BY DEF Moves
  <2> QED BY <2>1, <2>2, <2>3 DEF Phases
<1> QED BY <1>1, <1>2, <1>3 DEF Sound, IInv

\* The same when the tables do not change.
LEMMA TablesKept ==
    ASSUME NEW S, Sound(S), NEW T, S \subseteq T, UNCHANGED tables
    PROVE  /\ \A key \in DOMAIN records' : records'[key] \in Seq(T)
           /\ \A key \in DOMAIN subscribers' : subscribers'[key] \in Seq(T)
<1>1. Seq(S) \subseteq Seq(T)
  BY SeqMonotonic
<1>2. records' = records /\ subscribers' = subscribers
  BY DEF tables
<1>3. /\ \A key \in DOMAIN records : records[key] \in Seq(S)
      /\ \A key \in DOMAIN subscribers : subscribers[key] \in Seq(S)
  BY DEF Sound, Stored
<1> QED BY <1>1, <1>2, <1>3

\* An evaluation step that makes new objects only of old ones and leaves the session alone keeps
\* the invariant if the stacks it leaves fit.
LEMMA EvalKeeps ==
    ASSUME NEW S, Sound(S), Running, NEW T, Grows(S, T), Moves(T), UNCHANGED session
    PROVE  IInv'
<1>1. UNCHANGED input /\ UNCHANGED tables /\ S \subseteq T
  BY DEF session, Grows
<1>2. /\ \A key \in DOMAIN records' : records'[key] \in Seq(T)
      /\ \A key \in DOMAIN subscribers' : subscribers'[key] \in Seq(T)
  BY <1>1, TablesKept
<1> QED BY <1>1, <1>2, StepKeeps

\* The first frame, and what is needed below it.
LEMMA TopFrame ==
    ASSUME NEW S, Sound(S), Running
    PROVE  /\ Len(triples) \in Nat /\ Closed(S, Len(triples)) /\ Basic(S) /\ Chained(triples, S)
           /\ IsExpr(Expr, S, Len(triples)) /\ PoppedEnv \in 0..Len(triples)
           /\ ostack \in Seq(S) /\ Len(ostack) \in Nat
           /\ Pops(Expr) \in Nat /\ Pops(Expr) <= Len(ostack) /\ Pushes(Expr) \in Nat
           /\ Wanted(Expr) \in {"any", TopType(ostack)}
<1>1. Framed(estack, S, Len(triples)) /\ ostack \in Seq(S) /\ estack # <<>>
  BY DEF Sound, Stacked, Running
<1>2. Closed(S, Len(triples)) /\ Basic(S) /\ Chained(triples, S) /\ env \in 0..Len(triples)
  BY DEF Sound, Stored
<1>3. Len(triples) \in Nat
  BY <1>2, ChainedGrows
<1>4. IsExpr(Expr, S, Len(triples)) /\ IsEnv(Head(estack).env, Len(triples))
  BY <1>1, FramedTail DEF Expr
<1>5. PoppedEnv \in 0..Len(triples)
  BY <1>2, <1>4 DEF PoppedEnv, IsEnv
<1>6. Len(ostack) \in Nat
  BY <1>1
<1>7. PICK F : estack \in Seq(F)
  BY <1>1 DEF Framed, IsSeq
<1>8. Fits(estack, Len(ostack), Len(ostack), TopType(ostack), Counted, 1 + unasked)
  BY DEF Sound, Phases, Balanced, Running
<1>9. /\ Pops(Head(estack).expr) \in Nat /\ Pops(Head(estack).expr) <= Len(ostack)
      /\ Pushes(Head(estack).expr) \in Nat
      /\ Wanted(Head(estack).expr) \in {"any", TopType(ostack)}
  BY <1>1, <1>6, <1>7, <1>8, FitsPop
<1> QED BY <1>1, <1>2, <1>3, <1>4, <1>5, <1>6, <1>9 DEF Expr

\* Without its top frame the stack fits the operands with the frame's own popped and those it
\* leaves pushed.
LEMMA BelowTop ==
    ASSUME NEW S, Sound(S), Running
    PROVE  /\ Framed(Tail(estack), S, Len(triples)) /\ IsSeq(Tail(estack))
           /\ Fits(Tail(estack), Len(ostack) - Pops(Expr) + Pushes(Expr), Len(ostack) - Pops(Expr),
                   Given(Expr), Counted, 1 + unasked)
<1>1. Framed(estack, S, Len(triples)) /\ ostack \in Seq(S) /\ estack # <<>>
  BY DEF Sound, Stacked, Running
<1>2. Framed(Tail(estack), S, Len(triples))
  BY <1>1, FramedTail
<1>6. Len(ostack) \in Nat
  BY <1>1
<1>7. PICK F : estack \in Seq(F)
  BY <1>1 DEF Framed, IsSeq
<1>8. Fits(estack, Len(ostack), Len(ostack), TopType(ostack), Counted, 1 + unasked)
  BY DEF Sound, Phases, Balanced, Running
<1>9. Fits(Tail(estack), Len(ostack) - Pops(Head(estack).expr) + Pushes(Head(estack).expr),
           Len(ostack) - Pops(Head(estack).expr), Given(Head(estack).expr), Counted, 1 + unasked)
  BY <1>1, <1>6, <1>7, <1>8, FitsPop
<1> QED BY <1>2, <1>9 DEF Expr, Framed

\* A sequence without its first elements.
LEMMA Behind ==
    ASSUME NEW S, NEW os \in Seq(S), NEW m \in Nat, m >= 1, m <= Len(os) + 1
    PROVE  SubSeq(os, m, Len(os)) \in Seq(S) /\ Len(SubSeq(os, m, Len(os))) = Len(os) - m + 1
<1>1. SubSeq(os, m, Len(os)) \in Seq(S)
  OBVIOUS
<1>2. Len(SubSeq(os, m, Len(os))) = Len(os) - m + 1
  OBVIOUS
<1> QED BY <1>1, <1>2

\* Operands dropped and pushed.
LEMMA Dropped ==
    ASSUME NEW S, ostack \in Seq(S), NEW n \in 0..Len(ostack)
    PROVE  Drop(n) \in Seq(S) /\ Len(Drop(n)) = Len(ostack) - n /\ Drop(0) = ostack
<1>1. n + 1 \in Nat /\ n + 1 >= 1 /\ n + 1 <= Len(ostack) + 1 /\ Len(ostack) \in Nat
  OBVIOUS
<1>2. Drop(n) \in Seq(S) /\ Len(Drop(n)) = Len(ostack) - (n + 1) + 1
  BY <1>1, Behind DEF Drop
<1>3. Len(ostack) - (n + 1) + 1 = Len(ostack) - n
  BY <1>1
<1>4. SubSeq(ostack, 0 + 1, Len(ostack)) = ostack
  BY SubSeqFull
<1> QED BY <1>2, <1>3, <1>4 DEF Drop

\* An object pushed on operands is one more operand and on their top.
LEMMA Pushed ==
    ASSUME NEW T, NEW obj \in T, NEW os \in Seq(T)
    PROVE  /\ <<obj>> \o os \in Seq(T) /\ Len(<<obj>> \o os) = Len(os) + 1
           /\ TopType(<<obj>> \o os) = obj.type
<1>1. /\ <<obj>> \o os \in Seq(T) /\ Len(<<obj>> \o os) = Len(os) + 1
      /\ Head(<<obj>> \o os) = obj /\ <<obj>> \o os # <<>>
  OBVIOUS
<1> QED BY <1>1 DEF TopType

\* Values of the history that do not change.
LEMMA HistoryKept ==
    ASSUME NEW S, Sound(S), UNCHANGED history
    PROVE  /\ mixed' \in BOOLEAN /\ scrambled' \in BOOLEAN /\ unasked' \in Nat
           /\ mixed' = mixed /\ scrambled' = scrambled /\ unasked' = unasked
BY DEF Sound, Phases, history

\* The first frame has been evaluated, and the operands it leaves are on the stack.
LEMMA Finishes ==
    ASSUME NEW S, Sound(S), Running, NEW T, Grows(S, T), UNCHANGED history,
           PopExpr, NEW os \in Seq(T), ostack' = os,
           Len(os) = Len(ostack) - Pops(Expr) + Pushes(Expr),
           Given(Expr) \in {"any", TopType(os)}
    PROVE  Moves(T)
<1> DEFINE n == Len(triples)
           k == Len(ostack) - Pops(Expr) + Pushes(Expr)
           low == Len(ostack) - Pops(Expr)
<1>1. /\ n \in Nat /\ Len(ostack) \in Nat /\ Pops(Expr) \in Nat /\ Pops(Expr) <= Len(ostack)
      /\ Pushes(Expr) \in Nat
  BY TopFrame
<1>2. /\ Framed(Tail(estack), S, n) /\ Fits(Tail(estack), k, low, Given(Expr), Counted, 1 + unasked)
  BY BelowTop
<1>3. Framed(Tail(estack), T, Len(triples'))
  <2>1. S \subseteq T /\ Len(triples') \in Nat /\ n <= Len(triples')
    BY DEF Grows
  <2> HIDE DEF n
  <2> QED BY <1>1, <1>2, <2>1, FramesGrow
<1>4. low \in Nat /\ k \in Nat /\ low <= k /\ Len(os) = k
  BY <1>1
<1>5. Fits(Tail(estack), k, k, Given(Expr), Counted, 1 + unasked)
  <2> HIDE DEF k, low
  <2> QED BY <1>2, <1>4, FitsLow
<1>6. Fits(Tail(estack), k, k, TopType(os), Counted, 1 + unasked)
  BY <1>5, FitsTop
<1>7. /\ mixed' \in BOOLEAN /\ scrambled' \in BOOLEAN /\ unasked' \in Nat
      /\ mixed' = mixed /\ scrambled' = scrambled /\ unasked' = unasked
  BY HistoryKept
<1> HIDE DEF k, low
<1>8. Fits(estack', Len(ostack'), Len(ostack'), TopType(ostack'), ~mixed' /\ ~scrambled', 1 + unasked')
  BY <1>4, <1>6, <1>7 DEF PopExpr, Counted
<1>9. Framed(estack', T, Len(triples')) /\ ostack' \in Seq(T)
  BY <1>3 DEF PopExpr
<1> QED BY <1>7, <1>8, <1>9 DEF Moves

\* A continuation on top of a stack, when numbers have names.
LEMMA FitsContin ==
    ASSUME NEW F, NEW es \in Seq(F), NEW expr, NEW e, NEW k \in Nat, NEW low \in Nat, NEW l \in Nat,
           Pops(expr) \in Nat, Pushes(expr) \in Nat, low + Pops(expr) <= k,
           l = k - Pops(expr) + Pushes(expr), expr.type = "Continuation",
           NEW top, Wanted(expr) \in {"any", top},
           NEW exact, NEW total, NEW given2, given2 = Given(expr), Fits(es, l, low, given2, exact, total)
    PROVE  Fits(<<Frame(expr, e)>> \o es, k, low, top, exact, total)
<1>1. expr.type # "ExceptionHandler" /\ (expr.type = "SavedEnv" => es = <<>> \/ Head(es).expr.type # "SavedEnv")
  OBVIOUS
<1> QED BY <1>1, FitsPushOne

\* A continuation on top of a stack that fits what it leaves, and expressions on top of the
\* continuation, which takes their values.
LEMMA FitsContinued ==
    ASSUME NEW es, IsSeq(es), NEW k \in Nat, NEW exact, NEW total, NEW g,
           Fits(es, k + 1, k, g, exact, total),
           NEW c, c.type = "Continuation", g \in {"any", Given(c)}, NEW e,
           NEW m \in Nat, Pops(c) = m, NEW top, Wanted(c) \in {"any", top}
    PROVE  Fits(OnTop(c, e, es), k + m, k, top, exact, total)
<1>1. PICK F : es \in Seq(F)
  BY DEF IsSeq
<1>2. PICK p : p = Pops(c)
  OBVIOUS
<1>3. PICK given2 : given2 = Given(c)
  OBVIOUS
<1> DEFINE km == k + m
           k1 == k + 1
<1>4. /\ km \in Nat /\ k1 \in Nat /\ Pops(c) \in Nat /\ Pushes(c) \in Nat
      /\ k1 = km - Pops(c) + Pushes(c) /\ k + Pops(c) <= km
  <2>1. Pushes(c) = 1
    BY DEF Pushes
  <2> QED BY <2>1
<1>5. Fits(es, k1, k, given2, exact, total)
  BY <1>3, FitsTop
<1> HIDE DEF km, k1
<1>6. Fits(<<Frame(c, e)>> \o es, km, k, top, exact, total)
  BY <1>1, <1>3, <1>4, <1>5, FitsContin, SMTT(20)
<1> QED BY <1>6 DEF OnTop, km

\* A continuation below the expressions whose values it pops fits where its own value is wanted.
LEMMA FitsSuspended ==
    ASSUME NEW es, IsSeq(es), NEW k \in Nat, NEW exact, NEW total, NEW g,
           Fits(es, k + 1, k, g, exact, total),
           NEW c, c.type = "Continuation", g \in {"any", Given(c)}, Wanted(c) = "any",
           NEW S, \A x \in S : Plain(x), NEW xs \in Seq(S), Pops(c) = Len(xs), NEW e
    PROVE  Fits(AllOnTop(xs, e, OnTop(c, e, es)), k, k, "any", exact, total)
<1>1. Len(xs) \in Nat
  OBVIOUS
<1> DEFINE m == Len(xs)
           rest == OnTop(c, e, es)
           l == k + m
<1>2. Wanted(c) \in {"any", "any"} /\ m \in Nat /\ Pops(c) = m
  BY <1>1
<1>3. Fits(rest, l, k, "any", exact, total)
  <2> HIDE DEF m
  <2> QED BY <1>2, FitsContinued
<1>4. IsSeq(rest)
  BY OnTopIsSeq
<1>5. l = k + Len(xs) /\ k <= k
  OBVIOUS
<1> HIDE DEF rest, l
<1>6. Fits(AllOnTop(xs, e, rest), k, k, "any", exact, total)
  BY <1>3, <1>4, <1>5, FitsPushMany
<1> QED BY <1>6 DEF rest

\* One expression with the continuation that takes its value.
LEMMA FitsSuspendedOne ==
    ASSUME NEW es, IsSeq(es), NEW k \in Nat, NEW exact, NEW total, NEW g,
           Fits(es, k + 1, k, g, exact, total),
           NEW c, c.type = "Continuation", g \in {"any", Given(c)}, Pops(c) = 1,
           NEW x, Plain(x), Wanted(c) \in {"any", Given(x)}, NEW e
    PROVE  Fits(OnTop(x, e, OnTop(c, e, es)), k, k, "any", exact, total)
<1> DEFINE rest == OnTop(c, e, es)
           l == k + 1
<1>1. PICK given2 : given2 = Given(x)
  OBVIOUS
<1>2. Fits(rest, l, k, given2, exact, total)
  <2>1. 1 \in Nat /\ Wanted(c) \in {"any", given2}
    BY <1>1
  <2> QED BY <2>1, FitsContinued
<1>3. IsSeq(rest)
  BY OnTopIsSeq
<1>4. PICK F : rest \in Seq(F)
  BY <1>3 DEF IsSeq
<1>5. Pops(x) = 0 /\ Pushes(x) = 1 /\ Wanted(x) = "any" /\ x.type # "ExceptionHandler" /\ x.type # "SavedEnv"
  BY PlainIs
<1>6. /\ l \in Nat /\ Pops(x) \in Nat /\ Pushes(x) \in Nat /\ k + Pops(x) <= k
      /\ l = k - Pops(x) + Pushes(x) /\ Wanted(x) \in {"any", "any"}
      /\ (x.type = "SavedEnv" => rest = <<>> \/ Head(rest).expr.type # "SavedEnv")
  BY <1>5
<1> HIDE DEF rest, l
<1>7. Fits(<<Frame(x, e)>> \o rest, k, k, "any", exact, total)
  BY <1>1, <1>2, <1>4, <1>5, <1>6, FitsPushOne
<1> QED BY <1>7 DEF rest, OnTop

\* One expression.
LEMMA FitsOne ==
    ASSUME NEW es, IsSeq(es), NEW k \in Nat, NEW exact, NEW total,
           Fits(es, k + 1, k, "any", exact, total), NEW x, Plain(x), NEW e
    PROVE  Fits(OnTop(x, e, es), k, k, "any", exact, total)
<1>1. <<x>> \in Seq({x}) /\ Len(<<x>>) = 1 /\ \A y \in {x} : Plain(y)
  OBVIOUS
<1>2. k + 1 = k + Len(<<x>>) /\ k <= k
  BY <1>1
<1>3. Fits(AllOnTop(<<x>>, e, es), k, k, "any", exact, total)
  <2> DEFINE l == k + 1
  <2>1. l = k + Len(<<x>>) /\ Fits(es, l, k, "any", exact, total)
    BY <1>2
  <2> HIDE DEF l
  <2> QED BY <1>1, <1>2, <2>1, FitsPushMany
<1> QED BY <1>3, OneFrame

-----------------------------------------------------------------------------
(* Steps of the evaluator. *)

\* The frames below the first one, with the objects there are after the step.
LEMMA FramedBelow ==
    ASSUME NEW S, Sound(S), Running, NEW T, Grows(S, T)
    PROVE  /\ Framed(Tail(estack), T, Len(triples')) /\ IsSeq(Tail(estack))
           /\ Len(triples') \in Nat
           /\ \A x \in T : Plain(x) /\ IsExpr(x, T, Len(triples'))
           /\ \A e \in 0..Len(triples') : IsEnv(e, Len(triples'))
           /\ IsEnv(Dynamic, Len(triples'))
           /\ PoppedEnv \in 0..Len(triples')
<1>1. Len(triples) \in Nat /\ Framed(Tail(estack), S, Len(triples)) /\ PoppedEnv \in 0..Len(triples)
  BY TopFrame, BelowTop
<1>2. /\ S \subseteq T /\ Len(triples') \in Nat /\ Len(triples) <= Len(triples')
      /\ Closed(T, Len(triples'))
  BY DEF Grows
<1>3. Framed(Tail(estack), T, Len(triples'))
  BY <1>1, <1>2, FramesGrow
<1>4. \A x \in T : Plain(x) /\ IsExpr(x, T, Len(triples'))
  BY <1>2, ClosedPlain DEF IsExpr
<1> QED BY <1>1, <1>2, <1>3, <1>4 DEF IsEnv, Framed

\* What remains to be done when the first frame has pushed others, with k operands left of
\* those there were.
LEMMA RestNeeds ==
    ASSUME NEW S, Sound(S), Running, Pushes(Expr) = 1, NEW k, k = Len(ostack) - Pops(Expr)
    PROVE  k \in Nat /\ Fits(Tail(estack), k + 1, k, Given(Expr), Counted, 1 + unasked)
<1>1. Len(ostack) \in Nat /\ Pops(Expr) \in Nat /\ Pops(Expr) <= Len(ostack)
  BY TopFrame
<1>2. Fits(Tail(estack), Len(ostack) - Pops(Expr) + Pushes(Expr), Len(ostack) - Pops(Expr),
           Given(Expr), Counted, 1 + unasked)
  BY BelowTop
<1>3. k \in Nat /\ Len(ostack) - Pops(Expr) + Pushes(Expr) = k + 1
  BY <1>1
<1> QED BY <1>2, <1>3

\* The stacks after a step that leaves the history as it is.
LEMMA MovesTo ==
    ASSUME NEW S, Sound(S), UNCHANGED history, NEW T, NEW es, estack' = es,
           Framed(es, T, Len(triples')), NEW os \in Seq(T), ostack' = os,
           NEW k, k = Len(os), Fits(es, k, k, "any", Counted, 1 + unasked)
    PROVE  Moves(T)
<1>1. /\ mixed' \in BOOLEAN /\ scrambled' \in BOOLEAN /\ unasked' \in Nat
      /\ mixed' = mixed /\ scrambled' = scrambled /\ unasked' = unasked
  BY HistoryKept
<1>2. Fits(es, k, k, TopType(os), Counted, 1 + unasked)
  BY FitsTop
<1>3. Fits(estack', Len(ostack'), Len(ostack'), TopType(ostack'), ~mixed' /\ ~scrambled', 1 + unasked')
  BY <1>1, <1>2 DEF Counted
<1> QED BY <1>1, <1>3 DEF Moves

\* The first frame has given way to expressions and to the continuation that takes their values.
LEMMA Suspends ==
    ASSUME NEW S, Sound(S), Running, NEW T, Grows(S, T), UNCHANGED history, Pushes(Expr) = 1,
           NEW xs \in Seq(T), NEW c, c.type = "Continuation", IsExpr(c, T, Len(triples')),
           Pops(c) = Len(xs), Wanted(c) = "any", Given(Expr) \in {"any", Given(c)},
           NEW e, IsEnv(e, Len(triples')),
           estack' = AllOnTop(Append(xs, c), e, Tail(estack)),
           NEW os \in Seq(T), ostack' = os, Len(os) = Len(ostack) - Pops(Expr)
    PROVE  Moves(T)
<1> DEFINE rest == Tail(estack)
           es == AllOnTop(xs, e, OnTop(c, e, rest))
<1>1. Framed(rest, T, Len(triples')) /\ IsSeq(rest) /\ \A x \in T : Plain(x)
  BY FramedBelow
<1>2. estack' = es
  <2>1. IsSeq(xs)
    BY DEF IsSeq
  <2> QED BY <1>1, <2>1, AppendedFrames
<1>3. Framed(es, T, Len(triples'))
  <2> HIDE DEF rest
  <2>1. IsFrame(c, e, T, Len(triples'))
    BY DEF IsFrame
  <2>2. Framed(OnTop(c, e, rest), T, Len(triples'))
    BY <1>1, <2>1, FramedOnTop
  <2> QED BY <1>1, <2>2, FramedAll
<1>4. PICK k : k = Len(os)
  OBVIOUS
<1>5. k \in Nat /\ Fits(rest, k + 1, k, Given(Expr), Counted, 1 + unasked)
  BY <1>4, RestNeeds
<1>6. Fits(es, k, k, "any", Counted, 1 + unasked)
  <2> HIDE DEF rest
  <2>1. PICK g : g = Given(Expr)
    OBVIOUS
  <2>2. g \in {"any", Given(c)} /\ Fits(rest, k + 1, k, g, Counted, 1 + unasked)
    BY <1>5, <2>1
  <2> QED BY <1>1, <1>5, <2>2, FitsSuspended
<1> HIDE DEF es
<1> QED BY <1>2, <1>3, <1>4, <1>6, MovesTo

\* A step that suspends a continuation of two operands below their expressions.
LEMMA SuspendsTwo ==
    ASSUME NEW S, Sound(S), Running, NEW T, Grows(S, T), UNCHANGED history, Pushes(Expr) = 1,
           NEW a \in T, NEW b \in T, NEW c, c.type = "Continuation", IsExpr(c, T, Len(triples')),
           Pops(c) = 2, Wanted(c) = "any", Given(Expr) \in {"any", Given(c)},
           NEW e, IsEnv(e, Len(triples')),
           estack' = AllOnTop(<<a, b, c>>, e, Tail(estack)),
           NEW os \in Seq(T), ostack' = os, Len(os) = Len(ostack) - Pops(Expr)
    PROVE  Moves(T)
<1> DEFINE rest == Tail(estack)
           xs == <<a, b>>
           es == AllOnTop(xs, e, OnTop(c, e, rest))
<1>1. Framed(rest, T, Len(triples')) /\ IsSeq(rest) /\ \A x \in T : Plain(x)
  BY FramedBelow
<1>2. estack' = es
  <2>1. IsSeq(OnTop(c, e, rest))
    BY <1>1, OnTopIsSeq
  <2> HIDE DEF rest
  <2>2. AllOnTop(<<a, b, c>>, e, rest) = OnTop(a, e, OnTop(b, e, OnTop(c, e, rest)))
    BY <1>1, ThreeFrames
  <2>3. es = OnTop(a, e, OnTop(b, e, OnTop(c, e, rest)))
    BY <2>1, TwoFrames
  <2> QED BY <2>2, <2>3 DEF rest
<1>0. xs \in Seq(T) /\ Len(xs) = 2
  OBVIOUS
<1>3. Framed(es, T, Len(triples'))
  <2> HIDE DEF rest, xs
  <2>1. IsFrame(c, e, T, Len(triples'))
    BY DEF IsFrame
  <2>2. Framed(OnTop(c, e, rest), T, Len(triples'))
    BY <1>1, <2>1, FramedOnTop
  <2> QED BY <1>0, <1>1, <2>2, FramedAll
<1>4. PICK k : k = Len(os)
  OBVIOUS
<1>5. k \in Nat /\ Fits(rest, k + 1, k, Given(Expr), Counted, 1 + unasked)
  BY <1>4, RestNeeds
<1>6. Fits(es, k, k, "any", Counted, 1 + unasked)
  <2> HIDE DEF rest, xs
  <2>1. PICK g : g = Given(Expr)
    OBVIOUS
  <2>2. g \in {"any", Given(c)} /\ Fits(rest, k + 1, k, g, Counted, 1 + unasked) /\ Pops(c) = Len(xs)
    BY <1>0, <1>5, <2>1
  <2> QED BY <1>0, <1>1, <1>5, <2>2, FitsSuspended
<1> HIDE DEF es
<1> QED BY <1>2, <1>3, <1>4, <1>6, MovesTo

\* A step that suspends a continuation of one operand below its expression, of which it may want
\* the type.
LEMMA SuspendsOne ==
    ASSUME NEW S, Sound(S), Running, NEW T, Grows(S, T), UNCHANGED history, Pushes(Expr) = 1,
           NEW x \in T, NEW c, c.type = "Continuation", IsExpr(c, T, Len(triples')),
           Pops(c) = 1, Wanted(c) \in {"any", Given(x)}, Given(Expr) \in {"any", Given(c)},
           NEW e, IsEnv(e, Len(triples')),
           estack' = AllOnTop(<<x, c>>, e, Tail(estack)),
           NEW os \in Seq(T), ostack' = os, Len(os) = Len(ostack) - Pops(Expr)
    PROVE  Moves(T)
<1> DEFINE rest == Tail(estack)
           es == OnTop(x, e, OnTop(c, e, rest))
<1>1. /\ Framed(rest, T, Len(triples')) /\ IsSeq(rest)
      /\ Plain(x) /\ IsExpr(x, T, Len(triples'))
  BY FramedBelow
<1>2. estack' = es
  BY <1>1, TwoFrames
<1>3. Framed(es, T, Len(triples'))
  <2> HIDE DEF rest
  <2>1. IsFrame(c, e, T, Len(triples'))
    BY DEF IsFrame
  <2>2. Framed(OnTop(c, e, rest), T, Len(triples'))
    BY <1>1, <2>1, FramedOnTop
  <2>3. IsFrame(x, e, T, Len(triples'))
    BY <1>1 DEF IsFrame, Plain
  <2> QED BY <2>2, <2>3, FramedOnTop
<1>4. PICK k : k = Len(os)
  OBVIOUS
<1>5. k \in Nat /\ Fits(rest, k + 1, k, Given(Expr), Counted, 1 + unasked)
  BY <1>4, RestNeeds
<1>6. Fits(es, k, k, "any", Counted, 1 + unasked)
  <2> HIDE DEF rest
  <2>1. PICK g : g = Given(Expr)
    OBVIOUS
  <2>2. g \in {"any", Given(c)} /\ Fits(rest, k + 1, k, g, Counted, 1 + unasked)
    BY <1>5, <2>1
  <2> QED BY <1>1, <1>5, <2>2, FitsSuspendedOne
<1> HIDE DEF es
<1> QED BY <1>2, <1>3, <1>4, <1>6, MovesTo

\* The first frame has given way to one expression, in the same environment or in another
\* that is left when it has its value.
LEMMA Becomes ==
    ASSUME NEW S, Sound(S), Running, NEW T, Grows(S, T), UNCHANGED history, Pushes(Expr) = 1,
           NEW x \in T, Given(Expr) = "any", NEW e, IsEnv(e, Len(triples')),
           NEW rest, rest = Tail(estack) \/ \E saved \in 0..Len(triples') : rest = SaveEnv(Tail(estack), saved),
           estack' = OnTop(x, e, rest),
           NEW os \in Seq(T), ostack' = os, Len(os) = Len(ostack) - Pops(Expr)
    PROVE  Moves(T)
<1> DEFINE es == OnTop(x, e, rest)
           tail == Tail(estack)
<1>1. /\ Framed(tail, T, Len(triples')) /\ IsSeq(tail)
      /\ Plain(x) /\ IsExpr(x, T, Len(triples'))
  BY FramedBelow
<1>4. PICK k : k = Len(os)
  OBVIOUS
<1>5. k \in Nat /\ Fits(tail, k + 1, k, "any", Counted, 1 + unasked)
  BY <1>4, RestNeeds
<1>6. Framed(rest, T, Len(triples')) /\ Fits(rest, k + 1, k, "any", Counted, 1 + unasked)
  <2>1. CASE rest = tail
    BY <1>1, <1>5, <2>1
  <2>2. CASE \E saved \in 0..Len(triples') : rest = SaveEnv(tail, saved)
    <3> HIDE DEF tail
    <3>1. PICK saved \in 0..Len(triples') : rest = SaveEnv(tail, saved)
      BY <2>2
    <3>2. Framed(rest, T, Len(triples'))
      BY <1>1, <3>1, FramedSaveEnv
    <3>3. PICK F : tail \in Seq(F)
      BY <1>1 DEF IsSeq
    <3>4. k + 1 \in Nat /\ k <= k + 1
      BY <1>5
    <3>5. Fits(rest, k + 1, k, "any", Counted, 1 + unasked)
      <4> DEFINE l == k + 1
      <4>1. l \in Nat /\ k <= l /\ Fits(tail, l, k, "any", Counted, 1 + unasked)
        BY <1>5, <3>4
      <4> HIDE DEF l
      <4>2. Fits(rest, l, k, "any", Counted, 1 + unasked)
        BY <1>5, <3>1, <3>3, <4>1, FitsSaveEnv
      <4> QED BY <4>2 DEF l
    <3> QED BY <3>2, <3>5
  <2> QED BY <2>1, <2>2
<1>7. Framed(es, T, Len(triples')) /\ IsSeq(rest)
  <2>1. IsFrame(x, e, T, Len(triples'))
    BY <1>1 DEF IsFrame, Plain
  <2> QED BY <1>6, <2>1, FramedOnTop DEF Framed
<1>8. Fits(es, k, k, "any", Counted, 1 + unasked)
  BY <1>1, <1>5, <1>6, <1>7, FitsOne
<1> HIDE DEF es
<1>9. estack' = es
  BY DEF es
<1> QED BY <1>4, <1>7, <1>8, <1>9, MovesTo

\* No triple is allocated.
LEMMA GrowsSame ==
    ASSUME NEW S, Sound(S), Running, NEW T, S \subseteq T, Closed(T, Len(triples)),
           UNCHANGED triples, env' \in 0..Len(triples)
    PROVE  Grows(S, T)
<1>1. Len(triples) \in Nat /\ Chained(triples, S)
  BY TopFrame
<1>2. Chained(triples, T)
  BY <1>1, ChainedGrows
<1>3. triples' = triples
  OBVIOUS
<1> QED BY <1>1, <1>2, <1>3 DEF Grows

\* Triples are allocated in front of an environment, which may become the current one.
LEMMA GrowsExtended ==
    ASSUME NEW S, Sound(S), Running, NEW T, S \subseteq T, Closed(T, Len(triples)),
           NEW e \in 0..Len(triples), NEW binds, IsBinds(binds, T), triples' = Extended(e, binds),
           env' = ExtendedEnv(e, binds) \/ env' \in 0..Len(triples)
    PROVE  Grows(S, T) /\ ExtendedEnv(e, binds) \in 0..Len(triples')
<1>1. Len(triples) \in Nat /\ Chained(triples, S)
  BY TopFrame
<1>2. Chained(triples, T)
  BY <1>1, ChainedGrows
<1>3. /\ Chained(triples', T) /\ Len(triples') \in Nat
      /\ Len(triples') = Len(triples) + Len(binds)
      /\ ExtendedEnv(e, binds) \in 0..Len(triples')
  BY <1>2, ExtendedIs
<1>4. Len(binds) \in Nat
  BY SeqElements DEF IsBinds
<1>5. Len(triples) <= Len(triples')
  BY <1>1, <1>3, <1>4
<1>6. Closed(T, Len(triples'))
  BY <1>1, <1>3, <1>5, ClosedGrows
<1>7. env' \in 0..Len(triples')
  BY <1>1, <1>3, <1>5
<1> QED BY <1>1, <1>3, <1>5, <1>6, <1>7 DEF Grows

\* Triples are given other values.
LEMMA GrowsChanged ==
    ASSUME NEW S, Sound(S), Running, NEW T, S \subseteq T, Closed(T, Len(triples)),
           Puts(triples', triples, T), env' \in 0..Len(triples)
    PROVE  Grows(S, T) /\ Len(triples') = Len(triples)
<1>1. Len(triples) \in Nat /\ Chained(triples, S)
  BY TopFrame
<1>2. Chained(triples, T)
  BY <1>1, ChainedGrows
<1>3. PICK new : new = triples'
  OBVIOUS
<1>4. Puts(new, triples, T)
  BY <1>3
<1>5. Chained(new, T) /\ Len(new) = Len(triples)
  BY <1>2, <1>4, ChainedPut
<1> QED BY <1>1, <1>3, <1>5 DEF Grows

-----------------------------------------------------------------------------
(* An expression has its value. *)

\* The expression takes operands and leaves an object.
LEMMA GivesValue ==
    ASSUME NEW S, Sound(S), Running, NEW obj, NEW k, k = Pops(Expr), Pushes(Expr) = 1,
           PopExpr, PushObj(obj, Drop(k)), \E T : With(S, Len(triples), T, obj),
           Given(Expr) \in {"any", obj.type}, env' = PoppedEnv,
           UNCHANGED <<session, triples, history>>
    PROVE  IInv'
<1>1. PICK T : S \subseteq T /\ Closed(T, Len(triples)) /\ obj \in T
  BY DEF With
<1>2. /\ PoppedEnv \in 0..Len(triples) /\ ostack \in Seq(S) /\ Len(ostack) \in Nat
      /\ Pops(Expr) \in Nat /\ Pops(Expr) <= Len(ostack)
  BY TopFrame
<1>3. Grows(S, T)
  BY <1>1, <1>2, GrowsSame
<1>4. ostack \in Seq(T) /\ k \in 0..Len(ostack)
  BY <1>1, <1>2, SeqGrows
<1>5. Drop(k) \in Seq(T) /\ Len(Drop(k)) = Len(ostack) - k
  BY <1>4, Dropped
<1> DEFINE os == <<obj>> \o Drop(k)
<1>6. os \in Seq(T) /\ Len(os) = Len(ostack) - Pops(Expr) + Pushes(Expr) /\ TopType(os) = obj.type
  BY <1>1, <1>2, <1>5, Pushed
<1>7. ostack' = os
  BY DEF PushObj
<1> HIDE DEF os
<1>8. Moves(T)
  <2>1. Given(Expr) \in {"any", TopType(os)}
    BY <1>6
  <2> QED BY <1>3, <1>6, <1>7, <2>1, Finishes
<1> QED BY <1>3, <1>8, EvalKeeps

\* The same for an expression that takes none.
LEMMA GivesObject ==
    ASSUME NEW S, Sound(S), Running, NEW obj, Pops(Expr) = 0, Pushes(Expr) = 1,
           PopExpr, PushObj(obj, ostack), \E T : With(S, Len(triples), T, obj),
           Given(Expr) \in {"any", obj.type}, env' = PoppedEnv,
           UNCHANGED <<session, triples, history>>
    PROVE  IInv'
<1>1. ostack \in Seq(S) /\ Len(ostack) \in Nat
  BY TopFrame
<1>2. 0 \in 0..Len(ostack)
  BY <1>1
<1>3. Drop(0) = ostack
  BY <1>1, <1>2, Dropped
<1>4. PICK k : k = 0
  OBVIOUS
<1>5. PushObj(obj, Drop(k)) /\ k = Pops(Expr)
  BY <1>3, <1>4
<1> QED BY <1>5, GivesValue

\* An object of the set is in a larger one.
LEMMA AlreadyIn ==
    ASSUME NEW S, NEW n, Closed(S, n), NEW obj \in S
    PROVE  \E T : With(S, n, T, obj)
BY DEF With

\* What the top expression is when it is not a frame of the evaluator.
LEMMA PlainTop ==
    ASSUME NEW S, Sound(S), Running, Plain(Expr)
    PROVE  /\ Expr \in S /\ IsObject(Expr, S, Len(triples))
           /\ Pops(Expr) = 0 /\ Pushes(Expr) = 1
<1>1. IsExpr(Expr, S, Len(triples)) /\ Closed(S, Len(triples))
  BY TopFrame
<1>2. Expr \in S
  BY <1>1 DEF IsExpr, Plain
<1>3. IsObject(Expr, S, Len(triples))
  BY <1>1, <1>2 DEF Closed
<1> QED BY <1>2, <1>3, PlainIs

\* A continuation on top of the stack of expressions is one that the evaluator made, and leaves
\* one operand.
LEMMA ContinTop ==
    ASSUME NEW S, Sound(S), Running, Expr.type = "Continuation"
    PROVE  /\ IsContinuation(Expr, S, Len(triples)) /\ Pushes(Expr) = 1
<1>1. IsExpr(Expr, S, Len(triples)) /\ Closed(S, Len(triples))
  BY TopFrame
<1>2. Expr \notin S
  BY <1>1, ClosedPlain DEF Plain
<1>3. IsContinuation(Expr, S, Len(triples))
  BY <1>1, <1>2 DEF IsExpr
<1> QED BY <1>3 DEF Pushes

\* The first operands.
LEMMA TopOperands ==
    ASSUME NEW S, Sound(S), Running
    PROVE  /\ \A i \in 1..Pops(Expr) : ostack[i] \in S
           /\ Pops(Expr) >= 1 => Head(ostack) \in S /\ Head(ostack) = ostack[1]
                                 /\ TopType(ostack) = Head(ostack).type
<1>1. /\ ostack \in Seq(S) /\ Len(ostack) \in Nat /\ Pops(Expr) \in Nat /\ Pops(Expr) <= Len(ostack)
  BY TopFrame
<1>2. \A i \in 1..Pops(Expr) : ostack[i] \in S
  BY <1>1
<1>3. Pops(Expr) >= 1 => Head(ostack) \in S /\ Head(ostack) = ostack[1] /\ TopType(ostack) = Head(ostack).type
  BY <1>1 DEF TopType
<1> QED BY <1>2, <1>3

\* The frames that PushExprs and PushDynamic push.
LEMMA PushesFrames ==
    ASSUME NEW xs
    PROVE  /\ PushExprs(xs) => estack' = AllOnTop(xs, PoppedEnv, Tail(estack))
           /\ PushDynamic(xs) => estack' = AllOnTop(xs, Dynamic, Tail(estack))
BY DEF PushExprs, PushDynamic, AllOnTop, FramesOf

\* An expression asks for the values of others, for a continuation, and keeps the operands.
LEMMA AsksMany ==
    ASSUME NEW S, Sound(S), Running, Plain(Expr),
           NEW xs \in Seq(S), NEW c, c.type = "Continuation", IsExpr(c, S, Len(triples)),
           Pops(c) = Len(xs), Wanted(c) = "any", Given(Expr) \in {"any", Given(c)},
           PushExprs(Append(xs, c)) \/ PushDynamic(Append(xs, c)),
           env' = PoppedEnv, UNCHANGED <<session, ostack, triples, history>>
    PROVE  IInv'
<1>1. /\ PoppedEnv \in 0..Len(triples) /\ ostack \in Seq(S) /\ Len(ostack) \in Nat
      /\ Closed(S, Len(triples))
  BY TopFrame
<1>2. Pops(Expr) = 0 /\ Pushes(Expr) = 1
  BY PlainIs
<1>3. Grows(S, S)
  BY <1>1, GrowsSame
<1>4. PICK e \in {PoppedEnv, Dynamic} : estack' = AllOnTop(Append(xs, c), e, Tail(estack))
  BY PushesFrames
<1>5. triples' = triples /\ ostack' = ostack
  OBVIOUS
<1>6. IsEnv(e, Len(triples')) /\ IsExpr(c, S, Len(triples'))
  BY <1>1, <1>4, <1>5 DEF IsEnv
<1>7. Len(ostack) = Len(ostack) - Pops(Expr)
  BY <1>1, <1>2
<1>8. Moves(S)
  BY <1>1, <1>2, <1>3, <1>4, <1>5, <1>6, <1>7, Suspends
<1> QED BY <1>3, <1>8, EvalKeeps

\* An expression replaced by a continuation and the two expressions whose values it pops.
LEMMA AsksTwo ==
    ASSUME NEW S, Sound(S), Running, Plain(Expr), NEW a \in S, NEW b \in S,
           NEW c, c.type = "Continuation", IsExpr(c, S, Len(triples)),
           Pops(c) = 2, Wanted(c) = "any", Given(Expr) \in {"any", Given(c)},
           PushExprs(<<a, b, c>>), env' = PoppedEnv,
           UNCHANGED <<session, ostack, triples, history>>
    PROVE  IInv'
<1>1. /\ PoppedEnv \in 0..Len(triples) /\ ostack \in Seq(S) /\ Len(ostack) \in Nat
      /\ Closed(S, Len(triples))
  BY TopFrame
<1>2. Pops(Expr) = 0 /\ Pushes(Expr) = 1
  BY PlainIs
<1>3. Grows(S, S)
  BY <1>1, GrowsSame
<1>4. estack' = AllOnTop(<<a, b, c>>, PoppedEnv, Tail(estack))
  BY PushesFrames
<1>5. triples' = triples /\ ostack' = ostack
  OBVIOUS
<1>6. IsEnv(PoppedEnv, Len(triples')) /\ IsExpr(c, S, Len(triples'))
  BY <1>1, <1>5 DEF IsEnv
<1>7. Len(ostack) = Len(ostack) - Pops(Expr)
  BY <1>1, <1>2
<1>8. Moves(S)
  BY <1>1, <1>2, <1>3, <1>4, <1>5, <1>6, <1>7, SuspendsTwo
<1> QED BY <1>3, <1>8, EvalKeeps

\* The same for one expression, which may be a new object; the first operands may be dropped.
LEMMA AsksOne ==
    ASSUME NEW S, Sound(S), Running, NEW T, S \subseteq T, Closed(T, Len(triples)), NEW x \in T,
           Pushes(Expr) = 1, NEW k, k = Pops(Expr),
           NEW c, c.type = "Continuation", IsExpr(c, T, Len(triples)), Pops(c) = 1,
           Wanted(c) \in {"any", Given(x)}, Given(Expr) \in {"any", Given(c)},
           PushExprs(<<x, c>>), env' = PoppedEnv, ostack' = Drop(k),
           UNCHANGED <<session, triples, history>>
    PROVE  IInv'
<1>1. /\ PoppedEnv \in 0..Len(triples) /\ ostack \in Seq(S) /\ Len(ostack) \in Nat
      /\ Pops(Expr) \in Nat /\ Pops(Expr) <= Len(ostack)
  BY TopFrame
<1>2. ostack \in Seq(T) /\ k \in 0..Len(ostack)
  BY <1>1, SeqGrows
<1>3. Grows(S, T)
  BY <1>1, GrowsSame
<1>4. estack' = AllOnTop(<<x, c>>, PoppedEnv, Tail(estack))
  BY PushesFrames
<1>5. PICK os : os = Drop(k)
  OBVIOUS
<1>6. os \in Seq(T) /\ Len(os) = Len(ostack) - Pops(Expr) /\ ostack' = os
  BY <1>2, <1>5, Dropped
<1>7. IsEnv(PoppedEnv, Len(triples')) /\ IsExpr(c, T, Len(triples'))
  <2>1. triples' = triples
    OBVIOUS
  <2> QED BY <1>1, <2>1 DEF IsEnv
<1>8. Moves(T)
  BY <1>3, <1>4, <1>6, <1>7, SuspendsOne
<1> QED BY <1>3, <1>8, EvalKeeps

\* The same when no operand is dropped.
LEMMA AsksFirst ==
    ASSUME NEW S, Sound(S), Running, NEW T, S \subseteq T, Closed(T, Len(triples)), NEW x \in T,
           Plain(Expr),
           NEW c, c.type = "Continuation", IsExpr(c, T, Len(triples)), Pops(c) = 1,
           Wanted(c) \in {"any", Given(x)}, Given(Expr) \in {"any", Given(c)},
           PushExprs(<<x, c>>), env' = PoppedEnv,
           UNCHANGED <<session, ostack, triples, history>>
    PROVE  IInv'
<1>1. ostack \in Seq(S) /\ Len(ostack) \in Nat
  BY TopFrame
<1>2. 0 \in 0..Len(ostack)
  BY <1>1
<1>3. Drop(0) = ostack
  BY <1>1, <1>2, Dropped
<1>4. PICK k : k = 0
  OBVIOUS
<1>5. ostack' = Drop(k) /\ k = Pops(Expr) /\ Pushes(Expr) = 1
  BY <1>3, <1>4, PlainIs
<1> QED BY <1>5, AsksOne

-----------------------------------------------------------------------------
(* Objects, quotes and collections. *)

\* An object that evaluates to itself is an object already.
LEMMA KeepsEvalObject ==
    ASSUME NEW S, Sound(S), EvalObject
    PROVE  IInv'
<1>1. Running /\ Plain(Expr) /\ Given(Expr) \in {"any", Expr.type}
  BY DEF EvalObject, Running, Plain, Given, EMPTY_LIST
<1>2. Expr \in S /\ Pops(Expr) = 0 /\ Pushes(Expr) = 1 /\ Closed(S, Len(triples))
  BY <1>1, PlainTop, TopFrame
<1>3. \E T : With(S, Len(triples), T, Expr)
  BY <1>2, AlreadyIn
<1>4. /\ PopExpr /\ PushObj(Expr, ostack) /\ env' = PoppedEnv
      /\ UNCHANGED <<session, triples, history>>
  BY DEF EvalObject
<1> QED BY <1>1, <1>2, <1>3, <1>4, GivesObject

\* What is quoted is a part of the quote.
LEMMA KeepsEvalQuote ==
    ASSUME NEW S, Sound(S), EvalQuote
    PROVE  IInv'
<1>1. Running /\ Plain(Expr) /\ Given(Expr) = "any" /\ Expr.type = "Quote"
  BY DEF EvalQuote, Evaluates, Running, Plain, Given
<1>2. /\ IsObject(Expr, S, Len(triples)) /\ Pops(Expr) = 0 /\ Pushes(Expr) = 1
      /\ Closed(S, Len(triples))
  BY <1>1, PlainTop, TopFrame
<1>3. \E T : With(S, Len(triples), T, Expr.expr)
  <2>1. Expr.expr \in S
    BY <1>1, <1>2 DEF IsObject
  <2> QED BY <1>2, <2>1, AlreadyIn
<1>4. /\ PopExpr /\ PushObj(Expr.expr, ostack) /\ env' = PoppedEnv
      /\ UNCHANGED <<session, triples, history>>
  BY DEF EvalQuote
<1>5. Given(Expr) \in {"any", Expr.expr.type}
  BY <1>1
<1> QED BY <1>1, <1>2, <1>3, <1>4, <1>5, GivesObject

\* The closure of an abstraction has its rules and the environment of the frame.
LEMMA KeepsEvalAbstraction ==
    ASSUME NEW S, Sound(S), EvalAbstraction
    PROVE  IInv'
<1>1. Running /\ Plain(Expr) /\ Given(Expr) = "any" /\ Expr.type = "Abstraction"
  BY DEF EvalAbstraction, Evaluates, Running, Plain, Given
<1>2. /\ IsObject(Expr, S, Len(triples)) /\ Pops(Expr) = 0 /\ Pushes(Expr) = 1
      /\ Closed(S, Len(triples)) /\ Len(triples) \in Nat /\ PoppedEnv \in 0..Len(triples)
  BY <1>1, PlainTop, TopFrame
<1>3. Expr.rules \in Rules(S)
  BY <1>1, <1>2 DEF IsObject
<1>4. PICK obj : obj = Closure(Expr.rules, PoppedEnv)
  OBVIOUS
<1>5. \E T : With(S, Len(triples), T, obj)
  BY <1>2, <1>3, <1>4, ClosureJoins
<1>6. /\ PopExpr /\ PushObj(obj, ostack) /\ env' = PoppedEnv
      /\ UNCHANGED <<session, triples, history>> /\ Given(Expr) \in {"any", obj.type}
  BY <1>1, <1>4 DEF EvalAbstraction
<1> QED BY <1>1, <1>2, <1>5, <1>6, GivesObject

\* A list asks for its first element and its rest.
LEMMA KeepsEvalList ==
    ASSUME NEW S, Sound(S), EvalList
    PROVE  IInv'
<1>1. /\ Running /\ Plain(Expr) /\ Expr.type = "List" /\ ~IsEmpty(Expr)
  BY DEF EvalList, Evaluates, Running, Plain
<1>2. Expr \in S /\ Closed(S, Len(triples)) /\ EMPTY_LIST \in S
  BY <1>1, PlainTop, TopFrame DEF Basic
<1>3. First(Expr) \in S /\ Rest(Expr) \in S
  BY <1>1, <1>2, ListParts
<1>4. PICK c : c = Continuation("list", NIL)
  OBVIOUS
<1>5. /\ c.type = "Continuation" /\ IsExpr(c, S, Len(triples)) /\ Pops(c) = 2
      /\ Wanted(c) = "any" /\ Given(Expr) \in {"any", Given(c)}
  BY <1>1, <1>4 DEF Continuation, IsExpr, IsContinuation, Continuations, Pops, Wanted, Given
<1>6. /\ PushExprs(<<First(Expr), Rest(Expr), c>>) /\ env' = PoppedEnv
      /\ UNCHANGED <<session, ostack, triples, history>>
  BY <1>4 DEF EvalList
<1> QED BY <1>1, <1>3, <1>5, <1>6, AsksTwo

\* An array asks for its elements, as many as its continuation pops.
LEMMA KeepsEvalArray ==
    ASSUME NEW S, Sound(S), EvalArray
    PROVE  IInv'
<1>1. /\ Running /\ Plain(Expr) /\ Expr.type = "Array"
  BY DEF EvalArray, Evaluates, Running, Plain
<1>2. Expr.elems \in Seq(S)
  BY <1>1, PlainTop DEF IsObject
<1>3. Len(Expr.elems) \in Nat
  BY <1>2
<1>4. PICK c : c = Continuation("array", Len(Expr.elems))
  OBVIOUS
<1>5. /\ c.type = "Continuation" /\ IsExpr(c, S, Len(triples)) /\ Pops(c) = Len(Expr.elems)
      /\ Wanted(c) = "any" /\ Given(Expr) \in {"any", Given(c)}
  BY <1>1, <1>3, <1>4 DEF Continuation, IsExpr, IsContinuation, Continuations, Pops, Wanted, Given
<1>6. /\ PushExprs(Append(Expr.elems, c)) /\ env' = PoppedEnv
      /\ UNCHANGED <<session, ostack, triples, history>>
  BY <1>4 DEF EvalArray
<1> QED BY <1>1, <1>2, <1>5, <1>6, AsksMany

\* A sequence in the opposite order.
LEMMA Reversed ==
    ASSUME NEW S, NEW xs \in Seq(S)
    PROVE  Reverse(xs) \in Seq(S) /\ Len(Reverse(xs)) = Len(xs) /\ Len(xs) \in Nat
<1>1. Len(xs) \in Nat /\ DOMAIN xs = 1..Len(xs) /\ \A i \in 1..Len(xs) : xs[i] \in S
  BY SeqElements
<1>2. Reverse(xs) = [i \in 1..Len(xs) |-> xs[(Len(xs) - i) + 1]]
  BY DEF Reverse
<1>3. Reverse(xs) \in [1..Len(xs) -> S]
  BY <1>1, <1>2
<1> QED BY <1>1, <1>3

\* So does a queue.
LEMMA KeepsEvalQueue ==
    ASSUME NEW S, Sound(S), EvalQueue
    PROVE  IInv'
<1>1. /\ Running /\ Plain(Expr) /\ Expr.type = "Queue"
  BY DEF EvalQueue, Evaluates, Running, Plain
<1>2. Expr.elems \in Seq(S)
  BY <1>1, PlainTop DEF IsObject
<1>3. PICK xs : xs = Reverse(Expr.elems)
  OBVIOUS
<1>4. xs \in Seq(S) /\ Len(xs) = Len(Expr.elems) /\ Len(xs) \in Nat
  BY <1>2, <1>3, Reversed
<1>5. PICK c : c = Continuation("Queue", Len(Expr.elems))
  OBVIOUS
<1>6. /\ c.type = "Continuation" /\ IsExpr(c, S, Len(triples)) /\ Pops(c) = Len(xs)
      /\ Wanted(c) = "any" /\ Given(Expr) \in {"any", Given(c)}
  BY <1>1, <1>4, <1>5 DEF Continuation, IsExpr, IsContinuation, Continuations, Pops, Wanted, Given
<1>7. /\ PushExprs(Append(xs, c)) /\ env' = PoppedEnv
      /\ UNCHANGED <<session, ostack, triples, history>>
  BY <1>3, <1>5 DEF EvalQueue
<1> QED BY <1>1, <1>4, <1>6, <1>7, AsksMany

\* A binding asks for both its sides.
LEMMA KeepsEvalBinding ==
    ASSUME NEW S, Sound(S), EvalBinding
    PROVE  IInv'
<1>1. /\ Running /\ Plain(Expr) /\ Expr.type = "Binding"
  BY DEF EvalBinding, Evaluates, Running, Plain
<1>2. Expr.key \in S /\ Expr.val \in S
  BY <1>1, PlainTop DEF IsObject
<1>4. PICK c : c = Continuation("binding", NIL)
  OBVIOUS
<1>5. /\ c.type = "Continuation" /\ IsExpr(c, S, Len(triples)) /\ Pops(c) = 2
      /\ Wanted(c) = "any" /\ Given(Expr) \in {"any", Given(c)}
  BY <1>1, <1>4 DEF Continuation, IsExpr, IsContinuation, Continuations, Pops, Wanted, Given
<1>6. /\ PushExprs(<<Expr.key, Expr.val, c>>) /\ env' = PoppedEnv
      /\ UNCHANGED <<session, ostack, triples, history>>
  BY <1>4 DEF EvalBinding
<1> QED BY <1>1, <1>2, <1>5, <1>6, AsksTwo

\* An index asks for the object and the index.
LEMMA KeepsEvalBracketExpr ==
    ASSUME NEW S, Sound(S), EvalBracketExpr
    PROVE  IInv'
<1>1. /\ Running /\ Plain(Expr) /\ Expr.type = "BracketExpr"
  BY DEF EvalBracketExpr, Evaluates, Running, Plain
<1>2. Expr.lhs \in S /\ Expr.index \in S
  BY <1>1, PlainTop DEF IsObject
<1>4. PICK c : c = Continuation("BracketExpr", NIL)
  OBVIOUS
<1>5. /\ c.type = "Continuation" /\ IsExpr(c, S, Len(triples)) /\ Pops(c) = 2
      /\ Wanted(c) = "any" /\ Given(Expr) \in {"any", Given(c)}
  BY <1>1, <1>4 DEF Continuation, IsExpr, IsContinuation, Continuations, Pops, Wanted, Given
<1>6. /\ PushExprs(<<Expr.lhs, Expr.index, c>>) /\ env' = PoppedEnv
      /\ UNCHANGED <<session, ostack, triples, history>>
  BY <1>4 DEF EvalBracketExpr
<1> QED BY <1>1, <1>2, <1>5, <1>6, AsksTwo

\* A term asks for its elements and keeps its symbol in the continuation.
LEMMA KeepsEvalTerm ==
    ASSUME NEW S, Sound(S), EvalTerm
    PROVE  IInv'
<1>1. /\ Running /\ Plain(Expr) /\ Expr.type = "Term"
  BY DEF EvalTerm, Evaluates, Running, Plain
<1>2. /\ Expr.symbol \in S /\ Expr.elems \in S /\ Expr.elems.type = "Array"
      /\ Closed(S, Len(triples)) /\ S \subseteq S
  BY <1>1, PlainTop, TopFrame DEF IsObject
<1>4. PICK c : c = Continuation("term", Expr.symbol)
  OBVIOUS
<1>5. /\ c.type = "Continuation" /\ IsExpr(c, S, Len(triples)) /\ Pops(c) = 1
      /\ Wanted(c) \in {"any", Given(Expr.elems)} /\ Given(Expr) \in {"any", Given(c)}
  BY <1>1, <1>2, <1>4 DEF Continuation, IsExpr, IsContinuation, Continuations, Pops, Wanted, Given
<1>6. /\ PushExprs(<<Expr.elems, c>>) /\ env' = PoppedEnv
      /\ UNCHANGED <<session, ostack, triples, history>>
  BY <1>4 DEF EvalTerm
<1> QED BY <1>1, <1>2, <1>5, <1>6, AsksFirst

-----------------------------------------------------------------------------
(* Their continuations. *)

\* The cell that a list's continuation makes is of operands.
LEMMA KeepsListContin ==
    ASSUME NEW S, Sound(S), ListContin
    PROVE  IInv'
<1>1. /\ Running /\ Expr.type = "Continuation" /\ Expr.name = "list" /\ Pops(Expr) = 2
      /\ Given(Expr) = "List"
  BY DEF ListContin, Continues, Evaluates, Running, Pops, Given
<1>2. /\ Pushes(Expr) = 1 /\ ostack[1] \in S /\ ostack[2] \in S
  BY <1>1, ContinTop, TopOperands
<1>3. PICK obj : obj = Cell(ostack[2], ostack[1])
  OBVIOUS
<1>4. Len(triples) \in Nat /\ Closed(S, Len(triples))
  BY <1>1, TopFrame
<1>5. (\E T : With(S, Len(triples), T, obj)) /\ obj.type = "List"
  BY <1>2, <1>3, <1>4, CellJoins, CellIs
<1>6. /\ PopExpr /\ PushObj(obj, Drop(2)) /\ env' = PoppedEnv
      /\ UNCHANGED <<session, triples, history>>
  BY <1>3 DEF ListContin
<1>7. PICK k : k = 2
  OBVIOUS
<1>8. k = Pops(Expr) /\ PushObj(obj, Drop(k)) /\ Given(Expr) \in {"any", obj.type}
  BY <1>1, <1>5, <1>6, <1>7
<1> QED BY <1>1, <1>2, <1>5, <1>6, <1>8, GivesValue

\* The pair that a binding's continuation makes is of operands.
LEMMA KeepsBindingContin ==
    ASSUME NEW S, Sound(S), BindingContin
    PROVE  IInv'
<1>1. /\ Running /\ Expr.type = "Continuation" /\ Expr.name = "binding" /\ Pops(Expr) = 2
      /\ Given(Expr) = "any"
  BY DEF BindingContin, Continues, Evaluates, Running, Pops, Given
<1>2. /\ Pushes(Expr) = 1 /\ ostack[1] \in S /\ ostack[2] \in S
  BY <1>1, ContinTop, TopOperands
<1>3. PICK obj : obj = Pair(ostack[2], ostack[1])
  OBVIOUS
<1>4. Len(triples) \in Nat /\ Closed(S, Len(triples))
  BY <1>1, TopFrame
<1>5. \E T : With(S, Len(triples), T, obj)
  BY <1>2, <1>3, <1>4, PairJoins
<1>6. /\ PopExpr /\ PushObj(obj, Drop(2)) /\ env' = PoppedEnv
      /\ UNCHANGED <<session, triples, history>>
  BY <1>3 DEF BindingContin
<1>7. PICK k : k = 2
  OBVIOUS
<1>8. k = Pops(Expr) /\ PushObj(obj, Drop(k)) /\ Given(Expr) \in {"any", obj.type}
  BY <1>1, <1>6, <1>7
<1> QED BY <1>1, <1>2, <1>5, <1>6, <1>8, GivesValue

\* The first operands, as many as the first frame takes.
LEMMA ValuesAre ==
    ASSUME NEW S, Sound(S), Running, NEW n \in Nat, n <= Pops(Expr)
    PROVE  Values(n) \in Seq(S) /\ Len(Values(n)) = n
<1>1. ostack \in Seq(S) /\ Len(ostack) \in Nat /\ n <= Len(ostack)
  BY TopFrame
<1> QED BY <1>1 DEF Values

\* The array that its continuation makes has the operands it pops, in the order of the elements.
LEMMA KeepsArrayContin ==
    ASSUME NEW S, Sound(S), ArrayContin
    PROVE  IInv'
<1>1. /\ Running /\ Expr.type = "Continuation" /\ Expr.name = "array" /\ Pops(Expr) = Arg
      /\ Given(Expr) = "Array"
  BY DEF ArrayContin, Continues, Evaluates, Running, Pops, Given, Arg
<1>2. Pushes(Expr) = 1 /\ Arg \in Nat
  BY <1>1, ContinTop DEF IsContinuation, Arg
<1>3. PICK xs : xs = Reverse(Values(Arg))
  OBVIOUS
<1>4. xs \in Seq(S)
  <2>1. Values(Arg) \in Seq(S)
    BY <1>1, <1>2, ValuesAre
  <2> QED BY <1>3, <2>1, Reversed
<1>5. PICK obj : obj = Array(xs)
  OBVIOUS
<1>6. Len(triples) \in Nat /\ Closed(S, Len(triples))
  BY <1>1, TopFrame
<1>7. (\E T : With(S, Len(triples), T, obj)) /\ obj.type = "Array"
  BY <1>4, <1>5, <1>6, ArrayJoins DEF Array
<1>8. /\ PopExpr /\ PushObj(obj, Drop(Arg)) /\ env' = PoppedEnv
      /\ UNCHANGED <<session, triples, history>>
  BY <1>3, <1>5 DEF ArrayContin
<1>9. Given(Expr) \in {"any", obj.type}
  BY <1>1, <1>7
<1> QED BY <1>1, <1>2, <1>7, <1>8, <1>9, GivesValue

\* So has the queue.
LEMMA KeepsQueueContin ==
    ASSUME NEW S, Sound(S), QueueContin
    PROVE  IInv'
<1>1. /\ Running /\ Expr.type = "Continuation" /\ Expr.name = "Queue" /\ Pops(Expr) = Arg
      /\ Given(Expr) = "any"
  BY DEF QueueContin, Continues, Evaluates, Running, Pops, Given, Arg
<1>2. Pushes(Expr) = 1 /\ Arg \in Nat
  BY <1>1, ContinTop DEF IsContinuation, Arg
<1>3. PICK xs : xs = Values(Arg)
  OBVIOUS
<1>4. xs \in Seq(S)
  BY <1>1, <1>2, <1>3, ValuesAre
<1>5. PICK obj : obj = Queue(xs)
  OBVIOUS
<1>6. Len(triples) \in Nat /\ Closed(S, Len(triples))
  BY <1>1, TopFrame
<1>7. \E T : With(S, Len(triples), T, obj)
  BY <1>4, <1>5, <1>6, QueueJoins
<1>8. /\ PopExpr /\ PushObj(obj, Drop(Arg)) /\ env' = PoppedEnv
      /\ UNCHANGED <<session, triples, history>>
  BY <1>3, <1>5 DEF QueueContin
<1>9. Given(Expr) \in {"any", obj.type}
  BY <1>1
<1> QED BY <1>1, <1>2, <1>7, <1>8, <1>9, GivesValue

\* What the proofs take from any_match, which is a parameter of the evaluator: it binds names
\* to parts of the objects it is given.
MatchTakesParts == \A S : \A n \in Nat : Closed(S, n) => TakesParts(Match, S)

\* What a pattern binds.
LEMMA MatchTaken ==
    ASSUME MatchTakesParts, NEW S, NEW n \in Nat, Closed(S, n), NEW pattern \in S, NEW obj \in S,
           NEW binds \in Match(pattern, obj)
    PROVE  IsBinds(binds, S)
<1>1. binds \in Seq([key : STRING, value : S])
  BY DEF MatchTakesParts, TakesParts
<1> QED BY <1>1 DEF IsBinds

\* The rule that is taken, with what its parameters bind.
LEMMA RuleTaken ==
    ASSUME MatchTakesParts, NEW S, NEW n \in Nat, Closed(S, n), NEW rules \in Rules(S),
           NEW args \in S, NEW stack, NEW e, PushRule(stack, rules, args, e)
    PROVE  \E body, binds :
                /\ body \in S /\ IsBinds(binds, S) /\ triples' = Extended(e, binds)
                /\ estack' = OnTop(body, ExtendedEnv(e, binds), stack)
<1>1. PICK rule \in FirstRule(rules, args) : \E binds \in Match(rule.params, args) :
            PushBody(stack, rule.body, e, binds)
  BY DEF PushRule
<1>2. PICK binds \in Match(rule.params, args) : PushBody(stack, rule.body, e, binds)
  BY <1>1
<1>3. PICK i \in DOMAIN rules : rule = rules[i]
  BY <1>1 DEF FirstRule, Matching
<1>4. rule.params \in S /\ rule.body \in S
  <2> DEFINE R == [params : S, body : S]
  <2>1. rules \in Seq(R)
    BY DEF Rules
  <2> HIDE DEF R
  <2>2. rule \in R
    BY <1>3, <2>1, SeqElements
  <2> QED BY <2>2 DEF R
<1>5. IsBinds(binds, S)
  BY <1>2, <1>4, MatchTaken
<1>6. /\ triples' = Extended(e, binds)
      /\ estack' = OnTop(rule.body, ExtendedEnv(e, binds), stack)
  BY <1>2 DEF PushBody, OnTop
<1> QED BY <1>4, <1>5, <1>6

\* A handler on the stack.
LEMMA HandlerIs ==
    ASSUME NEW S, Sound(S), NEW first \in DOMAIN estack, Handles(estack, first)
    PROVE  /\ estack[first].expr.rules \in Rules(S) /\ estack[first].expr.ostack \in Seq(S)
           /\ estack[first].env \in 0..Len(triples)
<1>1. IsFrame(estack[first].expr, estack[first].env, S, Len(triples)) /\ Closed(S, Len(triples))
  <2>1. Framed(estack, S, Len(triples)) /\ Closed(S, Len(triples))
    BY DEF Sound, Stacked, Stored
  <2>2. first \in 1..Len(estack)
    BY <2>1 DEF Framed, IsSeq
  <2> QED BY <2>1, <2>2 DEF Framed
<1> DEFINE expr == estack[first].expr
<1>2. expr.type = "ExceptionHandler"
  BY DEF Handles
<1>3. expr \notin S
  BY <1>1, <1>2, ClosedPlain DEF Plain
<1>4. estack[first].env \in 0..Len(triples)
  BY <1>1, <1>2 DEF IsFrame, IsEnv
<1>5. IsExpr(expr, S, Len(triples))
  BY <1>1 DEF IsFrame
<1> HIDE DEF expr
<1>6. expr.rules \in Rules(S) /\ expr.ostack \in Seq(S)
  BY <1>2, <1>3, <1>5 DEF IsExpr
<1> QED BY <1>4, <1>6 DEF expr

\* The frames below one of them.
LEMMA BelowIs ==
    ASSUME NEW F, NEW es \in Seq(F), NEW d \in 2..Len(es)
    PROVE  /\ d - 1 \in 1..Len(Tail(es)) /\ Len(Tail(es)) \in Nat /\ d - 1 \in Nat
           /\ es[d] = Tail(es)[d - 1]
           /\ SubSeq(es, d + 1, Len(es)) \in Seq(F)
           /\ Suffix(Tail(es), d - 1, SubSeq(es, d + 1, Len(es)))
<1>1. es # <<>> /\ Len(es) \in Nat /\ d \in Nat
  OBVIOUS
<1>2. Len(Tail(es)) = Len(es) - 1 /\ \A j \in 1..Len(Tail(es)) : Tail(es)[j] = es[j + 1]
  BY <1>1, HeadTailProperties
<1>3. d + 1 \in Nat /\ d + 1 >= 1 /\ d + 1 <= Len(es) + 1
  BY <1>1
<1> DEFINE rest == SubSeq(es, d + 1, Len(es))
<1>4. rest \in Seq(F) /\ Len(rest) = Len(es) - (d + 1) + 1
  BY <1>3, Behind
<1>5. \A j \in 1..Len(rest) : rest[j] = es[(d + 1) + j - 1]
  <2>1. \A i \in d + 1..Len(es) : es[i] \in F
    BY <1>1
  <2> QED BY <1>1, <1>4
<1>6. d - 1 \in 1..Len(Tail(es)) /\ Len(Tail(es)) \in Nat /\ d - 1 \in Nat /\ es[d] = Tail(es)[d - 1]
  BY <1>1, <1>2
<1>7. Len(rest) = Len(es) - d /\ Len(rest) \in Nat
  BY <1>1, <1>4
<1>8. ASSUME NEW j \in 1..Len(rest) PROVE rest[j] = Tail(es)[(d - 1) + j]
  <2>1. rest[j] = es[(d + 1) + j - 1] /\ j \in Nat /\ j >= 1 /\ j <= Len(es) - d
    BY <1>5, <1>7
  <2>2. (d - 1) + j \in 1..Len(Tail(es)) /\ ((d - 1) + j) + 1 = (d + 1) + j - 1
    BY <1>1, <1>2, <2>1
  <2> HIDE DEF rest
  <2> QED BY <1>2, <2>1, <2>2
<1>9. Len(Tail(es)) = (d - 1) + Len(rest)
  <2> HIDE DEF rest
  <2>1. Len(Tail(es)) = Len(es) - 1 /\ Len(rest) = Len(es) - d
    BY <1>2, <1>7
  <2> QED BY <1>1, <2>1
<1> QED BY <1>4, <1>6, <1>7, <1>8, <1>9 DEF Suffix

\* The frames of the expression that failed are popped down to a handler, whose rule runs on
\* the operands os.
LEMMA CaughtKeeps ==
    ASSUME MatchTakesParts, NEW S, Sound(S), Running, NEW T, S \subseteq T,
           Closed(T, Len(triples)), NEW obj \in T, NEW os \in Seq(T),
           Len(os) >= Len(ostack) - Pops(Expr), Caught(obj, os), UNCHANGED <<input, scrambled>>
    PROVE  IInv'
<1>1. /\ Len(triples) \in Nat /\ Basic(S) /\ Len(ostack) \in Nat /\ Pops(Expr) \in Nat
      /\ Pops(Expr) <= Len(ostack) /\ Len(os) \in Nat
  BY TopFrame
<1>2. PICK args : args = List(<<obj>>)
  OBVIOUS
<1>3. PICK U : T \subseteq U /\ Closed(U, Len(triples)) /\ args \in U /\ S \subseteq U
  <2>1. EMPTY_LIST \in T /\ <<obj>> \in Seq(T)
    BY <1>1 DEF Basic
  <2>2. \E U : With(T, Len(triples), U, List(<<obj>>))
    BY <1>1, <2>1, ListJoins
  <2> QED BY <1>2, <2>2 DEF With
<1>4. PICK first \in {Min(Catching(obj))} :
        /\ PushRule(SaveEnv(SubSeq(estack, first + 1, Len(estack)), estack[first].env),
                    estack[first].expr.rules, args, EMPTY_TRIPLE)
        /\ env' = estack[first].env
        /\ ostack' = os
        /\ mixed' = (mixed \/ os # estack[first].expr.ostack)
  BY <1>2 DEF Caught
<1>5. PICK F : estack \in Seq(F)
  BY DEF Sound, Stacked, Framed, IsSeq
<1>6. first \in 2..Len(estack) /\ Handles(estack, first)
  <2>1. Catching(obj) # {} /\ Catching(obj) \in SUBSET Nat
    <3>1. Catching(obj) \subseteq 2..Len(estack)
      BY DEF Catching
    <3>2. 2..Len(estack) \subseteq Nat
      BY <1>5
    <3> QED BY <3>1, <3>2 DEF Caught
  <2>2. first \in Catching(obj)
    BY <1>4, <2>1, MinIs
  <2> QED BY <2>2 DEF Catching, Handles
<1>7. /\ estack[first].expr.rules \in Rules(S) /\ estack[first].expr.ostack \in Seq(S)
      /\ estack[first].env \in 0..Len(triples)
  <2>1. first \in DOMAIN estack
    BY <1>5, <1>6
  <2> QED BY <1>6, <2>1, HandlerIs
<1>8. PICK rest : rest = SubSeq(estack, first + 1, Len(estack))
  OBVIOUS
<1>9. PICK tail : tail = Tail(estack)
  OBVIOUS
<1>10. PICK d : d = first - 1
  OBVIOUS
<1>11. /\ d \in 1..Len(tail) /\ Len(tail) \in Nat /\ d \in Nat /\ estack[first] = tail[d]
       /\ rest \in Seq(F) /\ Suffix(tail, d, rest)
  BY <1>5, <1>6, <1>8, <1>9, <1>10, BelowIs
<1>12. IsSeq(rest) /\ Handles(tail, d) /\ KeptAt(tail, d) = Len(estack[first].expr.ostack)
  BY <1>6, <1>11 DEF IsSeq, Handles, KeptAt
<1>13. PICK body, binds :
          /\ body \in U /\ IsBinds(binds, U) /\ triples' = Extended(EMPTY_TRIPLE, binds)
          /\ estack' = OnTop(body, ExtendedEnv(EMPTY_TRIPLE, binds), SaveEnv(rest, estack[first].env))
  <2>1. estack[first].expr.rules \in Rules(U)
    <3>1. [params : S, body : S] \subseteq [params : U, body : U]
      BY <1>3
    <3> QED BY <1>7, <3>1, SeqMonotonic DEF Rules
  <2>2. PICK rules : rules = estack[first].expr.rules
    OBVIOUS
  <2>3. PICK stack : stack = SaveEnv(rest, estack[first].env)
    OBVIOUS
  <2>4. PushRule(stack, rules, args, EMPTY_TRIPLE) /\ rules \in Rules(U)
    BY <1>4, <1>8, <2>1, <2>2, <2>3
  <2> QED BY <1>1, <1>3, <2>3, <2>4, RuleTaken
<1>14. PICK e : e = ExtendedEnv(EMPTY_TRIPLE, binds)
  OBVIOUS
<1>15. Grows(S, U) /\ e \in 0..Len(triples')
  <2>1. EMPTY_TRIPLE \in 0..Len(triples)
    BY <1>1 DEF EMPTY_TRIPLE
  <2>2. env' \in 0..Len(triples)
    BY <1>4, <1>7
  <2> QED BY <1>3, <1>13, <1>14, <2>1, <2>2, GrowsExtended
<1>16. PICK stack : stack = SaveEnv(rest, estack[first].env)
  OBVIOUS
<1>17. Framed(stack, U, Len(triples')) /\ Plain(body) /\ IsExpr(body, U, Len(triples'))
  <2>1. /\ Framed(tail, U, Len(triples')) /\ Plain(body) /\ IsExpr(body, U, Len(triples'))
    BY <1>9, <1>13, <1>15, FramedBelow
  <2>2. Framed(rest, U, Len(triples'))
    BY <1>11, <1>12, <2>1, FramedSuffix
  <2>3. estack[first].env \in 0..Len(triples')
    <3>1. Len(triples) <= Len(triples') /\ Len(triples') \in Nat
      BY <1>15 DEF Grows
    <3> QED BY <1>1, <1>7, <3>1
  <2> QED BY <1>16, <2>1, <2>2, <2>3, FramedSaveEnv
<1>18. PICK es : es = OnTop(body, e, stack)
  OBVIOUS
<1>19. estack' = es /\ Framed(es, U, Len(triples'))
  <2>1. IsFrame(body, e, U, Len(triples'))
    BY <1>15, <1>17 DEF IsFrame, IsEnv, Plain
  <2> QED BY <1>13, <1>14, <1>16, <1>17, <1>18, <2>1, FramedOnTop
<1>20. PICK l : l = Len(os)
  OBVIOUS
<1>21. PICK exact : exact = (Counted /\ l = KeptAt(tail, d))
  OBVIOUS
<1>22. Fits(es, l, l, "any", exact, 1 + unasked)
  <2> DEFINE k == l + 1
  <2>1. Fits(rest, k, l, "any", exact, 1 + unasked)
    <3>1. PICK low : low = Len(ostack) - Pops(Expr)
      OBVIOUS
    <3>2. PICK k0 : k0 = Len(ostack) - Pops(Expr) + Pushes(Expr)
      OBVIOUS
    <3>3. Fits(tail, k0, low, Given(Expr), Counted, 1 + unasked)
      BY <1>9, <3>1, <3>2, BelowTop
    <3>4. low \in Nat /\ l \in Nat /\ low <= l
      BY <1>1, <1>20, <3>1
    <3>5. Fits(rest, l + 1, l, "any", Counted /\ l = KeptAt(tail, d), 1 + unasked)
      BY <1>11, <1>12, <3>3, <3>4, FitsCaught
    <3> QED BY <1>21, <3>5
  <2>2. k \in Nat /\ l \in Nat /\ l <= k
    BY <1>1, <1>20
  <2> HIDE DEF k
  <2>3. Fits(stack, k, l, "any", exact, 1 + unasked)
    BY <1>11, <1>16, <2>1, <2>2, FitsSaveEnv
  <2>4. IsSeq(stack)
    BY <1>17 DEF Framed
  <2>5. Fits(stack, l + 1, l, "any", exact, 1 + unasked)
    BY <2>3 DEF k
  <2> QED BY <1>17, <1>18, <2>2, <2>4, <2>5, FitsOne
<1>23. /\ mixed' \in BOOLEAN /\ scrambled' = scrambled /\ scrambled \in BOOLEAN
       /\ unasked' = unasked /\ unasked \in Nat
       /\ ~mixed' => ~mixed /\ os = estack[first].expr.ostack
  <2>1. mixed \in BOOLEAN /\ scrambled \in BOOLEAN /\ unasked \in Nat
    BY DEF Sound, Phases
  <2>2. unasked' = unasked
    BY DEF Caught
  <2> QED BY <1>4, <2>1, <2>2
<1>24. ~mixed' /\ ~scrambled' => exact
  <2> SUFFICES ASSUME ~mixed', ~scrambled' PROVE exact
    OBVIOUS
  <2>1. ~mixed /\ os = estack[first].expr.ostack
    BY <1>23
  <2>2. ~scrambled
    BY <1>23
  <2>3. Counted
    BY <2>1, <2>2 DEF Counted
  <2>4. l = KeptAt(tail, d)
    BY <1>12, <1>20, <2>1
  <2> QED BY <1>21, <2>3, <2>4
<1>25. Fits(es, l, l, TopType(os), ~mixed' /\ ~scrambled', 1 + unasked)
  <2>1. PICK exact2 : exact2 = (~mixed' /\ ~scrambled')
    OBVIOUS
  <2>2. Fits(es, l, l, "any", exact2, 1 + unasked)
    BY <1>22, <1>24, <2>1, FitsWeaker
  <2>3. Fits(es, l, l, TopType(os), exact2, 1 + unasked)
    BY <2>2, FitsTop
  <2> QED BY <2>1, <2>3
<1>26. os \in Seq(U) /\ ostack' = os
  BY <1>3, <1>4, SeqGrows
<1>27. Moves(U)
  BY <1>19, <1>20, <1>23, <1>25, <1>26 DEF Moves
<1>28. UNCHANGED session
  <2>1. UNCHANGED tables
    BY DEF Caught
  <2> QED BY <2>1 DEF session
<1> QED BY <1>15, <1>27, <1>28, EvalKeeps

\* No handler takes the object: the stacks and the tables are emptied, and NIL is the value.
LEMMA UncaughtKeeps ==
    ASSUME NEW S, Sound(S), Running, NEW obj, Uncaught(obj), UNCHANGED <<input, scrambled>>
    PROVE  IInv'
<1>1. Len(triples) \in Nat /\ Closed(S, Len(triples)) /\ NIL \in S
  BY TopFrame DEF Basic
<1>2. /\ estack' = <<>> /\ ostack' = <<NIL>> /\ env' = BottomEnv /\ unasked' = 0
      /\ triples' = triples /\ mixed' = mixed
  BY DEF Uncaught
<1>3. BottomEnv \in 0..Len(triples)
  <2>1. Framed(estack, S, Len(triples)) /\ env \in 0..Len(triples)
    BY DEF Sound, Stacked, Stored
  <2> QED BY <1>1, <2>1, BottomEnvIn
<1>4. Grows(S, S)
  BY <1>1, <1>2, <1>3, GrowsSame
<1>5. Framed(<<>>, S, Len(triples'))
  BY DEF Framed, IsSeq
<1>6. PICK os : os = <<NIL>>
  OBVIOUS
<1>7. os \in Seq(S) /\ Len(os) = 1
  BY <1>1, <1>6
<1>8. PICK exact : exact = (~mixed' /\ ~scrambled')
  OBVIOUS
<1>9. Fits(<<>>, 1, 1, TopType(os), exact, 1)
  BY FitsEmpty
<1>10. /\ mixed' \in BOOLEAN /\ scrambled' \in BOOLEAN /\ unasked' \in Nat /\ 1 + unasked' = 1
  BY <1>2 DEF Sound, Phases
<1>11. Moves(S)
  BY <1>2, <1>5, <1>6, <1>7, <1>8, <1>9, <1>10 DEF Moves
<1>12. /\ \A key \in DOMAIN records' : records'[key] \in Seq(S)
       /\ \A key \in DOMAIN subscribers' : subscribers'[key] \in Seq(S)
  BY DEF Uncaught, EmptyTable
<1> QED BY <1>4, <1>11, <1>12, StepKeeps

\* An object is thrown.
LEMMA ThrowKeeps ==
    ASSUME MatchTakesParts, NEW S, Sound(S), Running, NEW obj,
           \E T : With(S, Len(triples), T, obj),
           NEW k, k \in 0..Pops(Expr), ThrowObj(obj, Drop(k))
    PROVE  IInv'
<1>1. PICK T : S \subseteq T /\ Closed(T, Len(triples)) /\ obj \in T
  BY DEF With
<1>2. /\ ostack \in Seq(S) /\ Len(ostack) \in Nat /\ Pops(Expr) \in Nat /\ Pops(Expr) <= Len(ostack)
  BY TopFrame
<1>3. ostack \in Seq(T) /\ k \in 0..Len(ostack) /\ k \in Nat
  BY <1>1, <1>2, SeqGrows
<1>4. PICK os : os = Drop(k)
  OBVIOUS
<1>5. os \in Seq(T) /\ Len(os) = Len(ostack) - k
  BY <1>3, <1>4, Dropped
<1>6. Len(os) >= Len(ostack) - Pops(Expr)
  BY <1>2, <1>3, <1>5
<1>7. Caught(obj, os) \/ Uncaught(obj)
  BY <1>4 DEF ThrowObj
<1>8. UNCHANGED <<input, scrambled>>
  BY DEF ThrowObj
<1> QED BY <1>1, <1>5, <1>6, <1>7, <1>8, CaughtKeeps, UncaughtKeeps

\* The same when no operand has been popped.
LEMMA ThrowAllKeeps ==
    ASSUME MatchTakesParts, NEW S, Sound(S), Running, NEW obj,
           \E T : With(S, Len(triples), T, obj), ThrowObj(obj, ostack)
    PROVE  IInv'
<1>1. ostack \in Seq(S) /\ Len(ostack) \in Nat /\ Pops(Expr) \in Nat
  BY TopFrame
<1>2. 0 \in 0..Len(ostack)
  BY <1>1
<1>3. Drop(0) = ostack
  BY <1>1, <1>2, Dropped
<1>4. PICK k : k = 0
  OBVIOUS
<1>5. ThrowObj(obj, Drop(k)) /\ k \in 0..Pops(Expr)
  BY <1>1, <1>3, <1>4
<1> QED BY <1>5, ThrowKeeps

\* The exception of the evaluator.
LEMMA ThrowExceptionKeeps ==
    ASSUME MatchTakesParts, NEW S, Sound(S), Running, NEW kind, NEW obj,
           NEW T, S \subseteq T, Closed(T, Len(triples)), obj \in T,
           NEW k, k \in 0..Pops(Expr), ThrowException(kind, obj, Drop(k))
    PROVE  IInv'
<1>1. Len(triples) \in Nat /\ Text \in T
  BY TopFrame DEF Basic
<1>2. PICK U : T \subseteq U /\ Closed(U, Len(triples)) /\ Exn(kind, obj) \in U
  BY <1>1, ExnJoins DEF With
<1>3. PICK thrown : thrown = Exn(kind, obj)
  OBVIOUS
<1>4. (\E V : With(S, Len(triples), V, thrown)) /\ ThrowObj(thrown, Drop(k))
  BY <1>2, <1>3 DEF With, ThrowException
<1> QED BY <1>4, ThrowKeeps

\* An exception over all the operands keeps the invariant: a handler keeps no more of them than
\* there are.
LEMMA ThrowAllExceptionKeeps ==
    ASSUME MatchTakesParts, NEW S, Sound(S), Running, NEW kind, NEW obj,
           NEW T, S \subseteq T, Closed(T, Len(triples)), obj \in T,
           ThrowException(kind, obj, ostack)
    PROVE  IInv'
<1>1. Len(triples) \in Nat /\ Text \in T
  BY TopFrame DEF Basic
<1>2. PICK U : T \subseteq U /\ Closed(U, Len(triples)) /\ Exn(kind, obj) \in U
  BY <1>1, ExnJoins DEF With
<1>3. PICK thrown : thrown = Exn(kind, obj)
  OBVIOUS
<1>4. (\E V : With(S, Len(triples), V, thrown)) /\ ThrowObj(thrown, ostack)
  BY <1>2, <1>3 DEF With, ThrowException
<1> QED BY <1>4, ThrowAllKeeps

\* The value of a triple.
LEMMA TripleValue ==
    ASSUME NEW S, NEW ts, Chained(ts, S), NEW t \in 1..Len(ts)
    PROVE  ts[t].value \in S
<1>1. PICK K : ts \in Seq([key : K, value : S, next : Nat])
  BY DEF Chained
<1> DEFINE R == [key : K, value : S, next : Nat]
<1>2. ts \in Seq(R)
  BY <1>1
<1> HIDE DEF R
<1>3. ts[t] \in R
  BY <1>2, SeqElements
<1> QED BY <1>3 DEF R

\* What an identifier is bound to in its environment or in the global one is an object; an unbound
\* one is thrown.
LEMMA KeepsEvalIdentifier ==
    ASSUME MatchTakesParts, NEW S, Sound(S), EvalIdentifier
    PROVE  IInv'
<1>1. Running /\ Plain(Expr) /\ Given(Expr) = "any"
  BY DEF EvalIdentifier, Evaluates, Running, Plain, Given
<1>2. /\ Expr \in S /\ Pops(Expr) = 0 /\ Pushes(Expr) = 1 /\ Closed(S, Len(triples))
      /\ PoppedEnv \in 0..Len(triples) /\ Chained(triples, S) /\ Basic(S) /\ Len(triples) \in Nat
  BY <1>1, PlainTop, TopFrame
<1>3. PICK triple : triple = Locate(PoppedEnv, Expr.name)
  OBVIOUS
<1>4. triple \in 0..PoppedEnv
  BY <1>2, <1>3, LocateIn
<1>5. CASE triple = EMPTY_TRIPLE /\ Expr.name \notin DOMAIN GlobalEnv
  <2>1. ThrowException("Identifier", Expr, ostack)
    BY <1>3, <1>5 DEF EvalIdentifier
  <2>2. S \subseteq S
    OBVIOUS
  <2> QED BY <1>1, <1>2, <2>1, <2>2, ThrowAllExceptionKeeps
<1>6. CASE ~(triple = EMPTY_TRIPLE /\ Expr.name \notin DOMAIN GlobalEnv)
  <2>1. PICK obj : obj = IF triple = EMPTY_TRIPLE THEN GlobalEnv[Expr.name] ELSE triples[triple].value
    OBVIOUS
  <2>2. obj \in S
    <3>1. CASE triple = EMPTY_TRIPLE
      BY <1>2, <1>6, <2>1, <3>1 DEF Basic
    <3>2. CASE triple # EMPTY_TRIPLE
      <4>1. triple \in 1..Len(triples)
        BY <1>2, <1>4, <3>2 DEF EMPTY_TRIPLE
      <4>2. triples[triple].value \in S
        BY <1>2, <4>1, TripleValue
      <4> QED BY <2>1, <3>2, <4>2
    <3> QED BY <3>1, <3>2
  <2>3. \E T : With(S, Len(triples), T, obj)
    BY <1>2, <2>2, AlreadyIn
  <2>4. PushObj(obj, ostack) /\ PopExpr /\ env' = PoppedEnv /\ UNCHANGED <<session, triples, history>>
    BY <1>3, <1>6, <2>1 DEF EvalIdentifier
  <2>5. Given(Expr) \in {"any", obj.type}
    BY <1>1
  <2> QED BY <1>1, <1>2, <2>3, <2>4, <2>5, GivesObject
<1> QED BY <1>5, <1>6

\* What an index finds is a part of the indexed object; what it does not find throws.
LEMMA KeepsBracketContin ==
    ASSUME MatchTakesParts, NEW S, Sound(S), BracketContin
    PROVE  IInv'
<1>1. /\ Running /\ Expr.type = "Continuation" /\ Expr.name = "BracketExpr" /\ Pops(Expr) = 2
      /\ Given(Expr) = "any"
  BY DEF BracketContin, Continues, Evaluates, Running, Pops, Given
<1>2. /\ Pushes(Expr) = 1 /\ ostack[1] \in S /\ ostack[2] \in S
  BY <1>1, ContinTop, TopOperands
<1>3. Len(triples) \in Nat /\ Closed(S, Len(triples)) /\ Text \in S /\ EMPTY_LIST \in S
  BY <1>1, TopFrame DEF Basic
<1>4. PICK obj \in S : obj = ostack[2]
  BY <1>2
<1>5. PICK index \in S : index = ostack[1]
  BY <1>2
<1>6. ~LeftOut(obj, index)
  BY <1>4, <1>5 DEF BracketContin
<1>7. PICK k : k = 2
  OBVIOUS
<1>8. k = Pops(Expr) /\ k \in 0..Pops(Expr)
  BY <1>1, <1>7
<1>9. CASE ThrowObj(NotIndexed(obj, index), Drop(k))
  <2>1. PICK thrown : thrown = NotIndexed(obj, index)
    OBVIOUS
  <2>2. \E T : With(S, Len(triples), T, thrown)
    BY <1>3, <1>6, <2>1, NotIndexedJoins
  <2>3. ThrowObj(thrown, Drop(k))
    BY <1>9, <2>1
  <2> QED BY <1>1, <1>8, <2>2, <2>3, ThrowKeeps
<1>10. ASSUME NEW elem \in Indexed(obj, index), PushObj(elem, Drop(k)),
              PopExpr, env' = PoppedEnv, UNCHANGED <<session, triples, history>>
       PROVE  IInv'
  <2>1. elem \in S
    BY <1>3, <1>6, IndexedIn
  <2>2. \E T : With(S, Len(triples), T, elem)
    BY <1>3, <2>1, AlreadyIn
  <2>3. Given(Expr) \in {"any", elem.type}
    BY <1>1
  <2> QED BY <1>1, <1>2, <1>8, <1>10, <2>2, <2>3, GivesValue
<1>11. \/ ThrowObj(NotIndexed(obj, index), Drop(k))
       \/ /\ \E elem \in Indexed(obj, index) : PushObj(elem, Drop(k))
          /\ PopExpr /\ env' = PoppedEnv /\ UNCHANGED <<session, triples, history>>
  BY <1>4, <1>5, <1>7 DEF BracketContin
<1> QED BY <1>9, <1>10, <1>11

\* The elements of the array on top of the operands, where a continuation asks for one.
LEMMA TopElements ==
    ASSUME NEW S, Sound(S), Running, Expr.type = "Continuation",
           Expr.name \in {"term", "recordSpec"}
    PROVE  Head(ostack).elems \in Seq(S)
<1>1. Pops(Expr) = 1 /\ Wanted(Expr) = "Array"
  BY DEF Pops, Wanted
<1>2. /\ Wanted(Expr) \in {"any", TopType(ostack)} /\ Closed(S, Len(triples))
      /\ Head(ostack) \in S /\ TopType(ostack) = Head(ostack).type
  BY <1>1, TopFrame, TopOperands
<1>3. Head(ostack).type = "Array"
  BY <1>1, <1>2
<1> QED BY <1>2, <1>3 DEF Closed, IsObject

\* The term that its continuation makes has the symbol kept in it.
LEMMA KeepsTermContin ==
    ASSUME NEW S, Sound(S), TermContin
    PROVE  IInv'
<1>1. /\ Running /\ Expr.type = "Continuation" /\ Expr.name = "term" /\ Pops(Expr) = 1
      /\ Given(Expr) = "any"
  BY DEF TermContin, Continues, Evaluates, Running, Pops, Given
<1>2. Pushes(Expr) = 1 /\ Arg \in S
  BY <1>1, ContinTop DEF IsContinuation, Arg
<1>3. PICK elems : elems = Head(ostack).elems
  OBVIOUS
<1>4. elems \in Seq(S)
  BY <1>1, <1>3, TopElements
<1>5. PICK obj : obj = Term(Arg, elems)
  OBVIOUS
<1>6. Len(triples) \in Nat /\ Closed(S, Len(triples))
  BY <1>1, TopFrame
<1>7. \E T : With(S, Len(triples), T, obj)
  BY <1>2, <1>4, <1>5, <1>6, TermJoins
<1>8. PICK k : k = 1
  OBVIOUS
<1>9. /\ k = Pops(Expr) /\ PopExpr /\ PushObj(obj, Drop(k)) /\ env' = PoppedEnv
      /\ UNCHANGED <<session, triples, history>>
  BY <1>1, <1>3, <1>5, <1>8 DEF TermContin
<1>10. Given(Expr) \in {"any", obj.type}
  BY <1>1
<1> QED BY <1>1, <1>2, <1>7, <1>9, <1>10, GivesValue

-----------------------------------------------------------------------------
(* Records. *)

\* An expression that leaves an object and changes no triple.
LEMMA ValueMoves ==
    ASSUME NEW S, Sound(S), Running, NEW obj \in S, NEW k, k = Pops(Expr), Pushes(Expr) = 1,
           PopExpr, PushObj(obj, Drop(k)), Given(Expr) = "any", env' = PoppedEnv,
           UNCHANGED <<triples, history>>
    PROVE  Grows(S, S) /\ Moves(S)
<1>1. /\ PoppedEnv \in 0..Len(triples) /\ ostack \in Seq(S) /\ Len(ostack) \in Nat
      /\ Pops(Expr) \in Nat /\ Pops(Expr) <= Len(ostack) /\ Closed(S, Len(triples))
  BY TopFrame
<1>2. Grows(S, S)
  BY <1>1, GrowsSame
<1>3. k \in 0..Len(ostack)
  BY <1>1
<1>4. Drop(k) \in Seq(S) /\ Len(Drop(k)) = Len(ostack) - k
  BY <1>1, <1>3, Dropped
<1> DEFINE os == <<obj>> \o Drop(k)
<1>5. os \in Seq(S) /\ Len(os) = Len(ostack) - Pops(Expr) + Pushes(Expr)
  BY <1>1, <1>4, Pushed
<1>6. ostack' = os
  BY DEF PushObj
<1> HIDE DEF os
<1>7. Given(Expr) \in {"any", TopType(os)}
  OBVIOUS
<1>8. Moves(S)
  BY <1>2, <1>5, <1>6, <1>7, Finishes
<1> QED BY <1>2, <1>8

\* The definition of a record keeps its field names, which are parts of it, in the session's table.
LEMMA KeepsEvalRecordDefinition ==
    ASSUME NEW S, Sound(S), EvalRecordDefinition
    PROVE  IInv'
<1>1. /\ Running /\ Plain(Expr) /\ Given(Expr) = "any" /\ Expr.type = "RecordDefinition"
  BY DEF EvalRecordDefinition, Evaluates, Running, Plain, Given
<1>2. /\ IsObject(Expr, S, Len(triples)) /\ Pops(Expr) = 0 /\ Pushes(Expr) = 1 /\ NIL \in S
      /\ ostack \in Seq(S) /\ Len(ostack) \in Nat
  BY <1>1, PlainTop, TopFrame DEF Basic
<1>3. Expr.fieldNames \in Seq(S)
  BY <1>1, <1>2 DEF IsObject
<1>4. PICK k : k = 0
  OBVIOUS
<1>5. Drop(k) = ostack
  <2>1. 0 \in 0..Len(ostack)
    BY <1>2
  <2> QED BY <1>2, <1>4, <2>1, Dropped
<1>6. k = Pops(Expr) /\ PopExpr /\ PushObj(NIL, Drop(k)) /\ env' = PoppedEnv
  BY <1>2, <1>4, <1>5 DEF EvalRecordDefinition
<1>7. UNCHANGED <<triples, history>> /\ UNCHANGED <<input, subscribers>>
  BY DEF EvalRecordDefinition
<1>8. Grows(S, S) /\ Moves(S)
  BY <1>1, <1>2, <1>6, <1>7, ValueMoves
<1>9. \A key \in DOMAIN records' : records'[key] \in Seq(S)
  <2>1. \A key \in DOMAIN records : records[key] \in Seq(S)
    BY DEF Sound, Stored
  <2>2. records' = Put(records, Expr.typeName, Expr.fieldNames)
    BY DEF EvalRecordDefinition
  <2> QED BY <1>3, <2>1, <2>2 DEF Put
<1>10. \A key \in DOMAIN subscribers' : subscribers'[key] \in Seq(S)
  BY <1>7 DEF Sound, Stored
<1>11. UNCHANGED input
  BY <1>7
<1> QED BY <1>1, <1>8, <1>9, <1>10, <1>11, StepKeeps

\* A field of a type of records, and the object thrown for a binding that has no place.
LEMMA SpecThrowsKeeps ==
    ASSUME MatchTakesParts, NEW S, Sound(S), Running, Expr.type = "RecordSpec",
           Expr.typeName \in DOMAIN records, SpecFails # {}, SpecThrows
    PROVE  IInv'
<1>1. Plain(Expr)
  BY DEF Plain
<1>2. /\ Expr \in S /\ IsObject(Expr, S, Len(triples)) /\ Pops(Expr) = 0 /\ Pushes(Expr) = 1
      /\ NIL \in S /\ Len(triples) \in Nat /\ Closed(S, Len(triples))
  BY <1>1, PlainTop, TopFrame DEF Basic
<1>3. Expr.fieldBindings \in Bindings(S)
  BY <1>2 DEF IsObject
<1>4. records[Expr.typeName] \in Seq(S)
  BY DEF Sound, Stored
<1> DEFINE bindings == Expr.fieldBindings
           R == [lhs : S, rhs : S]
<1>5. /\ DOMAIN bindings = 1..Len(bindings) /\ Len(bindings) \in Nat
      /\ \A i \in 1..Len(bindings) : bindings[i] \in R
  <2>1. bindings \in Seq(R)
    BY <1>3 DEF Bindings
  <2> HIDE DEF R, bindings
  <2> QED BY <2>1, SeqElements
<1>6. PICK n : n = Min(SpecFails)
  OBVIOUS
<1>7. n \in 1..Len(bindings)
  <2>1. SpecFails \subseteq 1..Len(bindings)
    BY <1>5 DEF SpecFails
  <2>2. 1..Len(bindings) \subseteq Nat
    OBVIOUS
  <2>3. SpecFails \in SUBSET Nat
    BY <2>1, <2>2
  <2>4. n \in SpecFails
    BY <1>6, <2>3, MinIs
  <2> QED BY <2>1, <2>4
<1>8. PICK name : name = bindings[n].lhs
  OBVIOUS
<1>9. name \in S
  <2>1. bindings[n] \in R
    BY <1>5, <1>7
  <2> QED BY <1>8, <2>1
<1>10. PICK field : field = FieldIndex(records[Expr.typeName], name)
  OBVIOUS
<1>11. field \in SUBSET Nat
  <2>1. DOMAIN records[Expr.typeName] \subseteq Nat
    BY <1>4
  <2> QED BY <1>10, <2>1 DEF FieldIndex
<1>12. S \subseteq S
  OBVIOUS
<1> HIDE DEF bindings, R
<1>13. CASE field = {}
  <2>1. ThrowException("RecordSpec", Array(<<name, Expr>>), ostack)
    BY <1>6, <1>8, <1>10, <1>13 DEF SpecThrows, bindings
  <2>2. PICK obj : obj = Array(<<name, Expr>>)
    OBVIOUS
  <2>3. PICK T : S \subseteq T /\ Closed(T, Len(triples)) /\ obj \in T
    BY <1>2, <1>9, <2>2, TwoJoin DEF With
  <2>4. ThrowException("RecordSpec", obj, ostack)
    BY <2>1, <2>2
  <2> QED BY <2>3, <2>4, ThrowAllExceptionKeeps
<1>14. CASE field # {}
  <2>1. ThrowException("Array", Array(<<Integer(Min(field) - 1), Array(ValueAry(n - 1))>>), ostack)
    BY <1>6, <1>8, <1>10, <1>14 DEF SpecThrows, bindings
  <2>2. PICK a : a = Array(ValueAry(n - 1))
    OBVIOUS
  <2>3. PICK T : S \subseteq T /\ Closed(T, Len(triples)) /\ a \in T
    <3>1. n - 1 \in 0..Len(Expr.fieldBindings)
      BY <1>5, <1>7 DEF bindings
    <3>2. PICK p : p = n - 1
      OBVIOUS
    <3>3. ValueAry(p) \in Seq(S)
      BY <1>2, <1>3, <3>1, <3>2, ValueAryIn
    <3> QED BY <1>2, <2>2, <3>2, <3>3, ArrayJoins DEF With
  <2>4. PICK m : m = Min(field) - 1
    OBVIOUS
  <2>5. m \in Int
    <3>1. Min(field) \in field
      BY <1>11, <1>14, MinIs
    <3> QED BY <1>11, <2>4, <3>1
  <2>6. PICK U : T \subseteq U /\ Closed(U, Len(triples)) /\ Integer(m) \in U
    BY <1>2, <2>3, <2>5, IntegerJoins DEF With
  <2>7. PICK i : i = Integer(m)
    OBVIOUS
  <2>8. PICK obj : obj = Array(<<i, a>>)
    OBVIOUS
  <2>9. PICK V : U \subseteq V /\ Closed(V, Len(triples)) /\ obj \in V
    <3>1. i \in U /\ a \in U
      BY <2>3, <2>6, <2>7
    <3> QED BY <1>2, <2>6, <2>8, <3>1, TwoJoin DEF With
  <2>10. ThrowException("Array", obj, ostack) /\ S \subseteq V
    BY <2>1, <2>2, <2>3, <2>4, <2>6, <2>7, <2>8, <2>9
  <2> QED BY <2>9, <2>10, ThrowAllExceptionKeeps
<1> QED BY <1>13, <1>14

\* A record asks for its elements and keeps its names.
LEMMA KeepsEvalRecordSpec ==
    ASSUME MatchTakesParts, NEW S, Sound(S), EvalRecordSpec
    PROVE  IInv'
<1>1. /\ Running /\ Plain(Expr) /\ Given(Expr) = "any" /\ Expr.type = "RecordSpec"
  BY DEF EvalRecordSpec, Evaluates, Running, Plain, Given
<1>2. /\ IsObject(Expr, S, Len(triples)) /\ Closed(S, Len(triples)) /\ NIL \in S
      /\ Len(triples) \in Nat
  BY <1>1, PlainTop, TopFrame DEF Basic
<1>3. Expr.typeName \in S /\ Expr.fieldBindings \in Bindings(S)
  BY <1>1, <1>2 DEF IsObject
<1>4. CASE ThrowException("Record", Expr.typeName, ostack)
  <2>1. S \subseteq S
    OBVIOUS
  <2> QED BY <1>1, <1>2, <1>3, <1>4, <2>1, ThrowAllExceptionKeeps
<1>5. CASE Expr.typeName \in DOMAIN records /\ SpecFails # {} /\ SpecThrows
  BY <1>1, <1>5, SpecThrowsKeeps
<1>6. CASE /\ Expr.typeName \in DOMAIN records
           /\ PushExprs(<<Array(ValueAry(Len(Expr.fieldBindings))),
                       Continuation("recordSpec", records[Expr.typeName])>>)
           /\ env' = PoppedEnv /\ UNCHANGED <<session, ostack, triples, history>>
  <2>1. PICK x : x = Array(ValueAry(Len(Expr.fieldBindings)))
    OBVIOUS
  <2>2. PICK c : c = Continuation("recordSpec", records[Expr.typeName])
    OBVIOUS
  <2>3. PICK T : S \subseteq T /\ Closed(T, Len(triples)) /\ x \in T
    <3>1. Len(Expr.fieldBindings) \in 0..Len(Expr.fieldBindings)
      <4>1. Len(Expr.fieldBindings) \in Nat
        BY <1>3 DEF Bindings
      <4> QED BY <4>1
    <3>2. PICK n : n = Len(Expr.fieldBindings)
      OBVIOUS
    <3>3. ValueAry(n) \in Seq(S)
      BY <1>2, <1>3, <3>1, <3>2, ValueAryIn
    <3> QED BY <1>2, <2>1, <3>2, <3>3, ArrayJoins DEF With
  <2>4. records[Expr.typeName] \in Seq(T)
    <3>1. records[Expr.typeName] \in Seq(S)
      BY <1>6 DEF Sound, Stored
    <3> QED BY <2>3, <3>1, SeqGrows
  <2>5. /\ c.type = "Continuation" /\ IsExpr(c, T, Len(triples)) /\ Pops(c) = 1
        /\ Wanted(c) = "Array" /\ Given(Expr) \in {"any", Given(c)}
    BY <1>1, <2>2, <2>4 DEF Continuation, IsExpr, IsContinuation, Continuations, Pops, Wanted
  <2>6. Given(x) = "Array"
    BY <2>1 DEF Given, Array
  <2>7. Wanted(c) \in {"any", Given(x)}
    BY <2>5, <2>6
  <2>8. PushExprs(<<x, c>>) /\ env' = PoppedEnv /\ UNCHANGED <<session, ostack, triples, history>>
    BY <1>6, <2>1, <2>2
  <2> QED BY <1>1, <2>3, <2>5, <2>7, <2>8, AsksFirst
<1> QED BY <1>4, <1>5, <1>6 DEF EvalRecordSpec

\* The record that its continuation makes has the names kept in it.
LEMMA KeepsRecordSpecContin ==
    ASSUME NEW S, Sound(S), RecordSpecContin
    PROVE  IInv'
<1>1. /\ Running /\ Expr.type = "Continuation" /\ Expr.name = "recordSpec" /\ Pops(Expr) = 1
      /\ Given(Expr) = "any"
  BY DEF RecordSpecContin, Continues, Evaluates, Running, Pops, Given
<1>2. Pushes(Expr) = 1 /\ Arg \in Seq(S)
  BY <1>1, ContinTop DEF IsContinuation, Arg
<1>3. PICK elems : elems = Head(ostack).elems
  OBVIOUS
<1>4. elems \in Seq(S)
  BY <1>1, <1>3, TopElements
<1>5. PICK obj : obj = Record(Arg, elems)
  OBVIOUS
<1>6. Len(triples) \in Nat /\ Closed(S, Len(triples))
  BY <1>1, TopFrame
<1>7. \E T : With(S, Len(triples), T, obj)
  BY <1>2, <1>4, <1>5, <1>6, RecordJoins
<1>8. PICK k : k = 1
  OBVIOUS
<1>9. /\ k = Pops(Expr) /\ PopExpr /\ PushObj(obj, Drop(k)) /\ env' = PoppedEnv
      /\ UNCHANGED <<session, triples, history>>
  BY <1>1, <1>3, <1>5, <1>8 DEF RecordSpecContin
<1>10. Given(Expr) \in {"any", obj.type}
  BY <1>1
<1> QED BY <1>1, <1>2, <1>7, <1>9, <1>10, GivesValue

\* A conditional asks for its condition and keeps its branches.
LEMMA KeepsEvalIf ==
    ASSUME NEW S, Sound(S), EvalIf
    PROVE  IInv'
<1>1. /\ Running /\ Plain(Expr) /\ Given(Expr) = "any" /\ Expr.type = "If"
  BY DEF EvalIf, Evaluates, Running, Plain, Given
<1>2. IsObject(Expr, S, Len(triples)) /\ Closed(S, Len(triples)) /\ S \subseteq S
  BY <1>1, PlainTop, TopFrame
<1>3. Expr.cond \in S /\ Expr.conseq \in S /\ Expr.alt \in S
  BY <1>1, <1>2 DEF IsObject
<1>4. PICK c : c = Continuation("if", <<Expr.conseq, Expr.alt>>)
  OBVIOUS
<1>5. /\ c.type = "Continuation" /\ IsExpr(c, S, Len(triples)) /\ Pops(c) = 1 /\ Wanted(c) = "any"
  <2>1. c.type = "Continuation" /\ c.name = "if" /\ c.arg = <<Expr.conseq, Expr.alt>>
    BY <1>4 DEF Continuation
  <2>2. c.arg[1] = Expr.conseq /\ c.arg[2] = Expr.alt
    BY <2>1
  <2> QED BY <1>3, <2>1, <2>2 DEF IsExpr, IsContinuation, Continuations, Pops, Wanted
<1>6. /\ PushExprs(<<Expr.cond, c>>) /\ env' = PoppedEnv
      /\ UNCHANGED <<session, ostack, triples, history>>
  BY <1>4 DEF EvalIf
<1>7. Wanted(c) \in {"any", Given(Expr.cond)} /\ Given(Expr) \in {"any", Given(c)}
  BY <1>1, <1>5
<1> QED BY <1>1, <1>2, <1>3, <1>5, <1>6, <1>7, AsksFirst

\* The branch taken replaces the continuation and is a part of the conditional.
LEMMA KeepsIfContin ==
    ASSUME NEW S, Sound(S), IfContin
    PROVE  IInv'
<1>1. /\ Running /\ Expr.type = "Continuation" /\ Expr.name = "if" /\ Pops(Expr) = 1
      /\ Given(Expr) = "any"
  BY DEF IfContin, Continues, Evaluates, Running, Pops, Given
<1>2. Pushes(Expr) = 1 /\ Arg[1] \in S /\ Arg[2] \in S
  BY <1>1, ContinTop DEF IsContinuation, Arg
<1>3. PICK x : x = IF BoolValue(Head(ostack)) THEN Arg[1] ELSE Arg[2]
  OBVIOUS
<1>4. x \in S
  BY <1>2, <1>3
<1>5. /\ PoppedEnv \in 0..Len(triples) /\ ostack \in Seq(S) /\ Len(ostack) \in Nat
      /\ Pops(Expr) <= Len(ostack) /\ Closed(S, Len(triples)) /\ S \subseteq S
  BY <1>1, TopFrame
<1>6. /\ ostack' = Drop(1) /\ env' = PoppedEnv /\ triples' = triples
      /\ UNCHANGED history /\ UNCHANGED session /\ PushExprs(<<x>>)
  BY <1>3 DEF IfContin
<1>7. Grows(S, S)
  BY <1>1, <1>5, <1>6, GrowsSame
<1>8. PICK rest : rest = Tail(estack)
  OBVIOUS
<1>9. PICK e : e = PoppedEnv
  OBVIOUS
<1>10. estack' = OnTop(x, e, rest)
  <2>1. estack' = AllOnTop(<<x>>, e, rest)
    BY <1>6, <1>8, <1>9, PushesFrames
  <2> QED BY <2>1, OneFrame
<1>11. IsEnv(e, Len(triples'))
  BY <1>5, <1>6, <1>9 DEF IsEnv
<1>12. PICK os : os = Drop(1)
  OBVIOUS
<1>13. os \in Seq(S) /\ Len(os) = Len(ostack) - Pops(Expr) /\ ostack' = os
  <2>1. 1 \in 0..Len(ostack)
    BY <1>1, <1>5
  <2> QED BY <1>1, <1>5, <1>6, <1>12, <2>1, Dropped
<1>14. Moves(S)
  BY <1>1, <1>2, <1>4, <1>6, <1>7, <1>8, <1>10, <1>11, <1>13, Becomes
<1> QED BY <1>1, <1>6, <1>7, <1>14, EvalKeeps

\* A do pushes its expressions above the continuation that pops as many values.
LEMMA KeepsEvalDo ==
    ASSUME NEW S, Sound(S), EvalDo
    PROVE  IInv'
<1>1. /\ Running /\ Plain(Expr) /\ Given(Expr) = "any" /\ Expr.type = "Do"
  BY DEF EvalDo, Evaluates, Running, Plain, Given
<1>2. /\ IsObject(Expr, S, Len(triples)) /\ Closed(S, Len(triples)) /\ NIL \in S
      /\ Pops(Expr) = 0 /\ Pushes(Expr) = 1
  BY <1>1, PlainTop, TopFrame DEF Basic
<1>3. PICK xs : xs = Expr.exprs
  OBVIOUS
<1>4. xs \in Seq(S) /\ Len(xs) \in Nat
  BY <1>1, <1>2, <1>3 DEF IsObject
<1>5. CASE xs = <<>>
  <2>1. PICK obj \in S : obj = NIL
    BY <1>2
  <2>2. \E T : With(S, Len(triples), T, obj)
    BY <1>2, AlreadyIn
  <2>3. PopExpr /\ PushObj(obj, ostack) /\ env' = PoppedEnv /\ UNCHANGED <<session, triples, history>>
    BY <1>3, <1>5, <2>1 DEF EvalDo
  <2>4. Given(Expr) \in {"any", obj.type}
    BY <1>1
  <2> QED BY <1>1, <1>2, <2>2, <2>3, <2>4, GivesObject
<1>6. CASE xs # <<>>
  <2>1. Len(xs) - 1 \in Nat
    BY <1>4, <1>6
  <2>2. PICK c : c = Continuation("do", Len(xs) - 1)
    OBVIOUS
  <2>3. /\ c.type = "Continuation" /\ IsExpr(c, S, Len(triples)) /\ Pops(c) = Len(xs)
        /\ Wanted(c) = "any"
    <3>1. c.type = "Continuation" /\ c.name = "do" /\ c.arg = Len(xs) - 1
      BY <2>2 DEF Continuation
    <3>2. IsExpr(c, S, Len(triples)) /\ Wanted(c) = "any"
      BY <2>1, <3>1 DEF IsExpr, IsContinuation, Continuations, Wanted
    <3>3. Pops(c) = c.arg + 1
      BY <3>1 DEF Pops
    <3> QED BY <1>4, <3>1, <3>2, <3>3
  <2>4. /\ PushDynamic(Append(xs, c)) /\ env' = PoppedEnv
        /\ UNCHANGED <<session, ostack, triples, history>>
    BY <1>3, <1>6, <2>2 DEF EvalDo
  <2>5. Given(Expr) \in {"any", Given(c)}
    BY <1>1
  <2> QED BY <1>1, <1>4, <2>3, <2>4, <2>5, AsksMany
<1> QED BY <1>5, <1>6

\* The continuation of a do pops the values and gives the last one back.
LEMMA KeepsDoContin ==
    ASSUME NEW S, Sound(S), DoContin
    PROVE  IInv'
<1>1. /\ Running /\ Expr.type = "Continuation" /\ Expr.name = "do" /\ Pops(Expr) = Arg + 1
      /\ Given(Expr) = "any"
  BY DEF DoContin, Continues, Evaluates, Running, Pops, Given, Arg
<1>2. Pushes(Expr) = 1 /\ Arg \in Nat
  BY <1>1, ContinTop DEF IsContinuation, Arg
<1>3. /\ PoppedEnv \in 0..Len(triples) /\ ostack \in Seq(S) /\ Len(ostack) \in Nat
      /\ Pops(Expr) <= Len(ostack) /\ Closed(S, Len(triples)) /\ S \subseteq S
  BY <1>1, TopFrame
<1>4. PopExpr /\ env' = PoppedEnv /\ UNCHANGED <<session, triples, history>>
  BY DEF DoContin
<1>5. CASE Arg > 0
  <2>1. PICK obj : obj = Head(ostack)
    OBVIOUS
  <2>2. obj \in S
    BY <1>1, <1>2, <1>5, <2>1, TopOperands
  <2>3. \E T : With(S, Len(triples), T, obj)
    BY <1>3, <2>2, AlreadyIn
  <2>4. PICK k : k = 1 + Arg
    OBVIOUS
  <2>5. k = Pops(Expr) /\ PushObj(obj, Drop(k)) /\ Given(Expr) \in {"any", obj.type}
    BY <1>1, <1>2, <1>5, <2>1, <2>4 DEF DoContin
  <2> QED BY <1>1, <1>2, <1>4, <2>3, <2>5, GivesValue
<1>6. CASE ~(Arg > 0)
  <2>1. Grows(S, S)
    BY <1>1, <1>3, <1>4, GrowsSame
  <2>2. ostack' = ostack /\ UNCHANGED history /\ UNCHANGED session
    BY <1>4, <1>6 DEF DoContin
  <2>3. Len(ostack) = Len(ostack) - Pops(Expr) + Pushes(Expr)
    BY <1>1, <1>2, <1>3, <1>6
  <2>4. Given(Expr) \in {"any", TopType(ostack)}
    BY <1>1
  <2>5. Moves(S)
    BY <1>1, <1>3, <1>4, <2>1, <2>2, <2>3, <2>4, Finishes
  <2> QED BY <1>1, <2>1, <2>2, <2>5, EvalKeeps
<1> QED BY <1>5, <1>6

-----------------------------------------------------------------------------
(* let and let/in. *)

\* The right-hand sides, in the order in which they are pushed.
LEMMA RightHandSidesIn ==
    ASSUME NEW S, NEW bindings \in Bindings(S)
    PROVE  /\ RightHandSides(bindings) \in Seq(S) /\ Len(bindings) \in Nat
           /\ Len(RightHandSides(bindings)) = Len(bindings)
<1> DEFINE R == [lhs : S, rhs : S]
           xs == [i \in DOMAIN bindings |-> bindings[i].rhs]
<1>1. bindings \in Seq(R)
  BY DEF Bindings
<1>2. Len(bindings) \in Nat /\ DOMAIN bindings = 1..Len(bindings) /\ \A i \in 1..Len(bindings) : bindings[i] \in R
  <2> HIDE DEF R
  <2> QED BY <1>1, SeqElements
<1>3. xs \in [1..Len(bindings) -> S]
  BY <1>2
<1>4. xs \in Seq(S) /\ Len(xs) = Len(bindings)
  <2> HIDE DEF xs
  <2> QED BY <1>2, <1>3
<1>5. RightHandSides(bindings) = Reverse(xs)
  BY DEF RightHandSides
<1> HIDE DEF xs
<1> QED BY <1>2, <1>4, <1>5, Reversed

\* A let pushes its right-hand sides above the continuation that pops their values.
LEMMA KeepsEvalLet ==
    ASSUME NEW S, Sound(S), EvalLet
    PROVE  IInv'
<1>1. /\ Running /\ Plain(Expr) /\ Given(Expr) = "any" /\ Expr.type \in {"Let", "LetIn"}
  BY DEF EvalLet, Evaluates, Running, Plain, Given
<1>2. /\ Expr \in S /\ IsObject(Expr, S, Len(triples))
  BY <1>1, PlainTop
<1>3. Expr.bindings \in Bindings(S)
  BY <1>1, <1>2 DEF IsObject
<1>4. PICK xs : xs = RightHandSides(Expr.bindings)
  OBVIOUS
<1>5. xs \in Seq(S) /\ Len(xs) = Len(Expr.bindings)
  BY <1>3, <1>4, RightHandSidesIn
<1>6. PICK c : c = Continuation(Expr.type, Expr)
  OBVIOUS
<1>7. c.type = "Continuation" /\ c.name = Expr.type /\ c.arg = Expr
  BY <1>6 DEF Continuation
<1>8. IsExpr(c, S, Len(triples))
  BY <1>1, <1>2, <1>7 DEF IsExpr, IsContinuation, Continuations
<1>9. Pops(c) = Len(xs) /\ Wanted(c) = "any"
  BY <1>1, <1>5, <1>7 DEF Pops, Wanted
<1>10. /\ PushExprs(Append(xs, c)) /\ env' = PoppedEnv
       /\ UNCHANGED <<session, ostack, triples, history>>
  BY <1>4, <1>6 DEF EvalLet
<1>11. Given(Expr) \in {"any", Given(c)}
  BY <1>1
<1> QED BY <1>1, <1>5, <1>7, <1>8, <1>9, <1>10, <1>11, AsksMany

\* What a continuation of let or let/in holds.
LEMMA LetIs ==
    ASSUME NEW S, Sound(S), Running, Expr.type = "Continuation", Expr.name \in {"Let", "LetIn"}
    PROVE  /\ Arg \in S /\ Arg.type = Expr.name /\ Arg.bindings \in Bindings(S)
           /\ Expr.name = "LetIn" => Arg.body \in S
           /\ Pops(Expr) = Len(Arg.bindings) /\ Len(Arg.bindings) \in Nat /\ Pushes(Expr) = 1
           /\ Given(Expr) = "any"
<1>1. Arg \in S /\ Arg.type = Expr.name /\ Pushes(Expr) = 1
  BY ContinTop DEF IsContinuation, Arg
<1>2. Closed(S, Len(triples))
  BY TopFrame
<1>3. Arg.bindings \in Bindings(S) /\ (Expr.name = "LetIn" => Arg.body \in S)
  BY <1>1, <1>2 DEF Closed, IsObject
<1>4. Pops(Expr) = Len(Arg.bindings) /\ Given(Expr) = "any"
  BY DEF Pops, Arg, Given
<1>5. Len(Arg.bindings) \in Nat
  BY <1>3 DEF Bindings
<1> QED BY <1>1, <1>3, <1>4, <1>5

\* What the left-hand sides bind.
LEMMA LetBinds ==
    ASSUME MatchTakesParts, NEW S, Sound(S), Running, Expr.type = "Continuation",
           Expr.name \in {"Let", "LetIn"},
           NEW binds \in LetBindings(Arg.bindings, Len(Arg.bindings))
    PROVE  \E T : S \subseteq T /\ Closed(T, Len(triples)) /\ IsBinds(binds, T)
<1> DEFINE n == Len(Arg.bindings)
           R == [lhs : S, rhs : S]
           patterns == [i \in 1..n |-> Arg.bindings[i].lhs]
<1>1. /\ Arg.bindings \in Bindings(S) /\ Pops(Expr) = n /\ n \in Nat
  BY LetIs
<1>2. Len(triples) \in Nat /\ Closed(S, Len(triples)) /\ EMPTY_LIST \in S
  BY TopFrame DEF Basic
<1>3. patterns \in Seq(S)
  <2>1. Arg.bindings \in Seq(R)
    BY <1>1 DEF Bindings
  <2>2. \A i \in 1..n : Arg.bindings[i] \in R
    <3> HIDE DEF R
    <3> QED BY <2>1, SeqElements
  <2>3. patterns \in [1..n -> S]
    BY <2>2
  <2> HIDE DEF n, patterns
  <2> QED BY <1>1, <2>3
<1>4. Values(n) \in Seq(S)
  <2>1. n <= Pops(Expr)
    BY <1>1
  <2> HIDE DEF n
  <2> QED BY <1>1, <2>1, ValuesAre
<1>5. PICK p : p = List(patterns)
  OBVIOUS
<1>6. PICK v : v = List(Values(n))
  OBVIOUS
<1>7. binds \in Match(p, v)
  BY <1>5, <1>6 DEF LetBindings
<1> HIDE DEF patterns, n
<1>8. PICK T : S \subseteq T /\ Closed(T, Len(triples)) /\ p \in T
  BY <1>2, <1>3, <1>5, ListJoins DEF With
<1>9. Values(n) \in Seq(T) /\ EMPTY_LIST \in T
  BY <1>2, <1>4, <1>8, SeqGrows
<1>10. PICK U : T \subseteq U /\ Closed(U, Len(triples)) /\ v \in U
  BY <1>2, <1>6, <1>8, <1>9, ListJoins DEF With
<1>11. p \in U /\ S \subseteq U
  BY <1>8, <1>10
<1>12. IsBinds(binds, U)
  BY <1>2, <1>7, <1>10, <1>11, MatchTaken
<1> QED BY <1>10, <1>11, <1>12

\* A left-hand side that does not match.
LEMMA LetThrowsKeeps ==
    ASSUME MatchTakesParts, NEW S, Sound(S), Running, Expr.type = "Continuation",
           Expr.name \in {"Let", "LetIn"}, LetThrows
    PROVE  IInv'
<1>1. /\ Arg.bindings \in Bindings(S) /\ Pops(Expr) = Len(Arg.bindings)
      /\ Len(Arg.bindings) \in Nat
  BY LetIs
<1>2. PICK n \in {Min(LetFails(Arg.bindings))} :
            ThrowException(Arg.type, Array(<<Arg.bindings[n].lhs, ostack[n]>>), Drop(n))
  BY DEF LetThrows
<1> DEFINE R == [lhs : S, rhs : S]
<1>3. DOMAIN Arg.bindings = 1..Len(Arg.bindings) /\ \A i \in 1..Len(Arg.bindings) : Arg.bindings[i] \in R
  <2>1. Arg.bindings \in Seq(R)
    BY <1>1 DEF Bindings
  <2> HIDE DEF R
  <2> QED BY <2>1, SeqElements
<1>4. n \in 1..Len(Arg.bindings)
  <2>1. LetFails(Arg.bindings) \subseteq 1..Len(Arg.bindings)
    BY <1>3 DEF LetFails
  <2>2. 1..Len(Arg.bindings) \subseteq Nat
    OBVIOUS
  <2>3. LetFails(Arg.bindings) \in SUBSET Nat /\ LetFails(Arg.bindings) # {}
    BY <2>1, <2>2 DEF LetThrows
  <2>4. n \in LetFails(Arg.bindings)
    BY <1>2, <2>3, MinIs
  <2> QED BY <2>1, <2>4
<1>5. PICK a : a = Arg.bindings[n].lhs
  OBVIOUS
<1>6. PICK b : b = ostack[n]
  OBVIOUS
<1>7. a \in S /\ b \in S
  <2>1. Arg.bindings[n] \in R
    BY <1>3, <1>4
  <2>2. \A i \in 1..Pops(Expr) : ostack[i] \in S
    BY TopOperands
  <2> QED BY <1>1, <1>4, <1>5, <1>6, <2>1, <2>2
<1>8. PICK obj : obj = Array(<<a, b>>)
  OBVIOUS
<1>9. Len(triples) \in Nat /\ Closed(S, Len(triples))
  BY TopFrame
<1>10. PICK T : S \subseteq T /\ Closed(T, Len(triples)) /\ obj \in T
  BY <1>7, <1>8, <1>9, TwoJoin DEF With
<1>11. n \in 0..Pops(Expr) /\ ThrowException(Arg.type, obj, Drop(n))
  BY <1>1, <1>2, <1>4, <1>5, <1>6, <1>8
<1>12. PICK kind : kind = Arg.type
  OBVIOUS
<1> QED BY <1>10, <1>11, <1>12, ThrowExceptionKeeps

\* An expression that takes operands and leaves an object, when triples may change.
LEMMA GivesMoves ==
    ASSUME NEW S, Sound(S), Running, NEW T, Grows(S, T), NEW obj \in T, NEW k, k = Pops(Expr),
           Pushes(Expr) = 1, PopExpr, PushObj(obj, Drop(k)), Given(Expr) = "any",
           UNCHANGED history
    PROVE  Moves(T)
<1>1. /\ ostack \in Seq(S) /\ Len(ostack) \in Nat
      /\ Pops(Expr) \in Nat /\ Pops(Expr) <= Len(ostack)
  BY TopFrame
<1>2. S \subseteq T
  BY DEF Grows
<1>3. ostack \in Seq(T) /\ k \in 0..Len(ostack)
  BY <1>1, <1>2, SeqGrows
<1>4. Drop(k) \in Seq(T) /\ Len(Drop(k)) = Len(ostack) - k
  BY <1>3, Dropped
<1> DEFINE os == <<obj>> \o Drop(k)
<1>5. os \in Seq(T) /\ Len(os) = Len(ostack) - Pops(Expr) + Pushes(Expr)
  BY <1>1, <1>4, Pushed
<1>6. ostack' = os
  BY DEF PushObj
<1> HIDE DEF os
<1>7. Given(Expr) \in {"any", TopType(os)}
  OBVIOUS
<1> QED BY <1>5, <1>6, <1>7, Finishes

\* The values of a let are popped, and what is bound are parts of them; what matches no
\* left-hand side is thrown.
LEMMA KeepsLetContin ==
    ASSUME MatchTakesParts, NEW S, Sound(S), LetContin
    PROVE  IInv'
<1>1. /\ Running /\ Expr.type = "Continuation" /\ Expr.name = "Let"
      /\ Expr.name \in {"Let", "LetIn"}
  BY DEF LetContin, Continues, Evaluates, Running
<1>2. Pops(Expr) = Len(Arg.bindings) /\ Pushes(Expr) = 1 /\ Given(Expr) = "any"
  BY <1>1, LetIs
<1>3. CASE LetThrows
  BY <1>1, <1>3, LetThrowsKeeps
<1>4. ASSUME NEW binds \in LetBindings(Arg.bindings, Len(Arg.bindings)),
             triples' = Extended(PoppedEnv, binds), env' = ExtendedEnv(PoppedEnv, binds),
             PopExpr, PushObj(NIL, Drop(Len(Arg.bindings))), UNCHANGED <<session, history>>
      PROVE  IInv'
  <2>1. PICK T : S \subseteq T /\ Closed(T, Len(triples)) /\ IsBinds(binds, T)
    BY <1>1, LetBinds
  <2>2. PICK e \in 0..Len(triples) : e = PoppedEnv
    BY <1>1, TopFrame
  <2>3. Grows(S, T)
    <3>1. triples' = Extended(e, binds) /\ env' = ExtendedEnv(e, binds)
      BY <1>4, <2>2
    <3> QED BY <1>1, <2>1, <3>1, GrowsExtended
  <2>4. PICK obj : obj = NIL
    OBVIOUS
  <2>5. PICK k : k = Len(Arg.bindings)
    OBVIOUS
  <2>6. obj \in T
    <3>1. NIL \in S
      BY <1>1, TopFrame DEF Basic
    <3> QED BY <2>1, <2>4, <3>1
  <2>7. PopExpr /\ PushObj(obj, Drop(k)) /\ UNCHANGED history /\ k = Pops(Expr)
    BY <1>2, <1>4, <2>4, <2>5
  <2>8. Moves(T)
    BY <1>1, <1>2, <2>3, <2>6, <2>7, GivesMoves
  <2>9. UNCHANGED session
    BY <1>4
  <2> QED BY <1>1, <2>3, <2>8, <2>9, EvalKeeps
<1> QED BY <1>3, <1>4 DEF LetContin

\* A body with bindings of its own takes the place of the expression.
LEMMA BodyKeeps ==
    ASSUME NEW S, Sound(S), Running, Pushes(Expr) = 1, Given(Expr) = "any",
           NEW T, S \subseteq T, Closed(T, Len(triples)), NEW body \in T, NEW e \in 0..Len(triples),
           NEW binds, IsBinds(binds, T), triples' = Extended(e, binds),
           estack' = OnTop(body, ExtendedEnv(e, binds), SaveEnv(Tail(estack), PoppedEnv)),
           NEW k, k = Pops(Expr), ostack' = Drop(k), env' = PoppedEnv,
           UNCHANGED <<session, history>>
    PROVE  IInv'
<1>1. /\ PoppedEnv \in 0..Len(triples) /\ ostack \in Seq(S) /\ Len(ostack) \in Nat
      /\ Pops(Expr) \in Nat /\ Pops(Expr) <= Len(ostack) /\ Len(triples) \in Nat
  BY TopFrame
<1>2. Grows(S, T) /\ ExtendedEnv(e, binds) \in 0..Len(triples')
  BY <1>1, GrowsExtended
<1>3. PICK f : f = ExtendedEnv(e, binds)
  OBVIOUS
<1>4. IsEnv(f, Len(triples'))
  BY <1>2, <1>3 DEF IsEnv
<1>5. PICK rest : rest = SaveEnv(Tail(estack), PoppedEnv)
  OBVIOUS
<1>6. \E saved \in 0..Len(triples') : rest = SaveEnv(Tail(estack), saved)
  <2>1. Len(triples) <= Len(triples') /\ Len(triples') \in Nat
    BY <1>2 DEF Grows
  <2>2. PoppedEnv \in 0..Len(triples')
    BY <1>1, <2>1
  <2> QED BY <1>5, <2>2
<1>7. estack' = OnTop(body, f, rest)
  BY <1>3, <1>5
<1>8. PICK os : os = Drop(k)
  OBVIOUS
<1>9. os \in Seq(T) /\ Len(os) = Len(ostack) - Pops(Expr) /\ ostack' = os
  <2>1. ostack \in Seq(T) /\ k \in 0..Len(ostack)
    BY <1>1, SeqGrows
  <2> QED BY <1>8, <2>1, Dropped
<1>10. UNCHANGED history /\ UNCHANGED session
  OBVIOUS
<1>11. Moves(T)
  BY <1>2, <1>4, <1>6, <1>7, <1>9, <1>10, Becomes
<1> QED BY <1>2, <1>10, <1>11, EvalKeeps

\* The body of a let/in is pushed as a tail call is: the environment is saved once.
LEMMA KeepsLetInContin ==
    ASSUME MatchTakesParts, NEW S, Sound(S), LetInContin
    PROVE  IInv'
<1>1. /\ Running /\ Expr.type = "Continuation" /\ Expr.name = "LetIn"
      /\ Expr.name \in {"Let", "LetIn"}
  BY DEF LetInContin, Continues, Evaluates, Running
<1>2. /\ Pops(Expr) = Len(Arg.bindings) /\ Pushes(Expr) = 1 /\ Given(Expr) = "any"
      /\ Arg.body \in S
  BY <1>1, LetIs
<1>3. CASE LetThrows
  BY <1>1, <1>3, LetThrowsKeeps
<1>4. ASSUME NEW binds \in LetBindings(Arg.bindings, Len(Arg.bindings)),
             PushBody(SaveEnv(Tail(estack), PoppedEnv), Arg.body, PoppedEnv, binds),
             ostack' = Drop(Len(Arg.bindings)), env' = PoppedEnv, UNCHANGED <<session, history>>
      PROVE  IInv'
  <2>1. PICK T : S \subseteq T /\ Closed(T, Len(triples)) /\ IsBinds(binds, T)
    BY <1>1, LetBinds
  <2>2. PICK e \in 0..Len(triples) : e = PoppedEnv
    BY <1>1, TopFrame
  <2>3. PICK body \in T : body = Arg.body
    BY <1>2, <2>1
  <2>4. PICK k : k = Len(Arg.bindings)
    OBVIOUS
  <2>5. /\ triples' = Extended(e, binds)
        /\ estack' = OnTop(body, ExtendedEnv(e, binds), SaveEnv(Tail(estack), PoppedEnv))
    BY <1>4, <2>2, <2>3 DEF PushBody, OnTop
  <2>6. k = Pops(Expr) /\ ostack' = Drop(k) /\ env' = PoppedEnv /\ UNCHANGED <<session, history>>
    BY <1>2, <1>4, <2>4
  <2> QED BY <1>1, <1>2, <2>1, <2>5, <2>6, BodyKeeps
<1> QED BY <1>3, <1>4 DEF LetInContin

-----------------------------------------------------------------------------
(* letrec. *)

\* With more operands than are needed, what remains in the end is not known.
LEMMA FitsLooser ==
    ASSUME NEW es, Len(es) \in Nat, NEW k \in Nat, NEW k2 \in Nat, k <= k2, NEW low, NEW exact,
           NEW total, Fits(es, k, low, "any", exact, total), NEW exact2, ~exact2
    PROVE  Fits(es, k2, low, "any", exact2, total)
<1>1. Fits(es, k2, low, "any", FALSE, total)
  BY FitsLoose
<1>2. exact2 => FALSE
  OBVIOUS
<1> QED BY <1>1, <1>2, FitsWeaker

\* A letrec that gives count values to n identifiers is known to leave nothing else if there
\* are no fewer identifiers than values.
Same(exact2, exact, count, n) == exact2 => exact /\ count = n

\* What is left when the values of a letrec have been taken, with room for those that its
\* identifiers did not take.
LEMMA LetRecFits ==
    ASSUME NEW es, IsSeq(es), NEW k \in Nat, NEW n \in Nat, NEW count \in Nat, count <= n,
           NEW exact, NEW exact2, Same(exact2, exact, count, n), NEW total,
           NEW one, one = k + 1, Fits(es, one, k, "any", exact, total),
           NEW left, left = (k + 1) + (n - count)
    PROVE  left \in Nat /\ Fits(es, left, k, "any", exact2, total)
<1>1. left \in Nat /\ one \in Nat /\ one <= left
  OBVIOUS
<1>2. CASE exact2
  <2>1. left = one /\ (exact2 => exact)
    BY <1>2 DEF Same
  <2>2. Fits(es, one, k, "any", exact2, total)
    BY <2>1, FitsWeaker
  <2> QED BY <1>1, <2>1, <2>2
<1>3. CASE ~exact2
  <2>1. Len(es) \in Nat
    BY DEF IsSeq
  <2>2. Fits(es, left, k, "any", exact2, total)
    BY <1>1, <1>3, <2>1, FitsLooser
  <2> QED BY <1>1, <2>2
<1> QED BY <1>2, <1>3

\* The stack of expressions of a letrec fits the operands with one more.
LEMMA LetRecStack ==
    ASSUME NEW es, IsSeq(es), NEW k \in Nat, NEW count \in Nat, NEW S, \A x \in S : Plain(x),
           NEW xs \in Seq(S), count <= Len(xs),
           NEW exact, NEW exact2, Same(exact2, exact, count, Len(xs)), NEW total,
           NEW one, one = k + 1, Fits(es, one, k, "any", exact, total),
           NEW c, c.type = "Continuation", Pops(c) = count + 1, Wanted(c) = "any", NEW e
    PROVE  Fits(AllOnTop(xs, e, OnTop(c, e, es)), one, one, "any", exact2, total)
<1>1. PICK n \in Nat : n = Len(xs)
  OBVIOUS
<1>2. PICK left : left = (k + 1) + (n - count)
  OBVIOUS
<1>3. left \in Nat /\ Fits(es, left, k, "any", exact2, total)
  <2>1. count <= n /\ Same(exact2, exact, count, n)
    BY <1>1
  <2> QED BY <1>2, <2>1, LetRecFits
<1>4. PICK g : g = Given(c)
  OBVIOUS
<1>5. Fits(es, left, k, g, exact2, total)
  BY <1>3, FitsTop
<1>6. PICK high : high = one + n
  OBVIOUS
<1>7. /\ high \in Nat /\ one \in Nat /\ k <= one /\ Pops(c) \in Nat /\ Pushes(c) \in Nat
      /\ left = high - Pops(c) + Pushes(c) /\ k + Pops(c) <= high
  <2>1. Pushes(c) = 1
    BY DEF Pushes
  <2> QED BY <1>1, <1>2, <1>6, <2>1
<1>8. PICK F : es \in Seq(F)
  BY DEF IsSeq
<1>9. Fits(<<Frame(c, e)>> \o es, high, k, "any", exact2, total)
  <2>1. Wanted(c) \in {"any", "any"}
    OBVIOUS
  <2> QED BY <1>3, <1>4, <1>5, <1>7, <1>8, <2>1, FitsContin
<1>10. PICK rest : rest = OnTop(c, e, es)
  OBVIOUS
<1>11. Fits(rest, high, k, "any", exact2, total) /\ IsSeq(rest)
  BY <1>9, <1>10, OnTopIsSeq DEF OnTop
<1>12. high = one + Len(xs)
  BY <1>1, <1>6
<1>13. PICK all : all = AllOnTop(xs, e, rest)
  OBVIOUS
<1>14. Fits(all, one, k, "any", exact2, total)
  BY <1>7, <1>11, <1>12, <1>13, FitsPushMany
<1>15. Fits(all, one, one, "any", exact2, total)
  BY <1>7, <1>14, FitsLow
<1> QED BY <1>10, <1>13, <1>15

\* A letrec binds its identifiers to nil and evaluates the right-hand sides where they all are.
LEMMA KeepsEvalLetRec ==
    ASSUME NEW S, Sound(S), EvalLetRec
    PROVE  IInv'
<1>1. /\ Running /\ Plain(Expr) /\ Given(Expr) = "any" /\ Expr.type = "LetRec"
  BY DEF EvalLetRec, Evaluates, Running, Plain, Given
<1>2. /\ IsObject(Expr, S, Len(triples)) /\ Closed(S, Len(triples)) /\ NIL \in S
      /\ Pops(Expr) = 0 /\ Pushes(Expr) = 1 /\ Len(triples) \in Nat
      /\ PoppedEnv \in 0..Len(triples) /\ ostack \in Seq(S) /\ Len(ostack) \in Nat
  BY <1>1, PlainTop, TopFrame DEF Basic
<1>3. Expr.bindings \in Bindings(S)
  BY <1>1, <1>2 DEF IsObject
<1>4. PICK names : names = LetRecNames(Expr.bindings)
  OBVIOUS
<1>5. PICK count : count = Len(names)
  OBVIOUS
<1>6. IsSeq(names) /\ count \in Nat /\ count <= Len(Expr.bindings)
  BY <1>3, <1>4, <1>5, NamesCounted
<1>7. PICK binds : binds = [i \in DOMAIN names |-> [key |-> names[i], value |-> NIL]]
  OBVIOUS
<1>8. PICK c : c = Continuation("letRec", [first |-> Len(triples) + 1, count |-> count])
  OBVIOUS
<1>9. PICK xs : xs = RightHandSides(Expr.bindings)
  OBVIOUS
<1>10. /\ PushDynamic(Append(xs, c)) /\ triples' = Extended(PoppedEnv, binds)
       /\ env' = ExtendedEnv(PoppedEnv, binds)
       /\ scrambled' = (scrambled \/ names # [i \in DOMAIN Expr.bindings |->
                                                    Expr.bindings[i].lhs.name])
       /\ PushObj(NIL, ostack) /\ UNCHANGED <<session, mixed, unasked>>
  BY <1>4, <1>5, <1>7, <1>8, <1>9 DEF EvalLetRec
<1>11. xs \in Seq(S) /\ Len(xs) = Len(Expr.bindings) /\ Len(xs) \in Nat
  BY <1>3, <1>9, RightHandSidesIn
<1>12. IsBinds(binds, S)
  <2>1. PICK K : names \in Seq(K)
    BY <1>6 DEF IsSeq
  <2> DEFINE R == [key : K, value : S]
  <2>2. DOMAIN names = 1..count /\ \A i \in 1..count : names[i] \in K
    BY <1>5, <2>1, SeqElements
  <2>3. \A i \in 1..count : [key |-> names[i], value |-> NIL] \in R
    BY <1>2, <2>2
  <2>4. binds \in Seq(R)
    <3> HIDE DEF R
    <3>1. binds \in [1..count -> R]
      BY <1>7, <2>2, <2>3
    <3> QED BY <1>6, <3>1
  <2> QED BY <2>4 DEF IsBinds
<1>13. Grows(S, S)
  <2>1. S \subseteq S
    OBVIOUS
  <2> QED BY <1>1, <1>2, <1>10, <1>12, <2>1, GrowsExtended
<1>14. /\ c.type = "Continuation" /\ IsExpr(c, S, Len(triples')) /\ Pops(c) = count + 1
       /\ Wanted(c) = "any"
  <2>1. /\ c.type = "Continuation" /\ c.name = "letRec" /\ c.arg.first = Len(triples) + 1
        /\ c.arg.count = count
    BY <1>8 DEF Continuation
  <2>2. c.arg.first \in Nat /\ c.arg.count \in Nat
    BY <1>2, <1>6, <2>1
  <2> QED BY <2>1, <2>2 DEF IsExpr, IsContinuation, Continuations, Pops, Wanted
<1>15. PICK rest : rest = Tail(estack)
  OBVIOUS
<1>16. /\ Framed(rest, S, Len(triples')) /\ IsSeq(rest) /\ \A x \in S : Plain(x)
  BY <1>1, <1>13, <1>15, FramedBelow
<1>17. PICK es : es = AllOnTop(xs, Dynamic, OnTop(c, Dynamic, rest))
  OBVIOUS
<1>18. estack' = es
  <2>1. estack' = AllOnTop(Append(xs, c), Dynamic, rest)
    BY <1>10, <1>15, PushesFrames
  <2>2. IsSeq(xs)
    BY <1>11 DEF IsSeq
  <2> QED BY <1>16, <1>17, <2>1, <2>2, AppendedFrames
<1>19. Framed(es, S, Len(triples'))
  <2>1. IsEnv(Dynamic, Len(triples'))
    BY DEF IsEnv
  <2>2. IsFrame(c, Dynamic, S, Len(triples'))
    BY <1>14, <2>1 DEF IsFrame
  <2>3. PICK below : below = OnTop(c, Dynamic, rest)
    OBVIOUS
  <2>4. Framed(below, S, Len(triples'))
    BY <1>16, <2>2, <2>3, FramedOnTop
  <2> QED BY <1>11, <1>16, <1>17, <2>1, <2>3, <2>4, FramedAll
<1>20. PICK exact2 : exact2 = (~mixed' /\ ~scrambled')
  OBVIOUS
<1>21. /\ mixed' \in BOOLEAN /\ scrambled' \in BOOLEAN /\ unasked' \in Nat
       /\ mixed' = mixed /\ unasked' = unasked
  <2>1. mixed \in BOOLEAN /\ scrambled \in BOOLEAN /\ unasked \in Nat
    BY DEF Sound, Phases
  <2> QED BY <1>10, <2>1
<1>22. Same(exact2, Counted, count, Len(xs))
  <2> SUFFICES ASSUME exact2 PROVE Counted /\ count = Len(xs)
    BY DEF Same
  <2>1. ~mixed' /\ ~scrambled'
    BY <1>20
  <2>3. ~scrambled /\ names = [i \in DOMAIN Expr.bindings |-> Expr.bindings[i].lhs.name]
    BY <1>10, <2>1, Zenon
  <2>2. Counted
    BY <1>21, <2>1, <2>3 DEF Counted
  <2>4. DOMAIN names = DOMAIN Expr.bindings
    BY <2>3
  <2>5. DOMAIN names = 1..count /\ DOMAIN Expr.bindings = 1..Len(Expr.bindings)
    <3>1. PICK K : names \in Seq(K)
      BY <1>6 DEF IsSeq
    <3> QED BY <1>3, <1>5, <3>1 DEF Bindings
  <2>6. count = Len(xs)
    <3> DEFINE n == Len(Expr.bindings)
    <3>1. n \in Nat /\ n = Len(xs) /\ count \in Nat /\ count <= n /\ 1..count = 1..n
      BY <1>6, <1>11, <2>4, <2>5
    <3> HIDE DEF n
    <3>2. n >= 1 => n \in 1..n
      BY <3>1
    <3> QED BY <3>1, <3>2
  <2> QED BY <2>2, <2>6
<1>23. PICK k : k = Len(ostack)
  OBVIOUS
<1>24. PICK one : one = k + 1
  OBVIOUS
<1>25. k \in Nat /\ Fits(rest, one, k, "any", Counted, 1 + unasked)
  <2>1. k = Len(ostack) - Pops(Expr)
    BY <1>2, <1>23
  <2>2. k \in Nat /\ Fits(Tail(estack), k + 1, k, Given(Expr), Counted, 1 + unasked)
    BY <1>1, <1>2, <2>1, RestNeeds
  <2> QED BY <1>1, <1>15, <1>24, <2>2
<1>26. Fits(es, one, one, "any", exact2, 1 + unasked)
  <2>1. count <= Len(xs)
    BY <1>6, <1>11
  <2> QED BY <1>6, <1>11, <1>14, <1>16, <1>17, <1>22, <1>24, <1>25, <2>1, LetRecStack
<1>27. PICK os : os = <<NIL>> \o ostack
  OBVIOUS
<1>28. ostack' = os /\ os \in Seq(S) /\ Len(os) = one
  <2>1. os \in Seq(S) /\ Len(os) = Len(ostack) + 1
    BY <1>2, <1>27, Pushed
  <2> QED BY <1>10, <1>23, <1>24, <1>27, <2>1 DEF PushObj
<1>29. Fits(es, one, one, TopType(os), exact2, 1 + unasked)
  BY <1>26, FitsTop
<1>30. Moves(S)
  BY <1>18, <1>19, <1>20, <1>21, <1>28, <1>29 DEF Moves
<1>31. UNCHANGED session
  BY <1>10
<1> QED BY <1>1, <1>13, <1>30, <1>31, EvalKeeps

\* The operands replace the nils of the letrec's identifiers in place; the nil below them is its
\* value.
LEMMA KeepsLetRecContin ==
    ASSUME NEW S, Sound(S), LetRecContin
    PROVE  IInv'
<1>1. /\ Running /\ Expr.type = "Continuation" /\ Expr.name = "letRec"
      /\ Pops(Expr) = Arg.count + 1 /\ Given(Expr) = "any"
  BY DEF LetRecContin, Continues, Evaluates, Running, Pops, Given, Arg
<1>2. Pushes(Expr) = 1 /\ Arg.first \in Nat /\ Arg.count \in Nat
  BY <1>1, ContinTop DEF IsContinuation, Arg
<1>3. /\ PoppedEnv \in 0..Len(triples) /\ ostack \in Seq(S) /\ Len(ostack) \in Nat
      /\ Pops(Expr) <= Len(ostack) /\ Closed(S, Len(triples)) /\ S \subseteq S
      /\ Chained(triples, S)
  BY <1>1, TopFrame
<1>4. triples' = [t \in DOMAIN triples |->
                    IF t \in Arg.first..(Arg.first + Arg.count - 1)
                    THEN [triples[t] EXCEPT !.value = ostack[t - Arg.first + 1]]
                    ELSE triples[t]]
  BY DEF LetRecContin
<1>5. Puts(triples', triples, S)
  <2>1. ASSUME NEW t \in DOMAIN triples
        PROVE  \/ triples'[t] = triples[t]
               \/ \E v \in S : triples'[t] = [triples[t] EXCEPT !.value = v]
    <3>1. CASE t \in Arg.first..(Arg.first + Arg.count - 1)
      <4>1. PICK v : v = ostack[t - Arg.first + 1]
        OBVIOUS
      <4>2. t - Arg.first + 1 \in 1..Pops(Expr)
        BY <1>1, <1>2, <3>1
      <4>3. v \in S
        BY <1>1, <4>1, <4>2, TopOperands
      <4>4. triples'[t] = [triples[t] EXCEPT !.value = v]
        BY <1>4, <3>1, <4>1
      <4> QED BY <4>3, <4>4
    <3>2. CASE t \notin Arg.first..(Arg.first + Arg.count - 1)
      BY <1>4, <3>2
    <3> QED BY <3>1, <3>2
  <2>2. DOMAIN triples' = DOMAIN triples /\ triples' = [t \in DOMAIN triples |-> triples'[t]]
    BY <1>4
  <2> QED BY <2>1, <2>2 DEF Puts
<1>6. PopExpr /\ ostack' = Drop(Arg.count) /\ env' = PoppedEnv /\ UNCHANGED history /\ UNCHANGED session
  BY DEF LetRecContin
<1>7. Grows(S, S)
  BY <1>1, <1>3, <1>5, <1>6, GrowsChanged
<1>8. PICK k : k = Arg.count
  OBVIOUS
<1>9. PICK os : os = Drop(k)
  OBVIOUS
<1>10. os \in Seq(S) /\ Len(os) = Len(ostack) - k /\ ostack' = os
  <2>1. k \in 0..Len(ostack)
    BY <1>1, <1>2, <1>3, <1>8
  <2> QED BY <1>3, <1>6, <1>8, <1>9, <2>1, Dropped
<1>11. Len(os) = Len(ostack) - Pops(Expr) + Pushes(Expr)
  BY <1>1, <1>2, <1>3, <1>8, <1>10
<1>12. Given(Expr) \in {"any", TopType(os)}
  BY <1>1
<1>13. Moves(S)
  BY <1>1, <1>6, <1>7, <1>10, <1>11, <1>12, Finishes
<1> QED BY <1>1, <1>6, <1>7, <1>13, EvalKeeps

\* An application asks for the function and keeps the arguments in the continuation.
LEMMA KeepsEvalApply ==
    ASSUME NEW S, Sound(S), EvalApply
    PROVE  IInv'
<1>1. /\ Running /\ Plain(Expr) /\ Given(Expr) = "any" /\ Expr.type \in {"Apply", "BinOp"}
  BY DEF EvalApply, Evaluates, Running, Plain, Given
<1>2. IsObject(Expr, S, Len(triples)) /\ Closed(S, Len(triples)) /\ S \subseteq S
  BY <1>1, PlainTop, TopFrame
<1>3. Expr.abstr \in S /\ Expr.args \in S /\ Expr.args.type = "List"
  BY <1>1, <1>2 DEF IsObject
<1>4. PICK c : c = Continuation("apply", Expr.args)
  OBVIOUS
<1>5. /\ c.type = "Continuation" /\ IsExpr(c, S, Len(triples)) /\ Pops(c) = 1 /\ Wanted(c) = "any"
  BY <1>3, <1>4 DEF Continuation, IsExpr, IsContinuation, Continuations, Pops, Wanted
<1>6. /\ PushExprs(<<Expr.abstr, c>>) /\ env' = PoppedEnv
      /\ UNCHANGED <<session, ostack, triples, history>>
  BY <1>4 DEF EvalApply
<1>7. Wanted(c) \in {"any", Given(Expr.abstr)} /\ Given(Expr) \in {"any", Given(c)}
  BY <1>1, <1>5
<1> QED BY <1>1, <1>2, <1>3, <1>5, <1>6, <1>7, AsksFirst

\* A continuation that takes one operand and asks for one expression.
LEMMA AsksNext ==
    ASSUME NEW S, Sound(S), Running, Expr.type = "Continuation", Pops(Expr) = 1,
           Given(Expr) = "any", NEW x \in S,
           NEW c, c.type = "Continuation", IsContinuation(c, S, Len(triples)), Pops(c) = 1,
           Wanted(c) \in {"any", Given(x)}, PushExprs(<<x, c>>), env' = PoppedEnv,
           ostack' = Drop(1), UNCHANGED <<session, triples, history>>
    PROVE  IInv'
<1>1. PICK k : k = 1
  OBVIOUS
<1>2. k = Pops(Expr) /\ ostack' = Drop(k) /\ Pushes(Expr) = 1
  BY <1>1, ContinTop
<1>3. Closed(S, Len(triples)) /\ S \subseteq S
  BY TopFrame
<1>4. IsExpr(c, S, Len(triples)) /\ Given(Expr) \in {"any", Given(c)}
  BY DEF IsExpr
<1> QED BY <1>2, <1>3, <1>4, AsksOne

\* A macro is applied.
LEMMA MacroKeeps ==
    ASSUME NEW S, Sound(S), Running, Expr.type = "Continuation", Expr.name = "apply", NEW name,
           ApplyMacro(name), env' = PoppedEnv, ostack' = Drop(1),
           UNCHANGED <<session, triples, history>>
    PROVE  IInv'
<1>1. Pops(Expr) = 1 /\ Given(Expr) = "any"
  BY DEF Pops, Given
<1>2. Arg \in S /\ Arg.type = "List"
  BY ContinTop DEF IsContinuation, Arg
<1>3. Closed(S, Len(triples)) /\ EMPTY_LIST \in S
  BY TopFrame DEF Basic
<1>4. PICK list : list = Arg
  OBVIOUS
<1>5. First(list) \in S /\ First(Rest(list)) \in S
  <2>1. PICK place \in Int : place = 1
    OBVIOUS
  <2>2. ListGetNth(list, place) # {} /\ place >= 1
    BY <1>4, <2>1 DEF ApplyMacro
  <2>3. ~IsEmpty(list) /\ Rest(list).type = "List" /\ ~IsEmpty(Rest(list))
    BY <1>2, <1>3, <1>4, <2>2, NthIn
  <2>4. First(list) \in S /\ Rest(list) \in S
    BY <1>2, <1>3, <1>4, <2>3, ListParts
  <2> QED BY <1>3, <2>3, <2>4, ListParts
<1>6. PICK lhs \in S : lhs = First(list)
  BY <1>5
<1>7. PICK rhs \in S : rhs = First(Rest(list))
  BY <1>5
<1>8. CASE name = ":"
  <2>1. PICK c : c = Continuation("colon", rhs)
    OBVIOUS
  <2>2. /\ c.type = "Continuation" /\ IsContinuation(c, S, Len(triples)) /\ Pops(c) = 1
        /\ Wanted(c) = "any"
    BY <2>1 DEF Continuation, IsContinuation, Continuations, Pops, Wanted
  <2>3. PushExprs(<<lhs, c>>)
    BY <1>4, <1>6, <1>7, <1>8, <2>1 DEF ApplyMacro
  <2>4. Wanted(c) \in {"any", Given(lhs)}
    BY <2>2
  <2> QED BY <1>1, <2>2, <2>3, <2>4, AsksNext
<1>9. CASE name # ":"
  <2>1. PICK c : c = Continuation("reassign", lhs)
    OBVIOUS
  <2>2. /\ c.type = "Continuation" /\ IsContinuation(c, S, Len(triples)) /\ Pops(c) = 1
        /\ Wanted(c) = "any"
    BY <2>1 DEF Continuation, IsContinuation, Continuations, Pops, Wanted
  <2>3. PushExprs(<<rhs, c>>)
    BY <1>4, <1>6, <1>7, <1>9, <2>1 DEF ApplyMacro
  <2>4. Wanted(c) \in {"any", Given(rhs)}
    BY <2>2
  <2> QED BY <1>1, <2>2, <2>3, <2>4, AsksNext
<1> QED BY <1>8, <1>9

\* A function asks for its arguments, a macro for one of them as it is; any other object is thrown.
LEMMA KeepsApplyContin ==
    ASSUME MatchTakesParts, NEW S, Sound(S), ApplyContin
    PROVE  IInv'
<1>1. /\ Running /\ Expr.type = "Continuation" /\ Expr.name = "apply" /\ Pops(Expr) = 1
      /\ Given(Expr) = "any"
  BY DEF ApplyContin, Continues, Evaluates, Running, Pops, Given
<1>2. Arg \in S /\ Arg.type = "List"
  BY <1>1, ContinTop DEF IsContinuation, Arg
<1>3. Closed(S, Len(triples)) /\ S \subseteq S
  BY <1>1, TopFrame
<1>4. PICK abstr : abstr = Head(ostack)
  OBVIOUS
<1>5. abstr \in S
  BY <1>1, <1>4, TopOperands
<1>6. Given(Arg) = "List"
  BY <1>2 DEF Given
<1>7. ASSUME abstr.type = "Closure", PushExprs(<<Arg, Continuation("closureApplyArgs", abstr)>>),
             ostack' = Drop(1), env' = PoppedEnv, UNCHANGED <<session, triples, history>>
      PROVE  IInv'
  <2>1. PICK c : c = Continuation("closureApplyArgs", abstr)
    OBVIOUS
  <2>2. /\ c.type = "Continuation" /\ IsContinuation(c, S, Len(triples)) /\ Pops(c) = 1
        /\ Wanted(c) \in {"any", Given(Arg)}
    BY <1>5, <1>7, <2>1 DEF Continuation, IsContinuation, Continuations, Pops, Wanted
  <2>3. PushExprs(<<Arg, c>>)
    BY <1>7, <2>1
  <2> QED BY <1>1, <1>2, <1>7, <2>2, <2>3, AsksNext
<1>8. ASSUME abstr.type = "Primitive", ~abstr.isMacro,
             PushExprs(<<Arg, Continuation("primitiveApplyArgs", abstr)>>),
             ostack' = Drop(1), env' = PoppedEnv, UNCHANGED <<session, triples, history>>
      PROVE  IInv'
  <2>1. PICK c : c = Continuation("primitiveApplyArgs", abstr)
    OBVIOUS
  <2>2. /\ c.type = "Continuation" /\ IsContinuation(c, S, Len(triples)) /\ Pops(c) = 1
        /\ Wanted(c) \in {"any", Given(Arg)}
    BY <1>5, <1>6, <1>8, <2>1 DEF Continuation, IsContinuation, Continuations, Pops, Wanted
  <2>3. PushExprs(<<Arg, c>>)
    BY <1>8, <2>1
  <2> QED BY <1>1, <1>2, <1>8, <2>2, <2>3, AsksNext
<1>9. ASSUME ApplyMacro(abstr.name),
             ostack' = Drop(1), env' = PoppedEnv, UNCHANGED <<session, triples, history>>
      PROVE  IInv'
  BY <1>1, <1>9, MacroKeeps
<1>10. ASSUME ThrowException("Apply", abstr, Drop(1))
       PROVE  IInv'
  <2>1. PICK k : k = 1
    OBVIOUS
  <2>2. k \in 0..Pops(Expr) /\ ThrowException("Apply", abstr, Drop(k))
    BY <1>1, <1>10, <2>1
  <2> QED BY <1>1, <1>3, <1>5, <2>2, ThrowExceptionKeeps
<1> QED BY <1>4, <1>7, <1>8, <1>9, <1>10 DEF ApplyContin

\* The rule that matches binds its parameters to parts of the arguments, and its body replaces
\* the continuation: a tail call pushes no frame but the saved environment, once.
LEMMA KeepsClosureApplyArgsContin ==
    ASSUME MatchTakesParts, NEW S, Sound(S), ClosureApplyArgsContin
    PROVE  IInv'
<1>1. /\ Running /\ Expr.type = "Continuation" /\ Expr.name = "closureApplyArgs"
      /\ Pops(Expr) = 1 /\ Given(Expr) = "any"
  BY DEF ClosureApplyArgsContin, Continues, Evaluates, Running, Pops, Given
<1>2. Pushes(Expr) = 1 /\ Arg \in S /\ Arg.type = "Closure"
  BY <1>1, ContinTop DEF IsContinuation, Arg
<1>3. Closed(S, Len(triples)) /\ S \subseteq S /\ Len(triples) \in Nat
  BY <1>1, TopFrame
<1>4. PICK rules : rules = Arg.rules
  OBVIOUS
<1>5. PICK e : e = Arg.env
  OBVIOUS
<1>6. rules \in Rules(S) /\ e \in 0..Len(triples)
  BY <1>2, <1>3, <1>4, <1>5 DEF Closed, IsObject
<1>7. PICK args : args = Head(ostack)
  OBVIOUS
<1>8. args \in S
  BY <1>1, <1>7, TopOperands
<1>9. PICK k : k = 1
  OBVIOUS
<1>10. k = Pops(Expr) /\ k \in 0..Pops(Expr)
  BY <1>1, <1>9
<1>11. CASE Matching(rules, args) = {}
  <2>1. PICK obj : obj = Array(<<Arg, args>>)
    OBVIOUS
  <2>2. PICK a : a = Arg
    OBVIOUS
  <2>3. PICK T : S \subseteq T /\ Closed(T, Len(triples)) /\ obj \in T
    BY <1>2, <1>3, <1>8, <2>1, <2>2, TwoJoin DEF With
  <2>4. ThrowException("Closure", obj, Drop(k))
    BY <1>4, <1>7, <1>9, <1>11, <2>1 DEF ClosureApplyArgsContin
  <2> QED BY <1>1, <1>10, <2>3, <2>4, ThrowExceptionKeeps
<1>12. CASE Matching(rules, args) # {}
  <2>1. PICK stack : stack = SaveEnv(Tail(estack), PoppedEnv)
    OBVIOUS
  <2>2. /\ PushRule(stack, rules, args, e) /\ ostack' = Drop(k) /\ env' = PoppedEnv
        /\ UNCHANGED <<session, history>>
    BY <1>4, <1>5, <1>7, <1>9, <1>12, <2>1 DEF ClosureApplyArgsContin
  <2>3. PICK body, binds :
            /\ body \in S /\ IsBinds(binds, S) /\ triples' = Extended(e, binds)
            /\ estack' = OnTop(body, ExtendedEnv(e, binds), stack)
    BY <1>3, <1>6, <1>8, <2>2, RuleTaken
  <2>4. estack' = OnTop(body, ExtendedEnv(e, binds), SaveEnv(Tail(estack), PoppedEnv))
    BY <2>1, <2>3
  <2> QED BY <1>1, <1>2, <1>3, <1>6, <1>10, <2>2, <2>3, <2>4, BodyKeeps
<1> QED BY <1>11, <1>12

-----------------------------------------------------------------------------
(* Primitives. *)

\* A subscription stores an operand in the session's table of subscribers.
LEMMA SubscribeKeeps ==
    ASSUME NEW S, Sound(S), Running, Expr.type = "Continuation", Pops(Expr) = 1,
           Given(Expr) = "any", NEW pattern \in S, NEW subscriber \in S,
           Subscribe(pattern, subscriber)
    PROVE  IInv'
<1>1. PICK obj : obj = NIL
  OBVIOUS
<1>2. PICK k : k = 1
  OBVIOUS
<1>3. obj \in S /\ Pushes(Expr) = 1
  BY <1>1, TopFrame, ContinTop DEF Basic
<1>4. /\ k = Pops(Expr) /\ PopExpr /\ PushObj(obj, Drop(k)) /\ env' = PoppedEnv
      /\ UNCHANGED <<triples, history>> /\ UNCHANGED input /\ UNCHANGED records
  BY <1>1, <1>2 DEF Subscribe
<1>5. Grows(S, S) /\ Moves(S)
  BY <1>3, <1>4, ValueMoves
<1>6. \A key \in DOMAIN records' : records'[key] \in Seq(S)
  BY <1>4 DEF Sound, Stored
<1>7. \A key \in DOMAIN subscribers' : subscribers'[key] \in Seq(S)
  <2>1. \A key \in DOMAIN subscribers : subscribers[key] \in Seq(S)
    BY DEF Sound, Stored
  <2>2. SubscribersTo(pattern) \in Seq(S)
    BY <2>1 DEF SubscribersTo
  <2>3. PICK new : new = Append(SubscribersTo(pattern), subscriber)
    OBVIOUS
  <2>4. new \in Seq(S)
    BY <2>2, <2>3
  <2>5. subscribers' = Put(subscribers, pattern, new)
    BY <2>3 DEF Subscribe
  <2> QED BY <2>1, <2>4, <2>5 DEF Put
<1> QED BY <1>4, <1>5, <1>6, <1>7, StepKeeps

\* Calls of subscribers on top of what remains to be done, each of which leaves a result.
LEMMA PublishedFits ==
    ASSUME NEW es, IsSeq(es), NEW S, \A x \in S : Plain(x), NEW xs \in Seq(S), NEW e,
           NEW low \in Nat, NEW k, k = low + 1, NEW exact, NEW total \in Nat,
           Fits(es, k, low, "any", exact, total), NEW more, more = total + Len(xs)
    PROVE  Fits(AllOnTop(xs, e, es), k, k, "any", exact, more)
<1>1. PICK r \in Nat : r = Len(xs)
  OBVIOUS
<1>2. PICK l : l = k + r
  OBVIOUS
<1>3. k \in Nat /\ l \in Nat /\ low <= k /\ k <= k /\ l = k + Len(xs)
  BY <1>1, <1>2
<1>4. Fits(es, l, k, "any", exact, more)
  <2>1. CASE r = 0
    <3>1. Fits(es, k, k, "any", exact, total)
      BY <1>3, FitsLow
    <3>2. l = k /\ more = total
      BY <1>1, <1>2, <1>3, <2>1
    <3> QED BY <3>1, <3>2
  <2>2. CASE r # 0
    <3>1. r \in Nat \ {0} /\ Len(es) \in Nat
      BY <2>2 DEF IsSeq
    <3>2. Fits(es, k + r, low + 1, "any", exact, total + r)
      BY <1>3, <3>1, FitsMore
    <3> QED BY <1>1, <1>2, <3>2
  <2> QED BY <2>1, <2>2
<1> QED BY <1>3, <1>4, FitsPushMany

\* The applications of an event's handlers are pushed, and their values, which nobody asks for,
\* are counted.
LEMMA PublishKeeps ==
    ASSUME NEW S, Sound(S), Running, Expr.type = "Continuation", Pops(Expr) = 1,
           Given(Expr) = "any", NEW message \in S, Publish(message)
    PROVE  IInv'
<1>1. /\ PoppedEnv \in 0..Len(triples) /\ ostack \in Seq(S) /\ Len(ostack) \in Nat
      /\ 1 <= Len(ostack) /\ Closed(S, Len(triples)) /\ Len(triples) \in Nat
      /\ EMPTY_LIST \in S /\ NIL \in S
  BY TopFrame DEF Basic
<1>2. PICK handlers \in {subscribers[pattern] : pattern \in Published(message)}
                       \union (IF Published(message) = {} THEN {<<>>} ELSE {}) :
          /\ PushExprs(Reverse([i \in DOMAIN handlers |-> Apply(handlers[i], <<message>>)]))
          /\ unasked' = unasked + Len(handlers)
  BY DEF Publish
<1>3. handlers \in Seq(S)
  <2>1. \A key \in DOMAIN subscribers : subscribers[key] \in Seq(S)
    BY DEF Sound, Stored
  <2>2. Published(message) \subseteq DOMAIN subscribers
    BY DEF Published
  <2>3. <<>> \in Seq(S)
    OBVIOUS
  <2> QED BY <1>2, <2>1, <2>2, <2>3
<1>4. PICK T : /\ S \subseteq T /\ Closed(T, Len(triples))
               /\ \A abstr \in S : Apply(abstr, <<message>>) \in T
  BY <1>1, ApplyJoins
<1>5. PICK calls : calls = [i \in DOMAIN handlers |-> Apply(handlers[i], <<message>>)]
  OBVIOUS
<1>6. calls \in Seq(T) /\ Len(calls) = Len(handlers) /\ Len(handlers) \in Nat
  <2>1. DOMAIN handlers = 1..Len(handlers) /\ Len(handlers) \in Nat /\ \A i \in 1..Len(handlers) : handlers[i] \in S
    BY <1>3
  <2>2. calls \in [1..Len(handlers) -> T]
    BY <1>4, <1>5, <2>1
  <2> QED BY <2>1, <2>2
<1>7. PICK xs : xs = Reverse(calls)
  OBVIOUS
<1>8. xs \in Seq(T) /\ Len(xs) = Len(handlers)
  BY <1>6, <1>7, Reversed
<1>9. /\ env' = PoppedEnv /\ triples' = triples /\ UNCHANGED session
      /\ mixed' = mixed /\ scrambled' = scrambled /\ ostack' = <<NIL>> \o Drop(1)
  BY DEF Publish, PushObj
<1>10. Grows(S, T)
  BY <1>1, <1>4, <1>9, GrowsSame
<1>11. PICK rest : rest = Tail(estack)
  OBVIOUS
<1>12. PICK e : e = PoppedEnv
  OBVIOUS
<1>13. PICK es : es = AllOnTop(xs, e, rest)
  OBVIOUS
<1>14. estack' = es
  BY <1>2, <1>5, <1>7, <1>11, <1>12, <1>13, PushesFrames
<1>15. /\ Framed(rest, T, Len(triples')) /\ IsSeq(rest) /\ \A x \in T : Plain(x)
  BY <1>10, <1>11, FramedBelow
<1>16. Framed(es, T, Len(triples'))
  <2>1. IsEnv(e, Len(triples'))
    BY <1>1, <1>9, <1>12 DEF IsEnv
  <2> QED BY <1>8, <1>13, <1>15, <2>1, FramedAll
<1>17. PICK k : k = Len(ostack)
  OBVIOUS
<1>18. PICK low : low = k - 1
  OBVIOUS
<1>19. low \in Nat /\ k = low + 1 /\ Fits(rest, k, low, "any", Counted, 1 + unasked)
  <2>1. low = Len(ostack) - Pops(Expr) /\ low + 1 = k
    BY <1>1, <1>17, <1>18
  <2>2. Pushes(Expr) = 1
    BY ContinTop
  <2>3. low \in Nat /\ Fits(Tail(estack), low + 1, low, Given(Expr), Counted, 1 + unasked)
    BY <2>1, <2>2, RestNeeds
  <2> QED BY <1>11, <2>1, <2>3
<1>20. PICK total : total = 1 + unasked
  OBVIOUS
<1>21. PICK more : more = total + Len(xs)
  OBVIOUS
<1>22. PICK exact : exact = Counted
  OBVIOUS
<1>23. mixed \in BOOLEAN /\ scrambled \in BOOLEAN /\ unasked \in Nat
  BY DEF Sound, Phases
<1>24. Fits(es, k, k, "any", exact, more)
  <2>1. total \in Nat /\ Fits(rest, k, low, "any", exact, total)
    BY <1>19, <1>20, <1>22, <1>23
  <2> QED BY <1>8, <1>13, <1>15, <1>19, <1>21, <2>1, PublishedFits
<1>25. PICK os : os = <<NIL>> \o Drop(1)
  OBVIOUS
<1>26. ostack' = os /\ os \in Seq(T) /\ Len(os) = k
  <2>1. 1 \in 0..Len(ostack) /\ ostack \in Seq(T) /\ NIL \in T
    BY <1>1, <1>4, SeqGrows
  <2>2. Drop(1) \in Seq(T) /\ Len(Drop(1)) = Len(ostack) - 1
    BY <2>1, Dropped
  <2>3. PICK below : below = Drop(1)
    OBVIOUS
  <2>4. <<NIL>> \o below \in Seq(T) /\ Len(<<NIL>> \o below) = Len(below) + 1
    BY <2>1, <2>2, <2>3, Pushed
  <2> QED BY <1>1, <1>9, <1>17, <1>25, <2>2, <2>3, <2>4
<1>27. Fits(es, k, k, TopType(os), exact, more)
  BY <1>24, FitsTop
<1>28. /\ mixed' \in BOOLEAN /\ scrambled' \in BOOLEAN /\ unasked' \in Nat /\ more = 1 + unasked'
  BY <1>2, <1>6, <1>8, <1>9, <1>20, <1>21, <1>23
<1>29. PICK exact2 : exact2 = (~mixed' /\ ~scrambled')
  OBVIOUS
<1>30. exact2 => exact
  BY <1>9, <1>22, <1>29 DEF Counted
<1>31. Fits(es, k, k, TopType(os), exact2, more)
  BY <1>27, <1>30, FitsWeaker
<1>32. Moves(T)
  BY <1>14, <1>16, <1>26, <1>28, <1>29, <1>31 DEF Moves
<1> QED BY <1>9, <1>10, <1>32, EvalKeeps

\* A primitive throws, subscribes or publishes with its operands.
LEMMA KeepsPrimitiveApplyArgsContin ==
    ASSUME MatchTakesParts, NEW S, Sound(S), PrimitiveApplyArgsContin
    PROVE  IInv'
<1>1. /\ Running /\ Expr.type = "Continuation" /\ Expr.name = "primitiveApplyArgs"
      /\ Pops(Expr) = 1 /\ Given(Expr) = "any" /\ Wanted(Expr) = "List"
  BY DEF PrimitiveApplyArgsContin, Continues, Evaluates, Running, Pops, Given, Wanted
<1>2. Arg \in S /\ Arg.type = "Primitive" /\ ~Arg.isMacro
  BY <1>1, ContinTop DEF IsContinuation, Arg
<1>3. /\ Closed(S, Len(triples)) /\ Len(triples) \in Nat /\ Text \in S /\ EMPTY_LIST \in S
      /\ TopType(ostack) = "List"
  BY <1>1, TopFrame DEF Basic
<1>4. Arg.name \in {"throw", "publish", "subscribe"}
  BY <1>2, <1>3 DEF Closed, IsObject
<1>5. PICK args : args = Head(ostack)
  OBVIOUS
<1>6. args \in S /\ args.type = "List"
  BY <1>1, <1>3, <1>5, TopOperands
<1>7. /\ ArgCount(args) \in Nat
      /\ ArgCount(args) >= 1 => First(args) \in S
      /\ ArgCount(args) >= 2 => First(Rest(args)) \in S
  BY <1>3, <1>6, ArgsCounted
<1>8. PICK k : k = 1
  OBVIOUS
<1>9. k \in 0..Pops(Expr)
  BY <1>1, <1>8
<1>10. CASE ArgCount(args) # ParamCount(Arg)
  <2>1. PICK obj : obj = WrongArgs(Arg, args)
    OBVIOUS
  <2>2. PICK prim : prim = Arg
    OBVIOUS
  <2>3. \E T : With(S, Len(triples), T, obj)
    BY <1>3, <1>6, <2>1, <2>2, WrongArgsJoins
  <2>4. ThrowObj(obj, Drop(k))
    BY <1>5, <1>8, <1>10, <2>1 DEF PrimitiveApplyArgsContin
  <2> QED BY <1>1, <1>9, <2>3, <2>4, ThrowKeeps
<1>11. CASE ArgCount(args) = ParamCount(Arg)
  <2>1. CASE Arg.name = "throw"
    <3>1. First(args) \in S
      BY <1>7, <1>11, <2>1 DEF ParamCount
    <3>2. PICK obj \in S : obj = First(args)
      BY <3>1
    <3>3. \E T : With(S, Len(triples), T, obj)
      BY <1>3, AlreadyIn
    <3>4. ThrowObj(obj, Drop(k))
      BY <1>5, <1>8, <1>11, <2>1, <3>2 DEF PrimitiveApplyArgsContin
    <3> QED BY <1>1, <1>9, <3>3, <3>4, ThrowKeeps
  <2>2. CASE Arg.name = "publish"
    <3>1. First(args) \in S
      BY <1>7, <1>11, <2>2 DEF ParamCount
    <3>2. Publish(First(args))
      BY <1>5, <1>11, <2>2 DEF PrimitiveApplyArgsContin
    <3> QED BY <1>1, <3>1, <3>2, PublishKeeps
  <2>3. CASE Arg.name = "subscribe"
    <3>1. First(args) \in S /\ First(Rest(args)) \in S
      BY <1>7, <1>11, <2>3 DEF ParamCount
    <3>2. Subscribe(First(args), First(Rest(args)))
      BY <1>5, <1>11, <2>3 DEF PrimitiveApplyArgsContin
    <3> QED BY <1>1, <3>1, <3>2, SubscribeKeeps
  <2> QED BY <1>4, <2>1, <2>2, <2>3
<1> QED BY <1>10, <1>11

\* An access through a colon finds a part of the object or throws.
LEMMA KeepsColonContin ==
    ASSUME MatchTakesParts, NEW S, Sound(S), ColonContin
    PROVE  IInv'
<1>1. /\ Running /\ Expr.type = "Continuation" /\ Expr.name = "colon" /\ Pops(Expr) = 1
      /\ Given(Expr) = "any"
  BY DEF ColonContin, Continues, Evaluates, Running, Pops, Given
<1>2. Pushes(Expr) = 1 /\ Arg \in S
  BY <1>1, ContinTop DEF IsContinuation, Arg
<1>3. Closed(S, Len(triples)) /\ Len(triples) \in Nat
  BY <1>1, TopFrame
<1>4. PICK obj : obj = Head(ostack)
  OBVIOUS
<1>5. obj \in S
  BY <1>1, <1>4, TopOperands
<1>6. PICK key \in S : key = Arg
  BY <1>2
<1>7. PICK k : k = 1
  OBVIOUS
<1>8. k = Pops(Expr) /\ k \in 0..Pops(Expr)
  BY <1>1, <1>7
<1>9. ASSUME ThrowException("ColonOperator", Array(<<Symbol(obj.type), obj>>), Drop(k))
      PROVE  IInv'
  <2>1. PICK name : name = Symbol(obj.type)
    OBVIOUS
  <2>2. PICK T : S \subseteq T /\ Closed(T, Len(triples)) /\ name \in T
    BY <1>3, <2>1, SymbolJoins DEF With
  <2>3. PICK pair : pair = Array(<<name, obj>>)
    OBVIOUS
  <2>4. PICK U : T \subseteq U /\ Closed(U, Len(triples)) /\ pair \in U
    BY <1>3, <1>5, <2>2, <2>3, TwoJoin DEF With
  <2>5. S \subseteq U
    BY <2>2, <2>4
  <2>6. ThrowException("ColonOperator", pair, Drop(k))
    BY <1>9, <2>1, <2>3
  <2> QED BY <1>1, <1>8, <2>4, <2>5, <2>6, ThrowExceptionKeeps
<1>10. ASSUME ThrowException(obj.type, Array(<<key, obj>>), Drop(k))
       PROVE  IInv'
  <2>1. PICK pair : pair = Array(<<key, obj>>)
    OBVIOUS
  <2>2. PICK T : S \subseteq T /\ Closed(T, Len(triples)) /\ pair \in T
    BY <1>3, <1>5, <2>1, TwoJoin DEF With
  <2>3. PICK kind : kind = obj.type
    OBVIOUS
  <2>4. ThrowException(kind, pair, Drop(k))
    BY <1>10, <2>1, <2>3
  <2> QED BY <1>1, <1>8, <2>2, <2>4, ThrowExceptionKeeps
<1>11. ASSUME ~Unvalued(obj, key), NEW member \in Member(obj, key), PushObj(member, Drop(k)),
              PopExpr, env' = PoppedEnv, UNCHANGED <<session, triples, history>>
       PROVE  IInv'
  <2>1. member \in S
    BY <1>3, <1>5, <1>11, MemberIn
  <2>2. \E T : With(S, Len(triples), T, member)
    BY <1>3, <2>1, AlreadyIn
  <2>3. Given(Expr) \in {"any", member.type}
    BY <1>1
  <2> QED BY <1>1, <1>2, <1>8, <1>11, <2>2, <2>3, GivesValue
<1> QED BY <1>4, <1>6, <1>7, <1>9, <1>10, <1>11 DEF ColonContin

\* One triple is given another value.
LEMMA OneValuePut ==
    ASSUME NEW S, Chained(triples, S), NEW t, NEW obj \in S,
           triples' = [triples EXCEPT ![t].value = obj]
    PROVE  Puts(triples', triples, S)
<1>1. DOMAIN triples' = DOMAIN triples /\ triples' = [u \in DOMAIN triples |-> triples'[u]]
  OBVIOUS
<1>2. ASSUME NEW u \in DOMAIN triples
      PROVE  triples'[u] = triples[u] \/ \E v \in S : triples'[u] = [triples[u] EXCEPT !.value = v]
  <2>1. CASE u = t
    BY <2>1
  <2>2. CASE u # t
    BY <2>2
  <2> QED BY <2>1, <2>2
<1> QED BY <1>1, <1>2 DEF Puts

\* An assignment replaces the value of a triple in place by the operand, which stays.
LEMMA KeepsReassignContin ==
    ASSUME MatchTakesParts, NEW S, Sound(S), ReassignContin
    PROVE  IInv'
<1>1. /\ Running /\ Expr.type = "Continuation" /\ Expr.name = "reassign" /\ Pops(Expr) = 1
      /\ Given(Expr) = "any"
  BY DEF ReassignContin, Continues, Evaluates, Running, Pops, Given
<1>2. Pushes(Expr) = 1 /\ Arg \in S
  BY <1>1, ContinTop DEF IsContinuation, Arg
<1>3. /\ Closed(S, Len(triples)) /\ Len(triples) \in Nat /\ S \subseteq S
      /\ Chained(triples, S) /\ PoppedEnv \in 0..Len(triples)
      /\ ostack \in Seq(S) /\ Len(ostack) \in Nat
  BY <1>1, TopFrame
<1>4. PICK obj : obj = Head(ostack)
  OBVIOUS
<1>5. obj \in S
  BY <1>1, <1>4, TopOperands
<1>6. PICK name \in S : name = Arg
  BY <1>2
<1>7. PICK triple : triple = IF name.type = "Identifier" THEN Locate(PoppedEnv, name.name) ELSE 0
  OBVIOUS
<1>8. triple \in 0..Len(triples)
  <2>1. CASE name.type = "Identifier"
    <3>1. triple \in 0..PoppedEnv
      BY <1>3, <1>7, <2>1, LocateIn
    <3> QED BY <1>3, <3>1
  <2>2. CASE name.type # "Identifier"
    BY <1>3, <1>7, <2>2
  <2> QED BY <2>1, <2>2
<1>9. CASE triple = EMPTY_TRIPLE
  <2>1. PICK k : k = 1
    OBVIOUS
  <2>2. k \in 0..Pops(Expr)
    BY <1>1, <2>1
  <2>3. CASE name.type = "Identifier"
    <3>1. ThrowException("Reassign", name, Drop(k))
      BY <1>6, <1>7, <1>9, <2>1, <2>3 DEF ReassignContin
    <3> QED BY <1>1, <1>3, <2>2, <3>1, ThrowExceptionKeeps
  <2>4. CASE name.type # "Identifier"
    <3>1. PICK kind : kind = Symbol(name.type)
      OBVIOUS
    <3>2. PICK T : S \subseteq T /\ Closed(T, Len(triples)) /\ kind \in T
      BY <1>3, <3>1, SymbolJoins DEF With
    <3>3. PICK parts : parts = <<name, kind, obj>>
      OBVIOUS
    <3>4. parts \in Seq(T)
      BY <1>5, <3>2, <3>3
    <3>5. PICK thrown : thrown = Array(parts)
      OBVIOUS
    <3>6. PICK U : T \subseteq U /\ Closed(U, Len(triples)) /\ thrown \in U
      BY <1>3, <3>2, <3>4, <3>5, ArrayJoins DEF With
    <3>7. S \subseteq U
      BY <3>2, <3>6
    <3>8. ThrowException("Reassign", thrown, Drop(k))
      BY <1>4, <1>6, <1>7, <1>9, <2>1, <2>4, <3>1, <3>3, <3>5 DEF ReassignContin
    <3> QED BY <1>1, <2>2, <3>6, <3>7, <3>8, ThrowExceptionKeeps
  <2> QED BY <2>3, <2>4
<1>10. CASE triple # EMPTY_TRIPLE
  <2>1. /\ triples' = [triples EXCEPT ![triple].value = obj]
        /\ PopExpr /\ env' = PoppedEnv /\ ostack' = ostack
        /\ UNCHANGED history /\ UNCHANGED session
    BY <1>4, <1>6, <1>7, <1>10 DEF ReassignContin
  <2>2. Puts(triples', triples, S)
    BY <1>3, <1>5, <2>1, OneValuePut
  <2>3. Grows(S, S)
    BY <1>1, <1>3, <2>1, <2>2, GrowsChanged
  <2>4. PICK os : os = ostack
    OBVIOUS
  <2>5. /\ os \in Seq(S) /\ ostack' = os /\ Len(os) = Len(ostack) - Pops(Expr) + Pushes(Expr)
        /\ Given(Expr) \in {"any", TopType(os)}
    BY <1>1, <1>2, <1>3, <2>1, <2>4
  <2>6. Moves(S)
    BY <1>1, <2>1, <2>3, <2>5, Finishes
  <2> QED BY <1>1, <2>1, <2>3, <2>6, EvalKeeps
<1> QED BY <1>9, <1>10

-----------------------------------------------------------------------------
(* Loops. *)

\* A loop asks for what it goes over and saves the environment once.
LEMMA KeepsEvalLoop ==
    ASSUME NEW S, Sound(S), EvalLoop
    PROVE  IInv'
<1>1. /\ Running /\ Plain(Expr) /\ Given(Expr) = "any" /\ Expr.type = "Loop"
  BY DEF EvalLoop, Evaluates, Running, Plain, Given
<1>2. /\ Expr \in S /\ IsObject(Expr, S, Len(triples)) /\ Pops(Expr) = 0 /\ Pushes(Expr) = 1
      /\ Closed(S, Len(triples)) /\ S \subseteq S /\ PoppedEnv \in 0..Len(triples)
      /\ ostack \in Seq(S) /\ Len(ostack) \in Nat
  BY <1>1, PlainTop, TopFrame
<1>3. PICK x \in S : x = Expr.iterExpr
  BY <1>1, <1>2 DEF IsObject
<1>4. PICK c : c = Continuation("loop1", Expr)
  OBVIOUS
<1>5. PICK e : e = PoppedEnv
  OBVIOUS
<1>6. PICK tail : tail = Tail(estack)
  OBVIOUS
<1>7. PICK rest : rest = SaveEnv(tail, e)
  OBVIOUS
<1>8. /\ estack' = <<Frame(x, e), Frame(c, e)>> \o rest /\ env' = PoppedEnv
      /\ ostack' = ostack /\ triples' = triples /\ UNCHANGED history /\ UNCHANGED session
  BY <1>3, <1>4, <1>5, <1>6, <1>7 DEF EvalLoop
<1>9. Grows(S, S)
  BY <1>1, <1>2, <1>8, GrowsSame
<1>10. /\ c.type = "Continuation" /\ IsExpr(c, S, Len(triples')) /\ Pops(c) = 1
       /\ Wanted(c) = "any"
  BY <1>1, <1>2, <1>4 DEF Continuation, IsExpr, IsContinuation, Continuations, Pops, Wanted
<1>11. /\ Framed(tail, S, Len(triples')) /\ IsSeq(tail) /\ Plain(x) /\ IsExpr(x, S, Len(triples'))
  BY <1>1, <1>6, <1>9, FramedBelow
<1>12. e \in 0..Len(triples') /\ IsEnv(e, Len(triples'))
  BY <1>2, <1>5, <1>8 DEF IsEnv
<1>13. Framed(rest, S, Len(triples'))
  BY <1>7, <1>11, <1>12, FramedSaveEnv
<1>14. IsSeq(rest)
  BY <1>13 DEF Framed
<1>15. PICK es : es = OnTop(x, e, OnTop(c, e, rest))
  OBVIOUS
<1>16. estack' = es
  <2>1. AllOnTop(<<x, c>>, e, rest) = es
    BY <1>14, <1>15, TwoFrames
  <2>2. FramesOf(<<x, c>>, e) = <<Frame(x, e), Frame(c, e)>>
    <3>1. DOMAIN <<x, c>> = 1..2 /\ <<x, c>>[1] = x /\ <<x, c>>[2] = c
      OBVIOUS
    <3>2. PICK f : f = Frame(x, e)
      OBVIOUS
    <3>3. PICK g : g = Frame(c, e)
      OBVIOUS
    <3>4. FramesOf(<<x, c>>, e) = [i \in 1..2 |-> Frame(<<x, c>>[i], e)]
      BY <3>1 DEF FramesOf
    <3>5. [i \in 1..2 |-> Frame(<<x, c>>[i], e)] = <<f, g>>
      BY <3>1, <3>2, <3>3
    <3> QED BY <3>2, <3>3, <3>4, <3>5
  <2> QED BY <1>8, <2>1, <2>2 DEF AllOnTop
<1>17. Framed(es, S, Len(triples'))
  <2>1. IsFrame(c, e, S, Len(triples')) /\ IsFrame(x, e, S, Len(triples'))
    BY <1>10, <1>11, <1>12 DEF IsFrame, Plain
  <2>2. Framed(OnTop(c, e, rest), S, Len(triples'))
    BY <1>13, <2>1, FramedOnTop
  <2> QED BY <1>15, <2>1, <2>2, FramedOnTop
<1>18. PICK k : k = Len(ostack)
  OBVIOUS
<1>19. PICK one : one = k + 1
  OBVIOUS
<1>20. k \in Nat /\ one \in Nat /\ k <= one /\ Fits(tail, one, k, "any", Counted, 1 + unasked)
  <2>1. k = Len(ostack) - Pops(Expr)
    BY <1>2, <1>18
  <2>2. k \in Nat /\ Fits(Tail(estack), k + 1, k, Given(Expr), Counted, 1 + unasked)
    BY <1>1, <1>2, <2>1, RestNeeds
  <2> QED BY <1>1, <1>6, <1>19, <2>2
<1>21. Fits(rest, one, k, "any", Counted, 1 + unasked)
  <2>1. PICK F : tail \in Seq(F)
    BY <1>11 DEF IsSeq
  <2> QED BY <1>7, <1>20, <2>1, FitsSaveEnv
<1>22. Fits(es, k, k, "any", Counted, 1 + unasked)
  <2>1. /\ Wanted(c) \in {"any", Given(x)} /\ "any" \in {"any", Given(c)}
        /\ Fits(rest, k + 1, k, "any", Counted, 1 + unasked)
    BY <1>10, <1>19, <1>21
  <2> QED BY <1>10, <1>11, <1>14, <1>15, <1>20, <2>1, FitsSuspendedOne
<1>23. PICK os : os = ostack
  OBVIOUS
<1>24. os \in Seq(S) /\ ostack' = os /\ k = Len(os)
  BY <1>2, <1>8, <1>18, <1>23
<1>25. Moves(S)
  BY <1>8, <1>16, <1>17, <1>22, <1>24, MovesTo
<1> QED BY <1>1, <1>8, <1>9, <1>25, EvalKeeps

\* What a loop goes over becomes a list of objects made of its parts, above the value so far.
LEMMA KeepsLoop1Contin ==
    ASSUME NEW S, Sound(S), Loop1Contin
    PROVE  IInv'
<1>1. /\ Running /\ Expr.type = "Continuation" /\ Expr.name = "loop1" /\ Pops(Expr) = 1
      /\ Given(Expr) = "any" /\ Head(ostack).type # "String"
  BY DEF Loop1Contin, Continues, Evaluates, Running, Pops, Given
<1>2. Pushes(Expr) = 1 /\ Arg \in S /\ Arg.type = "Loop"
  BY <1>1, ContinTop DEF IsContinuation, Arg
<1>3. /\ Closed(S, Len(triples)) /\ Len(triples) \in Nat /\ PoppedEnv \in 0..Len(triples)
      /\ ostack \in Seq(S) /\ Len(ostack) \in Nat /\ 1 <= Len(ostack)
      /\ NIL \in S /\ EMPTY_LIST \in S
  BY <1>1, TopFrame DEF Basic
<1>4. PICK obj : obj = Head(ostack)
  OBVIOUS
<1>5. obj \in S /\ obj.type # "String"
  BY <1>1, <1>4, TopOperands
<1>6. Arg.body \in S
  BY <1>2, <1>3 DEF Closed, IsObject
<1>7. PICK remaining : remaining = Iterator(obj)
  OBVIOUS
<1>8. PICK T : S \subseteq T /\ Closed(T, Len(triples)) /\ remaining \in T /\ remaining.type = "List"
  BY <1>3, <1>5, <1>7, IteratorJoins DEF With
<1>9. PICK binds : binds = IF Arg.key.type = "Identifier"
                           THEN <<[key |-> Arg.key.name, value |-> NIL]>> ELSE <<>>
  OBVIOUS
<1>10. IsBinds(binds, T)
  <2>1. CASE Arg.key.type = "Identifier"
    <3>1. PICK name : name = Arg.key.name
      OBVIOUS
    <3>2. [key |-> name, value |-> NIL] \in [key : {name}, value : T]
      BY <1>3, <1>8
    <3>3. binds \in Seq([key : {name}, value : T])
      BY <1>9, <2>1, <3>1, <3>2
    <3> QED BY <3>3 DEF IsBinds
  <2>2. CASE Arg.key.type # "Identifier"
    <3>1. binds \in Seq([key : {}, value : T])
      BY <1>9, <2>2
    <3> QED BY <3>1 DEF IsBinds
  <2> QED BY <2>1, <2>2
<1>11. PICK e : e = ExtendedEnv(PoppedEnv, binds)
  OBVIOUS
<1>12. PICK arg : arg = [remaining |-> remaining, body |-> Arg.body,
                         binding |-> IF binds = <<>> THEN EMPTY_TRIPLE ELSE e]
  OBVIOUS
<1>13. PICK c : c = Continuation("loop2", arg)
  OBVIOUS
<1>14. /\ triples' = Extended(PoppedEnv, binds) /\ env' = e
       /\ estack' = <<Frame(c, e)>> \o Tail(estack)
       /\ PushObj(NIL, Drop(1)) /\ UNCHANGED history /\ UNCHANGED session
  BY <1>4, <1>7, <1>9, <1>11, <1>12, <1>13 DEF Loop1Contin
<1>15. Grows(S, T) /\ e \in 0..Len(triples')
  <2>1. PICK f \in 0..Len(triples) : f = PoppedEnv
    BY <1>3
  <2>2. triples' = Extended(f, binds) /\ env' = ExtendedEnv(f, binds)
    BY <1>11, <1>14, <2>1
  <2>3. Grows(S, T) /\ ExtendedEnv(f, binds) \in 0..Len(triples')
    BY <1>1, <1>8, <1>10, <2>2, GrowsExtended
  <2> QED BY <1>11, <2>1, <2>3
<1>16. /\ c.type = "Continuation" /\ IsExpr(c, T, Len(triples')) /\ Pops(c) = 1
       /\ Wanted(c) = "any"
  <2>1. arg \in [remaining : T, body : T, binding : 0..Len(triples')]
    <3>1. 0 \in 0..Len(triples')
      BY <1>15
    <3>2. PICK binding \in 0..Len(triples') : binding = IF binds = <<>> THEN EMPTY_TRIPLE ELSE e
      BY <1>15, <3>1 DEF EMPTY_TRIPLE
    <3>3. PICK body \in T : body = Arg.body
      BY <1>6, <1>8
    <3>4. arg = [remaining |-> remaining, body |-> body, binding |-> binding]
      BY <1>12, <3>2, <3>3
    <3> QED BY <1>8, <3>4
  <2>2. arg.remaining.type = "List"
    BY <1>8, <1>12
  <2>3. c.type = "Continuation" /\ c.name = "loop2" /\ c.arg = arg
    BY <1>13 DEF Continuation
  <2> QED BY <2>1, <2>2, <2>3 DEF IsExpr, IsContinuation, Continuations, Pops, Wanted
<1>17. PICK rest : rest = Tail(estack)
  OBVIOUS
<1>18. Framed(rest, T, Len(triples')) /\ IsSeq(rest)
  BY <1>1, <1>15, <1>17, FramedBelow
<1>19. PICK es : es = OnTop(c, e, rest)
  OBVIOUS
<1>20. estack' = es
  BY <1>14, <1>17, <1>19 DEF OnTop
<1>21. Framed(es, T, Len(triples'))
  <2>1. IsFrame(c, e, T, Len(triples'))
    BY <1>15, <1>16 DEF IsFrame, IsEnv
  <2> QED BY <1>18, <1>19, <2>1, FramedOnTop
<1>22. PICK k : k = Len(ostack) - Pops(Expr)
  OBVIOUS
<1>23. PICK one : one = k + 1
  OBVIOUS
<1>24. k \in Nat /\ Fits(rest, k + 1, k, "any", Counted, 1 + unasked)
  BY <1>1, <1>2, <1>17, <1>22, RestNeeds
<1>25. Fits(es, one, one, "any", Counted, 1 + unasked)
  <2>1. PICK m \in Nat : m = 1
    OBVIOUS
  <2>2. Wanted(c) \in {"any", "any"} /\ "any" \in {"any", Given(c)} /\ Pops(c) = m
    BY <1>16, <2>1
  <2>3. PICK l : l = k + m
    OBVIOUS
  <2>4. Fits(es, l, k, "any", Counted, 1 + unasked)
    BY <1>16, <1>18, <1>19, <1>24, <2>2, <2>3, FitsContinued
  <2>5. l = one /\ k <= one /\ one \in Nat
    BY <1>23, <1>24, <2>1, <2>3
  <2>6. Fits(es, one, k, "any", Counted, 1 + unasked)
    BY <2>4, <2>5
  <2> QED BY <1>24, <2>5, <2>6, FitsLow
<1>26. PICK os : os = <<NIL>> \o Drop(1)
  OBVIOUS
<1>27. ostack' = os /\ os \in Seq(T) /\ one = Len(os)
  <2>1. 1 \in 0..Len(ostack) /\ ostack \in Seq(T) /\ NIL \in T
    BY <1>3, <1>8, SeqGrows
  <2>2. Drop(1) \in Seq(T) /\ Len(Drop(1)) = Len(ostack) - 1
    BY <2>1, Dropped
  <2>3. PICK below : below = Drop(1)
    OBVIOUS
  <2>4. <<NIL>> \o below \in Seq(T) /\ Len(<<NIL>> \o below) = Len(below) + 1
    BY <2>1, <2>2, <2>3, Pushed
  <2> QED BY <1>1, <1>3, <1>14, <1>22, <1>23, <1>26, <2>2, <2>3, <2>4 DEF PushObj
<1>28. Moves(T)
  BY <1>14, <1>20, <1>21, <1>25, <1>27, MovesTo
<1> QED BY <1>1, <1>14, <1>15, <1>28, EvalKeeps

\* A turn drops the value of the one before it, binds an element in place and suspends the rest
\* below the body.
LEMMA KeepsLoop2Contin ==
    ASSUME NEW S, Sound(S), Loop2Contin
    PROVE  IInv'
<1>1. /\ Running /\ Expr.type = "Continuation" /\ Expr.name = "loop2" /\ Pops(Expr) = 1
      /\ Given(Expr) = "any"
  BY DEF Loop2Contin, Continues, Evaluates, Running, Pops, Given
<1>2. /\ Pushes(Expr) = 1 /\ Arg \in [remaining : S, body : S, binding : 0..Len(triples)]
      /\ Arg.remaining.type = "List"
  BY <1>1, ContinTop DEF IsContinuation, Arg
<1>3. /\ Closed(S, Len(triples)) /\ Len(triples) \in Nat /\ PoppedEnv \in 0..Len(triples)
      /\ ostack \in Seq(S) /\ Len(ostack) \in Nat /\ 1 <= Len(ostack)
      /\ EMPTY_LIST \in S /\ S \subseteq S /\ Chained(triples, S)
  BY <1>1, TopFrame DEF Basic
<1>4. PICK list \in S : list = Arg.remaining
  BY <1>2
<1>5. env' = PoppedEnv /\ UNCHANGED history /\ UNCHANGED session
  BY DEF Loop2Contin
<1>6. CASE IsEmpty(list)
  <2>1. PopExpr /\ ostack' = ostack /\ triples' = triples
    BY <1>4, <1>6 DEF Loop2Contin
  <2>2. Grows(S, S)
    BY <1>1, <1>3, <1>5, <2>1, GrowsSame
  <2>3. PICK os : os = ostack
    OBVIOUS
  <2>4. /\ os \in Seq(S) /\ ostack' = os /\ Len(os) = Len(ostack) - Pops(Expr) + Pushes(Expr)
        /\ Given(Expr) \in {"any", TopType(os)}
    BY <1>1, <1>2, <1>3, <2>1, <2>3
  <2>5. Moves(S)
    BY <1>1, <1>5, <2>1, <2>2, <2>4, Finishes
  <2> QED BY <1>1, <1>5, <2>2, <2>5, EvalKeeps
<1>7. CASE ~IsEmpty(list)
  <2>1. PICK remaining : remaining = RestAsList(list)
    OBVIOUS
  <2>2. PICK T : S \subseteq T /\ Closed(T, Len(triples)) /\ remaining \in T /\ remaining.type = "List"
    BY <1>2, <1>3, <1>4, <1>7, <2>1, RestJoins DEF With
  <2>3. PICK first \in S : first = First(list)
    BY <1>2, <1>3, <1>4, <1>7, ListParts
  <2>4. PICK arg : arg = [Arg EXCEPT !.remaining = remaining]
    OBVIOUS
  <2>5. PICK c : c = Continuation("loop2", arg)
    OBVIOUS
  <2>6. PICK x \in T : x = Arg.body
    BY <1>2, <2>2
  <2>7. /\ PushExprs(<<x, c>>) /\ ostack' = Drop(1)
        /\ triples' = IF Arg.binding = EMPTY_TRIPLE THEN triples
                      ELSE [triples EXCEPT ![Arg.binding].value = first]
    BY <1>4, <1>7, <2>1, <2>3, <2>4, <2>5, <2>6 DEF Loop2Contin
  <2>8. Grows(S, T) /\ Len(triples') = Len(triples)
    <3>1. CASE Arg.binding = EMPTY_TRIPLE
      <4>1. triples' = triples
        BY <2>7, <3>1
      <4> QED BY <1>1, <1>3, <1>5, <2>2, <4>1, GrowsSame
    <3>2. CASE Arg.binding # EMPTY_TRIPLE
      <4>1. PICK t : t = Arg.binding
        OBVIOUS
      <4>2. triples' = [triples EXCEPT ![t].value = first]
        BY <2>7, <3>2, <4>1
      <4>3. Chained(triples, T) /\ first \in T
        BY <1>3, <2>2, <2>3, ChainedGrows
      <4>4. Puts(triples', triples, T)
        BY <4>2, <4>3, OneValuePut
      <4> QED BY <1>1, <1>3, <1>5, <2>2, <4>4, GrowsChanged
    <3> QED BY <3>1, <3>2
  <2>9. /\ c.type = "Continuation" /\ IsExpr(c, T, Len(triples')) /\ Pops(c) = 1
        /\ Wanted(c) \in {"any", Given(x)} /\ Given(Expr) \in {"any", Given(c)}
    <3>1. arg \in [remaining : T, body : T, binding : 0..Len(triples')]
      <4>1. arg = [remaining |-> remaining, body |-> Arg.body, binding |-> Arg.binding]
        BY <1>2, <2>4
      <4> QED BY <1>2, <2>2, <2>8, <4>1
    <3>2. arg.remaining.type = "List"
      BY <1>2, <2>2, <2>4
    <3>3. c.type = "Continuation" /\ c.name = "loop2" /\ c.arg = arg
      BY <2>5 DEF Continuation
    <3> QED BY <1>1, <3>1, <3>2, <3>3 DEF IsExpr, IsContinuation, Continuations, Pops, Wanted
  <2>10. PICK e : e = PoppedEnv
    OBVIOUS
  <2>11. IsEnv(e, Len(triples')) /\ estack' = AllOnTop(<<x, c>>, e, Tail(estack))
    BY <1>3, <2>7, <2>8, <2>10, PushesFrames DEF IsEnv
  <2>12. PICK os : os = Drop(1)
    OBVIOUS
  <2>13. os \in Seq(T) /\ ostack' = os /\ Len(os) = Len(ostack) - Pops(Expr)
    <3>1. 1 \in 0..Len(ostack) /\ ostack \in Seq(T)
      BY <1>3, <2>2, SeqGrows
    <3> QED BY <1>1, <2>7, <2>12, <3>1, Dropped
  <2>14. Moves(T)
    BY <1>1, <1>2, <1>5, <2>8, <2>9, <2>11, <2>13, SuspendsOne
  <2> QED BY <1>1, <1>5, <2>8, <2>14, EvalKeeps
<1> QED BY <1>6, <1>7

-----------------------------------------------------------------------------
(* try, and the frames that only change the environment. *)

\* The places of an expression on a handler that keeps k operands.
TryUp(k) == [j \in 1..3 |-> IF j = 1 THEN k ELSE k + 1]

\* An expression on a handler that keeps the operands there are.
LEMMA FitsTry ==
    ASSUME NEW es, IsSeq(es), NEW k \in Nat, NEW one, one = k + 1, NEW exact, NEW total,
           Fits(es, one, k, "any", exact, total), NEW x, Plain(x),
           NEW h, h.type = "ExceptionHandler", Len(h.ostack) = k, NEW e
    PROVE  Fits(OnTop(x, e, OnTop(h, e, es)), k, k, "any", exact, total)
<1> DEFINE up == TryUp(k)
<1>1. PICK all : all = OnTop(x, e, OnTop(h, e, es))
  OBVIOUS
<1>2. /\ Len(all) = 2 + Len(es) /\ Len(es) \in Nat
      /\ all[1] = Frame(x, e) /\ all[2] = Frame(h, e)
      /\ \A j \in 1..Len(es) : all[2 + j] = es[j]
  <2>1. PICK F : es \in Seq(F)
    BY DEF IsSeq
  <2>2. PICK f : f = Frame(x, e)
    OBVIOUS
  <2>3. PICK g : g = Frame(h, e)
    OBVIOUS
  <2> DEFINE G == F \union {f, g}
  <2>4. es \in Seq(G) /\ f \in G /\ g \in G
    BY <2>1
  <2>5. all = <<f>> \o (<<g>> \o es)
    BY <1>1, <2>2, <2>3 DEF OnTop
  <2> HIDE DEF G
  <2>6. <<f, g>> \in Seq(G) /\ Len(<<f, g>>) = 2 /\ <<f, g>>[1] = f /\ <<f, g>>[2] = g
    BY <2>4
  <2>7. all = <<f, g>> \o es
    BY <2>4, <2>5
  <2>8. Len(all) = 2 + Len(es) /\ Len(es) \in Nat
    BY <2>4, <2>6, <2>7
  <2>9. all[1] = f /\ all[2] = g
    BY <2>4, <2>6, <2>7
  <2>10. \A j \in 1..Len(es) : all[2 + j] = es[j]
    BY <2>4, <2>6, <2>7
  <2> QED BY <2>2, <2>3, <2>8, <2>9, <2>10
<1>3. /\ all[1].expr = x /\ all[2].expr = h
      /\ Pops(x) = 0 /\ Pushes(x) = 1 /\ Wanted(x) = "any" /\ x.type # "ExceptionHandler"
      /\ x.type # "SavedEnv"
      /\ Pops(h) = 0 /\ Pushes(h) = 0 /\ Wanted(h) = "any" /\ Given(h) = "any"
      /\ h.type # "SavedEnv"
  BY <1>2, PlainIs DEF Frame, Pops, Pushes, Wanted, Given
<1>4. /\ up \in [1..(2 + 1) -> Nat] /\ up[1] = k /\ up[2] = k + 1 /\ up[3] = k + 1
  BY DEF TryUp
<1>5. Suffix(all, 2, es)
  BY <1>2 DEF Suffix
<1> HIDE DEF up
<1>6. ASSUME NEW j \in 1..2
      PROVE  /\ PopsAt(all, j) \in Nat /\ PushesAt(all, j) \in Nat
             /\ up[j + 1] = up[j] - PopsAt(all, j) + PushesAt(all, j)
             /\ k <= up[j] - PopsAt(all, j)
  <2>1. CASE j = 1
    BY <1>3, <1>4, <2>1 DEF PopsAt, PushesAt
  <2>2. CASE j = 2
    BY <1>3, <1>4, <2>2 DEF PopsAt, PushesAt
  <2> QED BY <2>1, <2>2
<1>7. ASSUME NEW j \in 1..2, Handles(all, j)
      PROVE  /\ KeptAt(all, j) \in Nat /\ KeptAt(all, j) <= k
             /\ PopsAt(all, j) = 0 /\ PushesAt(all, j) = 0
             /\ up[j + 1] = KeptAt(all, j) + 1
             /\ \A i \in 1..j : KeptAt(all, j) <= up[i] - PopsAt(all, i)
  <2>1. j = 2
    BY <1>3, <1>7 DEF Handles
  <2>2. KeptAt(all, j) = k
    BY <1>3, <2>1 DEF KeptAt
  <2>3. \A i \in 1..j : k <= up[i] - PopsAt(all, i)
    BY <1>6, <2>1
  <2>4. PopsAt(all, j) = 0 /\ PushesAt(all, j) = 0
    BY <1>3, <2>1 DEF PopsAt, PushesAt
  <2>5. up[j + 1] = k + 1
    BY <1>4, <2>1
  <2> QED BY <2>2, <2>3, <2>4, <2>5
<1>8. Climbs(all, 2, up, k, "any")
  <2>1. \A j \in 1..2 : Wanted(all[j].expr) = "any"
    BY <1>3
  <2>2. \A j \in 1..2 : ~Saves(all, j)
    BY <1>3 DEF Saves
  <2> QED BY <1>4, <1>6, <1>7, <2>1, <2>2 DEF Climbs
<1>9. PICK given2 : given2 = Given(all[2].expr)
  OBVIOUS
<1>10. PushedOn(all, es, k, one, k, "any", given2)
  <2>1. PICK m \in Nat \ {0} : m = 2
    OBVIOUS
  <2>2. Suffix(all, m, es) /\ Climbs(all, m, up, k, "any") /\ k = up[1] /\ one = up[m + 1]
        /\ given2 = Given(all[m].expr)
    BY <1>4, <1>5, <1>8, <1>9, <2>1
  <2> QED BY <2>1, <2>2 DEF PushedOn
<1>11. Fits(es, one, k, given2, exact, total)
  BY <1>3, <1>9
<1>12. Fits(all, k, k, "any", exact, total)
  BY <1>10, <1>11, FitsPush
<1> QED BY <1>1, <1>12

\* A try pushes its expression above the handler, which keeps the operands that there are.
LEMMA KeepsEvalTryCatch ==
    ASSUME NEW S, Sound(S), EvalTryCatch
    PROVE  IInv'
<1>1. /\ Running /\ Plain(Expr) /\ Given(Expr) = "any" /\ Expr.type = "TryCatch"
  BY DEF EvalTryCatch, Evaluates, Running, Plain, Given
<1>2. /\ IsObject(Expr, S, Len(triples)) /\ Pops(Expr) = 0 /\ Pushes(Expr) = 1
      /\ Closed(S, Len(triples)) /\ S \subseteq S /\ PoppedEnv \in 0..Len(triples)
      /\ ostack \in Seq(S) /\ Len(ostack) \in Nat
  BY <1>1, PlainTop, TopFrame
<1>3. Expr.expr \in S /\ Expr.rules \in Rules(S)
  BY <1>1, <1>2 DEF IsObject
<1>4. PICK x \in S : x = Expr.expr
  BY <1>3
<1>5. PICK e : e = PoppedEnv
  OBVIOUS
<1>6. PICK h : h = ExceptionHandler(Expr.rules, ostack, e)
  OBVIOUS
<1>7. /\ PushExprs(<<x, h>>) /\ env' = PoppedEnv
      /\ ostack' = ostack /\ triples' = triples /\ UNCHANGED history /\ UNCHANGED session
  BY <1>4, <1>5, <1>6 DEF EvalTryCatch
<1>8. Grows(S, S)
  BY <1>1, <1>2, <1>7, GrowsSame
<1>9. PICK rest : rest = Tail(estack)
  OBVIOUS
<1>10. /\ Framed(rest, S, Len(triples')) /\ IsSeq(rest) /\ Plain(x) /\ IsExpr(x, S, Len(triples'))
  BY <1>1, <1>8, <1>9, FramedBelow
<1>11. PICK es : es = OnTop(x, e, OnTop(h, e, rest))
  OBVIOUS
<1>12. estack' = es
  <2>1. estack' = AllOnTop(<<x, h>>, e, rest)
    BY <1>5, <1>7, <1>9, PushesFrames
  <2> QED BY <1>10, <1>11, <2>1, TwoFrames
<1>13. /\ h.type = "ExceptionHandler" /\ h.rules = Expr.rules /\ h.ostack = ostack /\ h.env = e
  BY <1>6 DEF ExceptionHandler
<1>14. Framed(es, S, Len(triples'))
  <2>1. e \in 0..Len(triples') /\ e # Dynamic
    BY <1>2, <1>5, <1>7 DEF Dynamic
  <2>2. IsFrame(h, e, S, Len(triples')) /\ IsFrame(x, e, S, Len(triples'))
    BY <1>2, <1>3, <1>10, <1>13, <2>1 DEF IsFrame, IsExpr, IsEnv, Plain
  <2>3. Framed(OnTop(h, e, rest), S, Len(triples'))
    BY <1>10, <2>2, FramedOnTop
  <2> QED BY <1>11, <2>2, <2>3, FramedOnTop
<1>15. PICK k : k = Len(ostack)
  OBVIOUS
<1>16. PICK one : one = k + 1
  OBVIOUS
<1>17. k \in Nat /\ Fits(rest, one, k, "any", Counted, 1 + unasked)
  <2>1. k = Len(ostack) - Pops(Expr)
    BY <1>2, <1>15
  <2>2. k \in Nat /\ Fits(Tail(estack), k + 1, k, Given(Expr), Counted, 1 + unasked)
    BY <1>1, <1>2, <2>1, RestNeeds
  <2> QED BY <1>1, <1>9, <1>16, <2>2
<1>18. Fits(es, k, k, "any", Counted, 1 + unasked)
  <2>1. Len(h.ostack) = k
    BY <1>13, <1>15
  <2> QED BY <1>10, <1>11, <1>13, <1>16, <1>17, <2>1, FitsTry
<1>19. PICK os : os = ostack
  OBVIOUS
<1>20. os \in Seq(S) /\ ostack' = os /\ k = Len(os)
  BY <1>2, <1>7, <1>15, <1>19
<1>21. Moves(S)
  BY <1>7, <1>12, <1>14, <1>18, <1>20, MovesTo
<1> QED BY <1>1, <1>7, <1>8, <1>21, EvalKeeps

\* A frame that only changes the environment.
LEMMA FrameLeaves ==
    ASSUME NEW S, Sound(S), Running, Pops(Expr) = 0, Pushes(Expr) = 0, Given(Expr) = "any",
           PopExpr, env' \in 0..Len(triples), UNCHANGED <<session, ostack, triples, history>>
    PROVE  IInv'
<1>1. /\ Closed(S, Len(triples)) /\ S \subseteq S /\ ostack \in Seq(S) /\ Len(ostack) \in Nat
      /\ ostack' = ostack /\ triples' = triples /\ UNCHANGED history /\ UNCHANGED session
  BY TopFrame
<1>2. Grows(S, S)
  BY <1>1, GrowsSame
<1>3. PICK os : os = ostack
  OBVIOUS
<1>4. /\ os \in Seq(S) /\ ostack' = os /\ Len(os) = Len(ostack) - Pops(Expr) + Pushes(Expr)
      /\ Given(Expr) \in {"any", TopType(os)}
  BY <1>1, <1>3
<1>5. Moves(S)
  BY <1>1, <1>2, <1>4, Finishes
<1> QED BY <1>1, <1>2, <1>5, EvalKeeps

\* A handler that no exception met leaves the operands alone.
LEMMA KeepsEvalExceptionHandler ==
    ASSUME NEW S, Sound(S), EvalExceptionHandler
    PROVE  IInv'
<1>1. /\ Running /\ Pops(Expr) = 0 /\ Pushes(Expr) = 0 /\ Given(Expr) = "any"
  BY DEF EvalExceptionHandler, Evaluates, Running, Pops, Pushes, Given
<1>2. PoppedEnv \in 0..Len(triples)
  BY <1>1, TopFrame
<1>3. PopExpr /\ env' = PoppedEnv /\ UNCHANGED <<session, ostack, triples, history>>
  BY DEF EvalExceptionHandler
<1>4. env' \in 0..Len(triples)
  BY <1>2, <1>3
<1> QED BY <1>1, <1>3, <1>4, FrameLeaves

\* The environment that a frame saved is one that there is.
LEMMA KeepsEvalSavedEnv ==
    ASSUME NEW S, Sound(S), EvalSavedEnv
    PROVE  IInv'
<1>1. /\ Running /\ Pops(Expr) = 0 /\ Pushes(Expr) = 0 /\ Given(Expr) = "any"
      /\ Expr.type = "SavedEnv"
  BY DEF EvalSavedEnv, Evaluates, Running, Pops, Pushes, Given
<1>2. IsExpr(Expr, S, Len(triples)) /\ Closed(S, Len(triples))
  BY <1>1, TopFrame
<1>3. Expr \notin S
  BY <1>1, <1>2, ClosedPlain DEF Plain
<1>4. PopExpr /\ env' = Expr.env /\ UNCHANGED <<session, ostack, triples, history>>
  BY DEF EvalSavedEnv
<1>5. env' \in 0..Len(triples)
  BY <1>1, <1>2, <1>3, <1>4 DEF IsExpr
<1> QED BY <1>1, <1>4, <1>5, FrameLeaves

-----------------------------------------------------------------------------
(* Every step keeps the invariant. *)

\* Evaluations of the objects that make up programs.
LEMMA KeepsObjects ==
    ASSUME MatchTakesParts, NEW S, Sound(S),
           \/ EvalObject \/ EvalIdentifier \/ EvalQuote \/ EvalAbstraction
           \/ EvalList \/ ListContin \/ EvalArray \/ ArrayContin \/ EvalQueue \/ QueueContin
           \/ EvalBinding \/ BindingContin \/ EvalTerm \/ TermContin
           \/ EvalBracketExpr \/ BracketContin
           \/ EvalRecordDefinition \/ EvalRecordSpec \/ RecordSpecContin
    PROVE  IInv'
BY KeepsEvalObject, KeepsEvalIdentifier, KeepsEvalQuote, KeepsEvalAbstraction, KeepsEvalList,
   KeepsListContin, KeepsEvalArray, KeepsArrayContin, KeepsEvalQueue, KeepsQueueContin,
   KeepsEvalBinding, KeepsBindingContin, KeepsEvalTerm, KeepsTermContin, KeepsEvalBracketExpr,
   KeepsBracketContin, KeepsEvalRecordDefinition, KeepsEvalRecordSpec, KeepsRecordSpecContin, Zenon

\* Evaluations that decide what is evaluated next.
LEMMA KeepsControl ==
    ASSUME MatchTakesParts, NEW S, Sound(S),
           \/ EvalIf \/ IfContin \/ EvalDo \/ DoContin
           \/ EvalLet \/ LetContin \/ LetInContin \/ EvalLetRec \/ LetRecContin
           \/ EvalApply \/ ApplyContin \/ ClosureApplyArgsContin \/ PrimitiveApplyArgsContin
           \/ ColonContin \/ ReassignContin
           \/ EvalLoop \/ Loop1Contin \/ Loop2Contin
           \/ EvalTryCatch \/ EvalExceptionHandler \/ EvalSavedEnv
    PROVE  IInv'
BY KeepsEvalIf, KeepsIfContin, KeepsEvalDo, KeepsDoContin, KeepsEvalLet, KeepsLetContin,
   KeepsLetInContin, KeepsEvalLetRec, KeepsLetRecContin, KeepsEvalApply, KeepsApplyContin,
   KeepsClosureApplyArgsContin, KeepsPrimitiveApplyArgsContin, KeepsColonContin,
   KeepsReassignContin, KeepsEvalLoop, KeepsLoop1Contin, KeepsLoop2Contin, KeepsEvalTryCatch,
   KeepsEvalExceptionHandler, KeepsEvalSavedEnv, Zenon

\* The REPL reads an input when the operands are those that it owes to subscribers.
LEMMA KeepsReplEval ==
    ASSUME NEW S, Sound(S), ReplEval
    PROVE  IInv'
<1>1. /\ status = "prompt" /\ given < Len(inputs) /\ given' = given + 1 /\ status' = "running"
      /\ estack' = <<Frame(inputs[given'], env)>> \o estack
      /\ inputs' = inputs /\ ostack' = ostack /\ env' = env /\ triples' = triples
      /\ records' = records /\ subscribers' = subscribers
      /\ mixed' = mixed /\ scrambled' = scrambled /\ unasked' = unasked
  BY DEF ReplEval, tables, history
<1>2. /\ given \in 0..Len(inputs) /\ estack = <<>> /\ (Counted => Len(ostack) = unasked)
      /\ mixed \in BOOLEAN /\ scrambled \in BOOLEAN /\ unasked \in Nat
  BY <1>1 DEF Sound, Phases
<1>3. /\ Closed(S, Len(triples)) /\ Chained(triples, S) /\ env \in 0..Len(triples)
      /\ inputs \in Seq(S) /\ ostack \in Seq(S)
  BY DEF Sound, Stored, Stacked
<1>4. Len(inputs) \in Nat /\ given' \in 1..Len(inputs)
  BY <1>1, <1>2, <1>3
<1>5. PICK x \in S : x = inputs[given']
  BY <1>3, <1>4
<1>6. PICK es : es = OnTop(x, env, <<>>)
  OBVIOUS
<1>7. IsSeq(<<>>)
  <2>1. <<>> \in Seq({})
    OBVIOUS
  <2> QED BY <2>1 DEF IsSeq
<1>8. estack' = es
  BY <1>1, <1>2, <1>5, <1>6 DEF OnTop
<1>9. Plain(x)
  BY <1>3, ClosedPlain
<1>10. Framed(es, S, Len(triples))
  <2>1. Framed(<<>>, S, Len(triples))
    BY <1>7 DEF Framed
  <2>2. IsFrame(x, env, S, Len(triples))
    BY <1>3, <1>9 DEF IsFrame, IsExpr, IsEnv, Plain
  <2> QED BY <1>6, <2>1, <2>2, FramedOnTop
<1>11. PICK k : k = Len(ostack)
  OBVIOUS
<1>12. Fits(es, k, k, "any", Counted, 1 + unasked)
  <2>1. k \in Nat
    BY <1>3, <1>11
  <2>2. PICK one \in Nat : one = k + 1
    BY <2>1
  <2>3. one >= 1 /\ (Counted => 1 + unasked = one)
    BY <1>2, <1>11, <2>1, <2>2
  <2>4. Fits(<<>>, one, k, "any", Counted, 1 + unasked)
    BY <2>3, FitsEmpty
  <2>5. Fits(<<>>, k + 1, k, "any", Counted, 1 + unasked)
    BY <2>2, <2>4
  <2> QED BY <1>6, <1>7, <1>9, <2>1, <2>5, FitsOne
<1>13. Fits(es, k, k, TopType(ostack), Counted, 1 + unasked)
  BY <1>12, FitsTop
<1>14. Stored(S)'
  BY <1>1 DEF Sound, Stored
<1>15. Stacked(S)'
  BY <1>1, <1>3, <1>8, <1>10 DEF Stacked
<1>16. Balanced'
  BY <1>1, <1>8, <1>11, <1>13 DEF Balanced, Counted
<1>17. Phases'
  BY <1>1, <1>2, <1>4, <1>16 DEF Phases
<1> QED BY <1>14, <1>15, <1>17 DEF Sound, IInv

\* The evaluator stops when it has nothing to evaluate.
LEMMA KeepsTerminate ==
    ASSUME NEW S, Sound(S), Terminate
    PROVE  IInv'
<1>1. /\ status = "running" /\ estack = <<>> /\ status' = "terminated"
      /\ inputs' = inputs /\ given' = given /\ estack' = estack /\ ostack' = ostack
      /\ env' = env /\ triples' = triples /\ records' = records /\ subscribers' = subscribers
      /\ mixed' = mixed /\ scrambled' = scrambled /\ unasked' = unasked
  BY DEF Terminate, tables, history
<1>2. Stored(S)' /\ Stacked(S)'
  BY <1>1 DEF Sound, Stored, Stacked
<1>3. Phases'
  BY <1>1 DEF Sound, Phases, Balanced, Counted
<1> QED BY <1>2, <1>3 DEF Sound, IInv

\* The REPL takes the value of the input.
LEMMA KeepsReplPrintValue ==
    ASSUME NEW S, Sound(S), ReplPrintValue
    PROVE  IInv'
<1>1. /\ status = "terminated" /\ status' = "prompt" /\ ostack' = Drop(1)
      /\ inputs' = inputs /\ given' = given /\ estack' = estack
      /\ env' = env /\ triples' = triples /\ records' = records /\ subscribers' = subscribers
      /\ mixed' = mixed /\ scrambled' = scrambled /\ unasked' = unasked
  BY DEF ReplPrintValue, tables, history
<1>2. /\ given \in 0..Len(inputs) /\ estack = <<>> /\ Balanced
      /\ mixed \in BOOLEAN /\ scrambled \in BOOLEAN /\ unasked \in Nat
  BY <1>1 DEF Sound, Phases
<1>3. ostack \in Seq(S) /\ Len(ostack) \in Nat
  BY DEF Sound, Stacked
<1>4. Len(ostack) >= 1 /\ (Counted => 1 + unasked = Len(ostack))
  BY <1>2, <1>3, FitsEmpty DEF Balanced
<1>5. ostack' \in Seq(S) /\ Len(ostack') = Len(ostack) - 1
  <2>1. 1 \in 0..Len(ostack)
    BY <1>3, <1>4
  <2> QED BY <1>1, <1>3, <2>1, Dropped
<1>6. Stored(S)' /\ Stacked(S)'
  BY <1>1, <1>5 DEF Sound, Stored, Stacked
<1>7. Counted' => Len(ostack') = unasked'
  BY <1>1, <1>2, <1>3, <1>4, <1>5 DEF Counted
<1>8. Phases'
  BY <1>1, <1>2, <1>7 DEF Phases
<1> QED BY <1>6, <1>8 DEF Sound, IInv

\* Nothing happens.
LEMMA KeepsStill ==
    ASSUME NEW S, Sound(S), UNCHANGED vars
    PROVE  IInv'
<1>1. /\ inputs' = inputs /\ given' = given /\ estack' = estack /\ ostack' = ostack
      /\ env' = env /\ triples' = triples /\ records' = records /\ subscribers' = subscribers
      /\ mixed' = mixed /\ scrambled' = scrambled /\ unasked' = unasked /\ status' = status
  BY DEF vars, tables
<1>2. Stored(S)' /\ Stacked(S)'
  BY <1>1 DEF Sound, Stored, Stacked
<1>3. Phases'
  BY <1>1 DEF Sound, Phases, Balanced, Counted
<1> QED BY <1>2, <1>3 DEF Sound, IInv

\* What the proofs take from the inputs: they are made of objects of programs.
SessionsArePrograms == \E S : Closed(S, 0) /\ \A session1 \in Sessions : session1 \in Seq(S)

\* The first inputs, on empty stacks.
LEMMA InvInit ==
    ASSUME SessionsArePrograms, Init
    PROVE  IInv
<1>1. PICK R : Closed(R, 0) /\ \A session1 \in Sessions : session1 \in Seq(R)
  BY DEF SessionsArePrograms
<1>2. PICK S : R \subseteq S /\ Closed(S, 0) /\ Basic(S)
  BY <1>1, BasicJoins
<1>3. /\ given = 0 /\ estack = <<>> /\ ostack = <<>> /\ env = 0 /\ triples = <<>>
      /\ DOMAIN records = {} /\ DOMAIN subscribers = {}
      /\ status = "prompt" /\ mixed = FALSE /\ scrambled = FALSE /\ unasked = 0
      /\ inputs \in Sessions
  BY DEF Init, EMPTY_TRIPLE, EmptyTable
<1>4. Len(triples) = 0 /\ Len(ostack) = 0
  BY <1>3
<1>5. inputs \in Seq(S) /\ Len(inputs) \in Nat
  BY <1>1, <1>2, <1>3, SeqGrows
<1>6. Chained(triples, S)
  <2>1. triples \in Seq([key : {}, value : S, next : Nat])
    BY <1>3
  <2> QED BY <1>4, <2>1 DEF Chained
<1>7. Stored(S)
  BY <1>2, <1>3, <1>4, <1>5, <1>6 DEF Stored
<1>8. Stacked(S)
  <2>1. IsSeq(estack) /\ Len(estack) = 0 /\ ostack \in Seq(S)
    <3>1. estack \in Seq({}) /\ ostack \in Seq(S)
      BY <1>3
    <3> QED BY <1>3, <3>1 DEF IsSeq
  <2> QED BY <2>1 DEF Stacked, Framed
<1>9. Phases
  <2>1. given \in 0..Len(inputs) /\ unasked \in Nat
    BY <1>3, <1>5
  <2>4. mixed \in BOOLEAN /\ scrambled \in BOOLEAN
    BY <1>3, Zenon
  <2>2. Len(ostack) = unasked
    BY <1>3, <1>4
  <2>3. status = "prompt" /\ status # "terminated" /\ estack = <<>>
    BY <1>3
  <2> QED BY <2>1, <2>2, <2>3, <2>4 DEF Phases
<1> QED BY <1>7, <1>8, <1>9 DEF Sound, IInv

\* Every step keeps the invariant.
LEMMA InvNext ==
    ASSUME MatchTakesParts, IInv, [Next]_vars
    PROVE  IInv'
<1>1. PICK S : Sound(S)
  BY DEF IInv
<1>2. CASE ReplEval
  BY <1>1, <1>2, KeepsReplEval
<1>3. CASE Eval
  <2>1. CASE \/ EvalObject \/ EvalIdentifier \/ EvalQuote \/ EvalAbstraction
             \/ EvalList \/ ListContin \/ EvalArray \/ ArrayContin \/ EvalQueue \/ QueueContin
             \/ EvalBinding \/ BindingContin \/ EvalTerm \/ TermContin
             \/ EvalBracketExpr \/ BracketContin
             \/ EvalRecordDefinition \/ EvalRecordSpec \/ RecordSpecContin
    BY <1>1, <2>1, KeepsObjects
  <2>2. CASE \/ EvalIf \/ IfContin \/ EvalDo \/ DoContin
             \/ EvalLet \/ LetContin \/ LetInContin \/ EvalLetRec \/ LetRecContin
             \/ EvalApply \/ ApplyContin \/ ClosureApplyArgsContin \/ PrimitiveApplyArgsContin
             \/ ColonContin \/ ReassignContin
             \/ EvalLoop \/ Loop1Contin \/ Loop2Contin
             \/ EvalTryCatch \/ EvalExceptionHandler \/ EvalSavedEnv
    BY <1>1, <2>2, KeepsControl
  <2> QED BY <1>3, <2>1, <2>2, Zenon DEF Eval
<1>4. CASE Terminate
  BY <1>1, <1>4, KeepsTerminate
<1>5. CASE ReplPrintValue
  BY <1>1, <1>5, KeepsReplPrintValue
<1>6. CASE Exit \/ UNCHANGED vars
  <2>1. UNCHANGED vars
    BY <1>6 DEF Exit
  <2> QED BY <1>1, <2>1, KeepsStill
<1> QED BY <1>2, <1>3, <1>4, <1>5, <1>6, Zenon DEF Next

-----------------------------------------------------------------------------
(* What the invariant says. *)

\* Frames, environments and triples are of their types.
LEMMA InvTypes ==
    ASSUME IInv
    PROVE  TypeOK
<1>1. PICK S : Sound(S)
  BY DEF IInv
<1>2. /\ given \in 0..Len(inputs) /\ status \in {"prompt", "running", "terminated"}
      /\ mixed \in BOOLEAN /\ scrambled \in BOOLEAN /\ unasked \in Nat
      /\ env \in 0..Len(triples)
  BY <1>1 DEF Sound, Phases, Stored
<1>3. \A i \in DOMAIN estack : estack[i].env \in {Dynamic} \union 0..Len(triples)
  <2>1. IsSeq(estack) /\ \A i \in 1..Len(estack) : IsEnv(estack[i].env, Len(triples))
    BY <1>1 DEF Sound, Stacked, Framed, IsFrame
  <2>2. DOMAIN estack = 1..Len(estack)
    BY <2>1 DEF IsSeq
  <2> QED BY <2>1, <2>2 DEF IsEnv
<1>4. \A t \in DOMAIN triples : triples[t].next \in 0..(t - 1)
  <2>1. /\ \E K : triples \in Seq([key : K, value : S, next : Nat])
        /\ \A t \in 1..Len(triples) : triples[t].next \in 0..(t - 1)
    BY <1>1 DEF Sound, Stored, Chained
  <2>2. DOMAIN triples = 1..Len(triples)
    BY <2>1
  <2> QED BY <2>1, <2>2
<1> QED BY <1>2, <1>3, <1>4 DEF TypeOK

\* No two frames in a row restore an environment.
LEMMA InvTailCalls ==
    ASSUME IInv
    PROVE  TailCallsPushNothing
<1>1. PICK S : Sound(S)
  BY DEF IInv
<1>2. CASE status = "prompt"
  <2>1. Len(estack) = 0
    BY <1>1, <1>2 DEF Sound, Phases
  <2> QED BY <2>1 DEF TailCallsPushNothing
<1>3. CASE status # "prompt"
  <2>1. NoPairs(estack)
    BY <1>1, <1>3 DEF Sound, Phases, Balanced, Fits
  <2> QED BY <2>1 DEF NoPairs, Saves, TailCallsPushNothing
<1> QED BY <1>2, <1>3

\* The stack of expressions finds its operands.
LEMMA InvOperands ==
    ASSUME IInv
    PROVE  OperandsBalance
<1>1. PICK S : Sound(S)
  BY DEF IInv
<1>2. CASE status = "prompt"
  <2>1. DOMAIN estack = {}
    BY <1>1, <1>2 DEF Sound, Phases
  <2> QED BY <1>2, <2>1 DEF OperandsBalance
<1>3. CASE status # "prompt"
  <2>1. PICK F : estack \in Seq(F)
    BY <1>1 DEF Sound, Stacked, Framed, IsSeq
  <2>2. Len(ostack) \in Nat
    BY <1>1 DEF Sound, Stacked
  <2>3. Fits(estack, Len(ostack), Len(ostack), TopType(ostack), Counted, 1 + unasked)
    BY <1>1, <1>3 DEF Sound, Phases, Balanced
  <2>4. /\ \A n \in DOMAIN estack : Pops(estack[n].expr) <= OperandsAfter(n - 1)
        /\ Counted => OperandsAfter(Len(estack)) = 1 + unasked
        /\ OperandsAfter(Len(estack)) >= 1
    BY <2>1, <2>2, <2>3, FitsBalance
  <2> QED BY <1>3, <2>4 DEF OperandsBalance, Counted
<1> QED BY <1>2, <1>3

\* The invariant holds of every state.
THEOREM EvaluatorInv ==
    ASSUME MatchTakesParts, SessionsArePrograms
    PROVE  Spec => []IInv
<1>1. Init => IInv
  BY InvInit
<1>2. IInv /\ [Next]_vars => IInv'
  BY InvNext
<1> QED BY <1>1, <1>2, PTL DEF Spec

\* Every state is of its type: environments are chains of triples that were allocated before,
\* so that looking an identifier up ends (evaluator_pushExprEnv, triple_locate).
THEOREM EvaluatorTypeOK ==
    ASSUME MatchTakesParts, SessionsArePrograms
    PROVE  Spec => []TypeOK
<1>1. IInv => TypeOK
  BY InvTypes
<1> QED BY <1>1, EvaluatorInv, PTL

\* A call in tail position pushes no frame, for every program (evaluator_saveEnv).
THEOREM TailCallsOK ==
    ASSUME MatchTakesParts, SessionsArePrograms
    PROVE  Spec => []TailCallsPushNothing
<1>1. IInv => TailCallsPushNothing
  BY InvTailCalls
<1> QED BY <1>1, EvaluatorInv, PTL

\* Every continuation finds the operands that it pops, and an input leaves its value and
\* those of the subscribers to what it has published, for every program
\* (evaluator_popObj, evaluator_pushObj).
THEOREM OperandsOK ==
    ASSUME MatchTakesParts, SessionsArePrograms
    PROVE  Spec => []OperandsBalance
<1>1. IInv => OperandsBalance
  BY InvOperands
<1> QED BY <1>1, EvaluatorInv, PTL
=============================================================================
