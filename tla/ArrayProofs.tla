----------------------------- MODULE ArrayProofs -----------------------------
(****************************************************************************)
(* An array of any length is a vector: Arrays implements Vector.  Each loop *)
(* is a run through values of which the loop's invariant says what they     *)
(* are; the runs come from the recursion of FoldLeft.                       *)
(****************************************************************************)
EXTENDS Arrays, SequenceTheorems, FiniteSetTheorems, WellFoundedInduction, TLAPS

\* A set of numbers that is not empty has a least one.
LEMMA LeastNumber ==
    ASSUME NEW s \in SUBSET Nat, s # {}
    PROVE  \E n \in s : \A m \in s : n <= m
<1> DEFINE less == {ss \in Nat \X Nat : ss[1] < ss[2]}
<1>1. OpToRel(<, Nat) = less
  BY DEF OpToRel
<1>2. IsWellFoundedOn(less, Nat)
  BY <1>1, NatLessThanWellFounded
<1>3. \E n \in s : \A m \in s : ~ (<<m, n>> \in less)
  <2> HIDE DEF less
  <2> QED BY <1>2, WFMin
<1>4. PICK n \in s : \A m \in s : ~ (<<m, n>> \in less)
  BY <1>3
<1>5. ASSUME NEW m \in s PROVE n <= m
  <2>1. ~ (m < n)
    BY <1>4
  <2> QED BY <2>1
<1> QED BY <1>5

\* What holds of 0 and goes over from each number to the next holds of all of them.
LEMMA Counting ==
    ASSUME NEW n \in Nat, NEW S, 0 \in S, \A m \in 1..n : m - 1 \in S => m \in S
    PROVE  \A m \in 0..n : m \in S
<1> DEFINE Bad == {m \in 0..n : m \notin S}
<1> SUFFICES ASSUME Bad # {} PROVE FALSE
  OBVIOUS
<1>1. PICK m \in Bad : \A k \in Bad : m <= k
  <2>1. Bad \in SUBSET Nat
    OBVIOUS
  <2> HIDE DEF Bad
  <2> QED BY <2>1, LeastNumber
<1>2. m \in 1..n
  OBVIOUS
<1>3. m - 1 \in Bad
  BY <1>2
<1> QED BY <1>1, <1>2, <1>3

-----------------------------------------------------------------------------
(* The runs of the loops. *)

\* The bodies of the loops.  array_delete: the next element goes into the place.
Moving(es, n) == [es EXCEPT ![n] = es[n + 1]]

\* array_insert: the element that was taken goes into the next place, until a dead one has.
MovingUp(dead, s, n) ==
    IF s.done THEN s
    ELSE [elems |-> [s.elems EXCEPT ![n] = s.temp], temp |-> s.elems[n],
          done |-> s.temp \in dead]

\* array_selectionSort: where the first of the smallest elements from n on is.
Smallest(es, n) ==
    FoldLeft(LAMBDA k, m : IF Smaller(es[m], es[k]) THEN m ELSE k, n, Upto(n + 1, Len(es)))

\* array_insertionSort: the first of the places up to n that is nil or holds a larger element.
PlaceFor(elems, new, n) ==
    SelectInSeq(Upto(1, n), LAMBDA k : new[k] = NULL \/ Smaller(elems[n], new[k]))

\* array_insertionSort: what new is when the n-th element has been put into it.
Sorting(elems, new, n) ==
    LET m == PlaceFor(elems, new, n)
    IN  CASE n = 1 -> [new EXCEPT ![1] = elems[1]]
          [] n > 1 /\ new[m] = NULL -> [new EXCEPT ![m] = elems[n]]
          [] OTHER -> array_insert(new, m, elems[n], {NULL})

\* array_shuffle: what the array is when each element has changed places with a chosen one.
Shuffling(elems, chosen) ==
    FoldLeft(LAMBDA es, n : Swapped(es, n, chosen[n]), elems, Upto(1, Len(elems)))

\* A loop is a kind of body, with what the body uses and does not change.
Body(kind, with, a, n) ==
    CASE kind = "delete" -> Moving(a, n)
      [] kind = "insert" -> MovingUp(with, a, n)
      [] kind = "reverse" -> Swapped(a, n, with - n + 1)
      [] kind = "shuffle" -> Swapped(a, n, with[n])
      [] kind = "smallest" -> IF Smaller(with[n], with[a]) THEN n ELSE a
      [] kind = "selection" -> Swapped(a, n, Smallest(a, n))
      [] kind = "append" -> Append(a, n)
      [] kind = "join" -> a \o n
      [] OTHER -> Sorting(with, a, n)

\* The recursion of FoldLeft over the first n of the places s.
FoldsOver(kind, with, base, s, n, iter) ==
    iter = [is \in SUBSET (1..n) |->
               IF is = {} THEN base
               ELSE Body(kind, with, iter[is \ {Max(is)}], s[Max(is)])]

\* The values that a loop over n places goes through, from the place first on.
Run(kind, with, base, first, n, run) ==
    /\ run[0] = base
    /\ \A m \in 1..n : run[m] = Body(kind, with, run[m - 1], first + m - 1)

\* The index that comes last.
LEMMA LastIndexIs ==
    ASSUME NEW n \in Nat, NEW is \in SUBSET (1..n), n \in is
    PROVE  Max(is) = n
<1>1. \A i \in is : n >= i
  OBVIOUS
<1>2. \A x \in is : (\A y \in is : x >= y) => x = n
  OBVIOUS
<1> QED BY <1>1, <1>2 DEF Max

\* The recursion is well defined: subsets of 1..n with n come from those without.
LEMMA FoldsOverExist ==
    ASSUME NEW kind, NEW with, NEW base, NEW s, NEW n \in Nat
    PROVE  \E iter : FoldsOver(kind, with, base, s, n, iter)
<1> DEFINE B(a, i) == Body(kind, with, a, i)
           Fold(m, iter) == iter = [is \in SUBSET (1..m) |->
                                IF is = {} THEN base ELSE B(iter[is \ {Max(is)}], s[Max(is)])]
           Good == {m \in 0..n : \E iter : Fold(m, iter)}
<1> HIDE DEF B
<1>1. 0 \in Good
  <2> DEFINE iter == [is \in SUBSET (1..0) |-> base]
  <2>1. SUBSET (1..0) = {{}}
    OBVIOUS
  <2>2. ASSUME NEW is \in SUBSET (1..0)
        PROVE  iter[is] = IF is = {} THEN base ELSE B(iter[is \ {Max(is)}], s[Max(is)])
    <3>1. is = {}
      BY <2>1
    <3> QED BY <3>1
  <2>3. iter = [is \in SUBSET (1..0) |-> iter[is]]
    OBVIOUS
  <2> HIDE DEF iter
  <2>4. Fold(0, iter)
    BY <2>2, <2>3
  <2> QED BY <2>4
<1>2. ASSUME NEW m \in 1..n, m - 1 \in Good PROVE m \in Good
  <2>1. PICK less : Fold(m - 1, less)
    BY <1>2
  <2> DEFINE iter == [is \in SUBSET (1..m) |->
                         IF m \in is THEN B(less[is \ {m}], s[m]) ELSE less[is]]
  <2>3. \A is \in SUBSET (1..m - 1) :
           less[is] = IF is = {} THEN base ELSE B(less[is \ {Max(is)}], s[Max(is)])
    BY <2>1
  <2>4. ASSUME NEW is \in SUBSET (1..m)
        PROVE  iter[is] = IF is = {} THEN base ELSE B(iter[is \ {Max(is)}], s[Max(is)])
    <3>1. CASE m \in is
      <4>1. Max(is) = m /\ is # {}
        BY <1>2, <3>1, LastIndexIs
      <4>2. is \ {m} \in SUBSET (1..m) /\ m \notin is \ {m}
        OBVIOUS
      <4>3. iter[is \ {m}] = less[is \ {m}]
        BY <4>2
      <4>4. iter[is] = B(less[is \ {m}], s[m])
        BY <3>1
      <4> HIDE DEF iter
      <4> QED BY <4>1, <4>3, <4>4
    <3>2. CASE m \notin is
      <4>1. is \in SUBSET (1..m - 1)
        BY <1>2, <3>2
      <4>2. iter[is] = less[is]
        BY <3>2
      <4>3. CASE is = {}
        <5> HIDE DEF iter
        <5> QED BY <2>3, <4>1, <4>2, <4>3
      <4>4. CASE is # {}
        <5> DEFINE rest == is \ {Max(is)}
        <5>1. rest \in SUBSET (1..m) /\ m \notin rest
          BY <3>2
        <5> HIDE DEF rest
        <5>2. iter[rest] = less[rest]
          BY <5>1
        <5> HIDE DEF iter
        <5> QED BY <2>3, <4>1, <4>2, <4>4, <5>2 DEF rest
      <4> QED BY <4>3, <4>4
    <3> QED BY <3>1, <3>2
  <2>5. iter = [is \in SUBSET (1..m) |-> iter[is]]
    OBVIOUS
  <2> HIDE DEF iter
  <2>6. Fold(m, iter)
    BY <2>4, <2>5
  <2> QED BY <2>6
<1> HIDE DEF Good
<1>3. n \in Good
  BY <1>1, <1>2, Counting
<1>4. \E iter : Fold(n, iter)
  BY <1>3 DEF Good
<1> QED BY <1>4 DEF FoldsOver, B

\* The values that a loop over the first n of s goes through.
Through(kind, with, base, s, n, run) ==
    /\ run[0] = base
    /\ \A m \in 1..n : run[m] = Body(kind, with, run[m - 1], s[m])

\* The recursion passes through one value after the other.
LEMMA FoldsThrough ==
    ASSUME NEW kind, NEW with, NEW base, NEW N \in Nat, NEW s,
           NEW iter, FoldsOver(kind, with, base, s, N, iter)
    PROVE  \E run : Through(kind, with, base, s, N, run) /\ iter[1..N] = run[N]
<1> DEFINE run == [m \in 0..N |-> iter[1..m]]
           B(a, i) == Body(kind, with, a, i)
<1>1. N \in Nat
  OBVIOUS
<1>2. \A is \in SUBSET (1..N) :
         iter[is] = IF is = {} THEN base ELSE B(iter[is \ {Max(is)}], s[Max(is)])
  BY DEF FoldsOver
<1> HIDE DEF B
<1>3. run[0] = base
  <2>1. 1..0 = {} /\ 1..0 \in SUBSET (1..N) /\ 0 \in 0..N
    BY <1>1
  <2>2. iter[1..0] = base
    BY <1>2, <2>1
  <2> QED BY <2>1, <2>2
<1>4. ASSUME NEW m \in 1..N
      PROVE  run[m] = B(run[m - 1], s[m])
  <2>1. 1..m \in SUBSET (1..N) /\ m \in 1..m /\ (1..m) \ {m} = 1..m - 1 /\ m \in Nat
    BY <1>1
  <2>2. Max(1..m) = m
    <3>1. 1..m \in SUBSET (1..m)
      OBVIOUS
    <3> QED BY <2>1, <3>1, LastIndexIs
  <2>3. 1..m # {}
    BY <2>1
  <2>4. iter[1..m] = B(iter[1..m - 1], s[m])
    BY <1>2, <2>1, <2>2, <2>3
  <2>5. m \in 0..N /\ m - 1 \in 0..N
    BY <1>1
  <2>6. run[m] = iter[1..m] /\ run[m - 1] = iter[1..m - 1]
    BY <2>5
  <2> HIDE DEF run
  <2> QED BY <2>4, <2>6
<1>5. run[N] = iter[1..N]
  BY <1>1
<1> HIDE DEF run
<1>6. Through(kind, with, base, s, N, run)
  BY <1>3, <1>4 DEF Through, B
<1> QED BY <1>5, <1>6

\* s names n places, one after the other, from first on.
Upwards(s, first, n) == \A m \in 1..n : s[m] = first + m - 1

\* A loop over places.
LEMMA FoldsRun ==
    ASSUME NEW kind, NEW with, NEW base, NEW first \in Int, NEW N \in Nat, NEW s,
           Upwards(s, first, N), NEW iter, FoldsOver(kind, with, base, s, N, iter)
    PROVE  \E run : Run(kind, with, base, first, N, run) /\ iter[1..N] = run[N]
<1>1. PICK run : Through(kind, with, base, s, N, run) /\ iter[1..N] = run[N]
  BY FoldsThrough
<1>2. Run(kind, with, base, first, N, run)
  BY <1>1 DEF Through, Upwards, Run
<1> QED BY <1>1, <1>2

\* The loop of array_delete.
LEMMA DeleteRun ==
    ASSUME NEW elems, Len(elems) \in Nat, NEW i \in 1..Len(elems)
    PROVE  \E run :
              /\ Run("delete", {}, elems, i, Len(elems) - i, run)
              /\ array_delete(elems, i) = [run[Len(elems) - i] EXCEPT ![Len(elems)] = NULL]
<1> DEFINE s == Upto(i, Len(elems) - 1)
           N == Len(elems) - i
           base == elems
           Eq(g) == g = [is \in SUBSET (DOMAIN s) |->
                            IF is = {} THEN base
                            ELSE Moving(g[is \ {Max(is)}], s[Max(is)])]
           iter == CHOOSE g : Eq(g)
           Traced(g) == \E run : Run("delete", {}, base, i, N, run) /\ g[1..N] = run[N]
<1>1. /\ i \in Int /\ N \in Nat
      /\ DOMAIN s = 1..N /\ \A m \in 1..N : s[m] = i + m - 1
  BY DEF Upto
<1>2. \A g : Eq(g) <=> FoldsOver("delete", {}, base, s, N, g)
  <2> SUFFICES ASSUME NEW g PROVE Eq(g) <=> FoldsOver("delete", {}, base, s, N, g)
    OBVIOUS
  <2> DEFINE Mine(is) == IF is = {} THEN base
                         ELSE Moving(g[is \ {Max(is)}], s[Max(is)])
             Its(is) == IF is = {} THEN base
                        ELSE Body("delete", {}, g[is \ {Max(is)}], s[Max(is)])
  <2> HIDE DEF s, N, base
  <2>2. \A is : Mine(is) = Its(is)
    BY DEF Body
  <2>3. Eq(g) <=> g = [is \in SUBSET (1..N) |-> Mine(is)]
    BY <1>1
  <2>4. FoldsOver("delete", {}, base, s, N, g) <=> g = [is \in SUBSET (1..N) |-> Its(is)]
    BY DEF FoldsOver
  <2> HIDE DEF Mine, Its
  <2> QED BY <2>2, <2>3, <2>4
<1>3. array_delete(elems, i) = [iter[DOMAIN s] EXCEPT ![Len(elems)] = NULL]
  BY DEF FoldLeft, MapThenFoldSet, array_delete, Moving
<1>4. Eq(iter)
  <2>1. \E g : Eq(g)
    BY <1>1, <1>2, FoldsOverExist
  <2> QED BY <2>1
<1> HIDE DEF iter
<1>5. FoldsOver("delete", {}, base, s, N, iter)
  BY <1>2, <1>4
<1> HIDE DEF Eq, s, N, base
<1>6. \A g : FoldsOver("delete", {}, base, s, N, g) => Traced(g)
  <2>1. i \in Int /\ N \in Nat /\ Upwards(s, i, N)
    BY <1>1 DEF Upwards
  <2> QED BY <2>1, FoldsRun
<1>7. Traced(iter)
  <2> HIDE DEF Traced
  <2> QED BY <1>5, <1>6
<1>8. PICK run : Run("delete", {}, base, i, N, run) /\ iter[1..N] = run[N]
  BY <1>7
<1>9. array_delete(elems, i) = [run[N] EXCEPT ![Len(elems)] = NULL]
  BY <1>1, <1>3, <1>8
<1> QED BY <1>8, <1>9 DEF N, base

\* The loop of array_insert.
LEMMA InsertRun ==
    ASSUME NEW elems, Len(elems) \in Nat, NEW i \in 1..Len(elems), NEW e, NEW dead
    PROVE  \E run :
              /\ Run("insert", dead, [elems |-> elems, temp |-> elems[i], done |-> FALSE],
                      i + 1, Len(elems) - i, run)
              /\ array_insert(elems, i, e, dead) = [run[Len(elems) - i].elems EXCEPT ![i] = e]
<1> DEFINE s == Upto(i + 1, Len(elems))
           N == Len(elems) - i
           base == [elems |-> elems, temp |-> elems[i], done |-> FALSE]
           Eq(g) == g = [is \in SUBSET (DOMAIN s) |->
                            IF is = {} THEN base
                            ELSE MovingUp(dead, g[is \ {Max(is)}], s[Max(is)])]
           iter == CHOOSE g : Eq(g)
           Traced(g) == \E run : Run("insert", dead, base, i + 1, N, run) /\ g[1..N] = run[N]
<1>1. /\ i + 1 \in Int /\ N \in Nat
      /\ DOMAIN s = 1..N /\ \A m \in 1..N : s[m] = i + 1 + m - 1
  BY DEF Upto
<1>2. \A g : Eq(g) <=> FoldsOver("insert", dead, base, s, N, g)
  <2> SUFFICES ASSUME NEW g PROVE Eq(g) <=> FoldsOver("insert", dead, base, s, N, g)
    OBVIOUS
  <2> DEFINE Mine(is) == IF is = {} THEN base
                         ELSE MovingUp(dead, g[is \ {Max(is)}], s[Max(is)])
             Its(is) == IF is = {} THEN base
                        ELSE Body("insert", dead, g[is \ {Max(is)}], s[Max(is)])
  <2> HIDE DEF s, N, base
  <2>2. \A is : Mine(is) = Its(is)
    BY DEF Body
  <2>3. Eq(g) <=> g = [is \in SUBSET (1..N) |-> Mine(is)]
    BY <1>1
  <2>4. FoldsOver("insert", dead, base, s, N, g) <=> g = [is \in SUBSET (1..N) |-> Its(is)]
    BY DEF FoldsOver
  <2> HIDE DEF Mine, Its
  <2> QED BY <2>2, <2>3, <2>4
<1>3. array_insert(elems, i, e, dead) = [iter[DOMAIN s].elems EXCEPT ![i] = e]
  BY DEF FoldLeft, MapThenFoldSet, array_insert, MovingUp
<1>4. Eq(iter)
  <2>1. \E g : Eq(g)
    BY <1>1, <1>2, FoldsOverExist
  <2> QED BY <2>1
<1> HIDE DEF iter
<1>5. FoldsOver("insert", dead, base, s, N, iter)
  BY <1>2, <1>4
<1> HIDE DEF Eq, s, N, base
<1>6. \A g : FoldsOver("insert", dead, base, s, N, g) => Traced(g)
  <2>1. i + 1 \in Int /\ N \in Nat /\ Upwards(s, i + 1, N)
    BY <1>1 DEF Upwards
  <2> QED BY <2>1, FoldsRun
<1>7. Traced(iter)
  <2> HIDE DEF Traced
  <2> QED BY <1>5, <1>6
<1>8. PICK run : Run("insert", dead, base, i + 1, N, run) /\ iter[1..N] = run[N]
  BY <1>7
<1>9. array_insert(elems, i, e, dead) = [run[N].elems EXCEPT ![i] = e]
  BY <1>1, <1>3, <1>8
<1> QED BY <1>8, <1>9 DEF N, base

\* The loop of array_reverse.
LEMMA ReverseRun ==
    ASSUME NEW elems, Len(elems) \in Nat
    PROVE  \E run :
              /\ Run("reverse", Len(elems), elems, 1, Len(elems) \div 2, run)
              /\ array_reverse(elems) = run[Len(elems) \div 2]
<1> DEFINE s == Upto(1, Len(elems) \div 2)
           N == Len(elems) \div 2
           base == elems
           Eq(g) == g = [is \in SUBSET (DOMAIN s) |->
                            IF is = {} THEN base
                            ELSE Swapped(g[is \ {Max(is)}], s[Max(is)],
                                         Len(elems) - s[Max(is)] + 1)]
           iter == CHOOSE g : Eq(g)
           Traced(g) == \E run : Run("reverse", Len(elems), base, 1, N, run) /\ g[1..N] = run[N]
<1>1. /\ 1 \in Int /\ N \in Nat
      /\ DOMAIN s = 1..N /\ \A m \in 1..N : s[m] = 1 + m - 1
  BY DEF Upto
<1>2. \A g : Eq(g) <=> FoldsOver("reverse", Len(elems), base, s, N, g)
  <2> SUFFICES ASSUME NEW g PROVE Eq(g) <=> FoldsOver("reverse", Len(elems), base, s, N, g)
    OBVIOUS
  <2> DEFINE Mine(is) == IF is = {} THEN base
                         ELSE Swapped(g[is \ {Max(is)}], s[Max(is)],
                                      Len(elems) - s[Max(is)] + 1)
             Its(is) == IF is = {} THEN base
                        ELSE Body("reverse", Len(elems), g[is \ {Max(is)}], s[Max(is)])
  <2> HIDE DEF s, N, base
  <2>2. \A is : Mine(is) = Its(is)
    BY DEF Body
  <2>3. Eq(g) <=> g = [is \in SUBSET (1..N) |-> Mine(is)]
    BY <1>1
  <2>4. FoldsOver("reverse", Len(elems), base, s, N, g) <=> g = [is \in SUBSET (1..N) |-> Its(is)]
    BY DEF FoldsOver
  <2> HIDE DEF Mine, Its
  <2> QED BY <2>2, <2>3, <2>4
<1>3. array_reverse(elems) = iter[DOMAIN s]
  BY DEF FoldLeft, MapThenFoldSet, array_reverse
<1>4. Eq(iter)
  <2>1. \E g : Eq(g)
    BY <1>1, <1>2, FoldsOverExist
  <2> QED BY <2>1
<1> HIDE DEF iter
<1>5. FoldsOver("reverse", Len(elems), base, s, N, iter)
  BY <1>2, <1>4
<1> HIDE DEF Eq, s, N, base
<1>6. \A g : FoldsOver("reverse", Len(elems), base, s, N, g) => Traced(g)
  <2>1. 1 \in Int /\ N \in Nat /\ Upwards(s, 1, N)
    BY <1>1 DEF Upwards
  <2> QED BY <2>1, FoldsRun
<1>7. Traced(iter)
  <2> HIDE DEF Traced
  <2> QED BY <1>5, <1>6
<1>8. PICK run : Run("reverse", Len(elems), base, 1, N, run) /\ iter[1..N] = run[N]
  BY <1>7
<1>9. array_reverse(elems) = run[N]
  BY <1>1, <1>3, <1>8
<1> QED BY <1>8, <1>9 DEF N, base

\* The loop of array_shuffle.
LEMMA ShuffleRun ==
    ASSUME NEW elems, Len(elems) \in Nat, NEW chosen
    PROVE  \E run :
              /\ Run("shuffle", chosen, elems, 1, Len(elems), run)
              /\ Shuffling(elems, chosen) = run[Len(elems)]
<1> DEFINE s == Upto(1, Len(elems))
           N == Len(elems)
           base == elems
           Eq(g) == g = [is \in SUBSET (DOMAIN s) |->
                            IF is = {} THEN base
                            ELSE Swapped(g[is \ {Max(is)}], s[Max(is)], chosen[s[Max(is)]])]
           iter == CHOOSE g : Eq(g)
           Traced(g) == \E run : Run("shuffle", chosen, base, 1, N, run) /\ g[1..N] = run[N]
<1>1. /\ 1 \in Int /\ N \in Nat
      /\ DOMAIN s = 1..N /\ \A m \in 1..N : s[m] = 1 + m - 1
  BY DEF Upto
<1>2. \A g : Eq(g) <=> FoldsOver("shuffle", chosen, base, s, N, g)
  <2> SUFFICES ASSUME NEW g PROVE Eq(g) <=> FoldsOver("shuffle", chosen, base, s, N, g)
    OBVIOUS
  <2> DEFINE Mine(is) == IF is = {} THEN base
                         ELSE Swapped(g[is \ {Max(is)}], s[Max(is)],
                                      chosen[s[Max(is)]])
             Its(is) == IF is = {} THEN base
                        ELSE Body("shuffle", chosen, g[is \ {Max(is)}], s[Max(is)])
  <2> HIDE DEF s, N, base
  <2>2. \A is : Mine(is) = Its(is)
    BY DEF Body
  <2>3. Eq(g) <=> g = [is \in SUBSET (1..N) |-> Mine(is)]
    BY <1>1
  <2>4. FoldsOver("shuffle", chosen, base, s, N, g) <=> g = [is \in SUBSET (1..N) |-> Its(is)]
    BY DEF FoldsOver
  <2> HIDE DEF Mine, Its
  <2> QED BY <2>2, <2>3, <2>4
<1>3. Shuffling(elems, chosen) = iter[DOMAIN s]
  BY DEF FoldLeft, MapThenFoldSet, Shuffling
<1>4. Eq(iter)
  <2>1. \E g : Eq(g)
    BY <1>1, <1>2, FoldsOverExist
  <2> QED BY <2>1
<1> HIDE DEF iter
<1>5. FoldsOver("shuffle", chosen, base, s, N, iter)
  BY <1>2, <1>4
<1> HIDE DEF Eq, s, N, base
<1>6. \A g : FoldsOver("shuffle", chosen, base, s, N, g) => Traced(g)
  <2>1. 1 \in Int /\ N \in Nat /\ Upwards(s, 1, N)
    BY <1>1 DEF Upwards
  <2> QED BY <2>1, FoldsRun
<1>7. Traced(iter)
  <2> HIDE DEF Traced
  <2> QED BY <1>5, <1>6
<1>8. PICK run : Run("shuffle", chosen, base, 1, N, run) /\ iter[1..N] = run[N]
  BY <1>7
<1>9. Shuffling(elems, chosen) = run[N]
  BY <1>1, <1>3, <1>8
<1> QED BY <1>8, <1>9 DEF N, base

\* The inner loop of array_selectionSort.
LEMMA SmallestRun ==
    ASSUME NEW es, Len(es) \in Nat, NEW n \in 1..Len(es)
    PROVE  \E run :
              /\ Run("smallest", es, n, n + 1, Len(es) - n, run)
              /\ Smallest(es, n) = run[Len(es) - n]
<1> DEFINE s == Upto(n + 1, Len(es))
           N == Len(es) - n
           base == n
           Eq(g) == g = [is \in SUBSET (DOMAIN s) |->
                            IF is = {} THEN base
                            ELSE IF Smaller(es[s[Max(is)]], es[g[is \ {Max(is)}]]) THEN s[Max(is)]
                            ELSE g[is \ {Max(is)}]]
           iter == CHOOSE g : Eq(g)
           Traced(g) == \E run : Run("smallest", es, base, n + 1, N, run) /\ g[1..N] = run[N]
<1>1. /\ n + 1 \in Int /\ N \in Nat
      /\ DOMAIN s = 1..N /\ \A m \in 1..N : s[m] = n + 1 + m - 1
  BY DEF Upto
<1>2. \A g : Eq(g) <=> FoldsOver("smallest", es, base, s, N, g)
  <2> SUFFICES ASSUME NEW g PROVE Eq(g) <=> FoldsOver("smallest", es, base, s, N, g)
    OBVIOUS
  <2> DEFINE Mine(is) == IF is = {} THEN base
                         ELSE IF Smaller(es[s[Max(is)]], es[g[is \ {Max(is)}]]) THEN s[Max(is)]
                              ELSE g[is \ {Max(is)}]
             Its(is) == IF is = {} THEN base
                        ELSE Body("smallest", es, g[is \ {Max(is)}], s[Max(is)])
  <2> HIDE DEF s, N, base
  <2>2. \A is : Mine(is) = Its(is)
    BY DEF Body
  <2>3. Eq(g) <=> g = [is \in SUBSET (1..N) |-> Mine(is)]
    BY <1>1
  <2>4. FoldsOver("smallest", es, base, s, N, g) <=> g = [is \in SUBSET (1..N) |-> Its(is)]
    BY DEF FoldsOver
  <2> HIDE DEF Mine, Its
  <2> QED BY <2>2, <2>3, <2>4
<1>3. Smallest(es, n) = iter[DOMAIN s]
  BY DEF FoldLeft, MapThenFoldSet, Smallest
<1>4. Eq(iter)
  <2>1. \E g : Eq(g)
    BY <1>1, <1>2, FoldsOverExist
  <2> QED BY <2>1
<1> HIDE DEF iter
<1>5. FoldsOver("smallest", es, base, s, N, iter)
  BY <1>2, <1>4
<1> HIDE DEF Eq, s, N, base
<1>6. \A g : FoldsOver("smallest", es, base, s, N, g) => Traced(g)
  <2>1. n + 1 \in Int /\ N \in Nat /\ Upwards(s, n + 1, N)
    BY <1>1 DEF Upwards
  <2> QED BY <2>1, FoldsRun
<1>7. Traced(iter)
  <2> HIDE DEF Traced
  <2> QED BY <1>5, <1>6
<1>8. PICK run : Run("smallest", es, base, n + 1, N, run) /\ iter[1..N] = run[N]
  BY <1>7
<1>9. Smallest(es, n) = run[N]
  BY <1>1, <1>3, <1>8
<1> QED BY <1>8, <1>9 DEF N, base

\* The outer loop of array_selectionSort.
LEMMA SelectionRun ==
    ASSUME NEW elems, Len(elems) \in Nat
    PROVE  \E run :
              /\ Run("selection", {}, elems, 1, Len(elems), run)
              /\ array_selectionSort(elems) = run[Len(elems)]
<1> DEFINE s == Upto(1, Len(elems))
           N == Len(elems)
           base == elems
           Eq(g) == g = [is \in SUBSET (DOMAIN s) |->
                            IF is = {} THEN base
                            ELSE Swapped(g[is \ {Max(is)}], s[Max(is)],
                                         Smallest(g[is \ {Max(is)}], s[Max(is)]))]
           iter == CHOOSE g : Eq(g)
           Traced(g) == \E run : Run("selection", {}, base, 1, N, run) /\ g[1..N] = run[N]
<1>1. /\ 1 \in Int /\ N \in Nat
      /\ DOMAIN s = 1..N /\ \A m \in 1..N : s[m] = 1 + m - 1
  BY DEF Upto
<1>2. \A g : Eq(g) <=> FoldsOver("selection", {}, base, s, N, g)
  <2> SUFFICES ASSUME NEW g PROVE Eq(g) <=> FoldsOver("selection", {}, base, s, N, g)
    OBVIOUS
  <2> DEFINE Mine(is) == IF is = {} THEN base
                         ELSE Swapped(g[is \ {Max(is)}], s[Max(is)],
                                      Smallest(g[is \ {Max(is)}], s[Max(is)]))
             Its(is) == IF is = {} THEN base
                        ELSE Body("selection", {}, g[is \ {Max(is)}], s[Max(is)])
  <2> HIDE DEF s, N, base
  <2>2. \A is : Mine(is) = Its(is)
    BY DEF Body
  <2>3. Eq(g) <=> g = [is \in SUBSET (1..N) |-> Mine(is)]
    BY <1>1
  <2>4. FoldsOver("selection", {}, base, s, N, g) <=> g = [is \in SUBSET (1..N) |-> Its(is)]
    BY DEF FoldsOver
  <2> HIDE DEF Mine, Its
  <2> QED BY <2>2, <2>3, <2>4
<1>3. array_selectionSort(elems) = iter[DOMAIN s]
  BY DEF FoldLeft, MapThenFoldSet, array_selectionSort, Smallest
<1>4. Eq(iter)
  <2>1. \E g : Eq(g)
    BY <1>1, <1>2, FoldsOverExist
  <2> QED BY <2>1
<1> HIDE DEF iter
<1>5. FoldsOver("selection", {}, base, s, N, iter)
  BY <1>2, <1>4
<1> HIDE DEF Eq, s, N, base
<1>6. \A g : FoldsOver("selection", {}, base, s, N, g) => Traced(g)
  <2>1. 1 \in Int /\ N \in Nat /\ Upwards(s, 1, N)
    BY <1>1 DEF Upwards
  <2> QED BY <2>1, FoldsRun
<1>7. Traced(iter)
  <2> HIDE DEF Traced
  <2> QED BY <1>5, <1>6
<1>8. PICK run : Run("selection", {}, base, 1, N, run) /\ iter[1..N] = run[N]
  BY <1>7
<1>9. array_selectionSort(elems) = run[N]
  BY <1>1, <1>3, <1>8
<1> QED BY <1>8, <1>9 DEF N, base

\* The outer loop of array_insertionSort.
LEMMA InsertionRun ==
    ASSUME NEW elems, Len(elems) \in Nat
    PROVE  \E run :
              /\ Run("insertion", elems, [n \in 1..Len(elems) |-> NULL], 1, Len(elems), run)
              /\ array_insertionSort(elems) = run[Len(elems)]
<1> DEFINE s == Upto(1, Len(elems))
           N == Len(elems)
           base == [n \in 1..Len(elems) |-> NULL]
           Eq(g) == g = [is \in SUBSET (DOMAIN s) |->
                            IF is = {} THEN base
                            ELSE Sorting(elems, g[is \ {Max(is)}], s[Max(is)])]
           iter == CHOOSE g : Eq(g)
           Traced(g) == \E run : Run("insertion", elems, base, 1, N, run) /\ g[1..N] = run[N]
<1>1. /\ 1 \in Int /\ N \in Nat
      /\ DOMAIN s = 1..N /\ \A m \in 1..N : s[m] = 1 + m - 1
  BY DEF Upto
<1>2. \A g : Eq(g) <=> FoldsOver("insertion", elems, base, s, N, g)
  <2> SUFFICES ASSUME NEW g PROVE Eq(g) <=> FoldsOver("insertion", elems, base, s, N, g)
    OBVIOUS
  <2> DEFINE Mine(is) == IF is = {} THEN base
                         ELSE Sorting(elems, g[is \ {Max(is)}], s[Max(is)])
             Its(is) == IF is = {} THEN base
                        ELSE Body("insertion", elems, g[is \ {Max(is)}], s[Max(is)])
  <2> HIDE DEF s, N, base
  <2>2. \A is : Mine(is) = Its(is)
    BY DEF Body
  <2>3. Eq(g) <=> g = [is \in SUBSET (1..N) |-> Mine(is)]
    BY <1>1
  <2>4. FoldsOver("insertion", elems, base, s, N, g) <=> g = [is \in SUBSET (1..N) |-> Its(is)]
    BY DEF FoldsOver
  <2> HIDE DEF Mine, Its
  <2> QED BY <2>2, <2>3, <2>4
<1>3. array_insertionSort(elems) = iter[DOMAIN s]
  BY DEF FoldLeft, MapThenFoldSet, array_insertionSort, Sorting, PlaceFor
<1>4. Eq(iter)
  <2>1. \E g : Eq(g)
    BY <1>1, <1>2, FoldsOverExist
  <2> QED BY <2>1
<1> HIDE DEF iter
<1>5. FoldsOver("insertion", elems, base, s, N, iter)
  BY <1>2, <1>4
<1> HIDE DEF Eq, s, N, base
<1>6. \A g : FoldsOver("insertion", elems, base, s, N, g) => Traced(g)
  <2>1. 1 \in Int /\ N \in Nat /\ Upwards(s, 1, N)
    BY <1>1 DEF Upwards
  <2> QED BY <2>1, FoldsRun
<1>7. Traced(iter)
  <2> HIDE DEF Traced
  <2> QED BY <1>5, <1>6
<1>8. PICK run : Run("insertion", elems, base, 1, N, run) /\ iter[1..N] = run[N]
  BY <1>7
<1>9. array_insertionSort(elems) = run[N]
  BY <1>1, <1>3, <1>8
<1> QED BY <1>8, <1>9 DEF N, base

-----------------------------------------------------------------------------
(* What each operation makes of the elements. *)

\* From i on, array_delete puts the next element into each place.
LEMMA DeleteIs ==
    ASSUME NEW T, NEW elems \in Seq(T), NEW i \in 1..Len(elems)
    PROVE  array_delete(elems, i)
              = [j \in 1..Len(elems) |->
                    IF j = Len(elems) THEN NULL ELSE IF j >= i THEN elems[j + 1] ELSE elems[j]]
<1> DEFINE N == Len(elems)
           Moved(m) == [j \in 1..N |-> IF i <= j /\ j < i + m THEN elems[j + 1] ELSE elems[j]]
<1>1. PICK run : /\ Run("delete", {}, elems, i, N - i, run)
                 /\ array_delete(elems, i) = [run[N - i] EXCEPT ![N] = NULL]
  BY DeleteRun
<1>2. run[0] = elems /\ \A m \in 1..N - i : run[m] = Moving(run[m - 1], i + m - 1)
  BY <1>1 DEF Run, Body
<1>0. N \in Nat /\ i \in 1..N /\ N - i \in Nat
  OBVIOUS
<1> DEFINE S == {m \in 0..N - i : run[m] = Moved(m)}
<1>3. 0 \in S
  <2>1. elems = [j \in 1..N |-> elems[j]]
    OBVIOUS
  <2> HIDE DEF N
  <2>2. \A j \in 1..N : Moved(0)[j] = elems[j]
    BY <1>0
  <2>3. Moved(0) = elems
    BY <2>1, <2>2
  <2>4. run[0] = Moved(0)
    BY <1>2, <2>3
  <2> HIDE DEF Moved
  <2> QED BY <1>0, <2>4
<1> HIDE DEF N
<1>4. ASSUME NEW m \in 1..N - i, m - 1 \in S PROVE m \in S
  <2>1. run[m - 1] = Moved(m - 1)
    BY <1>4
  <2> DEFINE n == i + m - 1
             f == run[m - 1]
  <2>2. n \in i..N - 1 /\ n \in Int
    BY <1>0
  <2>3. run[m] = [f EXCEPT ![n] = f[n + 1]]
    BY <1>2 DEF Moving
  <2>4. \A j \in 1..N : f[j] = IF i <= j /\ j < n THEN elems[j + 1] ELSE elems[j]
    BY <2>1, <1>0
  <2>5. DOMAIN f = 1..N /\ f[n + 1] = elems[n + 1]
    BY <1>0, <2>1, <2>2, <2>4
  <2>6. run[m] = [j \in 1..N |-> IF j = n THEN f[n + 1] ELSE f[j]]
    BY <2>3, <2>5
  <2> HIDE DEF f
  <2>7. \A j \in 1..N : (IF j = n THEN f[n + 1] ELSE f[j]) = Moved(m)[j]
    BY <1>0, <2>2, <2>4, <2>5
  <2>8. run[m] = Moved(m)
    BY <2>6, <2>7
  <2> QED BY <2>8
<1> HIDE DEF S
<1>5. N - i \in S
  <2> DEFINE K == N - i
  <2>1. K \in Nat /\ 0 \in S /\ \A m \in 1..K : m - 1 \in S => m \in S
    BY <1>0, <1>3, <1>4
  <2> HIDE DEF K
  <2>2. \A m \in 0..K : m \in S
    BY <2>1, Counting
  <2>3. K \in S
    BY <2>1, <2>2
  <2> QED BY <2>3 DEF K
<1>6. run[N - i] = Moved(N - i)
  BY <1>5 DEF S
<1>7. \A j \in 1..N : [run[N - i] EXCEPT ![N] = NULL][j]
         = IF j = N THEN NULL ELSE IF j >= i THEN elems[j + 1] ELSE elems[j]
  BY <1>0, <1>6
<1>8. [run[N - i] EXCEPT ![N] = NULL] = [j \in 1..N |-> [run[N - i] EXCEPT ![N] = NULL][j]]
  BY <1>6
<1> QED BY <1>1, <1>7, <1>8 DEF N

\* r is the sequence s with one element taken out.
TakenOut(T, s, i, r) ==
    /\ r \in Seq(T) /\ Len(r) = Len(s) - 1
    /\ \A j \in 1..Len(s) - 1 : r[j] = IF j >= i THEN s[j + 1] ELSE s[j]

\* r is the sequence s with one element put in.
PutIn(T, s, i, e, r) ==
    /\ r \in Seq(T) /\ Len(r) = Len(s) + 1
    /\ \A j \in 1..Len(s) + 1 : r[j] = IF j = i THEN e ELSE IF j > i THEN s[j - 1] ELSE s[j]

\* What RemoveAt takes out.
LEMMA RemovalIs ==
    ASSUME NEW T, NEW s \in Seq(T), NEW i \in 1..Len(s)
    PROVE  TakenOut(T, s, i, RemoveAt(s, i))
<1> DEFINE N == Len(s)
           r == RemoveAt(s, i)
           p == SubSeq(s, 1, i - 1)
           q == SubSeq(s, i + 1, N)
<1>1. N \in Nat /\ i \in 1..N /\ i \in Int
  OBVIOUS
<1>2. \A j \in 1..N : s[j] \in T
  OBVIOUS
<1> HIDE DEF N
<1>3. \A j \in 1..i - 1 : s[j] \in T
  BY <1>1, <1>2
<1>4. \A j \in i + 1..N : s[j] \in T
  BY <1>1, <1>2
<1>5. /\ p \in Seq(T) /\ Len(p) = i - 1
      /\ \A j \in 1..i - 1 : p[j] = s[j]
  BY <1>1, <1>3, SubSeqProperties
<1>6. /\ q \in Seq(T) /\ Len(q) = N - i
      /\ \A j \in 1..N - i : q[j] = s[i + j]
  <2>1. /\ q \in Seq(T) /\ Len(q) = IF i + 1 <= N THEN N - (i + 1) + 1 ELSE 0
        /\ \A j \in 1..N - (i + 1) + 1 : q[j] = s[i + 1 + j - 1]
    BY <1>1, <1>4, SubSeqProperties
  <2>2. \A j \in 1..N - i : i + 1 + j - 1 = i + j /\ j \in 1..N - (i + 1) + 1
    BY <1>1
  <2> QED BY <1>1, <2>1, <2>2
<1> HIDE DEF p, q
<1>7. /\ p \o q \in Seq(T) /\ Len(p \o q) = Len(p) + Len(q)
      /\ \A j \in 1..Len(p) + Len(q) : (p \o q)[j] = IF j <= Len(p) THEN p[j] ELSE q[j - Len(p)]
  BY <1>5, <1>6, ConcatProperties
<1>8. r = p \o q
  BY DEF p, q, N, RemoveAt
<1> HIDE DEF r
<1>11. Len(p) + Len(q) = N - 1 /\ i - 1 \in Int
  BY <1>1, <1>5, <1>6
<1>12. r \in Seq(T) /\ Len(r) = N - 1
  BY <1>7, <1>8, <1>11
<1>13. \A j \in 1..N - 1 : r[j] = IF j <= i - 1 THEN p[j] ELSE q[j - (i - 1)]
  BY <1>5, <1>7, <1>8, <1>11
<1>9. ASSUME NEW j \in 1..N - 1 PROVE r[j] = IF j >= i THEN s[j + 1] ELSE s[j]
  <2>1. r[j] = IF j <= i - 1 THEN p[j] ELSE q[j - (i - 1)]
    BY <1>13
  <2>2. CASE j >= i
    <3>1. j - (i - 1) \in 1..N - i /\ i + (j - (i - 1)) = j + 1 /\ ~ (j <= i - 1)
      BY <1>1, <2>2
    <3>2. q[j - (i - 1)] = s[j + 1]
      BY <1>6, <3>1
    <3> QED BY <2>1, <2>2, <3>1, <3>2
  <2>3. CASE ~ (j >= i)
    <3>1. j \in 1..i - 1 /\ j <= i - 1
      BY <1>1, <2>3
    <3> QED BY <1>5, <2>1, <2>3, <3>1
  <2> QED BY <2>2, <2>3
<1> QED BY <1>9, <1>12 DEF N, r, TakenOut

\* Where InsertAt puts an element.
LEMMA InsertionIs ==
    ASSUME NEW T, NEW s \in Seq(T), NEW i \in 1..Len(s) + 1, NEW e \in T
    PROVE  PutIn(T, s, i, e, InsertAt(s, i, e))
<1> DEFINE N == Len(s)
           r == InsertAt(s, i, e)
           p == SubSeq(s, 1, i - 1)
           q == SubSeq(s, i, N)
           pe == p \o <<e>>
<1>1. N \in Nat /\ i \in 1..N + 1 /\ i \in Int
  OBVIOUS
<1>2. \A j \in 1..N : s[j] \in T
  OBVIOUS
<1> HIDE DEF N
<1>3. \A j \in 1..i - 1 : s[j] \in T
  BY <1>1, <1>2
<1>4. \A j \in i..N : s[j] \in T
  BY <1>1, <1>2
<1>5. /\ p \in Seq(T) /\ Len(p) = i - 1
      /\ \A j \in 1..i - 1 : p[j] = s[j]
  BY <1>1, <1>3, SubSeqProperties
<1>6. /\ q \in Seq(T) /\ Len(q) = N - i + 1
      /\ \A j \in 1..N - i + 1 : q[j] = s[i + j - 1]
  BY <1>1, <1>4, SubSeqProperties
<1> HIDE DEF p, q
<1>10. /\ pe \in Seq(T) /\ Len(pe) = i
       /\ \A j \in 1..i : pe[j] = IF j = i THEN e ELSE p[j]
  <2>1. <<e>> \in Seq(T) /\ Len(<<e>>) = 1 /\ <<e>>[1] = e
    OBVIOUS
  <2>2. /\ pe \in Seq(T) /\ Len(pe) = Len(p) + Len(<<e>>)
        /\ \A j \in 1..Len(p) + Len(<<e>>) :
              pe[j] = IF j <= Len(p) THEN p[j] ELSE <<e>>[j - Len(p)]
    BY <1>5, <2>1, ConcatProperties
  <2>3. \A j \in 1..i : /\ j \in 1..(i - 1) + 1
                        /\ j = i => ~ (j <= i - 1) /\ j - (i - 1) = 1
                        /\ j # i => j <= i - 1
    BY <1>1
  <2> HIDE DEF pe
  <2>4. Len(p) + Len(<<e>>) = i /\ i - 1 \in Int /\ (i - 1) + 1 = i
    BY <1>1, <1>5, <2>1
  <2>5. \A j \in 1..i : pe[j] = IF j <= i - 1 THEN p[j] ELSE <<e>>[j - (i - 1)]
    BY <1>5, <2>2, <2>4
  <2>6. \A j \in 1..i : pe[j] = IF j = i THEN e ELSE p[j]
    BY <2>1, <2>3, <2>4, <2>5
  <2> QED BY <2>2, <2>4, <2>6
<1> HIDE DEF pe
<1>7. /\ pe \o q \in Seq(T) /\ Len(pe \o q) = Len(pe) + Len(q)
      /\ \A j \in 1..Len(pe) + Len(q) :
            (pe \o q)[j] = IF j <= Len(pe) THEN pe[j] ELSE q[j - Len(pe)]
  BY <1>10, <1>6, ConcatProperties
<1>8. r = pe \o q
  BY DEF pe, p, q, N, InsertAt
<1> HIDE DEF r
<1>11. Len(pe) + Len(q) = N + 1
  BY <1>1, <1>10, <1>6
<1>12. r \in Seq(T) /\ Len(r) = N + 1
  BY <1>7, <1>8, <1>11
<1>13. \A j \in 1..N + 1 : r[j] = IF j <= i THEN pe[j] ELSE q[j - i]
  BY <1>10, <1>7, <1>8, <1>11
<1>9. ASSUME NEW j \in 1..N + 1
      PROVE  r[j] = IF j = i THEN e ELSE IF j > i THEN s[j - 1] ELSE s[j]
  <2>1. r[j] = IF j <= i THEN pe[j] ELSE q[j - i]
    BY <1>13
  <2>2. CASE j > i
    <3>1. j - i \in 1..N - i + 1 /\ i + (j - i) - 1 = j - 1 /\ ~ (j <= i) /\ j # i
      BY <1>1, <2>2
    <3>2. q[j - i] = s[j - 1]
      BY <1>6, <3>1
    <3> QED BY <2>1, <2>2, <3>1, <3>2
  <2>3. CASE ~ (j > i)
    <3>1. j \in 1..i /\ j <= i /\ (j # i => j \in 1..i - 1)
      BY <1>1, <2>3
    <3>2. r[j] = IF j = i THEN e ELSE p[j]
      BY <1>10, <2>1, <3>1
    <3> QED BY <1>5, <2>3, <3>1, <3>2
  <2> QED BY <2>2, <2>3
<1> QED BY <1>9, <1>12 DEF N, r, PutIn

\* The vector's deletion puts the same elements into the places.
LEMMA DeletesAsVector ==
    ASSUME NEW T, NEW elems \in Seq(T), NEW i \in 1..Len(elems)
    PROVE  array_delete(elems, i) = Append(RemoveAt(elems, i), NULL)
<1> DEFINE N == Len(elems)
           r == RemoveAt(elems, i)
           a == Append(r, NULL)
<1>1. N \in Nat /\ i \in 1..N
  OBVIOUS
<1>2. /\ r \in Seq(T) /\ Len(r) = N - 1
      /\ \A j \in 1..N - 1 : r[j] = IF j >= i THEN elems[j + 1] ELSE elems[j]
  BY RemovalIs DEF TakenOut
<1> HIDE DEF r
<1>3. array_delete(elems, i)
         = [j \in 1..N |-> IF j = N THEN NULL ELSE IF j >= i THEN elems[j + 1] ELSE elems[j]]
  BY DeleteIs
<1> HIDE DEF N
<1>4. r \in Seq(T \cup {NULL})
  BY <1>2
<1>5. /\ a \in Seq(T \cup {NULL}) /\ Len(a) = N
      /\ \A j \in 1..N - 1 : a[j] = r[j]
      /\ a[N] = NULL
  <2>1. /\ a \in Seq(T \cup {NULL}) /\ Len(a) = Len(r) + 1
        /\ \A j \in 1..Len(r) : a[j] = r[j]
        /\ a[Len(r) + 1] = NULL
    BY <1>4, AppendProperties
  <2>2. Len(r) = N - 1 /\ Len(r) + 1 = N
    BY <1>1, <1>2
  <2> HIDE DEF a
  <2> QED BY <2>1, <2>2
<1>6. a = [j \in 1..N |-> a[j]]
  <2> HIDE DEF a
  <2>1. DOMAIN a = 1..N /\ a = [j \in DOMAIN a |-> a[j]]
    BY <1>5
  <2> QED BY <2>1
<1> HIDE DEF a
<1>7. \A j \in 1..N :
         a[j] = IF j = N THEN NULL ELSE IF j >= i THEN elems[j + 1] ELSE elems[j]
  <2>1. \A j \in 1..N : j # N => j \in 1..N - 1
    BY <1>1
  <2> QED BY <1>2, <1>5, <2>1
<1>8. array_delete(elems, i) = a
  BY <1>3, <1>6, <1>7
<1> QED BY <1>8 DEF a, r

\* The elements from i to last move by one, where last is the first that is dead, or the end.
Dies(elems, i, dead, last) ==
    /\ last \in i..Len(elems)
    /\ last = Len(elems) \/ elems[last] \in dead
    /\ \A n \in i..last - 1 : elems[n] \notin dead

\* The elements from i to last are one place further, and e is at i.
MovedUp(elems, i, e, last) ==
    [j \in 1..Len(elems) |->
        IF j = i THEN e ELSE IF i < j /\ j <= last + 1 THEN elems[j - 1] ELSE elems[j]]

\* array_insert moves the elements up to the first dead one, and no more (array_insert).
LEMMA InsertIs ==
    ASSUME NEW T, NEW elems \in Seq(T), NEW i \in 1..Len(elems), NEW e, NEW dead, NEW last,
           Dies(elems, i, dead, last)
    PROVE  array_insert(elems, i, e, dead) = MovedUp(elems, i, e, last)
<1> DEFINE N == Len(elems)
           Moved(m) == [j \in 1..N |->
                           IF i < j /\ j <= i + m /\ j <= last + 1 THEN elems[j - 1] ELSE elems[j]]
           base == [elems |-> elems, temp |-> elems[i], done |-> FALSE]
<1>1. PICK run : /\ Run("insert", dead, base, i + 1, N - i, run)
                 /\ array_insert(elems, i, e, dead) = [run[N - i].elems EXCEPT ![i] = e]
  <2>1. \E run : /\ Run("insert", dead, [elems |-> elems, temp |-> elems[i], done |-> FALSE],
                          i + 1, Len(elems) - i, run)
                  /\ array_insert(elems, i, e, dead)
                        = [run[Len(elems) - i].elems EXCEPT ![i] = e]
    BY InsertRun
  <2> QED BY <2>1
<1>2. run[0] = base /\ \A m \in 1..N - i : run[m] = MovingUp(dead, run[m - 1], i + m)
  BY <1>1 DEF Run, Body
<1>0. N \in Nat /\ i \in 1..N /\ N - i \in Nat /\ last \in i..N /\ last \in Int /\ i \in Int
  BY DEF Dies
<1> DEFINE Holds(m) == /\ run[m].elems = Moved(m)
                       /\ run[m].done \in BOOLEAN /\ (run[m].done <=> last < i + m)
                       /\ run[m].done \/ run[m].temp = elems[i + m]
           S == {m \in 0..N - i : Holds(m)}
<1>3. Holds(0)
  <2>1. elems = [j \in 1..N |-> elems[j]]
    OBVIOUS
  <2> HIDE DEF N
  <2>2. \A j \in 1..N : Moved(0)[j] = elems[j]
    BY <1>0
  <2>3. Moved(0) = elems
    BY <2>1, <2>2
  <2> HIDE DEF Moved
  <2>4. ~ (last < i + 0) /\ i + 0 = i
    BY <1>0
  <2>5. run[0].elems = elems /\ run[0].temp = elems[i] /\ run[0].done = FALSE
    BY <1>2
  <2> QED BY <2>3, <2>4, <2>5
<1>10. /\ last = N \/ elems[last] \in dead
       /\ \A n \in i..last - 1 : elems[n] \notin dead
  BY DEF Dies
<1> HIDE DEF N
<1>4. ASSUME NEW m \in 1..N - i, Holds(m - 1) PROVE Holds(m)
  <2> DEFINE n == i + m
             s == run[m - 1]
  <2>1. n \in i + 1..N /\ n \in Int /\ n - 1 = i + (m - 1) /\ m \in Int
    BY <1>0
  <2>2. /\ s.elems = Moved(m - 1) /\ s.done \in BOOLEAN /\ (s.done <=> last < n - 1)
        /\ s.done \/ s.temp = elems[n - 1]
    BY <1>4, <2>1
  <2>3. run[m] = MovingUp(dead, s, n)
    BY <1>2
  <2> HIDE DEF s
  <2>4. CASE last < n - 1
    <3>1. run[m] = s /\ run[m].done = TRUE
      BY <2>2, <2>3, <2>4 DEF MovingUp
    <3>2. \A j \in 1..N : Moved(m)[j] = Moved(m - 1)[j]
      BY <1>0, <2>1, <2>4
    <3>3. Moved(m) = Moved(m - 1)
      BY <3>2
    <3>4. last < n
      BY <1>0, <2>1, <2>4
    <3> QED BY <2>2, <3>1, <3>3, <3>4
  <2>5. CASE ~ (last < n - 1)
    <3>1. s.done = FALSE /\ s.temp = elems[n - 1]
      BY <2>2, <2>5
    <3>2. /\ run[m].elems = [s.elems EXCEPT ![n] = elems[n - 1]]
          /\ run[m].temp = s.elems[n]
          /\ run[m].done \in BOOLEAN /\ (run[m].done <=> elems[n - 1] \in dead)
      <4>1. /\ run[m].elems = [s.elems EXCEPT ![n] = elems[n - 1]]
            /\ run[m].temp = s.elems[n] /\ run[m].done = (elems[n - 1] \in dead)
        BY <2>3, <3>1 DEF MovingUp
      <4>2. CASE elems[n - 1] \in dead
        <5>1. (elems[n - 1] \in dead) = TRUE
          BY <4>2
        <5> QED BY <4>1, <4>2, <5>1
      <4>3. CASE elems[n - 1] \notin dead
        <5>1. (elems[n - 1] \in dead) = FALSE
          BY <4>3
        <5> QED BY <4>1, <4>3, <5>1
      <4> QED BY <4>2, <4>3
    <3>3. \A j \in 1..N : [s.elems EXCEPT ![n] = elems[n - 1]][j] = Moved(m)[j]
      <4>1. \A j \in 1..N : [s.elems EXCEPT ![n] = elems[n - 1]][j]
                              = IF j = n THEN elems[n - 1] ELSE s.elems[j]
        BY <2>1, <2>2
      <4>2. \A j \in 1..N :
               /\ s.elems[j] = IF i < j /\ j <= n - 1 /\ j <= last + 1 THEN elems[j - 1]
                               ELSE elems[j]
               /\ Moved(m)[j] = IF i < j /\ j <= n /\ j <= last + 1 THEN elems[j - 1] ELSE elems[j]
        BY <2>1, <2>2
      <4>3. n <= last + 1 /\ i < n
        BY <1>0, <2>1, <2>5
      <4> HIDE DEF Moved
      <4>4. \A j \in 1..N : j # n => (j <= n <=> j <= n - 1)
        BY <1>0, <2>1
      <4> QED BY <2>1, <4>1, <4>2, <4>3, <4>4
    <3>4. [s.elems EXCEPT ![n] = elems[n - 1]] = Moved(m)
      BY <2>2, <3>3
    <3>5. s.elems[n] = elems[n]
      BY <1>0, <2>1, <2>2
    <3>6. elems[n - 1] \in dead <=> last < n
      <4>1. CASE last = n - 1
        BY <1>0, <1>10, <2>1, <4>1
      <4>2. CASE last # n - 1
        <5>1. n - 1 \in i..last - 1 /\ ~ (last < n)
          BY <1>0, <2>1, <2>5, <4>2
        <5> QED BY <1>10, <5>1
      <4> QED BY <4>1, <4>2
    <3>7. run[m].elems = Moved(m)
      BY <2>2, <3>2, <3>4
    <3>8. run[m].done \in BOOLEAN /\ (run[m].done <=> last < i + m)
      BY <3>2, <3>6
    <3>9. run[m].temp = elems[i + m]
      BY <3>2, <3>5
    <3> QED BY <3>7, <3>8, <3>9
  <2> QED BY <2>4, <2>5
<1> HIDE DEF Holds
<1>5. N - i \in S
  <2>1. 0 \in S
    BY <1>0, <1>3
  <2>2. ASSUME NEW m \in 1..N - i, m - 1 \in S PROVE m \in S
    BY <1>0, <1>4, <2>2
  <2>3. N - i \in Nat
    BY <1>0
  <2> HIDE DEF S
  <2>4. \A m \in 0..N - i : m \in S
    BY <2>1, <2>2, <2>3, Counting
  <2> QED BY <2>3, <2>4
<1>6. run[N - i].elems = Moved(N - i)
  BY <1>5 DEF S, Holds
<1>7. \A j \in 1..N : [Moved(N - i) EXCEPT ![i] = e][j]
         = IF j = i THEN e ELSE IF i < j /\ j <= last + 1 THEN elems[j - 1] ELSE elems[j]
  BY <1>0
<1>8. [Moved(N - i) EXCEPT ![i] = e] = [j \in 1..N |-> [Moved(N - i) EXCEPT ![i] = e][j]]
  OBVIOUS
<1> QED BY <1>1, <1>6, <1>7, <1>8 DEF N, MovedUp

\* The vector's insertion, if the last element is lost.
LEMMA InsertsAsVector ==
    ASSUME NEW T, NEW elems \in Seq(T), NEW i \in 1..Len(elems), NEW e \in T, NEW dead,
           Dies(elems, i, dead, Len(elems))
    PROVE  array_insert(elems, i, e, dead) = SubSeq(InsertAt(elems, i, e), 1, Len(elems))
<1> DEFINE N == Len(elems)
           r == InsertAt(elems, i, e)
           a == SubSeq(r, 1, N)
<1>1. N \in Nat /\ i \in 1..N /\ i \in 1..N + 1
  OBVIOUS
<1>2. array_insert(elems, i, e, dead)
         = [j \in 1..N |->
              IF j = i THEN e ELSE IF i < j /\ j <= N + 1 THEN elems[j - 1] ELSE elems[j]]
  <2>2. array_insert(elems, i, e, dead) = MovedUp(elems, i, e, N)
    BY InsertIs
  <2> QED BY <2>2 DEF MovedUp
<1>9. PutIn(T, elems, i, e, r)
  BY <1>1, InsertionIs
<1>3. \A j \in 1..N + 1 : r[j] = IF j = i THEN e ELSE IF j > i THEN elems[j - 1] ELSE elems[j]
  <2> HIDE DEF r
  <2> QED BY <1>9 DEF PutIn
<1>4. r \in Seq(T) /\ Len(r) = N + 1
  <2> HIDE DEF r
  <2> QED BY <1>9 DEF PutIn
<1> HIDE DEF r
<1> HIDE DEF N
<1>5. a \in Seq(T) /\ Len(a) = N /\ \A j \in 1..N : a[j] = r[j]
  <2>1. \A j \in 1..N : r[j] \in T
    BY <1>1, <1>4
  <2> QED BY <1>1, <2>1, SubSeqProperties
<1> HIDE DEF a
<1>6. a = [j \in 1..N |-> a[j]]
  <2>1. DOMAIN a = 1..N /\ a = [j \in DOMAIN a |-> a[j]]
    BY <1>5
  <2> QED BY <2>1
<1>7. \A j \in 1..N :
         a[j] = IF j = i THEN e ELSE IF i < j /\ j <= N + 1 THEN elems[j - 1] ELSE elems[j]
  <2>1. \A j \in 1..N : j \in 1..N + 1 /\ j <= N + 1 /\ (i < j <=> j > i)
    BY <1>1
  <2> QED BY <1>3, <1>5, <2>1
<1>8. array_insert(elems, i, e, dead) = a
  BY <1>2, <1>6, <1>7
<1> QED BY <1>8 DEF a, r, N

\* The vector's insertion, if the element behind the first dead one is lost.
LEMMA InsertsBeforeDead ==
    ASSUME NEW T, NEW elems \in Seq(T), NEW i \in 1..Len(elems), NEW e \in T, NEW dead,
           NEW last, Dies(elems, i, dead, last), last < Len(elems)
    PROVE  array_insert(elems, i, e, dead) = InsertAt(RemoveAt(elems, last + 1), i, e)
<1> DEFINE N == Len(elems)
           w == RemoveAt(elems, last + 1)
           r == InsertAt(w, i, e)
<1>1. N \in Nat /\ i \in 1..N /\ last \in i..N - 1 /\ last + 1 \in 1..N
  BY DEF Dies
<1>2. array_insert(elems, i, e, dead)
         = [j \in 1..N |->
              IF j = i THEN e ELSE IF i < j /\ j <= last + 1 THEN elems[j - 1] ELSE elems[j]]
  <2>1. array_insert(elems, i, e, dead) = MovedUp(elems, i, e, last)
    BY InsertIs
  <2> QED BY <2>1 DEF MovedUp
<1>6. /\ w \in Seq(T) /\ Len(w) = N - 1
      /\ \A j \in 1..N - 1 : w[j] = IF j >= last + 1 THEN elems[j + 1] ELSE elems[j]
  BY <1>1, RemovalIs DEF TakenOut
<1> HIDE DEF w, N
<1>7. i \in 1..Len(w) + 1 /\ Len(w) + 1 = N
  BY <1>1, <1>6
<1>8. /\ r \in Seq(T) /\ Len(r) = Len(w) + 1
      /\ \A j \in 1..Len(w) + 1 :
            r[j] = IF j = i THEN e ELSE IF j > i THEN w[j - 1] ELSE w[j]
  <2>1. PutIn(T, w, i, e, r)
    BY <1>6, <1>7, InsertionIs
  <2> HIDE DEF r
  <2> QED BY <2>1 DEF PutIn
<1> HIDE DEF r
<1>3. /\ \A j \in 1..N - 1 : w[j] = IF j >= last + 1 THEN elems[j + 1] ELSE elems[j]
      /\ \A j \in 1..N : r[j] = IF j = i THEN e ELSE IF j > i THEN w[j - 1] ELSE w[j]
  BY <1>6, <1>7, <1>8
<1>4. r = [j \in 1..N |-> r[j]]
  <2>1. DOMAIN r = 1..N /\ r = [j \in DOMAIN r |-> r[j]]
    BY <1>7, <1>8
  <2> QED BY <2>1
<1>5. ASSUME NEW j \in 1..N
      PROVE  r[j] = IF j = i THEN e ELSE IF i < j /\ j <= last + 1 THEN elems[j - 1] ELSE elems[j]
  <2>1. CASE j > i
    <3>1. j - 1 \in 1..N - 1 /\ (j - 1) + 1 = j /\ (j - 1 >= last + 1 <=> ~ (j <= last + 1))
      BY <1>1, <2>1
    <3>2. w[j - 1] = IF j <= last + 1 THEN elems[j - 1] ELSE elems[j]
      BY <1>3, <3>1
    <3>3. j # i /\ i < j
      BY <1>1, <2>1
    <3> QED BY <1>3, <2>1, <3>2, <3>3
  <2>2. CASE j < i
    <3>1. j \in 1..N - 1 /\ ~ (j >= last + 1) /\ j # i /\ ~ (j > i) /\ ~ (i < j)
      BY <1>1, <2>2
    <3> QED BY <1>3, <3>1
  <2>3. CASE j = i
    BY <1>3, <2>3
  <2> QED BY <1>1, <2>1, <2>2, <2>3
<1> QED BY <1>2, <1>4, <1>5 DEF N, w, r

\* The elements at both ends change places until the middle.
LEMMA ReverseIs ==
    ASSUME NEW T, NEW elems \in Seq(T)
    PROVE  array_reverse(elems) = [j \in 1..Len(elems) |-> elems[Len(elems) - j + 1]]
<1> DEFINE N == Len(elems)
           K == N \div 2
           Turned(m) == [j \in 1..N |-> IF j <= m \/ j > N - m THEN elems[N - j + 1] ELSE elems[j]]
<1>1. PICK run : /\ Run("reverse", N, elems, 1, K, run)
                 /\ array_reverse(elems) = run[K]
  BY ReverseRun
<1>2. N \in Nat /\ K \in Nat /\ (2 * K = N \/ 2 * K + 1 = N)
  OBVIOUS
<1>3. elems \in [1..N -> T]
  OBVIOUS
<1> HIDE DEF N, K
<1>4. run[0] = elems /\ \A m \in 1..K : run[m] = Swapped(run[m - 1], m, N - m + 1)
  <2>1. \A m \in 1..K : run[m] = Swapped(run[m - 1], 1 + m - 1, N - (1 + m - 1) + 1)
    BY <1>1 DEF Run, Body
  <2>2. \A m \in 1..K : 1 + m - 1 = m
    BY <1>2
  <2> QED BY <1>1, <2>1, <2>2 DEF Run
<1> DEFINE S == {m \in 0..K : run[m] = Turned(m)}
<1>5. run[0] = Turned(0)
  <2>1. elems = [j \in 1..N |-> elems[j]]
    BY <1>3
  <2>2. \A j \in 1..N : Turned(0)[j] = elems[j]
    BY <1>2
  <2> QED BY <1>4, <2>1, <2>2
<1>6. ASSUME NEW m \in 1..K, run[m - 1] = Turned(m - 1) PROVE run[m] = Turned(m)
  <2> DEFINE f == Turned(m - 1)
             k == N - m + 1
  <2>1. m \in 1..N /\ k \in 1..N /\ m < k /\ m \in Int /\ k \in Int
    BY <1>2
  <2>2. \A j \in 1..N : f[j] = IF j <= m - 1 \/ j > N - (m - 1) THEN elems[N - j + 1] ELSE elems[j]
    OBVIOUS
  <2>3. f[m] = elems[m] /\ f[k] = elems[k] /\ N - m + 1 = k /\ N - k + 1 = m
    BY <1>2, <2>1, <2>2
  <2>4. DOMAIN f = 1..N
    OBVIOUS
  <2>5. run[m] = [f EXCEPT ![m] = f[k], ![k] = f[m]]
    BY <1>4, <1>6 DEF Swapped
  <2> HIDE DEF f, k
  <2>6. run[m] = [j \in 1..N |-> IF j = k THEN f[m] ELSE IF j = m THEN f[k] ELSE f[j]]
    BY <2>1, <2>4, <2>5
  <2>7. ASSUME NEW j \in 1..N
        PROVE  (IF j = k THEN f[m] ELSE IF j = m THEN f[k] ELSE f[j]) = Turned(m)[j]
    <3>1. Turned(m)[j] = IF j <= m \/ j > N - m THEN elems[N - j + 1] ELSE elems[j]
      OBVIOUS
    <3>2. CASE j = k
      <4>1. j > N - m
        BY <1>2, <2>1, <3>2 DEF k
      <4> QED BY <2>3, <3>1, <3>2, <4>1
    <3>3. CASE j = m /\ j # k
      BY <2>1, <2>3, <3>1, <3>3
    <3>4. CASE j # m /\ j # k
      <4>1. (j <= m - 1 \/ j > N - (m - 1)) <=> (j <= m \/ j > N - m)
        BY <1>2, <2>1, <3>4 DEF k
      <4> QED BY <2>2, <3>1, <3>4, <4>1
    <3> QED BY <3>2, <3>3, <3>4
  <2> QED BY <2>6, <2>7
<1> HIDE DEF Turned
<1>7. run[K] = Turned(K)
  <2>1. 0 \in S
    BY <1>2, <1>5
  <2>2. ASSUME NEW m \in 1..K, m - 1 \in S PROVE m \in S
    BY <1>2, <1>6, <2>2
  <2> HIDE DEF S
  <2>3. \A m \in 0..K : m \in S
    BY <1>2, <2>1, <2>2, Counting
  <2>4. K \in S
    BY <1>2, <2>3
  <2> QED BY <2>4 DEF S
<1>8. \A j \in 1..N : Turned(K)[j] = elems[N - j + 1]
  <2> SUFFICES ASSUME NEW j \in 1..N PROVE Turned(K)[j] = elems[N - j + 1]
    OBVIOUS
  <2>1. Turned(K)[j] = IF j <= K \/ j > N - K THEN elems[N - j + 1] ELSE elems[j]
    BY DEF Turned
  <2>2. CASE j <= K \/ j > N - K
    BY <2>1, <2>2
  <2>3. CASE ~ (j <= K \/ j > N - K)
    <3>1. N - j + 1 = j
      BY <1>2, <2>3
    <3> QED BY <2>1, <2>3, <3>1
  <2> QED BY <2>2, <2>3
<1>9. Turned(K) = [j \in 1..N |-> Turned(K)[j]]
  BY DEF Turned
<1> QED BY <1>1, <1>7, <1>8, <1>9 DEF N, K

-----------------------------------------------------------------------------
(* The loops that put the elements in another order. *)

\* The ways to order n elements.
OrdersOf(n) == {p \in [1..n -> 1..n] : IsInjective(p)}

\* The elements in such an order.
Ordering(elems, p) == [x \in 1..Len(elems) |-> elems[p[x]]]

\* If two places of an order change their elements, no element is lost or doubled.
LEMMA SwapInjects ==
    ASSUME NEW n \in Nat, NEW p \in OrdersOf(n), NEW i \in 1..n, NEW j \in 1..n
    PROVE  Swapped(p, i, j) \in OrdersOf(n)
<1> DEFINE q == Swapped(p, i, j)
<1>1. p \in [1..n -> 1..n] /\ \A a, b \in 1..n : p[a] = p[b] => a = b
  BY DEF OrdersOf, IsInjective
<1>2. /\ q \in [1..n -> 1..n]
      /\ \A x \in 1..n : q[x] = IF x = j THEN p[i] ELSE IF x = i THEN p[j] ELSE p[x]
  BY <1>1 DEF Swapped
<1> HIDE DEF q
<1>3. \A a, b \in 1..n : q[a] = q[b] => a = b
  BY <1>1, <1>2
<1>4. IsInjective(q)
  BY <1>2, <1>3 DEF IsInjective
<1> QED BY <1>2, <1>4 DEF q, OrdersOf

\* Whatever two elements of an ordering change places, it stays one.
LEMMA SwapOrders ==
    ASSUME NEW T, NEW elems \in Seq(T), NEW p \in OrdersOf(Len(elems)),
           NEW i \in 1..Len(elems), NEW j \in 1..Len(elems)
    PROVE  Swapped(Ordering(elems, p), i, j) = Ordering(elems, Swapped(p, i, j))
<1> DEFINE N == Len(elems)
           f == Ordering(elems, p)
           q == Swapped(p, i, j)
<1>1. N \in Nat /\ i \in 1..N /\ j \in 1..N /\ p \in [1..N -> 1..N]
  BY DEF OrdersOf
<1>2. DOMAIN f = 1..N /\ \A x \in 1..N : f[x] = elems[p[x]]
  BY DEF Ordering
<1>3. \A x \in 1..N : q[x] = IF x = j THEN p[i] ELSE IF x = i THEN p[j] ELSE p[x]
  BY <1>1 DEF Swapped
<1>4. \A x \in 1..N :
         Swapped(f, i, j)[x] = IF x = j THEN f[i] ELSE IF x = i THEN f[j] ELSE f[x]
  BY <1>1, <1>2 DEF Swapped
<1>5. Swapped(f, i, j) = [x \in 1..N |-> Swapped(f, i, j)[x]]
  <2> HIDE DEF f
  <2> QED BY <1>2 DEF Swapped
<1> HIDE DEF f, q
<1>6. \A x \in 1..N : Swapped(f, i, j)[x] = elems[q[x]]
  BY <1>1, <1>2, <1>3, <1>4
<1>7. Swapped(f, i, j) = [x \in 1..N |-> elems[q[x]]]
  BY <1>5, <1>6
<1> QED BY <1>7 DEF Ordering, f, q

\* The elements as they are are in an order too: the loops begin with it.
LEMMA NoOrder ==
    ASSUME NEW T, NEW elems \in Seq(T)
    PROVE  /\ [x \in 1..Len(elems) |-> x] \in OrdersOf(Len(elems))
           /\ Ordering(elems, [x \in 1..Len(elems) |-> x]) = elems
<1>1. elems = [x \in 1..Len(elems) |-> elems[x]]
  OBVIOUS
<1>2. Ordering(elems, [x \in 1..Len(elems) |-> x]) = [x \in 1..Len(elems) |-> elems[x]]
  BY DEF Ordering
<1> QED BY <1>1, <1>2 DEF OrdersOf, IsInjective

\* Elements in another order are as many, and each is one of the elements.
LEMMA OrderingIs ==
    ASSUME NEW T, NEW elems \in Seq(T), NEW p \in OrdersOf(Len(elems))
    PROVE  /\ Ordering(elems, p) \in Seq(T) /\ Len(Ordering(elems, p)) = Len(elems)
           /\ \A x \in 1..Len(elems) : Ordering(elems, p)[x] = elems[p[x]]
BY DEF OrdersOf, Ordering

\* A shuffle orders the elements in some way, whatever places rand() chooses.
LEMMA ShuffleOrders ==
    ASSUME NEW T, NEW elems \in Seq(T), NEW chosen \in [1..Len(elems) -> 1..Len(elems)]
    PROVE  \E p \in OrdersOf(Len(elems)) : Shuffling(elems, chosen) = Ordering(elems, p)
<1> DEFINE N == Len(elems)
<1>1. PICK run : Run("shuffle", chosen, elems, 1, N, run) /\ Shuffling(elems, chosen) = run[N]
  BY ShuffleRun
<1>2. N \in Nat
  OBVIOUS
<1>3. run[0] = elems /\ \A m \in 1..N : run[m] = Swapped(run[m - 1], m, chosen[m])
  <2>1. \A m \in 1..N : run[m] = Swapped(run[m - 1], 1 + m - 1, chosen[1 + m - 1])
    BY <1>1 DEF Run, Body
  <2>2. \A m \in 1..N : 1 + m - 1 = m
    OBVIOUS
  <2> QED BY <1>1, <2>1, <2>2 DEF Run
<1> DEFINE Holds(m) == \E p \in OrdersOf(N) : run[m] = Ordering(elems, p)
           S == {m \in 0..N : Holds(m)}
<1>4. Holds(0)
  BY <1>3, NoOrder
<1>5. ASSUME NEW m \in 1..N, Holds(m - 1) PROVE Holds(m)
  <2>1. PICK p \in OrdersOf(N) : run[m - 1] = Ordering(elems, p)
    BY <1>5
  <2>2. chosen[m] \in 1..N
    OBVIOUS
  <2>3. run[m] = Ordering(elems, Swapped(p, m, chosen[m]))
    BY <1>3, <2>1, <2>2, SwapOrders
  <2>4. Swapped(p, m, chosen[m]) \in OrdersOf(N)
    BY <2>2, SwapInjects
  <2> QED BY <2>3, <2>4
<1> HIDE DEF Holds, N
<1>6. Holds(N)
  <2>1. 0 \in S
    BY <1>2, <1>4
  <2>2. ASSUME NEW m \in 1..N, m - 1 \in S PROVE m \in S
    BY <1>2, <1>5, <2>2
  <2> HIDE DEF S
  <2>3. \A m \in 0..N : m \in S
    BY <1>2, <2>1, <2>2, Counting
  <2>4. N \in S
    BY <1>2, <2>3
  <2> QED BY <2>4 DEF S
<1> QED BY <1>1, <1>6 DEF Holds, N

\* The inner loop finds the first of the smallest elements from n on.
LEMMA SmallestIs ==
    ASSUME NEW T, NEW es \in Seq(T), NEW n \in 1..Len(es)
    PROVE  /\ Smallest(es, n) \in n..Len(es)
           /\ (\A x \in 1..Len(es) : Rank[es[x]] \in Nat)
              => \A x \in n..Len(es) : Rank[es[Smallest(es, n)]] <= Rank[es[x]]
<1> DEFINE N == Len(es)
           K == N - n
           Numbers == \A x \in 1..N : Rank[es[x]] \in Nat
<1>1. PICK run : Run("smallest", es, n, n + 1, K, run) /\ Smallest(es, n) = run[K]
  BY SmallestRun
<1>2. N \in Nat /\ n \in 1..N /\ K \in Nat /\ K <= N /\ n + K = N /\ n \in Int
  OBVIOUS
<1> HIDE DEF N, K
<1>3. /\ run[0] = n
      /\ \A m \in 1..K :
            run[m] = IF Smaller(es[n + m], es[run[m - 1]]) THEN n + m ELSE run[m - 1]
  <2>1. \A m \in 1..K :
           run[m] = IF Smaller(es[n + 1 + m - 1], es[run[m - 1]]) THEN n + 1 + m - 1
                    ELSE run[m - 1]
    BY <1>1 DEF Run, Body
  <2>2. \A m \in 1..K : n + 1 + m - 1 = n + m
    BY <1>2
  <2> QED BY <1>1, <2>1, <2>2 DEF Run
<1> DEFINE Holds(m) == /\ run[m] \in n..n + m
                       /\ Numbers => \A x \in n..n + m : Rank[es[run[m]]] <= Rank[es[x]]
           S == {m \in 0..K : Holds(m)}
<1>4. Holds(0)
  <2>1. run[0] \in n..n + 0 /\ \A x \in n..n + 0 : x = n
    BY <1>2, <1>3
  <2>2. ASSUME Numbers PROVE \A x \in n..n + 0 : Rank[es[run[0]]] <= Rank[es[x]]
    <3>1. Rank[es[n]] \in Nat
      BY <1>2, <2>2
    <3>2. Rank[es[n]] <= Rank[es[n]]
      BY <3>1
    <3> QED BY <1>3, <2>1, <3>2
  <2> QED BY <2>1, <2>2
<1>5. ASSUME NEW m \in 1..K, Holds(m - 1) PROVE Holds(m)
  <2> DEFINE k == run[m - 1]
             y == n + m
  <2>1. /\ k \in n..y - 1 /\ k \in 1..N /\ y \in n..N /\ y \in 1..N /\ y \in Int
        /\ n + (m - 1) = y - 1
    BY <1>2, <1>5
  <2>2. run[m] = IF Smaller(es[y], es[k]) THEN y ELSE k
    BY <1>3
  <2>3. run[m] \in n..y
    BY <1>2, <2>1, <2>2
  <2>4. ASSUME Numbers PROVE \A x \in n..y : Rank[es[run[m]]] <= Rank[es[x]]
    <3>1. \A x \in n..y - 1 : Rank[es[k]] <= Rank[es[x]]
      BY <1>5, <2>1, <2>4
    <3>2. Rank[es[y]] \in Nat /\ Rank[es[k]] \in Nat
      BY <2>1, <2>4
    <3> SUFFICES ASSUME NEW x \in n..y PROVE Rank[es[run[m]]] <= Rank[es[x]]
      OBVIOUS
    <3>3. x \in 1..N /\ (x = y \/ x \in n..y - 1)
      BY <1>2, <2>1
    <3>4. Rank[es[x]] \in Nat
      BY <2>4, <3>3
    <3> HIDE DEF k, y
    <3>5. CASE Rank[es[y]] < Rank[es[k]]
      <4>1. run[m] = y
        BY <2>2, <3>5 DEF Smaller
      <4> QED BY <3>1, <3>2, <3>3, <3>4, <3>5, <4>1
    <3>6. CASE ~ (Rank[es[y]] < Rank[es[k]])
      <4>1. run[m] = k
        BY <2>2, <3>6 DEF Smaller
      <4> QED BY <3>1, <3>2, <3>3, <3>4, <3>6, <4>1
    <3> QED BY <3>5, <3>6
  <2> QED BY <2>3, <2>4
<1> HIDE DEF Holds
<1>6. Holds(K)
  <2>1. 0 \in S
    BY <1>2, <1>4
  <2>2. ASSUME NEW m \in 1..K, m - 1 \in S PROVE m \in S
    BY <1>2, <1>5, <2>2
  <2> HIDE DEF S
  <2>3. \A m \in 0..K : m \in S
    BY <1>2, <2>1, <2>2, Counting
  <2>4. K \in S
    BY <1>2, <2>3
  <2> QED BY <2>4 DEF S
<1> QED BY <1>1, <1>2, <1>6 DEF Holds, N

\* The selection sort orders the elements by their ranks.
LEMMA SelectionSorts ==
    ASSUME NEW T, NEW elems \in Seq(T)
    PROVE  \E p \in OrdersOf(Len(elems)) :
              /\ array_selectionSort(elems) = Ordering(elems, p)
              /\ (\A x \in 1..Len(elems) : Rank[elems[x]] \in Nat)
                 => \A a, b \in 1..Len(elems) : a < b => Rank[elems[p[a]]] <= Rank[elems[p[b]]]
<1> DEFINE N == Len(elems)
           Numbers == \A x \in 1..N : Rank[elems[x]] \in Nat
           UpToIs(p, m) ==
               \A a \in 1..m, b \in 1..N : a < b => Rank[elems[p[a]]] <= Rank[elems[p[b]]]
<1>1. PICK run : Run("selection", {}, elems, 1, N, run) /\ array_selectionSort(elems) = run[N]
  BY SelectionRun
<1>2. N \in Nat
  OBVIOUS
<1>3. run[0] = elems /\ \A m \in 1..N : run[m] = Swapped(run[m - 1], m, Smallest(run[m - 1], m))
  <2>1. \A m \in 1..N :
           run[m] = Swapped(run[m - 1], 1 + m - 1, Smallest(run[m - 1], 1 + m - 1))
    BY <1>1 DEF Run, Body
  <2>2. \A m \in 1..N : 1 + m - 1 = m
    OBVIOUS
  <2> QED BY <1>1, <2>1, <2>2 DEF Run
<1> DEFINE Holds(m) == \E p \in OrdersOf(N) : /\ run[m] = Ordering(elems, p)
                                              /\ Numbers => UpToIs(p, m)
           S == {m \in 0..N : Holds(m)}
<1>4. Holds(0)
  <2> DEFINE p == [x \in 1..N |-> x]
  <2>1. p \in OrdersOf(N) /\ run[0] = Ordering(elems, p)
    BY <1>3, NoOrder
  <2>2. UpToIs(p, 0)
    OBVIOUS
  <2> HIDE DEF p
  <2> QED BY <2>1, <2>2
<1>5. ASSUME NEW m \in 1..N, Holds(m - 1) PROVE Holds(m)
  <2>1. PICK p \in OrdersOf(N) : /\ run[m - 1] = Ordering(elems, p)
                                 /\ Numbers => UpToIs(p, m - 1)
    BY <1>5
  <2> DEFINE es == Ordering(elems, p)
             k == Smallest(es, m)
             q == Swapped(p, m, k)
  <2>2. es \in Seq(T) /\ Len(es) = N /\ \A x \in 1..N : es[x] = elems[p[x]]
    BY OrderingIs
  <2>3. p \in [1..N -> 1..N]
    BY DEF OrdersOf
  <2> HIDE DEF es
  <2>4. /\ k \in m..N
        /\ (\A x \in 1..N : Rank[es[x]] \in Nat) => \A x \in m..N : Rank[es[k]] <= Rank[es[x]]
    BY <2>2, SmallestIs
  <2> HIDE DEF N, k
  <2>5. k \in 1..N /\ m \in Int /\ k >= m
    BY <1>2, <2>4
  <2>6. run[m] = Ordering(elems, q) /\ q \in OrdersOf(N)
    <3>1. run[m] = Swapped(es, m, k)
      BY <1>3, <2>1 DEF es, k
    <3> QED BY <1>2, <2>5, <3>1, SwapInjects, SwapOrders DEF es, N
  <2>7. \A x \in 1..N : q[x] = IF x = k THEN p[m] ELSE IF x = m THEN p[k] ELSE p[x]
    BY <2>3, <2>5 DEF Swapped
  <2> HIDE DEF q
  <2>8. ASSUME Numbers PROVE UpToIs(q, m)
    <3> DEFINE r == [x \in 1..N |-> Rank[elems[p[x]]]]
    <3>1. \A x \in 1..N : r[x] \in Nat
      BY <2>3, <2>8
    <3>2. \A x \in m..N : r[k] <= r[x]
      <4>1. \A x \in 1..N : Rank[es[x]] = r[x]
        BY <2>2
      <4>2. \A x \in m..N : x \in 1..N
        BY <1>2
      <4> HIDE DEF r
      <4> QED BY <2>4, <2>5, <3>1, <4>1, <4>2
    <3>3. \A a \in 1..m - 1, b \in 1..N : a < b => r[a] <= r[b]
      BY <1>2, <2>1, <2>8
    <3>4. \A x \in 1..N : Rank[elems[q[x]]] = IF x = k THEN r[m] ELSE IF x = m THEN r[k] ELSE r[x]
      BY <2>5, <2>7
    <3> HIDE DEF r
    <3>5. ASSUME NEW a \in 1..m, NEW b \in 1..N, a < b
          PROVE  Rank[elems[q[a]]] <= Rank[elems[q[b]]]
      <4>1. a \in 1..N /\ m \in 1..N /\ m \in m..N
        BY <1>2
      <4>2. CASE a = m
        <5>1. Rank[elems[q[a]]] = r[k]
          BY <3>4, <4>1, <4>2
        <5>2. b \in m..N
          BY <1>2, <3>5, <4>2
        <5> QED BY <3>2, <3>4, <3>5, <4>1, <4>2, <5>1, <5>2
      <4>3. CASE a # m
        <5>1. a \in 1..m - 1 /\ a # k /\ a < m /\ a < k
          BY <1>2, <2>5, <4>3
        <5>2. Rank[elems[q[a]]] = r[a]
          BY <3>4, <4>1, <4>3, <5>1
        <5>3. r[a] <= r[m] /\ r[a] <= r[k] /\ r[a] <= r[b]
          BY <2>5, <3>3, <3>5, <4>1, <5>1
        <5> QED BY <3>4, <5>2, <5>3
      <4> QED BY <4>2, <4>3
    <3> QED BY <3>5
  <2> QED BY <2>6, <2>8
<1> HIDE DEF Holds, N
<1>6. Holds(N)
  <2>1. 0 \in S
    BY <1>2, <1>4
  <2>2. ASSUME NEW m \in 1..N, m - 1 \in S PROVE m \in S
    BY <1>2, <1>5, <2>2
  <2> HIDE DEF S
  <2>3. \A m \in 0..N : m \in S
    BY <1>2, <2>1, <2>2, Counting
  <2>4. N \in S
    BY <1>2, <2>3
  <2> QED BY <2>4 DEF S
<1> QED BY <1>1, <1>6 DEF Holds, N

\* The place of an element is the first that is nil or holds a larger one.
LEMMA PlaceIs ==
    ASSUME NEW elems, NEW new, NEW n \in Nat, NEW m \in 1..n,
           new[m] = NULL \/ Smaller(elems[n], new[m]),
           \A x \in 1..m - 1 : ~ (new[x] = NULL \/ Smaller(elems[n], new[x]))
    PROVE  PlaceFor(elems, new, n) = m
<1> DEFINE Fits(x) == new[x] = NULL \/ Smaller(elems[n], new[x])
           I == {x \in 1..Len(Upto(1, n)) : Fits(Upto(1, n)[x])}
<1>1. Len(Upto(1, n)) = n /\ \A x \in 1..n : Upto(1, n)[x] = x
  BY DEF Upto
<1>2. Fits(m) /\ \A x \in 1..m - 1 : ~ Fits(x)
  OBVIOUS
<1>3. PlaceFor(elems, new, n) = IF I # {} THEN Min(I) ELSE 0
  BY DEF PlaceFor, SelectInSeq
<1> HIDE DEF Fits
<1>4. I = {x \in 1..n : Fits(x)}
  BY <1>1
<1> HIDE DEF I
<1>5. m \in I /\ \A x \in I : m <= x
  BY <1>2, <1>4
<1>6. Min(I) = m
  <2>1. I \subseteq Int
    BY <1>4
  <2>2. \A x \in I : (\A y \in I : x <= y) => x = m
    BY <1>5, <2>1
  <2> QED BY <1>5, <2>2 DEF Min
<1> QED BY <1>3, <1>5, <1>6

\* The first r places are filled, and m is the first where the n-th element fits.
FitsAt(elems, new, n, r, m) ==
    /\ r \in 0..n - 1 /\ m \in 1..r + 1
    /\ \A x \in 1..r : new[x] # NULL
    /\ \A x \in r + 1..Len(new) : new[x] = NULL
    /\ m = r + 1 \/ Smaller(elems[n], new[m])
    /\ \A x \in 1..m - 1 : ~ Smaller(elems[n], new[x])

\* The n-th element is at m, and those behind it are one place further, up to the first nil.
PutAt(elems, new, n, r, m) ==
    [j \in 1..Len(new) |->
        IF j = m THEN elems[n] ELSE IF m < j /\ j <= r + 1 THEN new[j - 1] ELSE new[j]]

\* The body of the insertion sort moves what comes behind the place, up to the first nil.
LEMMA SortingIs ==
    ASSUME NEW T, NEW elems, NEW new \in Seq(T), NEW n \in 1..Len(new), NEW r, NEW m,
           FitsAt(elems, new, n, r, m)
    PROVE  Sorting(elems, new, n) = PutAt(elems, new, n, r, m)
<1> DEFINE N == Len(new)
<1>7. /\ r \in 0..n - 1 /\ m \in 1..r + 1
      /\ \A x \in 1..r : new[x] # NULL
      /\ \A x \in r + 1..N : new[x] = NULL
      /\ m = r + 1 \/ Smaller(elems[n], new[m])
      /\ \A x \in 1..m - 1 : ~ Smaller(elems[n], new[x])
  BY DEF FitsAt
<1> SUFFICES Sorting(elems, new, n)
                = [j \in 1..N |-> IF j = m THEN elems[n]
                     ELSE IF m < j /\ j <= r + 1 THEN new[j - 1] ELSE new[j]]
  BY DEF PutAt
<1>1. N \in Nat /\ n \in 1..N /\ n \in Nat /\ r \in 0..n - 1 /\ m \in 1..r + 1 /\ m \in 1..n
      /\ r \in Int /\ m \in Int
  BY <1>7
<1>2. new = [j \in 1..N |-> new[j]] /\ DOMAIN new = 1..N
  OBVIOUS
<1>3. PlaceFor(elems, new, n) = m
  <2>1. new[m] = NULL \/ Smaller(elems[n], new[m])
    <3>1. r + 1 \in r + 1..N
      BY <1>1
    <3> QED BY <1>7, <3>1
  <2>2. \A x \in 1..m - 1 : x \in 1..r
    BY <1>1
  <2>3. \A x \in 1..m - 1 : ~ (new[x] = NULL \/ Smaller(elems[n], new[x]))
    BY <1>7, <2>2
  <2> QED BY <1>1, <2>1, <2>3, PlaceIs
<1>4. CASE m = r + 1
  <2>1. new[m] = NULL
    <3>1. r + 1 \in r + 1..N
      BY <1>1
    <3> QED BY <1>4, <1>7, <3>1
  <2>2. n = 1 => m = 1
    BY <1>1
  <2>3. Sorting(elems, new, n) = [new EXCEPT ![m] = elems[n]]
    <3>1. CASE n = 1
      <4>1. Sorting(elems, new, n) = [new EXCEPT ![1] = elems[1]]
        BY <3>1 DEF Sorting
      <4> QED BY <2>2, <3>1, <4>1
    <3>2. CASE n # 1
      <4>1. n > 1
        BY <1>1, <3>2
      <4> QED BY <1>3, <2>1, <3>2, <4>1 DEF Sorting
    <3> QED BY <3>1, <3>2
  <2>4. \A j \in 1..N : ~ (m < j /\ j <= r + 1)
    BY <1>1, <1>4
  <2>5. [new EXCEPT ![m] = elems[n]] = [j \in 1..N |-> IF j = m THEN elems[n] ELSE new[j]]
    BY <1>2
  <2> QED BY <2>3, <2>4, <2>5
<1>5. CASE m # r + 1
  <2>1. m \in 1..r /\ new[m] # NULL /\ n # 1
    BY <1>1, <1>5, <1>7
  <2>2. Sorting(elems, new, n) = array_insert(new, m, elems[n], {NULL})
    BY <1>1, <1>3, <2>1 DEF Sorting
  <2>3. Dies(new, m, {NULL}, r + 1)
    <3>1. r + 1 \in r + 1..N /\ \A x \in m..(r + 1) - 1 : x \in 1..r
      BY <1>1
    <3>2. r + 1 \in m..N
      BY <1>1, <1>5
    <3> QED BY <1>7, <3>1, <3>2 DEF Dies
  <2>4. array_insert(new, m, elems[n], {NULL})
           = [j \in 1..N |-> IF j = m THEN elems[n]
                             ELSE IF m < j /\ j <= (r + 1) + 1 THEN new[j - 1] ELSE new[j]]
    <3>1. m \in 1..Len(new)
      BY <1>1
    <3>2. array_insert(new, m, elems[n], {NULL}) = MovedUp(new, m, elems[n], r + 1)
      BY <2>3, <3>1, InsertIs
    <3> QED BY <3>2 DEF MovedUp
  <2>5. ASSUME NEW j \in 1..N
        PROVE  (IF m < j /\ j <= (r + 1) + 1 THEN new[j - 1] ELSE new[j])
                  = (IF m < j /\ j <= r + 1 THEN new[j - 1] ELSE new[j])
    <3>1. CASE j = r + 2
      <4>1. j - 1 = r + 1 /\ r + 1 \in r + 1..N /\ j \in r + 1..N
        BY <1>1, <3>1
      <4>2. new[j - 1] = NULL /\ new[j] = NULL
        BY <1>7, <4>1
      <4> QED BY <4>2
    <3>2. CASE j # r + 2
      <4>1. j <= (r + 1) + 1 <=> j <= r + 1
        BY <1>1, <3>2
      <4> QED BY <4>1
    <3> QED BY <3>1, <3>2
  <2> QED BY <2>2, <2>4, <2>5
<1> QED BY <1>4, <1>5

\* The elements that f names are sorted by their ranks and, within a rank, by their places.
InOrder(rk, d, f) ==
    \A a, b \in 1..d :
        a < b => (rk[f[a]] < rk[f[b]] \/ (rk[f[a]] = rk[f[b]] /\ f[a] < f[b]))

\* f names the first d elements behind the k that are nil, in order.
SortedTo(rk, k, d, f) ==
    f \in [1..d -> k + 1..k + d] /\ IsInjective(f) /\ InOrder(rk, d, f)

\* The next element takes its place among those that are sorted.
Placed(k, d, f, m) == [j \in 1..d |-> IF j < m THEN f[j] ELSE IF j = m THEN k + d ELSE f[j - 1]]

\* If everything before m is not larger than the next element, and what is at m is, the
\* elements are sorted with the next one at m.
LEMMA PlacedIsSorted ==
    ASSUME NEW rk, NEW k \in Nat, NEW d \in Nat \ {0}, NEW f, SortedTo(rk, k, d - 1, f),
           \A x \in k + 1..k + d : rk[x] \in Nat,
           NEW m \in 1..d, \A x \in 1..m - 1 : ~ (rk[k + d] < rk[f[x]]),
           m = d \/ rk[k + d] < rk[f[m]]
    PROVE  SortedTo(rk, k, d, Placed(k, d, f, m))
<1> DEFINE g == Placed(k, d, f, m)
           n == k + d
<1>1. \A x \in 1..d - 1 : f[x] \in k + 1..n - 1 /\ f[x] \in k + 1..n /\ f[x] \in Int /\ f[x] < n
  <2>1. f \in [1..d - 1 -> k + 1..k + (d - 1)]
    BY DEF SortedTo
  <2> QED BY <2>1
<1>2. DOMAIN f = 1..d - 1 /\ \A a, b \in 1..d - 1 : f[a] = f[b] => a = b
  <2>1. DOMAIN f = 1..d - 1
    BY DEF SortedTo
  <2> QED BY <2>1 DEF SortedTo, IsInjective
<1>3. \A a, b \in 1..d - 1 :
         a < b => (rk[f[a]] < rk[f[b]] \/ (rk[f[a]] = rk[f[b]] /\ f[a] < f[b]))
  <2>1. InOrder(rk, d - 1, f)
    BY DEF SortedTo
  <2> QED BY <2>1 DEF InOrder
<1>4. DOMAIN g = 1..d /\ \A j \in 1..d :
         g[j] = IF j < m THEN f[j] ELSE IF j = m THEN n ELSE f[j - 1]
  BY DEF Placed
<1>5. /\ n \in k + 1..n /\ n \in Int /\ m \in 1..d /\ d \in Int /\ m \in Int
      /\ \A j \in 1..d : j < m => j \in 1..m - 1 /\ j \in 1..d - 1
      /\ \A j \in 1..d : j > m => j - 1 \in 1..d - 1 /\ m \in 1..d - 1 /\ j - 1 >= m
  OBVIOUS
<1>6. rk[n] \in Nat /\ \A x \in 1..d - 1 : rk[f[x]] \in Nat
  BY <1>1, <1>5
<1> HIDE DEF g, n
<1>7. g \in [1..d -> k + 1..n]
  <2>1. \A j \in 1..d : g[j] \in k + 1..n
    <3> SUFFICES ASSUME NEW j \in 1..d PROVE g[j] \in k + 1..n
      OBVIOUS
    <3>1. CASE j < m
      BY <1>1, <1>4, <1>5, <3>1
    <3>2. CASE j = m
      BY <1>4, <1>5, <3>2
    <3>3. CASE j > m
      <4>1. g[j] = f[j - 1] /\ j - 1 \in 1..d - 1
        BY <1>4, <1>5, <3>3
      <4> QED BY <1>1, <4>1
    <3> QED BY <1>5, <3>1, <3>2, <3>3
  <2>2. g = [j \in 1..d |-> g[j]]
    BY <1>4 DEF g, Placed
  <2> QED BY <2>1, <2>2
<1>8. IsInjective(g)
  <2>1. ASSUME NEW a \in 1..d, NEW b \in 1..d, a < b PROVE g[a] # g[b]
    <3>1. CASE b < m
      <4>1. a < m /\ a # b
        BY <1>5, <2>1, <3>1
      <4> QED BY <1>2, <1>4, <1>5, <3>1, <4>1
    <3>2. CASE b = m
      <4>1. a < m
        BY <2>1, <3>2
      <4> QED BY <1>1, <1>4, <1>5, <3>2, <4>1
    <3>3. CASE b > m /\ a < m
      <4>1. g[a] = f[a] /\ g[b] = f[b - 1] /\ a # b - 1
        BY <1>4, <1>5, <3>3
      <4> QED BY <1>2, <1>5, <3>3, <4>1
    <3>4. CASE b > m /\ a = m
      <4>1. g[a] = n /\ g[b] = f[b - 1]
        BY <1>4, <1>5, <3>4
      <4> QED BY <1>1, <1>5, <3>4, <4>1
    <3>5. CASE b > m /\ a > m
      <4>1. g[a] = f[a - 1] /\ g[b] = f[b - 1] /\ a - 1 # b - 1
        BY <1>4, <1>5, <2>1, <3>5
      <4> QED BY <1>2, <1>5, <3>5, <4>1
    <3> QED BY <1>5, <3>1, <3>2, <3>3, <3>4, <3>5
  <2>2. \A a, b \in 1..d : g[a] = g[b] => a = b
    <3> SUFFICES ASSUME NEW a \in 1..d, NEW b \in 1..d, g[a] = g[b], a # b PROVE FALSE
      OBVIOUS
    <3>1. a < b \/ b < a
      OBVIOUS
    <3> QED BY <2>1, <3>1
  <2> QED BY <1>4, <2>2 DEF IsInjective
<1>9. ASSUME NEW a \in 1..d, NEW b \in 1..d, a < b
      PROVE  rk[g[a]] < rk[g[b]] \/ (rk[g[a]] = rk[g[b]] /\ g[a] < g[b])
  <2>1. CASE b < m
    <3>1. a < m /\ g[a] = f[a] /\ g[b] = f[b] /\ a \in 1..d - 1 /\ b \in 1..d - 1
      BY <1>4, <1>5, <1>9, <2>1
    <3> QED BY <1>3, <1>9, <3>1
  <2>2. CASE b = m
    <3>1. a < m /\ g[a] = f[a] /\ g[b] = n /\ a \in 1..d - 1 /\ a \in 1..m - 1
      BY <1>4, <1>5, <1>9, <2>2
    <3>2. ~ (rk[n] < rk[f[a]]) /\ f[a] < n
      BY <1>1, <3>1 DEF n
    <3>3. rk[f[a]] \in Nat /\ rk[n] \in Nat
      BY <1>6, <3>1
    <3> QED BY <3>1, <3>2, <3>3
  <2>3. CASE b > m
    <3>1. /\ m \in 1..d - 1 /\ b - 1 \in 1..d - 1 /\ m <= b - 1 /\ m # d
          /\ g[b] = f[b - 1]
      BY <1>4, <1>5, <2>3
    <3>2. rk[n] < rk[f[m]] /\ rk[f[m]] \in Nat /\ rk[f[b - 1]] \in Nat
      BY <1>6, <3>1 DEF n
    <3>3. rk[f[m]] <= rk[f[b - 1]]
      <4>1. CASE m = b - 1
        BY <3>2, <4>1
      <4>2. CASE m # b - 1
        <5>1. m < b - 1
          BY <3>1, <4>2
        <5>2. rk[f[m]] < rk[f[b - 1]] \/ rk[f[m]] = rk[f[b - 1]]
          BY <1>3, <3>1, <5>1
        <5> QED BY <3>2, <5>2
      <4> QED BY <4>1, <4>2
    <3>4. CASE a = m
      <4>1. g[a] = n
        BY <1>4, <3>4
      <4>2. rk[n] < rk[f[b - 1]]
        BY <1>6, <3>2, <3>3
      <4> QED BY <3>1, <4>1, <4>2
    <3>5. CASE a < m
      <4>1. g[a] = f[a] /\ a \in 1..d - 1 /\ a < b - 1
        BY <1>4, <1>5, <2>3, <3>5
      <4> QED BY <1>3, <3>1, <4>1
    <3>6. CASE a > m
      <4>1. g[a] = f[a - 1] /\ a - 1 \in 1..d - 1 /\ a - 1 < b - 1
        BY <1>4, <1>5, <1>9, <3>6
      <4> QED BY <1>3, <3>1, <4>1
    <3> QED BY <1>5, <3>4, <3>5, <3>6
  <2> QED BY <1>5, <2>1, <2>2, <2>3
<1>10. InOrder(rk, d, g)
  <2>1. \A a, b \in 1..d :
           a < b => (rk[g[a]] < rk[g[b]] \/ (rk[g[a]] = rk[g[b]] /\ g[a] < g[b]))
    BY <1>9
  <2> QED BY ONLY <2>1 DEF InOrder
<1> QED BY <1>7, <1>8, <1>10 DEF SortedTo, g, n
\* The insertion sort orders the elements by their ranks, keeps those of one rank in their
\* order, and puts the k elements at the beginning that are nil to the end.
LEMMA InsertionSorts ==
    ASSUME NEW elems \in Seq(Elements), NEW k \in 0..Len(elems),
           \A x \in 1..Len(elems) : elems[x] = NULL <=> x <= k
    PROVE  \E f : /\ SortedTo([x \in 1..Len(elems) |-> Rank[elems[x]]], k, Len(elems) - k, f)
                  /\ array_insertionSort(elems)
                        = [j \in 1..Len(elems) |->
                             IF j <= Len(elems) - k THEN elems[f[j]] ELSE NULL]
<1> DEFINE N == Len(elems)
           rk == [x \in 1..N |-> Rank[elems[x]]]
           nothing == [j \in 1..N |-> NULL]
           Line(d, f) == [j \in 1..N |-> IF j <= d THEN elems[f[j]] ELSE NULL]
<1>1. PICK run : /\ Run("insertion", elems, nothing, 1, N, run)
                 /\ array_insertionSort(elems) = run[N]
  BY InsertionRun
<1>2. /\ N \in Nat /\ k \in 0..N /\ k \in Nat /\ N - k \in Nat
      /\ elems \in [1..N -> Elements]
      /\ \A x \in 1..N : elems[x] = NULL <=> x <= k
  OBVIOUS
<1> HIDE DEF N, rk
<1>3. run[0] = nothing /\ \A m \in 1..N : run[m] = Sorting(elems, run[m - 1], m)
  <2>1. \A m \in 1..N : run[m] = Sorting(elems, run[m - 1], 1 + m - 1)
    BY <1>1 DEF Run, Body
  <2>2. \A m \in 1..N : 1 + m - 1 = m
    BY <1>2
  <2> QED BY <1>1, <2>1, <2>2 DEF Run
<1>4. \A x \in k + 1..N : elems[x] \in Items /\ rk[x] = Rank[elems[x]] /\ rk[x] \in Nat
  <2>1. \A x \in k + 1..N : x \in 1..N /\ ~ (x <= k)
    BY <1>2
  <2> QED BY <1>2, <2>1, ArraysAssumption DEF Elements, rk
\* As long as what comes is nil, nothing is put anywhere.
<1>5. run[k] = nothing
  <2> DEFINE S == {m \in 0..k : run[m] = nothing}
  <2>1. 0 \in S
    BY <1>2, <1>3
  <2>2. ASSUME NEW m \in 1..k, m - 1 \in S PROVE m \in S
    <3>1. run[m - 1] = nothing /\ m \in 1..N /\ elems[m] = NULL
      BY <1>2, <2>2
    <3>2. nothing \in Seq(Elements) /\ Len(nothing) = N /\ \A x \in 1..N : nothing[x] = NULL
      BY <1>2 DEF Elements
    <3> HIDE DEF nothing
    <3>3. Sorting(elems, nothing, m) = PutAt(elems, nothing, m, 0, 1)
      <4>1. FitsAt(elems, nothing, m, 0, 1)
        BY <1>2, <3>1, <3>2 DEF FitsAt
      <4>2. m \in 1..Len(nothing)
        BY <3>1, <3>2
      <4> QED BY <3>2, <4>1, <4>2, SortingIs
    <3>4. \A j \in 1..N : (IF j = 1 THEN elems[m]
                           ELSE IF 1 < j /\ j <= 0 + 1 THEN nothing[j - 1] ELSE nothing[j]) = NULL
      BY <1>2, <3>1, <3>2
    <3>5. PutAt(elems, nothing, m, 0, 1) = nothing
      <4>1. PutAt(elems, nothing, m, 0, 1) = [j \in 1..N |-> NULL]
        BY <3>2, <3>4 DEF PutAt
      <4> QED BY <4>1 DEF nothing
    <3>6. run[m] = nothing
      BY <1>3, <3>1, <3>3, <3>5
    <3> QED BY <3>6
  <2> HIDE DEF S
  <2>3. \A m \in 0..k : m \in S
    BY <1>2, <2>1, <2>2, Counting
  <2>4. k \in S
    BY <1>2, <2>3
  <2> QED BY <2>4 DEF S
<1> DEFINE Holds(d) == \E f : SortedTo(rk, k, d, f) /\ run[k + d] = Line(d, f)
           S == {d \in 0..N - k : Holds(d)}
<1>6. Holds(0)
  <2> DEFINE f == [x \in 1..0 |-> k]
  <2>1. SortedTo(rk, k, 0, f)
    BY DEF SortedTo, IsInjective, InOrder
  <2>2. \A j \in 1..N : ~ (j <= 0)
    OBVIOUS
  <2> HIDE DEF f
  <2>3. Line(0, f) = nothing
    BY <2>2
  <2>4. k + 0 = k
    BY <1>2
  <2> QED BY <1>5, <2>1, <2>3, <2>4
<1>7. ASSUME NEW d \in 1..N - k, Holds(d - 1) PROVE Holds(d)
  <2> DEFINE n == k + d
  <2>1. PICK f : SortedTo(rk, k, d - 1, f) /\ run[k + (d - 1)] = Line(d - 1, f)
    BY <1>7
  <2>2. /\ n \in 1..N /\ n \in k + 1..N /\ n - 1 = k + (d - 1) /\ d \in Nat \ {0}
        /\ d - 1 \in 0..n - 1 /\ \A x \in k + 1..n : x \in k + 1..N
    BY <1>2
  <2> DEFINE new == Line(d - 1, f)
  <2>3. f \in [1..d - 1 -> k + 1..k + (d - 1)]
    BY <2>1 DEF SortedTo
  <2>4. \A x \in 1..d - 1 : f[x] \in k + 1..N /\ f[x] \in 1..N
    BY <1>2, <2>2, <2>3
  <2>5. /\ new \in Seq(Elements) /\ Len(new) = N
        /\ \A x \in 1..N : new[x] = IF x <= d - 1 THEN elems[f[x]] ELSE NULL
    <3>1. \A x \in 1..N : (IF x <= d - 1 THEN elems[f[x]] ELSE NULL) \in Elements
      BY <1>2, <2>2, <2>4 DEF Elements
    <3> QED BY <1>2, <3>1
  <2>6. run[n] = Sorting(elems, new, n)
    BY <1>3, <2>1, <2>2
  <2> HIDE DEF new, n
  <2>7. /\ \A x \in 1..d - 1 : new[x] = elems[f[x]] /\ new[x] # NULL
        /\ \A x \in (d - 1) + 1..N : new[x] = NULL
    <3>1. \A x \in 1..d - 1 : x \in 1..N /\ x <= d - 1
      BY <1>2
    <3>2. \A x \in (d - 1) + 1..N : x \in 1..N /\ ~ (x <= d - 1)
      BY <1>2
    <3>3. \A x \in 1..d - 1 : elems[f[x]] # NULL
      BY <1>2, <1>4, <2>4, ArraysAssumption
    <3> QED BY <2>5, <3>1, <3>2, <3>3
  <2>8. PICK m \in 1..d : /\ m = d \/ Smaller(elems[n], new[m])
                          /\ \A x \in 1..m - 1 : ~ Smaller(elems[n], new[x])
    <3> DEFINE Places == {x \in 1..d : x = d \/ Smaller(elems[n], new[x])}
    <3>1. Places \in SUBSET Nat /\ d \in Places
      BY <2>2
    <3> HIDE DEF Places
    <3>2. PICK m \in Places : \A x \in Places : m <= x
      BY <3>1, LeastNumber
    <3>3. m \in 1..d /\ (m = d \/ Smaller(elems[n], new[m]))
      BY DEF Places
    <3>4. \A x \in 1..m - 1 : ~ Smaller(elems[n], new[x])
      <4> SUFFICES ASSUME NEW x \in 1..m - 1, Smaller(elems[n], new[x]) PROVE FALSE
        OBVIOUS
      <4>1. x \in 1..d /\ ~ (m <= x)
        BY <2>2, <3>3
      <4>2. x \in Places
        BY <4>1 DEF Places
      <4> QED BY <3>2, <4>1, <4>2
    <3> QED BY <3>3, <3>4
  <2> DEFINE g == Placed(k, d, f, m)
  <2>9. SortedTo(rk, k, d, g)
    <3>1. \A x \in 1..d - 1 : new[x] = elems[f[x]] /\ rk[f[x]] = Rank[new[x]]
      BY <1>4, <2>4, <2>7
    <3>2. rk[n] = Rank[elems[n]]
      BY <1>4, <2>2
    <3>3. \A x \in 1..m - 1 : ~ (rk[n] < rk[f[x]])
      <4>1. \A x \in 1..m - 1 : x \in 1..d - 1
        BY <2>2
      <4> QED BY <2>8, <3>1, <3>2, <4>1 DEF Smaller
    <3>4. m = d \/ rk[n] < rk[f[m]]
      <4>1. m # d => m \in 1..d - 1
        BY <2>2
      <4> QED BY <2>8, <3>1, <3>2, <4>1 DEF Smaller
    <3>5. \A x \in k + 1..n : rk[x] \in Nat
      BY <1>4, <2>2
    <3> QED BY <1>2, <2>1, <2>2, <3>3, <3>4, <3>5, PlacedIsSorted DEF n
  <2>10. run[n] = [j \in 1..N |-> IF j = m THEN elems[n]
                     ELSE IF m < j /\ j <= (d - 1) + 1 THEN new[j - 1] ELSE new[j]]
    <3>1. FitsAt(elems, new, n, d - 1, m)
      <4>1. m \in 1..(d - 1) + 1 /\ (m = (d - 1) + 1 <=> m = d)
        BY <2>2
      <4>2. \A x \in (d - 1) + 1..Len(new) : new[x] = NULL
        BY <2>5, <2>7
      <4> QED BY <2>2, <2>7, <2>8, <4>1, <4>2 DEF FitsAt
    <3>2. n \in 1..Len(new)
      BY <2>2, <2>5
    <3>3. Sorting(elems, new, n) = PutAt(elems, new, n, d - 1, m)
      BY <2>5, <3>1, <3>2, SortingIs
    <3> QED BY <2>5, <2>6, <3>3 DEF PutAt
  <2>11. ASSUME NEW j \in 1..N
         PROVE  (IF j = m THEN elems[n]
                 ELSE IF m < j /\ j <= (d - 1) + 1 THEN new[j - 1] ELSE new[j])
                   = IF j <= d THEN elems[g[j]] ELSE NULL
    <3>1. m \in 1..d /\ m \in Int /\ d \in Int /\ (j <= (d - 1) + 1 <=> j <= d)
      BY <2>2
    <3>2. j <= d => g[j] = IF j < m THEN f[j] ELSE IF j = m THEN n ELSE f[j - 1]
      BY <3>1 DEF Placed, n
    <3> HIDE DEF g
    <3>3. CASE j = m
      BY <3>1, <3>2, <3>3
    <3>4. CASE j < m
      <4>1. j \in 1..d - 1 /\ j <= d /\ j # m /\ ~ (m < j)
        BY <3>1, <3>4
      <4> QED BY <2>7, <3>2, <3>4, <4>1
    <3>5. CASE m < j /\ j <= d
      <4>1. j - 1 \in 1..d - 1 /\ j # m /\ ~ (j < m)
        BY <3>1, <3>5
      <4> QED BY <2>7, <3>1, <3>2, <3>5, <4>1
    <3>6. CASE m < j /\ ~ (j <= d)
      <4>1. j \in (d - 1) + 1..N /\ j # m
        BY <3>1, <3>6
      <4> QED BY <2>7, <3>1, <3>6, <4>1
    <3> QED BY <3>1, <3>3, <3>4, <3>5, <3>6
  <2> HIDE DEF g
  <2>12. run[n] = Line(d, g)
    BY <2>10, <2>11
  <2> QED BY <2>9, <2>12 DEF n
<1> HIDE DEF Holds
<1>8. Holds(N - k)
  <2>1. 0 \in S
    BY <1>2, <1>6
  <2>2. ASSUME NEW d \in 1..N - k, d - 1 \in S PROVE d \in S
    BY <1>2, <1>7, <2>2
  <2> HIDE DEF S
  <2>3. \A d \in 0..N - k : d \in S
    BY <1>2, <2>1, <2>2, Counting
  <2>4. N - k \in S
    BY <1>2, <2>3
  <2> QED BY <2>4 DEF S
<1>9. k + (N - k) = N
  BY <1>2
<1>10. PICK f : SortedTo(rk, k, N - k, f) /\ run[N] = Line(N - k, f)
  BY <1>8, <1>9 DEF Holds
<1> QED BY <1>1, <1>10 DEF N, rk

-----------------------------------------------------------------------------
(* The operations are those of the vector. *)

\* The array has not grown past its bound, and a primitive runs with arguments it has checked.
ArraysInv ==
    /\ array \in Seq(Elements) /\ Len(array) <= MaxItems
    /\ arrayCall = NULL \/ arrayCall \in ArrayCalls

\* What a step that ends an operation shows: it is the vector's step, and the invariant holds.
Held(new) == new \in Seq(Elements) /\ Len(new) <= MaxItems

\* An operation that returns an array which is held keeps the invariant.
LEMMA HoldingKeeps ==
    ASSUME NEW new, Held(new), Holding(new)
    PROVE  ArraysInv' /\ V!Becomes(new)
BY DEF Held, Holding, ArraysInv, V!Becomes, V!Returns

\* An operation that throws leaves the array as it was, and fails as the vector says.
LEMMA ThrowingKeeps ==
    ASSUME ArraysInv, Throwing
    PROVE  ArraysInv' /\ V!Fails
BY DEF Throwing, ArraysInv, V!Fails, V!Returns

\* Elements in another order are held, and the order is one of the vector's.
LEMMA OrderingHeld ==
    ASSUME ArraysInv, NEW p \in OrdersOf(Len(array))
    PROVE  /\ Held(Ordering(array, p))
           /\ p \in V!Orders /\ V!Ordered(p) = Ordering(array, p)
<1>1. DOMAIN array = 1..Len(array)
  BY DEF ArraysInv
<1>2. Held(Ordering(array, p))
  BY OrderingIs DEF ArraysInv, Held
<1> QED BY <1>1, <1>2 DEF OrdersOf, V!Orders, V!Ordered, Ordering, IsInjective, V!IsInjective

\* array_reverse is the vector's reversal.
LEMMA ReverseStep ==
    ASSUME ArraysInv, ArrayReverse
    PROVE  ArraysInv' /\ V!Reversed
<1>1. array_reverse(array) = [j \in 1..Len(array) |-> array[Len(array) - j + 1]]
  BY ReverseIs DEF ArraysInv
<1>2. Held(array_reverse(array))
  <2>1. Len(array) \in Nat /\ \A j \in 1..Len(array) : array[Len(array) - j + 1] \in Elements
    BY DEF ArraysInv
  <2> QED BY <1>1, <2>1 DEF ArraysInv, Held
<1>3. V!Reverse(array) = array_reverse(array)
  BY <1>1 DEF V!Reverse
<1> QED BY <1>2, <1>3, HoldingKeeps DEF ArrayReverse, V!Reversed

\* array_shuffle, whatever rand() chooses, is a shuffle of the vector.
LEMMA ShuffleStep ==
    ASSUME ArraysInv, ArrayShuffle
    PROVE  ArraysInv' /\ V!Shuffled
<1>1. PICK chosen \in [1..Len(array) -> 1..Len(array)] : Holding(Shuffling(array, chosen))
  BY DEF ArrayShuffle, Shuffling
<1>2. PICK p \in OrdersOf(Len(array)) : Shuffling(array, chosen) = Ordering(array, p)
  BY ShuffleOrders DEF ArraysInv
<1>3. ArraysInv' /\ V!Becomes(Ordering(array, p))
  BY <1>1, <1>2, OrderingHeld, HoldingKeeps
<1> QED BY <1>3, OrderingHeld DEF V!Shuffled

\* array_delete is the vector's deletion: one element is lost, and nil fills the last place.
LEMMA DeleteStep ==
    ASSUME ArraysInv, NEW i \in 1..Len(array), ArrayDelete(i)
    PROVE  ArraysInv' /\ V!Delete(i)
<1> DEFINE r == RemoveAt(array, i)
<1>1. /\ array \in Seq(Elements) /\ NULL \in Elements
      /\ Len(array) \in Nat /\ DOMAIN array = 1..Len(array)
  BY DEF ArraysInv, Elements
<1>2. r \in Seq(Elements) /\ Len(r) = Len(array) - 1
  BY <1>1, RemovalIs DEF TakenOut
<1>3. array_delete(array, i) = Append(r, NULL)
  BY <1>1, DeletesAsVector
<1>5. V!RemoveAt(array, i) = r
  BY DEF V!RemoveAt, RemoveAt
<1> HIDE DEF r
<1>4. Held(Append(r, NULL))
  <2>1. Append(r, NULL) \in Seq(Elements) /\ Len(Append(r, NULL)) = Len(r) + 1
    BY <1>1, <1>2, AppendProperties
  <2>2. Len(Append(r, NULL)) = Len(array)
    BY <1>1, <1>2, <2>1
  <2> QED BY <2>1, <2>2 DEF Held, ArraysInv
<1>6. ArraysInv' /\ V!Becomes(Append(r, NULL))
  BY <1>3, <1>4, HoldingKeeps DEF ArrayDelete
<1> QED BY <1>1, <1>5, <1>6 DEF V!Delete

\* array_insert is the vector's insertion: the last element is lost or, if one is dead, the
\* one behind the first that is.
LEMMA InsertStep ==
    ASSUME ArraysInv, NEW i \in 1..Len(array), NEW e \in Elements, NEW dead,
           ArrayInsert(i, e, dead)
    PROVE  ArraysInv' /\ V!Insert(i, e, dead)
<1> DEFINE N == Len(array)
           deaths == {j \in i..N - 1 : array[j] \in dead}
<1>1. array \in Seq(Elements) /\ N \in Nat /\ i \in DOMAIN array /\ N <= MaxItems /\ i \in 1..N + 1
  BY DEF ArraysInv
<1>2. CASE deaths = {}
  <2> DEFINE r == InsertAt(array, i, e)
  <2>1. r \in Seq(Elements) /\ Len(r) = N + 1
    BY <1>1, InsertionIs DEF PutIn
  <2>2. Dies(array, i, dead, N)
    <3>1. \A n \in i..N - 1 : array[n] \notin dead
      BY <1>2
    <3> QED BY <1>1, <3>1 DEF Dies
  <2>3. array_insert(array, i, e, dead) = SubSeq(r, 1, N)
    BY <1>1, <2>2, InsertsAsVector
  <2>6. V!InsertAt(array, i, e) = r
    BY DEF V!InsertAt, InsertAt
  <2> HIDE DEF r
  <2>4. Held(SubSeq(r, 1, N))
    <3>1. \A j \in 1..N : r[j] \in Elements
      BY <1>1, <2>1
    <3>2. SubSeq(r, 1, N) \in Seq(Elements) /\ Len(SubSeq(r, 1, N)) = N
      <4> HIDE DEF N
      <4> QED BY <1>1, <3>1, SubSeqProperties
    <3> QED BY <1>1, <3>2 DEF Held
  <2>5. ArraysInv' /\ V!Becomes(SubSeq(r, 1, N))
    BY <2>3, <2>4, HoldingKeeps DEF ArrayInsert
  <2> QED BY <1>1, <1>2, <2>5, <2>6 DEF V!Insert
<1>3. CASE deaths # {}
  <2>1. PICK last \in deaths : \A j \in deaths : last <= j
    <3>1. deaths \in SUBSET Nat
      BY <1>1
    <3> HIDE DEF deaths
    <3> QED BY <1>3, <3>1, LeastNumber
  <2>2. Dies(array, i, dead, last) /\ last < N /\ last + 1 \in 1..N
    <3>1. last \in i..N - 1 /\ array[last] \in dead
      OBVIOUS
    <3>2. ASSUME NEW n \in i..last - 1, array[n] \in dead PROVE FALSE
      <4>1. n \in deaths /\ ~ (last <= n)
        BY <1>1, <3>1, <3>2
      <4> QED BY <2>1, <4>1
    <3> QED BY <1>1, <3>1, <3>2 DEF Dies
  <2> DEFINE w == RemoveAt(array, last + 1)
             r == InsertAt(w, i, e)
  <2>3. w \in Seq(Elements) /\ Len(w) = N - 1
    BY <1>1, <2>2, RemovalIs DEF TakenOut
  <2>5. V!RemoveAt(array, last + 1) = w
    BY DEF V!RemoveAt, RemoveAt
  <2>6. V!InsertAt(w, i, e) = r
    BY DEF V!InsertAt, InsertAt
  <2>7. array_insert(array, i, e, dead) = r
    BY <1>1, <2>2, InsertsBeforeDead
  <2> HIDE DEF w
  <2>4. r \in Seq(Elements) /\ Len(r) = N
    <3>1. i \in 1..Len(w) + 1 /\ Len(w) + 1 = N
      BY <1>1, <2>3
    <3>2. PutIn(Elements, w, i, e, r)
      BY <2>3, <3>1, InsertionIs
    <3> HIDE DEF r
    <3> QED BY <3>1, <3>2 DEF PutIn
  <2> HIDE DEF r, deaths
  <2>8. Held(r)
    BY <1>1, <2>4 DEF Held
  <2>9. ArraysInv' /\ V!Becomes(r)
    BY <2>7, <2>8, HoldingKeeps DEF ArrayInsert
  <2>10. last \in deaths /\ \A k \in deaths : last <= k
    BY <2>1
  <2> QED BY <1>1, <2>5, <2>6, <2>9, <2>10 DEF V!Insert, deaths
<1> QED BY <1>2, <1>3

\* array_selectionSort sorts, or throws if it must compare nil with another element.
LEMMA SelectionSortStep ==
    ASSUME ArraysInv, ArraySelectionSort
    PROVE  ArraysInv' /\ V!Sorted
<1>1. array \in Seq(Elements) /\ Len(array) \in Nat /\ DOMAIN array = 1..Len(array)
  BY DEF ArraysInv
<1>2. V!ToSet(array) = ToSet(array)
  BY DEF V!ToSet, ToSet
<1>3. CASE Len(array) <= 1 \/ NULL \notin ToSet(array)
  <2>1. PICK p \in OrdersOf(Len(array)) :
           /\ array_selectionSort(array) = Ordering(array, p)
           /\ (\A x \in 1..Len(array) : Rank[array[x]] \in Nat)
              => \A a, b \in 1..Len(array) : a < b => Rank[array[p[a]]] <= Rank[array[p[b]]]
    BY <1>1, SelectionSorts
  <2>2. ArraysInv' /\ V!Becomes(Ordering(array, p))
    BY <1>3, <2>1, OrderingHeld, HoldingKeeps DEF ArraySelectionSort
  <2>3. \A a, b \in 1..Len(array) : a < b => Rank[array[p[a]]] <= Rank[array[p[b]]]
    <3>1. CASE Len(array) <= 1
      BY <1>1, <3>1
    <3>2. CASE NULL \notin ToSet(array)
      <4>1. \A x \in 1..Len(array) : array[x] \in Elements /\ array[x] # NULL
        BY <1>1, <3>2 DEF ToSet
      <4>2. \A x \in 1..Len(array) : Rank[array[x]] \in Nat
        BY <4>1, ArraysAssumption DEF Elements
      <4> QED BY <2>1, <4>2
    <3> QED BY <1>3, <3>1, <3>2
  <2>4. p \in V!Orders /\ V!Ordered(p) = Ordering(array, p)
    BY OrderingHeld
  <2> QED BY <1>1, <1>2, <1>3, <2>2, <2>3, <2>4 DEF V!Sorted
<1>4. CASE ~ (Len(array) <= 1 \/ NULL \notin ToSet(array))
  <2>1. Throwing
    BY <1>4 DEF ArraySelectionSort
  <2>2. ArraysInv' /\ V!Fails
    BY <2>1, ThrowingKeeps
  <2>3. Len(array) > 1
    BY <1>1, <1>4
  <2> QED BY <1>2, <1>4, <2>2, <2>3 DEF V!Sorted
<1> QED BY <1>3, <1>4

\* If no nil stands behind anything else, the elements that are nil come first.
LEMMA NilsLead ==
    ASSUME NEW elems \in Seq(Elements),
           ~ \E i \in 2..Len(elems) : elems[i] = NULL /\ \E n \in 1..i - 1 : elems[n] # NULL
    PROVE  \E k \in 0..Len(elems) : \A x \in 1..Len(elems) : elems[x] = NULL <=> x <= k
<1> DEFINE N == Len(elems)
           Others == {x \in 1..N : elems[x] # NULL}
<1>1. N \in Nat
  OBVIOUS
<1>2. CASE Others = {}
  <2>1. \A x \in 1..N : elems[x] = NULL /\ x <= N
    BY <1>1, <1>2
  <2>2. N \in 0..N
    BY <1>1
  <2> QED BY <2>1, <2>2
<1>3. CASE Others # {}
  <2>1. PICK y \in Others : \A x \in Others : y <= x
    <3>1. Others \in SUBSET Nat
      BY <1>1
    <3> HIDE DEF Others
    <3> QED BY <1>3, <3>1, LeastNumber
  <2>2. y \in 1..N /\ elems[y] # NULL
    OBVIOUS
  <2>3. y - 1 \in 0..N
    BY <1>1, <2>2
  <2>4. ASSUME NEW x \in 1..N PROVE elems[x] = NULL <=> x <= y - 1
    <3>1. CASE x <= y - 1
      <4>1. ~ (y <= x)
        BY <1>1, <2>2, <3>1
      <4>2. x \notin Others
        BY <2>1, <4>1
      <4> QED BY <3>1, <4>2
    <3>2. CASE ~ (x <= y - 1)
      <4>1. x = y \/ (x \in 2..N /\ y \in 1..x - 1)
        BY <1>1, <2>2, <3>2
      <4>2. elems[x] # NULL
        BY <2>2, <4>1
      <4> QED BY <3>2, <4>2
    <3> QED BY <3>1, <3>2
  <2> QED BY <2>3, <2>4
<1> QED BY <1>2, <1>3

\* The order of the insertion sort, with what is nil at the end.
LEMMA InsertionOrders ==
    ASSUME NEW elems \in Seq(Elements), NEW k \in 0..Len(elems),
           \A x \in 1..Len(elems) : elems[x] = NULL <=> x <= k
    PROVE  \E p \in OrdersOf(Len(elems)) :
              /\ array_insertionSort(elems) = Ordering(elems, p)
              /\ \A a, b \in 1..Len(elems) : a < b =>
                    IF elems[p[a]] = NULL THEN elems[p[b]] = NULL
                    ELSE \/ elems[p[b]] = NULL
                         \/ Rank[elems[p[a]]] < Rank[elems[p[b]]]
                         \/ Rank[elems[p[a]]] = Rank[elems[p[b]]] /\ p[a] < p[b]
<1> DEFINE N == Len(elems)
           d == N - k
           rk == [x \in 1..N |-> Rank[elems[x]]]
<1>1. PICK f : /\ SortedTo(rk, k, d, f)
               /\ array_insertionSort(elems)
                     = [j \in 1..N |-> IF j <= d THEN elems[f[j]] ELSE NULL]
  BY InsertionSorts
<1>2. /\ N \in Nat /\ k \in 0..N /\ d \in 0..N /\ k + d = N
      /\ \A x \in 1..N : elems[x] = NULL <=> x <= k
  OBVIOUS
<1>3. \A x \in 1..N : rk[x] = Rank[elems[x]]
  OBVIOUS
<1> HIDE DEF N, d, rk
<1>4. /\ \A x \in 1..d : f[x] \in k + 1..N /\ f[x] \in 1..N /\ ~ (f[x] <= k)
      /\ \A a, b \in 1..d : f[a] = f[b] => a = b
  <2>1. f \in [1..d -> k + 1..N] /\ IsInjective(f)
    BY <1>1, <1>2 DEF SortedTo
  <2>2. DOMAIN f = 1..d
    BY <2>1
  <2>3. \A a, b \in 1..d : f[a] = f[b] => a = b
    BY <2>1, <2>2 DEF IsInjective
  <2>4. \A x \in k + 1..N : x \in 1..N /\ ~ (x <= k)
    BY <1>2
  <2> QED BY <2>1, <2>3, <2>4
<1>5. \A a, b \in 1..d :
         a < b => (rk[f[a]] < rk[f[b]] \/ (rk[f[a]] = rk[f[b]] /\ f[a] < f[b]))
  BY <1>1 DEF SortedTo, InOrder
<1> DEFINE p == [j \in 1..N |-> IF j <= d THEN f[j] ELSE j - d]
<1>6. \A j \in 1..N :
         /\ j <= d => j \in 1..d /\ p[j] = f[j]
         /\ ~ (j <= d) => p[j] = j - d /\ j - d \in 1..N /\ j - d <= k
  BY <1>2
<1>7. \A j \in 1..N : p[j] \in 1..N /\ (elems[p[j]] = NULL <=> ~ (j <= d))
  BY <1>2, <1>4, <1>6
<1>8. p \in [1..N -> 1..N] /\ DOMAIN p = 1..N
  <2> HIDE DEF p
  <2>1. p = [j \in 1..N |-> p[j]]
    BY DEF p
  <2> QED BY <1>7, <2>1
<1> HIDE DEF p
<1>9. \A a, b \in 1..N : p[a] = p[b] => a = b
  <2> SUFFICES ASSUME NEW a \in 1..N, NEW b \in 1..N, p[a] = p[b] PROVE a = b
    OBVIOUS
  <2>1. a <= d <=> b <= d
    BY <1>7
  <2>2. CASE a <= d
    BY <1>4, <1>6, <2>1, <2>2
  <2>3. CASE ~ (a <= d)
    <3>1. a - d = b - d /\ d \in Int
      BY <1>2, <1>6, <2>1, <2>3
    <3> QED BY <3>1
  <2> QED BY <2>2, <2>3
<1>10. p \in OrdersOf(N)
  BY <1>8, <1>9 DEF OrdersOf, IsInjective
<1>11. array_insertionSort(elems) = Ordering(elems, p)
  <2>1. \A j \in 1..N : (IF j <= d THEN elems[f[j]] ELSE NULL) = elems[p[j]]
    BY <1>6, <1>7
  <2>2. array_insertionSort(elems) = [j \in 1..N |-> elems[p[j]]]
    BY <1>1, <2>1
  <2> QED BY <2>2 DEF Ordering, N
<1>12. ASSUME NEW a \in 1..N, NEW b \in 1..N, a < b
       PROVE  IF elems[p[a]] = NULL THEN elems[p[b]] = NULL
              ELSE \/ elems[p[b]] = NULL
                   \/ Rank[elems[p[a]]] < Rank[elems[p[b]]]
                   \/ Rank[elems[p[a]]] = Rank[elems[p[b]]] /\ p[a] < p[b]
  <2>1. CASE ~ (b <= d)
    <3>1. elems[p[b]] = NULL
      BY <1>7, <2>1
    <3> QED BY <3>1
  <2>2. CASE b <= d
    <3>1. a <= d /\ a \in 1..d /\ b \in 1..d /\ p[a] = f[a] /\ p[b] = f[b]
      BY <1>2, <1>6, <1>12, <2>2
    <3>2. elems[p[a]] # NULL
      BY <1>7, <3>1
    <3>3. rk[p[a]] = Rank[elems[p[a]]] /\ rk[p[b]] = Rank[elems[p[b]]]
      BY <1>3, <1>7
    <3>4. rk[p[a]] < rk[p[b]] \/ (rk[p[a]] = rk[p[b]] /\ p[a] < p[b])
      BY <1>5, <1>12, <3>1
    <3> QED BY <3>2, <3>3, <3>4
  <2> QED BY <2>1, <2>2
<1> QED BY <1>10, <1>11, <1>12 DEF N

\* array_insertionSort sorts stably, or throws if nil stands behind something else.
LEMMA InsertionSortStep ==
    ASSUME ArraysInv, ArrayInsertionSort
    PROVE  ArraysInv' /\ V!SortedStably
<1> DEFINE N == Len(array)
           Behind == \E i \in 2..N : array[i] = NULL /\ \E n \in 1..i - 1 : array[n] # NULL
           NilBehind == \E i, j \in DOMAIN array : i < j /\ array[i] # NULL /\ array[j] = NULL
<1>1. array \in Seq(Elements) /\ N \in Nat /\ DOMAIN array = 1..N
  BY DEF ArraysInv
<1>2. Behind <=> NilBehind
  <2>1. ASSUME Behind PROVE NilBehind
    <3>1. PICK i \in 2..N : array[i] = NULL /\ \E n \in 1..i - 1 : array[n] # NULL
      BY <2>1
    <3>2. PICK n \in 1..i - 1 : array[n] # NULL
      BY <3>1
    <3>3. i \in 1..N /\ n \in 1..N /\ n < i
      BY <1>1
    <3> QED BY <1>1, <3>1, <3>2, <3>3
  <2>2. ASSUME NilBehind PROVE Behind
    <3>1. PICK i \in 1..N, j \in 1..N : i < j /\ array[i] # NULL /\ array[j] = NULL
      BY <1>1, <2>2
    <3>2. j \in 2..N /\ i \in 1..j - 1
      BY <1>1, <3>1
    <3> QED BY <3>1, <3>2
  <2> QED BY <2>1, <2>2
<1>3. CASE Behind
  <2>1. Throwing
    BY <1>3 DEF ArrayInsertionSort
  <2>2. ArraysInv' /\ V!Fails
    BY <2>1, ThrowingKeeps
  <2> HIDE DEF Behind
  <2> QED BY <1>2, <1>3, <2>2 DEF V!SortedStably
<1>4. CASE ~ Behind
  <2>1. PICK k \in 0..N : \A x \in 1..N : array[x] = NULL <=> x <= k
    BY <1>1, <1>4, NilsLead
  <2>2. PICK p \in OrdersOf(N) :
           /\ array_insertionSort(array) = Ordering(array, p)
           /\ \A a, b \in 1..N : a < b =>
                 IF array[p[a]] = NULL THEN array[p[b]] = NULL
                 ELSE \/ array[p[b]] = NULL
                      \/ Rank[array[p[a]]] < Rank[array[p[b]]]
                      \/ Rank[array[p[a]]] = Rank[array[p[b]]] /\ p[a] < p[b]
    BY <1>1, <2>1, InsertionOrders
  <2>3. Holding(array_insertionSort(array))
    BY <1>4 DEF ArrayInsertionSort
  <2>4. /\ ArraysInv' /\ V!Becomes(Ordering(array, p))
        /\ p \in V!Orders /\ V!Ordered(p) = Ordering(array, p)
    BY <2>2, <2>3, OrderingHeld, HoldingKeeps
  <2> HIDE DEF Behind
  <2>5. ~ NilBehind
    BY <1>2, <1>4
  <2> QED BY <1>1, <2>2, <2>4, <2>5 DEF V!SortedStably
<1> QED BY <1>3, <1>4

\* array_set: an index past the end throws.
LEMMA SetStep ==
    ASSUME ArraysInv, NEW i \in 1..MaxItems + 1, NEW e \in Elements, ArraySet(i, e)
    PROVE  ArraysInv' /\ V!Replace(i, e)
<1>1. array \in Seq(Elements) /\ Len(array) \in Nat /\ DOMAIN array = 1..Len(array)
  BY DEF ArraysInv
<1>2. CASE i <= Len(array)
  <2>1. Held([array EXCEPT ![i] = e])
    <3>1. i \in 1..Len(array)
      BY <1>1, <1>2, ArraysAssumption
    <3> DEFINE N == Len(array)
               new == [array EXCEPT ![i] = e]
    <3>2. array \in [1..N -> Elements]
      BY <1>1
    <3>3. new \in [1..N -> Elements]
      BY <3>1, <3>2
    <3> HIDE DEF new
    <3>4. new \in Seq(Elements) /\ Len(new) = N
      BY <1>1, <3>3
    <3> QED BY <3>4 DEF ArraysInv, Held, new
  <2>2. i \in DOMAIN array
    BY <1>1, <1>2, ArraysAssumption
  <2> QED BY <1>2, <2>1, <2>2, HoldingKeeps DEF ArraySet, V!Replace
<1>3. CASE ~ (i <= Len(array))
  <2>1. i \notin DOMAIN array
    BY <1>1, <1>3
  <2> QED BY <1>3, <2>1, ThrowingKeeps DEF ArraySet, V!Replace
<1> QED BY <1>2, <1>3

\* array_new: an array of one element, over and over.
LEMMA NewStep ==
    ASSUME ArraysInv, NEW count \in 0..MaxItems, NEW e \in Elements, ArrayNew(count, e)
    PROVE  ArraysInv' /\ V!New(count, e)
<1>1. Held([n \in 1..count |-> e])
  BY ArraysAssumption DEF Held
<1> QED BY <1>1, HoldingKeeps DEF ArrayNew, V!New

\* A call with arguments that the primitive has found to be right is one of the vector's calls.
LEMMA ApplyStep ==
    ASSUME ArraysInv, ArrayApply
    PROVE  ArraysInv' /\ V!Call
<1>1. array \in Seq(Elements) /\ Len(array) \in Nat /\ Len(array) <= MaxItems /\ MaxItems \in Nat
  BY ArraysAssumption DEF ArraysInv
<1>2. 1..Len(array) \in SUBSET (1..MaxItems)
  BY <1>1
<1>3. ArrayCalls' = ArrayCalls
  BY DEF ArrayApply, ArrayCalls, IndicesOf
<1>4. ArraysInv'
  BY <1>1, <1>3 DEF ArrayApply, ArraysInv
<1>5. ASSUME NEW c \in ArrayCalls PROVE c \in V!Calls
  <2>1. CASE c \in {[op |-> op] : op \in ArraySimple}
    BY <2>1 DEF ArraySimple, V!Calls
  <2>2. CASE c \in [op : {"new"}, count : 0..MaxItems, e : Elements]
    BY <2>2 DEF V!Calls, V!Filled, Elements
  <2>3. CASE c \in [op : {"set"}, i : 1..MaxItems + 1, e : Elements]
    BY <2>3 DEF V!Calls, V!Filled, Elements
  <2>4. CASE c \in [op : {"delete"}, i : IndicesOf(array)]
    <3>1. c \in [op : {"delete"}, i : 1..MaxItems]
      BY <1>2, <2>4 DEF IndicesOf
    <3> QED BY <3>1 DEF V!Calls
  <2>5. CASE c \in [op : {"insert"}, i : IndicesOf(array), e : Elements,
                    dead : {{}} \cup {{d} : d \in Elements}]
    <3> DEFINE Deads == {{}} \cup {{d} : d \in Elements}
    <3>1. c \in [op : {"insert"}, i : IndicesOf(array), e : Elements, dead : Deads]
      BY <2>5
    <3> HIDE DEF Deads
    <3>2. c \in [op : {"insert"}, i : 1..MaxItems, e : Elements, dead : Deads]
      BY <1>2, <3>1 DEF IndicesOf
    <3> QED BY <3>2 DEF V!Calls, V!Filled, Elements, Deads
  <2> QED BY <2>1, <2>2, <2>3, <2>4, <2>5 DEF ArrayCalls
<1> QED BY <1>4, <1>5 DEF ArrayApply, V!Call

\* The arguments of a call that runs, as its primitive has checked them.
LEMMA CallArguments ==
    ASSUME ArraysInv, arrayCall # NULL
    PROVE  /\ arrayCall.op = "new" => arrayCall.count \in 0..MaxItems /\ arrayCall.e \in Elements
           /\ arrayCall.op = "set" => arrayCall.i \in 1..MaxItems + 1 /\ arrayCall.e \in Elements
           /\ arrayCall.op = "delete" => arrayCall.i \in 1..Len(array)
           /\ arrayCall.op = "insert" => arrayCall.i \in 1..Len(array) /\ arrayCall.e \in Elements
<1> DEFINE Deads == {{}} \cup {{d} : d \in Elements}
<1>1. \/ arrayCall \in {[op |-> op] : op \in ArraySimple}
      \/ arrayCall \in [op : {"new"}, count : 0..MaxItems, e : Elements]
      \/ arrayCall \in [op : {"set"}, i : 1..MaxItems + 1, e : Elements]
      \/ arrayCall \in [op : {"delete"}, i : 1..Len(array)]
      \/ arrayCall \in [op : {"insert"}, i : 1..Len(array), e : Elements, dead : Deads]
  BY DEF ArraysInv, ArrayCalls, IndicesOf
<1> HIDE DEF Deads
<1>2. CASE arrayCall \in {[op |-> op] : op \in ArraySimple}
  <2>1. arrayCall.op \in ArraySimple
    BY <1>2
  <2> QED BY <2>1 DEF ArraySimple
<1>3. CASE arrayCall \in [op : {"new"}, count : 0..MaxItems, e : Elements]
  BY <1>3
<1>4. CASE arrayCall \in [op : {"set"}, i : 1..MaxItems + 1, e : Elements]
  BY <1>4
<1>5. CASE arrayCall \in [op : {"delete"}, i : 1..Len(array)]
  BY <1>5
<1>6. CASE arrayCall \in [op : {"insert"}, i : 1..Len(array), e : Elements, dead : Deads]
  BY <1>6
<1> QED BY <1>1, <1>2, <1>3, <1>4, <1>5, <1>6

\* Every step of the program is one of the vector, and leaves the invariant as it is.
LEMMA ArraysStep ==
    ASSUME ArraysInv, [ArraysNext]_arrayVars
    PROVE  ArraysInv' /\ [V!Next]_<<array, arrayCall, threw>>
<1>1. CASE UNCHANGED arrayVars
  <2>1. array' = array /\ arrayCall' = arrayCall /\ threw' = threw
    BY <1>1 DEF arrayVars
  <2>2. ArrayCalls' = ArrayCalls
    BY <2>1 DEF ArrayCalls, IndicesOf
  <2> QED BY <2>1, <2>2 DEF ArraysInv
<1>2. CASE ArrayApply
  BY <1>2, ApplyStep DEF V!Next
<1>3. CASE arrayCall # NULL /\ arrayCall.op = "reverse" /\ ArrayReverse
  BY <1>3, ReverseStep DEF V!Next
<1>4. CASE arrayCall # NULL /\ arrayCall.op = "shuffle" /\ ArrayShuffle
  BY <1>4, ShuffleStep DEF V!Next
<1>5. CASE arrayCall # NULL /\ arrayCall.op = "insertionSort" /\ ArrayInsertionSort
  BY <1>5, InsertionSortStep DEF V!Next
<1>6. CASE arrayCall # NULL /\ arrayCall.op = "selectionSort" /\ ArraySelectionSort
  BY <1>6, SelectionSortStep DEF V!Next
<1>7. CASE arrayCall # NULL /\ arrayCall.op = "new" /\ ArrayNew(arrayCall.count, arrayCall.e)
  BY <1>7, CallArguments, NewStep DEF V!Next
<1>8. CASE arrayCall # NULL /\ arrayCall.op = "set" /\ ArraySet(arrayCall.i, arrayCall.e)
  BY <1>8, CallArguments, SetStep DEF V!Next
<1>9. CASE arrayCall # NULL /\ arrayCall.op = "delete" /\ ArrayDelete(arrayCall.i)
  BY <1>9, CallArguments, DeleteStep DEF V!Next
<1>10. CASE /\ arrayCall # NULL /\ arrayCall.op = "insert"
            /\ ArrayInsert(arrayCall.i, arrayCall.e, arrayCall.dead)
  BY <1>10, CallArguments, InsertStep DEF V!Next
<1> QED BY <1>1, <1>2, <1>3, <1>4, <1>5, <1>6, <1>7, <1>8, <1>9, <1>10 DEF ArraysNext

\* A program starts with any array that is not too long, and so does the vector.
LEMMA ArraysStart ==
    ASSUME ArraysInit
    PROVE  ArraysInv /\ V!Init
<1>1. PICK n \in 0..MaxItems : array \in [1..n -> Elements]
  BY ArraysAssumption DEF ArraysInit, SeqOf
<1>2. array \in Seq(Elements) /\ Len(array) = n
  BY <1>1
<1>3. ArraysInv
  BY <1>1, <1>2, ArraysAssumption DEF ArraysInit, ArraysInv
<1>4. V!SeqOf(V!Filled, MaxItems) = SeqOf(Elements, MaxItems)
  BY DEF V!SeqOf, SeqOf, V!Filled, Elements
<1> QED BY <1>3, <1>4 DEF ArraysInit, V!Init

\* What ns/array.c does to an array, loop by loop, is what the vector promises, for every
\* set of elements, every ranking of them and every length: insertion and deletion move
\* what they should and no more, shuffling and both sorts lose no element and double none,
\* the sorts sort, the insertion sort keeps the order of elements of one rank, and an
\* operation that throws leaves the array as it was.
THEOREM ArrayImplementsVector == ArraysSpec => ArrayIsVector
<1>1. ArraysInit => ArraysInv /\ V!Init
  BY ArraysStart
<1>2. ArraysInv /\ [ArraysNext]_arrayVars => ArraysInv' /\ [V!Next]_<<array, arrayCall, threw>>
  BY ArraysStep
<1> QED BY <1>1, <1>2, PTL DEF ArraysSpec, ArrayIsVector, V!Spec

=============================================================================
