--------------------------- MODULE IteratorProofs ---------------------------
(****************************************************************************)
(* Whatever is gone over is visited once and in order, and the other ways   *)
(* to read it agree, for lists, arrays, strings and ranges of any length.   *)
(* The runs through the folds of array_asQueue and string_join are those of *)
(* ArrayProofs.                                                             *)
(****************************************************************************)
EXTENDS ArrayProofs, Iterators

-----------------------------------------------------------------------------
(* Folds over elements. *)

\* array_asQueue appends one element after the other.
LEMMA AppendRun ==
    ASSUME NEW T, NEW elems \in Seq(T)
    PROVE  \E run : /\ Through("append", {}, <<>>, elems, Len(elems), run)
                    /\ array_asQueue(elems) = run[Len(elems)]
<1> DEFINE N == Len(elems)
           base == <<>>
           s == elems
           Eq(g) == g = [is \in SUBSET (DOMAIN s) |->
                            IF is = {} THEN base
                            ELSE Append(g[is \ {Max(is)}], s[Max(is)])]
           iter == CHOOSE g : Eq(g)
           Traced(g) == \E run : Through("append", {}, base, s, N, run) /\ g[1..N] = run[N]
<1>1. N \in Nat /\ DOMAIN s = 1..N
  OBVIOUS
<1>2. \A g : Eq(g) <=> FoldsOver("append", {}, base, s, N, g)
  <2> SUFFICES ASSUME NEW g PROVE Eq(g) <=> FoldsOver("append", {}, base, s, N, g)
    OBVIOUS
  <2> DEFINE Mine(is) == IF is = {} THEN base
                         ELSE Append(g[is \ {Max(is)}], s[Max(is)])
             Its(is) == IF is = {} THEN base
                        ELSE Body("append", {}, g[is \ {Max(is)}], s[Max(is)])
  <2> HIDE DEF s, N, base
  <2>1. \A is : Mine(is) = Its(is)
    BY DEF Body
  <2>2. Eq(g) <=> g = [is \in SUBSET (1..N) |-> Mine(is)]
    BY <1>1
  <2>3. FoldsOver("append", {}, base, s, N, g) <=> g = [is \in SUBSET (1..N) |-> Its(is)]
    BY DEF FoldsOver
  <2> HIDE DEF Mine, Its
  <2> QED BY <2>1, <2>2, <2>3
<1>3. array_asQueue(elems) = iter[DOMAIN s]
  BY DEF FoldLeft, MapThenFoldSet, array_asQueue
<1>4. Eq(iter)
  <2>1. \E g : Eq(g)
    BY <1>1, <1>2, FoldsOverExist
  <2> QED BY <2>1
<1> HIDE DEF iter
<1>5. FoldsOver("append", {}, base, s, N, iter)
  BY <1>2, <1>4
<1> HIDE DEF Eq, s, N, base
<1>6. \A g : FoldsOver("append", {}, base, s, N, g) => Traced(g)
  BY <1>1, FoldsThrough
<1>7. Traced(iter)
  <2> HIDE DEF Traced
  <2> QED BY <1>5, <1>6
<1> QED BY <1>1, <1>3, <1>7 DEF N, base, s

\* string_join puts one string behind the other.
LEMMA JoinRun ==
    ASSUME NEW chars, NEW T, NEW others \in Seq(T)
    PROVE  \E run : /\ Through("join", {}, chars, others, Len(others), run)
                    /\ string_join(chars, others) = run[Len(others)]
<1> DEFINE N == Len(others)
           base == chars
           s == others
           Eq(g) == g = [is \in SUBSET (DOMAIN s) |->
                            IF is = {} THEN base
                            ELSE g[is \ {Max(is)}] \o s[Max(is)]]
           iter == CHOOSE g : Eq(g)
           Traced(g) == \E run : Through("join", {}, base, s, N, run) /\ g[1..N] = run[N]
<1>1. N \in Nat /\ DOMAIN s = 1..N
  OBVIOUS
<1>2. \A g : Eq(g) <=> FoldsOver("join", {}, base, s, N, g)
  <2> SUFFICES ASSUME NEW g PROVE Eq(g) <=> FoldsOver("join", {}, base, s, N, g)
    OBVIOUS
  <2> DEFINE Mine(is) == IF is = {} THEN base
                         ELSE g[is \ {Max(is)}] \o s[Max(is)]
             Its(is) == IF is = {} THEN base
                        ELSE Body("join", {}, g[is \ {Max(is)}], s[Max(is)])
  <2> HIDE DEF s, N, base
  <2>1. \A is : Mine(is) = Its(is)
    BY DEF Body
  <2>2. Eq(g) <=> g = [is \in SUBSET (1..N) |-> Mine(is)]
    BY <1>1
  <2>3. FoldsOver("join", {}, base, s, N, g) <=> g = [is \in SUBSET (1..N) |-> Its(is)]
    BY DEF FoldsOver
  <2> HIDE DEF Mine, Its
  <2> QED BY <2>1, <2>2, <2>3
<1>3. string_join(chars, others) = iter[DOMAIN s]
  BY DEF FoldLeft, MapThenFoldSet, string_join
<1>4. Eq(iter)
  <2>1. \E g : Eq(g)
    BY <1>1, <1>2, FoldsOverExist
  <2> QED BY <2>1
<1> HIDE DEF iter
<1>5. FoldsOver("join", {}, base, s, N, iter)
  BY <1>2, <1>4
<1> HIDE DEF Eq, s, N, base
<1>6. \A g : FoldsOver("join", {}, base, s, N, g) => Traced(g)
  BY <1>1, FoldsThrough
<1>7. Traced(iter)
  <2> HIDE DEF Traced
  <2> QED BY <1>5, <1>6
<1> QED BY <1>1, <1>3, <1>7 DEF N, base, s

\* The queue that is made of an array has its elements.
LEMMA QueueOfArray ==
    ASSUME NEW T, NEW elems \in Seq(T)
    PROVE  array_asQueue(elems) = elems
<1> DEFINE N == Len(elems)
<1>1. PICK run : Through("append", {}, <<>>, elems, N, run) /\ array_asQueue(elems) = run[N]
  BY AppendRun
<1>2. run[0] = <<>> /\ \A m \in 1..N : run[m] = Append(run[m - 1], elems[m])
  BY <1>1 DEF Through, Body
<1>3. N \in Nat /\ \A m \in 1..N : elems[m] \in T
  OBVIOUS
<1> DEFINE S == {m \in 0..N : /\ run[m] \in Seq(T) /\ Len(run[m]) = m
                              /\ \A j \in 1..m : run[m][j] = elems[j]}
<1>4. 0 \in S
  <2>1. <<>> \in Seq(T) /\ Len(<<>>) = 0
    OBVIOUS
  <2>2. run[0] \in Seq(T) /\ Len(run[0]) = 0
    BY <1>2, <2>1
  <2> HIDE DEF N
  <2>3. 0 \in 0..N /\ \A j \in 1..0 : run[0][j] = elems[j]
    BY <1>3
  <2> QED BY <2>2, <2>3
<1>5. ASSUME NEW m \in 1..N, m - 1 \in S PROVE m \in S
  <2>1. /\ run[m - 1] \in Seq(T) /\ Len(run[m - 1]) = m - 1
        /\ \A j \in 1..m - 1 : run[m - 1][j] = elems[j]
    BY <1>5
  <2>2. run[m] = Append(run[m - 1], elems[m]) /\ elems[m] \in T
    BY <1>2, <1>3
  <2> DEFINE r == run[m - 1]
  <2>3. Append(r, elems[m]) \in Seq(T) /\ Len(Append(r, elems[m])) = m
    BY <1>3, <2>1, <2>2, AppendProperties
  <2>4. \A j \in 1..m : Append(r, elems[m])[j] = elems[j]
    <3> SUFFICES ASSUME NEW j \in 1..m PROVE Append(r, elems[m])[j] = elems[j]
      OBVIOUS
    <3>1. j = m \/ j \in 1..m - 1
      BY <1>3
    <3>2. Append(r, elems[m])[Len(r) + 1] = elems[m] /\ Len(r) + 1 = m
      BY <1>3, <2>1, <2>2, AppendProperties
    <3>3. j \in 1..m - 1 => Append(r, elems[m])[j] = r[j]
      BY <1>3, <2>1, <2>2, AppendProperties
    <3> QED BY <2>1, <3>1, <3>2, <3>3
  <2>5. m \in 0..N
    BY <1>3
  <2> QED BY <2>2, <2>3, <2>4, <2>5
<1> HIDE DEF S, N
<1>6. \A m \in 0..N : m \in S
  BY <1>3, <1>4, <1>5, Counting
<1>7. N \in S
  BY <1>3, <1>6
<1>8. run[N] \in Seq(T) /\ Len(run[N]) = N /\ \A j \in 1..N : run[N][j] = elems[j]
  BY <1>7 DEF S
<1>9. run[N] = elems
  BY <1>8 DEF N
<1> QED BY <1>1, <1>9

\* A string and two behind it.
Joined(chars, u, v) == (chars \o u) \o v

\* Two strings behind another one.
LEMMA JoinOfTwo ==
    ASSUME NEW chars, NEW u, NEW v
    PROVE  string_join(chars, <<u, v>>) = Joined(chars, u, v)
<1>1. <<u, v>> \in Seq({u, v}) /\ Len(<<u, v>>) = 2 /\ <<u, v>>[1] = u /\ <<u, v>>[2] = v
  OBVIOUS
<1> DEFINE others == <<u, v>>
<1> HIDE DEF others
<1>2. PICK run : Through("join", {}, chars, others, 2, run) /\ string_join(chars, others) = run[2]
  <2>1. others \in Seq({u, v}) /\ Len(others) = 2
    BY <1>1 DEF others
  <2> QED BY <2>1, JoinRun
<1>3. run[0] = chars /\ \A m \in 1..2 : run[m] = run[m - 1] \o others[m]
  BY <1>2 DEF Through, Body
<1>4. run[1] = chars \o others[1] /\ run[2] = run[1] \o others[2]
  <2>1. 1 \in 1..2 /\ 1 - 1 = 0 /\ 2 \in 1..2 /\ 2 - 1 = 1
    OBVIOUS
  <2> QED BY <1>3, <2>1
<1>5. others[1] = u /\ others[2] = v
  BY <1>1 DEF others
<1>6. string_join(chars, others) = (chars \o u) \o v
  BY <1>2, <1>4, <1>5
<1> QED BY <1>6 DEF others, Joined

-----------------------------------------------------------------------------
(* Numbers in steps. *)

\* The numbers of a sequence, and how many there are.
Progress(from, to, by) == {n \in from..to : (n - from) % by = 0}
Steps(from, to, by) == IF from <= to THEN (to - from) \div by + 1 ELSE 0

\* The numbers of a sequence are reached by steps, one after the other.
LEMMA StepsReach ==
    ASSUME NEW from \in Int, NEW to \in Int, NEW by \in 1..3
    PROVE  /\ Steps(from, to, by) \in Nat
           /\ \A k \in 1..Steps(from, to, by) : from + (k - 1) * by \in Progress(from, to, by)
           /\ \A n \in Progress(from, to, by) :
                 \E k \in 1..Steps(from, to, by) : n = from + (k - 1) * by
<1>1. CASE by = 1
  BY <1>1 DEF Steps, Progress
<1>2. CASE by = 2
  <2>1. Steps(from, to, 2) \in Nat
    BY DEF Steps
  <2>2. ASSUME NEW k \in 1..Steps(from, to, 2)
        PROVE  from + (k - 1) * 2 \in Progress(from, to, 2)
    <3>1. from + (k - 1) * 2 \in from..to
      BY <2>1 DEF Steps
    <3>2. (from + (k - 1) * 2 - from) % 2 = 0
      BY <2>1
    <3> QED BY <3>1, <3>2 DEF Progress
  <2>3. ASSUME NEW n \in Progress(from, to, 2)
        PROVE  \E k \in 1..Steps(from, to, 2) : n = from + (k - 1) * 2
    <3> DEFINE k == (n - from) \div 2 + 1
    <3>1. n \in from..to /\ (n - from) % 2 = 0 /\ n \in Int
      BY DEF Progress
    <3>2. n = from + (k - 1) * 2
      BY <3>1
    <3>3. k \in 1..Steps(from, to, 2)
      BY <3>1 DEF Steps
    <3> QED BY <3>2, <3>3
  <2> QED BY <1>2, <2>1, <2>2, <2>3
<1>3. CASE by = 3
  <2>1. Steps(from, to, 3) \in Nat
    BY DEF Steps
  <2>2. ASSUME NEW k \in 1..Steps(from, to, 3)
        PROVE  from + (k - 1) * 3 \in Progress(from, to, 3)
    <3>1. from + (k - 1) * 3 \in from..to
      BY <2>1 DEF Steps
    <3>2. (from + (k - 1) * 3 - from) % 3 = 0
      BY <2>1
    <3> QED BY <3>1, <3>2 DEF Progress
  <2>3. ASSUME NEW n \in Progress(from, to, 3)
        PROVE  \E k \in 1..Steps(from, to, 3) : n = from + (k - 1) * 3
    <3> DEFINE k == (n - from) \div 3 + 1
    <3>1. n \in from..to /\ (n - from) % 3 = 0 /\ n \in Int
      BY DEF Progress
    <3>2. n = from + (k - 1) * 3
      BY <3>1
    <3>3. k \in 1..Steps(from, to, 3)
      BY <3>1 DEF Steps
    <3> QED BY <3>2, <3>3
  <2> QED BY <1>3, <2>1, <2>2, <2>3
<1> QED BY <1>1, <1>2, <1>3

\* As many numbers as steps.
LEMMA ProgressCount ==
    ASSUME NEW from \in Int, NEW to \in Int, NEW by \in 1..3
    PROVE  /\ IsFiniteSet(Progress(from, to, by))
           /\ Cardinality(Progress(from, to, by)) = Steps(from, to, by)
<1> DEFINE N == Steps(from, to, by)
           P == Progress(from, to, by)
           f == [k \in 1..N |-> from + (k - 1) * by]
<1>1. /\ N \in Nat
      /\ \A k \in 1..N : from + (k - 1) * by \in P
      /\ \A n \in P : \E k \in 1..N : n = from + (k - 1) * by
  BY StepsReach
<1> HIDE DEF N, P
<1>2. \A j, k \in 1..N : f[j] = f[k] => j = k
  <2> SUFFICES ASSUME NEW j \in 1..N, NEW k \in 1..N,
                      from + (j - 1) * by = from + (k - 1) * by
               PROVE  j = k
    OBVIOUS
  <2>1. CASE by = 1
    BY <1>1, <2>1
  <2>2. CASE by = 2
    BY <1>1, <2>2
  <2>3. CASE by = 3
    BY <1>1, <2>3
  <2> QED BY <2>1, <2>2, <2>3
<1>3. f \in Injection(1..N, P)
  BY <1>1, <1>2 DEF Injection, IsInjective
<1>4. f \in Surjection(1..N, P)
  <2>1. f \in [1..N -> P]
    BY <1>1
  <2>2. \A n \in P : \E k \in 1..N : f[k] = n
    BY <1>1
  <2> QED BY <2>1, <2>2 DEF Surjection
<1>5. ExistsBijection(1..N, P)
  BY <1>3, <1>4 DEF ExistsBijection, Bijection
<1>6. IsFiniteSet(1..N) /\ Cardinality(1..N) = N
  BY <1>1, FS_Interval
<1>7. IsFiniteSet(P) /\ Cardinality(P) = N
  BY <1>5, <1>6, FS_Bijection
<1> QED BY <1>7 DEF N, P

\* What a sequence consists of.
LEMMA SequenceConsists ==
    ASSUME NEW from \in Int, NEW to \in Int, NEW by \in 1..3
    PROVE  Consists(Sequence(from, to, by))
              = [k \in 1..Steps(from, to, by) |-> from + (k - 1) * by]
<1> DEFINE x == Sequence(from, to, by)
<1>1. Numbers(x).from = from /\ Numbers(x).to = to /\ Numbers(x).by = by /\ x.type = "Sequence"
  BY DEF Numbers, Sequence
<1>2. {n \in Numbers(x).from..Numbers(x).to : (n - Numbers(x).from) % Numbers(x).by = 0}
         = Progress(from, to, by)
  BY <1>1 DEF Progress
<1> HIDE DEF x
<1>3. Cardinality(Progress(from, to, by)) = Steps(from, to, by)
  BY ProgressCount
<1>4. Consists(x) = [k \in 1..Steps(from, to, by) |-> from + (k - 1) * by]
  BY <1>1, <1>2, <1>3 DEF Consists
<1> QED BY <1>4 DEF x

\* The sum of one step more.
LEMMA StepsFollow ==
    ASSUME NEW n \in Int, NEW to \in Int, NEW by \in 1..3
    PROVE  /\ n <= to => Steps(n, to, by) = 1 + Steps(n + by, to, by)
           /\ ~ (n <= to) => Steps(n, to, by) = 0
<1>1. CASE by = 1
  BY <1>1 DEF Steps
<1>2. CASE by = 2
  BY <1>2 DEF Steps
<1>3. CASE by = 3
  BY <1>3 DEF Steps
<1> QED BY <1>1, <1>2, <1>3

\* The elements of an array at every by-th place from n to to.
Part(elems, n, to, by) == [k \in 1..Steps(n, to, by) |-> elems[n + (k - 1) * by + 1]]

\* A part begins with an element, and the rest of it is a part.
LEMMA PartFollows ==
    ASSUME NEW T, NEW elems \in Seq(T), NEW by \in 1..3, NEW to \in 0..Len(elems) - 1,
           NEW n \in 0..Len(elems) + by
    PROVE  Part(elems, n, to, by)
              = IF n <= to THEN <<elems[n + 1]>> \o Part(elems, n + by, to, by) ELSE <<>>
<1> DEFINE K == Steps(n, to, by)
           L == Steps(n + by, to, by)
           p == Part(elems, n, to, by)
           q == Part(elems, n + by, to, by)
<1>1. /\ n \in Nat /\ by \in Nat /\ to \in Nat /\ K \in Nat /\ L \in Nat
      /\ n <= to => K = 1 + L
      /\ ~ (n <= to) => K = 0
  <2>1. /\ Len(elems) \in Nat /\ n \in Int /\ n + by \in Int /\ to \in Int /\ by \in 1..3
        /\ n \in Nat /\ by \in Nat /\ to \in Nat
    OBVIOUS
  <2>2. K \in Nat /\ L \in Nat
    BY <2>1, StepsReach
  <2>3. /\ n <= to => K = 1 + L
        /\ ~ (n <= to) => K = 0
    BY <2>1, StepsFollow
  <2> QED BY <2>1, <2>2, <2>3
<1>2. CASE ~ (n <= to)
  <2>1. K = 0
    BY <1>1, <1>2
  <2>2. p = <<>>
    BY <2>1 DEF Part
  <2> QED BY <1>2, <2>2
<1>3. CASE n <= to
  <2>1. \A k \in 1..L : n + by + (k - 1) * by + 1 \in 1..Len(elems)
    <3> SUFFICES ASSUME NEW k \in 1..L PROVE n + by + (k - 1) * by + 1 \in 1..Len(elems)
      OBVIOUS
    <3>1. n + by + (k - 1) * by \in Progress(n + by, to, by)
      <4>1. n + by \in Int /\ to \in Int /\ by \in 1..3
        BY <1>1
      <4>2. \A j \in 1..L : n + by + (j - 1) * by \in Progress(n + by, to, by)
        BY <4>1, StepsReach
      <4> QED BY <4>2
    <3>2. n + by + (k - 1) * by \in n + by..to
      BY <3>1 DEF Progress
    <3> QED BY <1>1, <3>2
  <2>2. q \in Seq(T) /\ Len(q) = L /\ \A k \in 1..L : q[k] = elems[n + by + (k - 1) * by + 1]
    <3> DEFINE at(k) == n + by + (k - 1) * by + 1
    <3>1. \A k \in 1..L : elems[at(k)] \in T
      <4> HIDE DEF at
      <4> SUFFICES ASSUME NEW k \in 1..L PROVE elems[at(k)] \in T
        OBVIOUS
      <4>1. at(k) \in 1..Len(elems)
        BY <2>1 DEF at
      <4> QED BY <4>1
    <3>2. q = [k \in 1..L |-> elems[at(k)]]
      BY DEF Part
    <3> HIDE DEF at, L, q
    <3>3. q \in Seq(T) /\ Len(q) = L /\ \A k \in 1..L : q[k] = elems[at(k)]
      BY <1>1, <3>1, <3>2
    <3> QED BY <3>3 DEF at
  <2>3. \A k \in 1..K : p[k] = elems[n + (k - 1) * by + 1]
    BY DEF Part
  <2>9. p = [k \in 1..K |-> p[k]]
    BY DEF Part
  <2>4. <<elems[n + 1]>> \in Seq(T) /\ Len(<<elems[n + 1]>>) = 1
    BY <1>1, <1>3
  <2> HIDE DEF K, L, p, q
  <2> DEFINE r == <<elems[n + 1]>> \o q
  <2>5. r \in Seq(T) /\ Len(r) = 1 + L
    BY <1>1, <2>2, <2>4, ConcatProperties
  <2>6. \A k \in 1..K : r[k] = p[k]
    <3> SUFFICES ASSUME NEW k \in 1..K PROVE r[k] = p[k]
      OBVIOUS
    <3>1. CASE k = 1
      <4>1. r[1] = elems[n + 1]
        BY <1>1, <1>3, <2>2, <2>4, ConcatProperties
      <4>2. p[1] = elems[n + (1 - 1) * by + 1]
        BY <2>3, <3>1
      <4>3. n + (1 - 1) * by + 1 = n + 1
        BY <1>1
      <4> QED BY <3>1, <4>1, <4>2, <4>3
    <3>2. CASE k # 1
      <4>1. /\ k - 1 \in 1..L /\ k \in Nat
            /\ k \in Len(<<elems[n + 1]>>) + 1..Len(<<elems[n + 1]>>) + Len(q)
        BY <1>1, <1>3, <2>2, <2>4, <3>2
      <4>2. r[k] = q[k - 1]
        BY <1>1, <2>2, <2>4, <4>1, ConcatProperties
      <4>3. n + by + (k - 1 - 1) * by + 1 = n + (k - 1) * by + 1
        <5>1. CASE by = 1
          BY <1>1, <4>1, <5>1
        <5>2. CASE by = 2
          BY <1>1, <4>1, <5>2
        <5>3. CASE by = 3
          BY <1>1, <4>1, <5>3
        <5> QED BY <5>1, <5>2, <5>3
      <4> QED BY <2>2, <2>3, <4>1, <4>2, <4>3
    <3> QED BY <3>1, <3>2
  <2>7. r = [k \in 1..K |-> p[k]]
    <3> HIDE DEF r
    <3>1. r = [k \in 1..K |-> r[k]]
      BY <1>1, <1>3, <2>5
    <3> QED BY <2>6, <3>1
  <2> QED BY <1>3, <2>7, <2>9 DEF r, p, q
<1> QED BY <1>2, <1>3

\* What array_getRange copies.
LEMMA RangeIs ==
    ASSUME NEW T, NEW elems \in Seq(T), NEW start \in Nat, NEW to \in 0..Len(elems) - 1,
           NEW by \in 1..3
    PROVE  array_getRange(elems, Sequence(start, to, by)) = Part(elems, start, to, by)
<1> DEFINE K == Len(elems) + by
           Eq(f) == f = [n \in 0..K |->
                           IF n <= to THEN <<elems[n + 1]>> \o f[n + by] ELSE <<>>]
           P(n) == Part(elems, n, to, by)
           from == CHOOSE f : Eq(f)
<1>1. Len(elems) \in Nat /\ by \in 1..3 /\ by \in Nat /\ K \in Nat /\ to \in 0..Len(elems) - 1
      /\ to \in Nat
  OBVIOUS
<1>2. array_getRange(elems, Sequence(start, to, by)) = IF start > to THEN <<>> ELSE from[start]
  <2>1. ~ (start < 0)
    OBVIOUS
  <2> QED BY <2>1 DEF array_getRange, Sequence
<1>3. \A n \in 0..K : P(n) = IF n <= to THEN <<elems[n + 1]>> \o P(n + by) ELSE <<>>
  BY PartFollows
<1> HIDE DEF K, P
<1>4. \E f : Eq(f)
  <2> DEFINE F == [n \in 0..K |-> P(n)]
  <2>1. \A n \in 0..K : n <= to => n + by \in 0..K
    BY <1>1 DEF K
  <2>2. \A n \in 0..K : F[n] = IF n <= to THEN <<elems[n + 1]>> \o F[n + by] ELSE <<>>
    BY <1>3, <2>1
  <2>3. Eq(F)
    <3>1. F = [n \in 0..K |-> F[n]]
      OBVIOUS
    <3> HIDE DEF F
    <3> QED BY <2>2, <3>1
  <2> QED BY <2>3
<1>5. Eq(from)
  BY <1>4
<1> HIDE DEF from
<1>6. \A n \in 0..K : from[n] = P(n)
  <2> DEFINE Bad == {m \in 0..K : from[K - m] # P(K - m)}
  <2>1. CASE Bad = {}
    <3> SUFFICES ASSUME NEW n \in 0..K PROVE from[n] = P(n)
      OBVIOUS
    <3>1. K - n \in 0..K /\ K - (K - n) = n
      BY <1>1
    <3> QED BY <2>1, <3>1
  <2>2. CASE Bad # {}
    <3>1. PICK m \in Bad : \A j \in Bad : m <= j
      <4>1. Bad \in SUBSET Nat
        BY <1>1
      <4> HIDE DEF Bad
      <4> QED BY <2>2, <4>1, LeastNumber
    <3> DEFINE n == K - m
    <3>2. n \in 0..K /\ m \in 0..K /\ from[n] # P(n)
      BY <1>1
    <3>3. from[n] = IF n <= to THEN <<elems[n + 1]>> \o from[n + by] ELSE <<>>
      BY <1>5, <3>2
    <3>4. P(n) = IF n <= to THEN <<elems[n + 1]>> \o P(n + by) ELSE <<>>
      BY <1>3, <3>2
    <3>5. n <= to
      BY <3>2, <3>3, <3>4
    <3>6. from[n + by] # P(n + by)
      BY <3>2, <3>3, <3>4, <3>5
    <3>7. m - by \in 0..K /\ K - (m - by) = n + by /\ ~ (m <= m - by)
      BY <1>1, <3>2, <3>5 DEF K
    <3>8. m - by \in Bad
      BY <3>6, <3>7
    <3> QED BY <3>1, <3>7, <3>8
  <2> QED BY <2>1, <2>2
<1>7. CASE start > to
  <2>1. Steps(start, to, by) = 0
    <3>1. start \in Int /\ to \in Int /\ by \in 1..3 /\ ~ (start <= to)
      BY <1>1, <1>7
    <3> QED BY <3>1, StepsFollow
  <2>2. Part(elems, start, to, by) = <<>>
    BY <2>1 DEF Part
  <2> QED BY <1>2, <1>7, <2>2
<1>8. CASE ~ (start > to)
  <2>1. start \in 0..K
    BY <1>1, <1>8 DEF K
  <2> QED BY <1>2, <1>6, <1>8, <2>1 DEF P
<1> QED BY <1>7, <1>8

-----------------------------------------------------------------------------
(* Lists and arrays. *)

\* An improper list has its last rest for an element, and no index finds it.
LEMMA ListReads ==
    ASSUME NEW elems \in Seq(Things), NEW rest \in Seq(Things), Len(rest) <= 1
    PROVE  ReadAlike(List(elems, rest))
<1> DEFINE x == List(elems, rest)
           all == elems \o rest
<1>1. x.type = "List" /\ x.elems = elems /\ x.rest = rest
  BY DEF List
<1>2. /\ all \in Seq(Things) /\ Len(all) = Len(elems) + Len(rest)
      /\ \A n \in 1..Len(elems) : all[n] = elems[n]
      /\ \A n \in 1..Len(rest) : all[Len(elems) + n] = rest[n]
  <2>1. Len(elems) \in Nat /\ Len(rest) \in Nat
    OBVIOUS
  <2>2. ASSUME NEW n \in 1..Len(rest) PROVE all[Len(elems) + n] = rest[n]
    <3>1. /\ Len(elems) + n \in 1..Len(elems) + Len(rest) /\ ~ (Len(elems) + n <= Len(elems))
          /\ Len(elems) + n - Len(elems) = n
      BY <2>1
    <3> QED BY <3>1, ConcatProperties
  <2>3. ASSUME NEW n \in 1..Len(elems) PROVE all[n] = elems[n]
    <3>1. n \in 1..Len(elems) + Len(rest) /\ n <= Len(elems)
      BY <2>1
    <3> QED BY <3>1, ConcatProperties
  <2>4. all \in Seq(Things) /\ Len(all) = Len(elems) + Len(rest)
    BY ConcatProperties
  <2> HIDE DEF all
  <2> QED BY <2>2, <2>3, <2>4
<1>3. Len(elems) \in Nat /\ Len(rest) \in 0..1
  <2>1. Len(rest) \in Nat /\ Len(elems) \in Nat
    OBVIOUS
  <2>2. \A n \in Nat : n <= 1 => n \in 0..1
    OBVIOUS
  <2>3. Len(rest) \in 0..1
    BY <2>1, <2>2
  <2> QED BY <2>1, <2>3
<1>4. Consists(x) = all
  BY <1>1 DEF Consists
<1> HIDE DEF x, all
<1>5. list_count(x) = Len(all)
  BY <1>1, <1>2 DEF list_count
<1>6. list_asArray(x) = all
  <2>1. \A n \in 1..Len(all) : all[n] = IF n <= Len(elems) THEN elems[n] ELSE rest[1]
    <3> SUFFICES ASSUME NEW n \in 1..Len(all)
                 PROVE  all[n] = IF n <= Len(elems) THEN elems[n] ELSE rest[1]
      OBVIOUS
    <3>1. CASE n <= Len(elems)
      BY <1>2, <1>3, <3>1
    <3>2. CASE ~ (n <= Len(elems))
      <4>1. Len(rest) = 1 /\ n = Len(elems) + 1 /\ 1 \in 1..Len(rest)
        BY <1>2, <1>3, <3>2
      <4> QED BY <1>2, <3>2, <4>1
    <3> QED BY <3>1, <3>2
  <2>2. all = [n \in 1..Len(all) |-> all[n]]
    BY <1>2
  <2>3. list_asArray(x) = [n \in 1..Len(all) |-> IF n <= Len(elems) THEN elems[n] ELSE rest[1]]
    BY <1>1, <1>5 DEF list_asArray
  <2> QED BY <2>1, <2>2, <2>3
<1>7. ASSUME NEW n \in 0..MaxThings
      PROVE  ns_list_get(x, n) = IF n < Len(x.elems) THEN all[n + 1] ELSE NULL
  <2>1. n \in Nat
    BY IteratorsAssumption
  <2>2. ns_list_get(x, n) = IF elems = <<>> \/ n >= Len(elems) THEN NULL ELSE elems[n + 1]
    BY <1>1, <2>1 DEF ns_list_get, list_getNth
  <2>3. CASE n < Len(elems)
    <3>1. elems # <<>> /\ ~ (n >= Len(elems)) /\ n + 1 \in 1..Len(elems)
      BY <1>3, <2>1, <2>3
    <3> QED BY <1>1, <1>2, <2>2, <2>3, <3>1
  <2>4. CASE ~ (n < Len(elems))
    BY <1>1, <1>3, <2>1, <2>2, <2>4
  <2> QED BY <2>3, <2>4
<1>8. ReadAlike(x)
  BY <1>1, <1>4, <1>5, <1>6, <1>7 DEF ReadAlike
<1> QED BY <1>8 DEF x

\* What ReadAlike says of an array.
ArrayAlike(x, all) ==
    /\ array_asQueue(x.elems) = all
    /\ Consists(array_domain(x.elems)) = [n \in 1..Len(all) |-> n - 1]
    /\ \A e \in Things : array_contains(x.elems, e) = (e \in ToSet(all))
    /\ \A n \in 0..MaxThings :
          ns_array_get(x.elems, [type |-> "Integer", value |-> n])
              = IF n < Len(all) THEN all[n + 1] ELSE NULL
    /\ \A from \in 0..MaxThings, to \in 0..Len(all) - 1, by \in 1..3 :
          LET range == Sequence(from, to, by)
              places == Consists(range)
          IN  ns_array_get(x.elems, range) = [n \in 1..Len(places) |-> all[places[n] + 1]]

\* The elements of an array by the queue made of it, by its domain, by an index, and by ranges.
LEMMA ArrayReads ==
    ASSUME NEW x, x.type = "Array", x.elems \in Seq(Things)
    PROVE  ReadAlike(x)
<1> DEFINE elems == x.elems
           N == Len(elems)
<1>1. Consists(x) = elems
  BY DEF Consists
<1>2. elems \in Seq(Things) /\ N \in Nat /\ MaxThings \in Nat
  BY IteratorsAssumption
<1> HIDE DEF elems
<1>3. array_asQueue(elems) = elems
  BY <1>2, QueueOfArray
<1>4. Consists(array_domain(elems)) = [n \in 1..N |-> n - 1]
  <2> HIDE DEF N
  <2>1. 0 \in Int /\ N - 1 \in Int /\ 1 \in 1..3
    BY <1>2
  <2>2. Consists(Sequence(0, N - 1, 1)) = [k \in 1..Steps(0, N - 1, 1) |-> 0 + (k - 1) * 1]
    BY <2>1, SequenceConsists
  <2>3. Steps(0, N - 1, 1) = N
    BY <1>2 DEF Steps
  <2>4. \A k \in 1..N : 0 + (k - 1) * 1 = k - 1
    BY <1>2
  <2>5. Consists(Sequence(0, N - 1, 1)) = [n \in 1..N |-> n - 1]
    BY <2>2, <2>3, <2>4
  <2> QED BY <2>5 DEF array_domain, N
<1>5. \A e \in Things : array_contains(elems, e) = (e \in ToSet(elems))
  <2>1. DOMAIN elems = 1..Len(elems)
    BY <1>2
  <2>2. ASSUME NEW e \in Things PROVE array_contains(elems, e) <=> e \in ToSet(elems)
    BY <2>1 DEF array_contains, ToSet
  <2>3. ASSUME NEW e \in Things PROVE array_contains(elems, e) \in BOOLEAN
    BY DEF array_contains
  <2> QED BY <2>2, <2>3
<1>6. \A n \in 0..MaxThings :
         ns_array_get(elems, [type |-> "Integer", value |-> n])
             = IF n < N THEN elems[n + 1] ELSE NULL
  BY <1>2 DEF ns_array_get, array_get
<1>7. ASSUME NEW from \in 0..MaxThings, NEW to \in 0..N - 1, NEW by \in 1..3
      PROVE  LET range == Sequence(from, to, by)
                 places == Consists(range)
             IN  ns_array_get(elems, range) = [n \in 1..Len(places) |-> elems[places[n] + 1]]
  <2> DEFINE range == Sequence(from, to, by)
             places == [k \in 1..Steps(from, to, by) |-> from + (k - 1) * by]
  <2>1. from \in Nat /\ from \in Int /\ to \in Int /\ by \in 1..3
    BY <1>2
  <2>2. Consists(range) = places
    BY <2>1, SequenceConsists
  <2>3. ns_array_get(elems, range) = Part(elems, from, to, by)
    <3>1. ns_array_get(elems, range) = array_getRange(elems, range)
      BY DEF ns_array_get, Sequence
    <3> QED BY <1>2, <2>1, <3>1, RangeIs
  <2>4. Steps(from, to, by) \in Nat
    BY <2>1, StepsReach
  <2>5. Len(places) = Steps(from, to, by) /\ \A k \in 1..Steps(from, to, by) :
           places[k] = from + (k - 1) * by
    BY <2>4
  <2> HIDE DEF places, range
  <2>6. Part(elems, from, to, by) = [n \in 1..Len(places) |-> elems[places[n] + 1]]
    BY <2>5 DEF Part
  <2> QED BY <2>2, <2>3, <2>6 DEF range
<1> DEFINE Ranges == \A from \in 0..MaxThings, to \in 0..Len(elems) - 1, by \in 1..3 :
                        LET range == Sequence(from, to, by)
                            places == Consists(range)
                        IN  ns_array_get(elems, range)
                               = [n \in 1..Len(places) |-> elems[places[n] + 1]]
<1>8. Ranges
  BY <1>7
<1> HIDE DEF Ranges, N
<1>9. /\ array_asQueue(x.elems) = elems
      /\ Consists(array_domain(x.elems)) = [n \in 1..Len(elems) |-> n - 1]
      /\ \A e \in Things : array_contains(x.elems, e) = (e \in ToSet(elems))
      /\ \A n \in 0..MaxThings :
            ns_array_get(x.elems, [type |-> "Integer", value |-> n])
                = IF n < Len(elems) THEN elems[n + 1] ELSE NULL
  BY <1>3, <1>4, <1>5, <1>6 DEF elems, N
<1>10. ReadAlike(x) <=> ArrayAlike(x, elems)
  BY <1>1 DEF ReadAlike, ArrayAlike
<1> QED BY <1>8, <1>9, <1>10 DEF Ranges, ArrayAlike, elems

-----------------------------------------------------------------------------
(* Strings. *)

\* The elements of a part of a sequence.
LEMMA PartOf ==
    ASSUME NEW T, NEW s \in Seq(T), NEW m \in 1..Len(s) + 1, NEW n \in m - 1..Len(s)
    PROVE  /\ SubSeq(s, m, n) \in Seq(T) /\ Len(SubSeq(s, m, n)) = n - m + 1
           /\ \A i \in 1..n - m + 1 : SubSeq(s, m, n)[i] = s[m + i - 1]
<1>1. Len(s) \in Nat /\ m \in Int /\ n \in Int
  OBVIOUS
<1>2. \A i \in m..n : s[i] \in T
  BY <1>1
<1>3. /\ SubSeq(s, m, n) \in Seq(T)
      /\ Len(SubSeq(s, m, n)) = IF m <= n THEN n - m + 1 ELSE 0
      /\ \A i \in 1..n - m + 1 : SubSeq(s, m, n)[i] = s[m + i - 1]
  BY <1>1, <1>2, SubSeqProperties
<1> QED BY <1>1, <1>3

\* Two sequences with the same elements.
LEMMA SameElements ==
    ASSUME NEW T, NEW s \in Seq(T), NEW t \in Seq(T), Len(s) = Len(t),
           \A i \in 1..Len(s) : s[i] = t[i]
    PROVE  s = t
OBVIOUS

\* The indices at which a token is in a string.
Found(chars, token) ==
    {n \in 0..Len(chars) - Len(token) : SubSeq(chars, n + 1, n + Len(token)) = token}

\* A token is at an index if its characters are.
LEMMA FoundIs ==
    ASSUME NEW T, NEW chars \in Seq(T), NEW token \in Seq(T), NEW n \in Nat
    PROVE  n \in Found(chars, token) <=>
              /\ n + Len(token) <= Len(chars)
              /\ \A i \in 1..Len(token) : chars[n + i] = token[i]
<1>1. Len(chars) \in Nat /\ Len(token) \in Nat /\ n \in Nat
  OBVIOUS
<1>2. n \in Found(chars, token) <=>
         /\ n + Len(token) <= Len(chars)
         /\ SubSeq(chars, n + 1, n + Len(token)) = token
  BY <1>1 DEF Found
<1>3. ASSUME n + Len(token) <= Len(chars)
      PROVE  SubSeq(chars, n + 1, n + Len(token)) = token
                <=> \A i \in 1..Len(token) : chars[n + i] = token[i]
  <2> DEFINE p == SubSeq(chars, n + 1, n + Len(token))
  <2> DEFINE first == n + 1
             last == n + Len(token)
  <2>1. /\ first \in 1..Len(chars) + 1 /\ last \in first - 1..Len(chars)
        /\ last - first + 1 = Len(token)
    BY <1>1, <1>3
  <2>3. \A i \in 1..Len(token) : first + i - 1 = n + i
    BY <1>1
  <2> HIDE DEF first, last
  <2>2. /\ SubSeq(chars, first, last) \in Seq(T)
        /\ Len(SubSeq(chars, first, last)) = last - first + 1
        /\ \A i \in 1..last - first + 1 : SubSeq(chars, first, last)[i] = chars[first + i - 1]
    BY <2>1, PartOf
  <2>8. p = SubSeq(chars, first, last)
    BY DEF first, last
  <2> HIDE DEF p
  <2>4. p \in Seq(T) /\ Len(p) = Len(token) /\ \A i \in 1..Len(token) : p[i] = chars[n + i]
    BY <2>1, <2>2, <2>3, <2>8
  <2>5. ASSUME \A i \in 1..Len(token) : chars[n + i] = token[i] PROVE p = token
    BY <2>4, <2>5, SameElements
  <2>6. p = token => \A i \in 1..Len(token) : chars[n + i] = token[i]
    BY <2>4
  <2>7. p = token <=> \A i \in 1..Len(token) : chars[n + i] = token[i]
    BY <2>5, <2>6
  <2> QED BY <2>7 DEF p
<1> QED BY <1>2, <1>3

\* string_locate finds the first index at which the token is, if there is one.
LEMMA LocateIs ==
    ASSUME NEW chars, NEW token, Len(chars) \in Nat, Len(token) \in Nat
    PROVE  /\ string_locate(chars, token) = NULL <=> Found(chars, token) = {}
           /\ Found(chars, token) # {} =>
                 /\ string_locate(chars, token) \in Found(chars, token)
                 /\ \A m \in Found(chars, token) : string_locate(chars, token) <= m
<1> DEFINE F == Found(chars, token)
<1>1. string_locate(chars, token) = IF F = {} THEN NULL ELSE CHOOSE n \in F : \A m \in F : n <= m
  BY DEF string_locate, Found
<1>2. F \in SUBSET Nat
  BY DEF Found
<1> HIDE DEF F
<1>3. CASE F = {}
  BY <1>1, <1>3 DEF F
<1>4. CASE F # {}
  <2>1. \E n \in F : \A m \in F : n <= m
    BY <1>2, <1>4, LeastNumber
  <2> DEFINE first == CHOOSE n \in F : \A m \in F : n <= m
  <2>2. first \in F /\ \A m \in F : first <= m
    BY <2>1
  <2>4. string_locate(chars, token) = first
    BY <1>1, <1>4
  <2> HIDE DEF first
  <2>3. string_locate(chars, token) # NULL
    BY <1>2, <2>2, <2>4, IteratorsAssumption
  <2> QED BY <1>4, <2>2, <2>3, <2>4 DEF F
<1> QED BY <1>3, <1>4

\* A string that starts with a token has it at the first index.
LEMMA StartsIs ==
    ASSUME NEW T, NEW chars \in Seq(T), NEW token \in Seq(T)
    PROVE  /\ string_startsWith(chars, token) <=> string_locate(chars, token) = 0
           /\ string_startsWith(chars, token) <=> 0 \in Found(chars, token)
<1>1. Len(chars) \in Nat /\ Len(token) \in Nat /\ 0 \in Nat
  OBVIOUS
<1>2. 0 \in Found(chars, token) <=>
         /\ 0 + Len(token) <= Len(chars)
         /\ \A i \in 1..Len(token) : chars[0 + i] = token[i]
  BY <1>1, FoundIs
<1>3. \A i \in 1..Len(token) : 0 + i = i
  BY <1>1
<1>4. string_startsWith(chars, token) <=> 0 \in Found(chars, token)
  BY <1>1, <1>2, <1>3 DEF string_startsWith
<1>5. 0 \in Found(chars, token) => string_locate(chars, token) = 0
  <2>1. Found(chars, token) \in SUBSET Nat
    BY DEF Found
  <2>2. 0 \in Found(chars, token) => string_locate(chars, token) <= 0
                                     /\ string_locate(chars, token) \in Found(chars, token)
    BY <1>1, LocateIs
  <2> QED BY <2>1, <2>2
<1>6. string_locate(chars, token) = 0 => 0 \in Found(chars, token)
  <2>1. 0 # NULL
    BY IteratorsAssumption
  <2> QED BY <1>1, <2>1, LocateIs
<1> QED BY <1>4, <1>5, <1>6

\* What ReadAlike says of a string and a token.
TokenAlike(all, token) ==
    LET at == string_locate(all, token)
    IN  /\ string_startsWith(all, token) = (at = 0)
        /\ string_locate(string_join(token, <<all, token>>), token) = 0
        /\ at # NULL =>
              string_join(SubSeq(all, 1, at),
                          <<token, SubSeq(all, at + Len(token) + 1, Len(all))>>) = all
        /\ at = NULL => \A n \in 0..Len(all) :
              ~string_startsWith(SubSeq(all, n + 1, Len(all)), token)

\* What is in front of a token, the token, and what is behind it are the string.
LEMMA TokenInside ==
    ASSUME NEW T, NEW all \in Seq(T), NEW token \in Seq(T), NEW at \in Found(all, token)
    PROVE  string_join(SubSeq(all, 1, at),
                       <<token, SubSeq(all, at + Len(token) + 1, Len(all))>>) = all
<1> DEFINE a == SubSeq(all, 1, at)
           b == SubSeq(all, at + 1, at + Len(token))
           c == SubSeq(all, at + Len(token) + 1, Len(all))
<1>1. /\ Len(all) \in Nat /\ Len(token) \in Nat /\ at \in Nat
      /\ at + Len(token) <= Len(all) /\ b = token
  BY DEF Found
<1>2. /\ 1 \in 1..Len(all) + 1 /\ at \in 1 - 1..Len(all)
      /\ at + 1 \in 1..Len(all) + 1 /\ at + Len(token) \in at + 1 - 1..Len(all)
      /\ at + Len(token) + 1 \in 1..Len(all) + 1
      /\ Len(all) \in at + Len(token) + 1 - 1..Len(all)
      /\ at + Len(token) \in 1 - 1..Len(all) /\ at + Len(token) \in at..Len(all)
      /\ Len(all) \in at + Len(token)..Len(all)
  BY <1>1
<1>3. a \in Seq(T) /\ token \in Seq(T) /\ c \in Seq(T)
  BY <1>2, PartOf
<1>4. string_join(a, <<token, c>>) = (a \o token) \o c
  <2> HIDE DEF a, c
  <2>1. string_join(a, <<token, c>>) = Joined(a, token, c)
    BY JoinOfTwo
  <2> QED BY <2>1 DEF Joined
<1>5. a \o b = SubSeq(all, 1, at + Len(token))
  BY <1>2, ConcatAdjacentSubSeq
<1>6. SubSeq(all, 1, at + Len(token)) \o c = SubSeq(all, 1, Len(all))
  BY <1>2, ConcatAdjacentSubSeq
<1>7. SubSeq(all, 1, Len(all)) = all
  BY SubSeqFull
<1> HIDE DEF a, b, c
<1>8. string_join(a, <<token, c>>) = all
  BY <1>1, <1>4, <1>5, <1>6, <1>7
<1> QED BY <1>8 DEF a, c

\* Where a string that is joined begins with a token, the token is found first.
LEMMA TokenInFront ==
    ASSUME NEW T, NEW all \in Seq(T), NEW token \in Seq(T)
    PROVE  string_locate(string_join(token, <<all, token>>), token) = 0
<1> DEFINE j == string_join(token, <<all, token>>)
           k == token \o all
<1>1. j = k \o token
  <2>1. j = Joined(token, all, token)
    BY JoinOfTwo
  <2> QED BY <2>1 DEF Joined
<1>2. Len(token) \in Nat /\ Len(all) \in Nat
  OBVIOUS
<1>3. /\ k \in Seq(T) /\ Len(k) = Len(token) + Len(all)
      /\ \A i \in 1..Len(token) + Len(all) :
            k[i] = IF i <= Len(token) THEN token[i] ELSE all[i - Len(token)]
  BY ConcatProperties
<1> HIDE DEF j, k
<1>4. /\ j \in Seq(T) /\ Len(j) = Len(k) + Len(token)
      /\ \A i \in 1..Len(k) + Len(token) :
            j[i] = IF i <= Len(k) THEN k[i] ELSE token[i - Len(k)]
  <2> DEFINE l == k \o token
  <2>1. /\ l \in Seq(T) /\ Len(l) = Len(k) + Len(token)
        /\ \A i \in 1..Len(k) + Len(token) :
              l[i] = IF i <= Len(k) THEN k[i] ELSE token[i - Len(k)]
    <3> HIDE DEF l
    <3>1. token \in Seq(T) /\ k \in Seq(T)
      BY <1>3
    <3> QED BY <3>1, ConcatProperties DEF l
  <2>2. j = l
    BY <1>1
  <2> HIDE DEF l
  <2> QED BY <2>1, <2>2
<1>5. 0 + Len(token) <= Len(j)
  BY <1>2, <1>3, <1>4
<1>6. ASSUME NEW i \in 1..Len(token) PROVE j[0 + i] = token[i]
  <2>1. /\ 0 + i = i /\ i \in 1..Len(token) + Len(all) /\ i <= Len(token)
        /\ i \in 1..Len(k) + Len(token) /\ i <= Len(k)
    BY <1>2, <1>3
  <2> QED BY <1>3, <1>4, <2>1
<1>7. 0 \in Found(j, token)
  BY <1>4, <1>5, <1>6, FoundIs
<1>8. string_locate(j, token) = 0
  BY <1>4, <1>7, StartsIs
<1> QED BY <1>8 DEF j

\* A token that is not found is nowhere.
LEMMA TokenNowhere ==
    ASSUME NEW T, NEW all \in Seq(T), NEW token \in Seq(T), Found(all, token) = {},
           NEW n \in 0..Len(all)
    PROVE  ~string_startsWith(SubSeq(all, n + 1, Len(all)), token)
<1> DEFINE p == SubSeq(all, n + 1, Len(all))
<1>1. Len(all) \in Nat /\ Len(token) \in Nat /\ n \in Nat
  OBVIOUS
<1>2. /\ p \in Seq(T) /\ Len(p) = Len(all) - (n + 1) + 1
      /\ \A i \in 1..Len(all) - (n + 1) + 1 : p[i] = all[n + 1 + i - 1]
  <2>1. n + 1 \in 1..Len(all) + 1 /\ Len(all) \in n + 1 - 1..Len(all)
    BY <1>1
  <2> QED BY <2>1, PartOf
<1> HIDE DEF p
<1>3. SUFFICES ASSUME string_startsWith(p, token) PROVE FALSE
  BY DEF p
<1>4. Len(p) >= Len(token) /\ \A i \in 1..Len(token) : p[i] = token[i]
  BY <1>3 DEF string_startsWith
<1>5. n + Len(token) <= Len(all)
  BY <1>1, <1>2, <1>4
<1>6. ASSUME NEW i \in 1..Len(token) PROVE all[n + i] = token[i]
  <2>1. i \in 1..Len(all) - (n + 1) + 1 /\ n + 1 + i - 1 = n + i
    BY <1>1, <1>5
  <2> QED BY <1>2, <1>4, <2>1
<1>7. n \in Found(all, token)
  BY <1>1, <1>5, <1>6, FoundIs
<1> QED BY <1>7

\* A string and a token.
LEMMA TokenReads ==
    ASSUME NEW T, NEW all \in Seq(T), NEW token \in Seq(T)
    PROVE  TokenAlike(all, token)
<1> DEFINE at == string_locate(all, token)
<1>1. Len(all) \in Nat /\ Len(token) \in Nat
  OBVIOUS
<1>2. string_startsWith(all, token) = (at = 0)
  <2>1. string_startsWith(all, token) <=> at = 0
    BY StartsIs
  <2>2. string_startsWith(all, token) \in BOOLEAN
    BY DEF string_startsWith
  <2> HIDE DEF at
  <2> QED BY <2>1, <2>2
<1>3. string_locate(string_join(token, <<all, token>>), token) = 0
  BY TokenInFront
<1>4. at # NULL => at \in Found(all, token)
  BY <1>1, LocateIs
<1>5. at = NULL => Found(all, token) = {}
  BY <1>1, LocateIs
<1> HIDE DEF at
<1>6. at # NULL => string_join(SubSeq(all, 1, at),
                       <<token, SubSeq(all, at + Len(token) + 1, Len(all))>>) = all
  BY <1>4, TokenInside
<1>7. at = NULL => \A n \in 0..Len(all) :
                      ~string_startsWith(SubSeq(all, n + 1, Len(all)), token)
  BY <1>5, TokenNowhere
<1> QED BY <1>2, <1>3, <1>6, <1>7 DEF TokenAlike, at

\* The characters of a string by their indices, and by the tokens that are in it.
LEMMA StringReads ==
    ASSUME NEW x, x.type = "String", x.elems \in Seq(Things)
    PROVE  ReadAlike(x)
<1> DEFINE all == x.elems
           Chars == \A n \in -1..MaxThings :
                string_getChar(all, n) = IF n \in 0..Len(all) - 1 THEN all[n + 1] ELSE NULL
<1>1. Consists(x) = all
  BY DEF Consists
<1>2. ReadAlike(x) <=> Chars /\ \A token \in SeqOf(Things, 2) : TokenAlike(all, token)
  BY <1>1 DEF ReadAlike, TokenAlike
<1>3. Chars
  <2>1. Len(all) \in Nat /\ MaxThings \in Nat
    BY IteratorsAssumption
  <2> HIDE DEF all
  <2>2. ASSUME NEW n \in -1..MaxThings PROVE (n < 0 \/ n >= Len(all)) <=> ~ (n \in 0..Len(all) - 1)
    BY <2>1
  <2> QED BY <2>2 DEF string_getChar
<1>4. ASSUME NEW token \in SeqOf(Things, 2) PROVE TokenAlike(all, token)
  <2>1. PICK m \in 0..2 : token \in [1..m -> Things]
    BY DEF SeqOf
  <2>2. token \in Seq(Things)
    BY <2>1
  <2> QED BY <2>2, TokenReads
<1> HIDE DEF Chars, all
<1> QED BY <1>2, <1>3, <1>4

-----------------------------------------------------------------------------
(* Sequences. *)

\* What sequence_contains finds are the numbers of the sequence.
LEMMA ContainsIs ==
    ASSUME NEW from \in Int, NEW to \in Int, NEW by \in 1..3, NEW n \in Int
    PROVE  sequence_contains(Sequence(from, to, by), n) <=> n \in Progress(from, to, by)
<1>1. sequence_contains(Sequence(from, to, by), n)
         <=> n - from >= 0 /\ n - from <= to - from /\ (n - from) % by = 0
  BY DEF sequence_contains, Sequence
<1>2. n \in from..to <=> n - from >= 0 /\ n - from <= to - from
  OBVIOUS
<1> QED BY <1>1, <1>2 DEF Progress

\* What sequence_count counts.
LEMMA CountIs ==
    ASSUME NEW from \in Int, NEW to \in Int, NEW by \in 1..3, from <= to \/ by = 1
    PROVE  sequence_count(Sequence(from, to, by)) = Steps(from, to, by)
<1>1. sequence_count(Sequence(from, to, by))
         = LET quotient == IF to >= from THEN (to - from) \div by ELSE -((from - to) \div by)
           IN  IF quotient + 1 >= 0 THEN quotient + 1 ELSE 0
  BY DEF sequence_count, Sequence
<1>2. CASE by = 1
  BY <1>1, <1>2 DEF Steps
<1>3. CASE by = 2
  BY <1>1, <1>3 DEF Steps
<1>4. CASE by = 3
  BY <1>1, <1>4 DEF Steps
<1> QED BY <1>2, <1>3, <1>4

\* What a sequence consists of is counted and is what it contains.
LEMMA SequenceReads ==
    ASSUME NEW from \in Int, NEW to \in Int, NEW by \in 1..3
    PROVE  ReadAlike(Sequence(from, to, by))
<1> DEFINE x == Sequence(from, to, by)
           N == Steps(from, to, by)
           all == [k \in 1..N |-> from + (k - 1) * by]
<1>1. x.type = "Sequence" /\ x.from = from /\ x.to = to /\ x.by = by
  BY DEF Sequence
<1>2. Consists(x) = all
  BY SequenceConsists
<1>3. N \in Nat /\ \A k \in 1..N : from + (k - 1) * by \in Progress(from, to, by)
  BY StepsReach
<1>4. \A n \in Progress(from, to, by) : \E k \in 1..N : n = from + (k - 1) * by
  BY StepsReach
<1>5. from <= to \/ by = 1 => sequence_count(x) = N
  BY CountIs
<1> HIDE DEF N
<1>6. Len(all) = N /\ DOMAIN all = 1..N
  BY <1>3
<1>7. ASSUME NEW n \in Int PROVE sequence_contains(x, n) = (n \in ToSet(all))
  <2>1. sequence_contains(x, n) <=> n \in Progress(from, to, by)
    BY ContainsIs
  <2>2. n \in ToSet(all) <=> \E k \in 1..N : n = from + (k - 1) * by
    BY DEF ToSet
  <2>3. n \in Progress(from, to, by) <=> \E k \in 1..N : n = from + (k - 1) * by
    BY <1>3, <1>4
  <2>4. sequence_contains(x, n) \in BOOLEAN
    BY DEF sequence_contains
  <2> HIDE DEF x, all
  <2> QED BY <2>1, <2>2, <2>3, <2>4
<1> HIDE DEF x, all
<1>8. \A n \in -MaxNumber..MaxNumber : sequence_contains(x, n) = (n \in ToSet(all))
  <2>1. MaxNumber \in Nat
    BY IteratorsAssumption
  <2> QED BY <1>7, <2>1
<1>9. ReadAlike(x)
  BY <1>1, <1>2, <1>5, <1>6, <1>8 DEF ReadAlike
<1> QED BY <1>9 DEF x

-----------------------------------------------------------------------------
(* Where an iterator is. *)

\* What can be gone over.
IsLine(x) == x.type \in {"Array", "String", "Set", "Queue", "Atom"} /\ x.elems \in Seq(Things)

\* There is no end of an improper list that has no element.
IsListOf(l, elems, rest) ==
    /\ elems \in Seq(Things) /\ rest \in Seq(Things) /\ Len(rest) <= 1
    /\ elems = <<>> => rest = <<>>
    /\ l = List(elems, rest)

IsSequence(x) ==
    \E from \in Int, to \in Int, by \in 1..3 : x = Sequence(from, to, by)

\* The object is of one of these forms.
Iterable(x) ==
    \/ IsLine(x)
    \/ \E elems, rest \in Seq(Things) : IsListOf(x, elems, rest)
    \/ IsSequence(x)
    \/ x.type = "Integer" /\ x.value \in Int

\* What is left to visit after n elements of all: a list of the others.
ListAt(l, all, n) ==
    \E elems, rest \in Seq(Things) :
        /\ IsListOf(l, elems, rest)
        /\ n + Len(elems) + Len(rest) = Len(all)
        /\ \A i \in 1..Len(elems) : elems[i] = all[n + i]
        /\ \A i \in 1..Len(rest) : rest[i] = all[n + Len(elems) + i]

\* The state of the iterator when n elements have come out of it.
StateAt(x, s, n) ==
    /\ x.type \in {"List", "Queue", "Atom"} => ListAt(s, Consists(x), n)
    /\ x.type \in {"Array", "Set", "String"} => s = [index |-> n]
    /\ x.type \in {"Sequence", "Integer"} =>
          s = [n |-> IF n < Len(Consists(x)) THEN Consists(x)[n + 1] ELSE NULL]

\* The forms that the objects have.
LEMMA IterableForms ==
    ASSUME NEW x \in Iterables
    PROVE  Iterable(x)
<1> DEFINE lines == SeqOf(Things, MaxThings)
           numbers == -MaxNumber..MaxNumber
<1>1. MaxThings \in Nat /\ MaxNumber \in Nat
  BY IteratorsAssumption
<1>2. \A s \in lines : s \in Seq(Things)
  <2> SUFFICES ASSUME NEW s \in lines PROVE s \in Seq(Things)
    OBVIOUS
  <2>1. PICK m \in 0..MaxThings : s \in [1..m -> Things]
    BY DEF SeqOf
  <2> QED BY <1>1, <2>1
<1>3. numbers \subseteq Int
  BY <1>1
<1>4. <<>> \in Seq(Things) /\ Len(<<>>) <= 1
  OBVIOUS
<1>5. \A e \in Things : <<e>> \in Seq(Things) /\ Len(<<e>>) <= 1
  OBVIOUS
<1>6. \/ \E t \in {"Array", "String", "Queue"}, s \in lines : x = [type |-> t, elems |-> s]
      \/ \E s \in lines : x = [type |-> "Set", elems |-> s]
      \/ \E s \in lines : x = Proper(s)
      \/ \E s \in lines \ {<<>>}, e \in Things : x = List(s, <<e>>)
      \/ \E from \in numbers, to \in numbers, by \in 1..3 : x = Sequence(from, to, by)
      \/ \E n \in numbers : x = [type |-> "Integer", value |-> n]
      \/ \E e \in Things : x = [type |-> "Atom", elems |-> <<e>>]
  BY DEF Iterables
<1> HIDE DEF lines, numbers
<1>7. ASSUME NEW t \in {"Array", "String", "Queue"}, NEW s \in lines, x = [type |-> t, elems |-> s]
      PROVE  IsLine(x)
  BY <1>2, <1>7 DEF IsLine
<1>8. ASSUME NEW s \in lines, x = [type |-> "Set", elems |-> s] PROVE IsLine(x)
  BY <1>2, <1>8 DEF IsLine
<1>9. ASSUME NEW s \in lines, x = Proper(s) PROVE Iterable(x)
  <2>1. IsListOf(x, s, <<>>)
    BY <1>2, <1>4, <1>9 DEF IsListOf, Proper
  <2> QED BY <1>2, <1>4, <2>1 DEF Iterable
<1>10. ASSUME NEW s \in lines \ {<<>>}, NEW e \in Things, x = List(s, <<e>>) PROVE Iterable(x)
  <2>1. IsListOf(x, s, <<e>>)
    BY <1>2, <1>5, <1>10 DEF IsListOf
  <2> QED BY <1>2, <1>5, <2>1 DEF Iterable
<1>11. ASSUME NEW from \in numbers, NEW to \in numbers, NEW by \in 1..3, x = Sequence(from, to, by)
       PROVE  IsSequence(x)
  BY <1>3, <1>11 DEF IsSequence
<1>12. ASSUME NEW n \in numbers, x = [type |-> "Integer", value |-> n]
       PROVE  x.type = "Integer" /\ x.value \in Int
  BY <1>3, <1>12
<1>13. ASSUME NEW e \in Things, x = [type |-> "Atom", elems |-> <<e>>] PROVE IsLine(x)
  BY <1>5, <1>13 DEF IsLine
<1> QED BY <1>6, <1>7, <1>8, <1>9, <1>10, <1>11, <1>12, <1>13 DEF Iterable

-----------------------------------------------------------------------------
(* The next element. *)

\* The first of what is left of a list is the next element, and the others are left after it.
LEMMA ListFollows ==
    ASSUME NEW l, NEW all, Len(all) \in Nat, NEW n \in 0..Len(all), ListAt(l, all, n)
    PROVE  /\ l.elems # <<>> <=> n < Len(all)
           /\ l.elems \in Seq(Things)
           /\ n < Len(all) => /\ Head(l.elems) = all[n + 1] /\ all[n + 1] \in Things
                              /\ ListAt(list_getRestAsList(l), all, n + 1)
           /\ l.rest = <<>> => list_getRestAsList(l).rest = <<>>
           /\ n < Len(all) /\ l.rest = <<>> => Proper(Tail(l.elems)) = list_getRestAsList(l)
<1>1. PICK elems \in Seq(Things), rest \in Seq(Things) :
         /\ IsListOf(l, elems, rest)
         /\ n + Len(elems) + Len(rest) = Len(all)
         /\ \A i \in 1..Len(elems) : elems[i] = all[n + i]
         /\ \A i \in 1..Len(rest) : rest[i] = all[n + Len(elems) + i]
  BY DEF ListAt
<1>2. /\ Len(rest) <= 1 /\ (elems = <<>> => rest = <<>>)
      /\ l = List(elems, rest) /\ l.elems = elems /\ l.rest = rest
  BY <1>1 DEF IsListOf, List
<1>3. /\ Len(elems) \in Nat /\ Len(rest) \in Nat /\ n \in Nat
      /\ (elems = <<>> <=> Len(elems) = 0) /\ (rest = <<>> <=> Len(rest) = 0)
  OBVIOUS
<1>4. l.elems # <<>> <=> n < Len(all)
  BY <1>1, <1>2, <1>3
<1>5. list_getRestAsList(l) = IF Len(elems) = 1 THEN List(rest, <<>>) ELSE List(Tail(elems), rest)
  BY <1>2 DEF list_getRestAsList, Proper
<1>6. CASE elems # <<>>
  <2>1. /\ Head(elems) = elems[1] /\ Tail(elems) \in Seq(Things)
        /\ Len(Tail(elems)) = Len(elems) - 1
        /\ \A i \in 1..Len(Tail(elems)) : Tail(elems)[i] = elems[i + 1]
    BY <1>6, HeadTailProperties
  <2>2. 1 \in 1..Len(elems)
    BY <1>3, <1>6
  <2>3. Head(elems) = all[n + 1] /\ elems[1] \in Things
    BY <1>1, <2>1, <2>2
  <2> DEFINE tail == Tail(elems)
  <2>6. /\ tail \in Seq(Things) /\ Len(tail) = Len(elems) - 1
        /\ \A i \in 1..Len(tail) : tail[i] = elems[i + 1]
    BY <2>1
  <2>7. l.elems = elems /\ Tail(l.elems) = tail /\ Head(l.elems) = all[n + 1]
        /\ all[n + 1] \in Things /\ l.elems \in Seq(Things) /\ l.elems # <<>>
    BY <1>2, <1>6, <2>1, <2>3
  <2>8. list_getRestAsList(l) = IF Len(elems) = 1 THEN List(rest, <<>>) ELSE List(tail, rest)
    BY <1>5
  <2> HIDE DEF tail
  <2>9. ASSUME NEW es, NEW r PROVE List(es, r).rest = r
    BY DEF List
  <2>4. CASE Len(elems) = 1
    <3>1. <<>> \in Seq(Things) /\ Len(<<>>) = 0
      OBVIOUS
    <3>2. IsListOf(List(rest, <<>>), rest, <<>>)
      BY <1>2, <3>1 DEF IsListOf
    <3>3. \A i \in 1..Len(rest) : rest[i] = all[n + 1 + i]
      BY <1>1, <2>4
    <3>4. n + 1 + Len(rest) + Len(<<>>) = Len(all)
      BY <1>1, <1>3, <2>4, <3>1
    <3>5. \A i \in 1..Len(<<>>) : <<>>[i] = all[n + 1 + Len(rest) + i]
      BY <3>1
    <3>6. ListAt(List(rest, <<>>), all, n + 1)
      BY <3>1, <3>2, <3>3, <3>4, <3>5 DEF ListAt
    <3>7. tail = <<>>
      BY <2>4, <2>6
    <3>8. list_getRestAsList(l) = List(rest, <<>>)
      BY <2>4, <2>8
    <3>9. l.rest = <<>> => Proper(Tail(l.elems)) = List(rest, <<>>)
      BY <1>2, <2>7, <3>7 DEF Proper
    <3> QED BY <1>4, <2>7, <2>9, <3>6, <3>8, <3>9
  <2>5. CASE Len(elems) # 1
    <3>1. tail \in Seq(Things) /\ Len(tail) = Len(elems) - 1 /\ tail # <<>>
      BY <1>3, <1>6, <2>5, <2>6
    <3>2. IsListOf(List(tail, rest), tail, rest)
      BY <1>2, <3>1 DEF IsListOf
    <3>3. \A i \in 1..Len(tail) : tail[i] = all[n + 1 + i]
      <4> SUFFICES ASSUME NEW i \in 1..Len(tail) PROVE tail[i] = all[n + 1 + i]
        OBVIOUS
      <4> DEFINE j == i + 1
      <4>1. tail[i] = elems[j] /\ j \in 1..Len(elems) /\ n + j = n + 1 + i
        BY <1>3, <2>6, <3>1
      <4> HIDE DEF j
      <4>2. elems[j] = all[n + j]
        BY <1>1, <4>1
      <4> QED BY <4>1, <4>2
    <3>4. n + 1 + Len(tail) + Len(rest) = Len(all) /\ n + 1 + Len(tail) = n + Len(elems)
      <4>1. n + Len(elems) + Len(rest) = Len(all) /\ Len(tail) = Len(elems) - 1
        BY <1>1, <3>1
      <4>2. Len(elems) \in Nat /\ Len(rest) \in Nat /\ n \in Nat
        BY <1>3
      <4> QED BY <4>1, <4>2
    <3>5. \A i \in 1..Len(rest) : rest[i] = all[n + 1 + Len(tail) + i]
      BY <1>1, <3>4
    <3>6. ListAt(List(tail, rest), all, n + 1)
      BY <3>1, <3>2, <3>3, <3>4, <3>5 DEF ListAt
    <3>7. list_getRestAsList(l) = List(tail, rest)
      BY <2>5, <2>8
    <3>8. l.rest = <<>> => Proper(Tail(l.elems)) = List(tail, rest)
      BY <1>2, <2>7 DEF Proper
    <3> QED BY <1>2, <1>4, <2>7, <2>9, <3>6, <3>7, <3>8
  <2> QED BY <2>4, <2>5
<1>7. CASE elems = <<>>
  <2>1. Len(elems) # 1 /\ ~ (n < Len(all))
    BY <1>2, <1>3, <1>4, <1>7
  <2> QED BY <1>2, <1>4, <1>5, <1>7, <2>1 DEF List
<1> QED BY <1>6, <1>7

\* The next number of a sequence, if there is one.
LEMMA SequenceNextIs ==
    ASSUME NEW from \in Int, NEW to \in Int, NEW by \in 1..3,
           NEW n \in 0..Steps(from, to, by)
    PROVE  sequence_next(Sequence(from, to, by), from + n * by)
              = [n |-> IF n < Steps(from, to, by) THEN from + n * by ELSE NULL]
<1> DEFINE N == Steps(from, to, by)
           P == Progress(from, to, by)
           m == from + n * by
<1>1. N \in Nat /\ (\A k \in 1..N : from + (k - 1) * by \in P)
      /\ \A p \in P : \E k \in 1..N : p = from + (k - 1) * by
  BY StepsReach
<1>2. m \in Int
  <2>1. n \in Int /\ by \in Int
    BY <1>1
  <2> QED BY <2>1
<1>3. sequence_contains(Sequence(from, to, by), m) <=> m \in P
  BY <1>2, ContainsIs
<1> HIDE DEF N, P
<1>4. n < N => m \in P
  <2> SUFFICES ASSUME n < N PROVE m \in P
    OBVIOUS
  <2> DEFINE k == n + 1
  <2>1. k \in 1..N /\ k - 1 = n
    BY <1>1 DEF N
  <2> HIDE DEF k
  <2>2. from + (k - 1) * by \in P
    BY <1>1, <2>1
  <2> QED BY <2>1, <2>2
<1>5. m \in P => n < N
  <2> SUFFICES ASSUME m \in P PROVE n < N
    OBVIOUS
  <2>1. PICK k \in 1..N : m = from + (k - 1) * by
    BY <1>1
  <2>2. n = k - 1
    <3>1. n \in Int /\ k \in Int
      BY <1>1
    <3>2. CASE by = 1
      BY <2>1, <3>1, <3>2
    <3>3. CASE by = 2
      BY <2>1, <3>1, <3>3
    <3>4. CASE by = 3
      BY <2>1, <3>1, <3>4
    <3> QED BY <3>2, <3>3, <3>4
  <2> QED BY <1>1, <2>2
<1> HIDE DEF m
<1>6. sequence_next(Sequence(from, to, by), m) = [n |-> IF n < N THEN m ELSE NULL]
  BY <1>3, <1>4, <1>5 DEF sequence_next
<1> QED BY <1>6 DEF m, N

\* The numbers that an object stands for.
LEMMA NumbersAre ==
    ASSUME NEW x, IsSequence(x) \/ (x.type = "Integer" /\ x.value \in Int)
    PROVE  /\ x.type \in {"Sequence", "Integer"}
           /\ \E from \in Int, to \in Int, by \in 1..3 :
                 /\ Numbers(x) = Sequence(from, to, by)
                 /\ Consists(x) = [k \in 1..Steps(from, to, by) |-> from + (k - 1) * by]
<1>1. CASE IsSequence(x)
  <2>1. PICK from \in Int, to \in Int, by \in 1..3 : x = Sequence(from, to, by)
    BY <1>1 DEF IsSequence
  <2>2. x.type = "Sequence"
    BY <2>1 DEF Sequence
  <2>3. Numbers(x) = Sequence(from, to, by)
    BY <2>1, <2>2 DEF Numbers
  <2>4. Consists(x) = [k \in 1..Steps(from, to, by) |-> from + (k - 1) * by]
    BY <2>1, SequenceConsists
  <2> QED BY <2>2, <2>3, <2>4
<1>2. CASE x.type = "Integer" /\ x.value \in Int
  <2> DEFINE y == integer_asSequence(x)
             from == 0
             to == x.value - 1
             by == 1
  <2>1. from \in Int /\ to \in Int /\ by \in 1..3 /\ y = Sequence(from, to, by)
    BY <1>2 DEF integer_asSequence
  <2>2. Numbers(x) = y /\ y.type = "Sequence"
    BY <1>2, <2>1 DEF Numbers, Sequence
  <2> HIDE DEF y, from, to, by
  <2>3. Numbers(y) = y
    BY <2>2 DEF Numbers
  <2>4. Consists(x) = Consists(y)
    BY <1>2, <2>2, <2>3 DEF Consists
  <2>5. Consists(y) = [k \in 1..Steps(from, to, by) |-> from + (k - 1) * by]
    BY <2>1, SequenceConsists
  <2> QED BY <1>2, <2>1, <2>2, <2>4, <2>5
<1> QED BY <1>1, <1>2

\* What an object consists of is finite, and NULL is not part of it.
LEMMA ConsistsIs ==
    ASSUME NEW x, Iterable(x)
    PROVE  Consists(x) \in Seq(Things \cup Int) /\ ReadAlike(x)
<1>1. CASE IsLine(x)
  <2>1. /\ x.type \in {"Array", "String", "Set", "Queue", "Atom"}
        /\ x.elems \in Seq(Things)
    BY <1>1 DEF IsLine
  <2>2. Consists(x) = x.elems
    BY <2>1 DEF Consists
  <2>3. x.elems \in Seq(Things \cup Int)
    BY <2>1
  <2>4. ReadAlike(x)
    <3>1. CASE x.type = "Array"
      BY <2>1, <3>1, ArrayReads
    <3>2. CASE x.type = "String"
      BY <2>1, <3>2, StringReads
    <3>3. CASE x.type \in {"Set", "Queue", "Atom"}
      BY <3>3 DEF ReadAlike
    <3> QED BY <2>1, <3>1, <3>2, <3>3
  <2> QED BY <2>2, <2>3, <2>4
<1>2. ASSUME NEW elems \in Seq(Things), NEW rest \in Seq(Things), IsListOf(x, elems, rest)
      PROVE  Consists(x) \in Seq(Things \cup Int) /\ ReadAlike(x)
  <2>1. x = List(elems, rest) /\ Len(rest) <= 1
    BY <1>2 DEF IsListOf
  <2>2. Consists(x) = elems \o rest
    BY <2>1 DEF Consists, List
  <2>3. elems \in Seq(Things \cup Int) /\ rest \in Seq(Things \cup Int)
    OBVIOUS
  <2>4. elems \o rest \in Seq(Things \cup Int)
    BY <2>3, ConcatProperties
  <2>5. ReadAlike(x)
    BY <2>1, ListReads
  <2> QED BY <2>2, <2>4, <2>5
<1>3. CASE IsSequence(x) \/ (x.type = "Integer" /\ x.value \in Int)
  <2>1. PICK from \in Int, to \in Int, by \in 1..3 :
           Consists(x) = [k \in 1..Steps(from, to, by) |-> from + (k - 1) * by]
    BY <1>3, NumbersAre
  <2>2. Steps(from, to, by) \in Nat
    BY StepsReach
  <2>3. \A k \in 1..Steps(from, to, by) : from + (k - 1) * by \in Things \cup Int
    <3>1. by \in Int
      OBVIOUS
    <3> QED BY <2>2, <3>1
  <2>4. Consists(x) \in Seq(Things \cup Int)
    <3> DEFINE N == Steps(from, to, by)
               Val(k) == from + (k - 1) * by
               S == Things \cup Int
    <3>1. N \in Nat /\ (\A k \in 1..N : Val(k) \in S) /\ Consists(x) = [k \in 1..N |-> Val(k)]
      BY <2>1, <2>2, <2>3
    <3> HIDE DEF N, Val, S
    <3>2. Consists(x) \in Seq(S)
      BY <3>1
    <3> QED BY <3>2 DEF S
  <2>5. ReadAlike(x)
    <3>1. CASE x.type = "Integer"
      BY <3>1 DEF ReadAlike
    <3>2. CASE IsSequence(x)
      BY <3>2, SequenceReads DEF IsSequence
    <3> QED BY <1>3, <3>1, <3>2
  <2> QED BY <2>4, <2>5
<1> QED BY <1>1, <1>2, <1>3 DEF Iterable

\* An iterator that has given n elements has the next one if there is one, and is then
\* behind it.
LEMMA NextIs ==
    ASSUME NEW x, Iterable(x), NEW s, NEW n \in 0..Len(Consists(x)), StateAt(x, s, n)
    PROVE  /\ iterator_hasNext(x, s) = (n < Len(Consists(x)))
           /\ n < Len(Consists(x)) =>
                 /\ iterator_next(x, s)[1] = Consists(x)[n + 1]
                 /\ StateAt(x, iterator_next(x, s)[2], n + 1)
           /\ ~ (n < Len(Consists(x))) => iterator_next(x, s)[1] = NULL
<1> DEFINE all == Consists(x)
           N == Len(all)
<1>1. all \in Seq(Things \cup Int) /\ N \in Nat /\ n \in Nat
  BY ConsistsIs
<1>2. x.type \in {"List", "Queue", "Atom", "Array", "Set", "String", "Sequence", "Integer"}
  BY DEF Iterable, IsLine, IsListOf, List, IsSequence, Sequence
<1>3. CASE x.type \in {"List", "Queue", "Atom"}
  <2>1. ListAt(s, all, n)
    BY <1>3 DEF StateAt
  <2>6. n \in 0..Len(all) /\ Len(all) \in Nat
    BY <1>1
  <2> HIDE DEF all
  <2>2. /\ s.elems # <<>> <=> n < Len(all)
        /\ s.elems \in Seq(Things)
        /\ n < Len(all) => /\ Head(s.elems) = all[n + 1]
                           /\ ListAt(list_getRestAsList(s), all, n + 1)
    BY <2>1, <2>6, ListFollows
  <2>3. iterator_hasNext(x, s) = (s.elems # <<>>)
    BY <1>3 DEF iterator_hasNext, list_iteratorHasNext
  <2>4. iterator_next(x, s) = IF s.elems = <<>> THEN <<NULL, s>>
                              ELSE <<Head(s.elems), list_getRestAsList(s)>>
    BY <1>3 DEF iterator_next, list_iteratorNext
  <2>5. n < N => StateAt(x, list_getRestAsList(s), n + 1)
    BY <1>3, <2>2 DEF StateAt, all
  <2> QED BY <2>2, <2>3, <2>4, <2>5 DEF all
<1>4. CASE x.type \in {"Array", "Set", "String"}
  <2>1. s = [index |-> n] /\ all = x.elems
    BY <1>4 DEF StateAt, Consists
  <2>2. iterator_hasNext(x, s) = (n < N)
    BY <1>4, <2>1 DEF iterator_hasNext, array_iteratorHasNext, string_iteratorHasNext
  <2>3. iterator_next(x, s) = IF n < N THEN <<all[n + 1], [index |-> n + 1]>> ELSE <<NULL, s>>
    BY <1>4, <2>1 DEF iterator_next, array_iteratorNext, string_iteratorNext
  <2>4. StateAt(x, [index |-> n + 1], n + 1)
    BY <1>4 DEF StateAt
  <2> QED BY <2>2, <2>3, <2>4
<1>5. CASE x.type \in {"Sequence", "Integer"}
  <2>1. IsSequence(x) \/ (x.type = "Integer" /\ x.value \in Int)
    BY <1>5 DEF Iterable, IsLine, IsListOf, List
  <2>2. PICK from \in Int, to \in Int, by \in 1..3 :
           /\ Numbers(x) = Sequence(from, to, by)
           /\ all = [k \in 1..Steps(from, to, by) |-> from + (k - 1) * by]
    BY <2>1, NumbersAre
  <2> DEFINE y == Sequence(from, to, by)
             v == IF n < N THEN all[n + 1] ELSE NULL
  <2>3. s = [n |-> v]
    BY <1>5 DEF StateAt
  <2>4. Steps(from, to, by) \in Nat
    BY StepsReach
  <2>5. N = Steps(from, to, by) /\ \A k \in 1..N : all[k] = from + (k - 1) * by
    BY <2>2, <2>4
  <2>6. iterator_hasNext(x, s) = (s.n # NULL)
    BY <1>5 DEF iterator_hasNext, sequence_iteratorHasNext
  <2>7. iterator_next(x, s) = IF s.n = NULL THEN <<NULL, s>>
                              ELSE <<s.n, sequence_next(y, s.n + y.by)>>
    BY <1>5, <2>2 DEF iterator_next, sequence_iteratorNext, Numbers
  <2>8. y.by = by
    BY DEF Sequence
  <2> HIDE DEF all, N, y, v
  <2>9. s.n = v
    BY <2>3
  <2>10. CASE n < N
    <3> DEFINE k == n + 1
    <3>1. k \in 1..N /\ k - 1 = n /\ k \in 0..Steps(from, to, by) /\ n + 1 = k
      BY <1>1, <2>5, <2>10
    <3> HIDE DEF k
    <3>2. v = all[k] /\ all[k] = from + n * by /\ v = from + n * by
      BY <2>5, <2>10, <3>1 DEF v
    <3>3. v + by = from + k * by
      <4>1. n \in Int /\ by \in Int
        BY <1>1
      <4>2. CASE by = 1
        BY <3>1, <3>2, <4>1, <4>2
      <4>3. CASE by = 2
        BY <3>1, <3>2, <4>1, <4>3
      <4>4. CASE by = 3
        BY <3>1, <3>2, <4>1, <4>4
      <4> QED BY <4>2, <4>3, <4>4
    <3>4. v \in Int /\ v # NULL
      <4>1. n \in Int /\ by \in Int
        BY <1>1
      <4>2. v \in Int
        BY <3>2, <4>1
      <4> QED BY <4>2, IteratorsAssumption
    <3>5. sequence_next(y, v + by) = [n |-> IF k < N THEN from + k * by ELSE NULL]
      <4>1. sequence_next(y, from + k * by)
               = [n |-> IF k < Steps(from, to, by) THEN from + k * by ELSE NULL]
        BY <3>1, SequenceNextIs DEF y
      <4> QED BY <2>5, <3>3, <4>1
    <3>6. StateAt(x, sequence_next(y, v + by), k)
      <4>1. k < N => all[k + 1] = from + k * by
        <5> SUFFICES ASSUME k < N PROVE all[k + 1] = from + k * by
          OBVIOUS
        <5> DEFINE j == k + 1
        <5>1. j \in 1..N /\ j - 1 = k
          BY <1>1, <3>1
        <5> HIDE DEF j
        <5>2. all[j] = from + (j - 1) * by
          BY <2>5, <5>1
        <5> QED BY <5>1, <5>2 DEF j
      <4>2. sequence_next(y, v + by) = [n |-> IF k < N THEN all[k + 1] ELSE NULL]
        BY <3>5, <4>1
      <4> QED BY <1>5, <4>2 DEF StateAt, all, N
    <3>7. iterator_next(x, s) = <<v, sequence_next(y, v + by)>>
      BY <2>7, <2>8, <2>9, <3>4
    <3>8. iterator_hasNext(x, s) = TRUE
      BY <2>6, <2>9, <3>4
    <3>9. iterator_next(x, s)[1] = all[k] /\ iterator_next(x, s)[2] = sequence_next(y, v + by)
      BY <3>2, <3>7
    <3>10. iterator_next(x, s)[1] = all[k] /\ StateAt(x, iterator_next(x, s)[2], k)
      BY <3>6, <3>9
    <3> QED BY <2>10, <3>8, <3>10 DEF all, N, k
  <2>11. CASE ~ (n < N)
    BY <2>6, <2>7, <2>9, <2>11 DEF v, all, N
  <2> QED BY <2>10, <2>11
<1> QED BY <1>2, <1>3, <1>4, <1>5

-----------------------------------------------------------------------------
(* The invariant. *)

\* What has been visited is the beginning of what there is, the iterator is behind it, and
\* what is left to map is a proper list.
IteratorsInv ==
    /\ Iterable(iterable)
    /\ walk \in {"iterator", "map"}
    /\ walk = "map" => Mappable(iterable)
    /\ walk = "map" /\ iterable.type = "List" => iterState.rest = <<>>
    /\ Len(visited) \in 0..Len(Consists(iterable))
    /\ visited = SubSeq(Consists(iterable), 1, Len(visited))
    /\ StateAt(iterable, iterState, Len(visited))

\* An iterator starts in front of the first element.
LEMMA StartIs ==
    ASSUME NEW x, Iterable(x)
    PROVE  StateAt(x, any_iterator(x), 0)
<1>1. CASE IsLine(x)
  <2>1. /\ x.type \in {"Array", "String", "Set", "Queue", "Atom"}
        /\ x.elems \in Seq(Things) /\ Consists(x) = x.elems
    BY <1>1 DEF IsLine, Consists
  <2>2. CASE x.type \in {"Queue", "Atom"}
    <3> DEFINE es == x.elems
    <3>1. any_iterator(x) = List(es, <<>>)
      BY <2>2 DEF any_iterator, queue_iterator, m_iterator, Proper
    <3>2. es \in Seq(Things) /\ Len(es) \in Nat /\ Consists(x) = es
      BY <2>1
    <3> HIDE DEF es
    <3>3. ListAt(List(es, <<>>), es, 0)
      <4>1. <<>> \in Seq(Things) /\ Len(<<>>) = 0
        OBVIOUS
      <4>2. IsListOf(List(es, <<>>), es, <<>>)
        BY <3>2, <4>1 DEF IsListOf
      <4>3. /\ 0 + Len(es) + Len(<<>>) = Len(es)
            /\ \A i \in 1..Len(es) : es[i] = es[0 + i]
            /\ \A i \in 1..Len(<<>>) : <<>>[i] = es[0 + Len(es) + i]
        BY <3>2, <4>1
      <4> QED BY <3>2, <4>1, <4>2, <4>3 DEF ListAt
    <3> QED BY <2>2, <3>1, <3>2, <3>3 DEF StateAt
  <2>3. CASE x.type \in {"Array", "String", "Set"}
    <3>1. any_iterator(x) = [index |-> 0]
      BY <2>3 DEF any_iterator, array_iterator, set_iterator, string_iterator
    <3> QED BY <2>3, <3>1 DEF StateAt
  <2> QED BY <2>1, <2>2, <2>3
<1>2. ASSUME NEW elems \in Seq(Things), NEW rest \in Seq(Things), IsListOf(x, elems, rest)
      PROVE  StateAt(x, any_iterator(x), 0)
  <2> DEFINE all == elems \o rest
  <2>1. x = List(elems, rest) /\ x.type = "List" /\ Len(rest) <= 1
    BY <1>2 DEF IsListOf, List
  <2>2. any_iterator(x) = x
    BY <2>1 DEF any_iterator, list_iterator
  <2>3. Consists(x) = all
    BY <2>1 DEF Consists, List
  <2>4. /\ Len(elems) \in Nat /\ Len(rest) \in Nat
        /\ Len(all) = Len(elems) + Len(rest)
        /\ \A i \in 1..Len(elems) + Len(rest) :
              all[i] = IF i <= Len(elems) THEN elems[i] ELSE rest[i - Len(elems)]
    BY ConcatProperties
  <2> HIDE DEF all
  <2>5. 0 + Len(elems) + Len(rest) = Len(all)
    BY <2>4
  <2>6. ASSUME NEW i \in 1..Len(elems) PROVE elems[i] = all[0 + i]
    <3>1. 0 + i = i /\ i \in 1..Len(elems) + Len(rest) /\ i <= Len(elems)
      BY <2>4
    <3> QED BY <2>4, <3>1
  <2>7. ASSUME NEW i \in 1..Len(rest) PROVE rest[i] = all[0 + Len(elems) + i]
    <3> DEFINE j == 0 + Len(elems) + i
    <3>1. j \in 1..Len(elems) + Len(rest) /\ ~ (j <= Len(elems)) /\ j - Len(elems) = i
      BY <2>4
    <3> HIDE DEF j
    <3>2. all[j] = rest[i]
      BY <2>4, <3>1
    <3> QED BY <3>2 DEF j
  <2>8. ListAt(x, all, 0)
    BY <1>2, <2>5, <2>6, <2>7 DEF ListAt
  <2> QED BY <2>1, <2>2, <2>3, <2>8 DEF StateAt
<1>3. CASE IsSequence(x) \/ (x.type = "Integer" /\ x.value \in Int)
  <2>1. x.type \in {"Sequence", "Integer"}
    BY <1>3, NumbersAre
  <2>2. PICK from \in Int, to \in Int, by \in 1..3 :
           /\ Numbers(x) = Sequence(from, to, by)
           /\ Consists(x) = [k \in 1..Steps(from, to, by) |-> from + (k - 1) * by]
    BY <1>3, NumbersAre
  <2> DEFINE y == Sequence(from, to, by)
             N == Steps(from, to, by)
  <2>3. any_iterator(x) = sequence_next(y, y.from) /\ y.from = from
    BY <2>1, <2>2 DEF any_iterator, sequence_iterator, Numbers, Sequence
  <2>4. N \in Nat
    BY StepsReach
  <2>5. sequence_next(y, from + 0 * by) = [n |-> IF 0 < N THEN from + 0 * by ELSE NULL]
    <3>1. 0 \in 0..N
      BY <2>4
    <3> QED BY <3>1, SequenceNextIs
  <2>6. from + 0 * by = from
    <3>1. by \in Int
      OBVIOUS
    <3> QED BY <3>1
  <2>7. Len(Consists(x)) = N /\ (0 < N => Consists(x)[0 + 1] = from)
    <3>1. 0 < N => 1 \in 1..N
      BY <2>4
    <3>2. 0 + 1 = 1 /\ from + (1 - 1) * by = from
      BY <2>6
    <3> QED BY <2>2, <2>4, <3>1, <3>2
  <2> HIDE DEF y, N
  <2>8. any_iterator(x) = [n |-> IF 0 < Len(Consists(x)) THEN Consists(x)[0 + 1] ELSE NULL]
    BY <2>3, <2>5, <2>6, <2>7
  <2> QED BY <2>1, <2>8 DEF StateAt
<1> QED BY <1>1, <1>2, <1>3 DEF Iterable

\* One more element is visited.
LEMMA OneMore ==
    ASSUME NEW T, NEW all \in Seq(T), NEW n \in 0..Len(all), n < Len(all)
    PROVE  /\ Len(SubSeq(all, 1, n)) = n
           /\ Append(SubSeq(all, 1, n), all[n + 1]) = SubSeq(all, 1, n + 1)
           /\ Len(SubSeq(all, 1, n + 1)) = n + 1
<1> DEFINE m == n + 1
<1>1. /\ Len(all) \in Nat /\ n \in Nat /\ m \in 1..Len(all) /\ m - 1 = n
      /\ 1 \in 1..Len(all) + 1 /\ n \in 1 - 1..Len(all) /\ m \in 1 - 1..Len(all)
      /\ n - 1 + 1 = n /\ m - 1 + 1 = m
  OBVIOUS
<1> HIDE DEF m
<1> DEFINE p == SubSeq(all, 1, n)
           q == SubSeq(all, 1, m)
<1>2. /\ p \in Seq(T) /\ Len(p) = n - 1 + 1
      /\ \A i \in 1..n - 1 + 1 : p[i] = all[1 + i - 1]
  BY <1>1, PartOf
<1>3. /\ q \in Seq(T) /\ Len(q) = m - 1 + 1
      /\ \A i \in 1..m - 1 + 1 : q[i] = all[1 + i - 1]
  BY <1>1, PartOf
<1> HIDE DEF p, q
<1>4. all[m] \in T
  BY <1>1
<1> DEFINE r == Append(p, all[m])
<1>5. r \in Seq(T) /\ Len(r) = m /\ r[m] = all[m] /\ \A i \in 1..n : r[i] = p[i]
  <2>1. Len(p) = n /\ n + 1 = m
    BY <1>1, <1>2
  <2> QED BY <1>1, <1>2, <1>4, <2>1, AppendProperties
<1>6. Len(q) = m /\ (\A i \in 1..m : q[i] = all[i]) /\ \A i \in 1..n : p[i] = all[i]
  <2>1. \A i \in Int : 1 + i - 1 = i
    OBVIOUS
  <2> QED BY <1>1, <1>2, <1>3, <2>1
<1> HIDE DEF r
<1>7. \A i \in 1..m : r[i] = q[i]
  <2> SUFFICES ASSUME NEW i \in 1..m PROVE r[i] = q[i]
    OBVIOUS
  <2>1. i = m \/ i \in 1..n
    BY <1>1
  <2> QED BY <1>5, <1>6, <2>1
<1>8. r = q
  BY <1>3, <1>5, <1>6, <1>7, SameElements
<1> QED BY <1>1, <1>2, <1>6, <1>8 DEF p, q, r, m

\* Every object that is gone over is as the invariant says when the walk begins.
LEMMA IteratorsStart == IteratorsInit => IteratorsInv
<1> SUFFICES ASSUME IteratorsInit PROVE IteratorsInv
  OBVIOUS
<1>1. Iterable(iterable) /\ iterState = any_iterator(iterable) /\ visited = <<>>
  BY IterableForms DEF IteratorsInit
<1>2. walk \in {"iterator", "map"} /\ (walk = "map" => Mappable(iterable))
  BY DEF IteratorsInit
<1>3. Len(visited) = 0 /\ 0 \in 0..Len(Consists(iterable))
  <2>1. Len(<<>>) = 0
    OBVIOUS
  <2>2. Consists(iterable) \in Seq(Things \cup Int)
    BY <1>1, ConsistsIs
  <2>3. Len(Consists(iterable)) \in Nat
    BY <2>2
  <2> QED BY <1>1, <2>1, <2>3
<1>4. SubSeq(Consists(iterable), 1, 0) = <<>>
  BY SubSeqEmpty
<1>5. StateAt(iterable, iterState, 0)
  BY <1>1, StartIs
<1>6. walk = "map" /\ iterable.type = "List" => iterState.rest = <<>>
  BY <1>1, <1>2 DEF Mappable, any_iterator, list_iterator
<1> QED BY <1>1, <1>2, <1>3, <1>4, <1>5, <1>6 DEF IteratorsInv

\* There is an element to map if not all have been visited.
LEMMA MapIs ==
    ASSUME IteratorsInv, walk = "map"
    PROVE  /\ iterable.type \in {"List", "Array"}
           /\ ToMap = (Len(visited) < Len(Consists(iterable)))
<1> DEFINE all == Consists(iterable)
           n == Len(visited)
<1>1. /\ Iterable(iterable) /\ Mappable(iterable) /\ n \in 0..Len(all)
      /\ StateAt(iterable, iterState, n)
  BY DEF IteratorsInv
<1>2. iterable.type \in {"List", "Array"}
  BY <1>1 DEF Mappable
<1>3. Len(all) \in Nat
  <2>1. all \in Seq(Things \cup Int)
    BY <1>1, ConsistsIs
  <2> QED BY <2>1
<1>4. CASE iterable.type = "List"
  <2>1. ListAt(iterState, all, n)
    BY <1>1, <1>4 DEF StateAt
  <2> HIDE DEF all, n
  <2>2. iterState.elems # <<>> <=> n < Len(all)
    BY <1>1, <1>3, <2>1, ListFollows
  <2>3. ToMap = (iterState.elems # <<>>)
    BY <1>4 DEF ToMap
  <2> QED BY <1>2, <2>2, <2>3 DEF all, n
<1>5. CASE iterable.type = "Array"
  <2>1. iterState = [index |-> n] /\ all = iterable.elems
    BY <1>1, <1>5 DEF StateAt, Consists
  <2> QED BY <1>2, <1>5, <2>1 DEF ToMap
<1> QED BY <1>2, <1>4, <1>5

\* A step that visits the next element and leaves the state behind it keeps the invariant.
LEMMA VisitKeeps ==
    ASSUME IteratorsInv, Len(visited) < Len(Consists(iterable)), UNCHANGED <<iterable, walk>>,
           visited' = Append(visited, Consists(iterable)[Len(visited) + 1]),
           StateAt(iterable, iterState', Len(visited) + 1),
           walk = "map" /\ iterable.type = "List" => iterState'.rest = <<>>
    PROVE  IteratorsInv'
<1> DEFINE all == Consists(iterable)
           n == Len(visited)
<1>1. /\ Iterable(iterable) /\ n \in 0..Len(all) /\ visited = SubSeq(all, 1, n)
      /\ n < Len(all)
  BY DEF IteratorsInv
<1>2. all \in Seq(Things \cup Int)
  BY <1>1, ConsistsIs
<1>3. visited' = Append(visited, all[n + 1]) /\ StateAt(iterable, iterState', n + 1)
  OBVIOUS
<1> HIDE DEF all, n
<1>4. /\ Append(SubSeq(all, 1, n), all[n + 1]) = SubSeq(all, 1, n + 1)
      /\ Len(SubSeq(all, 1, n + 1)) = n + 1
  BY <1>1, <1>2, OneMore
<1>5. visited' = SubSeq(all, 1, n + 1) /\ Len(visited') = n + 1
  BY <1>1, <1>3, <1>4
<1>6. n + 1 \in 0..Len(all)
  <2>1. Len(all) \in Nat
    BY <1>2
  <2> QED BY <1>1, <2>1
<1>7. Len(visited') \in 0..Len(all) /\ visited' = SubSeq(all, 1, Len(visited'))
      /\ StateAt(iterable, iterState', Len(visited'))
  BY <1>3, <1>5, <1>6
<1>8. iterable' = iterable /\ walk' = walk
  OBVIOUS
<1>9. /\ Iterable(iterable)
      /\ walk \in {"iterator", "map"}
      /\ walk = "map" => Mappable(iterable)
      /\ walk = "map" /\ iterable.type = "List" => iterState'.rest = <<>>
  BY DEF IteratorsInv
<1> QED BY <1>7, <1>8, <1>9 DEF IteratorsInv, all

\* Each step keeps the invariant.
LEMMA IteratorsStep == IteratorsInv /\ [IteratorsNext]_iterVars => IteratorsInv'
<1> SUFFICES ASSUME IteratorsInv, [IteratorsNext]_iterVars PROVE IteratorsInv'
  OBVIOUS
<1> DEFINE all == Consists(iterable)
           n == Len(visited)
<1>1. /\ Iterable(iterable) /\ n \in 0..Len(all) /\ StateAt(iterable, iterState, n)
      /\ walk = "map" /\ iterable.type = "List" => iterState.rest = <<>>
  BY DEF IteratorsInv
<1>2. all \in Seq(Things \cup Int) /\ Len(all) \in Nat
  <2>1. all \in Seq(Things \cup Int)
    BY <1>1, ConsistsIs
  <2> QED BY <2>1
<1>3. ASSUME IteratorNext PROVE IteratorsInv'
  <2> DEFINE next == iterator_next(iterable, iterState)
  <2>1. /\ walk = "iterator" /\ next[1] # NULL
        /\ visited' = Append(visited, next[1]) /\ iterState' = next[2]
        /\ UNCHANGED <<iterable, walk>>
    BY <1>3 DEF IteratorNext
  <2>2. /\ n < Len(all) => next[1] = all[n + 1] /\ StateAt(iterable, next[2], n + 1)
        /\ ~ (n < Len(all)) => next[1] = NULL
    BY <1>1, NextIs
  <2>3. /\ n < Len(all) /\ visited' = Append(visited, all[n + 1])
        /\ StateAt(iterable, iterState', n + 1)
    BY <2>1, <2>2
  <2> QED BY <2>1, <2>3, VisitKeeps
<1>4. ASSUME ListMap PROVE IteratorsInv'
  <2>1. /\ walk = "map" /\ iterable.type = "List" /\ ToMap
        /\ visited' = Append(visited, Head(iterState.elems))
        /\ iterState' = Proper(Tail(iterState.elems))
        /\ UNCHANGED <<iterable, walk>>
    BY <1>4 DEF ListMap
  <2>2. n < Len(all)
    BY <2>1, MapIs
  <2>3. ListAt(iterState, all, n) /\ iterState.rest = <<>>
    BY <1>1, <2>1 DEF StateAt
  <2> HIDE DEF all, n
  <2>4. /\ Head(iterState.elems) = all[n + 1]
        /\ ListAt(list_getRestAsList(iterState), all, n + 1)
        /\ list_getRestAsList(iterState).rest = <<>>
        /\ Proper(Tail(iterState.elems)) = list_getRestAsList(iterState)
    BY <1>1, <1>2, <2>2, <2>3, ListFollows
  <2>5. StateAt(iterable, iterState', n + 1) /\ iterState'.rest = <<>>
    BY <2>1, <2>4 DEF StateAt, all
  <2>6. visited' = Append(visited, all[n + 1])
    BY <2>1, <2>4
  <2> QED BY <2>1, <2>2, <2>5, <2>6, VisitKeeps DEF all, n
<1>5. ASSUME ArrayMap PROVE IteratorsInv'
  <2>1. /\ walk = "map" /\ iterable.type = "Array" /\ ToMap
        /\ visited' = Append(visited, iterable.elems[iterState.index + 1])
        /\ iterState' = [index |-> iterState.index + 1]
        /\ UNCHANGED <<iterable, walk>>
    BY <1>5 DEF ArrayMap
  <2>2. n < Len(all)
    BY <2>1, MapIs
  <2>3. iterState = [index |-> n] /\ all = iterable.elems
    BY <1>1, <2>1 DEF StateAt, Consists
  <2>4. StateAt(iterable, iterState', n + 1) /\ visited' = Append(visited, all[n + 1])
    BY <2>1, <2>3 DEF StateAt
  <2> QED BY <2>1, <2>2, <2>4, VisitKeeps
<1>6. ASSUME UNCHANGED iterVars PROVE IteratorsInv'
  BY <1>6 DEF IteratorsInv, iterVars, Iterable, IsLine, IsListOf, IsSequence, StateAt,
              ListAt, Mappable
<1> QED BY <1>3, <1>4, <1>5, <1>6 DEF IteratorsNext

\* The invariant is the property and more.
LEMMA IteratorsVisit == IteratorsInv => VisitsEachOnce
<1> SUFFICES ASSUME IteratorsInv PROVE VisitsEachOnce
  OBVIOUS
<1> DEFINE all == Consists(iterable)
           n == Len(visited)
           next == iterator_next(iterable, iterState)
<1>1. /\ Iterable(iterable) /\ n \in 0..Len(all) /\ visited = SubSeq(all, 1, n)
      /\ StateAt(iterable, iterState, n)
  BY DEF IteratorsInv
<1>2. all \in Seq(Things \cup Int) /\ ReadAlike(iterable)
  BY <1>1, ConsistsIs
<1>3. Len(all) \in Nat /\ n <= Len(all)
  <2>1. Len(all) \in Nat
    BY <1>2
  <2> HIDE DEF all, n
  <2> QED BY <1>1, <2>1
<1>4. /\ iterator_hasNext(iterable, iterState) = (n < Len(all))
      /\ n < Len(all) => next[1] = all[n + 1]
      /\ ~ (n < Len(all)) => next[1] = NULL
  BY <1>1, NextIs
<1>5. (next[1] # NULL) = (n < Len(all))
  <2> HIDE DEF all, n, next
  <2>1. n < Len(all) => all[n + 1] # NULL
    <3>1. n < Len(all) => n + 1 \in 1..Len(all)
      BY <1>1, <1>3
    <3>2. n < Len(all) => all[n + 1] \in Things \cup Int
      BY <1>2, <3>1
    <3> QED BY <3>2, IteratorsAssumption
  <2> QED BY <1>4, <2>1
<1>6. walk = "map" => ToMap = (n < Len(all))
  BY MapIs
<1> QED BY <1>1, <1>2, <1>3, <1>4, <1>5, <1>6 DEF VisitsEachOnce

\* Whatever is gone over, by an iterator or a map, is visited once and in order, and the
\* other ways to read it agree (VisitsEachOnce of Iterators).
THEOREM IteratorsVisitEachOnce == IteratorsSpec => []VisitsEachOnce
<1>1. IteratorsInit => IteratorsInv
  BY IteratorsStart
<1>2. IteratorsInv /\ [IteratorsNext]_iterVars => IteratorsInv'
  BY IteratorsStep
<1>3. IteratorsInv => VisitsEachOnce
  BY IteratorsVisit
<1> QED BY <1>1, <1>2, <1>3, PTL DEF IteratorsSpec

=============================================================================
