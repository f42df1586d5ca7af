------------------------------- MODULE GCProofs -------------------------------
(****************************************************************************)
(* Proofs about the collector, for any memory, any number of pointers and   *)
(* roots.  Reach is shown to be the least closed set; lists and what can be *)
(* accessed are two instances of it, and everything about them follows from *)
(* that.  The lists are right whatever the user does.  That nothing needed  *)
(* is freed, and all garbage is, needs that nobody gives the command :gcm.  *)
(****************************************************************************)
EXTENDS GC, TLAPS, FiniteSetTheorems, WellFoundedInduction

\* A set of numbers that is not empty has a least one.  What is shown for a least number that
\* would be a counterexample is shown for every number.
LEMMA LeastNumber ==
    ASSUME NEW s \in SUBSET Nat, s # {}
    PROVE  \E n \in s : \A m \in s : n <= m
<1> DEFINE less == {ss \in Nat \X Nat : ss[1] < ss[2]}
<1>1. OpToRel(<, Nat) = less
  BY DEF OpToRel
<1>2. IsWellFoundedOn(less, Nat)
  BY <1>1, NatLessThanWellFounded
<1>3. \E n \in s : \A m \in s : ~ (<<m, n>> \in less)
  <2> HIDE DEF less
  <2> QED BY <1>2, WFMin
<1>4. PICK n \in s : \A m \in s : ~ (<<m, n>> \in less)
  BY <1>3
<1>5. ASSUME NEW m \in s PROVE n <= m
  <2>1. ~ (m < n)
    BY <1>4
  <2> QED BY <2>1
<1> QED BY <1>5

\* What is reached from s by one more pointer, and the stages of Reach up to the nth.
Step(edges, stop, s) == s \cup ((UNION {edges[o] : o \in s}) \ stop)
Stages(from, edges, stop, g, n) ==
    g = [m \in 0..n |-> IF m = 0 THEN from \ stop ELSE Step(edges, stop, g[m - 1])]

\* The stages of Reach, a function defined by recursion, exist for every number of them.
LEMMA StagesExist ==
    ASSUME NEW from, NEW edges, NEW stop, NEW n \in Nat
    PROVE  \E g : Stages(from, edges, stop, g, n)
<1> DEFINE Missing == {m \in Nat : ~ \E g : Stages(from, edges, stop, g, m)}
<1> SUFFICES ASSUME Missing # {} PROVE FALSE
  OBVIOUS
<1>1. PICK m \in Missing : \A k \in Missing : m <= k
  <2> HIDE DEF Missing
  <2>1. Missing \in SUBSET Nat
    BY DEF Missing
  <2> QED BY <2>1, LeastNumber
<1>2. m # 0
  <2>1. Stages(from, edges, stop, [k \in 0..0 |-> from \ stop], 0)
    BY DEF Stages
  <2> QED BY <2>1
<1>3. PICK g : Stages(from, edges, stop, g, m - 1)
  BY <1>1, <1>2
<1> DEFINE h == [k \in 0..m |-> IF k = m THEN Step(edges, stop, g[m - 1]) ELSE g[k]]
<1>4. Stages(from, edges, stop, h, m)
  <2>1. ASSUME NEW k \in 0..m
        PROVE  h[k] = IF k = 0 THEN from \ stop ELSE Step(edges, stop, h[k - 1])
    <3>1. CASE k = m
      BY <3>1, <1>2
    <3>2. CASE k # m
      <4>1. k \in 0..(m - 1) /\ h[k] = g[k]
        BY <3>2
      <4>2. k # 0 => h[k - 1] = g[k - 1]
        BY <3>2
      <4>3. g[k] = IF k = 0 THEN from \ stop ELSE Step(edges, stop, g[k - 1])
        BY <4>1, <1>3 DEF Stages
      <4> QED BY <4>1, <4>2, <4>3
    <3> QED BY <3>1, <3>2
  <2> QED BY <2>1 DEF Stages
<1> QED BY <1>4

\* Reach is the stage whose number is the number of objects.
LEMMA ReachIsLastStage ==
    ASSUME NEW from, NEW edges, NEW stop
    PROVE  \E g : /\ Stages(from, edges, stop, g, Cardinality(Objects))
                  /\ Reach(from, edges, stop) = g[Cardinality(Objects)]
<1> DEFINE N == Cardinality(Objects)
<1>1. N \in Nat
  BY FS_CardinalityType, ObjectsAssumption
<1>2. PICK g : Stages(from, edges, stop, g, N)
  BY <1>1, StagesExist
<1> QED
  BY <1>2 DEF Reach, Stages, Step

\* Following a pointer from an object of c stays in c, or comes to an object of stop.
IsClosed(edges, stop, c) == \A o \in c : edges[o] \ stop \subseteq c

\* No stage leaves a set that is closed and has what the search starts from.
LEMMA StagesAreWithin ==
    ASSUME NEW from, NEW edges, NEW stop, NEW g, NEW N \in Nat, Stages(from, edges, stop, g, N),
           NEW c, from \ stop \subseteq c, IsClosed(edges, stop, c),
           NEW n \in 0..N
    PROVE  g[n] \subseteq c
<1> DEFINE Bad == {m \in 0..N : ~ (g[m] \subseteq c)}
<1> SUFFICES ASSUME Bad # {} PROVE FALSE
  OBVIOUS
<1>1. PICK m \in Bad : \A k \in Bad : m <= k
  <2> HIDE DEF Bad
  <2>1. Bad \in SUBSET Nat
    BY DEF Bad
  <2> QED BY <2>1, LeastNumber
<1>2. g[m] = IF m = 0 THEN from \ stop ELSE Step(edges, stop, g[m - 1])
  BY <1>1 DEF Stages
<1>3. m # 0
  BY <1>1, <1>2
<1>4. g[m - 1] \subseteq c
  BY <1>1, <1>3
<1>5. Step(edges, stop, g[m - 1]) \subseteq c
  BY <1>4 DEF Step, IsClosed
<1> QED BY <1>1, <1>2, <1>3, <1>5

\* A stage of n steps is closed, or has more than n objects.
Grown(from, edges, stop, s, n) ==
    /\ s \in SUBSET (Objects \ stop)
    /\ from \ stop \subseteq s
    /\ IsClosed(edges, stop, s) \/ Cardinality(s) > n

\* So it is with every stage of Reach.
LEMMA StagesGrow ==
    ASSUME NEW from \in SUBSET Objects,
           NEW edges \in [Objects -> SUBSET Objects], NEW stop, NEW g,
           NEW N \in Nat, Stages(from, edges, stop, g, N), NEW n \in 0..N
    PROVE  Grown(from, edges, stop, g[n], n)
<1> DEFINE Good(m) == /\ g[m] \in SUBSET (Objects \ stop)
                      /\ from \ stop \subseteq g[m]
                      /\ IsClosed(edges, stop, g[m]) \/ Cardinality(g[m]) > m
           Bad == {m \in 0..N : ~ Good(m)}
<1> SUFFICES ASSUME Bad # {} PROVE FALSE
  BY DEF Grown
<1>1. PICK m \in Bad : \A k \in Bad : m <= k
  <2> HIDE DEF Bad
  <2>1. Bad \in SUBSET Nat
    BY DEF Bad
  <2> QED BY <2>1, LeastNumber
<1>2. g[m] = IF m = 0 THEN from \ stop ELSE Step(edges, stop, g[m - 1])
  BY <1>1 DEF Stages
<1>3. m # 0
  <2> SUFFICES ASSUME m = 0 PROVE Good(0)
    BY <1>1
  <2>1. g[0] = from \ stop
    BY <1>2
  <2>2. CASE from \ stop = {}
    BY <2>1, <2>2 DEF IsClosed
  <2>3. CASE from \ stop # {}
    <3>1. IsFiniteSet(g[0]) /\ Cardinality(g[0]) # 0 /\ Cardinality(g[0]) \in Nat
      BY <2>1, <2>3, FS_Subset, FS_EmptySet, FS_CardinalityType, ObjectsAssumption
    <3> QED BY <2>1, <3>1
  <2> QED BY <2>2, <2>3
<1> DEFINE s == g[m - 1]
           t == Step(edges, stop, s)
<1>4. /\ s \in SUBSET (Objects \ stop)
      /\ from \ stop \subseteq s
      /\ IsClosed(edges, stop, s) \/ Cardinality(s) > m - 1
      /\ m - 1 \in Nat
  BY <1>1, <1>3
<1>5. g[m] = t
  BY <1>2, <1>3
<1>6. t \in SUBSET (Objects \ stop) /\ s \subseteq t
  <2> HIDE DEF s
  <2>1. \A o \in s : edges[o] \in SUBSET Objects
    BY <1>4
  <2> QED BY <1>4, <2>1 DEF Step
<1>7. IsClosed(edges, stop, t) \/ Cardinality(t) > m
  <2> HIDE DEF s
  <2>1. CASE IsClosed(edges, stop, s)
    <3>1. t = s
      BY <2>1 DEF Step, IsClosed
    <3> QED BY <2>1, <3>1
  <2>2. CASE ~ IsClosed(edges, stop, s)
    <3>1. PICK x : x \in t /\ x \notin s
      BY <2>2 DEF Step, IsClosed
    <3> HIDE DEF t
    <3>2. IsFiniteSet(t) /\ IsFiniteSet(s) /\ s \cup {x} \in SUBSET t
      <4>1. s \in SUBSET Objects /\ t \in SUBSET Objects
        BY <1>4, <1>6
      <4> QED BY <1>6, <3>1, <4>1, FS_Subset, ObjectsAssumption
    <3>3. Cardinality(s \cup {x}) = Cardinality(s) + 1
      BY <3>1, <3>2, FS_AddElement
    <3>4. Cardinality(s) \in Nat /\ Cardinality(t) \in Nat
      BY <3>2, FS_CardinalityType, ObjectsAssumption
    <3>5. Cardinality(s \cup {x}) <= Cardinality(t)
      BY <3>2, FS_Subset, ObjectsAssumption
    <3> QED BY <1>4, <2>2, <3>3, <3>4, <3>5
  <2> QED BY <2>1, <2>2
<1> QED
  <2> HIDE DEF s, t
  <2>1. from \ stop \subseteq t
    BY <1>4, <1>6
  <2> QED BY <1>1, <1>5, <1>6, <1>7, <2>1

\* Reach is the least set that has what it starts from and is closed: after as many stages as
\* there are objects the search has ended.
LEMMA ReachIsLeast ==
    ASSUME NEW from \in SUBSET Objects,
           NEW edges \in [Objects -> SUBSET Objects], NEW stop
    PROVE  /\ Reach(from, edges, stop) \in SUBSET (Objects \ stop)
           /\ from \ stop \subseteq Reach(from, edges, stop)
           /\ \A o \in Reach(from, edges, stop) : edges[o] \ stop \subseteq Reach(from, edges, stop)
           /\ \A c : from \ stop \subseteq c /\ IsClosed(edges, stop, c) =>
                    Reach(from, edges, stop) \subseteq c
<1> DEFINE N == Cardinality(Objects)
<1>1. N \in Nat
  BY FS_CardinalityType, ObjectsAssumption
<1>2. PICK g : Stages(from, edges, stop, g, N) /\ Reach(from, edges, stop) = g[N]
  BY ReachIsLastStage
<1> HIDE DEF N
<1>3. /\ g[N] \in SUBSET (Objects \ stop)
      /\ from \ stop \subseteq g[N]
      /\ IsClosed(edges, stop, g[N]) \/ Cardinality(g[N]) > N
  <2>1. N \in 0..N
    BY <1>1
  <2>2. Stages(from, edges, stop, g, N)
    BY <1>2
  <2>3. Grown(from, edges, stop, g[N], N)
    BY <1>1, <2>1, <2>2, StagesGrow
  <2> QED BY <2>3 DEF Grown
<1>4. g[N] \in SUBSET Objects
  BY <1>3
<1>5. Cardinality(g[N]) <= N /\ Cardinality(g[N]) \in Nat
  <2>1. IsFiniteSet(Objects)
    BY ObjectsAssumption
  <2> DEFINE s == g[N]
  <2> HIDE DEF s
  <2>2. s \in SUBSET Objects
    BY <1>4 DEF s
  <2>3. IsFiniteSet(s) /\ Cardinality(s) <= N
    BY <2>1, <2>2, FS_Subset DEF N
  <2>4. Cardinality(s) \in Nat
    BY <2>3, FS_CardinalityType
  <2> QED BY <2>3, <2>4 DEF s
<1>6. IsClosed(edges, stop, g[N])
  BY <1>1, <1>3, <1>5
<1>7. ASSUME NEW c, from \ stop \subseteq c, IsClosed(edges, stop, c)
      PROVE  g[N] \subseteq c
  BY <1>1, <1>2, <1>7, StagesAreWithin
<1> QED BY <1>2, <1>3, <1>6, <1>7 DEF IsClosed

-----------------------------------------------------------------------------
(* Lists: chains of pointers that end in NIL. *)

\* List(p), for any links.
ListOf(nx, p) == Reach({p} \ {NIL}, [o \in Objects |-> {nx[o]} \ {NIL}], {})

\* A list is the least set that has what p points to and the successors of its objects.
LEMMA ListIsLeast ==
    ASSUME NEW nx \in [Objects -> Pointers], NEW p \in Pointers
    PROVE  /\ ListOf(nx, p) \in SUBSET Objects
           /\ p # NIL => p \in ListOf(nx, p)
           /\ \A o \in ListOf(nx, p) : nx[o] # NIL => nx[o] \in ListOf(nx, p)
           /\ \A c \in SUBSET Objects :
                 (p # NIL => p \in c) /\ (\A o \in c : nx[o] # NIL => nx[o] \in c) =>
                    ListOf(nx, p) \subseteq c
<1> DEFINE from == {p} \ {NIL}
           edges == [o \in Objects |-> {nx[o]} \ {NIL}]
           l == ListOf(nx, p)
<1>1. from \in SUBSET Objects /\ edges \in [Objects -> SUBSET Objects]
  BY DEF Pointers
<1>2. \A o \in Objects : edges[o] = {nx[o]} \ {NIL}
  OBVIOUS
<1>3. l = Reach(from, edges, {})
  BY DEF ListOf
<1> HIDE DEF edges, l
<1>4. /\ l \in SUBSET (Objects \ {})
      /\ from \ {} \subseteq l
      /\ \A o \in l : edges[o] \ {} \subseteq l
      /\ \A c : from \ {} \subseteq c /\ IsClosed(edges, {}, c) => l \subseteq c
  BY <1>1, <1>3, ReachIsLeast
<1>5. l \in SUBSET Objects /\ (p # NIL => p \in l)
  BY <1>4
<1>6. \A o \in l : nx[o] # NIL => nx[o] \in l
  BY <1>2, <1>4, <1>5
<1>7. ASSUME NEW c \in SUBSET Objects, p # NIL => p \in c,
             \A o \in c : nx[o] # NIL => nx[o] \in c
      PROVE  l \subseteq c
  <2>1. IsClosed(edges, {}, c)
    BY <1>2, <1>7 DEF IsClosed
  <2>2. from \ {} \subseteq c
    BY <1>7
  <2> QED BY <1>4, <2>1, <2>2
<1> QED BY <1>5, <1>6, <1>7 DEF l

\* The empty list, and a list as its first object and the rest.
LEMMA ListUnfolds ==
    ASSUME NEW nx \in [Objects -> Pointers]
    PROVE  /\ ListOf(nx, NIL) = {}
           /\ \A p \in Objects : ListOf(nx, p) = {p} \cup ListOf(nx, nx[p])
<1>1. ListOf(nx, NIL) = {}
  <2>1. NIL \in Pointers
    BY DEF Pointers
  <2>2. \A c \in SUBSET Objects :
           (\A o \in c : nx[o] # NIL => nx[o] \in c) => ListOf(nx, NIL) \subseteq c
    BY <2>1, ListIsLeast
  <2>3. {} \in SUBSET Objects /\ \A o \in {} : nx[o] # NIL => nx[o] \in {}
    OBVIOUS
  <2>4. ListOf(nx, NIL) \subseteq {}
    BY <2>2, <2>3
  <2> QED BY <2>4
<1>2. ASSUME NEW p \in Objects
      PROVE  ListOf(nx, p) = {p} \cup ListOf(nx, nx[p])
  <2> DEFINE l == ListOf(nx, p)
             r == ListOf(nx, nx[p])
  <2>1. p \in Pointers /\ nx[p] \in Pointers /\ p # NIL
    BY NILAssumption DEF Pointers
  <2>2. /\ l \in SUBSET Objects /\ p \in l
        /\ \A o \in l : nx[o] # NIL => nx[o] \in l
        /\ \A c \in SUBSET Objects :
                 p \in c /\ (\A o \in c : nx[o] # NIL => nx[o] \in c) => l \subseteq c
    BY <2>1, ListIsLeast
  <2>3. /\ r \in SUBSET Objects /\ (nx[p] # NIL => nx[p] \in r)
        /\ \A o \in r : nx[o] # NIL => nx[o] \in r
        /\ \A c \in SUBSET Objects :
                 (nx[p] # NIL => nx[p] \in c) /\ (\A o \in c : nx[o] # NIL => nx[o] \in c) =>
                    r \subseteq c
    BY <2>1, ListIsLeast
  <2> HIDE DEF l, r
  <2>4. r \subseteq l
    BY <2>2, <2>3
  <2>5. l \subseteq {p} \cup r
    <3> DEFINE c == {p} \cup r
    <3>1. c \in SUBSET Objects /\ p \in c
      BY <2>3
    <3>2. \A o \in c : nx[o] # NIL => nx[o] \in c
      BY <2>3
    <3> QED BY <2>2, <3>1, <3>2
  <2> QED BY <2>2, <2>4, <2>5 DEF l, r
<1> QED BY <1>1, <1>2

\* The list from an object of a list is part of it.
LEMMA SubList ==
    ASSUME NEW nx \in [Objects -> Pointers], NEW p \in Pointers, NEW q \in ListOf(nx, p)
    PROVE  ListOf(nx, q) \subseteq ListOf(nx, p)
<1>1. q \in Pointers
  BY ListIsLeast DEF Pointers
<1> QED BY <1>1, ListIsLeast

\* A list depends on the links of its own objects only.
LEMMA ListFrame ==
    ASSUME NEW nx \in [Objects -> Pointers], NEW nx2 \in [Objects -> Pointers],
           NEW p \in Pointers, \A o \in ListOf(nx, p) : nx2[o] = nx[o]
    PROVE  ListOf(nx2, p) = ListOf(nx, p)
<1>1. ListOf(nx2, p) \subseteq ListOf(nx, p)
  BY ListIsLeast
<1>2. ListOf(nx, p) \subseteq ListOf(nx2, p)
  BY <1>1, ListIsLeast
<1> QED BY <1>1, <1>2

\* Of two objects of a list, one leads to the other.
LEMMA ListIsChain ==
    ASSUME NEW nx \in [Objects -> Pointers], NEW p \in Pointers,
           NEW q \in ListOf(nx, p), NEW r \in ListOf(nx, p)
    PROVE  q \in ListOf(nx, r) \/ r \in ListOf(nx, q)
<1> DEFINE c == {o \in ListOf(nx, p) : q \in ListOf(nx, o) \/ o \in ListOf(nx, q)}
<1>1. c \in SUBSET Objects
  BY ListIsLeast
<1>2. p # NIL => p \in c
  BY ListIsLeast
<1>3. ASSUME NEW o \in c, nx[o] # NIL
      PROVE  nx[o] \in c
  <2>1. nx[o] \in ListOf(nx, p) /\ o \in Objects /\ q \in Objects
    BY <1>3, ListIsLeast
  <2>2. CASE o \in ListOf(nx, q)
    <3>1. nx[o] \in ListOf(nx, q)
      BY <1>3, <2>1, <2>2, ListIsLeast DEF Pointers
    <3> QED BY <2>1, <3>1
  <2>3. CASE q \in ListOf(nx, o) /\ q # o
    <3>1. q \in ListOf(nx, nx[o])
      BY <2>1, <2>3, ListUnfolds
    <3> QED BY <2>1, <3>1
  <2>4. CASE q = o
    <3>1. nx[o] \in ListOf(nx, q)
      BY <1>3, <2>1, <2>4, ListIsLeast DEF Pointers
    <3> QED BY <2>1, <3>1
  <2> QED BY <2>2, <2>3, <2>4
<1>4. ListOf(nx, p) \subseteq c
  <2> HIDE DEF c
  <2> QED BY <1>1, <1>2, <1>3, ListIsLeast
<1> QED BY <1>4

\* Taking an object out of its list: the object before it, if there is one, is linked to the
\* object behind it.
LEMMA Unlink ==
    ASSUME NEW nx \in [Objects -> Pointers], NEW x \in Objects, NEW before \in Pointers,
           NEW p \in Pointers, p # x,
           x \notin ListOf(nx, nx[x]),
           \A o \in ListOf(nx, p) : nx[o] = x => o = before,
           before # NIL => nx[before] = x
    PROVE  LET nx2 == [o \in Objects |-> IF o = x THEN NIL
                                         ELSE IF o = before THEN nx[x] ELSE nx[o]]
           IN  ListOf(nx2, p) = ListOf(nx, p) \ {x}
<1> DEFINE nx2 == [o \in Objects |-> IF o = x THEN NIL
                                      ELSE IF o = before THEN nx[x] ELSE nx[o]]
           l == ListOf(nx, p)
           l2 == ListOf(nx2, p)
<1>1. nx2 \in [Objects -> Pointers]
  BY DEF Pointers
<1>2. /\ nx2[x] = NIL
      /\ \A o \in Objects : o # x => nx2[o] = IF o = before THEN nx[x] ELSE nx[o]
  OBVIOUS
<1> HIDE DEF nx2
<1>3. /\ l \in SUBSET Objects
      /\ p # NIL => p \in l
      /\ \A o \in l : nx[o] # NIL => nx[o] \in l
      /\ \A c \in SUBSET Objects :
            (p # NIL => p \in c) /\ (\A o \in c : nx[o] # NIL => nx[o] \in c) => l \subseteq c
  BY ListIsLeast
<1>4. /\ l2 \in SUBSET Objects
      /\ p # NIL => p \in l2
      /\ \A o \in l2 : nx2[o] # NIL => nx2[o] \in l2
      /\ \A c \in SUBSET Objects :
            (p # NIL => p \in c) /\ (\A o \in c : nx2[o] # NIL => nx2[o] \in c) => l2 \subseteq c
  BY <1>1, ListIsLeast
<1>5. nx[x] # x
  <2>1. nx[x] \in Pointers /\ x # NIL
    BY NILAssumption
  <2> QED BY <2>1, ListIsLeast
<1> HIDE DEF l, l2
<1>6. l2 \subseteq l \ {x}
  <2>1. ASSUME NEW o \in l \ {x}, nx2[o] # NIL
        PROVE  nx2[o] \in l \ {x}
    <3>1. CASE o = before
      <4>1. nx2[o] = nx[x] /\ before # NIL /\ x \in l
        BY <1>2, <1>3, <2>1, <3>1, NILAssumption
      <4> QED BY <1>3, <1>5, <2>1, <4>1
    <3>2. CASE o # before
      <4>1. nx2[o] = nx[o]
        BY <1>2, <1>3, <2>1, <3>2
      <4> QED BY <1>3, <2>1, <3>2, <4>1 DEF l
    <3> QED BY <3>1, <3>2
  <2>2. l \ {x} \in SUBSET Objects /\ (p # NIL => p \in l \ {x})
    BY <1>3
  <2> QED BY <1>4, <2>1, <2>2
<1>7. l \subseteq l2 \cup {x}
  <2> DEFINE c == l2 \cup {o \in {x} : before \in l2}
  <2>1. c \in SUBSET Objects /\ (p # NIL => p \in c)
    BY <1>4
  <2>2. ASSUME NEW o \in c, nx[o] # NIL
        PROVE  nx[o] \in c
    <3>1. CASE o = x
      <4>1. before \in l2 /\ before # x
        BY <1>6, <2>2, <3>1
      <4>2. nx2[before] = nx[x]
        BY <1>2, <1>4, <4>1
      <4> QED BY <1>4, <2>2, <3>1, <4>1, <4>2
    <3>2. CASE o # x /\ o = before
      <4>1. nx[o] = x
        BY <1>4, <2>2, <3>2, NILAssumption
      <4> QED BY <2>2, <3>2, <4>1
    <3>3. CASE o # x /\ o # before
      BY <1>2, <1>4, <2>2, <3>3
    <3> QED BY <3>1, <3>2, <3>3
  <2> HIDE DEF c
  <2>3. l \subseteq c
    BY <1>3, <2>1, <2>2
  <2> QED BY <2>3 DEF c
<1> QED BY <1>6, <1>7 DEF nx2, l, l2

\* In a list without a cycle an object has one predecessor.
LEMMA OnePredecessor ==
    ASSUME NEW nx \in [Objects -> Pointers], NEW p \in Pointers,
           NEW q \in ListOf(nx, p), NEW r \in ListOf(nx, p), nx[q] = nx[r], nx[q] # NIL,
           \A o \in ListOf(nx, p) : o \notin ListOf(nx, nx[o])
    PROVE  q = r
<1>1. q \in Objects /\ r \in Objects
  BY ListIsLeast
<1>2. CASE q \in ListOf(nx, r)
  BY <1>1, <1>2, ListUnfolds
<1>3. CASE r \in ListOf(nx, q)
  BY <1>1, <1>3, ListUnfolds
<1> QED BY <1>2, <1>3, ListIsChain

-----------------------------------------------------------------------------
(* The lists of the collector.                                               *)

\* No list comes back to an object.
IsAcyclic == \A o \in alive : o \notin ListOf(next, next[o])

\* p points into the list at q, or to its end.
PointsInto(p, q) == p \in ListOf(next, q) \cup {NIL}

\* What the objects of s point to is in s.
ClosedUnderRefs(s) == \A o \in s : refs[o] \subseteq s

\* Every object is in one list, and the pointers into the spine are in order.
ListsOK ==
    /\ ListOf(next, spine) \cup ListOf(next, roots) = alive
    /\ ListOf(next, spine) \cap ListOf(next, roots) = {}
    /\ IsAcyclic
    /\ PointsInto(committed, spine)
    /\ PointsInto(permanentObjects, committed)
    /\ phase = "permanent" => committed = NIL /\ roots = NIL

\* prev is the predecessor of obj in the spine.
PrevOK ==
    \/ prev = NIL /\ obj = spine
    \/ prev \in ListOf(next, spine) /\ next[prev] = obj

\* Where the loops are: between the pointer they start from and the one they end at.
LoopsOK ==
    /\ phase \in {"mark", "gcm", "unmarkRoots"} => PointsInto(obj, roots)
    /\ phase = "unmarkFresh" => PointsInto(obj, spine) /\ PointsInto(committed, obj) /\ PrevOK
    /\ phase = "sweep" =>
          /\ PointsInto(obj, committed)
          /\ PointsInto(permanentObjects, obj)
          /\ PrevOK
          /\ obj = committed \/ prev \in ListOf(next, committed)

\* The invariant of the lists.
ListInv == TypeOK /\ ListsOK /\ LoopsOK

\* What is used of lists in a state of the collector.
LEMMA ListFacts ==
    ASSUME TypeOK
    PROVE  /\ NIL \in Pointers /\ Objects \subseteq Pointers
           /\ \A o \in Objects : o \in Pointers /\ o # NIL /\ next[o] \in Pointers
           /\ ListOf(next, NIL) = {}
           /\ \A p \in Pointers : ListOf(next, p) \in SUBSET Objects
           /\ \A p \in Pointers \ {NIL} :
                 p \in Objects /\ p \in ListOf(next, p)
                 /\ ListOf(next, p) = {p} \cup ListOf(next, next[p])
           /\ \A p \in Pointers : \A q \in ListOf(next, p) :
                 ListOf(next, q) \subseteq ListOf(next, p) /\ PointsInto(next[q], p)
<1>1. next \in [Objects -> Pointers]
  BY DEF TypeOK
<1>2. NIL \in Pointers /\ \A o \in Objects : o \in Pointers /\ o # NIL /\ next[o] \in Pointers
  BY <1>1, NILAssumption DEF Pointers
<1>3. ListOf(next, NIL) = {} /\ \A p \in Objects : ListOf(next, p) = {p} \cup ListOf(next, next[p])
  BY <1>1, ListUnfolds
<1>4. ASSUME NEW p \in Pointers
      PROVE  /\ ListOf(next, p) \in SUBSET Objects
             /\ p # NIL => p \in Objects /\ p \in ListOf(next, p)
             /\ \A q \in ListOf(next, p) :
                   ListOf(next, q) \subseteq ListOf(next, p) /\ PointsInto(next[q], p)
  <2>1. /\ ListOf(next, p) \in SUBSET Objects
        /\ p # NIL => p \in ListOf(next, p)
        /\ \A q \in ListOf(next, p) : next[q] # NIL => next[q] \in ListOf(next, p)
    BY <1>1, ListIsLeast
  <2>2. \A q \in ListOf(next, p) : ListOf(next, q) \subseteq ListOf(next, p)
    BY <1>1, SubList
  <2> QED BY <2>1, <2>2 DEF PointsInto, Pointers
<1> QED BY <1>2, <1>3, <1>4

\* What is linked behind an allocated object is allocated.
LEMMA TailsAreAlive ==
    ASSUME ListInv, NEW o \in alive
    PROVE  o \in Objects /\ ListOf(next, next[o]) \subseteq alive
<1>1. TypeOK /\ {spine, roots} \subseteq Pointers /\ o \in Objects
  BY DEF ListInv, TypeOK
<1>2. PICK p \in {spine, roots} : o \in ListOf(next, p) /\ ListOf(next, p) \subseteq alive
  BY DEF ListInv, ListsOK
<1>3. ListOf(next, next[o]) \subseteq ListOf(next, o) /\ ListOf(next, o) \subseteq ListOf(next, p)
  BY <1>1, <1>2, ListFacts
<1> QED BY <1>1, <1>2, <1>3

\* What can be accessed is the smallest set that is closed and has the roots, the permanent
\* objects and what is held.
AccessibleOK ==
    /\ Accessible \in SUBSET Objects
    /\ ListOf(next, roots) \cup ListOf(next, permanentObjects) \cup held \subseteq Accessible
    /\ ClosedUnderRefs(Accessible)
    /\ \A c \in SUBSET Objects :
          /\ ListOf(next, roots) \cup ListOf(next, permanentObjects) \cup held \subseteq c
          /\ ClosedUnderRefs(c)
          => Accessible \subseteq c

\* The roots, as lists.
LEMMA RootsAreListed ==
    RootSet = ListOf(next, roots) \cup ListOf(next, permanentObjects)
  BY DEF RootSet, List, ListOf

\* Accessible is what AccessibleOK says: the least closed set.
LEMMA AccessibleIsLeast == TypeOK => AccessibleOK
<1> SUFFICES ASSUME TypeOK PROVE AccessibleOK
  OBVIOUS
<1> DEFINE from == RootSet \cup held
<1>1. from = ListOf(next, roots) \cup ListOf(next, permanentObjects) \cup held
  BY RootsAreListed
<1>2. from \in SUBSET Objects /\ refs \in [Objects -> SUBSET Objects]
  BY <1>1, ListFacts DEF TypeOK
<1>3. Accessible = Reach(from, refs, {})
  BY DEF Accessible
<1> HIDE DEF from
<1>4. /\ Accessible \in SUBSET (Objects \ {})
      /\ from \ {} \subseteq Accessible
      /\ \A o \in Accessible : refs[o] \ {} \subseteq Accessible
      /\ \A c : from \ {} \subseteq c /\ IsClosed(refs, {}, c) => Accessible \subseteq c
  BY <1>2, <1>3, ReachIsLeast
<1>5. \A c : IsClosed(refs, {}, c) <=> ClosedUnderRefs(c)
  BY DEF IsClosed, ClosedUnderRefs
<1> QED BY <1>1, <1>4, <1>5 DEF ClosedUnderRefs, AccessibleOK

\* gc_alloc puts an object at the head of a list, and leaves the lists of what is allocated as
\* they were.
LEMMA AllocatedList ==
    ASSUME ListInv, NEW o \in Objects, NEW children \in SUBSET Objects, NEW head \in Pointers,
           Allocate(o, children, head), ListOf(next, head) \subseteq alive
    PROVE  /\ next' \in [Objects -> Pointers]
           /\ \A p \in Pointers :
                 ListOf(next, p) \subseteq alive => ListOf(next', p) = ListOf(next, p)
           /\ ListOf(next', o) = {o} \cup ListOf(next, head)
           /\ IsAcyclic'
<1>1. /\ next \in [Objects -> Pointers] /\ next' \in [Objects -> Pointers]
      /\ next'[o] = head
      /\ \A x \in Objects : x # o => next'[x] = next[x]
      /\ alive' = alive \cup {o} /\ o \notin alive /\ alive \subseteq Objects
  BY DEF ListInv, TypeOK, Allocate
<1>2. ASSUME NEW p \in Pointers, ListOf(next, p) \subseteq alive
      PROVE  ListOf(next', p) = ListOf(next, p)
  <2>1. \A x \in ListOf(next, p) : next'[x] = next[x]
    BY <1>1, <1>2
  <2> QED BY <1>1, <2>1, ListFrame
<1>3. ListOf(next', o) = {o} \cup ListOf(next', head)
  BY <1>1, ListUnfolds
<1>4. ASSUME NEW x \in alive'
      PROVE  x \notin ListOf(next', next'[x])
  <2>1. CASE x = o
    BY <1>1, <1>2, <2>1
  <2>2. CASE x # o
    <3>1. x \in alive /\ next'[x] = next[x] /\ next[x] \in Pointers
      BY <1>1, <1>4, <2>2
    <3>2. ListOf(next', next[x]) = ListOf(next, next[x])
      BY <1>2, <3>1, TailsAreAlive
    <3> QED BY <3>1, <3>2 DEF ListInv, ListsOK, IsAcyclic
  <2> QED BY <2>1, <2>2
<1> QED BY <1>1, <1>2, <1>3, <1>4 DEF IsAcyclic

\* The pointers into the spine are in order, as lists.
LEMMA CommittedAreAlive ==
    ASSUME ListInv
    PROVE  /\ ListOf(next, permanentObjects) \subseteq ListOf(next, committed)
           /\ ListOf(next, committed) \subseteq ListOf(next, spine)
           /\ ListOf(next, spine) \subseteq alive /\ ListOf(next, roots) \subseteq alive
           /\ {spine, roots, committed, permanentObjects, obj, prev} \subseteq Pointers
<1>1. TypeOK /\ {spine, roots, committed, permanentObjects, obj, prev} \subseteq Pointers
  BY DEF ListInv, TypeOK
<1>2. \A p, q \in Pointers : PointsInto(p, q) => ListOf(next, p) \subseteq ListOf(next, q)
  BY <1>1, ListFacts DEF PointsInto
<1> QED BY <1>1, <1>2 DEF ListInv, ListsOK

\* gc_alloc keeps the types.
LEMMA AllocateTypes ==
    ASSUME TypeOK, NEW o \in Objects, NEW children \in SUBSET Objects, NEW head \in Pointers,
           Allocate(o, children, head), held' \subseteq Objects, spine' \in Pointers,
           roots' \in Pointers
    PROVE  TypeOK'
<1>1. alive' \subseteq Objects /\ refs' \in [Objects -> SUBSET Objects]
  BY DEF TypeOK, Allocate
<1>2. isMarked' \in [Objects -> BOOLEAN] /\ next' \in [Objects -> Pointers]
  BY DEF TypeOK, Allocate
<1>3. needed' \in BOOLEAN /\ UNCHANGED <<committed, permanentObjects, phase, obj, prev>>
  BY DEF TypeOK, Allocate
<1> QED BY <1>1, <1>2, <1>3 DEF TypeOK

\* An allocation in the current step: the object becomes the head of the spine.
LEMMA NewLists ==
    ASSUME ListInv, NEW o \in Objects, New(o)
    PROVE  ListInv'
<1>1. PICK children \in ChildSets(Accessible) : Allocate(o, children, spine)
  BY DEF New
<1>2. children \in SUBSET Objects
  BY <1>1, AccessibleIsLeast DEF ListInv, ChildSets, AccessibleOK
<1>3. TypeOK'
  <2>1. held' \subseteq Objects /\ spine' \in Pointers /\ roots' \in Pointers
    BY DEF New, ListInv, TypeOK, Pointers
  <2> QED BY <1>1, <1>2, <2>1, CommittedAreAlive, AllocateTypes DEF ListInv
<1>4. /\ \A p \in {spine, roots, committed, permanentObjects} :
            ListOf(next', p) = ListOf(next, p)
      /\ ListOf(next', spine') = {o} \cup ListOf(next, spine)
      /\ IsAcyclic'
  <2>1. spine' = o
    BY DEF New
  <2> QED BY <1>1, <1>2, <2>1, CommittedAreAlive, AllocatedList
<1>5. /\ alive' = alive \cup {o} /\ o \notin alive
      /\ UNCHANGED <<roots, committed, permanentObjects, phase>>
      /\ phase \in {"permanent", "roots", "run"}
  BY <1>1 DEF New, Allocate
<1>6. ListsOK'
  BY <1>4, <1>5 DEF ListInv, ListsOK, PointsInto
<1>7. LoopsOK'
  BY <1>5 DEF LoopsOK
<1> QED BY <1>3, <1>6, <1>7 DEF ListInv

\* The allocation of a root: the object becomes the head of the roots.
LEMMA NewRootLists ==
    ASSUME ListInv, NEW o \in Objects, NewRoot(o)
    PROVE  ListInv'
<1>1. PICK children \in ChildSets(Accessible) : Allocate(o, children, roots)
  BY DEF NewRoot
<1>2. children \in SUBSET Objects
  BY <1>1, AccessibleIsLeast DEF ListInv, ChildSets, AccessibleOK
<1>3. TypeOK'
  <2>1. held' \subseteq Objects /\ spine' \in Pointers /\ roots' \in Pointers
    BY DEF NewRoot, ListInv, TypeOK, Pointers
  <2> QED BY <1>1, <1>2, <2>1, CommittedAreAlive, AllocateTypes DEF ListInv
<1>4. /\ \A p \in {spine, roots, committed, permanentObjects} :
            ListOf(next', p) = ListOf(next, p)
      /\ ListOf(next', roots') = {o} \cup ListOf(next, roots)
      /\ IsAcyclic'
  <2>1. roots' = o
    BY DEF NewRoot
  <2> QED BY <1>1, <1>2, <2>1, CommittedAreAlive, AllocatedList
<1>5. /\ alive' = alive \cup {o} /\ o \notin alive
      /\ UNCHANGED <<spine, committed, permanentObjects, phase>>
      /\ phase = "run"
  BY <1>1 DEF NewRoot, Allocate
<1>6. ListsOK'
  <2>1. o \notin ListOf(next, spine)
    BY <1>5, CommittedAreAlive
  <2> QED BY <1>4, <1>5, <2>1 DEF ListInv, ListsOK, PointsInto
<1>7. LoopsOK'
  BY <1>5 DEF LoopsOK
<1> QED BY <1>3, <1>6, <1>7 DEF ListInv

\* gc_commitRootObjects moves the head of the spine to the roots.
LEMMA CommitRootMoves ==
    ASSUME ListInv, CommitRoot, NEW x, x = spine
    PROVE  /\ x \in Objects /\ next' \in [Objects -> Pointers] /\ next[x] \in Pointers
           /\ next'[x] = roots /\ \A o \in Objects : o # x => next'[o] = next[o]
           /\ x \notin ListOf(next, next[x])
           /\ ListOf(next, spine) = {x} \cup ListOf(next, next[x])
           /\ x \notin ListOf(next, roots) /\ x \notin ListOf(next, committed)
           /\ \A p \in Pointers : x \notin ListOf(next, p) => ListOf(next', p) = ListOf(next, p)
           /\ ListOf(next', spine') = ListOf(next, next[x])
           /\ ListOf(next', roots') = {x} \cup ListOf(next, roots)
           /\ ListOf(next', committed) = ListOf(next, committed)
           /\ ListOf(next', permanentObjects) = ListOf(next, permanentObjects)
           /\ PointsInto(committed, next[x])
<1>1. /\ next \in [Objects -> Pointers]
      /\ spine = x /\ spine' = next[x] /\ roots' = x
      /\ next' = [next EXCEPT ![x] = roots]
      /\ UNCHANGED <<alive, committed, permanentObjects, phase, obj, prev>>
      /\ phase = "commitRoots"
  BY DEF CommitRoot, ListInv, TypeOK
<1>2. x # NIL
  BY ListFacts DEF CommitRoot, ListInv, ListsOK, PointsInto
<1>3. /\ x \in Objects /\ ListOf(next, x) = {x} \cup ListOf(next, next[x])
      /\ x \notin ListOf(next, next[x]) /\ next[x] \in Pointers
  <2>1. x \in Objects /\ x \in Pointers /\ next[x] \in Pointers
        /\ ListOf(next, x) = {x} \cup ListOf(next, next[x])
    BY <1>2, CommittedAreAlive, ListFacts DEF ListInv
  <2>2. x \in alive
    BY <2>1, CommittedAreAlive
  <2> QED BY <2>1, <2>2 DEF ListInv, ListsOK, IsAcyclic
<1>4. /\ next' \in [Objects -> Pointers]
      /\ next'[x] = roots
      /\ \A o \in Objects : o # x => next'[o] = next[o]
  BY <1>1, <1>3, CommittedAreAlive
<1>5. ASSUME NEW p \in Pointers, x \notin ListOf(next, p)
      PROVE  ListOf(next', p) = ListOf(next, p)
  <2>1. \A o \in ListOf(next, p) : next'[o] = next[o]
    BY <1>4, <1>5, ListFacts DEF ListInv
  <2>2. next \in [Objects -> Pointers] /\ next' \in [Objects -> Pointers]
    BY <1>1, <1>4
  <2> QED BY <1>5, <2>1, <2>2, ListFrame
<1>6. x \notin ListOf(next, roots)
  BY <1>3 DEF ListInv, ListsOK
<1>7. /\ ListOf(next', spine') = ListOf(next, next[x])
      /\ ListOf(next', roots') = {x} \cup ListOf(next, roots)
  <2>1. ListOf(next', x) = {x} \cup ListOf(next', roots)
    BY <1>3, <1>4, ListUnfolds
  <2>2. roots \in Pointers
    BY CommittedAreAlive
  <2> QED BY <1>1, <1>3, <1>5, <1>6, <2>1, <2>2
<1>8. PointsInto(committed, next[x])
  BY <1>1, <1>3 DEF CommitRoot, ListInv, ListsOK, PointsInto
<1>9. x \notin ListOf(next, committed) /\ x \notin ListOf(next, permanentObjects)
  BY <1>3, <1>8, CommittedAreAlive, ListFacts DEF ListInv, PointsInto
<1>10. /\ ListOf(next', committed) = ListOf(next, committed)
       /\ ListOf(next', permanentObjects) = ListOf(next, permanentObjects)
  BY <1>5, <1>9, CommittedAreAlive
<1> QED BY <1>1, <1>3, <1>4, <1>5, <1>6, <1>7, <1>8, <1>9, <1>10

\* The move keeps every object in one list.
LEMMA CommitRootLists ==
    ASSUME ListInv, CommitRoot
    PROVE  ListInv'
<1> DEFINE x == spine
<1>1. /\ next \in [Objects -> Pointers]
      /\ spine' = next[x] /\ roots' = x
      /\ UNCHANGED <<alive, committed, permanentObjects, phase, obj, prev>>
      /\ phase = "commitRoots"
  BY DEF CommitRoot, ListInv, TypeOK
<1>2. /\ x \in Objects /\ next' \in [Objects -> Pointers] /\ next[x] \in Pointers
      /\ next'[x] = roots /\ \A o \in Objects : o # x => next'[o] = next[o]
      /\ x \notin ListOf(next, next[x])
      /\ ListOf(next, spine) = {x} \cup ListOf(next, next[x])
      /\ x \notin ListOf(next, roots) /\ x \notin ListOf(next, committed)
      /\ \A p \in Pointers : x \notin ListOf(next, p) => ListOf(next', p) = ListOf(next, p)
      /\ ListOf(next', spine') = ListOf(next, next[x])
      /\ ListOf(next', roots') = {x} \cup ListOf(next, roots)
      /\ ListOf(next', committed) = ListOf(next, committed)
      /\ ListOf(next', permanentObjects) = ListOf(next, permanentObjects)
      /\ PointsInto(committed, next[x])
  BY CommitRootMoves
<1>3. IsAcyclic'
  <2> SUFFICES ASSUME NEW o \in alive'
               PROVE  o \notin ListOf(next', next'[o])
    BY DEF IsAcyclic
  <2>0. o \in alive /\ o \in Objects /\ next[o] \in Pointers
    BY <1>1 DEF ListInv, TypeOK
  <2>1. CASE o = x
    <3>1. ListOf(next', roots) = ListOf(next, roots)
      BY <1>2, CommittedAreAlive
    <3> QED BY <1>2, <2>1, <3>1
  <2>2. CASE o # x
    <3>1. next'[o] = next[o] /\ o \notin ListOf(next, next[o])
      BY <1>2, <2>0, <2>2 DEF ListInv, ListsOK, IsAcyclic
    <3>2. x \notin ListOf(next, next[o])
      <4>1. o \in ListOf(next, next[x]) \/ o \in ListOf(next, roots)
        BY <1>2, <2>0, <2>2 DEF ListInv, ListsOK
      <4>2. ListOf(next, next[o]) \subseteq ListOf(next, o)
        BY <2>0, ListFacts DEF ListInv
      <4> QED BY <1>2, <4>1, <4>2, ListFacts, CommittedAreAlive DEF ListInv
    <3> QED BY <1>2, <2>0, <3>1, <3>2
  <2> QED BY <2>1, <2>2
<1> HIDE DEF x
<1>4. ListsOK'
  <2>1. ListOf(next', spine') \cup ListOf(next', roots') = alive'
    BY <1>1, <1>2 DEF ListInv, ListsOK
  <2>2. ListOf(next', spine') \cap ListOf(next', roots') = {}
    BY <1>2 DEF ListInv, ListsOK
  <2>3. PointsInto(committed, spine)'
    BY <1>1, <1>2 DEF PointsInto
  <2>4. PointsInto(permanentObjects, committed)'
    BY <1>1, <1>2 DEF PointsInto, ListInv, ListsOK
  <2> QED BY <1>1, <1>3, <2>1, <2>2, <2>3, <2>4 DEF ListsOK
<1>5. TypeOK'
  BY <1>2, CommittedAreAlive DEF ListInv, TypeOK, CommitRoot, Pointers, x
<1>6. LoopsOK'
  BY <1>1 DEF LoopsOK
<1> QED BY <1>4, <1>5, <1>6 DEF ListInv

\* The steps that change neither memory nor lists: they move the pointers of the loops.
LEMMA MutatorLists ==
    ASSUME ListInv,
           \/ \E o \in Objects : Assign(o)
           \/ RequestCollection
           \/ CommitPermanentObjects
           \/ CommitRootObjects
           \/ Start
           \/ Commit
           \/ Command
    PROVE  ListInv'
<1>1. TypeOK /\ ListsOK /\ LoopsOK
  BY DEF ListInv
<1>2. CASE \E o \in Objects : Assign(o)
  <2>1. PICK o \in Objects, children \in ChildSets(Accessible) :
           Assign(o) /\ refs' = [refs EXCEPT ![o] = children]
    BY <1>2 DEF Assign
  <2>2. children \in SUBSET Objects
    BY <1>1, <2>1, AccessibleIsLeast DEF ChildSets, AccessibleOK
  <2>3. /\ UNCHANGED <<alive, isMarked, next, spine, committed, permanentObjects, roots, needed>>
        /\ UNCHANGED <<held, phase, obj, prev>>
    BY <2>1 DEF Assign, listVars
  <2>4. refs' \in [Objects -> SUBSET Objects]
    BY <1>1, <2>1, <2>2 DEF TypeOK
  <2>5. TypeOK'
    BY <1>1, <2>3, <2>4 DEF TypeOK
  <2>6. ListsOK' /\ LoopsOK'
    BY <1>1, <2>3 DEF ListsOK, LoopsOK, IsAcyclic, PointsInto, PrevOK
  <2> QED BY <2>5, <2>6 DEF ListInv
<1>3. CASE RequestCollection
  <2>1. TypeOK'
    BY <1>1, <1>3 DEF TypeOK, RequestCollection, listVars
  <2>2. ListsOK' /\ LoopsOK'
    BY <1>1, <1>3 DEF RequestCollection, listVars, ListsOK, LoopsOK, IsAcyclic, PointsInto, PrevOK
  <2> QED BY <2>1, <2>2 DEF ListInv
<1>4. CASE CommitPermanentObjects
  <2>1. TypeOK'
    BY <1>1, <1>4 DEF TypeOK, CommitPermanentObjects, Phases, SetUpPhases
  <2>2. PointsInto(spine, spine)
    BY <1>1, CommittedAreAlive, ListFacts DEF PointsInto
  <2>3. ListsOK' /\ LoopsOK'
    BY <1>1, <1>4, <2>2
       DEF CommitPermanentObjects, ListsOK, LoopsOK, IsAcyclic, PointsInto
  <2> QED BY <2>1, <2>3 DEF ListInv
<1>5. CASE CommitRootObjects \/ Start
  <2>1. TypeOK'
    BY <1>1, <1>5 DEF TypeOK, CommitRootObjects, Start, listVars, Phases, SetUpPhases
  <2>2. ListsOK' /\ LoopsOK'
    BY <1>1, <1>5
       DEF CommitRootObjects, Start, listVars, ListsOK, LoopsOK, IsAcyclic, PointsInto
  <2> QED BY <2>1, <2>2 DEF ListInv
<1>6. CASE Commit
  <2>1. TypeOK'
    BY <1>1, <1>6 DEF TypeOK, Commit, Phases, SetUpPhases
  <2>2. PointsInto(spine, spine) /\ PointsInto(permanentObjects, spine) /\ PointsInto(roots, roots)
    <3>1. PointsInto(spine, spine) /\ PointsInto(roots, roots)
      BY <1>1, CommittedAreAlive, ListFacts DEF PointsInto
    <3>2. PointsInto(permanentObjects, spine)
      BY <1>1, CommittedAreAlive DEF PointsInto, ListsOK
    <3> QED BY <3>1, <3>2
  <2>3. ListsOK'
    BY <1>1, <1>6, <2>2 DEF Commit, ListsOK, IsAcyclic, PointsInto
  <2>4. LoopsOK'
    BY <1>1, <1>6, <2>2 DEF Commit, LoopsOK, PointsInto
  <2> QED BY <2>1, <2>3, <2>4 DEF ListInv
<1>7. CASE Command
  <2>1. TypeOK'
    BY <1>1, <1>7 DEF TypeOK, Command, listVars, Phases, SetUpPhases
  <2>2. PointsInto(roots, roots)
    BY <1>1, CommittedAreAlive, ListFacts DEF PointsInto
  <2>3. phase' \in {"mark", "gcm"} /\ phase = "run"
    BY <1>7 DEF Command
  <2>4. ListsOK' /\ LoopsOK'
    BY <1>1, <1>7, <2>2, <2>3 DEF Command, listVars, ListsOK, LoopsOK, IsAcyclic, PointsInto
  <2> QED BY <2>1, <2>4 DEF ListInv
<1> QED BY <1>2, <1>3, <1>4, <1>5, <1>6, <1>7

\* The loops do not meet NULL before the end they look for.
LEMMA LoopsMeetObjects ==
    ASSUME ListInv
    PROVE  /\ phase \in {"mark", "gcm", "unmarkRoots"} /\ obj # NIL =>
                  obj \in ListOf(next, roots)
           /\ phase = "unmarkFresh" /\ obj # committed => obj \in ListOf(next, spine)
           /\ phase = "sweep" /\ obj # permanentObjects => obj \in ListOf(next, committed)
<1>1. ListOf(next, NIL) = {}
  BY ListFacts DEF ListInv
<1> QED BY <1>1 DEF ListInv, LoopsOK, PointsInto

\* The loops of markRoots, and of sweep over the roots, stay in the list of roots.
LEMMA MarkLists ==
    ASSUME ListInv, MarkRoot \/ SweepBegins \/ UnmarkRoot
    PROVE  ListInv'
<1>1. TypeOK /\ ListsOK /\ LoopsOK /\ next \in [Objects -> Pointers]
  BY DEF ListInv, TypeOK
<1>2. CASE MarkRoot
  <2>1. obj \in ListOf(next, roots) /\ obj \in Objects
    BY <1>1, <1>2, LoopsMeetObjects, CommittedAreAlive, ListFacts DEF MarkRoot
  <2>2. PointsInto(next[obj], roots) /\ next[obj] \in Pointers
    BY <1>1, <2>1, CommittedAreAlive, ListFacts
  <2>3. isMarked' \in [Objects -> BOOLEAN]
    BY <1>1, <1>2 DEF MarkRoot, TypeOK
  <2>4. TypeOK'
    BY <1>1, <1>2, <2>2, <2>3 DEF MarkRoot, TypeOK, listVars
  <2>5. ListsOK' /\ LoopsOK'
    BY <1>1, <1>2, <2>2 DEF MarkRoot, listVars, ListsOK, LoopsOK, IsAcyclic, PointsInto
  <2> QED BY <2>4, <2>5 DEF ListInv
<1>3. CASE SweepBegins
  <2>1. TypeOK'
    BY <1>1, <1>3, ListFacts DEF SweepBegins, TypeOK, listVars, Phases, SetUpPhases
  <2>2. PointsInto(roots, roots)
    BY <1>1, CommittedAreAlive, ListFacts DEF PointsInto
  <2>3. ListsOK' /\ LoopsOK'
    BY <1>1, <1>3, <2>2 DEF SweepBegins, listVars, ListsOK, LoopsOK, IsAcyclic, PointsInto
  <2> QED BY <2>1, <2>3 DEF ListInv
<1>4. CASE UnmarkRoot /\ obj # NIL
  <2>1. obj \in ListOf(next, roots) /\ obj \in Objects
    BY <1>1, <1>4, LoopsMeetObjects, CommittedAreAlive, ListFacts DEF UnmarkRoot
  <2>2. PointsInto(next[obj], roots) /\ next[obj] \in Pointers
    BY <1>1, <2>1, CommittedAreAlive, ListFacts
  <2>3. isMarked' \in [Objects -> BOOLEAN]
    BY <1>1, <1>4 DEF UnmarkRoot, Unmark, TypeOK
  <2>4. TypeOK'
    BY <1>1, <1>4, <2>2, <2>3 DEF UnmarkRoot, Unmark, TypeOK, listVars
  <2>5. ListsOK' /\ LoopsOK'
    BY <1>1, <1>4, <2>2
       DEF UnmarkRoot, Unmark, listVars, ListsOK, LoopsOK, IsAcyclic, PointsInto
  <2> QED BY <2>4, <2>5 DEF ListInv
<1>5. CASE UnmarkRoot /\ obj = NIL
  <2>1. TypeOK'
    BY <1>1, <1>5, ListFacts DEF UnmarkRoot, TypeOK, listVars, Phases, SetUpPhases
  <2>2. PointsInto(spine, spine)
    BY <1>1, CommittedAreAlive, ListFacts DEF PointsInto
  <2>3. ListsOK' /\ LoopsOK'
    BY <1>1, <1>5, <2>2
       DEF UnmarkRoot, listVars, ListsOK, LoopsOK, IsAcyclic, PointsInto, PrevOK
  <2> QED BY <2>1, <2>3 DEF ListInv
<1> QED BY <1>2, <1>3, <1>4, <1>5

\* From an object of a list, what is behind its end is also in the rest of the list.
LEMMA StepAlong ==
    ASSUME TypeOK, NEW p \in Pointers, NEW q \in Pointers, PointsInto(q, p), p # q
    PROVE  p \in Objects /\ PointsInto(q, next[p])
<1>1. ListOf(next, NIL) = {}
  BY ListFacts
<1>2. p # NIL
  BY <1>1 DEF PointsInto
<1>3. p \in Objects /\ ListOf(next, p) = {p} \cup ListOf(next, next[p])
  BY <1>2, ListFacts
<1> QED BY <1>3 DEF PointsInto

\* The loops of sweep over the spine stay in it, on the way to where they end.
LEMMA SweepLists ==
    ASSUME ListInv, UnmarkFresh \/ SweepMarked \/ SweepEnds
    PROVE  ListInv'
<1>1. TypeOK /\ ListsOK /\ LoopsOK /\ next \in [Objects -> Pointers]
  BY DEF ListInv, TypeOK
<1>2. CASE UnmarkFresh /\ obj # committed
  <2>1. obj \in ListOf(next, spine) /\ obj \in Objects
    BY <1>1, <1>2, LoopsMeetObjects, CommittedAreAlive, ListFacts DEF UnmarkFresh
  <2>2. PointsInto(next[obj], spine) /\ next[obj] \in Pointers
    BY <1>1, <2>1, CommittedAreAlive, ListFacts
  <2>3. PointsInto(committed, next[obj])
    BY <1>1, <1>2, StepAlong, CommittedAreAlive DEF UnmarkFresh, LoopsOK
  <2>4. isMarked' \in [Objects -> BOOLEAN]
    BY <1>1, <1>2 DEF UnmarkFresh, Unmark, TypeOK
  <2>5. TypeOK'
    BY <1>1, <1>2, <2>2, <2>4, CommittedAreAlive DEF UnmarkFresh, Unmark, TypeOK, listVars
  <2>6. ListsOK' /\ LoopsOK'
    BY <1>1, <1>2, <2>1, <2>2, <2>3
       DEF UnmarkFresh, Unmark, listVars, ListsOK, LoopsOK, IsAcyclic, PointsInto, PrevOK
  <2> QED BY <2>5, <2>6 DEF ListInv
<1>3. CASE UnmarkFresh /\ obj = committed
  <2>1. TypeOK'
    BY <1>1, <1>3 DEF UnmarkFresh, TypeOK, listVars, Phases, SetUpPhases
  <2>2. PointsInto(committed, committed)
    BY <1>1, CommittedAreAlive, ListFacts DEF PointsInto
  <2>3. ListsOK' /\ LoopsOK'
    BY <1>1, <1>3, <2>2
       DEF UnmarkFresh, listVars, ListsOK, LoopsOK, IsAcyclic, PointsInto, PrevOK
  <2> QED BY <2>1, <2>3 DEF ListInv
<1>4. CASE SweepMarked
  <2>1. obj \in ListOf(next, committed) /\ obj \in Objects
    BY <1>1, <1>4, LoopsMeetObjects, CommittedAreAlive, ListFacts DEF SweepMarked, Keep
  <2>2. PointsInto(next[obj], committed) /\ next[obj] \in Pointers
    BY <1>1, <2>1, CommittedAreAlive, ListFacts
  <2>3. PointsInto(permanentObjects, next[obj])
    BY <1>1, <1>4, StepAlong, CommittedAreAlive DEF SweepMarked, Keep, LoopsOK
  <2>4. isMarked' \in [Objects -> BOOLEAN]
    BY <1>1, <1>4 DEF SweepMarked, Unmark, TypeOK
  <2>5. TypeOK'
    BY <1>1, <1>4, <2>2, <2>4, CommittedAreAlive DEF SweepMarked, Unmark, TypeOK, listVars
  <2>6. obj \in ListOf(next, spine) /\ phase = "sweep"
    BY <1>4, <2>1, CommittedAreAlive DEF SweepMarked, Keep
  <2>7. ListsOK'
    BY <1>1, <1>4, <2>6 DEF SweepMarked, Unmark, listVars, ListsOK, IsAcyclic, PointsInto
  <2>8. LoopsOK'
    BY <1>4, <2>1, <2>2, <2>3, <2>6
       DEF SweepMarked, Unmark, listVars, LoopsOK, PointsInto, PrevOK
  <2> QED BY <2>5, <2>7, <2>8 DEF ListInv
<1>5. CASE SweepEnds
  <2>1. TypeOK'
    BY <1>1, <1>5, ListFacts DEF SweepEnds, TypeOK, listVars, Phases, SetUpPhases
  <2>2. ListsOK' /\ LoopsOK'
    BY <1>1, <1>5 DEF SweepEnds, listVars, ListsOK, LoopsOK, IsAcyclic, PointsInto
  <2> QED BY <2>1, <2>2 DEF ListInv
<1> QED BY <1>2, <1>3, <1>4, <1>5

\* What freeing an object does to the lists: it is taken out of those that it was in.
LEMMA FreedLists ==
    ASSUME ListInv, SweepUnmarked
    PROVE  /\ obj \in Objects /\ next' \in [Objects -> Pointers] /\ next[obj] \in Pointers
           /\ obj \in ListOf(next, committed) /\ obj \in ListOf(next, spine) /\ obj \in alive
           /\ obj \notin ListOf(next, next[obj]) /\ obj # prev
           /\ PointsInto(permanentObjects, next[obj])
           /\ \A o \in alive : next[o] = obj => o = prev
           /\ \A p \in Pointers \ {obj} :
                 ListOf(next, p) \subseteq alive => ListOf(next', p) = ListOf(next, p) \ {obj}
           /\ ListOf(next', spine') = ListOf(next, spine) \ {obj}
           /\ ListOf(next', committed') = ListOf(next, committed) \ {obj}
           /\ ListOf(next', permanentObjects) = ListOf(next, permanentObjects)
           /\ ListOf(next', roots) = ListOf(next, roots)
           /\ ListOf(next', next[obj]) = ListOf(next, next[obj])
<1>1. TypeOK /\ ListsOK /\ LoopsOK /\ next \in [Objects -> Pointers]
  BY DEF ListInv, TypeOK
<1>2. /\ phase = "sweep" /\ obj # permanentObjects
      /\ next' = [o \in Objects |-> IF o = obj THEN NIL
                                    ELSE IF o = prev THEN next[obj] ELSE next[o]]
      /\ spine' = IF prev = NIL THEN next[obj] ELSE spine
      /\ committed' = IF obj = committed THEN next[obj] ELSE committed
  BY DEF SweepUnmarked, SweepFreeing
<1>3. /\ obj \in ListOf(next, committed) /\ obj \in ListOf(next, spine) /\ obj \in alive
      /\ obj \in Objects /\ obj # NIL /\ next[obj] \in Pointers
      /\ ListOf(next, obj) = {obj} \cup ListOf(next, next[obj])
  <2>1. obj \in ListOf(next, committed) /\ obj \in ListOf(next, spine) /\ obj \in alive
    BY <1>2, LoopsMeetObjects, CommittedAreAlive
  <2>2. obj \in Objects
    BY <1>1, <2>1 DEF TypeOK
  <2> QED BY <1>1, <2>1, <2>2, ListFacts
<1>4. obj \notin ListOf(next, next[obj]) /\ next[obj] # obj
  <2>1. obj \notin ListOf(next, next[obj])
    BY <1>1, <1>3 DEF ListsOK, IsAcyclic
  <2> QED BY <1>3, <2>1
<1>5. /\ PointsInto(permanentObjects, next[obj])
      /\ obj \notin ListOf(next, permanentObjects)
  <2>1. PointsInto(permanentObjects, next[obj])
    BY <1>1, <1>2, StepAlong, CommittedAreAlive DEF LoopsOK
  <2>2. ListOf(next, permanentObjects) \subseteq ListOf(next, next[obj])
    BY <1>1, <1>3, <2>1, ListFacts DEF PointsInto
  <2> QED BY <1>4, <2>1, <2>2
<1>6. PrevOK /\ prev \in Pointers
  BY <1>1, <1>2, CommittedAreAlive DEF LoopsOK
<1>7. prev # NIL => /\ prev \in ListOf(next, spine) /\ prev \in alive /\ next[prev] = obj
                   /\ prev \notin ListOf(next, obj)
  BY <1>1, <1>6, CommittedAreAlive DEF PrevOK, ListsOK, IsAcyclic
<1>8. ASSUME NEW o \in alive, next[o] = obj
      PROVE  o = prev
  <2>1. o \notin ListOf(next, roots)
    <3> SUFFICES ASSUME o \in ListOf(next, roots) PROVE FALSE
      OBVIOUS
    <3>1. obj \in ListOf(next, roots)
      BY <1>1, <1>3, <1>8, CommittedAreAlive, ListFacts DEF PointsInto
    <3> QED BY <1>1, <1>3, <3>1 DEF ListsOK
  <2>2. o \in ListOf(next, spine) /\ o \notin ListOf(next, obj)
    BY <1>1, <1>8, <2>1 DEF ListsOK, IsAcyclic
  <2>3. CASE prev = NIL
    <3>1. prev \notin ListOf(next, spine)
      BY <1>1, <2>3, CommittedAreAlive, ListFacts
    <3> QED BY <1>6, <2>2, <3>1 DEF PrevOK
  <2>4. CASE prev # NIL
    <3>1. \A x \in ListOf(next, spine) : x \notin ListOf(next, next[x])
      BY <1>1, CommittedAreAlive DEF ListsOK, IsAcyclic
    <3> QED BY <1>1, <1>3, <1>7, <1>8, <2>2, <2>4, <3>1, OnePredecessor, CommittedAreAlive
  <2> QED BY <2>3, <2>4
<1>9. ASSUME NEW p \in Pointers \ {obj}, ListOf(next, p) \subseteq alive
      PROVE  ListOf(next', p) = ListOf(next, p) \ {obj}
  <2>1. \A o \in ListOf(next, p) : next[o] = obj => o = prev
    BY <1>8, <1>9
  <2>2. prev # NIL => next[prev] = obj
    BY <1>7
  <2> DEFINE nx2 == [o \in Objects |-> IF o = obj THEN NIL
                                       ELSE IF o = prev THEN next[obj] ELSE next[o]]
  <2>3. ListOf(nx2, p) = ListOf(next, p) \ {obj}
    BY <1>1, <1>3, <1>4, <1>6, <1>9, <2>1, <2>2, Unlink
  <2> QED BY <1>2, <2>3
<1>10. next' \in [Objects -> Pointers]
  BY <1>1, <1>2, <1>3, ListFacts
<1>11. ListOf(next, next[obj]) \subseteq alive
  BY <1>3, TailsAreAlive
<1>12. ListOf(next', next[obj]) = ListOf(next, next[obj])
  BY <1>3, <1>4, <1>9, <1>11
<1>13. ListOf(next', spine') = ListOf(next, spine) \ {obj}
  <2>1. CASE prev = NIL
    <3>1. spine' = next[obj] /\ obj = spine
      BY <1>2, <1>6, <2>1, CommittedAreAlive, ListFacts, <1>1 DEF PrevOK
    <3> QED BY <1>3, <1>4, <1>12, <3>1
  <2>2. CASE prev # NIL
    <3>1. spine' = spine /\ spine # obj
      BY <1>2, <1>7, <2>2
    <3> QED BY <1>9, <3>1, CommittedAreAlive
  <2> QED BY <2>1, <2>2
<1>14. ListOf(next', committed') = ListOf(next, committed) \ {obj}
  <2>1. CASE obj = committed
    BY <1>2, <1>3, <1>4, <1>12, <2>1
  <2>2. CASE obj # committed
    BY <1>2, <1>9, <2>2, CommittedAreAlive
  <2> QED BY <2>1, <2>2
<1>15. ListOf(next', permanentObjects) = ListOf(next, permanentObjects)
  BY <1>2, <1>5, <1>9, CommittedAreAlive
<1>16. ListOf(next', roots) = ListOf(next, roots)
  <2>1. obj \notin ListOf(next, roots)
    BY <1>1, <1>3 DEF ListsOK
  <2>2. roots # obj
    BY <1>1, <1>3, <2>1, CommittedAreAlive, ListFacts
  <2> QED BY <1>9, <2>1, <2>2, CommittedAreAlive
<1>17. obj # prev
  BY <1>3, <1>7
<1> QED
  BY <1>3, <1>4, <1>5, <1>8, <1>9, <1>10, <1>12, <1>13, <1>14, <1>15, <1>16, <1>17

\* Freeing an object keeps every other object in one list.
LEMMA FreeLists ==
    ASSUME ListInv, SweepUnmarked
    PROVE  ListInv'
<1>1. TypeOK /\ ListsOK /\ LoopsOK /\ next \in [Objects -> Pointers]
  BY DEF ListInv, TypeOK
<1>2. /\ phase = "sweep"
      /\ next' = [o \in Objects |-> IF o = obj THEN NIL
                                    ELSE IF o = prev THEN next[obj] ELSE next[o]]
      /\ spine' = IF prev = NIL THEN next[obj] ELSE spine
      /\ committed' = IF obj = committed THEN next[obj] ELSE committed
      /\ alive' = alive \ {obj} /\ refs' = [refs EXCEPT ![obj] = {}] /\ obj' = next[obj]
      /\ UNCHANGED <<isMarked, permanentObjects, roots, needed, held, phase, prev>>
  BY DEF SweepUnmarked, SweepFreeing
<1>3. /\ obj \in Objects /\ next' \in [Objects -> Pointers] /\ next[obj] \in Pointers
      /\ obj \in ListOf(next, committed) /\ obj \in ListOf(next, spine) /\ obj \in alive
      /\ obj \notin ListOf(next, next[obj]) /\ obj # prev
      /\ PointsInto(permanentObjects, next[obj])
      /\ \A o \in alive : next[o] = obj => o = prev
      /\ \A p \in Pointers \ {obj} :
            ListOf(next, p) \subseteq alive => ListOf(next', p) = ListOf(next, p) \ {obj}
      /\ ListOf(next', spine') = ListOf(next, spine) \ {obj}
      /\ ListOf(next', committed') = ListOf(next, committed) \ {obj}
      /\ ListOf(next', permanentObjects) = ListOf(next, permanentObjects)
      /\ ListOf(next', roots) = ListOf(next, roots)
      /\ ListOf(next', next[obj]) = ListOf(next, next[obj])
  BY FreedLists
<1>4. TypeOK'
  <2>1. refs' \in [Objects -> SUBSET Objects] /\ alive' \subseteq Objects
    BY <1>1, <1>2 DEF TypeOK
  <2>2. {spine', committed', permanentObjects', roots', obj', prev'} \subseteq Pointers
    BY <1>2, <1>3, CommittedAreAlive
  <2> QED BY <1>1, <1>2, <1>3, <2>1, <2>2 DEF TypeOK
<1>5. next[obj] # obj /\ obj # NIL
  BY <1>1, <1>3, ListFacts
<1>6. IsAcyclic'
  <2> SUFFICES ASSUME NEW o \in alive \ {obj} PROVE o \notin ListOf(next', next'[o])
    BY <1>2 DEF IsAcyclic
  <2>1. o \in Objects /\ o \notin ListOf(next, next[o]) /\ next[o] \in Pointers
    BY <1>1 DEF ListsOK, IsAcyclic, TypeOK
  <2>2. CASE o = prev
    <3>1. next'[o] = next[obj]
      BY <1>2, <2>1, <2>2
    <3>2. next[o] = obj
      BY <1>1, <1>2, <2>1, <2>2, NILAssumption DEF LoopsOK, PrevOK
    <3>3. ListOf(next, next[obj]) \subseteq ListOf(next, obj)
      BY <1>1, <1>3, <1>5, ListFacts
    <3> QED BY <1>3, <2>1, <3>1, <3>2, <3>3
  <2>3. CASE o # prev
    <3>1. next'[o] = next[o] /\ next[o] # obj
      BY <1>2, <1>3, <2>1, <2>3
    <3>2. ListOf(next', next[o]) = ListOf(next, next[o]) \ {obj}
      BY <1>3, <2>1, <3>1, TailsAreAlive
    <3> QED BY <2>1, <3>1, <3>2
  <2> QED BY <2>2, <2>3
<1>7. PointsInto(committed, spine)' /\ PointsInto(permanentObjects, committed)'
  <2>1. committed' \in (ListOf(next, spine) \ {obj}) \cup {NIL}
    <3>1. CASE obj = committed
      BY <1>1, <1>2, <1>3, <1>5, <3>1, CommittedAreAlive, ListFacts DEF PointsInto
    <3>2. CASE obj # committed
      BY <1>1, <1>2, <3>2 DEF ListsOK, PointsInto
    <3> QED BY <3>1, <3>2
  <2>2. permanentObjects \in (ListOf(next, committed) \ {obj}) \cup {NIL}
    BY <1>1, <1>2 DEF ListsOK, PointsInto, SweepUnmarked, SweepFreeing
  <2> QED BY <1>2, <1>3, <2>1, <2>2 DEF PointsInto
<1>8. ListsOK'
  BY <1>1, <1>2, <1>3, <1>6, <1>7 DEF ListsOK, PointsInto
<1>9. LoopsOK'
  <2>1. next[obj] \in (ListOf(next, committed) \ {obj}) \cup {NIL}
    BY <1>1, <1>3, <1>5, CommittedAreAlive, ListFacts DEF PointsInto
  <2>2. PointsInto(obj, committed)' /\ PointsInto(permanentObjects, obj)'
    BY <1>2, <1>3, <2>1 DEF PointsInto
  <2>3. PrevOK'
    <3>1. CASE prev = NIL
      BY <1>2, <3>1 DEF PrevOK
    <3>2. CASE prev # NIL
      <4>1. prev \in ListOf(next, spine) \ {obj} /\ prev \in Objects
        BY <1>1, <1>2, <1>3, <3>2, CommittedAreAlive DEF LoopsOK, PrevOK, TypeOK
      <4> QED BY <1>2, <1>3, <4>1 DEF PrevOK
    <3> QED BY <3>1, <3>2
  <2>4. obj' = committed' \/ prev' \in ListOf(next', committed')
    BY <1>1, <1>2, <1>3 DEF LoopsOK
  <2> QED BY <1>2, <2>2, <2>3, <2>4 DEF LoopsOK
<1> QED BY <1>4, <1>8, <1>9 DEF ListInv

\* The lists are empty at first.
LEMMA InitLists == Init => ListInv
<1> SUFFICES ASSUME Init PROVE ListInv
  OBVIOUS
<1>1. TypeOK
  BY DEF Init, TypeOK, Pointers, Phases, SetUpPhases
<1>2. ListOf(next, NIL) = {}
  BY <1>1, ListFacts
<1>3. ListsOK /\ LoopsOK
  BY <1>2 DEF Init, ListsOK, LoopsOK, IsAcyclic, PointsInto
<1> QED BY <1>1, <1>3 DEF ListInv

\* Every step keeps the lists.
LEMMA NextLists == ListInv /\ [Next]_vars => ListInv'
<1> SUFFICES ASSUME ListInv, [Next]_vars PROVE ListInv'
  OBVIOUS
<1>1. CASE UNCHANGED vars
  BY <1>1 DEF vars, listVars, ListInv, TypeOK, ListsOK, LoopsOK, IsAcyclic, PointsInto, PrevOK
<1>2. CASE Next
  BY <1>2, NewLists, NewRootLists, MutatorLists, CommitRootLists, MarkLists, SweepLists, FreeLists
     DEF Next
<1> QED BY <1>1, <1>2

\* Every allocated object is in exactly one of the two lists, and the pointers into the spine
\* are in order, whatever the program allocates and whenever it collects.
THEOREM ListsCorrect == Spec => []ListsAreExact
<1>1. ListInv => ListsAreExact
  <2> SUFFICES ASSUME ListInv PROVE ListsAreExact
    OBVIOUS
  <2>1. \A p : List(p) = ListOf(next, p)
    BY DEF List, ListOf
  <2> QED BY <2>1, CommittedAreAlive DEF ListInv, ListsOK, ListsAreExact
<1> QED BY <1>1, InitLists, NextLists, PTL DEF Spec

-----------------------------------------------------------------------------
(* What can be accessed, and marks.                                          *)

\* The objects that are never swept, those that are marked, and the phases of gc_collect.
Permanent == ListOf(next, permanentObjects)

Marked == {o \in Objects : isMarked[o]}

Collecting == phase \in {"mark", "unmarkRoots", "unmarkFresh", "sweep"}

\* What can be accessed is allocated.  Permanent objects point to permanent objects only; what
\* set-up has not committed is still held, and nothing is held while a collection runs.
ReachOK ==
    /\ Accessible \subseteq alive
    /\ ClosedUnderRefs(Permanent)
    /\ phase = "permanent" => ClosedUnderRefs(alive)
    /\ phase \in SetUpPhases => ListOf(next, spine) \ ListOf(next, committed) \subseteq held
    /\ Collecting => held = {}

\* Between two collections only permanent objects are marked, and what they point to (they are
\* not unmarked).  Marking keeps the marked objects closed, so that any_mark may stop at them.
\* The sweep has in front of it, marked or permanent, whatever can be accessed, and has left
\* behind it nothing else.
MarksOK ==
    /\ phase # "gcm"
    /\ phase \in SetUpPhases => Marked = {}
    /\ phase = "run" => Marked \subseteq Permanent
    /\ ClosedUnderRefs(Marked \cap Permanent)
    /\ Collecting => Marked \subseteq Accessible
    /\ phase = "mark" =>
          ClosedUnderRefs(Marked) /\ ListOf(next, roots) \ ListOf(next, obj) \subseteq Marked
    /\ phase = "unmarkRoots" =>
          /\ obj = roots => ClosedUnderRefs(Marked) /\ ListOf(next, roots) \subseteq Marked
          /\ Accessible \subseteq Marked \cup Permanent \cup ListOf(next, roots)
          /\ Marked \cap ListOf(next, roots) \subseteq ListOf(next, obj)
    /\ phase \in {"unmarkFresh", "sweep"} =>
          /\ Accessible \cap ListOf(next, obj) \subseteq Marked \cup Permanent
          /\ Marked \subseteq Permanent \cup ListOf(next, obj)
    /\ phase = "sweep" => ListOf(next, committed) \ ListOf(next, obj) \subseteq Accessible

\* The invariant of the memory.
MemInv == ReachOK /\ MarksOK

\* A step of Heap, or one that Heap does not see.
SafeStep == [Memory!Next]_(Memory!vars)

\* AccessibleIsLeast in the next state.
LEMMA AccessibleIsLeastAfter == TypeOK' => AccessibleOK'
  BY AccessibleIsLeast, PTL

\* After a step, what can be accessed is in any set that is closed and has the roots.
LEMMA AccessibleAfter ==
    ASSUME TypeOK', NEW c \in SUBSET Objects,
           ListOf(next', roots') \cup ListOf(next', permanentObjects') \cup held' \subseteq c,
           \A o \in c : refs'[o] \subseteq c
    PROVE  Accessible' \subseteq c
  BY AccessibleIsLeastAfter DEF AccessibleOK, ClosedUnderRefs

\* What Heap calls needed is what can be accessed.
LEMMA NeededIsAccessible == TypeOK => Memory!Needed = Accessible
<1> SUFFICES ASSUME TypeOK PROVE Memory!Needed = Accessible
  OBVIOUS
<1>1. AccessibleOK
  BY AccessibleIsLeast
<1>2. Memory!Needed = {o \in Objects : \A s \in SUBSET Objects :
                          RootSet \cup held \subseteq s /\ ClosedUnderRefs(s) => o \in s}
  BY DEF Memory!Needed, Memory!Reachable, Memory!Closed, ClosedUnderRefs
<1> QED BY <1>1, <1>2, RootsAreListed DEF AccessibleOK

\* The same of the next state.
LEMMA RootsAreListedAfter ==
    RootSet' = ListOf(next', roots') \cup ListOf(next', permanentObjects')
  BY DEF RootSet, List, ListOf

\* If the links and the references are as they were, the same can be accessed.
LEMMA SameMemory ==
    ASSUME UNCHANGED <<alive, refs, next, roots, permanentObjects, held>>
    PROVE  /\ Accessible' = Accessible /\ Permanent' = Permanent
           /\ UNCHANGED Memory!vars
<1>1. RootSet' = RootSet
  BY RootsAreListed, RootsAreListedAfter
<1> QED BY <1>1 DEF Accessible, Permanent, Memory!vars

\* If nothing but objects that can be accessed is among the roots, what is held, or what
\* such an object points to, then nothing more can be accessed.
LEMMA NoMoreAccessible ==
    ASSUME ListInv, TypeOK', ReachOK,
           ListOf(next', roots') \cup ListOf(next', permanentObjects') \cup held' \subseteq Accessible,
           \A o \in Accessible : refs'[o] \subseteq Accessible
    PROVE  Accessible' \subseteq Accessible /\ Accessible' \subseteq alive
<1>1. Accessible \in SUBSET Objects
  BY AccessibleIsLeast DEF AccessibleOK, ListInv
<1> DEFINE c == Accessible
<1>2. c \in SUBSET Objects /\ \A o \in c : refs'[o] \subseteq c
  BY <1>1
<1>3. ListOf(next', roots') \cup ListOf(next', permanentObjects') \cup held' \subseteq c
  OBVIOUS
<1> HIDE DEF c
<1>4. Accessible' \subseteq c
  BY <1>2, <1>3, AccessibleAfter
<1> QED BY <1>4 DEF c, ReachOK

\* A new object can be accessed afterwards, and nothing else besides what could be before.
LEMMA PlacedMemory ==
    ASSUME ListInv, MemInv, ListInv', NEW o \in Objects, NEW children \in ChildSets(Accessible),
           NEW head \in Pointers, Allocate(o, children, head),
           ListOf(next', roots') \subseteq ListOf(next, roots) \cup {o}, held' \subseteq held \cup {o},
           ListOf(next', permanentObjects') = Permanent
    PROVE  /\ Accessible' \subseteq alive'
           /\ ClosedUnderRefs(Permanent)'
           /\ Marked' = Marked \ {o} /\ o \notin Permanent
           /\ ClosedUnderRefs(Marked \cap Permanent)'
           /\ Memory!Place(o, children) /\ children \in SUBSET Objects
<1>1. /\ TypeOK /\ TypeOK' /\ AccessibleOK /\ ReachOK /\ MarksOK
      /\ refs \in [Objects -> SUBSET Objects] /\ isMarked \in [Objects -> BOOLEAN]
  BY AccessibleIsLeast DEF ListInv, MemInv, TypeOK
<1>2. /\ o \notin alive /\ alive' = alive \cup {o}
      /\ children \subseteq Accessible
      /\ refs' = [refs EXCEPT ![o] = children]
      /\ isMarked' = [isMarked EXCEPT ![o] = FALSE]
  BY DEF Allocate, ChildSets
<1>3. /\ o \notin Accessible /\ o \notin Permanent
      /\ Accessible \in SUBSET Objects /\ Permanent \subseteq Accessible
  BY <1>1, <1>2 DEF ReachOK, AccessibleOK, Permanent
<1>4. refs'[o] = children /\ \A x \in Accessible : refs'[x] = refs[x]
  BY <1>1, <1>2, <1>3
<1>5. Accessible' \subseteq alive'
  <2> DEFINE c == Accessible \cup {o}
  <2>1. c \in SUBSET Objects
    BY <1>3
  <2>2. \A x \in c : refs'[x] \subseteq c
    BY <1>1, <1>2, <1>4 DEF AccessibleOK, ClosedUnderRefs
  <2>3. ListOf(next', roots') \cup ListOf(next', permanentObjects') \cup held' \subseteq c
    BY <1>1, <1>3 DEF AccessibleOK
  <2> HIDE DEF c
  <2>4. Accessible' \subseteq c
    BY <1>1, <2>1, <2>2, <2>3, AccessibleAfter
  <2> QED BY <1>1, <1>2, <2>4 DEF c, ReachOK
<1>6. Permanent' = Permanent
  BY DEF Permanent
<1>7. ClosedUnderRefs(Permanent)'
  BY <1>1, <1>3, <1>4, <1>6 DEF ReachOK, ClosedUnderRefs
<1>8. Marked' = Marked \ {o}
  BY <1>1, <1>2 DEF Marked
<1>9. ClosedUnderRefs(Marked \cap Permanent)'
  BY <1>1, <1>3, <1>4, <1>6, <1>8 DEF MarksOK, ClosedUnderRefs
<1>10. Memory!Place(o, children)
  BY <1>1, <1>2, NeededIsAccessible DEF Memory!Place
<1> QED BY <1>2, <1>3, <1>5, <1>7, <1>8, <1>9, <1>10

\* An allocation in the current step, seen as one of Heap.
LEMMA NewMemory ==
    ASSUME ListInv, MemInv, ListInv', NEW o \in Objects, New(o)
    PROVE  MemInv' /\ SafeStep
<1>1. PICK children \in ChildSets(Accessible) : Allocate(o, children, spine)
  BY DEF New
<1>2. /\ spine' = o /\ held' = held \cup {o} /\ roots' = roots
      /\ UNCHANGED <<committed, permanentObjects, phase>>
      /\ phase \in {"permanent", "roots", "run"}
      /\ alive' = alive \cup {o} /\ refs' = [refs EXCEPT ![o] = children]
  BY <1>1 DEF New, Allocate
<1>3. /\ children \in SUBSET Objects
      /\ TypeOK /\ AccessibleOK
  BY <1>1, AccessibleIsLeast DEF ListInv, ChildSets, AccessibleOK
<1>4. /\ \A p \in {spine, roots, committed, permanentObjects} :
            ListOf(next', p) = ListOf(next, p)
      /\ ListOf(next', o) = {o} \cup ListOf(next, spine)
  BY <1>1, <1>3, CommittedAreAlive, AllocatedList
<1>5. /\ Accessible' \subseteq alive'
      /\ ClosedUnderRefs(Permanent)'
      /\ Marked' = Marked \ {o} /\ o \notin Permanent
      /\ ClosedUnderRefs(Marked \cap Permanent)'
      /\ Memory!Place(o, children)
  BY <1>1, <1>2, <1>4, CommittedAreAlive, PlacedMemory DEF Permanent
<1>6. phase' = "permanent" => ClosedUnderRefs(alive)'
  BY <1>1, <1>2, <1>3 DEF MemInv, ReachOK, ClosedUnderRefs, ChildSets, TypeOK
<1>7. ReachOK'
  BY <1>2, <1>4, <1>5, <1>6 DEF MemInv, ReachOK, Collecting
<1>8. Permanent' = Permanent
  BY <1>2, <1>4 DEF Permanent
<1>9. MarksOK'
  BY <1>2, <1>5, <1>8 DEF MemInv, MarksOK, Collecting, SetUpPhases
<1>10. Memory!Allocate(o, children)
  BY <1>2, <1>4, <1>5, RootsAreListed, RootsAreListedAfter DEF Memory!Allocate
<1> QED BY <1>3, <1>7, <1>9, <1>10 DEF MemInv, SafeStep, Memory!Next

\* The allocation of a root, seen as one of Heap.
LEMMA NewRootMemory ==
    ASSUME ListInv, MemInv, ListInv', NEW o \in Objects, NewRoot(o)
    PROVE  MemInv' /\ SafeStep
<1>1. PICK children \in ChildSets(Accessible) : Allocate(o, children, roots)
  BY DEF NewRoot
<1>2. /\ roots' = o /\ held' = held /\ spine' = spine
      /\ UNCHANGED <<committed, permanentObjects, phase>>
      /\ phase = "run"
      /\ alive' = alive \cup {o}
  BY <1>1 DEF NewRoot, Allocate
<1>3. children \in SUBSET Objects
  BY <1>1, AccessibleIsLeast DEF ListInv, ChildSets, AccessibleOK
<1>4. /\ \A p \in {spine, roots, committed, permanentObjects} :
            ListOf(next', p) = ListOf(next, p)
      /\ ListOf(next', o) = {o} \cup ListOf(next, roots)
  BY <1>1, <1>3, CommittedAreAlive, AllocatedList
<1>5. /\ Accessible' \subseteq alive'
      /\ ClosedUnderRefs(Permanent)'
      /\ Marked' = Marked \ {o} /\ o \notin Permanent
      /\ ClosedUnderRefs(Marked \cap Permanent)'
      /\ Memory!Place(o, children)
  BY <1>1, <1>2, <1>4, CommittedAreAlive, PlacedMemory DEF Permanent
<1>6. ReachOK'
  BY <1>2, <1>5 DEF MemInv, ReachOK, Collecting, SetUpPhases
<1>7. Permanent' = Permanent
  BY <1>2, <1>4 DEF Permanent
<1>8. MarksOK'
  BY <1>2, <1>5, <1>7 DEF MemInv, MarksOK, Collecting, SetUpPhases
<1>9. Memory!AllocateRoot(o, children)
  BY <1>2, <1>4, <1>5, RootsAreListed, RootsAreListedAfter DEF Memory!AllocateRoot
<1> QED BY <1>3, <1>6, <1>8, <1>9 DEF MemInv, SafeStep, Memory!Next

\* The assignment of a field makes nothing accessible that was not.
LEMMA AssignMemory ==
    ASSUME ListInv, MemInv, ListInv', NEW o \in Objects, Assign(o)
    PROVE  MemInv' /\ SafeStep
<1>1. PICK children \in ChildSets(Accessible) : refs' = [refs EXCEPT ![o] = children]
  BY DEF Assign
<1>2. /\ phase = "run" /\ o \in Accessible /\ o \notin Permanent
      /\ UNCHANGED <<alive, isMarked, next, spine, committed, permanentObjects, roots>>
      /\ UNCHANGED <<needed, held, phase, obj, prev>>
      /\ RootSet' = RootSet
  <2>1. List(permanentObjects) = Permanent
    BY DEF List, ListOf, Permanent
  <2>2. /\ phase = "run" /\ o \in Accessible /\ o \notin Permanent
        /\ UNCHANGED <<alive, isMarked, next, spine, committed, permanentObjects, roots>>
        /\ UNCHANGED <<needed, held, phase, obj, prev>>
    BY <2>1 DEF Assign, listVars
  <2> QED BY <2>2, RootsAreListed, RootsAreListedAfter
<1>3. /\ TypeOK /\ AccessibleOK /\ TypeOK' /\ ReachOK /\ MarksOK
      /\ children \subseteq Accessible /\ refs \in [Objects -> SUBSET Objects]
  BY <1>1, AccessibleIsLeast DEF ListInv, MemInv, ChildSets, TypeOK
<1>4. \A x \in Objects : refs'[x] = IF x = o THEN children ELSE refs[x]
  BY <1>1, <1>3
<1>5. Accessible' \subseteq alive'
  <2>1. \A x \in Accessible : refs'[x] \subseteq Accessible
    BY <1>3, <1>4 DEF AccessibleOK, ClosedUnderRefs
  <2>2. ListOf(next', roots') \cup ListOf(next', permanentObjects') \cup held' \subseteq Accessible
    BY <1>2, <1>3 DEF AccessibleOK
  <2> QED BY <1>2, <1>3, <2>1, <2>2, NoMoreAccessible
<1>6. Permanent' = Permanent /\ Marked' = Marked /\ Permanent \in SUBSET Objects
  <2>1. Permanent \in SUBSET Objects
    BY <1>3, CommittedAreAlive, ListFacts DEF Permanent
  <2> QED BY <1>2, <2>1 DEF Permanent, Marked
<1>7. ClosedUnderRefs(Permanent)' /\ ClosedUnderRefs(Marked \cap Permanent)'
  BY <1>2, <1>3, <1>4, <1>6 DEF ReachOK, MarksOK, ClosedUnderRefs
<1>8. ReachOK'
  BY <1>2, <1>5, <1>7 DEF ReachOK, Collecting, SetUpPhases
<1>9. MarksOK'
  BY <1>2, <1>3, <1>6, <1>7 DEF MarksOK, Collecting, SetUpPhases
<1>10. Memory!Assign(o, children) /\ children \in SUBSET Objects
  BY <1>1, <1>2, <1>3, NeededIsAccessible DEF Memory!Assign, AccessibleOK
<1> QED BY <1>8, <1>9, <1>10 DEF MemInv, SafeStep, Memory!Next

\* The set-up: objects that C variables hold become roots.
LEMMA SetUpMemory ==
    ASSUME ListInv, MemInv, ListInv',
           RequestCollection \/ CommitPermanentObjects \/ CommitRootObjects \/ CommitRoot \/ Start
    PROVE  MemInv' /\ SafeStep
<1>1. TypeOK /\ AccessibleOK /\ TypeOK' /\ ReachOK /\ MarksOK
  BY AccessibleIsLeast DEF ListInv, MemInv
<1>2. CASE RequestCollection
  <2>1. UNCHANGED <<alive, refs, next, roots, permanentObjects, held>>
        /\ UNCHANGED <<isMarked, phase, spine, committed, obj>>
    BY <1>2 DEF RequestCollection, listVars
  <2>2. /\ Accessible' = Accessible /\ Permanent' = Permanent /\ Marked' = Marked
        /\ UNCHANGED Memory!vars
    BY <2>1, SameMemory DEF Marked
  <2>3. ReachOK' /\ MarksOK'
    BY <1>1, <2>1, <2>2 DEF ReachOK, MarksOK, ClosedUnderRefs, Collecting
  <2> QED BY <2>2, <2>3 DEF MemInv, SafeStep
<1>3. CASE CommitRootObjects \/ Start
  <2>1. /\ UNCHANGED <<alive, refs, next, roots, permanentObjects, held>>
        /\ UNCHANGED <<isMarked, spine, committed, obj>>
        /\ phase \in {"roots", "commitRoots"} /\ phase' \in {"commitRoots", "run"}
    BY <1>3 DEF CommitRootObjects, Start, listVars
  <2>2. /\ Accessible' = Accessible /\ Permanent' = Permanent /\ Marked' = Marked
        /\ UNCHANGED Memory!vars
    BY <2>1, SameMemory DEF Marked
  <2>3. ReachOK' /\ MarksOK'
    BY <1>1, <2>1, <2>2 DEF ReachOK, MarksOK, ClosedUnderRefs, Collecting, SetUpPhases
  <2> QED BY <2>2, <2>3 DEF MemInv, SafeStep
<1>4. CASE CommitPermanentObjects
  <2>1. /\ UNCHANGED <<alive, refs, isMarked, next, spine, roots, held>>
        /\ phase = "permanent" /\ phase' = "roots"
        /\ permanentObjects' = spine /\ committed' = spine
    BY <1>4 DEF CommitPermanentObjects
  <2>2. /\ ListOf(next, committed) = {} /\ ListOf(next, roots) = {}
        /\ ListOf(next, spine) = alive
    BY <1>1, <2>1, ListFacts DEF ListInv, ListsOK
  <2>3. alive \subseteq held /\ alive \subseteq Accessible /\ alive \in SUBSET Objects
    BY <1>1, <2>1, <2>2 DEF ReachOK, AccessibleOK, SetUpPhases, TypeOK
  <2>4. Permanent' = alive /\ Marked' = {} /\ Marked = {} /\ ClosedUnderRefs(alive)
    BY <1>1, <2>1, <2>2 DEF Permanent, Marked, MarksOK, ReachOK, SetUpPhases
  <2>5. Accessible' \subseteq alive'
    <3>1. ListOf(next', roots') \cup ListOf(next', permanentObjects') \cup held' \subseteq Accessible
      BY <1>1, <2>1, <2>2, <2>3 DEF AccessibleOK
    <3>2. \A x \in Accessible : refs'[x] \subseteq Accessible
      BY <1>1, <2>1 DEF AccessibleOK, ClosedUnderRefs
    <3> QED BY <1>1, <2>1, <3>1, <3>2, NoMoreAccessible
  <2>6. ReachOK' /\ MarksOK'
    BY <2>1, <2>4, <2>5 DEF ReachOK, MarksOK, ClosedUnderRefs, Collecting, SetUpPhases
  <2>7. Memory!AddRoots(alive)
    <3>1. RootSet' = RootSet \cup alive
      BY <1>1, <2>1, <2>2, CommittedAreAlive, RootsAreListed, RootsAreListedAfter
    <3> QED BY <1>1, <2>1, <2>3, <3>1, NeededIsAccessible DEF Memory!AddRoots
  <2> QED BY <2>3, <2>6, <2>7 DEF MemInv, SafeStep, Memory!Next
<1>5. CASE CommitRoot
  <2> DEFINE x == spine
  <2>1. /\ UNCHANGED <<alive, refs, isMarked, committed, permanentObjects, held, phase>>
        /\ phase = "commitRoots"
    BY <1>5 DEF CommitRoot
  <2>2. /\ x \in Objects
        /\ x \notin ListOf(next, next[x])
        /\ ListOf(next, spine) = {x} \cup ListOf(next, next[x])
        /\ x \notin ListOf(next, committed)
        /\ ListOf(next', spine') = ListOf(next, next[x])
        /\ ListOf(next', roots') = {x} \cup ListOf(next, roots)
        /\ ListOf(next', committed) = ListOf(next, committed)
        /\ ListOf(next', permanentObjects) = ListOf(next, permanentObjects)
    BY <1>5, CommitRootMoves
  <2> HIDE DEF x
  <2>3. x \in held /\ x \in Accessible
    BY <1>1, <2>1, <2>2 DEF ReachOK, AccessibleOK, SetUpPhases
  <2>4. Permanent' = Permanent /\ Marked' = Marked
    BY <2>1, <2>2 DEF Permanent, Marked
  <2>5. Accessible' \subseteq alive'
    <3>1. ListOf(next', roots') \cup ListOf(next', permanentObjects') \cup held' \subseteq Accessible
      BY <1>1, <2>1, <2>2, <2>3 DEF AccessibleOK
    <3>2. \A y \in Accessible : refs'[y] \subseteq Accessible
      BY <1>1, <2>1 DEF AccessibleOK, ClosedUnderRefs
    <3> QED BY <1>1, <2>1, <3>1, <3>2, NoMoreAccessible
  <2>6. ReachOK'
    BY <1>1, <2>1, <2>2, <2>4, <2>5 DEF ReachOK, ClosedUnderRefs, Collecting, SetUpPhases
  <2>7. MarksOK'
    BY <1>1, <2>1, <2>4 DEF MarksOK, ClosedUnderRefs, Collecting, SetUpPhases
  <2>8. Memory!AddRoots({x}) /\ {x} \in SUBSET Objects
    <3>1. RootSet' = RootSet \cup {x}
      BY <2>1, <2>2, RootsAreListed, RootsAreListedAfter
    <3> QED BY <1>1, <2>1, <2>2, <2>3, <3>1, NeededIsAccessible DEF Memory!AddRoots
  <2> QED BY <2>6, <2>7, <2>8 DEF MemInv, SafeStep, Memory!Next
<1> QED BY <1>2, <1>3, <1>4, <1>5

\* Between two steps only the roots keep objects in memory.
LEMMA CommitMemory ==
    ASSUME ListInv, MemInv, ListInv', Commit \/ Command, MarkCommand = FALSE
    PROVE  MemInv' /\ SafeStep
<1>1. TypeOK /\ AccessibleOK /\ TypeOK' /\ AccessibleOK' /\ ReachOK /\ MarksOK
  BY AccessibleIsLeast, AccessibleIsLeastAfter DEF ListInv, MemInv
<1>2. /\ UNCHANGED <<alive, refs, isMarked, next, spine, roots, permanentObjects>>
      /\ phase = "run" /\ held' = {}
      /\ phase' = "run" \/ (phase' = "mark" /\ obj' = roots)
  BY DEF Commit, Command, listVars
<1>3. Permanent' = Permanent /\ Marked' = Marked
  BY <1>2 DEF Permanent, Marked
<1>4. Accessible' \subseteq alive'
  <2>1. ListOf(next', roots') \cup ListOf(next', permanentObjects') \cup held' \subseteq Accessible
    BY <1>1, <1>2 DEF AccessibleOK
  <2>2. \A y \in Accessible : refs'[y] \subseteq Accessible
    BY <1>1, <1>2 DEF AccessibleOK, ClosedUnderRefs
  <2> QED BY <1>1, <1>2, <2>1, <2>2, NoMoreAccessible
<1>5. Permanent \subseteq Accessible'
  BY <1>1, <1>2 DEF AccessibleOK, Permanent
<1>6. Marked \subseteq Permanent /\ ClosedUnderRefs(Marked)
  <2>1. Marked \subseteq Permanent
    BY <1>1, <1>2 DEF MarksOK
  <2>2. Marked \cap Permanent = Marked
    BY <2>1
  <2> QED BY <1>1, <2>1, <2>2 DEF MarksOK
<1>7. ReachOK'
  BY <1>1, <1>2, <1>3, <1>4 DEF ReachOK, ClosedUnderRefs, SetUpPhases
<1>8. MarksOK'
  BY <1>1, <1>2, <1>3, <1>5, <1>6 DEF MarksOK, ClosedUnderRefs, Collecting, SetUpPhases
<1>9. Memory!Drop(held) /\ held \in SUBSET Objects
  BY <1>1, <1>2, RootsAreListed, RootsAreListedAfter DEF Memory!Drop, TypeOK
<1> QED BY <1>7, <1>8, <1>9 DEF MemInv, SafeStep, Memory!Next

\* What one call of any_mark marks, with what was marked before, is closed, and all of it can
\* be accessed.
LEMMA MarkedByOneCall ==
    ASSUME TypeOK, obj \in ListOf(next, roots), ClosedUnderRefs(Marked), Marked \subseteq Accessible,
           MarkRoot
    PROVE  /\ obj \in Marked' /\ Marked \subseteq Marked'
           /\ ClosedUnderRefs(Marked')
           /\ Marked' \subseteq Accessible
<1> DEFINE m == Marks(obj)
           stop == {x \in Objects : isMarked[x]}
<1>1. /\ AccessibleOK /\ refs \in [Objects -> SUBSET Objects] /\ roots \in Pointers
      /\ isMarked \in [Objects -> BOOLEAN]
  BY AccessibleIsLeast DEF TypeOK
<1>2. obj \in Objects /\ obj \in Accessible
  BY <1>1, ListFacts DEF AccessibleOK
<1>3. {obj} \in SUBSET Objects /\ m = Reach({obj}, refs, stop) /\ stop = Marked
  BY <1>2 DEF Marks, Marked
<1> HIDE DEF m, stop
<1>4. /\ m \in SUBSET (Objects \ stop)
      /\ {obj} \ stop \subseteq m
      /\ \A o \in m : refs[o] \ stop \subseteq m
      /\ \A c : {obj} \ stop \subseteq c /\ IsClosed(refs, stop, c) => m \subseteq c
  <2>1. /\ {obj} \in SUBSET Objects /\ refs \in [Objects -> SUBSET Objects]
        /\ m = Reach({obj}, refs, stop)
    BY <1>1, <1>3
  <2> QED BY <2>1, ReachIsLeast
<1>5. m \subseteq Accessible
  <2>1. IsClosed(refs, stop, Accessible)
    BY <1>1 DEF AccessibleOK, IsClosed, ClosedUnderRefs
  <2> QED BY <1>2, <1>4, <2>1
<1>6. Marked' = Marked \cup m
  <2>1. isMarked' = [o \in Objects |-> isMarked[o] \/ o \in m]
    BY DEF MarkRoot, m
  <2>2. \A o \in Objects : isMarked'[o] <=> isMarked[o] \/ o \in m
    BY <1>1, <2>1, Zenon
  <2> QED BY <1>4, <2>2 DEF Marked
<1>7. ClosedUnderRefs(Marked')
  BY <1>3, <1>4, <1>6 DEF ClosedUnderRefs
<1> QED BY <1>3, <1>4, <1>5, <1>6, <1>7

\* An object of a list is not in what is behind it.
LEMMA NotBehindItself ==
    ASSUME ListInv, NEW x \in alive
    PROVE  /\ x \in Objects /\ x \notin ListOf(next, next[x])
           /\ ListOf(next, x) = {x} \cup ListOf(next, next[x])
<1>1. TypeOK /\ x \in Objects
  BY DEF ListInv, TypeOK
<1> QED BY <1>1, ListFacts DEF ListInv, ListsOK, IsAcyclic

\* Unmarking an object that is not permanent leaves the permanent ones as they are.
LEMMA Unmarked ==
    ASSUME TypeOK, ReachOK, MarksOK, Unmark, UNCHANGED <<refs, next, permanentObjects>>,
           obj \in Objects, obj \notin Permanent
    PROVE  /\ Marked' = Marked \ {obj}
           /\ ClosedUnderRefs(Marked \cap Permanent)'
<1>1. Marked' = Marked \ {obj}
  BY DEF TypeOK, Unmark, Marked
<1>2. Permanent' = Permanent
  BY DEF Permanent
<1>3. (Marked \cap Permanent)' = Marked \cap Permanent
  BY <1>1, <1>2
<1> QED BY <1>1, <1>3 DEF MarksOK, ClosedUnderRefs

\* Marking, and unmarking the roots: when the marking ends, what can be accessed is marked,
\* permanent or a root.
LEMMA MarkMemory ==
    ASSUME ListInv, MemInv, ListInv', MarkRoot \/ SweepBegins \/ UnmarkRoot
    PROVE  MemInv' /\ SafeStep
<1>1. TypeOK /\ AccessibleOK /\ ReachOK /\ MarksOK
  BY AccessibleIsLeast DEF ListInv, MemInv
<1>2. /\ UNCHANGED <<alive, refs, next, roots, permanentObjects, held, spine, committed>>
      /\ Collecting /\ phase \in {"mark", "unmarkRoots"}
  BY <1>1 DEF MarkRoot, SweepBegins, UnmarkRoot, listVars, MarksOK, Collecting
<1>3. Accessible' = Accessible /\ Permanent' = Permanent /\ UNCHANGED Memory!vars
  BY <1>2, SameMemory
<1>4. phase' \in {"mark", "unmarkRoots", "unmarkFresh"}
  BY <1>2 DEF MarkRoot, SweepBegins, UnmarkRoot
<1>5. ReachOK'
  BY <1>1, <1>2, <1>3, <1>4 DEF ReachOK, ClosedUnderRefs, Collecting, SetUpPhases
<1>6. ListOf(next, NIL) = {} /\ Permanent \subseteq Accessible /\ held = {}
  BY <1>1, <1>2, ListFacts DEF AccessibleOK, Permanent, ReachOK
<1>7. CASE MarkRoot
  <2>1. phase = "mark" /\ phase' = "mark" /\ obj # NIL /\ obj' = next[obj]
    BY <1>2, <1>7 DEF MarkRoot
  <2>2. obj \in ListOf(next, roots) /\ obj \in Objects
    BY <1>1, <2>1, LoopsMeetObjects, CommittedAreAlive, ListFacts
  <2>3. ListOf(next, obj) = {obj} \cup ListOf(next, next[obj])
    BY <2>2, NotBehindItself, CommittedAreAlive
  <2>4. /\ obj \in Marked' /\ Marked \subseteq Marked'
        /\ ClosedUnderRefs(Marked')
        /\ Marked' \subseteq Accessible
    BY <1>1, <1>2, <1>7, <2>1, <2>2, MarkedByOneCall DEF MarksOK
  <2>5. ListOf(next, roots) \ ListOf(next, next[obj]) \subseteq Marked'
    BY <1>1, <2>1, <2>3, <2>4 DEF MarksOK
  <2>6. ClosedUnderRefs(Marked)' /\ ClosedUnderRefs(Marked \cap Permanent)'
    BY <1>1, <1>2, <1>3, <2>4 DEF ClosedUnderRefs, ReachOK
  <2>7. MarksOK'
    BY <1>2, <1>3, <2>1, <2>4, <2>5, <2>6 DEF MarksOK, SetUpPhases
  <2> QED BY <1>3, <1>5, <2>7 DEF MemInv, SafeStep
<1>8. CASE SweepBegins
  <2>1. phase = "mark" /\ obj = NIL /\ phase' = "unmarkRoots" /\ obj' = roots /\ Marked' = Marked
    BY <1>2, <1>8 DEF SweepBegins, Marked
  <2>2. ListOf(next, roots) \subseteq Marked /\ ClosedUnderRefs(Marked)
    BY <1>1, <1>6, <2>1 DEF MarksOK
  <2>3. Accessible \subseteq Marked \cup Permanent
    <3> DEFINE c == Marked \cup Permanent
    <3>1. c \in SUBSET Objects
      BY <1>1, <1>6 DEF AccessibleOK, Marked
    <3>2. ClosedUnderRefs(c)
      BY <1>1, <2>2 DEF ReachOK, ClosedUnderRefs
    <3>3. ListOf(next, roots) \cup ListOf(next, permanentObjects) \cup held \subseteq c
      BY <1>6, <2>2 DEF Permanent
    <3> HIDE DEF c
    <3>4. Accessible \subseteq c
      BY <1>1, <3>1, <3>2, <3>3 DEF AccessibleOK
    <3> QED BY <3>4 DEF c
  <2>4. ClosedUnderRefs(Marked)' /\ ClosedUnderRefs(Marked \cap Permanent)'
    BY <1>1, <1>2, <1>3, <2>1, <2>2 DEF ClosedUnderRefs, MarksOK
  <2>5. MarksOK'
    BY <1>1, <1>2, <1>3, <2>1, <2>2, <2>3, <2>4 DEF MarksOK, SetUpPhases
  <2> QED BY <1>3, <1>5, <2>5 DEF MemInv, SafeStep
<1>9. CASE UnmarkRoot /\ obj # NIL
  <2>1. phase = "unmarkRoots" /\ phase' = "unmarkRoots" /\ obj' = next[obj] /\ Unmark
    BY <1>2, <1>9 DEF UnmarkRoot, Unmark
  <2>2. obj \in ListOf(next, roots) /\ obj \in Objects
    BY <1>1, <1>9, <2>1, LoopsMeetObjects, CommittedAreAlive, ListFacts
  <2>3. /\ obj \notin ListOf(next, next[obj])
        /\ ListOf(next, obj) = {obj} \cup ListOf(next, next[obj])
    BY <2>2, NotBehindItself, CommittedAreAlive
  <2>4. obj \notin Permanent /\ next[obj] # roots
    BY <2>2, <2>3, CommittedAreAlive DEF ListInv, ListsOK, Permanent
  <2>5. Marked' = Marked \ {obj} /\ ClosedUnderRefs(Marked \cap Permanent)'
    BY <1>1, <1>2, <2>1, <2>2, <2>4, Unmarked
  <2>6. MarksOK'
    BY <1>1, <1>2, <1>3, <2>1, <2>2, <2>3, <2>4, <2>5 DEF MarksOK, SetUpPhases, Collecting
  <2> QED BY <1>3, <1>5, <2>6 DEF MemInv, SafeStep
<1>10. CASE UnmarkRoot /\ obj = NIL
  <2>1. /\ phase = "unmarkRoots" /\ phase' = "unmarkFresh" /\ obj' = spine /\ Marked' = Marked
    BY <1>2, <1>10 DEF UnmarkRoot, Marked
  <2>2. /\ Marked \cap ListOf(next, roots) = {} /\ Marked \subseteq Accessible
        /\ Accessible \subseteq Marked \cup Permanent \cup ListOf(next, roots)
    BY <1>1, <1>2, <1>6, <1>10, <2>1 DEF MarksOK
  <2>3. Marked \subseteq ListOf(next, spine)
        /\ Accessible \cap ListOf(next, spine) \subseteq Marked \cup Permanent
    BY <1>1, <2>2 DEF ReachOK, ListInv, ListsOK
  <2>4. ClosedUnderRefs(Marked \cap Permanent)'
    BY <1>1, <1>2, <1>3, <2>1 DEF MarksOK, ClosedUnderRefs
  <2>5. MarksOK'
    BY <1>2, <1>3, <2>1, <2>2, <2>3, <2>4 DEF MarksOK, SetUpPhases
  <2> QED BY <1>3, <1>5, <2>5 DEF MemInv, SafeStep
<1> QED BY <1>7, <1>8, <1>9, <1>10

\* The sweep past objects that stay: behind obj nothing has lost its mark.
LEMMA SweepMemory ==
    ASSUME ListInv, MemInv, ListInv', UnmarkFresh \/ SweepMarked \/ SweepEnds
    PROVE  MemInv' /\ SafeStep
<1>1. TypeOK /\ AccessibleOK /\ ReachOK /\ MarksOK
  BY AccessibleIsLeast DEF ListInv, MemInv
<1>2. /\ UNCHANGED <<alive, refs, next, roots, permanentObjects, held, spine, committed>>
      /\ Collecting /\ phase \in {"unmarkFresh", "sweep"}
  BY DEF UnmarkFresh, SweepMarked, Keep, SweepEnds, listVars, Collecting
<1>3. Accessible' = Accessible /\ Permanent' = Permanent /\ UNCHANGED Memory!vars
  BY <1>2, SameMemory
<1>4. phase' \in {"unmarkFresh", "sweep", "run"}
  BY <1>2 DEF UnmarkFresh, SweepMarked, Keep, SweepEnds
<1>5. ReachOK'
  BY <1>1, <1>2, <1>3, <1>4 DEF ReachOK, ClosedUnderRefs, Collecting, SetUpPhases
<1>6. /\ Marked \subseteq Accessible
      /\ Accessible \cap ListOf(next, obj) \subseteq Marked \cup Permanent
      /\ Marked \subseteq Permanent \cup ListOf(next, obj)
  BY <1>1, <1>2 DEF MarksOK
<1>7. ASSUME obj \in alive, obj \notin Permanent, Unmark
      PROVE  /\ Marked' = Marked \ {obj} /\ ClosedUnderRefs(Marked \cap Permanent)'
             /\ ListOf(next, obj) = {obj} \cup ListOf(next, next[obj])
             /\ Accessible \cap ListOf(next, next[obj]) \subseteq Marked' \cup Permanent
             /\ Marked' \subseteq Permanent \cup ListOf(next, next[obj])
  <2>1. /\ obj \in Objects /\ obj \notin ListOf(next, next[obj])
        /\ ListOf(next, obj) = {obj} \cup ListOf(next, next[obj])
    BY <1>7, NotBehindItself
  <2>2. Marked' = Marked \ {obj} /\ ClosedUnderRefs(Marked \cap Permanent)'
    BY <1>1, <1>2, <1>7, <2>1, Unmarked
  <2> QED BY <1>6, <2>1, <2>2
<1>8. CASE UnmarkFresh /\ obj # committed
  <2>1. phase = "unmarkFresh" /\ phase' = "unmarkFresh" /\ obj' = next[obj] /\ Unmark
    BY <1>8 DEF UnmarkFresh, Unmark
  <2>2. obj \in alive /\ PointsInto(committed, next[obj])
    BY <1>1, <1>8, <2>1, LoopsMeetObjects, CommittedAreAlive, StepAlong DEF ListInv, LoopsOK
  <2>3. obj \notin Permanent
    <3>1. Permanent \subseteq ListOf(next, next[obj])
      <4>1. next[obj] \in Pointers /\ ListOf(next, NIL) = {}
        BY <1>1, <2>2, ListFacts DEF TypeOK
      <4>2. ListOf(next, committed) \subseteq ListOf(next, next[obj])
        BY <1>1, <2>2, <4>1, ListFacts DEF PointsInto
      <4> QED BY <4>2, CommittedAreAlive DEF Permanent
    <3> QED BY <2>2, <3>1, NotBehindItself
  <2>4. MarksOK'
    BY <1>2, <1>3, <1>6, <1>7, <2>1, <2>2, <2>3 DEF MarksOK, SetUpPhases
  <2> QED BY <1>3, <1>5, <2>4 DEF MemInv, SafeStep
<1>9. CASE UnmarkFresh /\ obj = committed
  <2>1. phase' = "sweep" /\ obj' = obj /\ Marked' = Marked
    BY <1>9 DEF UnmarkFresh, Marked
  <2>2. ClosedUnderRefs(Marked \cap Permanent)'
    BY <1>1, <1>2, <1>3, <2>1 DEF MarksOK, ClosedUnderRefs
  <2>3. MarksOK'
    BY <1>2, <1>3, <1>6, <1>9, <2>1, <2>2 DEF MarksOK, SetUpPhases
  <2> QED BY <1>3, <1>5, <2>3 DEF MemInv, SafeStep
<1>10. CASE SweepMarked
  <2>1. /\ phase = "sweep" /\ phase' = "sweep" /\ obj' = next[obj] /\ Unmark
        /\ obj # permanentObjects /\ isMarked[obj]
    BY <1>10 DEF SweepMarked, Keep, Unmark
  <2>2. /\ obj \in alive /\ obj \in ListOf(next, committed)
        /\ PointsInto(permanentObjects, next[obj])
    BY <1>1, <2>1, LoopsMeetObjects, CommittedAreAlive, StepAlong DEF ListInv, LoopsOK
  <2>3. obj \notin Permanent
    <3>1. Permanent \subseteq ListOf(next, next[obj])
      <4>1. next[obj] \in Pointers /\ ListOf(next, NIL) = {}
        BY <1>1, <2>2, ListFacts DEF TypeOK
      <4> QED BY <1>1, <2>2, <4>1, ListFacts DEF PointsInto, Permanent
    <3> QED BY <2>2, <3>1, NotBehindItself
  <2>4. obj \in Accessible
    BY <1>1, <1>6, <2>1, <2>2 DEF Marked, TypeOK
  <2>5. ListOf(next, committed) \ ListOf(next, next[obj]) \subseteq Accessible
    BY <1>1, <1>7, <2>1, <2>2, <2>3, <2>4 DEF MarksOK
  <2>6. MarksOK'
    BY <1>2, <1>3, <1>6, <1>7, <2>1, <2>2, <2>3, <2>5 DEF MarksOK, SetUpPhases
  <2> QED BY <1>3, <1>5, <2>6 DEF MemInv, SafeStep
<1>11. CASE SweepEnds
  <2>1. phase' = "run" /\ obj = permanentObjects /\ Marked' = Marked
    BY <1>11 DEF SweepEnds, Marked
  <2>2. Marked \subseteq Permanent
    BY <1>6, <2>1 DEF Permanent
  <2>3. ClosedUnderRefs(Marked \cap Permanent)'
    BY <1>1, <1>2, <1>3, <2>1 DEF MarksOK, ClosedUnderRefs
  <2>4. MarksOK'
    BY <1>3, <2>1, <2>2, <2>3 DEF MarksOK, SetUpPhases, Collecting
  <2> QED BY <1>3, <1>5, <2>4 DEF MemInv, SafeStep
<1> QED BY <1>8, <1>9, <1>10, <1>11

\* The object that is freed could not be accessed, and what can be accessed stays the same.
LEMMA FreeMemory ==
    ASSUME ListInv, MemInv, ListInv', SweepUnmarked
    PROVE  MemInv' /\ SafeStep
<1>1. /\ TypeOK /\ AccessibleOK /\ ReachOK /\ MarksOK /\ TypeOK' /\ AccessibleOK'
      /\ refs \in [Objects -> SUBSET Objects]
  BY AccessibleIsLeast, AccessibleIsLeastAfter DEF ListInv, MemInv, TypeOK
<1>2. /\ phase = "sweep" /\ obj # permanentObjects /\ ~isMarked[obj]
      /\ alive' = alive \ {obj} /\ refs' = [refs EXCEPT ![obj] = {}] /\ obj' = next[obj]
      /\ UNCHANGED <<isMarked, permanentObjects, roots, held, phase>>
  BY DEF SweepUnmarked, SweepFreeing
<1>3. /\ obj \in Objects /\ next[obj] \in Pointers /\ obj \in alive
      /\ obj \in ListOf(next, committed)
      /\ obj \notin ListOf(next, next[obj])
      /\ PointsInto(permanentObjects, next[obj])
      /\ ListOf(next', committed') = ListOf(next, committed) \ {obj}
      /\ ListOf(next', permanentObjects) = ListOf(next, permanentObjects)
      /\ ListOf(next', roots) = ListOf(next, roots)
      /\ ListOf(next', next[obj]) = ListOf(next, next[obj])
  BY FreedLists
<1>4. ListOf(next, obj) = {obj} \cup ListOf(next, next[obj])
  BY <1>3, NotBehindItself
<1>5. Permanent' = Permanent /\ Marked' = Marked /\ obj \notin Permanent
  <2>1. Permanent \subseteq ListOf(next, next[obj])
    <3>1. ListOf(next, NIL) = {}
      BY <1>1, ListFacts
    <3> QED BY <1>1, <1>3, <3>1, ListFacts DEF PointsInto, Permanent
  <2> QED BY <1>2, <1>3, <2>1 DEF Permanent, Marked
<1>6. obj \notin Accessible
  <2>1. obj \notin Marked
    BY <1>2 DEF Marked
  <2> QED BY <1>1, <1>2, <1>4, <1>5, <2>1 DEF MarksOK
<1>7. refs'[obj] = {} /\ \A x \in Objects : x # obj => refs'[x] = refs[x]
  BY <1>1, <1>2, <1>3
<1>8. Accessible' \subseteq Accessible
  <2>1. ListOf(next', roots') \cup ListOf(next', permanentObjects') \cup held' \subseteq Accessible
    BY <1>1, <1>2, <1>3 DEF AccessibleOK
  <2>2. \A x \in Accessible : refs'[x] \subseteq Accessible
    BY <1>1, <1>6, <1>7 DEF AccessibleOK, ClosedUnderRefs
  <2> QED BY <1>1, <2>1, <2>2, NoMoreAccessible
<1>9. Accessible \subseteq Accessible'
  <2> DEFINE c == Accessible'
  <2>1. c \in SUBSET Objects
    BY <1>1 DEF AccessibleOK
  <2>2. ListOf(next, roots) \cup ListOf(next, permanentObjects) \cup held \subseteq c
    BY <1>1, <1>2, <1>3 DEF AccessibleOK
  <2>3. ClosedUnderRefs(c)
    BY <1>1, <1>6, <1>7, <1>8, <2>1 DEF AccessibleOK, ClosedUnderRefs
  <2> HIDE DEF c
  <2>4. Accessible \subseteq c
    BY <1>1, <2>1, <2>2, <2>3 DEF AccessibleOK
  <2> QED BY <2>4 DEF c
<1>10. Accessible' = Accessible
  BY <1>8, <1>9
<1>11. ClosedUnderRefs(Permanent)' /\ ClosedUnderRefs(Marked \cap Permanent)'
  <2>1. Permanent \in SUBSET Objects
    BY <1>1, CommittedAreAlive, ListFacts DEF Permanent
  <2> QED BY <1>1, <1>5, <1>7, <2>1 DEF ReachOK, MarksOK, ClosedUnderRefs
<1>12. ReachOK'
  BY <1>1, <1>2, <1>6, <1>10, <1>11 DEF ReachOK, Collecting, SetUpPhases
<1>13. MarksOK'
  <2>1. /\ Marked \subseteq Accessible
        /\ Accessible \cap ListOf(next, next[obj]) \subseteq Marked \cup Permanent
        /\ Marked \subseteq Permanent \cup ListOf(next, next[obj])
        /\ (ListOf(next, committed) \ {obj}) \ ListOf(next, next[obj]) \subseteq Accessible
    BY <1>1, <1>2, <1>4, <1>6 DEF MarksOK, Collecting
  <2> QED BY <1>2, <1>3, <1>5, <1>10, <1>11, <2>1 DEF MarksOK, SetUpPhases
<1>14. Memory!Free(obj)
  <2>1. RootSet' = RootSet
    BY <1>2, <1>3, RootsAreListed, RootsAreListedAfter
  <2> QED BY <1>1, <1>2, <1>3, <1>6, <2>1, NeededIsAccessible DEF Memory!Free
<1> QED BY <1>3, <1>12, <1>13, <1>14 DEF MemInv, SafeStep, Memory!Next

\* Memory is empty at first.
LEMMA InitMemory == Init => MemInv /\ Memory!Init
<1> SUFFICES ASSUME Init PROVE MemInv /\ Memory!Init
  OBVIOUS
<1>1. TypeOK /\ AccessibleOK
  BY InitLists, AccessibleIsLeast DEF ListInv
<1>2. /\ ListOf(next, roots) = {} /\ ListOf(next, spine) = {} /\ Permanent = {}
  BY <1>1, ListFacts DEF Init, Permanent
<1>3. Accessible = {} /\ Marked = {}
  <2>1. {} \in SUBSET Objects /\ ClosedUnderRefs({})
    BY DEF ClosedUnderRefs
  <2>2. Accessible \subseteq {}
    BY <1>1, <1>2, <2>1 DEF Init, AccessibleOK, Permanent
  <2> QED BY <2>2 DEF Init, Marked
<1>4. MemInv
  BY <1>2, <1>3 DEF Init, MemInv, ReachOK, MarksOK, Collecting, ClosedUnderRefs, SetUpPhases
<1>5. Memory!Init
  BY <1>2, RootsAreListed DEF Init, Memory!Init, Permanent
<1> QED BY <1>4, <1>5

\* Every step keeps what can be accessed, and is a step of Heap or none.
LEMMA NextMemory ==
    MarkCommand = FALSE /\ ListInv /\ MemInv /\ ListInv' /\ [Next]_vars => MemInv' /\ SafeStep
<1> SUFFICES ASSUME MarkCommand = FALSE, ListInv, MemInv, ListInv', [Next]_vars
             PROVE  MemInv' /\ SafeStep
  OBVIOUS
<1>1. CASE UNCHANGED vars
  <2>1. UNCHANGED <<alive, refs, next, roots, permanentObjects, held>>
        /\ UNCHANGED <<isMarked, spine, committed, phase, obj>>
    BY <1>1 DEF vars, listVars
  <2>2. /\ Accessible' = Accessible /\ Permanent' = Permanent /\ Marked' = Marked
        /\ UNCHANGED Memory!vars
    BY <2>1, SameMemory DEF Marked
  <2>3. ReachOK' /\ MarksOK'
    BY <2>1, <2>2 DEF MemInv, ReachOK, MarksOK, ClosedUnderRefs, Collecting
  <2> QED BY <2>2, <2>3 DEF MemInv, SafeStep
<1>2. CASE Next
  BY <1>2, NewMemory, NewRootMemory, AssignMemory, SetUpMemory, CommitMemory, MarkMemory,
     SweepMemory, FreeMemory
     DEF Next
<1> QED BY <1>1, <1>2

\* The invariant of the collector, for programs that do not give the command :gcm.
THEOREM CollectorInvariant ==
    ASSUME MarkCommand = FALSE
    PROVE  Spec => [](ListInv /\ MemInv)
<1>1. Init => ListInv /\ MemInv
  BY InitLists, InitMemory
<1>2. ListInv /\ MemInv /\ [Next]_vars => (ListInv /\ MemInv)'
  BY NextLists, NextMemory
<1> QED BY <1>1, <1>2, PTL DEF Spec

\* When a sweep starts, whatever the roots lead to is marked.
THEOREM MarkingIsComplete ==
    ASSUME MarkCommand = FALSE
    PROVE  Spec => []ContentsAreMarked
<1>1. ListInv /\ MemInv => ContentsAreMarked
  <2> SUFFICES ASSUME ListInv, MemInv, phase = "unmarkRoots", obj = roots,
                      NEW o \in Reach(List(roots), refs, {})
               PROVE  isMarked[o]
    BY DEF ContentsAreMarked
  <2>1. /\ List(roots) \in SUBSET Objects
        /\ refs \in [Objects -> SUBSET Objects]
    BY CommittedAreAlive, ListFacts DEF ListInv, TypeOK, List, ListOf
  <2>2. List(roots) \subseteq Marked /\ IsClosed(refs, {}, Marked)
    BY DEF MemInv, MarksOK, ClosedUnderRefs, IsClosed, List, ListOf
  <2>3. Reach(List(roots), refs, {}) \subseteq Marked
    BY <2>1, <2>2, ReachIsLeast
  <2> QED BY <2>3 DEF Marked
<1> QED BY <1>1, CollectorInvariant, PTL

\* What a sweep leaves among the committed objects can be accessed.
THEOREM SweepTakesGarbage ==
    ASSUME MarkCommand = FALSE
    PROVE  Spec => GarbageIsCollected
<1> DEFINE Done == phase = "sweep" /\ phase' = "run" => List(committed) \subseteq Accessible
<1>1. ListInv /\ MemInv /\ [Next]_vars => [Done]_vars
  <2> SUFFICES ASSUME ListInv, MemInv, [Next]_vars, phase = "sweep", phase' = "run"
               PROVE  List(committed) \subseteq Accessible
    OBVIOUS
  <2>1. SweepEnds
    BY DEF Next, vars, New, NewRoot, Assign, Allocate, RequestCollection, CommitPermanentObjects,
           CommitRootObjects, CommitRoot, Start, Commit, Command, MarkRoot, SweepBegins,
           UnmarkRoot, UnmarkFresh, SweepMarked, Keep, SweepUnmarked, SweepFreeing
  <2>2. obj = permanentObjects
    BY <2>1 DEF SweepEnds
  <2>3. Permanent \subseteq Accessible
    BY AccessibleIsLeast DEF ListInv, AccessibleOK, Permanent
  <2>4. ListOf(next, committed) \ Permanent \subseteq Accessible
    BY <2>2 DEF MemInv, MarksOK, Permanent
  <2>5. List(committed) = ListOf(next, committed)
    BY DEF List, ListOf
  <2> QED BY <2>3, <2>4, <2>5
<1> QED BY <1>1, CollectorInvariant, PTL DEF Spec, GarbageIsCollected

\* The collector, its lists and the commits between two steps never free what the program can
\* still get hold of.
THEOREM CollectorImplementsHeap ==
    ASSUME MarkCommand = FALSE
    PROVE  Spec => MemoryIsSafe
<1>1. Init => Memory!Init
  BY InitMemory
<1>2. ListInv /\ MemInv /\ [Next]_vars => [Memory!Next]_(Memory!vars)
  BY NextLists, NextMemory DEF SafeStep
<1> QED BY <1>1, <1>2, CollectorInvariant, PTL DEF Spec, MemoryIsSafe, Memory!Spec

\* No pointer that the code can still follow leads to an object that the collector has freed.
THEOREM CollectorLeavesNoDanglingPointer ==
    ASSUME MarkCommand = FALSE
    PROVE  Spec => []Memory!NoDanglingPointer
<1>1. ListInv /\ MemInv => Memory!NoDanglingPointer
  BY NeededIsAccessible DEF ListInv, MemInv, ReachOK, Memory!NoDanglingPointer
<1> QED BY <1>1, CollectorInvariant, PTL

=============================================================================
