------------------------------ MODULE HashTable ------------------------------
(****************************************************************************)
(* data/hashtable.c, on which sets, namespaces and the interned symbols are *)
(* built: an array of buckets, each a chain of links with the newest in     *)
(* front, that is copied into a larger one when the count reaches the       *)
(* loading factor.                                                          *)
(****************************************************************************)
EXTENDS Integers, SequencesExt, Answers

CONSTANTS
    Keys, Values,
    HashCode,          \* the hash codes of the keys that have one
    InitialBuckets,    \* NUM_INITIAL_BUCKETS
    MaxLinks,          \* bound: the links of the table
    MaxBuckets         \* bound: the size to which it grows

\* Any two values that are equal have the same hash code, and the first growth
\* makes room: with less than four buckets it need not.  No value is the null
\* pointer.
ASSUME HashAssumption ==
    /\ DOMAIN HashCode \subseteq Keys
    /\ \A k \in DOMAIN HashCode : HashCode[k] \in Nat
    /\ InitialBuckets \in Nat /\ InitialBuckets >= 4
    /\ NULL \notin Values

VARIABLES table, hashAnswer

hashVars == <<table, hashAnswer>>

Hashable == DOMAIN HashCode

Buckets(t) == 0..t.nBuckets - 1

NewTable(n) ==
    [buckets |-> [b \in 0..n - 1 |-> <<>>], nBuckets |-> n,
     count |-> 0, loadingFactor |-> n \div 2 + n \div 4]

\* A key without hash code leaves the bucket number at 0.
BucketOf(t, k) == IF k \in Hashable THEN HashCode[k] % t.nBuckets ELSE 0

\* The place of the key's link in its bucket, 0 if there is none.
Located(t, k) ==
    IF k \in Hashable
    THEN SelectInSeq(t.buckets[BucketOf(t, k)], LAMBDA l : l.key = k)
    ELSE 0

Found(t, k) ==
    IF Located(t, k) = 0 THEN NULL
    ELSE t.buckets[BucketOf(t, k)][Located(t, k)].value

\* The order in which every loop over the table meets its links.
Links(t) == FlattenSeq([i \in 1..t.nBuckets |-> t.buckets[i - 1]])

-----------------------------------------------------------------------------
\* put when the table need not grow.
Updated(t, l) ==
    LET b == BucketOf(t, l.key)
        at == Located(t, l.key)
    IN  IF at # 0
        THEN [t EXCEPT !.buckets[b][at].value = l.value]
        ELSE [t EXCEPT !.buckets[b] = <<l>> \o @, !.count = @ + 1]

Grown(t) == NewTable(t.nBuckets + t.nBuckets \div 2)

\* Mistake: resize keeps the bucket numbers.
ResizedInPlace(t) ==
    [Grown(t) EXCEPT !.buckets =
        [b \in DOMAIN @ |-> IF b \in Buckets(t) THEN t.buckets[b] ELSE <<>>],
        !.count = t.count]

\* Every link is put into a table that has room for all of them.
Resized(t) == FoldLeft(Updated, Grown(t), Links(t))

Full(t, k) == Located(t, k) = 0 /\ t.count = t.loadingFactor

\* Mistake: put returns after resize.
PuttingOnce(t, l) == IF Full(t, l.key) THEN Resized(t) ELSE Updated(t, l)

\* put calls itself again after resize.
Putting(t, l) ==
    IF Full(t, l.key) THEN Updated(Resized(t), l) ELSE Updated(t, l)

Copied(t) == FoldLeft(Putting, NewTable(InitialBuckets), Links(t))

\* The loop never moves prev: the bucket goes on behind the link that is
\* removed, whatever was before it.
Removed(t, k) ==
    LET b == BucketOf(t, k)
        chain == t.buckets[b]
    IN  [t EXCEPT !.buckets[b] = SubSeq(chain, Located(t, k) + 1, Len(chain)),
                  !.count = @ - 1]

-----------------------------------------------------------------------------
HashInit == table = NewTable(InitialBuckets) /\ hashAnswer = NULL

HashPut(k, v) ==
    /\ Len(Links(table)) < MaxLinks
    /\ Full(table, k) => Grown(table).nBuckets <= MaxBuckets
    /\ table' = Putting(table, [key |-> k, value |-> v])
    /\ hashAnswer' = NULL

HashGet(k) == hashAnswer' = Found(table, k) /\ UNCHANGED table

HashRemove(k) ==
    \/ /\ Located(table, k) = 0
       /\ hashAnswer' = FALSE
       /\ UNCHANGED table
    \/ /\ Located(table, k) # 0
       /\ table' = Removed(table, k)
       /\ hashAnswer' = TRUE

\* The program goes on with a deep copy of the table.
HashCopy == table' = Copied(table) /\ UNCHANGED hashAnswer

HashNext ==
    \/ HashCopy
    \/ \E k \in Keys : HashGet(k) \/ HashRemove(k) \/ \E v \in Values : HashPut(k, v)

HashSpec == HashInit /\ [][HashNext]_hashVars

-----------------------------------------------------------------------------
D == INSTANCE Dictionary WITH
    map <- [k \in Keys |-> Found(table, k)], answer <- hashAnswer

\* Whatever collides, grows and is copied, a key is found with the value put
\* last for it, and a removal that says FALSE has changed nothing.
HashIsDictionary == D!Spec

\* A key with hash code has one link, in the bucket its code selects for the
\* present size; hash:keys writes a link for each into an array of count
\* elements, so that there are never more links than that; and a put never
\* finds a table without room.
LinksAreExact ==
    /\ \A b \in Buckets(table) : \A i \in 1..Len(table.buckets[b]) :
          LET k == table.buckets[b][i].key
          IN  /\ b = BucketOf(table, k)
              /\ k \in Hashable => Located(table, k) = i
    /\ Len(Links(table)) <= table.count
    /\ table.count <= table.loadingFactor
    /\ table.count = table.loadingFactor =>
          Resized(table).count < Resized(table).loadingFactor

\* doc/UFO.html:1647 says that the removal of a key deletes "a binding": no
\* step makes two keys disappear.
RemovesOneBinding ==
    [][\A k, q \in Keys :
          /\ Found(table, k) # NULL /\ Found(table, k)' = NULL
          /\ Found(table, q) # NULL /\ Found(table, q)' = NULL
          => k = q]_hashVars

=============================================================================
