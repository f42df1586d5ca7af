------------------------------ MODULE Objects ------------------------------
(****************************************************************************)
(* What the methods do (data/any.c dispatches to them, methods/methods.c    *)
(* has the defaults), for objects put together from other objects: a stock  *)
(* that grows by one object at a time.  An object knows where it was made:  *)
(* two of them are the same if they were made at one place.  Identifiers,   *)
(* symbols, nil, booleans and the empty list are made once each.  The value *)
(* of an atom is a number: its place in the order of its type.              *)
(****************************************************************************)
EXTENDS Types, FiniteSets
LOCAL INSTANCE SequencesExt
LOCAL INSTANCE FiniteSetsExt

CONSTANT
    Stocks   \* what a stock starts with, the types it is extended by, how many parts they
             \* have, and the length of the stock

ASSUME StocksAssumption ==
    \A s \in Stocks : s.types \subseteq DOMAIN METHOD_TABLE /\ s.lengths \subseteq Nat /\ s.max \in Nat

VARIABLES
    kind,    \* the kind of the stock
    stock    \* the objects made so far

objectVars == <<kind, stock>>

Atom(type, value, at) == [type |-> type, value |-> value, at |-> at]
Interned(type, value) == Atom(type, value, <<0, type, value>>)
Composite(type, parts, at) == [type |-> type, parts |-> parts, at |-> at]
EmptyList == Composite("List", <<>>, <<0, "List", 0>>)

Has(x, method) == method \in Methods(x.type)
Holds(x) == IF "parts" \in DOMAIN x THEN x.parts ELSE <<>>
Same(x, y) == x.at = y.at
IsEmpty(x) == Holds(x) = <<>>

\* A list of these elements that ends with the rest.
Cells(elems, rest) ==
    FoldRight(LAMBDA elem, list : Object("List", <<elem, list>>), elems, rest)
NoCells == Object("List", <<>>)

-----------------------------------------------------------------------------
(* Copies, marks and what is shown. *)

RECURSIVE any_deepCopy(_), any_freeVars(_), any_show(_), ShowCells(_)
RECURSIVE Held(_), Marked(_), Inside(_)

\* Mistake: the default method makes a new object.
m_deepCopyNew(x) == [x EXCEPT !.at = Append(@, 0)]
m_deepCopy(x) == x

\* The copy is made at the place of the original, marked by one more number.
any_deepCopy(x) ==
    IF ~Has(x, "deepCopy") THEN m_deepCopy(x)
    ELSE IF x.type = "List" /\ IsEmpty(x) THEN x
    ELSE Composite(x.type,
                   [i \in 1..Len(x.parts) |->
                       IF i \in Classes[x.type].copies THEN any_deepCopy(x.parts[i])
                       ELSE x.parts[i]],
                   Append(x.at, 0))

\* Only the first rule is looked at.
abstraction_freeVars(x) ==
    LET rule == x.parts[1]
    IN  any_freeVars(rule.parts[1]) \ UNION {any_freeVars(rule.parts[i]) : i \in 2..Len(rule.parts)}

identifier_freeVars(x) == {x}

any_freeVars(x) ==
    IF ~Has(x, "freeVars") THEN {}
    ELSE IF x.type \in {"Identifier", "Operator"} THEN identifier_freeVars(x)
    ELSE IF x.type = "Abstraction" THEN abstraction_freeVars(x)
    ELSE UNION {any_freeVars(x.parts[i]) : i \in 1..Len(x.parts) \intersect Classes[x.type].frees}

\* Places below an object: sequences of the numbers of parts.
Below(i, places) == {<<i>>} \union {<<i>> \o place : place \in places}
Existing(x) == {i \in 1..Len(Holds(x)) : x.parts[i] # Nothing}

\* What a quote holds is left out: it has no method that marks it.
Held(x) == IF x.type = "Quote" THEN {} ELSE UNION {Below(i, Held(x.parts[i])) : i \in Existing(x)}

Marked(x) ==
    IF ~Has(x, "markChildren") THEN {}
    ELSE UNION {Below(i, Marked(x.parts[i])) : i \in Existing(x) \intersect Classes[x.type].marks}

\* The object and whatever it holds.
Inside(x) == {x} \union UNION {Inside(x.parts[i]) : i \in Existing(x)}

ShowCells(x) ==
    IF IsEmpty(x) THEN <<>>
    ELSE LET rest == x.parts[2]
         IN  any_show(x.parts[1]) \o
             (IF rest.type # "List" THEN <<Char("|")>> \o any_show(rest)
              ELSE IF IsEmpty(rest) THEN <<>>
              ELSE <<Char(",")>> \o ShowCells(rest))

\* One element of what a class shows.
ShowItem(x, item) ==
    CASE "part" \in DOMAIN item ->
            IF x.parts[item.part].type \in item.parenthesized
            THEN <<Char("(")>> \o any_show(x.parts[item.part]) \o <<Char(")")>>
            ELSE any_show(x.parts[item.part])
      [] "from" \in DOMAIN item ->
            FlattenSeq([n \in 1..Len(x.parts) + 1 - item.from |->
                (IF n = 1 \/ item.separator = Nothing THEN <<>> ELSE <<item.separator>>)
                \o any_show(x.parts[item.from + n - 1])])
      [] "optional" \in DOMAIN item ->
            IF x.parts[item.optional] = NIL THEN <<>>
            ELSE <<item.token>> \o any_show(x.parts[item.optional])
      [] OTHER -> <<item>>

any_show(x) ==
    IF "parts" \notin DOMAIN x THEN <<x>>
    ELSE IF x.type = "List" THEN <<Char("[")>> \o ShowCells(x) \o <<Char("]")>>
    ELSE LET shows == Classes[x.type].shows
         IN  FlattenSeq([n \in 1..Len(shows) |-> ShowItem(x, shows[n])])

-----------------------------------------------------------------------------
(* Equality, hash codes and the order.  The value of a string is a sequence *)
(* of characters, that of a sequence is <<from, to, by>>.                   *)

RECURSIVE any_isEqual(_, _), any_hashCode(_), any_compare(_, _), Lexicographic(_, _)

AllEqual(xs, ys) == Len(xs) = Len(ys) /\ \A i \in 1..Len(xs) : any_isEqual(xs[i], ys[i])

array_isEqual(x, y) == AllEqual(x.parts, y.parts)
binding_isEqual(x, y) == AllEqual(x.parts, y.parts)
term_isEqual(x, y) == AllEqual(x.parts, y.parts)
tuple_isEqual(x, y) == AllEqual(x.parts, y.parts)
string_isEqual(x, y) == x.value = y.value
sequence_isEqual(x, y) == \A i \in 1..3 : x.value[i] = y.value[i]

\* Lists and queues are left out: list_isEqual goes on in its own list in place of the other
\* one, and reads what the empty list has for a rest, which is nothing.
any_isEqual(x, y) ==
    \/ Same(x, y)
    \/ /\ x.type = y.type /\ Has(x, "isEqual")
       /\ CASE x.type = "Array" -> array_isEqual(x, y)
            [] x.type = "Binding" -> binding_isEqual(x, y)
            [] x.type = "Term" -> term_isEqual(x, y)
            [] x.type = "Tuple" -> tuple_isEqual(x, y)
            [] x.type \in {"HashTable", "Set", "Record", "List", "Queue"} -> FALSE
            [] x.type = "String" -> string_isEqual(x, y)
            [] x.type = "Sequence" -> sequence_isEqual(x, y)
            [] OTHER -> x.value = y.value

\* A hash code is what it is mixed from; no code is the empty one.
NotHashable == <<>>
Mixed(x) ==
    LET codes == [i \in 1..Len(x.parts) |-> any_hashCode(x.parts[i])]
    IN  IF NotHashable \in ToSet(codes) THEN NotHashable ELSE <<x.type, codes>>

array_hashCode(x) == Mixed(x)
binding_hashCode(x) == Mixed(x)
string_hashCode(x) == <<x.type, x.value>>
sequence_hashCode(x) == <<x.type, x.value[1] + x.value[2] + x.value[3]>>

any_hashCode(x) ==
    CASE ~Has(x, "hashCode") -> NotHashable
      [] x.type = "Array" -> array_hashCode(x)
      [] x.type = "Binding" -> binding_hashCode(x)
      [] x.type = "String" -> string_hashCode(x)
      [] x.type = "Sequence" -> sequence_hashCode(x)
      [] OTHER -> <<x.type, x.value>>

\* What a comparison is besides -1, 0 and 1: the exception of the default method, and
\* whatever a method makes of an object that is not of its type.
m_compare == 2
Garbage == 3

Order(m, n) == IF m < n THEN -1 ELSE IF m > n THEN 1 ELSE 0

\* The first difference decides.
Lexicographic(xs, ys) ==
    IF xs = <<>> THEN 0
    ELSE LET first == any_compare(Head(xs), Head(ys))
         IN  IF first # 0 THEN first ELSE Lexicographic(Tail(xs), Tail(ys))

\* Mistake: an array is compared as far as the shorter one goes.
array_comparePrefix(x, y) ==
    LET n == Min({Len(x.parts), Len(y.parts)})
    IN  Lexicographic(SubSeq(x.parts, 1, n), SubSeq(y.parts, 1, n))

\* The shorter array comes first.
array_compare(x, y) ==
    IF Len(x.parts) # Len(y.parts) THEN Order(Len(x.parts), Len(y.parts))
    ELSE Lexicographic(x.parts, y.parts)

\* The empty list comes first.
list_compare(x, y) ==
    IF IsEmpty(x) \/ IsEmpty(y) THEN Order(Len(x.parts), Len(y.parts))
    ELSE Lexicographic(x.parts, y.parts)

queue_compare(x, y) == list_compare(Cells(x.parts, NoCells), Cells(y.parts, NoCells))
binding_compare(x, y) == Lexicographic(x.parts, y.parts)
quote_compare(x, y) == any_compare(x.parts[1], y.parts[1])

\* A string that another one begins with comes first (strcmp).
string_compare(x, y) ==
    LET differing == {i \in 1..Min({Len(x.value), Len(y.value)}) : x.value[i] # y.value[i]}
    IN  IF differing = {} THEN Order(Len(x.value), Len(y.value))
        ELSE Order(x.value[Min(differing)], y.value[Min(differing)])

sequence_compare(x, y) ==
    LET differing == {i \in 1..3 : x.value[i] # y.value[i]}
    IN  IF differing = {} THEN 0 ELSE Order(x.value[Min(differing)], y.value[Min(differing)])

any_compare(x, y) ==
    CASE ~Has(x, "compare") -> m_compare
      [] x.type # y.type -> Garbage
      [] x.type = "Array" -> array_compare(x, y)
      [] x.type = "Binding" -> binding_compare(x, y)
      [] x.type = "List" -> list_compare(x, y)
      [] x.type = "Queue" -> queue_compare(x, y)
      [] x.type = "Quote" -> quote_compare(x, y)
      [] x.type = "Sequence" -> sequence_compare(x, y)
      [] x.type = "String" -> string_compare(x, y)
      [] OTHER -> Order(x.value, y.value)

-----------------------------------------------------------------------------
(* Matching.  There are no bindings if the pattern does not match, else one *)
(* sequence of them, the newest first.                                      *)

RECURSIVE any_match(_, _, _), MatchAll(_, _, _)

\* The parts match one after the other.
MatchAll(ps, xs, bindings) ==
    IF ps = <<>> THEN {bindings}
    ELSE UNION {MatchAll(Tail(ps), Tail(xs), b) : b \in any_match(Head(ps), Head(xs), bindings)}

\* Mistake: an array matches one that goes on.
array_matchLonger(p, x, bindings) ==
    IF x.type # "Array" \/ Len(p.parts) > Len(x.parts) THEN {}
    ELSE MatchAll(p.parts, x.parts, bindings)

array_match(p, x, bindings) ==
    IF x.type # "Array" \/ Len(p.parts) # Len(x.parts) THEN {}
    ELSE MatchAll(p.parts, x.parts, bindings)

tuple_match(p, x, bindings) ==
    IF x.type # "Tuple" \/ Len(p.parts) # Len(x.parts) THEN {}
    ELSE MatchAll(p.parts, x.parts, bindings)

binding_match(p, x, bindings) ==
    IF x.type # "Binding" THEN {} ELSE MatchAll(p.parts, x.parts, bindings)

list_match(p, x, bindings) ==
    IF x.type # "List" \/ IsEmpty(p) # IsEmpty(x) THEN {}
    ELSE MatchAll(p.parts, x.parts, bindings)

queue_match(p, x, bindings) ==
    IF x.type # "Queue" THEN {}
    ELSE list_match(Cells(p.parts, NoCells), Cells(x.parts, NoCells), bindings)

\* The names are compared, the elements are matched.
term_match(p, x, bindings) ==
    IF x.type # "Term" \/ Len(p.parts) # Len(x.parts) \/ ~any_isEqual(p.parts[1], x.parts[1])
    THEN {} ELSE MatchAll(Tail(p.parts), Tail(x.parts), bindings)

identifier_match(p, x, bindings) == {<<<<p, x>>>> \o bindings}
record_match(p, x, bindings) == {}
recordSpec_match(p, x, bindings) == {}
m_match(p, x, bindings) == IF any_isEqual(p, x) THEN {bindings} ELSE {}

any_match(p, x, bindings) ==
    CASE ~Has(p, "match") -> m_match(p, x, bindings)
      [] p.type = "Array" -> array_match(p, x, bindings)
      [] p.type = "Binding" -> binding_match(p, x, bindings)
      [] p.type = "Identifier" -> identifier_match(p, x, bindings)
      [] p.type = "List" -> list_match(p, x, bindings)
      [] p.type = "Queue" -> queue_match(p, x, bindings)
      [] p.type = "Record" -> record_match(p, x, bindings)
      [] p.type = "RecordSpec" -> recordSpec_match(p, x, bindings)
      [] p.type = "Term" -> term_match(p, x, bindings)
      [] p.type = "Tuple" -> tuple_match(p, x, bindings)

-----------------------------------------------------------------------------
(* What the parser makes. *)

RECURSIVE Built(_)
BuiltAll(objs) == [i \in 1..Len(objs) |-> Built(objs[i])]

BuiltRules(queue) ==
    Object("Abstraction",
           [i \in 1..Len(queue.parts) |->
               Object("Rule", <<Built(queue.parts[i].parts[2])>>
                              \o BuiltAll(queue.parts[i].parts[1].parts))])

\* The object that a constructor makes of what the parser has found.  A function with a
\* name is a letrec; a field without type or default has nil.
Built(obj) ==
    IF "parts" \notin DOMAIN obj THEN obj
    ELSE LET p == obj.parts
         IN  CASE obj.type = "List" -> Cells(BuiltAll(p), NoCells)
               [] obj.type = "Improper" -> Cells(BuiltAll(Front(p)), Built(Last(p)))
               [] obj.type = "HashTable" ->
                     Object("HashTable", [i \in 1..Len(p) |-> Object("Link", BuiltAll(p[i].parts))])
               [] obj.type = "Fun" ->
                     IF p[1] = Nothing THEN BuiltRules(p[2])
                     ELSE Object("LetRec", <<Object("Binding", <<p[1], BuiltRules(p[2])>>)>>)
               [] obj.type = "TryCatch" -> Object("TryCatch", <<Built(p[1]), BuiltRules(p[2])>>)
               [] obj.type = "Apply" -> Object("Apply", <<Built(p[1])>> \o BuiltAll(p[2].parts))
               [] obj.type = "LetIn" -> Object("LetIn", <<Built(p[2])>> \o BuiltAll(p[1].parts))
               [] obj.type \in {"Let", "LetRec", "Async", "Cobegin", "Do", "Nondet"} ->
                     Object(obj.type, BuiltAll(p[1].parts))
               [] obj.type = "Term" -> Object("Term", <<p[1]>> \o BuiltAll(p[2].parts))
               [] obj.type = "RecordSpec" ->
                     Object("RecordSpec", <<p[1]>> \o BuiltAll(p[2].parts))
               [] obj.type = "RecordDef" ->
                     Object("RecordDefinition", <<p[1]>> \o BuiltAll(p[2].parts))
               [] obj.type = "Field" ->
                     Object("Field", [i \in 1..3 |-> IF p[i] = Nothing THEN NIL ELSE Built(p[i])])
               [] OTHER -> Object(obj.type, BuiltAll(p))

\* Nothing is made of a line with a hole in it.
Complete(x) == \A y \in Inside(x) : Holds(y) = <<>> \/ Existing(y) = 1..Len(y.parts)

-----------------------------------------------------------------------------
(* The stock. *)

ObjectsInit == kind \in Stocks /\ stock = kind.atoms

\* The parts that an object of this type is made of.
Fits(type, parts) ==
    CASE type = "List" -> Len(parts) = 2
      [] type \in {"Binding", "HashTable", "Closure"} -> Len(parts) = 2
      [] type = "Record" -> Len(parts) = 2 /\ parts[1].type = "RecordDefinition"
      [] type \in {"Quote", "Continuation", "File", "Iterator", "SavedEnv", "Stream", "TCPClient"} ->
            Len(parts) = 1
      [] type = "Lock" -> Len(parts) \in {1, 2}
      [] type = "MsgQ" -> Len(parts) = 2
      [] type = "ExceptionHandler" -> Len(parts) = 3
      [] type \in {"Evaluator", "REPL"} -> Len(parts) = 9
      [] type = "Term" -> Len(parts) >= 1 /\ parts[1].type = "Symbol"
      [] OTHER -> TRUE

\* A hash table is made with one binding, whose key it copies.
Make(type, parts) ==
    /\ Fits(type, parts) /\ Len(stock) < kind.max
    /\ LET at == <<Len(stock) + 1>>
           link == Composite("Link", <<any_deepCopy(parts[1]), parts[2]>>, at)
       IN  stock' = Append(stock, Composite(type, IF type = "HashTable" THEN <<link>> ELSE parts, at))
    /\ UNCHANGED kind

ObjectsNext ==
    \E type \in kind.types, n \in kind.lengths : \E parts \in [1..n -> ToSet(stock)] : Make(type, parts)

ObjectsSpec == ObjectsInit /\ [][ObjectsNext]_objectVars

-----------------------------------------------------------------------------
Atomic(x) == "parts" \notin DOMAIN x

\* Two objects of the same structure, whatever their type makes of it.
RECURSIVE Alike(_, _)
Alike(x, y) ==
    /\ x.type = y.type /\ Atomic(x) = Atomic(y)
    /\ IF Atomic(x) THEN x.value = y.value
       ELSE Len(x.parts) = Len(y.parts) /\ \A i \in 1..Len(x.parts) : Alike(x.parts[i], y.parts[i])

\* The last object: what the others are among themselves was checked before it was made.
New == Last(stock)
Stock == ToSet(stock)

\* What the program can change in place: the setters and the other operations of arrays,
\* bindings, hash tables, queues, records, sets and terms.
Changeable == {"Array", "HashTable", "Link", "Queue", "Record", "Set", "Term"}

\* A deep copy stands for its original and apart from it.  A key that has a hash code is
\* found under its copy (hashTable_put stores a copy): copy and original are equal and
\* have one code, and so have any two equal objects, before and after.  Nothing that can be
\* changed in place belongs to both, but what a tuple, a term, a queue, or the value of a
\* hash table holds: their copies are shallow (any_deepCopy and the X_deepCopy).
Shallow == {"Tuple", "Term", "Queue", "Link", "Quote", "Closure"}
RECURSIVE OutsideShallow(_)
OutsideShallow(x) ==
    {x} \union (IF x.type \in Shallow THEN {}
                ELSE UNION {OutsideShallow(x.parts[i]) : i \in Existing(x)})

CopiesStandApart ==
    LET copy == any_deepCopy(New)
    IN  /\ Alike(copy, New)
        /\ any_hashCode(New) # NotHashable => any_isEqual(copy, New) /\ any_isEqual(New, copy)
        /\ \A x \in Stock :
              any_hashCode(x) # NotHashable /\ any_isEqual(x, New)
                  => /\ any_hashCode(x) = any_hashCode(copy)
                     /\ any_isEqual(x, copy) /\ any_isEqual(copy, x)
        /\ \A y \in OutsideShallow(New) :
              y.type \in Changeable => ~\E z \in Inside(copy) : Same(y, z)

\* The collector reaches whatever an object holds by marking its children: no class
\* leaves out a part (markChildren of every type, any_mark).  Checked for everything the
\* parser makes of a whole line and for the stock; left out are quotes, and lines with a
\* hole in them.
Readable(x) == Complete(x) /\ Undefined \notin Inside(x)
ParsedObjects ==
    IF parsed.rest # <<EOI>> THEN {}
    ELSE {x \in {Built(parsed.values[i]) : i \in 1..Len(parsed.values)} : Readable(x)}
HeldIsMarked == \A x \in {New} \union ParsedObjects : Held(x) \subseteq Marked(x)

\* Parentheses are those of an application or of a rule.
Unadorned ==
    \A i \in 1..Len(line) :
        line[i] = Char("(") =>
            i > 1 /\ (line[i - 1].type \in {"Identifier", "Symbol", "Integer"}
                      \/ line[i - 1] \in {Word("fun"), Char("|")})

\* What an object shows is read as this object again (the X_show against the parser), if
\* it was written without parentheses, or of nothing but operators and identifiers.  Left
\* out are careless lines, and types that show what the parser does not take: an if ends with "end", the rules
\* of a try begin with "fun", the bindings of a let are separated by points, and what is
\* on the right of a colon is in parentheses.
Rereadable(x) ==
    /\ ~Careless(Append(line, EOI))
    /\ Unadorned \/ \A y \in Inside(x) : y.type \in {"Identifier", "Operator", "BinOp"}
    /\ \A y \in Inside(x) :
          /\ y.type \notin {"If", "TryCatch"}
          /\ y.type = "Let" => Len(y.parts) = 1
          /\ y.type = "LetIn" => Len(y.parts) = 2
          /\ y.type = "BinOp" =>
                /\ y.parts[2] = Oper(":") => y.parts[3].type \in {"Identifier", "Symbol", "Integer"}
                /\ y.parts[2] # Oper("=")

ShownIsRead ==
    \A x \in ParsedObjects :
        Rereadable(x) =>
            LET again == parser_parse(any_show(x))
            IN  /\ again.status = "ok" /\ again.rest = <<EOI>>
                /\ Built(again.values[1]) = x

\* The comparison is an order wherever it is defined: two objects are equal in it if and
\* only if they are alike, and the way round and one between decide as they should.
\* Sorting relies on it (any_compare and the X_compare).
Compared(x, y) == any_compare(x, y) \in -1..1
OrderIsTotal ==
    \A x \in Stock :
        /\ Compared(x, New) =>
              /\ any_compare(New, x) = -any_compare(x, New)
              /\ (any_compare(x, New) = 0) = Alike(x, New)
        /\ \A y \in Stock : \A three \in {<<x, y, New>>, <<x, New, y>>, <<New, x, y>>} :
              LET first == any_compare(three[1], three[2])
                  second == any_compare(three[2], three[3])
              IN  first \in {-1, 0} /\ second \in {-1, 0}
                      => any_compare(three[1], three[3]) = Min({first, second})

\* The places of the identifiers of a pattern, from left to right.
RECURSIVE Occurrences(_), At(_, _), Instance(_, _)
Occurrences(p) ==
    IF p.type = "Identifier" THEN <<<<>>>>
    ELSE FlattenSeq([i \in 1..Len(Holds(p)) |->
            LET places == Occurrences(p.parts[i])
            IN  [n \in 1..Len(places) |-> <<i>> \o places[n]]])
At(x, place) == IF place = <<>> THEN x ELSE At(x.parts[Head(place)], Tail(place))

\* The object is the pattern with something in place of each identifier.
Instance(x, p) ==
    \/ p.type = "Identifier"
    \/ /\ x.type = p.type /\ Atomic(x) = Atomic(p)
       /\ IF Atomic(p) THEN x.value = p.value
          ELSE Len(x.parts) = Len(p.parts) /\ \A i \in 1..Len(p.parts) : Instance(x.parts[i], p.parts[i])

Patterns ==
    {p \in Stock : \A q \in Inside(p) :
        q.type \in {"Identifier", "Symbol", "Integer", "Array", "List", "Binding", "Queue", "Term",
                    "Tuple"}}

\* Binders, and what let_freeVars does not come back from.
Binders == {"Abstraction", "Let", "LetIn", "LetRec", "RecordDefinition"}

\* A pattern matches its instances, and binds each of its free variables, and no other
\* identifier, to what is in its place; of two that are the same the last is found first.
\* The free variables of an expression that binds none are the identifiers in it (X_match,
\* X_freeVars; closures, lets and letrecs look for both).
MatchBindsFreeVars ==
    /\ \A p \in Patterns, x \in Stock :
          p = New \/ x = New =>
              LET places == Occurrences(p)
              IN  any_match(p, x, <<>>) =
                      IF Instance(x, p)
                      THEN {Reverse([n \in 1..Len(places) |-> <<At(p, places[n]), At(x, places[n])>>])}
                      ELSE {}
    /\ \A p \in ParsedObjects \union (Patterns \intersect {New}) :
          {q.type : q \in Inside(p)} \intersect Binders = {} =>
              any_freeVars(p) = {q \in Inside(p) : q.type \in {"Identifier", "Operator"}}
=============================================================================
