------------------------------- MODULE Syntax -------------------------------
(***************************************************************************)
(* Expressions and values of UFO, as the parser and the evaluator build    *)
(* them: an object is a record whose field type is the name of its TypeId. *)
(* Symbols and identifiers are interned, so that equal records are the     *)
(* same object; texts of messages are left out.                            *)
(***************************************************************************)
EXTENDS Integers, Sequences, FiniteSets, SequencesExt

Symbol(name) == [type |-> "Symbol", name |-> name]
Identifier(name) == [type |-> "Identifier", name |-> name]
NIL == [type |-> "Nil"]
Integer(n) == [type |-> "Integer", value |-> n]
Text == [type |-> "String"]

\* A list is empty or a cell with a first object and a rest, which need not be a list.
EMPTY_LIST == [type |-> "List", cell |-> <<>>]
Cell(first, rest) == [type |-> "List", cell |-> <<first, rest>>]
List(objs) ==
    LET from[i \in 1..Len(objs) + 1] ==
            IF i > Len(objs) THEN EMPTY_LIST ELSE Cell(objs[i], from[i + 1])
    IN  from[1]
IsEmpty(list) == list.cell = <<>>
First(list) == list.cell[1]
Rest(list) == list.cell[2]

\* A rest that is no list is taken for the list of it.
RestAsList(list) == IF Rest(list).type = "List" THEN Rest(list) ELSE List(<<Rest(list)>>)

\* Collections, as they are written and as they are evaluated.
Array(elems) == [type |-> "Array", elems |-> elems]
Queue(elems) == [type |-> "Queue", elems |-> elems]
Pair(key, val) == [type |-> "Binding", key |-> key, val |-> val]
Term(symbol, elems) == [type |-> "Term", symbol |-> symbol, elems |-> Array(elems)]

\* One pattern with its value, in let, let/in and letrec, and one field with its value.
Binding(lhs, rhs) == [lhs |-> lhs, rhs |-> rhs]

\* One rule of a function or of a catch: a list of parameters and a body.
Rule(params, body) == [params |-> List(params), body |-> body]

If(cond, conseq, alt) == [type |-> "If", cond |-> cond, conseq |-> conseq, alt |-> alt]
Do(exprs) == [type |-> "Do", exprs |-> exprs]
Let(bindings) == [type |-> "Let", bindings |-> bindings]
LetIn(bindings, body) == [type |-> "LetIn", bindings |-> bindings, body |-> body]
LetRec(bindings) == [type |-> "LetRec", bindings |-> bindings]
Abstraction(rules) == [type |-> "Abstraction", rules |-> rules]
Apply(abstr, args) == [type |-> "Apply", abstr |-> abstr, args |-> List(args)]
BinOp(lhs, oper, rhs) ==
    [type |-> "BinOp", abstr |-> Identifier(oper), args |-> List(<<lhs, rhs>>)]
BracketExpr(lhs, index) == [type |-> "BracketExpr", lhs |-> lhs, index |-> index]
Quote(expr) == [type |-> "Quote", expr |-> expr]

\* A type of records has fields in an order; types and values of fields are left out, which
\* evaluation does not look at.
RecordDefinition(typeName, fieldNames) ==
    [type |-> "RecordDefinition", typeName |-> typeName, fieldNames |-> fieldNames]
RecordSpec(typeName, fieldBindings) ==
    [type |-> "RecordSpec", typeName |-> typeName, fieldBindings |-> fieldBindings]
TryCatch(expr, rules) == [type |-> "TryCatch", expr |-> expr, rules |-> rules]

\* key is the identifier that a loop binds, NIL if there is none.
Loop(key, iterExpr, body) == [type |-> "Loop", key |-> key, iterExpr |-> iterExpr, body |-> body]

\* Values that only evaluation makes.
Closure(rules, env) == [type |-> "Closure", rules |-> rules, env |-> env]
Primitive(name, isMacro) == [type |-> "Primitive", name |-> name, isMacro |-> isMacro]
HashTable(map) == [type |-> "HashTable", map |-> map]
Record(fieldNames, values) == [type |-> "Record", fieldNames |-> fieldNames, values |-> values]

\* The array that evaluator_throwException throws: a symbol, a message and an object.
Exn(kind, obj) == Array(<<Symbol(kind), Text, obj>>)

-----------------------------------------------------------------------------
(* The part of the global environment the programs use. *)

GlobalEnv ==
    [name \in {":", ":=", "exn", "event"} |->
        CASE name = "exn" -> HashTable([throw |-> Primitive("throw", FALSE)])
          [] name = "event" -> HashTable([publish |-> Primitive("publish", FALSE),
                                          subscribe |-> Primitive("subscribe", FALSE)])
          [] OTHER -> Primitive(name, TRUE)]

\* exn:throw(obj)
Throw(obj) == Apply(BinOp(Identifier("exn"), ":", Identifier("throw")), <<obj>>)

\* Nil has the value false, and so has an object whose type has no method m_boolValue of
\* its own: a symbol, a closure, a primitive, a binding, a record.
BoolValue(obj) ==
    \/ obj.type = "List" /\ ~IsEmpty(obj)
    \/ obj.type \in {"Array", "Queue"} /\ obj.elems # <<>>
    \/ obj.type = "Term" /\ obj.elems.elems # <<>>
    \/ obj.type = "Integer" /\ obj.value # 0
    \/ obj.type \in {"HashTable", "String"}

\* An iterator is known by the list of what it still has to give: an object without an
\* iterator of its own gives itself.  The characters of a text are left out.
Iterator(obj) ==
    CASE obj.type = "List" -> obj
      [] obj.type \in {"Array", "Queue"} -> List(obj.elems)
      [] obj.type = "Integer" -> List([n \in 1..obj.value |-> Integer(n - 1)])
      [] obj.type \notin {"List", "Array", "Queue", "Integer", "String"} -> List(<<obj>>)

-----------------------------------------------------------------------------
(* What brackets find, and how many arguments there are: what is found is a set, empty if  *)
(* there is nothing.                                                                       *)

\* An object as a pair of a key, which is a symbol here, and a value.
PairValue(obj, key) ==
    CASE obj.type = "Binding" /\ obj.key = key -> {obj.val}
      [] obj.type = "Array" /\ Len(obj.elems) >= 2 /\ obj.elems[1] = key -> {obj.elems[2]}
      [] obj.type = "List" /\ ~IsEmpty(obj) /\ First(obj) = key -> {Rest(obj)}
      [] obj.type = "Term" /\ obj.symbol = key -> {obj.elems}
      [] OTHER -> {}
ArrayGetAssoc(elems, key) ==
    LET found == {i \in DOMAIN elems : PairValue(elems[i], key) # {}}
    IN  IF found = {} THEN {} ELSE PairValue(elems[Min(found)], key)
ArrayGet(elems, n) == IF n >= Len(elems) THEN {} ELSE {elems[n + 1]}

\* The first object of the list behind n cells, if there is such a list.
ListGetNth(list, n) ==
    LET cells == IF n > 0 THEN n ELSE 0
        from[m \in 0..cells] ==
            IF m = 0 THEN {list}
            ELSE {Rest(l) : l \in {l \in from[m - 1] : ~IsEmpty(l) /\ Rest(l).type = "List"}}
    IN  {First(l) : l \in {l \in from[cells] : ~IsEmpty(l)}}

\* primitive_checkArgs: event:subscribe takes two arguments of any type, the others one.  The
\* programs give at most three.
MaxArgs == 3
ArgCount(args) == Cardinality({n \in 0..(MaxArgs - 1) : ListGetNth(args, n) # {}})
ParamCount(prim) == IF prim.name = "subscribe" THEN 2 ELSE 1
WrongArgs(prim, args) ==
    Exn("Argument", Array(<<Symbol("Expected"), Integer(ParamCount(prim)),
                            Symbol("Found"), Integer(ArgCount(args)),
                            Symbol("ArgumentList"), args>>))

\* The object at an index of an array or a list, and the exception if there is none.  What
\* indexes of tables and texts give is left out, and what is read before an array.
LeftOut(obj, index) ==
    \/ obj.type \in {"HashTable", "String"}
    \/ obj.type = "Array" /\ index.type = "Integer" /\ index.value < 0
Indexed(obj, index) ==
    CASE obj.type = "Array" -> IF index.type = "Integer" THEN ArrayGet(obj.elems, index.value)
                               ELSE ArrayGetAssoc(obj.elems, index)
      [] obj.type = "List" /\ index.type = "Integer" -> ListGetNth(obj, index.value)
      [] OTHER -> {}
NotIndexed(obj, index) ==
    CASE obj.type = "Array" -> Exn("Array", Array(<<index, obj>>))
      [] obj.type = "List" ->
            Exn(IF index.type = "Integer" THEN "List" ELSE "Get", Array(<<index, obj>>))
      [] obj.type \notin {"Array", "List", "HashTable", "String"} -> Exn("Index", obj)

-----------------------------------------------------------------------------
(* Records. *)

\* The places of a field in a type of records: at most one.
FieldIndex(fieldNames, name) == {i \in DOMAIN fieldNames : fieldNames[i] = name}
=============================================================================
