----------------------------- MODULE Reference ------------------------------
(***************************************************************************)
(* What an expression means, with no machine: a recursive definition of    *)
(* its value, of the environment it leaves to what comes after it, and of  *)
(* the store.  An environment maps identifiers to places of the store, a   *)
(* closure holds the environment of its definition.  This is the abstract  *)
(* specification that Evaluator is checked against; each case has the      *)
(* scope that the code gives to the bindings of that expression.           *)
(***************************************************************************)
EXTENDS Syntax, Functions, FiniteSetsExt

LOCAL INSTANCE Matching

\* An outcome: whether an exception was thrown, the value or the exception, the
\* environment and the store that are left.
Outcome(exn, value, r, s) == [exn |-> exn, value |-> value, env |-> r, store |-> s]
Value(value, r, s) == Outcome(FALSE, value, r, s)
Raise(kind, obj, r, s) == Outcome(TRUE, Exn(kind, obj), r, s)

\* What follows an outcome, unless it is an exception.
Then(o, Next(_)) == IF o.exn THEN o ELSE Next(o)

\* The outcome of an expression that leaves the environment it was given.
Scoped(o, r) == [o EXCEPT !.env = r]
Valued(o, value) == [o EXCEPT !.value = value]

NoBindings == [name \in {} |-> 0]
RECURSIVE Bind(_, _, _)
\* Bindings put in new places of the store, the later ones in front.
Bind(binds, r, s) ==
    IF binds = <<>> THEN Value(NIL, r, s)
    ELSE Bind(Tail(binds), (Head(binds).key :> Len(s) + 1) @@ r, Append(s, Head(binds).value))
BindMatch(matches, r, s) == Bind(CHOOSE binds \in matches : TRUE, r, s)

RECURSIVE Meaning(_, _, _), EvalEach(_, _, _, _, _), EvalTurns(_, _, _, _, _)

\* The outcome of an expression in an environment and a store.
Eval(expr, r, s) == Meaning(expr, r, s)

\* The values of expressions, one after the other: each in the environment that the one
\* before it leaves if they are threaded, else all in the same one.
EvalEach(exprs, values, threaded, r, s) ==
    IF exprs = <<>> THEN Value(values, r, s)
    ELSE Then(IF threaded THEN Eval(Head(exprs), r, s) ELSE Scoped(Eval(Head(exprs), r, s), r),
              LAMBDA o : EvalEach(Tail(exprs), Append(values, o.value), threaded, o.env, o.store))

\* The first of some rules that match arguments: its body sees what its parameters bind.
EvalRule(rules, args, r, s) ==
    Then(BindMatch(MatchObject(Head(rules).params, args), r, s),
         LAMBDA o : Eval(Head(rules).body, o.env, o.store))
Matched(rules, args) == SelectSeq(rules, LAMBDA rule : MatchObject(rule.params, args) # {})

\* The turns of a loop: the place of its identifier takes one element after the other.
Turn(loop, obj, r, s) == IF loop.key = NIL THEN s ELSE [s EXCEPT ![r[loop.key.name]] = obj]
EvalTurns(loop, remaining, value, r, s) ==
    IF IsEmpty(remaining) THEN Value(value, r, s)
    ELSE Then(Eval(loop.body, r, Turn(loop, First(remaining), r, s)),
              LAMBDA o : EvalTurns(loop, RestAsList(remaining), o.value, r, o.store))
EvalLoop(loop, r, s) ==
    Then(Eval(loop.iterExpr, r, s),
         LAMBDA o : Then(Bind(IF loop.key = NIL THEN <<>>
                              ELSE <<[key |-> loop.key.name, value |-> NIL]>>, r, o.store),
                         LAMBDA b : EvalTurns(loop, Iterator(o.value), NIL, b.env, b.store)))

\* The values of the right-hand sides of bindings: the last one is evaluated first.
RightHandSides(bindings, threaded, r, s) ==
    Then(EvalEach(Reverse([i \in DOMAIN bindings |-> bindings[i].rhs]), <<>>, threaded, r, s),
         LAMBDA o : Valued(o, Reverse(o.value)))

\* let and let/in: each left-hand side is bound, the first that does not match fails.
RECURSIVE BindEach(_, _, _, _, _)
BindEach(kind, lhs, values, r, s) ==
    IF lhs = <<>> THEN Value(NIL, r, s)
    ELSE IF MatchObject(Head(lhs), Head(values)) = {}
    THEN Raise(kind, Array(<<Head(lhs), Head(values)>>), r, s)
    ELSE Then(BindMatch(MatchObject(Head(lhs), Head(values)), r, s),
              LAMBDA o : BindEach(kind, Tail(lhs), Tail(values), o.env, o.store))
EvalLet(expr, r, s) ==
    Then(RightHandSides(expr.bindings, FALSE, r, s),
         LAMBDA o :
            LET lhs == [i \in DOMAIN expr.bindings |-> expr.bindings[i].lhs]
                bound == BindEach(expr.type, lhs, o.value, r, o.store)
            IN  IF bound.exn THEN Scoped(bound, r) ELSE bound)

\* letrec: the right-hand sides see the places of all the identifiers.
Assigned(o, names, r) ==
    Value(NIL, o.env, [p \in DOMAIN o.store |->
                        IF \E i \in DOMAIN names : r[names[i]] = p
                        THEN o.value[CHOOSE i \in DOMAIN names : r[names[i]] = p]
                        ELSE o.store[p]])
EvalLetRec(bindings, names, r, s) ==
    Then(Bind([i \in DOMAIN names |-> [key |-> names[i], value |-> NIL]], r, s),
         LAMBDA b : Then(RightHandSides(bindings, TRUE, b.env, b.store),
                         LAMBDA o : Assigned(o, names, b.env)))

\* The second place of the store has the subscribers to each pattern.  Those to one pattern that
\* matches a message are called with it, the last one first; what they return is not asked for.
Subscribed(pattern, s) == IF pattern \in DOMAIN s[2] THEN s[2][pattern] ELSE <<>>
Subscribe(pattern, abstr, r, s) ==
    Value(NIL, r, [s EXCEPT ![2] = (pattern :> Append(Subscribed(pattern, s), abstr)) @@ s[2]])
Subscribers(message, s) ==
    LET matching == {pattern \in DOMAIN s[2] : MatchObject(pattern, message) # {}}
    IN  IF matching = {} THEN <<>> ELSE s[2][CHOOSE pattern \in matching : TRUE]
Publish(message, r, s) ==
    LET calls == [i \in DOMAIN Subscribers(message, s) |->
                    Apply(Subscribers(message, s)[i], <<message>>)]
    IN  Then(EvalEach(Reverse(calls), <<>>, FALSE, r, s), LAMBDA o : Valued(o, NIL))

\* What abstr does with arguments: a closure runs its rule, exn:throw throws its argument,
\* event:publish and event:subscribe have no value.
Applied(abstr, args, r, s) ==
    IF abstr.type = "Closure"
    THEN IF Matched(abstr.rules, args) = <<>> THEN Raise("Closure", Array(<<abstr, args>>), r, s)
         ELSE EvalRule(Matched(abstr.rules, args), args, abstr.env, s)
    ELSE IF ArgCount(args) # ParamCount(abstr) THEN Outcome(TRUE, WrongArgs(abstr, args), r, s)
    ELSE IF abstr.name = "throw" THEN Outcome(TRUE, First(args), r, s)
    ELSE IF abstr.name = "publish" THEN Publish(First(args), r, s)
    ELSE Subscribe(First(args), First(Rest(args)), r, s)

\* The two macros: member of a namespace or a record, reassignment of a bound identifier.
FoundOr(found, kind, obj, r, s) ==
    IF found = {} THEN Raise(kind, obj, r, s) ELSE Value(CHOOSE value \in found : TRUE, r, s)
Member(obj, key, r, s) ==
    CASE obj.type = "HashTable" ->
            FoundOr({obj.map[name] : name \in {n \in DOMAIN obj.map : Identifier(n) = key}},
                    "HashTable", Array(<<key, obj>>), r, s)
      [] obj.type = "Record" ->
            FoundOr({obj.values[i] : i \in FieldIndex(obj.fieldNames, key)},
                    "Record", Array(<<key, obj>>), r, s)
      [] OTHER -> Raise("ColonOperator", Array(<<Symbol(obj.type), obj>>), r, s)
Reassign(lhs, rhs, r, s) ==
    IF lhs.type # "Identifier" THEN Raise("Reassign", Array(<<lhs, Symbol(lhs.type), rhs>>), r, s)
    ELSE IF lhs.name \notin DOMAIN r THEN Raise("Reassign", lhs, r, s)
    ELSE Value(rhs, r, [s EXCEPT ![r[lhs.name]] = rhs])
EvalMacro(name, lhs, rhs, r, s) ==
    IF name = ":" THEN Then(Eval(lhs, r, s), LAMBDA o : Member(o.value, rhs, r, o.store))
    ELSE Then(Eval(rhs, r, s), LAMBDA o : Reassign(lhs, o.value, r, o.store))

EvalApply(abstr, args, r, s) ==
    IF abstr.type \notin {"Closure", "Primitive"} THEN Raise("Apply", abstr, r, s)
    ELSE IF abstr.type = "Primitive" /\ abstr.isMacro
    THEN EvalMacro(abstr.name, First(args), First(Rest(args)), r, s)
    ELSE Then(Eval(args, r, s), LAMBDA o : Applied(abstr, o.value, r, o.store))

\* A rule of catch sees its parameters and the global environment.
Handled(o, rules) ==
    IF o.exn /\ rules # <<>> THEN EvalRule(rules, List(<<o.value>>), NoBindings, o.store) ELSE o
Catch(o, rules) == Handled(o, Matched(rules, List(<<o.value>>)))

\* Collections: the parts are evaluated in the order of the operands, those of a queue from
\* the last one to the first.
EvalParts(parts, r, s, Made(_)) ==
    Then(EvalEach(parts, <<>>, FALSE, r, s), LAMBDA o : Valued(o, Made(o.value)))
EvalIndex(obj, index, r, s) ==
    IF Indexed(obj, index) = {} THEN Outcome(TRUE, NotIndexed(obj, index), r, s)
    ELSE Value(CHOOSE elem \in Indexed(obj, index) : TRUE, r, s)

\* The first place of the store has the types of records.  A record of a type has the values
\* of the bindings at the places of their fields, as far as there are bindings.
EvalRecord(expr, fieldNames, r, s) ==
    LET bindings == expr.fieldBindings
        Places(i) == FieldIndex(fieldNames, bindings[i].lhs)
        Wrong(i) == Places(i) \intersect DOMAIN bindings = {}
        \* The expression at a place, given by the last of the first n bindings that have it.
        Given(p, n) == {i \in 1..n : p \in Places(i)}
        Filled(n) == Array([p \in DOMAIN bindings |->
                        IF Given(p, n) = {} THEN NIL ELSE bindings[Max(Given(p, n))].rhs])
        Fails(i) == IF Places(i) = {}
                    THEN Raise("RecordSpec", Array(<<bindings[i].lhs, expr>>), r, s)
                    ELSE Raise("Array", Array(<<Integer(Max(Places(i)) - 1), Filled(i - 1)>>), r, s)
    IN  IF \E i \in DOMAIN bindings : Wrong(i)
        THEN Fails(Min({i \in DOMAIN bindings : Wrong(i)}))
        ELSE Then(Scoped(Eval(Filled(Len(bindings)), r, s), r),
                  LAMBDA o : Valued(o, Record(fieldNames, o.value.elems)))

\* if, do, let and letrec leave the bindings they make; nothing else does.
Meaning(expr, r, s) ==
    CASE expr.type = "Identifier" ->
            IF expr.name \in DOMAIN r THEN Value(s[r[expr.name]], r, s)
            ELSE IF expr.name \in DOMAIN GlobalEnv THEN Value(GlobalEnv[expr.name], r, s)
            ELSE Raise("Identifier", expr, r, s)
      [] expr.type = "Quote" -> Value(expr.expr, r, s)
      [] expr.type = "Abstraction" -> Value(Closure(expr.rules, r), r, s)
      [] expr.type = "List" /\ ~IsEmpty(expr) ->
            Then(EvalEach(expr.cell, <<>>, FALSE, r, s),
                 LAMBDA o : Valued(o, Cell(o.value[1], o.value[2])))
      [] expr.type = "Array" -> EvalParts(expr.elems, r, s, Array)
      [] expr.type = "Queue" ->
            EvalParts(Reverse(expr.elems), r, s, LAMBDA values : Queue(Reverse(values)))
      [] expr.type = "Binding" ->
            EvalParts(<<expr.key, expr.val>>, r, s, LAMBDA values : Pair(values[1], values[2]))
      [] expr.type = "Term" ->
            EvalParts(expr.elems.elems, r, s, LAMBDA values : Term(expr.symbol, values))
      [] expr.type = "BracketExpr" ->
            Then(EvalEach(<<expr.lhs, expr.index>>, <<>>, FALSE, r, s),
                 LAMBDA o : EvalIndex(o.value[1], o.value[2], r, o.store))
      [] expr.type = "RecordDefinition" ->
            Value(NIL, r, [s EXCEPT ![1] = (expr.typeName :> expr.fieldNames) @@ s[1]])
      [] expr.type = "RecordSpec" ->
            IF expr.typeName \in DOMAIN s[1] THEN EvalRecord(expr, s[1][expr.typeName], r, s)
            ELSE Raise("Record", expr.typeName, r, s)
      [] expr.type = "If" ->
            Then(Scoped(Eval(expr.cond, r, s), r),
                 LAMBDA o : Eval(IF BoolValue(o.value) THEN expr.conseq ELSE expr.alt, r, o.store))
      [] expr.type = "Do" ->
            Then(EvalEach(expr.exprs, <<NIL>>, TRUE, r, s),
                 LAMBDA o : Valued(o, Last(o.value)))
      [] expr.type = "Let" -> EvalLet(expr, r, s)
      [] expr.type = "LetIn" ->
            Then(EvalLet(expr, r, s),
                 LAMBDA o : Scoped(Eval(expr.body, o.env, o.store), r))
      [] expr.type = "LetRec" ->
            EvalLetRec(expr.bindings, [i \in DOMAIN expr.bindings |-> expr.bindings[i].lhs.name],
                       r, s)
      [] expr.type \in {"Apply", "BinOp"} ->
            Then(Scoped(Eval(expr.abstr, r, s), r),
                 LAMBDA o : Scoped(EvalApply(o.value, expr.args, r, o.store), r))
      [] expr.type = "Loop" -> Scoped(EvalLoop(expr, r, s), r)
      [] expr.type = "TryCatch" -> Scoped(Catch(Eval(expr.expr, r, s), expr.rules), r)
      [] OTHER -> Value(expr, r, s)

RECURSIVE EvalSession(_)
\* The inputs of a session one after the other: an exception that nothing catches gives NIL, and
\* no type of records and no subscriber outlives it.
NoTables == <<NoBindings, NoBindings>>
Answer(o) ==
    IF o.exn THEN Value(NIL, o.env, NoTables \o SubSeq(o.store, 3, Len(o.store))) ELSE o
EvalSession(exprs) ==
    IF exprs = <<>> THEN Value(NIL, NoBindings, NoTables)
    ELSE Answer(Then(EvalSession(Front(exprs)), LAMBDA o : Eval(Last(exprs), o.env, o.store)))

\* What a program can tell of a value: a closure is known by its rules.
RECURSIVE Observed(_)
ObservedEach(objs) == [i \in DOMAIN objs |-> Observed(objs[i])]
Observed(obj) ==
    IF obj.type = "Closure" THEN [type |-> "Closure", rules |-> obj.rules]
    ELSE IF obj.type = "List" /\ ~IsEmpty(obj) THEN Cell(Observed(First(obj)), Observed(Rest(obj)))
    ELSE IF obj.type \in {"Array", "Queue"} THEN [obj EXCEPT !.elems = ObservedEach(obj.elems)]
    ELSE IF obj.type = "Binding" THEN Pair(Observed(obj.key), Observed(obj.val))
    ELSE IF obj.type = "Term" THEN Term(obj.symbol, ObservedEach(obj.elems.elems))
    ELSE IF obj.type = "Record" THEN Record(obj.fieldNames, ObservedEach(obj.values))
    ELSE obj
=============================================================================
