----------------------------- MODULE Evaluator ------------------------------
(***************************************************************************)
(* The machine that evaluates expressions: a stack of expressions, each    *)
(* with the environment it was pushed in, a stack of operands, and the     *)
(* current environment.  An evaluation pops one expression and pushes what *)
(* remains to be done, with continuations that take their operands later.  *)
(*                                                                         *)
(* One evaluator is modelled, that of the REPL, with the loop that gives   *)
(* it an input, runs it until its expression stack is empty and pops the   *)
(* value.  Slices and other threads are in Interpreter: an evaluator       *)
(* shares nothing with them but global objects that do not change.         *)
(***************************************************************************)
EXTENDS Syntax, FiniteSetsExt

CONSTANTS
    Sessions,       \* the sequences of inputs that a user may give
    Orders,         \* the orders in which a set may list identifiers: functions to numbers
    Match(_, _)     \* any_match: the sets of at most one sequence of bindings that a
                    \* pattern makes with an object

\* An environment is the number of the first triple of its chain, 0 for EMPTY_TRIPLE.
\* A frame pushed with NIL for environment uses the one it finds.
EMPTY_TRIPLE == 0
Dynamic == -1

\* A table of the interpreter with no keys.
EmptyTable == [key \in {} |-> NIL]

\* The table with a value for a key.
Put(table, key, val) ==
    [k \in DOMAIN table \union {key} |-> IF k = key THEN val ELSE table[k]]

VARIABLES
    inputs,     \* the expressions that the user gives to the REPL
    given,      \* how many of them it has read
    order,      \* the order in which a set lists identifiers
    estack,     \* the expression stack, its top first
    ostack,     \* the operand stack, its top first
    env,        \* the current environment
    triples,    \* the triples allocated so far: key, value, next
    records,    \* recordNamespace: the fields of the types of records defined so far
    subscribers,    \* subscriberTable: the functions that a pattern of messages is given to
    status,     \* "prompt", "running" or "terminated"
    value,      \* what the REPL shows of the last input
    mixed,      \* history: a handler found operands of the expression that failed
    scrambled,  \* history: a letrec gives its values to other identifiers
    unasked     \* history: how many results of subscribers lie on the operand stack

tables == <<records, subscribers>>
vars == <<inputs, given, order, estack, ostack, env, triples, tables, status, value, mixed,
          scrambled, unasked>>
input == <<inputs, given, order, status, value>>
session == <<input, tables>>
history == <<mixed, scrambled, unasked>>

Init ==
    /\ inputs \in Sessions /\ given = 0
    /\ order \in Orders
    /\ estack = <<>> /\ ostack = <<>> /\ env = EMPTY_TRIPLE /\ triples = <<>>
    /\ records = EmptyTable /\ subscribers = EmptyTable
    /\ status = "prompt" /\ value = NIL
    /\ mixed = FALSE /\ scrambled = FALSE /\ unasked = 0

-----------------------------------------------------------------------------
(* Environments. *)

\* The triple of an identifier in an environment, 0 if it is not bound there.
Locate(e, name) ==
    LET from[i \in 0..e] ==
            IF i = EMPTY_TRIPLE \/ triples[i].key = name THEN i ELSE from[triples[i].next]
    IN  from[e]

\* Mistake: the triples chained with themselves.
ExtendedWithItself(e, binds) ==
    triples \o [i \in 1..Len(binds) |->
        [key |-> binds[i].key, value |-> binds[i].value,
         next |-> IF i = 1 THEN e ELSE Len(triples) + i]]

\* A sequence of bindings put in front of an environment: the new triples and environment.
Extended(e, binds) ==
    triples \o [i \in 1..Len(binds) |->
        [key |-> binds[i].key, value |-> binds[i].value,
         next |-> IF i = 1 THEN e ELSE Len(triples) + i - 1]]
ExtendedEnv(e, binds) == IF binds = <<>> THEN e ELSE Len(triples) + Len(binds)

\* The rules whose parameters match, and the first of them, if there is one.
Matching(rules, args) == {i \in DOMAIN rules : Match(rules[i].params, args) # {}}
FirstRule(rules, args) ==
    {rules[i] : i \in {i \in Matching(rules, args) : \A j \in Matching(rules, args) : i <= j}}

-----------------------------------------------------------------------------
(* The stacks. *)

Frame(expr, e) == [expr |-> expr, env |-> e]
Continuation(name, arg) == [type |-> "Continuation", name |-> name, arg |-> arg]
SavedEnv(e) == [type |-> "SavedEnv", env |-> e]
ExceptionHandler(rules, os, e) ==
    [type |-> "ExceptionHandler", rules |-> rules, ostack |-> os, env |-> e]

Expr == Head(estack).expr
Arg == Expr.arg

\* The environment that popping the top expression makes current.
PoppedEnv == IF Head(estack).env = Dynamic THEN env ELSE Head(estack).env

\* The evaluator is about to evaluate an expression of a type, or a continuation.
Evaluates(type) == status = "running" /\ estack # <<>> /\ Expr.type = type
Continues(name) == Evaluates("Continuation") /\ Expr.name = name

\* Popping the top expression and pushing others in its place, the first on top.
PushExprs(exprs) == estack' = [i \in DOMAIN exprs |-> Frame(exprs[i], PoppedEnv)] \o Tail(estack)
PushDynamic(exprs) == estack' = [i \in DOMAIN exprs |-> Frame(exprs[i], Dynamic)] \o Tail(estack)
PopExpr == estack' = Tail(estack)

\* The operand stack without its first n operands, with an object on it.
Drop(n) == SubSeq(ostack, n + 1, Len(ostack))
PushObj(obj, os) == ostack' = <<obj>> \o os

\* Mistake: the frame pushed at every call.
SaveEnvAlways(stack, e) == <<Frame(SavedEnv(e), e)>> \o stack

\* A stack whose top restores the environment, once only: the frame of a call in tail
\* position is not pushed.
SaveEnv(stack, e) ==
    IF stack # <<>> /\ Head(stack).expr.type = "SavedEnv" THEN stack
    ELSE <<Frame(SavedEnv(e), e)>> \o stack

\* The body of a rule, of a let/in: its environment is that of its bindings.
PushBody(stack, body, e, binds) ==
    /\ estack' = <<Frame(body, ExtendedEnv(e, binds))>> \o stack
    /\ triples' = Extended(e, binds)
PushRule(stack, rules, args, e) ==
    \E rule \in FirstRule(rules, args) : \E binds \in Match(rule.params, args) :
        PushBody(stack, rule.body, e, binds)

\* The first n operands: the first of them was evaluated last.
Values(n) == SubSeq(ostack, 1, n)

-----------------------------------------------------------------------------
(* Exceptions. *)

\* The frames below the popped one that catch an object.
Catching(obj) ==
    {i \in 2..Len(estack) :
        /\ estack[i].expr.type = "ExceptionHandler"
        /\ Matching(estack[i].expr.rules, List(<<obj>>)) # {}}

\* The environment after popping every frame.
BottomEnv ==
    LET static == {i \in DOMAIN estack : estack[i].env # Dynamic}
    IN  IF static = {} THEN env ELSE estack[Max(static)].env

\* evaluator_throwExceptionObj and the jump to evaluator_handleException, with the
\* operands os on the stack: the frames are popped down to the first handler with a rule
\* for the object.  The rule's body runs in the environment of its parameters, on the
\* operands of the expression that failed.
Caught(obj, os) ==
    /\ Catching(obj) # {}
    /\ \E first \in {Min(Catching(obj))} :
        LET handler == estack[first]
        IN  /\ PushRule(SaveEnv(SubSeq(estack, first + 1, Len(estack)), handler.env),
                        handler.expr.rules, List(<<obj>>), EMPTY_TRIPLE)
            /\ env' = handler.env
            /\ ostack' = os
            /\ mixed' = (mixed \/ os # handler.expr.ostack)
    /\ UNCHANGED <<tables, unasked>>

\* Mistake: the evaluator keeps its tables.
UncaughtKeepsTables(obj) ==
    /\ Catching(obj) = {}
    /\ estack' = <<>> /\ ostack' = <<NIL>> /\ env' = BottomEnv
    /\ unasked' = 0
    /\ UNCHANGED <<tables, triples, mixed>>

\* No handler: the evaluator is initialized again, with NIL for value and the environment it
\* had.  The types of records and the subscribers are forgotten.
Uncaught(obj) ==
    /\ Catching(obj) = {}
    /\ estack' = <<>> /\ ostack' = <<NIL>> /\ env' = BottomEnv
    /\ records' = EmptyTable /\ subscribers' = EmptyTable
    /\ unasked' = 0
    /\ UNCHANGED <<triples, mixed>>

ThrowObj(obj, os) ==
    /\ \E thrown \in {obj} : Caught(thrown, os) \/ Uncaught(thrown)
    /\ UNCHANGED <<input, scrambled>>
ThrowException(kind, obj, os) == ThrowObj(Exn(kind, obj), os)

-----------------------------------------------------------------------------
(* Objects, identifiers, quotes and collections. *)

\* An object whose type has no method m_eval of its own evaluates to itself, and so does
\* the empty list.
EvalObject ==
    /\ status = "running" /\ estack # <<>>
    /\ \/ Expr.type \in {"Symbol", "Nil", "Integer", "String", "Closure", "Primitive", "Record"}
       \/ Expr = EMPTY_LIST
    /\ PopExpr /\ PushObj(Expr, ostack) /\ env' = PoppedEnv
    /\ UNCHANGED <<session, triples, history>>

EvalIdentifier ==
    /\ Evaluates("Identifier")
    /\ LET triple == Locate(PoppedEnv, Expr.name)
       IN  IF triple = EMPTY_TRIPLE /\ Expr.name \notin DOMAIN GlobalEnv
           THEN ThrowException("Identifier", Expr, ostack)
           ELSE /\ PushObj(IF triple = EMPTY_TRIPLE THEN GlobalEnv[Expr.name]
                           ELSE triples[triple].value, ostack)
                /\ PopExpr /\ env' = PoppedEnv
                /\ UNCHANGED <<session, triples, history>>

EvalQuote ==
    /\ Evaluates("Quote")
    /\ PopExpr /\ PushObj(Expr.expr, ostack) /\ env' = PoppedEnv
    /\ UNCHANGED <<session, triples, history>>

EvalAbstraction ==
    /\ Evaluates("Abstraction")
    /\ PopExpr /\ PushObj(Closure(Expr.rules, PoppedEnv), ostack) /\ env' = PoppedEnv
    /\ UNCHANGED <<session, triples, history>>

\* The first of a list is evaluated before its rest.
EvalList ==
    /\ Evaluates("List") /\ ~IsEmpty(Expr)
    /\ PushExprs(<<First(Expr), Rest(Expr), Continuation("list", NIL)>>)
    /\ env' = PoppedEnv
    /\ UNCHANGED <<session, ostack, triples, history>>

ListContin ==
    /\ Continues("list")
    /\ PopExpr /\ PushObj(Cell(ostack[2], ostack[1]), Drop(2)) /\ env' = PoppedEnv
    /\ UNCHANGED <<session, triples, history>>

\* The elements of an array are evaluated in their order and taken from the last to the
\* first, those of a queue the other way round.
EvalArray ==
    /\ Evaluates("Array")
    /\ PushExprs(Append(Expr.elems, Continuation("array", Len(Expr.elems))))
    /\ env' = PoppedEnv
    /\ UNCHANGED <<session, ostack, triples, history>>

ArrayContin ==
    /\ Continues("array")
    /\ PopExpr /\ PushObj(Array(Reverse(Values(Arg))), Drop(Arg)) /\ env' = PoppedEnv
    /\ UNCHANGED <<session, triples, history>>

EvalQueue ==
    /\ Evaluates("Queue")
    /\ PushExprs(Append(Reverse(Expr.elems), Continuation("Queue", Len(Expr.elems))))
    /\ env' = PoppedEnv
    /\ UNCHANGED <<session, ostack, triples, history>>

QueueContin ==
    /\ Continues("Queue")
    /\ PopExpr /\ PushObj(Queue(Values(Arg)), Drop(Arg)) /\ env' = PoppedEnv
    /\ UNCHANGED <<session, triples, history>>

EvalBinding ==
    /\ Evaluates("Binding")
    /\ PushExprs(<<Expr.key, Expr.val, Continuation("binding", NIL)>>)
    /\ env' = PoppedEnv
    /\ UNCHANGED <<session, ostack, triples, history>>

BindingContin ==
    /\ Continues("binding")
    /\ PopExpr /\ PushObj(Pair(ostack[2], ostack[1]), Drop(2)) /\ env' = PoppedEnv
    /\ UNCHANGED <<session, triples, history>>

EvalTerm ==
    /\ Evaluates("Term")
    /\ PushExprs(<<Expr.elems, Continuation("term", Expr.symbol)>>)
    /\ env' = PoppedEnv
    /\ UNCHANGED <<session, ostack, triples, history>>

TermContin ==
    /\ Continues("term")
    /\ PopExpr /\ PushObj(Term(Arg, Head(ostack).elems), Drop(1)) /\ env' = PoppedEnv
    /\ UNCHANGED <<session, triples, history>>

EvalBracketExpr ==
    /\ Evaluates("BracketExpr")
    /\ PushExprs(<<Expr.lhs, Expr.index, Continuation("BracketExpr", NIL)>>)
    /\ env' = PoppedEnv
    /\ UNCHANGED <<session, ostack, triples, history>>

BracketContin ==
    /\ Continues("BracketExpr")
    /\ LET obj == ostack[2]
           index == ostack[1]
       IN  /\ ~LeftOut(obj, index)
           /\ \/ /\ Indexed(obj, index) = {}
                 /\ ThrowObj(NotIndexed(obj, index), Drop(2))
              \/ /\ \E elem \in Indexed(obj, index) : PushObj(elem, Drop(2))
                 /\ PopExpr /\ env' = PoppedEnv
                 /\ UNCHANGED <<session, triples, history>>

-----------------------------------------------------------------------------
(* Records. *)

EvalRecordDefinition ==
    /\ Evaluates("RecordDefinition")
    /\ records' = Put(records, Expr.typeName, Expr.fieldNames)
    /\ PopExpr /\ PushObj(NIL, ostack) /\ env' = PoppedEnv
    /\ UNCHANGED <<input, subscribers, triples, history>>

\* The values of the first n bindings are put into an array that has a place for every
\* binding: a place that none of them fills is NIL.
FieldOf(binding) == FieldIndex(records[Expr.typeName], binding.lhs)
ValueAry(n) ==
    LET bindings == Expr.fieldBindings
        filled[i \in 0..n] ==
            IF i = 0 THEN [place \in DOMAIN bindings |-> NIL]
            ELSE [filled[i - 1] EXCEPT ![Min(FieldOf(bindings[i]))] = bindings[i].rhs]
    IN  filled[n]

\* The first binding of no field, or of one behind the end of the array.
SpecFails ==
    {i \in DOMAIN Expr.fieldBindings :
        FieldOf(Expr.fieldBindings[i]) \intersect DOMAIN Expr.fieldBindings = {}}
SpecThrows ==
    LET n == Min(SpecFails)
        name == Expr.fieldBindings[n].lhs
        field == FieldIndex(records[Expr.typeName], name)
    IN  IF field = {} THEN ThrowException("RecordSpec", Array(<<name, Expr>>), ostack)
        ELSE ThrowException("Array", Array(<<Integer(Min(field) - 1), Array(ValueAry(n - 1))>>),
                            ostack)

EvalRecordSpec ==
    /\ Evaluates("RecordSpec")
    /\ \/ /\ Expr.typeName \notin DOMAIN records
          /\ ThrowException("Record", Expr.typeName, ostack)
       \/ /\ Expr.typeName \in DOMAIN records /\ SpecFails # {}
          /\ SpecThrows
       \/ /\ Expr.typeName \in DOMAIN records /\ SpecFails = {}
          /\ PushExprs(<<Array(ValueAry(Len(Expr.fieldBindings))),
                       Continuation("recordSpec", records[Expr.typeName])>>)
          /\ env' = PoppedEnv
          /\ UNCHANGED <<session, ostack, triples, history>>

RecordSpecContin ==
    /\ Continues("recordSpec")
    /\ PopExpr /\ PushObj(Record(Arg, Head(ostack).elems), Drop(1)) /\ env' = PoppedEnv
    /\ UNCHANGED <<session, triples, history>>

-----------------------------------------------------------------------------
(* if, do and the three kinds of let. *)

EvalIf ==
    /\ Evaluates("If")
    /\ PushExprs(<<Expr.cond, Continuation("if", <<Expr.conseq, Expr.alt>>)>>)
    /\ env' = PoppedEnv
    /\ UNCHANGED <<session, ostack, triples, history>>

IfContin ==
    /\ Continues("if")
    /\ PushExprs(<<IF BoolValue(Head(ostack)) THEN Arg[1] ELSE Arg[2]>>)
    /\ ostack' = Drop(1) /\ env' = PoppedEnv
    /\ UNCHANGED <<session, triples, history>>

\* The expressions of a do find the environment that the one before them leaves.
EvalDo ==
    /\ Evaluates("Do")
    /\ IF Expr.exprs = <<>>
       THEN PopExpr /\ PushObj(NIL, ostack)
       ELSE /\ PushDynamic(Append(Expr.exprs, Continuation("do", Len(Expr.exprs) - 1)))
            /\ UNCHANGED ostack
    /\ env' = PoppedEnv
    /\ UNCHANGED <<session, triples, history>>

\* Mistake: one of the dropped operands stays.
DoContinKeepsOne ==
    /\ Continues("do")
    /\ PopExpr /\ env' = PoppedEnv
    /\ IF Arg > 0 THEN PushObj(Head(ostack), Drop(Arg)) ELSE UNCHANGED ostack
    /\ UNCHANGED <<session, triples, history>>

DoContin ==
    /\ Continues("do")
    /\ PopExpr /\ env' = PoppedEnv
    /\ IF Arg > 0 THEN PushObj(Head(ostack), Drop(1 + Arg)) ELSE UNCHANGED ostack
    /\ UNCHANGED <<session, triples, history>>

\* Mistake: the first one evaluated first.
RightHandSidesInOrder(bindings) == [i \in DOMAIN bindings |-> bindings[i].rhs]

\* let and let/in push the right-hand sides in their order: the last is evaluated first.
RightHandSides(bindings) == Reverse([i \in DOMAIN bindings |-> bindings[i].rhs])

EvalLet ==
    /\ Evaluates("Let") \/ Evaluates("LetIn")
    /\ PushExprs(Append(RightHandSides(Expr.bindings), Continuation(Expr.type, Expr)))
    /\ env' = PoppedEnv
    /\ UNCHANGED <<session, ostack, triples, history>>

\* The bindings that the first n left-hand sides make with the operands.
LetBindings(bindings, n) ==
    Match(List([i \in 1..n |-> bindings[i].lhs]), List(Values(n)))

\* The first left-hand side that does not match, if there is one, has popped its operand.
LetFails(bindings) == {n \in DOMAIN bindings : LetBindings(bindings, n) = {}}
LetThrows ==
    /\ LetFails(Arg.bindings) # {}
    /\ \E n \in {Min(LetFails(Arg.bindings))} :
            ThrowException(Arg.type, Array(<<Arg.bindings[n].lhs, ostack[n]>>), Drop(n))

LetContin ==
    /\ Continues("Let")
    /\ \/ LetThrows
       \/ /\ \E binds \in LetBindings(Arg.bindings, Len(Arg.bindings)) :
                /\ triples' = Extended(PoppedEnv, binds)
                /\ env' = ExtendedEnv(PoppedEnv, binds)
          /\ PopExpr /\ PushObj(NIL, Drop(Len(Arg.bindings)))
          /\ UNCHANGED <<session, history>>

LetInContin ==
    /\ Continues("LetIn")
    /\ \/ LetThrows
       \/ /\ \E binds \in LetBindings(Arg.bindings, Len(Arg.bindings)) :
                PushBody(SaveEnv(Tail(estack), PoppedEnv), Arg.body, PoppedEnv, binds)
          /\ ostack' = Drop(Len(Arg.bindings)) /\ env' = PoppedEnv
          /\ UNCHANGED <<session, history>>

\* The identifiers of a letrec, in the order of a set: its left-hand sides are identifiers.
LetRecNames(bindings) ==
    LET names == {bindings[i].lhs.name : i \in DOMAIN bindings}
        place(name) == Cardinality({other \in names : order[other] <= order[name]})
    IN  [i \in 1..Cardinality(names) |-> CHOOSE name \in names : place(name) = i]

\* The identifiers are bound to NIL, then the right-hand sides are evaluated in the
\* environment that has them all.
EvalLetRec ==
    /\ Evaluates("LetRec")
    /\ LET names == LetRecNames(Expr.bindings)
           binds == [i \in DOMAIN names |-> [key |-> names[i], value |-> NIL]]
       IN  /\ PushDynamic(Append(RightHandSides(Expr.bindings),
                    Continuation("letRec", [first |-> Len(triples) + 1, count |-> Len(names)])))
           /\ triples' = Extended(PoppedEnv, binds)
           /\ env' = ExtendedEnv(PoppedEnv, binds)
           /\ scrambled' = (scrambled \/ names # [i \in DOMAIN Expr.bindings |->
                                                    Expr.bindings[i].lhs.name])
    /\ PushObj(NIL, ostack)
    /\ UNCHANGED <<session, mixed, unasked>>

\* The triples of the identifiers, in the order of the set, take the operands, in the
\* order of the bindings.
LetRecContin ==
    /\ Continues("letRec")
    /\ triples' = [t \in DOMAIN triples |->
                    IF t \in Arg.first..(Arg.first + Arg.count - 1)
                    THEN [triples[t] EXCEPT !.value = ostack[t - Arg.first + 1]]
                    ELSE triples[t]]
    /\ PopExpr /\ ostack' = Drop(Arg.count) /\ env' = PoppedEnv
    /\ UNCHANGED <<session, history>>

-----------------------------------------------------------------------------
(* Application of functions, of primitives and of macros. *)

\* A binary operation applies its operator to its two operands.
EvalApply ==
    /\ Evaluates("Apply") \/ Evaluates("BinOp")
    /\ PushExprs(<<Expr.abstr, Continuation("apply", Expr.args)>>)
    /\ env' = PoppedEnv
    /\ UNCHANGED <<session, ostack, triples, history>>

\* A macro gets its arguments as they are: two, for what is read behind them is left out.
\* The colon evaluates its left operand, the reassignment its right one.
ApplyMacro(name) ==
    LET lhs == First(Arg)
        rhs == First(Rest(Arg))
    IN  /\ ListGetNth(Arg, 1) # {}
        /\ PushExprs(IF name = ":" THEN <<lhs, Continuation("colon", rhs)>>
                      ELSE <<rhs, Continuation("reassign", lhs)>>)

ApplyContin ==
    /\ Continues("apply")
    /\ LET abstr == Head(ostack)
       IN  \/ /\ abstr.type = "Closure"
              /\ PushExprs(<<Arg, Continuation("closureApplyArgs", abstr)>>)
              /\ ostack' = Drop(1) /\ env' = PoppedEnv
              /\ UNCHANGED <<session, triples, history>>
           \/ /\ abstr.type = "Primitive"
              /\ IF abstr.isMacro THEN ApplyMacro(abstr.name)
                 ELSE PushExprs(<<Arg, Continuation("primitiveApplyArgs", abstr)>>)
              /\ ostack' = Drop(1) /\ env' = PoppedEnv
              /\ UNCHANGED <<session, triples, history>>
           \/ /\ abstr.type \notin {"Closure", "Primitive"}
              /\ ThrowException("Apply", abstr, Drop(1))

\* The first rule whose parameters match the arguments.
ClosureApplyArgsContin ==
    /\ Continues("closureApplyArgs")
    /\ LET args == Head(ostack)
       IN  IF Matching(Arg.rules, args) = {}
           THEN ThrowException("Closure", Array(<<Arg, args>>), Drop(1))
           ELSE /\ PushRule(SaveEnv(Tail(estack), PoppedEnv), Arg.rules, args, Arg.env)
                /\ ostack' = Drop(1) /\ env' = PoppedEnv
                /\ UNCHANGED <<session, history>>

\* A subscriber comes behind those that subscribed before it to the same pattern.
SubscribersTo(pattern) ==
    IF pattern \in DOMAIN subscribers THEN subscribers[pattern] ELSE <<>>
Subscribe(pattern, subscriber) ==
    /\ subscribers' = Put(subscribers, pattern, Append(SubscribersTo(pattern), subscriber))
    /\ PopExpr /\ PushObj(NIL, Drop(1)) /\ env' = PoppedEnv
    /\ UNCHANGED <<input, records, triples, history>>

\* The subscribers to one pattern that matches are applied to the message, the last one first,
\* after publish has left its value, above which theirs come to lie.  The programs do not subscribe to lists and
\* terms, which have no hash code: the table would not find them.
Published(message) == {pattern \in DOMAIN subscribers : Match(pattern, message) # {}}
Publish(message) ==
    /\ \E handlers \in {subscribers[pattern] : pattern \in Published(message)}
                       \union (IF Published(message) = {} THEN {<<>>} ELSE {}) :
          /\ PushExprs(Reverse([i \in DOMAIN handlers |-> Apply(handlers[i], <<message>>)]))
          /\ unasked' = unasked + Len(handlers)
    /\ PushObj(NIL, Drop(1)) /\ env' = PoppedEnv
    /\ UNCHANGED <<session, triples, mixed, scrambled>>

\* The primitives of the programs that are not macros.
PrimitiveApplyArgsContin ==
    /\ Continues("primitiveApplyArgs")
    /\ LET args == Head(ostack)
       IN  \/ /\ ArgCount(args) # ParamCount(Arg)
              /\ ThrowObj(WrongArgs(Arg, args), Drop(1))
           \/ /\ ArgCount(args) = ParamCount(Arg)
              /\ CASE Arg.name = "throw" -> ThrowObj(First(args), Drop(1))
                   [] Arg.name = "publish" -> Publish(First(args))
                   [] Arg.name = "subscribe" -> Subscribe(First(args), First(Rest(args)))

\* The operand of a colon is a namespace or a record that has the identifier.  A field that a
\* record has no value for is left out: it would be read behind the array of the values.
Unvalued(obj, key) ==
    obj.type = "Record" /\ ~(FieldIndex(obj.fieldNames, key) \subseteq DOMAIN obj.values)
Member(obj, key) ==
    CASE obj.type = "HashTable" ->
            {obj.map[name] : name \in {n \in DOMAIN obj.map : key = Identifier(n)}}
      [] obj.type = "Record" -> {obj.values[i] : i \in FieldIndex(obj.fieldNames, key)}
      [] OTHER -> {}
ColonContin ==
    /\ Continues("colon")
    /\ LET obj == Head(ostack)
       IN  /\ ~Unvalued(obj, Arg)
           /\ \/ /\ obj.type \notin {"HashTable", "Record"}
                 /\ ThrowException("ColonOperator", Array(<<Symbol(obj.type), obj>>), Drop(1))
              \/ /\ obj.type \in {"HashTable", "Record"} /\ Member(obj, Arg) = {}
                 /\ ThrowException(obj.type, Array(<<Arg, obj>>), Drop(1))
              \/ /\ \E member \in Member(obj, Arg) : PushObj(member, Drop(1))
                 /\ PopExpr /\ env' = PoppedEnv
                 /\ UNCHANGED <<session, triples, history>>

\* An identifier that the environment binds is given another value, in place: the global
\* environment is not looked at.  What is assigned to an index of an array or a table is
\* left out: values do not change.
ReassignContin ==
    /\ Continues("reassign") /\ Arg.type # "BracketExpr"
    /\ LET triple == IF Arg.type = "Identifier" THEN Locate(PoppedEnv, Arg.name) ELSE 0
       IN  IF triple = EMPTY_TRIPLE
           THEN ThrowException("Reassign",
                    IF Arg.type = "Identifier" THEN Arg
                    ELSE Array(<<Arg, Symbol(Arg.type), Head(ostack)>>), Drop(1))
           ELSE /\ triples' = [triples EXCEPT ![triple].value = Head(ostack)]
                /\ PopExpr /\ env' = PoppedEnv
                /\ UNCHANGED <<session, ostack, history>>

-----------------------------------------------------------------------------
(* Loops. *)

EvalLoop ==
    /\ Evaluates("Loop")
    /\ estack' = <<Frame(Expr.iterExpr, PoppedEnv),
                   Frame(Continuation("loop1", Expr), PoppedEnv)>>
                 \o SaveEnv(Tail(estack), PoppedEnv)
    /\ env' = PoppedEnv
    /\ UNCHANGED <<session, ostack, triples, history>>

\* The identifier of the loop, if it has one, is bound to NIL, and NIL is the value of
\* the loop so far.
Loop1Contin ==
    /\ Continues("loop1") /\ Head(ostack).type # "String"
    /\ LET binds == IF Arg.key.type = "Identifier"
                    THEN <<[key |-> Arg.key.name, value |-> NIL]>> ELSE <<>>
           e == ExtendedEnv(PoppedEnv, binds)
       IN  /\ triples' = Extended(PoppedEnv, binds)
           /\ env' = e
           /\ estack' = <<Frame(Continuation("loop2",
                                [remaining |-> Iterator(Head(ostack)), body |-> Arg.body,
                                 binding |-> IF binds = <<>> THEN EMPTY_TRIPLE ELSE e]), e)>>
                        \o Tail(estack)
    /\ PushObj(NIL, Drop(1))
    /\ UNCHANGED <<session, history>>

\* Each turn drops the value of the one before it; all turns share one triple.
Loop2Contin ==
    /\ Continues("loop2")
    /\ env' = PoppedEnv
    /\ IF IsEmpty(Arg.remaining)
       THEN PopExpr /\ UNCHANGED <<ostack, triples>>
       ELSE /\ PushExprs(<<Arg.body, Continuation("loop2",
                            [Arg EXCEPT !.remaining = RestAsList(Arg.remaining)])>>)
            /\ ostack' = Drop(1)
            /\ triples' = IF Arg.binding = EMPTY_TRIPLE THEN triples
                          ELSE [triples EXCEPT ![Arg.binding].value = First(Arg.remaining)]
    /\ UNCHANGED <<session, history>>

-----------------------------------------------------------------------------
(* try, and the frames that only change the environment. *)

EvalTryCatch ==
    /\ Evaluates("TryCatch")
    /\ PushExprs(<<Expr.expr, ExceptionHandler(Expr.rules, ostack, PoppedEnv)>>)
    /\ env' = PoppedEnv
    /\ UNCHANGED <<session, ostack, triples, history>>

\* Mistake: the handler is left on the stack, as if its expression might still fail.
EvalExceptionHandlerStays ==
    /\ Evaluates("ExceptionHandler")
    /\ env' = PoppedEnv
    /\ UNCHANGED <<session, estack, ostack, triples, history>>

\* A handler that is reached by evaluation has nothing to do.
EvalExceptionHandler ==
    /\ Evaluates("ExceptionHandler")
    /\ PopExpr /\ env' = PoppedEnv
    /\ UNCHANGED <<session, ostack, triples, history>>

EvalSavedEnv ==
    /\ Evaluates("SavedEnv")
    /\ PopExpr /\ env' = Expr.env
    /\ UNCHANGED <<session, ostack, triples, history>>

-----------------------------------------------------------------------------
(* The REPL. *)

\* The next input, in the environment the one before it has left.
ReplEval ==
    /\ status = "prompt" /\ given < Len(inputs)
    /\ given' = given + 1 /\ status' = "running"
    /\ estack' = <<Frame(inputs[given'], env)>> \o estack
    /\ UNCHANGED <<inputs, order, ostack, env, triples, tables, value, history>>

Terminate ==
    /\ status = "running" /\ estack = <<>>
    /\ status' = "terminated"
    /\ UNCHANGED <<inputs, given, order, estack, ostack, env, triples, tables, value, history>>

ReplPrintValue ==
    /\ status = "terminated"
    /\ value' = Head(ostack) /\ ostack' = Drop(1)
    /\ status' = "prompt"
    /\ UNCHANGED <<inputs, given, order, estack, env, triples, tables, history>>

\* The user gives no more input.
Exit == status = "prompt" /\ given = Len(inputs) /\ UNCHANGED vars

Eval ==
    \/ EvalObject \/ EvalIdentifier \/ EvalQuote \/ EvalAbstraction
    \/ EvalList \/ ListContin \/ EvalArray \/ ArrayContin \/ EvalQueue \/ QueueContin
    \/ EvalBinding \/ BindingContin \/ EvalTerm \/ TermContin
    \/ EvalBracketExpr \/ BracketContin
    \/ EvalRecordDefinition \/ EvalRecordSpec \/ RecordSpecContin
    \/ EvalIf \/ IfContin \/ EvalDo \/ DoContin
    \/ EvalLet \/ LetContin \/ LetInContin \/ EvalLetRec \/ LetRecContin
    \/ EvalApply \/ ApplyContin \/ ClosureApplyArgsContin \/ PrimitiveApplyArgsContin
    \/ ColonContin \/ ReassignContin
    \/ EvalLoop \/ Loop1Contin \/ Loop2Contin
    \/ EvalTryCatch \/ EvalExceptionHandler \/ EvalSavedEnv

Next == ReplEval \/ Eval \/ Terminate \/ ReplPrintValue \/ Exit

Spec == Init /\ [][Next]_vars

\* repl_eval runs its evaluator until it has terminated.
FairSpec == Spec /\ WF_vars(Next)

-----------------------------------------------------------------------------
TypeOK ==
    /\ given \in 0..Len(inputs)
    /\ status \in {"prompt", "running", "terminated"}
    /\ mixed \in BOOLEAN /\ scrambled \in BOOLEAN /\ unasked \in Nat
    /\ env \in 0..Len(triples)
    /\ \A i \in DOMAIN estack : estack[i].env \in {Dynamic} \union 0..Len(triples)
    /\ \A t \in DOMAIN triples : triples[t].next \in 0..(t - 1)

\* A call in tail position pushes no frame: a body runs on the SavedEnv that was already
\* on top of the stack, so that the stack never holds two of them in a row, whatever the
\* number of calls (evaluator_saveEnv, used by closure_apply, let/in, loop and catch).
TailCallsPushNothing ==
    \A i \in 1..(Len(estack) - 1) :
        ~(estack[i].expr.type = "SavedEnv" /\ estack[i + 1].expr.type = "SavedEnv")

\* The operands that evaluating the expression of a frame pops, and those it leaves when
\* all that it pushes has been evaluated.
Pops(expr) ==
    IF expr.type # "Continuation" THEN 0
    ELSE CASE expr.name \in {"Let", "LetIn"} -> Len(expr.arg.bindings)
           [] expr.name = "letRec" -> expr.arg.count + 1
           [] expr.name = "do" -> expr.arg + 1
           [] expr.name \in {"array", "Queue"} -> expr.arg
           [] expr.name \in {"list", "binding", "BracketExpr"} -> 2
           [] OTHER -> 1
Pushes(expr) == IF expr.type \in {"SavedEnv", "ExceptionHandler"} THEN 0 ELSE 1

\* The operands on the stack when the first n frames have been evaluated.
OperandsAfter(n) ==
    LET after[i \in 0..n] ==
            IF i = 0 THEN Len(ostack)
            ELSE after[i - 1] - Pops(estack[i].expr) + Pushes(estack[i].expr)
    IN  after[n]

\* No continuation ever finds fewer operands than it pops (evaluator_popObj reads a NULL object
\* from the empty list), and what an input leaves is its value and nothing else but the results
\* of the subscribers to what it has published, one for each (_publish), unless a handler has
\* found operands of the expression that failed.
OperandsBalance ==
    /\ \A n \in DOMAIN estack : Pops(estack[n].expr) <= OperandsAfter(n - 1)
    /\ status # "prompt" /\ ~mixed /\ ~scrambled => OperandsAfter(Len(estack)) = 1 + unasked
    /\ status # "prompt" => OperandsAfter(Len(estack)) >= 1

\* Every input is answered: the machine stops on expressions that have a value.
EveryInputIsAnswered == (status = "running") ~> (status = "prompt")
=============================================================================
