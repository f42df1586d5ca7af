----------------------------- MODULE MCEvaluator -----------------------------
(* Sessions for Evaluator, and what its results are compared with. *)
EXTENDS Evaluator, Matching, Programs

R == INSTANCE Reference

A == Symbol("A")
x == Identifier("x")
y == Identifier("y")
f == Identifier("f")

\* Expressions made of two or three others: every construct at least once.
Made(a, b) ==
    {Cell(a, List(<<b>>)), Do(<<a, b>>), If(a, b, A), If(List(<<a>>), b, A),
     Let(<<Binding(x, a)>>), Let(<<Binding(List(<<x>>), a), Binding(y, b)>>),
     LetIn(<<Binding(x, a)>>, b), LetRec(<<Binding(x, a), Binding(y, b)>>),
     Abstraction(<<Rule(<<x>>, a)>>), Quote(a),
     Apply(Abstraction(<<Rule(<<A>>, a), Rule(<<x>>, b)>>), <<x>>), Apply(a, <<b>>),
     BinOp(x, ":=", a), Throw(a),
     TryCatch(a, <<Rule(<<A>>, b)>>), TryCatch(a, <<Rule(<<x>>, x)>>),
     Loop(NIL, a, b), Loop(x, List(<<A, a>>), b)}

Collected(a, b) ==
    {Array(<<a, b>>), Queue(<<b, Pair(a, x)>>), Term(A, <<b, a>>),
     BracketExpr(a, Integer(1)), BracketExpr(Array(<<Pair(A, a), b>>), A),
     Loop(y, Array(<<b, a>>), Cell(y, x)),
     Let(<<Binding(Array(<<x, Pair(A, y)>>), Array(<<a, Pair(A, b)>>))>>)}

\* Expressions of two levels, and sessions of two inputs of one level.
Atoms == {A, x}
Depth1 == Atoms \union UNION {Made(a, b) : a \in Atoms, b \in Atoms}
Few == {x, Throw(A), Let(<<Binding(x, A)>>), BinOp(x, ":=", List(<<x>>))}
Depth2 == UNION {Made(a, b) \union Made(b, a) : a \in Depth1, b \in Few}
CollectedDepth2 ==
    UNION {Collected(a, b) \union Collected(b, a) : a \in Depth1, b \in {x, Throw(A)}}
    \union UNION {Made(a, b) \union Made(b, a) : a \in Collected(A, x), b \in Few}

\* Functions over lists that call themselves: in tail position, under a constructor, as the
\* last of a sequence, through another function, through a reassigned one.
OverLists(end, step) ==
    Abstraction(<<Rule(<<EMPTY_LIST>>, end), Rule(<<Cell(x, y)>>, step)>>)
Steps == {Apply(f, <<y>>), Cell(x, Apply(f, <<y>>)), Do(<<x, Apply(f, <<y>>)>>),
          If(y, Apply(f, <<y>>), x), LetIn(<<Binding(x, y)>>, Apply(f, <<x>>)),
          Do(<<BinOp(f, ":=", Abstraction(<<Rule(<<x>>, x)>>)), Apply(f, <<y>>)>>),
          TryCatch(Apply(f, <<x>>), <<Rule(<<x>>, x)>>), Loop(x, y, Apply(f, <<y>>)),
          Loop(NIL, Apply(f, <<y>>), x)}
Recursive(step) == LetRec(<<Binding(f, OverLists(A, step))>>)
Mutual(step) ==
    LetRec(<<Binding(f, OverLists(A, Apply(y, <<x>>))), Binding(y, OverLists(x, step))>>)
Lists == {EMPTY_LIST, List(<<A>>), List(<<A, EMPTY_LIST, A>>), Cell(A, A)}

\* Closures that outlive what they captured: a let, an argument, the turns of a loop.
Captured ==
    {Do(<<Let(<<Binding(x, A)>>), Let(<<Binding(f, Abstraction(<<Rule(<<>>, b)>>))>>),
          Let(<<Binding(x, EMPTY_LIST)>>), Cell(Apply(f, <<>>), Cell(x, Apply(f, <<>>)))>>) :
        b \in {x, BinOp(x, ":=", List(<<x>>)), Let(<<Binding(x, List(<<x>>))>>)}}
    \union
    {Do(<<Let(<<Binding(f, A)>>),
          Loop(x, List(<<A, EMPTY_LIST>>), BinOp(f, ":=", Abstraction(<<Rule(<<>>, b)>>))),
          Apply(f, <<>>)>>) : b \in {x, Throw(x)}}

\* Every exception that the evaluator throws by itself, caught and not, with nothing on the
\* stacks and with something.
exn == Identifier("exn")
Failing ==
    {y, BinOp(A, ":", x), BinOp(exn, ":", x), BinOp(exn, ":", A), BinOp(y, ":=", A),
     BinOp(A, ":=", A), Apply(A, <<y>>), Apply(Abstraction(<<Rule(<<A>>, A)>>), <<>>),
     Let(<<Binding(A, EMPTY_LIST)>>), LetIn(<<Binding(x, A), Binding(EMPTY_LIST, A)>>, x),
     Apply(BinOp(exn, ":", Identifier("throw")), <<>>),
     Apply(BinOp(exn, ":", Identifier("throw")), <<A, A>>),
     BracketExpr(A, Integer(0)), BracketExpr(List(<<A>>), Integer(1)),
     BracketExpr(Cell(A, x), Integer(2)), BracketExpr(EMPTY_LIST, Integer(0)),
     BracketExpr(List(<<A>>), A), BracketExpr(Array(<<A>>), Integer(1)),
     BracketExpr(Array(<<Array(<<A>>), EMPTY_LIST, A>>), A), RecordSpec(A, <<>>)}
Failures ==
    UNION {{<<e, x>>, <<tried, x>>, <<Do(<<Let(<<Binding(x, A)>>), e>>), x>>,
            <<Do(<<Let(<<Binding(x, EMPTY_LIST)>>), Do(<<>>), Do(<<tried>>)>>), x>>,
            <<TryCatch(Cell(tried, e), <<Rule(<<y>>, Cell(y, EMPTY_LIST))>>), x>>} :
           <<e, tried>> \in {<<fails, TryCatch(fails, <<Rule(<<A>>, x), Rule(<<x>>, x)>>)>> :
                                fails \in Failing}}

\* What is found by a number or a symbol, in lists, in arrays and in what stands for a pair.
Indexes ==
    {BracketExpr(obj, Integer(n)) :
        obj \in {Array(<<A, NIL, x>>), List(<<A, NIL>>), Cell(A, Integer(1)), Queue(<<A>>)}, n \in 0..2}
    \union
    {BracketExpr(Array(<<A, obj, Pair(A, Integer(7))>>), A) :
        obj \in {Pair(A, Integer(1)), Array(<<A, Integer(2), A>>), Cell(A, Integer(3)),
                 Term(A, <<Integer(4)>>), Pair(NIL, A)}}

\* Patterns of every shape, against objects of every shape.
Patterns == {Array(<<x, y>>), Array(<<x, x>>), Queue(<<x, A>>), Queue(<<>>), Pair(x, y),
             Term(A, <<x>>), List(<<x, y>>), Cell(x, y), Integer(1)}
Objects == {Array(<<A, NIL>>), Array(<<A>>), Queue(<<NIL, A>>), Queue(<<>>), Pair(NIL, A),
            Term(A, <<NIL>>), Term(Symbol("B"), <<A>>), List(<<A, NIL>>), Integer(1), Integer(2)}
Matchings ==
    {<<LetIn(<<Binding(pattern, obj)>>, List(<<x, y>>)), x>> : pattern \in Patterns, obj \in Objects}
    \union {<<Loop(x, obj, BinOp(x, ":=", Array(<<x, obj>>)))>> :
                obj \in Objects \union {Cell(A, Array(<<A, A>>)), Integer(0)}}
    \union {<<If(obj, A, x)>> : obj \in Objects \union {Integer(0), Array(<<>>)}}

\* Records of two fields: the type is defined, defined again, or not; the values come in any
\* order, twice, too few of them, or to a field that is not of the type.
Define(fieldNames) == RecordDefinition(A, fieldNames)
Spec2(first, second) == RecordSpec(A, <<Binding(first, Cell(x, A)), Binding(second, x)>>)
Specs == {Spec2(first, second) : first, second \in {x, y, f}}
         \union {RecordSpec(A, <<Binding(key, Throw(A))>>) : key \in {x, y, f}}
Records ==
    {<<Let(<<Binding(x, Integer(1))>>), Define(<<x, y>>), Let(<<Binding(f, spec)>>),
       BinOp(f, ":", key)>> :
        spec \in Specs, key \in {x, y, A}}
    \union {<<Define(<<x, y>>), Define(<<y, f>>), TryCatch(spec, <<Rule(<<y>>, y)>>)>> : spec \in Specs}
    \union {<<spec>> : spec \in Specs}

\* Messages and those who subscribe to them: by what they are, by their shape, by anything,
\* twice, or not at all.
Event(name, args) == Apply(BinOp(Identifier("event"), ":", Identifier(name)), args)
Subscribers == {Abstraction(<<Rule(<<x>>, Cell(A, x))>>), Abstraction(<<Rule(<<A>>, Throw(x))>>)}
Messages == {A, Integer(1), Array(<<A, Integer(1)>>)}
Subscriptions ==
    {Event("subscribe", <<pattern, subscriber>>) :
        pattern \in {A, Quote(y), Quote(Array(<<A, y>>))}, subscriber \in Subscribers}
Publications == {Event("publish", <<message>>) : message \in Messages}
Wrong == {Event("publish", <<>>), Event("publish", <<A, A>>), Event("subscribe", <<A>>),
          Event("subscribe", <<A, A, A>>), Event("subscribe", <<>>)}
Events ==
    {<<s1, s2, p, x>> : s1, s2 \in Subscriptions, p \in Publications}
    \union {<<s, List(<<Let(<<Binding(x, A)>>), p, Do(<<p, x>>)>>), TryCatch(p, <<Rule(<<x>>, x)>>)>> :
                s \in Subscriptions, p \in Publications \union Wrong}
    \union {<<p, x>> : p \in Publications}

\* Types and subscribers of before an exception that is caught or not, used after it, or given
\* again; an exception in the input that makes a type, or of a subscriber in the midst of one.
Uses == Let(<<Binding(f, Spec2(x, y))>>)
Notifies == {Do(<<p, Let(<<Binding(y, A)>>)>>) : p \in Publications}
Forgotten ==
    {<<Do(<<Let(<<Binding(x, A)>>), Define(<<x, y>>)>>), e, again, Uses, BinOp(f, ":", x)>> :
        e \in {y, Throw(A), TryCatch(Throw(A), <<Rule(<<x>>, x)>>)}, again \in {A, Define(<<y, x>>)}}
    \union {<<Do(<<Define(<<x, y>>), e>>), Let(<<Binding(x, A)>>), Uses, f>> : e \in {A, Throw(A)}}
    \union {<<s, n1, n2, y>> : s \in Subscriptions, n1, n2 \in Notifies}
    \union {<<s1, Throw(A), s2, n, y>> : s1, s2 \in Subscriptions, n \in Notifies}

AllSessions ==
    Failures \union Matchings \union Records \union Events \union Forgotten
    \union {<<e, x>> : e \in Indexes}
    \union {<<LetRec(<<Binding(y, A), Binding(x, EMPTY_LIST)>>), Cell(x, y)>>}
    \union {<<e>> : e \in Depth2 \union CollectedDepth2 \union Captured}
    \union {<<e1, e2>> : e1 \in Depth1, e2 \in Few \union {Apply(x, <<A>>), Cell(x, y)}}
    \union {<<Recursive(step), Apply(f, <<list>>)>> : step \in Steps, list \in Lists}
    \union {<<Mutual(step), Apply(f, <<list>>)>> : step \in Steps, list \in Lists}

\* Lists whose last element is tried.
TrySessions ==
    {<<List(<<A, TryCatch(List(<<a, b>>), <<Rule(<<A>>, EMPTY_LIST)>>)>>)>> :
        a \in {A, EMPTY_LIST, Throw(A)}, b \in {A, x, Throw(A)}}

\* The objects that an object is made of.
RECURSIVE Within(_)
Parts(obj) ==
    LET named(fields) == {obj[name] : name \in fields \intersect DOMAIN obj}
        objs == named({"key", "val", "symbol", "cond", "conseq", "alt", "body", "abstr", "args",
                       "lhs", "index", "expr", "typeName", "iterExpr"})
        seqs == named({"cell", "exprs", "fieldNames"})
        elems == named({"elems"})
        pairs == UNION {ToSet(ps) : ps \in named({"bindings", "fieldBindings", "rules"})}
    IN  objs \union UNION {ToSet(s) : s \in seqs}
        \union (IF obj.type = "Term" THEN elems ELSE UNION {ToSet(s) : s \in elems})
        \union UNION {{pair[name] : name \in DOMAIN pair} : pair \in pairs}
Within(obj) == {obj} \union UNION {Within(part) : part \in Parts(obj)}

\* What the proofs assume of their inputs holds of these sessions, and what they assume of
\* any_match holds of Match on patterns and objects of every shape.
ASSUME SessionsHavePrograms ==
    LET objs == UNION {UNION {Within(s[i]) : i \in DOMAIN s} : s \in Sessions}
    IN  Closed(objs, 0) /\ \A s \in Sessions : s \in Seq(objs)
ASSUME MatchTakesPartsOfShapes ==
    LET objs == UNION {Within(obj) : obj \in Patterns \union Objects}
    IN  Closed(objs, 0) /\ TakesParts(Match, objs)

\* The order of the identifiers in a set: that of the bindings of every letrec but one.
OneOrder == {[x |-> 1, y |-> 3, f |-> 2]}

-----------------------------------------------------------------------------
Reference == R!EvalSession(SubSeq(inputs, 1, given))

\* The value of an input is the one its expressions mean: the stacks, the saved
\* environments, the order of the operands and the search of a handler compute what the
\* recursive definition says (any_eval of every expression, evaluator_handleException).
\* A handler that finds operands of the expression that failed, a letrec that gives its
\* values in another order and what subscribers leave are set apart.
ValueIsTheReference ==
    status = "prompt" /\ given > 0 /\ ~mixed /\ ~scrambled /\ unasked = 0 =>
        R!Observed(value) = R!Observed(Reference.value)

\* After an input, caught or uncaught exceptions included, exactly the identifiers that
\* let, letrec, do and if bind for what follows are bound, to the values they should have:
\* no binding of a body, a loop, an argument or a rule of catch leaks, none is lost
\* (evaluator_popExpr, savedEnv_eval, evaluator_handleException).
EnvIsTheReference ==
    status = "prompt" /\ ~mixed /\ ~scrambled /\ unasked = 0 =>
        \A name \in {"x", "y", "f"} :
            LET triple == Locate(env, name)
            IN  IF name \in DOMAIN Reference.env
                THEN triple # 0 /\ R!Observed(triples[triple].value) =
                                   R!Observed(Reference.store[Reference.env[name]])
                ELSE triple = 0

\* The manual (doc/UFO.html:1534): the value of a try is "the value of the first matchRule
\* that matches the exception", wherever the try stands.
TryHasTheValueOfItsRule ==
    status = "prompt" /\ given > 0 => R!Observed(value) = R!Observed(Reference.value)
=============================================================================
