------------------------------ MODULE Programs ------------------------------
(***************************************************************************)
(* The objects that programs are made of and that evaluation gives.  The   *)
(* frames of the expression stack are objects too in the code: a program   *)
(* has none of them.                                                       *)
(***************************************************************************)
EXTENDS Syntax

ObjectTypes ==
    {"Symbol", "Identifier", "Nil", "Integer", "String", "List", "Array", "Queue", "Binding",
     "Term", "If", "Do", "Let", "LetIn", "LetRec", "Abstraction", "Apply", "BinOp",
     "BracketExpr", "Quote", "RecordDefinition", "RecordSpec", "TryCatch", "Loop", "Closure",
     "Primitive", "HashTable", "Record"}

Bindings(S) == Seq([lhs : S, rhs : S])
Rules(S) == Seq([params : S, body : S])

\* What an object of a type has: its parts are in S, and the environment of a closure is that
\* of one of n triples.  The left-hand sides of a letrec are identifiers.
IsObject(obj, S, n) ==
    /\ obj.type \in ObjectTypes
    /\ obj.type = "Identifier" => obj.name \in STRING
    /\ obj.type = "Integer" => obj.value \in Int
    /\ obj.type = "List" => obj.cell = <<>> \/ obj.cell \in S \X S
    /\ obj.type \in {"Array", "Queue"} => obj.elems \in Seq(S)
    /\ obj.type = "Binding" => obj.key \in S /\ obj.val \in S
    /\ obj.type = "Term" => obj.symbol \in S /\ obj.elems \in S /\ obj.elems.type = "Array"
    /\ obj.type = "If" => obj.cond \in S /\ obj.conseq \in S /\ obj.alt \in S
    /\ obj.type = "Do" => obj.exprs \in Seq(S)
    /\ obj.type \in {"Let", "LetIn", "LetRec"} => obj.bindings \in Bindings(S)
    /\ obj.type = "LetIn" => obj.body \in S
    /\ obj.type = "LetRec" => \A i \in DOMAIN obj.bindings :
                                    obj.bindings[i].lhs.type = "Identifier"
    /\ obj.type \in {"Abstraction", "Closure", "TryCatch"} => obj.rules \in Rules(S)
    /\ obj.type = "Closure" => obj.env \in 0..n
    /\ obj.type \in {"Apply", "BinOp"} => obj.abstr \in S /\ obj.args \in S /\ obj.args.type = "List"
    /\ obj.type = "BracketExpr" => obj.lhs \in S /\ obj.index \in S
    /\ obj.type \in {"Quote", "TryCatch"} => obj.expr \in S
    /\ obj.type \in {"RecordDefinition", "Record"} => obj.fieldNames \in Seq(S)
    /\ obj.type \in {"RecordDefinition", "RecordSpec"} => obj.typeName \in S
    /\ obj.type = "RecordSpec" => obj.fieldBindings \in Bindings(S)
    /\ obj.type = "Record" => obj.values \in Seq(S)
    /\ obj.type = "Loop" => obj.key \in S /\ obj.iterExpr \in S /\ obj.body \in S
    /\ obj.type = "Primitive" =>
            /\ obj.isMacro \in BOOLEAN
            /\ obj.isMacro => obj.name \in {":", ":="}
            /\ ~obj.isMacro => obj.name \in {"throw", "publish", "subscribe"}
    /\ obj.type = "HashTable" => \A name \in DOMAIN obj.map : obj.map[name] \in S

\* A set of objects that has the parts of each of them.
Closed(S, n) == \A obj \in S : IsObject(obj, S, n)

\* Whatever a pattern of a set matches, it binds to names what is in the set already.
TakesParts(Match(_, _), S) ==
    \A pattern, obj \in S : \A binds \in Match(pattern, obj) :
        binds \in Seq([key : STRING, value : S])
=============================================================================
