------------------------------- MODULE Types -------------------------------
(***************************************************************************)
(* The types of objects: for each, the methods that its X_methodSetup puts *)
(* over the defaults, and which of the objects that it holds its methods   *)
(* copy (X_deepCopy), look through for free variables (X_freeVars), mark   *)
(* (X_markChildren) and show, between which tokens (X_show).  A chain of a *)
(* type's own (the rules of an abstraction, the arguments of an            *)
(* application, the bindings of a let, the links of a hash table) is       *)
(* flattened: its parts are the objects at the ends of the chain, and      *)
(* Rule, Link and Field stand for what one piece of the chain holds.       *)
(***************************************************************************)
EXTENDS Parser

Each == Nat \ {0}

\* What a type shows: tokens, a part (in parentheses if it is of one of the types), all
\* the parts from one on, and a part that is left out if it is NIL.
Part(i) == [part |-> i, parenthesized |-> {}]
InParentheses(i, types) == [part |-> i, parenthesized |-> types]
Parts(i, separator) == [from |-> i, separator |-> separator]
Optional(token, i) == [optional |-> i, token |-> token]
Sequential(word) == <<Word(word), Parts(1, Nothing), Word("end")>>

\* The methods there are: each has a default.
AllMethods ==
    {"boolValue", "compare", "deepCopy", "display", "eval", "free", "freeVars", "getPairValue",
     "hashCode", "isEqual", "iterator", "iteratorHasNext", "iteratorNext", "markChildren",
     "match", "show", "sizeOf", "streamReadChar", "streamWriteChar", "structSize", "typeOf"}

Base == {"free", "show", "sizeOf", "structSize"}
Expression == Base \union {"deepCopy", "eval", "freeVars", "markChildren"}

-----------------------------------------------------------------------------
(* Expressions. *)

Abstraction_methods == Expression
Abstraction_copies == Each
Abstraction_marks == Each
Abstraction_shows == <<Word("fun"), Parts(1, Char("|"))>>
Rule_shows ==   \* the body, and the parameters
    <<Char("("), Parts(2, Char(",")), Char(")"), Oper("="), Part(1)>>

Apply_methods == Expression
Apply_copies == Each
Apply_frees == Each
Apply_marks == Each
Apply_shows ==
    <<InParentheses(1, {"Abstraction", "Closure"}), Char("("), Parts(2, Char(",")), Char(")")>>

Async_methods == Expression
Async_copies == Each
Async_frees == Each
Async_marks == Each
Async_shows == Sequential("async")

BinOp_methods == Expression
BinOp_copies == {1, 3}
BinOp_frees == Each
BinOp_marks == Each
\* Mistake: the left operand goes without parentheses.
BinOp_showsBare == <<Part(1), Part(2), InParentheses(3, {"BinOp"})>>
BinOp_shows == <<InParentheses(1, {"BinOp"}), Part(2), InParentheses(3, {"BinOp"})>>

BracketExpr_methods == Expression
BracketExpr_copies == Each
BracketExpr_frees == Each
BracketExpr_marks == Each
BracketExpr_shows == <<Part(1), Char("["), Part(2), Char("]")>>

Cobegin_methods == Expression
Cobegin_copies == Each
Cobegin_frees == Each
Cobegin_marks == Each
Cobegin_shows == Sequential("cobegin")

Do_methods == Expression
Do_copies == Each
Do_frees == Each
Do_marks == Each
Do_shows == Sequential("do")

Identifier_methods == Base \union {"compare", "eval", "freeVars", "hashCode", "match"}

If_methods == Expression
If_copies == Each
If_frees == Each
If_marks == Each
If_shows ==
    <<Word("if"), Part(1), Word("then"), Part(2), Word("else"), Part(3), Word("end")>>

\* let_freeVars is left out: it does not come back from a let that has a binding.
Let_methods == Expression
Let_copies == Each
Let_marks == Each
Let_shows == <<Word("let"), Parts(1, Oper("."))>>

\* The expression, and the bindings.
LetIn_methods == Expression
LetIn_copies == Each
LetIn_frees == {}
\* Mistake: only the bindings are marked.
LetIn_marksBindings == Each \ {1}
LetIn_marks == Each
LetIn_shows == <<Word("let"), Parts(2, Oper(".")), Word("in"), Part(1)>>

LetRec_methods == Expression
LetRec_copies == Each
LetRec_frees == {}
LetRec_marks == Each
LetRec_shows == <<Word("letrec"), Parts(1, Char(","))>>

Loop_methods == Expression
Loop_copies == Each
Loop_frees == Each
Loop_marks == Each
Loop_shows == <<Word("loop"), Part(1), Part(2)>>

Nondet_methods == Expression
Nondet_copies == Each
Nondet_frees == Each
Nondet_marks == Each
Nondet_shows == Sequential("nondet")

Protocol_methods == Expression \ {"deepCopy"}

Quote_methods == Base \union {"compare", "eval", "freeVars"}
Quote_frees == {1}
Quote_shows == <<Char("'"), Part(1), Char("'")>>

\* The name, and the fields; a field has a name, a type and a default.
RecordDefinition_methods == Base \union {"eval", "freeVars", "markChildren"}
RecordDefinition_frees == Each \ {1}
RecordDefinition_marks == Each
RecordDefinition_shows == <<Word("record"), Part(1), Oper("="), Parts(2, Char(","))>>
Field_shows == <<Part(1), Optional(Oper("::"), 2), Optional(Oper("="), 3)>>

\* The name, and the bindings.
RecordSpec_methods == Base \union {"eval", "freeVars", "markChildren", "match"}
RecordSpec_frees == Each \ {1}
RecordSpec_marks == Each
RecordSpec_shows == <<Char("#"), Part(1), Char("{"), Parts(2, Char(",")), Char("}")>>

TryCatch_methods == Expression
TryCatch_copies == Each
TryCatch_frees == Each
TryCatch_marks == Each
TryCatch_shows == <<Word("try"), Part(1), Word("catch"), Part(2)>>

-----------------------------------------------------------------------------
(* Data structures. *)

Iterated == {"iterator", "iteratorHasNext", "iteratorNext"}

Array_methods ==
    Expression \union Iterated
    \union {"boolValue", "compare", "getPairValue", "hashCode", "isEqual", "match"}
Array_copies == Each
Array_frees == Each
Array_marks == Each
Array_shows == <<Char("{"), Parts(1, Char(",")), Char("}")>>

Binding_methods == Expression \union {"compare", "getPairValue", "hashCode", "isEqual", "match"}
Binding_copies == Each
Binding_frees == Each
Binding_marks == Each
Binding_shows ==
    <<InParentheses(1, {"Binding"}), Oper("="), InParentheses(2, {"Binding"})>>

\* The abstraction, and the environment.
Closure_methods == Base \union {"freeVars", "markChildren"}
Closure_frees == {1}
Closure_marks == Each
Closure_shows == <<Part(1)>>

HashTable_methods == Expression \union {"boolValue", "isEqual"}
HashTable_copies == Each
HashTable_frees == Each
HashTable_marks == Each
HashTable_shows == <<Char("#"), Char("{"), Parts(1, Char(",")), Char("}")>>
Link_copies == {1}
Link_shows == <<Part(1), Oper("="), Part(2)>>

\* A cell: its first element and the rest; nothing in the empty list.
List_methods ==
    Expression \union Iterated \union {"boolValue", "compare", "getPairValue", "isEqual", "match"}
List_copies == Each
List_frees == Each
List_marks == Each

Queue_methods == Expression \union {"boolValue", "compare", "isEqual", "iterator", "match"}
Queue_copies == {}
Queue_frees == Each
Queue_marks == Each
Queue_shows == <<Char("~"), Char("["), Parts(1, Char(",")), Char("]")>>

\* The definition, and the values.
Record_methods == Base \union {"deepCopy", "freeVars", "isEqual", "markChildren", "match"}
Record_copies == Each \ {1}
Record_frees == Each \ {1}
Record_marks == Each

Set_methods == Expression \union {"boolValue", "isEqual", "iterator"}
Set_copies == Each
Set_frees == Each
Set_marks == Each
Set_shows == <<Char("$"), Char("{"), Parts(1, Char(",")), Char("}")>>

\* The name, and the elements.
Term_methods == Expression \union {"boolValue", "getPairValue", "isEqual", "match"}
Term_copies == {}
Term_frees == Each \ {1}
Term_marks == Each
Term_shows == <<Part(1), Char("{"), Parts(2, Char(",")), Char("}")>>

\* The key, the value and the next one.
Triple_methods == Base \union {"freeVars", "isEqual", "markChildren", "match"}
Triple_frees == Each
Triple_marks == Each

Tuple_methods == Expression \union {"isEqual", "match"}
Tuple_copies == {}
Tuple_frees == Each
Tuple_marks == Each
Tuple_shows == <<Parts(1, Oper(":"))>>

-----------------------------------------------------------------------------
(* Atoms. *)

Number == Base \union {"boolValue", "compare", "hashCode", "isEqual"}
Address_methods == Number
Boolean_methods == Number \ {"isEqual"}
Integer_methods == Number \union {"iterator"}
Nil_methods == Base \union {"boolValue", "hashCode"}
Primitive_methods == Base
Real_methods == Number \ {"hashCode"}
Sequence_methods == Number \union Iterated
String_methods == Number \union Iterated \union {"display", "getPairValue"}
Symbol_methods == Base \union {"compare", "hashCode"}
Unsigned_methods == Number

-----------------------------------------------------------------------------
(* What the interpreter itself keeps, and the streams. *)

Device == Base \union {"boolValue", "streamReadChar", "streamWriteChar"}

Continuation_methods == Base \union {"eval", "markChildren"}
Continuation_marks == {1}   \* the argument

Evaluator_methods == Base \union {"markChildren"}
\* The stacks, the environment, the global environment, the records, the exception, the
\* subscribers, what the thread waits for and the threads that wait for it.
Evaluator_marks == 1..9

ExceptionHandler_methods == Base \union {"eval", "markChildren"}
ExceptionHandler_marks == 1..3   \* the abstraction, the operand stack and the environment

File_methods == Device \union {"markChildren"}
File_marks == {1}   \* its name

Iterator_methods == Base \union {"boolValue", "markChildren"}
Iterator_marks == {1}   \* its state

Lock_methods == Base \union {"markChildren"}
Lock_marks == {1, 2}   \* the waiting threads, and the thread that has it, if any

MsgQ_methods == Base \union {"markChildren"}
MsgQ_marks == {1, 2}   \* the waiting threads, and the messages

REPL_methods == Base \union {"markChildren"}
\* The buffer and the string of the input, its tokens and those of a colon command, the
\* expression, its value, the evaluator, the error and the name of the file.
REPL_marks == 1..9

SavedEnv_methods == Base \union {"eval", "markChildren"}
SavedEnv_marks == {1}   \* the environment

Stream_methods == Device \union {"markChildren"}
Stream_marks == {1}   \* the stream it stands for

StringBuffer_methods == Device
StringStream_methods == Base \union {"boolValue"}

TCPClient_methods == Device \union {"markChildren"}
TCPClient_marks == {1}   \* the address of the other side

TCPServer_methods == Device \union {"markChildren"}

-----------------------------------------------------------------------------
METHOD_TABLE ==
    [Abstraction |-> Abstraction_methods, Address |-> Address_methods, Apply |-> Apply_methods,
     Array |-> Array_methods, Async |-> Async_methods, BinOp |-> BinOp_methods,
     Binding |-> Binding_methods, Boolean |-> Boolean_methods,
     BracketExpr |-> BracketExpr_methods, Closure |-> Closure_methods,
     Cobegin |-> Cobegin_methods, Continuation |-> Continuation_methods, Do |-> Do_methods,
     Evaluator |-> Evaluator_methods, ExceptionHandler |-> ExceptionHandler_methods,
     File |-> File_methods, HashTable |-> HashTable_methods,
     Identifier |-> Identifier_methods, If |-> If_methods, Integer |-> Integer_methods,
     Iterator |-> Iterator_methods, Let |-> Let_methods, LetIn |-> LetIn_methods,
     LetRec |-> LetRec_methods, List |-> List_methods, Lock |-> Lock_methods,
     Loop |-> Loop_methods, MsgQ |-> MsgQ_methods, Nil |-> Nil_methods,
     Nondet |-> Nondet_methods, Primitive |-> Primitive_methods,
     Protocol |-> Protocol_methods, Queue |-> Queue_methods, Quote |-> Quote_methods,
     Real |-> Real_methods, Record |-> Record_methods,
     RecordDefinition |-> RecordDefinition_methods, RecordSpec |-> RecordSpec_methods,
     REPL |-> REPL_methods, SavedEnv |-> SavedEnv_methods, Sequence |-> Sequence_methods,
     Set |-> Set_methods, Stream |-> Stream_methods, String |-> String_methods,
     StringBuffer |-> StringBuffer_methods, StringStream |-> StringStream_methods,
     Symbol |-> Symbol_methods, TCPClient |-> TCPClient_methods,
     TCPServer |-> TCPServer_methods, Term |-> Term_methods, Triple |-> Triple_methods,
     TryCatch |-> TryCatch_methods, Tuple |-> Tuple_methods, Unsigned |-> Unsigned_methods]

ASSUME MethodsAssumption == \A type \in DOMAIN METHOD_TABLE : METHOD_TABLE[type] \subseteq AllMethods

\* What the pieces of a chain do is part of what its type does.
Methods(type) ==
    CASE type = "Rule" -> Abstraction_methods
      [] type = "Link" -> HashTable_methods
      [] type = "Field" -> RecordDefinition_methods
      [] type = "Operator" -> Identifier_methods
      [] OTHER -> METHOD_TABLE[type]

\* The parts that each method of a type goes on to, where the type has the method.
Class(copies, frees, marks, shows) ==
    [copies |-> copies, frees |-> frees, marks |-> marks, shows |-> shows]

\* A type of the interpreter's own only marks.
Marking(marks) == Class({}, {}, marks, <<>>)

Classes ==
    [Abstraction |-> Class(Abstraction_copies, {}, Abstraction_marks, Abstraction_shows),
     Rule |-> Class(Abstraction_copies, {}, Abstraction_marks, Rule_shows),
     Apply |-> Class(Apply_copies, Apply_frees, Apply_marks, Apply_shows),
     Array |-> Class(Array_copies, Array_frees, Array_marks, Array_shows),
     Async |-> Class(Async_copies, Async_frees, Async_marks, Async_shows),
     BinOp |-> Class(BinOp_copies, BinOp_frees, BinOp_marks, BinOp_shows),
     Binding |-> Class(Binding_copies, Binding_frees, Binding_marks, Binding_shows),
     BracketExpr |->
        Class(BracketExpr_copies, BracketExpr_frees, BracketExpr_marks, BracketExpr_shows),
     Closure |-> Class({}, Closure_frees, Closure_marks, Closure_shows),
     Cobegin |-> Class(Cobegin_copies, Cobegin_frees, Cobegin_marks, Cobegin_shows),
     Do |-> Class(Do_copies, Do_frees, Do_marks, Do_shows),
     HashTable |-> Class(HashTable_copies, HashTable_frees, HashTable_marks, HashTable_shows),
     Link |-> Class(Link_copies, HashTable_frees, HashTable_marks, Link_shows),
     If |-> Class(If_copies, If_frees, If_marks, If_shows),
     Let |-> Class(Let_copies, {}, Let_marks, Let_shows),
     LetIn |-> Class(LetIn_copies, LetIn_frees, LetIn_marks, LetIn_shows),
     LetRec |-> Class(LetRec_copies, LetRec_frees, LetRec_marks, LetRec_shows),
     List |-> Class(List_copies, List_frees, List_marks, <<>>),
     Loop |-> Class(Loop_copies, Loop_frees, Loop_marks, Loop_shows),
     Nondet |-> Class(Nondet_copies, Nondet_frees, Nondet_marks, Nondet_shows),
     Queue |-> Class(Queue_copies, Queue_frees, Queue_marks, Queue_shows),
     Quote |-> Class({}, Quote_frees, {}, Quote_shows),
     Record |-> Class(Record_copies, Record_frees, Record_marks, <<>>),
     RecordDefinition |->
        Class({}, RecordDefinition_frees, RecordDefinition_marks, RecordDefinition_shows),
     Field |-> Class({}, {3}, RecordDefinition_marks, Field_shows),
     RecordSpec |-> Class({}, RecordSpec_frees, RecordSpec_marks, RecordSpec_shows),
     Set |-> Class(Set_copies, Set_frees, Set_marks, Set_shows),
     Term |-> Class(Term_copies, Term_frees, Term_marks, Term_shows),
     Triple |-> Class({}, Triple_frees, Triple_marks, <<>>),
     TryCatch |-> Class(TryCatch_copies, TryCatch_frees, TryCatch_marks, TryCatch_shows),
     Tuple |-> Class(Tuple_copies, Tuple_frees, Tuple_marks, Tuple_shows),
     Continuation |-> Marking(Continuation_marks), Evaluator |-> Marking(Evaluator_marks),
     ExceptionHandler |-> Marking(ExceptionHandler_marks), File |-> Marking(File_marks),
     Iterator |-> Marking(Iterator_marks), Lock |-> Marking(Lock_marks),
     MsgQ |-> Marking(MsgQ_marks), REPL |-> Marking(REPL_marks),
     SavedEnv |-> Marking(SavedEnv_marks), Stream |-> Marking(Stream_marks),
     TCPClient |-> Marking(TCPClient_marks)]

=============================================================================
