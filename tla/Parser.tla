------------------------------- MODULE Parser -------------------------------
(***************************************************************************)
(* parser/parser.c: parsers of token lists, put together by combinators.   *)
(* A parser is a record that says what it is made of; Parse is what the    *)
(* combinators do with it.  A result has a status, "ok", "none" (the       *)
(* code's NULL) or "failed" (p_fail, which abandons everything), the       *)
(* values that the parser contributes (none for IGNORE, else one), and the *)
(* tokens it leaves.  "none" may leave fewer tokens than there were.       *)
(*                                                                         *)
(* The tokens are typed one at a time: one more while the parser looks for *)
(* it.                                                                     *)
(***************************************************************************)
EXTENDS Integers, Sequences
LOCAL INSTANCE SequencesExt

CONSTANT
    Vocabularies   \* tokens that a line may be made of, the ones that it begins with, and
                   \* the bound on their number

ASSUME ParserAssumption ==
    \A v \in Vocabularies : v.max \in Nat /\ \A t \in v.tokens \union ToSet(v.begin) : t.type # "EOI"

VARIABLES
    vocabulary, \* the one that this line is made of
    line,       \* the tokens typed so far
    parsed      \* the result of parser_parse for them

parserVars == <<vocabulary, line, parsed>>

Token(type, value) == [type |-> type, value |-> value]
EOI == Token("EOI", "")

-----------------------------------------------------------------------------
(* Objects.  The object of an atom is its token. *)

NIL == [type |-> "Nil", value |-> "nil"]
Nothing == [type |-> "NULL"]
Undefined == [type |-> "Undefined"]

\* What a parser makes of the values of its parts.
Object(type, parts) == [type |-> type, parts |-> parts]

\* The first cell of an empty queue belongs to everybody.
ListOf(elems, rest) ==
    IF rest = <<>> THEN Object("List", elems)
    ELSE IF elems = <<>> THEN Undefined
    ELSE Object("Improper", Append(elems, rest[1]))

\* A queue is filled with what a loop over the cells of a list finds.
QueueOf(list) ==
    IF list.type = "List" THEN Object("Queue", list.parts) ELSE Undefined

-----------------------------------------------------------------------------
(* Combinators. *)

p_spot(type) == [kind |-> "spot", type |-> type]
p_spotValue(type, value) == [kind |-> "spotValue", type |-> type, value |-> value]
p_required(p) == [kind |-> "required", of |-> p]
p_maybe(p, default) == [kind |-> "maybe", of |-> p, default |-> default]
p_oneOf(ps) == [kind |-> "oneOf", of |-> ps]
p_sepBy(p, separator) == [kind |-> "sepBy", of |-> p, separator |-> separator]
p_restoring(p) == [kind |-> "restoring", of |-> p]
p_ignore(p) == [kind |-> "ignore", of |-> p]

\* p_seq, and what the caller makes of the queue of values.
p_seq(makes, ps) == [kind |-> "seq", makes |-> makes, of |-> ps]

\* The two parsers that everything else is defined with.
p_any == [kind |-> "any"]
p_many == [kind |-> "many"]
p_any_required == p_required(p_any)

-----------------------------------------------------------------------------
(* Special characters, reserved words and literals. *)

p_special(char) == p_ignore(p_spotValue("Special", char))
p_special_required(char) == p_required(p_special(char))
p_reserved(word) == p_ignore(p_spotValue("Reserved", word))
p_reserved_required(word) == p_required(p_reserved(word))

p_equalSign == p_ignore(p_spotValue("Operator", "="))
p_equalSign_required == p_required(p_equalSign)
p_comma == p_special(",")
p_commaSepElems == p_sepBy(p_any, p_comma)

p_identifier == p_spot("Identifier")
p_symbol == p_spot("Symbol")
p_integer == p_spot("Integer")
Literals == <<p_spot("Nil"), p_spot("Boolean"), p_spot("String")>>

-----------------------------------------------------------------------------
(* Data structures. *)

p_array == p_seq("Array", <<p_special("{"), p_commaSepElems, p_special_required("}")>>)

p_improper == p_seq("Only", <<p_special("|"), p_any>>)
p_list ==
    p_seq("List", <<p_special("["), p_commaSepElems, p_maybe(p_improper, Nothing),
                    p_special_required("]")>>)

p_bindingLhs == p_oneOf(<<p_symbol, p_integer, p_identifier, p_list, p_array>>)
p_binding == p_restoring(p_seq("Binding", <<p_bindingLhs, p_equalSign, p_any>>))
p_binding_required == p_seq("Binding", <<p_bindingLhs, p_equalSign_required, p_any>>)
p_commaBindings == p_sepBy(p_binding_required, p_comma)
p_commaBindings_required == [kind |-> "nonEmpty", of |-> p_commaBindings]

p_hashTable ==
    p_seq("HashTable", <<p_special("#"), p_special("{"), p_commaBindings,
                         p_special_required("}")>>)
p_queue == p_seq("Queue", <<p_special("~"), p_required(p_list)>>)
p_set == p_seq("Set", <<p_special("$"), p_required(p_array)>>)
p_term == p_restoring(p_seq("Term", <<p_symbol, p_array>>))

-----------------------------------------------------------------------------
(* Expressions. *)

p_colonRhs == p_oneOf(<<p_identifier, p_symbol, p_integer>>)
p_colonExpr ==
    p_restoring(p_seq("BinOp", <<p_identifier, p_spotValue("Operator", ":"),
                                 p_required(p_colonRhs)>>))

p_parenExpr ==
    p_seq("Only", <<p_special("("), p_any_required, p_special_required(")")>>)
p_apply ==
    p_restoring(p_seq("Apply", <<p_oneOf(<<p_colonExpr, p_identifier, p_parenExpr>>),
                                 p_special("("), p_commaSepElems, p_special_required(")")>>))

p_funRule ==
    p_seq("Rule", <<p_special_required("("), p_commaSepElems, p_special_required(")"),
                    p_equalSign_required, p_maybe(p_any, Nothing)>>)
p_funRules == p_sepBy(p_funRule, p_special("|"))
p_abstraction ==
    p_seq("Fun", <<p_reserved("fun"), p_maybe(p_identifier, Nothing), p_funRules>>)

p_block(word, makes) == p_seq(makes, <<p_reserved(word), p_many, p_reserved_required("end")>>)
p_async == p_block("async", "Async")
p_cobegin == p_block("cobegin", "Cobegin")
p_do == p_block("do", "Do")
p_nondet == p_block("nondet", "Nondet")

p_bracketExpr ==
    p_seq("BracketExpr", <<p_identifier, p_special("["), p_any_required,
                           p_special_required("]")>>)
p_if ==
    p_seq("If", <<p_reserved("if"), p_any_required, p_reserved_required("then"),
                  p_any_required, p_reserved_required("else"), p_any_required>>)
p_let == p_seq("Let", <<p_reserved("let"), p_commaBindings_required>>)
p_letIn ==
    p_seq("LetIn", <<p_reserved("let"), p_commaBindings_required, p_reserved("in"),
                     p_any_required>>)
p_letRec == p_seq("LetRec", <<p_reserved("letrec"), p_commaBindings_required>>)
p_loop == p_seq("Loop", <<p_reserved("loop"), p_any_required, p_any_required>>)
p_quote ==
    p_seq("Quote", <<p_special("'"), p_any_required, p_special_required("'")>>)
p_tryCatch ==
    p_seq("TryCatch", <<p_reserved("try"), p_any_required, p_reserved_required("catch"),
                        p_funRules>>)

p_typeSpec == p_seq("Only", <<p_ignore(p_spotValue("Operator", "::")), p_symbol>>)
p_recordField ==
    p_seq("Field", <<p_required(p_identifier), p_maybe(p_typeSpec, Nothing),
                     p_maybe(p_seq("Only", <<p_equalSign, p_any_required>>), Nothing)>>)
p_recordDef ==
    p_restoring(p_seq("RecordDef", <<p_reserved("record"), p_required(p_symbol),
                                     p_equalSign_required, p_sepBy(p_recordField, p_comma)>>))
p_recordSpec ==
    p_restoring(p_seq("RecordSpec", <<p_special("#"), p_symbol, p_special("{"),
                                      p_commaBindings, p_special_required("}")>>))

\* Mistake: p_apply lower in the list.
AlternativesApplyLast ==
    <<p_parenExpr, p_term, p_tryCatch, p_recordSpec, p_recordDef, p_bracketExpr,
      p_abstraction, p_letIn, p_let, p_letRec, p_loop, p_if, p_do, p_quote, p_async,
      p_cobegin, p_nondet, p_binding, p_integer, p_spot("Real"), p_list, p_array, p_set,
      p_queue, p_hashTable, p_symbol, p_identifier, p_apply>> \o Literals

Alternatives ==
    <<p_parenExpr, p_term, p_tryCatch, p_recordSpec, p_recordDef, p_bracketExpr, p_apply,
      p_abstraction, p_letIn, p_let, p_letRec, p_loop, p_if, p_do, p_quote, p_async,
      p_cobegin, p_nondet, p_binding, p_integer, p_spot("Real"), p_list, p_array, p_set,
      p_queue, p_hashTable, p_symbol, p_identifier>> \o Literals

-----------------------------------------------------------------------------
(* What the combinators do. *)

Result(status, values, rest) == [status |-> status, values |-> values, rest |-> rest]
Ok(values, rest) == Result("ok", values, rest)
None(rest) == Result("none", <<>>, rest)
Failed(rest) == Result("failed", <<>>, rest)

\* The object that the caller of p_seq makes of the values.
Made(makes, v) ==
    CASE makes = "Only" -> v[1]
      [] makes \in {"Array", "HashTable"} -> Object(makes, v[1].parts)
      [] makes = "List" -> ListOf(v[1].parts, IF v[2] = Nothing THEN <<>> ELSE <<v[2]>>)
      [] makes = "Queue" -> QueueOf(v[1])
      [] makes = "Set" -> Object("Set", v[1].parts)
      [] OTHER -> Object(makes, v)

RECURSIVE Parse(_, _), ParseOneOf(_, _), ParseSeq(_, _, _), ParseSepBy(_, _, _), ParseMany(_, _)

\* Mistake: the next alternative goes on where the last one gave up.
ParseOneOfGoingOn(ps, tokens) ==
    IF ps = <<>> THEN None(tokens)
    ELSE LET r == Parse(Head(ps), tokens)
         IN  IF r.status # "none" THEN r ELSE ParseOneOf(Tail(ps), r.rest)

ParseOneOf(ps, tokens) ==
    IF ps = <<>> THEN None(tokens)
    ELSE LET r == Parse(Head(ps), tokens)
         IN  IF r.status # "none" THEN r ELSE ParseOneOf(Tail(ps), tokens)

\* The tokens are not restored if a part is missing.
ParseSeq(ps, tokens, values) ==
    IF ps = <<>> THEN Ok(values, tokens)
    ELSE LET r == Parse(Head(ps), tokens)
         IN  IF r.status = "ok" THEN ParseSeq(Tail(ps), r.rest, values \o r.values) ELSE r

ParseSepBy(p, tokens, values) ==
    LET r == Parse(p.of, tokens)
        s == Parse(p.separator, r.rest)
    IN  CASE r.status = "failed" -> r
          [] r.status = "none" -> IF values = <<>> THEN Ok(<<Object("Queue", <<>>)>>, r.rest)
                                  ELSE Failed(r.rest)
          [] r.status = "ok" /\ s.status = "ok" ->
                ParseSepBy(p, s.rest, values \o r.values)
          [] OTHER -> Ok(<<Object("Queue", values \o r.values)>>, s.rest)

ParseMany(tokens, values) ==
    LET r == Parse(p_any, tokens)
    IN  CASE r.status = "ok" -> ParseMany(r.rest, values \o r.values)
          [] r.status = "none" -> Ok(<<Object("Queue", values)>>, r.rest)
          [] OTHER -> r

\* An operator may follow the expression, or come without one before it.
ParseAny(r) ==
    IF r.status = "failed" \/ Head(r.rest).type # "Operator" THEN r
    ELSE LET rhs == Parse(p_any_required, Tail(r.rest))
         IN  IF rhs.status = "failed" THEN rhs
             ELSE Ok(<<Object("BinOp", <<IF r.status = "ok" THEN r.values[1] ELSE Nothing,
                                         Head(r.rest), rhs.values[1]>>)>>, rhs.rest)

Parse(p, tokens) ==
    CASE p.kind = "spot" ->
            IF Head(tokens).type = p.type THEN Ok(<<Head(tokens)>>, Tail(tokens))
            ELSE None(tokens)
      [] p.kind = "spotValue" ->
            IF Head(tokens) = Token(p.type, p.value) THEN Ok(<<Head(tokens)>>, Tail(tokens))
            ELSE None(tokens)
      [] p.kind = "any" -> ParseAny(ParseOneOf(Alternatives, tokens))
      [] p.kind = "many" -> ParseMany(tokens, <<>>)
      [] p.kind = "oneOf" -> ParseOneOf(p.of, tokens)
      [] p.kind = "sepBy" -> ParseSepBy(p, tokens, <<>>)
      [] OTHER ->
            LET r == IF p.kind = "seq" THEN ParseSeq(p.of, tokens, <<>>) ELSE Parse(p.of, tokens)
            IN  CASE p.kind = "seq" /\ r.status = "ok" -> Ok(<<Made(p.makes, r.values)>>, r.rest)
                  [] p.kind = "ignore" /\ r.status = "ok" -> Ok(<<>>, r.rest)
                  [] p.kind = "required" /\ r.status = "none" -> Failed(r.rest)
                  [] p.kind = "maybe" /\ r.status = "none" -> Ok(<<p.default>>, r.rest)
                  [] p.kind = "restoring" /\ r.status = "none" -> None(tokens)
                  [] p.kind = "nonEmpty" /\ r.status = "ok" /\ r.values[1].parts = <<>> ->
                        Failed(r.rest)
                  [] OTHER -> r

-----------------------------------------------------------------------------
(* The line. *)

parser_parse(tokens) == Parse(p_any, Append(tokens, EOI))

\* The parser came to the end of the line, or left one token: one more may change what
\* it finds.  After a hash mark nothing is certain yet.
LooksForMore ==
    IF parsed.status = "none" THEN \A i \in 1..Len(line) : line[1] = Token("Special", "#")
    ELSE Len(parsed.rest) <= IF parsed.status = "ok" THEN 2 ELSE 1

ParserInit ==
    /\ vocabulary \in Vocabularies
    /\ line = <<>> /\ parsed = None(<<EOI>>)

Type(token) ==
    /\ LooksForMore /\ Len(line) < vocabulary.max
    /\ line' = Append(line, token)
    /\ parsed' = parser_parse(line')
    /\ UNCHANGED vocabulary

ParserNext ==
    \E token \in IF Len(line) < Len(vocabulary.begin) THEN {vocabulary.begin[Len(line) + 1]}
                 ELSE vocabulary.tokens :
        Type(token)

ParserSpec == ParserInit /\ [][ParserNext]_parserVars

-----------------------------------------------------------------------------
Char(char) == Token("Special", char)
Word(word) == Token("Reserved", word)
Oper(oper) == Token("Operator", oper)

RECURSIVE TokensOf(_)
Separated(objs, separator) ==
    FlattenSeq([i \in 1..Len(objs) |->
        IF i = 1 THEN TokensOf(objs[i]) ELSE <<separator>> \o TokensOf(objs[i])])
All(objs) == FlattenSeq([i \in 1..Len(objs) |-> TokensOf(objs[i])])
Between(open, objs, close) == <<Char(open)>> \o Separated(objs, Char(",")) \o <<Char(close)>>
Block(word, queue) == <<Word(word)>> \o All(queue.parts) \o <<Word("end")>>
After(token, obj) == IF obj = Nothing THEN <<>> ELSE <<token>> \o TokensOf(obj)

\* An object written as a line, without any parenthesis.
TokensOf(obj) ==
    IF obj = Nothing THEN <<>>
    ELSE IF "parts" \notin DOMAIN obj THEN <<obj>>
    ELSE LET p == obj.parts
         IN  CASE obj.type = "List" -> Between("[", p, "]")
               [] obj.type = "Improper" ->
                     <<Char("[")>> \o Separated(Front(p), Char(",")) \o <<Char("|")>>
                     \o TokensOf(Last(p)) \o <<Char("]")>>
               [] obj.type = "Array" -> Between("{", p, "}")
               [] obj.type = "HashTable" -> <<Char("#")>> \o Between("{", p, "}")
               [] obj.type = "Queue" -> <<Char("~")>> \o Between("[", p, "]")
               [] obj.type = "Set" -> <<Char("$")>> \o Between("{", p, "}")
               [] obj.type = "Term" -> All(p)
               [] obj.type = "Binding" -> TokensOf(p[1]) \o <<Oper("=")>> \o TokensOf(p[2])
               [] obj.type = "BinOp" -> All(p)
               [] obj.type = "Apply" -> TokensOf(p[1]) \o Separated(p[2].parts, Char(","))
               [] obj.type = "BracketExpr" -> TokensOf(p[1]) \o Between("[", <<p[2]>>, "]")
               [] obj.type = "Rule" ->
                     Separated(p[1].parts, Char(",")) \o <<Oper("=")>> \o TokensOf(p[2])
               [] obj.type = "Fun" ->
                     <<Word("fun")>> \o TokensOf(p[1]) \o Separated(p[2].parts, Char("|"))
               [] obj.type = "If" ->
                     <<Word("if")>> \o TokensOf(p[1]) \o <<Word("then")>> \o TokensOf(p[2])
                     \o <<Word("else")>> \o TokensOf(p[3])
               [] obj.type = "Let" -> <<Word("let")>> \o Separated(p[1].parts, Char(","))
               [] obj.type = "LetIn" ->
                     <<Word("let")>> \o Separated(p[1].parts, Char(",")) \o <<Word("in")>>
                     \o TokensOf(p[2])
               [] obj.type = "LetRec" -> <<Word("letrec")>> \o Separated(p[1].parts, Char(","))
               [] obj.type = "Loop" -> <<Word("loop")>> \o All(p)
               [] obj.type = "Quote" -> <<Char("'")>> \o TokensOf(p[1]) \o <<Char("'")>>
               [] obj.type = "TryCatch" ->
                     <<Word("try")>> \o TokensOf(p[1]) \o <<Word("catch")>>
                     \o Separated(p[2].parts, Char("|"))
               [] obj.type = "Async" -> Block("async", p[1])
               [] obj.type = "Cobegin" -> Block("cobegin", p[1])
               [] obj.type = "Do" -> Block("do", p[1])
               [] obj.type = "Nondet" -> Block("nondet", p[1])
               [] obj.type = "RecordDef" ->
                     <<Word("record")>> \o TokensOf(p[1]) \o <<Oper("=")>>
                     \o Separated(p[2].parts, Char(","))
               [] obj.type = "Field" ->
                     TokensOf(p[1]) \o After(Oper("::"), p[2]) \o After(Oper("="), p[3])
               [] obj.type = "RecordSpec" ->
                     <<Char("#")>> \o TokensOf(p[1]) \o Between("{", p[2].parts, "}")

Unparenthesized(tokens) ==
    SelectSeq(tokens, LAMBDA t : t \notin {Char("("), Char(")")})

\* What no object holds: a bar, an equal sign and a double colon with nothing behind them
\* (p_seq and p_maybe keep what they have read).
Careless(tokens) ==
    \E i \in 1..Len(tokens) - 1 :
        \/ tokens[i] = Char("|") /\ tokens[i + 1] = Char("]")
        \/ tokens[i] = Oper("=") /\ tokens[i + 1] = Char("}")
        \/ tokens[i] = Oper("::") /\ tokens[i + 1].type # "Symbol"

Taken == SubSeq(Append(line, EOI), 1, Len(line) + 1 - Len(parsed.rest))

\* The object holds everything that was read for it, each part in its place: no
\* alternative that gave up has taken tokens along, no part is dropped, doubled or put in
\* another's place, and what follows the object is left (p_seq, p_oneOf and every parser
\* that makes an object).  Left out are lines that are careless, and those whose object
\* is undefined.
ParsedAsWritten ==
    parsed.status = "ok" /\ ~Careless(Append(line, EOI)) =>
        LET written == TokensOf(parsed.values[1])
        IN  \/ Undefined \in ToSet(written)
            \/ written = Unparenthesized(Taken)

\* The order of the alternatives loses nothing: none of them, tried alone, would have
\* taken more of the line than the first that succeeds (p_any, whose comments order
\* p_letIn before p_let and p_apply before others).  Left out is the application of an
\* expression in parentheses, which p_parenExpr makes unreachable.
TakesTheMost ==
    parsed.status = "ok" =>
        \A n \in 1..Len(Alternatives) :
            LET r == ParseAny(Parse(Alternatives[n], Append(line, EOI)))
            IN  r.status = "ok" /\ (Alternatives[n] = p_apply => Head(line) # Char("("))
                    => Len(parsed.rest) <= Len(r.rest)
=============================================================================
