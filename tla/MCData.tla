------------------------------- MODULE MCData -------------------------------
(****************************************************************************)
(* Instances of the data structures, the lexer and the parser for TLC.      *)
(* A behaviour uses one of them: they share nothing.                        *)
(****************************************************************************)
EXTENDS Queue, StringBuffer, HashTable, Arrays, Iterators, Lexer, Objects, TLC

VARIABLE subject   \* what this behaviour uses

vars == <<subject, queueVars, bufferVars, hashVars, arrayVars, iterVars, lexVars, parserVars,
          objectVars>>

Init ==
    /\ subject \in {"queue", "buffer", "hash", "array", "iterator", "lexer", "parser", "objects"}
    /\ QueueInit /\ BufferInit /\ HashInit
    /\ LexerInit /\ (subject = "lexer" \/ alphabet.max = 0)
    /\ ParserInit /\ (subject = "parser" \/ vocabulary.max = 0)
    /\ ArraysInit /\ (subject = "array" \/ array = <<>>)
    /\ ObjectsInit /\ (subject = "objects" \/ kind.max = 0)
    /\ IteratorsInit /\ (subject = "iterator" \/ iterable = Sequence(0, -1, 1))

Next ==
    /\ UNCHANGED subject
    /\ \/ /\ subject = "queue" /\ QueueNext
          /\ UNCHANGED <<bufferVars, hashVars, arrayVars, iterVars, lexVars, parserVars, objectVars>>
       \/ /\ subject = "buffer" /\ BufferNext
          /\ UNCHANGED <<queueVars, hashVars, arrayVars, iterVars, lexVars, parserVars, objectVars>>
       \/ /\ subject = "hash" /\ HashNext
          /\ UNCHANGED <<queueVars, bufferVars, arrayVars, iterVars, lexVars, parserVars, objectVars>>
       \/ /\ subject = "array" /\ ArraysNext
          /\ UNCHANGED <<queueVars, bufferVars, hashVars, iterVars, lexVars, parserVars, objectVars>>
       \/ /\ subject = "iterator" /\ IteratorsNext
          /\ UNCHANGED <<queueVars, bufferVars, hashVars, arrayVars, lexVars, parserVars, objectVars>>
       \/ /\ subject = "lexer" /\ LexerNext
          /\ UNCHANGED <<queueVars, bufferVars, hashVars, arrayVars, iterVars, parserVars, objectVars>>
       \/ /\ subject = "parser" /\ ParserNext
          /\ UNCHANGED <<queueVars, bufferVars, hashVars, arrayVars, iterVars, lexVars, objectVars>>
       \/ /\ subject = "objects" /\ ObjectsNext
          /\ UNCHANGED <<queueVars, bufferVars, hashVars, arrayVars, iterVars, lexVars, parserVars>>

Spec == Init /\ [][Next]_vars

\* The contents are interchangeable.
Symmetry == Permutations(Elems) \cup Permutations(Chars) \cup Permutations(Values)

\* Three keys that collide in four buckets, part in six and again in nine, and
\* one without hash code.
CONSTANTS k1, k2, k3, k4

MCKeys == {k1, k2, k3, k4}
MCHashCode == k1 :> 0 @@ k2 :> 4 @@ k3 :> 12

\* Two elements of one rank and a larger one.
CONSTANTS i1, i2, i3

MCRank == i1 :> 1 @@ i2 :> 1 @@ i3 :> 2

\* One character of each kind, but for the operators, which the machine tells
\* apart; the newline, which ends a comment, for the blanks, and the letter n for an
\* escape and for a reserved word.
MCBlank == {"\n"}
MCReserved == {<<"n", "n">>}

\* Short texts of every character, longer ones of those of one kind of token; one text has
\* no character at all.
Alphabet(chars, max) == [chars |-> chars, max |-> max]
MCNoAlphabets == {Alphabet({}, 0)}
MCAlphabets ==
    MCNoAlphabets \cup
    {Alphabet(AllChars, 4),
     Alphabet({"A", "n", "0", "_", "\n"}, 5),
     Alphabet({"0", ".", "-", "+", "n"}, 5),
     Alphabet({"\"", "\\", "n", "0"}, 6),
     Alphabet({";", "-", "\n", "n"}, 6)}

\* Tokens that make every kind of object, and lines long enough for each of them, some
\* with a beginning that is given; one line has no token at all.
Begun(begin, tokens, max) == [tokens |-> tokens, begin |-> begin, max |-> max]
Vocabulary(tokens, max) == Begun(<<>>, tokens, max)
a == Token("Identifier", "a")
A == Token("Symbol", "A")
eq == Oper("=")
Specials(chars) == {Char(c) : c \in chars}
Words(words) == {Word(w) : w \in words}

MCVocabularies ==
    {Vocabulary({}, 0),
     Vocabulary({a, eq} \union Specials({"[", "]", "|", ","}), 5),
     Vocabulary({a, A} \union Specials({"{", "}", "$", "#", ","}), 4),
     Begun(<<Char("#"), Char("{")>>, {a, eq} \union Specials({"}", ","}), 7),
     Begun(<<Char("#"), A, Char("{")>>, {a, eq} \union Specials({"}", ","}), 8),
     Vocabulary({a, Oper("+")} \union Specials({"(", ")"}), 4),
     Begun(<<Char("("), a, Oper("+")>>, {a, Oper("+")} \union Specials({"(", ")"}), 7),
     Vocabulary({A} \union Specials({"~", "[", "]", "'", "|"}), 5),
     Vocabulary({a, Oper(":")} \union Specials({"(", ")", ",", "[", "]"}), 5),
     Vocabulary({a, eq, Char(",")} \union Words({"let", "in", "letrec"}), 6),
     Begun(<<Word("fun")>>, {a, eq} \union Specials({"(", ")", "|", ","}), 7),
     Vocabulary({a} \union Words({"try", "catch", "fun"}), 4),
     Begun(<<Word("try"), a, Word("catch")>>, {a, eq} \union Specials({"(", ")", "|"}), 8),
     Vocabulary({a} \union Words({"if", "then", "else"}), 6),
     Vocabulary({a} \union Words({"async", "do", "end"}), 4),
     Vocabulary({a} \union Words({"cobegin", "nondet", "end"}), 4),
     Vocabulary({a, eq} \union Words({"loop", "end"}), 4),
     Begun(<<Word("record"), A, eq>>, {a, A, eq, Oper("::")}, 8),
     Vocabulary({a, A, eq} \union Words({"record"}), 3),
     Begun(<<Word("record"), A>>, {a, eq, Char(",")}, 6)}

\* Equal numbers made at two places, and types that are built upon each other: three
\* objects of one type, or two of any; strings of which one begins with another, sequences
\* of which two have one hash code; and an object of each of the interpreter's own types.
OfStock(atoms, types, lengths, made) ==
    [atoms |-> atoms, types |-> types, lengths |-> lengths, max |-> Len(atoms) + made]
one == Atom("Integer", 1, <<1>>)
oneAgain == Atom("Integer", 1, <<2>>)
two == Atom("Integer", 2, <<3>>)
name == Interned("Identifier", 1)
symbol == Interned("Symbol", 1)
nil == Interned("Nil", 1)
definition == Composite("RecordDefinition", <<symbol, Composite("Field", <<name, nil, nil>>, <<3, 1>>)>>, <<3>>)
string(cs, n) == Atom("String", cs, <<n>>)
sequence(from, to, by, n) == Atom("Sequence", <<from, to, by>>, <<n>>)

MCNoStocks == {OfStock(<<EmptyList>>, {}, {}, -1)}
MCStocks ==
    MCNoStocks \cup
    {OfStock(<<one, oneAgain, name>>, {"Array"}, 0..2, 3),
     OfStock(<<one, oneAgain, two, name, EmptyList>>, {"List"}, {2}, 2),
     OfStock(<<one, name, EmptyList>>, {"List"}, {2}, 3),
     OfStock(<<string(<<>>, 1), string(<<1>>, 2), string(<<1>>, 3), string(<<1, 2>>, 4), string(<<2>>, 5),
               sequence(1, 3, 1, 6), sequence(1, 3, 1, 7), sequence(1, 2, 2, 8)>>,
             {"Binding", "HashTable"}, {2}, 1),
     OfStock(<<symbol, name, definition>>,
             {"Array", "Binding", "Closure", "HashTable", "Queue", "Quote", "Record", "Set",
              "Term", "Tuple"}, 0..2, 2),
     OfStock(<<symbol>>,
             {"Continuation", "Evaluator", "ExceptionHandler", "File", "Iterator", "Lock", "MsgQ",
              "REPL", "SavedEnv", "Stream", "TCPClient", "Triple"}, {1, 2, 3, 9}, 1)}

=============================================================================
