-------------------------------- MODULE Lexer --------------------------------
(****************************************************************************)
(* lexer/lexer.c over data/stringstream.c: a machine that reads one         *)
(* character a step, or takes back the last one.  The text is chosen while  *)
(* it is read; NUL ends it.  In a comment, and after a backslash, the NUL   *)
(* is taken for a character like others and the machine reads on, behind    *)
(* the memory of the text: what happens then is undefined.                  *)
(****************************************************************************)
EXTENDS Integers, Sequences
LOCAL INSTANCE SequencesExt

CONSTANTS
    Upper, Lower, Digit,   \* characters: A to Z, a to z, 0 to 9
    Underscore, Operators, \* the other characters of words and of operators
    Blank,                 \* characters that separate and mean nothing else
    Other,                 \* characters that are tokens of their own
    Reserved,              \* the reserved words, true, false and nil
    Alphabets              \* bound: the characters that a text is made of, and how many


NUL == "NUL"
NoChar == "none"

AllChars ==
    UNION {Upper, Lower, Digit, Underscore, Operators, Blank, Other, {";", "\"", "\\"}}

ASSUME LexerAssumption ==
    /\ {"+", "-", "."} \subseteq Operators /\ "\n" \in Blank /\ "_" \in Underscore
    /\ \A a \in Alphabets : a.chars \subseteq AllChars /\ a.max \in Nat

VARIABLES
    alphabet,    \* what this text is made of
    text,        \* the characters read so far, without the NUL
    stream,      \* pos, col, line and prevChar of the stream
    ungetChar,
    lexState,    \* state, or how the machine stopped: "done", "error", "undefined"
    lexeme,
    start,       \* pos, col and line of the token
    lexTokens

lexVars == <<alphabet, text, stream, ungetChar, lexState, lexeme, start, lexTokens>>

LexerInit ==
    /\ alphabet \in Alphabets
    /\ text = <<>>
    /\ stream = [pos |-> -1, col |-> -1, line |-> 1, prevChar |-> NoChar]
    /\ ungetChar = NoChar
    /\ lexState = "Initial"
    /\ lexeme = <<>>
    /\ start = [pos |-> -1, col |-> -1, line |-> 1]
    /\ lexTokens = <<>>

-----------------------------------------------------------------------------
WordChar == UNION {Upper, Lower, Digit, Underscore}

\* stringStream_get, which notices the end of a line one character late.
Advanced(c) ==
    [pos |-> stream.pos + 1,
     col |-> IF stream.prevChar = "\n" THEN 0 ELSE stream.col + 1,
     line |-> IF stream.prevChar = "\n" THEN stream.line + 1 ELSE stream.line,
     prevChar |-> c]

Place(s) == [pos |-> s.pos, col |-> s.col, line |-> s.line]

\* The machine looks at c: the one it took back, or the next one.
Get(c) ==
    /\ UNCHANGED alphabet
    /\ \/ /\ ungetChar # NoChar /\ c = ungetChar
          /\ UNCHANGED <<text, stream>>
       \/ /\ ungetChar = NoChar
          /\ stream.prevChar # NUL
          /\ \/ c # NUL /\ Len(text) < alphabet.max /\ text' = Append(text, c)
             \/ c = NUL /\ text' = text
          /\ stream' = Advanced(c)

\* An escaped 0 is a NUL in the text of the string, and string_new stops there.
Escaped(c) == CASE c = "n" -> "\n" [] c = "0" -> NUL [] OTHER -> c

UpToNUL(chars) ==
    IF Contains(chars, NUL) THEN SubSeq(chars, 1, SelectInSeq(chars, LAMBDA c : c = NUL) - 1)
    ELSE chars

TokenOf(type, chars, place) ==
    [type |-> IF type # "Word" THEN type
              ELSE IF chars \in Reserved THEN "Reserved" ELSE "Identifier",
     value |-> UpToNUL(chars),
     place |-> place]

\* What a state does with the character: go on in state s with more of the
\* lexeme, or end a token; the character is used or taken back.
Go(s, written) ==
    /\ lexState' = s /\ lexeme' = lexeme \o written
    /\ UNCHANGED lexTokens
Emit(type, written) ==
    /\ lexTokens' = Append(lexTokens, TokenOf(type, lexeme \o written, start'))
    /\ lexState' = "Initial" /\ lexeme' = <<>>
Used == ungetChar' = NoChar /\ UNCHANGED start
TakenBack(c) == ungetChar' = c /\ UNCHANGED start

\* No token is without a character of its own, so that the end of the input
\* is marked only behind one.
EndOfInput ==
    /\ lexTokens' = IF lexTokens = <<>> THEN <<>>
                    ELSE Append(lexTokens, [type |-> "EOI", value |-> <<>>,
                                            place |-> Place(stream')])
    /\ lexState' = "done"
    /\ UNCHANGED lexeme

InInitial(c) ==
    /\ ungetChar' = NoChar
    /\ start' = Place(stream')
    /\ \/ c \in Upper /\ Go("Symbol", <<c>>)
       \/ c \in Lower /\ Go("Word", <<c>>)
       \/ c \in Digit /\ Go("Number", <<c>>)
       \/ c = "+" /\ Go("Plus", <<>>)
       \/ c = "-" /\ Go("Minus", <<>>)
       \/ c = "\"" /\ Go("String", <<>>)
       \/ c \in Operators \ {"+", "-"} /\ Go("Operator", <<c>>)
       \/ c \in Blank /\ Go("Initial", <<>>)
       \/ c = ";" /\ Go("Comment", <<>>)
       \/ c \in Underscore \cup Other \cup {"\\"} /\ Emit("Special", <<c>>)
       \/ c = NUL /\ EndOfInput

\* Mistake: a word has no digits.
InWordOrSymbolLetters(s, c) ==
    \/ c \in WordChar \ Digit /\ Used /\ Go(s, <<c>>)
    \/ c \notin WordChar \ Digit /\ TakenBack(c) /\ Emit(s, <<>>)

InWordOrSymbol(s, c) ==
    \/ c \in WordChar /\ Used /\ Go(s, <<c>>)
    \/ c \notin WordChar /\ TakenBack(c) /\ Emit(s, <<>>)

InNumber(c) ==
    \/ c \in Digit /\ Used /\ Go("Number", <<c>>)
    \/ c = "." /\ Used /\ Go("Dot", <<c>>)
    \/ c \notin Digit \cup {"."} /\ TakenBack(c) /\ Emit("Integer", <<>>)

InDot(c) ==
    \/ c \in Digit /\ Used /\ Go("Real", <<c>>)
    \/ c \notin Digit /\ TakenBack(c) /\ Emit("Real", <<"0">>)

InReal(c) ==
    \/ c \in Digit /\ Used /\ Go("Real", <<c>>)
    \/ c \notin Digit /\ TakenBack(c) /\ Emit("Real", <<>>)

InOperator(c) ==
    \/ c \in Operators /\ Used /\ Go("Operator", <<c>>)
    \/ c \notin Operators /\ TakenBack(c) /\ Emit("Operator", <<>>)

\* The sign of a number is kept if it is a minus.
InPlus(c) ==
    \/ c \in Digit /\ Used /\ Go("Number", <<c>>)
    \/ c \notin Digit /\ TakenBack(c) /\ Go("Operator", <<"+">>)

InMinus(c) ==
    \/ c \in Digit /\ Used /\ Go("Number", <<"-", c>>)
    \/ c \notin Digit /\ TakenBack(c) /\ Go("Operator", <<"-">>)

InString(c) ==
    /\ Used
    /\ \/ c = "\\" /\ Go("EscapedChar", <<>>)
       \/ c = "\"" /\ Emit("String", <<>>)
       \/ c = NUL /\ Go("error", <<>>)
       \/ c \notin {"\\", "\"", NUL} /\ Go("String", <<c>>)

InEscapedChar(c) == Used /\ Go("String", <<Escaped(c)>>)

InComment(c) ==
    /\ Used
    /\ \/ c = "-" /\ Go("BlockComment1", <<>>)
       \/ c \in {"\n", NUL} /\ Go("Initial", <<>>)
       \/ c \notin {"-", "\n", NUL} /\ Go("LineComment", <<>>)

InLineComment(c) ==
    /\ Used
    /\ \/ c \in {"\n", NUL} /\ Go("Initial", <<>>)
       \/ c \notin {"\n", NUL} /\ Go("LineComment", <<>>)

InBlockComment1(c) ==
    /\ Used
    /\ \/ c = "-" /\ Go("BlockComment2", <<>>)
       \/ c = NUL /\ Go("error", <<>>)
       \/ c \notin {"-", NUL} /\ Go("BlockComment1", <<>>)

InBlockComment2(c) ==
    /\ Used
    /\ \/ c = ";" /\ Go("Initial", <<>>)
       \/ c # ";" /\ Go("BlockComment1", <<>>)

\* The machine asks for the character behind the NUL.
ReadPastTheEnd ==
    /\ lexState \notin {"done", "error", "undefined"}
    /\ stream.prevChar = NUL /\ ungetChar = NoChar
    /\ lexState' = "undefined"
    /\ UNCHANGED <<alphabet, text, stream, ungetChar, lexeme, start, lexTokens>>

LexerNext ==
    \/ ReadPastTheEnd
    \/ \E c \in alphabet.chars \cup {NUL} :
          /\ Get(c)
          /\ \/ lexState = "Initial" /\ InInitial(c)
             \/ lexState \in {"Word", "Symbol"} /\ InWordOrSymbol(lexState, c)
             \/ lexState = "Number" /\ InNumber(c)
             \/ lexState = "Dot" /\ InDot(c)
             \/ lexState = "Real" /\ InReal(c)
             \/ lexState = "Operator" /\ InOperator(c)
             \/ lexState = "Plus" /\ InPlus(c)
             \/ lexState = "Minus" /\ InMinus(c)
             \/ lexState = "String" /\ InString(c)
             \/ lexState = "EscapedChar" /\ InEscapedChar(c)
             \/ lexState = "Comment" /\ InComment(c)
             \/ lexState = "LineComment" /\ InLineComment(c)
             \/ lexState = "BlockComment1" /\ InBlockComment1(c)
             \/ lexState = "BlockComment2" /\ InBlockComment2(c)

LexerSpec == LexerInit /\ [][LexerNext]_lexVars

-----------------------------------------------------------------------------
L == INSTANCE Lexemes

\* The characters taken back, the tokens begun in one state and ended in
\* another and the place kept for the last of them make of every text the
\* longest lexemes, with their values and places; the machine gives up only at
\* something that no continuation of the text up to there has ended.
LexesAsWritten ==
    /\ lexState = "done" => lexTokens = L!TokensIn(text)
    /\ lexState = "error" =>
          \A i \in start.pos + 1..Len(text) :
              L!Shape(SubSeq(text, start.pos + 1, i)) = "None"

=============================================================================
