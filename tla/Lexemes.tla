------------------------------- MODULE Lexemes -------------------------------
(****************************************************************************)
(* What the tokens of a text are, without a machine: a text is cut into     *)
(* lexemes, each the longest one at its place, and every lexeme has a shape *)
(* and stands for a value.                                                  *)
(****************************************************************************)
EXTENDS Integers, Sequences, FiniteSets
LOCAL INSTANCE SequencesExt
LOCAL INSTANCE FiniteSetsExt

CONSTANTS Upper, Lower, Digit, Underscore, Operators, Blank, Other, Reserved, NUL

Of(set, s) == \A i \in 1..Len(s) : s[i] \in set

Name(s) == Of(UNION {Upper, Lower, Digit, Underscore}, s)
Digits(s) == s # <<>> /\ Of(Digit, s)
Unsigned(s) == IF s # <<>> /\ Head(s) \in {"+", "-"} THEN Tail(s) ELSE s

\* A quote ends a string if the backslashes before it are escaped themselves.
Escapes(s, i) ==
    Cardinality({j \in 1..i - 1 : \A k \in j..i - 1 : s[k] = "\\"}) % 2 = 1
IsString(s) ==
    /\ Len(s) > 1 /\ Head(s) = "\"" /\ Last(s) = "\""
    /\ {i \in 2..Len(s) : s[i] = "\"" /\ ~Escapes(s, i)} = {Len(s)}

IsLineComment(s) ==
    /\ Len(s) > 1 /\ Head(s) = ";" /\ s[2] # "-"
    /\ {i \in 1..Len(s) : s[i] = "\n"} = {Len(s)}

\* The dashes of a block comment are read with the character behind them: an
\* end is a dash that is not the second of such a pair, and a semicolon.
IsBlockComment(s) ==
    /\ Len(s) > 3 /\ s[1] = ";" /\ s[2] = "-"
    /\ LET second[i \in 2..Len(s)] == i > 3 /\ s[i - 1] = "-" /\ ~second[i - 1]
       IN  {i \in 3..Len(s) : s[i] = ";" /\ second[i]} = {Len(s)}

Shape(s) ==
    CASE Head(s) \in Lower /\ Name(s) -> IF s \in Reserved THEN "Reserved" ELSE "Identifier"
      [] Head(s) \in Upper /\ Name(s) -> "Symbol"
      [] Digits(Unsigned(s)) -> "Integer"
      [] \E i \in 1..Len(s) : /\ s[i] = "." /\ Digits(Unsigned(SubSeq(s, 1, i - 1)))
                              /\ Of(Digit, SubSeq(s, i + 1, Len(s))) -> "Real"
      [] Of(Operators, s) -> "Operator"
      [] IsString(s) -> "String"
      [] IsLineComment(s) \/ IsBlockComment(s) \/ (Len(s) = 1 /\ Head(s) \in Blank) -> "Blank"
      [] Len(s) = 1 /\ Head(s) \in UNION {Underscore, Other, {"\\"}} -> "Special"
      [] OTHER -> "None"

\* The characters between the quotes, the escaped ones replaced, up to a NUL.
Contents(s) ==
    LET kept == {i \in 2..Len(s) - 1 : s[i] # "\\" \/ Escapes(s, i)}
        nth(n) == CHOOSE i \in kept : Cardinality({j \in kept : j <= i}) = n
        char(i) == CASE Escapes(s, i) /\ s[i] = "n" -> "\n"
                     [] Escapes(s, i) /\ s[i] = "0" -> NUL
                     [] OTHER -> s[i]
        chars == [n \in 1..Cardinality(kept) |-> char(nth(n))]
        ends == {i \in 1..Len(chars) : chars[i] = NUL}
    IN  IF ends = {} THEN chars ELSE SubSeq(chars, 1, Min(ends) - 1)

Value(s) ==
    LET number == IF Head(s) = "+" THEN Tail(s) ELSE s
    IN  CASE Shape(s) = "Integer" -> number
          [] Shape(s) = "Real" -> IF Last(s) = "." THEN Append(number, "0") ELSE number
          [] Shape(s) = "String" -> Contents(s)
          [] OTHER -> s

\* The line counts from one, the column from zero at the beginning of its line.
PlaceIn(text, i) ==
    LET ends == {j \in 1..i - 1 : text[j] = "\n"}
    IN  [pos |-> i - 1, line |-> 1 + Cardinality(ends),
         col |-> IF ends = {} THEN i - 1 ELSE i - 1 - Max(ends)]

\* The tokens of a text, and the end of the input behind them if there are any.
TokensIn(text) ==
    LET lexemeAt(i) ==
            SubSeq(text, i, Max({j \in i..Len(text) : Shape(SubSeq(text, i, j)) # "None"}))
        from[i \in 1..Len(text) + 1] ==
            IF i > Len(text) THEN <<>>
            ELSE LET s == lexemeAt(i)
                     rest == from[i + Len(s)]
                 IN  IF Shape(s) = "Blank" THEN rest
                     ELSE <<[type |-> Shape(s), value |-> Value(s), place |-> PlaceIn(text, i)]>>
                          \o rest
    IN  IF from[1] = <<>> THEN <<>>
        ELSE Append(from[1], [type |-> "EOI", value |-> <<>>,
                              place |-> PlaceIn(text, Len(text) + 1)])

=============================================================================
