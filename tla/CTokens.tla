------------------------------- MODULE CTokens -------------------------------
(***************************************************************************)
(* The tokens of a text as the C standard (C11, 6.4) has them, apart from  *)
(* the way Lexer finds them: a token is the longest piece of the text that *)
(* is a word, a number, a constant, a string or a punctuator, and a number *)
(* is then held against the grammar of constants.  Left out: the trigraphs,*)
(* the encoding prefixes, the numeric escapes, and constants of several    *)
(* characters, whose value is the implementation's.  Binary constants are  *)
(* in, as the usual compilers have them.                                   *)
(***************************************************************************)
EXTENDS Characters

CONSTANTS IntBits, LongBits

VARIABLE text

End == Len(text) + 1
At(i) == IF i \in DOMAIN text THEN text[i] ELSE "end"
Slice(i, j) == SubSeq(text, i, j - 1)
Reads(i, word) == i + Len(word) <= End /\ Concat(Slice(i, i + Len(word))) = word

-----------------------------------------------------------------------------
(* What stands between tokens *)

\* The places behind a comment that is opened at i; none, if nothing closes it.
Closings(i) == {j \in (i+4)..End : Reads(j - 2, "*/")}

\* From each place: where the next token starts, and the comments passed.
Blanks ==
    LET from[i \in 1..End] ==
          LET comment(j) == [from[j] EXCEPT !.comments = @ \cup {[first |-> i, next |-> j]}]
          IN  CASE At(i) \in WhiteSpace -> from[i + 1]
                [] Reads(i, "//") -> from[Min({j \in i..End : At(j) \in {NewLine, "end"}})]
                [] Reads(i, "/*") /\ Closings(i) # {} -> comment(Min(Closings(i)))
                [] OTHER -> [start |-> i, comments |-> {}]
    IN  from

NextStart(i) == Blanks[i].start

-----------------------------------------------------------------------------
(* The pieces that a text is cut into *)

IsWord(s) == Head(s) \in Letters \cup {"_"} /\ ToSet(s) \subseteq Alnum \cup {"_"}

\* A preprocessing number, which every number of the language is.
IsPpNumber(s) ==
    /\ Head(s) \in Digits \/ (Head(s) = "." /\ Len(s) > 1 /\ s[2] \in Digits)
    /\ \A k \in DOMAIN s :
          \/ s[k] \in Alnum \cup {"_", "."}
          \/ k > 1 /\ s[k] \in {"+", "-"} /\ s[k-1] \in {"e", "E", "p", "P"}

Punctuators ==
    {"[", "]", "(", ")", "{", "}", ".", "->", "++", "--", "&", "*", "+", "-", "~", "!", "/", "%", "<<", ">>",
     "<", ">", "<=", ">=", "==", "!=", "^", "|", "&&", "||", "?", ":", ";", "...", "=", "*=", "/=", "%=", "+=",
     "-=", "<<=", ">>=", "&=", "^=", "|=", ",", "#", "##", "<:", ":>", "<%", "%>", "%:", "%:%:"}

SimpleEscapes == DOMAIN Escapes \cup {Quote, DoubleQuote, "?", Backslash}

\* The characters that a quoted piece stands for: a set of one sequence, or of none.
Decoded(s, quote) ==
    LET from[k \in 1..(Len(s) + 1)] ==
          IF k > Len(s) THEN {<<>>}
          ELSE IF s[k] \in {quote, NewLine} THEN {}
          ELSE IF s[k] # Backslash THEN {<<s[k]>> \o r : r \in from[k + 1]}
          ELSE IF k = Len(s) \/ s[k+1] \notin SimpleEscapes THEN {}
          ELSE {<<IF s[k+1] \in DOMAIN Escapes THEN Escapes[s[k+1]] ELSE s[k+1]>> \o r : r \in from[k + 2]}
    IN  from[1]

Inner(s) == SubSeq(s, 2, Len(s) - 1)

Quoted(s, quote) == Len(s) >= 2 /\ Head(s) = quote /\ Last(s) = quote

IsCharacter(s) == Quoted(s, Quote) /\ \E c \in Decoded(Inner(s), Quote) : Len(c) = 1
IsString(s) == Quoted(s, DoubleQuote) /\ Decoded(Inner(s), DoubleQuote) # {}

IsPiece(s) ==
    \/ IsWord(s) \/ IsPpNumber(s) \/ IsCharacter(s) \/ IsString(s)
    \/ Len(s) <= 4 /\ Concat(s) \in Punctuators

\* The ends of the pieces at i.  The token is the longest one.
PieceEnds(i) == {j \in (i+1)..End : IsPiece(Slice(i, j))}

-----------------------------------------------------------------------------
(* Numbers *)

Ends(s, tails) == {k \in 0..Len(s) : Concat(SubSeq(s, k + 1, Len(s))) \in tails}

AllIn(s, chars) == ToSet(s) \subseteq chars

Base(s) ==
    CASE Len(s) > 2 /\ s[1] = "0" /\ s[2] \in {"x", "X"} -> 16
      [] Len(s) > 2 /\ s[1] = "0" /\ s[2] \in {"b", "B"} -> 2
      [] s[1] = "0" /\ ~(Len(s) > 2 /\ s[2] \in {"x", "X", "b", "B"}) -> 8
      [] OTHER -> 10

DigitsPart(s) == IF Base(s) \in {2, 16} THEN SubSeq(s, 3, Len(s)) ELSE s

IsInteger(s) == s # <<>> /\ AllIn(DigitsPart(s), DigitsOf(Base(s)))

USuffixes == {"u", "U"}
LSuffixes == {"l", "L"}
LLSuffixes == {"ll", "LL"}
Either(A, B) == {a \o b : a \in A, b \in B} \cup {b \o a : a \in A, b \in B}
IntegerSuffixes ==
    {""} \cup USuffixes \cup LSuffixes \cup LLSuffixes
    \cup Either(USuffixes, LSuffixes) \cup Either(USuffixes, LLSuffixes)

\* The integer constants that s may be, as digits and suffix: one or none.
IntegerSplits(s) ==
    {[digits |-> SubSeq(s, 1, k), suffix |-> Concat(SubSeq(s, k + 1, Len(s)))] :
        k \in {k \in Ends(s, IntegerSuffixes) : IsInteger(SubSeq(s, 1, k))}}

\* The types of 6.4.4.1 in their order, and the number of bits of their values.
TypeOrder == <<"Int", "UInt", "Long", "ULong", "LLong", "ULLong">>
ValueBits(ty) == CASE ty = "Int" -> IntBits - 1 [] ty = "UInt" -> IntBits
                   [] ty \in {"Long", "LLong"} -> LongBits - 1 [] OTHER -> LongBits

Allowed(base, suffix) ==
    LET unsigned == {"UInt", "ULong", "ULLong"}
        signs == CASE suffix \notin {""} \cup LSuffixes \cup LLSuffixes -> unsigned
                   [] base = 10 /\ suffix \in {""} \cup LSuffixes \cup LLSuffixes -> ToSet(TypeOrder) \ unsigned
                   [] OTHER -> ToSet(TypeOrder)
        ranks == CASE suffix \in {""} \cup USuffixes -> ToSet(TypeOrder)
                   [] suffix \in LSuffixes \cup Either(USuffixes, LSuffixes) -> ToSet(TypeOrder) \ {"Int", "UInt"}
                   [] OTHER -> {"LLong", "ULLong"}
    IN  signs \cap ranks

\* The first of them that holds the value.
Holding(n, base, suffix) ==
    {k \in DOMAIN TypeOrder : TypeOrder[k] \in Allowed(base, suffix) /\ n < 2^ValueBits(TypeOrder[k])}

IntegerMeaning(i) ==
    LET base == Base(i.digits)
        n == ValueOf(DigitsPart(i.digits), base)
        holding == Holding(n, base, i.suffix)
    IN  [ty |-> IF holding = {} THEN "none" ELSE TypeOrder[Min(holding)],
         value |-> [high |-> <<"int", n \div 2^IntBits>>, low |-> <<"int", n % 2^IntBits>>]]

IsExponent(s, letters) ==
    /\ Len(s) >= 2 /\ s[1] \in letters
    /\ \/ AllIn(Tail(s), Digits)
       \/ s[2] \in {"+", "-"} /\ Len(s) >= 3 /\ AllIn(Tail(Tail(s)), Digits)

\* Digits with one point among them, or with none.
HasDigits(s, digits) == s # <<>> /\ AllIn(s, digits)
IsFraction(s, digits) == \E k \in DOMAIN s : s[k] = "." /\ HasDigits(SubSeq(s, 1, k - 1) \o SubSeq(s, k + 1, Len(s)), digits)

IsDecimalFloating(s) ==
    \/ IsFraction(s, Digits)
    \/ \E k \in 1..Len(s) : /\ IsExponent(SubSeq(s, k, Len(s)), {"e", "E"})
                            /\ \/ IsFraction(SubSeq(s, 1, k - 1), Digits)
                               \/ HasDigits(SubSeq(s, 1, k - 1), Digits)

IsHexFloating(s) ==
    /\ Len(s) > 2 /\ s[1] = "0" /\ s[2] \in {"x", "X"}
    /\ \E k \in 3..Len(s) : /\ IsExponent(SubSeq(s, k, Len(s)), {"p", "P"})
                            /\ LET m == SubSeq(s, 3, k - 1)
                               IN  IsFraction(m, DigitsOf(16)) \/ HasDigits(m, DigitsOf(16))

FloatingTypes == ("" :> "Double") @@ ("f" :> "Float") @@ ("F" :> "Float") @@ ("l" :> "LDouble") @@ ("L" :> "LDouble")

FloatingSplits(s) ==
    {[number |-> SubSeq(s, 1, k), suffix |-> Concat(SubSeq(s, k + 1, Len(s)))] :
        k \in {k \in Ends(s, DOMAIN FloatingTypes) : IsDecimalFloating(SubSeq(s, 1, k)) \/ IsHexFloating(SubSeq(s, 1, k))}}

FloatingMeaning(f) ==
    [ty |-> FloatingTypes[f.suffix],
     value |-> [high |-> <<"real", Concat(f.number)>>, low |-> <<"real", Concat(f.number)>>]]

\* What a number means: a set of one meaning, or of none.
NumberMeanings(s) ==
    {IntegerMeaning(i) : i \in IntegerSplits(s)} \cup {FloatingMeaning(f) : f \in FloatingSplits(s)}

-----------------------------------------------------------------------------
(* Tokens *)

Keywords ==
    {"auto", "break", "case", "char", "const", "continue", "default", "do", "double", "else", "enum", "extern",
     "float", "for", "goto", "if", "inline", "int", "long", "register", "restrict", "return", "short", "signed",
     "sizeof", "static", "struct", "switch", "typedef", "union", "unsigned", "void", "volatile", "while"}

RowOf(i) == 1 + Cardinality({j \in 1..(i-1) : At(j) = NewLine})
ColumnOf(i) == i - Max({0} \cup {j \in 1..(i-1) : At(j) = NewLine})

EofToken == [type |-> "eof"]
Invalid == [type |-> "invalid"]

\* The token whose piece is from i to j.
TokenOf(i, j) ==
    LET s == Slice(i, j)
        token == [row |-> RowOf(i), col |-> ColumnOf(i), ptr |-> i, len |-> j - i]
        Plain(type) == token @@ [type |-> type]
        Number(m) == token @@ [type |-> "number"] @@ m
    IN  CASE IsWord(s) -> Plain(IF Concat(s) \in Keywords THEN Concat(s) ELSE "identifier")
          [] IsPpNumber(s) -> IF NumberMeanings(s) = {} THEN Invalid
                              ELSE LET m == CHOOSE m \in NumberMeanings(s) : TRUE
                                   IN  IF m.ty = "none" THEN Invalid ELSE Number(m)
          [] IsCharacter(s) ->
               LET c == CHOOSE c \in Decoded(Inner(s), Quote) : TRUE
               IN  Number([ty |-> "Int", value |-> [high |-> <<"int", 0>>, low |-> <<"char", Head(c)>>]])
          [] IsString(s) ->
               LET c == CHOOSE c \in Decoded(Inner(s), DoubleQuote) : TRUE
               IN  [token EXCEPT !.ptr = i + 1, !.len = j - i - 1] @@ [type |-> "str", strVal |-> c, size |-> Len(c) + 1]
          [] OTHER -> Plain(Concat(s))

\* The token that starts at i, a place where one does.
TokenAt(i) ==
    IF i = End THEN EofToken
    ELSE IF Reads(i, "/*") \/ PieceEnds(i) = {} THEN Invalid
    ELSE TokenOf(i, Max(PieceEnds(i)))

EndOf(t) == t.ptr + t.len

\* The token behind a token, and the first one.
After(t) == TokenAt(NextStart(EndOf(t)))
First == TokenAt(NextStart(1))

\* All of them, up to the end or to what is no token.
Tokens ==
    LET from[i \in 1..End] ==
          LET t == TokenAt(i)
          IN  IF t \in {EofToken, Invalid} THEN <<>> ELSE <<t>> \o from[NextStart(EndOf(t))]
    IN  from[NextStart(1)]

=============================================================================
