----------------------------- MODULE Characters -----------------------------
(***************************************************************************)
(* The characters of a program's text and the words spelled with them.     *)
(***************************************************************************)
EXTENDS Integers, SequencesExt

Quote == "'"
DoubleQuote == "\""
Backslash == "\\"
NewLine == "\n"
Null == "NUL"

WhiteSpace == {" ", "\r", NewLine, "\t"}

Digits == {"0", "1", "2", "3", "4", "5", "6", "7", "8", "9"}
HexLetters == {"a", "b", "c", "d", "e", "f", "A", "B", "C", "D", "E", "F"}
Letters ==
    HexLetters
    \cup {"g", "h", "i", "j", "k", "l", "m", "n", "o", "p", "q", "r", "s", "t", "u", "v", "w", "x", "y", "z"}
    \cup {"G", "H", "I", "J", "K", "L", "M", "N", "O", "P", "Q", "R", "S", "T", "U", "V", "W", "X", "Y", "Z"}
Alnum == Digits \cup Letters

DigitsOf(base) ==
    CASE base = 2  -> {"0", "1"}
      [] base = 8  -> Digits \ {"8", "9"}
      [] base = 10 -> Digits
      [] base = 16 -> Digits \cup HexLetters

DigitValue ==
    ("0" :> 0) @@ ("1" :> 1) @@ ("2" :> 2) @@ ("3" :> 3) @@ ("4" :> 4) @@ ("5" :> 5) @@ ("6" :> 6)
    @@ ("7" :> 7) @@ ("8" :> 8) @@ ("9" :> 9) @@ ("a" :> 10) @@ ("b" :> 11) @@ ("c" :> 12) @@ ("d" :> 13)
    @@ ("e" :> 14) @@ ("f" :> 15) @@ ("A" :> 10) @@ ("B" :> 11) @@ ("C" :> 12) @@ ("D" :> 13)
    @@ ("E" :> 14) @@ ("F" :> 15)

\* The number that these digits write.
ValueOf(digits, base) == FoldLeft(LAMBDA n, d : n * base + DigitValue[d], 0, digits)

Concat(characters) == FoldLeft(LAMBDA word, c : word \o c, "", characters)

Spell(word) == [i \in 1..Len(word) |-> SubSeq(word, i, i)]

\* What a letter behind a backslash stands for.
Escapes == ("n" :> NewLine) @@ ("t" :> "\t") @@ ("r" :> "\r") @@ ("a" :> "BEL") @@ ("b" :> "BS")
           @@ ("f" :> "\f") @@ ("v" :> "VT")

KeywordSpellings ==
    {"int", "if", "else", "for", "break", "continue", "sizeof", "struct", "union", "return", "void",
     "char", "const", "volatile", "static", "while", "do", "switch", "case", "default", "short", "long",
     "float", "double", "signed", "unsigned", "typedef", "auto", "extern", "register", "inline"}

=============================================================================
