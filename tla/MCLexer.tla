------------------------------- MODULE MCLexer -------------------------------
(***************************************************************************)
(* Lexer on small texts over several alphabets, and its refinement of      *)
(* TokenStream.                                                            *)
(***************************************************************************)
EXTENDS Lexer

Over(alphabet, n) == UNION {[1..k -> alphabet] : k \in 0..n}

Pieces(words, n) == {FlattenSeq(f) : f \in Over({Spell(w) : w \in words}, n)}

Layout == Over({"/", "*", NewLine, "a"}, 4) \cup Pieces({"/*", "*/", "//", "a", " ", "/", NewLine}, 3)
Quotes ==
    Over({Quote, DoubleQuote, Backslash, "n", NewLine}, 4)
    \cup {Spell(s) : s \in {"'\\0'", "\"\\x\"", "\"a\\", "'a"}}
Numerals == Over({"0", "8", "x", ".", "e", "+", "_"}, 3)

\* Numbers at the boundaries of the types' ranges, with every suffix.
IntegerTexts ==
    {Spell(digits) \o Spell(suffix) :
        digits \in {"0", "7", "8", "15", "16", "127", "128", "255", "256",
                    "07", "017", "020", "0177", "0200", "0377", "0400",
                    "0x7", "0XF", "0x10", "0x7f", "0x80", "0xFF", "0x100", "0x0x1", "0b111", "0B1000"},
        suffix \in {"", "u", "U", "l", "L", "ul", "uL", "Ul", "UL", "lu", "lU", "Lu", "LU", "ll", "LL",
                    "ull", "uLL", "Ull", "ULL", "llu", "llU", "LLu", "LLU", "lL", "f", "x", "uu", "lul"}}

FloatTexts ==
    {Spell(whole) \o Spell(part) \o Spell(power) \o Spell(suffix) :
        whole \in {"", "1", "0x", "0x1", "0xe"}, part \in {"", ".", ".8"},
        power \in {"", "e1", "e+1", "p-1"}, suffix \in {"", "f", "L", "lf"}}

Marks == {"+", "-", ">", "<", "=", ".", "&", "|", "*", "/", "%", "^", "!", "~", "?", ":",
          "[", "]", "{", "}", "(", ")", ",", ";", "#", "@"}
MarkTexts == Over(Marks, 2) \cup Over({"<", ">", "=", "."}, 3)

WordTexts ==
    {Spell(pre) \o Spell(word) \o Spell(post) :
        pre \in {"", "_"}, word \in KeywordSpellings \cup {"x", "goto", "ints", "In"}, post \in {"", "1"}}

\* Character constants behind numbers, and lines behind literals and comments.
LineTexts ==
    {Spell(a) \o Spell(b) \o Spell(c) :
        a \in {"", "1", "16", "1.5", "'n'"}, b \in {" ", NewLine, "//", "/*\n*/"},
        c \in {"'a'", "'\\n'", "\"a\" b", "\"\\n\"", "a\nb"}}

SomeTexts == Layout \cup Quotes \cup Numerals \cup IntegerTexts \cup FloatTexts \cup MarkTexts \cup WordTexts \cup LineTexts

TS == INSTANCE TokenStream WITH tok <- Seen(tok), saved <- [k \in DOMAIN begins |-> Seen(begins[k])]

Implements == TS!TokenStreamSpec
=============================================================================
