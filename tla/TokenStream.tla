----------------------------- MODULE TokenStream -----------------------------
(***************************************************************************)
(* What the parser relies on: a text is a row of C tokens with a mark on   *)
(* one of them.  Read moves the mark to the next token, Save remembers it  *)
(* and Restore brings it back to the place remembered last, whatever was   *)
(* read in between.  A text that is no row of tokens is reported when the  *)
(* mark gets there.  Nothing is promised of the texts that have a shape    *)
(* named below: of those the lexer has tokens of its own.                  *)
(***************************************************************************)
EXTENDS CTokens

CONSTANTS Texts, MaxSaved

VARIABLES
    tok,        \* the token at the mark
    saved,      \* the tokens remembered, the last one at the end
    outcome     \* "running", "reported" or "overrun"

-----------------------------------------------------------------------------
(* The shapes *)

\* Around a comment c: the character behind it is skipped with it, and its opening
\* may already close it.
CommentShape(c) == At(c.next) \notin WhiteSpace \cup {"end"} \/ Reads(c.first, "/*/")

\* Where no token can be read.
StartsHex(s) == Len(s) >= 2 /\ s[1] = "0" /\ s[2] \in {"x", "X"}

WholeFloat(s) == AllIn(s, Digits) \/ (Last(s) \in {"f", "F", "l", "L"} /\ HasDigits(Front(s), Digits))
PowerlessHex(s) == StartsHex(s) /\ "." \in ToSet(s) /\ ToSet(s) \cap {"p", "P"} = {}
TwoPrefixes(s) == Len(s) > 4 /\ s[1] = "0" /\ s[3] = "0" /\ {s[2], s[4]} \subseteq {"x", "X", "b", "B"}
Underscored(s) == "_" \in ToSet(s)
TooLarge(s) == \E m \in NumberMeanings(s) : m.ty = "none"

NumberShape(s) ==
    IsPpNumber(s) /\ (WholeFloat(s) \/ PowerlessHex(s) \/ TwoPrefixes(s) \/ Underscored(s) \/ TooLarge(s))

RawNewLine(p) == \E j \in p..End : At(j) = NewLine
LoneQuote(p) == Reads(p, "'''")
CutOff(p) == At(p) = Quote /\ p = End - 1
OtherEscape(p) == \E i \in p..End : At(i) = Backslash /\ At(i + 1) \notin SimpleEscapes

StuckShape(p) ==
    \/ Reads(p, "/*")
    \/ At(p) \in {Quote, DoubleQuote} /\ (RawNewLine(p) \/ LoneQuote(p) \/ CutOff(p) \/ OtherEscape(p))
    \/ PieceEnds(p) # {} /\ NumberShape(Slice(p, Max(PieceEnds(p))))

\* At a token.  The number read last leaves the high word of a character constant:
\* only that of a small integer is what it should be.
StaleWord(tokens, k) ==
    /\ At(tokens[k].ptr) = Quote
    /\ LET before == {j \in 1..(k-1) : tokens[j].type = "number"}
       IN  before = {} \/ tokens[Max(before)].value.high # <<"int", 0>>

Unknown == {"enum", "goto", "restrict", "#", "##", "<:", ":>", "<%", "%>", "%:", "%:%:"}

TokenShape(tokens, k) ==
    CASE tokens[k].type = "str"    -> tokens[k].size # tokens[k].len
      [] tokens[k].type = "number" -> StaleWord(tokens, k) \/ tokens[k].ty \in {"LLong", "ULLong"}
      [] OTHER                     -> tokens[k].type \in Unknown

\* Texts without these: what the stream promises is about them.
ReadAsWritten ==
    LET tokens == Tokens
        places == {1} \cup {EndOf(t) : t \in ToSet(tokens)}
        blanks == [p \in places |-> Blanks[p]]
    IN  /\ \A p \in places : \A c \in blanks[p].comments : ~CommentShape(c)
        /\ \A p \in {blanks[q].start : q \in places} : TokenAt(p) = Invalid => ~StuckShape(p)
        /\ \A k \in DOMAIN tokens : ~TokenShape(tokens, k)

-----------------------------------------------------------------------------
(* The stream *)

StartToken == [type |-> "none", ptr |-> 1, len |-> 0]

Init ==
    /\ text \in Texts
    /\ tok = StartToken
    /\ saved = <<>>
    /\ outcome = "running"

Read ==
    /\ tok # EofToken
    /\ IF After(tok) = Invalid
       THEN outcome' = "reported" /\ UNCHANGED tok
       ELSE tok' = After(tok) /\ UNCHANGED outcome
    /\ UNCHANGED saved

Save ==
    /\ Len(saved) < MaxSaved
    /\ saved' = Append(saved, tok)
    /\ UNCHANGED <<tok, outcome>>

Restore ==
    /\ saved # <<>>
    /\ tok' = Last(saved)
    /\ saved' = Front(saved)
    /\ UNCHANGED outcome


Next ==
    \/ outcome = "running" /\ UNCHANGED text /\ (Read \/ Save \/ Restore)
    \/ ~ReadAsWritten /\ UNCHANGED text

TokenStreamSpec == Init /\ [][Next]_<<text, tok, saved, outcome>>

=============================================================================
