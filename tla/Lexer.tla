-------------------------------- MODULE Lexer --------------------------------
(***************************************************************************)
(* Lexer::NextToken on a buffer of characters, with the saved positions    *)
(* that the parser's reading ahead returns to.  The client of the lexer is *)
(* the parser, in any order of its three calls: it reads a token unless it *)
(* has the last, saves the position with the token it holds, and restores  *)
(* both.  The characters are skipped in steps, each one turn of the loop.  *)
(***************************************************************************)
EXTENDS Characters

CONSTANTS
    Texts,      \* the buffers that are read
    IntBits,    \* the width of int, 32
    LongBits,   \* the width of long, 64
    MaxSaved    \* the deepest nesting of saved positions

ASSUME TextsAssumption == Texts \subseteq Seq(STRING)
ASSUME SavedAssumption == MaxSaved \in Nat
ASSUME WidthsAssumption == IntBits \in Nat \ {0} /\ LongBits \in Nat /\ LongBits > IntBits

VARIABLES
    text,
    BufPtr, LineHeadPtr, row,
    stateStack,
    tok,        \* Parser::tok, which NextToken writes
    begins,     \* the tokens that the parser keeps with the saved positions
    phase,      \* "idle", or "skipping" in a call of NextToken
    outcome     \* "running", "reported" or "overrun"

position == <<BufPtr, LineHeadPtr, row>>
clientVars == <<stateStack, begins>>
vars == <<text, position, clientVars, tok, phase, outcome>>

BufEnd == Len(text) + 1

\* The buffer ends with a null character; what follows is not the lexer's.
Char(i) == IF i \in DOMAIN text THEN text[i] ELSE Null

Spelling(from, to) == Concat(SubSeq(text, from, to - 1))

StartWith(i, s) == \E to \in (i+1)..(i+3) : to <= BufEnd /\ Spelling(i, to) = s

\* The first place from i on with a character that is not in S.
Run(S, i) == Min({j \in i..BufEnd : Char(j) \notin S})

-----------------------------------------------------------------------------
(* Tokens *)

\* A number's value is two words; a character is written to the low one only.
Words(n) == [high |-> <<"int", n \div 2^IntBits>>, low |-> <<"int", n % 2^IntBits>>]
Real(spelling) == [high |-> <<"real", spelling>>, low |-> <<"real", spelling>>]

\* What an uninitialised value has in it, and what a char leaves there.
Garbage == [high |-> <<"garbage", 0>>, low |-> <<"garbage", 0>>]

NoToken == [type |-> "none", row |-> 0, col |-> 0, ptr |-> 1, len |-> 0,
            ty |-> "none", value |-> Garbage, strVal |-> <<>>, size |-> 0]

Idle(t, next) ==
    /\ tok' = t
    /\ BufPtr' = next
    /\ phase' = "idle"
    /\ UNCHANGED <<text, LineHeadPtr, row, clientVars, outcome>>

Stop(how) == outcome' = how /\ UNCHANGED <<text, position, clientVars, tok, phase>>

Report == Stop("reported")

\* The token that starts at BufPtr, with what it does not set as it was.
Here == [tok EXCEPT !.row = row, !.col = BufPtr - LineHeadPtr + 1]

Token(type, next) == [Here EXCEPT !.type = type, !.ptr = BufPtr, !.len = next - BufPtr]

Eof == Idle([tok EXCEPT !.type = "eof"], BufPtr)

-----------------------------------------------------------------------------
(* The client *)

Init ==
    /\ text \in Texts
    /\ BufPtr = 1 /\ LineHeadPtr = 1 /\ row = 1
    /\ stateStack = <<>> /\ begins = <<>>
    /\ tok = NoToken
    /\ phase = "idle"
    /\ outcome = "running"

Ready == outcome = "running" /\ phase = "idle"

NextToken ==
    /\ Ready
    /\ tok.type # "eof"
    /\ phase' = "skipping"
    /\ UNCHANGED <<text, position, clientVars, tok, outcome>>

SaveState ==
    /\ Ready
    /\ Len(stateStack) < MaxSaved
    /\ stateStack' = Append(stateStack, position)
    /\ begins' = Append(begins, tok)
    /\ UNCHANGED <<text, position, tok, phase, outcome>>

RestorePositionOnly ==
    /\ Ready
    /\ stateStack # <<>>
    /\ BufPtr' = Last(stateStack)[1]
    /\ stateStack' = Front(stateStack)
    /\ tok' = Last(begins) /\ begins' = Front(begins)
    /\ UNCHANGED <<text, LineHeadPtr, row, phase, outcome>>

RestoreState ==
    /\ Ready
    /\ stateStack # <<>>
    /\ BufPtr' = Last(stateStack)[1]
    /\ LineHeadPtr' = Last(stateStack)[2]
    /\ row' = Last(stateStack)[3]
    /\ stateStack' = Front(stateStack)
    /\ tok' = Last(begins) /\ begins' = Front(begins)
    /\ UNCHANGED <<text, phase, outcome>>

-----------------------------------------------------------------------------
(* White space and comments *)

LineComment == StartWith(BufPtr, "//")
BlockComment == StartWith(BufPtr, "/*")

ToSkip == Char(BufPtr) \in WhiteSpace \/ LineComment \/ BlockComment

\* The places where the comment may end are looked for from its first character.
EndOfBlock == Min({j \in BufPtr..BufEnd : StartWith(j, "*/") \/ j = BufEnd})

Lines(from, to) == {j \in from..(to-1) : Char(j) = NewLine}

\* Where the next turn starts, if the buffer goes on behind a comment.
StayThere(after) == after
OneFurther(after) == after + 1

\* One turn of the loop: a comment, and one more character in any case.
Skip ==
    /\ outcome = "running" /\ phase = "skipping"
    /\ ToSkip
    /\ LET after == CASE LineComment  -> Min({j \in BufPtr..BufEnd : Char(j) = NewLine \/ j = BufEnd})
                      [] BlockComment -> EndOfBlock + 2
                      [] OTHER        -> BufPtr
           lines == Lines(BufPtr, IF after >= BufEnd THEN after ELSE after + 1)
       IN  /\ row' = row + Cardinality(lines)
           /\ LineHeadPtr' = IF lines = {} THEN LineHeadPtr ELSE Max(lines) + 1
           /\ IF after >= BufEnd
              THEN BufPtr' = after /\ tok' = [tok EXCEPT !.type = "eof"] /\ phase' = "idle"
              ELSE BufPtr' = OneFurther(after) /\ UNCHANGED <<tok, phase>>
    /\ UNCHANGED <<text, clientVars, outcome>>

Scanning(c) == outcome = "running" /\ phase = "skipping" /\ ~ToSkip /\ c

AtEnd ==
    /\ Scanning(BufPtr >= BufEnd)
    /\ Eof

-----------------------------------------------------------------------------
(* Literals *)

\* c_char: the character read at i and where it ends.
CChar(i) ==
    IF Char(i) # Backslash THEN [char |-> Char(i), next |-> i + 1]
    ELSE [char |-> IF Char(i+1) \in DOMAIN Escapes THEN Escapes[Char(i+1)] ELSE Char(i+1), next |-> i + 2]

CharLiteral ==
    /\ Scanning(Char(BufPtr) = Quote)
    /\ LET c == CChar(BufPtr + 1)
       IN  IF c.next > BufEnd THEN Stop("overrun")
           ELSE IF Char(c.next) # Quote THEN Report
           ELSE Idle([Token("number", c.next + 1) EXCEPT !.ty = "Int", !.value.low = <<"char", c.char>>],
                     c.next + 1)

\* The characters of a string literal from place i on, and its end: the closing
\* quote, the null character, or a place behind it.
Content(i) ==
    LET read[j \in 1..(BufEnd + 1)] ==
          IF j > BufEnd \/ Char(j) \in {DoubleQuote, Null} THEN [value |-> <<>>, end |-> j]
          ELSE LET c == CChar(j)
               IN  [read[c.next] EXCEPT !.value = <<c.char>> \o @]
    IN  read[i]

StringLiteral ==
    /\ Scanning(Char(BufPtr) = DoubleQuote)
    /\ LET c == Content(BufPtr + 1)
           len == c.end - BufPtr
       IN  IF c.end > BufEnd THEN Stop("overrun")
           ELSE IF Char(c.end) = Null THEN Report
           ELSE Idle([Here EXCEPT !.type = "str", !.ptr = BufPtr + 1, !.len = len,
                                  !.ty = "string", !.strVal = c.value, !.size = len],
                     c.end + 1)

-----------------------------------------------------------------------------
(* Numbers *)

IsNumber ==
    \/ Char(BufPtr) \in Digits
    \/ Char(BufPtr) = "." /\ Char(BufPtr + 1) \in Digits

\* A sign belongs to a number behind e, E, p or P.
NumberEnd ==
    LET end[p \in 1..BufEnd] ==
          IF Char(p) \in {"e", "E", "p", "P"} /\ Char(p+1) \in {"+", "-"} THEN end[p + 2]
          ELSE IF Char(p) \in Alnum \cup {"."} THEN end[p + 1]
          ELSE p
    IN  end[BufPtr]

Prefixed(p, x) == Char(p) = "0" /\ Char(p+1) \in x

\* strtoul, on digits of the base from p on: its value and its end.
Strtoul(p, base) ==
    LET start == IF base = 16 /\ Prefixed(p, {"x", "X"}) /\ Char(p+2) \in DigitsOf(16) THEN p + 2 ELSE p
        end == Run(DigitsOf(base), start)
        n == ValueOf(SubSeq(text, start, end - 1), base)
    IN  [value |-> IF n < 2^LongBits THEN n ELSE 2^LongBits - 1, end |-> end]

\* The suffixes, in the order in which they are tried.
SuffixTable ==
    << [spelled |-> {"LLU", "LLu", "llU", "llu", "ULL", "Ull", "uLL", "ull"}, l |-> TRUE, u |-> TRUE],
       [spelled |-> {"lu", "lU", "Lu", "LU", "ul", "uL", "Ul", "UL"}, l |-> TRUE, u |-> TRUE],
       [spelled |-> {"LL", "ll"}, l |-> TRUE, u |-> FALSE],
       [spelled |-> {"L", "l"}, l |-> TRUE, u |-> FALSE],
       [spelled |-> {"U", "u"}, l |-> FALSE, u |-> TRUE] >>

SuffixesAt(p) == {k \in DOMAIN SuffixTable : \E s \in SuffixTable[k].spelled : StartWith(p, s)}

SuffixAt(p) == IF SuffixesAt(p) = {} THEN [l |-> FALSE, u |-> FALSE, end |-> p]
             ELSE LET s == SuffixTable[Min(SuffixesAt(p))]
                  IN  [l |-> s.l, u |-> s.u,
                       end |-> p + (CHOOSE n \in 1..3 : p + n <= BufEnd /\ Spelling(p, p + n) \in s.spelled)]

\* The shifts of the value, which is signed.
Exceeds(n, bits) == n >= 2^bits

InferType(n, base, l, u) ==
    CASE l /\ u  -> "ULong"
      [] l /\ ~u -> IF base # 10 /\ Exceeds(n, LongBits - 1) THEN "ULong" ELSE "Long"
      [] u /\ ~l -> IF Exceeds(n, IntBits) THEN "ULong" ELSE "UInt"
      [] OTHER   -> CASE base # 10 /\ Exceeds(n, LongBits - 1) -> "ULong"
                      [] base = 10 /\ Exceeds(n, IntBits - 1) -> "Long"
                      [] base # 10 /\ Exceeds(n, IntBits) /\ ~Exceeds(n, LongBits - 1) -> "Long"
                      [] base # 10 /\ Exceeds(n, IntBits - 1) /\ ~Exceeds(n, IntBits) -> "UInt"
                      [] OTHER -> "Int"

\* The number from BufPtr to end as an integer, if its suffix ends there.
ConvertIntNumber(end) ==
    LET hex == Prefixed(BufPtr, {"x", "X"}) /\ Char(BufPtr + 2) \in DigitsOf(16)
        bin == Prefixed(BufPtr, {"b", "B"}) /\ Char(BufPtr + 2) \in DigitsOf(2)
        base == CASE hex -> 16 [] bin -> 2 [] ~hex /\ ~bin /\ Char(BufPtr) = "0" -> 8 [] OTHER -> 10
        n == Strtoul(IF hex \/ bin THEN BufPtr + 2 ELSE BufPtr, base)
        s == SuffixAt(n.end)
    IN  [res |-> s.end = end, value |-> Words(n.value), ty |-> InferType(n.value, base, s.l, s.u)]

\* strtold: digits with a point among them, and an exponent, of base 10 or 16.
Strtold ==
    LET hex == /\ Prefixed(BufPtr, {"x", "X"})
               /\ Char(BufPtr + 2) \in DigitsOf(16) \/ (Char(BufPtr + 2) = "." /\ Char(BufPtr + 3) \in DigitsOf(16))
        digits == DigitsOf(IF hex THEN 16 ELSE 10)
        whole == Run(digits, IF hex THEN BufPtr + 2 ELSE BufPtr)
        end == IF Char(whole) = "." THEN Run(digits, whole + 1) ELSE whole
        power == IF Char(end + 1) \in {"+", "-"} THEN end + 2 ELSE end + 1
    IN  IF Char(end) \in (IF hex THEN {"p", "P"} ELSE {"e", "E"}) /\ Char(power) \in Digits
        THEN Run(Digits, power) ELSE end

ConvertFloatNumber(end) ==
    LET stop == Strtold
        ty == CASE Char(stop) \in {"f", "F"} -> "Float" [] Char(stop) \in {"l", "L"} -> "LDouble" [] OTHER -> "Double"
    IN  [res |-> end = IF ty = "Double" THEN stop ELSE stop + 1, value |-> Real(Spelling(BufPtr, stop)), ty |-> ty]

Number ==
    /\ Scanning(IsNumber)
    /\ LET end == NumberEnd
           int == ConvertIntNumber(end)
           number == IF int.res THEN int ELSE ConvertFloatNumber(end)
       IN  IF ~number.res THEN Report
           ELSE Idle([Token("number", end) EXCEPT !.ty = number.ty, !.value = number.value], end)

-----------------------------------------------------------------------------
(* Words and punctuation *)

Word ==
    /\ Scanning(Char(BufPtr) \in Letters \cup {"_"})
    /\ LET end == Run(Alnum \cup {"_"}, BufPtr)
           word == Spelling(BufPtr, end)
       IN  Idle(Token(IF word \in KeywordSpellings THEN word ELSE "identifier", end), end)

\* The spellings in the order in which they are tried.
Operators ==
    <<"++", "+=", "+", "--", "-=", "->", "-", "*=", "*", "/=", "/", "%=", "%", ";", "(", ")", "==", "=",
      "||", "|=", "|", "&&", "&=", "&", "~", ",", "{", "}", "^=", "^", "<=", "<<=", "<<", "<",
      ">=", ">>=", ">>", ">", "!=", "!", "?", ":", "[", "]", "...", ".">>

Operator ==
    /\ Scanning(~IsNumber /\ Char(BufPtr) \notin Letters \cup {"_", Quote, DoubleQuote, Null})
    /\ LET found == {k \in DOMAIN Operators : StartWith(BufPtr, Operators[k])}
           op == Operators[Min(found)]
       IN  IF found = {} THEN Report
           ELSE LET end == CHOOSE to \in (BufPtr+1)..(BufPtr+3) : to <= BufEnd /\ Spelling(BufPtr, to) = op
                IN  Idle(Token(op, end), end)

-----------------------------------------------------------------------------

Scan == AtEnd \/ CharLiteral \/ StringLiteral \/ Number \/ Word \/ Operator

Client == NextToken \/ SaveState \/ RestoreState

Done == outcome # "running" /\ UNCHANGED vars

\* At the end the parser reads no more, and only restores.
Rest == Ready /\ tok.type = "eof" /\ UNCHANGED vars

Next == Client \/ Skip \/ Scan \/ Done \/ Rest

\* The loop goes on, on the only thread there is.
Spec == Init /\ [][Next]_vars /\ WF_vars(Skip)

-----------------------------------------------------------------------------
(* Properties *)

\* Where the lexer is, and that the line it counts columns from starts before that:
\* also behind a restored position.
TypeOK ==
    /\ BufPtr \in 1..(BufEnd + 2)
    /\ LineHeadPtr \in 1..BufPtr
    /\ row \in 1..(Len(text) + 1)
    /\ Len(stateStack) <= MaxSaved /\ Len(begins) = Len(stateStack)
    /\ tok.row <= row /\ tok.ptr + tok.len <= BufPtr
    /\ phase \in {"idle", "skipping"}
    /\ outcome \in {"running", "reported", "overrun"}

\* A token as its user reads it: the fields that belong to its type.
Seen(t) ==
    LET fields == CASE t.type = "eof"    -> {"type"}
                    [] t.type = "none"   -> {"type", "ptr", "len"}
                    [] t.type = "number" -> {"type", "row", "col", "ptr", "len", "ty", "value"}
                    [] t.type = "str"    -> {"type", "row", "col", "ptr", "len", "strVal", "size"}
                    [] OTHER             -> {"type", "row", "col", "ptr", "len"}
    IN  [f \in fields |-> t[f]]

\* What stands between tokens comes to an end: the loop is left, at a token or at
\* the end of the buffer, also where a comment is never closed.
LoopEnds == (phase = "skipping" /\ ToSkip) ~> (phase = "idle" \/ ~ToSkip)

=============================================================================
