------------------------ MODULE MCExpressionMeaning ------------------------
(***************************************************************************)
(* Small words: 3, 4, 5 and 7 bits.                                        *)
(***************************************************************************)
EXTENDS ExpressionMeaning

Plain(v) == [v |-> v, decimal |-> TRUE, u |-> FALSE, l |-> FALSE]

\* 0, 1, the largest int, the first number that is none, in decimal and not,
\* and the suffixes.
SomeLiterals ==
    {Plain(0), Plain(1), Plain(15), Plain(16)}
    \cup {[Plain(1) EXCEPT !.l = TRUE],
          [Plain(40) EXCEPT !.u = TRUE], [Plain(16) EXCEPT !.decimal = FALSE],
          [Plain(32) EXCEPT !.decimal = FALSE], [Plain(64) EXCEPT !.decimal = FALSE]}

SomeTargets ==
    {[ty |-> "Char", v |-> -3], [ty |-> "Int", v |-> 7], [ty |-> "Long", v |-> -64]}

SomeVariables == SomeTargets \cup {[ty |-> "Short", v |-> 5], [ty |-> "UInt", v |-> 31],
                                   [ty |-> "Int", v |-> -16]}
=============================================================================
