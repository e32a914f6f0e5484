---------------------------- MODULE IntegerTypes ----------------------------
(***************************************************************************)
(* The integer types of the compiler (CType of type.h) and numbers of a    *)
(* fixed width.  The widths are constants, so that small words can stand   *)
(* for the real ones; the sizes, which sizeof yields, are the real ones.   *)
(* long long is as long.                                                   *)
(***************************************************************************)
EXTENDS Integers, FiniteSetsExt

CONSTANTS CharWidth, ShortWidth, IntWidth, LongWidth

ASSUME WidthsAssumption ==
    /\ {CharWidth, ShortWidth, IntWidth, LongWidth} \subseteq Nat
    /\ 1 < CharWidth /\ CharWidth < ShortWidth
    /\ ShortWidth < IntWidth /\ IntWidth < LongWidth

\* What a power of two is, for the provers, which have no definition of it.
ASSUME PowersAssumption == \A n \in 0 .. LongWidth : 2^(n + 1) \in Nat /\ 2^(n + 1) = 2 * 2^n

SignedTypes == {"Char", "Short", "Int", "Long"}
UnsignedTypes == {"UChar", "UShort", "UInt", "ULong"}
IntegerTypes == SignedTypes \cup UnsignedTypes

Width(t) ==
    CASE t \in {"Char", "UChar"}   -> CharWidth
      [] t \in {"Short", "UShort"} -> ShortWidth
      [] t \in {"Int", "UInt"}     -> IntWidth
      [] t \in {"Long", "ULong"}   -> LongWidth

\* In bytes.
Size(t) ==
    CASE t \in {"Char", "UChar"}   -> 1
      [] t \in {"Short", "UShort"} -> 2
      [] t \in {"Int", "UInt"}     -> 4
      [] t \in {"Long", "ULong"}   -> 8

-----------------------------------------------------------------------------
(* Numbers of w bits *)

\* The w low bits of v, read as a signed number.
SignedOf(w, v) ==
    LET bits == v % 2^w IN IF bits < 2^(w - 1) THEN bits ELSE bits - 2^w

\* v converted to type t.
Convert(t, v) == IF t \in SignedTypes THEN SignedOf(Width(t), v) ELSE v % 2^Width(t)

Fits(t, v) == Convert(t, v) = v

-----------------------------------------------------------------------------
(* Operators on integers, before any width is imposed *)

Arithmetic == {"add", "sub", "mul", "div", "mod"}
Bitwise == {"bitwise_and", "bitwise_or", "bitwise_xor"}
Shifts == {"left_shift", "right_shift"}
Comparisons == {"equal", "not_equal", "less", "less_equal", "greater", "greater_equal"}
Logical == {"logical_and", "logical_or"}
ValueOps == Arithmetic \cup Bitwise \cup Shifts
BinaryOps == ValueOps \cup Comparisons \cup Logical \cup {"comma"}

Magnitude(a) == IF a < 0 THEN -a ELSE a

\* Division truncates.
Quotient(a, b) ==
    LET q == Magnitude(a) \div Magnitude(b) IN IF (a < 0) = (b < 0) THEN q ELSE -q

\* The places, among enough for every type, where a has a 1 in two's complement.
Ones(a) == {i \in 0 .. LongWidth : (a \div 2^i) % 2 = 1}

OfOnes(ones) == SignedOf(LongWidth + 1, MapThenSumSet(LAMBDA i : 2^i, ones))

Holds(op, a, b) ==
    CASE op = "equal"         -> a = b
      [] op = "not_equal"     -> a # b
      [] op = "less"          -> a < b
      [] op = "less_equal"    -> a <= b
      [] op = "greater"       -> a > b
      [] op = "greater_equal" -> a >= b

Apply(op, a, b) ==
    CASE op = "add"         -> a + b
      [] op = "sub"         -> a - b
      [] op = "mul"         -> a * b
      [] op = "div"         -> Quotient(a, b)
      [] op = "mod"         -> a - b * Quotient(a, b)
      [] op = "bitwise_and" -> OfOnes(Ones(a) \cap Ones(b))
      [] op = "bitwise_or"  -> OfOnes(Ones(a) \cup Ones(b))
      [] op = "bitwise_xor" -> OfOnes((Ones(a) \cup Ones(b)) \ (Ones(a) \cap Ones(b)))
      [] op = "left_shift"  -> a * 2^b
      [] op = "right_shift" -> a \div 2^b

\* op has a result for these operands in a word of w bits.
Applicable(op, a, b, w) ==
    /\ op \in {"div", "mod"} => b # 0 /\ ~(a = -(2^(w - 1)) /\ b = -1)
    /\ op \in Shifts => b \in 0 .. w - 1

Truth(p) == IF p THEN 1 ELSE 0
=============================================================================
