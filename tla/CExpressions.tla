---------------------------- MODULE CExpressions ----------------------------
(***************************************************************************)
(* What C says of integer expressions (external: the language the compiler *)
(* accepts, not code of it): the types of literals, the promotions, the    *)
(* usual arithmetic conversions, and values, undefined where C leaves them *)
(* so.  Conversions to a signed type wrap and >> keeps the sign, as every  *)
(* compiler for the target has it.                                         *)
(***************************************************************************)
EXTENDS IntegerTypes, Sequences

CValue(t, v) == [ty |-> t, defined |-> TRUE, v |-> v]
CUndefined(t) == [ty |-> t, defined |-> FALSE, v |-> 0]

\* The types that a literal may have, in order.
CLiteralTypes == <<"Int", "UInt", "Long", "ULong">>

\* The first that the base and the suffixes allow and that holds the number.
CLiteral(lit) ==
    LET fitting == {i \in DOMAIN CLiteralTypes : LET t == CLiteralTypes[i] IN
                      /\ lit.u => t \in UnsignedTypes
                      /\ lit.l => Width(t) = LongWidth
                      /\ lit.decimal /\ ~lit.u => t \in SignedTypes
                      /\ Fits(t, lit.v)}
    IN  IF fitting = {} THEN CUndefined("Long") ELSE CValue(CLiteralTypes[Min(fitting)], lit.v)

CPromote(t) == IF Width(t) < IntWidth THEN "Int" ELSE t

\* The common type of two operands.
CCommon(t, u) ==
    LET p == {CPromote(t), CPromote(u)}
        wide == {x \in p : \A y \in p : Width(x) >= Width(y)}
    IN  IF wide \subseteq SignedTypes
        THEN CHOOSE x \in wide : TRUE
        ELSE CHOOSE x \in wide : x \in UnsignedTypes

CCast(t, x) == IF x.defined THEN CValue(t, Convert(t, x.v)) ELSE CUndefined(t)

\* A result in type t: unsigned ones wrap, signed ones may overflow.
CResult(t, v) ==
    IF t \in UnsignedTypes THEN CValue(t, Convert(t, v))
    ELSE IF Fits(t, v) THEN CValue(t, v) ELSE CUndefined(t)

CUnary(op, x) ==
    LET t == IF op = "logical_not" THEN "Int" ELSE CPromote(x.ty)
    IN  IF ~x.defined THEN CUndefined(t)
        ELSE CASE op = "positive"    -> CValue(t, x.v)
               [] op = "negative"    -> CResult(t, -x.v)
               [] op = "bitwise_not" -> CValue(t, Convert(t, -x.v - 1))
               [] op = "logical_not" -> CValue(t, Truth(x.v = 0))

CShift(op, x, y) ==
    LET t == CPromote(x.ty)
    IN  IF x.defined /\ y.defined /\ Applicable(op, x.v, y.v, Width(t))
           /\ (op = "left_shift" => x.v >= 0)
        THEN CResult(t, Apply(op, x.v, y.v)) ELSE CUndefined(t)

CBinary(op, x, y) ==
    LET t == CCommon(x.ty, y.ty)
        a == Convert(t, x.v)
        b == Convert(t, y.v)
        result == IF op \in Comparisons THEN "Int" ELSE t
    IN  CASE op = "comma" -> IF x.defined THEN y ELSE CUndefined(y.ty)
          [] op \in Logical ->
               IF x.defined /\ (x.v = 0) = (op = "logical_and")
               THEN CValue("Int", Truth(op = "logical_or"))
               ELSE IF x.defined /\ y.defined THEN CValue("Int", Truth(y.v # 0))
               ELSE CUndefined("Int")
          [] op \in Shifts -> CShift(op, x, y)
          [] OTHER ->
               IF ~(x.defined /\ y.defined /\ Applicable(op, a, b, Width(t))) THEN CUndefined(result)
               ELSE IF op \in Comparisons THEN CValue(result, Truth(Holds(op, a, b)))
               ELSE CResult(t, Apply(op, a, b))

CConditional(c, x, y) ==
    LET t == CCommon(x.ty, y.ty)
    IN  IF c.defined THEN CCast(t, IF c.v # 0 THEN x ELSE y) ELSE CUndefined(t)
=============================================================================
