---------------------------- MODULE EvalConstant ----------------------------
(***************************************************************************)
(* EvalConstant (eval_constant.cc), the evaluator the parser uses for the  *)
(* bounds of arrays and the labels of switches.  It computes in int64_t    *)
(* whatever the types.  A result is a number, "rejected" (a diagnostic     *)
(* ends the program) or "undefined" (the evaluator itself divides by zero, *)
(* overflows or shifts too far).  Its floating half is not modelled.       *)
(***************************************************************************)
EXTENDS IntegerTypes

Constant(v) == [kind |-> "int", v |-> v]
Rejected == [kind |-> "rejected", v |-> 0]
Undefined == [kind |-> "undefined", v |-> 0]

Int64(v) == IF Fits("Long", v) THEN Constant(v) ELSE Undefined

EvalNumberUnsigned(v) == Constant(v)

EvalNumber(v) == Constant(SignedOf(LongWidth, v))

\* Both operands are evaluated, also those of && and ||.
EvalBinary(op, left, right) ==
    LET a == left.v
        b == right.v
    IN  IF left.kind # "int" THEN left
        ELSE IF right.kind # "int" THEN right
        ELSE IF ~Applicable(op, a, b, LongWidth) THEN Undefined
        ELSE CASE op = "comma"       -> right
               [] op = "logical_and" -> Constant(Truth(a # 0 /\ b # 0))
               [] op = "logical_or"  -> Constant(Truth(a # 0 \/ b # 0))
               [] op \in Comparisons -> Constant(Truth(Holds(op, a, b)))
               [] op = "left_shift"  -> Constant(SignedOf(LongWidth, Apply(op, a, b)))
               [] OTHER              -> Int64(Apply(op, a, b))

EvalUnary(op, val) ==
    IF val.kind # "int" THEN val
    ELSE CASE op = "positive"    -> val
           [] op = "negative"    -> Int64(-val.v)
           [] op = "logical_not" -> Constant(Truth(val.v = 0))
           [] op = "bitwise_not" -> Constant(-val.v - 1)

EvalCastKeeps(targetType, val) == val

\* The types of 64 bits are all int64_t.
EvalCast(targetType, val) ==
    IF val.kind # "int" THEN val
    ELSE IF Width(targetType) = LongWidth THEN val
    ELSE Constant(Convert(targetType, val.v))

\* GetSize is in bytes.
EvalSizeOf(ty) == Constant(Size(ty) \div 8)

\* All three operands are evaluated.
EvalThree(cond, then, els) ==
    IF cond.kind # "int" THEN cond
    ELSE IF then.kind # "int" THEN then
    ELSE IF els.kind # "int" \/ cond.v = 0 THEN els ELSE then
=============================================================================
