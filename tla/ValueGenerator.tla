--------------------------- MODULE ValueGenerator ---------------------------
(***************************************************************************)
(* The part of CodeGen that emits integer arithmetic (codegen.cc), with    *)
(* what LLVM makes of each instruction: an llvm::Value is its width, the   *)
(* signed number it holds when the program runs, and whether IRBuilder     *)
(* folded it to a constant.  "poison" has no number, "none" is a null      *)
(* llvm::Value and "broken" one whose instructions LLVM refuses, when they *)
(* are created or when the module is verified.                             *)
(***************************************************************************)
EXTENDS IntegerTypes

Value(w, v, folded) == [kind |-> "value", w |-> w, v |-> SignedOf(w, v), folded |-> folded]
Broken == [kind |-> "broken", w |-> 0, v |-> 0, folded |-> FALSE]
NoValue == [Broken EXCEPT !.kind = "none"]
Poison(w) == [Broken EXCEPT !.kind = "poison", !.w = w]

Usable(x) == x.kind \in {"value", "poison"}

IsConstantInt(x) == x.kind = "value" /\ x.folded

\* An instruction on two operands of one width; result(a, b) is its number
\* where applicable(a, b) holds.
Instruction(x, y, w, applicable(_, _), result(_, _)) ==
    IF ~(Usable(x) /\ Usable(y) /\ x.w = y.w) THEN Broken
    ELSE IF "poison" \in {x.kind, y.kind} \/ ~applicable(x.v, y.v) THEN Poison(w)
    ELSE Value(w, result(x.v, y.v), x.folded /\ y.folded)

\* CreateIntCast with isSigned: the sign is extended, also that of an i1.
IntCast(x, w) ==
    CASE ~Usable(x)       -> Broken
      [] x.kind = "poison" -> Poison(w)
      [] OTHER            -> Value(w, x.v, x.folded)

AssignCastUnsigned(x, w) ==
    IF x.kind = "value" /\ x.w # w THEN Value(w, x.v % 2^x.w, x.folded) ELSE x

AssignCast(x, w) == IF Usable(x) /\ x.w # w THEN IntCast(x, w) ELSE x

Larger(m, n) == IF m > n THEN m ELSE n

BinaryArithCastNarrow(left, right) ==
    <<IF left.w < right.w THEN IntCast(left, right.w) ELSE left,
      IF right.w < left.w THEN IntCast(right, left.w) ELSE right>>

\* The two operands of an operator are brought to one width.
BinaryArithCast(left, right) ==
    LET target == Larger(IntWidth, right.w)
    IN  <<IF left.w < IntWidth \/ left.w < right.w THEN IntCast(left, target) ELSE left,
          IF right.w < IntWidth \/ right.w < left.w THEN IntCast(right, target) ELSE right>>

\* Not zero, as an i1.
BoolCast(x) ==
    IF ~Usable(x) THEN Broken
    ELSE IF x.kind = "poison" THEN Poison(1)
    ELSE IF x.w > 1 THEN Value(1, Truth(x.v # 0), x.folded) ELSE x

GenNumber(ty, v) == Value(Width(ty), v, TRUE)

GenVariableAccess(ty, v) == Value(Width(ty), v, FALSE)

\* add, sub and mul carry nsw, which the folder ignores.
GenArithmetic(op, left, right, nsw) ==
    LET p == BinaryArithCast(left, right)
        w == p[1].w
        folds == p[1].folded /\ p[2].folded
    IN  Instruction(p[1], p[2], w,
          LAMBDA a, b : /\ Applicable(op, a, b, w)
                        /\ nsw /\ op \in {"add", "sub", "mul"} /\ ~folds
                             => SignedOf(w, Apply(op, a, b)) = Apply(op, a, b),
          LAMBDA a, b : Apply(op, a, b))

GenComparison(op, left, right) ==
    LET p == BinaryArithCast(left, right)
    IN  Instruction(p[1], p[2], 1, LAMBDA a, b : TRUE, LAMBDA a, b : Truth(Holds(op, a, b)))

\* Both operands are emitted; a branch on the left one decides whether the
\* right one runs, and a phi of i32 joins the two ways.
GenLogical(op, left, right) ==
    LET first == BoolCast(left)
        second == BoolCast(right)
        skipped == Truth(op = "logical_or")
    IN  IF ~(Usable(left) /\ Usable(right)) THEN Broken
        ELSE IF first.kind = "poison" THEN Poison(IntWidth)
        ELSE IF Truth(first.v # 0) = skipped THEN Value(IntWidth, skipped, FALSE)
        ELSE IF second.kind = "poison" THEN Poison(IntWidth)
        ELSE Value(IntWidth, Truth(second.v # 0), FALSE)

GenBinary(op, left, right) ==
    CASE op \in ValueOps    -> GenArithmetic(op, left, right, TRUE)
      [] op \in Comparisons -> GenComparison(op, left, right)
      [] op \in Logical     -> GenLogical(op, left, right)
      [] op = "comma"       -> IF "broken" \in {left.kind, right.kind} THEN Broken ELSE NoValue

GenUnary(op, val) ==
    IF ~Usable(val) \/ (op = "logical_not" /\ val.w # IntWidth) THEN Broken
    ELSE IF val.kind = "poison" THEN val
    ELSE CASE op = "positive"    -> val
           [] op = "logical_not" -> Value(IntWidth, Truth(val.v = 0), val.folded)
           [] op = "negative"    -> Value(val.w, -val.v, val.folded)
           [] op = "bitwise_not" -> Value(val.w, -val.v - 1, val.folded)

GenCast(targetType, val) == IF Usable(val) THEN AssignCast(val, Width(targetType)) ELSE Broken

GenSizeOf(ty) == Value(IntWidth, Size(ty), TRUE)

\* The operands are cast in the merge block, where an instruction that is
\* left of it stands before the phi; the phi has the type Sema gave.
GenThree(cond, then, els, ty) ==
    LET p == BinaryArithCast(then, els)
        chosen == IF cond.v # 0 THEN p[1] ELSE p[2]
        Stays(x, y) == y.w = Width(ty) /\ (x = y \/ x.folded)
    IN  IF \/ ~(Usable(cond) /\ Usable(then) /\ Usable(els))
           \/ ~(Stays(then, p[1]) /\ Stays(els, p[2]))
        THEN Broken
        ELSE IF "poison" \in {cond.kind, chosen.kind} THEN Poison(Width(ty))
        ELSE Value(Width(ty), chosen.v, FALSE)

-----------------------------------------------------------------------------
(* What is stored in a variable x, a load of it *)

GenAssignUncast(x, right) == right

GenAssign(x, right) == IF Usable(right) THEN AssignCast(right, x.w) ELSE Broken

\* The cast of the result is to the type left has after BinaryArithCast.
GenOpAssign(op, x, right) ==
    IF Usable(right) THEN GenArithmetic(op, x, right, FALSE) ELSE Broken

GenIncrementLong(x, delta) ==
    Instruction(x, Value(LongWidth, 1, TRUE), x.w, LAMBDA a, b : TRUE, LAMBDA a, b : a + delta)

\* ++ and -- add or subtract an i32.
GenIncrement(x, delta) ==
    Instruction(x, Value(IntWidth, 1, TRUE), x.w, LAMBDA a, b : TRUE, LAMBDA a, b : a + delta)
=============================================================================
