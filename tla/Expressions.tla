---------------------------- MODULE Expressions ----------------------------
(***************************************************************************)
(* Integer expressions from the parser to the instructions: the ParseXxx   *)
(* functions return to one another nodes that Sema gives a type, and the   *)
(* statement at the root uses the last one as the bound of an array, as a  *)
(* label of a switch, as a condition or as a value to store.               *)
(*                                                                         *)
(* A node carries what each reader of it makes of it: ty, the type that    *)
(* Sema gave; const, the value by EvalConstant; ir, the llvm::Value of     *)
(* CodeGen; ref, C's type and value.  All four follow the structure of the *)
(* tree, so they are computed when the node is made.  truth tells a node   *)
(* that is a comparison, whose llvm::Value is an i1; shapes are the ways   *)
(* of writing below the node that the compiler treats otherwise than C.    *)
(***************************************************************************)
EXTENDS Sequences, EvalConstant, ValueGenerator, CExpressions

CONSTANTS
    Literals,    \* of records [v, decimal, u, l]: a number and its spelling
    Variables,   \* of records [ty, v]: a variable and what it holds at run time
    Targets,     \* the variables among them that statements store in or switch on
    Shapes,      \* the shapes that expressions may have
    MaxNodes     \* bound: nodes of an expression

ASSUME LiteralsAssumption ==
    Literals \subseteq [v : Nat, decimal : BOOLEAN, u : BOOLEAN, l : BOOLEAN]

\* A variable holds a value of its type.
ASSUME VariablesAssumption ==
    /\ Targets \subseteq Variables
    /\ Variables \subseteq [ty : IntegerTypes, v : Int]
    /\ \A x \in Variables : Fits(x.ty, x.v)

ASSUME BoundAssumption == MaxNodes \in Nat

VARIABLES
    operands,    \* the nodes that the parse functions on the stack hold
    nodes,       \* how many have been made
    phase,       \* parsing, generating, accepted, rejected or crashed
    site         \* the statement and what has become of the expression in it

vars == <<operands, nodes, phase, site>>

NoSite == [kind |-> "none"]

Init ==
    /\ operands = <<>>
    /\ nodes = 0
    /\ phase = "parsing"
    /\ site = NoSite

-----------------------------------------------------------------------------
(* Shapes *)

TypeShapes(t) == {s \in {"unsigned"} : t \in UnsignedTypes}

UnaryShapes(n) ==
    {s \in {"truth"} : n.truth} \cup {s \in {"semaType"} : n.ty # n.ref.ty}

BinaryShapes(op, l, r) ==
    LET left == Width(CPromote(l.ref.ty))
        right == Width(CPromote(r.ref.ty))
    IN  {s \in {"truth"} : op \notin Logical /\ (l.truth \/ r.truth)}
        \cup {s \in {"comma"} : op = "comma"}
        \cup {s \in {"branch"} : op \in Logical}
        \cup {s \in {"wideLeft"} : op \in ValueOps \cup Comparisons /\ left > right}
        \cup {s \in {"wideShift"} : op \in Shifts /\ left < right}
        \cup {s \in {"unevaluated"} : op \in Logical /\ ~r.ref.defined}

ThreeShapes(c, t, e) ==
    UnaryShapes(t) \cup UnaryShapes(e)
    \cup {"branch"}
    \cup {s \in {"narrowBranch"} : Width(t.ref.ty) < IntWidth}
    \cup {s \in {"unevaluated"} : ~t.ref.defined \/ ~e.ref.defined}

-----------------------------------------------------------------------------
(* Nodes: Sema gives the type *)

\* ConvertIntNumber infers the type of a number from its spelling.
LiteralType(lit) ==
    LET Above(bits) == lit.v \div 2^bits # 0
    IN  IF lit.decimal
        THEN IF lit.l THEN IF lit.u THEN "ULong" ELSE "Long"
             ELSE IF lit.u THEN IF Above(IntWidth) THEN "ULong" ELSE "UInt"
             ELSE IF Above(IntWidth - 1) THEN "Long" ELSE "Int"
        ELSE IF lit.l THEN IF lit.u \/ Above(LongWidth - 1) THEN "ULong" ELSE "Long"
             ELSE IF lit.u THEN IF Above(IntWidth) THEN "ULong" ELSE "UInt"
             ELSE IF Above(LongWidth - 1) THEN "ULong"
             ELSE IF Above(IntWidth) THEN "Long"
             ELSE IF Above(IntWidth - 1) THEN "UInt" ELSE "Int"

NumberExpr(lit) ==
    LET t == LiteralType(lit)
    IN  [ty |-> t, truth |-> FALSE, shapes |-> TypeShapes(t),
         const |-> EvalNumber(lit.v), ir |-> GenNumber(t, lit.v), ref |-> CLiteral(lit)]

VariableAccessExpr(x) ==
    [ty |-> x.ty, truth |-> FALSE, shapes |-> TypeShapes(x.ty),
     const |-> Rejected, ir |-> GenVariableAccess(x.ty, x.v), ref |-> CValue(x.ty, x.v)]

\* The type is the left operand's, whatever the operator.
BinaryExpr(op, l, r) ==
    [ty |-> l.ty, truth |-> op \in Comparisons,
     shapes |-> l.shapes \cup r.shapes \cup BinaryShapes(op, l, r),
     const |-> EvalBinary(op, l.const, r.const), ir |-> GenBinary(op, l.ir, r.ir),
     ref |-> CBinary(op, l.ref, r.ref)]

UnaryOps == {"positive", "negative", "logical_not", "bitwise_not"}

UnaryExpr(op, n) ==
    [ty |-> n.ty, truth |-> FALSE, shapes |-> n.shapes \cup UnaryShapes(n),
     const |-> EvalUnary(op, n.const), ir |-> GenUnary(op, n.ir), ref |-> CUnary(op, n.ref)]

CastExpr(t, n) ==
    [ty |-> t, truth |-> FALSE,
     shapes |-> n.shapes \cup TypeShapes(t) \cup {s \in {"truth"} : n.truth},
     const |-> EvalCast(t, n.const), ir |-> GenCast(t, n.ir), ref |-> CCast(t, n.ref)]

\* The size of type t, by Sema, and of type ct, by C, where it is a size_t.
SizeOfExpr(t, ct) ==
    [ty |-> "Int", truth |-> FALSE, shapes |-> {"sizeof"},
     const |-> EvalSizeOf(t), ir |-> GenSizeOf(t), ref |-> CValue("ULong", Size(ct))]

ThreeExpr(c, t, e) ==
    [ty |-> t.ty, truth |-> FALSE,
     shapes |-> c.shapes \cup t.shapes \cup e.shapes \cup ThreeShapes(c, t, e),
     const |-> EvalThree(c.const, t.const, e.const), ir |-> GenThree(BoolCast(c.ir), t.ir, e.ir, t.ty),
     ref |-> CConditional(c.ref, t.ref, e.ref)]

-----------------------------------------------------------------------------
(* The parser *)

\* Another node can be made on k operands: those left can still be joined, by
\* operators of up to three operands.
Room(k) ==
    /\ phase = "parsing" /\ Len(operands) >= k
    /\ nodes + 1 + (Len(operands) - k + 1) \div 2 <= MaxNodes

\* A parse function replaces the last k nodes by one made of them.
Reduce(k, node) ==
    /\ Room(k)
    /\ node.shapes \subseteq Shapes
    /\ operands' = Append(SubSeq(operands, 1, Len(operands) - k), node)
    /\ nodes' = nodes + 1
    /\ UNCHANGED <<phase, site>>

\* Report ends the program.
Reject == phase' = "rejected" /\ UNCHANGED <<operands, nodes, site>>

Last(k) == operands[Len(operands) - k + 1]

ParsePrimaryNumber == \E lit \in Literals : Reduce(0, NumberExpr(lit))

ParsePrimaryIdentifier == \E x \in Variables : Reduce(0, VariableAccessExpr(x))

\* Sema wants an int.
ParseUnary ==
    /\ Room(1)
    /\ \E op \in UnaryOps :
         IF Last(1).ty = "Int" THEN Reduce(1, UnaryExpr(op, Last(1))) ELSE Reject

ParseSizeOf ==
    \/ \E t \in IntegerTypes : Reduce(0, SizeOfExpr(t, t))
    \/ Room(1) /\ Reduce(1, SizeOfExpr(Last(1).ty, Last(1).ref.ty))

ParseCast ==
    /\ Room(1)
    /\ \E t \in IntegerTypes : Reduce(1, CastExpr(t, Last(1)))

ParseBinary ==
    /\ Room(2)
    /\ \E op \in BinaryOps : Reduce(2, BinaryExpr(op, Last(2), Last(1)))

\* Sema wants the two branches to have one type.
ParseConditional ==
    /\ Room(3)
    /\ IF Last(2).ty = Last(1).ty THEN Reduce(3, ThreeExpr(Last(3), Last(2), Last(1)))
                                  ELSE Reject

-----------------------------------------------------------------------------
(* The statement *)

Whole == phase = "parsing" /\ Len(operands) = 1

NegativeBound(count) == count < 0

BadBound(count) == count <= 0

\* int count = the value of the bound.
DirectDeclaratorArraySuffix ==
    /\ Whole
    /\ LET c == Last(1).const
           count == SignedOf(IntWidth, c.v)
       IN  /\ phase' = IF c.kind = "undefined" THEN "crashed"
                       ELSE IF c.kind = "rejected" \/ BadBound(count) THEN "rejected"
                       ELSE "accepted"
           /\ site' = [kind |-> "bound", count |-> count]
    /\ UNCHANGED <<operands, nodes>>

\* EvalConstant only judges whether the label is constant.
ParseCaseStmt ==
    /\ Whole
    /\ \E x \in Targets :
         /\ phase' = CASE Last(1).const.kind = "undefined" -> "crashed"
                       [] Last(1).const.kind = "rejected"  -> "rejected"
                       [] OTHER -> "generating"
         /\ site' = [kind |-> "label", ty |-> x.ty, ir |-> NoValue]
    /\ UNCHANGED <<operands, nodes>>

AssignOps == {"assign"} \cup ValueOps

\* A statement that branches on the expression, or stores it in a variable.
ParseStatement ==
    /\ Whole /\ nodes < MaxNodes /\ phase' = "generating"
    /\ site' \in {[kind |-> "condition", ir |-> NoValue]}
                 \cup [kind : {"store"}, x : Targets, op : AssignOps, ir : {NoValue}]
    /\ UNCHANGED <<operands, nodes>>

\* ++ and -- of a variable make an expression of their own.
ParseIncrement ==
    /\ phase = "parsing" /\ operands = <<>> /\ phase' = "generating"
    /\ site' \in [kind : {"increment"}, x : Targets, delta : {-1, 1}, ir : {NoValue}]
    /\ UNCHANGED <<operands, nodes>>

-----------------------------------------------------------------------------
(* CodeGen visits the statement *)

\* LLVM refuses broken instructions, at the latest in verifyModule.
Emit(ir) ==
    /\ phase' = IF Usable(ir) THEN "accepted" ELSE "crashed"
    /\ site' = [site EXCEPT !.ir = ir]
    /\ UNCHANGED <<operands, nodes>>

\* A case needs a ConstantInt of the width of the switch's value.
VisitCaseStmt ==
    /\ phase = "generating" /\ site.kind = "label"
    /\ LET ir == AssignCast(Last(1).ir, Width(site.ty))
       IN  Emit(IF IsConstantInt(ir) THEN ir ELSE Broken)

VisitCondition ==
    /\ phase = "generating" /\ site.kind = "condition"
    /\ Emit(BoolCast(Last(1).ir))

VisitAssignExpr ==
    /\ phase = "generating" /\ site.kind = "store"
    /\ LET x == GenVariableAccess(site.x.ty, site.x.v)
       IN  Emit(IF site.op = "assign" THEN GenAssign(x, Last(1).ir)
                                      ELSE GenOpAssign(site.op, x, Last(1).ir))

VisitIncrement ==
    /\ phase = "generating" /\ site.kind = "increment"
    /\ Emit(GenIncrement(GenVariableAccess(site.x.ty, site.x.v), site.delta))

Terminated == phase \in {"accepted", "rejected", "crashed"} /\ UNCHANGED vars

Next ==
    \/ ParsePrimaryNumber \/ ParsePrimaryIdentifier
    \/ ParseUnary \/ ParseSizeOf \/ ParseCast \/ ParseBinary \/ ParseConditional
    \/ DirectDeclaratorArraySuffix \/ ParseCaseStmt \/ ParseStatement \/ ParseIncrement
    \/ VisitCaseStmt \/ VisitCondition \/ VisitAssignExpr \/ VisitIncrement
    \/ Terminated

Spec == Init /\ [][Next]_vars
=============================================================================
