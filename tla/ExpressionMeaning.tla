------------------------- MODULE ExpressionMeaning -------------------------
(***************************************************************************)
(* What the compiler makes of an integer expression against what C says of *)
(* it.  The properties leave out the shapes that the compiler is known to  *)
(* treat otherwise, each at the reader that does.                          *)
(***************************************************************************)
EXTENDS Expressions

GenShapes ==
    {"unsigned", "truth", "wideLeft", "wideShift", "comma", "semaType", "narrowBranch", "sizeof"}

EvalShapes == {"unsigned", "sizeof", "unevaluated"}

LabelShapes(n, t) ==
    (n.shapes \cap (GenShapes \cup EvalShapes \cup {"branch"}))
    \cup {s \in {"truth"} : n.truth}
    \cup {s \in {"narrowSwitch"} : Width(t) < IntWidth}
    \cup TypeShapes(t)

StoreShapes(n, x, op) ==
    LET left == Width(CPromote(x.ty))
        right == Width(CPromote(n.ref.ty))
    IN  (n.shapes \cap GenShapes)
        \cup {s \in {"truth"} : n.truth}
        \cup TypeShapes(x.ty)
        \cup {s \in {"narrowStore"} : op # "assign" /\ Width(x.ty) < IntWidth}
        \cup {s \in {"wideLeft"} : op # "assign" /\ left > right}
        \cup {s \in {"wideStore"} : op # "assign" /\ left < right}

IncrementShapes(x) ==
    TypeShapes(x.ty) \cup {s \in {"notInt"} : Width(x.ty) # IntWidth}

-----------------------------------------------------------------------------

Kinds == {"value", "poison", "none", "broken"}

Node == [ty : IntegerTypes, truth : BOOLEAN, shapes : SUBSET Shapes,
         const : [kind : {"int", "rejected", "undefined"}, v : Int],
         ir : [kind : Kinds, w : Nat, v : Int, folded : BOOLEAN],
         ref : [ty : IntegerTypes, defined : BOOLEAN, v : Int]]

\* Every variable has its type, and every number fits the type it is of.
TypeOK ==
    /\ operands \in Seq(Node)
    /\ \A i \in DOMAIN operands : LET n == operands[i] IN
         /\ Fits("Long", n.const.v)
         /\ Fits(n.ref.ty, n.ref.v)
         /\ n.ir.kind = "value" => SignedOf(n.ir.w, n.ir.v) = n.ir.v
    /\ nodes \in 0 .. MaxNodes
    /\ phase \in {"parsing", "generating", "accepted", "rejected", "crashed"}
    /\ site.kind \in {"none", "bound", "label", "condition", "store", "increment"}

\* The value that CodeGen computes is the one of C, at the width of its type,
\* or an i1 for a comparison.  Sema's type, the casts before each operator, the
\* operator and the phi all have a part in it.
ValuesAreRight ==
    \A i \in DOMAIN operands : LET n == operands[i] IN
      n.shapes \cap GenShapes = {} /\ n.ref.defined =>
        /\ n.ir.kind = "value"
        /\ IF n.truth THEN n.ir.w = 1 /\ n.ir.v = -n.ref.v
           ELSE n.ir.w = Width(n.ref.ty) /\ n.ir.v = n.ref.v

\* EvalConstant, which computes in int64_t and evaluates every operand, finds
\* the value of C for whatever it does not reject.
ConstantsAreRight ==
    \A i \in DOMAIN operands : LET n == operands[i] IN
      n.shapes \cap EvalShapes = {} /\ n.ref.defined /\ n.const.kind # "rejected" =>
        n.const = Constant(n.ref.v)

Decided == phase \in {"accepted", "rejected", "crashed"}

\* An array whose bound is a constant expression that fits an int has that many
\* elements, and is refused if they are not positive (parser.cc:319).
BoundsAreRight ==
    site.kind = "bound" /\ Decided => LET n == Last(1) IN
      /\ n.shapes \cap EvalShapes = {} /\ n.ref.defined /\ n.const.kind # "rejected"
      /\ Fits("Int", n.ref.v)
      => /\ phase = IF n.ref.v > 0 THEN "accepted" ELSE "rejected"
         /\ phase = "accepted" => site.count = n.ref.v

\* A label that the parser takes as a constant becomes a ConstantInt that the
\* value of the switch equals exactly when it does in C, where the label is
\* converted to the promoted type of that value (codegen.cc:564).
LabelsMatch ==
    site.kind = "label" /\ Decided => LET n == Last(1) IN
      LabelShapes(n, site.ty) = {} /\ n.ref.defined /\ n.const.kind # "rejected" =>
        /\ phase = "accepted"
        /\ site.ir.w = Width(site.ty)
        /\ site.ir.v = Convert(CPromote(site.ty), n.ref.v)

\* What C leaves in the variable that the statement stores in.
CStored ==
    LET x == CValue(site.x.ty, site.x.v)
    IN  CCast(x.ty, IF site.kind = "increment" THEN CBinary("add", x, CValue("Int", site.delta))
                    ELSE IF site.op = "assign" THEN Last(1).ref
                    ELSE CBinary(site.op, x, Last(1).ref))

StatementShapes ==
    CASE site.kind = "increment" -> IncrementShapes(site.x)
      [] site.kind = "store"     -> StoreShapes(Last(1), site.x, site.op)
      [] site.kind = "condition" -> Last(1).shapes \cap GenShapes
      [] OTHER                   -> {}

StoreFits ==
    /\ site.ir.w = Width(site.x.ty)
    /\ CStored.defined => site.ir.kind = "value" /\ site.ir.v = CStored.v

BranchIsRight ==
    Last(1).ref.defined =>
      site.ir = [Value(1, Truth(Last(1).ref.v # 0), FALSE) EXCEPT !.folded = site.ir.folded]

\* A store writes as many bytes as its variable has, and C's value where C
\* defines it: the conversions on both sides of the operator have to agree with
\* the variable (codegen.cc:237, 259).  A condition takes the branch that C
\* takes, whatever the width of its value (codegen.cc:422).
StatementsAreRight ==
    Decided /\ StatementShapes = {} =>
      /\ site.kind \in {"store", "increment"} => StoreFits
      /\ site.kind = "condition" => BranchIsRight

\* The compiler refuses its own output for no program whose expressions have
\* the types it handles, even where the values are undefined at run time; its
\* evaluator stops only where C has no value (main.cc:72).
NeverCrashes ==
    phase = "crashed" => LET n == Last(1) IN
      CASE site.kind = "bound" -> n.shapes \cap EvalShapes # {} \/ ~n.ref.defined
        [] site.kind = "label" -> LabelShapes(n, site.ty) # {} \/ ~n.ref.defined
        [] OTHER -> StatementShapes # {}
=============================================================================
