--------------------------- MODULE FlowTranslation ---------------------------
(***************************************************************************)
(* The compilation of one function's statements: the parser (Statements)   *)
(* builds the whole AST, then CodeGen (ControlFlow) translates it, and the *)
(* basic blocks are compared with the flow C prescribes (StructuredFlow).  *)
(***************************************************************************)
EXTENDS ControlFlow, StructuredFlow

CONSTANT Shapes     \* which of AllShapes the programs may have

(***************************************************************************)
(* Source shapes whose translation is known to be wrong; the programs that *)
(* have none of them are translated whatever Shapes is.                    *)
(***************************************************************************)
AllShapes ==
    { "nullBody",      \* a null statement as the body of an if, do or switch
      "nestedJump",    \* a statement after a block that ends in a jump
      "beforeLabel",   \* a statement of a switch before its first label
      "nestedLabel",   \* a label inside another statement of its switch,
                       \* visited or not
      "caseFalls",     \* a case that is not left by a jump, except one of
                       \* simple statements before another label
      "defaultFalls" } \* the same of a default, except at the switch's end

ASSUME ShapesAssumption == Shapes \subseteq AllShapes

VARIABLE translated   \* whether CodeGen is to run on the program

vars == <<parserVars, flowVars, translated>>

-----------------------------------------------------------------------------
(* The shapes a tree has. *)

Jumps == {"return", "break", "continue"}

\* The end of what the jump at j is directly in; CodeGen leaves what lies
\* between unvisited.
Skip(t, j) == Min({k \in DOMAIN t : k > j /\ t[k].opener \in 1 .. j - 1})

Live(t) ==
    {i \in DOMAIN t : ~\E j \in 1 .. i - 1 : t[j].kind \in Jumps /\ i < Skip(t, j)}

\* The node after the jump at j for which CodeGen emits something: the ends of
\* the blocks around it leave no trace.
Follower(t, j) ==
    Min({k \in DOMAIN t : k >= Skip(t, j)
                          /\ t[k].kind \notin {"endblock", "endcase", "enddefault"}})

Section(t, i) == Live(t) \cap i .. EndOf(t, i)

\* A section that the translation of its statements leaves by a jump.
LeftByJump(t, i) ==
    \E j \in Section(t, i) : t[j].kind \in Jumps /\ Follower(t, j) > EndOf(t, i)

\* A section whose statements need no basic block of their own.
Straight(t, i) ==
    \A j \in Section(t, i) :
      t[j].kind \notin {"if", "for", "do", "switch"} /\ ~t[j].branching

BeforeLabel(t, i) == t[EndOf(t, i) + 1].kind \in Sections

DirectlyInSwitch(t, i) ==
    LET s == Innermost(t, i, {"switch"})
    IN  \/ Innermost(t, i, Openers) = s
        \/ t[s + 1].kind = "block" /\ Innermost(t, i, Openers) = s + 1

\* The node at i gives its program the shape.
Makes(t, i, shape) ==
    CASE shape = "nullBody" ->
           t[i].kind \in {"if", "do", "switch"} /\ t[i + 1].kind \in Closers \cup {"else"}
      [] shape = "nestedJump" ->
           t[i].kind \in Jumps
             /\ t[Follower(t, i)].kind \notin Closers \cup Sections \cup {"else", "endfunc"}
      [] shape = "beforeLabel" ->
           t[i].kind = "switch"
             /\ ~ \/ t[i + 1].kind \in Sections
                  \/ t[i + 1].kind = "block" /\ t[i + 2].kind \in Sections \cup {"endblock"}
      [] shape = "nestedLabel" ->
           t[i].kind = "switch" /\ \E j \in Labels(t, i, Sections) : ~DirectlyInSwitch(t, j)
      [] shape = "caseFalls" ->
           t[i].kind = "case" /\ ~LeftByJump(t, i) /\ ~(BeforeLabel(t, i) /\ Straight(t, i))
      [] shape = "defaultFalls" ->
           t[i].kind = "default" /\ ~LeftByJump(t, i) /\ ~(~BeforeLabel(t, i) /\ Straight(t, i))

Has(t, shape) == \E i \in Live(t) : Makes(t, i, shape)

-----------------------------------------------------------------------------

Init == ParserInit /\ FlowInit /\ translated = FALSE

Parse == ParserNext /\ UNCHANGED <<flowVars, translated>>

\* main hands the AST to CodeGen.
Translate ==
    /\ outcome = "parsed" /\ ~translated
    /\ \A shape \in AllShapes \ Shapes : ~Has(ast, shape)
    /\ translated' = TRUE
    /\ StartFunction(ast, defaultStmts)
    /\ UNCHANGED parserVars

Visit == VisitNext /\ UNCHANGED <<parserVars, translated>>

Terminated ==
    /\ \/ outcome \in {"rejected", "undefined"}
       \/ gen \in {"done", "crashed"}
       \/ outcome = "parsed" /\ gen = "idle" /\ \E shape \in AllShapes \ Shapes : Has(ast, shape)
    /\ UNCHANGED vars

Next == Parse \/ Translate \/ Visit \/ Terminated

Spec == Init /\ [][Next]_vars

-----------------------------------------------------------------------------

\* Every variable has its type; in particular no branch is to a null block.
TypeOK ==
    /\ outcome \in {"parsing", "parsed", "rejected", "undefined"}
    /\ open \in Seq(Frame)
    /\ next \in {"any", "notElse", "endSection"}
    /\ {breakNodes, continueNodes, switchNodes} \subseteq Seq(Nat)
    /\ defaultStmts \subseteq Nat
    /\ {ast, nodes} \subseteq Seq(Node)
    /\ gen \in {"idle", "visiting", "done", "crashed"}
    /\ pos \in Nat /\ defaults \subseteq Nat
    /\ ir.blocks \in Seq(Seq(Instr))
    /\ ir.order \in Seq(DOMAIN ir.blocks) /\ ir.point \in 0 .. Len(ir.blocks)
    /\ DOMAIN breakBBs \subseteq Nat /\ DOMAIN continueBBs \subseteq Nat
    /\ translated \in BOOLEAN

BindsInnermost(j, kinds) ==
    LET around == Around(ast, j, kinds)
    IN  ast[j].target \in around /\ \A i \in around : i <= ast[j].target

\* Every jump of a parsed function leaves or repeats the innermost statement
\* that C says, whatever has been opened and closed on the three stacks of the
\* parser in between.
JumpsBindInnermost ==
    outcome = "parsed" =>
      \A j \in DOMAIN ast :
        /\ ast[j].kind = "break" => BindsInnermost(j, Breakable)
        /\ ast[j].kind = "continue" => BindsInnermost(j, Loops)

-----------------------------------------------------------------------------
(* The finished function. *)

Inserted == Range(ir.order)

WellFormedBlock(block) ==
    /\ block # <<>>
    /\ \A k \in DOMAIN block : block[k].term <=> k = Len(block)

\* What verifyModule checks of the branches of a function: every block ends
\* in its only terminator, branches go to blocks of the function, and none
\* goes to the entry.
WellFormed ==
    gen = "done" =>
      /\ \A b \in Inserted : WellFormedBlock(ir.blocks[b])
      /\ \A b \in Inserted :
           Range(Last(ir.blocks[b]).to) \subseteq Inserted \ {ir.order[1]}
      /\ IsInjective(ir.order)

\* The nodes evaluated first from position k of block b on, through at most
\* fuel blocks.
FirstFrom(fuel, b, k) ==
    LET first[n \in 0 .. fuel, c \in DOMAIN ir.blocks, i \in Nat] ==
          IF n = 0 \/ i \notin DOMAIN ir.blocks[c] THEN {}
          ELSE LET x == ir.blocks[c][i] IN
               IF x.at # 0 THEN {x.at}
               ELSE UNION {first[n - 1, d, 1] : d \in Range(x.to)}
    IN  first[fuel, b, k]

First(b, k) == FirstFrom(Len(ir.blocks), b, k)

\* The nodes evaluated next after the instruction at <<b, k>>.
FlowsTo(b, k) ==
    LET x == ir.blocks[b][k]
    IN  IF x.term THEN UNION {First(c, 1) : c \in Range(x.to)}
        ELSE First(b, k + 1)

\* The basic blocks evaluate first what C evaluates first, and after every
\* node exactly what C may evaluate next: no fall-through, back edge, exit or
\* label is lost, added or bent.
FlowIsStructured ==
    gen = "done" =>
      /\ First(ir.order[1], 1) = {Arrival(nodes)[1]}
      /\ \A b \in Inserted : \A k \in DOMAIN ir.blocks[b] :
           ir.blocks[b][k].at # 0 =>
             FlowsTo(b, k) = Successors(nodes, ir.blocks[b][k].at)

HasEmptyBlock(t) == \E i \in DOMAIN t : t[i].kind = "block" /\ t[i + 1].kind = "endblock"

\* The list of shapes is exact: a program is crashed on, is rejected by
\* verifyModule or flows otherwise than it should if and only if it has one.
\* (An empty block, which leaves no trace, may make up for one; nested labels
\* do not always harm.)
ShapesAreExact ==
    gen \in {"done", "crashed"} /\ ~HasEmptyBlock(nodes) /\ ~Has(nodes, "nestedLabel") =>
      ((\E shape \in AllShapes : Has(nodes, shape))
         <=> ~(gen = "done" /\ WellFormed /\ FlowIsStructured))

=============================================================================
