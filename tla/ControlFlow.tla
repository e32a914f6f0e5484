----------------------------- MODULE ControlFlow -----------------------------
(***************************************************************************)
(* CodeGen's treatment of statements: the basic blocks of a function, the  *)
(* branches between them, and the maps and the stack that give a break, a  *)
(* continue and a label the blocks they refer to.                          *)
(*                                                                         *)
(* `ir` is the function under construction: the instructions of every      *)
(* basic block created, the blocks inserted in the function in their order,*)
(* and the builder's insert point.  An instruction is reduced to the node  *)
(* it evaluates (0 for the glue that statements add), whether it is a      *)
(* terminator, and the blocks it may branch to.  One action is a segment of*)
(* a Visit function between two visits of sub-statements; `locals` holds   *)
(* the basic blocks its C++ activation keeps across them.                  *)
(***************************************************************************)
EXTENDS Statements

VARIABLES
    gen,            \* "idle", "visiting", "done", "crashed"
    nodes,          \* the AST
    defaults,       \* the switches that have a defaultStmt
    pos,            \* the node being visited
    ir,
    locals,         \* a sequence of blocks per open construct
    breakBBs, continueBBs,
    switchStack     \* where the SwitchInsts are: <<block, index>>

flowVars ==
    <<gen, nodes, defaults, pos, ir, locals, breakBBs, continueBBs, switchStack>>

Instr == [at : Nat, term : BOOLEAN, to : Seq(Nat \ {0})]

\* The instruction that evaluates node `at`, and a terminator.
Eval(at) == [at |-> at, term |-> FALSE, to |-> <<>>]

Term(at, to) == [at |-> at, term |-> TRUE, to |-> to]

-----------------------------------------------------------------------------
(* The IRBuilder. *)

LastBlock(f) == Len(f.blocks)

\* BasicBlock::Create, k times; the new blocks are LastBlock(f) + 1, ...
Create(f, k) == [f EXCEPT !.blocks = @ \o [i \in 1 .. k |-> <<>>]]

\* insertInto(curFunc) and SetInsertPoint.
Place(f, b) == [f EXCEPT !.order = Append(@, b), !.point = b]

SetInsertPoint(f, b) == [f EXCEPT !.point = b]

Emit(f, instr) == [f EXCEPT !.blocks[f.point] = Append(@, instr)]

CreateBr(f, b) == Emit(f, Term(0, <<b>>))

Unterminated(block) == block = <<>> \/ ~Last(block).term

CreateBrAlways(f, b) == CreateBr(f, b)

\* A statement's end: fall through to b unless the insert block has ended.
CreateBrIfOpen(f, b) ==
    IF Unterminated(f.blocks[f.point]) THEN CreateBr(f, b) ELSE f

\* An expression; && and || and ?: leave the insert point in a block of
\* their own.
Evaluate(f, at, branching) ==
    LET n == LastBlock(f)
        split == Emit(Create(f, 3), Term(at, <<n + 1, n + 2>>))
        right == CreateBr(Place(split, n + 1), n + 3)
        other == CreateBr(Place(right, n + 2), n + 3)
    IN  IF branching THEN Place(other, n + 3)
        ELSE IF at = 0 THEN f ELSE Emit(f, Eval(at))

-----------------------------------------------------------------------------

FlowInit ==
    /\ gen = "idle"
    /\ nodes = <<>> /\ defaults = {}
    /\ pos = 0
    /\ ir = [blocks |-> <<>>, order |-> <<>>, point |-> 0]
    /\ locals = <<>>
    /\ breakBBs = <<>> /\ continueBBs = <<>>
    /\ switchStack = <<>>

\* VisitFuncDecl: the entry block.
StartFunction(tree, ds) ==
    /\ gen = "idle"
    /\ gen' = "visiting"
    /\ nodes' = tree /\ defaults' = ds
    /\ pos' = 1
    /\ ir' = Place(Create(ir, 1), 1)
    /\ UNCHANGED <<locals, breakBBs, continueBBs, switchStack>>

Visiting(kinds) == gen = "visiting" /\ nodes[pos].kind \in kinds

Node1 == nodes[pos]

Advance == pos' = pos + 1 /\ UNCHANGED <<gen, nodes, defaults>>

\* The sub-statement a statement is about to visit is absent: a null pointer
\* is dereferenced.
BodyIsNull == nodes[pos + 1].kind \in Closers \cup {"else"}

Crash ==
    /\ gen' = "crashed"
    /\ UNCHANGED <<nodes, defaults, pos, ir, locals, breakBBs, continueBBs, switchStack>>

VisitExpr ==
    /\ Visiting({"expr"})
    /\ ir' = Evaluate(ir, pos, Node1.branching)
    /\ Advance
    /\ UNCHANGED <<locals, breakBBs, continueBBs, switchStack>>

\* VisitBlockStmt, also for the BlockStmt of a case or default (its symbol
\* table is the subject of CodeGenScopes).
VisitBlock ==
    /\ Visiting({"block", "endblock", "endcase", "enddefault"})
    /\ Advance
    /\ UNCHANGED <<ir, locals, breakBBs, continueBBs, switchStack>>

\* The end, or the else, of what the node at i is directly in.
EndOfEnclosing(i) ==
    Min({j \in DOMAIN nodes : j > i /\ nodes[j].opener \in 1 .. i - 1})

\* VisitBlockStmt leaves the rest of its block unvisited after a jump; a jump
\* that is itself the body of an if or a loop has no rest.
SkipRest == pos' = EndOfEnclosing(pos)

VisitReturnStmt ==
    /\ Visiting({"return"})
    /\ ir' = Emit(ir, Term(pos, <<>>))
    /\ SkipRest
    /\ UNCHANGED <<gen, nodes, defaults, locals, breakBBs, continueBBs, switchStack>>

\* DenseMap::operator[]: a null block for a target that is not in the map.
BlockOf(map, n) == IF n \in DOMAIN map THEN map[n] ELSE 0

VisitBreakOutermost ==
    /\ Visiting({"break"})
    /\ ir' = CreateBr(ir, BlockOf(breakBBs, Min(DOMAIN breakBBs)))
    /\ SkipRest
    /\ UNCHANGED <<gen, nodes, defaults, locals, breakBBs, continueBBs, switchStack>>

VisitBreakStmt ==
    /\ Visiting({"break"})
    /\ ir' = CreateBr(ir, BlockOf(breakBBs, Node1.target))
    /\ SkipRest
    /\ UNCHANGED <<gen, nodes, defaults, locals, breakBBs, continueBBs, switchStack>>

VisitContinueStmt ==
    /\ Visiting({"continue"})
    /\ ir' = CreateBr(ir, BlockOf(continueBBs, Node1.target))
    /\ SkipRest
    /\ UNCHANGED <<gen, nodes, defaults, locals, breakBBs, continueBBs, switchStack>>

-----------------------------------------------------------------------------
(* if *)

HasElse(i) == \E j \in DOMAIN nodes : nodes[j].kind = "else" /\ nodes[j].opener = i

\* then, (else,) last are created; the condition; then is entered.
VisitIfStmt ==
    /\ Visiting({"if"})
    /\ \/ BodyIsNull /\ Crash
       \/ /\ ~BodyIsNull
          /\ LET n == LastBlock(ir)
                 k == IF HasElse(pos) THEN 3 ELSE 2
                 cond == Evaluate(Create(ir, k), 0, Node1.branching)
             IN /\ ir' = Place(Emit(cond, Term(pos, <<n + 1, n + 2>>)), n + 1)
                /\ locals' = Append(locals, [else |-> n + 2, last |-> n + k])
          /\ Advance
          /\ UNCHANGED <<breakBBs, continueBBs, switchStack>>

VisitElse ==
    /\ Visiting({"else"})
    /\ ir' = Place(CreateBrIfOpen(ir, Last(locals).last), Last(locals).else)
    /\ Advance
    /\ UNCHANGED <<locals, breakBBs, continueBBs, switchStack>>

VisitIfEnd ==
    /\ Visiting({"endif"})
    /\ ir' = Place(CreateBrIfOpen(ir, Last(locals).last), Last(locals).last)
    /\ locals' = Front(locals)
    /\ Advance
    /\ UNCHANGED <<breakBBs, continueBBs, switchStack>>

-----------------------------------------------------------------------------
(* Loops *)

PutNothing(map, n, b) == map

Put(map, n, b) == [m \in DOMAIN map \cup {n} |-> IF m = n THEN b ELSE map[m]]

Erase(map, n) == [m \in DOMAIN map \ {n} |-> map[m]]

\* cond, inc, body and last are created; the condition; body is entered.
VisitForStmt ==
    /\ Visiting({"for"})
    /\ LET n == LastBlock(ir)
           head == Place(CreateBr(Create(ir, 4), n + 1), n + 1)
           test == IF Node1.cond
                     THEN Emit(Evaluate(head, 0, Node1.branching), Term(pos, <<n + 3, n + 4>>))
                     ELSE Emit(head, Term(pos, <<n + 3>>))
       IN /\ ir' = Place(test, n + 3)
          /\ locals' = Append(locals, [cond |-> n + 1, inc |-> n + 2, last |-> n + 4])
          /\ breakBBs' = Put(breakBBs, pos, n + 4)
          /\ continueBBs' = Put(continueBBs, pos, n + 2)
    /\ Advance
    /\ UNCHANGED switchStack

VisitForEnd ==
    /\ Visiting({"endfor"})
    /\ LET l == Last(locals)
           inc == Place(CreateBrIfOpen(ir, l.inc), l.inc)
           step == IF nodes[Node1.opener].inc THEN Emit(inc, Eval(pos)) ELSE inc
       IN ir' = Place(CreateBr(step, l.cond), l.last)
    /\ locals' = Front(locals)
    /\ breakBBs' = Erase(breakBBs, Node1.opener)
    /\ continueBBs' = Erase(continueBBs, Node1.opener)
    /\ Advance
    /\ UNCHANGED switchStack

\* body, cond and then are created; body is entered.
VisitDoWhileStmt ==
    /\ Visiting({"do"})
    /\ \/ BodyIsNull /\ Crash
       \/ /\ ~BodyIsNull
          /\ LET n == LastBlock(ir) IN
             /\ ir' = Place(CreateBr(Create(ir, 3), n + 1), n + 1)
             /\ locals' = Append(locals, [body |-> n + 1, cond |-> n + 2, last |-> n + 3])
             /\ breakBBs' = Put(breakBBs, pos, n + 3)
             /\ continueBBs' = Put(continueBBs, pos, n + 2)
          /\ Advance
          /\ UNCHANGED switchStack

VisitDoWhileEnd ==
    /\ Visiting({"enddo"})
    /\ LET l == Last(locals)
           cond == Evaluate(Place(CreateBrIfOpen(ir, l.cond), l.cond), 0, Node1.branching)
       IN ir' = Place(Emit(cond, Term(pos, <<l.body, l.last>>)), l.last)
    /\ locals' = Front(locals)
    /\ breakBBs' = Erase(breakBBs, Node1.opener)
    /\ continueBBs' = Erase(continueBBs, Node1.opener)
    /\ Advance
    /\ UNCHANGED switchStack

-----------------------------------------------------------------------------
(* switch.  The first target of a SwitchInst is the default block. *)

VisitSwitchStmt ==
    /\ Visiting({"switch"})
    /\ \/ BodyIsNull /\ Crash
       \/ /\ ~BodyIsNull
          /\ LET n == LastBlock(ir) IN
             /\ ir' = Emit(Create(ir, 2), Term(pos, <<n + 1>>))
             /\ locals' = Append(locals, [default |-> n + 1, last |-> n + 2])
             /\ breakBBs' = Put(breakBBs, pos, n + 2)
          /\ switchStack' =
               Append(switchStack, <<ir.point, Len(ir.blocks[ir.point]) + 1>>)
          /\ Advance
          /\ UNCHANGED continueBBs

VisitSwitchEnd ==
    /\ Visiting({"endswitch"})
    /\ LET l == Last(locals)
           none == IF Node1.opener \in defaults THEN ir
                   ELSE CreateBr(Place(ir, l.default), l.last)
           end == IF Unterminated(none.blocks[l.default])
                    THEN CreateBr(SetInsertPoint(none, l.default), l.last)
                    ELSE none
       IN ir' = Place(end, l.last)
    /\ locals' = Front(locals)
    /\ breakBBs' = Erase(breakBBs, Node1.opener)
    /\ switchStack' = Front(switchStack)
    /\ Advance
    /\ UNCHANGED continueBBs

SwitchInst == LET s == Last(switchStack) IN ir.blocks[s[1]][s[2]]

\* The section before a label falls through to b; what is tested is the
\* block in which the last case begins.
NextSection(f, b) ==
    IF Len(SwitchInst.to) > 1 /\ Unterminated(ir.blocks[Last(SwitchInst.to)])
      THEN CreateBr(f, b) ELSE f

\* SwitchInst::addCase, for the one at s.
AddCase(f, s, b) == [f EXCEPT !.blocks[s[1]][s[2]].to = Append(@, b)]

VisitCaseStmt ==
    /\ Visiting({"case"})
    /\ LET b == LastBlock(ir) + 1
           fall == NextSection(Create(ir, 1), b)
       IN ir' = Place(AddCase(fall, Last(switchStack), b), b)
    /\ Advance
    /\ UNCHANGED <<locals, breakBBs, continueBBs, switchStack>>

\* A block that is in a function already cannot be inserted again.
VisitDefaultStmt ==
    /\ Visiting({"default"})
    /\ LET b == SwitchInst.to[1] IN
       \/ /\ Contains(ir.order, b)
          /\ Crash
       \/ /\ ~Contains(ir.order, b)
          /\ ir' = Place(NextSection(ir, b), b)
          /\ Advance
          /\ UNCHANGED <<locals, breakBBs, continueBBs, switchStack>>

-----------------------------------------------------------------------------

\* The end of VisitFuncDecl: if the function's last block has not ended, a
\* return is added where the builder stands.
VisitFuncEnd ==
    /\ Visiting({"endfunc"})
    /\ ir' = IF Unterminated(ir.blocks[Last(ir.order)])
               THEN Emit(ir, Term(pos, <<>>)) ELSE ir
    /\ gen' = "done"
    /\ UNCHANGED <<nodes, defaults, pos, locals, breakBBs, continueBBs, switchStack>>

VisitNext ==
    \/ VisitExpr \/ VisitBlock \/ VisitReturnStmt \/ VisitBreakStmt \/ VisitContinueStmt
    \/ VisitIfStmt \/ VisitElse \/ VisitIfEnd \/ VisitForStmt \/ VisitForEnd
    \/ VisitDoWhileStmt \/ VisitDoWhileEnd \/ VisitSwitchStmt \/ VisitSwitchEnd
    \/ VisitCaseStmt \/ VisitDefaultStmt \/ VisitFuncEnd

=============================================================================
