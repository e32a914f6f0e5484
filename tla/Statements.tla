----------------------------- MODULE Statements -----------------------------
(***************************************************************************)
(* The parser's treatment of statements, as far as control flow goes: the  *)
(* nesting of compound statements, the stacks breakNodes, continueNodes and*)
(* switchNodes that give a jump or a label its target, and the AST built.  *)
(*                                                                         *)
(* One action is one simple statement, or the opening or the end of a      *)
(* compound one.  `ast` is the tree of one function written as a flat list *)
(* in which an end node closes every compound statement.  Expressions are  *)
(* reduced to whether they branch (&&, ||, ?:); a declaration is, for      *)
(* control flow, an expression statement, and so is the first clause of a  *)
(* for, before the for.                                                    *)
(***************************************************************************)
EXTENDS SequencesExt

CONSTANTS
    Constructs,   \* the kinds of statement programs are made of
    MaxStmts      \* bound on the statements of a program

AllConstructs ==
    {"expr", "branching", "null", "return", "break", "continue", "block", "if",
     "for", "while", "do", "switch", "default"}

ASSUME ConstructsAssumption == Constructs \subseteq AllConstructs
ASSUME MaxStmtsAssumption == MaxStmts \in Nat

VARIABLES
    outcome,        \* "parsing", "parsed", "rejected", "undefined"
    open,           \* the compound statements being parsed, innermost last
    next,           \* what is known of the current token: "any", "notElse",
                    \* "endSection" (case, default or a closing brace)
    breakNodes, continueNodes, switchNodes,
    defaultStmts,   \* the switches whose defaultStmt is set
    ast

parserVars ==
    <<outcome, open, next, breakNodes, continueNodes, switchNodes, defaultStmts, ast>>

Openers == {"block", "if", "for", "do", "switch", "case", "default"}

Closers == {"endblock", "endif", "endfor", "enddo", "endswitch", "endcase", "enddefault"}

\* `opener` is set in an else and in the end of a statement, `target` in a
\* break and a continue; a for may lack its condition or its increment.
Node ==
    [kind : {"expr", "return", "break", "continue", "else", "endfunc"} \cup Openers \cup Closers,
     opener : Nat, target : Nat, cond : BOOLEAN, inc : BOOLEAN, branching : BOOLEAN]

Frame == [kind : Openers \cup {"else"}, node : Nat \ {0}, done : BOOLEAN]

Mk(kind) ==
    [kind |-> kind, opener |-> 0, target |-> 0,
     cond |-> FALSE, inc |-> FALSE, branching |-> FALSE]

End(kind, i) == [Mk(kind) EXCEPT !.opener = i]

Expression(kind, branching) == [Mk(kind) EXCEPT !.branching = branching]

Top == Last(open)

InFrame(kinds) == outcome = "parsing" /\ open # <<>> /\ Top.kind \in kinds

Sections == {"case", "default"}

\* ParseStmt is called on a token that may start a statement.
AtStmt == InFrame(Openers \cup {"else"}) /\ ~Top.done

Statements == {i \in DOMAIN ast : ast[i].kind \notin Closers \cup {"else"}}

\* The program may have this construct and `k` more statements (the function's
\* block is not counted).
Room(construct, k) ==
    /\ construct \in Constructs
    /\ Cardinality(Statements) + k <= MaxStmts + 1

\* A statement has been parsed: a block or a section goes on, any other
\* construct has the statement it was waiting for.
AfterStmt(fs) ==
    IF fs # <<>> /\ Last(fs).kind \notin {"block"} \cup Sections
      THEN [fs EXCEPT ![Len(fs)].done = TRUE]
      ELSE fs

\* DiagEngine::Report of an error: print and exit(0).
Report ==
    /\ outcome' = "rejected"
    /\ UNCHANGED <<open, next, breakNodes, continueNodes, switchNodes, defaultStmts, ast>>

-----------------------------------------------------------------------------

\* "int f() {"
ParserInit ==
    /\ outcome = "parsing"
    /\ open = <<[kind |-> "block", node |-> 1, done |-> FALSE]>>
    /\ next = "any"
    /\ breakNodes = <<>> /\ continueNodes = <<>> /\ switchNodes = <<>>
    /\ defaultStmts = {}
    /\ ast = <<Mk("block")>>

\* A statement that has no statement in it.
Simple(node) ==
    /\ AtStmt /\ next # "endSection"
    /\ ast' = Append(ast, node)
    /\ open' = AfterStmt(open)
    /\ next' = "any"
    /\ UNCHANGED <<outcome, breakNodes, continueNodes, switchNodes, defaultStmts>>

ExprStmt(branching) == Room("expr", 1) /\ Simple(Expression("expr", branching))

ReturnStmt == Room("return", 1) /\ Simple(Mk("return"))

BreakStmt ==
    /\ AtStmt /\ next # "endSection" /\ Room("break", 1)
    /\ \/ breakNodes = <<>> /\ Report
       \/ breakNodes # <<>> /\ Simple([Mk("break") EXCEPT !.target = Last(breakNodes)])

\* What a continue asks for is a break target (parser.cc:735); back() of an
\* empty vector is undefined.
ContinueStmt ==
    /\ AtStmt /\ next # "endSection" /\ Room("continue", 1)
    /\ \/ breakNodes = <<>> /\ Report
       \/ /\ breakNodes # <<>> /\ continueNodes = <<>>
          /\ outcome' = "undefined"
          /\ UNCHANGED <<open, next, breakNodes, continueNodes, switchNodes, defaultStmts, ast>>
       \/ /\ continueNodes # <<>>
          /\ Simple([Mk("continue") EXCEPT !.target = Last(continueNodes)])

\* ";" where a construct needs a statement: there is no node, and an else
\* whose statement is absent is no else.  (In a block it leaves nothing.)
NullStmt ==
    /\ AtStmt /\ next # "endSection" /\ "null" \in Constructs
    /\ Top.kind \notin {"block"} \cup Sections
    /\ ast' = IF Top.kind = "else" THEN Front(ast) ELSE ast
    /\ open' = AfterStmt(open)
    /\ next' = "any"
    /\ UNCHANGED <<outcome, breakNodes, continueNodes, switchNodes, defaultStmts>>

Enter(kind, node) ==
    /\ ast' = Append(ast, node)
    /\ open' = Append(open, [kind |-> kind, node |-> Len(ast) + 1, done |-> FALSE])
    /\ next' = "any"
    /\ UNCHANGED outcome

\* The construct at the top is complete; `token` tells what is known of the
\* token that follows it.
Leave(kind, token) ==
    /\ ast' = Append(ast, End(kind, Top.node))
    /\ open' = AfterStmt(Front(open))
    /\ next' = token
    /\ UNCHANGED outcome

OpenBlock ==
    /\ AtStmt /\ next # "endSection" /\ Room("block", 1)
    /\ Enter("block", Mk("block"))
    /\ UNCHANGED <<breakNodes, continueNodes, switchNodes, defaultStmts>>

CloseBlock ==
    /\ InFrame({"block"}) /\ Len(open) > 1
    /\ Leave("endblock", "any")
    /\ UNCHANGED <<breakNodes, continueNodes, switchNodes, defaultStmts>>

IfStmt(branching) ==
    /\ AtStmt /\ next # "endSection" /\ Room("if", 2)
    /\ Enter("if", Expression("if", branching))
    /\ UNCHANGED <<breakNodes, continueNodes, switchNodes, defaultStmts>>

\* The token after the first branch is else: it binds to the innermost if.
Else ==
    /\ InFrame({"if"}) /\ Top.done /\ next = "any" /\ Room("if", 1)
    /\ ast' = Append(ast, End("else", Top.node))
    /\ open' = Append(Front(open), [Top EXCEPT !.kind = "else", !.done = FALSE])
    /\ UNCHANGED <<outcome, next, breakNodes, continueNodes, switchNodes, defaultStmts>>

EndIf ==
    /\ InFrame({"if", "else"}) /\ Top.done
    /\ Leave("endif", IF Top.kind = "if" /\ next = "any" THEN "notElse" ELSE next)
    /\ UNCHANGED <<breakNodes, continueNodes, switchNodes, defaultStmts>>

EnterLoop(kind, node) ==
    /\ AtStmt /\ next # "endSection"
    /\ Enter(kind, node)
    /\ breakNodes' = Append(breakNodes, Len(ast) + 1)
    /\ continueNodes' = Append(continueNodes, Len(ast) + 1)
    /\ UNCHANGED <<switchNodes, defaultStmts>>

LeaveLoopKeepsTarget(kind, token) ==
    /\ Leave(kind, token)
    /\ UNCHANGED <<breakNodes, continueNodes, switchNodes, defaultStmts>>

LeaveLoop(kind, token) ==
    /\ Leave(kind, token)
    /\ breakNodes' = Front(breakNodes)
    /\ continueNodes' = Front(continueNodes)
    /\ UNCHANGED <<switchNodes, defaultStmts>>

\* A while is a ForStmt that has neither a first clause nor an increment.
ForStmt(cond, branching) ==
    Room("for", 2) /\ EnterLoop("for",
        [Expression("for", branching) EXCEPT !.cond = cond, !.inc = TRUE])

WhileStmt(cond, branching) ==
    Room("while", 2) /\ EnterLoop("for", [Expression("for", branching) EXCEPT !.cond = cond])

EndFor == InFrame({"for"}) /\ Top.done /\ LeaveLoop("endfor", next)

DoWhileStmt == Room("do", 2) /\ EnterLoop("do", Mk("do"))

\* "while (e);"
EndDoWhile(branching) ==
    /\ InFrame({"do"}) /\ Top.done
    /\ \/ next = "endSection" /\ Report
       \/ /\ next # "endSection"
          /\ ast' = Append(ast, [End("enddo", Top.node) EXCEPT !.branching = branching])
          /\ open' = AfterStmt(Front(open))
          /\ next' = "any"
          /\ breakNodes' = Front(breakNodes)
          /\ continueNodes' = Front(continueNodes)
          /\ UNCHANGED <<outcome, switchNodes, defaultStmts>>

SwitchStmt ==
    /\ AtStmt /\ next # "endSection" /\ Room("switch", 2)
    /\ Enter("switch", Mk("switch"))
    /\ breakNodes' = Append(breakNodes, Len(ast) + 1)
    /\ switchNodes' = Append(switchNodes, Len(ast) + 1)
    /\ UNCHANGED <<continueNodes, defaultStmts>>

EndSwitch ==
    /\ InFrame({"switch"}) /\ Top.done
    /\ Leave("endswitch", next)
    /\ breakNodes' = Front(breakNodes)
    /\ switchNodes' = Front(switchNodes)
    /\ UNCHANGED <<continueNodes, defaultStmts>>

\* The loop that collects the statements of a section stops at a label, so
\* that a label is never directly in a section.
AtLabel == AtStmt /\ Top.kind \notin Sections

CaseStmt ==
    /\ AtLabel /\ Room("switch", 1)
    /\ \/ switchNodes = <<>> /\ Report
       \/ /\ switchNodes # <<>>
          /\ Enter("case", Mk("case"))
          /\ UNCHANGED <<breakNodes, continueNodes, switchNodes, defaultStmts>>

DefaultStmt ==
    /\ AtLabel /\ Room("default", 1)
    /\ \/ switchNodes = <<>> /\ Report
       \/ switchNodes # <<>> /\ Last(switchNodes) \in defaultStmts /\ Report
       \/ /\ switchNodes # <<>> /\ Last(switchNodes) \notin defaultStmts
          /\ Enter("default", Mk("default"))
          /\ UNCHANGED <<breakNodes, continueNodes, switchNodes, defaultStmts>>

EndCase ==
    /\ InFrame({"case"})
    /\ Leave("endcase", "endSection")
    /\ UNCHANGED <<breakNodes, continueNodes, switchNodes, defaultStmts>>

\* Only now does the switch know its default.
EndDefault ==
    /\ InFrame({"default"})
    /\ Leave("enddefault", "endSection")
    /\ defaultStmts' = defaultStmts \cup {Last(switchNodes)}
    /\ UNCHANGED <<breakNodes, continueNodes, switchNodes>>

\* The closing brace of the function.
EndFunction ==
    /\ InFrame({"block"}) /\ Len(open) = 1
    /\ outcome' = "parsed"
    /\ open' = <<>>
    /\ ast' = ast \o <<End("endblock", 1), Mk("endfunc")>>
    /\ UNCHANGED <<next, breakNodes, continueNodes, switchNodes, defaultStmts>>

Branching == {FALSE} \cup {b \in {TRUE} : "branching" \in Constructs}

ParserNext ==
    \/ \E b \in Branching :
         \/ ExprStmt(b) \/ IfStmt(b) \/ EndDoWhile(b)
         \/ \E cond \in BOOLEAN : (b => cond) /\ (ForStmt(cond, b) \/ WhileStmt(cond, b))
    \/ ReturnStmt \/ BreakStmt \/ ContinueStmt \/ NullStmt
    \/ OpenBlock \/ CloseBlock \/ Else \/ EndIf \/ EndFor \/ DoWhileStmt
    \/ SwitchStmt \/ EndSwitch \/ CaseStmt \/ DefaultStmt \/ EndCase \/ EndDefault
    \/ EndFunction

=============================================================================
