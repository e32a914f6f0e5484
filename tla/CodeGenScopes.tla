---------------------------- MODULE CodeGenScopes ----------------------------
(***************************************************************************)
(* CodeGen's treatment of ordinary names.  The AST keeps no link from an   *)
(* access to its declaration: CodeGen resolves every name a second time,   *)
(* against tables of its own, while it visits the tree.  globalVarMap holds*)
(* globals and functions, localVarMap is a stack of tables of allocas, with*)
(* a table for the parameters and one for every BlockStmt visited.         *)
(*                                                                         *)
(* An alloca or a global is modelled by the symbol of the declaration it   *)
(* was made for.  One action visits one node of `nodes`, which lists them  *)
(* in visit order.  Definitions that no other refers to are variants with   *)
(* a seeded mistake, against which the properties are tried.               *)
(***************************************************************************)
EXTENDS Scope

VARIABLES
    nodes,         \* the AST
    pos,           \* the node being visited, 0 before and after the visit
    localVarMap,
    globalVarMap,
    loads,         \* history: <<access node, what GetVarByName returned>>
    gen            \* "idle", "visiting", "done", "aborted" (assert fails)

codeGenVars == <<nodes, pos, localVarMap, globalVarMap, loads, gen>>

CodeGenInit ==
    /\ nodes = <<>>
    /\ pos = 0
    /\ localVarMap = <<>>
    /\ globalVarMap = EmptyTable
    /\ loads = {}
    /\ gen = "idle"

Start(tree) ==
    /\ gen = "idle"
    /\ gen' = "visiting"
    /\ nodes' = tree
    /\ pos' = 1
    /\ UNCHANGED <<localVarMap, globalVarMap, loads>>

Visiting(kinds) ==
    /\ gen = "visiting" /\ pos \in DOMAIN nodes
    /\ nodes[pos].kind \in kinds

Advance ==
    /\ pos' = pos + 1
    /\ UNCHANGED <<nodes, gen>>

PushScope == localVarMap' = Append(localVarMap, EmptyTable)

PopScope == localVarMap' = Front(localVarMap)

AddLocalVarToMap(n, s) ==
    localVarMap' = [localVarMap EXCEPT ![Len(localVarMap)] = Insert(@, n, s)]

AddGlobalFunctionsOnly(n, s) ==
    globalVarMap' = IF s.kind = "func" THEN Insert(globalVarMap, n, s) ELSE globalVarMap

AddGlobalVariablesOnly(n, s) ==
    globalVarMap' = IF s.kind = "var" THEN Insert(globalVarMap, n, s) ELSE globalVarMap

AddGlobalVarToMap(n, s) == globalVarMap' = Insert(globalVarMap, n, s)

GetVarByNameOutermost(n) ==
    LET hits == {i \in DOMAIN localVarMap : localVarMap[i][n] # NoSymbol}
    IN  IF hits = {} THEN globalVarMap[n] ELSE localVarMap[Min(hits)][n]

\* localVarMap from the innermost table outwards, then globalVarMap.
GetVarByName(n) ==
    LET hits == {i \in DOMAIN localVarMap : localVarMap[i][n] # NoSymbol}
    IN  IF hits = {} THEN globalVarMap[n] ELSE localVarMap[Max(hits)][n]

-----------------------------------------------------------------------------

VisitGlobal ==
    /\ Visiting({"gvar"})
    /\ AddGlobalVarToMap(nodes[pos].name, nodes[pos].sym)
    /\ Advance
    /\ UNCHANGED <<localVarMap, loads>>

\* module->getFunction finds what an earlier FuncDecl of the name created;
\* the new function is entered before the body.
VisitFuncDecl ==
    /\ Visiting({"func"})
    /\ LET f == nodes[pos] IN
       /\ IF globalVarMap[f.name].kind = "func"
            THEN UNCHANGED globalVarMap
            ELSE AddGlobalVarToMap(f.name, [f.sym EXCEPT !.body = FALSE])
       /\ localVarMap' =
            IF f.sym.body
              THEN << [n \in Names |->
                         IF \E i \in DOMAIN f.params : f.params[i] = n
                           THEN [kind |-> "var", body |-> FALSE,
                                 decl |-> f.first - 1 +
                                   (CHOOSE i \in DOMAIN f.params : f.params[i] = n)]
                           ELSE NoSymbol] >>
              ELSE <<>>
    /\ Advance
    /\ UNCHANGED loads

VisitFuncEnd ==
    /\ Visiting({"endfunc"})
    /\ PopScope
    /\ Advance
    /\ UNCHANGED <<globalVarMap, loads>>

\* VisitBlockStmt, of a block and of the BlockStmt a case or default holds.
VisitBlock ==
    /\ Visiting({"block", "case"})
    /\ PushScope
    /\ Advance
    /\ UNCHANGED <<globalVarMap, loads>>

VisitBlockEnd ==
    /\ Visiting({"endblock", "endcase"})
    /\ PopScope
    /\ Advance
    /\ UNCHANGED <<globalVarMap, loads>>

\* VisitForStmt pushes no scope: the first clause is visited in the table of
\* the enclosing block.
VisitFor ==
    /\ Visiting({"for", "endfor"})
    /\ Advance
    /\ UNCHANGED <<localVarMap, globalVarMap, loads>>

VisitVariableDecl ==
    /\ Visiting({"var"})
    /\ AddLocalVarToMap(nodes[pos].name, nodes[pos].sym)
    /\ Advance
    /\ UNCHANGED <<globalVarMap, loads>>

VisitVariableAccessUnchecked ==
    /\ Visiting({"use"})
    /\ loads' = loads \cup {<<pos, GetVarByName(nodes[pos].name)>>}
    /\ Advance
    /\ UNCHANGED <<localVarMap, globalVarMap>>

VisitVariableAccess ==
    /\ Visiting({"use"})
    /\ LET s == GetVarByName(nodes[pos].name) IN
       \/ /\ s # NoSymbol
          /\ loads' = loads \cup {<<pos, s>>}
          /\ Advance
       \/ /\ s = NoSymbol       \* assert(globalVarMap.find(name) != ...end())
          /\ gen' = "aborted"
          /\ UNCHANGED <<nodes, pos, loads>>
    /\ UNCHANGED <<localVarMap, globalVarMap>>

\* The node that closes the construct the node at i is directly in.
CloserOf(i) ==
    Min({j \in DOMAIN nodes : j > i /\ nodes[j].depth < nodes[i].depth})

VisitJumpPastEnd ==
    /\ Visiting({"jump"})
    /\ pos' = IF nodes[CloserOf(pos)].kind = "endfor" THEN pos + 1 ELSE CloserOf(pos) + 1
    /\ UNCHANGED <<nodes, localVarMap, globalVarMap, loads, gen>>

\* After a return, break or continue VisitBlockStmt leaves the rest of its
\* block unvisited; the body of a for that is a single jump has no rest.
VisitJump ==
    /\ Visiting({"jump"})
    /\ pos' = IF nodes[CloserOf(pos)].kind = "endfor" THEN pos + 1 ELSE CloserOf(pos)
    /\ UNCHANGED <<nodes, localVarMap, globalVarMap, loads, gen>>

VisitProgramEnd ==
    /\ gen = "visiting" /\ pos = Len(nodes) + 1
    /\ gen' = "done"
    /\ pos' = 0
    /\ UNCHANGED <<nodes, localVarMap, globalVarMap, loads>>

VisitNext ==
    \/ VisitGlobal \/ VisitFuncDecl \/ VisitFuncEnd \/ VisitBlock \/ VisitBlockEnd
    \/ VisitFor \/ VisitVariableDecl \/ VisitVariableAccess \/ VisitJump
    \/ VisitProgramEnd

=============================================================================
