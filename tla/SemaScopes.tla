----------------------------- MODULE SemaScopes -----------------------------
(***************************************************************************)
(* The parser's and Sema's treatment of ordinary names: which scopes they  *)
(* open and close, what each declaration adds to the symbol table, and the *)
(* declaration each access is resolved to while the AST is built.          *)
(*                                                                         *)
(* One action is one external declaration, one statement, or the opening   *)
(* or closing of a compound one; `frames` is the parser's call stack       *)
(* (ParseFuncDecl, ParseBlockStmt, ParseForStmt, ParseCaseStmt).  if, while*)
(* and do-while open no scope and are visited in source order, so that for *)
(* names they are the sequence of their parts; an initialiser of a local   *)
(* variable is the sequence of accesses after its declaration.             *)
(*                                                                         *)
(* `ast` lists the nodes in the order in which CodeGen visits them, which  *)
(* differs from the order of parsing in two places: the increment of a for *)
(* is visited after the body, and a global's initialiser before the global *)
(* is entered in globalVarMap.                                             *)
(***************************************************************************)
EXTENDS Scope

CONSTANTS
    NoName,     \* an optional part that is absent
    MaxNodes,   \* bound on the nodes of a program (those closing it excepted)
    MaxExternals, \* bound on the external declarations of a program
    MaxTypedefs,  \* bound on the typedefs of a program
    MaxParams,  \* bound on the parameters of a function
    Shapes      \* which of AllShapes the programs may contain

(***************************************************************************)
(* Source shapes on which Sema and CodeGen are known to part ways; every   *)
(* other program is in the model whatever Shapes is.                       *)
(***************************************************************************)
AllShapes ==
    { "caseDecl",      \* a declaration directly after a case label
      "loopReuse",     \* a for declares a name its function also declares
      "loopBodyDecl",  \* a declaration that is itself the body of a for
      "funcPointer",   \* a declarator "(*p)(int a)" in a block
      "typedefExpr",   \* a typedef name where an expression needs an object
      "globalSelf",    \* int a, *p = &p; at file scope
      "secondBody" }   \* a prototype, then two definitions of the function

ASSUME NamesAssumption == NoName \notin Names
ASSUME BoundsAssumption == {MaxNodes, MaxExternals, MaxTypedefs, MaxParams} \subseteq Nat
ASSUME ShapesAssumption == Shapes \subseteq AllShapes

VARIABLES
    outcome,   \* "parsing", "parsed", "rejected" (Report exits), "crashed"
    envs,      \* Scope::envs
    frames,    \* the open constructs, innermost last
    ast,       \* the nodes in visit order
    declared,  \* history: the declarations made, with their scopes
    path       \* history: the identity of every open scope, like envs

semaVars == <<outcome, envs, frames, ast, declared, path>>

OptName == Names \cup {NoName}

Frame == [kind : {"func", "block", "for", "case"},
          switch : BOOLEAN,        \* the block is the body of a switch
          name : OptName,          \* the function being defined
          bodyDone : BOOLEAN,      \* the for has its body
          inc : Seq([name : Names, sym : Symbol]),
          height : Nat]            \* history: Len(envs) inside the construct

\* Nodes that carry a name and its symbol, and nodes that only open, close or
\* leave a construct.  `params` and `first` (the number of the first
\* parameter's declaration) are those of a function.
Node ==
    [kind : {"gvar", "func", "var", "use"}, name : Names, sym : Symbol,
     params : Seq(Names), first : Nat, depth : Int]
    \cup
    [kind : {"endfunc", "block", "endblock", "case", "endcase", "for", "endfor", "jump"},
     name : OptName, sym : {NoSymbol},
     params : Seq(Names), first : Nat, depth : Int]

Mk(kind, name, sym, depth) ==
    [kind |-> kind, name |-> name, sym |-> sym, params |-> <<>>,
     first |-> 0, depth |-> depth]

Here == Len(frames)

NewFrame(kind, height) ==
    [kind |-> kind, switch |-> FALSE, name |-> NoName,
     bodyDone |-> FALSE, inc |-> <<>>, height |-> height]

-----------------------------------------------------------------------------

SemaInit ==
    /\ outcome = "parsing"
    /\ envs = <<EmptyTable>>
    /\ frames = <<>>
    /\ ast = <<>>
    /\ declared = <<>>
    /\ path = <<0>>

\* DiagEngine::Report of an error: print and exit(0).
Report ==
    /\ outcome' = "rejected"
    /\ UNCHANGED <<envs, frames, ast, declared, path>>

Room(k) == Len(ast) + k <= MaxNodes

RoomForExternal ==
    Cardinality({i \in DOMAIN ast : ast[i].kind \in {"gvar", "func"}}) < MaxExternals

AtTop == outcome = "parsing" /\ frames = <<>>

InFrame(kinds) ==
    outcome = "parsing" /\ frames # <<>> /\ Last(frames).kind \in kinds

\* ParseStmt is called: in a block, after a label, or for the body of a for.
AtStmt ==
    \/ InFrame({"block", "case"})
    \/ InFrame({"for"}) /\ ~Last(frames).bodyDone

\* A statement has been parsed: a for has its body, a block goes on.
AfterStmt(fs) ==
    IF fs # <<>> /\ Last(fs).kind = "for"
      THEN [fs EXCEPT ![Len(fs)].bodyDone = TRUE]
      ELSE fs

NewDecl(kind) == [kind |-> kind, decl |-> Len(declared) + 1, body |-> FALSE]

FuncSymbol(body) == [kind |-> "func", decl |-> 0, body |-> body]

Decl(n, s, p) == [name |-> n, sym |-> s, path |-> p]

RedefinedVariableOnly(n) == FindObjSymbolInCurEnv(envs, n).kind = "var"

Redefined(n) == FindObjSymbolInCurEnv(envs, n) # NoSymbol

Found(es, n) == FindObjSymbol(es, n)

\* An expression may name n where Sema finds s: Sema itself asks only that
\* there be a symbol, the rest is the choice of programs.
Accessible(s) == s.kind = "typedef" => "typedefExpr" \in Shapes

Use(n, s) == Mk("use", n, s, Here)

\* The access an initialiser makes.
InitNodes(init, s) == IF init = NoName THEN <<>> ELSE <<Use(init, s)>>

-----------------------------------------------------------------------------
(* External declarations. *)

\* ParseProgram on "int n = init": IsFuncDecl first parses the declarator and
\* its initialiser in Skip mode, where n is not entered and an undefined name
\* is not reported but its null symbol dereferenced (sema.cc:36); only then
\* ParseDeclStmt parses it again.  A declarator after a comma (~first) is
\* parsed once, in Normal mode.
GlobalDecl(n, init, first) ==
    /\ AtTop /\ Room(2) /\ RoomForExternal
    /\ first \/ (ast # <<>> /\ Last(ast).kind = "gvar")
    /\ init = n => first \/ "globalSelf" \in Shapes
    /\ LET s == NewDecl("var")
           es == AddObjSymbol(envs, n, s)
           undefined(e) == init # NoName /\ Found(e, init) = NoSymbol
       IN \/ /\ first /\ undefined(envs)
             /\ outcome' = "crashed"
             /\ UNCHANGED <<envs, frames, ast, declared, path>>
          \/ /\ ~(first /\ undefined(envs))
             /\ Redefined(n) \/ undefined(es)
             /\ Report
          \/ /\ ~(first /\ undefined(envs)) /\ ~Redefined(n) /\ ~undefined(es)
             /\ init # NoName => Accessible(Found(es, init))
             /\ envs' = es
             /\ ast' = ast \o (InitNodes(init, Found(es, init)) \o <<Mk("gvar", n, s, Here)>>)
             /\ declared' = Append(declared, Decl(n, s, path))
             /\ UNCHANGED <<outcome, frames, path>>

\* SemaTypedefDecl, from a statement or a file-scope declaration (the
\* declarator itself is parsed in Skip mode and enters nothing).
TypedefDecl(n) ==
    /\ AtTop \/ InFrame({"block", "case"})
    /\ Cardinality({i \in DOMAIN declared : declared[i].sym.kind = "typedef"}) < MaxTypedefs
    /\ \/ /\ Redefined(n)
          /\ Report
       \/ /\ ~Redefined(n)
          /\ LET s == NewDecl("typedef") IN
             /\ envs' = AddObjSymbol(envs, n, s)
             /\ declared' = Append(declared, Decl(n, s, path))
          /\ UNCHANGED <<outcome, frames, ast, path>>

\* The scope ParseFuncDecl opens: the parameters, declared from left to
\* right, and then the function's own name.
HeaderNames(n, params) == Append(params, n)

HeaderSymbol(n, params, i) ==
    IF i = Len(params) + 1 THEN FuncSymbol(FALSE)
    ELSE [kind |-> "var", decl |-> Len(declared) + i, body |-> FALSE]

HeaderTable(n, params) ==
    LET ns == HeaderNames(n, params)
    IN  [m \in Names |->
           IF \E i \in DOMAIN ns : ns[i] = m
             THEN HeaderSymbol(n, params, CHOOSE i \in DOMAIN ns : ns[i] = m)
             ELSE NoSymbol]

HeaderDecls(n, params, p) ==
    [i \in 1 .. Len(params) + 1 |->
       Decl(HeaderNames(n, params)[i], HeaderSymbol(n, params, i), p)]

FuncNode(n, params, body) ==
    [Mk("func", n, FuncSymbol(body), Here) EXCEPT
       !.params = params, !.first = Len(declared) + 1]

FuncRedefinedByKindOnly(s, body) == s # NoSymbol /\ s.kind # "func"

\* SemaFuncDecl on the symbol it finds in the current environment.
FuncRedefined(s, body) ==
    /\ s # NoSymbol
    /\ s.kind # "func" \/ (s.body /\ body)

AddFunction(es, n, body) ==
    IF FindObjSymbolInCurEnv(es, n) = NoSymbol \/ body
      THEN AddObjSymbol(es, n, FuncSymbol(body))
      ELSE es

\* "int n(params);": the scope is left before SemaFuncDecl.
FuncPrototype(n, params) ==
    /\ AtTop /\ Room(1) /\ RoomForExternal
    /\ \/ /\ ~IsInjective(HeaderNames(n, params))
          /\ Report
       \/ /\ IsInjective(HeaderNames(n, params))
          /\ FuncRedefined(FindObjSymbolInCurEnv(envs, n), FALSE)
          /\ Report
       \/ /\ IsInjective(HeaderNames(n, params))
          /\ ~FuncRedefined(FindObjSymbolInCurEnv(envs, n), FALSE)
          /\ envs' = AddFunction(envs, n, FALSE)
          /\ ast' = Append(ast, FuncNode(n, params, FALSE))
          /\ declared' = declared
                \o HeaderDecls(n, params, Append(path, Len(ast) + 1))
                \o <<Decl(n, FuncSymbol(FALSE), path)>>
          /\ UNCHANGED <<outcome, frames, path>>

Defined(n) ==
    \E i \in DOMAIN ast : ast[i].kind = "func" /\ ast[i].name = n /\ ast[i].sym.body

\* "int n(params) {": the declarator and the opening of the body's block.
FuncDefinition(n, params) ==
    /\ AtTop /\ Room(2) /\ RoomForExternal
    /\ Defined(n) =>
         FindObjSymbolInCurEnv(envs, n).body \/ "secondBody" \in Shapes
    /\ \/ /\ ~IsInjective(HeaderNames(n, params))
          /\ Report
       \/ /\ IsInjective(HeaderNames(n, params))
          /\ envs' = EnterScope(Append(envs, HeaderTable(n, params)))
          /\ frames' = <<[NewFrame("func", Len(envs) + 1) EXCEPT !.name = n],
                       NewFrame("block", Len(envs) + 2)>>
          /\ ast' = ast \o <<FuncNode(n, params, TRUE),
                             Mk("block", NoName, NoSymbol, 1)>>
          /\ path' = path \o <<Len(ast) + 1, Len(ast) + 2>>
          /\ declared' = declared
                \o HeaderDecls(n, params, Append(path, Len(ast) + 1))
          /\ UNCHANGED outcome

\* The closing brace of a function's body: ExitScope twice, SemaFuncDecl.
FuncEnd ==
    /\ InFrame({"block"}) /\ Len(frames) = 2
    /\ LET n == frames[1].name
           es == ExitScope(ExitScope(envs))
           s == FindObjSymbolInCurEnv(es, n)
       IN \/ /\ FuncRedefined(s, TRUE)
             /\ Report
          \/ /\ ~FuncRedefined(s, TRUE)
             /\ envs' = AddFunction(es, n, TRUE)
             /\ frames' = <<>>
             /\ path' = Front(Front(path))
             /\ ast' = ast \o <<Mk("endblock", NoName, NoSymbol, 1),
                                Mk("endfunc", NoName, NoSymbol, 0)>>
             /\ declared' = Append(declared, Decl(n, FuncSymbol(TRUE), Front(Front(path))))
             /\ UNCHANGED outcome

-----------------------------------------------------------------------------
(* Statements. *)

\* The declarations of the function being parsed.
FunctionDecls ==
    {i \in DOMAIN declared : Len(declared[i].path) >= 2 /\ declared[i].path[2] = path[2]}

LoopNames ==
    {ast[i].name : i \in {j \in DOMAIN ast : j > path[2] /\ ast[j].kind = "for"}}

\* The shapes a declaration statement in this place would take.
DeclShape ==
    /\ InFrame({"case"}) => "caseDecl" \in Shapes
    /\ InFrame({"for"}) => "loopBodyDecl" \in Shapes

\* "int n;" in a block: ParseDeclStmt, DirectDeclarator, SemaVariableDeclNode.
VarDecl(n) ==
    /\ AtStmt /\ Room(1) /\ DeclShape
    /\ n \in LoopNames => "loopReuse" \in Shapes
    /\ \/ /\ Redefined(n)
          /\ Report
       \/ /\ ~Redefined(n)
          /\ LET s == NewDecl("var") IN
             /\ envs' = AddObjSymbol(envs, n, s)
             /\ ast' = Append(ast, Mk("var", n, s, Here))
             /\ declared' = Append(declared, Decl(n, s, path))
          /\ frames' = AfterStmt(frames)
          /\ UNCHANGED <<outcome, path>>

\* "int (*n)(int p);" in a block: after n is declared, the suffix is parsed
\* once more in Normal mode to skip it (parser.cc:400), which declares p.
FuncPointerDecl(n, p) ==
    /\ AtStmt /\ Room(1) /\ DeclShape
    /\ "funcPointer" \in Shapes
    /\ n \in LoopNames => "loopReuse" \in Shapes
    /\ LET s == NewDecl("var")
           es == AddObjSymbol(envs, n, s)
           t == [s EXCEPT !.decl = @ + 1]
       IN \/ /\ Redefined(n) \/ FindObjSymbolInCurEnv(es, p) # NoSymbol
             /\ Report
          \/ /\ ~Redefined(n) /\ FindObjSymbolInCurEnv(es, p) = NoSymbol
             /\ envs' = AddObjSymbol(es, p, t)
             /\ ast' = Append(ast, Mk("var", n, s, Here))
             /\ declared' = declared \o <<Decl(n, s, path), Decl(p, t, path)>>
             /\ frames' = AfterStmt(frames)
             /\ UNCHANGED <<outcome, path>>

\* An expression statement (or a condition, or a local initialiser) that
\* names n: ParsePrimary, SemaVariableAccessNode.
Access(n) ==
    /\ AtStmt /\ Room(1)
    /\ LET s == Found(envs, n) IN
       \/ /\ s = NoSymbol
          /\ Report
       \/ /\ s # NoSymbol /\ Accessible(s)
          /\ ast' = Append(ast, Use(n, s))
          /\ frames' = AfterStmt(frames)
          /\ UNCHANGED <<outcome, envs, declared, path>>

\* return, break or continue (that the last two have a target is the subject
\* of another module).
Jump ==
    /\ AtStmt /\ Room(1)
    /\ ast' = Append(ast, Mk("jump", NoName, NoSymbol, Here))
    /\ frames' = AfterStmt(frames)
    /\ UNCHANGED <<outcome, envs, declared, path>>

\* ParseBlockStmt up to its brace; switch is TRUE for "switch (e) {".
OpenBlock(switch) ==
    /\ AtStmt /\ Room(1)
    /\ envs' = EnterScope(envs)
    /\ frames' = Append(frames, [NewFrame("block", Len(envs) + 1) EXCEPT !.switch = switch])
    /\ ast' = Append(ast, Mk("block", NoName, NoSymbol, Here))
    /\ path' = Append(path, Len(ast) + 1)
    /\ UNCHANGED <<outcome, declared>>

\* A label ends the statements of the label before it, if one is open.
EndCase(fs) == IF Last(fs).kind = "case" THEN Front(fs) ELSE fs

EndCaseNode ==
    IF Last(frames).kind = "case"
      THEN <<Mk("endcase", NoName, NoSymbol, Here - 1)>> ELSE <<>>

\* ParseCaseStmt and ParseDefaultStmt up to the colon: no scope is opened.
CaseLabel ==
    /\ InFrame({"block", "case"}) /\ Room(2)
    /\ LET fs == EndCase(frames) IN
       \/ /\ ~\E i \in DOMAIN frames : frames[i].switch
          /\ Report
       \/ /\ \E i \in DOMAIN frames : frames[i].switch
          /\ frames' = Append(fs, NewFrame("case", Len(envs)))
          /\ ast' = ast \o (EndCaseNode \o <<Mk("case", NoName, NoSymbol, Len(fs))>>)
          /\ UNCHANGED <<outcome, envs, declared, path>>

\* The closing brace of a block other than a function's body.
CloseBlock ==
    /\ InFrame({"block", "case"})
    /\ LET fs == EndCase(frames) IN
       /\ Len(fs) > 2
       /\ envs' = ExitScope(envs)
       /\ frames' = AfterStmt(Front(fs))
       /\ ast' = ast \o (EndCaseNode \o <<Mk("endblock", NoName, NoSymbol, Len(fs) - 1)>>)
       /\ path' = Front(path)
       /\ UNCHANGED <<outcome, declared>>

\* ParseForStmt up to the closing parenthesis.  The scope holds the variable
\* of the first clause; the increment is resolved here and visited later.
OpenFor(init, inc) ==
    /\ AtStmt /\ Room(3)
    /\ init # NoName =>
         "loopReuse" \in Shapes \/
         ( Found(envs, init) = NoSymbol
           /\ ~\E i \in FunctionDecls : declared[i].name = init )
    /\ LET s == NewDecl("var")
           scope == EnterScope(envs)
           es == IF init = NoName THEN scope ELSE AddObjSymbol(scope, init, s)
           p == Append(path, Len(ast) + 1)
       IN \/ /\ inc # NoName /\ Found(es, inc) = NoSymbol
             /\ Report
          \/ /\ inc # NoName => Found(es, inc) # NoSymbol /\ Accessible(Found(es, inc))
             /\ envs' = es
             /\ frames' = Append(frames,
                  [NewFrame("for", Len(envs) + 1) EXCEPT
                     !.inc = IF inc = NoName THEN <<>>
                             ELSE <<[name |-> inc, sym |-> Found(es, inc)]>>])
             /\ ast' = ast \o
                  (IF init = NoName THEN <<Mk("for", init, NoSymbol, Here)>>
                   ELSE <<Mk("for", init, NoSymbol, Here), Mk("var", init, s, Here + 1)>>)
             /\ path' = p
             /\ declared' = IF init = NoName THEN declared
                            ELSE Append(declared, Decl(init, s, p))
             /\ UNCHANGED outcome

CloseForKeepsScope ==
    /\ InFrame({"for"}) /\ Last(frames).bodyDone
    /\ frames' = AfterStmt(Front(frames))
    /\ ast' = Append(ast, Mk("endfor", NoName, NoSymbol, Here - 1))
    /\ path' = Front(path)
    /\ UNCHANGED <<outcome, envs, declared>>

IncNodes(inc) == [i \in DOMAIN inc |-> Use(inc[i].name, inc[i].sym)]

\* The for has its body: ExitScope, and the node's last child is visited.
CloseFor ==
    /\ InFrame({"for"}) /\ Last(frames).bodyDone
    /\ envs' = ExitScope(envs)
    /\ frames' = AfterStmt(Front(frames))
    /\ ast' = ast \o (IncNodes(Last(frames).inc)
                         \o <<Mk("endfor", NoName, NoSymbol, Here - 1)>>)
    /\ path' = Front(path)
    /\ UNCHANGED <<outcome, declared>>

\* ParseProgram reaches eof.
EndOfInput ==
    /\ AtTop
    /\ outcome' = "parsed"
    /\ UNCHANGED <<envs, frames, ast, declared, path>>

ParamLists == BoundedSeq(Names, MaxParams)

SemaNext ==
    \/ \E n \in Names : \/ TypedefDecl(n) \/ VarDecl(n) \/ Access(n)
                        \/ \E init \in OptName, first \in BOOLEAN : GlobalDecl(n, init, first)
                        \/ \E p \in Names : FuncPointerDecl(n, p)
                        \/ \E params \in ParamLists : \/ FuncPrototype(n, params)
                                                      \/ FuncDefinition(n, params)
    \/ \E init, inc \in OptName : OpenFor(init, inc)
    \/ \E switch \in BOOLEAN : OpenBlock(switch)
    \/ Jump \/ CaseLabel \/ CloseBlock \/ CloseFor \/ FuncEnd \/ EndOfInput

=============================================================================
