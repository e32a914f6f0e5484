------------------------ MODULE NameResolutionProofs ------------------------
(***************************************************************************)
(* The inductive invariant IInv of NameResolution, for all programs: any   *)
(* set of names, any bounds and any choice of shapes.  First the steps of  *)
(* the parser and Sema, then the visitor's, and the theorems.  The second  *)
(* part is about Sema's symbol tables against the history of               *)
(* declarations: lookups are lexical and redeclarations are reported.      *)
(*                                                                         *)
(* The third part is about CodeGen's tables against Sema's.  The argument  *)
(* follows what a visit of the nodes parsed so far would leave in          *)
(* globalVarMap and localVarMap, a table g and a stack l after each node:  *)
(* every step of the parser extends this visit and keeps its tables tied   *)
(* to the environments of the scopes still open.  A finished AST has such  *)
(* a visit, and CodeGen, whose jumps leave nodes out, never leaves it for  *)
(* long.  The lemmas about the visit of any sequence of nodes come first.  *)
(***************************************************************************)
EXTENDS NameResolution, StackLemmas, FiniteSetTheorems

-----------------------------------------------------------------------------

(* What the operators of module Scope return. *)

\* A table stays a table when a symbol is inserted.
LEMMA InsertType ==
  ASSUME NEW t \in Table, NEW n \in Names, NEW s \in Symbol
  PROVE  Insert(t, n, s) \in Table
BY DEF Insert, Table

\* A new environment is a table.
LEMMA EmptyTableType == EmptyTable \in Table
BY DEF EmptyTable, Table

\* EnterScope adds one environment on top.
LEMMA EnterScopeType ==
  ASSUME NEW es \in Seq(Table)
  PROVE  EnterScope(es) \in Seq(Table) /\ Len(EnterScope(es)) = Len(es) + 1
BY EmptyTableType DEF EnterScope

\* Adding a symbol changes the innermost environment only.
LEMMA AddObjSymbolType ==
  ASSUME NEW es \in Seq(Table), es # <<>>, NEW n \in Names, NEW s \in Symbol
  PROVE  /\ AddObjSymbol(es, n, s) \in Seq(Table)
         /\ Len(AddObjSymbol(es, n, s)) = Len(es)
<1>1. es[Len(es)] \in Table
  OBVIOUS
<1>2. QED
  BY <1>1, InsertType DEF AddObjSymbol

\* A lookup returns NoSymbol or a symbol.
LEMMA FindObjSymbolType ==
  ASSUME NEW es \in Seq(Table), NEW n \in Names
  PROVE  FindObjSymbol(es, n) \in Symbol \cup {NoSymbol}
<1> DEFINE hits == EnvsWith(es, n)
<1>1. CASE hits = {}
  BY <1>1 DEF FindObjSymbol
<1>2. CASE hits # {}
  <2>1. hits \in SUBSET (1 .. Len(es)) /\ Len(es) \in Nat
    BY DEF EnvsWith
  <2>2. Max(hits) \in 1 .. Len(es)
    BY <1>2, <2>1, MaxOfIndices
  <2>3. es[Max(hits)] \in Table
    BY <2>2
  <2>4. QED
    BY <1>2, <2>3 DEF FindObjSymbol, Table
<1>3. QED
  BY <1>1, <1>2

\* The lookup in the current environment returns a symbol or NoSymbol.
LEMMA FindInCurEnvType ==
  ASSUME NEW es \in Seq(Table), es # <<>>, NEW n \in Names
  PROVE  FindObjSymbolInCurEnv(es, n) \in Symbol \cup {NoSymbol}
BY LastType DEF FindObjSymbolInCurEnv, Table

-----------------------------------------------------------------------------
(* The parser's part of the invariant. *)

SemaInv == SemaTypeOK /\ FrameInv /\ ClosedInv

DeclRecord == [name : Names, sym : Symbol, path : Seq(Nat)]

-----------------------------------------------------------------------------
(* Types of the operators of SemaScopes. *)

\* A node with a name and a symbol is a node.
LEMMA MkNamed ==
  ASSUME NEW k \in {"gvar", "func", "var", "use"},
         NEW n \in Names, NEW s \in Symbol, NEW d \in Int
  PROVE  Mk(k, n, s, d) \in Node /\ Mk(k, n, s, d).kind = k /\ Mk(k, n, s, d).depth = d
<1>1. <<>> \in Seq(Names) /\ 0 \in Nat
  OBVIOUS
<1>2. QED
  BY <1>1 DEF Mk, Node

\* A node that opens, closes or leaves a construct is a node.
LEMMA MkNameless ==
  ASSUME NEW k \in {"endfunc", "block", "endblock", "case", "endcase", "for", "endfor", "jump"},
         NEW n \in OptName, NEW d \in Int
  PROVE  /\ Mk(k, n, NoSymbol, d) \in Node
         /\ Mk(k, n, NoSymbol, d).kind = k /\ Mk(k, n, NoSymbol, d).depth = d
<1>1. <<>> \in Seq(Names) /\ 0 \in Nat
  OBVIOUS
<1>2. QED
  BY <1>1 DEF Mk, Node

\* The symbol of a new declaration is a symbol.
LEMMA NewDeclType ==
  ASSUME declared \in Seq(DeclRecord), NEW k \in {"var", "func", "typedef"}
  PROVE  NewDecl(k) \in Symbol
BY DEF NewDecl, Symbol

\* A function's symbol is a symbol.
LEMMA FuncSymbolType == \A b \in BOOLEAN : FuncSymbol(b) \in Symbol
BY DEF FuncSymbol, Symbol

\* An entry of the history of declarations has its type.
LEMMA DeclType ==
  ASSUME NEW n \in Names, NEW s \in Symbol, NEW p \in Seq(Nat)
  PROVE  Decl(n, s, p) \in DeclRecord
BY DEF Decl, DeclRecord

\* A frame just opened is a frame.
LEMMA NewFrameType ==
  ASSUME NEW k \in {"func", "block", "for", "case"}, NEW h \in Nat
  PROVE  /\ NewFrame(k, h) \in Frame
         /\ NewFrame(k, h).kind = k
         /\ NewFrame(k, h).height = h
<1>1. <<>> \in Seq([name : Names, sym : Symbol])
  OBVIOUS
<1>2. NoName \in OptName
  BY DEF OptName
<1>3. QED
  BY <1>1, <1>2 DEF NewFrame, Frame

\* AfterStmt changes bodyDone of the last frame and nothing else.
LEMMA AfterStmtType ==
  ASSUME NEW fs \in Seq(Frame)
  PROVE  /\ AfterStmt(fs) \in Seq(Frame)
         /\ Len(AfterStmt(fs)) = Len(fs)
         /\ \A i \in 1 .. Len(fs) : /\ AfterStmt(fs)[i].kind = fs[i].kind
                                    /\ AfterStmt(fs)[i].height = fs[i].height
                                    /\ AfterStmt(fs)[i].name = fs[i].name
<1>1. CASE fs # <<>> /\ Last(fs).kind = "for"
  <2>1. fs[Len(fs)] \in Frame /\ Len(fs) \in 1 .. Len(fs)
    BY <1>1
  <2>2. [fs[Len(fs)] EXCEPT !.bodyDone = TRUE] \in Frame
    BY <2>1 DEF Frame
  <2>3. AfterStmt(fs) = [fs EXCEPT ![Len(fs)] = [fs[Len(fs)] EXCEPT !.bodyDone = TRUE]]
    BY <1>1 DEF AfterStmt
  <2>4. /\ [fs[Len(fs)] EXCEPT !.bodyDone = TRUE].kind = fs[Len(fs)].kind
        /\ [fs[Len(fs)] EXCEPT !.bodyDone = TRUE].height = fs[Len(fs)].height
        /\ [fs[Len(fs)] EXCEPT !.bodyDone = TRUE].name = fs[Len(fs)].name
    BY <2>1 DEF Frame
  <2> HIDE DEF Frame
  <2> DEFINE g == [fs[Len(fs)] EXCEPT !.bodyDone = TRUE]
  <2>5. g \in Frame /\ g.kind = fs[Len(fs)].kind /\ g.height = fs[Len(fs)].height
                    /\ g.name = fs[Len(fs)].name
    BY <2>2, <2>4
  <2>6. AfterStmt(fs) = [fs EXCEPT ![Len(fs)] = g]
    BY <2>3
  <2> HIDE DEF g
  <2>7. QED
    BY <2>1, <2>5, <2>6
<1>2. CASE ~(fs # <<>> /\ Last(fs).kind = "for")
  BY <1>2 DEF AfterStmt
<1>3. QED
  BY <1>1, <1>2

\* An optional name may be absent or a name.
LEMMA NoNameIsOptional == NoName \in OptName /\ Names \subseteq OptName
BY DEF OptName

\* SemaFuncDecl's insertion keeps the type and the number of environments.
LEMMA AddFunctionType ==
  ASSUME NEW es \in Seq(Table), es # <<>>, NEW n \in Names, NEW b \in BOOLEAN
  PROVE  /\ AddFunction(es, n, b) \in Seq(Table)
         /\ Len(AddFunction(es, n, b)) = Len(es) /\ AddFunction(es, n, b) # <<>>
<1>1. FuncSymbol(b) \in Symbol
  BY FuncSymbolType
<1>2. /\ AddObjSymbol(es, n, FuncSymbol(b)) \in Seq(Table)
      /\ Len(AddObjSymbol(es, n, FuncSymbol(b))) = Len(es)
  BY <1>1, AddObjSymbolType
<1>3. AddFunction(es, n, b) \in {es, AddObjSymbol(es, n, FuncSymbol(b))}
  BY DEF AddFunction
<1>4. QED
  BY <1>2, <1>3

\* Nodes appended at a depth that is still open close what they leave.
LEMMA ClosedAppend ==
  ASSUME SemaInv, NEW t \in Seq(Node), t # <<>>,
         ast' = ast \o t, frames' \in Seq(Frame),
         t[Len(t)].depth <= Len(frames'),
         \A i \in 1 .. Len(t) : t[i].kind = "jump" => t[i].depth >= 1
  PROVE  ast' \in Seq(Node) /\ ClosedInv'
<1>1. /\ ast \in Seq(Node)
      /\ ast' \in Seq(Node)
      /\ Len(ast') = Len(ast) + Len(t)
      /\ \A i \in 1 .. Len(ast) + Len(t) :
           ast'[i] = IF i <= Len(ast) THEN ast[i] ELSE t[i - Len(ast)]
  BY ConcatProperties DEF SemaInv, SemaTypeOK
<1>2. Len(ast) \in Nat /\ Len(t) \in Nat /\ Len(t) >= 1 /\ Len(frames') \in Nat
  BY <1>1
<1>3. \A i \in 1 .. Len(ast') : ast'[i].depth \in Int
  BY <1>1 DEF Node
<1>4. ast'[Len(ast')] = t[Len(t)]
  BY <1>1, <1>2
<1>5. ASSUME NEW i \in 1 .. Len(ast')
      PROVE  \/ ast'[i].depth <= Len(frames')
             \/ \E j \in 1 .. Len(ast') : j > i /\ ast'[j].depth < ast'[i].depth
  <2>1. CASE ast'[i].depth <= Len(frames')
    BY <2>1
  <2>2. CASE ast'[i].depth > Len(frames')
    <3>1. ast'[Len(ast')].depth < ast'[i].depth
      BY <1>2, <1>3, <1>4, <2>2, <1>1
    <3>2. Len(ast') # i
      BY <1>4, <3>1, <1>3
    <3>3. Len(ast') \in 1 .. Len(ast') /\ Len(ast') > i
      BY <1>1, <1>2, <3>2
    <3>4. QED
      BY <3>1, <3>3
  <2>3. QED
    BY <2>1, <2>2, <1>2, <1>3
<1>6. ASSUME NEW i \in 1 .. Len(ast'), ast'[i].kind = "jump"
      PROVE  ast'[i].depth >= 1
  <2>1. CASE i <= Len(ast)
    BY <1>1, <1>2, <1>6, <2>1 DEF SemaInv, ClosedInv
  <2>2. CASE i > Len(ast)
    BY <1>1, <1>2, <1>6, <2>2
  <2>3. QED
    BY <2>1, <2>2, <1>2
<1>7. DOMAIN ast' = 1 .. Len(ast')
  BY <1>1
<1>8. QED
  BY <1>1, <1>5, <1>6, <1>7 DEF ClosedInv

\* The nodes a step appends: any but jumps, the last at a depth still open.
LEMMA LastNode ==
  ASSUME NEW u \in Seq(Node), NEW g \in Node, g.kind # "jump",
         \A i \in 1 .. Len(u) : u[i].kind # "jump"
  PROVE  LET t == u \o <<g>>
         IN  /\ t \in Seq(Node) /\ t # <<>> /\ t[Len(t)] = g
             /\ \A i \in 1 .. Len(t) : t[i].kind # "jump"
<1> DEFINE v == <<g>>
           t == u \o v
<1>1. v \in Seq(Node) /\ Len(v) = 1 /\ v[1] = g
  OBVIOUS
<1> HIDE DEF v
<1>2. /\ t \in Seq(Node) /\ Len(t) = Len(u) + Len(v)
      /\ \A i \in 1 .. Len(u) + Len(v) : t[i] = IF i <= Len(u) THEN u[i] ELSE v[i - Len(u)]
  BY <1>1, ConcatProperties, Zenon
<1>3. Len(u) \in Nat
  OBVIOUS
<1> HIDE DEF t
<1>4. t # <<>> /\ t[Len(t)] = g
  BY <1>1, <1>2, <1>3
<1>5. ASSUME NEW i \in 1 .. Len(t) PROVE t[i].kind # "jump"
  <2>1. CASE i <= Len(u)
    BY <1>2, <1>3, <2>1
  <2>2. CASE i > Len(u)
    BY <1>1, <1>2, <1>3, <2>2
  <2>3. QED
    BY <2>1, <2>2, <1>3
<1>6. QED
  BY <1>2, <1>4, <1>5 DEF t, v

\* ClosedAppend for nodes that are no jumps.
LEMMA ClosedAppendLast ==
  ASSUME SemaInv, NEW u \in Seq(Node), NEW g \in Node, g.kind # "jump",
         \A i \in 1 .. Len(u) : u[i].kind # "jump",
         ast' = ast \o (u \o <<g>>), frames' \in Seq(Frame), g.depth <= Len(frames')
  PROVE  ast' \in Seq(Node) /\ ClosedInv'
<1> DEFINE t == u \o <<g>>
<1>1. /\ t \in Seq(Node) /\ t # <<>> /\ t[Len(t)] = g
      /\ \A i \in 1 .. Len(t) : t[i].kind # "jump"
  BY LastNode
<1>2. ast' = ast \o t
  OBVIOUS
<1> HIDE DEF t
<1>3. QED
  BY <1>1, <1>2, ClosedAppend

\* The same for a single node.
LEMMA ClosedAppendOne ==
  ASSUME SemaInv, NEW g \in Node, g.kind = "jump" => g.depth >= 1,
         ast' = Append(ast, g), frames' \in Seq(Frame), g.depth <= Len(frames')
  PROVE  ast' \in Seq(Node) /\ ClosedInv'
<1> DEFINE t == <<g>>
<1>1. t \in Seq(Node) /\ t # <<>> /\ Len(t) = 1 /\ t[1] = g
  OBVIOUS
<1>2. ast' = ast \o t
  <2>1. ast \in Seq(Node)
    BY DEF SemaInv, SemaTypeOK
  <2>2. QED
    BY <2>1, AppendIsConcat
<1> HIDE DEF t
<1>3. \A i \in 1 .. Len(t) : t[i].kind = "jump" => t[i].depth >= 1
  BY <1>1
<1>4. QED
  BY <1>1, <1>2, <1>3, ClosedAppend

-----------------------------------------------------------------------------
(* How the open constructs change. *)

\* Noting that a for has its body does not change the nesting.
LEMMA NestAfterStmt ==
  ASSUME NEW fs \in Seq(Frame), NEW h, WellNested(fs, h)
  PROVE  WellNested(AfterStmt(fs), h) /\ AfterStmt(fs) # <<>>
<1> DEFINE gs == AfterStmt(fs)
<1>1. /\ gs \in Seq(Frame) /\ Len(gs) = Len(fs) /\ Len(fs) \in Nat /\ Len(fs) >= 2
      /\ \A i \in 1 .. Len(fs) : /\ gs[i].kind = fs[i].kind
                                 /\ gs[i].height = fs[i].height
                                 /\ gs[i].name = fs[i].name
  BY AfterStmtType DEF WellNested
<1> HIDE DEF gs
<1>2. \A i \in 2 .. Len(fs) : i \in 1 .. Len(fs) /\ i - 1 \in 1 .. Len(fs)
  BY <1>1
<1>3. 1 \in 1 .. Len(fs) /\ 2 \in 1 .. Len(fs) /\ Len(fs) \in 1 .. Len(fs)
  BY <1>1
<1>4. \A i \in 2 .. Len(fs) :
        /\ gs[i].kind # "func" /\ gs[i].height > 2
        /\ gs[i].height = gs[i - 1].height + (IF gs[i].kind = "case" THEN 0 ELSE 1)
        /\ gs[i].kind = "case" => gs[i - 1].kind = "block"
  BY ZenonT(60), <1>1, <1>2 DEF WellNested
<1>5. WellNested(gs, h) /\ gs # <<>>
  BY <1>1, <1>3, <1>4 DEF WellNested
<1>6. QED
  BY <1>5 DEF gs

\* Opening a block or a for nests one scope deeper.
LEMMA NestPush ==
  ASSUME NEW fs \in Seq(Frame), NEW h \in Nat, WellNested(fs, h), NEW f \in Frame,
         f.kind # "func", f.kind = "case" => fs[Len(fs)].kind = "block",
         f.height = h + (IF f.kind = "case" THEN 0 ELSE 1)
  PROVE  /\ WellNested(Append(fs, f), f.height) /\ Append(fs, f) # <<>>
         /\ Append(fs, f) \in Seq(Frame) /\ Len(Append(fs, f)) = Len(fs) + 1
<1> DEFINE gs == Append(fs, f)
<1>1. /\ gs \in Seq(Frame) /\ Len(gs) = Len(fs) + 1 /\ gs[Len(fs) + 1] = f
      /\ \A i \in 1 .. Len(fs) : gs[i] = fs[i]
  BY AppendProperties
<1> HIDE DEF gs
<1>2. Len(fs) \in Nat /\ Len(fs) >= 2
  BY DEF WellNested
<1>3. ASSUME NEW i \in 2 .. Len(gs)
      PROVE  /\ gs[i].kind # "func" /\ gs[i].height > 2
             /\ gs[i].height = gs[i - 1].height + (IF gs[i].kind = "case" THEN 0 ELSE 1)
             /\ gs[i].kind = "case" => gs[i - 1].kind = "block"
  <2>1. CASE i = Len(gs)
    <3>1. gs[i] = f /\ gs[i - 1] = fs[Len(fs)]
      BY <1>1, <1>2, <2>1
    <3>2. QED
      BY <3>1 DEF WellNested
  <2>2. CASE i # Len(gs)
    <3>1. i \in 2 .. Len(fs) /\ i \in 1 .. Len(fs) /\ i - 1 \in 1 .. Len(fs)
      BY <1>1, <1>2, <2>2
    <3>2. QED
      BY <1>1, <3>1 DEF WellNested
  <2>3. QED
    BY <2>1, <2>2
<1>4. gs[1] = fs[1] /\ gs[2] = fs[2]
  BY <1>1, <1>2
<1>5. WellNested(gs, f.height) /\ gs # <<>>
  BY <1>1, <1>2, <1>3, <1>4 DEF WellNested
<1>6. QED
  BY <1>1, <1>5 DEF gs

\* Closing the innermost construct leaves a well nested stack.
LEMMA NestPop ==
  ASSUME NEW fs \in Seq(Frame), NEW h \in Nat, WellNested(fs, h), Len(fs) > 2
  PROVE  /\ Front(fs) \in Seq(Frame) /\ Front(fs) # <<>> /\ Len(Front(fs)) = Len(fs) - 1
         /\ WellNested(Front(fs), h - (IF fs[Len(fs)].kind = "case" THEN 0 ELSE 1))
<1> DEFINE gs == Front(fs)
<1>1. Len(fs) \in Nat /\ fs # <<>>
  OBVIOUS
<1>2. /\ gs \in Seq(Frame) /\ Len(gs) = Len(fs) - 1
      /\ \A i \in 1 .. Len(fs) - 1 : gs[i] = fs[i]
  BY <1>1, FrontType
<1> HIDE DEF gs
<1>3. \A i \in 2 .. Len(gs) : i \in 2 .. Len(fs) /\ gs[i] = fs[i] /\ gs[i - 1] = fs[i - 1]
  <2>1. \A i \in 2 .. Len(gs) : i \in 1 .. Len(fs) - 1 /\ i - 1 \in 1 .. Len(fs) - 1
                                /\ i \in 2 .. Len(fs)
    BY <1>1, <1>2
  <2>2. QED
    BY <1>2, <2>1
<1>4. /\ fs[Len(fs)].height = h
      /\ fs[Len(fs)].height =
           fs[Len(fs) - 1].height + (IF fs[Len(fs)].kind = "case" THEN 0 ELSE 1)
  <2>1. Len(fs) \in 2 .. Len(fs)
    BY <1>1
  <2>2. QED
    BY <2>1 DEF WellNested
<1>5. gs[1] = fs[1] /\ gs[2] = fs[2] /\ gs[Len(gs)] = fs[Len(fs) - 1] /\ Len(gs) >= 2
  BY <1>1, <1>2
<1>6. fs[Len(fs) - 1].height \in Nat
  <2>1. Len(fs) - 1 \in 1 .. Len(fs)
    BY <1>1
  <2>2. fs[Len(fs) - 1] \in Frame
    BY <2>1
  <2>3. QED
    BY <2>2 DEF Frame
<1>7. gs[Len(gs)].height = h - (IF fs[Len(fs)].kind = "case" THEN 0 ELSE 1)
  BY <1>4, <1>5, <1>6
<1>8. \A i \in 2 .. Len(gs) :
         /\ gs[i].kind # "func" /\ gs[i].height > 2
         /\ gs[i].height = gs[i - 1].height + (IF gs[i].kind = "case" THEN 0 ELSE 1)
         /\ gs[i].kind = "case" => gs[i - 1].kind = "block"
  BY <1>3 DEF WellNested
<1>9. WellNested(gs, h - (IF fs[Len(fs)].kind = "case" THEN 0 ELSE 1))
  BY <1>5, <1>7, <1>8 DEF WellNested
<1>10. gs # <<>>
  BY <1>5
<1>11. QED
  BY <1>2, <1>9, <1>10 DEF gs

\* No construct is opened or closed.
LEMMA FramesKept ==
  ASSUME SemaInv, outcome' \in {outcome, "rejected", "crashed"},
         Len(envs') = Len(envs), envs' # <<>>, Len(path') = Len(path),
         frames' \in {frames, AfterStmt(frames)}
  PROVE  FrameInv' /\ frames' \in Seq(Frame) /\ Len(frames') = Len(frames)
<1>1. frames' \in Seq(Frame) /\ Len(frames') = Len(frames)
  BY AfterStmtType DEF SemaInv, SemaTypeOK
<1>2. frames = <<>> <=> frames' = <<>>
  BY <1>1 DEF SemaInv, SemaTypeOK
<1>3. frames # <<>> => WellNested(frames', Len(envs'))
  BY NestAfterStmt DEF SemaInv, SemaTypeOK, FrameInv
<1>4. QED
  BY <1>1, <1>2, <1>3 DEF SemaInv, FrameInv

\* A step that ends the parse and does nothing else.
LEMMA ReportKeeps ==
  ASSUME SemaInv, outcome' \in {"rejected", "crashed"},
         UNCHANGED <<envs, frames, ast, declared, path>>
  PROVE  SemaInv'
<1>1. FrameInv'
  BY FramesKept DEF SemaInv, FrameInv
<1>2. SemaTypeOK' /\ ClosedInv'
  BY DEF SemaInv, SemaTypeOK, ClosedInv
<1>3. QED
  BY <1>1, <1>2 DEF SemaInv


-----------------------------------------------------------------------------
(* The declarations a function's header makes. *)

\* The symbols of a function's header are symbols.
LEMMA HeaderSymbolType ==
  ASSUME declared \in Seq(DeclRecord), NEW n, NEW params \in Seq(Names), NEW i \in 1 .. Len(params) + 1
  PROVE  HeaderSymbol(n, params, i) \in Symbol
BY DEF HeaderSymbol, FuncSymbol, Symbol

\* The names of a function's header.
LEMMA HeaderNamesType ==
  ASSUME NEW n \in Names, NEW params \in Seq(Names)
  PROVE  /\ HeaderNames(n, params) \in Seq(Names)
         /\ Len(HeaderNames(n, params)) = Len(params) + 1
BY DEF HeaderNames

\* The environment of a function's header is a table.
LEMMA HeaderTableType ==
  ASSUME declared \in Seq(DeclRecord), NEW n \in Names, NEW params \in Seq(Names)
  PROVE  HeaderTable(n, params) \in Table
<1> DEFINE ns == HeaderNames(n, params)
<1>1. DOMAIN ns = 1 .. Len(params) + 1
  BY HeaderNamesType
<1>2. ASSUME NEW m \in Names, \E i \in DOMAIN ns : ns[i] = m
      PROVE  HeaderSymbol(n, params, CHOOSE i \in DOMAIN ns : ns[i] = m) \in Symbol
  <2> HIDE DEF ns
  <2>1. (CHOOSE i \in DOMAIN ns : ns[i] = m) \in DOMAIN ns
    BY <1>2
  <2>2. QED
    BY <1>1, <2>1, HeaderSymbolType
<1>3. \A m \in Names : (IF \E i \in DOMAIN ns : ns[i] = m
                          THEN HeaderSymbol(n, params, CHOOSE i \in DOMAIN ns : ns[i] = m)
                          ELSE NoSymbol) \in Symbol \cup {NoSymbol}
  BY <1>2
<1>4. QED
  BY <1>3 DEF HeaderTable, Table

\* The declarations of a function's header have their type.
LEMMA HeaderDeclsType ==
  ASSUME declared \in Seq(DeclRecord), NEW n \in Names, NEW params \in Seq(Names),
         NEW p \in Seq(Nat)
  PROVE  HeaderDecls(n, params, p) \in Seq(DeclRecord)
<1>1. \A i \in 1 .. Len(params) + 1 : HeaderNames(n, params)[i] \in Names
  BY HeaderNamesType
<1>2. \A i \in 1 .. Len(params) + 1 :
        Decl(HeaderNames(n, params)[i], HeaderSymbol(n, params, i), p) \in DeclRecord
  BY <1>1, HeaderSymbolType, DeclType
<1>3. Len(params) + 1 \in Nat
  OBVIOUS
<1>4. QED
  BY <1>2, <1>3 DEF HeaderDecls

\* A function's node is a node.
LEMMA FuncNodeType ==
  ASSUME declared \in Seq(DeclRecord), frames = <<>>,
         NEW n \in Names, NEW params \in Seq(Names), NEW body \in BOOLEAN
  PROVE  /\ FuncNode(n, params, body) \in Node
         /\ FuncNode(n, params, body).depth = 0
         /\ FuncNode(n, params, body).kind = "func"
<1>1. Here = 0 /\ Len(declared) + 1 \in Nat
  BY DEF Here
<1> DEFINE m == Mk("func", n, FuncSymbol(body), Here)
<1>2. m = [kind |-> "func", name |-> n, sym |-> FuncSymbol(body), params |-> <<>>,
           first |-> 0, depth |-> 0]
  BY <1>1 DEF Mk
<1>3. FuncNode(n, params, body) = [m EXCEPT !.params = params, !.first = Len(declared) + 1]
  BY DEF FuncNode
<1> HIDE DEF m
<1>4. FuncNode(n, params, body) =
        [kind |-> "func", name |-> n, sym |-> FuncSymbol(body), params |-> params,
         first |-> Len(declared) + 1, depth |-> 0]
  BY <1>2, <1>3
<1>5. QED
  BY <1>1, <1>4, FuncSymbolType DEF Node

\* A list of parameters is a sequence of names.
LEMMA ParamListsType == \A params \in ParamLists : params \in Seq(Names)
BY DEF ParamLists, BoundedSeq, SeqOf

-----------------------------------------------------------------------------
(* One lemma for each action of the parser. *)

\* The depth of the construct being parsed.
LEMMA HereType == SemaInv => Here \in Nat /\ Here = Len(frames)
BY DEF Here, SemaInv, SemaTypeOK

\* The accesses of an initialiser are nodes that lie where they are parsed.
LEMMA InitNodesType ==
  ASSUME SemaInv, NEW init \in OptName, NEW s, init # NoName => s \in Symbol
  PROVE  /\ InitNodes(init, s) \in Seq(Node)
         /\ \A i \in 1 .. Len(InitNodes(init, s)) : InitNodes(init, s)[i].kind # "jump"
<1>1. CASE init = NoName
  BY <1>1 DEF InitNodes
<1>2. CASE init # NoName
  <2> DEFINE u == Use(init, s)
  <2>1. u \in Node /\ u.kind = "use"
    BY <1>2, HereType, MkNamed DEF OptName, Use
  <2> HIDE DEF u
  <2>2. <<u>> \in Seq(Node) /\ \A i \in 1 .. Len(<<u>>) : <<u>>[i].kind # "jump"
    BY <2>1
  <2>3. InitNodes(init, s) = <<u>>
    BY <1>2 DEF InitNodes, u
  <2>4. QED
    BY <2>2, <2>3
<1>3. QED
  BY <1>1, <1>2

\* A global variable keeps the parser's invariant.
LEMMA GlobalDeclKeeps ==
  ASSUME SemaInv, NEW n \in Names, NEW init \in OptName, NEW first \in BOOLEAN,
         GlobalDecl(n, init, first)
  PROVE  SemaInv'
<1> DEFINE s == NewDecl("var")
           es == AddObjSymbol(envs, n, s)
           g == Mk("gvar", n, s, Here)
           u == InitNodes(init, Found(es, init))
<1>1. CASE outcome' \in {"rejected", "crashed"} /\ UNCHANGED <<envs, frames, ast, declared, path>>
  BY <1>1, ReportKeeps
<1>2. CASE /\ envs' = es
           /\ init # NoName => Found(es, init) # NoSymbol
           /\ ast' = ast \o (u \o <<g>>)
           /\ declared' = Append(declared, Decl(n, s, path))
           /\ UNCHANGED <<outcome, frames, path>>
  <2>1. s \in Symbol
    BY NewDeclType DEF SemaInv, SemaTypeOK, DeclRecord
  <2>2. envs' \in Seq(Table) /\ Len(envs') = Len(envs) /\ envs' # <<>>
    BY <1>2, <2>1, AddObjSymbolType DEF SemaInv, SemaTypeOK, FrameInv
  <2>3. declared' \in Seq(DeclRecord)
    BY <1>2, <2>1, DeclType DEF SemaInv, SemaTypeOK, DeclRecord
  <2>4. u \in Seq(Node) /\ \A i \in 1 .. Len(u) : u[i].kind # "jump"
    <3>1. init # NoName => Found(es, init) \in Symbol
      BY <1>2, <2>2, FindObjSymbolType DEF OptName, Found
    <3>2. QED
      BY <3>1, InitNodesType
  <2>5. g \in Node /\ g.kind = "gvar" /\ g.depth = Len(frames)
    BY <2>1, HereType, MkNamed
  <2>6. ast' \in Seq(Node) /\ ClosedInv'
    <3> HIDE DEF u, g
    <3>1. frames' \in Seq(Frame) /\ g.depth <= Len(frames')
      BY <1>2, <2>5 DEF SemaInv, SemaTypeOK
    <3>2. QED
      BY <1>2, <2>4, <2>5, <3>1, ClosedAppendLast
  <2>7. FrameInv'
    BY <1>2, <2>2, FramesKept
  <2>8. QED
    BY <1>2, <2>2, <2>3, <2>6, <2>7 DEF SemaInv, SemaTypeOK, DeclRecord
<1>3. QED
  BY <1>1, <1>2 DEF GlobalDecl, Report


\* A typedef keeps the parser's invariant.
LEMMA TypedefDeclKeeps ==
  ASSUME SemaInv, NEW n \in Names, TypedefDecl(n)
  PROVE  SemaInv'
<1> DEFINE s == NewDecl("typedef")
<1>1. CASE Report
  BY <1>1, ReportKeeps DEF Report
<1>2. CASE /\ envs' = AddObjSymbol(envs, n, s)
           /\ declared' = Append(declared, Decl(n, s, path))
           /\ UNCHANGED <<outcome, frames, ast, path>>
  <2>1. s \in Symbol
    BY NewDeclType DEF SemaInv, SemaTypeOK, DeclRecord
  <2>2. envs' \in Seq(Table) /\ Len(envs') = Len(envs) /\ envs' # <<>>
    BY <1>2, <2>1, AddObjSymbolType DEF SemaInv, SemaTypeOK, FrameInv
  <2>3. declared' \in Seq(DeclRecord)
    BY <1>2, <2>1, DeclType DEF SemaInv, SemaTypeOK, DeclRecord
  <2>4. FrameInv'
    BY <1>2, <2>2, FramesKept
  <2>5. ClosedInv'
    BY <1>2 DEF SemaInv, ClosedInv
  <2>6. QED
    BY <1>2, <2>2, <2>3, <2>4, <2>5 DEF SemaInv, SemaTypeOK, DeclRecord
<1>3. QED
  BY <1>1, <1>2 DEF TypedefDecl

\* A prototype keeps the parser's invariant.
LEMMA FuncPrototypeKeeps ==
  ASSUME SemaInv, NEW n \in Names, NEW params \in Seq(Names), FuncPrototype(n, params)
  PROVE  SemaInv'
<1> DEFINE f == FuncNode(n, params, FALSE)
           p == Append(path, Len(ast) + 1)
<1>1. CASE Report
  BY <1>1, ReportKeeps DEF Report
<1>2. CASE /\ envs' = AddFunction(envs, n, FALSE)
           /\ ast' = Append(ast, f)
           /\ declared' = declared \o HeaderDecls(n, params, p)
                                   \o <<Decl(n, FuncSymbol(FALSE), path)>>
           /\ UNCHANGED <<outcome, frames, path>>
  <2>1. /\ envs \in Seq(Table) /\ envs # <<>> /\ frames = <<>> /\ path \in Seq(Nat)
        /\ declared \in Seq(DeclRecord) /\ Len(ast) \in Nat
    BY DEF FuncPrototype, AtTop, SemaInv, SemaTypeOK, FrameInv, DeclRecord
  <2>2. envs' \in Seq(Table) /\ Len(envs') = Len(envs) /\ envs' # <<>>
    BY <1>2, <2>1, AddFunctionType
  <2>3. declared' \in Seq(DeclRecord)
    <3>1. p \in Seq(Nat)
      BY <2>1
    <3> HIDE DEF p
    <3>2. HeaderDecls(n, params, p) \in Seq(DeclRecord)
      BY <2>1, <3>1, HeaderDeclsType
    <3>3. <<Decl(n, FuncSymbol(FALSE), path)>> \in Seq(DeclRecord)
      <4>1. Decl(n, FuncSymbol(FALSE), path) \in DeclRecord
        BY <2>1, FuncSymbolType, DeclType
      <4>2. QED
        BY <4>1, OneElement
    <3>4. QED
      BY <1>2, <2>1, <3>2, <3>3, ConcatType
  <2>4. f \in Node /\ f.kind = "func" /\ f.depth = 0
    BY <2>1, FuncNodeType
  <2>5. ast' \in Seq(Node) /\ ClosedInv'
    <3> HIDE DEF f
    <3>1. frames' \in Seq(Frame) /\ f.depth <= Len(frames')
      BY <1>2, <2>1, <2>4
    <3>2. QED
      BY <1>2, <2>4, <3>1, ClosedAppendOne
  <2>6. FrameInv'
    BY <1>2, <2>2, FramesKept
  <2>7. QED
    BY <1>2, <2>2, <2>3, <2>5, <2>6 DEF SemaInv, SemaTypeOK, DeclRecord
<1>3. QED
  BY <1>1, <1>2 DEF FuncPrototype

\* The header of a definition keeps the parser's invariant.
LEMMA FuncDefinitionKeeps ==
  ASSUME SemaInv, NEW n \in Names, NEW params \in Seq(Names), FuncDefinition(n, params)
  PROVE  SemaInv'
<1> DEFINE f == FuncNode(n, params, TRUE)
           b == Mk("block", NoName, NoSymbol, 1)
           p == Append(path, Len(ast) + 1)
           func == [NewFrame("func", Len(envs) + 1) EXCEPT !.name = n]
           block == NewFrame("block", Len(envs) + 2)
<1>1. CASE Report
  BY <1>1, ReportKeeps DEF Report
<1>2. CASE /\ envs' = EnterScope(Append(envs, HeaderTable(n, params)))
           /\ frames' = <<func, block>>
           /\ ast' = ast \o <<f, b>>
           /\ path' = path \o <<Len(ast) + 1, Len(ast) + 2>>
           /\ declared' = declared \o HeaderDecls(n, params, p)
           /\ UNCHANGED outcome
  <2>1. /\ envs \in Seq(Table) /\ Len(envs) = 1 /\ frames = <<>> /\ outcome = "parsing"
        /\ path \in Seq(Nat) /\ Len(path) = 1
        /\ declared \in Seq(DeclRecord) /\ Len(ast) \in Nat /\ ast \in Seq(Node)
    BY DEF FuncDefinition, AtTop, SemaInv, SemaTypeOK, FrameInv, DeclRecord
  <2>2. envs' \in Seq(Table) /\ Len(envs') = 3
    <3> DEFINE table == HeaderTable(n, params)
               es == Append(envs, table)
    <3>1. table \in Table
      BY <2>1, HeaderTableType
    <3>2. envs' = EnterScope(es)
      BY <1>2
    <3> HIDE DEF table, f, b, p, func, block
    <3>3. es \in Seq(Table) /\ Len(es) = Len(envs) + 1
      BY <2>1, <3>1, AppendProperties, ZenonT(60)
    <3> HIDE DEF es
    <3>4. EnterScope(es) \in Seq(Table) /\ Len(EnterScope(es)) = Len(es) + 1
      BY <3>3, EnterScopeType, Zenon
    <3>5. QED
      BY <2>1, <3>2, <3>3, <3>4
  <2>3. declared' \in Seq(DeclRecord)
    <3>1. p \in Seq(Nat)
      BY <2>1
    <3> HIDE DEF p
    <3>2. QED
      BY <1>2, <2>1, <3>1, HeaderDeclsType, ConcatType
  <2>4. path' \in Seq(Nat) /\ Len(path') = 3
    <3> DEFINE q == <<Len(ast) + 1, Len(ast) + 2>>
    <3>1. q \in Seq(Nat) /\ Len(q) = 2
      BY <2>1
    <3> HIDE DEF q
    <3>2. path \o q \in Seq(Nat) /\ Len(path \o q) = Len(path) + Len(q)
      BY <2>1, <3>1, ConcatProperties
    <3>3. path' = path \o q
      BY <1>2 DEF q
    <3>4. QED
      BY <2>1, <3>1, <3>2, <3>3
  <2>5. /\ func \in Frame /\ func.kind = "func" /\ func.height = 2 /\ func.name = n
        /\ block \in Frame /\ block.kind = "block" /\ block.height = 3
    <3> DEFINE nf == NewFrame("func", Len(envs) + 1)
    <3>1. nf \in Frame /\ nf.kind = "func" /\ nf.height = 2
      BY <2>1, NewFrameType
    <3>4. func = [nf EXCEPT !.name = n]
      OBVIOUS
    <3> HIDE DEF nf, f, b, p, func
    <3>2. func \in Frame /\ func.kind = "func" /\ func.height = 2 /\ func.name = n
      BY <3>1, <3>4, NoNameIsOptional DEF Frame
    <3>3. QED
      BY <2>1, <3>2, NewFrameType
  <2>6. frames' \in Seq(Frame) /\ Len(frames') = 2 /\ WellNested(frames', 3)
    <3> HIDE DEF func, block
    <3>1. frames' \in Seq(Frame) /\ Len(frames') = 2 /\ frames'[1] = func /\ frames'[2] = block
      BY <1>2, <2>5
    <3>2. QED
      BY <2>5, <3>1 DEF WellNested
  <2>7. f \in Node /\ f.kind = "func" /\ b \in Node /\ b.kind = "block" /\ b.depth = 1
    <3>1. f \in Node /\ f.kind = "func"
      BY <2>1, FuncNodeType
    <3>2. b \in Node /\ b.kind = "block" /\ b.depth = 1
      BY MkNameless, NoNameIsOptional
    <3>3. QED
      BY <3>1, <3>2
  <2>8. ast' \in Seq(Node) /\ ClosedInv'
    <3> DEFINE t == <<f, b>>
    <3> HIDE DEF f, b
    <3>1. t \in Seq(Node) /\ t # <<>> /\ Len(t) = 2 /\ t[1] = f /\ t[2] = b
      BY <2>7
    <3>2. ast' = ast \o t
      BY <1>2
    <3> HIDE DEF t
    <3>3. \A i \in 1 .. Len(t) : t[i].kind # "jump"
      BY <2>7, <3>1
    <3>4. QED
      <4>1. t[Len(t)].depth <= Len(frames')
        BY <2>6, <2>7, <3>1
      <4>2. QED
        BY <2>6, <3>1, <3>2, <3>3, <4>1, ClosedAppend
  <2>9. FrameInv'
    BY <1>2, <2>1, <2>2, <2>4, <2>6 DEF FrameInv
  <2>10. QED
    BY <1>2, <2>1, <2>2, <2>3, <2>4, <2>6, <2>8, <2>9 DEF SemaInv, SemaTypeOK, DeclRecord
<1>3. QED
  BY <1>1, <1>2 DEF FuncDefinition


\* A sequence without its last two elements.
LEMMA FrontFront ==
  ASSUME NEW S, NEW s \in Seq(S), Len(s) = 3
  PROVE  /\ Front(Front(s)) \in Seq(S) /\ Len(Front(Front(s))) = 1
         /\ Front(Front(s)) # <<>>
<1> DEFINE t == Front(s)
<1>1. s # <<>>
  BY SMTT(60)
<1>2. t \in Seq(S) /\ Len(t) = Len(s) - 1
  BY <1>1, FrontType, Zenon
<1> HIDE DEF t
<1>3. Len(t) = 2 /\ t # <<>>
  <2>1. Len(t) = 2
    BY <1>2
  <2>2. Len(t) # Len(<<>>)
    BY <2>1
  <2>3. t # <<>>
    BY <2>2, Zenon
  <2>4. QED
    BY <2>1, <2>3
<1>4. Front(t) \in Seq(S) /\ Len(Front(t)) = Len(t) - 1
  BY <1>2, <1>3, FrontType, Zenon
<1> DEFINE u == Front(t)
<1>5. u \in Seq(S) /\ Len(u) = 1
  BY <1>3, <1>4
<1> HIDE DEF u
<1>6. u # <<>>
  <2>1. Len(u) # Len(<<>>)
    BY <1>5
  <2>2. QED
    BY <2>1, Zenon
<1>7. u = Front(Front(s))
  BY DEF t, u
<1>8. QED
  BY <1>5, <1>6, <1>7

\* The end of a function keeps the parser's invariant.
LEMMA FuncEndKeeps ==
  ASSUME SemaInv, FuncEnd
  PROVE  SemaInv'
<1> DEFINE n == frames[1].name
           es == ExitScope(ExitScope(envs))
           p == Front(Front(path))
           b == Mk("endblock", NoName, NoSymbol, 1)
           f == Mk("endfunc", NoName, NoSymbol, 0)
<1>1. CASE Report
  BY <1>1, ReportKeeps DEF Report
<1>2. CASE /\ envs' = AddFunction(es, n, TRUE)
           /\ frames' = <<>>
           /\ path' = p
           /\ ast' = ast \o <<b, f>>
           /\ declared' = Append(declared, Decl(n, FuncSymbol(TRUE), p))
           /\ UNCHANGED outcome
  <2>1. /\ envs \in Seq(Table) /\ path \in Seq(Nat) /\ Len(path) = Len(envs)
        /\ WellNested(frames, Len(envs)) /\ Len(frames) = 2 /\ outcome = "parsing"
        /\ declared \in Seq(DeclRecord) /\ ast \in Seq(Node)
    BY DEF FuncEnd, InFrame, SemaInv, SemaTypeOK, FrameInv, DeclRecord
  <2>2. Len(envs) = 3 /\ n \in Names
    <3>1. 2 \in 2 .. Len(frames) /\ frames[2].kind = "block" /\ frames[1].height = 2
          /\ frames[2].height = Len(envs) /\ n \in Names
      BY <2>1 DEF WellNested
    <3>2. frames[2].height =
            frames[2 - 1].height + (IF frames[2].kind = "case" THEN 0 ELSE 1)
      BY <2>1, <3>1 DEF WellNested
    <3>3. QED
      BY <3>1, <3>2
  <2> HIDE DEF n, b, f
  <2>3. es \in Seq(Table) /\ Len(es) = 1 /\ es # <<>>
    BY <2>1, <2>2, FrontFront DEF ExitScope
  <2>4. p \in Seq(Nat) /\ Len(p) = 1
    BY <2>1, <2>2, FrontFront
  <2> HIDE DEF es, p
  <2>5. envs' \in Seq(Table) /\ Len(envs') = 1 /\ envs' # <<>>
    BY <1>2, <2>2, <2>3, AddFunctionType
  <2>6. declared' \in Seq(DeclRecord)
    <3>1. Decl(n, FuncSymbol(TRUE), p) \in DeclRecord
      BY <2>2, <2>4, FuncSymbolType, DeclType
    <3>2. QED
      BY <1>2, <2>1, <3>1, AppendProperties
  <2>7. /\ b \in Node /\ b.kind = "endblock" /\ b.depth = 1
        /\ f \in Node /\ f.kind = "endfunc" /\ f.depth = 0
    BY MkNameless, NoNameIsOptional DEF b, f
  <2>8. ast' \in Seq(Node) /\ ClosedInv'
    <3> DEFINE t == <<b, f>>
    <3>1. t \in Seq(Node) /\ t # <<>> /\ Len(t) = 2 /\ t[1] = b /\ t[2] = f
      BY <2>7, TwoElements
    <3>2. ast' = ast \o t
      BY <1>2
    <3> HIDE DEF t
    <3>3. \A i \in 1 .. Len(t) : t[i].kind # "jump"
      BY <2>7, <3>1
    <3>4. frames' \in Seq(Frame) /\ t[Len(t)].depth <= Len(frames')
      BY <1>2, <2>7, <3>1
    <3>5. QED
      BY <3>1, <3>2, <3>3, <3>4, ClosedAppend
  <2>9. frames' \in Seq(Frame)
    BY <1>2
  <2>10. FrameInv'
    <3>1. frames' = <<>> /\ outcome' = "parsing" /\ Len(path') = 1
      BY <1>2, <2>1, <2>4
    <3>2. QED
      BY <2>5, <3>1 DEF FrameInv
  <2>11. QED
    BY <1>2, <2>1, <2>4, <2>5, <2>6, <2>8, <2>10, <2>9 DEF SemaInv, SemaTypeOK, DeclRecord
<1>3. QED
  BY <1>1, <1>2 DEF FuncEnd

\* A statement is parsed inside a function.
LEMMA AtStmtInside ==
  ASSUME SemaInv, AtStmt
  PROVE  /\ outcome = "parsing" /\ frames # <<>> /\ Here >= 2
         /\ WellNested(frames, Len(envs)) /\ Len(envs) \in Nat /\ envs # <<>>
         /\ envs \in Seq(Table) /\ path \in Seq(Nat) /\ Len(path) = Len(envs)
         /\ declared \in Seq(DeclRecord) /\ ast \in Seq(Node) /\ frames \in Seq(Frame)
<1>1. outcome = "parsing" /\ frames # <<>>
  BY DEF AtStmt, InFrame
<1>2. QED
  BY <1>1, HereType DEF SemaInv, SemaTypeOK, FrameInv, WellNested, DeclRecord

\* A local variable keeps the parser's invariant.
LEMMA VarDeclKeeps ==
  ASSUME SemaInv, NEW n \in Names, VarDecl(n)
  PROVE  SemaInv'
<1> DEFINE s == NewDecl("var")
           g == Mk("var", n, s, Here)
<1>1. CASE Report
  BY <1>1, ReportKeeps DEF Report
<1>2. CASE /\ envs' = AddObjSymbol(envs, n, s)
           /\ ast' = Append(ast, g)
           /\ declared' = Append(declared, Decl(n, s, path))
           /\ frames' = AfterStmt(frames)
           /\ UNCHANGED <<outcome, path>>
  <2>1. AtStmt
    BY DEF VarDecl
  <2>2. s \in Symbol
    BY <2>1, AtStmtInside, NewDeclType
  <2>3. envs' \in Seq(Table) /\ Len(envs') = Len(envs) /\ envs' # <<>>
    BY <1>2, <2>1, <2>2, AtStmtInside, AddObjSymbolType
  <2>4. declared' \in Seq(DeclRecord)
    BY <1>2, <2>1, <2>2, AtStmtInside, DeclType
  <2>5. g \in Node /\ g.kind = "var" /\ g.depth = Len(frames)
    BY <2>2, HereType, MkNamed
  <2> HIDE DEF s, g
  <2>6. FrameInv' /\ frames' \in Seq(Frame) /\ Len(frames') = Len(frames)
    BY <1>2, <2>3, FramesKept
  <2>7. ast' \in Seq(Node) /\ ClosedInv'
    <3>1. g.depth <= Len(frames')
      BY <2>5, <2>6
    <3>2. QED
      BY <1>2, <2>5, <2>6, <3>1, ClosedAppendOne
  <2>8. QED
    BY <1>2, <2>3, <2>4, <2>6, <2>7 DEF SemaInv, SemaTypeOK, DeclRecord
<1>3. QED
  BY <1>1, <1>2 DEF VarDecl

\* A local pointer to a function keeps the parser's invariant.
LEMMA FuncPointerDeclKeeps ==
  ASSUME SemaInv, NEW n \in Names, NEW p \in Names, FuncPointerDecl(n, p)
  PROVE  SemaInv'
<1> DEFINE s == NewDecl("var")
           es == AddObjSymbol(envs, n, s)
           t == [s EXCEPT !.decl = @ + 1]
           g == Mk("var", n, s, Here)
           ds == <<Decl(n, s, path), Decl(p, t, path)>>
<1>1. CASE Report
  BY <1>1, ReportKeeps DEF Report
<1>2. CASE /\ envs' = AddObjSymbol(es, p, t)
           /\ ast' = Append(ast, g)
           /\ declared' = declared \o ds
           /\ frames' = AfterStmt(frames)
           /\ UNCHANGED <<outcome, path>>
  <2>1. AtStmt
    BY DEF FuncPointerDecl
  <2>2. s \in Symbol
    BY <2>1, AtStmtInside, NewDeclType
  <2> HIDE DEF s
  <2>3. t \in Symbol
    BY <2>2 DEF Symbol
  <2> HIDE DEF t
  <2>4. es \in Seq(Table) /\ Len(es) = Len(envs) /\ es # <<>>
    BY <2>1, <2>2, AtStmtInside, AddObjSymbolType
  <2> HIDE DEF es
  <2>5. envs' \in Seq(Table) /\ Len(envs') = Len(envs) /\ envs' # <<>>
    BY <1>2, <2>3, <2>4, AddObjSymbolType
  <2>6. declared' \in Seq(DeclRecord)
    <3>1. Decl(n, s, path) \in DeclRecord /\ Decl(p, t, path) \in DeclRecord
      BY <2>1, <2>2, <2>3, AtStmtInside, DeclType
    <3>2. ds \in Seq(DeclRecord)
      BY <3>1, TwoElements
    <3>3. declared \in Seq(DeclRecord)
      BY <2>1, AtStmtInside
    <3> HIDE DEF ds
    <3>4. QED
      BY <1>2, <3>2, <3>3, ConcatType
  <2>7. g \in Node /\ g.kind = "var" /\ g.depth = Len(frames)
    BY <2>2, HereType, MkNamed
  <2> HIDE DEF g
  <2>8. FrameInv' /\ frames' \in Seq(Frame) /\ Len(frames') = Len(frames)
    BY <1>2, <2>5, FramesKept
  <2>9. ast' \in Seq(Node) /\ ClosedInv'
    <3>1. g.depth <= Len(frames')
      BY <2>7, <2>8
    <3>2. QED
      BY <1>2, <2>7, <2>8, <3>1, ClosedAppendOne
  <2>10. QED
    BY <1>2, <2>5, <2>6, <2>8, <2>9 DEF SemaInv, SemaTypeOK, DeclRecord
<1>3. QED
  BY <1>1, <1>2 DEF FuncPointerDecl

\* An access keeps the parser's invariant.
LEMMA AccessKeeps ==
  ASSUME SemaInv, NEW n \in Names, Access(n)
  PROVE  SemaInv'
<1> DEFINE s == Found(envs, n)
           g == Use(n, s)
<1>1. CASE Report
  BY <1>1, ReportKeeps DEF Report
<1>2. CASE /\ s # NoSymbol
           /\ ast' = Append(ast, g)
           /\ frames' = AfterStmt(frames)
           /\ UNCHANGED <<outcome, envs, declared, path>>
  <2>1. AtStmt
    BY DEF Access
  <2>2. s \in Symbol
    BY <1>2, <2>1, AtStmtInside, FindObjSymbolType DEF Found
  <2>3. g \in Node /\ g.kind = "use" /\ g.depth = Len(frames)
    BY <2>2, HereType, MkNamed DEF Use
  <2> HIDE DEF g
  <2>4. FrameInv' /\ frames' \in Seq(Frame) /\ Len(frames') = Len(frames)
    BY <1>2, <2>1, AtStmtInside, FramesKept
  <2>5. ast' \in Seq(Node) /\ ClosedInv'
    <3>1. g.depth <= Len(frames')
      BY <2>3, <2>4
    <3>2. QED
      BY <1>2, <2>3, <2>4, <3>1, ClosedAppendOne
  <2>6. QED
    BY <1>2, <2>4, <2>5 DEF SemaInv, SemaTypeOK
<1>3. QED
  BY <1>1, <1>2 DEF Access

\* A jump keeps the parser's invariant.
LEMMA JumpKeeps ==
  ASSUME SemaInv, Jump
  PROVE  SemaInv'
<1> DEFINE g == Mk("jump", NoName, NoSymbol, Here)
<1>1. AtStmt /\ Here >= 2
  BY AtStmtInside DEF Jump
<1>2. g \in Node /\ g.depth = Len(frames) /\ g.depth >= 1
  BY <1>1, HereType, MkNameless, NoNameIsOptional
<1>3. ast' = Append(ast, g) /\ frames' = AfterStmt(frames)
      /\ UNCHANGED <<outcome, envs, declared, path>>
  BY DEF Jump
<1> HIDE DEF g
<1>4. FrameInv' /\ frames' \in Seq(Frame) /\ Len(frames') = Len(frames)
  BY <1>1, <1>3, AtStmtInside, FramesKept
<1>5. ast' \in Seq(Node) /\ ClosedInv'
  <2>1. g.depth <= Len(frames')
    BY <1>2, <1>4
  <2>2. QED
    BY <1>2, <1>3, <1>4, <2>1, ClosedAppendOne
<1>6. QED
  BY <1>3, <1>4, <1>5 DEF SemaInv, SemaTypeOK


\* A scope entered inside a function leaves the file scope below it.
LEMMA EnterScopeInside ==
  ASSUME NEW es \in Seq(Table)
  PROVE  /\ EnterScope(es) \in Seq(Table) /\ Len(EnterScope(es)) = Len(es) + 1
         /\ EnterScope(es) # <<>>
<1> DEFINE t == EnterScope(es)
<1>1. t \in Seq(Table) /\ Len(t) = Len(es) + 1
  BY EnterScopeType, Zenon
<1> HIDE DEF t
<1>2. Len(es) \in Nat
  OBVIOUS
<1>3. t # <<>>
  BY <1>1, <1>2, EmptySeq
<1>4. QED
  BY <1>1, <1>3 DEF t

\* Opening a block keeps the parser's invariant.
LEMMA OpenBlockKeeps ==
  ASSUME SemaInv, NEW switch \in BOOLEAN, OpenBlock(switch)
  PROVE  SemaInv'
<1> DEFINE nf == NewFrame("block", Len(envs) + 1)
           f == [nf EXCEPT !.switch = switch]
           g == Mk("block", NoName, NoSymbol, Here)
<1>1. AtStmt
  BY DEF OpenBlock
<1>2. /\ envs' = EnterScope(envs)
      /\ frames' = Append(frames, f)
      /\ ast' = Append(ast, g)
      /\ path' = Append(path, Len(ast) + 1)
      /\ UNCHANGED <<outcome, declared>>
  BY DEF OpenBlock
<1>3. /\ outcome = "parsing" /\ frames # <<>> /\ frames \in Seq(Frame)
      /\ WellNested(frames, Len(envs)) /\ Len(envs) \in Nat
      /\ envs \in Seq(Table) /\ path \in Seq(Nat) /\ Len(path) = Len(envs)
      /\ ast \in Seq(Node)
  BY <1>1, AtStmtInside
<1>4. envs' \in Seq(Table) /\ Len(envs') = Len(envs) + 1 /\ envs' # <<>>
  BY <1>2, <1>3, EnterScopeInside
<1>5. path' \in Seq(Nat) /\ Len(path') = Len(path) + 1
  BY <1>2, <1>3
<1>6. nf \in Frame /\ nf.kind = "block" /\ nf.height = Len(envs) + 1
  BY <1>3, NewFrameType
<1> HIDE DEF nf
<1>7. f \in Frame /\ f.kind = "block" /\ f.height = Len(envs) + 1
  BY <1>6 DEF Frame
<1>8. g \in Node /\ g.kind = "block" /\ g.depth = Len(frames)
  BY HereType, MkNameless, NoNameIsOptional
<1> HIDE DEF f, g
<1>9. frames' \in Seq(Frame) /\ Len(frames') = Len(frames) + 1 /\ frames' # <<>>
      /\ WellNested(frames', Len(envs'))
  BY <1>2, <1>3, <1>4, <1>7, NestPush
<1>10. ast' \in Seq(Node) /\ ClosedInv'
  <2>1. g.depth <= Len(frames')
    BY <1>3, <1>8, <1>9
  <2>2. QED
    BY <1>2, <1>8, <1>9, <2>1, ClosedAppendOne
<1>11. FrameInv'
  BY <1>2, <1>3, <1>4, <1>5, <1>9 DEF FrameInv
<1>12. QED
  BY <1>2, <1>4, <1>5, <1>9, <1>10, <1>11 DEF SemaInv, SemaTypeOK

\* EndCase leaves the block that a label is in as the innermost construct.
LEMMA EndCaseLeavesBlock ==
  ASSUME SemaInv, InFrame({"block", "case"})
  PROVE  LET fs == EndCase(frames)
         IN  /\ fs \in Seq(Frame) /\ fs # <<>> /\ WellNested(fs, Len(envs))
             /\ fs[Len(fs)].kind = "block"
             /\ EndCaseNode \in Seq(Node)
             /\ \A i \in 1 .. Len(EndCaseNode) : EndCaseNode[i].kind # "jump"
<1> DEFINE fs == EndCase(frames)
           g == Mk("endcase", NoName, NoSymbol, Here - 1)
<1>1. /\ frames \in Seq(Frame) /\ frames # <<>> /\ WellNested(frames, Len(envs))
      /\ Len(envs) \in Nat /\ Len(frames) \in Nat /\ Len(frames) >= 2
      /\ frames[Len(frames)].kind \in {"block", "case"}
  BY DEF InFrame, SemaInv, SemaTypeOK, FrameInv, WellNested, Last
<1>2. CASE frames[Len(frames)].kind = "case"
  <2>1. fs = Front(frames)
    BY <1>2 DEF EndCase, Last
  <2>2. Len(frames) > 2 /\ Len(frames) \in 2 .. Len(frames)
    BY <1>1, <1>2 DEF WellNested
  <2>3. /\ fs \in Seq(Frame) /\ fs # <<>> /\ Len(fs) = Len(frames) - 1
        /\ WellNested(fs, Len(envs) - (IF frames[Len(frames)].kind = "case" THEN 0 ELSE 1))
    BY <1>1, <2>1, <2>2, NestPop
  <2>4. WellNested(fs, Len(envs))
    BY <1>1, <1>2, <2>3
  <2>5. fs[Len(fs)] = frames[Len(frames) - 1]
    BY <1>1, <2>1, <2>2, <2>3, FrontType
  <2>6. fs[Len(fs)].kind = "block"
    BY <1>1, <1>2, <2>2, <2>5 DEF WellNested
  <2>7. EndCaseNode = <<g>>
    BY <1>2 DEF EndCaseNode, Last
  <2>8. g \in Node /\ g.kind = "endcase"
    BY HereType, MkNameless, NoNameIsOptional
  <2> HIDE DEF g
  <2>9. EndCaseNode \in Seq(Node) /\ Len(EndCaseNode) = 1 /\ EndCaseNode[1] = g
    BY <2>7, <2>8
  <2>10. QED
    BY <2>3, <2>4, <2>6, <2>8, <2>9
<1>3. CASE frames[Len(frames)].kind = "block"
  <2>1. fs = frames /\ EndCaseNode = <<>>
    BY <1>3 DEF EndCase, EndCaseNode, Last
  <2>2. QED
    BY <1>1, <1>3, <2>1
<1>4. QED
  BY <1>1, <1>2, <1>3

\* A label keeps the parser's invariant.
LEMMA CaseLabelKeeps ==
  ASSUME SemaInv, CaseLabel
  PROVE  SemaInv'
<1> DEFINE fs == EndCase(frames)
           f == NewFrame("case", Len(envs))
           g == Mk("case", NoName, NoSymbol, Len(fs))
<1>1. CASE Report
  BY <1>1, ReportKeeps DEF Report
<1>2. CASE /\ frames' = Append(fs, f)
           /\ ast' = ast \o (EndCaseNode \o <<g>>)
           /\ UNCHANGED <<outcome, envs, declared, path>>
  <2>1. InFrame({"block", "case"})
    BY DEF CaseLabel
  <2>2. /\ fs \in Seq(Frame) /\ fs # <<>> /\ WellNested(fs, Len(envs))
        /\ fs[Len(fs)].kind = "block"
        /\ EndCaseNode \in Seq(Node)
        /\ \A i \in 1 .. Len(EndCaseNode) : EndCaseNode[i].kind # "jump"
    BY <2>1, EndCaseLeavesBlock
  <2> HIDE DEF fs
  <2>3. /\ Len(envs) \in Nat /\ outcome = "parsing" /\ Len(path) = Len(envs) /\ envs # <<>>
        /\ Len(fs) \in Nat
    BY <2>1, <2>2 DEF InFrame, SemaInv, SemaTypeOK, FrameInv
  <2>4. f \in Frame /\ f.kind = "case" /\ f.height = Len(envs)
    BY <2>3, NewFrameType
  <2>5. g \in Node /\ g.kind = "case" /\ g.depth = Len(fs)
    BY <2>3, MkNameless, NoNameIsOptional
  <2> HIDE DEF f, g
  <2>6. frames' \in Seq(Frame) /\ Len(frames') = Len(fs) + 1 /\ frames' # <<>>
        /\ WellNested(frames', Len(envs))
    <3>1. f.height = Len(envs) + (IF f.kind = "case" THEN 0 ELSE 1)
      BY <2>3, <2>4
    <3>2. QED
      BY <1>2, <2>2, <2>3, <2>4, <3>1, NestPush
  <2>7. ast' \in Seq(Node) /\ ClosedInv'
    <3>1. g.depth <= Len(frames')
      BY <2>3, <2>5, <2>6
    <3>2. QED
      BY <1>2, <2>2, <2>5, <2>6, <3>1, ClosedAppendLast
  <2>8. FrameInv'
    BY <1>2, <2>3, <2>6 DEF FrameInv
  <2>9. QED
    BY <1>2, <2>6, <2>7, <2>8 DEF SemaInv, SemaTypeOK
<1>3. QED
  BY <1>1, <1>2 DEF CaseLabel


\* Leaving the scope of the innermost of at least three constructs.
LEMMA LeaveScope ==
  ASSUME NEW S, NEW s \in Seq(S), Len(s) >= 2
  PROVE  Front(s) \in Seq(S) /\ Len(Front(s)) = Len(s) - 1 /\ Front(s) # <<>>
<1> DEFINE t == Front(s)
<1>1. s # <<>> /\ Len(s) \in Nat
  OBVIOUS
<1>2. t \in Seq(S) /\ Len(t) = Len(s) - 1
  BY <1>1, FrontType, Zenon
<1> HIDE DEF t
<1>3. Len(t) # Len(<<>>)
  BY <1>1, <1>2
<1>4. t # <<>>
  BY <1>3, Zenon
<1>5. QED
  BY <1>2, <1>4 DEF t

\* The construct just popped had a scope of its own, and it was not the last.
LEMMA PopConstruct ==
  ASSUME SemaInv, outcome = "parsing", NEW fs \in Seq(Frame), Len(fs) > 2,
         WellNested(fs, Len(envs)), fs[Len(fs)].kind # "case",
         envs' = ExitScope(envs), path' = Front(path), outcome' = outcome,
         frames' = AfterStmt(Front(fs))
  PROVE  /\ FrameInv' /\ frames' \in Seq(Frame) /\ Len(frames') = Len(fs) - 1
         /\ envs' \in Seq(Table) /\ path' \in Seq(Nat)
<1>1. /\ envs \in Seq(Table) /\ path \in Seq(Nat) /\ Len(path) = Len(envs)
      /\ Len(envs) \in Nat /\ Len(fs) \in 2 .. Len(fs) /\ Len(fs) \in Nat
  BY SMTT(60) DEF SemaInv, SemaTypeOK, FrameInv
<1>2. Len(envs) > 2
  BY <1>1 DEF WellNested
<1>3. envs' \in Seq(Table) /\ Len(envs') = Len(envs) - 1 /\ envs' # <<>>
  BY SMTT(60), <1>1, <1>2, LeaveScope DEF ExitScope
<1>4. path' \in Seq(Nat) /\ Len(path') = Len(path) - 1
  BY <1>1, <1>2, LeaveScope
<1> DEFINE gs == Front(fs)
<1>5. /\ gs \in Seq(Frame) /\ gs # <<>> /\ Len(gs) = Len(fs) - 1
      /\ WellNested(gs, Len(envs) - (IF fs[Len(fs)].kind = "case" THEN 0 ELSE 1))
  BY <1>1, NestPop
<1>6. WellNested(gs, Len(envs'))
  BY <1>3, <1>5
<1>7. frames' = AfterStmt(gs)
  OBVIOUS
<1> HIDE DEF gs
<1>8. /\ frames' \in Seq(Frame) /\ Len(frames') = Len(fs) - 1 /\ frames' # <<>>
      /\ WellNested(frames', Len(envs'))
  BY <1>5, <1>6, <1>7, AfterStmtType, NestAfterStmt
<1>9. QED
  BY <1>1, <1>3, <1>4, <1>8 DEF FrameInv

\* Closing a block keeps the parser's invariant.
LEMMA CloseBlockKeeps ==
  ASSUME SemaInv, CloseBlock
  PROVE  SemaInv'
<1> DEFINE fs == EndCase(frames)
           g == Mk("endblock", NoName, NoSymbol, Len(fs) - 1)
<1>1. /\ InFrame({"block", "case"}) /\ Len(fs) > 2
      /\ envs' = ExitScope(envs)
      /\ frames' = AfterStmt(Front(fs))
      /\ ast' = ast \o (EndCaseNode \o <<g>>)
      /\ path' = Front(path)
      /\ UNCHANGED <<outcome, declared>>
  BY DEF CloseBlock
<1>2. /\ fs \in Seq(Frame) /\ WellNested(fs, Len(envs))
      /\ fs[Len(fs)].kind = "block"
      /\ EndCaseNode \in Seq(Node)
      /\ \A i \in 1 .. Len(EndCaseNode) : EndCaseNode[i].kind # "jump"
  BY <1>1, EndCaseLeavesBlock
<1> HIDE DEF fs
<1>3. outcome = "parsing" /\ Len(fs) \in Nat
  BY <1>1, <1>2 DEF InFrame
<1>4. /\ FrameInv' /\ frames' \in Seq(Frame) /\ Len(frames') = Len(fs) - 1
      /\ envs' \in Seq(Table) /\ path' \in Seq(Nat)
  BY <1>1, <1>2, <1>3, PopConstruct
<1>5. g \in Node /\ g.kind = "endblock" /\ g.depth = Len(fs) - 1
  BY <1>3, MkNameless, NoNameIsOptional
<1> HIDE DEF g
<1>6. ast' \in Seq(Node) /\ ClosedInv'
  <2>1. g.depth <= Len(frames')
    BY <1>3, <1>4, <1>5
  <2>2. QED
    BY <1>1, <1>2, <1>4, <1>5, <2>1, ClosedAppendLast
<1>7. QED
  BY <1>1, <1>4, <1>6 DEF SemaInv, SemaTypeOK

\* The increment of a for, as ParseForStmt leaves it for CodeGen.
LEMMA IncNodesType ==
  ASSUME SemaInv, NEW inc \in Seq([name : Names, sym : Symbol])
  PROVE  /\ IncNodes(inc) \in Seq(Node)
         /\ \A i \in 1 .. Len(IncNodes(inc)) : IncNodes(inc)[i].kind # "jump"
<1>1. \A i \in 1 .. Len(inc) : inc[i].name \in Names /\ inc[i].sym \in Symbol
  <2>1. \A i \in 1 .. Len(inc) : inc[i] \in [name : Names, sym : Symbol]
    BY ElementOfSeq, Zenon
  <2>2. QED
    BY <2>1
<1>2. \A i \in 1 .. Len(inc) : /\ Use(inc[i].name, inc[i].sym) \in Node
                               /\ Use(inc[i].name, inc[i].sym).kind = "use"
  BY SMTT(60), <1>1, HereType, MkNamed DEF Use
<1>3. IncNodes(inc) = [i \in 1 .. Len(inc) |-> Use(inc[i].name, inc[i].sym)]
  BY DEF IncNodes
<1>4. QED
  BY <1>2, <1>3

\* Closing a for keeps the parser's invariant.
LEMMA CloseForKeeps ==
  ASSUME SemaInv, CloseFor
  PROVE  SemaInv'
<1> DEFINE inc == Last(frames).inc
           u == IncNodes(inc)
           g == Mk("endfor", NoName, NoSymbol, Here - 1)
<1>1. /\ InFrame({"for"})
      /\ envs' = ExitScope(envs)
      /\ frames' = AfterStmt(Front(frames))
      /\ ast' = ast \o (u \o <<g>>)
      /\ path' = Front(path)
      /\ UNCHANGED <<outcome, declared>>
  BY DEF CloseFor
<1>2. /\ outcome = "parsing" /\ frames # <<>> /\ frames \in Seq(Frame)
      /\ frames[Len(frames)].kind = "for" /\ WellNested(frames, Len(envs))
      /\ Len(frames) \in Nat /\ inc = frames[Len(frames)].inc
  BY <1>1 DEF InFrame, SemaInv, SemaTypeOK, FrameInv, Last
<1>3. Len(frames) > 2
  BY <1>2 DEF WellNested
<1>4. inc \in Seq([name : Names, sym : Symbol])
  <2>1. frames[Len(frames)] \in Frame
    BY <1>2
  <2>2. QED
    BY <1>2, <2>1 DEF Frame
<1> HIDE DEF inc
<1>5. u \in Seq(Node) /\ \A i \in 1 .. Len(u) : u[i].kind # "jump"
  BY <1>4, IncNodesType
<1>6. /\ FrameInv' /\ frames' \in Seq(Frame) /\ Len(frames') = Len(frames) - 1
      /\ envs' \in Seq(Table) /\ path' \in Seq(Nat)
  BY <1>1, <1>2, <1>3, PopConstruct
<1>7. g \in Node /\ g.kind = "endfor" /\ g.depth = Len(frames) - 1
  BY <1>2, HereType, MkNameless, NoNameIsOptional
<1> HIDE DEF u, g
<1>8. ast' \in Seq(Node) /\ ClosedInv'
  <2>1. g.depth <= Len(frames')
    BY <1>2, <1>6, <1>7
  <2>2. QED
    BY <1>1, <1>5, <1>6, <1>7, <2>1, ClosedAppendLast
<1>9. QED
  BY <1>1, <1>6, <1>8 DEF SemaInv, SemaTypeOK

\* The end of the input keeps the parser's invariant.
LEMMA EndOfInputKeeps ==
  ASSUME SemaInv, EndOfInput
  PROVE  SemaInv'
<1>1. frames = <<>> /\ outcome' = "parsed" /\ UNCHANGED <<envs, frames, ast, declared, path>>
  BY DEF EndOfInput, AtTop
<1>2. SemaTypeOK' /\ ClosedInv' /\ FrameInv'
  BY <1>1 DEF SemaInv, SemaTypeOK, ClosedInv, FrameInv
<1>3. QED
  BY <1>2 DEF SemaInv

\* Opening a for keeps the parser's invariant.
LEMMA OpenForKeeps ==
  ASSUME SemaInv, NEW init \in OptName, NEW inc \in OptName, OpenFor(init, inc)
  PROVE  SemaInv'
<1> DEFINE s == NewDecl("var")
           scope == EnterScope(envs)
           es == IF init = NoName THEN scope ELSE AddObjSymbol(scope, init, s)
           p == Append(path, Len(ast) + 1)
           nf == NewFrame("for", Len(envs) + 1)
           is == IF inc = NoName THEN <<>> ELSE <<[name |-> inc, sym |-> Found(es, inc)]>>
           f == [nf EXCEPT !.inc = is]
           g == Mk("for", init, NoSymbol, Here)
           v == Mk("var", init, s, Here + 1)
           t == IF init = NoName THEN <<g>> ELSE <<g, v>>
<1>1. CASE Report
  BY <1>1, ReportKeeps DEF Report
<1>2. CASE /\ inc # NoName => Found(es, inc) # NoSymbol
           /\ envs' = es
           /\ frames' = Append(frames, f)
           /\ ast' = ast \o t
           /\ path' = p
           /\ declared' = IF init = NoName THEN declared ELSE Append(declared, Decl(init, s, p))
           /\ UNCHANGED outcome
  <2>1. AtStmt
    BY DEF OpenFor
  <2>2. /\ outcome = "parsing" /\ frames # <<>> /\ frames \in Seq(Frame)
        /\ WellNested(frames, Len(envs)) /\ Len(envs) \in Nat
        /\ envs \in Seq(Table) /\ path \in Seq(Nat) /\ Len(path) = Len(envs)
        /\ declared \in Seq(DeclRecord) /\ ast \in Seq(Node) /\ Len(ast) \in Nat
        /\ Here = Len(frames) /\ Here \in Nat
    BY <2>1, AtStmtInside, HereType
  <2>3. s \in Symbol
    BY <2>2, NewDeclType
  <2>4. p \in Seq(Nat) /\ Len(p) = Len(path) + 1
    BY <2>2
  <2>5. nf \in Frame /\ nf.kind = "for" /\ nf.height = Len(envs) + 1
    BY <2>2, NewFrameType
  <2>6. g \in Node /\ g.kind = "for" /\ g.depth = Len(frames)
    BY <2>2, MkNameless
  <2>7. init # NoName => init \in Names /\ v \in Node /\ v.kind = "var" /\ v.depth = Len(frames) + 1
    BY <2>2, <2>3, MkNamed DEF OptName
  <2>8. scope \in Seq(Table) /\ Len(scope) = Len(envs) + 1 /\ scope # <<>>
    BY <2>2, EnterScopeInside
  <2> HIDE DEF s, scope, p, nf, g, v
  <2>9. es \in Seq(Table) /\ Len(es) = Len(envs) + 1 /\ es # <<>>
    <3>1. CASE init = NoName
      BY <2>8, <3>1
    <3>2. CASE init # NoName
      <4> DEFINE e == AddObjSymbol(scope, init, s)
      <4>1. e \in Seq(Table) /\ Len(e) = Len(scope)
        BY <2>3, <2>7, <2>8, <3>2, AddObjSymbolType
      <4>2. es = e
        BY <3>2
      <4> HIDE DEF e, es
      <4>3. Len(e) # Len(<<>>)
        BY <2>2, <2>8, <4>1
      <4>4. e # <<>>
        BY <4>3, Zenon
      <4>5. QED
        BY <2>8, <4>1, <4>2, <4>4
    <3>3. QED
      BY <3>1, <3>2
  <2> HIDE DEF es
  <2>10. is \in Seq([name : Names, sym : Symbol])
    <3>1. CASE inc = NoName
      BY <3>1
    <3>2. CASE inc # NoName
      <4>1. inc \in Names /\ Found(es, inc) \in Symbol
        BY <1>2, <2>9, <3>2, FindObjSymbolType DEF OptName, Found
      <4>2. QED
        BY <3>2, <4>1
    <3>3. QED
      BY <3>1, <3>2
  <2> HIDE DEF is
  <2>11. f \in Frame /\ f.kind = "for" /\ f.height = Len(envs) + 1
    BY <2>5, <2>10 DEF Frame
  <2>12. /\ t \in Seq(Node) /\ t # <<>> /\ t[Len(t)].depth <= Len(frames) + 1
         /\ \A i \in 1 .. Len(t) : t[i].kind # "jump"
    <3>1. CASE init = NoName
      BY <2>2, <2>6, <3>1
    <3>2. CASE init # NoName
      BY <2>2, <2>6, <2>7, <3>2
    <3>3. QED
      BY <3>1, <3>2
  <2>13. declared' \in Seq(DeclRecord)
    <3>1. CASE init = NoName
      BY <1>2, <2>2, <3>1
    <3>2. CASE init # NoName
      BY <1>2, <2>2, <2>3, <2>4, <2>7, <3>2, DeclType
    <3>3. QED
      BY <3>1, <3>2
  <2> HIDE DEF f, t
  <2>14. frames' \in Seq(Frame) /\ Len(frames') = Len(frames) + 1 /\ frames' # <<>>
         /\ WellNested(frames', Len(envs'))
    BY <1>2, <2>2, <2>9, <2>11, NestPush
  <2>15. ast' \in Seq(Node) /\ ClosedInv'
    BY <1>2, <2>12, <2>14, ClosedAppend
  <2>16. FrameInv'
    BY <1>2, <2>2, <2>4, <2>9, <2>14 DEF FrameInv
  <2>17. QED
    BY <1>2, <2>4, <2>9, <2>13, <2>14, <2>15, <2>16 DEF SemaInv, SemaTypeOK, DeclRecord
<1>3. QED
  BY <1>1, <1>2 DEF OpenFor

\* The parser's invariant holds at the start.
LEMMA SemaInit_SemaInv == SemaInit => SemaInv
<1> SUFFICES ASSUME SemaInit PROVE SemaInv
  OBVIOUS
<1>1. envs = <<EmptyTable>> /\ EmptyTable \in Table
  BY EmptyTableType DEF SemaInit
<1>2. envs \in Seq(Table) /\ Len(envs) = 1 /\ envs # <<>>
  BY <1>1, OneElement
<1>3. path \in Seq(Nat) /\ Len(path) = 1
  BY DEF SemaInit
<1>4. SemaTypeOK
  <2>1. frames \in Seq(Frame) /\ ast \in Seq(Node)
    BY DEF SemaInit
  <2>2. declared \in Seq([name : Names, sym : Symbol, path : Seq(Nat)])
    BY DEF SemaInit
  <2>3. QED
    BY <1>2, <1>3, <2>1, <2>2 DEF SemaInit, SemaTypeOK
<1>5. FrameInv /\ ClosedInv
  BY <1>2, <1>3 DEF SemaInit, FrameInv, ClosedInv
<1>6. QED
  BY <1>4, <1>5 DEF SemaInv

\* Every step of the parser keeps its invariant.
LEMMA SemaNext_SemaInv == SemaInv /\ SemaNext => SemaInv'
<1> SUFFICES ASSUME SemaInv, SemaNext PROVE SemaInv'
  OBVIOUS
<1>1. ASSUME NEW n \in Names, NEW init \in OptName, NEW first \in BOOLEAN,
             GlobalDecl(n, init, first)
      PROVE  SemaInv'
  BY <1>1, GlobalDeclKeeps
<1>2. ASSUME NEW n \in Names, TypedefDecl(n) \/ VarDecl(n) \/ Access(n)
      PROVE  SemaInv'
  BY <1>2, TypedefDeclKeeps, VarDeclKeeps, AccessKeeps
<1>3. ASSUME NEW n \in Names, NEW p \in Names, FuncPointerDecl(n, p)
      PROVE  SemaInv'
  BY <1>3, FuncPointerDeclKeeps
<1>4. ASSUME NEW n \in Names, NEW params \in ParamLists,
             FuncPrototype(n, params) \/ FuncDefinition(n, params)
      PROVE  SemaInv'
  BY <1>4, ParamListsType, FuncPrototypeKeeps, FuncDefinitionKeeps
<1>5. ASSUME NEW init \in OptName, NEW inc \in OptName, OpenFor(init, inc)
      PROVE  SemaInv'
  BY <1>5, OpenForKeeps
<1>6. ASSUME NEW switch \in BOOLEAN, OpenBlock(switch)
      PROVE  SemaInv'
  BY <1>6, OpenBlockKeeps
<1>7. CASE Jump \/ CaseLabel \/ CloseBlock \/ CloseFor \/ FuncEnd \/ EndOfInput
  BY <1>7, JumpKeeps, CaseLabelKeeps, CloseBlockKeeps, CloseForKeeps, FuncEndKeeps,
     EndOfInputKeeps
<1>8. QED
  BY <1>1, <1>2, <1>3, <1>4, <1>5, <1>6, <1>7 DEF SemaNext


-----------------------------------------------------------------------------
(* The visitor's tables. *)

\* A node that carries a name carries its symbol.
LEMMA VisitingNamed ==
  ASSUME nodes \in Seq(Node), NEW K \in SUBSET {"gvar", "func", "var", "use"}, Visiting(K)
  PROVE  /\ nodes[pos].name \in Names /\ nodes[pos].sym \in Symbol
         /\ nodes[pos].params \in Seq(Names) /\ nodes[pos].first \in Nat
<1>1. nodes[pos] \in Node /\ nodes[pos].kind \in {"gvar", "func", "var", "use"}
  BY DEF Visiting
<1>2. QED
  BY <1>1 DEF Node

\* Inserting a symbol in globalVarMap keeps its type.
LEMMA GlobalType ==
  ASSUME globalVarMap \in Table, NEW n \in Names, NEW s \in Symbol, AddGlobalVarToMap(n, s)
  PROVE  globalVarMap' \in Table
BY InsertType DEF AddGlobalVarToMap

\* Inserting a symbol in the innermost local table keeps the type of the stack.
LEMMA LocalType ==
  ASSUME localVarMap \in Seq(Table), NEW n \in Names, NEW s \in Symbol, AddLocalVarToMap(n, s)
  PROVE  localVarMap' \in Seq(Table)
<1> DEFINE k == Len(localVarMap)
           t == Insert(localVarMap[k], n, s)
<1>1. localVarMap' = [localVarMap EXCEPT ![k] = t]
  BY DEF AddLocalVarToMap
<1>2. CASE k = 0
  <2>1. DOMAIN localVarMap = {} /\ localVarMap = [i \in {} |-> localVarMap[i]]
    BY <1>2
  <2> HIDE DEF t
  <2>2. localVarMap' = [i \in {} |-> IF i = k THEN t ELSE localVarMap[i]]
    BY <1>1, <2>1
  <2>3. localVarMap' = localVarMap
    BY <2>1, <2>2
  <2>4. QED
    BY <2>3
<1>3. CASE k # 0
  <2>1. k \in 1 .. Len(localVarMap)
    BY <1>3
  <2>2. localVarMap[k] \in Table
    BY <2>1, ElementOfSeq
  <2>3. t \in Table
    BY <2>2, InsertType
  <2> HIDE DEF t
  <2>4. QED
    BY <1>1, <2>1, <2>3
<1>4. QED
  BY <1>2, <1>3

\* What GetVarByName returns is a symbol or NoSymbol.
LEMMA GetVarByNameType ==
  ASSUME localVarMap \in Seq(Table), globalVarMap \in Table, NEW n \in Names
  PROVE  GetVarByName(n) \in Symbol \cup {NoSymbol}
<1> DEFINE hits == {i \in DOMAIN localVarMap : localVarMap[i][n] # NoSymbol}
<1>1. CASE hits = {}
  BY <1>1 DEF GetVarByName, Table
<1>2. CASE hits # {}
  <2>1. hits \in SUBSET (1 .. Len(localVarMap)) /\ Len(localVarMap) \in Nat
    OBVIOUS
  <2>2. Max(hits) \in 1 .. Len(localVarMap)
    BY <1>2, <2>1, MaxOfIndices
  <2>3. localVarMap[Max(hits)] \in Table
    BY <2>2
  <2>4. QED
    BY <1>2, <2>3 DEF GetVarByName, Table
<1>3. QED
  BY <1>1, <1>2

\* A function's parameters are numbered from its first.
LEMMA ParameterTableType ==
  ASSUME NEW params \in Seq(Names), NEW first \in Nat
  PROVE  [n \in Names |->
            IF \E i \in DOMAIN params : params[i] = n
              THEN [kind |-> "var", body |-> FALSE,
                    decl |-> first - 1 + (CHOOSE i \in DOMAIN params : params[i] = n)]
              ELSE NoSymbol] \in Table
<1>1. DOMAIN params = 1 .. Len(params)
  OBVIOUS
<1>2. ASSUME NEW n \in Names, \E i \in DOMAIN params : params[i] = n
      PROVE  [kind |-> "var", body |-> FALSE,
              decl |-> first - 1 + (CHOOSE i \in DOMAIN params : params[i] = n)] \in Symbol
  <2> DEFINE c == CHOOSE i \in DOMAIN params : params[i] = n
  <2>1. c \in 1 .. Len(params)
    BY <1>1, <1>2
  <2> HIDE DEF c
  <2>2. first - 1 + c \in Nat
    BY <2>1
  <2>3. [kind |-> "var", body |-> FALSE, decl |-> first - 1 + c] \in Symbol
    BY <2>2 DEF Symbol
  <2>4. QED
    BY <2>3 DEF c
<1>3. QED
  BY <1>2 DEF Table

-----------------------------------------------------------------------------
(* One lemma for each action of the visitor. *)

CodeGenInv == CodeGenTypeOK /\ HandoffInv

\* A global's visit keeps CodeGen's types.
LEMMA VisitGlobalKeeps ==
  ASSUME CodeGenInv, VisitGlobal PROVE CodeGenTypeOK'
<1>1. nodes[pos].name \in Names /\ nodes[pos].sym \in Symbol
  BY VisitingNamed DEF VisitGlobal, CodeGenInv, CodeGenTypeOK
<1>2. globalVarMap' \in Table
  BY <1>1, GlobalType DEF VisitGlobal, CodeGenInv, CodeGenTypeOK
<1>3. QED
  BY <1>2 DEF VisitGlobal, Advance, CodeGenInv, CodeGenTypeOK

\* A function's visit keeps CodeGen's types, its table of parameters included.
LEMMA VisitFuncDeclKeeps ==
  ASSUME CodeGenInv, VisitFuncDecl PROVE CodeGenTypeOK'
<1> DEFINE f == nodes[pos]
           table == [n \in Names |->
                       IF \E i \in DOMAIN f.params : f.params[i] = n
                         THEN [kind |-> "var", body |-> FALSE,
                               decl |-> f.first - 1 +
                                 (CHOOSE i \in DOMAIN f.params : f.params[i] = n)]
                         ELSE NoSymbol]
           g == [f.sym EXCEPT !.body = FALSE]
<1>1. f.name \in Names /\ f.sym \in Symbol /\ f.params \in Seq(Names) /\ f.first \in Nat
  BY VisitingNamed DEF VisitFuncDecl, CodeGenInv, CodeGenTypeOK
<1>2. table \in Table
  BY <1>1, ParameterTableType
<1>3. g \in Symbol
  BY <1>1 DEF Symbol
<1>4. /\ globalVarMap' = globalVarMap \/ AddGlobalVarToMap(f.name, g)
      /\ localVarMap' \in {<<table>>, <<>>}
      /\ pos' = pos + 1
      /\ UNCHANGED <<nodes, gen, loads>>
  BY DEF VisitFuncDecl, Advance
<1> HIDE DEF table, f, g
<1>5. globalVarMap' \in Table
  BY <1>1, <1>3, <1>4, GlobalType DEF CodeGenInv, CodeGenTypeOK
<1>6. localVarMap' \in Seq(Table)
  <2>1. <<table>> \in Seq(Table)
    BY <1>2, OneElement
  <2>2. <<>> \in Seq(Table)
    OBVIOUS
  <2>3. QED
    BY <1>4, <2>1, <2>2
<1>7. QED
  BY <1>4, <1>5, <1>6 DEF CodeGenInv, CodeGenTypeOK

\* Opening and closing a BlockStmt, and leaving a function, keep CodeGen's types.
LEMMA VisitScopeKeeps ==
  ASSUME CodeGenInv, VisitFuncEnd \/ VisitBlock \/ VisitBlockEnd \/ VisitFor
  PROVE  CodeGenTypeOK'
<1>1. localVarMap \in Seq(Table) /\ EmptyTable \in Table
  BY EmptyTableType DEF CodeGenInv, CodeGenTypeOK
<1>2. localVarMap' \in {localVarMap, Front(localVarMap), Append(localVarMap, EmptyTable)}
  BY DEF VisitFuncEnd, VisitBlock, VisitBlockEnd, VisitFor, PushScope, PopScope
<1>3. localVarMap' \in Seq(Table)
  <2>1. Append(localVarMap, EmptyTable) \in Seq(Table)
    BY <1>1, AppendProperties, Zenon
  <2>2. Front(localVarMap) \in Seq(Table)
    BY <1>1, PopType, Zenon
  <2>3. QED
    BY <1>1, <1>2, <2>1, <2>2
<1>4. pos' = pos + 1 /\ UNCHANGED <<nodes, gen, loads, globalVarMap>>
  BY DEF VisitFuncEnd, VisitBlock, VisitBlockEnd, VisitFor, Advance
<1>5. QED
  BY <1>3, <1>4 DEF CodeGenInv, CodeGenTypeOK

\* A local variable's visit keeps CodeGen's types.
LEMMA VisitVariableDeclKeeps ==
  ASSUME CodeGenInv, VisitVariableDecl PROVE CodeGenTypeOK'
<1>1. nodes[pos].name \in Names /\ nodes[pos].sym \in Symbol
  BY VisitingNamed DEF VisitVariableDecl, CodeGenInv, CodeGenTypeOK
<1>2. localVarMap' \in Seq(Table)
  BY <1>1, LocalType DEF VisitVariableDecl, CodeGenInv, CodeGenTypeOK
<1>3. QED
  BY <1>2 DEF VisitVariableDecl, Advance, CodeGenInv, CodeGenTypeOK

\* An access keeps CodeGen's types, whether it finds storage or aborts.
LEMMA VisitVariableAccessKeeps ==
  ASSUME CodeGenInv, VisitVariableAccess PROVE CodeGenTypeOK'
<1> DEFINE s == GetVarByName(nodes[pos].name)
<1>1. nodes[pos].name \in Names
  BY VisitingNamed DEF VisitVariableAccess, CodeGenInv, CodeGenTypeOK
<1>2. s \in Symbol \cup {NoSymbol}
  BY <1>1, GetVarByNameType DEF CodeGenInv, CodeGenTypeOK
<1>3. /\ \/ s # NoSymbol /\ loads' = loads \cup {<<pos, s>>} /\ Advance
         \/ gen' = "aborted" /\ UNCHANGED <<nodes, pos, loads>>
      /\ UNCHANGED <<localVarMap, globalVarMap>>
  BY DEF VisitVariableAccess
<1> HIDE DEF s
<1>4. loads' \subseteq Nat \X Symbol
  BY <1>2, <1>3 DEF CodeGenInv, CodeGenTypeOK
<1>5. QED
  BY <1>3, <1>4 DEF Advance, CodeGenInv, CodeGenTypeOK

\* A jump in a finished AST is followed by the node that closes its construct.
LEMMA VisitJumpKeeps ==
  ASSUME SemaInv, CodeGenInv, VisitJump PROVE CodeGenTypeOK'
<1> DEFINE C == {j \in DOMAIN nodes : j > pos /\ nodes[j].depth < nodes[pos].depth}
<1>1. /\ gen = "visiting" /\ pos \in DOMAIN nodes /\ nodes[pos].kind = "jump"
      /\ nodes = ast /\ frames = <<>> /\ ast \in Seq(Node)
  BY DEF VisitJump, Visiting, CodeGenInv, HandoffInv, SemaInv, FrameInv, SemaTypeOK
<1>2. nodes[pos].depth >= 1 /\ nodes[pos].depth \in Int
  BY <1>1 DEF SemaInv, ClosedInv, Node
<1>3. ~(nodes[pos].depth <= Len(frames))
  BY <1>1, <1>2
<1>4. C # {} /\ C \in SUBSET Nat
  BY <1>1, <1>3 DEF SemaInv, ClosedInv
<1>5. PICK x \in C : \A y \in C : x <= y
  BY <1>4, NatMinimum
<1>6. Min(C) \in C
  BY <1>5 DEF Min
<1>7. CloserOf(pos) = Min(C)
  BY DEF CloserOf
<1>8. CloserOf(pos) \in Nat
  BY <1>4, <1>6, <1>7
<1>9. pos' \in {pos + 1, CloserOf(pos)}
      /\ UNCHANGED <<nodes, localVarMap, globalVarMap, loads, gen>>
  BY DEF VisitJump
<1>10. QED
  BY <1>8, <1>9 DEF CodeGenInv, CodeGenTypeOK

\* Every visit keeps the invariant.
LEMMA VisitKeeps ==
  ASSUME SemaInv, CodeGenInv, Visit PROVE SemaInv' /\ CodeGenInv'
<1>1. SemaInv'
  BY DEF Visit, semaVars, SemaInv, SemaTypeOK, FrameInv, ClosedInv
<1>2. CodeGenTypeOK'
  <2>1. CASE VisitProgramEnd
    BY <2>1 DEF VisitProgramEnd, CodeGenInv, CodeGenTypeOK
  <2>2. QED
    BY <2>1, VisitGlobalKeeps, VisitFuncDeclKeeps, VisitScopeKeeps, VisitVariableDeclKeeps,
       VisitVariableAccessKeeps, VisitJumpKeeps DEF Visit, VisitNext
<1>3. gen = "visiting" /\ nodes' = nodes /\ gen' # "idle"
  BY DEF Visit, VisitNext, VisitGlobal, VisitFuncDecl, VisitFuncEnd, VisitBlock, VisitBlockEnd,
     VisitFor, VisitVariableDecl, VisitVariableAccess, VisitJump, VisitProgramEnd, Visiting,
     Advance
<1>4. HandoffInv'
  BY <1>3 DEF Visit, semaVars, CodeGenInv, HandoffInv
<1>5. QED
  BY <1>1, <1>2, <1>4 DEF CodeGenInv

\* Handing the AST to CodeGen keeps the invariant.
LEMMA GenerateKeeps ==
  ASSUME SemaInv, CodeGenInv, Generate PROVE SemaInv' /\ CodeGenInv'
<1>1. SemaInv'
  BY DEF Generate, semaVars, SemaInv, SemaTypeOK, FrameInv, ClosedInv
<1>2. CodeGenTypeOK'
  BY DEF Generate, Start, SemaInv, SemaTypeOK, CodeGenInv, CodeGenTypeOK
<1>3. HandoffInv'
  BY DEF Generate, Start, semaVars, CodeGenInv, HandoffInv
<1>4. QED
  BY <1>1, <1>2, <1>3 DEF CodeGenInv

\* While the parser runs, CodeGen has not started.
LEMMA ParseKeeps ==
  ASSUME SemaInv, CodeGenInv, Parse PROVE SemaInv' /\ CodeGenInv'
<1>1. SemaInv'
  BY SemaNext_SemaInv DEF Parse
<1>2. CodeGenTypeOK'
  BY SMTT(60) DEF Parse, codeGenVars, CodeGenInv, CodeGenTypeOK
<1>3. outcome = "parsing"
  BY ZenonT(60) DEF Parse, SemaNext, GlobalDecl, TypedefDecl, FuncPrototype, FuncDefinition, FuncEnd,
     VarDecl, FuncPointerDecl, Access, Jump, OpenBlock, CaseLabel, CloseBlock, OpenFor,
     CloseFor, EndOfInput, AtTop, AtStmt, InFrame
<1>4. HandoffInv'
  BY <1>3 DEF Parse, codeGenVars, CodeGenInv, HandoffInv
<1>5. QED
  BY <1>1, <1>2, <1>4 DEF CodeGenInv

-----------------------------------------------------------------------------

\* The parts of IInv, regrouped by component.
LEMMA IInvParts == IInv <=> SemaInv /\ CodeGenInv
BY DEF IInv, TypeOK, SemaInv, CodeGenInv

\* The invariant holds before main parses anything.
LEMMA Init_IInv == Init => IInv
<1> SUFFICES ASSUME Init PROVE IInv
  OBVIOUS
<1>1. SemaInv
  BY SemaInit_SemaInv DEF Init
<1>2. CodeGenInv
  BY EmptyTableType DEF Init, CodeGenInit, CodeGenInv, CodeGenTypeOK, HandoffInv
<1>3. QED
  BY <1>1, <1>2, IInvParts

\* Every step of a compilation keeps the invariant.
LEMMA Next_IInv == IInv /\ [Next]_vars => IInv'
<1> SUFFICES ASSUME SemaInv, CodeGenInv, [Next]_vars PROVE SemaInv' /\ CodeGenInv'
  BY IInvParts DEF IInv, TypeOK, SemaInv, CodeGenInv
<1>1. CASE Parse
  BY <1>1, ParseKeeps
<1>2. CASE Generate
  BY <1>2, GenerateKeeps
<1>3. CASE Visit
  BY <1>3, VisitKeeps
<1>4. CASE UNCHANGED vars
  BY <1>4 DEF vars, semaVars, codeGenVars, SemaInv, SemaTypeOK, FrameInv, ClosedInv,
     CodeGenInv, CodeGenTypeOK, HandoffInv
<1>5. QED
  BY <1>1, <1>2, <1>3, <1>4 DEF Next, Terminated

\* What holds of every step of every compilation (parser.cc, sema.cc and
\* codegen.cc, as far as names go).
THEOREM InvariantHolds == Spec => []IInv
<1>1. Init => IInv
  BY Init_IInv
<1>2. IInv /\ [Next]_vars => IInv'
  BY Next_IInv
<1>3. QED
  BY <1>1, <1>2, PTL DEF Spec

\* Every variable of the parser, Sema and CodeGen keeps its type: no lookup,
\* ExitScope, PopScope or jump leads outside the tables and the AST.
THEOREM TypeCorrect == Spec => []TypeOK
<1>1. IInv => TypeOK
  BY DEF IInv
<1>2. QED
  BY <1>1, InvariantHolds, PTL

\* However functions, blocks, loops and labels are nested, and wherever the
\* parse ends, ExitScope leaves the file scope (scope.cc:9-11) in place, and
\* no scope outlives the external declaration it was opened in.
THEOREM FileScopeCorrect == Spec => []FileScopeStays
<1>1. IInv => FileScopeStays
  BY DEF IInv, FrameInv, FileScopeStays
<1>2. QED
  BY <1>1, InvariantHolds, PTL

-----------------------------------------------------------------------------
(* The symbol tables and the history of declarations. *)

\* The scope with identity q is, or encloses, the one with identity p.
OnPath(q, p) == Len(q) <= Len(p) /\ \A i \in 1 .. Len(q) : q[i] = p[i]

\* The declaration d is of n, in the k-th of the scopes on p.
DeclaredIn(d, n, p, k) == d.name = n /\ Len(d.path) = k /\ OnPath(d.path, p)

\* Identities in use are at most N, so that a greater one is that of a new scope.
Numbered(p, ds, N) ==
    /\ \A k \in 1 .. Len(p) : p[k] <= N
    /\ \A i \in DOMAIN ds : Len(ds[i].path) >= 1 /\ ds[i].path[Len(ds[i].path)] <= N

\* Each table holds exactly the names declared in its scope, each as the
\* entity that all its declarations there declare.
TablesAgree(es, p, ds) ==
    \A k \in 1 .. Len(es) : \A n \in Names :
      /\ es[k][n] # NoSymbol => \E i \in DOMAIN ds : DeclaredIn(ds[i], n, p, k)
      /\ \A i \in DOMAIN ds : DeclaredIn(ds[i], n, p, k) => SameEntity(es[k][n], ds[i].sym)

\* In one scope only functions have several declarations, and their entity has no number.
DeclsDiffer(ds) ==
    /\ \A i \in DOMAIN ds : ds[i].sym.kind = "func" => ds[i].sym.decl = 0
    /\ \A i, j \in DOMAIN ds :
         i # j /\ ds[i].name = ds[j].name /\ ds[i].path = ds[j].path
           => ds[i].sym.kind = "func" /\ ds[j].sym.kind = "func"

\* The tables and the history agree, and identities are below N.
Agree(es, p, ds, N) ==
    /\ es \in Seq(Table) /\ p \in Seq(Nat) /\ ds \in Seq(DeclRecord) /\ N \in Nat
    /\ Len(es) = Len(p) /\ Len(p) >= 1
    /\ Numbered(p, ds, N) /\ TablesAgree(es, p, ds) /\ DeclsDiffer(ds)

\* The invariant: the open scopes agree with what was declared in them.
ScopesAgree == Agree(envs, path, declared, Len(ast))

-----------------------------------------------------------------------------
(* What the operations on scopes do to the agreement. *)

\* Larger identities may be in use.
LEMMA AgreeMore ==
  ASSUME NEW es, NEW p, NEW ds, NEW N, NEW M \in Nat, Agree(es, p, ds, N), N <= M
  PROVE  Agree(es, p, ds, M)
<1>1. \A k \in 1 .. Len(p) : p[k] \in Nat
  BY DEF Agree
<1>2. \A i \in DOMAIN ds : Len(ds[i].path) >= 1 => ds[i].path[Len(ds[i].path)] \in Nat
  <2> SUFFICES ASSUME NEW i \in DOMAIN ds, Len(ds[i].path) >= 1
               PROVE  ds[i].path[Len(ds[i].path)] \in Nat
    OBVIOUS
  <2>1. ds \in Seq(DeclRecord)
    BY DEF Agree
  <2>2. ds[i] \in DeclRecord
    BY <2>1
  <2>3. ds[i].path \in Seq(Nat)
    BY <2>2 DEF DeclRecord
  <2>4. QED
    BY <2>3
<1>3. Numbered(p, ds, M)
  BY <1>1, <1>2 DEF Agree, Numbered
<1>4. QED
  BY <1>3 DEF Agree

\* A new scope is empty: nothing was declared under its identity.
LEMMA AgreePush ==
  ASSUME NEW es, NEW p, NEW ds, NEW N, NEW x \in Nat, Agree(es, p, ds, N), N < x
  PROVE  Agree(EnterScope(es), Append(p, x), ds, x)
<1> DEFINE q == Append(p, x)
           fs == EnterScope(es)
<1>1. /\ es \in Seq(Table) /\ p \in Seq(Nat) /\ ds \in Seq(DeclRecord) /\ N \in Nat
      /\ Len(es) = Len(p) /\ Len(p) >= 1 /\ Len(p) \in Nat
  BY DEF Agree
<1>2. /\ q \in Seq(Nat) /\ Len(q) = Len(p) + 1 /\ q[Len(p) + 1] = x
      /\ \A k \in 1 .. Len(p) : q[k] = p[k]
  BY <1>1
<1>3. /\ fs \in Seq(Table) /\ Len(fs) = Len(es) + 1 /\ fs[Len(es) + 1] = EmptyTable
      /\ \A k \in 1 .. Len(es) : fs[k] = es[k]
  BY <1>1, EmptyTableType DEF EnterScope
<1> HIDE DEF q, fs
<1>4. Agree(es, p, ds, x)
  BY <1>1, AgreeMore
<1>5. Numbered(q, ds, x)
  <2>1. \A k \in 1 .. Len(p) : p[k] <= x
    BY <1>4 DEF Agree, Numbered
  <2>2. ASSUME NEW k \in 1 .. Len(q) PROVE q[k] <= x
    <3>1. k \in 1 .. Len(p) \/ k = Len(p) + 1
      BY <1>1, <1>2
    <3>2. QED
      BY <1>2, <2>1, <3>1
  <2>3. QED
    BY <1>4, <2>2 DEF Agree, Numbered
<1>6. ASSUME NEW k \in 1 .. Len(fs), NEW n \in Names
      PROVE  /\ fs[k][n] # NoSymbol => \E i \in DOMAIN ds : DeclaredIn(ds[i], n, q, k)
             /\ \A i \in DOMAIN ds : DeclaredIn(ds[i], n, q, k) => SameEntity(fs[k][n], ds[i].sym)
  <2>1. CASE k \in 1 .. Len(es)
    <3>1. \A i \in DOMAIN ds : DeclaredIn(ds[i], n, q, k) <=> DeclaredIn(ds[i], n, p, k)
      BY SMTT(60), <1>1, <1>2, <2>1 DEF DeclaredIn, OnPath
    <3>2. QED
      BY <1>3, <2>1, <3>1 DEF Agree, TablesAgree
  <2>2. CASE k = Len(es) + 1
    <3>1. fs[k][n] = NoSymbol
      BY <1>3, <2>2 DEF EmptyTable
    <3>2. ASSUME NEW i \in DOMAIN ds, DeclaredIn(ds[i], n, q, k) PROVE FALSE
      <4>1. ds[i].path[k] = x
        BY <1>1, <1>2, <2>2, <3>2 DEF DeclaredIn, OnPath
      <4>2. ds[i].path[k] <= N
        BY <3>2 DEF DeclaredIn, Agree, Numbered
      <4>3. QED
        BY <1>1, <4>1, <4>2
    <3>3. QED
      BY <3>1, <3>2
  <2>3. QED
    BY <1>1, <1>3, <2>1, <2>2
<1>7. QED
  BY <1>1, <1>2, <1>3, <1>5, <1>6 DEF Agree, TablesAgree, q, fs

\* The scopes left agree when the innermost is left.
LEMMA AgreePop ==
  ASSUME NEW es, NEW p, NEW ds, NEW N, Agree(es, p, ds, N), Len(p) >= 2
  PROVE  Agree(ExitScope(es), Front(p), ds, N)
<1> DEFINE q == Front(p)
           fs == ExitScope(es)
<1>1. /\ es \in Seq(Table) /\ p \in Seq(Nat) /\ ds \in Seq(DeclRecord) /\ N \in Nat
      /\ Len(es) = Len(p) /\ Len(p) >= 2 /\ Len(p) \in Nat /\ p # <<>> /\ es # <<>>
  BY DEF Agree
<1>2. q \in Seq(Nat) /\ Len(q) = Len(p) - 1 /\ \A k \in 1 .. Len(p) - 1 : q[k] = p[k]
  BY <1>1, FrontType, Zenon
<1>3. fs \in Seq(Table) /\ Len(fs) = Len(es) - 1 /\ \A k \in 1 .. Len(es) - 1 : fs[k] = es[k]
  BY <1>1, FrontType, Zenon DEF ExitScope
<1> HIDE DEF q, fs
<1>4. Numbered(q, ds, N)
  BY SMTT(60), <1>1, <1>2 DEF Agree, Numbered
<1>5. ASSUME NEW k \in 1 .. Len(fs), NEW n \in Names
      PROVE  /\ fs[k][n] # NoSymbol => \E i \in DOMAIN ds : DeclaredIn(ds[i], n, q, k)
             /\ \A i \in DOMAIN ds : DeclaredIn(ds[i], n, q, k) => SameEntity(fs[k][n], ds[i].sym)
  <2>1. k \in 1 .. Len(es) - 1 /\ k \in 1 .. Len(es)
    <3>1. Len(fs) = Len(es) - 1 /\ Len(es) \in Nat
      BY <1>1, <1>3
    <3>2. QED
      BY <3>1
  <2>2. ASSUME NEW d PROVE DeclaredIn(d, n, q, k) <=> DeclaredIn(d, n, p, k)
    <3>1. /\ k <= Len(q) /\ k <= Len(p)
          /\ \A i \in 1 .. k : q[i] = p[i]
      BY <1>1, <1>2, <2>1
    <3>2. QED
      BY <3>1 DEF DeclaredIn, OnPath
  <2>3. fs[k] = es[k]
    BY <1>3, <2>1
  <2>4. QED
    BY <2>1, <2>2, <2>3 DEF Agree, TablesAgree
<1>6. QED
  BY <1>1, <1>2, <1>3, <1>4, <1>5 DEF Agree, TablesAgree, q, fs

\* A scope is on its own path.
LEMMA OnPathSelf == ASSUME NEW p \in Seq(Nat) PROVE OnPath(p, p)
BY DEF OnPath

\* Of two paths of the same length one is on the other only if they are equal.
LEMMA OnPathSame ==
  ASSUME NEW p \in Seq(Nat), NEW q \in Seq(Nat), OnPath(q, p), Len(q) = Len(p)
  PROVE  q = p
<1>1. \A i \in 1 .. Len(q) : q[i] = p[i]
  BY DEF OnPath
<1>2. QED
  BY <1>1, SeqEqual, Zenon

\* Appending declarations to the history keeps the ones there.
LEMMA DeclsAppend ==
  ASSUME NEW ds \in Seq(DeclRecord), NEW d \in DeclRecord
  PROVE  /\ Append(ds, d) \in Seq(DeclRecord)
         /\ DOMAIN Append(ds, d) = DOMAIN ds \cup {Len(ds) + 1}
         /\ Append(ds, d)[Len(ds) + 1] = d
         /\ \A i \in DOMAIN ds : Append(ds, d)[i] = ds[i] /\ i # Len(ds) + 1
OBVIOUS

\* A declaration in the innermost scope of a name that is not in its table, or
\* of a function again.
LEMMA AgreeAdd ==
  ASSUME NEW es, NEW p, NEW ds, NEW N, Agree(es, p, ds, N),
         NEW n \in Names, NEW s \in Symbol, s.kind = "func" => s.decl = 0,
         \/ FindObjSymbolInCurEnv(es, n) = NoSymbol
         \/ s.kind = "func" /\ FindObjSymbolInCurEnv(es, n).kind = "func"
  PROVE  Agree(AddObjSymbol(es, n, s), p, Append(ds, Decl(n, s, p)), N)
<1> DEFINE fs == AddObjSymbol(es, n, s)
           d == Decl(n, s, p)
           cs == Append(ds, d)
           L == Len(es)
           t == es[L]
<1>1. /\ es \in Seq(Table) /\ p \in Seq(Nat) /\ ds \in Seq(DeclRecord) /\ N \in Nat
      /\ L = Len(p) /\ L >= 1 /\ L \in Nat /\ es # <<>> /\ L \in 1 .. L
  BY DEF Agree
<1>2. d \in DeclRecord /\ d.name = n /\ d.sym = s /\ d.path = p
  BY <1>1, DeclType DEF Decl
<1>3. /\ cs \in Seq(DeclRecord) /\ DOMAIN cs = DOMAIN ds \cup {Len(ds) + 1}
      /\ cs[Len(ds) + 1] = d
      /\ \A i \in DOMAIN ds : cs[i] = ds[i] /\ i # Len(ds) + 1
  BY <1>1, <1>2, DeclsAppend
<1>4. t \in Table /\ FindObjSymbolInCurEnv(es, n) = t[n]
  BY <1>1 DEF FindObjSymbolInCurEnv, Last
<1>5. /\ fs \in Seq(Table) /\ Len(fs) = L /\ fs[L] = Insert(t, n, s)
      /\ \A k \in 1 .. L - 1 : fs[k] = es[k]
  <2>1. fs \in Seq(Table) /\ Len(fs) = L
    BY <1>1, AddObjSymbolType
  <2>2. Insert(t, n, s) \in Table
    BY <1>4, InsertType
  <2>3. fs = [es EXCEPT ![L] = Insert(t, n, s)]
    BY DEF AddObjSymbol
  <2> DEFINE v == Insert(t, n, s)
  <2>4. fs = [es EXCEPT ![L] = v]
    BY <2>3
  <2> HIDE DEF fs, v
  <2>5. QED
    BY <1>1, <2>1, <2>4 DEF v
<1>6. /\ \A m \in Names \ {n} : Insert(t, n, s)[m] = t[m]
      /\ Insert(t, n, s)[n] = (IF t[n] = NoSymbol THEN s ELSE t[n])
  BY <1>4 DEF Insert, Table
<1>7. s # NoSymbol /\ s.kind # "none"
  BY DEF Symbol, NoSymbol
<1> HIDE DEF fs, d, cs, L, t
\* Declarations of n in the innermost scope are there only if n is in its table.
<1>8. ASSUME NEW i \in DOMAIN ds, ds[i].name = n, ds[i].path = p
      PROVE  ds[i].sym.kind = "func" /\ ds[i].sym.decl = 0 /\ s.kind = "func" /\ t[n] # NoSymbol
  <2>1. ds[i] \in DeclRecord
    BY <1>1
  <2>2. DeclaredIn(ds[i], n, p, L)
    BY <1>1, <1>8, OnPathSelf DEF DeclaredIn
  <2>3. SameEntity(t[n], ds[i].sym)
    BY <1>1, <2>2 DEF Agree, TablesAgree, L, t
  <2>4. ds[i].sym \in Symbol
    BY <2>1 DEF DeclRecord
  <2>5. t[n] # NoSymbol
    BY <2>3, <2>4 DEF SameEntity, Symbol, NoSymbol
  <2>6. s.kind = "func" /\ t[n].kind = "func"
    BY <1>4, <2>5
  <2>7. QED
    BY <1>1, <2>3, <2>5, <2>6 DEF SameEntity, Agree, DeclsDiffer
<1>9. Numbered(p, cs, N)
  <2>1. \A k \in 1 .. Len(p) : p[k] <= N
    BY DEF Agree, Numbered
  <2>2. Len(d.path) >= 1 /\ d.path[Len(d.path)] <= N
    BY <1>1, <1>2, <2>1
  <2>3. QED
    BY <1>3, <2>1, <2>2 DEF Agree, Numbered
<1>10. ASSUME NEW k \in 1 .. L, NEW m \in Names
       PROVE  /\ fs[k][m] # NoSymbol => \E i \in DOMAIN cs : DeclaredIn(cs[i], m, p, k)
              /\ \A i \in DOMAIN cs : DeclaredIn(cs[i], m, p, k) => SameEntity(fs[k][m], cs[i].sym)
  <2>1. /\ es[k][m] # NoSymbol => \E i \in DOMAIN ds : DeclaredIn(ds[i], m, p, k)
        /\ \A i \in DOMAIN ds : DeclaredIn(ds[i], m, p, k) => SameEntity(es[k][m], ds[i].sym)
    BY DEF Agree, TablesAgree, L
  <2>2. DeclaredIn(d, m, p, k) <=> m = n /\ k = L
    BY <1>1, <1>2, OnPathSelf DEF DeclaredIn
  <2>3. CASE ~(k = L /\ m = n)
    <3>1. fs[k][m] = es[k][m]
      BY SMTT(60), <1>1, <1>5, <1>6, <2>3 DEF t
    <3>2. QED
      BY <1>3, <2>1, <2>2, <2>3, <3>1
  <2>4. CASE k = L /\ m = n
    <3>1. fs[k][m] = (IF t[n] = NoSymbol THEN s ELSE t[n])
      BY <1>5, <1>6, <2>4
    <3>2. SameEntity(fs[k][m], s)
      <4>1. CASE t[n] = NoSymbol
        BY <3>1, <4>1 DEF SameEntity
      <4>2. CASE t[n] # NoSymbol
        <5>1. s.kind = "func" /\ t[n].kind = "func"
          BY <1>4, <4>2
        <5>2. PICK i \in DOMAIN ds : DeclaredIn(ds[i], n, p, L)
          BY <2>1, <2>4, <4>2 DEF t
        <5>3. SameEntity(t[n], ds[i].sym)
          BY <2>1, <2>4, <5>2 DEF t
        <5>4. t[n].decl = 0
          BY <5>1, <5>3 DEF SameEntity, Agree, DeclsDiffer
        <5>5. QED
          BY <3>1, <4>2, <5>1, <5>4 DEF SameEntity
      <4>3. QED
        BY <4>1, <4>2
    <3>3. \A i \in DOMAIN ds : DeclaredIn(ds[i], n, p, L) => SameEntity(fs[k][m], ds[i].sym)
      <4> SUFFICES ASSUME NEW i \in DOMAIN ds, DeclaredIn(ds[i], n, p, L)
                   PROVE  SameEntity(fs[k][m], ds[i].sym)
        OBVIOUS
      <4>1. ds[i] \in DeclRecord
        BY <1>1
      <4>2. ds[i].name = n /\ ds[i].path = p
        BY <1>1, <4>1, OnPathSame DEF DeclaredIn, DeclRecord
      <4>3. t[n] # NoSymbol
        BY <1>8, <4>2
      <4>4. QED
        BY <2>1, <2>4, <3>1, <4>3 DEF t
    <3>4. QED
      BY <1>2, <1>3, <2>2, <2>4, <3>2, <3>3
  <2>5. QED
    BY <2>3, <2>4
<1>11. DeclsDiffer(cs)
  <2>1. \A i \in DOMAIN cs : cs[i].sym.kind = "func" => cs[i].sym.decl = 0
    BY <1>2, <1>3 DEF Agree, DeclsDiffer
  <2>2. ASSUME NEW i \in DOMAIN cs, NEW j \in DOMAIN cs, i # j,
               cs[i].name = cs[j].name, cs[i].path = cs[j].path
        PROVE  cs[i].sym.kind = "func" /\ cs[j].sym.kind = "func"
    <3>1. CASE i \in DOMAIN ds /\ j \in DOMAIN ds
      BY ZenonT(60), <1>3, <2>2, <3>1 DEF Agree, DeclsDiffer
    <3>2. CASE i \in DOMAIN ds /\ j = Len(ds) + 1
      BY <1>2, <1>3, <1>8, <2>2, <3>2
    <3>3. CASE j \in DOMAIN ds /\ i = Len(ds) + 1
      BY <1>2, <1>3, <1>8, <2>2, <3>3
    <3>4. QED
      BY <1>3, <2>2, <3>1, <3>2, <3>3
  <2>3. QED
    BY <2>1, <2>2 DEF DeclsDiffer
<1>12. QED
  BY <1>1, <1>3, <1>5, <1>9, <1>10, <1>11 DEF Agree, TablesAgree, fs, cs, d, L

\* Two lists of declarations, one after the other.
LEMMA DeclsConcat ==
  ASSUME NEW ds \in Seq(DeclRecord), NEW es \in Seq(DeclRecord)
  PROVE  /\ ds \o es \in Seq(DeclRecord) /\ Len(ds \o es) = Len(ds) + Len(es)
         /\ \A i \in 1 .. Len(ds) + Len(es) :
              (ds \o es)[i] = IF i <= Len(ds) THEN ds[i] ELSE es[i - Len(ds)]
BY ConcatProperties, Zenon

\* The scope of a function's header: its names differ and its identity is new.
LEMMA AgreeHeader ==
  ASSUME NEW N, Agree(envs, path, declared, N),
         NEW n \in Names, NEW params \in Seq(Names), IsInjective(HeaderNames(n, params)),
         NEW x \in Nat, N < x
  PROVE  Agree(Append(envs, HeaderTable(n, params)), Append(path, x),
               declared \o HeaderDecls(n, params, Append(path, x)), x)
<1> DEFINE L == Len(envs)
           D == Len(declared)
           q == Append(path, x)
           ns == HeaderNames(n, params)
           K == Len(params) + 1
           hs == HeaderDecls(n, params, q)
           cs == declared \o hs
           table == HeaderTable(n, params)
           fs == Append(envs, table)
<1>1. /\ envs \in Seq(Table) /\ path \in Seq(Nat) /\ declared \in Seq(DeclRecord) /\ N \in Nat
      /\ L = Len(path) /\ L >= 1 /\ L \in Nat /\ D \in Nat /\ K \in Nat
  BY DEF Agree
<1>2. /\ q \in Seq(Nat) /\ Len(q) = L + 1 /\ q[L + 1] = x /\ q # path
      /\ \A k \in 1 .. L : q[k] = path[k]
  BY <1>1
<1>3. ns \in Seq(Names) /\ Len(ns) = K /\ DOMAIN ns = 1 .. K
  BY HeaderNamesType
<1>4. hs \in Seq(DeclRecord) /\ Len(hs) = K /\ DOMAIN hs = 1 .. K
      /\ \A i \in 1 .. K : /\ hs[i].name = ns[i] /\ hs[i].path = q
                            /\ hs[i].sym = HeaderSymbol(n, params, i)
  <2>1. hs \in Seq(DeclRecord)
    BY <1>1, <1>2, HeaderDeclsType
  <2>2. hs = [i \in 1 .. K |-> Decl(ns[i], HeaderSymbol(n, params, i), q)]
    BY DEF HeaderDecls
  <2> HIDE DEF hs, K, ns, q
  <2>3. Len(hs) = K /\ DOMAIN hs = 1 .. K
    BY <1>1, <2>1, <2>2
  <2>4. QED
    BY <2>1, <2>2, <2>3 DEF Decl
<1>5. table \in Table
  BY <1>1, HeaderTableType
<1>6. /\ fs \in Seq(Table) /\ Len(fs) = L + 1 /\ fs[L + 1] = table
      /\ \A k \in 1 .. L : fs[k] = envs[k]
  BY <1>1, <1>5
\* A name's entry is that of its only declaration in the header.
<1>7. ASSUME NEW i \in 1 .. K PROVE table[ns[i]] = HeaderSymbol(n, params, i)
  <2>1. ns[i] \in Names
    BY <1>3
  <2>2. \A j \in DOMAIN ns : ns[j] = ns[i] => j = i
    BY <1>3 DEF IsInjective
  <2>3. (CHOOSE j \in DOMAIN ns : ns[j] = ns[i]) = i
    BY <1>3, <2>2
  <2>4. table[ns[i]] = HeaderSymbol(n, params, CHOOSE j \in DOMAIN ns : ns[j] = ns[i])
    BY <1>3, <2>1 DEF HeaderTable
  <2>5. QED
    BY <2>3, <2>4
<1>8. \A m \in Names : table[m] # NoSymbol => \E i \in 1 .. K : ns[i] = m
  BY <1>3 DEF HeaderTable
<1>9. \A i \in 1 .. K : HeaderSymbol(n, params, i).kind = "func"
                          => HeaderSymbol(n, params, i).decl = 0
  BY DEF HeaderSymbol, FuncSymbol
<1> HIDE DEF q, ns, K, hs, table, fs
<1>10. /\ cs \in Seq(DeclRecord) /\ Len(cs) = D + K
       /\ \A i \in 1 .. D + K : cs[i] = IF i <= D THEN declared[i] ELSE hs[i - D]
  <2>1. /\ cs \in Seq(DeclRecord) /\ Len(cs) = Len(declared) + Len(hs)
        /\ \A i \in 1 .. Len(declared) + Len(hs) :
             cs[i] = IF i <= Len(declared) THEN declared[i] ELSE hs[i - Len(declared)]
    BY <1>1, <1>4, DeclsConcat
  <2>2. QED
    BY <1>4, <2>1
<1>11. /\ DOMAIN cs = 1 .. D + K
       /\ \A i \in 1 .. D : cs[i] = declared[i] /\ i \in 1 .. D + K
       /\ \A i \in 1 .. K : cs[D + i] = hs[i] /\ D + i \in 1 .. D + K
       /\ \A i \in 1 .. D + K : i \in 1 .. D \/ (i - D \in 1 .. K /\ i = D + (i - D))
  BY <1>1, <1>10
<1>12. DOMAIN declared = 1 .. D
  BY <1>1
<1> HIDE DEF cs, D
\* No earlier declaration has the new path.
<1>13. ASSUME NEW i \in 1 .. D PROVE declared[i].path # q
  <2>1. Len(declared[i].path) = L + 1 => declared[i].path[L + 1] <= N
    BY <1>12 DEF Agree, Numbered
  <2>2. QED
    BY <1>1, <1>2, <2>1
<1>14. Agree(envs, path, declared, x)
  BY <1>1, AgreeMore
<1>15. Numbered(q, cs, x)
  <2>1. ASSUME NEW k \in 1 .. Len(q) PROVE q[k] <= x
    <3>1. k \in 1 .. Len(path) \/ k = Len(path) + 1
      BY <1>1, <1>2
    <3>2. \A l \in 1 .. Len(path) : path[l] <= x
      BY <1>14 DEF Agree, Numbered
    <3>3. QED
      BY <1>1, <1>2, <3>1, <3>2
  <2>2. ASSUME NEW i \in 1 .. D + K
        PROVE  Len(cs[i].path) >= 1 /\ cs[i].path[Len(cs[i].path)] <= x
    <3>1. CASE i \in 1 .. D
      BY <1>11, <1>12, <1>14, <3>1 DEF Agree, Numbered
    <3>2. CASE i - D \in 1 .. K /\ i = D + (i - D)
      <4>1. cs[i].path = q
        BY <1>4, <1>11, <3>2
      <4>2. QED
        BY <1>1, <1>2, <4>1
    <3>3. QED
      BY <1>11, <3>1, <3>2
  <2>3. QED
    BY <1>11, <2>1, <2>2 DEF Numbered
<1>16. ASSUME NEW k \in 1 .. L + 1, NEW m \in Names
       PROVE  /\ fs[k][m] # NoSymbol => \E i \in 1 .. D + K : DeclaredIn(cs[i], m, q, k)
              /\ \A i \in 1 .. D + K : DeclaredIn(cs[i], m, q, k) => SameEntity(fs[k][m], cs[i].sym)
  <2>1. CASE k \in 1 .. L
    <3>1. ASSUME NEW d PROVE DeclaredIn(d, m, q, k) <=> DeclaredIn(d, m, path, k)
      <4>1. k <= Len(q) /\ k <= Len(path) /\ \A i \in 1 .. k : q[i] = path[i]
        BY <1>1, <1>2, <2>1
      <4>2. QED
        BY <4>1 DEF DeclaredIn, OnPath
    <3>2. \A i \in 1 .. K : ~DeclaredIn(hs[i], m, q, k)
      BY SMTT(60), <1>1, <1>2, <1>4, <2>1 DEF DeclaredIn
    <3>3. /\ envs[k][m] # NoSymbol => \E i \in 1 .. D : DeclaredIn(declared[i], m, path, k)
          /\ \A i \in 1 .. D : DeclaredIn(declared[i], m, path, k)
                                => SameEntity(envs[k][m], declared[i].sym)
      BY <1>12, <2>1 DEF Agree, TablesAgree
    <3>4. fs[k][m] = envs[k][m]
      BY <1>6, <2>1
    <3>5. ASSUME fs[k][m] # NoSymbol PROVE \E i \in 1 .. D + K : DeclaredIn(cs[i], m, q, k)
      <4>1. PICK i \in 1 .. D : DeclaredIn(declared[i], m, path, k)
        BY <3>3, <3>4, <3>5
      <4>2. i \in 1 .. D + K /\ cs[i] = declared[i]
        BY <1>11
      <4>3. DeclaredIn(cs[i], m, q, k)
        BY <3>1, <4>1, <4>2
      <4>4. QED
        BY <4>2, <4>3
    <3>6. ASSUME NEW i \in 1 .. D + K, DeclaredIn(cs[i], m, q, k)
          PROVE  SameEntity(fs[k][m], cs[i].sym)
      <4>1. CASE i \in 1 .. D
        <5>1. cs[i] = declared[i]
          BY <1>11, <4>1
        <5>2. DeclaredIn(declared[i], m, path, k)
          BY <3>1, <3>6, <5>1
        <5>3. QED
          BY <3>3, <3>4, <4>1, <5>1, <5>2
      <4>2. CASE i - D \in 1 .. K /\ i = D + (i - D)
        <5>1. cs[i] = hs[i - D]
          BY <1>11, <4>2
        <5>2. QED
          BY <3>2, <3>6, <4>2, <5>1
      <4>3. QED
        BY <1>11, <4>1, <4>2
    <3>7. QED
      BY <3>5, <3>6
  <2>2. CASE k = L + 1
    <3>1. ASSUME NEW i \in 1 .. D, DeclaredIn(declared[i], m, q, k) PROVE FALSE
      <4>1. declared[i] \in DeclRecord
        BY <1>1, <1>12
      <4>2. declared[i].path = q
        BY <1>1, <1>2, <2>2, <3>1, <4>1, OnPathSame DEF DeclaredIn, DeclRecord
      <4>3. QED
        BY <1>13, <4>2
    <3>2. \A i \in 1 .. K : DeclaredIn(hs[i], m, q, k) <=> ns[i] = m
      BY <1>1, <1>2, <1>4, <2>2, OnPathSelf DEF DeclaredIn
    <3>3. \A i \in 1 .. K : ns[i] = m => table[m] = hs[i].sym
      BY <1>4, <1>7
    <3>4. fs[k][m] = table[m]
      BY <1>6, <2>2
    <3>5. QED
      BY <1>8, <1>11, <3>1, <3>2, <3>3, <3>4 DEF SameEntity
  <2>3. QED
    BY <1>1, <2>1, <2>2
<1>17. DeclsDiffer(cs)
  <2>1. \A i \in 1 .. D + K : cs[i].sym.kind = "func" => cs[i].sym.decl = 0
    <3>1. \A i \in 1 .. D : declared[i].sym.kind = "func" => declared[i].sym.decl = 0
      BY <1>12 DEF Agree, DeclsDiffer
    <3>2. \A i \in 1 .. K : hs[i].sym.kind = "func" => hs[i].sym.decl = 0
      BY <1>4, <1>9
    <3>3. QED
      BY <1>11, <3>1, <3>2
  <2>2. ASSUME NEW i \in 1 .. D + K, NEW j \in 1 .. D + K, i # j,
               cs[i].name = cs[j].name, cs[i].path = cs[j].path
        PROVE  cs[i].sym.kind = "func" /\ cs[j].sym.kind = "func"
    <3>1. CASE i \in 1 .. D /\ j \in 1 .. D
      <4>1. \A k, l \in DOMAIN declared :
              k # l /\ declared[k].name = declared[l].name /\ declared[k].path = declared[l].path
              => declared[k].sym.kind = "func" /\ declared[l].sym.kind = "func"
        BY DEF Agree, DeclsDiffer
      <4>2. cs[i] = declared[i] /\ cs[j] = declared[j]
        BY <1>11, <3>1
      <4>3. QED
        BY <1>12, <2>2, <3>1, <4>1, <4>2
    <3>2. \A l \in 1 .. D + K : l \in 1 .. D => cs[l].path # q
      BY <1>11, <1>13
    <3>3. \A l \in 1 .. D + K : l \notin 1 .. D => cs[l].path = q /\ cs[l].name = ns[l - D]
      BY <1>4, <1>11
    <3>4. CASE i \notin 1 .. D /\ j \notin 1 .. D
      <4>1. i - D \in 1 .. K /\ j - D \in 1 .. K /\ ns[i - D] = ns[j - D]
        BY <1>11, <2>2, <3>3, <3>4
      <4>2. i - D = j - D
        BY <1>3, <4>1 DEF IsInjective, ns
      <4>3. QED
        BY <1>1, <2>2, <4>2 DEF D
    <3>5. QED
      BY <2>2, <3>1, <3>2, <3>3, <3>4
  <2>3. QED
    BY <1>11, <2>1, <2>2 DEF DeclsDiffer
<1>18. TablesAgree(fs, q, cs)
  BY <1>6, <1>11, <1>16 DEF TablesAgree
<1>19. Agree(fs, q, cs, x)
  BY <1>1, <1>2, <1>6, <1>10, <1>15, <1>17, <1>18 DEF Agree
<1>20. QED
  BY <1>19 DEF fs, cs, q, hs, table

\* What SemaFuncDecl enters if it reports nothing.
LEMMA AgreeFunction ==
  ASSUME NEW es, NEW p, NEW ds, NEW N, Agree(es, p, ds, N), NEW n \in Names, NEW b \in BOOLEAN,
         ~FuncRedefined(FindObjSymbolInCurEnv(es, n), b)
  PROVE  Agree(AddFunction(es, n, b), p, Append(ds, Decl(n, FuncSymbol(b), p)), N)
<1> DEFINE s == FindObjSymbolInCurEnv(es, n)
           fs == AddObjSymbol(es, n, FuncSymbol(b))
<1>1. s = NoSymbol \/ s.kind = "func"
  BY DEF FuncRedefined
<1>2. FuncSymbol(b) \in Symbol /\ FuncSymbol(b).kind = "func" /\ FuncSymbol(b).decl = 0
  BY FuncSymbolType DEF FuncSymbol
<1>3. Agree(fs, p, Append(ds, Decl(n, FuncSymbol(b), p)), N)
  BY <1>1, <1>2, AgreeAdd
<1>4. es \in Seq(Table) /\ Len(es) >= 1
  BY DEF Agree
<1>5. s # NoSymbol => fs = es
  <2> SUFFICES ASSUME s # NoSymbol PROVE fs = es
    OBVIOUS
  <2>1. Len(es) \in 1 .. Len(es) /\ s = es[Len(es)][n]
    BY <1>4 DEF FindObjSymbolInCurEnv, Last
  <2>2. Insert(es[Len(es)], n, FuncSymbol(b)) = es[Len(es)]
    BY <2>1 DEF Insert
  <2>3. fs = [es EXCEPT ![Len(es)] = es[Len(es)]]
    BY <2>2 DEF AddObjSymbol
  <2> HIDE DEF fs
  <2>4. QED
    BY <1>4, <2>1, <2>3
<1>6. AddFunction(es, n, b) = fs
  BY <1>5 DEF AddFunction
<1>7. QED
  BY <1>3, <1>6

-----------------------------------------------------------------------------
(* One lemma for each action of the parser. *)

\* SemaInv, and that tables and history agree in every state.
LookupInv == SemaInv /\ ScopesAgree

\* Nothing is declared, opened or closed.
LEMMA ScopesStay ==
  ASSUME ScopesAgree, UNCHANGED <<envs, declared, path>>,
         Len(ast') \in Nat, Len(ast) <= Len(ast')
  PROVE  ScopesAgree'
BY AgreeMore DEF ScopesAgree

\* The compilation ends with an error.
LEMMA ReportAgrees ==
  ASSUME LookupInv, UNCHANGED <<envs, frames, ast, declared, path>>
  PROVE  ScopesAgree'
BY DEF LookupInv, ScopesAgree

\* A global is declared once.
LEMMA GlobalDeclAgrees ==
  ASSUME LookupInv, NEW n \in Names, NEW init \in OptName, NEW first \in BOOLEAN,
         GlobalDecl(n, init, first)
  PROVE  ScopesAgree'
<1> DEFINE s == NewDecl("var")
           es == AddObjSymbol(envs, n, s)
           g == Mk("gvar", n, s, Here)
           a == Use(init, Found(es, init))
           t == InitNodes(init, Found(es, init)) \o <<g>>
<1>1. CASE UNCHANGED <<envs, frames, ast, declared, path>>
  BY <1>1, ReportAgrees
<1>2. CASE /\ ~Redefined(n) /\ envs' = es /\ ast' = ast \o t
           /\ declared' = Append(declared, Decl(n, s, path)) /\ UNCHANGED path
  <2>1. s \in Symbol /\ s.kind = "var"
    BY NewDeclType DEF LookupInv, SemaInv, SemaTypeOK, DeclRecord, NewDecl
  <2>2. Agree(es, path, Append(declared, Decl(n, s, path)), Len(ast))
    BY <1>2, <2>1, AgreeAdd DEF Redefined, LookupInv, ScopesAgree
  <2>3. t \in Seq({a, g})
    <3> HIDE DEF a, g
    <3>1. <<>> \in Seq({a, g}) /\ <<a>> \in Seq({a, g}) /\ <<g>> \in Seq({a, g})
      OBVIOUS
    <3>2. InitNodes(init, Found(es, init)) \in {<<>>, <<a>>}
      BY DEF InitNodes, a
    <3> HIDE DEF es
    <3>3. QED
      BY <3>1, <3>2, ConcatType
  <2> HIDE DEF t, es, s
  <2>4. ast \in Seq(Node)
    BY DEF LookupInv, SemaInv, SemaTypeOK
  <2>5. Len(ast') \in Nat /\ Len(ast) <= Len(ast')
    BY <1>2, <2>3, <2>4, ConcatLength
  <2>6. QED
    BY <1>2, <2>2, <2>5, AgreeMore DEF ScopesAgree
<1>3. QED
  BY <1>1, <1>2 DEF GlobalDecl, Report

\* A typedef is declared once.
LEMMA TypedefDeclAgrees ==
  ASSUME LookupInv, NEW n \in Names, TypedefDecl(n)
  PROVE  ScopesAgree'
<1> DEFINE s == NewDecl("typedef")
<1>1. CASE UNCHANGED <<envs, frames, ast, declared, path>>
  BY <1>1, ReportAgrees
<1>2. CASE /\ ~Redefined(n) /\ envs' = AddObjSymbol(envs, n, s)
           /\ declared' = Append(declared, Decl(n, s, path))
           /\ UNCHANGED <<ast, path>>
  <2>1. s \in Symbol /\ s.kind = "typedef"
    BY NewDeclType DEF LookupInv, SemaInv, SemaTypeOK, DeclRecord, NewDecl
  <2>2. QED
    BY <1>2, <2>1, AgreeAdd DEF Redefined, LookupInv, ScopesAgree
<1>3. QED
  BY <1>1, <1>2 DEF TypedefDecl, Report

\* A prototype's scope is left before the function is declared.
LEMMA FuncPrototypeAgrees ==
  ASSUME LookupInv, NEW n \in Names, NEW params \in Seq(Names), FuncPrototype(n, params)
  PROVE  ScopesAgree'
<1> DEFINE x == Len(ast) + 1
           table == HeaderTable(n, params)
           p == Append(path, x)
           ds == declared \o HeaderDecls(n, params, p)
           d == Decl(n, FuncSymbol(FALSE), path)
<1>1. CASE UNCHANGED <<envs, frames, ast, declared, path>>
  BY <1>1, ReportAgrees
<1>2. CASE /\ IsInjective(HeaderNames(n, params))
           /\ ~FuncRedefined(FindObjSymbolInCurEnv(envs, n), FALSE)
           /\ envs' = AddFunction(envs, n, FALSE)
           /\ ast' = Append(ast, FuncNode(n, params, FALSE))
           /\ declared' = ds \o <<d>>
           /\ UNCHANGED path
  <2>1. /\ envs \in Seq(Table) /\ path \in Seq(Nat) /\ ast \in Seq(Node)
        /\ declared \in Seq(DeclRecord) /\ Len(ast) \in Nat /\ x \in Nat /\ Len(ast) < x
        /\ Agree(envs, path, declared, Len(ast)) /\ Len(path) >= 1
    BY DEF LookupInv, SemaInv, SemaTypeOK, DeclRecord, ScopesAgree, Agree
  <2>2. table \in Table
    BY <2>1, HeaderTableType
  <2>3. Agree(Append(envs, table), p, ds, x)
    BY <1>2, <2>1, AgreeHeader
  <2>4. Len(ast') = x
    BY <1>2, <2>1
  <2> HIDE DEF table, x
  <2>5. Front(Append(envs, table)) = envs /\ Front(p) = path /\ Len(p) >= 2
    BY <2>1, <2>2, FrontOfAppend
  <2> HIDE DEF p, ds
  <2>6. Agree(envs, path, ds, x)
    BY <2>3, <2>5, AgreePop DEF ExitScope
  <2>7. Agree(envs', path, Append(ds, d), x)
    BY <1>2, <2>6, AgreeFunction
  <2>8. declared' = Append(ds, d)
    <3>1. ds \in Seq(DeclRecord)
      BY <2>6 DEF Agree
    <3>2. d \in DeclRecord
      BY <2>1, FuncSymbolType, DeclType
    <3>3. Append(ds, d) = ds \o <<d>>
      BY <3>1, <3>2, AppendIsConcat, Zenon
    <3>4. QED
      BY <1>2, <3>3
  <2>9. QED
    BY <1>2, <2>4, <2>7, <2>8 DEF ScopesAgree
<1>3. QED
  BY <1>1, <1>2 DEF FuncPrototype, Report

\* The scope of a definition's header encloses that of its body.
LEMMA FuncDefinitionAgrees ==
  ASSUME LookupInv, NEW n \in Names, NEW params \in Seq(Names), FuncDefinition(n, params)
  PROVE  ScopesAgree'
<1> DEFINE x == Len(ast) + 1
           y == Len(ast) + 2
           table == HeaderTable(n, params)
           p == Append(path, x)
           ds == declared \o HeaderDecls(n, params, p)
           f == FuncNode(n, params, TRUE)
           b == Mk("block", NoName, NoSymbol, 1)
<1>1. CASE UNCHANGED <<envs, frames, ast, declared, path>>
  BY <1>1, ReportAgrees
<1>2. CASE /\ IsInjective(HeaderNames(n, params))
           /\ envs' = EnterScope(Append(envs, table))
           /\ ast' = ast \o <<f, b>>
           /\ path' = path \o <<x, y>>
           /\ declared' = ds
  <2>1. /\ path \in Seq(Nat) /\ ast \in Seq(Node) /\ Len(ast) \in Nat
        /\ x \in Nat /\ y \in Nat /\ Len(ast) < x /\ x < y
        /\ Agree(envs, path, declared, Len(ast))
    BY DEF LookupInv, SemaInv, SemaTypeOK, ScopesAgree
  <2>2. Agree(Append(envs, table), p, ds, x)
    BY <1>2, <2>1, AgreeHeader
  <2>3. Agree(EnterScope(Append(envs, table)), Append(p, y), ds, y)
    BY <2>1, <2>2, AgreePush
  <2>4. path' = Append(p, y)
    BY <1>2, <2>1
  <2>5. Len(ast') = y
    <3>1. <<f, b>> \in Seq({f, b}) /\ Len(<<f, b>>) = 2
      OBVIOUS
    <3>2. QED
      BY <1>2, <2>1, <3>1, ConcatLength
  <2> HIDE DEF table, p, ds
  <2>6. QED
    BY <1>2, <2>3, <2>4, <2>5 DEF ScopesAgree
<1>3. QED
  BY <1>1, <1>2 DEF FuncDefinition, Report

\* The end of a function leaves both of its scopes and declares the function.
LEMMA FuncEndAgrees ==
  ASSUME LookupInv, FuncEnd
  PROVE  ScopesAgree'
<1> DEFINE n == frames[1].name
           es == ExitScope(ExitScope(envs))
           p == Front(Front(path))
           t == <<Mk("endblock", NoName, NoSymbol, 1), Mk("endfunc", NoName, NoSymbol, 0)>>
<1>1. CASE UNCHANGED <<envs, frames, ast, declared, path>>
  BY <1>1, ReportAgrees
<1>2. CASE /\ ~FuncRedefined(FindObjSymbolInCurEnv(es, n), TRUE)
           /\ envs' = AddFunction(es, n, TRUE)
           /\ path' = p
           /\ ast' = ast \o t
           /\ declared' = Append(declared, Decl(n, FuncSymbol(TRUE), p))
  <2>1. /\ frames # <<>> /\ WellNested(frames, Len(envs)) /\ Len(path) = Len(envs)
        /\ path \in Seq(Nat) /\ Len(path) \in Nat /\ ast \in Seq(Node)
    BY DEF FuncEnd, InFrame, LookupInv, SemaInv, SemaTypeOK, FrameInv
  <2>2. n \in Names /\ Len(path) > 2
    BY <2>1 DEF WellNested
  <2>3. Agree(ExitScope(envs), Front(path), declared, Len(ast))
    BY <2>2, AgreePop DEF LookupInv, ScopesAgree
  <2>4. Len(Front(path)) >= 2
    BY <2>1, <2>2, LeaveScope
  <2>5. Agree(es, p, declared, Len(ast))
    BY <2>3, <2>4, AgreePop
  <2>6. t \in Seq({t[1], t[2]})
    OBVIOUS
  <2> HIDE DEF es, p, n, t
  <2>7. Agree(envs', path', declared', Len(ast))
    BY <1>2, <2>2, <2>5, AgreeFunction
  <2>8. Len(ast') \in Nat /\ Len(ast) <= Len(ast')
    BY <1>2, <2>1, <2>6, ConcatLength
  <2>9. QED
    BY <2>7, <2>8, AgreeMore DEF ScopesAgree
<1>3. QED
  BY <1>1, <1>2 DEF FuncEnd, Report

\* A local variable is declared once.
LEMMA VarDeclAgrees ==
  ASSUME LookupInv, NEW n \in Names, VarDecl(n)
  PROVE  ScopesAgree'
<1> DEFINE s == NewDecl("var")
           v == Mk("var", n, s, Here)
<1>1. CASE UNCHANGED <<envs, frames, ast, declared, path>>
  BY <1>1, ReportAgrees
<1>2. CASE /\ ~Redefined(n) /\ envs' = AddObjSymbol(envs, n, s) /\ ast' = Append(ast, v)
           /\ declared' = Append(declared, Decl(n, s, path)) /\ UNCHANGED path
  <2>1. s \in Symbol /\ s.kind = "var" /\ ast \in Seq(Node)
    BY NewDeclType DEF LookupInv, SemaInv, SemaTypeOK, DeclRecord, NewDecl
  <2>2. Agree(envs', path', declared', Len(ast))
    BY <1>2, <2>1, AgreeAdd DEF Redefined, LookupInv, ScopesAgree
  <2> HIDE DEF v
  <2>3. Len(ast') \in Nat /\ Len(ast) <= Len(ast')
    BY <1>2, <2>1
  <2>4. QED
    BY <2>2, <2>3, AgreeMore DEF ScopesAgree
<1>3. QED
  BY <1>1, <1>2 DEF VarDecl, Report

\* A pointer to a function and the parameter declared with it differ.
LEMMA FuncPointerDeclAgrees ==
  ASSUME LookupInv, NEW n \in Names, NEW p \in Names, FuncPointerDecl(n, p)
  PROVE  ScopesAgree'
<1> DEFINE s == NewDecl("var")
           es == AddObjSymbol(envs, n, s)
           t == [s EXCEPT !.decl = @ + 1]
           v == Mk("var", n, s, Here)
           d1 == Decl(n, s, path)
           d2 == Decl(p, t, path)
           ds == Append(declared, d1)
<1>1. CASE UNCHANGED <<envs, frames, ast, declared, path>>
  BY <1>1, ReportAgrees
<1>2. CASE /\ ~Redefined(n) /\ FindObjSymbolInCurEnv(es, p) = NoSymbol
           /\ envs' = AddObjSymbol(es, p, t) /\ ast' = Append(ast, v)
           /\ declared' = declared \o <<d1, d2>> /\ UNCHANGED path
  <2>1. s \in Symbol /\ s.kind = "var" /\ ast \in Seq(Node)
        /\ path \in Seq(Nat) /\ declared \in Seq(DeclRecord)
    BY NewDeclType DEF LookupInv, SemaInv, SemaTypeOK, DeclRecord, NewDecl
  <2>2. t \in Symbol /\ t.kind = "var"
    <3> HIDE DEF s
    <3>1. s.decl + 1 \in Nat /\ s.body \in BOOLEAN /\ s = [kind |-> "var", decl |-> s.decl, body |-> s.body]
      BY <2>1 DEF Symbol
    <3>2. t = [kind |-> "var", decl |-> s.decl + 1, body |-> s.body]
      BY <3>1
    <3>3. QED
      BY <3>1, <3>2 DEF Symbol
  <2>3. Agree(es, path, ds, Len(ast))
    BY <1>2, <2>1, AgreeAdd DEF Redefined, LookupInv, ScopesAgree
  <2>4. d1 \in DeclRecord /\ d2 \in DeclRecord
    BY <2>1, <2>2, DeclType
  <2> HIDE DEF es, s, t, v
  <2>5. Agree(envs', path', Append(ds, d2), Len(ast))
    BY <1>2, <2>2, <2>3, AgreeAdd
  <2> HIDE DEF d1, d2
  <2>6. declared' = Append(ds, d2)
    BY <1>2, <2>1, <2>4
  <2>7. Len(ast') \in Nat /\ Len(ast) <= Len(ast')
    BY <1>2, <2>1
  <2> HIDE DEF ds
  <2>8. QED
    BY <2>5, <2>6, <2>7, AgreeMore DEF ScopesAgree
<1>3. QED
  BY <1>1, <1>2 DEF FuncPointerDecl, Report

\* Accesses, jumps, labels and the end of the input leave the scopes alone.
LEMMA PlainStepsAgree ==
  ASSUME LookupInv, \/ \E n \in Names : Access(n)
                    \/ Jump \/ CaseLabel \/ EndOfInput
  PROVE  ScopesAgree'
<1>1. CASE UNCHANGED <<envs, frames, ast, declared, path>>
  BY <1>1, ReportAgrees
<1>2. ScopesAgree /\ ast \in Seq(Node) /\ Len(ast) \in Nat /\ SemaInv
  BY DEF LookupInv, SemaInv, SemaTypeOK
<1>3. CASE /\ UNCHANGED <<envs, declared, path>>
           /\ \E g : ast' = Append(ast, g)
  BY <1>2, <1>3, ScopesStay
<1>4. CASE /\ UNCHANGED <<envs, declared, path>> /\ InFrame({"block", "case"})
           /\ \E g : ast' = ast \o (EndCaseNode \o <<g>>)
  <2>1. PICK g : ast' = ast \o (EndCaseNode \o <<g>>)
    BY <1>4
  <2>2. EndCaseNode \in Seq(Node)
    BY <1>2, <1>4, EndCaseLeavesBlock
  <2>3. EndCaseNode \in Seq(Node \cup {g}) /\ <<g>> \in Seq(Node \cup {g})
    BY <2>2
  <2>4. EndCaseNode \o <<g>> \in Seq(Node \cup {g})
    BY <2>3, ConcatType
  <2> DEFINE t == EndCaseNode \o <<g>>
  <2> HIDE DEF t
  <2>5. Len(ast') = Len(ast) + Len(t) /\ Len(t) \in Nat
    BY <1>2, <2>1, <2>4, ConcatLength DEF t
  <2>6. QED
    BY <1>2, <1>4, <2>5, ScopesStay
<1>5. QED
  BY <1>1, <1>3, <1>4 DEF Access, Jump, CaseLabel, EndOfInput, Report

\* A block opens a scope.
LEMMA OpenBlockAgrees ==
  ASSUME LookupInv, NEW switch \in BOOLEAN, OpenBlock(switch)
  PROVE  ScopesAgree'
<1> DEFINE g == Mk("block", NoName, NoSymbol, Here)
           x == Len(ast) + 1
<1>1. /\ envs' = EnterScope(envs) /\ ast' = Append(ast, g)
      /\ path' = Append(path, x) /\ declared' = declared
  BY DEF OpenBlock
<1>2. ScopesAgree /\ ast \in Seq(Node) /\ Len(ast) \in Nat
  BY DEF LookupInv, SemaInv, SemaTypeOK
<1> HIDE DEF g
<1>3. Len(ast') = x /\ x \in Nat /\ Len(ast) < x
  BY <1>1, <1>2
<1> HIDE DEF x
<1>4. Agree(EnterScope(envs), Append(path, x), declared, x)
  BY <1>2, <1>3, AgreePush DEF ScopesAgree
<1>5. QED
  BY <1>1, <1>3, <1>4 DEF ScopesAgree

\* The end of a block leaves its scope.
LEMMA CloseBlockAgrees ==
  ASSUME LookupInv, CloseBlock
  PROVE  ScopesAgree'
<1> DEFINE fs == EndCase(frames)
           g == Mk("endblock", NoName, NoSymbol, Len(fs) - 1)
           t == EndCaseNode \o <<g>>
<1>1. /\ InFrame({"block", "case"}) /\ Len(fs) > 2
      /\ envs' = ExitScope(envs) /\ ast' = ast \o t
      /\ path' = Front(path) /\ declared' = declared
  BY DEF CloseBlock
<1>2. /\ WellNested(fs, Len(envs)) /\ fs \in Seq(Frame)
      /\ EndCaseNode \in Seq(Node \cup {g})
  BY <1>1, EndCaseLeavesBlock DEF LookupInv
<1>3. ScopesAgree /\ ast \in Seq(Node) /\ Len(ast) \in Nat
  BY DEF LookupInv, SemaInv, SemaTypeOK
<1> HIDE DEF fs
<1>4. Len(path) >= 2
  <2>1. Len(envs) > 2
    BY <1>1, <1>2 DEF WellNested
  <2>2. QED
    BY <1>3, <2>1 DEF ScopesAgree, Agree
<1>5. Agree(ExitScope(envs), Front(path), declared, Len(ast))
  BY <1>3, <1>4, AgreePop DEF ScopesAgree
<1> HIDE DEF g
<1>6. t \in Seq(Node \cup {g})
  <2>1. <<g>> \in Seq(Node \cup {g})
    OBVIOUS
  <2>2. QED
    BY <1>2, <2>1, ConcatType
<1> HIDE DEF t
<1>7. Len(ast') \in Nat /\ Len(ast) <= Len(ast')
  BY <1>1, <1>3, <1>6, ConcatLength
<1>8. QED
  BY <1>1, <1>5, <1>7, AgreeMore DEF ScopesAgree

\* The end of a for leaves its scope.
LEMMA CloseForAgrees ==
  ASSUME LookupInv, CloseFor
  PROVE  ScopesAgree'
<1> DEFINE inc == Last(frames).inc
           g == Mk("endfor", NoName, NoSymbol, Here - 1)
           t == IncNodes(inc) \o <<g>>
<1>1. /\ InFrame({"for"})
      /\ envs' = ExitScope(envs) /\ ast' = ast \o t
      /\ path' = Front(path) /\ declared' = declared
  BY DEF CloseFor
<1>2. /\ frames # <<>> /\ frames \in Seq(Frame) /\ Last(frames).kind = "for"
      /\ Last(frames) = frames[Len(frames)] /\ frames[Len(frames)] \in Frame
      /\ WellNested(frames, Len(envs)) /\ ScopesAgree /\ SemaInv
      /\ ast \in Seq(Node) /\ Len(ast) \in Nat
  <2>1. frames # <<>> /\ frames \in Seq(Frame) /\ Last(frames).kind = "for"
    BY <1>1 DEF InFrame, LookupInv, SemaInv, SemaTypeOK
  <2>2. QED
    BY <2>1, LastType DEF LookupInv, SemaInv, SemaTypeOK, FrameInv
<1>3. IncNodes(inc) \in Seq(Node \cup {g})
  <2>1. inc \in Seq([name : Names, sym : Symbol])
    BY <1>2 DEF Frame
  <2> HIDE DEF inc, g
  <2>2. IncNodes(inc) \in Seq(Node)
    BY <1>2, <2>1, IncNodesType
  <2> DEFINE u == IncNodes(inc)
  <2> HIDE DEF u
  <2>3. u \in Seq(Node \cup {g})
    BY <2>2 DEF u
  <2>4. QED
    BY <2>3 DEF u
<1>4. Len(path) >= 2
  <2>1. Len(envs) > 2
    BY <1>2 DEF WellNested
  <2>2. QED
    BY <1>2, <2>1 DEF ScopesAgree, Agree
<1>5. Agree(ExitScope(envs), Front(path), declared, Len(ast))
  BY <1>2, <1>4, AgreePop DEF ScopesAgree
<1> HIDE DEF g, inc
<1>6. t \in Seq(Node \cup {g})
  <2>1. <<g>> \in Seq(Node \cup {g})
    OBVIOUS
  <2>2. QED
    BY <1>3, <2>1, ConcatType
<1> HIDE DEF t
<1>7. Len(ast') \in Nat /\ Len(ast) <= Len(ast')
  BY <1>1, <1>2, <1>6, ConcatLength
<1>8. QED
  BY <1>1, <1>5, <1>7, AgreeMore DEF ScopesAgree

\* A for opens a scope and declares its variable there.
LEMMA OpenForAgrees ==
  ASSUME LookupInv, NEW init \in OptName, NEW inc \in OptName, OpenFor(init, inc)
  PROVE  ScopesAgree'
<1> DEFINE s == NewDecl("var")
           x == Len(ast) + 1
           scope == EnterScope(envs)
           es == IF init = NoName THEN scope ELSE AddObjSymbol(scope, init, s)
           p == Append(path, x)
           ds == IF init = NoName THEN declared ELSE Append(declared, Decl(init, s, p))
           g == Mk("for", init, NoSymbol, Here)
           v == Mk("var", init, s, Here + 1)
           t == IF init = NoName THEN <<g>> ELSE <<g, v>>
<1>1. CASE UNCHANGED <<envs, frames, ast, declared, path>>
  BY <1>1, ReportAgrees
<1>2. CASE envs' = es /\ ast' = ast \o t /\ path' = p /\ declared' = ds
  <2>1. /\ ScopesAgree /\ ast \in Seq(Node) /\ Len(ast) \in Nat /\ envs \in Seq(Table)
        /\ x \in Nat /\ Len(ast) < x
    BY DEF LookupInv, SemaInv, SemaTypeOK
  <2>2. s \in Symbol /\ s.kind = "var"
    BY NewDeclType DEF LookupInv, SemaInv, SemaTypeOK, DeclRecord, NewDecl
  <2>3. t \in Seq({g, v}) /\ Len(t) >= 1
    <3> HIDE DEF g, v
    <3>1. CASE init = NoName
      BY <3>1
    <3>2. CASE init # NoName
      BY <3>2, TwoElements
    <3>3. QED
      BY <3>1, <3>2
  <2> HIDE DEF t
  <2>4. Len(ast') \in Nat /\ x <= Len(ast')
    BY <1>2, <2>1, <2>3, ConcatLength
  <2>5. \A m \in Names : FindObjSymbolInCurEnv(scope, m) = NoSymbol
    BY <2>1 DEF EnterScope, FindObjSymbolInCurEnv, EmptyTable, Last
  <2> HIDE DEF x
  <2>6. Agree(scope, p, declared, x)
    BY <2>1, AgreePush DEF ScopesAgree
  <2> HIDE DEF scope, p, s
  <2>7. Agree(es, p, ds, x)
    <3>1. CASE init = NoName
      BY <2>6, <3>1
    <3>2. CASE init # NoName
      <4>1. init \in Names
        BY <3>2 DEF OptName
      <4>2. QED
        BY <2>2, <2>5, <2>6, <3>2, <4>1, AgreeAdd
    <3>3. QED
      BY <3>1, <3>2
  <2> HIDE DEF es, ds
  <2>8. QED
    BY <1>2, <2>4, <2>7, AgreeMore DEF ScopesAgree
<1>3. QED
  BY <1>1, <1>2 DEF OpenFor, Report

\* Every step of the parser keeps the scopes and the declarations in agreement.
LEMMA SemaNextAgrees == LookupInv /\ SemaNext => ScopesAgree'
<1> SUFFICES ASSUME LookupInv, SemaNext PROVE ScopesAgree'
  OBVIOUS
<1>1. ASSUME NEW n \in Names, NEW init \in OptName, NEW first \in BOOLEAN,
             GlobalDecl(n, init, first)
      PROVE  ScopesAgree'
  BY <1>1, GlobalDeclAgrees
<1>2. ASSUME NEW n \in Names, TypedefDecl(n) \/ VarDecl(n) \/ Access(n)
      PROVE  ScopesAgree'
  BY <1>2, TypedefDeclAgrees, VarDeclAgrees, PlainStepsAgree
<1>3. ASSUME NEW n \in Names, NEW p \in Names, FuncPointerDecl(n, p)
      PROVE  ScopesAgree'
  BY <1>3, FuncPointerDeclAgrees
<1>4. ASSUME NEW n \in Names, NEW params \in ParamLists,
             FuncPrototype(n, params) \/ FuncDefinition(n, params)
      PROVE  ScopesAgree'
  BY <1>4, ParamListsType, FuncPrototypeAgrees, FuncDefinitionAgrees
<1>5. ASSUME NEW init \in OptName, NEW inc \in OptName, OpenFor(init, inc)
      PROVE  ScopesAgree'
  BY <1>5, OpenForAgrees
<1>6. ASSUME NEW switch \in BOOLEAN, OpenBlock(switch)
      PROVE  ScopesAgree'
  BY <1>6, OpenBlockAgrees
<1>7. CASE Jump \/ CaseLabel \/ CloseBlock \/ CloseFor \/ FuncEnd \/ EndOfInput
  BY <1>7, PlainStepsAgree, CloseBlockAgrees, CloseForAgrees, FuncEndAgrees
<1>8. QED
  BY <1>1, <1>2, <1>3, <1>4, <1>5, <1>6, <1>7 DEF SemaNext

-----------------------------------------------------------------------------
(* The invariant, and what it says of lookups and redeclarations. *)

\* Before main parses anything, the file scope is open and empty.
LEMMA InitAgrees == SemaInit => ScopesAgree
<1> SUFFICES ASSUME SemaInit PROVE ScopesAgree
  OBVIOUS
<1>1. /\ envs = <<EmptyTable>> /\ path = <<0>> /\ declared = <<>> /\ Len(ast) = 0
  BY DEF SemaInit
<1>2. /\ envs \in Seq(Table) /\ path \in Seq(Nat) /\ declared \in Seq(DeclRecord)
      /\ Len(envs) = 1 /\ Len(path) = 1 /\ DOMAIN declared = {}
      /\ envs[1] = EmptyTable /\ path[1] = 0
  <2>1. envs \in Seq(Table) /\ Len(envs) = 1 /\ envs[1] = EmptyTable
    BY <1>1, EmptyTableType
  <2>2. QED
    BY <1>1, <2>1
<1>3. Numbered(path, declared, 0)
  BY <1>2 DEF Numbered
<1>4. TablesAgree(envs, path, declared)
  BY <1>2 DEF TablesAgree, EmptyTable
<1>5. DeclsDiffer(declared)
  BY <1>2 DEF DeclsDiffer
<1>6. QED
  BY <1>1, <1>2, <1>3, <1>4, <1>5 DEF ScopesAgree, Agree

\* Every step of a compilation keeps the agreement; CodeGen touches none of it.
LEMMA NextAgrees == IInv /\ ScopesAgree /\ [Next]_vars => ScopesAgree'
<1> SUFFICES ASSUME IInv, ScopesAgree, [Next]_vars PROVE ScopesAgree'
  OBVIOUS
<1>1. LookupInv
  BY IInvParts DEF LookupInv
<1>2. CASE SemaNext
  BY <1>1, <1>2, SemaNextAgrees
<1>3. CASE UNCHANGED semaVars
  BY <1>3 DEF semaVars, ScopesAgree
<1>4. QED
  BY <1>2, <1>3 DEF Next, Parse, Generate, Visit, Terminated, vars

\* At every moment of every compilation, each open environment of Scope::envs
\* holds exactly the names declared in its scope (parser.cc and sema.cc).
THEOREM TablesFollowDeclarations == Spec => []ScopesAgree
<1>1. Init => ScopesAgree
  BY InitAgrees DEF Init
<1>2. IInv /\ ScopesAgree /\ [Next]_vars => ScopesAgree'
  BY NextAgrees
<1>3. QED
  BY <1>1, <1>2, InvariantHolds, PTL DEF Spec

\* SemaVariableDeclNode, SemaTypedefDecl and SemaFuncDecl let through no second
\* declaration of a name in a scope, functions excepted.
THEOREM RedeclarationsReported == Spec => []NoRedeclaration
<1>1. ScopesAgree => NoRedeclaration
  BY DEF ScopesAgree, Agree, DeclsDiffer, NoRedeclaration
<1>2. QED
  BY <1>1, TablesFollowDeclarations, PTL

\* IsPrefix compares as OnPath does.
LEMMA PrefixIsOnPath ==
  ASSUME NEW p \in Seq(Nat), NEW q \in Seq(Nat)
  PROVE  IsPrefix(q, p) <=> OnPath(q, p)
<1> DEFINE r == SubSeq(p, 1, Len(q))
<1>1. CASE Len(q) <= Len(p)
  <2>1. /\ r \in Seq(Nat) /\ Len(r) = Len(q)
        /\ \A i \in 1 .. Len(q) : r[i] = p[i]
    BY <1>1
  <2> HIDE DEF r
  <2>2. OnPath(q, p) => q = r
    <3> SUFFICES ASSUME OnPath(q, p) PROVE q = r
      OBVIOUS
    <3>1. \A i \in 1 .. Len(q) : q[i] = r[i]
      BY <2>1 DEF OnPath
    <3>2. QED
      BY <2>1, <3>1, SeqEqual, Zenon
  <2>3. q = r => OnPath(q, p)
    BY <1>1, <2>1 DEF OnPath
  <2>4. QED
    BY <1>1, <2>2, <2>3 DEF IsPrefix, r
<1>2. CASE ~(Len(q) <= Len(p))
  BY <1>2 DEF IsPrefix, OnPath
<1>3. QED
  BY <1>1, <1>2

\* FindObjSymbol's walk from the innermost environment outwards (scope.cc) is
\* C's rule of scopes: it ends at the innermost enclosing declaration.
LEMMA LookupInside ==
  ASSUME SemaInv, ScopesAgree, NEW n \in Names
  PROVE  SameEntity(FindObjSymbol(envs, n), Visible(n))
<1> DEFINE E == Enclosing(n)
           S == {Len(declared[i].path) : i \in E}
           hits == EnvsWith(envs, n)
           depth == Max(S)
           c == CHOOSE i \in E : Len(declared[i].path) = depth
<1>1. /\ envs \in Seq(Table) /\ path \in Seq(Nat) /\ declared \in Seq(DeclRecord)
      /\ Len(envs) = Len(path) /\ Len(envs) \in Nat /\ TablesAgree(envs, path, declared)
  BY DEF ScopesAgree, Agree
<1>2. ASSUME NEW i \in DOMAIN declared
      PROVE  /\ declared[i].path \in Seq(Nat) /\ Len(declared[i].path) \in Nat
             /\ declared[i].sym \in Symbol
             /\ i \in E <=> declared[i].name = n /\ OnPath(declared[i].path, path)
  <2>1. declared[i] \in DeclRecord
    BY <1>1
  <2>2. declared[i].path \in Seq(Nat) /\ declared[i].sym \in Symbol
    BY <2>1 DEF DeclRecord
  <2>3. IsPrefix(declared[i].path, path) <=> OnPath(declared[i].path, path)
    BY <1>1, <2>2, PrefixIsOnPath
  <2>4. QED
    BY <2>2, <2>3 DEF Enclosing
<1>3. \A i \in E : i \in DOMAIN declared
  BY DEF Enclosing
<1>4. \A i \in DOMAIN declared : Len(declared[i].path) >= 1
  BY DEF ScopesAgree, Agree, Numbered
<1> HIDE DEF E
<1>5. \A i \in E : /\ Len(declared[i].path) \in 1 .. Len(envs)
                   /\ DeclaredIn(declared[i], n, path, Len(declared[i].path))
  BY <1>1, <1>2, <1>3, <1>4 DEF OnPath, DeclaredIn
<1>6. S = hits
  <2>1. ASSUME NEW i \in E PROVE Len(declared[i].path) \in hits
    <3> DEFINE k == Len(declared[i].path)
    <3>1. i \in DOMAIN declared /\ k \in 1 .. Len(envs) /\ DeclaredIn(declared[i], n, path, k)
      BY <1>3, <1>5
    <3>2. SameEntity(envs[k][n], declared[i].sym)
      BY <1>1, <3>1 DEF TablesAgree
    <3>3. envs[k][n] # NoSymbol
      BY <1>2, <3>1, <3>2 DEF SameEntity, Symbol, NoSymbol
    <3>4. DOMAIN envs = 1 .. Len(envs)
      BY <1>1
    <3>5. QED
      BY <3>1, <3>3, <3>4 DEF EnvsWith
  <2>2. ASSUME NEW k \in hits PROVE \E i \in E : Len(declared[i].path) = k
    <3>1. k \in 1 .. Len(envs) /\ envs[k][n] # NoSymbol
      BY <1>1 DEF EnvsWith
    <3>2. PICK i \in DOMAIN declared : DeclaredIn(declared[i], n, path, k)
      BY <1>1, <3>1 DEF TablesAgree
    <3>3. QED
      BY <1>2, <3>2 DEF DeclaredIn
  <2> HIDE DEF hits
  <2>3. QED
    BY <2>1, <2>2
<1>7. FindObjSymbol(envs, n) = IF hits = {} THEN NoSymbol ELSE envs[Max(hits)][n]
  BY DEF FindObjSymbol
<1>8. Visible(n) = IF E = {} THEN NoSymbol ELSE declared[c].sym
  BY DEF Visible, E
<1> HIDE DEF hits
<1>9. CASE E = {}
  <2>1. hits = {}
    BY <1>6, <1>9
  <2>2. QED
    BY <1>7, <1>8, <1>9, <2>1 DEF SameEntity
<1>10. CASE E # {}
  <2>1. S \in SUBSET (1 .. Len(envs)) /\ S # {}
    BY <1>5, <1>10
  <2>2. depth \in S
    BY <1>1, <2>1, MaxOfIndices
  <2>3. \E i \in E : Len(declared[i].path) = depth
    BY <2>2
  <2> HIDE DEF depth
  <2>4. c \in E /\ Len(declared[c].path) = depth
    BY <2>3
  <2> HIDE DEF c, S
  <2>5. c \in DOMAIN declared /\ depth \in 1 .. Len(envs)
        /\ DeclaredIn(declared[c], n, path, depth)
    BY <1>3, <1>5, <2>4
  <2>6. SameEntity(envs[depth][n], declared[c].sym)
    BY <1>1, <2>5 DEF TablesAgree
  <2>7. hits # {} /\ Max(hits) = depth
    BY <1>6, <2>1 DEF depth
  <2>8. QED
    BY <1>7, <1>8, <1>10, <2>6, <2>7
<1>11. QED
  BY <1>9, <1>10

\* Whatever was declared, opened and closed before, Sema resolves each name to
\* the innermost declaration in an enclosing scope (scope.cc:12-20).
THEOREM LookupCorrect == Spec => []LookupIsLexical
<1>1. IInv /\ ScopesAgree => LookupIsLexical
  BY LookupInside, IInvParts DEF LookupIsLexical
<1>2. QED
  BY <1>1, InvariantHolds, TablesFollowDeclarations, PTL

-----------------------------------------------------------------------------
(* No function is defined twice. *)

\* A declaration of a function that has a body.
Bodied(d) == d.kind = "func" /\ d.sym.body

\* While a definition may still be reported as a second one, it is the one
\* being parsed, and the file scope knows the first.
OneBody ==
    \A i, j \in DOMAIN ast :
      i # j /\ Bodied(ast[i]) /\ Bodied(ast[j]) /\ ast[i].name = ast[j].name
        => frames # <<>> /\ ast[i].name = frames[1].name /\ envs[1][ast[i].name].body

\* The steps that begin no function and leave the file scope alone.
LEMMA BodiesStay ==
  ASSUME OneBody,
         \A i \in DOMAIN ast' : Bodied(ast'[i]) => i \in DOMAIN ast /\ ast'[i] = ast[i],
         frames # <<>> => /\ frames' # <<>> /\ frames'[1].name = frames[1].name
                          /\ envs'[1] = envs[1]
  PROVE  OneBody'
BY DEF OneBody

\* Nodes that are no functions define none.
LEMMA NoNewBodies ==
  ASSUME NEW S, NEW a \in Seq(S), NEW t \in Seq(S), \A i \in 1 .. Len(t) : t[i].kind # "func"
  PROVE  \A i \in DOMAIN (a \o t) :
           Bodied((a \o t)[i]) => i \in DOMAIN a /\ (a \o t)[i] = a[i]
<1> DEFINE b == a \o t
<1>1. /\ b \in Seq(S) /\ Len(b) = Len(a) + Len(t)
      /\ \A i \in 1 .. Len(a) + Len(t) : b[i] = IF i <= Len(a) THEN a[i] ELSE t[i - Len(a)]
  BY ConcatProperties, Zenon
<1>2. Len(a) \in Nat /\ Len(t) \in Nat /\ DOMAIN a = 1 .. Len(a)
  OBVIOUS
<1> HIDE DEF b
<1>3. ASSUME NEW i \in DOMAIN b, Bodied(b[i]) PROVE i \in DOMAIN a /\ b[i] = a[i]
  <2>1. i \in 1 .. Len(a) + Len(t)
    BY <1>1, <1>2
  <2>2. CASE i <= Len(a)
    BY <1>1, <1>2, <2>1, <2>2
  <2>3. CASE ~(i <= Len(a))
    <3>1. b[i] = t[i - Len(a)] /\ i - Len(a) \in 1 .. Len(t)
      BY <1>1, <1>2, <2>1, <2>3
    <3>2. QED
      BY <1>3, <3>1 DEF Bodied
  <2>4. QED
    BY <2>2, <2>3
<1>4. QED
  BY <1>3 DEF b

\* Neither part of a concatenation holds a function.
LEMMA NoFunctions ==
  ASSUME NEW S, NEW s \in Seq(S), NEW t \in Seq(S),
         \A i \in 1 .. Len(s) : s[i].kind # "func", \A i \in 1 .. Len(t) : t[i].kind # "func"
  PROVE  s \o t \in Seq(S) /\ \A i \in 1 .. Len(s \o t) : (s \o t)[i].kind # "func"
<1> DEFINE b == s \o t
<1>1. /\ b \in Seq(S) /\ Len(b) = Len(s) + Len(t)
      /\ \A i \in 1 .. Len(s) + Len(t) : b[i] = IF i <= Len(s) THEN s[i] ELSE t[i - Len(s)]
  BY ConcatProperties, Zenon
<1>2. Len(s) \in Nat /\ Len(t) \in Nat
  OBVIOUS
<1> HIDE DEF b
<1>3. ASSUME NEW i \in 1 .. Len(b) PROVE b[i].kind # "func"
  <2>1. i \in 1 .. Len(s) + Len(t)
    BY <1>1
  <2>2. CASE i <= Len(s)
    BY <1>1, <1>2, <2>1, <2>2
  <2>3. CASE ~(i <= Len(s))
    <3>1. b[i] = t[i - Len(s)] /\ i - Len(s) \in 1 .. Len(t)
      BY <1>1, <1>2, <2>1, <2>3
    <3>2. QED
      BY <3>1
  <2>4. QED
    BY <2>2, <2>3
<1>4. QED
  BY <1>1, <1>3 DEF b

\* The outermost environment, and the function, while something is open inside.
LEMMA OutermostStays ==
  ASSUME NEW S, NEW s \in Seq(S), Len(s) >= 2, NEW x \in S
  PROVE  /\ Append(s, x)[1] = s[1] /\ Front(s)[1] = s[1] /\ [s EXCEPT ![Len(s)] = x][1] = s[1]
<1>1. 1 \in 1 .. Len(s) - 1 /\ s # <<>> /\ Len(s) # 1 /\ 1 \in DOMAIN s
  <2>1. Len(s) \in Nat /\ DOMAIN s = 1 .. Len(s)
    OBVIOUS
  <2>2. 1 \in 1 .. Len(s) - 1 /\ Len(s) # 1 /\ 1 \in 1 .. Len(s) /\ Len(s) # 0
    BY <2>1
  <2>3. s # <<>>
    BY <2>2, EmptySeq
  <2>4. QED
    BY <2>1, <2>2, <2>3
<1>2. Front(s)[1] = s[1]
  BY <1>1, FrontType, Zenon
<1>3. Append(s, x)[1] = s[1]
  BY <1>1
<1>4. [s EXCEPT ![Len(s)] = x][1] = s[1]
  BY <1>1
<1>5. QED
  BY <1>2, <1>3, <1>4

\* AfterStmt marks the innermost construct only.
LEMMA AfterStmtOutermost ==
  ASSUME NEW fs \in Seq(Frame), Len(fs) >= 1
  PROVE  AfterStmt(fs) # <<>> /\ AfterStmt(fs)[1].name = fs[1].name
<1>1. fs[Len(fs)] \in Frame /\ fs[1] \in Frame /\ Len(fs) \in Nat /\ fs # <<>>
  OBVIOUS
<1>2. CASE ~(fs # <<>> /\ Last(fs).kind = "for")
  <2>1. AfterStmt(fs) = fs
    BY <1>2 DEF AfterStmt
  <2>2. QED
    BY <1>1, <2>1
<1>3. CASE fs # <<>> /\ Last(fs).kind = "for"
  <2> DEFINE f == [fs[Len(fs)] EXCEPT !.bodyDone = TRUE]
             gs == [fs EXCEPT ![Len(fs)] = f]
  <2>1. AfterStmt(fs) = gs
    BY <1>3 DEF AfterStmt
  <2>2. f \in Frame /\ f.name = fs[Len(fs)].name
    BY <1>1 DEF Frame
  <2> HIDE DEF f
  <2>3. gs \in Seq(Frame) /\ Len(gs) = Len(fs)
    BY <2>2
  <2>4. gs # <<>>
    BY <2>3, EmptySeq
  <2>5. gs[1].name = fs[1].name
    BY <1>1, <2>2
  <2>6. QED
    BY <2>1, <2>4, <2>5
<1>4. QED
  BY <1>2, <1>3

\* Nodes added inside a function.
LEMMA InsideOneBody ==
  ASSUME SemaInv, OneBody, NEW t \in Seq(Node), \A i \in 1 .. Len(t) : t[i].kind # "func",
         ast' = ast \o t, envs'[1] = envs[1],
         frames' # <<>>, frames'[1].name = frames[1].name
  PROVE  OneBody'
<1>1. ast \in Seq(Node)
  BY DEF SemaInv, SemaTypeOK
<1> DEFINE b == ast \o t
<1>2. \A i \in DOMAIN b : Bodied(b[i]) => i \in DOMAIN ast /\ b[i] = ast[i]
  BY ZenonT(60), <1>1, NoNewBodies
<1> HIDE DEF b
<1>3. ast' = b
  BY DEF b
<1>4. QED
  BY <1>2, <1>3, BodiesStay

\* Between external declarations no function has two bodies.
LEMMA TopOneBody ==
  ASSUME SemaInv, OneBody, frames = <<>>,
         \A i \in DOMAIN ast' : Bodied(ast'[i]) => i \in DOMAIN ast /\ ast'[i] = ast[i]
  PROVE  OneBody'
BY BodiesStay

\* Globals, typedefs and prototypes begin no body.
LEMMA ExternalOneBody ==
  ASSUME SemaInv, OneBody,
         \/ \E n \in Names, init \in OptName, first \in BOOLEAN : GlobalDecl(n, init, first)
         \/ \E n \in Names, params \in Seq(Names) : FuncPrototype(n, params)
  PROVE  OneBody'
<1>1. CASE UNCHANGED <<envs, frames, ast>>
  BY <1>1 DEF OneBody
<1>2. ast \in Seq(Node) /\ Len(ast) \in Nat
  BY DEF SemaInv, SemaTypeOK
<1>3. ASSUME NEW n \in Names, NEW init \in OptName, NEW s,
             frames = <<>>, ast' = ast \o (InitNodes(init, s) \o <<Mk("gvar", n, NewDecl("var"), Here)>>)
      PROVE  OneBody'
  <2> DEFINE g == Mk("gvar", n, NewDecl("var"), Here)
             u == Use(init, s)
             q == InitNodes(init, s) \o <<g>>
  <2>1. g.kind = "gvar" /\ u.kind = "use"
    BY DEF Mk, Use
  <2> HIDE DEF g, u
  <2> DEFINE S == Node \cup {g, u}
             r == InitNodes(init, s)
  <2>2. r \in Seq(S) /\ \A i \in 1 .. Len(r) : r[i].kind # "func"
    <3>1. r = <<>> \/ r = <<u>>
      BY DEF InitNodes, u
    <3>2. u \in S
      OBVIOUS
    <3> HIDE DEF r, S
    <3>3. CASE r = <<>>
      BY <3>3
    <3>4. CASE r = <<u>>
      BY <2>1, <3>2, <3>4
    <3>5. QED
      BY <3>1, <3>3, <3>4
  <2>3. q \in Seq(S) /\ \A i \in 1 .. Len(q) : q[i].kind # "func"
    <3>1. g \in S
      OBVIOUS
    <3> HIDE DEF r, S
    <3>2. <<g>> \in Seq(S) /\ \A i \in 1 .. Len(<<g>>) : <<g>>[i].kind # "func"
      BY <2>1, <3>1
    <3> DEFINE h == <<g>>
    <3>3. q = r \o h
      BY DEF r
    <3> HIDE DEF q, h
    <3>4. h \in Seq(S) /\ \A i \in 1 .. Len(h) : h[i].kind # "func"
      BY <3>2 DEF h
    <3>5. QED
      BY <2>2, <3>3, <3>4, NoFunctions
  <2> HIDE DEF q
  <2>4. ast \in Seq(S) /\ ast' = ast \o q
    BY <1>2, <1>3 DEF q, g
  <2> HIDE DEF S
  <2>5. \A i \in DOMAIN ast' : Bodied(ast'[i]) => i \in DOMAIN ast /\ ast'[i] = ast[i]
    BY <2>3, <2>4, NoNewBodies
  <2>6. QED
    BY <1>3, <2>5, TopOneBody
<1>4. ASSUME NEW n \in Names, NEW params \in Seq(Names),
             frames = <<>>, ast' = Append(ast, FuncNode(n, params, FALSE))
      PROVE  OneBody'
  <2> DEFINE g == FuncNode(n, params, FALSE)
  <2>1. ~Bodied(g)
    BY DEF FuncNode, Mk, FuncSymbol, Bodied
  <2> HIDE DEF g
  <2>2. \A i \in DOMAIN ast' : (i \in DOMAIN ast /\ ast'[i] = ast[i]) \/ ast'[i] = g
    <3>1. ast' = Append(ast, g)
      BY <1>4 DEF g
    <3>2. /\ DOMAIN ast' = 1 .. Len(ast) + 1 /\ DOMAIN ast = 1 .. Len(ast)
          /\ \A i \in 1 .. Len(ast) : ast'[i] = ast[i]
          /\ ast'[Len(ast) + 1] = g
      BY <1>2, <3>1
    <3>3. \A i \in 1 .. Len(ast) + 1 : i \in 1 .. Len(ast) \/ i = Len(ast) + 1
      BY <1>2
    <3>4. QED
      BY <3>2, <3>3
  <2>3. QED
    BY <1>4, <2>1, <2>2, TopOneBody
<1>5. QED
  BY ZenonT(60), <1>1, <1>3, <1>4 DEF GlobalDecl, FuncPrototype, Report, AtTop

\* A definition that follows another of the function finds it in the file scope.
LEMMA DefinitionOneBody ==
  ASSUME SemaInv, OneBody, "secondBody" \notin Shapes,
         NEW n \in Names, NEW params \in Seq(Names), FuncDefinition(n, params)
  PROVE  OneBody'
<1> DEFINE f == FuncNode(n, params, TRUE)
           b == Mk("block", NoName, NoSymbol, 1)
           es == Append(envs, HeaderTable(n, params))
           f1 == [NewFrame("func", Len(envs) + 1) EXCEPT !.name = n]
           f2 == NewFrame("block", Len(envs) + 2)
<1>1. CASE UNCHANGED <<envs, frames, ast>>
  BY <1>1 DEF OneBody
<1>2. CASE envs' = EnterScope(es) /\ frames' = <<f1, f2>> /\ ast' = ast \o <<f, b>>
  <2>1. /\ ast \in Seq(Node) /\ Len(ast) \in Nat /\ frames = <<>>
        /\ envs \in Seq(Table) /\ Len(envs) = 1 /\ declared \in Seq(DeclRecord)
    BY DEF FuncDefinition, AtTop, SemaInv, SemaTypeOK, FrameInv, DeclRecord
  <2>2. f.kind = "func" /\ f.name = n /\ b.kind = "block" /\ f1.name = n
    BY DEF FuncNode, Mk, NewFrame
  <2>3. HeaderTable(n, params) \in Table
    BY <2>1, HeaderTableType
  <2>4. envs'[1] = envs[1]
    <3> DEFINE table == HeaderTable(n, params)
    <3> HIDE DEF table
    <3>0. es = Append(envs, table) /\ table \in Table
      BY <2>3 DEF table
    <3> HIDE DEF es
    <3>1. es \in Seq(Table) /\ Len(es) = 2 /\ es[1] = envs[1]
      <4> DEFINE c == Append(envs, table)
      <4>0. c \in Seq(Table) /\ Len(c) = Len(envs) + 1
        BY <2>1, <3>0, AppendProperties, ZenonT(60)
      <4> HIDE DEF c
      <4>1. c \in Seq(Table) /\ Len(c) = 2
        BY <2>1, <4>0
      <4>2. Append(envs, table)[1] = envs[1]
        BY <2>1, <3>0
      <4>3. QED
        BY <3>0, <4>1, <4>2 DEF c
    <3>2. EmptyTable \in Table
      BY EmptyTableType
    <3>3. QED
      BY <1>2, <3>1, <3>2, OutermostStays DEF EnterScope
  <2> HIDE DEF f, b, f1, f2
  <2>5. frames' # <<>> /\ frames'[1].name = n
    BY <1>2, <2>2
  <2>6. \A i \in DOMAIN ast' : Bodied(ast'[i]) =>
          \/ i \in DOMAIN ast /\ ast'[i] = ast[i]
          \/ i = Len(ast) + 1 /\ ast'[i] = f
    <3>1. /\ DOMAIN ast' = 1 .. Len(ast) + 2
          /\ \A i \in 1 .. Len(ast) : ast'[i] = ast[i]
          /\ ast'[Len(ast) + 1] = f /\ ast'[Len(ast) + 2] = b
      BY <1>2, <2>1
    <3>2. \A i \in 1 .. Len(ast) + 2 : i \in 1 .. Len(ast) \/ i = Len(ast) + 1 \/ i = Len(ast) + 2
      BY <2>1
    <3>3. DOMAIN ast = 1 .. Len(ast)
      BY <2>1
    <3>4. QED
      BY <2>2, <3>1, <3>2, <3>3 DEF Bodied
  <2>7. \A i \in DOMAIN ast : Bodied(ast[i]) /\ ast[i].name = n => envs[1][n].body
    <3> SUFFICES ASSUME NEW i \in DOMAIN ast, Bodied(ast[i]), ast[i].name = n PROVE envs[1][n].body
      OBVIOUS
    <3>1. Defined(n)
      BY DEF Defined, Bodied
    <3>2. FindObjSymbolInCurEnv(envs, n).body
      BY <3>1 DEF FuncDefinition
    <3>3. QED
      BY <2>1, <3>2 DEF FindObjSymbolInCurEnv, Last
  <2>8. \A i, j \in DOMAIN ast : ~(i # j /\ Bodied(ast[i]) /\ Bodied(ast[j])
                                     /\ ast[i].name = ast[j].name)
    BY <2>1 DEF OneBody
  <2>9. QED
    BY <2>2, <2>4, <2>5, <2>6, <2>7, <2>8 DEF OneBody
<1>3. QED
  BY <1>1, <1>2 DEF FuncDefinition, Report

\* A second body is reported when it ends.
LEMMA FuncEndOneBody ==
  ASSUME SemaInv, OneBody, FuncEnd
  PROVE  OneBody'
<1> DEFINE n == frames[1].name
           es == ExitScope(ExitScope(envs))
           t == <<Mk("endblock", NoName, NoSymbol, 1), Mk("endfunc", NoName, NoSymbol, 0)>>
<1>1. CASE UNCHANGED <<envs, frames, ast>>
  BY <1>1 DEF OneBody
<1>2. CASE ~FuncRedefined(FindObjSymbolInCurEnv(es, n), TRUE) /\ ast' = ast \o t
  <2>1. /\ frames # <<>> /\ frames \in Seq(Frame) /\ Len(frames) = 2
        /\ WellNested(frames, Len(envs)) /\ envs \in Seq(Table) /\ ast \in Seq(Node)
    BY DEF FuncEnd, InFrame, SemaInv, SemaTypeOK, FrameInv
  <2>2. Len(envs) = 3 /\ n \in Names
    <3>1. 2 \in 2 .. Len(frames) /\ frames[2].kind = "block" /\ frames[1].height = 2
          /\ frames[2].height = Len(envs) /\ n \in Names
      BY <2>1 DEF WellNested
    <3>2. frames[2].height =
            frames[2 - 1].height + (IF frames[2].kind = "case" THEN 0 ELSE 1)
      BY <2>1, <3>1 DEF WellNested
    <3>3. QED
      BY <3>1, <3>2
  <2>3. es \in Seq(Table) /\ Len(es) = 1 /\ es[1] = envs[1]
    <3> DEFINE e == ExitScope(envs)
    <3>1. e \in Seq(Table) /\ Len(e) = Len(envs) - 1 /\ e[1] = envs[1]
      <4>1. Len(envs) >= 2
        BY <2>2
      <4>2. Front(envs) \in Seq(Table) /\ Len(Front(envs)) = Len(envs) - 1
        BY <2>1, <4>1, LeaveScope
      <4>3. Front(envs)[1] = envs[1]
        BY <2>1, <4>1, EmptyTableType, OutermostStays
      <4>4. QED
        BY <4>2, <4>3 DEF ExitScope
    <3> HIDE DEF e
    <3>2. /\ ExitScope(e) \in Seq(Table) /\ Len(ExitScope(e)) = Len(e) - 1
          /\ ExitScope(e)[1] = e[1]
      <4>1. Len(e) >= 2
        BY <2>2, <3>1
      <4>2. Front(e) \in Seq(Table) /\ Len(Front(e)) = Len(e) - 1
        BY <3>1, <4>1, LeaveScope
      <4>3. Front(e)[1] = e[1]
        BY <3>1, <4>1, EmptyTableType, OutermostStays
      <4>4. QED
        BY <4>2, <4>3 DEF ExitScope
    <3>3. QED
      BY <2>2, <3>1, <3>2 DEF e
  <2> HIDE DEF es
  <2>4. ~(envs[1][n].body /\ envs[1][n] # NoSymbol)
    BY <1>2, <2>3 DEF FuncRedefined, FindObjSymbolInCurEnv, Last
  <2>5. ~envs[1][n].body
    BY <2>4 DEF NoSymbol
  <2>6. \A i, j \in DOMAIN ast : ~(i # j /\ Bodied(ast[i]) /\ Bodied(ast[j])
                                     /\ ast[i].name = ast[j].name)
    BY <2>5 DEF OneBody
  <2>7. t \in Seq(Node) /\ \A i \in 1 .. Len(t) : t[i].kind # "func"
    <3> DEFINE g == Mk("endblock", NoName, NoSymbol, 1)
               h == Mk("endfunc", NoName, NoSymbol, 0)
    <3>1. g \in Node /\ h \in Node /\ g.kind # "func" /\ h.kind # "func"
      BY MkNameless, NoNameIsOptional
    <3> HIDE DEF g, h
    <3>2. t = <<g, h>>
      BY DEF g, h
    <3> HIDE DEF t
    <3>3. QED
      BY <3>1, <3>2, TwoElements
  <2> HIDE DEF t
  <2> DEFINE b == ast \o t
  <2>8. \A i \in DOMAIN b : Bodied(b[i]) => i \in DOMAIN ast /\ b[i] = ast[i]
    BY ZenonT(60), <2>1, <2>7, NoNewBodies
  <2> HIDE DEF b
  <2>9. ast' = b
    BY <1>2 DEF b
  <2>10. QED
    BY <2>6, <2>8, <2>9 DEF OneBody
<1>3. QED
  BY <1>1, <1>2 DEF FuncEnd, Report

\* Statements begin no body and leave the file scope alone.
LEMMA StatementOneBody ==
  ASSUME SemaInv, OneBody,
         \/ \E n \in Names : VarDecl(n) \/ Access(n) \/ \E p \in Names : FuncPointerDecl(n, p)
         \/ Jump \/ \E switch \in BOOLEAN : OpenBlock(switch)
         \/ \E init, inc \in OptName : OpenFor(init, inc)
  PROVE  OneBody'
<1>1. CASE UNCHANGED <<envs, frames, ast>>
  BY <1>1 DEF OneBody
<1>2. AtStmt
  BY DEF VarDecl, Access, FuncPointerDecl, Jump, OpenBlock, OpenFor
<1>3. /\ frames \in Seq(Frame) /\ Len(frames) >= 2 /\ frames # <<>> /\ envs \in Seq(Table)
      /\ Len(envs) >= 2 /\ ast \in Seq(Node) /\ Here \in Nat
      /\ declared \in Seq(DeclRecord)
  BY <1>2, AtStmtInside, HereType DEF WellNested
<1>4. AfterStmt(frames) # <<>> /\ AfterStmt(frames)[1].name = frames[1].name
  BY <1>3, AfterStmtOutermost
<1>5. \A x : Append(frames, x) # <<>> /\ Append(frames, x)[1] = frames[1]
  <2> SUFFICES ASSUME NEW x PROVE Append(frames, x) # <<>> /\ Append(frames, x)[1] = frames[1]
    OBVIOUS
  <2> DEFINE S == Frame \cup {x}
  <2>1. frames \in Seq(S) /\ x \in S
    BY <1>3
  <2> HIDE DEF S
  <2>2. Append(frames, x) # <<>>
    BY <2>1, AppendProperties, ZenonT(60)
  <2>3. Append(frames, x)[1] = frames[1]
    BY <1>3, <2>1, OutermostStays
  <2>4. QED
    BY <2>2, <2>3
<1>6. ASSUME NEW es \in Seq(Table), Len(es) >= 2, NEW m \in Names, NEW s \in Symbol
      PROVE  /\ AddObjSymbol(es, m, s) \in Seq(Table) /\ Len(AddObjSymbol(es, m, s)) >= 2
             /\ AddObjSymbol(es, m, s)[1] = es[1]
  <2> DEFINE t == Insert(es[Len(es)], m, s)
  <2>1. AddObjSymbol(es, m, s) \in Seq(Table) /\ Len(AddObjSymbol(es, m, s)) = Len(es)
    BY <1>6, AddObjSymbolType
  <2>2. t \in Table
    BY <1>6, InsertType
  <2>3. AddObjSymbol(es, m, s) = [es EXCEPT ![Len(es)] = t]
    BY DEF AddObjSymbol
  <2> HIDE DEF t
  <2>4. [es EXCEPT ![Len(es)] = t][1] = es[1]
    BY <1>6, <2>2, OutermostStays
  <2>5. QED
    BY <1>6, <2>1, <2>3, <2>4
<1>7. ASSUME NEW g \in Node, g.kind # "func", ast' = Append(ast, g), envs'[1] = envs[1],
             frames' # <<>>, frames'[1].name = frames[1].name
      PROVE  OneBody'
  <2>1. ast' = ast \o <<g>>
    BY <1>3, <1>7, AppendIsConcat, Zenon
  <2>2. <<g>> \in Seq(Node) /\ \A i \in 1 .. Len(<<g>>) : <<g>>[i].kind # "func"
    BY <1>7
  <2>3. QED
    BY <1>7, <2>1, <2>2, InsideOneBody
<1>8. CASE \E n \in Names : VarDecl(n) \/ \E p \in Names : FuncPointerDecl(n, p)
  <2>1. PICK n \in Names : VarDecl(n) \/ \E p \in Names : FuncPointerDecl(n, p)
    BY <1>8
  <2> DEFINE s == NewDecl("var")
             es == AddObjSymbol(envs, n, s)
             t == [s EXCEPT !.decl = @ + 1]
             g == Mk("var", n, s, Here)
  <2>2. s \in Symbol
    BY <1>3, NewDeclType
  <2>3. t \in Symbol
    <3> HIDE DEF s
    <3>1. s.decl + 1 \in Nat /\ t = [kind |-> s.kind, decl |-> s.decl + 1, body |-> s.body]
      BY <2>2 DEF Symbol
    <3>2. QED
      BY <2>2, <3>1 DEF Symbol
  <2>4. g \in Node /\ g.kind # "func"
    BY <1>3, <2>2, MkNamed
  <2>5. \/ UNCHANGED <<envs, frames, ast>>
        \/ /\ ast' = Append(ast, g) /\ frames' = AfterStmt(frames)
           /\ envs' = es \/ \E p \in Names : envs' = AddObjSymbol(es, p, t)
    BY <2>1 DEF VarDecl, FuncPointerDecl, Report
  <2> HIDE DEF s, t, g
  <2>6. es \in Seq(Table) /\ Len(es) >= 2 /\ es[1] = envs[1]
    BY <1>3, <1>6, <2>2
  <2> HIDE DEF es
  <2>7. CASE envs' = es \/ \E p \in Names : envs' = AddObjSymbol(es, p, t)
    <3>1. envs'[1] = envs[1]
      BY SMTT(60), <1>6, <2>3, <2>6, <2>7
    <3>2. QED
      BY <1>1, <1>4, <1>7, <2>4, <2>5, <3>1
  <2>8. QED
    BY <1>1, <2>5, <2>7
<1>9. CASE \E n \in Names : Access(n)
  <2>1. PICK n \in Names : Access(n)
    BY <1>9
  <2> DEFINE s == Found(envs, n)
             g == Use(n, s)
  <2>2. s \in Symbol \cup {NoSymbol}
    BY <1>3, FindObjSymbolType DEF Found
  <2>3. s # NoSymbol => g \in Node /\ g.kind # "func"
    BY <1>3, <2>2, MkNamed DEF Use
  <2>4. \/ UNCHANGED <<envs, frames, ast>>
        \/ /\ s # NoSymbol /\ ast' = Append(ast, g) /\ frames' = AfterStmt(frames)
           /\ envs' = envs
    BY <2>1 DEF Access, Report
  <2> HIDE DEF s, g
  <2>5. QED
    BY <1>1, <1>4, <1>7, <2>3, <2>4
<1>10. CASE Jump
  <2> DEFINE g == Mk("jump", NoName, NoSymbol, Here)
  <2>1. g \in Node /\ g.kind # "func"
    BY <1>3, MkNameless, NoNameIsOptional
  <2>2. ast' = Append(ast, g) /\ frames' = AfterStmt(frames) /\ envs' = envs
    BY <1>10 DEF Jump
  <2> HIDE DEF g
  <2>3. QED
    BY <1>4, <1>7, <2>1, <2>2
<1>11. CASE \E switch \in BOOLEAN : OpenBlock(switch)
  <2> DEFINE g == Mk("block", NoName, NoSymbol, Here)
  <2>1. g \in Node /\ g.kind # "func"
    BY <1>3, MkNameless, NoNameIsOptional
  <2>2. ast' = Append(ast, g) /\ envs' = EnterScope(envs) /\ \E x : frames' = Append(frames, x)
    BY <1>11 DEF OpenBlock
  <2> HIDE DEF g
  <2>3. envs'[1] = envs[1]
    BY <1>3, <2>2, EmptyTableType, OutermostStays DEF EnterScope
  <2>4. QED
    BY <1>5, <1>7, <2>1, <2>2, <2>3
<1>12. CASE \E init, inc \in OptName : OpenFor(init, inc)
  <2>1. PICK init \in OptName, inc \in OptName : OpenFor(init, inc)
    BY <1>12
  <2> DEFINE s == NewDecl("var")
             scope == EnterScope(envs)
             es == IF init = NoName THEN scope ELSE AddObjSymbol(scope, init, s)
             g == Mk("for", init, NoSymbol, Here)
             v == Mk("var", init, s, Here + 1)
             t == IF init = NoName THEN <<g>> ELSE <<g, v>>
  <2>2. \/ UNCHANGED <<envs, frames, ast>>
        \/ envs' = es /\ ast' = ast \o t /\ \E x : frames' = Append(frames, x)
    BY <2>1 DEF OpenFor, Report
  <2>3. s \in Symbol
    BY <1>3, NewDeclType
  <2>4. g \in Node /\ g.kind # "func"
    BY SMTT(60), <1>3, MkNameless
  <2>5. init # NoName => init \in Names /\ v \in Node /\ v.kind # "func"
    BY <1>3, <2>3, MkNamed DEF OptName
  <2>6. scope \in Seq(Table) /\ Len(scope) >= 2 /\ scope[1] = envs[1]
    BY <1>3, EnterScopeInside, EmptyTableType, OutermostStays DEF EnterScope
  <2> HIDE DEF s, scope, g, v
  <2>7. es[1] = envs[1]
    BY <1>6, <2>3, <2>5, <2>6
  <2>8. t \in Seq(Node) /\ \A i \in 1 .. Len(t) : t[i].kind # "func"
    <3>1. CASE init = NoName
      <4>1. t = <<g>>
        BY <3>1
      <4>2. QED
        BY <2>4, <4>1, OneElement
    <3>2. CASE init # NoName
      <4>1. t = <<g, v>> /\ v \in Node /\ v.kind # "func"
        BY <2>5, <3>2
      <4> HIDE DEF t
      <4>2. QED
        BY <2>4, <4>1, TwoElements
    <3>3. QED
      BY <3>1, <3>2
  <2> HIDE DEF es, t
  <2>9. QED
    BY <1>1, <1>5, <2>2, <2>7, <2>8, InsideOneBody
<1>13. QED
  BY <1>8, <1>9, <1>10, <1>11, <1>12

\* The end of a label leaves the function open.
LEMMA EndCaseOutermost ==
  ASSUME NEW h, frames \in Seq(Frame), frames # <<>>, WellNested(frames, h)
  PROVE  EndCase(frames)[1].name = frames[1].name
<1>1. Len(frames) >= 2
  BY DEF WellNested
<1>2. 1 \in 1 .. Len(frames) - 1
  BY <1>1
<1>3. Front(frames)[1] = frames[1]
  BY <1>2, FrontType, Zenon
<1>4. QED
  BY <1>3 DEF EndCase

\* Typedefs, labels, the ends of blocks and loops, and of the input.
LEMMA ClosingOneBody ==
  ASSUME SemaInv, OneBody,
         \/ \E n \in Names : TypedefDecl(n)
         \/ CaseLabel \/ CloseBlock \/ CloseFor \/ EndOfInput
  PROVE  OneBody'
<1>1. CASE UNCHANGED <<envs, frames, ast>>
  BY <1>1 DEF OneBody
<1>2. /\ frames \in Seq(Frame) /\ envs \in Seq(Table) /\ ast \in Seq(Node)
      /\ declared \in Seq(DeclRecord) /\ Len(ast) \in Nat /\ Here \in Nat
      /\ frames # <<>> => WellNested(frames, Len(envs)) /\ Len(envs) >= 2 /\ Len(frames) >= 2
  <2>1. /\ frames \in Seq(Frame) /\ envs \in Seq(Table) /\ ast \in Seq(Node)
        /\ declared \in Seq(DeclRecord)
    BY DEF SemaInv, SemaTypeOK, DeclRecord
  <2>2. Len(ast) \in Nat /\ Here \in Nat
    BY <2>1, HereType
  <2>3. frames # <<>> => WellNested(frames, Len(envs)) /\ Len(envs) >= 2 /\ Len(frames) >= 2
    BY DEF SemaInv, FrameInv, WellNested
  <2>4. QED
    BY <2>1, <2>2, <2>3
<1>3. ASSUME NEW fs \in Seq(Frame), WellNested(fs, Len(envs))
      PROVE  Len(fs) >= 2 /\ (Len(fs) > 2 => Len(envs) >= 2)
  BY <1>3 DEF WellNested
<1>4. ASSUME NEW fs \in Seq(Frame), Len(fs) > 2
      PROVE  AfterStmt(Front(fs)) # <<>> /\ AfterStmt(Front(fs))[1].name = fs[1].name
  <2> DEFINE gs == Front(fs)
  <2>1. gs \in Seq(Frame) /\ Len(gs) = Len(fs) - 1
    BY <1>4, LeaveScope
  <2>2. gs[1] = fs[1]
    <3>1. fs # <<>> /\ 1 \in 1 .. Len(fs) - 1
      BY <1>4
    <3>2. QED
      BY <3>1, FrontType, Zenon
  <2> HIDE DEF gs
  <2>3. QED
    BY <1>4, <2>1, <2>2, AfterStmtOutermost DEF gs
<1>5. Len(envs) >= 2 => ExitScope(envs)[1] = envs[1]
  BY <1>2, EmptyTableType, OutermostStays DEF ExitScope
<1>6. CASE \E n \in Names : TypedefDecl(n)
  <2>1. PICK n \in Names : TypedefDecl(n)
    BY <1>6
  <2> DEFINE s == NewDecl("typedef")
             t == Insert(envs[Len(envs)], n, s)
  <2>2. \/ UNCHANGED <<envs, frames, ast>>
        \/ UNCHANGED <<frames, ast>> /\ envs' = AddObjSymbol(envs, n, s)
    BY <2>1 DEF TypedefDecl, Report
  <2>3. CASE envs' = AddObjSymbol(envs, n, s) /\ UNCHANGED <<frames, ast>> /\ frames # <<>>
    <3>1. s \in Symbol /\ envs[Len(envs)] \in Table
      BY <1>2, <2>3, NewDeclType
    <3>2. t \in Table
      BY <3>1, InsertType
    <3>3. envs' = [envs EXCEPT ![Len(envs)] = t]
      BY <2>3 DEF AddObjSymbol
    <3> HIDE DEF t
    <3>4. envs'[1] = envs[1]
      BY <1>2, <2>3, <3>2, <3>3, OutermostStays
    <3>5. QED
      BY <2>3, <3>4, BodiesStay
  <2>4. CASE UNCHANGED <<frames, ast>> /\ frames = <<>>
    BY <2>4 DEF OneBody
  <2>5. QED
    BY <1>1, <2>2, <2>3, <2>4
<1>7. CASE CaseLabel
  <2> DEFINE fs == EndCase(frames)
             g == Mk("case", NoName, NoSymbol, Len(fs))
             x == NewFrame("case", Len(envs))
  <2>1. \/ UNCHANGED <<envs, frames, ast>>
        \/ /\ InFrame({"block", "case"}) /\ frames' = Append(fs, x)
           /\ ast' = ast \o (EndCaseNode \o <<g>>) /\ envs' = envs
    BY <1>7 DEF CaseLabel, Report
  <2>2. CASE InFrame({"block", "case"}) /\ frames' = Append(fs, x)
             /\ ast' = ast \o (EndCaseNode \o <<g>>) /\ envs' = envs
    <3>1. /\ fs \in Seq(Frame) /\ fs # <<>> /\ WellNested(fs, Len(envs))
          /\ EndCaseNode \in Seq(Node)
      BY <2>2, EndCaseLeavesBlock
    <3>2. g \in Node /\ g.kind # "func"
      BY <3>1, MkNameless, NoNameIsOptional
    <3>3. \A i \in 1 .. Len(EndCaseNode) : EndCaseNode[i].kind # "func"
      BY DEF EndCaseNode, Mk
    <3>4. fs[1].name = frames[1].name
      BY <1>2, <2>2, <3>1, EndCaseOutermost DEF InFrame
    <3>5. x \in Frame
      BY <1>2, NewFrameType
    <3> HIDE DEF fs, g, x
    <3>6. frames' # <<>> /\ frames'[1] = fs[1]
      BY <1>3, <2>2, <3>1, <3>5, OutermostStays, AppendProperties
    <3> DEFINE t == EndCaseNode \o <<g>>
    <3>7. t \in Seq(Node) /\ \A i \in 1 .. Len(t) : t[i].kind # "func"
      BY <3>1, <3>2, <3>3, OneElement, NoFunctions
    <3> HIDE DEF t
    <3>8. ast' = ast \o t
      BY <2>2 DEF t
    <3>9. QED
      BY <2>2, <3>4, <3>6, <3>7, <3>8, InsideOneBody
  <2>3. QED
    BY <1>1, <2>1, <2>2
<1>8. CASE CloseBlock
  <2> DEFINE fs == EndCase(frames)
             g == Mk("endblock", NoName, NoSymbol, Len(fs) - 1)
             t == EndCaseNode \o <<g>>
  <2>1. /\ InFrame({"block", "case"}) /\ Len(fs) > 2 /\ envs' = ExitScope(envs)
        /\ frames' = AfterStmt(Front(fs)) /\ ast' = ast \o t
    BY <1>8 DEF CloseBlock
  <2>2. /\ fs \in Seq(Frame) /\ fs # <<>> /\ WellNested(fs, Len(envs))
        /\ EndCaseNode \in Seq(Node)
    BY <2>1, EndCaseLeavesBlock
  <2>3. g \in Node /\ g.kind # "func"
    BY <2>1, <2>2, MkNameless, NoNameIsOptional
  <2>4. \A i \in 1 .. Len(EndCaseNode) : EndCaseNode[i].kind # "func"
    BY DEF EndCaseNode, Mk
  <2>5. fs[1].name = frames[1].name
    BY <1>2, <2>1, <2>2, EndCaseOutermost DEF InFrame
  <2> HIDE DEF fs, g
  <2>6. frames' # <<>> /\ frames'[1].name = fs[1].name
    BY <1>4, <2>1, <2>2
  <2>7. t \in Seq(Node) /\ \A i \in 1 .. Len(t) : t[i].kind # "func"
    BY <2>2, <2>3, <2>4, OneElement, NoFunctions
  <2> HIDE DEF t
  <2>8. envs'[1] = envs[1]
    BY <1>3, <1>5, <2>1, <2>2
  <2>9. QED
    BY <2>1, <2>5, <2>6, <2>7, <2>8, InsideOneBody
<1>9. CASE CloseFor
  <2> DEFINE u == IncNodes(Last(frames).inc)
             g == Mk("endfor", NoName, NoSymbol, Here - 1)
             t == u \o <<g>>
  <2>1. /\ InFrame({"for"}) /\ envs' = ExitScope(envs)
        /\ frames' = AfterStmt(Front(frames)) /\ ast' = ast \o t
    BY <1>9 DEF CloseFor
  <2>2. /\ frames # <<>> /\ Last(frames) = frames[Len(frames)]
        /\ frames[Len(frames)] \in Frame /\ frames[Len(frames)].kind = "for"
    BY <1>2, <2>1, LastType DEF InFrame
  <2>3. Len(frames) > 2
    BY <1>2, <2>2 DEF WellNested
  <2>4. Last(frames).inc \in Seq([name : Names, sym : Symbol])
    BY <2>2 DEF Frame
  <2>5. u \in Seq(Node) /\ \A i \in 1 .. Len(u) : u[i].kind # "func"
    <3>1. u \in Seq(Node)
      BY <2>4, IncNodesType
    <3>2. \A i \in DOMAIN u : u[i].kind = "use"
      BY DEF IncNodes, Use, Mk
    <3>3. DOMAIN u = 1 .. Len(u)
      BY <3>1
    <3> HIDE DEF u
    <3>4. QED
      BY <3>1, <3>2, <3>3
  <2>6. g \in Node /\ g.kind # "func"
    BY <1>2, MkNameless, NoNameIsOptional
  <2> HIDE DEF u, g
  <2>7. t \in Seq(Node) /\ \A i \in 1 .. Len(t) : t[i].kind # "func"
    BY <2>5, <2>6, OneElement, NoFunctions
  <2> HIDE DEF t
  <2>8. frames' # <<>> /\ frames'[1].name = frames[1].name /\ envs'[1] = envs[1]
    BY <1>2, <1>4, <1>5, <2>1, <2>2, <2>3
  <2>9. QED
    BY <2>1, <2>7, <2>8, InsideOneBody
<1>10. QED
  BY <1>1, <1>6, <1>7, <1>8, <1>9 DEF EndOfInput

\* Every step of the parser keeps OneBody.
LEMMA SemaNextOneBody ==
  ASSUME SemaInv, OneBody, "secondBody" \notin Shapes, SemaNext
  PROVE  OneBody'
<1>1. ASSUME NEW n \in Names, NEW params \in ParamLists, FuncPrototype(n, params)
      PROVE  OneBody'
  BY <1>1, ParamListsType, ExternalOneBody
<1>2. ASSUME NEW n \in Names, NEW params \in ParamLists, FuncDefinition(n, params)
      PROVE  OneBody'
  BY <1>2, ParamListsType, DefinitionOneBody
<1>3. CASE \E n \in Names, init \in OptName, first \in BOOLEAN : GlobalDecl(n, init, first)
  BY <1>3, ExternalOneBody
<1>4. CASE \/ \E n \in Names : VarDecl(n) \/ Access(n) \/ \E p \in Names : FuncPointerDecl(n, p)
           \/ Jump \/ \E switch \in BOOLEAN : OpenBlock(switch)
           \/ \E init, inc \in OptName : OpenFor(init, inc)
  BY <1>4, StatementOneBody
<1>5. CASE \/ \E n \in Names : TypedefDecl(n)
           \/ CaseLabel \/ CloseBlock \/ CloseFor \/ EndOfInput
  BY <1>5, ClosingOneBody
<1>6. CASE FuncEnd
  BY <1>6, FuncEndOneBody
<1>7. QED
  BY <1>1, <1>2, <1>3, <1>4, <1>5, <1>6 DEF SemaNext

\* SemaFuncDecl reports every second definition of a function, as long as no
\* prototype came before two of them (the shape secondBody of SemaScopes).
THEOREM FunctionsDefinedOnce ==
  ASSUME "secondBody" \notin Shapes
  PROVE  Spec => []DefinedOnce
<1>1. Init => OneBody
  BY DEF Init, SemaInit, OneBody
<1>2. IInv /\ OneBody /\ [Next]_vars => OneBody'
  <2> SUFFICES ASSUME IInv, OneBody, [Next]_vars PROVE OneBody'
    OBVIOUS
  <2>1. CASE SemaNext
    BY <2>1, SemaNextOneBody, IInvParts
  <2>2. CASE UNCHANGED semaVars
    BY <2>2 DEF semaVars, OneBody
  <2>3. QED
    BY <2>1, <2>2 DEF Next, Parse, Generate, Visit, Terminated, vars
<1>3. IInv /\ OneBody => DefinedOnce
  BY DEF IInv, FrameInv, OneBody, DefinedOnce, Bodied
<1>4. QED
  BY <1>1, <1>2, <1>3, InvariantHolds, PTL DEF Spec

-----------------------------------------------------------------------------
(* Visiting nodes in sequence. *)

\* VisitFuncDecl's table of parameters.
ParamTable(d) ==
    [n \in Names |->
       IF \E i \in DOMAIN d.params : d.params[i] = n
         THEN [kind |-> "var", body |-> FALSE,
               decl |-> d.first - 1 + (CHOOSE i \in DOMAIN d.params : d.params[i] = n)]
         ELSE NoSymbol]

\* globalVarMap after the visit of node d.
GlobalAfter(d, g) ==
    IF d.kind = "gvar" THEN Insert(g, d.name, d.sym)
    ELSE IF d.kind = "func" /\ g[d.name].kind # "func"
      THEN Insert(g, d.name, [d.sym EXCEPT !.body = FALSE])
    ELSE g

\* localVarMap after the visit of node d.
LocalAfter(d, l) ==
    IF d.kind = "func" THEN (IF d.sym.body THEN <<ParamTable(d)>> ELSE <<>>)
    ELSE IF d.kind \in {"endfunc", "endblock", "endcase"} THEN Front(l)
    ELSE IF d.kind \in {"block", "case"} THEN Append(l, EmptyTable)
    ELSE IF d.kind = "var" THEN [l EXCEPT ![Len(l)] = Insert(@, d.name, d.sym)]
    ELSE l

\* The tables that node d adds to localVarMap.
Pushes(d) ==
    IF (d.kind = "func" /\ d.sym.body) \/ d.kind \in {"block", "case"} THEN 1
    ELSE IF d.kind \in {"endfunc", "endblock", "endcase"} THEN 0 - 1
    ELSE 0

\* The tables before and after each node of a, visited one after the other.
IsVisit(gs, ls, a) ==
    /\ gs \in Seq(Table) /\ Len(gs) = Len(a) + 1 /\ gs[1] = EmptyTable
    /\ ls \in Seq(Seq(Table)) /\ Len(ls) = Len(a) + 1 /\ ls[1] = <<>>
    /\ \A q \in 1 .. Len(a) :
         /\ gs[q + 1] = GlobalAfter(a[q], gs[q])
         /\ ls[q + 1] = LocalAfter(a[q], ls[q])
         /\ Len(ls[q + 1]) = Len(ls[q]) + Pushes(a[q])

\* The open constructs fs, the tables rs of localVarMap and the environments
\* their declarations are entered in: all but a for have a table, all but a
\* label an environment.
Levels(rs, fs, r, h) ==
    /\ rs \in Seq(Nat) /\ Len(rs) = Len(fs)
    /\ IF fs = <<>> THEN r = 0 /\ h = 1 ELSE r = rs[Len(fs)] /\ h = fs[Len(fs)].height
    /\ \A k \in 1 .. Len(fs) :
         /\ rs[k] >= 1 /\ fs[k].height >= 2
         /\ fs[k].kind = "func" <=> k = 1
         /\ rs[k] = (IF k = 1 THEN 0 ELSE rs[k - 1]) + (IF fs[k].kind = "for" THEN 0 ELSE 1)
         /\ \E j \in 1 .. k : fs[j].kind # "for" /\ rs[j] = rs[k]
         /\ \A j \in 1 .. k - 1 :
              /\ rs[j] <= rs[k]
              /\ fs[k].kind # "for" => rs[j] < rs[k]
              /\ fs[j].height <= fs[k].height
              /\ fs[k].kind # "case" => fs[j].height < fs[k].height

\* A jump in an open construct: the tables around the construct's are as they
\* were at the jump.
OpenJump(gs, ls, rs, a, fs, i) ==
    LET d == a[i].depth
    IN  /\ d \in 2 .. Len(fs) /\ \A j \in i + 1 .. Len(a) : a[j].depth >= d
        /\ fs[d].kind # "for" =>
             /\ gs[i] = gs[Len(a) + 1] /\ Len(ls[i]) = rs[d]
             /\ \A t \in 1 .. rs[d] - 1 : ls[i][t] = ls[Len(a) + 1][t]

\* A jump in a closed construct, to whose end CodeGen goes on.
ClosedJump(gs, ls, a, i) ==
    \E c \in DOMAIN a :
      /\ c > i /\ a[c].depth < a[i].depth
      /\ \A j \in i + 1 .. c - 1 : a[j].depth >= a[i].depth
      /\ \/ a[c].kind = "endfor"
         \/ /\ a[c].kind \in {"endblock", "endcase"}
            /\ gs[c] = gs[i] /\ Len(ls[c]) = Len(ls[i]) /\ Len(ls[i]) >= 1
            /\ \A t \in 1 .. Len(ls[i]) - 1 : ls[i][t] = ls[c][t]

\* Every jump so far leads out of an open construct or to the end of one.
JumpsMatch(gs, ls, rs, a, fs) ==
    \A i \in DOMAIN a : a[i].kind = "jump" =>
      OpenJump(gs, ls, rs, a, fs, i) \/ ClosedJump(gs, ls, a, i)

-----------------------------------------------------------------------------
(* Searching a stack of tables. *)

\* The entry for n in the innermost of the tables 1 .. h that has one.
Inner(ts, h, n) ==
    LET hits == {i \in 1 .. h : ts[i][n] # NoSymbol}
    IN  IF hits = {} THEN NoSymbol ELSE ts[Max(hits)][n]

\* What GetVarByName finds in g and the tables 1 .. r of l.
Storage(g, l, r, n) == IF Inner(l, r, n) = NoSymbol THEN g[n] ELSE Inner(l, r, n)

\* No table has an entry, or the innermost that has one is the one found.
LEMMA InnerFound ==
  ASSUME NEW ts, NEW h \in Nat, NEW n
  PROVE  \/ Inner(ts, h, n) = NoSymbol /\ \A i \in 1 .. h : ts[i][n] = NoSymbol
         \/ \E k \in 1 .. h : /\ ts[k][n] # NoSymbol /\ Inner(ts, h, n) = ts[k][n]
                              /\ \A i \in k + 1 .. h : ts[i][n] = NoSymbol
<1> DEFINE hits == {i \in 1 .. h : ts[i][n] # NoSymbol}
<1>1. CASE hits = {}
  BY <1>1 DEF Inner
<1>2. CASE hits # {}
  <2>1. Max(hits) \in hits /\ \A y \in hits : Max(hits) >= y
    BY <1>2, MaxOfIndices
  <2>2. Inner(ts, h, n) = ts[Max(hits)][n]
    BY <1>2 DEF Inner
  <2> DEFINE k == Max(hits)
  <2> HIDE DEF k
  <2>3. k \in 1 .. h /\ ts[k][n] # NoSymbol /\ Inner(ts, h, n) = ts[k][n]
    BY <2>1, <2>2 DEF k
  <2>4. \A i \in k + 1 .. h : ts[i][n] = NoSymbol
    <3> SUFFICES ASSUME NEW i \in k + 1 .. h, ts[i][n] # NoSymbol PROVE FALSE
      OBVIOUS
    <3>1. i \in hits
      BY <2>3
    <3>2. k >= i
      BY <2>1, <3>1 DEF k
    <3>3. QED
      BY <2>3, <3>2
  <2>5. QED
    BY <2>3, <2>4
<1>3. QED
  BY <1>1, <1>2

\* The search depends on the entries for n only.
LEMMA InnerSame ==
  ASSUME NEW ts, NEW us, NEW h \in Nat, NEW n, \A i \in 1 .. h : ts[i][n] = us[i][n]
  PROVE  Inner(ts, h, n) = Inner(us, h, n)
<1>1. \/ Inner(ts, h, n) = NoSymbol /\ \A i \in 1 .. h : ts[i][n] = NoSymbol
      \/ \E k \in 1 .. h : /\ ts[k][n] # NoSymbol /\ Inner(ts, h, n) = ts[k][n]
                           /\ \A i \in k + 1 .. h : ts[i][n] = NoSymbol
  BY InnerFound
<1>2. \/ Inner(us, h, n) = NoSymbol /\ \A i \in 1 .. h : us[i][n] = NoSymbol
      \/ \E k \in 1 .. h : /\ us[k][n] # NoSymbol /\ Inner(us, h, n) = us[k][n]
                           /\ \A i \in k + 1 .. h : us[i][n] = NoSymbol
  BY InnerFound
<1>3. ASSUME NEW k \in 1 .. h, ts[k][n] # NoSymbol, \A i \in k + 1 .. h : ts[i][n] = NoSymbol,
             NEW l \in 1 .. h, us[l][n] # NoSymbol, \A i \in l + 1 .. h : us[i][n] = NoSymbol
      PROVE  k = l
  <2>1. ~(k < l)
    BY <1>3
  <2>2. ~(l < k)
    BY <1>3
  <2>3. QED
    BY <2>1, <2>2
<1>4. QED
  BY <1>1, <1>2, <1>3

\* The innermost table is searched first.
LEMMA InnerStep ==
  ASSUME NEW ts, NEW h \in Nat, h >= 1, NEW n
  PROVE  Inner(ts, h, n) = IF ts[h][n] # NoSymbol THEN ts[h][n] ELSE Inner(ts, h - 1, n)
<1>1. \/ Inner(ts, h, n) = NoSymbol /\ \A i \in 1 .. h : ts[i][n] = NoSymbol
      \/ \E k \in 1 .. h : /\ ts[k][n] # NoSymbol /\ Inner(ts, h, n) = ts[k][n]
                           /\ \A i \in k + 1 .. h : ts[i][n] = NoSymbol
  BY InnerFound
<1>2. \/ Inner(ts, h - 1, n) = NoSymbol /\ \A i \in 1 .. h - 1 : ts[i][n] = NoSymbol
      \/ \E k \in 1 .. h - 1 : /\ ts[k][n] # NoSymbol /\ Inner(ts, h - 1, n) = ts[k][n]
                               /\ \A i \in k + 1 .. h - 1 : ts[i][n] = NoSymbol
  BY InnerFound
<1>3. CASE ts[h][n] # NoSymbol
  BY <1>1, <1>3
<1>4. CASE ts[h][n] = NoSymbol
  <2>1. ASSUME NEW k \in 1 .. h, ts[k][n] # NoSymbol, \A i \in k + 1 .. h : ts[i][n] = NoSymbol,
               NEW l \in 1 .. h - 1, ts[l][n] # NoSymbol,
               \A i \in l + 1 .. h - 1 : ts[i][n] = NoSymbol
        PROVE  k = l
    <3>1. ~(k < l)
      BY <2>1
    <3>2. ~(l < k)
      BY <1>4, <2>1
    <3>3. QED
      BY <3>1, <3>2
  <2>2. \A k \in 1 .. h : ts[k][n] # NoSymbol => k \in 1 .. h - 1
    BY <1>4
  <2>3. \A l \in 1 .. h - 1 : l \in 1 .. h
    OBVIOUS
  <2>4. QED
    BY <1>1, <1>2, <1>4, <2>1, <2>2, <2>3
<1>5. QED
  BY <1>3, <1>4

\* Nothing is found if and only if no table has an entry.
LEMMA InnerNone ==
  ASSUME NEW ts, NEW h \in Nat, NEW n
  PROVE  Inner(ts, h, n) = NoSymbol <=> \A i \in 1 .. h : ts[i][n] = NoSymbol
BY InnerFound

\* What a search finds is a symbol or NoSymbol.
LEMMA InnerType ==
  ASSUME NEW ts \in Seq(Table), NEW h \in 0 .. Len(ts), NEW n \in Names
  PROVE  Inner(ts, h, n) \in Symbol \cup {NoSymbol}
<1>1. \A k \in 1 .. h : ts[k] \in Table
  OBVIOUS
<1>2. \A k \in 1 .. h : ts[k][n] \in Symbol \cup {NoSymbol}
  BY <1>1 DEF Table
<1>3. QED
  BY <1>2, InnerFound

\* Sema's lookup is a search of all environments.
LEMMA FoundIsInner ==
  ASSUME NEW es \in Seq(Table), NEW n
  PROVE  FindObjSymbol(es, n) = Inner(es, Len(es), n)
<1>1. EnvsWith(es, n) = {i \in 1 .. Len(es) : es[i][n] # NoSymbol}
  BY DEF EnvsWith
<1>2. QED
  BY <1>1 DEF FindObjSymbol, Inner

\* CodeGen's lookup is a search of localVarMap, then of globalVarMap.
LEMMA GetVarIsStorage ==
  ASSUME localVarMap \in Seq(Table), NEW n
  PROVE  GetVarByName(n) = Storage(globalVarMap, localVarMap, Len(localVarMap), n)
<1> DEFINE hits == {i \in 1 .. Len(localVarMap) : localVarMap[i][n] # NoSymbol}
<1>1. {i \in DOMAIN localVarMap : localVarMap[i][n] # NoSymbol} = hits
  OBVIOUS
<1>2. CASE hits = {}
  <2>1. Inner(localVarMap, Len(localVarMap), n) = NoSymbol
    BY <1>2 DEF Inner
  <2>2. GetVarByName(n) = globalVarMap[n]
    BY <1>1, <1>2 DEF GetVarByName
  <2>3. QED
    BY <2>1, <2>2 DEF Storage
<1>3. CASE hits # {}
  <2>1. Max(hits) \in hits
    <3>1. Len(localVarMap) \in Nat /\ hits \in SUBSET (1 .. Len(localVarMap))
      OBVIOUS
    <3> HIDE DEF hits
    <3>2. QED
      BY <1>3, <3>1, MaxOfIndices
  <2>2. Inner(localVarMap, Len(localVarMap), n) = localVarMap[Max(hits)][n]
    BY <1>3 DEF Inner
  <2>3. GetVarByName(n) = localVarMap[Max(hits)][n]
    BY <1>1, <1>3 DEF GetVarByName
  <2>4. localVarMap[Max(hits)][n] # NoSymbol
    BY <2>1
  <2>5. QED
    BY <2>2, <2>3, <2>4 DEF Storage
<1>4. QED
  BY <1>2, <1>3

-----------------------------------------------------------------------------
(* One more node. *)

\* The tables stay tables.
LEMMA EffectType ==
  ASSUME NEW d \in Node, NEW g \in Table, NEW l \in Seq(Table)
  PROVE  GlobalAfter(d, g) \in Table /\ LocalAfter(d, l) \in Seq(Table)
<1>1. GlobalAfter(d, g) \in Table
  <2>1. CASE d.kind \in {"gvar", "func"}
    <3>1. d.name \in Names /\ d.sym \in Symbol
      BY <2>1 DEF Node
    <3>2. [d.sym EXCEPT !.body = FALSE] \in Symbol
      BY <3>1 DEF Symbol
    <3>3. QED
      BY <3>1, <3>2, InsertType DEF GlobalAfter
  <2>2. CASE d.kind \notin {"gvar", "func"}
    BY <2>2 DEF GlobalAfter
  <2>3. QED
    BY <2>1, <2>2
<1>2. CASE d.kind = "func"
  <2>1. d.params \in Seq(Names) /\ d.first \in Nat
    BY <1>2 DEF Node
  <2>2. ParamTable(d) \in Table
    BY <2>1, ParameterTableType DEF ParamTable
  <2>3. <<ParamTable(d)>> \in Seq(Table) /\ <<>> \in Seq(Table)
    BY <2>2
  <2>4. QED
    BY <1>1, <1>2, <2>3 DEF LocalAfter
<1>3. CASE d.kind \in {"endfunc", "endblock", "endcase"}
  BY <1>1, <1>3, PopType DEF LocalAfter
<1>4. CASE d.kind \in {"block", "case"}
  BY <1>1, <1>4, EmptyTableType DEF LocalAfter
<1>5. CASE d.kind = "var"
  <2> DEFINE t == Insert(l[Len(l)], d.name, d.sym)
  <2>1. LocalAfter(d, l) = [l EXCEPT ![Len(l)] = t]
    BY <1>5 DEF LocalAfter
  <2>2. CASE Len(l) = 0
    <3>1. l = <<>>
      BY <2>2
    <3> HIDE DEF t
    <3>2. [l EXCEPT ![Len(l)] = t] = [i \in {} |-> IF i = Len(l) THEN t ELSE l[i]]
      BY <2>2, <3>1
    <3>3. [l EXCEPT ![Len(l)] = t] = l
      BY <3>1, <3>2
    <3>4. QED
      BY <1>1, <2>1, <3>3
  <2>3. CASE Len(l) # 0
    <3>1. Len(l) \in 1 .. Len(l) /\ d.name \in Names /\ d.sym \in Symbol
      BY <1>5, <2>3 DEF Node
    <3>2. l[Len(l)] \in Table
      BY <3>1, ElementOfSeq
    <3>3. t \in Table
      BY <3>1, <3>2, InsertType
    <3> HIDE DEF t
    <3>4. [l EXCEPT ![Len(l)] = t] \in Seq(Table)
      BY <3>1, <3>3
    <3>5. QED
      BY <1>1, <2>1, <3>4
  <2>4. QED
    BY <2>2, <2>3
<1>6. CASE d.kind \notin {"func", "endfunc", "endblock", "endcase", "block", "case", "var"}
  BY <1>1, <1>6 DEF LocalAfter
<1>7. QED
  BY <1>2, <1>3, <1>4, <1>5, <1>6

\* A visit goes on with the next node.
LEMMA VisitAppend ==
  ASSUME NEW a \in Seq(Node), NEW d \in Node, NEW gs, NEW ls, IsVisit(gs, ls, a),
         NEW g, g = GlobalAfter(d, gs[Len(a) + 1]),
         NEW l, l = LocalAfter(d, ls[Len(a) + 1]),
         Len(l) = Len(ls[Len(a) + 1]) + Pushes(d)
  PROVE  IsVisit(Append(gs, g), Append(ls, l), Append(a, d))
<1> DEFINE N == Len(a) + 1
           b == Append(a, d)
           hs == Append(gs, g)
           ms == Append(ls, l)
<1>1. /\ gs \in Seq(Table) /\ ls \in Seq(Seq(Table)) /\ Len(gs) = N /\ Len(ls) = N
      /\ N \in Nat /\ N >= 1 /\ gs[N] \in Table /\ ls[N] \in Seq(Table)
  <2>1. gs \in Seq(Table) /\ ls \in Seq(Seq(Table)) /\ Len(gs) = N /\ Len(ls) = N
    BY DEF IsVisit
  <2>2. N \in Nat /\ N >= 1 /\ N \in 1 .. N
    OBVIOUS
  <2>3. QED
    BY <2>1, <2>2, ElementOfSeq
<1>2. g \in Table /\ l \in Seq(Table)
  BY <1>1, EffectType
<1>3. /\ hs \in Seq(Table) /\ Len(hs) = N + 1 /\ hs[N + 1] = g
      /\ \A i \in 1 .. N : hs[i] = gs[i]
  BY <1>1, <1>2, AppendParts
<1>4. /\ ms \in Seq(Seq(Table)) /\ Len(ms) = N + 1 /\ ms[N + 1] = l
      /\ \A i \in 1 .. N : ms[i] = ls[i]
  BY <1>1, <1>2, AppendParts
<1>5. Len(b) = N /\ b[N] = d /\ \A i \in 1 .. Len(a) : b[i] = a[i]
  BY AppendParts
<1> HIDE DEF b, hs, ms
<1>6. ASSUME NEW q \in 1 .. Len(b)
      PROVE  /\ hs[q + 1] = GlobalAfter(b[q], hs[q])
             /\ ms[q + 1] = LocalAfter(b[q], ms[q])
             /\ Len(ms[q + 1]) = Len(ms[q]) + Pushes(b[q])
  <2>1. CASE q \in 1 .. Len(a)
    <3>1. q \in 1 .. N /\ q + 1 \in 1 .. N
      BY <2>1
    <3>2. QED
      BY <1>3, <1>4, <1>5, <2>1, <3>1 DEF IsVisit
  <2>2. CASE q = N
    <3>1. N \in 1 .. N
      BY <1>1
    <3>2. QED
      BY <1>3, <1>4, <1>5, <2>2, <3>1
  <2>3. QED
    BY <1>5, <2>1, <2>2
<1>7. hs[1] = EmptyTable /\ ms[1] = <<>>
  BY <1>1, <1>3, <1>4 DEF IsVisit
<1>8. QED
  BY <1>3, <1>4, <1>5, <1>6, <1>7 DEF IsVisit, b, hs, ms

\* Node d takes the constructs from fs, with the tables rs, to fs2 and rs2 and
\* the visit from the tables G and L to g and l.  It opens constructs, or is the
\* end of the innermost; the others keep their number of tables and, all but
\* the for, the tables around them.
Fits(d, fs, rs, fs2, rs2, G, L, g, l) ==
    /\ Len(fs) <= Len(fs2) + 1
    /\ \A D \in 2 .. Len(fs) :
         IF D <= Len(fs2)
           THEN /\ fs2[D].kind = fs[D].kind /\ rs2[D] = rs[D] /\ d.depth >= D
                /\ fs[D].kind # "for" => g = G /\ \A t \in 1 .. rs[D] - 1 : l[t] = L[t]
           ELSE /\ d.depth < D
                /\ \/ d.kind = "endfor"
                   \/ /\ d.kind \in {"endblock", "endcase"} /\ fs[D].kind # "for"
                      /\ rs[D] = Len(L) /\ rs[D] >= 1
    /\ d.kind = "jump" =>
         /\ d.depth \in 2 .. Len(fs2)
         /\ fs2[d.depth].kind # "for" => g = G /\ l = L /\ Len(l) = rs2[d.depth]

\* Such a node keeps what is known of the jumps.
LEMMA JumpsAppend ==
  ASSUME NEW a \in Seq(Node), NEW d \in Node, NEW gs, NEW ls, IsVisit(gs, ls, a),
         NEW rs, NEW fs \in Seq(Frame), JumpsMatch(gs, ls, rs, a, fs),
         NEW g \in Table, NEW l \in Seq(Table), NEW rs2, NEW fs2 \in Seq(Frame),
         Fits(d, fs, rs, fs2, rs2, gs[Len(a) + 1], ls[Len(a) + 1], g, l)
  PROVE  JumpsMatch(Append(gs, g), Append(ls, l), rs2, Append(a, d), fs2)
<1> DEFINE N == Len(a) + 1
           b == Append(a, d)
           hs == Append(gs, g)
           ms == Append(ls, l)
<1>1. /\ gs \in Seq(Table) /\ ls \in Seq(Seq(Table)) /\ Len(gs) = N /\ Len(ls) = N
      /\ N \in Nat /\ N >= 1
  BY DEF IsVisit
<1>2. hs[N + 1] = g /\ \A i \in 1 .. N : hs[i] = gs[i]
  BY <1>1, AppendParts
<1>3. ms[N + 1] = l /\ \A i \in 1 .. N : ms[i] = ls[i]
  BY <1>1, AppendParts
<1>4. /\ b \in Seq(Node) /\ Len(b) = N /\ b[N] = d /\ \A i \in 1 .. Len(a) : b[i] = a[i]
      /\ DOMAIN a = 1 .. Len(a) /\ DOMAIN b = 1 .. N
      /\ \A i \in 1 .. N : i \in 1 .. Len(a) \/ i = N
  BY AppendParts
<1>5. /\ Len(fs) \in Nat /\ Len(fs2) \in Nat
      /\ \A i \in DOMAIN a : i \in 1 .. N /\ i \in Nat /\ a[i].depth \in Int
  <2>1. \A i \in DOMAIN a : a[i].depth \in Int
    BY DEF Node
  <2>2. \A i \in DOMAIN a : i \in 1 .. N /\ i \in Nat
    OBVIOUS
  <2>3. QED
    BY <2>1, <2>2
<1> HIDE DEF b, hs, ms
<1>6. ASSUME NEW i \in DOMAIN b, b[i].kind = "jump"
      PROVE  OpenJump(hs, ms, rs2, b, fs2, i) \/ ClosedJump(hs, ms, b, i)
  <2>1. CASE i \in 1 .. Len(a) /\ ClosedJump(gs, ls, a, i)
    <3>1. PICK c \in DOMAIN a :
            /\ c > i /\ a[c].depth < a[i].depth
            /\ \A j \in i + 1 .. c - 1 : a[j].depth >= a[i].depth
            /\ \/ a[c].kind = "endfor"
               \/ /\ a[c].kind \in {"endblock", "endcase"}
                  /\ gs[c] = gs[i] /\ Len(ls[c]) = Len(ls[i]) /\ Len(ls[i]) >= 1
                  /\ \A t \in 1 .. Len(ls[i]) - 1 : ls[i][t] = ls[c][t]
      BY <2>1 DEF ClosedJump
    <3>2. c \in 1 .. Len(a) /\ c \in 1 .. N /\ i \in 1 .. N
      BY <1>4, <1>5, <2>1
    <3>3. \A j \in i + 1 .. c - 1 : j \in 1 .. Len(a)
      BY <2>1, <3>2
    <3>4. b[c] = a[c] /\ b[i] = a[i] /\ \A j \in i + 1 .. c - 1 : b[j] = a[j]
      BY <1>4, <2>1, <3>2, <3>3
    <3>5. gs[c] = hs[c] /\ gs[i] = hs[i] /\ ls[c] = ms[c] /\ ls[i] = ms[i]
      BY <1>2, <1>3, <3>2
    <3>6. c \in DOMAIN b
      BY <1>4, <3>2
    <3>7. QED
      BY ZenonT(60), <3>1, <3>4, <3>5, <3>6 DEF ClosedJump
  <2>2. CASE i \in 1 .. Len(a) /\ OpenJump(gs, ls, rs, a, fs, i)
    <3> DEFINE D == a[i].depth
    <3>1. /\ D \in 2 .. Len(fs) /\ \A j \in i + 1 .. Len(a) : a[j].depth >= D
          /\ fs[D].kind # "for" =>
               /\ gs[i] = gs[N] /\ Len(ls[i]) = rs[D]
               /\ \A t \in 1 .. rs[D] - 1 : ls[i][t] = ls[N][t]
      BY <2>2 DEF OpenJump
    <3>2. b[i] = a[i] /\ i \in 1 .. N /\ hs[i] = gs[i] /\ ms[i] = ls[i] /\ N \in 1 .. N
          /\ hs[N] = gs[N] /\ ms[N] = ls[N]
      BY <1>1, <1>2, <1>3, <1>4, <2>2
    <3>3. CASE D <= Len(fs2)
      <4>1. /\ fs2[D].kind = fs[D].kind /\ rs2[D] = rs[D] /\ d.depth >= D
            /\ fs[D].kind # "for" => g = gs[N] /\ \A t \in 1 .. rs[D] - 1 : l[t] = ls[N][t]
        BY <3>1, <3>3 DEF Fits
      <4>2. ASSUME NEW j \in i + 1 .. N PROVE b[j].depth >= D
        <5>1. (j \in i + 1 .. Len(a) /\ b[j] = a[j]) \/ b[j] = d
          BY <1>4, <2>2
        <5>2. QED
          BY <3>1, <4>1, <5>1
      <4>3. D \in 2 .. Len(fs2)
        BY <1>5, <3>1, <3>3
      <4> HIDE DEF D
      <4>4. OpenJump(hs, ms, rs2, b, fs2, i)
        <5>1. b[i].depth = D /\ Len(b) = N
          BY <1>4, <3>2 DEF D
        <5>2. fs2[D].kind # "for" =>
                /\ hs[i] = hs[N + 1] /\ Len(ms[i]) = rs2[D]
                /\ \A t \in 1 .. rs2[D] - 1 : ms[i][t] = ms[N + 1][t]
          BY <1>2, <1>3, <3>1, <3>2, <4>1
        <5>3. QED
          BY <4>2, <4>3, <5>1, <5>2 DEF OpenJump
      <4>5. QED
        BY <4>4
    <3>4. CASE ~(D <= Len(fs2))
      <4>1. /\ d.depth < D
            /\ \/ d.kind = "endfor"
               \/ /\ d.kind \in {"endblock", "endcase"} /\ fs[D].kind # "for"
                  /\ rs[D] = Len(ls[N]) /\ rs[D] >= 1
        BY <3>1, <3>4 DEF Fits
      <4>2. \A j \in i + 1 .. N - 1 : b[j].depth >= D
        BY <1>4, <2>2, <3>1
      <4>3. N \in DOMAIN b /\ N > i /\ b[N] = d /\ b[i].depth = D
        BY <1>1, <1>4, <2>2, <3>2
      <4> HIDE DEF D
      <4>4. \/ b[N].kind = "endfor"
            \/ /\ b[N].kind \in {"endblock", "endcase"}
               /\ hs[N] = hs[i] /\ Len(ms[N]) = Len(ms[i]) /\ Len(ms[i]) >= 1
               /\ \A t \in 1 .. Len(ms[i]) - 1 : ms[i][t] = ms[N][t]
        BY <3>1, <3>2, <4>1, <4>3
      <4> HIDE DEF N
      <4>5. ClosedJump(hs, ms, b, i)
        BY <4>1, <4>2, <4>3, <4>4 DEF ClosedJump
      <4>6. QED
        BY <4>5
    <3>5. QED
      BY <3>3, <3>4
  <2>3. CASE i = N
    <3>1. b[i] = d /\ d.kind = "jump" /\ Len(b) = N
      BY <1>4, <1>6, <2>3
    <3>2. hs[i] = gs[N] /\ ms[i] = ls[N] /\ hs[N + 1] = g /\ ms[N + 1] = l
      BY <1>1, <1>2, <1>3, <2>3
    <3>3. \A j \in i + 1 .. N : b[j].depth >= d.depth
      BY <1>1, <2>3
    <3>4. /\ d.depth \in 2 .. Len(fs2)
          /\ fs2[d.depth].kind # "for" => g = gs[N] /\ l = ls[N] /\ Len(l) = rs2[d.depth]
      BY <3>1 DEF Fits
    <3> HIDE DEF N
    <3>5. OpenJump(hs, ms, rs2, b, fs2, i)
      BY <3>1, <3>2, <3>3, <3>4 DEF OpenJump
    <3>6. QED
      BY <3>5
  <2>4. QED
    <3>1. i \in 1 .. Len(a) => a[i].kind = "jump"
      BY <1>4, <1>6
    <3>2. QED
      BY <1>4, <2>1, <2>2, <2>3, <3>1 DEF JumpsMatch
<1>7. QED
  BY <1>6 DEF JumpsMatch, b, hs, ms

-----------------------------------------------------------------------------
(* Tables, constructs and jumps after one more node of each kind. *)

\* The tables G and L are the last of the visit gs, ls of the nodes a, in the
\* innermost of the open constructs fs, which have the tables rs; its
\* environment is the h-th.
Struct(gs, ls, rs, a, fs, h, G, L) ==
    /\ a \in Seq(Node) /\ fs \in Seq(Frame)
    /\ G = gs[Len(a) + 1] /\ L = ls[Len(a) + 1]
    /\ IsVisit(gs, ls, a)
    /\ Levels(rs, fs, Len(L), h)
    /\ JumpsMatch(gs, ls, rs, a, fs)

\* What these are.
LEMMA StructTop ==
  ASSUME NEW gs, NEW ls, NEW rs, NEW a, NEW fs, NEW h, NEW G, NEW L,
         Struct(gs, ls, rs, a, fs, h, G, L)
  PROVE  /\ a \in Seq(Node) /\ fs \in Seq(Frame) /\ rs \in Seq(Nat)
         /\ Len(a) \in Nat /\ Len(fs) \in Nat /\ Len(rs) = Len(fs)
         /\ gs \in Seq(Table) /\ ls \in Seq(Seq(Table))
         /\ Len(gs) = Len(a) + 1 /\ Len(ls) = Len(a) + 1
         /\ gs[Len(a) + 1] = G /\ ls[Len(a) + 1] = L
         /\ G \in Table /\ L \in Seq(Table) /\ Len(L) \in Nat
         /\ Levels(rs, fs, Len(L), h)
         /\ IF fs = <<>> THEN Len(L) = 0 /\ h = 1 ELSE Len(L) = rs[Len(fs)] /\ h = fs[Len(fs)].height
<1>1. a \in Seq(Node) /\ fs \in Seq(Frame) /\ Len(a) \in Nat /\ Len(fs) \in Nat
  BY DEF Struct
<1>2. /\ gs \in Seq(Table) /\ ls \in Seq(Seq(Table))
      /\ Len(gs) = Len(a) + 1 /\ Len(ls) = Len(a) + 1
      /\ gs[Len(a) + 1] = G /\ ls[Len(a) + 1] = L
  BY DEF Struct, IsVisit
<1>3. Len(a) + 1 \in 1 .. Len(gs) /\ Len(a) + 1 \in 1 .. Len(ls)
  BY <1>1, <1>2
<1>4. G \in Table /\ L \in Seq(Table)
  BY <1>2, <1>3, ElementOfSeq
<1>5. Levels(rs, fs, Len(L), h)
  BY DEF Struct
<1>6. rs \in Seq(Nat) /\ Len(rs) = Len(fs)
  BY <1>5 DEF Levels
<1>7. Len(L) \in Nat
  BY <1>4
<1>8. IF fs = <<>> THEN Len(L) = 0 /\ h = 1 ELSE Len(L) = rs[Len(fs)] /\ h = fs[Len(fs)].height
  BY <1>5 DEF Levels
<1>9. QED
  BY <1>1, <1>2, <1>4, <1>5, <1>6, <1>7, <1>8

\* A construct is opened: all but a for have a table, all but a label an
\* environment of their own.
LEMMA LevelsPush ==
  ASSUME NEW rs, NEW fs \in Seq(Frame), NEW r \in Nat, NEW h \in Nat, Levels(rs, fs, r, h),
         NEW f \in Frame, f.kind = "func" <=> fs = <<>>, NEW r2 \in Nat,
         IF f.kind = "for" THEN r2 = r ELSE r2 = r + 1,
         f.kind = "case" \/ f.height > h, f.height >= h
  PROVE  Levels(Append(rs, r2), Append(fs, f), r2, f.height)
<1> DEFINE qs == Append(rs, r2)
           es == Append(fs, f)
           L == Len(fs)
<1>1. rs \in Seq(Nat) /\ Len(rs) = L /\ L \in Nat
  BY DEF Levels
<1>2. /\ qs \in Seq(Nat) /\ Len(qs) = L + 1 /\ qs[L + 1] = r2
      /\ \A i \in 1 .. L : qs[i] = rs[i]
  BY <1>1, AppendParts
<1>3. /\ es \in Seq(Frame) /\ Len(es) = L + 1 /\ es[L + 1] = f
      /\ \A i \in 1 .. L : es[i] = fs[i]
      /\ \A i \in 1 .. L + 1 : i \in 1 .. L \/ i = L + 1
  BY AppendParts
<1>4. es # <<>>
  BY AppendProperties, ZenonT(60)
<1>5. \A k \in 1 .. L : /\ fs[k].height \in Nat /\ rs[k] \in Nat
  <2>1. \A k \in 1 .. L : fs[k] \in Frame /\ rs[k] \in Nat
    BY <1>1, ElementOfSeq
  <2>2. QED
    BY <2>1 DEF Frame
<1>6. f.height \in Nat
  BY DEF Frame
<1>7. IF fs = <<>> THEN r = 0 /\ h = 1 ELSE r = rs[L] /\ h = fs[L].height
  BY DEF Levels
<1>8. \A k \in 1 .. L : rs[k] <= r /\ fs[k].height <= h
  <2> SUFFICES ASSUME NEW k \in 1 .. L PROVE rs[k] <= r /\ fs[k].height <= h
    OBVIOUS
  <2>1. fs # <<>>
    BY <1>1
  <2>2. L \in 1 .. L /\ (k = L \/ k \in 1 .. L - 1)
    BY <1>1
  <2>3. \A j \in 1 .. L - 1 : rs[j] <= rs[L] /\ fs[j].height <= fs[L].height
    BY <2>2 DEF Levels
  <2>4. QED
    BY <1>5, <1>7, <2>1, <2>2, <2>3
<1>9. fs = <<>> <=> L = 0
  BY <1>1
<1> HIDE DEF qs, es
<1>10. ASSUME NEW k \in 1 .. L + 1
       PROVE  /\ qs[k] >= 1 /\ es[k].height >= 2
              /\ es[k].kind = "func" <=> k = 1
              /\ qs[k] = (IF k = 1 THEN 0 ELSE qs[k - 1]) + (IF es[k].kind = "for" THEN 0 ELSE 1)
              /\ \E j \in 1 .. k : es[j].kind # "for" /\ qs[j] = qs[k]
              /\ \A j \in 1 .. k - 1 :
                   /\ qs[j] <= qs[k]
                   /\ es[k].kind # "for" => qs[j] < qs[k]
                   /\ es[j].height <= es[k].height
                   /\ es[k].kind # "case" => es[j].height < es[k].height
  <2>1. CASE k \in 1 .. L
    <3>1. \A j \in 1 .. k : es[j] = fs[j] /\ qs[j] = rs[j]
      <4>1. \A j \in 1 .. k : j \in 1 .. L
        BY <1>1, <2>1
      <4>2. QED
        BY <1>2, <1>3, <4>1
    <3>2. /\ rs[k] >= 1 /\ fs[k].height >= 2
          /\ fs[k].kind = "func" <=> k = 1
          /\ rs[k] = (IF k = 1 THEN 0 ELSE rs[k - 1]) + (IF fs[k].kind = "for" THEN 0 ELSE 1)
          /\ \E j \in 1 .. k : fs[j].kind # "for" /\ rs[j] = rs[k]
          /\ \A j \in 1 .. k - 1 :
               /\ rs[j] <= rs[k]
               /\ fs[k].kind # "for" => rs[j] < rs[k]
               /\ fs[j].height <= fs[k].height
               /\ fs[k].kind # "case" => fs[j].height < fs[k].height
      BY <2>1 DEF Levels
    <3>3. k \in 1 .. k /\ (k # 1 => k - 1 \in 1 .. k) /\ \A j \in 1 .. k - 1 : j \in 1 .. k
      BY <2>1
    <3>4. QED
      BY <3>1, <3>2, <3>3
  <2>2. CASE k = L + 1
    <3>1. es[k] = f /\ qs[k] = r2
      BY <1>2, <1>3, <2>2
    <3>2. \A j \in 1 .. k - 1 : j \in 1 .. L /\ es[j] = fs[j] /\ qs[j] = rs[j]
      BY <1>1, <1>2, <1>3, <2>2
    <3>3. /\ f.kind = "func" <=> k = 1
          /\ qs[k] = (IF k = 1 THEN 0 ELSE qs[k - 1]) + (IF es[k].kind = "for" THEN 0 ELSE 1)
      <4>1. f.kind = "func" <=> k = 1
        BY <1>1, <1>9, <2>2
      <4>2. CASE L = 0
        <5>1. k = 1 /\ r = 0 /\ f.kind # "for"
          BY <1>7, <1>9, <2>2, <4>1, <4>2
        <5>2. QED
          BY <3>1, <4>1, <5>1
      <4>3. CASE L # 0
        <5>1. k # 1 /\ k - 1 = L /\ L \in 1 .. L /\ r = rs[L]
          BY <1>1, <1>7, <1>9, <2>2, <4>3
        <5>2. qs[k - 1] = r
          BY <1>2, <5>1
        <5>3. QED
          BY <3>1, <4>1, <5>1, <5>2
      <4>4. QED
        BY <4>2, <4>3
    <3>4. \A j \in 1 .. k - 1 :
            /\ qs[j] <= qs[k]
            /\ es[k].kind # "for" => qs[j] < qs[k]
            /\ es[j].height <= es[k].height
            /\ es[k].kind # "case" => es[j].height < es[k].height
      <4> SUFFICES ASSUME NEW j \in 1 .. k - 1
                   PROVE  /\ qs[j] <= qs[k]
                          /\ es[k].kind # "for" => qs[j] < qs[k]
                          /\ es[j].height <= es[k].height
                          /\ es[k].kind # "case" => es[j].height < es[k].height
        OBVIOUS
      <4>1. j \in 1 .. L /\ es[j] = fs[j] /\ qs[j] = rs[j]
        BY <3>2
      <4>2. /\ rs[j] \in Nat /\ rs[j] <= r
            /\ fs[j].height \in Nat /\ fs[j].height <= h
        BY <1>5, <1>8, <4>1
      <4>3. /\ rs[j] <= r2 /\ (f.kind # "for" => rs[j] < r2)
            /\ fs[j].height <= f.height
            /\ f.kind # "case" => fs[j].height < f.height
        BY <1>6, <4>2
      <4>4. QED
        BY <3>1, <4>1, <4>3
    <3>5. CASE f.kind = "for"
      <4>1. L >= 1 /\ fs # <<>> /\ L \in 1 .. L
        BY <1>1, <1>9, <3>5
      <4>2. rs[L] >= 1 /\ fs[L].height >= 2 /\ \E j \in 1 .. L : fs[j].kind # "for" /\ rs[j] = rs[L]
        BY <4>1 DEF Levels
      <4>3. PICK j \in 1 .. L : fs[j].kind # "for" /\ rs[j] = rs[L]
        BY <4>2
      <4>4. es[j] = fs[j] /\ qs[j] = rs[j] /\ j \in 1 .. k
        BY <1>1, <1>2, <1>3, <2>2
      <4>5. r2 = rs[L] /\ f.height >= 2
        BY <1>5, <1>6, <1>7, <3>5, <4>1, <4>2
      <4>6. QED
        BY <3>1, <3>3, <3>4, <4>2, <4>3, <4>4, <4>5
    <3>6. CASE f.kind # "for"
      <4>1. k \in 1 .. k
        BY <1>1, <2>2
      <4>2. h >= 1 /\ (f.kind = "case" => h >= 2)
        <5>1. CASE fs = <<>>
          BY <1>7, <5>1
        <5>2. CASE fs # <<>>
          <6>1. L \in 1 .. L
            BY <1>1, <1>9, <5>2
          <6>2. fs[L].height >= 2
            BY <6>1 DEF Levels
          <6>3. QED
            BY <1>7, <5>2, <6>2
        <5>3. QED
          BY <5>1, <5>2
      <4>3. f.height >= 2
        BY <1>6, <4>2
      <4>4. r2 >= 1
        BY <3>6
      <4>5. QED
        BY <3>1, <3>3, <3>4, <3>6, <4>1, <4>3, <4>4
    <3>7. QED
      BY <3>5, <3>6
  <2>3. QED
    BY <1>3, <2>1, <2>2
<1>11. r2 = qs[Len(es)] /\ f.height = es[Len(es)].height
  BY <1>2, <1>3
<1>12. Levels(qs, es, r2, f.height)
  BY <1>2, <1>3, <1>4, <1>10, <1>11 DEF Levels
<1>13. QED
  BY <1>12 DEF qs, es

\* The innermost construct but the outermost is closed.
LEMMA LevelsPop ==
  ASSUME NEW rs, NEW fs \in Seq(Frame), NEW r, NEW h, Levels(rs, fs, r, h), Len(fs) >= 2
  PROVE  /\ Levels(Front(rs), Front(fs), rs[Len(fs) - 1], fs[Len(fs) - 1].height)
         /\ Front(rs) \in Seq(Nat) /\ Len(Front(rs)) = Len(fs) - 1
         /\ \A k \in 1 .. Len(fs) - 1 : Front(rs)[k] = rs[k]
<1> DEFINE qs == Front(rs)
           es == Front(fs)
           L == Len(fs)
<1>1. rs \in Seq(Nat) /\ Len(rs) = L /\ L \in Nat /\ L >= 2
  BY DEF Levels
<1>2. rs # <<>> /\ fs # <<>>
  BY <1>1, EmptySeq
<1>3. qs \in Seq(Nat) /\ Len(qs) = L - 1 /\ \A i \in 1 .. L - 1 : qs[i] = rs[i]
  BY <1>1, <1>2, FrontType
<1>4. es \in Seq(Frame) /\ Len(es) = L - 1 /\ \A i \in 1 .. L - 1 : es[i] = fs[i]
  BY <1>1, <1>2, FrontType
<1> HIDE DEF qs, es
<1>5. es # <<>> /\ L - 1 \in 1 .. L - 1
  BY <1>1, <1>4, EmptySeq
<1>6. ASSUME NEW k \in 1 .. L - 1
      PROVE  /\ qs[k] >= 1 /\ es[k].height >= 2
             /\ es[k].kind = "func" <=> k = 1
             /\ qs[k] = (IF k = 1 THEN 0 ELSE qs[k - 1]) + (IF es[k].kind = "for" THEN 0 ELSE 1)
             /\ \E j \in 1 .. k : es[j].kind # "for" /\ qs[j] = qs[k]
             /\ \A j \in 1 .. k - 1 :
                  /\ qs[j] <= qs[k]
                  /\ es[k].kind # "for" => qs[j] < qs[k]
                  /\ es[j].height <= es[k].height
                  /\ es[k].kind # "case" => es[j].height < es[k].height
  <2>1. \A j \in 1 .. k : es[j] = fs[j] /\ qs[j] = rs[j]
    <3>1. \A j \in 1 .. k : j \in 1 .. L - 1
      BY <1>1
    <3>2. QED
      BY <1>3, <1>4, <3>1
  <2>2. k \in 1 .. L /\ k \in 1 .. k /\ (k # 1 => k - 1 \in 1 .. k) /\ \A j \in 1 .. k - 1 : j \in 1 .. k
    BY <1>1
  <2>3. /\ rs[k] >= 1 /\ fs[k].height >= 2
        /\ fs[k].kind = "func" <=> k = 1
        /\ rs[k] = (IF k = 1 THEN 0 ELSE rs[k - 1]) + (IF fs[k].kind = "for" THEN 0 ELSE 1)
        /\ \E j \in 1 .. k : fs[j].kind # "for" /\ rs[j] = rs[k]
        /\ \A j \in 1 .. k - 1 :
             /\ rs[j] <= rs[k]
             /\ fs[k].kind # "for" => rs[j] < rs[k]
             /\ fs[j].height <= fs[k].height
             /\ fs[k].kind # "case" => fs[j].height < fs[k].height
    BY <2>2 DEF Levels
  <2>4. QED
    BY <2>1, <2>2, <2>3
<1>7. rs[L - 1] = qs[Len(es)] /\ fs[L - 1].height = es[Len(es)].height
  BY <1>3, <1>4, <1>5
<1>8. Levels(qs, es, rs[L - 1], fs[L - 1].height)
  BY <1>3, <1>4, <1>5, <1>6, <1>7 DEF Levels
<1>9. QED
  BY <1>3, <1>8 DEF qs, es

\* The open constructs around and at the innermost.
LEMMA LevelsBelow ==
  ASSUME NEW rs, NEW fs \in Seq(Frame), NEW r, NEW h, Levels(rs, fs, r, h), NEW D \in 1 .. Len(fs)
  PROVE  /\ rs[D] \in Nat /\ rs[D] >= 1 /\ rs[D] <= r /\ r \in Nat
         /\ fs[D].height \in Nat /\ fs[D].height >= 2 /\ fs[D].height <= h /\ h \in Nat
         /\ D = Len(fs) => rs[D] = r /\ fs[D].height = h
         /\ D < Len(fs) /\ fs[Len(fs)].kind # "for" => rs[D] < r
         /\ D < Len(fs) /\ fs[Len(fs)].kind # "case" => fs[D].height < h
         /\ fs[D].kind = "func" <=> D = 1
         /\ r = (IF Len(fs) = 1 THEN 0 ELSE rs[Len(fs) - 1])
                  + (IF fs[Len(fs)].kind = "for" THEN 0 ELSE 1)
<1> DEFINE L == Len(fs)
<1>1. fs # <<>> /\ L \in 1 .. L /\ L \in Nat
  OBVIOUS
<1>2. r = rs[L] /\ h = fs[L].height
  BY <1>1 DEF Levels
<1>3. \A k \in 1 .. L : rs[k] \in Nat /\ fs[k].height \in Nat
  <2>1. rs \in Seq(Nat) /\ Len(rs) = L
    BY DEF Levels
  <2>2. \A k \in 1 .. L : rs[k] \in Nat /\ fs[k] \in Frame
    BY <2>1, ElementOfSeq
  <2>3. QED
    BY <2>2 DEF Frame
<1>4. rs[D] >= 1 /\ fs[D].height >= 2 /\ (fs[D].kind = "func" <=> D = 1)
  BY DEF Levels
<1>5. D = L \/ D \in 1 .. L - 1
  BY <1>1
<1>6. \A j \in 1 .. L - 1 :
        /\ rs[j] <= rs[L]
        /\ fs[L].kind # "for" => rs[j] < rs[L]
        /\ fs[j].height <= fs[L].height
        /\ fs[L].kind # "case" => fs[j].height < fs[L].height
  BY <1>1 DEF Levels
<1>7. rs[L] = (IF L = 1 THEN 0 ELSE rs[L - 1]) + (IF fs[L].kind = "for" THEN 0 ELSE 1)
  BY <1>1 DEF Levels
<1>8. QED
  BY <1>1, <1>2, <1>3, <1>4, <1>5, <1>6, <1>7

\* The innermost construct is the one the visit and the parser are in.
LEMMA LevelsTop ==
  ASSUME NEW rs, NEW fs \in Seq(Frame), NEW r, NEW h, Levels(rs, fs, r, h), fs # <<>>
  PROVE  /\ rs[Len(fs)] = r /\ r \in Nat /\ r >= 1
         /\ fs[Len(fs)].height = h /\ h \in Nat /\ h >= 2
<1>1. \A D \in 1 .. Len(fs) :
        /\ rs[D] \in Nat /\ rs[D] >= 1
        /\ fs[D].height \in Nat /\ fs[D].height >= 2
        /\ D = Len(fs) => rs[D] = r /\ fs[D].height = h
  BY LevelsBelow
<1>2. Len(fs) \in 1 .. Len(fs)
  OBVIOUS
<1>3. QED
  BY <1>1, <1>2

\* The visit of d takes constructs, tables and environments from one node to
\* the next.
Follows(d, fs, rs, fs2, rs2, h2, G, L, g, l) ==
    /\ fs2 \in Seq(Frame)
    /\ g = GlobalAfter(d, G) /\ l = LocalAfter(d, L) /\ Len(l) = Len(L) + Pushes(d)
    /\ Levels(rs2, fs2, Len(l), h2)
    /\ Fits(d, fs, rs, fs2, rs2, G, L, g, l)

\* The visit goes on with a node that opens at most one construct, or closes
\* at most the innermost.
LEMMA StructStep ==
  ASSUME NEW gs, NEW ls, NEW rs, NEW a, NEW fs, NEW h, NEW G, NEW L,
         Struct(gs, ls, rs, a, fs, h, G, L),
         NEW d \in Node, NEW rs2, NEW fs2, NEW h2, NEW g, NEW l,
         Follows(d, fs, rs, fs2, rs2, h2, G, L, g, l)
  PROVE  Struct(Append(gs, g), Append(ls, l), rs2, Append(a, d), fs2, h2, g, l)
<1>0. /\ fs2 \in Seq(Frame)
      /\ g = GlobalAfter(d, G) /\ l = LocalAfter(d, L) /\ Len(l) = Len(L) + Pushes(d)
      /\ Levels(rs2, fs2, Len(l), h2)
      /\ Fits(d, fs, rs, fs2, rs2, G, L, g, l)
  BY DEF Follows
<1>1. /\ a \in Seq(Node) /\ fs \in Seq(Frame) /\ Len(a) \in Nat
      /\ gs \in Seq(Table) /\ ls \in Seq(Seq(Table))
      /\ Len(gs) = Len(a) + 1 /\ Len(ls) = Len(a) + 1
      /\ gs[Len(a) + 1] = G /\ ls[Len(a) + 1] = L
      /\ G \in Table /\ L \in Seq(Table)
  BY StructTop
<1>2. g \in Table /\ l \in Seq(Table)
  BY <1>0, <1>1, EffectType
<1>3. IsVisit(gs, ls, a) /\ JumpsMatch(gs, ls, rs, a, fs)
  BY DEF Struct
<1>4. IsVisit(Append(gs, g), Append(ls, l), Append(a, d))
  BY <1>0, <1>1, <1>3, VisitAppend
<1>5. JumpsMatch(Append(gs, g), Append(ls, l), rs2, Append(a, d), fs2)
  BY <1>0, <1>1, <1>2, <1>3, JumpsAppend
<1>6. Append(a, d) \in Seq(Node) /\ Len(Append(a, d)) = Len(a) + 1
  BY <1>1, AppendParts
<1>7. Append(gs, g)[Len(gs) + 1] = g
  BY <1>1, <1>2, AppendParts
<1>8. Append(ls, l)[Len(ls) + 1] = l
  BY <1>1, <1>2, AppendParts
<1>9. Len(gs) + 1 = Len(Append(a, d)) + 1 /\ Len(ls) + 1 = Len(Append(a, d)) + 1
  BY <1>1, <1>6
<1>10. g = Append(gs, g)[Len(Append(a, d)) + 1] /\ l = Append(ls, l)[Len(Append(a, d)) + 1]
  BY <1>7, <1>8, <1>9
<1>11. QED
  BY <1>0, <1>4, <1>5, <1>6, <1>10 DEF Struct

\* A use or a jump changes no table.
LEMMA StructStay ==
  ASSUME NEW gs, NEW ls, NEW rs, NEW a, NEW fs, NEW h, NEW G, NEW L,
         Struct(gs, ls, rs, a, fs, h, G, L),
         NEW d \in Node, d.kind \in {"use", "jump"}, d.depth = Len(fs),
         d.kind = "jump" => Len(fs) >= 2
  PROVE  Struct(Append(gs, G), Append(ls, L), rs, Append(a, d), fs, h, G, L)
<1>1. /\ fs \in Seq(Frame) /\ Len(fs) \in Nat /\ Len(L) \in Nat
      /\ IF fs = <<>> THEN Len(L) = 0 /\ h = 1 ELSE Len(L) = rs[Len(fs)] /\ h = fs[Len(fs)].height
  BY StructTop
<1>2. G = GlobalAfter(d, G) /\ L = LocalAfter(d, L)
  BY DEF GlobalAfter, LocalAfter
<1>3. Len(L) = Len(L) + Pushes(d)
  <2>1. Pushes(d) = 0
    BY DEF Pushes
  <2>2. QED
    BY <1>1, <2>1
<1>4. Levels(rs, fs, Len(L), h)
  BY DEF Struct
<1>5. \A D \in 2 .. Len(fs) : D <= Len(fs) /\ d.depth >= D
  BY <1>1
<1>6. Len(fs) <= Len(fs) + 1
  BY <1>1
<1>7. d.kind = "jump" => d.depth \in 2 .. Len(fs) /\ Len(L) = rs[d.depth]
  <2>1. SUFFICES ASSUME d.kind = "jump" PROVE d.depth \in 2 .. Len(fs) /\ Len(L) = rs[d.depth]
    OBVIOUS
  <2>2. fs # <<>> /\ Len(fs) \in 2 .. Len(fs)
    BY <1>1, <2>1
  <2>3. QED
    BY <1>1, <2>2
<1>8. Fits(d, fs, rs, fs, rs, G, L, G, L)
  BY <1>5, <1>6, <1>7 DEF Fits
<1>9. Follows(d, fs, rs, fs, rs, h, G, L, G, L)
  BY <1>1, <1>2, <1>3, <1>4, <1>8 DEF Follows
<1>10. QED
  BY <1>9, StructStep

\* A variable is entered in the innermost table.
LEMMA StructVar ==
  ASSUME NEW gs, NEW ls, NEW rs, NEW a, NEW fs, NEW h, NEW G, NEW L,
         Struct(gs, ls, rs, a, fs, h, G, L), fs # <<>>,
         NEW d \in Node, d.kind = "var", d.depth = Len(fs),
         NEW l, l = [L EXCEPT ![Len(L)] = Insert(@, d.name, d.sym)]
  PROVE  /\ Struct(Append(gs, G), Append(ls, l), rs, Append(a, d), fs, h, G, l)
         /\ Len(l) = Len(L) /\ Len(L) >= 1
         /\ l[Len(L)] = Insert(L[Len(L)], d.name, d.sym)
         /\ \A t \in 1 .. Len(L) - 1 : l[t] = L[t]
<1>1. /\ fs \in Seq(Frame) /\ Len(fs) \in Nat /\ Len(L) \in Nat /\ L \in Seq(Table)
      /\ Len(L) = rs[Len(fs)]
  BY StructTop
<1>2. G = GlobalAfter(d, G) /\ l = LocalAfter(d, L)
  BY DEF GlobalAfter, LocalAfter
<1>3. Levels(rs, fs, Len(L), h)
  BY DEF Struct
<1>4. Len(fs) \in 1 .. Len(fs)
  BY <1>1
<1>5. Len(L) >= 1
  BY <1>1, <1>3, <1>4, LevelsBelow
<1>6. /\ Len(l) = Len(L) /\ l[Len(L)] = Insert(L[Len(L)], d.name, d.sym)
      /\ \A t \in 1 .. Len(L) - 1 : l[t] = L[t]
  BY <1>1, <1>5
<1>7. Len(l) = Len(L) + Pushes(d)
  BY <1>1, <1>6 DEF Pushes
<1>8. \A D \in 2 .. Len(fs) :
        /\ D <= Len(fs) /\ d.depth >= D
        /\ \A t \in 1 .. rs[D] - 1 : l[t] = L[t]
  <2> SUFFICES ASSUME NEW D \in 2 .. Len(fs), NEW t \in 1 .. rs[D] - 1 PROVE l[t] = L[t]
    BY <1>1
  <2>1. D \in 1 .. Len(fs)
    OBVIOUS
  <2>2. rs[D] \in Nat /\ rs[D] <= Len(L)
    BY <1>1, <1>3, <2>1, LevelsBelow
  <2>3. t \in 1 .. Len(L) - 1
    BY <1>1, <2>2
  <2>4. QED
    BY <1>6, <2>3
<1>9. Len(fs) <= Len(fs) + 1 /\ Levels(rs, fs, Len(l), h)
  BY <1>1, <1>3, <1>6
<1>10. Fits(d, fs, rs, fs, rs, G, L, G, l)
  BY <1>8, <1>9 DEF Fits
<1>11. Follows(d, fs, rs, fs, rs, h, G, L, G, l)
  BY <1>1, <1>2, <1>7, <1>9, <1>10 DEF Follows
<1>12. Struct(Append(gs, G), Append(ls, l), rs, Append(a, d), fs, h, G, l)
  BY <1>11, StructStep
<1>13. QED
  BY <1>5, <1>6, <1>12

\* The height of a construct opened in an environment, the h-th.
Inside(f, h) == f.height = h + (IF f.kind = "case" THEN 0 ELSE 1)

\* A block or a label opens a construct with a table.
LEMMA StructPush ==
  ASSUME NEW gs, NEW ls, NEW rs, NEW a, NEW fs, NEW h, NEW G, NEW L,
         Struct(gs, ls, rs, a, fs, h, G, L), fs # <<>>,
         NEW d \in Node, d.kind \in {"block", "case"}, d.depth = Len(fs),
         NEW f \in Frame, f.kind = d.kind,
         Inside(f, h)
  PROVE  Struct(Append(gs, G), Append(ls, Append(L, EmptyTable)), Append(rs, Len(L) + 1),
                Append(a, d), Append(fs, f), f.height, G, Append(L, EmptyTable))
<1> DEFINE fs2 == Append(fs, f)
           rs2 == Append(rs, Len(L) + 1)
           l == Append(L, EmptyTable)
<1>0. f.height = h + (IF f.kind = "case" THEN 0 ELSE 1)
  BY DEF Inside
<1>1. /\ fs \in Seq(Frame) /\ Len(fs) \in Nat /\ Len(L) \in Nat /\ L \in Seq(Table)
      /\ rs \in Seq(Nat) /\ Len(rs) = Len(fs)
  BY StructTop
<1>2. G = GlobalAfter(d, G) /\ l = LocalAfter(d, L)
  BY DEF GlobalAfter, LocalAfter
<1>3. Levels(rs, fs, Len(L), h)
  BY DEF Struct
<1>4. Len(l) = Len(L) + 1 /\ \A t \in 1 .. Len(L) : l[t] = L[t]
  BY <1>1, EmptyTableType, AppendParts
<1>5. Len(l) = Len(L) + Pushes(d)
  BY <1>4 DEF Pushes
<1>6. h \in Nat
  <2>1. Len(fs) \in 1 .. Len(fs)
    BY <1>1
  <2>2. QED
    BY <1>1, <1>3, <2>1, LevelsBelow
<1>7. Levels(rs2, fs2, Len(L) + 1, f.height)
  <2>1. /\ f.kind \notin {"func", "for"} /\ Len(L) + 1 \in Nat
        /\ f.kind = "case" \/ f.height > h
        /\ f.height >= h
    BY <1>0, <1>1, <1>6
  <2>2. QED
    BY <1>1, <1>3, <1>6, <2>1, LevelsPush
<1>8. fs2 \in Seq(Frame) /\ Len(fs2) = Len(fs) + 1 /\ \A i \in 1 .. Len(fs) : fs2[i] = fs[i]
  BY <1>1, AppendParts
<1>9. \A i \in 1 .. Len(fs) : rs2[i] = rs[i]
  <2>1. Len(L) + 1 \in Nat
    BY <1>1
  <2>2. QED
    BY <1>1, <2>1, AppendParts
<1> HIDE DEF fs2, rs2, l
<1>10. \A D \in 2 .. Len(fs) :
         /\ D <= Len(fs2) /\ fs2[D].kind = fs[D].kind /\ rs2[D] = rs[D] /\ d.depth >= D
         /\ \A t \in 1 .. rs[D] - 1 : l[t] = L[t]
  <2> SUFFICES ASSUME NEW D \in 2 .. Len(fs)
               PROVE  /\ D <= Len(fs2) /\ fs2[D].kind = fs[D].kind /\ rs2[D] = rs[D] /\ d.depth >= D
                      /\ \A t \in 1 .. rs[D] - 1 : l[t] = L[t]
    OBVIOUS
  <2>1. D \in 1 .. Len(fs)
    OBVIOUS
  <2>2. rs[D] \in Nat /\ rs[D] <= Len(L)
    BY <1>1, <1>3, <2>1, LevelsBelow
  <2>3. \A t \in 1 .. rs[D] - 1 : t \in 1 .. Len(L)
    BY <1>1, <2>2
  <2>4. \A t \in 1 .. rs[D] - 1 : l[t] = L[t]
    BY <1>4, <2>3
  <2>5. D <= Len(fs2) /\ fs2[D].kind = fs[D].kind /\ rs2[D] = rs[D] /\ d.depth >= D
    BY <1>1, <1>8, <1>9, <2>1
  <2>6. QED
    BY <2>4, <2>5
<1>11. Len(fs) <= Len(fs2) + 1 /\ d.kind # "jump" /\ Levels(rs2, fs2, Len(l), f.height)
  BY <1>1, <1>4, <1>7, <1>8
<1>12. Fits(d, fs, rs, fs2, rs2, G, L, G, l)
  BY <1>10, <1>11 DEF Fits
<1>13. Follows(d, fs, rs, fs2, rs2, f.height, G, L, G, l)
  BY <1>2, <1>5, <1>8, <1>11, <1>12 DEF Follows
<1>14. Struct(Append(gs, G), Append(ls, l), rs2, Append(a, d), fs2, f.height, G, l)
  BY <1>13, StructStep
<1>15. QED
  BY <1>14 DEF fs2, rs2, l

\* A for opens a construct without a table.
LEMMA StructFor ==
  ASSUME NEW gs, NEW ls, NEW rs, NEW a, NEW fs, NEW h, NEW G, NEW L,
         Struct(gs, ls, rs, a, fs, h, G, L), fs # <<>>,
         NEW d \in Node, d.kind = "for", d.depth = Len(fs),
         NEW f \in Frame, f.kind = "for", f.height = h + 1
  PROVE  Struct(Append(gs, G), Append(ls, L), Append(rs, Len(L)), Append(a, d),
                Append(fs, f), f.height, G, L)
<1> DEFINE fs2 == Append(fs, f)
           rs2 == Append(rs, Len(L))
<1>1. /\ fs \in Seq(Frame) /\ Len(fs) \in Nat /\ Len(L) \in Nat /\ L \in Seq(Table)
      /\ rs \in Seq(Nat) /\ Len(rs) = Len(fs)
  BY StructTop
<1>2. G = GlobalAfter(d, G) /\ L = LocalAfter(d, L)
  BY DEF GlobalAfter, LocalAfter
<1>3. Levels(rs, fs, Len(L), h)
  BY DEF Struct
<1>4. Len(L) = Len(L) + Pushes(d)
  <2>1. Pushes(d) = 0
    BY DEF Pushes
  <2>2. QED
    BY <1>1, <2>1
<1>5. h \in Nat
  <2>1. Len(fs) \in 1 .. Len(fs)
    BY <1>1
  <2>2. QED
    BY <1>1, <1>3, <2>1, LevelsBelow
<1>6. Levels(rs2, fs2, Len(L), f.height)
  <2>1. f.kind \notin {"func", "case"} /\ f.height > h /\ f.height >= h
    BY <1>5
  <2>2. QED
    BY <1>1, <1>3, <1>5, <2>1, LevelsPush
<1>7. fs2 \in Seq(Frame) /\ Len(fs2) = Len(fs) + 1 /\ \A i \in 1 .. Len(fs) : fs2[i] = fs[i]
  BY <1>1, AppendParts
<1>8. \A i \in 1 .. Len(fs) : rs2[i] = rs[i]
  BY <1>1, AppendParts
<1> HIDE DEF fs2, rs2
<1>9. \A D \in 2 .. Len(fs) :
        D <= Len(fs2) /\ fs2[D].kind = fs[D].kind /\ rs2[D] = rs[D] /\ d.depth >= D
  <2> SUFFICES ASSUME NEW D \in 2 .. Len(fs)
               PROVE  D <= Len(fs2) /\ fs2[D].kind = fs[D].kind /\ rs2[D] = rs[D] /\ d.depth >= D
    OBVIOUS
  <2>1. D \in 1 .. Len(fs)
    OBVIOUS
  <2>2. QED
    BY <1>1, <1>7, <1>8, <2>1
<1>10. Len(fs) <= Len(fs2) + 1
  BY <1>1, <1>7
<1>11. Fits(d, fs, rs, fs2, rs2, G, L, G, L)
  BY <1>9, <1>10 DEF Fits
<1>12. Follows(d, fs, rs, fs2, rs2, f.height, G, L, G, L)
  BY <1>2, <1>4, <1>6, <1>7, <1>11 DEF Follows
<1>13. Struct(Append(gs, G), Append(ls, L), rs2, Append(a, d), fs2, f.height, G, L)
  BY <1>12, StructStep
<1>14. QED
  BY <1>13 DEF fs2, rs2

\* The innermost construct, but not the function, is closed; only a for leaves
\* the tables as they are.
LEMMA StructPop ==
  ASSUME NEW gs, NEW ls, NEW rs, NEW a, NEW fs, NEW h, NEW G, NEW L,
         Struct(gs, ls, rs, a, fs, h, G, L), Len(fs) >= 2,
         NEW d \in Node, d.depth = Len(fs) - 1,
         NEW l,
         \/ d.kind = "endfor" /\ fs[Len(fs)].kind = "for" /\ l = L
         \/ d.kind \in {"endblock", "endcase"} /\ fs[Len(fs)].kind # "for" /\ l = Front(L)
  PROVE  /\ Struct(Append(gs, G), Append(ls, l), Front(rs), Append(a, d), Front(fs),
                   fs[Len(fs) - 1].height, G, l)
         /\ l \in Seq(Table) /\ Len(l) = rs[Len(fs) - 1] /\ \A t \in 1 .. Len(l) : l[t] = L[t]
<1> DEFINE fs2 == Front(fs)
           rs2 == Front(rs)
           h2 == fs[Len(fs) - 1].height
<1>1. /\ fs \in Seq(Frame) /\ Len(fs) \in Nat /\ Len(L) \in Nat /\ L \in Seq(Table)
      /\ rs \in Seq(Nat) /\ Len(rs) = Len(fs) /\ fs # <<>> /\ Len(fs) \in 2 .. Len(fs)
  BY StructTop
<1>2. G = GlobalAfter(d, G) /\ l = LocalAfter(d, L)
  BY DEF GlobalAfter, LocalAfter
<1>3. Levels(rs, fs, Len(L), h) /\ Len(L) = rs[Len(fs)]
  BY <1>1, StructTop
<1>4. /\ Levels(rs2, fs2, rs[Len(fs) - 1], h2)
      /\ \A k \in 1 .. Len(fs) - 1 : rs2[k] = rs[k]
  BY <1>1, <1>3, LevelsPop
<1>5. /\ fs2 \in Seq(Frame) /\ Len(fs2) = Len(fs) - 1
      /\ \A i \in 1 .. Len(fs) - 1 : fs2[i] = fs[i]
  BY <1>1, FrontType
<1> HIDE DEF fs2, rs2, h2
<1>6. Len(L) >= 1
  BY <1>1, <1>3, LevelsBelow
<1>7. L # <<>>
  BY <1>6, EmptySeq
<1>8. Pushes(d) = IF d.kind = "endfor" THEN 0 ELSE 0 - 1
  BY DEF Pushes
<1>9. /\ l \in Seq(Table) /\ Len(l) = Len(L) + Pushes(d)
      /\ \A t \in 1 .. Len(l) : l[t] = L[t]
  <2>1. CASE d.kind = "endfor"
    BY <1>1, <1>8, <2>1
  <2>2. CASE d.kind \in {"endblock", "endcase"}
    <3>1. l = Front(L)
      BY <2>2
    <3>2. l \in Seq(Table) /\ Len(l) = Len(L) - 1 /\ \A t \in 1 .. Len(L) - 1 : l[t] = L[t]
      BY <1>1, <1>7, <3>1, FrontType
    <3>3. QED
      BY <1>1, <1>8, <2>2, <3>2
  <2>3. QED
    BY <2>1, <2>2
<1>10. ASSUME NEW D \in 2 .. Len(fs), D <= Len(fs2)
       PROVE  /\ fs2[D].kind = fs[D].kind /\ rs2[D] = rs[D] /\ d.depth >= D
              /\ \A t \in 1 .. rs[D] - 1 : l[t] = L[t]
  <2>1. D \in 1 .. Len(fs) - 1 /\ D \in 1 .. Len(fs)
    BY <1>1, <1>5, <1>10
  <2>2. rs[D] \in Nat /\ rs[D] <= Len(L) /\ (fs[Len(fs)].kind # "for" => rs[D] < Len(L))
    <3>1. D < Len(fs)
      BY <1>1, <2>1
    <3>2. QED
      BY <1>1, <1>3, <2>1, <3>1, LevelsBelow
  <2>3. \A t \in 1 .. rs[D] - 1 : t \in 1 .. Len(l)
    BY SMTT(60), <1>1, <1>8, <1>9, <2>2
  <2>4. d.depth >= D
    BY <1>1, <2>1
  <2>5. fs2[D].kind = fs[D].kind /\ rs2[D] = rs[D]
    BY <1>4, <1>5, <2>1
  <2>6. QED
    BY <1>9, <2>3, <2>4, <2>5
<1>11. ASSUME NEW D \in 2 .. Len(fs), ~(D <= Len(fs2))
       PROVE  /\ d.depth < D
              /\ \/ d.kind = "endfor"
                 \/ /\ d.kind \in {"endblock", "endcase"} /\ fs[D].kind # "for"
                    /\ rs[D] = Len(L) /\ rs[D] >= 1
  <2>1. D = Len(fs)
    BY <1>1, <1>5, <1>11
  <2>2. QED
    BY <1>1, <1>3, <1>6, <2>1
<1>12. Len(fs) <= Len(fs2) + 1 /\ d.kind # "jump"
  BY <1>1, <1>5
<1>13. Fits(d, fs, rs, fs2, rs2, G, L, G, l)
  BY <1>10, <1>11, <1>12 DEF Fits
<1>14. Len(l) = rs[Len(fs) - 1]
  <2>1. Len(L) = rs[Len(fs) - 1] + (IF fs[Len(fs)].kind = "for" THEN 0 ELSE 1)
    BY SMTT(60), <1>1, <1>3, LevelsBelow
  <2>2. rs[Len(fs) - 1] \in Nat
    <3>1. Len(fs) - 1 \in 1 .. Len(fs)
      BY <1>1
    <3>2. QED
      BY <1>1, <1>3, <3>1, LevelsBelow
  <2>3. QED
    BY SMTT(60), <1>1, <1>8, <1>9, <2>1, <2>2
<1>15. Follows(d, fs, rs, fs2, rs2, h2, G, L, G, l)
  BY <1>2, <1>4, <1>5, <1>9, <1>13, <1>14 DEF Follows
<1>16. Struct(Append(gs, G), Append(ls, l), rs2, Append(a, d), fs2, h2, G, l)
  BY <1>15, StructStep
<1>17. QED
  BY <1>9, <1>14, <1>16 DEF fs2, rs2, h2

\* Between two external declarations: a global, or a function's prototype.
LEMMA StructExternal ==
  ASSUME NEW gs, NEW ls, NEW rs, NEW a, NEW h, NEW G, NEW L,
         Struct(gs, ls, rs, a, <<>>, h, G, L),
         NEW d \in Node, d.kind = "gvar" \/ (d.kind = "func" /\ ~d.sym.body)
  PROVE  Struct(Append(gs, GlobalAfter(d, G)), Append(ls, <<>>), rs, Append(a, d), <<>>, h,
                GlobalAfter(d, G), <<>>)
<1>1. Len(L) = 0 /\ L \in Seq(Table) /\ Levels(rs, <<>>, Len(L), h)
  BY StructTop
<1>2. L = <<>>
  BY <1>1
<1>3. LocalAfter(d, L) = <<>> /\ Pushes(d) = 0 /\ d.kind # "jump"
  BY <1>2 DEF LocalAfter, Pushes
<1>4. Fits(d, <<>>, rs, <<>>, rs, G, L, GlobalAfter(d, G), <<>>)
  BY <1>3 DEF Fits
<1>5. <<>> \in Seq(Frame) /\ Len(L) = Len(L) + 0
  BY <1>1
<1>6. Follows(d, <<>>, rs, <<>>, rs, h, G, L, GlobalAfter(d, G), <<>>)
  BY <1>1, <1>2, <1>3, <1>4, <1>5 DEF Follows
<1>7. QED
  BY <1>6, StructStep

\* The accesses of a global's initialiser.
LEMMA StructExternalUse ==
  ASSUME NEW gs, NEW ls, NEW rs, NEW a, NEW h, NEW G, NEW L,
         Struct(gs, ls, rs, a, <<>>, h, G, L),
         NEW d \in Node, d.kind = "use", d.depth = 0
  PROVE  Struct(Append(gs, G), Append(ls, L), rs, Append(a, d), <<>>, h, G, L)
<1>1. d.kind \in {"use", "jump"} /\ d.depth = Len(<<>>) /\ d.kind # "jump"
  OBVIOUS
<1>2. QED
  BY <1>1, StructStay

\* A function's definition begins: its parameters are the first table.
LEMMA StructFunc ==
  ASSUME NEW gs, NEW ls, NEW rs, NEW a, NEW h, NEW G, NEW L,
         Struct(gs, ls, rs, a, <<>>, h, G, L),
         NEW d \in Node, d.kind = "func", d.sym.body,
         NEW f \in Frame, f.kind = "func", f.height = 2
  PROVE  Struct(Append(gs, GlobalAfter(d, G)), Append(ls, <<ParamTable(d)>>), Append(rs, 1),
                Append(a, d), Append(<<>>, f), 2, GlobalAfter(d, G), <<ParamTable(d)>>)
<1> DEFINE l == <<ParamTable(d)>>
           fs2 == Append(<<>>, f)
           rs2 == Append(rs, 1)
<1>1. Len(L) = 0 /\ L \in Seq(Table) /\ Levels(rs, <<>>, Len(L), h) /\ h = 1
  BY StructTop
<1>2. LocalAfter(d, L) = l /\ Pushes(d) = 1 /\ d.kind # "jump"
  BY DEF LocalAfter, Pushes
<1>3. Len(l) = 1
  OBVIOUS
<1>4. Levels(rs2, fs2, 1, 2)
  <2>1. /\ <<>> \in Seq(Frame) /\ Levels(rs, <<>>, 0, 1) /\ f.kind # "for" /\ f.kind # "case"
        /\ f.height > 1 /\ f.height >= 1 /\ 0 \in Nat /\ 1 \in Nat /\ 1 = 0 + 1
    BY <1>1
  <2>2. Levels(Append(rs, 1), Append(<<>>, f), 1, f.height)
    BY <2>1, LevelsPush
  <2>3. QED
    BY <2>2
<1>5. fs2 \in Seq(Frame) /\ Len(<<>>) <= Len(fs2) + 1 /\ Len(<<>>) = 0
  <2>1. fs2 \in Seq(Frame) /\ Len(<<>>) = 0
    OBVIOUS
  <2> HIDE DEF fs2
  <2>2. Len(fs2) \in Nat
    BY <2>1
  <2>3. QED
    BY <2>1, <2>2
<1> HIDE DEF l, fs2, rs2
<1>6. Fits(d, <<>>, rs, fs2, rs2, G, L, GlobalAfter(d, G), l)
  <2>1. \A D \in 2 .. Len(<<>>) : FALSE
    BY <1>5
  <2>2. QED
    BY <1>2, <1>5, <2>1 DEF Fits
<1>7. Follows(d, <<>>, rs, fs2, rs2, 2, G, L, GlobalAfter(d, G), l)
  BY <1>1, <1>2, <1>3, <1>4, <1>5, <1>6 DEF Follows
<1>8. Struct(Append(gs, GlobalAfter(d, G)), Append(ls, l), rs2, Append(a, d), fs2, 2,
             GlobalAfter(d, G), l)
  BY <1>7, StructStep
<1>9. QED
  BY <1>8 DEF l, fs2, rs2

\* A function has one table of parameters.
LEMMA LevelsOne ==
  ASSUME NEW rs, NEW fs \in Seq(Frame), NEW r, NEW h, Levels(rs, fs, r, h),
         Len(fs) <= 1, fs # <<>>
  PROVE  r = 1
<1> DEFINE D == Len(fs)
<1>1. D \in 1 .. Len(fs) /\ D = 1
  <2>1. Len(fs) \in Nat
    OBVIOUS
  <2>2. Len(fs) # 0
    OBVIOUS
  <2> HIDE DEF D
  <2>3. D \in Nat /\ D # 0 /\ D <= 1
    BY <2>1, <2>2 DEF D
  <2>4. D = 1 /\ D \in 1 .. D
    BY <2>3
  <2>5. QED
    BY <2>4 DEF D
<1>2. r = rs[D] /\ rs[D] \in Nat
  BY <1>1, LevelsBelow
<1>3. /\ fs[D].kind = "func" <=> D = 1
      /\ rs[D] = (IF D = 1 THEN 0 ELSE rs[D - 1]) + (IF fs[D].kind = "for" THEN 0 ELSE 1)
  BY <1>1 DEF Levels
<1> HIDE DEF D
<1>4. QED
  BY <1>1, <1>2, <1>3

\* The end of a function, after that of its body.
LEMMA StructFuncEnd ==
  ASSUME NEW gs, NEW ls, NEW rs, NEW a, NEW fs, NEW h, NEW G, NEW L,
         Struct(gs, ls, rs, a, fs, h, G, L), Len(fs) <= 1, fs # <<>>,
         NEW d \in Node, d.kind = "endfunc"
  PROVE  Struct(Append(gs, G), Append(ls, Front(L)), <<>>, Append(a, d), <<>>, 1, G, Front(L))
<1>1. /\ fs \in Seq(Frame) /\ L \in Seq(Table) /\ Levels(rs, fs, Len(L), h)
      /\ Len(L) \in Nat
  BY StructTop
<1>2. Len(L) = 1
  BY <1>1, LevelsOne
<1>3. L # <<>>
  BY <1>2, EmptySeq
<1>4. Len(Front(L)) = 0
  BY <1>1, <1>2, <1>3, FrontType
<1>5. /\ G = GlobalAfter(d, G) /\ Front(L) = LocalAfter(d, L) /\ Pushes(d) = 0 - 1
      /\ d.kind # "jump"
  BY DEF GlobalAfter, LocalAfter, Pushes
<1>6. Levels(<<>>, <<>>, 0, 1)
  BY DEF Levels
<1>7. Fits(d, fs, rs, <<>>, <<>>, G, L, G, Front(L))
  <2>1. (\A D \in 2 .. Len(fs) : FALSE) /\ Len(fs) <= Len(<<>>) + 1
    OBVIOUS
  <2>2. QED
    BY <1>5, <2>1 DEF Fits
<1>8. <<>> \in Seq(Frame)
  OBVIOUS
<1>9. Follows(d, fs, rs, <<>>, <<>>, 1, G, L, G, Front(L))
  BY <1>2, <1>4, <1>5, <1>6, <1>7, <1>8 DEF Follows
<1>10. QED
  BY <1>9, StructStep

\* Frames that differ in nothing the number of tables depends on.
SameKinds(fs, fs2) ==
    /\ fs2 \in Seq(Frame) /\ Len(fs2) = Len(fs)
    /\ \A k \in 1 .. Len(fs) : fs2[k].kind = fs[k].kind /\ fs2[k].height = fs[k].height

\* Frames that differ at most in what they know of a statement's progress.
Alike(fs, fs2) ==
    /\ SameKinds(fs, fs2)
    /\ \A k \in 1 .. Len(fs) : fs2[k].inc = fs[k].inc /\ fs2[k].name = fs[k].name

\* A construct's statement has been parsed, or its increment noted.
LEMMA StructAlike ==
  ASSUME NEW gs, NEW ls, NEW rs, NEW a, NEW fs, NEW h, NEW G, NEW L,
         Struct(gs, ls, rs, a, fs, h, G, L), NEW fs2, SameKinds(fs, fs2)
  PROVE  Struct(gs, ls, rs, a, fs2, h, G, L)
<1>1. /\ fs \in Seq(Frame) /\ fs2 \in Seq(Frame) /\ Len(fs) = Len(fs2)
      /\ Levels(rs, fs, Len(L), h) /\ JumpsMatch(gs, ls, rs, a, fs)
      /\ \A k \in 1 .. Len(fs) : fs2[k].kind = fs[k].kind /\ fs2[k].height = fs[k].height
  BY DEF Struct, SameKinds
<1>2. fs = <<>> <=> fs2 = <<>>
  BY <1>1
<1>3. fs # <<>> => Len(fs) \in 1 .. Len(fs)
  BY <1>1
<1>4. ASSUME NEW k \in 1 .. Len(fs2)
      PROVE  /\ rs[k] >= 1 /\ fs2[k].height >= 2
             /\ fs2[k].kind = "func" <=> k = 1
             /\ rs[k] = (IF k = 1 THEN 0 ELSE rs[k - 1]) + (IF fs2[k].kind = "for" THEN 0 ELSE 1)
             /\ \E j \in 1 .. k : fs2[j].kind # "for" /\ rs[j] = rs[k]
             /\ \A j \in 1 .. k - 1 :
                  /\ rs[j] <= rs[k]
                  /\ fs2[k].kind # "for" => rs[j] < rs[k]
                  /\ fs2[j].height <= fs2[k].height
                  /\ fs2[k].kind # "case" => fs2[j].height < fs2[k].height
  <2>1. k \in 1 .. Len(fs) /\ \A j \in 1 .. k : j \in 1 .. Len(fs)
    BY <1>1
  <2>2. \A j \in 1 .. k : fs2[j].kind = fs[j].kind /\ fs2[j].height = fs[j].height
    BY <1>1, <2>1
  <2>3. /\ rs[k] >= 1 /\ fs[k].height >= 2
        /\ fs[k].kind = "func" <=> k = 1
        /\ rs[k] = (IF k = 1 THEN 0 ELSE rs[k - 1]) + (IF fs[k].kind = "for" THEN 0 ELSE 1)
        /\ \E j \in 1 .. k : fs[j].kind # "for" /\ rs[j] = rs[k]
        /\ \A j \in 1 .. k - 1 :
             /\ rs[j] <= rs[k]
             /\ fs[k].kind # "for" => rs[j] < rs[k]
             /\ fs[j].height <= fs[k].height
             /\ fs[k].kind # "case" => fs[j].height < fs[k].height
    BY <1>1, <2>1 DEF Levels
  <2>4. k \in 1 .. k /\ \A j \in 1 .. k - 1 : j \in 1 .. k
    OBVIOUS
  <2>5. QED
    BY <2>2, <2>3, <2>4
<1>5. Levels(rs, fs2, Len(L), h)
  <2>1. rs \in Seq(Nat) /\ Len(rs) = Len(fs2)
    BY <1>1 DEF Levels
  <2>2. IF fs2 = <<>> THEN Len(L) = 0 /\ h = 1
        ELSE Len(L) = rs[Len(fs2)] /\ h = fs2[Len(fs2)].height
    BY <1>1, <1>2, <1>3 DEF Levels
  <2>3. QED
    BY <1>4, <2>1, <2>2 DEF Levels
<1>6. ASSUME NEW i \in DOMAIN a, OpenJump(gs, ls, rs, a, fs, i) PROVE OpenJump(gs, ls, rs, a, fs2, i)
  <2>1. a[i].depth \in 2 .. Len(fs)
    BY <1>6 DEF OpenJump
  <2>2. a[i].depth \in 1 .. Len(fs)
    BY <2>1
  <2>3. fs2[a[i].depth].kind = fs[a[i].depth].kind
    BY <1>1, <2>2
  <2>4. QED
    BY <1>1, <1>6, <2>3 DEF OpenJump
<1>7. JumpsMatch(gs, ls, rs, a, fs2)
  BY <1>1, <1>6 DEF JumpsMatch
<1>8. QED
  BY <1>1, <1>5, <1>7 DEF Struct

-----------------------------------------------------------------------------
(* What CodeGen's tables hold of Sema's. *)

\* Typedef names have no storage.
IsObject(s) == s.kind \in {"var", "func"}

\* In the construct f, whose innermost table is the r-th, every object in
\* scope is found in the tables G and L; but for the loop variables X, its
\* table holds only what its environment does; and the access of a for's
\* increment is to what is in the for's scope.
FrameOK(G, L, r, es, f, X) ==
    /\ \A n \in Names : IsObject(Inner(es, f.height, n)) =>
         SameEntity(Storage(G, L, r, n), Inner(es, f.height, n))
    /\ f.kind # "for" =>
         \A n \in Names : L[r][n] # NoSymbol => n \in X \/ es[f.height][n] # NoSymbol
    /\ f.kind = "for" =>
         /\ Len(f.inc) <= 1
         /\ \A i \in 1 .. Len(f.inc) : /\ IsObject(f.inc[i].sym) /\ f.inc[i].name \in Names
                                       /\ Inner(es, f.height, f.inc[i].name) = f.inc[i].sym

\* globalVarMap holds the objects of the file scope and the function being
\* defined, which Sema enters there at its end.
FileOK(G, es, fs) ==
    /\ \A n \in Names :
         /\ IsObject(es[1][n]) => SameEntity(G[n], es[1][n])
         /\ es[1][n].kind = "func" => es[1][n].decl = 0
         /\ G[n] # NoSymbol => es[1][n] # NoSymbol \/ (fs # <<>> /\ n = fs[1].name)
    /\ fs # <<>> => fs[1].name \in Names /\ SameEntity(G[fs[1].name], FuncSymbol(TRUE))

\* CodeGen's tables G and L hold what Sema's es do, file scope and
\* constructs alike; X are the names that loops declare.
View(G, L, rs, es, fs, X) ==
    /\ es \in Seq(Table) /\ es # <<>>
    /\ FileOK(G, es, fs)
    /\ \A k \in 1 .. Len(fs) : FrameOK(G, L, rs[k], es, fs[k], X)

\* Every access finds, where it is visited, what Sema resolved it to.
UsesOK(gs, ls, a) ==
    \A u \in DOMAIN a : a[u].kind = "use" =>
      /\ IsObject(a[u].sym)
      /\ SameEntity(Storage(gs[u], ls[u], Len(ls[u]), a[u].name), a[u].sym)

\* A construct depends on its own tables and environments, and on those around
\* it.
LEMMA FrameSame ==
  ASSUME NEW G, NEW L, NEW r \in Nat, r >= 1, NEW es, NEW f \in Frame, f.height >= 1, NEW X,
         FrameOK(G, L, r, es, f, X),
         NEW l, \A t \in 1 .. r : l[t] = L[t],
         NEW es2, \A t \in 1 .. f.height : es2[t] = es[t],
         NEW f2, f2.kind = f.kind, f2.height = f.height, f2.inc = f.inc,
         NEW Y, X \subseteq Y
  PROVE  FrameOK(G, l, r, es2, f2, Y)
<1>1. f.height \in Nat /\ f.height \in 1 .. f.height /\ r \in 1 .. r
  BY DEF Frame
<1>2. \A n : Inner(es2, f.height, n) = Inner(es, f.height, n)
  BY <1>1, InnerSame
<1>3. \A n : Inner(l, r, n) = Inner(L, r, n)
  BY InnerSame
<1>4. \A n : Storage(G, l, r, n) = Storage(G, L, r, n)
  BY <1>3 DEF Storage
<1>5. es2[f.height] = es[f.height] /\ l[r] = L[r]
  BY <1>1
<1>6. QED
  BY <1>2, <1>4, <1>5 DEF FrameOK

\* A node that is no access, or one that finds its object.
LEMMA UsesAppend ==
  ASSUME NEW gs, NEW ls, NEW rs, NEW a, NEW fs, NEW h, NEW G, NEW L,
         Struct(gs, ls, rs, a, fs, h, G, L), UsesOK(gs, ls, a),
         NEW d \in Node,
         d.kind = "use" => IsObject(d.sym) /\ SameEntity(Storage(G, L, Len(L), d.name), d.sym),
         NEW g \in Table, NEW l \in Seq(Table)
  PROVE  UsesOK(Append(gs, g), Append(ls, l), Append(a, d))
<1> DEFINE b == Append(a, d)
           hs == Append(gs, g)
           ms == Append(ls, l)
           N == Len(a) + 1
<1>1. /\ a \in Seq(Node) /\ Len(a) \in Nat /\ gs \in Seq(Table) /\ ls \in Seq(Seq(Table))
      /\ Len(gs) = N /\ Len(ls) = N /\ gs[N] = G /\ ls[N] = L
  BY StructTop
<1>2. \A i \in 1 .. N : hs[i] = gs[i]
  BY <1>1, AppendParts
<1>3. \A i \in 1 .. N : ms[i] = ls[i]
  BY <1>1, AppendParts
<1>4. /\ b[N] = d /\ \A i \in 1 .. Len(a) : b[i] = a[i]
      /\ DOMAIN a = 1 .. Len(a) /\ DOMAIN b = 1 .. N
      /\ \A i \in 1 .. N : i \in 1 .. Len(a) \/ i = N
  BY <1>1, AppendParts
<1> HIDE DEF b, hs, ms
<1>5. ASSUME NEW u \in DOMAIN b, b[u].kind = "use"
      PROVE  /\ IsObject(b[u].sym)
             /\ SameEntity(Storage(hs[u], ms[u], Len(ms[u]), b[u].name), b[u].sym)
  <2>1. hs[u] = gs[u] /\ ms[u] = ls[u]
    BY <1>2, <1>3, <1>4
  <2>2. CASE u \in 1 .. Len(a)
    <3>1. b[u] = a[u] /\ u \in DOMAIN a
      BY <1>4, <2>2
    <3>2. QED
      BY <1>5, <2>1, <3>1 DEF UsesOK
  <2>3. CASE u = N
    <3>1. b[u] = d /\ hs[u] = G /\ ms[u] = L
      BY <1>1, <1>4, <2>1, <2>3
    <3>2. QED
      BY <1>5, <3>1
  <2>4. QED
    BY <1>4, <2>2, <2>3
<1>6. QED
  BY <1>5 DEF UsesOK, b, hs, ms

\* The last table of a stack does not matter for a name it has no entry for.
LEMMA InnerAppend ==
  ASSUME NEW ts \in Seq(Table), NEW t \in Table, NEW n \in Names
  PROVE  Inner(Append(ts, t), Len(ts) + 1, n) =
           IF t[n] # NoSymbol THEN t[n] ELSE Inner(ts, Len(ts), n)
<1> DEFINE us == Append(ts, t)
           h == Len(ts) + 1
<1>1. us[h] = t /\ h \in Nat /\ h >= 1 /\ \A i \in 1 .. Len(ts) : us[i] = ts[i]
  BY AppendParts
<1>2. h - 1 = Len(ts) /\ Len(ts) \in Nat
  OBVIOUS
<1> HIDE DEF us, h
<1>3. Inner(us, h - 1, n) = Inner(ts, Len(ts), n)
  BY <1>1, <1>2, InnerSame
<1>4. Inner(us, h, n) = IF us[h][n] # NoSymbol THEN us[h][n] ELSE Inner(us, h - 1, n)
  BY <1>1, InnerStep
<1>5. QED
  BY <1>1, <1>3, <1>4 DEF us, h

\* The open constructs are as before.
LEMMA ViewAlike ==
  ASSUME NEW gs, NEW ls, NEW rs, NEW a, NEW fs, NEW es, NEW G, NEW L, NEW X,
         Struct(gs, ls, rs, a, fs, Len(es), G, L), View(G, L, rs, es, fs, X),
         NEW fs2, Alike(fs, fs2)
  PROVE  View(G, L, rs, es, fs2, X)
<1>1. /\ fs \in Seq(Frame) /\ fs2 \in Seq(Frame) /\ Len(fs2) = Len(fs) /\ Levels(rs, fs, Len(L), Len(es))
      /\ \A k \in 1 .. Len(fs) : /\ fs2[k].kind = fs[k].kind /\ fs2[k].height = fs[k].height
                                 /\ fs2[k].inc = fs[k].inc /\ fs2[k].name = fs[k].name
  BY DEF Struct, Alike, SameKinds
<1>2. fs = <<>> <=> fs2 = <<>>
  BY <1>1
<1>3. fs # <<>> => fs2[1].name = fs[1].name
  BY <1>1
<1>4. FileOK(G, es, fs2)
  BY <1>2, <1>3 DEF View, FileOK
<1>5. ASSUME NEW k \in 1 .. Len(fs2) PROVE FrameOK(G, L, rs[k], es, fs2[k], X)
  <2>1. k \in 1 .. Len(fs) /\ fs[k] \in Frame
    BY <1>1, ElementOfSeq
  <2>2. rs[k] \in Nat /\ rs[k] >= 1 /\ fs[k].height >= 2 /\ fs[k].height \in Nat
    BY <1>1, <2>1, LevelsBelow
  <2>3. FrameOK(G, L, rs[k], es, fs[k], X)
    BY <2>1 DEF View
  <2>4. /\ fs2[k].kind = fs[k].kind /\ fs2[k].height = fs[k].height /\ fs2[k].inc = fs[k].inc
        /\ fs[k].height >= 1
    BY <1>1, <2>1, <2>2
  <2>5. QED
    BY <2>1, <2>2, <2>3, <2>4, FrameSame
<1>6. QED
  BY <1>4, <1>5 DEF View

\* A construct is opened in another.
Opens(f, es, es2, L, l, r2) ==
    /\ Inside(f, Len(es))
    /\ es2 = IF f.kind = "case" THEN es ELSE Append(es, EmptyTable)
    /\ IF f.kind = "for" THEN l = L /\ r2 = Len(L)
       ELSE l = Append(L, EmptyTable) /\ r2 = Len(L) + 1

\* A block, a section or a for has been opened.
LEMMA ViewPush ==
  ASSUME NEW gs, NEW ls, NEW rs, NEW a, NEW fs, NEW es, NEW G, NEW L, NEW X,
         Struct(gs, ls, rs, a, fs, Len(es), G, L), View(G, L, rs, es, fs, X), fs # <<>>,
         NEW f \in Frame, f.kind \in {"block", "case", "for"}, f.inc = <<>>,
         NEW es2, NEW l, NEW r2, Opens(f, es, es2, L, l, r2)
  PROVE  /\ View(G, l, Append(rs, r2), es2, Append(fs, f), X)
         /\ Len(es2) = f.height /\ Len(l) = r2
<1> DEFINE fs2 == Append(fs, f)
           rs2 == Append(rs, r2)
           N == Len(fs)
<1>0. /\ f.height = Len(es) + (IF f.kind = "case" THEN 0 ELSE 1)
      /\ es2 = IF f.kind = "case" THEN es ELSE Append(es, EmptyTable)
      /\ IF f.kind = "for" THEN l = L /\ r2 = Len(L)
         ELSE l = Append(L, EmptyTable) /\ r2 = Len(L) + 1
  BY DEF Opens, Inside
<1>1. /\ fs \in Seq(Frame) /\ N \in Nat /\ Len(L) \in Nat /\ L \in Seq(Table)
      /\ rs \in Seq(Nat) /\ Len(rs) = N /\ Levels(rs, fs, Len(L), Len(es))
      /\ N \in 1 .. N
  BY StructTop
<1>2. es \in Seq(Table) /\ es # <<>> /\ Len(es) \in Nat /\ Len(es) >= 1
  <2>1. es \in Seq(Table) /\ es # <<>>
    BY DEF View
  <2>2. QED
    BY <2>1
<1>3. r2 \in Nat
  BY <1>0, <1>1
<1>4. fs2 \in Seq(Frame) /\ Len(fs2) = N + 1 /\ fs2[N + 1] = f /\ \A i \in 1 .. N : fs2[i] = fs[i]
  BY <1>1, AppendParts
<1>5. rs2[N + 1] = r2 /\ \A i \in 1 .. N : rs2[i] = rs[i]
  BY <1>1, <1>3, AppendParts
<1>6. fs2 # <<>>
  BY <1>1, AppendProperties, ZenonT(60)
<1>7. \A i \in 1 .. N + 1 : i \in 1 .. N \/ i = N + 1
  BY <1>1
<1> HIDE DEF fs2, rs2
<1>8. /\ es2 \in Seq(Table) /\ es2 # <<>> /\ Len(es2) = f.height
      /\ \A i \in 1 .. Len(es) : es2[i] = es[i]
  <2>1. CASE f.kind = "case"
    BY <1>0, <1>2, <2>1
  <2>2. CASE f.kind # "case"
    <3>1. es2 = Append(es, EmptyTable)
      BY <1>0, <2>2
    <3>2. es2 \in Seq(Table) /\ Len(es2) = Len(es) + 1 /\ \A i \in 1 .. Len(es) : es2[i] = es[i]
      BY <1>2, <3>1, EmptyTableType, AppendParts
    <3>3. es2 # <<>>
      <4>1. Len(es2) # 0
        BY <1>2, <3>2
      <4>2. QED
        BY <3>2, <4>1, EmptySeq
    <3>4. QED
      BY <1>0, <2>2, <3>2, <3>3
  <2>3. QED
    BY <2>1, <2>2
<1>9. l \in Seq(Table) /\ Len(l) = r2 /\ \A i \in 1 .. Len(L) : l[i] = L[i]
  <2>1. CASE f.kind = "for"
    BY <1>0, <1>1, <2>1
  <2>2. CASE f.kind # "for"
    <3>1. l = Append(L, EmptyTable)
      BY <1>0, <2>2
    <3>2. l \in Seq(Table) /\ Len(l) = Len(L) + 1 /\ \A i \in 1 .. Len(L) : l[i] = L[i]
      BY <1>1, <3>1, EmptyTableType, AppendParts
    <3>3. QED
      BY <1>0, <2>2, <3>2
  <2>3. QED
    BY <2>1, <2>2
<1>10. FileOK(G, es2, fs2)
  <2>1. es2[1] = es[1] /\ fs2[1] = fs[1]
    BY <1>1, <1>2, <1>4, <1>8
  <2>2. FileOK(G, es, fs)
    BY DEF View
  <2>3. QED
    BY <1>6, <2>1, <2>2 DEF FileOK
<1>11. ASSUME NEW k \in 1 .. N PROVE FrameOK(G, l, rs2[k], es2, fs2[k], X)
  <2>1. fs[k] \in Frame /\ FrameOK(G, L, rs[k], es, fs[k], X)
    BY <1>1, ElementOfSeq DEF View
  <2>2. /\ rs[k] \in Nat /\ rs[k] >= 1 /\ rs[k] <= Len(L)
        /\ fs[k].height \in Nat /\ fs[k].height >= 2 /\ fs[k].height <= Len(es)
    BY <1>1, LevelsBelow
  <2>3. fs[k].height >= 1 /\ \A t \in 1 .. fs[k].height : es2[t] = es[t]
    BY <1>2, <1>8, <2>2
  <2>4. \A t \in 1 .. rs[k] : l[t] = L[t]
    BY <1>1, <1>9, <2>2
  <2>5. FrameOK(G, l, rs[k], es2, fs[k], X)
    BY SMTT(60), <2>1, <2>2, <2>3, <2>4, FrameSame
  <2>6. QED
    BY <1>4, <1>5, <2>5
<1>12. FrameOK(G, l, r2, es2, f, X)
  <2>1. rs[N] = Len(L) /\ fs[N].height = Len(es)
    BY <1>1, LevelsBelow
  <2>2. FrameOK(G, L, Len(L), es, fs[N], X)
    BY <1>1, <2>1 DEF View
  <2>3. \A n \in Names : EmptyTable[n] = NoSymbol
    BY DEF EmptyTable
  <2>4. ASSUME NEW n \in Names PROVE Inner(es2, f.height, n) = Inner(es, Len(es), n)
    <3>1. CASE f.kind = "case"
      BY <1>0, <1>2, <3>1
    <3>2. CASE f.kind # "case"
      BY <1>0, <1>2, <2>3, <3>2, EmptyTableType, InnerAppend
    <3>3. QED
      BY <3>1, <3>2
  <2>5. ASSUME NEW n \in Names PROVE Inner(l, r2, n) = Inner(L, Len(L), n)
    <3>1. CASE f.kind = "for"
      BY <1>0, <1>1, <3>1
    <3>2. CASE f.kind # "for"
      BY <1>0, <1>1, <2>3, <3>2, EmptyTableType, InnerAppend
    <3>3. QED
      BY <3>1, <3>2
  <2>6. \A n \in Names : Storage(G, l, r2, n) = Storage(G, L, Len(L), n)
    BY <2>5 DEF Storage
  <2>7. \A n \in Names : IsObject(Inner(es2, f.height, n)) =>
          SameEntity(Storage(G, l, r2, n), Inner(es2, f.height, n))
    BY <2>1, <2>2, <2>4, <2>6 DEF FrameOK
  <2>8. f.kind # "for" => \A n \in Names : l[r2][n] = NoSymbol
    <3> SUFFICES ASSUME f.kind # "for" PROVE \A n \in Names : l[r2][n] = NoSymbol
      OBVIOUS
    <3>1. l = Append(L, EmptyTable) /\ r2 = Len(L) + 1
      BY <1>0
    <3>2. Append(L, EmptyTable)[Len(L) + 1] = EmptyTable
      BY <1>1, EmptyTableType, AppendParts
    <3>3. l[r2] = EmptyTable
      BY <3>1, <3>2
    <3>4. QED
      BY <2>3, <3>3
  <2>9. Len(f.inc) = 0
    OBVIOUS
  <2>10. QED
    BY <2>7, <2>8, <2>9 DEF FrameOK
<1>13. \A k \in 1 .. Len(fs2) : FrameOK(G, l, rs2[k], es2, fs2[k], X)
  BY <1>4, <1>5, <1>7, <1>11, <1>12
<1>14. QED
  BY <1>8, <1>9, <1>10, <1>13 DEF View, fs2, rs2

\* The innermost construct, but not the function, is closed.
LEMMA ViewPop ==
  ASSUME NEW gs, NEW ls, NEW rs, NEW a, NEW fs, NEW es, NEW G, NEW L, NEW X,
         Struct(gs, ls, rs, a, fs, Len(es), G, L), View(G, L, rs, es, fs, X), Len(fs) >= 2,
         NEW l, \A t \in 1 .. rs[Len(fs) - 1] : l[t] = L[t],
         NEW es2 \in Seq(Table), es2 # <<>>, \A t \in 1 .. fs[Len(fs) - 1].height : es2[t] = es[t]
  PROVE  View(G, l, Front(rs), es2, Front(fs), X)
<1> DEFINE fs2 == Front(fs)
           rs2 == Front(rs)
           N == Len(fs)
<1>1. /\ fs \in Seq(Frame) /\ N \in Nat /\ Levels(rs, fs, Len(L), Len(es)) /\ fs # <<>>
  BY StructTop
<1>2. Levels(rs2, fs2, rs[N - 1], fs[N - 1].height) /\ \A k \in 1 .. N - 1 : rs2[k] = rs[k]
  BY <1>1, LevelsPop
<1>3. fs2 \in Seq(Frame) /\ Len(fs2) = N - 1 /\ \A i \in 1 .. N - 1 : fs2[i] = fs[i]
  BY <1>1, FrontType
<1> HIDE DEF fs2, rs2
<1>4. N - 1 \in 1 .. N - 1 /\ 1 \in 1 .. N - 1 /\ N - 1 \in Nat
  BY <1>1
<1>5. fs2 # <<>>
  BY <1>3, <1>4, EmptySeq
<1>6. fs[N - 1].height \in Nat /\ fs[N - 1].height >= 2
  <2>1. N - 1 \in 1 .. N
    BY <1>1
  <2>2. QED
    BY <1>1, <2>1, LevelsBelow
<1>7. FileOK(G, es2, fs2)
  <2>1. es2[1] = es[1] /\ fs2[1] = fs[1]
    BY <1>3, <1>4, <1>6
  <2>2. FileOK(G, es, fs)
    BY DEF View
  <2>3. QED
    BY <1>1, <1>5, <2>1, <2>2 DEF FileOK
<1>8. ASSUME NEW k \in 1 .. N - 1 PROVE FrameOK(G, l, rs2[k], es2, fs2[k], X)
  <2>1. k \in 1 .. N
    BY <1>1
  <2>2. fs[k] \in Frame /\ FrameOK(G, L, rs[k], es, fs[k], X)
    BY <1>1, <2>1, ElementOfSeq DEF View
  <2>3. rs[k] \in Nat /\ rs[k] >= 1 /\ fs[k].height \in Nat /\ fs[k].height >= 2
    BY <1>1, <2>1, LevelsBelow
  <2>4. rs2[k] <= rs[N - 1] /\ fs2[k].height <= fs[N - 1].height /\ rs[N - 1] \in Nat
    <3>1. k \in 1 .. Len(fs2)
      BY <1>3
    <3>2. QED
      BY SMTT(60), <1>2, <1>3, <3>1, LevelsBelow
  <2>5. rs2[k] = rs[k] /\ fs2[k] = fs[k]
    BY <1>2, <1>3
  <2>6. fs[k].height >= 1 /\ \A t \in 1 .. fs[k].height : es2[t] = es[t]
    BY SMTT(60), <1>6, <2>3, <2>4, <2>5
  <2>7. \A t \in 1 .. rs[k] : l[t] = L[t]
    BY <2>3, <2>4, <2>5
  <2>8. FrameOK(G, l, rs[k], es2, fs[k], X)
    BY <2>2, <2>3, <2>6, <2>7, FrameSame
  <2>9. QED
    BY <2>5, <2>8
<1>9. QED
  BY <1>3, <1>7, <1>8 DEF View, fs2, rs2

\* The h-th and last table gets the entry s for n.
Adds(ts, us, h, n, s) ==
    /\ \A t \in 1 .. h - 1 : us[t] = ts[t]
    /\ \A m \in Names : us[h][m] = IF m = n THEN s ELSE ts[h][m]

\* It is found where there was none.
LEMMA InnerChange ==
  ASSUME NEW ts, NEW us, NEW h \in Nat, h >= 1, NEW n, NEW s, s # NoSymbol,
         Adds(ts, us, h, n, s)
  PROVE  \A m \in Names : Inner(us, h, m) = IF m = n THEN s ELSE Inner(ts, h, m)
<1> SUFFICES ASSUME NEW m \in Names PROVE Inner(us, h, m) = IF m = n THEN s ELSE Inner(ts, h, m)
  OBVIOUS
<1>1. CASE m = n
  <2>1. us[h][m] = s
    BY <1>1 DEF Adds
  <2>2. Inner(us, h, m) = s
    BY <2>1, InnerStep
  <2>3. QED
    BY <1>1, <2>2
<1>2. CASE m # n
  <2>1. \A i \in 1 .. h : i \in 1 .. h - 1 \/ i = h
    OBVIOUS
  <2>2. \A i \in 1 .. h : us[i][m] = ts[i][m]
    BY <1>2, <2>1 DEF Adds
  <2>3. QED
    BY <1>2, <2>2, InnerSame
<1>3. QED
  BY <1>1, <1>2

\* A stack of tables the last of which gets an entry it has not.
LEMMA InsertAdds ==
  ASSUME NEW ts \in Seq(Table), NEW h, h = Len(ts), h >= 1, NEW n \in Names, NEW s \in Symbol,
         ts[h][n] = NoSymbol, NEW us, us = [ts EXCEPT ![h] = Insert(@, n, s)]
  PROVE  us \in Seq(Table) /\ us # <<>> /\ Len(us) = h /\ Adds(ts, us, h, n, s)
<1> DEFINE t == Insert(ts[h], n, s)
<1>1. h \in 1 .. h /\ h \in Nat
  OBVIOUS
<1>2. ts[h] \in Table
  BY <1>1, ElementOfSeq
<1>3. t \in Table /\ \A m \in Names : t[m] = IF m = n THEN s ELSE ts[h][m]
  <2>1. t \in Table
    BY <1>2, InsertType
  <2>2. \A m \in Names : t[m] = IF m = n THEN s ELSE ts[h][m]
    BY <1>2 DEF Insert, Table
  <2>3. QED
    BY <2>1, <2>2
<1>4. us = [ts EXCEPT ![h] = t]
  OBVIOUS
<1> HIDE DEF t
<1>5. us \in Seq(Table) /\ Len(us) = h /\ us[h] = t /\ \A i \in 1 .. h - 1 : us[i] = ts[i]
  BY <1>1, <1>3, <1>4
<1>6. us # <<>>
  BY <1>1, <1>5, EmptySeq
<1>7. QED
  BY <1>3, <1>5, <1>6 DEF Adds

\* A typedef is declared in a block or after a label: CodeGen does not enter it.
LEMMA ViewTypedef ==
  ASSUME NEW gs, NEW ls, NEW rs, NEW a, NEW fs, NEW es, NEW G, NEW L, NEW X,
         Struct(gs, ls, rs, a, fs, Len(es), G, L), View(G, L, rs, es, fs, X), fs # <<>>,
         NEW n \in Names, NEW s \in Symbol, s.kind = "typedef",
         \A k \in 1 .. Len(fs) : fs[k].kind = "for" => fs[k].height < Len(es),
         NEW es2 \in Seq(Table), es2 # <<>>, Adds(es, es2, Len(es), n, s)
  PROVE  View(G, L, rs, es2, fs, X)
<1> DEFINE N == Len(fs)
           h == Len(es)
<1>1. /\ fs \in Seq(Frame) /\ N \in Nat /\ Levels(rs, fs, Len(L), h) /\ N \in 1 .. N
  BY StructTop
<1>2. fs[N].height = h /\ h \in Nat /\ fs[N].height >= 2
  <2>1. fs \in Seq(Frame) /\ Levels(rs, fs, Len(L), Len(es)) /\ fs # <<>>
    BY <1>1
  <2>2. /\ rs[Len(fs)] = Len(L) /\ Len(L) \in Nat /\ Len(L) >= 1
        /\ fs[Len(fs)].height = Len(es) /\ Len(es) \in Nat /\ Len(es) >= 2
    BY <2>1, LevelsTop
  <2>3. Len(es) >= 1
    BY <2>2
  <2>4. QED
    BY <2>2, <2>3
<1>3. s # NoSymbol
  BY DEF Symbol, NoSymbol
<1>4. \A m \in Names : Inner(es2, h, m) = IF m = n THEN s ELSE Inner(es, h, m)
  BY <1>2, <1>3, InnerChange
<1>5. /\ \A t \in 1 .. h - 1 : es2[t] = es[t]
      /\ \A m \in Names : es2[h][m] = IF m = n THEN s ELSE es[h][m]
  BY DEF Adds
<1> HIDE DEF h, N
<1>6. FileOK(G, es2, fs)
  <2>1. es2[1] = es[1]
    BY <1>2, <1>5
  <2>2. FileOK(G, es, fs)
    BY DEF View
  <2>3. QED
    BY <2>1, <2>2 DEF FileOK
<1>7. ASSUME NEW k \in 1 .. N PROVE FrameOK(G, L, rs[k], es2, fs[k], X)
  <2>1. fs[k] \in Frame /\ FrameOK(G, L, rs[k], es, fs[k], X)
    BY <1>1, ElementOfSeq DEF View, N
  <2>2. /\ rs[k] \in Nat /\ rs[k] >= 1 /\ fs[k].height \in Nat /\ fs[k].height >= 2
        /\ fs[k].height <= h
    BY <1>1, LevelsBelow DEF N
  <2>3. CASE fs[k].height < h
    <3>1. fs[k].height >= 1 /\ \A t \in 1 .. fs[k].height : es2[t] = es[t]
      BY <1>2, <1>5, <2>2, <2>3
    <3>2. QED
      BY <2>1, <2>2, <3>1, FrameSame
  <2>4. CASE fs[k].height = h
    <3>1. fs[k].kind # "for"
      BY <1>2, <2>4 DEF N, h
    <3>2. \A m \in Names : IsObject(Inner(es2, h, m)) =>
            m # n /\ Inner(es2, h, m) = Inner(es, h, m)
      BY <1>4 DEF IsObject
    <3>3. \A m \in Names : es[h][m] # NoSymbol => es2[h][m] # NoSymbol
      BY <1>3, <1>5
    <3>4. QED
      BY <2>1, <2>4, <3>1, <3>2, <3>3 DEF FrameOK
  <2>5. QED
    BY <1>2, <2>2, <2>3, <2>4
<1>8. QED
  BY <1>6, <1>7 DEF View, N

\* A variable is declared in a block, which no loop of the function declares.
LEMMA ViewVar ==
  ASSUME NEW gs, NEW ls, NEW rs, NEW a, NEW fs, NEW es, NEW G, NEW L, NEW X,
         Struct(gs, ls, rs, a, fs, Len(es), G, L), View(G, L, rs, es, fs, X), fs # <<>>,
         fs[Len(fs)].kind = "block",
         NEW n \in Names, NEW s \in Symbol, n \notin X,
         NEW es2 \in Seq(Table), es2 # <<>>, Adds(es, es2, Len(es), n, s),
         NEW l, Adds(L, l, Len(L), n, s)
  PROVE  View(G, l, rs, es2, fs, X)
<1> DEFINE N == Len(fs)
           h == Len(es)
           r == Len(L)
<1>1. /\ fs \in Seq(Frame) /\ N \in Nat /\ Levels(rs, fs, r, h) /\ N \in 1 .. N /\ r \in Nat
  BY StructTop
<1>2. rs[N] = r /\ r >= 1 /\ fs[N].height = h /\ h \in Nat /\ fs[N].height >= 2 /\ h >= 1
  <2>1. fs \in Seq(Frame) /\ Levels(rs, fs, Len(L), Len(es)) /\ fs # <<>>
    BY <1>1
  <2>2. /\ rs[Len(fs)] = Len(L) /\ Len(L) \in Nat /\ Len(L) >= 1
        /\ fs[Len(fs)].height = Len(es) /\ Len(es) \in Nat /\ Len(es) >= 2
    BY <2>1, LevelsTop
  <2>3. Len(es) >= 1
    BY <2>2
  <2>4. QED
    BY <2>2, <2>3
<1>3. s # NoSymbol
  BY DEF Symbol, NoSymbol
<1>4. \A m \in Names : Inner(es2, h, m) = IF m = n THEN s ELSE Inner(es, h, m)
  BY <1>2, <1>3, InnerChange
<1>5. \A m \in Names : Inner(l, r, m) = IF m = n THEN s ELSE Inner(L, r, m)
  BY <1>1, <1>2, <1>3, InnerChange
<1>6. /\ \A t \in 1 .. h - 1 : es2[t] = es[t]
      /\ \A m \in Names : es2[h][m] = IF m = n THEN s ELSE es[h][m]
      /\ \A t \in 1 .. r - 1 : l[t] = L[t]
      /\ \A m \in Names : l[r][m] = IF m = n THEN s ELSE L[r][m]
  BY DEF Adds
<1>7. fs[N].kind = "block"
  OBVIOUS
<1> HIDE DEF h, N, r
<1>8. FileOK(G, es2, fs)
  <2>1. es2[1] = es[1]
    BY <1>2, <1>6
  <2>2. FileOK(G, es, fs)
    BY DEF View
  <2>3. QED
    BY <2>1, <2>2 DEF FileOK
<1>9. ASSUME NEW k \in 1 .. N PROVE FrameOK(G, l, rs[k], es2, fs[k], X)
  <2>1. fs[k] \in Frame /\ FrameOK(G, L, rs[k], es, fs[k], X)
    BY <1>1, ElementOfSeq DEF View, N
  <2>2. /\ rs[k] \in Nat /\ rs[k] >= 1 /\ fs[k].height \in Nat /\ fs[k].height >= 2
        /\ k < N => rs[k] < r /\ fs[k].height < h
    BY <1>1, <1>7, LevelsBelow DEF N
  <2>3. CASE k < N
    <3>1. fs[k].height >= 1 /\ \A t \in 1 .. fs[k].height : es2[t] = es[t]
      BY SMTT(60), <1>2, <1>6, <2>2, <2>3
    <3>2. \A t \in 1 .. rs[k] : l[t] = L[t]
      BY SMTT(60), <1>1, <1>6, <2>2, <2>3
    <3>3. QED
      BY ZenonT(60), <2>1, <2>2, <3>1, <3>2, FrameSame
  <2>4. CASE k = N
    <3>1. fs[k].height = h /\ rs[k] = r /\ fs[k].kind = "block"
      BY <1>2, <1>7, <2>4
    <3>2. ASSUME NEW m \in Names, IsObject(Inner(es2, h, m))
          PROVE  SameEntity(Storage(G, l, r, m), Inner(es2, h, m))
      <4>1. CASE m = n
        BY <1>3, <1>4, <1>5, <4>1 DEF Storage, SameEntity
      <4>2. CASE m # n
        <5>1. Inner(es2, h, m) = Inner(es, h, m) /\ Storage(G, l, r, m) = Storage(G, L, r, m)
          BY <1>4, <1>5, <4>2 DEF Storage
        <5>2. QED
          BY <2>1, <3>1, <3>2, <5>1 DEF FrameOK
      <4>3. QED
        BY <4>1, <4>2
    <3>3. \A m \in Names : l[r][m] # NoSymbol => m \in X \/ es2[h][m] # NoSymbol
      BY <1>3, <1>6, <2>1, <3>1 DEF FrameOK
    <3>4. QED
      BY <3>1, <3>2, <3>3 DEF FrameOK
  <2>5. QED
    <3>1. k < N \/ k = N
      BY <1>1
    <3>2. QED
      BY <2>3, <2>4, <3>1
<1>10. QED
  BY <1>8, <1>9 DEF View, N

\* The file scope alone.
LEMMA InnerOne ==
  ASSUME NEW ts, NEW n
  PROVE  Inner(ts, 0, n) = NoSymbol /\ Inner(ts, 1, n) = ts[1][n]
<1>1. Inner(ts, 0, n) = NoSymbol
  BY InnerNone
<1>2. Inner(ts, 1, n) = IF ts[1][n] # NoSymbol THEN ts[1][n] ELSE Inner(ts, 1 - 1, n)
  BY InnerStep
<1>3. 1 - 1 = 0
  OBVIOUS
<1>4. QED
  BY <1>1, <1>2, <1>3

\* CodeGen finds, in the tables it has, the object that Sema finds.
LEMMA TopFinds ==
  ASSUME NEW gs, NEW ls, NEW rs, NEW a, NEW fs, NEW es, NEW G, NEW L, NEW X,
         Struct(gs, ls, rs, a, fs, Len(es), G, L), View(G, L, rs, es, fs, X),
         NEW n \in Names, IsObject(Inner(es, Len(es), n))
  PROVE  SameEntity(Storage(G, L, Len(L), n), Inner(es, Len(es), n))
<1>1. /\ fs \in Seq(Frame) /\ Levels(rs, fs, Len(L), Len(es))
      /\ IF fs = <<>> THEN Len(L) = 0 /\ Len(es) = 1 ELSE Len(L) = rs[Len(fs)] /\ Len(es) = fs[Len(fs)].height
  <2>1. fs \in Seq(Frame) /\ Levels(rs, fs, Len(L), Len(es))
    BY StructTop
  <2>2. QED
    BY <2>1 DEF Levels
<1>2. CASE fs = <<>>
  <2>1. Len(L) = 0 /\ Len(es) = 1
    BY <1>1, <1>2
  <2>2. Inner(L, Len(L), n) = NoSymbol /\ Inner(es, Len(es), n) = es[1][n]
    BY <2>1, InnerOne
  <2>3. IsObject(es[1][n])
    BY <2>2
  <2>4. SameEntity(G[n], es[1][n])
    BY <2>3 DEF View, FileOK
  <2>5. QED
    BY <2>2, <2>4 DEF Storage
<1>3. CASE fs # <<>>
  <2>1. Len(fs) \in 1 .. Len(fs)
    BY <1>1, <1>3
  <2>2. FrameOK(G, L, rs[Len(fs)], es, fs[Len(fs)], X)
    BY <2>1 DEF View
  <2>3. FrameOK(G, L, Len(L), es, fs[Len(fs)], X) /\ Len(es) = fs[Len(fs)].height
    BY <1>1, <1>3, <2>2
  <2>4. QED
    BY <2>3 DEF FrameOK
<1>4. QED
  BY <1>2, <1>3

\* More loop variables.
LEMMA ViewWider ==
  ASSUME NEW G, NEW L, NEW rs, NEW es, NEW fs, NEW X, View(G, L, rs, es, fs, X),
         NEW Y, fs = <<>> \/ X \subseteq Y
  PROVE  View(G, L, rs, es, fs, Y)
<1>1. ASSUME NEW k \in 1 .. Len(fs) PROVE FrameOK(G, L, rs[k], es, fs[k], Y)
  <2>1. X \subseteq Y
    BY <1>1
  <2>2. FrameOK(G, L, rs[k], es, fs[k], X)
    BY DEF View
  <2>3. QED
    BY <2>1, <2>2 DEF FrameOK
<1>2. QED
  BY <1>1 DEF View

\* The variable of a for's first clause, which is in scope for no access yet,
\* is entered in the table of the enclosing block.
LEMMA ViewLoopVar ==
  ASSUME NEW gs, NEW ls, NEW rs, NEW a, NEW fs, NEW es, NEW G, NEW L, NEW X,
         Struct(gs, ls, rs, a, fs, Len(es), G, L), View(G, L, rs, es, fs, X), fs # <<>>,
         fs[Len(fs)].kind = "for", fs[Len(fs)].inc = <<>>,
         NEW n \in Names, NEW s \in Symbol, n \notin X, Inner(es, Len(es), n) = NoSymbol,
         NEW es2 \in Seq(Table), es2 # <<>>, Adds(es, es2, Len(es), n, s),
         NEW l, Adds(L, l, Len(L), n, s)
  PROVE  View(G, l, rs, es2, fs, X \cup {n})
<1> DEFINE N == Len(fs)
           h == Len(es)
           r == Len(L)
           Y == X \cup {n}
<1>1. /\ fs \in Seq(Frame) /\ N \in Nat /\ Levels(rs, fs, r, h) /\ N \in 1 .. N /\ r \in Nat
  BY StructTop
<1>2. rs[N] = r /\ r >= 1 /\ fs[N].height = h /\ h \in Nat /\ fs[N].height >= 2 /\ h >= 1
  <2>1. fs \in Seq(Frame) /\ Levels(rs, fs, Len(L), Len(es)) /\ fs # <<>>
    BY <1>1
  <2>2. /\ rs[Len(fs)] = Len(L) /\ Len(L) \in Nat /\ Len(L) >= 1
        /\ fs[Len(fs)].height = Len(es) /\ Len(es) \in Nat /\ Len(es) >= 2
    BY <2>1, LevelsTop
  <2>3. Len(es) >= 1
    BY <2>2
  <2>4. QED
    BY <2>2, <2>3
<1>3. s # NoSymbol
  BY DEF Symbol, NoSymbol
<1>4. \A m \in Names : Inner(es2, h, m) = IF m = n THEN s ELSE Inner(es, h, m)
  BY <1>2, <1>3, InnerChange
<1>5. \A m \in Names : Inner(l, r, m) = IF m = n THEN s ELSE Inner(L, r, m)
  BY <1>1, <1>2, <1>3, InnerChange
<1>6. /\ \A t \in 1 .. h - 1 : es2[t] = es[t]
      /\ \A t \in 1 .. r - 1 : l[t] = L[t]
      /\ \A m \in Names : l[r][m] = IF m = n THEN s ELSE L[r][m]
  BY DEF Adds
<1>7. fs[N].kind = "for" /\ fs[N].inc = <<>>
  OBVIOUS
<1>8. \A i \in 1 .. h : es[i][n] = NoSymbol
  BY <1>2, InnerNone
<1> HIDE DEF h, N, r
<1>9. FileOK(G, es2, fs)
  <2>1. es2[1] = es[1]
    BY <1>2, <1>6
  <2>2. FileOK(G, es, fs)
    BY DEF View
  <2>3. QED
    BY <2>1, <2>2 DEF FileOK
<1>10. ASSUME NEW k \in 1 .. N PROVE FrameOK(G, l, rs[k], es2, fs[k], Y)
  <2>1. fs[k] \in Frame /\ FrameOK(G, L, rs[k], es, fs[k], X)
    BY <1>1, ElementOfSeq DEF View, N
  <2>2. /\ rs[k] \in Nat /\ rs[k] >= 1 /\ fs[k].height \in Nat /\ fs[k].height >= 2
        /\ rs[k] <= r
        /\ k < N => fs[k].height < h
    BY <1>1, <1>7, LevelsBelow DEF N
  <2>3. CASE k < N
    <3>0. fs[k].height < h
      BY <2>2, <2>3
    <3>1. fs[k].height >= 1 /\ \A t \in 1 .. fs[k].height : es2[t] = es[t]
      BY SMTT(60), <1>2, <1>6, <2>2, <3>0
    <3>2. CASE rs[k] < r
      <4>1. \A t \in 1 .. rs[k] : l[t] = L[t]
        BY <1>1, <1>6, <2>2, <3>2
      <4>2. X \subseteq Y
        OBVIOUS
      <4>3. QED
        BY ZenonT(60), <2>1, <2>2, <3>1, <4>1, <4>2, FrameSame
    <3>3. CASE rs[k] = r
      <4>1. \A m : Inner(es2, fs[k].height, m) = Inner(es, fs[k].height, m)
        <5> SUFFICES ASSUME NEW m PROVE Inner(es2, fs[k].height, m) = Inner(es, fs[k].height, m)
          OBVIOUS
        <5>1. PICK q \in Nat : q = fs[k].height
          BY <2>2
        <5>2. \A t \in 1 .. q : es2[t][m] = es[t][m]
          BY <3>1, <5>1
        <5>3. Inner(es2, q, m) = Inner(es, q, m)
          BY <5>2, InnerSame
        <5>4. QED
          BY <5>1, <5>3
      <4>2. Inner(es, fs[k].height, n) = NoSymbol
        <5>1. \A i \in 1 .. fs[k].height : i \in 1 .. h
          BY <1>2, <2>2, <3>0
        <5>2. QED
          BY <1>8, <2>2, <5>1, InnerNone
      <4>3. ASSUME NEW m \in Names, IsObject(Inner(es2, fs[k].height, m))
            PROVE  SameEntity(Storage(G, l, rs[k], m), Inner(es2, fs[k].height, m))
        <5>1. m # n
          BY <4>1, <4>2, <4>3 DEF IsObject, NoSymbol
        <5>2. Storage(G, l, r, m) = Storage(G, L, r, m)
          BY <1>5, <5>1 DEF Storage
        <5>3. QED
          BY <2>1, <3>3, <4>1, <4>3, <5>2 DEF FrameOK
      <4>4. fs[k].height \in 1 .. fs[k].height
        BY <2>2
      <4>5. es2[fs[k].height] = es[fs[k].height]
        BY <3>1, <4>4
      <4>6. fs[k].kind # "for" =>
              \A m \in Names : l[rs[k]][m] # NoSymbol => m \in Y \/ es2[fs[k].height][m] # NoSymbol
        BY <1>6, <2>1, <3>3, <4>5 DEF FrameOK
      <4>7. fs[k].kind = "for" =>
              /\ Len(fs[k].inc) <= 1
              /\ \A i \in 1 .. Len(fs[k].inc) :
                   /\ IsObject(fs[k].inc[i].sym) /\ fs[k].inc[i].name \in Names
                   /\ Inner(es2, fs[k].height, fs[k].inc[i].name) = fs[k].inc[i].sym
        BY <2>1, <4>1 DEF FrameOK
      <4>8. QED
        BY <4>3, <4>6, <4>7 DEF FrameOK
    <3>4. QED
      BY <1>1, <2>2, <3>2, <3>3
  <2>4. CASE k = N
    <3>1. fs[k].height = h /\ rs[k] = r /\ fs[k].kind = "for" /\ fs[k].inc = <<>>
      BY <1>2, <1>7, <2>4
    <3>2. ASSUME NEW m \in Names, IsObject(Inner(es2, h, m))
          PROVE  SameEntity(Storage(G, l, r, m), Inner(es2, h, m))
      <4>1. CASE m = n
        BY <1>3, <1>4, <1>5, <4>1 DEF Storage, SameEntity
      <4>2. CASE m # n
        <5>1. Inner(es2, h, m) = Inner(es, h, m) /\ Storage(G, l, r, m) = Storage(G, L, r, m)
          BY <1>4, <1>5, <4>2 DEF Storage
        <5>2. QED
          BY <2>1, <3>1, <3>2, <5>1 DEF FrameOK
      <4>3. QED
        BY <4>1, <4>2
    <3>3. Len(fs[k].inc) = 0
      BY <3>1
    <3>4. QED
      BY <3>1, <3>2, <3>3 DEF FrameOK
  <2>5. QED
    <3>1. k < N \/ k = N
      BY <1>1
    <3>2. QED
      BY <2>3, <2>4, <3>1
<1>11. QED
  BY <1>9, <1>10 DEF View, N

\* The increment of a for is noted: it will find what is in the for's scope.
Notes(fs, fs2, es) ==
    /\ SameKinds(fs, fs2) /\ fs2[1].name = fs[1].name
    /\ \A k \in 1 .. Len(fs) - 1 : fs2[k].inc = fs[k].inc
    /\ LET inc == fs2[Len(fs)].inc
       IN  /\ Len(inc) <= 1
           /\ \A i \in 1 .. Len(inc) : /\ IsObject(inc[i].sym) /\ inc[i].name \in Names
                                       /\ Inner(es, Len(es), inc[i].name) = inc[i].sym

\* The increment of the innermost for has been noted.
LEMMA ViewInc ==
  ASSUME NEW gs, NEW ls, NEW rs, NEW a, NEW fs, NEW es, NEW G, NEW L, NEW X,
         Struct(gs, ls, rs, a, fs, Len(es), G, L), View(G, L, rs, es, fs, X), fs # <<>>,
         NEW fs2, Notes(fs, fs2, es)
  PROVE  View(G, L, rs, es, fs2, X)
<1> DEFINE N == Len(fs)
           h == Len(es)
<1>1. /\ fs \in Seq(Frame) /\ N \in Nat /\ Levels(rs, fs, Len(L), h)
      /\ fs2 \in Seq(Frame) /\ Len(fs2) = N
      /\ \A k \in 1 .. N : fs2[k].kind = fs[k].kind /\ fs2[k].height = fs[k].height
  BY DEF Struct, SameKinds, Notes
<1>2. fs2 # <<>>
  BY <1>1
<1>3. fs[N].height = h
  <2>1. fs \in Seq(Frame) /\ Levels(rs, fs, Len(L), Len(es)) /\ fs # <<>>
    BY <1>1
  <2>2. fs[Len(fs)].height = Len(es)
    BY <2>1, LevelsTop
  <2>3. QED
    BY <2>2
<1>4. FileOK(G, es, fs2)
  BY <1>2 DEF View, FileOK, Notes
<1>5. ASSUME NEW k \in 1 .. N PROVE FrameOK(G, L, rs[k], es, fs2[k], X)
  <2>1. fs[k] \in Frame /\ FrameOK(G, L, rs[k], es, fs[k], X)
    BY <1>1, ElementOfSeq DEF View
  <2>2. fs2[k].kind = fs[k].kind /\ fs2[k].height = fs[k].height
    BY <1>1
  <2>3. CASE k = N
    <3>1. /\ Len(fs2[k].inc) <= 1
          /\ \A i \in 1 .. Len(fs2[k].inc) :
               /\ IsObject(fs2[k].inc[i].sym) /\ fs2[k].inc[i].name \in Names
               /\ Inner(es, fs2[k].height, fs2[k].inc[i].name) = fs2[k].inc[i].sym
      BY <1>3, <2>2, <2>3 DEF Notes
    <3>2. QED
      BY <2>1, <2>2, <3>1 DEF FrameOK
  <2>4. CASE k # N
    <3>1. k \in 1 .. N - 1
      BY <1>1, <2>4
    <3>2. fs2[k].inc = fs[k].inc
      BY <3>1 DEF Notes
    <3>3. QED
      BY <2>1, <2>2, <3>2 DEF FrameOK
  <2>5. QED
    BY <2>3, <2>4
<1>6. QED
  BY <1>1, <1>4, <1>5 DEF View

-----------------------------------------------------------------------------
(* The file scope. *)

\* A global is entered in both, or a typedef in Sema's only.
LEMMA FileDeclares ==
  ASSUME NEW G \in Table, NEW es, FileOK(G, es, <<>>),
         NEW n \in Names, NEW s \in Symbol, es[1][n] = NoSymbol,
         NEW es2, Adds(es, es2, 1, n, s),
         NEW g, IF s.kind = "var" THEN g = Insert(G, n, s) ELSE s.kind = "typedef" /\ g = G
  PROVE  FileOK(g, es2, <<>>)
<1>1. \A m \in Names : es2[1][m] = IF m = n THEN s ELSE es[1][m]
  BY DEF Adds
<1>2. /\ G[n] = NoSymbol
      /\ \A m \in Names :
           /\ IsObject(es[1][m]) => SameEntity(G[m], es[1][m])
           /\ es[1][m].kind = "func" => es[1][m].decl = 0
           /\ G[m] # NoSymbol => es[1][m] # NoSymbol
  BY DEF FileOK
<1>3. s # NoSymbol
  BY DEF Symbol, NoSymbol
<1>4. CASE s.kind = "var"
  <2>1. \A m \in Names : g[m] = IF m = n THEN s ELSE G[m]
    BY <1>2, <1>4 DEF Insert, Table
  <2>2. ASSUME NEW m \in Names
        PROVE  /\ IsObject(es2[1][m]) => SameEntity(g[m], es2[1][m])
               /\ es2[1][m].kind = "func" => es2[1][m].decl = 0
               /\ g[m] # NoSymbol => es2[1][m] # NoSymbol
    <3>1. CASE m = n
      BY <1>1, <1>3, <1>4, <2>1, <3>1 DEF SameEntity
    <3>2. CASE m # n
      BY <1>1, <1>2, <2>1, <3>2
    <3>3. QED
      BY <3>1, <3>2
  <2>3. QED
    BY <2>2 DEF FileOK
<1>5. CASE s.kind # "var"
  <2>1. g = G /\ s.kind = "typedef"
    BY <1>5
  <2>2. ASSUME NEW m \in Names
        PROVE  /\ IsObject(es2[1][m]) => SameEntity(g[m], es2[1][m])
               /\ es2[1][m].kind = "func" => es2[1][m].decl = 0
               /\ g[m] # NoSymbol => es2[1][m] # NoSymbol
    <3>1. CASE m = n
      BY <1>1, <1>3, <2>1, <3>1 DEF IsObject
    <3>2. CASE m # n
      BY <1>1, <1>2, <2>1, <3>2
    <3>3. QED
      BY <3>1, <3>2
  <2>3. QED
    BY <2>2 DEF FileOK
<1>6. QED
  BY <1>4, <1>5

\* CodeGen enters a function at its first declaration.
LEMMA FileFunction ==
  ASSUME NEW G \in Table, NEW es, es[1] \in Table, FileOK(G, es, <<>>),
         NEW d \in Node, d.kind = "func", NEW b \in BOOLEAN, d.sym = FuncSymbol(b),
         es[1][d.name].kind \notin {"var", "typedef"},
         NEW fs, fs # <<>>, fs[1].name = d.name
  PROVE  /\ FileOK(GlobalAfter(d, G), es, fs)
         /\ \A m \in Names : m # d.name => GlobalAfter(d, G)[m] = G[m]
<1> DEFINE n == d.name
           g == GlobalAfter(d, G)
           s == [d.sym EXCEPT !.body = FALSE]
<1>1. n \in Names
  BY DEF Node
<1>2. s.kind = "func" /\ s.decl = 0
  <2>1. d.sym \in Symbol
    BY DEF Node
  <2>2. d.sym.kind = "func" /\ d.sym.decl = 0
    BY DEF FuncSymbol
  <2>3. QED
    BY <2>1, <2>2 DEF Symbol
<1>3. \A m \in Names :
        /\ IsObject(es[1][m]) => SameEntity(G[m], es[1][m])
        /\ es[1][m].kind = "func" => es[1][m].decl = 0
        /\ G[m] # NoSymbol => es[1][m] # NoSymbol
  BY DEF FileOK
<1>4. es[1][n] = NoSymbol \/ es[1][n].kind = "func"
  <2>1. es[1][n] \in Symbol \cup {NoSymbol}
    BY <1>1 DEF Table
  <2>2. QED
    BY <2>1 DEF Symbol
<1>5. CASE G[n].kind = "func"
  <2>1. G[n] # NoSymbol
    BY <1>5 DEF NoSymbol
  <2>2. es[1][n].kind = "func" /\ es[1][n].decl = 0
    BY <1>1, <1>3, <1>4, <2>1
  <2>3. SameEntity(G[n], FuncSymbol(TRUE))
    BY <1>1, <1>3, <2>2 DEF SameEntity, FuncSymbol, IsObject
  <2>4. g = G
    BY <1>5 DEF GlobalAfter
  <2>5. QED
    BY <1>1, <1>3, <2>3, <2>4 DEF FileOK
<1>6. CASE G[n].kind # "func"
  <2>1. G[n] = NoSymbol
    <3> SUFFICES ASSUME G[n] # NoSymbol PROVE FALSE
      OBVIOUS
    <3>1. es[1][n].kind = "func"
      BY <1>1, <1>3, <1>4
    <3>2. G[n].kind = "func"
      BY <1>1, <1>3, <3>1 DEF IsObject, SameEntity
    <3>3. QED
      BY <1>6, <3>2
  <2>2. g = Insert(G, n, s)
    BY <1>6 DEF GlobalAfter
  <2>3. \A m \in Names : g[m] = IF m = n THEN s ELSE G[m]
    BY <1>1, <2>1, <2>2 DEF Insert, Table
  <2>4. SameEntity(g[n], FuncSymbol(TRUE))
    BY <1>1, <1>2, <2>3 DEF SameEntity, FuncSymbol
  <2>5. IsObject(es[1][n]) => SameEntity(g[n], es[1][n])
    <3> SUFFICES ASSUME IsObject(es[1][n]) PROVE SameEntity(g[n], es[1][n])
      OBVIOUS
    <3>1. es[1][n].kind = "func" /\ es[1][n].decl = 0
      BY <1>1, <1>3, <1>4 DEF IsObject, NoSymbol
    <3>2. QED
      BY <2>4, <3>1 DEF SameEntity, FuncSymbol
  <2>6. ASSUME NEW m \in Names
        PROVE  /\ IsObject(es[1][m]) => SameEntity(g[m], es[1][m])
               /\ es[1][m].kind = "func" => es[1][m].decl = 0
               /\ g[m] # NoSymbol => es[1][m] # NoSymbol \/ m = n
    BY <1>3, <2>3, <2>5
  <2>7. QED
    BY <1>1, <2>3, <2>4, <2>6 DEF FileOK
<1>7. QED
  BY <1>5, <1>6

\* Sema enters its name, unless it is there, at the end of a declaration.
EntersFunction(es, es2, n, b) ==
    /\ es2 \in Seq(Table) /\ es2 # <<>> /\ Len(es2) = 1
    /\ es[1][n].kind \notin {"var", "typedef"}
    /\ \A m \in Names : es2[1][m] = IF m = n /\ es[1][m] = NoSymbol THEN FuncSymbol(b) ELSE es[1][m]

\* The function being defined is entered in the file scope.
LEMMA FileFunctionDone ==
  ASSUME NEW G, NEW es, NEW fs, FileOK(G, es, fs), fs # <<>>, es[1] \in Table,
         NEW b, NEW es2, EntersFunction(es, es2, fs[1].name, b)
  PROVE  FileOK(G, es2, <<>>)
<1> DEFINE n == fs[1].name
<1>1. /\ n \in Names /\ SameEntity(G[n], FuncSymbol(TRUE))
      /\ \A m \in Names :
        /\ IsObject(es[1][m]) => SameEntity(G[m], es[1][m])
        /\ es[1][m].kind = "func" => es[1][m].decl = 0
        /\ G[m] # NoSymbol => es[1][m] # NoSymbol \/ m = n
  BY DEF FileOK
<1>2. SameEntity(G[n], FuncSymbol(b)) /\ FuncSymbol(b).decl = 0 /\ FuncSymbol(b) # NoSymbol
  BY <1>1 DEF SameEntity, FuncSymbol, NoSymbol
<1> HIDE DEF n
<1>3. ASSUME NEW m \in Names
      PROVE  /\ IsObject(es2[1][m]) => SameEntity(G[m], es2[1][m])
             /\ es2[1][m].kind = "func" => es2[1][m].decl = 0
             /\ G[m] # NoSymbol => es2[1][m] # NoSymbol
  <2>1. es2[1][m] = IF m = n /\ es[1][m] = NoSymbol THEN FuncSymbol(b) ELSE es[1][m]
    BY DEF n, EntersFunction
  <2>2. CASE m = n /\ es[1][m] = NoSymbol
    BY <1>2, <2>1, <2>2
  <2>3. CASE ~(m = n /\ es[1][m] = NoSymbol)
    BY <1>1, <2>1, <2>3
  <2>4. QED
    BY <2>2, <2>3
<1>4. QED
  BY <1>3 DEF FileOK

\* The tables of a function's header in CodeGen and in Sema, which enters the
\* function's own name there.
SameHeader(d, H) ==
    \A m \in Names :
      IF ParamTable(d)[m] # NoSymbol
        THEN m # d.name /\ H[m] # NoSymbol /\ SameEntity(ParamTable(d)[m], H[m])
        ELSE IF m = d.name THEN SameEntity(FuncSymbol(TRUE), H[m]) /\ H[m] # NoSymbol
        ELSE H[m] = NoSymbol

\* The body of a function begins.
LEMMA ViewFunc ==
  ASSUME NEW G \in Table, NEW es, es[1] \in Table, FileOK(G, es, <<>>),
         NEW d \in Node, d.kind = "func", NEW b \in BOOLEAN, d.sym = FuncSymbol(b),
         es[1][d.name].kind \notin {"var", "typedef"},
         NEW H \in Table, SameHeader(d, H),
         NEW f \in Frame, f.kind = "func", f.height = 2, f.name = d.name,
         NEW rs, rs[1] = 1, NEW fs, fs = <<f>>, NEW X,
         NEW es2 \in Seq(Table), es2 # <<>>, es2[1] = es[1], es2[2] = H
  PROVE  View(GlobalAfter(d, G), <<ParamTable(d)>>, rs, es2, fs, X)
<1> DEFINE g == GlobalAfter(d, G)
           l == <<ParamTable(d)>>
<1>1. fs # <<>> /\ fs[1] = f /\ Len(fs) = 1 /\ \A k \in 1 .. Len(fs) : k = 1
  OBVIOUS
<1>3. FileOK(g, es, fs) /\ \A m \in Names : m # d.name => g[m] = G[m]
  BY <1>1, FileFunction
<1>6. FileOK(g, es2, fs)
  BY ZenonT(60), <1>3 DEF FileOK
<1>7. ASSUME NEW m \in Names
      PROVE  /\ Inner(es2, 2, m) = IF H[m] # NoSymbol THEN H[m] ELSE es[1][m]
             /\ Storage(g, l, 1, m) = IF ParamTable(d)[m] # NoSymbol THEN ParamTable(d)[m] ELSE g[m]
  <2>1. Inner(es2, 2, m) = IF es2[2][m] # NoSymbol THEN es2[2][m] ELSE Inner(es2, 2 - 1, m)
    BY InnerStep
  <2>2. 2 - 1 = 1 /\ l[1] = ParamTable(d)
    OBVIOUS
  <2>3. Inner(es2, 1, m) = es[1][m] /\ Inner(l, 1, m) = ParamTable(d)[m]
    BY <2>2, InnerOne
  <2>4. QED
    BY <2>1, <2>2, <2>3 DEF Storage
<1>8. ASSUME NEW m \in Names, IsObject(Inner(es2, 2, m))
      PROVE  SameEntity(Storage(g, l, 1, m), Inner(es2, 2, m))
  <2>1. CASE ParamTable(d)[m] # NoSymbol
    BY <1>7, <2>1 DEF SameHeader
  <2>2. CASE ParamTable(d)[m] = NoSymbol /\ m = d.name
    <3>1. SameEntity(FuncSymbol(TRUE), H[m]) /\ H[m] # NoSymbol
      BY <2>2 DEF SameHeader
    <3>2. SameEntity(g[m], FuncSymbol(TRUE))
      BY <1>1, <1>3, <2>2 DEF FileOK
    <3>3. QED
      BY ZenonT(60), <1>7, <2>2, <3>1, <3>2 DEF SameEntity
  <2>3. CASE ParamTable(d)[m] = NoSymbol /\ m # d.name
    <3>1. H[m] = NoSymbol
      BY <2>3 DEF SameHeader
    <3>2. Inner(es2, 2, m) = es[1][m] /\ Storage(g, l, 1, m) = G[m]
      BY <1>3, <1>7, <2>3, <3>1
    <3>3. QED
      BY <1>8, <3>2 DEF FileOK
  <2>4. QED
    BY <2>1, <2>2, <2>3
<1>9. FrameOK(g, l, 1, es2, f, X)
  <2>1. \A m \in Names : l[1][m] # NoSymbol => es2[2][m] # NoSymbol
    BY DEF SameHeader
  <2>2. QED
    BY <1>8, <2>1 DEF FrameOK
<1>10. QED
  BY <1>1, <1>6, <1>9 DEF View

-----------------------------------------------------------------------------
(* A visit of the nodes parsed so far, tied to the scopes that are open. *)

\* The shapes on which Sema and CodeGen part ways.
Parting == { "caseDecl", "loopReuse", "loopBodyDecl", "funcPointer", "typedefExpr", "globalSelf" }

\* The function being defined has the name of an object that is no function:
\* SemaFuncDecl will reject it.
Doomed(es, fs) == fs # <<>> /\ es[1][fs[1].name].kind \in {"var", "typedef"}

\* Sema and CodeGen are expected to agree.
Sound(es, fs) == Parting \cap Shapes = {} /\ ~Doomed(es, fs)

\* The nodes a have the visit gs, ls, which leaves the tables G and L; these
\* belong to the open constructs fs and hold what the environments es do.
Ties(gs, ls, rs, G, L, a, fs, es, X) ==
    /\ es \in Seq(Table) /\ es # <<>>
    /\ Struct(gs, ls, rs, a, fs, Len(es), G, L)
    /\ Sound(es, fs) => UsesOK(gs, ls, a) /\ View(G, L, rs, es, fs, X)

\* There is such a visit.
Tied(a, fs, es, X) == \E gs, ls, rs, G, L : Ties(gs, ls, rs, G, L, a, fs, es, X)

\* Nothing has been parsed.
LEMMA TiedStart ==
  ASSUME NEW X
  PROVE  Tied(<<>>, <<>>, <<EmptyTable>>, X)
<1> DEFINE gs == <<EmptyTable>>
           ls == << <<>> >>
<1>1. /\ gs \in Seq(Table) /\ Len(gs) = 1 /\ gs[1] = EmptyTable
      /\ ls \in Seq(Seq(Table)) /\ Len(ls) = 1 /\ ls[1] = <<>>
      /\ <<>> \in Seq(Table) /\ <<>> \in Seq(Frame) /\ <<>> \in Seq(Node) /\ <<>> \in Seq(Nat)
      /\ gs # <<>>
  BY EmptyTableType
<1>2. IsVisit(gs, ls, <<>>)
  BY <1>1 DEF IsVisit
<1>3. Levels(<<>>, <<>>, 0, 1)
  BY DEF Levels
<1>4. JumpsMatch(gs, ls, <<>>, <<>>, <<>>)
  BY DEF JumpsMatch
<1> HIDE DEF gs, ls
<1>5. Struct(gs, ls, <<>>, <<>>, <<>>, 1, EmptyTable, <<>>)
  BY <1>1, <1>2, <1>3, <1>4 DEF Struct
<1>6. UsesOK(gs, ls, <<>>)
  BY DEF UsesOK
<1>7. FileOK(EmptyTable, gs, <<>>)
  BY <1>1 DEF FileOK, EmptyTable, NoSymbol, IsObject
<1>8. View(EmptyTable, <<>>, <<>>, gs, <<>>, X)
  BY <1>1, <1>7 DEF View
<1>9. Ties(gs, ls, <<>>, EmptyTable, <<>>, <<>>, <<>>, gs, X)
  BY <1>1, <1>5, <1>6, <1>8 DEF Ties
<1>10. QED
  BY <1>9 DEF Tied, gs

\* What is known of what is tied.
LEMMA TiedTop ==
  ASSUME NEW a, NEW fs, NEW es, NEW X, Tied(a, fs, es, X)
  PROVE  /\ a \in Seq(Node) /\ fs \in Seq(Frame) /\ es \in Seq(Table) /\ es # <<>>
         /\ Len(a) \in Nat /\ Len(fs) \in Nat /\ Len(es) \in Nat /\ Len(es) >= 1
         /\ es[1] \in Table /\ es[Len(es)] \in Table
         /\ fs = <<>> => Len(es) = 1
         /\ fs # <<>> => Len(es) = fs[Len(fs)].height /\ Len(es) >= 2 /\ fs[1].kind = "func"
<1>1. PICK gs, ls, rs, G, L : Ties(gs, ls, rs, G, L, a, fs, es, X)
  BY DEF Tied
<1>2. es \in Seq(Table) /\ es # <<>> /\ Struct(gs, ls, rs, a, fs, Len(es), G, L)
  BY <1>1 DEF Ties
<1>3. /\ a \in Seq(Node) /\ fs \in Seq(Frame) /\ Len(a) \in Nat /\ Len(fs) \in Nat
      /\ Levels(rs, fs, Len(L), Len(es))
  BY <1>2, StructTop
<1>4. Len(es) \in Nat /\ Len(es) >= 1 /\ es[1] \in Table /\ es[Len(es)] \in Table
  BY <1>2
<1>5. fs = <<>> => Len(es) = 1
  BY <1>3 DEF Levels
<1>6. fs # <<>> => Len(es) = fs[Len(fs)].height /\ Len(es) >= 2
  BY <1>3, LevelsTop
<1>7. fs # <<>> => fs[1].kind = "func"
  <2>1. fs # <<>> => 1 \in 1 .. Len(fs)
    BY <1>3
  <2>2. QED
    BY <1>3, <2>1 DEF Levels
<1>8. QED
  BY <1>2, <1>3, <1>4, <1>5, <1>6, <1>7

\* More loop variables.
LEMMA TiedWider ==
  ASSUME NEW a, NEW fs, NEW es, NEW X, Tied(a, fs, es, X), NEW Y, fs = <<>> \/ X \subseteq Y
  PROVE  Tied(a, fs, es, Y)
<1>1. PICK gs, ls, rs, G, L : Ties(gs, ls, rs, G, L, a, fs, es, X)
  BY DEF Tied
<1>2. Sound(es, fs) => View(G, L, rs, es, fs, Y)
  BY <1>1, ViewWider DEF Ties
<1>3. Ties(gs, ls, rs, G, L, a, fs, es, Y)
  BY <1>1, <1>2 DEF Ties
<1>4. QED
  BY <1>3 DEF Tied

\* A statement has been parsed.
LEMMA TiedAlike ==
  ASSUME NEW a, NEW fs, NEW es, NEW X, Tied(a, fs, es, X), NEW fs2, Alike(fs, fs2)
  PROVE  Tied(a, fs2, es, X)
<1>1. PICK gs, ls, rs, G, L : Ties(gs, ls, rs, G, L, a, fs, es, X)
  BY DEF Tied
<1>2. /\ es \in Seq(Table) /\ es # <<>> /\ Struct(gs, ls, rs, a, fs, Len(es), G, L)
      /\ Sound(es, fs) => UsesOK(gs, ls, a) /\ View(G, L, rs, es, fs, X)
  BY <1>1 DEF Ties
<1>3. SameKinds(fs, fs2)
  BY DEF Alike
<1>4. Struct(gs, ls, rs, a, fs2, Len(es), G, L)
  BY <1>2, <1>3, StructAlike
<1>5. Sound(es, fs) <=> Sound(es, fs2)
  <2>1. fs \in Seq(Frame) /\ fs2 \in Seq(Frame) /\ Len(fs) = Len(fs2)
    BY <1>2, <1>3 DEF Struct, SameKinds
  <2>2. fs = <<>> <=> fs2 = <<>>
    BY <2>1
  <2>3. fs # <<>> => 1 \in 1 .. Len(fs)
    BY <2>1
  <2>4. fs # <<>> => fs2[1].name = fs[1].name
    BY <2>3 DEF Alike
  <2>5. QED
    BY <2>2, <2>4 DEF Sound, Doomed
<1>6. Sound(es, fs) => View(G, L, rs, es, fs2, X)
  BY <1>2, ViewAlike
<1>7. Ties(gs, ls, rs, G, L, a, fs2, es, X)
  BY <1>2, <1>4, <1>5, <1>6 DEF Ties
<1>8. QED
  BY <1>7 DEF Tied

\* An access to what Sema finds, or a jump.
LEMMA TiedStay ==
  ASSUME NEW a, NEW fs, NEW es, NEW X, Tied(a, fs, es, X),
         NEW d \in Node, d.kind \in {"use", "jump"}, d.depth = Len(fs),
         d.kind = "jump" => Len(fs) >= 2,
         d.kind = "use" /\ Sound(es, fs) => IsObject(d.sym) /\ Inner(es, Len(es), d.name) = d.sym
  PROVE  Tied(Append(a, d), fs, es, X)
<1>1. PICK gs, ls, rs, G, L : Ties(gs, ls, rs, G, L, a, fs, es, X)
  BY DEF Tied
<1>2. /\ es \in Seq(Table) /\ es # <<>> /\ Struct(gs, ls, rs, a, fs, Len(es), G, L)
      /\ Sound(es, fs) => UsesOK(gs, ls, a) /\ View(G, L, rs, es, fs, X)
  BY <1>1 DEF Ties
<1>3. G \in Table /\ L \in Seq(Table)
  BY <1>2, StructTop
<1>4. Struct(Append(gs, G), Append(ls, L), rs, Append(a, d), fs, Len(es), G, L)
  BY <1>2, StructStay
<1>5. Sound(es, fs) => UsesOK(Append(gs, G), Append(ls, L), Append(a, d))
  <2>1. SUFFICES ASSUME Sound(es, fs) PROVE UsesOK(Append(gs, G), Append(ls, L), Append(a, d))
    OBVIOUS
  <2>2. ASSUME d.kind = "use"
        PROVE  IsObject(d.sym) /\ SameEntity(Storage(G, L, Len(L), d.name), d.sym)
    <3>1. IsObject(d.sym) /\ Inner(es, Len(es), d.name) = d.sym /\ d.name \in Names
      BY <2>1, <2>2 DEF Node
    <3>2. SameEntity(Storage(G, L, Len(L), d.name), Inner(es, Len(es), d.name))
      BY <1>2, <2>1, <3>1, TopFinds
    <3>3. QED
      BY <3>1, <3>2
  <2>3. QED
    BY <1>2, <1>3, <2>1, <2>2, UsesAppend
<1>6. Ties(Append(gs, G), Append(ls, L), rs, G, L, Append(a, d), fs, es, X)
  BY <1>2, <1>4, <1>5 DEF Ties
<1>7. QED
  BY <1>6 DEF Tied

\* A block, label or loop is opened.
LEMMA TiedPush ==
  ASSUME NEW a, NEW fs, NEW es, NEW X, Tied(a, fs, es, X), fs # <<>>,
         NEW d \in Node, d.kind \in {"block", "case", "for"}, d.depth = Len(fs),
         NEW f \in Frame, f.kind = d.kind, f.inc = <<>>,
         Inside(f, Len(es)),
         NEW es2, es2 = IF f.kind = "case" THEN es ELSE Append(es, EmptyTable)
  PROVE  Tied(Append(a, d), Append(fs, f), es2, X)
<1>1. PICK gs, ls, rs, G, L : Ties(gs, ls, rs, G, L, a, fs, es, X)
  BY DEF Tied
<1>2. /\ es \in Seq(Table) /\ es # <<>> /\ Struct(gs, ls, rs, a, fs, Len(es), G, L)
      /\ Sound(es, fs) => UsesOK(gs, ls, a) /\ View(G, L, rs, es, fs, X)
  BY <1>1 DEF Ties
<1> DEFINE l == IF f.kind = "for" THEN L ELSE Append(L, EmptyTable)
           r2 == Len(L) + (IF f.kind = "for" THEN 0 ELSE 1)
<1>0. f.height = Len(es) + (IF f.kind = "case" THEN 0 ELSE 1)
  BY DEF Inside
<1>3. /\ G \in Table /\ L \in Seq(Table) /\ fs \in Seq(Frame) /\ Len(fs) \in Nat
      /\ Len(L) \in Nat
  BY <1>2, StructTop
<1>4. l \in Seq(Table)
  BY <1>3, EmptyTableType
<1>5. Struct(Append(gs, G), Append(ls, l), Append(rs, r2), Append(a, d), Append(fs, f),
             f.height, G, l)
  <2>1. CASE f.kind = "for"
    <3>1. f.height = Len(es) + 1 /\ l = L /\ r2 = Len(L) /\ d.kind = "for"
      BY <1>0, <1>3, <2>1
    <3>2. QED
      BY <1>2, <2>1, <3>1, StructFor
  <2>2. CASE f.kind # "for"
    <3>1. /\ l = Append(L, EmptyTable) /\ r2 = Len(L) + 1 /\ d.kind \in {"block", "case"}
      BY <2>2
    <3>2. Struct(Append(gs, G), Append(ls, Append(L, EmptyTable)), Append(rs, Len(L) + 1),
                 Append(a, d), Append(fs, f), f.height, G, Append(L, EmptyTable))
      BY <1>2, <3>1, StructPush
    <3>3. QED
      BY <3>1, <3>2
  <2>3. QED
    BY <2>1, <2>2
<1>6. es2 \in Seq(Table) /\ es2 # <<>> /\ Len(es2) = f.height /\ es2[1] = es[1]
  <2>1. Len(es) \in Nat /\ Len(es) >= 1
    BY <1>2
  <2>2. CASE f.kind = "case"
    BY <1>0, <1>2, <2>1, <2>2
  <2>3. CASE f.kind # "case"
    <3>1. es2 = Append(es, EmptyTable)
      BY <2>3
    <3>2. es2 \in Seq(Table) /\ Len(es2) = Len(es) + 1 /\ \A i \in 1 .. Len(es) : es2[i] = es[i]
      BY <1>2, <3>1, EmptyTableType, AppendParts
    <3>3. Len(es2) # 0
      BY <2>1, <3>2
    <3>4. QED
      <4>1. es2 # <<>>
        BY <3>2, <3>3, EmptySeq
      <4>2. 1 \in 1 .. Len(es) /\ Len(es2) = f.height
        BY <1>0, <2>1, <2>3, <3>2
      <4>3. QED
        BY <3>2, <4>1, <4>2
  <2>4. QED
    BY <2>2, <2>3
<1>7. Append(fs, f) # <<>> /\ Append(fs, f)[1] = fs[1]
  <2>1. Append(fs, f) # <<>>
    BY <1>3, AppendProperties, ZenonT(60)
  <2>2. 1 \in 1 .. Len(fs)
    BY <1>3
  <2>3. Append(fs, f)[1] = fs[1]
    BY <1>3, <2>2, AppendParts
  <2>4. QED
    BY <2>1, <2>3
<1>8. Sound(es2, Append(fs, f)) <=> Sound(es, fs)
  BY <1>6, <1>7 DEF Sound, Doomed
<1>9. Sound(es, fs) => UsesOK(Append(gs, G), Append(ls, l), Append(a, d))
  BY <1>2, <1>3, <1>4, UsesAppend
<1>10. Sound(es, fs) => View(G, l, Append(rs, r2), es2, Append(fs, f), X)
  <2>1. Opens(f, es, es2, L, l, r2) /\ f.kind \in {"block", "case", "for"}
    BY <1>3 DEF Opens
  <2> HIDE DEF l, r2
  <2>2. SUFFICES ASSUME Sound(es, fs) PROVE View(G, l, Append(rs, r2), es2, Append(fs, f), X)
    OBVIOUS
  <2>3. Struct(gs, ls, rs, a, fs, Len(es), G, L) /\ View(G, L, rs, es, fs, X)
    BY <1>2, <2>2
  <2>4. QED
    BY <2>1, <2>3, ViewPush
<1>11. Ties(Append(gs, G), Append(ls, l), Append(rs, r2), G, l, Append(a, d), Append(fs, f), es2, X)
  BY <1>5, <1>6, <1>8, <1>9, <1>10 DEF Ties
<1>12. QED
  BY <1>11 DEF Tied

\* The innermost construct, but not the function, is closed.
Closes(fs, es, es2) ==
    /\ es2 \in Seq(Table) /\ es2 # <<>> /\ Len(es2) = fs[Len(fs) - 1].height
    /\ \A t \in 1 .. Len(es2) : es2[t] = es[t]

\* A construct is closed.
LEMMA TiedPop ==
  ASSUME NEW a, NEW fs, NEW es, NEW X, Tied(a, fs, es, X), Len(fs) >= 2,
         NEW d \in Node, d.depth = Len(fs) - 1,
         IF d.kind = "endfor" THEN fs[Len(fs)].kind = "for"
         ELSE d.kind \in {"endblock", "endcase"} /\ fs[Len(fs)].kind # "for",
         NEW es2, Closes(fs, es, es2)
  PROVE  Tied(Append(a, d), Front(fs), es2, X)
<1>1. PICK gs, ls, rs, G, L : Ties(gs, ls, rs, G, L, a, fs, es, X)
  BY DEF Tied
<1>2. /\ es \in Seq(Table) /\ es # <<>> /\ Struct(gs, ls, rs, a, fs, Len(es), G, L)
      /\ Sound(es, fs) => UsesOK(gs, ls, a) /\ View(G, L, rs, es, fs, X)
  BY <1>1 DEF Ties
<1>3. /\ es2 \in Seq(Table) /\ es2 # <<>> /\ Len(es2) = fs[Len(fs) - 1].height
      /\ \A t \in 1 .. Len(es2) : es2[t] = es[t]
  BY DEF Closes
<1> DEFINE l == IF d.kind = "endfor" THEN L ELSE Front(L)
<1>4. G \in Table /\ L \in Seq(Table) /\ fs \in Seq(Frame) /\ Len(fs) \in Nat
  BY <1>2, StructTop
<1>5. \/ d.kind = "endfor" /\ fs[Len(fs)].kind = "for" /\ l = L
      \/ d.kind \in {"endblock", "endcase"} /\ fs[Len(fs)].kind # "for" /\ l = Front(L)
  OBVIOUS
<1> HIDE DEF l
<1>6. /\ Struct(Append(gs, G), Append(ls, l), Front(rs), Append(a, d), Front(fs),
                fs[Len(fs) - 1].height, G, l)
      /\ l \in Seq(Table) /\ Len(l) = rs[Len(fs) - 1] /\ \A t \in 1 .. Len(l) : l[t] = L[t]
  BY <1>2, <1>5, StructPop
<1>7. Struct(Append(gs, G), Append(ls, l), Front(rs), Append(a, d), Front(fs), Len(es2), G, l)
  BY <1>3, <1>6
<1>8. fs # <<>> /\ Front(fs) # <<>> /\ Front(fs)[1] = fs[1] /\ es2[1] = es[1]
  <2>1. fs # <<>> /\ 1 \in 1 .. Len(fs) - 1
    BY <1>4
  <2>2. /\ Front(fs) \in Seq(Frame) /\ Len(Front(fs)) = Len(fs) - 1
        /\ \A i \in 1 .. Len(fs) - 1 : Front(fs)[i] = fs[i]
    BY <1>4, <2>1, FrontType
  <2>3. Front(fs) # <<>> /\ Front(fs)[1] = fs[1]
    BY <2>1, <2>2
  <2>4. 1 \in 1 .. Len(es2)
    BY <1>3
  <2>5. QED
    BY <1>3, <2>1, <2>3, <2>4
<1>9. Sound(es2, Front(fs)) <=> Sound(es, fs)
  BY <1>8 DEF Sound, Doomed
<1>10. d.kind # "use"
  BY <1>5
<1>11. Sound(es, fs) => UsesOK(Append(gs, G), Append(ls, l), Append(a, d))
  BY <1>2, <1>4, <1>6, <1>10, UsesAppend
<1>12. Sound(es, fs) => View(G, l, Front(rs), es2, Front(fs), X)
  <2>1. \A t \in 1 .. rs[Len(fs) - 1] : l[t] = L[t]
    BY <1>6
  <2>2. \A t \in 1 .. fs[Len(fs) - 1].height : es2[t] = es[t]
    BY <1>3
  <2>3. QED
    BY <1>2, <1>3, <2>1, <2>2, ViewPop
<1>13. Ties(Append(gs, G), Append(ls, l), Front(rs), G, l, Append(a, d), Front(fs), es2, X)
  BY <1>3, <1>7, <1>9, <1>11, <1>12 DEF Ties
<1>14. QED
  BY <1>13 DEF Tied

\* A variable is declared in a block or by a for.
Declares(fs, es, es2, n, s, X, Y) ==
    /\ n \in Names /\ s \in Symbol /\ n \notin X
    /\ es[Len(es)][n] = NoSymbol /\ Adds(es, es2, Len(es), n, s)
    /\ \/ fs[Len(fs)].kind = "block" /\ Y = X
       \/ /\ fs[Len(fs)].kind = "for" /\ fs[Len(fs)].inc = <<>>
          /\ Inner(es, Len(es), n) = NoSymbol /\ Y = X \cup {n}

\* CodeGen has no variable of that name where it enters this one.
LEMMA TableHasRoom ==
  ASSUME NEW gs, NEW ls, NEW rs, NEW a, NEW fs, NEW es, NEW G, NEW L, NEW X,
         Struct(gs, ls, rs, a, fs, Len(es), G, L), View(G, L, rs, es, fs, X), fs # <<>>,
         NEW es2, NEW n, NEW s, NEW Y, Declares(fs, es, es2, n, s, X, Y)
  PROVE  L[Len(L)][n] = NoSymbol
<1> DEFINE N == Len(fs)
<1>1. fs \in Seq(Frame) /\ Levels(rs, fs, Len(L), Len(es)) /\ N \in Nat /\ N \in 1 .. N
  BY DEF Struct
<1>2. rs[N] = Len(L) /\ fs[N].height = Len(es) /\ Len(es) \in Nat /\ Len(L) \in Nat
  BY <1>1, LevelsTop
<1>3. PICK j \in 1 .. N : fs[j].kind # "for" /\ rs[j] = rs[N]
  BY <1>1 DEF Levels
<1>4. FrameOK(G, L, rs[j], es, fs[j], X)
  BY DEF View
<1>5. n \in Names /\ n \notin X
  BY DEF Declares
<1>6. L[Len(L)][n] # NoSymbol => es[fs[j].height][n] # NoSymbol
  BY <1>2, <1>3, <1>4, <1>5 DEF FrameOK
<1>7. CASE fs[N].kind = "block"
  <2>1. j = N
    <3>1. \A i \in 1 .. N - 1 : rs[i] < rs[N]
      BY <1>1, <1>7 DEF Levels
    <3>2. j < N => j \in 1 .. N - 1
      BY <1>1
    <3>3. rs[N] \in Nat
      BY <1>2
    <3>4. ~(j < N)
      BY <1>3, <3>1, <3>2, <3>3
    <3>5. QED
      BY <1>1, <3>4
  <2>2. QED
    BY <1>2, <1>6, <2>1 DEF Declares
<1>8. CASE fs[N].kind # "block"
  <2>1. Inner(es, Len(es), n) = NoSymbol
    BY <1>8 DEF Declares
  <2>2. \A i \in 1 .. Len(es) : es[i][n] = NoSymbol
    BY <1>2, <2>1, InnerNone
  <2>3. fs[j].height \in 1 .. Len(es)
    <3>1. fs[j].height \in Nat /\ fs[j].height >= 2 /\ fs[j].height <= Len(es)
      BY ZenonT(60), <1>1, LevelsBelow
    <3>2. QED
      BY <1>2, <3>1
  <2>4. QED
    BY <1>6, <2>2, <2>3
<1>9. QED
  BY <1>7, <1>8

\* A local variable is declared.
LEMMA TiedVar ==
  ASSUME NEW a, NEW fs, NEW es, NEW X, Tied(a, fs, es, X), fs # <<>>,
         NEW d \in Node, d.kind = "var", d.depth = Len(fs),
         NEW es2 \in Seq(Table), es2 # <<>>, Len(es2) = Len(es), es2[1] = es[1],
         NEW Y, Sound(es, fs) => Declares(fs, es, es2, d.name, d.sym, X, Y)
  PROVE  Tied(Append(a, d), fs, es2, Y)
<1>1. PICK gs, ls, rs, G, L : Ties(gs, ls, rs, G, L, a, fs, es, X)
  BY DEF Tied
<1>2. /\ es \in Seq(Table) /\ es # <<>> /\ Struct(gs, ls, rs, a, fs, Len(es), G, L)
      /\ Sound(es, fs) => UsesOK(gs, ls, a) /\ View(G, L, rs, es, fs, X)
  BY <1>1 DEF Ties
<1> DEFINE l == [L EXCEPT ![Len(L)] = Insert(@, d.name, d.sym)]
           n == d.name
           s == d.sym
<1>3. G \in Table /\ L \in Seq(Table) /\ fs \in Seq(Frame) /\ Levels(rs, fs, Len(L), Len(es))
  BY <1>2, StructTop
<1>4. /\ Struct(Append(gs, G), Append(ls, l), rs, Append(a, d), fs, Len(es), G, l)
      /\ Len(l) = Len(L) /\ Len(L) >= 1
  BY <1>2, StructVar
<1>5. l \in Seq(Table)
  <2> HIDE DEF l
  <2>1. QED
    BY <1>4, StructTop
<1>6. Sound(es2, fs) <=> Sound(es, fs)
  BY DEF Sound, Doomed
<1>7. d.kind # "use"
  OBVIOUS
<1>8. Sound(es, fs) => UsesOK(Append(gs, G), Append(ls, l), Append(a, d))
  BY <1>2, <1>3, <1>5, <1>7, UsesAppend
<1>9. ASSUME Sound(es, fs) PROVE View(G, l, rs, es2, fs, Y)
  <2>1. Declares(fs, es, es2, n, s, X, Y) /\ View(G, L, rs, es, fs, X)
    BY <1>2, <1>9
  <2>2. n \in Names /\ s \in Symbol /\ n \notin X /\ Adds(es, es2, Len(es), n, s)
    BY <2>1 DEF Declares
  <2>3. L[Len(L)][n] = NoSymbol
    BY <1>2, <2>1, TableHasRoom
  <2>4. l = [L EXCEPT ![Len(L)] = Insert(@, n, s)]
    OBVIOUS
  <2> HIDE DEF l, n, s
  <2>5. Adds(L, l, Len(L), n, s)
    BY <1>3, <1>4, <2>2, <2>3, <2>4, InsertAdds
  <2>6. CASE fs[Len(fs)].kind = "block"
    <3>1. Y = X
      BY <2>1, <2>6 DEF Declares
    <3>2. View(G, l, rs, es2, fs, X)
      BY <1>2, <2>1, <2>2, <2>5, <2>6, ViewVar
    <3>3. QED
      BY <3>1, <3>2
  <2>7. CASE fs[Len(fs)].kind # "block"
    <3>1. /\ fs[Len(fs)].kind = "for" /\ fs[Len(fs)].inc = <<>>
          /\ Inner(es, Len(es), n) = NoSymbol /\ Y = X \cup {n}
      BY <2>1, <2>7 DEF Declares
    <3>2. View(G, l, rs, es2, fs, X \cup {n})
      BY <1>2, <2>1, <2>2, <2>5, <3>1, ViewLoopVar
    <3>3. QED
      BY <3>1, <3>2
  <2>8. QED
    BY <2>6, <2>7
<1>10. Struct(Append(gs, G), Append(ls, l), rs, Append(a, d), fs, Len(es2), G, l)
  BY <1>4
<1>11. Ties(Append(gs, G), Append(ls, l), rs, G, l, Append(a, d), fs, es2, Y)
  BY <1>6, <1>8, <1>9, <1>10 DEF Ties
<1>12. QED
  BY <1>11 DEF Tied

\* A for's increment is noted.
LEMMA TiedInc ==
  ASSUME NEW a, NEW fs, NEW es, NEW X, Tied(a, fs, es, X), fs # <<>>,
         NEW fs2, SameKinds(fs, fs2), fs2[1].name = fs[1].name, Sound(es, fs) => Notes(fs, fs2, es)
  PROVE  Tied(a, fs2, es, X)
<1>1. PICK gs, ls, rs, G, L : Ties(gs, ls, rs, G, L, a, fs, es, X)
  BY DEF Tied
<1>2. /\ es \in Seq(Table) /\ es # <<>> /\ Struct(gs, ls, rs, a, fs, Len(es), G, L)
      /\ Sound(es, fs) => UsesOK(gs, ls, a) /\ View(G, L, rs, es, fs, X)
  BY <1>1 DEF Ties
<1>3. Struct(gs, ls, rs, a, fs2, Len(es), G, L)
  BY <1>2, StructAlike
<1>4. fs2 # <<>>
  BY <1>2 DEF Struct, SameKinds
<1>5. Sound(es, fs2) <=> Sound(es, fs)
  BY <1>4 DEF Sound, Doomed
<1>6. Sound(es, fs) => View(G, L, rs, es, fs2, X)
  BY <1>2, ViewInc
<1>7. Ties(gs, ls, rs, G, L, a, fs2, es, X)
  BY <1>2, <1>3, <1>5, <1>6 DEF Ties
<1>8. QED
  BY <1>7 DEF Tied

\* A typedef is declared in a block or after a label.
LoopsBelow(fs, h) == \A k \in 1 .. Len(fs) : fs[k].kind = "for" => fs[k].height < h

\* A typedef leaves no node.
LEMMA TiedTypedef ==
  ASSUME NEW a, NEW fs, NEW es, NEW X, Tied(a, fs, es, X), fs # <<>>, LoopsBelow(fs, Len(es)),
         NEW n \in Names, NEW s \in Symbol, s.kind = "typedef",
         NEW es2 \in Seq(Table), es2 # <<>>, Len(es2) = Len(es), es2[1] = es[1],
         Adds(es, es2, Len(es), n, s)
  PROVE  Tied(a, fs, es2, X)
<1>1. PICK gs, ls, rs, G, L : Ties(gs, ls, rs, G, L, a, fs, es, X)
  BY DEF Tied
<1>2. /\ es \in Seq(Table) /\ es # <<>> /\ Struct(gs, ls, rs, a, fs, Len(es), G, L)
      /\ Sound(es, fs) => UsesOK(gs, ls, a) /\ View(G, L, rs, es, fs, X)
  BY <1>1 DEF Ties
<1>3. \A k \in 1 .. Len(fs) : fs[k].kind = "for" => fs[k].height < Len(es)
  BY DEF LoopsBelow
<1>4. Sound(es2, fs) <=> Sound(es, fs)
  BY DEF Sound, Doomed
<1>5. Sound(es, fs) => View(G, L, rs, es2, fs, X)
  BY <1>2, <1>3, ViewTypedef
<1>6. Struct(gs, ls, rs, a, fs, Len(es2), G, L)
  BY <1>2
<1>7. Ties(gs, ls, rs, G, L, a, fs, es2, X)
  BY <1>2, <1>4, <1>5, <1>6 DEF Ties
<1>8. QED
  BY <1>7 DEF Tied

\* A typedef or a global is declared at file scope.
LEMMA TiedFileTypedef ==
  ASSUME NEW a, NEW es, NEW X, Tied(a, <<>>, es, X),
         NEW n \in Names, NEW s \in Symbol, s.kind = "typedef", es[1][n] = NoSymbol,
         NEW es2 \in Seq(Table), es2 # <<>>, Len(es2) = Len(es), Adds(es, es2, 1, n, s)
  PROVE  Tied(a, <<>>, es2, X)
<1>1. PICK gs, ls, rs, G, L : Ties(gs, ls, rs, G, L, a, <<>>, es, X)
  BY DEF Tied
<1>2. /\ es \in Seq(Table) /\ es # <<>> /\ Struct(gs, ls, rs, a, <<>>, Len(es), G, L)
      /\ Sound(es, <<>>) => UsesOK(gs, ls, a) /\ View(G, L, rs, es, <<>>, X)
  BY <1>1 DEF Ties
<1>3. G \in Table
  BY <1>2, StructTop
<1>4. Sound(es2, <<>>) <=> Sound(es, <<>>)
  BY DEF Sound, Doomed
<1>5. ASSUME Sound(es, <<>>) PROVE View(G, L, rs, es2, <<>>, X)
  <2>1. FileOK(G, es, <<>>)
    BY <1>2, <1>5 DEF View
  <2>2. FileOK(G, es2, <<>>)
    <3>1. IF s.kind = "var" THEN G = Insert(G, n, s) ELSE s.kind = "typedef" /\ G = G
      OBVIOUS
    <3>2. QED
      BY <1>3, <2>1, <3>1, FileDeclares
  <2>3. QED
    BY <2>2 DEF View
<1>6. Struct(gs, ls, rs, a, <<>>, Len(es2), G, L)
  BY <1>2
<1>7. Ties(gs, ls, rs, G, L, a, <<>>, es2, X)
  BY <1>2, <1>4, <1>5, <1>6 DEF Ties
<1>8. QED
  BY <1>7 DEF Tied

\* A global is declared.
LEMMA TiedGlobal ==
  ASSUME NEW a, NEW es, NEW X, Tied(a, <<>>, es, X),
         NEW d \in Node, d.kind = "gvar", d.sym.kind = "var", es[1][d.name] = NoSymbol,
         NEW es2 \in Seq(Table), es2 # <<>>, Len(es2) = Len(es), Adds(es, es2, 1, d.name, d.sym)
  PROVE  Tied(Append(a, d), <<>>, es2, X)
<1>1. PICK gs, ls, rs, G, L : Ties(gs, ls, rs, G, L, a, <<>>, es, X)
  BY DEF Tied
<1>2. /\ es \in Seq(Table) /\ es # <<>> /\ Struct(gs, ls, rs, a, <<>>, Len(es), G, L)
      /\ Sound(es, <<>>) => UsesOK(gs, ls, a) /\ View(G, L, rs, es, <<>>, X)
  BY <1>1 DEF Ties
<1> DEFINE g == GlobalAfter(d, G)
<1>3. G \in Table /\ g \in Table /\ <<>> \in Seq(Table)
  <2>1. G \in Table /\ L \in Seq(Table)
    BY <1>2, StructTop
  <2>2. g \in Table
    BY <2>1, EffectType
  <2>3. <<>> \in Seq(Table)
    OBVIOUS
  <2>4. QED
    BY <2>1, <2>2, <2>3
<1>4. Sound(es2, <<>>) <=> Sound(es, <<>>)
  BY DEF Sound, Doomed
<1>5. d.name \in Names /\ d.sym \in Symbol
  BY DEF Node
<1>6. g = Insert(G, d.name, d.sym)
  BY DEF GlobalAfter
<1>7. d.kind # "use"
  OBVIOUS
<1>8. Struct(Append(gs, g), Append(ls, <<>>), rs, Append(a, d), <<>>, Len(es2), g, <<>>)
  BY <1>2, StructExternal
<1> HIDE DEF g
<1>9. ASSUME Sound(es, <<>>) PROVE View(g, <<>>, rs, es2, <<>>, X)
  <2>1. FileOK(G, es, <<>>)
    BY <1>2, <1>9 DEF View
  <2>2. FileOK(g, es2, <<>>)
    <3>1. IF d.sym.kind = "var" THEN g = Insert(G, d.name, d.sym)
          ELSE d.sym.kind = "typedef" /\ g = G
      BY <1>6
    <3>2. QED
      BY <1>3, <1>5, <2>1, <3>1, FileDeclares
  <2>3. QED
    BY <2>2 DEF View
<1>10. Sound(es, <<>>) => UsesOK(Append(gs, g), Append(ls, <<>>), Append(a, d))
  BY <1>2, <1>3, <1>7, UsesAppend
<1>11. Ties(Append(gs, g), Append(ls, <<>>), rs, g, <<>>, Append(a, d), <<>>, es2, X)
  BY <1>4, <1>8, <1>9, <1>10 DEF Ties
<1>12. QED
  BY <1>11 DEF Tied

\* A function is declared.
LEMMA TiedPrototype ==
  ASSUME NEW a, NEW es, NEW X, Tied(a, <<>>, es, X),
         NEW d \in Node, d.kind = "func", d.sym = FuncSymbol(FALSE),
         NEW es2, EntersFunction(es, es2, d.name, FALSE)
  PROVE  Tied(Append(a, d), <<>>, es2, X)
<1>1. PICK gs, ls, rs, G, L : Ties(gs, ls, rs, G, L, a, <<>>, es, X)
  BY DEF Tied
<1>2. /\ es \in Seq(Table) /\ es # <<>> /\ Struct(gs, ls, rs, a, <<>>, Len(es), G, L)
      /\ Sound(es, <<>>) => UsesOK(gs, ls, a) /\ View(G, L, rs, es, <<>>, X)
  BY <1>1 DEF Ties
<1> DEFINE g == GlobalAfter(d, G)
           fs == << [name |-> d.name] >>
<1>3. G \in Table /\ g \in Table /\ <<>> \in Seq(Table) /\ Len(es) = 1
  <2>1. G \in Table /\ L \in Seq(Table) /\ Levels(rs, <<>>, Len(L), Len(es))
    BY <1>2, StructTop
  <2>2. Len(es) = 1
    BY <2>1 DEF Levels
  <2>3. g \in Table
    BY <2>1, EffectType
  <2>4. <<>> \in Seq(Table)
    OBVIOUS
  <2>5. QED
    BY <2>1, <2>2, <2>3, <2>4
<1>4. Sound(es2, <<>>) <=> Sound(es, <<>>)
  BY DEF Sound, Doomed
<1>5. d.kind # "use" /\ ~d.sym.body
  BY DEF FuncSymbol
<1>6. /\ es2 \in Seq(Table) /\ es2 # <<>> /\ Len(es2) = Len(es)
      /\ es[1][d.name].kind \notin {"var", "typedef"}
      /\ \A m \in Names : es2[1][m] = IF m = d.name /\ es[1][m] = NoSymbol
                                        THEN FuncSymbol(FALSE) ELSE es[1][m]
  BY <1>3 DEF EntersFunction
<1>7. Struct(Append(gs, g), Append(ls, <<>>), rs, Append(a, d), <<>>, Len(es2), g, <<>>)
  BY <1>2, <1>5, <1>6, StructExternal
<1>8. fs # <<>> /\ fs[1].name = d.name /\ es[1] \in Table
  BY <1>2
<1> HIDE DEF g, fs
<1>9. ASSUME Sound(es, <<>>) PROVE View(g, <<>>, rs, es2, <<>>, X)
  <2>1. FileOK(G, es, <<>>)
    BY <1>2, <1>9 DEF View
  <2>2. FileOK(g, es, fs)
    BY <1>3, <1>6, <1>8, <2>1, FileFunction DEF g
  <2>3. FileOK(g, es2, <<>>)
    <3>1. EntersFunction(es, es2, fs[1].name, FALSE)
      BY <1>8
    <3>2. QED
      BY <1>8, <2>2, <3>1, FileFunctionDone
  <2>4. QED
    BY <1>6, <2>3 DEF View
<1>10. Sound(es, <<>>) => UsesOK(Append(gs, g), Append(ls, <<>>), Append(a, d))
  BY <1>2, <1>3, <1>5, UsesAppend
<1>11. Ties(Append(gs, g), Append(ls, <<>>), rs, g, <<>>, Append(a, d), <<>>, es2, X)
  BY <1>4, <1>6, <1>7, <1>9, <1>10 DEF Ties
<1>12. QED
  BY <1>11 DEF Tied

\* A function's definition begins: the scope of its header is opened.
OpensFunction(es, es2, d, f) ==
    /\ f.kind = "func" /\ f.height = 2 /\ f.name = d.name
    /\ es2 \in Seq(Table) /\ es2 # <<>> /\ Len(es2) = 2 /\ es2[1] = es[1]
    /\ SameHeader(d, es2[2])

\* The definition of a function begins.
LEMMA TiedFunc ==
  ASSUME NEW a, NEW es, NEW X, Tied(a, <<>>, es, X),
         NEW d \in Node, d.kind = "func", d.sym = FuncSymbol(TRUE),
         NEW f \in Frame, NEW es2, OpensFunction(es, es2, d, f), NEW Y
  PROVE  Tied(Append(a, d), <<f>>, es2, Y)
<1>1. PICK gs, ls, rs, G, L : Ties(gs, ls, rs, G, L, a, <<>>, es, X)
  BY DEF Tied
<1>2. /\ es \in Seq(Table) /\ es # <<>> /\ Struct(gs, ls, rs, a, <<>>, Len(es), G, L)
      /\ Sound(es, <<>>) => UsesOK(gs, ls, a) /\ View(G, L, rs, es, <<>>, X)
  BY <1>1 DEF Ties
<1> DEFINE g == GlobalAfter(d, G)
           l == <<ParamTable(d)>>
           fs == <<f>>
           rs2 == Append(rs, 1)
<1>3. /\ G \in Table /\ g \in Table /\ l \in Seq(Table)
      /\ rs2 \in Seq(Nat) /\ rs2[1] = 1 /\ es[1] \in Table
  <2>1. G \in Table /\ L \in Seq(Table) /\ Levels(rs, <<>>, Len(L), Len(es))
    BY <1>2, StructTop
  <2>2. g \in Table /\ LocalAfter(d, L) \in Seq(Table)
    BY <2>1, EffectType
  <2>3. LocalAfter(d, L) = l
    BY DEF LocalAfter, FuncSymbol
  <2>4. rs \in Seq(Nat) /\ Len(rs) = 0
    BY <2>1 DEF Levels
  <2>5. QED
    BY <1>2, <2>1, <2>2, <2>3, <2>4
<1>4. /\ f.kind = "func" /\ f.height = 2 /\ f.name = d.name
      /\ es2 \in Seq(Table) /\ es2 # <<>> /\ Len(es2) = 2 /\ es2[1] = es[1]
      /\ SameHeader(d, es2[2])
  BY DEF OpensFunction
<1>5. d.kind # "use" /\ d.sym.body
  BY DEF FuncSymbol
<1>6. Struct(Append(gs, g), Append(ls, l), rs2, Append(a, d), fs, 2, g, l)
  <2>1. Append(<<>>, f) = fs
    OBVIOUS
  <2>2. Struct(Append(gs, GlobalAfter(d, G)), Append(ls, <<ParamTable(d)>>), Append(rs, 1),
               Append(a, d), Append(<<>>, f), 2, GlobalAfter(d, G), <<ParamTable(d)>>)
    BY <1>2, <1>4, <1>5, StructFunc
  <2>3. QED
    BY <2>1, <2>2
<1>7. fs # <<>> /\ fs[1] = f /\ fs = <<f>>
  OBVIOUS
<1> HIDE DEF fs, rs2
<1>8. Sound(es2, fs) => Sound(es, <<>>) /\ es[1][d.name].kind \notin {"var", "typedef"}
  BY <1>4, <1>7 DEF Sound, Doomed
<1>9. ASSUME Sound(es2, fs) PROVE View(g, l, rs2, es2, fs, Y)
  <2>1. FileOK(G, es, <<>>)
    BY <1>2, <1>8, <1>9 DEF View
  <2>2. es2[2] \in Table
    <3>1. 2 \in 1 .. Len(es2)
      BY <1>4
    <3>2. QED
      BY <1>4, <3>1, ElementOfSeq
  <2>3. TRUE \in BOOLEAN /\ es[1][d.name].kind \notin {"var", "typedef"}
    BY <1>8, <1>9
  <2>4. QED
    BY <1>3, <1>4, <1>7, <2>1, <2>2, <2>3, ViewFunc
<1> HIDE DEF g, l
<1>10. Sound(es2, fs) => UsesOK(Append(gs, g), Append(ls, l), Append(a, d))
  BY <1>2, <1>3, <1>5, <1>8, UsesAppend
<1>11. Ties(Append(gs, g), Append(ls, l), rs2, g, l, Append(a, d), fs, es2, Y)
  BY <1>4, <1>6, <1>9, <1>10 DEF Ties
<1>12. QED
  BY <1>7, <1>11 DEF Tied

\* A function's definition ends.
LEMMA TiedFuncEnd ==
  ASSUME NEW a, NEW fs, NEW es, NEW X, Tied(a, fs, es, X), Len(fs) <= 1, fs # <<>>,
         NEW d \in Node, d.kind = "endfunc",
         NEW es2, EntersFunction(es, es2, fs[1].name, TRUE), NEW Y
  PROVE  Tied(Append(a, d), <<>>, es2, Y)
<1>1. PICK gs, ls, rs, G, L : Ties(gs, ls, rs, G, L, a, fs, es, X)
  BY DEF Tied
<1>2. /\ es \in Seq(Table) /\ es # <<>> /\ Struct(gs, ls, rs, a, fs, Len(es), G, L)
      /\ Sound(es, fs) => UsesOK(gs, ls, a) /\ View(G, L, rs, es, fs, X)
  BY <1>1 DEF Ties
<1>3. /\ es2 \in Seq(Table) /\ es2 # <<>> /\ Len(es2) = 1
      /\ es[1][fs[1].name].kind \notin {"var", "typedef"}
      /\ \A m \in Names : es2[1][m] = IF m = fs[1].name /\ es[1][m] = NoSymbol
                                        THEN FuncSymbol(TRUE) ELSE es[1][m]
  BY DEF EntersFunction
<1>4. G \in Table /\ L \in Seq(Table) /\ es[1] \in Table
  BY <1>2, StructTop
<1>5. Struct(Append(gs, G), Append(ls, Front(L)), <<>>, Append(a, d), <<>>, 1, G, Front(L))
  BY <1>2, StructFuncEnd
<1>6. Front(L) \in Seq(Table)
  BY <1>4, PopType
<1>7. Sound(es2, <<>>) => Sound(es, fs)
  BY <1>3 DEF Sound, Doomed
<1>8. ASSUME Sound(es, fs) PROVE View(G, Front(L), <<>>, es2, <<>>, Y)
  <2>1. FileOK(G, es, fs)
    BY <1>2, <1>8 DEF View
  <2>2. FileOK(G, es2, <<>>)
    BY <1>4, <2>1, FileFunctionDone
  <2>3. QED
    BY <1>3, <2>2 DEF View
<1>9. d.kind # "use"
  OBVIOUS
<1>10. Sound(es, fs) => UsesOK(Append(gs, G), Append(ls, Front(L)), Append(a, d))
  BY <1>2, <1>4, <1>6, <1>9, UsesAppend
<1>11. Ties(Append(gs, G), Append(ls, Front(L)), <<>>, G, Front(L), Append(a, d), <<>>, es2, Y)
  BY <1>3, <1>5, <1>7, <1>8, <1>10 DEF Ties
<1>12. QED
  BY <1>11 DEF Tied

-----------------------------------------------------------------------------
(* The parser's steps. *)

\* The names that the loops after node q declare.
LoopNamesIn(a, q) == {a[i].name : i \in {j \in DOMAIN a : j > q /\ a[j].kind = "for"}}

\* They are among those declared in the function that starts at q.
LoopsDeclared(a, q, ds) ==
    /\ q <= Len(a)
    /\ \A n \in Names : n \in LoopNamesIn(a, q) =>
         \E i \in DOMAIN ds : ds[i].name = n /\ Len(ds[i].path) >= 2 /\ ds[i].path[2] = q

\* The nodes parsed have a visit, and within a function what its loops declare
\* is on record.
Linked ==
    /\ Tied(ast, frames, envs, LoopNamesIn(ast, path[2]))
    /\ frames # <<>> => LoopsDeclared(ast, path[2], declared)

\* A node adds at most its own name to those of the loops.
LEMMA LoopsAppend ==
  ASSUME NEW a \in Seq(Node), NEW d \in Node, NEW q
  PROVE  /\ d.kind # "for" => LoopNamesIn(Append(a, d), q) = LoopNamesIn(a, q)
         /\ LoopNamesIn(a, q) \subseteq LoopNamesIn(Append(a, d), q)
         /\ LoopNamesIn(Append(a, d), q) \subseteq LoopNamesIn(a, q) \cup {d.name}
         /\ d.kind = "for" /\ Len(a) + 1 > q => d.name \in LoopNamesIn(Append(a, d), q)
<1> DEFINE b == Append(a, d)
           N == Len(a) + 1
<1>1. /\ b[N] = d /\ \A i \in 1 .. Len(a) : b[i] = a[i]
      /\ DOMAIN a = 1 .. Len(a) /\ DOMAIN b = 1 .. N /\ Len(a) \in Nat
      /\ \A i \in 1 .. N : i \in 1 .. Len(a) \/ i = N
  BY AppendParts
<1> HIDE DEF b
<1>2. \A i \in 1 .. Len(a) : i \in 1 .. N
  BY <1>1
<1>3. LoopNamesIn(a, q) \subseteq LoopNamesIn(b, q)
  BY <1>1, <1>2 DEF LoopNamesIn
<1>4. LoopNamesIn(b, q) \subseteq LoopNamesIn(a, q) \cup {d.name}
  BY <1>1 DEF LoopNamesIn
<1>5. d.kind # "for" => LoopNamesIn(b, q) \subseteq LoopNamesIn(a, q)
  BY <1>1 DEF LoopNamesIn
<1>6. d.kind = "for" /\ Len(a) + 1 > q => d.name \in LoopNamesIn(b, q)
  <2>1. N \in 1 .. N
    BY <1>1
  <2>2. QED
    BY <1>1, <2>1 DEF LoopNamesIn
<1>7. QED
  BY <1>3, <1>4, <1>5, <1>6 DEF b

\* Any node but a for.
LEMMA Relink ==
  ASSUME NEW a \in Seq(Node), NEW d \in Node, d.kind # "for", NEW q \in Nat,
         NEW fs, NEW es, Tied(Append(a, d), fs, es, LoopNamesIn(a, q)),
         NEW ds, LoopsDeclared(a, q, ds)
  PROVE  /\ Tied(Append(a, d), fs, es, LoopNamesIn(Append(a, d), q))
         /\ LoopsDeclared(Append(a, d), q, ds)
<1>1. LoopNamesIn(Append(a, d), q) = LoopNamesIn(a, q)
  BY LoopsAppend
<1>2. Len(Append(a, d)) = Len(a) + 1 /\ Len(a) \in Nat
  BY AppendParts
<1>3. q <= Len(a) => q <= Len(a) + 1
  BY <1>2
<1>4. QED
  BY <1>1, <1>2, <1>3 DEF LoopsDeclared

\* Another declaration.
LEMMA MoreDeclared ==
  ASSUME NEW ds \in Seq(DeclRecord), NEW x \in DeclRecord, NEW a, NEW q, LoopsDeclared(a, q, ds)
  PROVE  LoopsDeclared(a, q, Append(ds, x))
<1>1. /\ DOMAIN ds \subseteq DOMAIN Append(ds, x)
      /\ \A i \in DOMAIN ds : Append(ds, x)[i] = ds[i]
  BY DeclsAppend
<1>2. QED
  BY <1>1 DEF LoopsDeclared

\* Nodes added one after the other.
LEMMA ConcatAppend ==
  ASSUME NEW S, NEW s \in Seq(S), NEW u \in Seq(S), NEW x \in S
  PROVE  s \o (u \o <<x>>) = Append(s \o u, x)
<1>1. <<x>> \in Seq(S) /\ s \o u \in Seq(S)
  OBVIOUS
<1>2. (s \o u) \o <<x>> = s \o (u \o <<x>>)
  BY <1>1, ConcatAssociative
<1>3. Append(s \o u, x) = (s \o u) \o <<x>>
  BY <1>1, AppendIsConcat
<1>4. QED
  BY <1>2, <1>3

\* The sequences of nodes that the parser appends, node by node.
LEMMA ConcatOne ==
  ASSUME NEW S, NEW s \in Seq(S), NEW x \in S
  PROVE  s \o (<<>> \o <<x>>) = Append(s, x)
<1>1. <<>> \in Seq(S) /\ s \o <<>> = s
  OBVIOUS
<1>2. s \o (<<>> \o <<x>>) = Append(s \o <<>>, x)
  BY <1>1, ConcatAppend
<1>3. QED
  BY <1>1, <1>2

\* The same of two nodes.
LEMMA ConcatTwo ==
  ASSUME NEW S, NEW s \in Seq(S), NEW x \in S, NEW y \in S
  PROVE  s \o (<<x>> \o <<y>>) = Append(Append(s, x), y)
<1>1. <<x>> \in Seq(S) /\ s \o <<x>> = Append(s, x)
  BY AppendIsConcat
<1>2. s \o (<<x>> \o <<y>>) = Append(s \o <<x>>, y)
  BY <1>1, ConcatAppend
<1>3. QED
  BY <1>1, <1>2

\* A pair is the concatenation of its parts.
LEMMA PairIsConcat ==
  ASSUME NEW S, NEW x \in S, NEW y \in S
  PROVE  <<x, y>> = <<x>> \o <<y>>
<1>1. <<x, y>> \in Seq(S) /\ Len(<<x, y>>) = 2 /\ <<x, y>>[1] = x /\ <<x, y>>[2] = y
  BY TwoElements
<1>2. /\ <<x>> \in Seq(S) /\ <<y>> \in Seq(S) /\ Len(<<x>>) = 1 /\ Len(<<y>>) = 1
      /\ <<x>>[1] = x /\ <<y>>[1] = y
  BY OneElement
<1> DEFINE u == <<x>>
           v == <<y>>
           w == <<x, y>>
<1> HIDE DEF u, v, w
<1>3. /\ u \o v \in Seq(S) /\ Len(u \o v) = Len(u) + Len(v)
      /\ \A i \in 1 .. Len(u) + Len(v) : (u \o v)[i] = IF i <= Len(u) THEN u[i] ELSE v[i - Len(u)]
  <2>1. u \in Seq(S) /\ v \in Seq(S)
    BY <1>2 DEF u, v
  <2>2. QED
    BY <2>1, ConcatProperties
<1>4. Len(u) = 1 /\ Len(v) = 1 /\ u[1] = x /\ v[1] = y
  BY <1>2 DEF u, v
<1>5. (u \o v)[1] = x /\ (u \o v)[2] = y /\ Len(u \o v) = 2
  BY <1>3, <1>4
<1>6. w \in Seq(S) /\ Len(w) = 2 /\ w[1] = x /\ w[2] = y
  BY <1>1 DEF w
<1>7. \A i \in 1 .. 2 : i = 1 \/ i = 2
  OBVIOUS
<1>8. \A i \in 1 .. Len(w) : w[i] = (u \o v)[i]
  BY <1>5, <1>6, <1>7
<1>9. w = u \o v
  BY <1>3, <1>5, <1>6, <1>8, SeqEqual
<1>10. QED
  BY <1>9 DEF u, v, w

\* After a statement the frames are what they were.
LEMMA AfterStmtAlike ==
  ASSUME NEW fs \in Seq(Frame)
  PROVE  Alike(fs, AfterStmt(fs))
<1>1. /\ AfterStmt(fs) \in Seq(Frame) /\ Len(AfterStmt(fs)) = Len(fs)
      /\ \A i \in 1 .. Len(fs) : /\ AfterStmt(fs)[i].kind = fs[i].kind
                                 /\ AfterStmt(fs)[i].height = fs[i].height
                                 /\ AfterStmt(fs)[i].name = fs[i].name
  BY AfterStmtType
<1>2. \A i \in 1 .. Len(fs) : AfterStmt(fs)[i].inc = fs[i].inc
  <2>1. CASE fs # <<>> /\ Last(fs).kind = "for"
    <3>1. fs[Len(fs)] \in Frame /\ Len(fs) \in 1 .. Len(fs)
      BY <2>1
    <3>2. AfterStmt(fs) = [fs EXCEPT ![Len(fs)] = [fs[Len(fs)] EXCEPT !.bodyDone = TRUE]]
      BY <2>1 DEF AfterStmt
    <3>3. [fs[Len(fs)] EXCEPT !.bodyDone = TRUE].inc = fs[Len(fs)].inc
      BY <3>1 DEF Frame
    <3> HIDE DEF Frame
    <3> DEFINE g == [fs[Len(fs)] EXCEPT !.bodyDone = TRUE]
    <3>4. g.inc = fs[Len(fs)].inc
      BY <3>3
    <3>5. AfterStmt(fs) = [fs EXCEPT ![Len(fs)] = g]
      BY <3>2
    <3> HIDE DEF g
    <3>6. QED
      BY <3>1, <3>4, <3>5
  <2>2. CASE ~(fs # <<>> /\ Last(fs).kind = "for")
    BY <2>2 DEF AfterStmt
  <2>3. QED
    BY <2>1, <2>2
<1>3. QED
  BY <1>1, <1>2 DEF Alike, SameKinds

\* What AddObjSymbol adds.
LEMMA AddObjSymbolAdds ==
  ASSUME NEW es \in Seq(Table), es # <<>>, NEW n \in Names, NEW s \in Symbol,
         FindObjSymbolInCurEnv(es, n) = NoSymbol
  PROVE  /\ AddObjSymbol(es, n, s) \in Seq(Table) /\ AddObjSymbol(es, n, s) # <<>>
         /\ Len(AddObjSymbol(es, n, s)) = Len(es)
         /\ Adds(es, AddObjSymbol(es, n, s), Len(es), n, s)
         /\ Len(es) >= 2 => AddObjSymbol(es, n, s)[1] = es[1]
         /\ es[Len(es)][n] = NoSymbol
<1> DEFINE us == AddObjSymbol(es, n, s)
           h == Len(es)
<1>1. us = [es EXCEPT ![h] = Insert(@, n, s)]
  BY DEF AddObjSymbol
<1>2. h = Len(es) /\ h >= 1 /\ h \in Nat
  OBVIOUS
<1>3. es[h][n] = NoSymbol
  BY DEF FindObjSymbolInCurEnv, Last
<1> HIDE DEF us, h
<1>4. ASSUME NEW k, k = h, k >= 1, NEW vs, vs = us
      PROVE  vs \in Seq(Table) /\ vs # <<>> /\ Len(vs) = k /\ Adds(es, vs, k, n, s)
  <2>1. vs = [es EXCEPT ![k] = Insert(@, n, s)] /\ k = Len(es) /\ es[k][n] = NoSymbol
    BY <1>1, <1>2, <1>3, <1>4
  <2>2. QED
    BY <1>4, <2>1, InsertAdds
<1>8. us \in Seq(Table) /\ us # <<>> /\ Len(us) = h /\ Adds(es, us, h, n, s)
  BY <1>2, <1>4
<1>5. h >= 2 => us[1] = es[1]
  <2>1. h >= 2 => 1 \in 1 .. h - 1
    BY <1>2
  <2>2. QED
    BY <1>8, <2>1 DEF Adds
<1>6. QED
  BY <1>2, <1>3, <1>8, <1>5 DEF us

\* What AddFunction adds, unless it is a redefinition.
LEMMA AddFunctionEnters ==
  ASSUME NEW es \in Seq(Table), es # <<>>, Len(es) = 1, NEW n \in Names, NEW b \in BOOLEAN,
         ~FuncRedefined(FindObjSymbolInCurEnv(es, n), b)
  PROVE  EntersFunction(es, AddFunction(es, n, b), n, b)
<1> DEFINE us == AddFunction(es, n, b)
           s == FuncSymbol(b)
<1>1. s \in Symbol
  BY DEF FuncSymbol, Symbol
<1>2. FindObjSymbolInCurEnv(es, n) = es[1][n] /\ es[1] \in Table
  BY DEF FindObjSymbolInCurEnv, Last
<1>3. es[1][n] = NoSymbol \/ es[1][n].kind = "func"
  BY <1>2 DEF FuncRedefined
<1>4. us \in Seq(Table) /\ Len(us) = 1 /\ us # <<>>
  BY AddFunctionType
<1>5. ASSUME NEW m \in Names
      PROVE  us[1][m] = IF m = n /\ es[1][m] = NoSymbol THEN s ELSE es[1][m]
  <2>1. CASE es[1][n] = NoSymbol
    <3>1. us = AddObjSymbol(es, n, s)
      BY <1>2, <2>1 DEF AddFunction
    <3>2. Adds(es, AddObjSymbol(es, n, s), Len(es), n, s)
      BY <1>1, <1>2, <2>1, AddObjSymbolAdds
    <3>3. Adds(es, us, 1, n, s)
      BY <3>1, <3>2
    <3>4. QED
      BY <2>1, <3>3 DEF Adds
  <2>2. CASE es[1][n] # NoSymbol
    <3>1. us = es \/ us = AddObjSymbol(es, n, s)
      BY DEF AddFunction
    <3>2. AddObjSymbol(es, n, s)[1] = Insert(es[1], n, s)
      BY DEF AddObjSymbol
    <3>3. Insert(es[1], n, s) = es[1]
      BY <2>2 DEF Insert
    <3>4. QED
      BY <2>2, <3>1, <3>2, <3>3
  <2>3. QED
    BY <2>1, <2>2
<1> HIDE DEF us, s
<1>6. es[1][n].kind \notin {"var", "typedef"}
  BY <1>3 DEF NoSymbol
<1>7. QED
  BY <1>4, <1>5, <1>6 DEF EntersFunction, us, s

\* What holds within a function.
LEMMA LinkedInside ==
  ASSUME SemaInv, Linked, frames # <<>>
  PROVE  /\ Tied(ast, frames, envs, LoopNamesIn(ast, path[2]))
         /\ LoopsDeclared(ast, path[2], declared)
         /\ ast \in Seq(Node) /\ frames \in Seq(Frame) /\ envs \in Seq(Table) /\ envs # <<>>
         /\ declared \in Seq(DeclRecord) /\ path \in Seq(Nat)
         /\ Len(path) = Len(envs) /\ Len(envs) \in Nat /\ Len(envs) >= 2 /\ path[2] \in Nat
         /\ Len(ast) \in Nat /\ Len(frames) \in Nat /\ Len(frames) >= 2
         /\ WellNested(frames, Len(envs)) /\ Here = Len(frames)
<1>1. /\ ast \in Seq(Node) /\ frames \in Seq(Frame) /\ envs \in Seq(Table) /\ envs # <<>>
      /\ declared \in Seq(DeclRecord) /\ path \in Seq(Nat) /\ Len(path) = Len(envs)
      /\ Len(ast) \in Nat /\ Len(frames) \in Nat /\ Len(envs) \in Nat
  BY DEF SemaInv, SemaTypeOK, FrameInv, DeclRecord
<1>2. WellNested(frames, Len(envs)) /\ Len(frames) >= 2
  BY DEF SemaInv, FrameInv, WellNested
<1>3. Tied(ast, frames, envs, LoopNamesIn(ast, path[2])) /\ LoopsDeclared(ast, path[2], declared)
  BY DEF Linked
<1>4. Len(envs) >= 2
  BY <1>3, TiedTop
<1>5. path[2] \in Nat
  <2>1. 2 \in 1 .. Len(path)
    BY <1>1, <1>4
  <2>2. QED
    BY <1>1, <2>1
<1>6. QED
  BY <1>1, <1>2, <1>3, <1>4, <1>5, HereType

\* A step within a function that adds a node other than a for.
LEMMA LinkedOne ==
  ASSUME SemaInv, Linked, frames # <<>>, NEW d \in Node, d.kind # "for", ast' = Append(ast, d),
         path'[2] = path[2], LoopsDeclared(ast, path[2], declared'),
         Tied(Append(ast, d), frames', envs', LoopNamesIn(ast, path[2]))
  PROVE  Linked'
<1>1. ast \in Seq(Node) /\ path[2] \in Nat
  BY LinkedInside
<1>2. /\ Tied(Append(ast, d), frames', envs', LoopNamesIn(Append(ast, d), path[2]))
      /\ LoopsDeclared(Append(ast, d), path[2], declared')
  BY <1>1, Relink
<1>3. QED
  BY <1>2 DEF Linked

\* The second of at least two scopes stays when another is opened, or left if
\* there are three.
LEMMA FunctionStays ==
  ASSUME NEW S, NEW s \in Seq(S), Len(s) >= 2, NEW x \in S
  PROVE  Append(s, x)[2] = s[2] /\ (Len(s) >= 3 => Front(s)[2] = s[2])
<1>1. Append(s, x)[2] = s[2]
  <2>1. 2 \in 1 .. Len(s)
    OBVIOUS
  <2>2. QED
    BY <2>1, AppendParts
<1>2. ASSUME Len(s) >= 3 PROVE Front(s)[2] = s[2]
  <2>1. s # <<>> /\ 2 \in 1 .. Len(s) - 1
    BY <1>2
  <2>2. QED
    BY <2>1, FrontType
<1>3. QED
  BY <1>1, <1>2

\* After a statement.
LEMMA TiedAfterStmt ==
  ASSUME NEW a, NEW fs, NEW es, NEW X, Tied(a, fs, es, X)
  PROVE  Tied(a, AfterStmt(fs), es, X)
BY TiedTop, AfterStmtAlike, TiedAlike

\* Nothing changes but the outcome.
LEMMA ReportLinks ==
  ASSUME Linked, UNCHANGED <<envs, frames, ast, declared, path>>
  PROVE  Linked'
BY DEF Linked

\* An access within a function: CodeGen will look in the same tables.
LEMMA AccessLinks ==
  ASSUME SemaInv, Linked, NEW n \in Names, Access(n)
  PROVE  Linked'
<1> DEFINE s == Found(envs, n)
           d == Use(n, s)
           X == LoopNamesIn(ast, path[2])
<1>1. CASE Report
  BY <1>1, ReportLinks DEF Report
<1>2. CASE /\ s # NoSymbol /\ Accessible(s)
           /\ ast' = Append(ast, d)
           /\ frames' = AfterStmt(frames)
           /\ UNCHANGED <<outcome, envs, declared, path>>
  <2>1. frames # <<>>
    BY AtStmtInside DEF Access
  <2>2. s \in Symbol
    BY <1>2, <2>1, LinkedInside, FindObjSymbolType DEF Found
  <2>3. s = Inner(envs, Len(envs), n)
    BY <2>1, LinkedInside, FoundIsInner DEF Found
  <2>4. /\ d \in Node /\ d.kind = "use" /\ d.depth = Len(frames)
        /\ d.name = n /\ d.sym = s
    BY <2>2, HereType, MkNamed DEF Use, Mk
  <2>5. Sound(envs, frames) => IsObject(s)
    <3>1. Sound(envs, frames) => "typedefExpr" \notin Shapes
      BY DEF Sound, Parting
    <3>2. QED
      BY <1>2, <2>2, <3>1 DEF Accessible, IsObject, Symbol
  <2> HIDE DEF s, d, X
  <2>6. Tied(ast, frames, envs, X) /\ LoopsDeclared(ast, path[2], declared)
    BY <2>1, LinkedInside DEF X
  <2>7. Tied(Append(ast, d), frames, envs, X)
    BY <2>3, <2>4, <2>5, <2>6, TiedStay
  <2>8. Tied(Append(ast, d), AfterStmt(frames), envs, X)
    BY <2>7, TiedAfterStmt
  <2>9. /\ path'[2] = path[2] /\ LoopsDeclared(ast, path[2], declared')
        /\ Tied(Append(ast, d), frames', envs', X)
    BY <1>2, <2>6, <2>8
  <2>10. QED
    BY <1>2, <2>1, <2>4, <2>9, LinkedOne DEF X
<1>3. QED
  BY <1>1, <1>2 DEF Access

\* A jump.
LEMMA JumpLinks ==
  ASSUME SemaInv, Linked, Jump
  PROVE  Linked'
<1> DEFINE d == Mk("jump", NoName, NoSymbol, Here)
           X == LoopNamesIn(ast, path[2])
<1>1. /\ ast' = Append(ast, d) /\ frames' = AfterStmt(frames)
      /\ UNCHANGED <<outcome, envs, declared, path>>
  BY DEF Jump
<1>2. frames # <<>>
  BY AtStmtInside DEF Jump
<1>3. d \in Node /\ d.kind = "jump" /\ d.depth = Len(frames) /\ Len(frames) >= 2
  BY <1>2, LinkedInside, HereType, MkNameless, NoNameIsOptional
<1> HIDE DEF d, X
<1>4. Tied(ast, frames, envs, X) /\ LoopsDeclared(ast, path[2], declared)
  BY <1>2, LinkedInside DEF X
<1>5. Tied(Append(ast, d), frames, envs, X)
  BY <1>3, <1>4, TiedStay
<1>6. Tied(Append(ast, d), AfterStmt(frames), envs, X)
  BY <1>5, TiedAfterStmt
<1>7. /\ path'[2] = path[2] /\ LoopsDeclared(ast, path[2], declared')
      /\ Tied(Append(ast, d), frames', envs', X)
  BY <1>1, <1>4, <1>6
<1>8. QED
  BY <1>1, <1>2, <1>3, <1>7, LinkedOne DEF X

\* A block.
LEMMA OpenBlockLinks ==
  ASSUME SemaInv, Linked, NEW switch \in BOOLEAN, OpenBlock(switch)
  PROVE  Linked'
<1> DEFINE nf == NewFrame("block", Len(envs) + 1)
           f == [nf EXCEPT !.switch = switch]
           d == Mk("block", NoName, NoSymbol, Here)
           X == LoopNamesIn(ast, path[2])
<1>1. /\ envs' = EnterScope(envs) /\ frames' = Append(frames, f)
      /\ ast' = Append(ast, d) /\ path' = Append(path, Len(ast) + 1)
      /\ UNCHANGED <<outcome, declared>>
  BY DEF OpenBlock
<1>2. frames # <<>>
  BY AtStmtInside DEF OpenBlock
<1>3. /\ Len(envs) \in Nat /\ path \in Seq(Nat) /\ Len(path) >= 2 /\ Len(ast) + 1 \in Nat
      /\ Tied(ast, frames, envs, X) /\ LoopsDeclared(ast, path[2], declared)
  BY <1>2, LinkedInside
<1>4. nf \in Frame /\ nf.kind = "block" /\ nf.height = Len(envs) + 1 /\ nf.inc = <<>>
  BY <1>3, NewFrameType DEF NewFrame
<1> HIDE DEF nf
<1>5. f \in Frame /\ f.kind = "block" /\ f.height = Len(envs) + 1 /\ f.inc = <<>>
  BY <1>4 DEF Frame
<1>6. d \in Node /\ d.kind = "block" /\ d.depth = Len(frames)
  BY HereType, MkNameless, NoNameIsOptional
<1> HIDE DEF d, f, X
<1>7. Inside(f, Len(envs))
  BY <1>5 DEF Inside
<1>8. EnterScope(envs) = IF f.kind = "case" THEN envs ELSE Append(envs, EmptyTable)
  BY <1>5 DEF EnterScope
<1>9. Tied(Append(ast, d), Append(frames, f), EnterScope(envs), X)
  BY <1>2, <1>3, <1>5, <1>6, <1>7, <1>8, TiedPush
<1>10. path'[2] = path[2]
  BY <1>1, <1>3, FunctionStays
<1>11. /\ LoopsDeclared(ast, path[2], declared')
       /\ Tied(Append(ast, d), frames', envs', X)
  BY <1>1, <1>3, <1>9
<1>12. QED
  BY <1>1, <1>2, <1>6, <1>10, <1>11, LinkedOne DEF X

\* A local variable: unless Sema and CodeGen may part ways on it, both enter it
\* in the table of the block.
LEMMA VarDeclLinks ==
  ASSUME SemaInv, Linked, NEW n \in Names, VarDecl(n)
  PROVE  Linked'
<1> DEFINE s == NewDecl("var")
           d == Mk("var", n, s, Here)
           es == AddObjSymbol(envs, n, s)
           X == LoopNamesIn(ast, path[2])
           x == Decl(n, s, path)
<1>1. CASE Report
  BY <1>1, ReportLinks DEF Report
<1>2. CASE /\ ~Redefined(n) /\ envs' = es
           /\ ast' = Append(ast, d)
           /\ declared' = Append(declared, x)
           /\ frames' = AfterStmt(frames)
           /\ UNCHANGED <<outcome, path>>
  <2>1. AtStmt /\ frames # <<>> /\ DeclShape /\ (n \in LoopNames => "loopReuse" \in Shapes)
    BY AtStmtInside DEF VarDecl
  <2>2. s \in Symbol
    BY <2>1, LinkedInside, NewDeclType
  <2>3. d \in Node /\ d.kind = "var" /\ d.depth = Len(frames) /\ d.name = n /\ d.sym = s
    BY <2>2, HereType, MkNamed DEF Mk
  <2>4. x \in DeclRecord
    BY <2>1, <2>2, LinkedInside, DeclType
  <2>5. FindObjSymbolInCurEnv(envs, n) = NoSymbol
    BY <1>2 DEF Redefined
  <2> HIDE DEF s
  <2>6. /\ es \in Seq(Table) /\ es # <<>> /\ Len(es) = Len(envs)
        /\ Adds(envs, es, Len(envs), n, s) /\ es[1] = envs[1]
        /\ envs[Len(envs)][n] = NoSymbol
    BY <2>1, <2>2, <2>5, LinkedInside, AddObjSymbolAdds
  <2>7. ASSUME Sound(envs, frames) PROVE Declares(frames, envs, es, n, s, X, X)
    <3>1. {"caseDecl", "loopBodyDecl", "loopReuse"} \cap Shapes = {}
      BY <2>7 DEF Sound, Parting
    <3>2. frames[Len(frames)].kind = "block"
      BY <2>1, <3>1 DEF AtStmt, DeclShape, InFrame, Last
    <3>3. n \notin X
      BY <2>1, <3>1 DEF LoopNames, LoopNamesIn
    <3> HIDE DEF es, X
    <3>4. QED
      BY <2>2, <2>6, <3>2, <3>3 DEF Declares
  <2> HIDE DEF d, X, es, x
  <2>8. /\ Tied(ast, frames, envs, X) /\ LoopsDeclared(ast, path[2], declared)
        /\ declared \in Seq(DeclRecord)
    BY <2>1, LinkedInside DEF X
  <2>9. Tied(Append(ast, d), frames, es, X)
    BY <2>1, <2>3, <2>6, <2>7, <2>8, TiedVar
  <2>10. Tied(Append(ast, d), AfterStmt(frames), es, X)
    BY <2>9, TiedAfterStmt
  <2>11. LoopsDeclared(ast, path[2], Append(declared, x))
    BY <2>4, <2>8, MoreDeclared
  <2>12. /\ path'[2] = path[2] /\ LoopsDeclared(ast, path[2], declared')
         /\ Tied(Append(ast, d), frames', envs', X)
    BY <1>2, <2>10, <2>11
  <2>13. QED
    BY <1>2, <2>1, <2>3, <2>12, LinkedOne DEF X
<1>3. QED
  BY <1>1, <1>2 DEF VarDecl

\* A local pointer to a function is a shape on which they part ways.
LEMMA FuncPointerDeclLinks ==
  ASSUME SemaInv, Linked, NEW n \in Names, NEW p \in Names, FuncPointerDecl(n, p)
  PROVE  Linked'
<1> DEFINE s == NewDecl("var")
           es == AddObjSymbol(envs, n, s)
           t == [s EXCEPT !.decl = @ + 1]
           us == AddObjSymbol(es, p, t)
           d == Mk("var", n, s, Here)
           X == LoopNamesIn(ast, path[2])
           x == Decl(n, s, path)
           y == Decl(p, t, path)
<1>1. CASE Report
  BY <1>1, ReportLinks DEF Report
<1>2. CASE /\ ~Redefined(n) /\ FindObjSymbolInCurEnv(es, p) = NoSymbol
           /\ envs' = us
           /\ ast' = Append(ast, d)
           /\ declared' = declared \o <<x, y>>
           /\ frames' = AfterStmt(frames)
           /\ UNCHANGED <<outcome, path>>
  <2>1. frames # <<>> /\ "funcPointer" \in Shapes
    BY AtStmtInside DEF FuncPointerDecl
  <2>2. s \in Symbol
    BY <2>1, LinkedInside, NewDeclType
  <2>3. d \in Node /\ d.kind = "var" /\ d.depth = Len(frames) /\ d.name = n /\ d.sym = s
    BY <2>2, HereType, MkNamed DEF Mk
  <2> HIDE DEF s
  <2>4. t \in Symbol
    BY <2>2 DEF Symbol
  <2>5. x \in DeclRecord /\ y \in DeclRecord
    BY <2>1, <2>2, <2>4, LinkedInside, DeclType
  <2> HIDE DEF t
  <2>6. FindObjSymbolInCurEnv(envs, n) = NoSymbol
    BY <1>2 DEF Redefined
  <2>7. es \in Seq(Table) /\ es # <<>> /\ Len(es) = Len(envs) /\ es[1] = envs[1]
    BY <2>1, <2>2, <2>6, LinkedInside, AddObjSymbolAdds
  <2> HIDE DEF es
  <2>8. us \in Seq(Table) /\ us # <<>> /\ Len(us) = Len(envs) /\ us[1] = envs[1]
    <3>1. Len(es) >= 2
      BY <2>1, <2>7, LinkedInside
    <3>2. QED
      BY <1>2, <2>4, <2>7, <3>1, AddObjSymbolAdds
  <2> HIDE DEF d, X, us, x, y
  <2>9. ~Sound(envs, frames)
    BY <2>1 DEF Sound, Parting
  <2>10. /\ Tied(ast, frames, envs, X) /\ LoopsDeclared(ast, path[2], declared)
         /\ declared \in Seq(DeclRecord)
    BY <2>1, LinkedInside DEF X
  <2>11. Tied(Append(ast, d), frames, us, X)
    BY <2>1, <2>3, <2>8, <2>9, <2>10, TiedVar
  <2>12. Tied(Append(ast, d), AfterStmt(frames), us, X)
    BY <2>11, TiedAfterStmt
  <2>13. LoopsDeclared(ast, path[2], Append(Append(declared, x), y))
    <3>1. LoopsDeclared(ast, path[2], Append(declared, x)) /\ Append(declared, x) \in Seq(DeclRecord)
      BY <2>5, <2>10, MoreDeclared
    <3>2. QED
      BY <2>5, <3>1, MoreDeclared
  <2>14. declared' = Append(Append(declared, x), y)
    <3>1. <<x, y>> = <<x>> \o <<y>>
      BY <2>5, PairIsConcat
    <3>2. declared \o (<<x>> \o <<y>>) = Append(Append(declared, x), y)
      BY <2>5, <2>10, ConcatTwo
    <3>3. QED
      BY <1>2, <3>1, <3>2
  <2>15. /\ path'[2] = path[2] /\ LoopsDeclared(ast, path[2], declared')
         /\ Tied(Append(ast, d), frames', envs', X)
    BY <1>2, <2>12, <2>13, <2>14
  <2>16. QED
    BY <1>2, <2>1, <2>3, <2>15, LinkedOne DEF X
<1>3. QED
  BY <1>1, <1>2 DEF FuncPointerDecl

\* A step within a function whose last node is not a for.
LEMMA LinkedLast ==
  ASSUME NEW b \in Seq(Node), NEW d \in Node, d.kind # "for", ast' = Append(b, d),
         path[2] \in Nat, path'[2] = path[2], LoopsDeclared(b, path[2], declared'),
         Tied(Append(b, d), frames', envs', LoopNamesIn(b, path[2]))
  PROVE  Linked'
<1>1. /\ Tied(Append(b, d), frames', envs', LoopNamesIn(Append(b, d), path[2]))
      /\ LoopsDeclared(Append(b, d), path[2], declared')
  BY Relink
<1>2. QED
  BY <1>1 DEF Linked

\* The label before, if there is one, ends.
LEMMA EndCaseLinks ==
  ASSUME SemaInv, Linked, InFrame({"block", "case"})
  PROVE  LET b == ast \o EndCaseNode
         IN  /\ b \in Seq(Node)
             /\ Tied(b, EndCase(frames), envs, LoopNamesIn(b, path[2]))
             /\ LoopsDeclared(b, path[2], declared)
<1> DEFINE d == Mk("endcase", NoName, NoSymbol, Here - 1)
           X == LoopNamesIn(ast, path[2])
<1>1. frames # <<>>
  BY DEF InFrame
<1>2. /\ ast \in Seq(Node) /\ frames \in Seq(Frame) /\ envs \in Seq(Table) /\ envs # <<>>
      /\ path[2] \in Nat /\ Len(envs) \in Nat /\ Len(frames) \in Nat /\ Len(frames) >= 2
      /\ WellNested(frames, Len(envs)) /\ Here = Len(frames)
      /\ Tied(ast, frames, envs, X) /\ LoopsDeclared(ast, path[2], declared)
  BY <1>1, LinkedInside
<1>3. CASE frames[Len(frames)].kind = "case"
  <2>1. EndCase(frames) = Front(frames) /\ EndCaseNode = <<d>>
    BY <1>3 DEF EndCase, EndCaseNode, Last
  <2>2. d \in Node /\ d.kind = "endcase" /\ d.depth = Len(frames) - 1
    BY <1>2, MkNameless, NoNameIsOptional
  <2> HIDE DEF d, X
  <2>3. Len(frames) \in 2 .. Len(frames)
    BY <1>2
  <2>4. frames[Len(frames)].height = Len(envs)
    BY <1>2 DEF WellNested
  <2>5. frames[Len(frames) - 1].height = Len(envs)
    <3>1. frames[Len(frames)].height = frames[Len(frames) - 1].height + 0
      BY <1>2, <1>3, <2>3 DEF WellNested
    <3>2. frames[Len(frames) - 1].height \in Nat
      <4>1. Len(frames) - 1 \in 1 .. Len(frames)
        BY <1>2
      <4>2. frames[Len(frames) - 1] \in Frame
        BY <1>2, <4>1
      <4>3. QED
        BY <4>2 DEF Frame
    <3>3. QED
      BY <2>4, <3>1, <3>2
  <2>6. Closes(frames, envs, envs)
    BY <1>2, <2>5 DEF Closes
  <2>7. Tied(Append(ast, d), Front(frames), envs, X)
    BY <1>2, <1>3, <2>2, <2>6, TiedPop
  <2>8. /\ Tied(Append(ast, d), Front(frames), envs, LoopNamesIn(Append(ast, d), path[2]))
        /\ LoopsDeclared(Append(ast, d), path[2], declared)
    BY <1>2, <2>2, <2>7, Relink DEF X
  <2>9. ast \o EndCaseNode = Append(ast, d) /\ Append(ast, d) \in Seq(Node)
    BY <1>2, <2>1, <2>2, AppendIsConcat
  <2>10. QED
    BY <2>1, <2>8, <2>9
<1>4. CASE frames[Len(frames)].kind # "case"
  <2>1. EndCase(frames) = frames /\ EndCaseNode = <<>>
    BY <1>4 DEF EndCase, EndCaseNode, Last
  <2>2. ast \o EndCaseNode = ast
    BY <1>2, <2>1, ConcatEmptySeq
  <2>3. QED
    BY <1>2, <2>1, <2>2
<1>5. QED
  BY <1>3, <1>4

\* A label: CodeGen gives it a table, Sema no scope.
LEMMA CaseLabelLinks ==
  ASSUME SemaInv, Linked, CaseLabel
  PROVE  Linked'
<1> DEFINE fs == EndCase(frames)
           f == NewFrame("case", Len(envs))
           d == Mk("case", NoName, NoSymbol, Len(fs))
           b == ast \o EndCaseNode
<1>1. CASE Report
  BY <1>1, ReportLinks DEF Report
<1>2. CASE /\ frames' = Append(fs, f)
           /\ ast' = ast \o (EndCaseNode \o <<d>>)
           /\ UNCHANGED <<outcome, envs, declared, path>>
  <2>1. InFrame({"block", "case"}) /\ frames # <<>>
    BY DEF CaseLabel, InFrame
  <2>2. fs \in Seq(Frame) /\ fs # <<>> /\ EndCaseNode \in Seq(Node)
    BY <2>1, EndCaseLeavesBlock
  <2>3. b \in Seq(Node) /\ Tied(b, fs, envs, LoopNamesIn(b, path[2]))
        /\ LoopsDeclared(b, path[2], declared)
    BY <2>1, EndCaseLinks
  <2> HIDE DEF fs
  <2>4. Len(fs) \in Nat /\ Len(envs) \in Nat /\ path[2] \in Nat /\ ast \in Seq(Node)
    BY <2>1, <2>2, LinkedInside
  <2>5. f \in Frame /\ f.kind = "case" /\ f.height = Len(envs) /\ f.inc = <<>>
    BY <2>4, NewFrameType DEF NewFrame
  <2>6. d \in Node /\ d.kind = "case" /\ d.depth = Len(fs)
    BY <2>4, MkNameless, NoNameIsOptional
  <2> HIDE DEF f, d
  <2>7. ast' = Append(b, d)
    BY SMTT(60), <1>2, <2>2, <2>4, <2>6, ConcatAppend
  <2> HIDE DEF b
  <2>8. Inside(f, Len(envs))
    BY <2>4, <2>5 DEF Inside
  <2>9. envs = IF f.kind = "case" THEN envs ELSE Append(envs, EmptyTable)
    BY <2>5
  <2>10. Tied(Append(b, d), Append(fs, f), envs, LoopNamesIn(b, path[2]))
    BY <2>2, <2>3, <2>5, <2>6, <2>8, <2>9, TiedPush
  <2>11. path'[2] = path[2] /\ LoopsDeclared(b, path[2], declared')
         /\ Tied(Append(b, d), frames', envs', LoopNamesIn(b, path[2]))
    BY <1>2, <2>3, <2>10
  <2>12. QED
    BY <2>3, <2>4, <2>6, <2>7, <2>11, LinkedLast
<1>3. QED
  BY <1>1, <1>2 DEF CaseLabel

\* Leaving the scope of the innermost construct.
LEMMA ExitScopeCloses ==
  ASSUME NEW fs \in Seq(Frame), NEW es \in Seq(Table), WellNested(fs, Len(es)), Len(fs) > 2,
         fs[Len(fs)].kind # "case"
  PROVE  /\ Closes(fs, es, ExitScope(es)) /\ Len(es) >= 3
         /\ \A p \in Seq(Nat) : Len(p) = Len(es) => Front(p)[2] = p[2]
<1>1. Len(fs) \in 2 .. Len(fs) /\ Len(fs) \in Nat /\ Len(es) \in Nat
  OBVIOUS
<1>2. /\ fs[Len(fs)].height = Len(es) /\ fs[Len(fs)].height > 2
      /\ fs[Len(fs)].height = fs[Len(fs) - 1].height + 1
  BY <1>1 DEF WellNested
<1>3. fs[Len(fs) - 1].height \in Nat
  <2>1. Len(fs) - 1 \in 1 .. Len(fs)
    BY <1>1
  <2>2. fs[Len(fs) - 1] \in Frame
    BY <2>1
  <2>3. QED
    BY <2>2 DEF Frame
<1>4. Len(es) >= 3 /\ fs[Len(fs) - 1].height = Len(es) - 1
  BY <1>1, <1>2, <1>3
<1> DEFINE us == ExitScope(es)
<1>5. us \in Seq(Table) /\ Len(us) = Len(es) - 1 /\ us # <<>>
  BY <1>4, LeaveScope DEF ExitScope
<1>6. \A t \in 1 .. Len(es) - 1 : us[t] = es[t]
  <2>1. es # <<>>
    BY <1>4
  <2>2. QED
    BY <2>1, FrontType DEF ExitScope
<1> HIDE DEF us
<1>7. Closes(fs, es, us)
  BY <1>4, <1>5, <1>6 DEF Closes
<1>8. ASSUME NEW p \in Seq(Nat), Len(p) = Len(es) PROVE Front(p)[2] = p[2]
  <2>1. Len(p) >= 2 /\ Len(p) >= 3 /\ 0 \in Nat
    BY <1>4, <1>8
  <2>2. QED
    BY <2>1, FunctionStays
<1>9. QED
  BY <1>4, <1>7, <1>8 DEF us

\* The end of a block.
LEMMA CloseBlockLinks ==
  ASSUME SemaInv, Linked, CloseBlock
  PROVE  Linked'
<1> DEFINE fs == EndCase(frames)
           d == Mk("endblock", NoName, NoSymbol, Len(fs) - 1)
           b == ast \o EndCaseNode
<1>1. /\ InFrame({"block", "case"}) /\ Len(fs) > 2
      /\ envs' = ExitScope(envs)
      /\ frames' = AfterStmt(Front(fs))
      /\ ast' = ast \o (EndCaseNode \o <<d>>)
      /\ path' = Front(path)
      /\ UNCHANGED <<outcome, declared>>
  BY DEF CloseBlock
<1>2. /\ fs \in Seq(Frame) /\ EndCaseNode \in Seq(Node) /\ WellNested(fs, Len(envs))
      /\ fs[Len(fs)].kind = "block"
  BY <1>1, EndCaseLeavesBlock
<1>3. b \in Seq(Node) /\ Tied(b, fs, envs, LoopNamesIn(b, path[2]))
      /\ LoopsDeclared(b, path[2], declared)
  BY <1>1, EndCaseLinks
<1> HIDE DEF fs
<1>4. frames # <<>>
  BY <1>1 DEF InFrame
<1>5. /\ Len(fs) \in Nat /\ path[2] \in Nat /\ ast \in Seq(Node) /\ envs \in Seq(Table)
      /\ path \in Seq(Nat) /\ Len(path) = Len(envs)
  BY <1>2, <1>4, LinkedInside
<1>6. d \in Node /\ d.kind = "endblock" /\ d.depth = Len(fs) - 1
  BY <1>5, MkNameless, NoNameIsOptional
<1> HIDE DEF d
<1>7. ast' = Append(b, d)
  BY SMTT(60), <1>1, <1>2, <1>5, <1>6, ConcatAppend
<1> HIDE DEF b
<1>8. Closes(fs, envs, ExitScope(envs)) /\ Front(path)[2] = path[2]
  BY <1>1, <1>2, <1>5, ExitScopeCloses
<1>9. Tied(Append(b, d), Front(fs), ExitScope(envs), LoopNamesIn(b, path[2]))
  <2>1. Len(fs) >= 2
    BY <1>1, <1>5
  <2>2. QED
    BY <1>2, <1>3, <1>6, <1>8, <2>1, TiedPop
<1>10. Tied(Append(b, d), AfterStmt(Front(fs)), ExitScope(envs), LoopNamesIn(b, path[2]))
  BY <1>9, TiedAfterStmt
<1>11. path'[2] = path[2] /\ LoopsDeclared(b, path[2], declared')
       /\ Tied(Append(b, d), frames', envs', LoopNamesIn(b, path[2]))
  BY <1>1, <1>3, <1>8, <1>10
<1>12. QED
  BY <1>3, <1>5, <1>6, <1>7, <1>11, LinkedLast

\* What holds between two external declarations.
LEMMA LinkedOutside ==
  ASSUME SemaInv, Linked, frames = <<>>, NEW X
  PROVE  /\ Tied(ast, <<>>, envs, X) /\ Len(envs) = 1
         /\ ast \in Seq(Node) /\ envs \in Seq(Table) /\ envs # <<>>
         /\ declared \in Seq(DeclRecord) /\ path \in Seq(Nat) /\ Len(path) = 1
         /\ Len(ast) \in Nat /\ Here = 0
<1>1. /\ ast \in Seq(Node) /\ envs \in Seq(Table) /\ envs # <<>> /\ Len(envs) = 1
      /\ declared \in Seq(DeclRecord) /\ path \in Seq(Nat) /\ Len(path) = 1 /\ Len(ast) \in Nat
  BY DEF SemaInv, SemaTypeOK, FrameInv, DeclRecord
<1>2. Tied(ast, frames, envs, LoopNamesIn(ast, path[2]))
  BY DEF Linked
<1>3. Tied(ast, frames, envs, X)
  BY <1>2, TiedWider
<1>4. Here = 0
  BY DEF Here
<1>5. QED
  BY <1>1, <1>3, <1>4

\* At the file scope any set of names will do.
LEMMA LinkedTop ==
  ASSUME frames' = <<>>, NEW X, Tied(ast', <<>>, envs', X)
  PROVE  Linked'
<1>1. Tied(ast', frames', envs', LoopNamesIn(ast', path'[2]))
  BY TiedWider
<1>2. QED
  BY <1>1 DEF Linked

\* A global, with the access its initialiser makes.
LEMMA GlobalDeclLinks ==
  ASSUME SemaInv, Linked, NEW n \in Names, NEW init \in OptName, NEW first \in BOOLEAN,
         GlobalDecl(n, init, first)
  PROVE  Linked'
<1> DEFINE s == NewDecl("var")
           es == AddObjSymbol(envs, n, s)
           g == Mk("gvar", n, s, Here)
           t == Found(es, init)
           u == Use(init, t)
<1>1. CASE UNCHANGED <<envs, frames, ast, declared, path>>
  BY <1>1, ReportLinks
<1>2. CASE /\ ~(first /\ init # NoName /\ Found(envs, init) = NoSymbol)
           /\ ~Redefined(n) /\ ~(init # NoName /\ t = NoSymbol)
           /\ init # NoName => Accessible(t)
           /\ envs' = es
           /\ ast' = ast \o (InitNodes(init, t) \o <<g>>)
           /\ UNCHANGED <<outcome, frames, path>>
  <2>1. frames = <<>> /\ (init = n => first \/ "globalSelf" \in Shapes)
    BY DEF GlobalDecl, AtTop
  <2>2. /\ Tied(ast, <<>>, envs, {}) /\ Len(envs) = 1 /\ ast \in Seq(Node)
        /\ envs \in Seq(Table) /\ envs # <<>> /\ declared \in Seq(DeclRecord) /\ Here = 0
    BY <2>1, LinkedOutside
  <2>3. s \in Symbol /\ s.kind = "var"
    BY <2>2, NewDeclType DEF NewDecl
  <2>4. g \in Node /\ g.kind = "gvar" /\ g.name = n /\ g.sym = s
    BY <2>2, <2>3, MkNamed DEF Mk
  <2>5. FindObjSymbolInCurEnv(envs, n) = NoSymbol
    BY <1>2 DEF Redefined
  <2> HIDE DEF s, g
  <2>6. /\ es \in Seq(Table) /\ es # <<>> /\ Len(es) = Len(envs)
        /\ Adds(envs, es, Len(envs), n, s) /\ envs[Len(envs)][n] = NoSymbol
    BY <2>2, <2>3, <2>5, AddObjSymbolAdds
  <2>7. Adds(envs, es, 1, n, s) /\ envs[1][n] = NoSymbol /\ Len(es) = 1
    BY <2>2, <2>6
  <2> HIDE DEF es
  <2>8. frames' = <<>>
    BY <1>2, <2>1
  <2>9. CASE init = NoName
    <3>1. InitNodes(init, t) = <<>>
      BY <2>9 DEF InitNodes
    <3>2. ast' = Append(ast, g)
      BY <1>2, <2>2, <2>4, <3>1, ConcatOne
    <3>3. Adds(envs, es, 1, g.name, g.sym) /\ envs[1][g.name] = NoSymbol /\ g.sym.kind = "var"
      BY <2>3, <2>4, <2>7
    <3>4. Tied(Append(ast, g), <<>>, es, {})
      BY <2>2, <2>4, <2>6, <3>3, TiedGlobal
    <3>5. Tied(ast', <<>>, envs', {})
      BY <1>2, <3>2, <3>4
    <3>6. QED
      BY <2>8, <3>5, LinkedTop
  <2>10. CASE init # NoName
    <3>1. init \in Names
      BY <2>10 DEF OptName
    <3>2. t = es[1][init] /\ Found(envs, init) = envs[1][init] /\ t \in Symbol
      <4>1. t = Inner(es, 1, init) /\ Found(envs, init) = Inner(envs, 1, init)
        BY <2>2, <2>6, <2>7, FoundIsInner DEF Found
      <4>2. t \in Symbol
        BY <1>2, <2>6, <2>10, <3>1, FindObjSymbolType DEF Found
      <4>3. QED
        BY <4>1, <4>2, InnerOne
    <3>3. u \in Node /\ u.kind = "use" /\ u.depth = Len(<<>>) /\ u.name = init /\ u.sym = t
      BY <2>2, <3>1, <3>2, MkNamed DEF Use, Mk
    <3>4. InitNodes(init, t) = <<u>>
      BY <2>10 DEF InitNodes
    <3> HIDE DEF t, u
    <3>5. Sound(envs, <<>>) => IsObject(u.sym) /\ Inner(envs, Len(envs), u.name) = u.sym
      <4>1. ASSUME Sound(envs, <<>>)
            PROVE  IsObject(t) /\ envs[1][init] = t
        <5>1. "typedefExpr" \notin Shapes /\ "globalSelf" \notin Shapes
          BY <4>1 DEF Sound, Parting
        <5>2. IsObject(t)
          BY <1>2, <2>10, <3>2, <5>1 DEF Accessible, IsObject, Symbol
        <5>3. init # n
          BY <1>2, <2>1, <2>7, <2>10, <3>2, <5>1
        <5>4. es[1][init] = envs[1][init]
          BY <2>7, <3>1, <5>3 DEF Adds
        <5>5. QED
          BY <3>2, <5>2, <5>4
      <4>2. Inner(envs, Len(envs), init) = envs[1][init]
        BY <2>2, InnerOne
      <4>3. QED
        BY <3>3, <4>1, <4>2
    <3>6. Tied(Append(ast, u), <<>>, envs, {})
      <4>1. u.kind = "jump" => Len(<<>>) >= 2
        BY <3>3
      <4>2. QED
        BY <2>2, <3>3, <3>5, <4>1, TiedStay
    <3>7. Adds(envs, es, 1, g.name, g.sym) /\ envs[1][g.name] = NoSymbol /\ g.sym.kind = "var"
      BY <2>3, <2>4, <2>7
    <3>8. Tied(Append(Append(ast, u), g), <<>>, es, {})
      BY <2>2, <2>4, <2>6, <3>6, <3>7, TiedGlobal
    <3>9. ast \o (<<u>> \o <<g>>) = Append(Append(ast, u), g)
      BY <2>2, <2>4, <3>3, ConcatTwo
    <3>10. ast' = Append(Append(ast, u), g)
      BY <1>2, <3>4, <3>9
    <3>11. Tied(ast', <<>>, envs', {})
      BY <1>2, <3>8, <3>10
    <3>12. QED
      BY <2>8, <3>11, LinkedTop
  <2>11. QED
    BY <2>9, <2>10
<1>3. QED
  BY <1>1, <1>2 DEF GlobalDecl, Report

\* In a construct that is no loop, the loops around it have scopes further out.
LEMMA LoopsAreOutside ==
  ASSUME NEW a, NEW fs \in Seq(Frame), NEW es, NEW X, Tied(a, fs, es, X), WellNested(fs, Len(es)),
         fs[Len(fs)].kind # "for"
  PROVE  LoopsBelow(fs, Len(es))
<1>1. PICK gs, ls, rs, G, L : Struct(gs, ls, rs, a, fs, Len(es), G, L)
  BY DEF Tied, Ties
<1>6. Levels(rs, fs, Len(L), Len(es))
  BY <1>1, StructTop
<1>2. PICK r, h : h = Len(es) /\ Levels(rs, fs, r, h)
  BY <1>6
<1>3. Len(fs) \in Nat
  OBVIOUS
<1>4. ASSUME NEW k \in 1 .. Len(fs), fs[k].kind = "for" PROVE fs[k].height < Len(es)
  <2>1. k # Len(fs)
    BY <1>4
  <2>2. k + 1 \in 2 .. Len(fs) /\ k + 1 \in 1 .. Len(fs) /\ (k + 1) - 1 = k
    BY <1>3, <2>1
  <2>3. fs[k + 1].kind = "case" => fs[(k + 1) - 1].kind = "block"
    BY <2>2 DEF WellNested
  <2>4. fs[k + 1].height = fs[(k + 1) - 1].height + (IF fs[k + 1].kind = "case" THEN 0 ELSE 1)
    BY <2>2 DEF WellNested
  <2>5. fs[k + 1].height = fs[k].height + 1
    BY <1>4, <2>2, <2>3, <2>4
  <2>6. fs[k].height \in Nat /\ fs[k + 1].height <= Len(es) /\ Len(es) \in Nat
    <3>1. ASSUME NEW D \in 1 .. Len(fs) PROVE fs[D].height \in Nat /\ fs[D].height <= h
      <4>1. Levels(rs, fs, r, h)
        BY <1>2
      <4>2. QED
        BY <4>1, LevelsBelow
    <3>2. Len(es) \in Nat
      BY TiedTop
    <3>3. QED
      BY <1>2, <2>2, <3>1, <3>2
  <2>7. QED
    BY <2>5, <2>6
<1>5. QED
  BY <1>4 DEF LoopsBelow

\* A typedef: CodeGen has nothing to do.
LEMMA TypedefDeclLinks ==
  ASSUME SemaInv, Linked, NEW n \in Names, TypedefDecl(n)
  PROVE  Linked'
<1> DEFINE s == NewDecl("typedef")
           es == AddObjSymbol(envs, n, s)
           x == Decl(n, s, path)
<1>1. CASE UNCHANGED <<envs, frames, ast, declared, path>>
  BY <1>1, ReportLinks
<1>2. CASE /\ ~Redefined(n) /\ envs' = es /\ declared' = Append(declared, x)
           /\ UNCHANGED <<outcome, frames, ast, path>>
  <2>1. /\ envs \in Seq(Table) /\ envs # <<>> /\ declared \in Seq(DeclRecord) /\ path \in Seq(Nat)
    BY DEF SemaInv, SemaTypeOK, FrameInv, DeclRecord
  <2>2. s \in Symbol /\ s.kind = "typedef"
    BY <2>1, NewDeclType DEF NewDecl
  <2>3. x \in DeclRecord
    BY <2>1, <2>2, DeclType
  <2>4. FindObjSymbolInCurEnv(envs, n) = NoSymbol
    BY <1>2 DEF Redefined
  <2> HIDE DEF s
  <2>5. /\ es \in Seq(Table) /\ es # <<>> /\ Len(es) = Len(envs)
        /\ Adds(envs, es, Len(envs), n, s) /\ envs[Len(envs)][n] = NoSymbol
        /\ Len(envs) >= 2 => es[1] = envs[1]
    BY <2>1, <2>2, <2>4, AddObjSymbolAdds
  <2> HIDE DEF es, x
  <2>6. CASE frames = <<>>
    <3>1. Tied(ast, <<>>, envs, {}) /\ Len(envs) = 1
      BY <2>6, LinkedOutside
    <3>2. Adds(envs, es, 1, n, s) /\ envs[1][n] = NoSymbol
      BY <2>5, <3>1
    <3>3. Tied(ast, <<>>, es, {})
      BY <2>2, <2>5, <3>1, <3>2, TiedFileTypedef
    <3>4. frames' = <<>> /\ Tied(ast', <<>>, envs', {})
      BY <1>2, <2>6, <3>3
    <3>5. QED
      BY <3>4, LinkedTop
  <2>7. CASE frames # <<>>
    <3> DEFINE X == LoopNamesIn(ast, path[2])
    <3>1. /\ Tied(ast, frames, envs, X) /\ LoopsDeclared(ast, path[2], declared)
          /\ frames \in Seq(Frame) /\ WellNested(frames, Len(envs)) /\ Len(envs) >= 2
      BY <2>7, LinkedInside
    <3>2. frames[Len(frames)].kind # "for"
      BY <2>7 DEF TypedefDecl, AtTop, InFrame, Last
    <3> HIDE DEF X
    <3>3. LoopsBelow(frames, Len(envs))
      BY <3>1, <3>2, LoopsAreOutside
    <3>4. es[1] = envs[1]
      BY <2>5, <3>1
    <3>5. Tied(ast, frames, es, X)
      BY <2>2, <2>5, <2>7, <3>1, <3>3, <3>4, TiedTypedef
    <3>6. LoopsDeclared(ast, path[2], Append(declared, x))
      BY <2>1, <2>3, <3>1, MoreDeclared
    <3>7. Tied(ast', frames', envs', LoopNamesIn(ast', path'[2]))
      BY <1>2, <3>5 DEF X
    <3>8. LoopsDeclared(ast', path'[2], declared')
      BY <1>2, <3>6
    <3>9. QED
      BY <3>7, <3>8 DEF Linked
  <2>8. QED
    BY <2>6, <2>7
<1>3. QED
  BY <1>1, <1>2 DEF TypedefDecl, Report

\* The fields of a function's node.
LEMMA FuncNodeFields ==
  ASSUME NEW n \in Names, NEW params \in Seq(Names), NEW body \in BOOLEAN
  PROVE  /\ FuncNode(n, params, body).name = n /\ FuncNode(n, params, body).params = params
         /\ FuncNode(n, params, body).sym = FuncSymbol(body)
         /\ FuncNode(n, params, body).first = Len(declared) + 1
<1> DEFINE m == Mk("func", n, FuncSymbol(body), Here)
<1>1. m = [kind |-> "func", name |-> n, sym |-> FuncSymbol(body), params |-> <<>>,
           first |-> 0, depth |-> Here]
  BY DEF Mk
<1>2. FuncNode(n, params, body) = [m EXCEPT !.params = params, !.first = Len(declared) + 1]
  BY DEF FuncNode
<1> HIDE DEF m
<1>3. FuncNode(n, params, body) =
        [kind |-> "func", name |-> n, sym |-> FuncSymbol(body), params |-> params,
         first |-> Len(declared) + 1, depth |-> Here]
  BY <1>1, <1>2
<1>4. QED
  BY <1>3

\* A prototype.
LEMMA FuncPrototypeLinks ==
  ASSUME SemaInv, Linked, NEW n \in Names, NEW params \in Seq(Names), FuncPrototype(n, params)
  PROVE  Linked'
<1> DEFINE d == FuncNode(n, params, FALSE)
           es == AddFunction(envs, n, FALSE)
<1>1. CASE UNCHANGED <<envs, frames, ast, declared, path>>
  BY <1>1, ReportLinks
<1>2. CASE /\ ~FuncRedefined(FindObjSymbolInCurEnv(envs, n), FALSE)
           /\ envs' = es /\ ast' = Append(ast, d) /\ UNCHANGED <<outcome, frames, path>>
  <2>1. frames = <<>>
    BY DEF FuncPrototype, AtTop
  <2>2. /\ Tied(ast, <<>>, envs, {}) /\ Len(envs) = 1 /\ envs \in Seq(Table) /\ envs # <<>>
        /\ declared \in Seq(DeclRecord)
    BY <2>1, LinkedOutside
  <2>3. d \in Node /\ d.kind = "func"
    BY <2>1, <2>2, FuncNodeType
  <2>4. d.name = n /\ d.sym = FuncSymbol(FALSE)
    BY FuncNodeFields
  <2>5. EntersFunction(envs, es, n, FALSE)
    BY <1>2, <2>2, AddFunctionEnters
  <2> HIDE DEF d, es
  <2>6. EntersFunction(envs, es, d.name, FALSE)
    BY <2>4, <2>5
  <2>7. Tied(Append(ast, d), <<>>, es, {})
    BY <2>2, <2>3, <2>4, <2>6, TiedPrototype
  <2>8. frames' = <<>> /\ Tied(ast', <<>>, envs', {})
    BY <1>2, <2>1, <2>7
  <2>9. QED
    BY <2>8, LinkedTop
<1>3. QED
  BY <1>1, <1>2 DEF FuncPrototype, Report

\* CodeGen's table of parameters is that of Sema's header, the function aside.
LEMMA HeaderAgrees ==
  ASSUME declared \in Seq(DeclRecord), NEW n \in Names, NEW params \in Seq(Names),
         IsInjective(HeaderNames(n, params)), NEW body \in BOOLEAN
  PROVE  SameHeader(FuncNode(n, params, body), HeaderTable(n, params))
<1> DEFINE ns == HeaderNames(n, params)
           K == Len(params) + 1
           H == HeaderTable(n, params)
           d == FuncNode(n, params, body)
           T == ParamTable(d)
<1>1. ns \in Seq(Names) /\ Len(ns) = K /\ DOMAIN ns = 1 .. K
  BY HeaderNamesType
<1>2. Len(params) \in Nat /\ Len(declared) \in Nat
  OBVIOUS
<1>3. /\ ns[K] = n /\ \A i \in 1 .. Len(params) : ns[i] = params[i] /\ i \in 1 .. K /\ i # K
      /\ \A i \in 1 .. K : i \in 1 .. Len(params) \/ i = K
  <2>1. /\ Append(params, n)[Len(params) + 1] = n
        /\ \A i \in 1 .. Len(params) : Append(params, n)[i] = params[i]
        /\ \A i \in 1 .. Len(params) + 1 : i \in 1 .. Len(params) \/ i = Len(params) + 1
    BY AppendParts
  <2>2. \A i \in 1 .. Len(params) : i \in 1 .. Len(params) + 1 /\ i # Len(params) + 1
    BY <1>2
  <2>3. QED
    BY <2>1, <2>2 DEF HeaderNames
<1>4. ASSUME NEW i \in 1 .. K PROVE H[ns[i]] = HeaderSymbol(n, params, i)
  <2>1. ns[i] \in Names
    BY <1>1
  <2>2. \A j \in DOMAIN ns : ns[j] = ns[i] => j = i
    BY <1>1 DEF IsInjective
  <2>3. (CHOOSE j \in DOMAIN ns : ns[j] = ns[i]) = i
    BY <1>1, <2>2
  <2>4. H[ns[i]] = HeaderSymbol(n, params, CHOOSE j \in DOMAIN ns : ns[j] = ns[i])
    BY <1>1, <2>1 DEF HeaderTable
  <2>5. QED
    BY <2>3, <2>4
<1>5. \A m \in Names : H[m] # NoSymbol => \E i \in 1 .. K : ns[i] = m
  BY <1>1 DEF HeaderTable
<1>6. \A i, j \in 1 .. K : ns[i] = ns[j] => i = j
  BY <1>1 DEF IsInjective
<1>7. d.params = params /\ d.first = Len(declared) + 1 /\ d.name = n
  BY FuncNodeFields
<1>8. DOMAIN params = 1 .. Len(params)
  OBVIOUS
<1>9. \A m \in Names : T[m] = IF \E i \in 1 .. Len(params) : params[i] = m
         THEN [kind |-> "var", body |-> FALSE,
               decl |-> Len(declared) + 1 - 1 + (CHOOSE i \in 1 .. Len(params) : params[i] = m)]
         ELSE NoSymbol
  <2> HIDE DEF d
  <2>1. QED
    BY <1>7, <1>8 DEF ParamTable
<1>10. /\ HeaderSymbol(n, params, K) = FuncSymbol(FALSE)
       /\ \A i \in 1 .. Len(params) : HeaderSymbol(n, params, i) =
             [kind |-> "var", decl |-> Len(declared) + i, body |-> FALSE]
  BY <1>3 DEF HeaderSymbol
<1> HIDE DEF ns, H, T, d, K
<1>11. K \in 1 .. K
  BY <1>2 DEF K
<1>12. ASSUME NEW m \in Names
       PROVE  IF T[m] # NoSymbol
                THEN m # n /\ H[m] # NoSymbol /\ SameEntity(T[m], H[m])
                ELSE IF m = n THEN SameEntity(FuncSymbol(TRUE), H[m]) /\ H[m] # NoSymbol
                ELSE H[m] = NoSymbol
  <2>1. CASE \E i \in 1 .. Len(params) : params[i] = m
    <3>1. PICK i \in 1 .. Len(params) :
             /\ params[i] = m
             /\ T[m] = [kind |-> "var", body |-> FALSE, decl |-> Len(declared) + 1 - 1 + i]
      BY <1>9, <2>1
    <3>2. ns[i] = m /\ i \in 1 .. K /\ i # K /\ i \in Nat
      BY <1>2, <1>3, <3>1
    <3>3. m # n
      BY <1>3, <1>6, <1>11, <3>2
    <3>4. H[m] = [kind |-> "var", decl |-> Len(declared) + i, body |-> FALSE]
      BY <1>4, <1>10, <3>2
    <3>5. Len(declared) + 1 - 1 + i = Len(declared) + i
      BY <1>2, <3>2
    <3>6. H[m] # NoSymbol /\ T[m] # NoSymbol /\ SameEntity(T[m], H[m])
      BY <3>1, <3>4, <3>5 DEF NoSymbol, SameEntity
    <3>7. QED
      BY <3>3, <3>6
  <2>2. CASE ~\E i \in 1 .. Len(params) : params[i] = m
    <3>1. T[m] = NoSymbol
      BY <1>9, <2>2
    <3>2. CASE m = n
      <4>1. H[m] = FuncSymbol(FALSE)
        BY <1>3, <1>4, <1>10, <1>11, <3>2
      <4>2. H[m] # NoSymbol /\ SameEntity(FuncSymbol(TRUE), H[m])
        BY <4>1 DEF NoSymbol, SameEntity, FuncSymbol
      <4>3. QED
        BY <3>1, <3>2, <4>2
    <3>3. CASE m # n
      <4>1. H[m] = NoSymbol
        BY <1>3, <1>5, <2>2, <3>3
      <4>2. QED
        BY <3>1, <3>3, <4>1
    <3>4. QED
      BY <3>2, <3>3
  <2>3. QED
    BY <2>1, <2>2
<1>13. SameHeader(d, H)
  BY <1>7, <1>12 DEF SameHeader, T
<1>14. QED
  BY <1>13 DEF d, H

\* The header of a definition, and the block of its body.
LEMMA FuncDefinitionLinks ==
  ASSUME SemaInv, Linked, NEW n \in Names, NEW params \in Seq(Names), FuncDefinition(n, params)
  PROVE  Linked'
<1> DEFINE d == FuncNode(n, params, TRUE)
           b == Mk("block", NoName, NoSymbol, 1)
           nf == NewFrame("func", Len(envs) + 1)
           f == [nf EXCEPT !.name = n]
           k == NewFrame("block", Len(envs) + 2)
           H == HeaderTable(n, params)
           es == Append(envs, H)
           q == Len(ast) + 1
           X == LoopNamesIn(ast, q)
<1>1. CASE UNCHANGED <<envs, frames, ast, declared, path>>
  BY <1>1, ReportLinks
<1>2. CASE /\ IsInjective(HeaderNames(n, params))
           /\ envs' = EnterScope(es)
           /\ frames' = <<f, k>>
           /\ ast' = ast \o <<d, b>>
           /\ path' = path \o <<q, q + 1>>
  <2>1. frames = <<>>
    BY DEF FuncDefinition, AtTop
  <2>2. /\ Tied(ast, <<>>, envs, {}) /\ Len(envs) = 1 /\ envs \in Seq(Table) /\ envs # <<>>
        /\ declared \in Seq(DeclRecord) /\ ast \in Seq(Node) /\ path \in Seq(Nat) /\ Len(path) = 1
        /\ Len(ast) \in Nat
    BY <2>1, LinkedOutside
  <2>3. d \in Node /\ d.kind = "func"
    BY <2>1, <2>2, FuncNodeType
  <2>4. d.name = n /\ d.sym = FuncSymbol(TRUE)
    BY FuncNodeFields
  <2>5. SameHeader(d, H)
    BY <1>2, <2>2, HeaderAgrees
  <2>6. H \in Table
    BY <2>2, HeaderTableType
  <2>7. b \in Node /\ b.kind = "block" /\ b.depth = 1
    BY MkNameless, NoNameIsOptional
  <2>8. nf \in Frame /\ nf.kind = "func" /\ nf.height = 2
    BY <2>2, NewFrameType
  <2>9. k \in Frame /\ k.kind = "block" /\ k.height = 3 /\ k.inc = <<>>
    BY <2>2, NewFrameType DEF NewFrame
  <2> HIDE DEF d, b, nf, k, H
  <2>10. f \in Frame /\ f.kind = "func" /\ f.height = 2 /\ f.name = n
    BY <2>8, NoNameIsOptional DEF Frame
  <2> HIDE DEF f
  <2>11. es \in Seq(Table) /\ Len(es) = 2 /\ es[1] = envs[1] /\ es[2] = H
    BY <2>2, <2>6, AppendToOne
  <2> HIDE DEF es
  <2>12. es # <<>>
    <3>1. Len(es) # 0
      BY <2>11
    <3>2. QED
      BY <2>11, <3>1, EmptySeq
  <2>13. OpensFunction(envs, es, d, f)
    BY <2>4, <2>5, <2>10, <2>11, <2>12 DEF OpensFunction
  <2> HIDE DEF X, q
  <2>14. Tied(Append(ast, d), <<f>>, es, X)
    BY <2>2, <2>3, <2>4, <2>10, <2>13, TiedFunc
  <2>15. <<f>> # <<>> /\ b.depth = Len(<<f>>)
    BY <2>7
  <2>16. Inside(k, Len(es))
    BY <2>9, <2>11 DEF Inside
  <2>17. EnterScope(es) = IF k.kind = "case" THEN es ELSE Append(es, EmptyTable)
    BY <2>9 DEF EnterScope
  <2>18. Tied(Append(Append(ast, d), b), Append(<<f>>, k), EnterScope(es), X)
    BY <2>7, <2>9, <2>14, <2>15, <2>16, <2>17, TiedPush
  <2>19. Append(<<f>>, k) = <<f, k>>
    <3>1. <<f>> \in Seq(Frame)
      BY <2>10, OneElement
    <3>2. Append(<<f>>, k) = <<f>> \o <<k>>
      BY <2>9, <3>1, AppendIsConcat
    <3>3. <<f, k>> = <<f>> \o <<k>>
      BY <2>9, <2>10, PairIsConcat
    <3>4. QED
      BY <3>2, <3>3
  <2>20. ast' = Append(Append(ast, d), b)
    <3>1. <<d, b>> = <<d>> \o <<b>>
      BY <2>3, <2>7, PairIsConcat
    <3>2. ast \o (<<d>> \o <<b>>) = Append(Append(ast, d), b)
      BY <2>2, <2>3, <2>7, ConcatTwo
    <3>3. QED
      BY <1>2, <3>1, <3>2
  <2>21. path'[2] = q /\ q \in Nat
    <3>1. q \in Nat /\ q + 1 \in Nat
      BY <2>2 DEF q
    <3> DEFINE r == q + 1
    <3> HIDE DEF r
    <3>7. r \in Nat
      BY <3>1 DEF r
    <3>2. <<q, r>> = <<q>> \o <<r>>
      BY <3>1, <3>7, PairIsConcat
    <3>8. path \o (<<q>> \o <<r>>) = Append(Append(path, q), r)
      BY <2>2, <3>1, <3>7, ConcatTwo
    <3>3. Append(path, q) \in Seq(Nat) /\ Len(Append(path, q)) = 2 /\ Append(path, q)[2] = q
      BY <2>2, <3>1, AppendToOne
    <3>4. Append(Append(path, q), r)[2] = q
      <4>1. Len(Append(path, q)) >= 2
        BY <3>3
      <4>2. QED
        BY <3>3, <3>7, <4>1, FunctionStays
    <3>5. path' = Append(Append(path, q), r)
      BY <1>2, <3>2, <3>8 DEF r
    <3>6. QED
      BY <3>1, <3>4, <3>5
  <2>22. LoopNamesIn(ast', q) = X /\ X = {}
    <3>1. LoopNamesIn(Append(ast, d), q) = X
      BY <2>2, <2>3, LoopsAppend DEF X
    <3>2. Append(ast, d) \in Seq(Node)
      BY <2>2, <2>3
    <3>3. LoopNamesIn(Append(Append(ast, d), b), q) = X
      BY <2>7, <3>1, <3>2, LoopsAppend
    <3>4. ~\E j \in DOMAIN ast : j > q
      BY <2>2 DEF q
    <3>5. X = {}
      BY <3>4 DEF X, LoopNamesIn
    <3>6. QED
      BY <2>20, <3>3, <3>5
  <2>23. q <= Len(ast')
    BY <2>2, <2>3, <2>7, <2>20 DEF q
  <2>24. Tied(ast', frames', envs', LoopNamesIn(ast', path'[2]))
    BY <1>2, <2>18, <2>19, <2>20, <2>21, <2>22
  <2>25. LoopsDeclared(ast', path'[2], declared')
    BY <2>21, <2>22, <2>23 DEF LoopsDeclared
  <2>26. QED
    BY <2>24, <2>25 DEF Linked
<1>3. QED
  <2>1. Len(ast) + 2 = q + 1
    BY DEF SemaInv, SemaTypeOK
  <2>2. QED
    BY <1>1, <1>2, <2>1 DEF FuncDefinition, Report

\* The end of a function.
LEMMA FuncEndLinks ==
  ASSUME SemaInv, Linked, FuncEnd
  PROVE  Linked'
<1> DEFINE n == frames[1].name
           e1 == ExitScope(envs)
           e2 == ExitScope(e1)
           es == AddFunction(e2, n, TRUE)
           fs == Front(frames)
           d == Mk("endblock", NoName, NoSymbol, 1)
           g == Mk("endfunc", NoName, NoSymbol, 0)
           X == LoopNamesIn(ast, path[2])
<1>1. CASE UNCHANGED <<envs, frames, ast, declared, path>>
  BY <1>1, ReportLinks
<1>2. CASE /\ ~FuncRedefined(FindObjSymbolInCurEnv(e2, n), TRUE)
           /\ envs' = es /\ frames' = <<>>
           /\ ast' = ast \o <<d, g>>
  <2>1. frames # <<>> /\ Len(frames) = 2
    BY DEF FuncEnd, InFrame
  <2>2. /\ Tied(ast, frames, envs, X) /\ frames \in Seq(Frame) /\ WellNested(frames, Len(envs))
        /\ envs \in Seq(Table) /\ Len(envs) \in Nat /\ ast \in Seq(Node)
    BY <2>1, LinkedInside
  <2>3. /\ frames[1].height = 2 /\ n \in Names /\ frames[2].kind = "block"
        /\ frames[2].height = Len(envs)
        /\ frames[2].height = frames[1].height + (IF frames[2].kind = "case" THEN 0 ELSE 1)
    <3>1. 2 \in 2 .. Len(frames) /\ 2 - 1 = 1
      BY <2>1
    <3>2. QED
      BY <2>1, <2>2, <3>1 DEF WellNested
  <2>4. Len(envs) = 3
    BY <2>3
  <2>5. e1 \in Seq(Table) /\ Len(e1) = 2 /\ e1 # <<>> /\ \A t \in 1 .. 2 : e1[t] = envs[t]
    <3>1. Len(envs) >= 2 /\ envs # <<>>
      BY <2>4
    <3>2. e1 \in Seq(Table) /\ Len(e1) = Len(envs) - 1 /\ e1 # <<>>
      BY <2>2, <3>1, LeaveScope DEF ExitScope
    <3>3. \A t \in 1 .. Len(envs) - 1 : e1[t] = envs[t]
      BY <2>2, <3>1, FrontType DEF ExitScope
    <3>4. Len(envs) - 1 = 2
      BY <2>4
    <3>5. QED
      BY <3>2, <3>3, <3>4
  <2> HIDE DEF e1
  <2>6. e2 \in Seq(Table) /\ Len(e2) = 1 /\ e2 # <<>> /\ e2[1] = e1[1]
    <3>1. Len(e1) >= 2
      BY <2>5
    <3>2. e2 \in Seq(Table) /\ Len(e2) = Len(e1) - 1 /\ e2 # <<>>
      BY <2>5, <3>1, LeaveScope DEF ExitScope
    <3>3. \A t \in 1 .. Len(e1) - 1 : e2[t] = e1[t]
      BY <2>5, FrontType DEF ExitScope
    <3>4. Len(e1) - 1 = 1 /\ 1 \in 1 .. Len(e1) - 1
      BY <2>5
    <3>5. QED
      BY <3>2, <3>3, <3>4
  <2> HIDE DEF e2
  <2>7. EntersFunction(e2, es, n, TRUE)
    BY <1>2, <2>3, <2>6, AddFunctionEnters
  <2> HIDE DEF es
  <2>8. EntersFunction(e1, es, n, TRUE)
    BY <2>6, <2>7 DEF EntersFunction
  <2>9. fs \in Seq(Frame) /\ Len(fs) = 1 /\ fs[1] = frames[1] /\ fs # <<>>
    <3>1. Len(frames) >= 2
      BY <2>1
    <3>2. fs \in Seq(Frame) /\ Len(fs) = Len(frames) - 1 /\ fs # <<>>
      BY <2>2, <3>1, LeaveScope
    <3>3. \A t \in 1 .. Len(frames) - 1 : fs[t] = frames[t]
      BY <2>1, <2>2, FrontType
    <3>4. Len(frames) - 1 = 1 /\ 1 \in 1 .. Len(frames) - 1
      BY <2>1
    <3>5. QED
      BY <3>2, <3>3, <3>4
  <2>10. EntersFunction(e1, es, fs[1].name, TRUE)
    BY <2>8, <2>9
  <2> HIDE DEF n
  <2>11. d \in Node /\ d.kind = "endblock" /\ d.depth = 1 /\ g \in Node /\ g.kind = "endfunc"
    BY MkNameless, NoNameIsOptional
  <2> HIDE DEF d, g, X
  <2>12. Closes(frames, envs, e1)
    BY <2>1, <2>3, <2>5 DEF Closes
  <2>13. Tied(Append(ast, d), fs, e1, X)
    <3>1. Len(frames) >= 2 /\ d.depth = Len(frames) - 1 /\ frames[Len(frames)].kind # "for"
      BY <2>1, <2>3, <2>11
    <3>2. QED
      BY <2>2, <2>11, <2>12, <3>1, TiedPop
  <2> HIDE DEF fs
  <2>14. Tied(Append(Append(ast, d), g), <<>>, es, X)
    <3>1. Len(fs) <= 1
      BY <2>9
    <3>2. fs # <<>>
      BY <2>9
    <3>3. QED
      BY <2>10, <2>11, <2>13, <3>1, <3>2, TiedFuncEnd
  <2>15. ast' = Append(Append(ast, d), g)
    <3>1. <<d, g>> = <<d>> \o <<g>>
      BY <2>11, PairIsConcat
    <3>2. ast \o (<<d>> \o <<g>>) = Append(Append(ast, d), g)
      BY <2>2, <2>11, ConcatTwo
    <3>3. QED
      BY <1>2, <3>1, <3>2
  <2>16. frames' = <<>> /\ Tied(ast', <<>>, envs', X)
    BY <1>2, <2>14, <2>15
  <2>17. QED
    BY <2>16, LinkedTop
<1>3. QED
  BY <1>1, <1>2 DEF FuncEnd, Report

\* The scope of a for.
LEMMA ForOpens ==
  ASSUME NEW a, NEW fs, NEW es, NEW X, Tied(a, fs, es, X), fs # <<>>,
         NEW d \in Node, d.kind = "for", d.depth = Len(fs),
         NEW f \in Frame, f.kind = "for", f.inc = <<>>, f.height = Len(es) + 1
  PROVE  Tied(Append(a, d), Append(fs, f), EnterScope(es), X)
<1>1. Inside(f, Len(es))
  BY DEF Inside
<1>2. EnterScope(es) = IF f.kind = "case" THEN es ELSE Append(es, EmptyTable)
  BY DEF EnterScope
<1>3. QED
  BY <1>1, <1>2, TiedPush

\* Its variable: CodeGen enters it in the table of the block around it.
LEMMA ForDeclares ==
  ASSUME NEW b, NEW fs \in Seq(Frame), NEW es \in Seq(Table), NEW X, NEW f \in Frame,
         Tied(b, Append(fs, f), EnterScope(es), X), f.kind = "for", f.inc = <<>>,
         NEW n \in Names, NEW s \in Symbol,
         NEW v \in Node, v.kind = "var", v.depth = Len(fs) + 1, v.name = n, v.sym = s,
         Parting \cap Shapes = {} => n \notin X /\ FindObjSymbol(es, n) = NoSymbol
  PROVE  Tied(Append(b, v), Append(fs, f), AddObjSymbol(EnterScope(es), n, s), X \cup {n})
<1> DEFINE gs == Append(fs, f)
           scope == EnterScope(es)
           us == AddObjSymbol(scope, n, s)
           h == Len(scope)
<1>1. gs \in Seq(Frame) /\ Len(gs) = Len(fs) + 1 /\ gs[Len(gs)] = f /\ Len(fs) \in Nat
  BY AppendParts
<1>2. /\ scope \in Seq(Table) /\ h = Len(es) + 1 /\ scope # <<>> /\ Len(es) \in Nat
      /\ scope[h] = EmptyTable /\ scope = Append(es, EmptyTable)
  BY EnterScopeInside, EmptyTableType, AppendParts DEF EnterScope
<1>3. FindObjSymbolInCurEnv(scope, n) = NoSymbol
  BY <1>2 DEF FindObjSymbolInCurEnv, Last, EmptyTable
<1> HIDE DEF gs, scope
<1>4. gs # <<>> /\ v.depth = Len(gs)
  BY <1>1
<1>5. Len(scope) >= 2
  <2>1. Tied(b, gs, scope, X)
    BY DEF gs, scope
  <2>2. QED
    BY <1>4, <2>1, TiedTop
<1>6. /\ us \in Seq(Table) /\ us # <<>> /\ Len(us) = Len(scope)
      /\ Adds(scope, us, Len(scope), n, s) /\ us[1] = scope[1] /\ scope[Len(scope)][n] = NoSymbol
  BY ZenonT(60), <1>2, <1>3, <1>5, AddObjSymbolAdds
<1> HIDE DEF us
<1>7. ASSUME Sound(scope, gs) PROVE Declares(gs, scope, us, v.name, v.sym, X, X \cup {n})
  <2>1. n \notin X /\ FindObjSymbol(es, n) = NoSymbol
    BY <1>7 DEF Sound
  <2>2. Inner(es, Len(es), n) = NoSymbol
    BY <2>1, FoundIsInner
  <2>3. Inner(Append(es, EmptyTable), Len(es) + 1, n) = NoSymbol
    BY <2>2, EmptyTableType, InnerAppend DEF EmptyTable
  <2>4. Inner(scope, Len(scope), n) = NoSymbol
    BY <1>2, <2>3
  <2>5. gs[Len(gs)].kind = "for" /\ gs[Len(gs)].inc = <<>>
    BY <1>1
  <2>6. QED
    BY <1>6, <2>1, <2>4, <2>5 DEF Declares
<1>8. Tied(b, gs, scope, X)
  BY DEF gs, scope
<1>9. Tied(Append(b, v), gs, us, X \cup {n})
  BY <1>4, <1>6, <1>7, <1>8, TiedVar
<1>10. QED
  BY <1>9 DEF gs, us, scope

\* Its increment is noted.
LEMMA ForNotes ==
  ASSUME NEW b, NEW fs \in Seq(Frame), fs # <<>>, NEW us, NEW Y, NEW f0 \in Frame,
         Tied(b, Append(fs, f0), us, Y), f0.kind = "for",
         NEW f \in Frame, f.kind = "for", f.height = f0.height, Len(f.inc) <= 1,
         Parting \cap Shapes = {} =>
           \A i \in 1 .. Len(f.inc) : /\ IsObject(f.inc[i].sym) /\ f.inc[i].name \in Names
                                      /\ Inner(us, Len(us), f.inc[i].name) = f.inc[i].sym
  PROVE  Tied(b, Append(fs, f), us, Y)
<1> DEFINE g0 == Append(fs, f0)
           g == Append(fs, f)
           N == Len(fs) + 1
<1>1. /\ g0 \in Seq(Frame) /\ g \in Seq(Frame) /\ Len(g0) = N /\ Len(g) = N
      /\ g0[N] = f0 /\ g[N] = f
      /\ \A k \in 1 .. Len(fs) : g0[k] = fs[k] /\ g[k] = fs[k]
      /\ \A k \in 1 .. N : k \in 1 .. Len(fs) \/ k = N
  BY AppendParts
<1>2. Len(fs) \in Nat /\ 1 \in 1 .. Len(fs)
  OBVIOUS
<1> HIDE DEF g0, g
<1>3. g0 # <<>>
  BY <1>1, <1>2
<1>4. SameKinds(g0, g)
  BY <1>1 DEF SameKinds
<1>5. g[1].name = g0[1].name
  BY <1>1, <1>2
<1>6. ASSUME Sound(us, g0) PROVE Notes(g0, g, us)
  <2>1. \A i \in 1 .. Len(f.inc) : /\ IsObject(f.inc[i].sym) /\ f.inc[i].name \in Names
                                   /\ Inner(us, Len(us), f.inc[i].name) = f.inc[i].sym
    BY <1>6 DEF Sound
  <2>2. \A k \in 1 .. Len(g0) - 1 : g[k].inc = g0[k].inc
    BY <1>1, <1>2
  <2>3. g[Len(g0)] = f
    BY <1>1
  <2>4. QED
    BY <1>4, <1>5, <2>1, <2>2, <2>3 DEF Notes
<1>7. Tied(b, g0, us, Y)
  BY DEF g0
<1>8. Tied(b, g, us, Y)
  BY <1>3, <1>4, <1>5, <1>6, <1>7, TiedInc
<1>9. QED
  BY <1>8 DEF g

\* What a for declares is on record.
LEMMA LoopNoted ==
  ASSUME NEW a \in Seq(Node), NEW d \in Node, NEW q \in Nat, NEW ds \in Seq(DeclRecord),
         LoopsDeclared(a, q, ds),
         NEW x \in DeclRecord, x.name = d.name, Len(x.path) >= 2, x.path[2] = q
  PROVE  LoopsDeclared(Append(a, d), q, Append(ds, x))
<1>1. LoopNamesIn(Append(a, d), q) \subseteq LoopNamesIn(a, q) \cup {d.name}
  BY LoopsAppend
<1>2. Len(Append(a, d)) = Len(a) + 1 /\ Len(a) \in Nat
  BY AppendParts
<1>3. LoopsDeclared(a, q, Append(ds, x))
  BY MoreDeclared
<1>4. q <= Len(Append(a, d))
  BY <1>2 DEF LoopsDeclared
<1>5. Len(ds) + 1 \in DOMAIN Append(ds, x) /\ Append(ds, x)[Len(ds) + 1] = x
  BY DeclsAppend
<1> DEFINE us == Append(ds, x)
<1> HIDE DEF us
<1>6. ASSUME NEW n \in Names, n \in LoopNamesIn(Append(a, d), q)
      PROVE  \E i \in DOMAIN us : us[i].name = n /\ Len(us[i].path) >= 2 /\ us[i].path[2] = q
  <2>1. CASE n \in LoopNamesIn(a, q)
    BY <1>3, <2>1 DEF LoopsDeclared, us
  <2>2. CASE n = d.name
    BY <1>5, <2>2 DEF us
  <2>3. QED
    BY <1>1, <1>6, <2>1, <2>2
<1>7. QED
  BY <1>4, <1>6 DEF LoopsDeclared, us

\* A node without a name is of no concern to the loops.
LEMMA LoopUnnamed ==
  ASSUME NEW a \in Seq(Node), NEW d \in Node, NEW q \in Nat, NEW ds, LoopsDeclared(a, q, ds),
         d.name = NoName
  PROVE  LoopsDeclared(Append(a, d), q, ds)
<1>1. LoopNamesIn(Append(a, d), q) \subseteq LoopNamesIn(a, q) \cup {d.name}
  BY LoopsAppend
<1>2. Len(Append(a, d)) = Len(a) + 1 /\ Len(a) \in Nat
  BY AppendParts
<1>3. q <= Len(Append(a, d))
  BY <1>2 DEF LoopsDeclared
<1>4. QED
  BY <1>1, <1>3, NamesAssumption DEF LoopsDeclared

\* A for, up to its closing parenthesis.
LEMMA OpenForLinks ==
  ASSUME SemaInv, Linked, NEW init \in OptName, NEW inc \in OptName, OpenFor(init, inc)
  PROVE  Linked'
<1> DEFINE s == NewDecl("var")
           scope == EnterScope(envs)
           es == IF init = NoName THEN scope ELSE AddObjSymbol(scope, init, s)
           p == Append(path, Len(ast) + 1)
           nf == NewFrame("for", Len(envs) + 1)
           is == IF inc = NoName THEN <<>> ELSE <<[name |-> inc, sym |-> Found(es, inc)]>>
           f == [nf EXCEPT !.inc = is]
           d == Mk("for", init, NoSymbol, Here)
           v == Mk("var", init, s, Here + 1)
           q == path[2]
           X == LoopNamesIn(ast, q)
           x == Decl(init, s, p)
           a1 == Append(ast, d)
           f0 == Append(frames, nf)
<1>1. CASE UNCHANGED <<envs, frames, ast, declared, path>>
  BY <1>1, ReportLinks
<1>2. CASE /\ inc # NoName => Found(es, inc) # NoSymbol /\ Accessible(Found(es, inc))
           /\ envs' = es
           /\ frames' = Append(frames, f)
           /\ ast' = ast \o (IF init = NoName THEN <<d>> ELSE <<d, v>>)
           /\ path' = p
           /\ declared' = IF init = NoName THEN declared ELSE Append(declared, x)
  <2>1. frames # <<>>
    BY AtStmtInside DEF OpenFor
  <2>2. init # NoName => \/ "loopReuse" \in Shapes
                         \/ /\ Found(envs, init) = NoSymbol
                            /\ ~\E i \in FunctionDecls : declared[i].name = init
    BY DEF OpenFor
  <2>3. /\ Tied(ast, frames, envs, X) /\ LoopsDeclared(ast, q, declared)
        /\ ast \in Seq(Node) /\ frames \in Seq(Frame) /\ envs \in Seq(Table) /\ envs # <<>>
        /\ declared \in Seq(DeclRecord) /\ path \in Seq(Nat) /\ Len(path) = Len(envs)
        /\ Len(envs) \in Nat /\ Len(envs) >= 2 /\ q \in Nat /\ Len(ast) \in Nat
        /\ Len(frames) \in Nat /\ Here = Len(frames)
    BY <2>1, LinkedInside
  <2>4. s \in Symbol
    BY <2>3, NewDeclType
  <2>5. p \in Seq(Nat) /\ Len(p) >= 2 /\ p[2] = q
    <3>1. Len(ast) + 1 \in Nat
      BY <2>3
    <3>2. p \in Seq(Nat) /\ Len(p) = Len(path) + 1
      BY <2>3, <3>1, AppendParts
    <3>3. p[2] = q
      BY <2>3, <3>1, FunctionStays
    <3>4. QED
      BY <2>3, <3>2, <3>3
  <2>6. nf \in Frame /\ nf.kind = "for" /\ nf.height = Len(envs) + 1 /\ nf.inc = <<>>
    BY <2>3, NewFrameType DEF NewFrame
  <2>7. d \in Node /\ d.kind = "for" /\ d.depth = Len(frames) /\ d.name = init
    BY <2>3, MkNameless DEF Mk
  <2>8. init # NoName => /\ init \in Names /\ v \in Node /\ v.kind = "var"
                         /\ v.depth = Len(frames) + 1 /\ v.name = init /\ v.sym = s
    BY <2>3, <2>4, MkNamed DEF OptName, Mk
  <2>9. init # NoName => x \in DeclRecord /\ x.name = init /\ x.path = p
    <3> HIDE DEF s, p
    <3>1. QED
      BY <2>4, <2>5, <2>8, DeclType DEF Decl
  <2> HIDE DEF s, p, nf, d, v, x, q
  <2>10. a1 \in Seq(Node)
    BY <2>3, <2>7
  <2>11. Tied(a1, f0, scope, X)
    BY <2>1, <2>3, <2>6, <2>7, ForOpens
  <2>12. /\ X \subseteq LoopNamesIn(a1, q)
         /\ init \in LoopNamesIn(a1, q)
    <3>1. Len(ast) + 1 > q
      BY <2>3 DEF LoopsDeclared
    <3>2. QED
      BY <2>3, <2>7, <3>1, LoopsAppend
  <2> HIDE DEF a1, scope, f0
\* With the variable.
  <2>13. /\ Tied(ast', f0, es, LoopNamesIn(ast', q)) /\ LoopsDeclared(ast', q, declared')
    <3>1. CASE init = NoName
      <4>1. ast' = a1
        BY <1>2, <2>3, <2>7, <3>1, AppendIsConcat DEF a1
      <4>2. Tied(a1, f0, scope, LoopNamesIn(a1, q))
        BY <2>11, <2>12, TiedWider
      <4>3. LoopsDeclared(a1, q, declared)
        BY <2>3, <2>7, <3>1, LoopUnnamed DEF a1
      <4>4. es = scope /\ declared' = declared
        BY <1>2, <3>1
      <4> HIDE DEF es
      <4>5. QED
        BY <4>1, <4>2, <4>3, <4>4
    <3>2. CASE init # NoName
      <4>1. es = AddObjSymbol(scope, init, s) /\ declared' = Append(declared, x)
        BY <1>2, <3>2
      <4> HIDE DEF es
      <4>2. ast' = Append(a1, v)
        <5>1. <<d, v>> = <<d>> \o <<v>>
          BY <2>7, <2>8, <3>2, PairIsConcat
        <5>2. ast \o (<<d>> \o <<v>>) = Append(Append(ast, d), v)
          BY SMTT(60), <2>3, <2>7, <2>8, <3>2, ConcatTwo
        <5>3. QED
          BY <1>2, <3>2, <5>1, <5>2 DEF a1
      <4>3. Parting \cap Shapes = {} => init \notin X /\ FindObjSymbol(envs, init) = NoSymbol
        <5>1. ASSUME Parting \cap Shapes = {}
              PROVE  init \notin X /\ FindObjSymbol(envs, init) = NoSymbol
          <6>1. /\ Found(envs, init) = NoSymbol
                /\ ~\E i \in FunctionDecls : declared[i].name = init
            BY <2>2, <3>2, <5>1 DEF Parting
          <6>2. init \in X => \E i \in FunctionDecls : declared[i].name = init
            BY <2>3, <2>8, <3>2 DEF LoopsDeclared, FunctionDecls, q
          <6>3. QED
            BY <6>1, <6>2 DEF Found
        <5>2. QED
          BY <5>1
      <4> HIDE DEF X
      <4>4. Tied(Append(a1, v), f0, AddObjSymbol(scope, init, s), X \cup {init})
        BY <2>3, <2>4, <2>6, <2>8, <2>11, <3>2, <4>3, ForDeclares DEF f0, scope
      <4>5. Tied(Append(a1, v), f0, es, X \cup {init})
        BY <4>1, <4>4
      <4>6. X \cup {init} \subseteq LoopNamesIn(a1, q)
        BY <2>12
      <4>7. Tied(Append(a1, v), f0, es, LoopNamesIn(a1, q))
        BY <4>5, <4>6, TiedWider
      <4>8. LoopsDeclared(a1, q, Append(declared, x))
        BY <2>3, <2>5, <2>7, <2>9, <3>2, LoopNoted DEF a1
      <4>9. /\ Tied(Append(a1, v), f0, es, LoopNamesIn(Append(a1, v), q))
            /\ LoopsDeclared(Append(a1, v), q, Append(declared, x))
        <5>1. v.kind # "for"
          BY <2>8, <3>2
        <5>2. QED
          BY <2>3, <2>8, <2>10, <3>2, <4>7, <4>8, <5>1, Relink
      <4>10. QED
        BY <4>1, <4>2, <4>9
    <3>3. QED
      BY <3>1, <3>2
\* With the increment.
  <2>14. es \in Seq(Table)
    BY <2>13, TiedTop
  <2> HIDE DEF es
  <2>15. inc # NoName => inc \in Names /\ Found(es, inc) \in Symbol
    BY <1>2, <2>14, FindObjSymbolType DEF OptName, Found
  <2>16. is \in Seq([name : Names, sym : Symbol]) /\ Len(is) <= 1
    <3>1. CASE inc = NoName
      BY <3>1
    <3>2. CASE inc # NoName
      <4> DEFINE e == [name |-> inc, sym |-> Found(es, inc)]
      <4>1. e \in [name : Names, sym : Symbol]
        BY <2>15, <3>2
      <4>2. is = <<e>>
        BY <3>2
      <4> HIDE DEF e, is
      <4>3. <<e>> \in Seq([name : Names, sym : Symbol]) /\ Len(<<e>>) = 1
        BY <4>1, OneElement
      <4>4. QED
        BY <4>2, <4>3
    <3>3. QED
      BY <3>1, <3>2
  <2>17. Parting \cap Shapes = {} =>
           \A i \in 1 .. Len(is) : /\ IsObject(is[i].sym) /\ is[i].name \in Names
                                   /\ Inner(es, Len(es), is[i].name) = is[i].sym
    <3>1. ASSUME Parting \cap Shapes = {}, inc # NoName
          PROVE  IsObject(Found(es, inc)) /\ Inner(es, Len(es), inc) = Found(es, inc)
      <4>1. "typedefExpr" \notin Shapes
        BY <3>1 DEF Parting
      <4>2. IsObject(Found(es, inc))
        BY <1>2, <2>15, <3>1, <4>1 DEF Accessible, IsObject, Symbol
      <4>3. Inner(es, Len(es), inc) = Found(es, inc)
        BY <2>14, FoundIsInner DEF Found
      <4>4. QED
        BY <4>2, <4>3
    <3>2. QED
      BY <2>15, <3>1
  <2> HIDE DEF is
  <2>18. f \in Frame /\ f.kind = "for" /\ f.height = nf.height /\ f.inc = is
    BY <2>6, <2>16 DEF Frame
  <2> HIDE DEF f
  <2>19. Tied(ast', Append(frames, f), es, LoopNamesIn(ast', q))
    <3>1. Len(f.inc) <= 1
      BY <2>16, <2>18
    <3>2. Parting \cap Shapes = {} =>
           \A i \in 1 .. Len(f.inc) : /\ IsObject(f.inc[i].sym) /\ f.inc[i].name \in Names
                                      /\ Inner(es, Len(es), f.inc[i].name) = f.inc[i].sym
      BY <2>17, <2>18
    <3>3. Tied(ast', Append(frames, nf), es, LoopNamesIn(ast', q))
      BY <2>13 DEF f0
    <3>4. QED
      BY <2>1, <2>3, <2>6, <2>18, <3>1, <3>2, <3>3, ForNotes
  <2>20. path'[2] = q
    BY <1>2, <2>5
  <2>21. Tied(ast', frames', envs', LoopNamesIn(ast', path'[2]))
    BY <1>2, <2>19, <2>20
  <2>22. LoopsDeclared(ast', path'[2], declared')
    BY <2>13, <2>20
  <2>23. QED
    BY <2>21, <2>22 DEF Linked
<1>3. QED
  BY <1>1, <1>2 DEF OpenFor, Report

\* A for has at most one increment.
ShortIncs(fs) == \A k \in 1 .. Len(fs) : Len(fs[k].inc) <= 1

\* A statement has been parsed, a construct is opened or closed.
LEMMA ShortAfterStmt ==
  ASSUME NEW fs \in Seq(Frame), ShortIncs(fs)
  PROVE  ShortIncs(AfterStmt(fs))
<1>1. Alike(fs, AfterStmt(fs))
  BY AfterStmtAlike
<1> DEFINE us == AfterStmt(fs)
<1> HIDE DEF us
<1>2. Len(us) = Len(fs) /\ \A k \in 1 .. Len(fs) : us[k].inc = fs[k].inc
  BY <1>1 DEF Alike, SameKinds, us
<1>3. ShortIncs(us)
  BY <1>2 DEF ShortIncs
<1>4. QED
  BY <1>3 DEF us

\* The same when a construct is opened.
LEMMA ShortPush ==
  ASSUME NEW fs \in Seq(Frame), ShortIncs(fs), NEW f \in Frame, Len(f.inc) <= 1
  PROVE  ShortIncs(Append(fs, f))
<1> DEFINE us == Append(fs, f)
<1>1. /\ Len(us) = Len(fs) + 1 /\ us[Len(fs) + 1] = f
      /\ \A k \in 1 .. Len(fs) : us[k] = fs[k]
      /\ \A k \in 1 .. Len(fs) + 1 : k \in 1 .. Len(fs) \/ k = Len(fs) + 1
  BY AppendParts
<1> HIDE DEF us
<1>2. ShortIncs(us)
  BY <1>1 DEF ShortIncs
<1>3. QED
  BY <1>2 DEF us

\* The same when one is closed.
LEMMA ShortPop ==
  ASSUME NEW fs \in Seq(Frame), fs # <<>>, ShortIncs(fs)
  PROVE  ShortIncs(Front(fs)) /\ Front(fs) \in Seq(Frame)
<1>1. /\ Front(fs) \in Seq(Frame) /\ Len(Front(fs)) = Len(fs) - 1
      /\ \A k \in 1 .. Len(fs) - 1 : Front(fs)[k] = fs[k]
  BY FrontType
<1>2. \A k \in 1 .. Len(fs) - 1 : k \in 1 .. Len(fs)
  OBVIOUS
<1>3. QED
  BY <1>1, <1>2 DEF ShortIncs

\* A construct newly opened has none.
LEMMA ShortNew ==
  ASSUME NEW k \in {"func", "block", "for", "case"}, NEW h \in Nat, NEW b \in BOOLEAN,
         NEW n \in OptName
  PROVE  /\ NewFrame(k, h) \in Frame /\ NewFrame(k, h).inc = <<>>
         /\ [NewFrame(k, h) EXCEPT !.switch = b] \in Frame
         /\ [NewFrame(k, h) EXCEPT !.switch = b].inc = <<>>
         /\ [NewFrame(k, h) EXCEPT !.name = n] \in Frame
         /\ [NewFrame(k, h) EXCEPT !.name = n].inc = <<>>
BY NewFrameType DEF NewFrame, Frame

\* Every step keeps the increments short.
LEMMA SemaNext_ShortIncs ==
  ASSUME SemaInv, ShortIncs(frames), SemaNext
  PROVE  ShortIncs(frames')
<1>1. frames \in Seq(Frame) /\ envs \in Seq(Table) /\ Len(envs) \in Nat
  BY DEF SemaInv, SemaTypeOK
<1>2. Len(<<>>) = 0 /\ ShortIncs(<<>>)
  BY DEF ShortIncs
<1>3. CASE frames' = frames
  BY <1>3
<1>4. CASE frames' = AfterStmt(frames)
  BY <1>1, <1>4, ShortAfterStmt
<1>5. ASSUME NEW switch \in BOOLEAN, OpenBlock(switch) PROVE ShortIncs(frames')
  <2>1. Len(envs) + 1 \in Nat /\ NoName \in OptName
    BY <1>1 DEF OptName
  <2>2. PICK f : f = [NewFrame("block", Len(envs) + 1) EXCEPT !.switch = switch]
    OBVIOUS
  <2>3. f \in Frame /\ f.inc = <<>>
    BY <2>1, <2>2, ShortNew
  <2>4. frames' = Append(frames, f)
    BY <1>5, <2>2 DEF OpenBlock
  <2>5. Len(f.inc) <= 1
    BY <1>2, <2>3
  <2>6. QED
    BY <1>1, <2>3, <2>4, <2>5, ShortPush
<1>6. ASSUME CaseLabel PROVE ShortIncs(frames')
  <2>1. CASE frames' = frames
    BY <2>1
  <2>2. CASE frames' = Append(EndCase(frames), NewFrame("case", Len(envs)))
    <3>1. InFrame({"block", "case"}) /\ frames # <<>>
      BY <1>6 DEF CaseLabel, InFrame
    <3>2. EndCase(frames) \in Seq(Frame) /\ ShortIncs(EndCase(frames))
      BY <1>1, <3>1, ShortPop DEF EndCase
    <3>3. NewFrame("case", Len(envs)) \in Frame /\ NewFrame("case", Len(envs)).inc = <<>>
      BY <1>1, ShortNew DEF OptName
    <3> DEFINE f == NewFrame("case", Len(envs))
    <3> HIDE DEF f
    <3>4. Len(f.inc) <= 1
      BY <1>2, <3>3 DEF f
    <3>5. ShortIncs(Append(EndCase(frames), f))
      BY <3>2, <3>3, <3>4, ShortPush DEF f
    <3>6. QED
      BY <2>2, <3>5 DEF f
  <2>3. QED
    BY <1>6, <2>1, <2>2 DEF CaseLabel, Report
<1>7. ASSUME CloseBlock PROVE ShortIncs(frames')
  <2>1. InFrame({"block", "case"}) /\ frames # <<>>
    BY <1>7 DEF CloseBlock, InFrame
  <2>2. EndCase(frames) \in Seq(Frame) /\ ShortIncs(EndCase(frames)) /\ EndCase(frames) # <<>>
    BY <1>1, <2>1, ShortPop, EndCaseLeavesBlock DEF EndCase
  <2>3. ShortIncs(Front(EndCase(frames))) /\ Front(EndCase(frames)) \in Seq(Frame)
    BY <2>2, ShortPop
  <2>4. ShortIncs(AfterStmt(Front(EndCase(frames))))
    BY <2>3, ShortAfterStmt
  <2>5. frames' = AfterStmt(Front(EndCase(frames)))
    BY <1>7 DEF CloseBlock
  <2>6. QED
    BY <2>4, <2>5
<1>8. ASSUME CloseFor PROVE ShortIncs(frames')
  <2>1. frames # <<>>
    BY <1>8 DEF CloseFor, InFrame
  <2>2. ShortIncs(AfterStmt(Front(frames)))
    BY <1>1, <2>1, ShortPop, ShortAfterStmt
  <2>3. QED
    BY <1>8, <2>2 DEF CloseFor
<1>9. ASSUME NEW init \in OptName, NEW inc \in OptName, OpenFor(init, inc)
      PROVE  ShortIncs(frames')
  <2> DEFINE is(es) == IF inc = NoName THEN <<>> ELSE <<[name |-> inc, sym |-> Found(es, inc)]>>
             f(es) == [NewFrame("for", Len(envs) + 1) EXCEPT !.inc = is(es)]
  <2>1. CASE frames' = frames
    BY <2>1
  <2>2. CASE \E es : frames' = Append(frames, f(es))
    <3>1. PICK es : frames' = Append(frames, f(es))
      BY <2>2
    <3>2. frames' \in Seq(Frame)
      BY <1>9, OpenForKeeps DEF SemaInv, SemaTypeOK
    <3>3. Len(is(es)) <= 1
      BY <1>2
    <3> HIDE DEF is
    <3>4. f(es).inc = is(es)
      BY DEF NewFrame
    <3> HIDE DEF f
    <3>5. /\ Len(frames') = Len(frames) + 1 /\ frames'[Len(frames) + 1] = f(es)
          /\ \A k \in 1 .. Len(frames) : frames'[k] = frames[k]
      BY <1>1, <3>1
    <3>6. \A k \in 1 .. Len(frames) + 1 : k \in 1 .. Len(frames) \/ k = Len(frames) + 1
      BY <1>1
    <3>7. QED
      BY <3>3, <3>4, <3>5, <3>6 DEF ShortIncs
  <2>3. QED
    BY <1>9, <2>1, <2>2 DEF OpenFor, Report
<1>10. ASSUME NEW n \in Names, NEW params \in ParamLists, FuncDefinition(n, params)
       PROVE  ShortIncs(frames')
  <2> DEFINE f == [NewFrame("func", Len(envs) + 1) EXCEPT !.name = n]
             k == NewFrame("block", Len(envs) + 2)
  <2>1. CASE frames' = frames
    BY <2>1
  <2>2. CASE frames' = <<f, k>>
    <3>1. f.inc = <<>> /\ k.inc = <<>>
      BY DEF NewFrame
    <3> HIDE DEF f, k
    <3>2. Len(<<f, k>>) = 2 /\ <<f, k>>[1] = f /\ <<f, k>>[2] = k
      OBVIOUS
    <3>3. \A i \in 1 .. 2 : i = 1 \/ i = 2
      OBVIOUS
    <3>4. QED
      BY <1>2, <2>2, <3>1, <3>2, <3>3 DEF ShortIncs
  <2>3. QED
    BY <1>10, <2>1, <2>2 DEF FuncDefinition, Report
<1>11. ASSUME FuncEnd PROVE ShortIncs(frames')
  <2>1. frames' = frames \/ frames' = <<>>
    BY <1>11 DEF FuncEnd, Report
  <2>2. QED
    BY <1>2, <2>1
<1>12. ASSUME NEW n \in Names,
              \/ TypedefDecl(n) \/ VarDecl(n) \/ Access(n)
              \/ \E init \in OptName, first \in BOOLEAN : GlobalDecl(n, init, first)
              \/ \E p \in Names : FuncPointerDecl(n, p)
              \/ \E params \in ParamLists : FuncPrototype(n, params)
       PROVE  frames' = frames \/ frames' = AfterStmt(frames)
  <2>1. ASSUME TypedefDecl(n) \/ VarDecl(n) \/ Access(n)
        PROVE  frames' = frames \/ frames' = AfterStmt(frames)
    BY <2>1 DEF TypedefDecl, VarDecl, Access, Report
  <2>2. ASSUME NEW init \in OptName, NEW first \in BOOLEAN, GlobalDecl(n, init, first)
        PROVE  frames' = frames
    BY <2>2 DEF GlobalDecl, Report
  <2>3. ASSUME NEW p \in Names, FuncPointerDecl(n, p)
        PROVE  frames' = frames \/ frames' = AfterStmt(frames)
    BY <2>3 DEF FuncPointerDecl, Report
  <2>4. ASSUME NEW params \in ParamLists, FuncPrototype(n, params)
        PROVE  frames' = frames
    BY <2>4 DEF FuncPrototype, Report
  <2>5. QED
    BY <1>12, <2>1, <2>2, <2>3, <2>4
<1>13. ASSUME Jump \/ EndOfInput PROVE frames' = frames \/ frames' = AfterStmt(frames)
  BY <1>13 DEF Jump, EndOfInput
<1>14. QED
  BY <1>3, <1>4, <1>5, <1>6, <1>7, <1>8, <1>9, <1>10, <1>11, <1>12, <1>13 DEF SemaNext

\* The access of a for's increment, visited after the body.
LEMMA TiedUseInc ==
  ASSUME NEW a, NEW fs, NEW es, NEW X, Tied(a, fs, es, X), fs # <<>>, fs[Len(fs)].kind = "for",
         NEW i \in 1 .. Len(fs[Len(fs)].inc),
         NEW d \in Node, d.kind = "use", d.depth = Len(fs),
         d.name = fs[Len(fs)].inc[i].name, d.sym = fs[Len(fs)].inc[i].sym
  PROVE  Tied(Append(a, d), fs, es, X)
<1>1. PICK gs, ls, rs, G, L : Ties(gs, ls, rs, G, L, a, fs, es, X)
  BY DEF Tied
<1>2. Sound(es, fs) => View(G, L, rs, es, fs, X)
  BY <1>1 DEF Ties
<1>3. Len(fs) \in Nat /\ Len(es) = fs[Len(fs)].height /\ fs \in Seq(Frame)
  BY TiedTop
<1>4. Len(fs) \in 1 .. Len(fs)
  BY <1>3
<1>5. Sound(es, fs) => FrameOK(G, L, rs[Len(fs)], es, fs[Len(fs)], X)
  BY <1>2, <1>4 DEF View
<1>6. Sound(es, fs) => IsObject(d.sym) /\ Inner(es, Len(es), d.name) = d.sym
  BY <1>3, <1>5 DEF FrameOK
<1>7. QED
  BY <1>6, TiedStay

\* The end of a for.
LEMMA CloseForLinks ==
  ASSUME SemaInv, Linked, ShortIncs(frames), CloseFor
  PROVE  Linked'
<1> DEFINE f == frames[Len(frames)]
           d == Mk("endfor", NoName, NoSymbol, Here - 1)
           u == IncNodes(f.inc)
           b == ast \o u
           q == path[2]
           X == LoopNamesIn(ast, q)
           es == ExitScope(envs)
<1>1. /\ frames # <<>> /\ f.kind = "for"
      /\ envs' = es /\ frames' = AfterStmt(Front(frames))
      /\ ast' = ast \o (u \o <<d>>)
      /\ path' = Front(path) /\ UNCHANGED declared
  BY DEF CloseFor, InFrame, Last
<1>2. /\ Tied(ast, frames, envs, X) /\ LoopsDeclared(ast, q, declared)
      /\ ast \in Seq(Node) /\ frames \in Seq(Frame) /\ envs \in Seq(Table)
      /\ path \in Seq(Nat) /\ Len(path) = Len(envs) /\ q \in Nat /\ Len(envs) \in Nat
      /\ Len(frames) \in Nat /\ Len(frames) >= 2 /\ WellNested(frames, Len(envs)) /\ Here = Len(frames)
  BY <1>1, LinkedInside
<1>3. Len(frames) > 2
  BY <1>1, <1>2 DEF WellNested
<1>4. Closes(frames, envs, es) /\ Front(path)[2] = q
  BY <1>1, <1>2, <1>3, ExitScopeCloses
<1>5. d \in Node /\ d.kind = "endfor" /\ d.depth = Len(frames) - 1
  BY <1>2, MkNameless, NoNameIsOptional
<1>6. Len(frames) \in 1 .. Len(frames)
  BY <1>2
<1>7. f \in Frame /\ Len(f.inc) <= 1
  BY <1>2, <1>6, ElementOfSeq DEF ShortIncs
<1>8. f.inc \in Seq([name : Names, sym : Symbol]) /\ Len(f.inc) \in Nat
  <2>1. f.inc \in Seq([name : Names, sym : Symbol])
    BY <1>7 DEF Frame
  <2>2. QED
    BY <2>1
<1> HIDE DEF d, es, X, q
<1>9. /\ b \in Seq(Node) /\ ast \o (u \o <<d>>) = Append(b, d)
      /\ Tied(b, frames, envs, LoopNamesIn(b, q)) /\ LoopsDeclared(b, q, declared)
  <2>1. CASE Len(f.inc) = 0
    <3>1. f.inc = <<>>
      BY <1>8, <2>1, EmptySeq
    <3> HIDE DEF f
    <3>2. u = <<>>
      BY <3>1 DEF IncNodes
    <3>3. b = ast /\ ast \o (u \o <<d>>) = Append(b, d)
      BY <1>2, <1>5, <3>2, ConcatOne
    <3>4. QED
      BY <1>2, <3>3 DEF X
  <2>2. CASE Len(f.inc) = 1
    <3> DEFINE v == Use(f.inc[1].name, f.inc[1].sym)
    <3>1. f.inc[1] \in [name : Names, sym : Symbol] /\ 1 \in 1 .. Len(f.inc)
      <4> HIDE DEF f
      <4>1. 1 \in 1 .. Len(f.inc)
        BY <1>8, <2>2
      <4>2. QED
        BY <1>8, <4>1, ElementOfSeq
    <3>2. /\ v \in Node /\ v.kind = "use" /\ v.depth = Len(frames)
          /\ v.name = f.inc[1].name /\ v.sym = f.inc[1].sym
      BY <1>2, <3>1, MkNamed DEF Use, Mk
    <3>3. u = <<v>>
      <4>1. DOMAIN f.inc = 1 .. 1
        BY <1>8, <2>2
      <4>2. u = [i \in 1 .. 1 |-> Use(f.inc[i].name, f.inc[i].sym)]
        BY <4>1 DEF IncNodes
      <4> HIDE DEF f, u
      <4>3. \A i \in 1 .. 1 : i = 1
        OBVIOUS
      <4>4. [i \in 1 .. 1 |-> Use(f.inc[i].name, f.inc[i].sym)] = <<v>>
        BY <4>3
      <4>5. QED
        BY <4>2, <4>4
    <3> HIDE DEF u, v
    <3>4. Tied(Append(ast, v), frames, envs, X)
      BY <1>1, <1>2, <3>1, <3>2, TiedUseInc
    <3>5. /\ Tied(Append(ast, v), frames, envs, LoopNamesIn(Append(ast, v), q))
          /\ LoopsDeclared(Append(ast, v), q, declared)
      BY <1>2, <3>2, <3>4, Relink DEF X
    <3>6. b = Append(ast, v) /\ Append(ast, v) \in Seq(Node)
      BY <1>2, <3>2, <3>3, AppendIsConcat
    <3>7. ast \o (u \o <<d>>) = Append(Append(ast, v), d)
      BY <1>2, <1>5, <3>2, <3>3, ConcatTwo
    <3>8. QED
      BY <3>5, <3>6, <3>7
  <2>3. QED
    BY <1>7, <1>8, <2>1, <2>2
<1> HIDE DEF b, u
<1>10. Tied(Append(b, d), Front(frames), es, LoopNamesIn(b, q))
  BY <1>1, <1>2, <1>4, <1>5, <1>9, TiedPop
<1>11. Tied(Append(b, d), AfterStmt(Front(frames)), es, LoopNamesIn(b, q))
  BY <1>10, TiedAfterStmt
<1>12. ast' = Append(b, d) /\ path'[2] = q /\ LoopsDeclared(b, q, declared')
       /\ Tied(Append(b, d), frames', envs', LoopNamesIn(b, q))
  BY <1>1, <1>4, <1>9, <1>11
<1>13. QED
  BY <1>2, <1>5, <1>9, <1>12, LinkedLast DEF q

-----------------------------------------------------------------------------
(* Every reachable state. *)

\* What holds while the program is parsed.
ParseInv == SemaInv /\ ShortIncs(frames) /\ Linked

\* Nothing has been parsed.
LEMMA SemaInit_ParseInv == SemaInit => ParseInv
<1> SUFFICES ASSUME SemaInit PROVE ParseInv
  OBVIOUS
<1>1. SemaInv
  BY SemaInit_SemaInv
<1>2. ShortIncs(frames)
  BY DEF SemaInit, ShortIncs
<1>3. Tied(<<>>, <<>>, <<EmptyTable>>, LoopNamesIn(ast, path[2]))
  BY TiedStart
<1>4. Linked
  BY <1>3 DEF SemaInit, Linked
<1>5. QED
  BY <1>1, <1>2, <1>4 DEF ParseInv

\* Every step of the parser keeps the nodes and the scopes tied.
LEMMA SemaNext_ParseInv == ParseInv /\ SemaNext => ParseInv'
<1> SUFFICES ASSUME ParseInv, SemaNext PROVE ParseInv'
  OBVIOUS
<1>0. SemaInv /\ ShortIncs(frames) /\ Linked
  BY DEF ParseInv
<1>1. ASSUME NEW n \in Names, NEW init \in OptName, NEW first \in BOOLEAN,
             GlobalDecl(n, init, first)
      PROVE  Linked'
  BY <1>0, <1>1, GlobalDeclLinks
<1>2. ASSUME NEW n \in Names, TypedefDecl(n) \/ VarDecl(n) \/ Access(n)
      PROVE  Linked'
  BY <1>0, <1>2, TypedefDeclLinks, VarDeclLinks, AccessLinks
<1>3. ASSUME NEW n \in Names, NEW p \in Names, FuncPointerDecl(n, p)
      PROVE  Linked'
  BY <1>0, <1>3, FuncPointerDeclLinks
<1>4. ASSUME NEW n \in Names, NEW params \in ParamLists,
             FuncPrototype(n, params) \/ FuncDefinition(n, params)
      PROVE  Linked'
  BY <1>0, <1>4, ParamListsType, FuncPrototypeLinks, FuncDefinitionLinks
<1>5. ASSUME NEW init \in OptName, NEW inc \in OptName, OpenFor(init, inc)
      PROVE  Linked'
  BY <1>0, <1>5, OpenForLinks
<1>6. ASSUME NEW switch \in BOOLEAN, OpenBlock(switch)
      PROVE  Linked'
  BY <1>0, <1>6, OpenBlockLinks
<1>7. ASSUME Jump \/ CaseLabel \/ CloseBlock \/ CloseFor \/ FuncEnd PROVE Linked'
  BY <1>0, <1>7, JumpLinks, CaseLabelLinks, CloseBlockLinks, CloseForLinks, FuncEndLinks
<1>8. ASSUME EndOfInput PROVE Linked'
  BY <1>0, <1>8, ReportLinks DEF EndOfInput
<1>9. Linked'
  BY <1>1, <1>2, <1>3, <1>4, <1>5, <1>6, <1>7, <1>8 DEF SemaNext
<1>10. SemaInv' /\ ShortIncs(frames')
  BY <1>0, SemaNext_SemaInv, SemaNext_ShortIncs
<1>11. QED
  BY <1>9, <1>10 DEF ParseInv

-----------------------------------------------------------------------------
(* CodeGen's visit. *)

\* The nodes a of a whole program: they have a visit, every jump in it leads to
\* the end of its construct, and, but for the shapes on which Sema and CodeGen
\* part ways, every access finds in it what Sema resolved it to.
Visitable(gs, ls, a) ==
    /\ a \in Seq(Node)
    /\ IsVisit(gs, ls, a)
    /\ \A i \in DOMAIN a : a[i].kind = "jump" => ClosedJump(gs, ls, a, i)
    /\ Parting \cap Shapes = {} => UsesOK(gs, ls, a)

\* CodeGen has the tables of this visit, but that after a jump the innermost
\* one, which the end of the construct removes, may lack what was skipped.
OnVisit(gs, ls) ==
    /\ pos \in 1 .. Len(nodes) + 1
    /\ globalVarMap = gs[pos]
    /\ localVarMap \in Seq(Table)
    /\ \/ localVarMap = ls[pos]
       \/ /\ pos \in DOMAIN nodes /\ nodes[pos].kind \in {"endblock", "endcase"}
          /\ Len(localVarMap) = Len(ls[pos]) /\ Len(localVarMap) >= 1
          /\ \A t \in 1 .. Len(localVarMap) - 1 : localVarMap[t] = ls[pos][t]

\* What holds while code is generated.
VisitInv ==
    /\ gen = "idle" => localVarMap = <<>> /\ globalVarMap = EmptyTable /\ loads = {}
    /\ gen = "visiting" => \E gs, ls : Visitable(gs, ls, nodes) /\ OnVisit(gs, ls)
    /\ Parting \cap Shapes = {} =>
         SameDeclaration /\ UsesHaveStorage /\ \A l \in loads : l[1] \in DOMAIN nodes

\* The AST of a whole program has a visit.
LEMMA ParsedIsVisitable ==
  ASSUME ParseInv, outcome = "parsed"
  PROVE  \E gs, ls : Visitable(gs, ls, ast)
<1>1. frames = <<>> /\ Tied(ast, frames, envs, LoopNamesIn(ast, path[2]))
  BY DEF ParseInv, SemaInv, FrameInv, Linked
<1>2. PICK gs, ls, rs, G, L : Ties(gs, ls, rs, G, L, ast, frames, envs, LoopNamesIn(ast, path[2]))
  BY <1>1 DEF Tied
<1>3. /\ Struct(gs, ls, rs, ast, frames, Len(envs), G, L)
      /\ Sound(envs, frames) => UsesOK(gs, ls, ast)
  BY <1>2 DEF Ties
<1>4. ast \in Seq(Node) /\ IsVisit(gs, ls, ast) /\ JumpsMatch(gs, ls, rs, ast, frames)
  BY <1>3 DEF Struct
<1>5. ASSUME NEW i \in DOMAIN ast, ast[i].kind = "jump"
      PROVE  ClosedJump(gs, ls, ast, i)
  <2>1. OpenJump(gs, ls, rs, ast, frames, i) \/ ClosedJump(gs, ls, ast, i)
    BY <1>4, <1>5 DEF JumpsMatch
  <2>2. Len(frames) = 0
    BY <1>1
  <2>3. ~OpenJump(gs, ls, rs, ast, frames, i)
    BY <2>2 DEF OpenJump
  <2>4. QED
    BY <2>1, <2>3
<1>6. Parting \cap Shapes = {} => UsesOK(gs, ls, ast)
  BY <1>1, <1>3 DEF Sound, Doomed
<1>7. Visitable(gs, ls, ast)
  BY <1>4, <1>5, <1>6 DEF Visitable
<1>8. QED
  BY <1>7

\* What a visit is at a node.
LEMMA VisitStep ==
  ASSUME NEW gs, NEW ls, Visitable(gs, ls, nodes), OnVisit(gs, ls), pos \in DOMAIN nodes
  PROVE  /\ nodes[pos] \in Node /\ pos \in Nat /\ pos + 1 \in 1 .. Len(nodes) + 1
         /\ gs[pos + 1] = GlobalAfter(nodes[pos], gs[pos])
         /\ ls[pos + 1] = LocalAfter(nodes[pos], ls[pos])
         /\ ls[pos] \in Seq(Table) /\ gs[pos] \in Table
         /\ nodes[pos].kind \notin {"endblock", "endcase"} => localVarMap = ls[pos]
<1>1. nodes \in Seq(Node) /\ DOMAIN nodes = 1 .. Len(nodes) /\ Len(nodes) \in Nat
  BY DEF Visitable
<1>2. nodes[pos] \in Node
  BY <1>1, ElementOfSeq
<1>3. pos \in 1 .. Len(nodes) + 1 /\ pos + 1 \in 1 .. Len(nodes) + 1 /\ pos \in Nat
  BY <1>1
<1>4. /\ gs \in Seq(Table) /\ ls \in Seq(Seq(Table))
      /\ Len(gs) = Len(nodes) + 1 /\ Len(ls) = Len(nodes) + 1
      /\ gs[pos + 1] = GlobalAfter(nodes[pos], gs[pos])
      /\ ls[pos + 1] = LocalAfter(nodes[pos], ls[pos])
  BY <1>1 DEF Visitable, IsVisit
<1>5. ls[pos] \in Seq(Table) /\ gs[pos] \in Table
  BY <1>3, <1>4, ElementOfSeq
<1>6. nodes[pos].kind \notin {"endblock", "endcase"} => localVarMap = ls[pos]
  BY DEF OnVisit
<1>7. QED
  BY <1>2, <1>3, <1>4, <1>5, <1>6

\* One node further on the visit.
LEMMA VisitOn ==
  ASSUME NEW gs, NEW ls, Visitable(gs, ls, nodes), OnVisit(gs, ls), pos \in DOMAIN nodes,
         pos' = pos + 1, nodes' = nodes,
         globalVarMap' = GlobalAfter(nodes[pos], globalVarMap),
         localVarMap' = LocalAfter(nodes[pos], ls[pos])
  PROVE  OnVisit(gs, ls)'
<1>1. /\ nodes[pos] \in Node /\ pos + 1 \in 1 .. Len(nodes) + 1
      /\ gs[pos + 1] = GlobalAfter(nodes[pos], gs[pos])
      /\ ls[pos + 1] = LocalAfter(nodes[pos], ls[pos])
      /\ ls[pos] \in Seq(Table) /\ gs[pos] \in Table
  BY VisitStep
<1>2. globalVarMap = gs[pos]
  BY DEF OnVisit
<1>3. localVarMap' \in Seq(Table)
  BY <1>1, EffectType
<1>4. QED
  BY <1>1, <1>2, <1>3 DEF OnVisit

\* The end of a block removes the table that a jump may have left incomplete.
LEMMA EndRemovesTable ==
  ASSUME NEW gs, NEW ls, Visitable(gs, ls, nodes), OnVisit(gs, ls), pos \in DOMAIN nodes
  PROVE  Front(localVarMap) = Front(ls[pos])
<1>1. CASE localVarMap = ls[pos]
  BY <1>1
<1>2. CASE /\ Len(localVarMap) = Len(ls[pos]) /\ Len(localVarMap) >= 1
           /\ \A t \in 1 .. Len(localVarMap) - 1 : localVarMap[t] = ls[pos][t]
  <2> DEFINE u == localVarMap
             v == ls[pos]
  <2>1. u \in Seq(Table) /\ v \in Seq(Table) /\ Len(u) \in Nat
    BY VisitStep DEF OnVisit
  <2>2. u # <<>> /\ v # <<>>
    BY <1>2, <2>1
  <2>3. /\ Front(u) \in Seq(Table) /\ Len(Front(u)) = Len(u) - 1
        /\ \A t \in 1 .. Len(u) - 1 : Front(u)[t] = u[t]
    BY <2>1, <2>2, FrontType
  <2>4. /\ Front(v) \in Seq(Table) /\ Len(Front(v)) = Len(v) - 1
        /\ \A t \in 1 .. Len(v) - 1 : Front(v)[t] = v[t]
    BY <2>1, <2>2, FrontType
  <2>5. Len(u) = Len(v) /\ \A t \in 1 .. Len(u) - 1 : u[t] = v[t]
    BY <1>2
  <2> HIDE DEF u, v
  <2>6. Len(Front(u)) = Len(Front(v)) /\ \A t \in 1 .. Len(Front(u)) : Front(u)[t] = Front(v)[t]
    BY <2>3, <2>4, <2>5
  <2>7. Front(u) = Front(v)
    BY <2>3, <2>4, <2>6, SeqEqual
  <2>8. QED
    BY <2>7 DEF u, v
<1>3. QED
  BY <1>1, <1>2 DEF OnVisit

\* The node that ends the construct of a jump is the only one that can.
LEMMA CloserIs ==
  ASSUME nodes \in Seq(Node), NEW i \in DOMAIN nodes, NEW c \in DOMAIN nodes, c > i,
         nodes[c].depth < nodes[i].depth,
         \A j \in i + 1 .. c - 1 : nodes[j].depth >= nodes[i].depth
  PROVE  CloserOf(i) = c
<1> DEFINE S == {j \in DOMAIN nodes : j > i /\ nodes[j].depth < nodes[i].depth}
<1>1. DOMAIN nodes = 1 .. Len(nodes) /\ Len(nodes) \in Nat
  OBVIOUS
<1>2. \A j \in DOMAIN nodes : nodes[j].depth \in Int
  <2>1. \A j \in DOMAIN nodes : nodes[j] \in Node
    BY <1>1, ElementOfSeq
  <2>2. QED
    BY <2>1 DEF Node
<1>3. c \in S
  OBVIOUS
<1>4. ASSUME NEW j \in S PROVE c <= j
  <2>1. j \in DOMAIN nodes /\ j > i /\ nodes[j].depth < nodes[i].depth
    OBVIOUS
  <2>2. j < c => j \in i + 1 .. c - 1
    BY <1>1, <2>1
  <2>3. j < c => nodes[j].depth >= nodes[i].depth
    BY <2>2
  <2>4. QED
    BY <1>1, <1>2, <2>1, <2>3
<1>5. \A x \in S : x = c \/ ~(\A y \in S : x <= y)
  <2> SUFFICES ASSUME NEW x \in S, \A y \in S : x <= y PROVE x = c
    OBVIOUS
  <2>1. x <= c /\ c <= x /\ x \in Nat /\ c \in Nat
    BY <1>1, <1>3, <1>4
  <2>2. QED
    BY <2>1
<1>6. c \in S /\ \A y \in S : c <= y
  BY <1>3, <1>4
<1> HIDE DEF S
<1>7. Min(S) = c
  BY <1>5, <1>6 DEF Min
<1>8. QED
  BY <1>7 DEF CloserOf, S

\* A jump goes on where the visit does.
LEMMA JumpOnVisit ==
  ASSUME NEW gs, NEW ls, Visitable(gs, ls, nodes), OnVisit(gs, ls), VisitJump
  PROVE  OnVisit(gs, ls)'
<1>1. /\ pos \in DOMAIN nodes /\ nodes[pos].kind = "jump"
      /\ UNCHANGED <<nodes, localVarMap, globalVarMap>>
  BY DEF VisitJump, Visiting
<1>2. localVarMap = ls[pos] /\ globalVarMap = gs[pos] /\ localVarMap \in Seq(Table)
  BY <1>1, VisitStep DEF OnVisit
<1>3. PICK c \in DOMAIN nodes :
        /\ c > pos /\ nodes[c].depth < nodes[pos].depth
        /\ \A j \in pos + 1 .. c - 1 : nodes[j].depth >= nodes[pos].depth
        /\ \/ nodes[c].kind = "endfor"
           \/ /\ nodes[c].kind \in {"endblock", "endcase"}
              /\ gs[c] = gs[pos] /\ Len(ls[c]) = Len(ls[pos]) /\ Len(ls[pos]) >= 1
              /\ \A t \in 1 .. Len(ls[pos]) - 1 : ls[pos][t] = ls[c][t]
  BY <1>1 DEF Visitable, ClosedJump
<1>4. nodes \in Seq(Node)
  BY DEF Visitable
<1>5. CloserOf(pos) = c
  BY <1>1, <1>3, <1>4, CloserIs
<1>6. CASE nodes[c].kind = "endfor"
  <2>1. pos' = pos + 1
    BY <1>5, <1>6 DEF VisitJump
  <2>2. GlobalAfter(nodes[pos], globalVarMap) = globalVarMap
    BY <1>1 DEF GlobalAfter
  <2>3. LocalAfter(nodes[pos], ls[pos]) = ls[pos]
    BY <1>1 DEF LocalAfter
  <2>4. QED
    BY <1>1, <1>2, <2>1, <2>2, <2>3, VisitOn
<1>7. CASE nodes[c].kind \in {"endblock", "endcase"}
  <2>1. pos' = c
    BY <1>5, <1>7 DEF VisitJump
  <2>2. c \in 1 .. Len(nodes) + 1
    BY <1>4
  <2>3. QED
    BY <1>1, <1>2, <1>3, <1>7, <2>1, <2>2 DEF OnVisit
<1>8. QED
  BY <1>3, <1>6, <1>7

\* Visiting a declaration, or the opening or end of a construct.
LEMMA NodeOnVisit ==
  ASSUME NEW gs, NEW ls, Visitable(gs, ls, nodes), OnVisit(gs, ls),
         \/ VisitGlobal \/ VisitFuncDecl \/ VisitFuncEnd \/ VisitBlock \/ VisitBlockEnd
         \/ VisitFor \/ VisitVariableDecl
  PROVE  OnVisit(gs, ls)' /\ loads' = loads /\ gen' = gen /\ nodes' = nodes
<1> DEFINE d == nodes[pos]
<1>1. pos \in DOMAIN nodes /\ pos' = pos + 1 /\ nodes' = nodes /\ loads' = loads /\ gen' = gen
  BY DEF VisitGlobal, VisitFuncDecl, VisitFuncEnd, VisitBlock, VisitBlockEnd,
         VisitFor, VisitVariableDecl, Visiting, Advance
<1>2. d.kind \notin {"endblock", "endcase"} => localVarMap = ls[pos]
  BY <1>1, VisitStep
<1>3. ASSUME VisitGlobal
      PROVE  globalVarMap' = GlobalAfter(d, globalVarMap) /\ localVarMap' = LocalAfter(d, ls[pos])
  <2>1. d.kind = "gvar"
    BY <1>3 DEF VisitGlobal, Visiting
  <2>2. globalVarMap' = Insert(globalVarMap, d.name, d.sym) /\ localVarMap' = localVarMap
    BY <1>3 DEF VisitGlobal, AddGlobalVarToMap
  <2>3. QED
    BY <1>2, <2>1, <2>2 DEF GlobalAfter, LocalAfter
<1>4. ASSUME VisitFuncDecl
      PROVE  globalVarMap' = GlobalAfter(d, globalVarMap) /\ localVarMap' = LocalAfter(d, ls[pos])
  <2>1. d.kind = "func"
    BY <1>4 DEF VisitFuncDecl, Visiting
  <2>2. globalVarMap' = GlobalAfter(d, globalVarMap)
    BY <1>4, <2>1 DEF VisitFuncDecl, AddGlobalVarToMap, GlobalAfter
  <2>3. localVarMap' = LocalAfter(d, ls[pos])
    BY <1>4, <2>1 DEF VisitFuncDecl, LocalAfter, ParamTable
  <2>4. QED
    BY <2>2, <2>3
<1>5. ASSUME VisitFuncEnd \/ VisitBlockEnd
      PROVE  globalVarMap' = GlobalAfter(d, globalVarMap) /\ localVarMap' = LocalAfter(d, ls[pos])
  <2>1. d.kind \in {"endfunc", "endblock", "endcase"}
    BY <1>5 DEF VisitFuncEnd, VisitBlockEnd, Visiting
  <2>2. globalVarMap' = globalVarMap /\ localVarMap' = Front(localVarMap)
    BY <1>5 DEF VisitFuncEnd, VisitBlockEnd, PopScope
  <2>3. Front(localVarMap) = Front(ls[pos])
    BY <1>1, EndRemovesTable
  <2>4. GlobalAfter(d, globalVarMap) = globalVarMap
    BY <2>1 DEF GlobalAfter
  <2>5. LocalAfter(d, ls[pos]) = Front(ls[pos])
    BY <2>1 DEF LocalAfter
  <2>6. QED
    BY <2>2, <2>3, <2>4, <2>5
<1>6. ASSUME VisitBlock
      PROVE  globalVarMap' = GlobalAfter(d, globalVarMap) /\ localVarMap' = LocalAfter(d, ls[pos])
  <2>1. d.kind \in {"block", "case"}
    BY <1>6 DEF VisitBlock, Visiting
  <2>2. globalVarMap' = globalVarMap /\ localVarMap' = Append(localVarMap, EmptyTable)
    BY <1>6 DEF VisitBlock, PushScope
  <2>3. QED
    BY <1>2, <2>1, <2>2 DEF GlobalAfter, LocalAfter
<1>7. ASSUME VisitFor
      PROVE  globalVarMap' = GlobalAfter(d, globalVarMap) /\ localVarMap' = LocalAfter(d, ls[pos])
  <2>1. d.kind \in {"for", "endfor"}
    BY <1>7 DEF VisitFor, Visiting
  <2>2. globalVarMap' = globalVarMap /\ localVarMap' = localVarMap
    BY <1>7 DEF VisitFor
  <2>3. QED
    BY <1>2, <2>1, <2>2 DEF GlobalAfter, LocalAfter
<1>8. ASSUME VisitVariableDecl
      PROVE  globalVarMap' = GlobalAfter(d, globalVarMap) /\ localVarMap' = LocalAfter(d, ls[pos])
  <2>1. d.kind = "var"
    BY <1>8 DEF VisitVariableDecl, Visiting
  <2>2. /\ globalVarMap' = globalVarMap
        /\ localVarMap' = [localVarMap EXCEPT ![Len(localVarMap)] = Insert(@, d.name, d.sym)]
    BY <1>8 DEF VisitVariableDecl, AddLocalVarToMap
  <2>3. localVarMap = ls[pos]
    BY <1>2, <2>1
  <2>4. QED
    BY <2>1, <2>2, <2>3 DEF GlobalAfter, LocalAfter
<1>9. OnVisit(gs, ls)'
  BY <1>1, <1>3, <1>4, <1>5, <1>6, <1>7, <1>8, VisitOn
<1>10. QED
  BY <1>1, <1>9

\* An access finds storage, and the one that Sema resolved it to.
LEMMA AccessOnVisit ==
  ASSUME NEW gs, NEW ls, Visitable(gs, ls, nodes), OnVisit(gs, ls), Visiting({"use"}),
         Parting \cap Shapes = {}
  PROVE  LET s == GetVarByName(nodes[pos].name)
         IN  s # NoSymbol /\ SameEntity(s, nodes[pos].sym)
<1> DEFINE d == nodes[pos]
<1>1. pos \in DOMAIN nodes /\ d.kind = "use"
  BY DEF Visiting
<1>2. localVarMap = ls[pos] /\ globalVarMap = gs[pos] /\ localVarMap \in Seq(Table)
  BY <1>1, VisitStep DEF OnVisit
<1>3. /\ IsObject(d.sym)
      /\ SameEntity(Storage(gs[pos], ls[pos], Len(ls[pos]), d.name), d.sym)
  BY <1>1 DEF Visitable, UsesOK
<1>4. GetVarByName(d.name) = Storage(globalVarMap, localVarMap, Len(localVarMap), d.name)
  BY <1>2, GetVarIsStorage
<1>5. SameEntity(GetVarByName(d.name), d.sym)
  BY <1>2, <1>3, <1>4
<1>6. GetVarByName(d.name) # NoSymbol
  BY <1>3, <1>5 DEF SameEntity, IsObject, NoSymbol
<1>7. QED
  BY <1>5, <1>6

\* Visiting an access.
LEMMA VisitVariableAccessKeepsVisit ==
  ASSUME VisitInv, gen = "visiting", VisitVariableAccess
  PROVE  VisitInv'
<1>1. PICK gs, ls : Visitable(gs, ls, nodes) /\ OnVisit(gs, ls)
  BY DEF VisitInv
<1> DEFINE d == nodes[pos]
           s == GetVarByName(d.name)
<1>2. /\ Visiting({"use"}) /\ pos \in DOMAIN nodes /\ d.kind = "use"
      /\ UNCHANGED <<localVarMap, globalVarMap>>
  BY DEF VisitVariableAccess, Visiting
<1>3. Parting \cap Shapes = {} => s # NoSymbol /\ SameEntity(s, d.sym)
  BY <1>1, <1>2, AccessOnVisit
<1>4. CASE s # NoSymbol /\ loads' = loads \cup {<<pos, s>>} /\ Advance
  <2>1. pos' = pos + 1 /\ nodes' = nodes /\ gen' = gen
    BY <1>4 DEF Advance
  <2>2. localVarMap = ls[pos]
    BY <1>1, <1>2, VisitStep
  <2>3. globalVarMap' = GlobalAfter(d, globalVarMap) /\ localVarMap' = LocalAfter(d, ls[pos])
    BY SMTT(60), <1>2, <2>2 DEF GlobalAfter, LocalAfter
  <2>4. OnVisit(gs, ls)'
    BY <1>1, <1>2, <2>1, <2>3, VisitOn
  <2>5. ASSUME Parting \cap Shapes = {}
        PROVE  /\ \A l \in loads' : l[1] \in DOMAIN nodes' /\ SameEntity(l[2], nodes'[l[1]].sym)
               /\ gen' # "aborted"
    <3>1. \A l \in loads : l[1] \in DOMAIN nodes /\ SameEntity(l[2], nodes[l[1]].sym)
      BY <2>5 DEF VisitInv, SameDeclaration
    <3>2. SameEntity(s, d.sym)
      BY <1>3, <2>5
    <3> HIDE DEF s
    <3>3. ASSUME NEW l \in loads'
          PROVE  l[1] \in DOMAIN nodes /\ SameEntity(l[2], nodes[l[1]].sym)
      <4>1. l \in loads \/ l = <<pos, s>>
        BY <1>4, <3>3
      <4>2. CASE l = <<pos, s>>
        <5>1. l[1] = pos /\ l[2] = s
          BY <4>2
        <5>2. QED
          BY <1>2, <3>2, <5>1
      <4>3. QED
        BY <3>1, <4>1, <4>2
    <3>4. gen' # "aborted"
      BY <2>1
    <3>5. QED
      BY <2>1, <3>3, <3>4
  <2>6. Visitable(gs, ls, nodes') /\ OnVisit(gs, ls)'
    BY <1>1, <2>1, <2>4
  <2>7. \E gs1, ls1 : Visitable(gs1, ls1, nodes') /\ OnVisit(gs1, ls1)'
    BY <2>6
  <2>8. gen' # "idle"
    BY <2>1
  <2>9. QED
    BY <2>5, <2>7, <2>8 DEF VisitInv, SameDeclaration, UsesHaveStorage
<1>5. CASE s = NoSymbol /\ gen' = "aborted" /\ UNCHANGED <<nodes, pos, loads>>
  <2>1. Parting \cap Shapes # {}
    BY <1>3, <1>5
  <2>2. QED
    BY <1>5, <2>1 DEF VisitInv
<1>6. QED
  BY <1>4, <1>5 DEF VisitVariableAccess

\* Every step of CodeGen keeps to the visit.
LEMMA VisitNext_VisitInv ==
  ASSUME VisitInv, VisitNext
  PROVE  VisitInv'
<1>1. gen = "visiting"
  BY DEF VisitNext, VisitGlobal, VisitFuncDecl, VisitFuncEnd, VisitBlock, VisitBlockEnd,
     VisitFor, VisitVariableDecl, VisitVariableAccess, VisitJump, VisitProgramEnd, Visiting
<1>2. PICK gs, ls : Visitable(gs, ls, nodes) /\ OnVisit(gs, ls)
  BY <1>1 DEF VisitInv
<1>3. CASE \/ VisitGlobal \/ VisitFuncDecl \/ VisitFuncEnd \/ VisitBlock \/ VisitBlockEnd
           \/ VisitFor \/ VisitVariableDecl \/ VisitJump
  <2>1. OnVisit(gs, ls)' /\ loads' = loads /\ gen' = gen /\ nodes' = nodes
    <3>1. CASE VisitJump
      BY <1>2, <3>1, JumpOnVisit DEF VisitJump
    <3>2. CASE ~VisitJump
      BY <1>2, <1>3, <3>2, NodeOnVisit
    <3>3. QED
      BY <3>1, <3>2
  <2>2. \E gs1, ls1 : Visitable(gs1, ls1, nodes') /\ OnVisit(gs1, ls1)'
    BY <1>2, <2>1
  <2>3. QED
    BY <1>1, <2>1, <2>2 DEF VisitInv, SameDeclaration, UsesHaveStorage
<1>4. CASE VisitVariableAccess
  BY <1>1, <1>4, VisitVariableAccessKeepsVisit
<1>5. CASE VisitProgramEnd
  <2>1. gen' = "done" /\ UNCHANGED <<nodes, loads>>
    BY <1>5 DEF VisitProgramEnd
  <2>2. QED
    BY <2>1 DEF VisitInv, SameDeclaration, UsesHaveStorage
<1>6. QED
  BY <1>3, <1>4, <1>5 DEF VisitNext

-----------------------------------------------------------------------------
(* A compilation. *)

\* The inductive invariant: types and scopes, the visit of the nodes parsed
\* so far, and CodeGen's place on the visit of the finished AST.
StorageInv == IInv /\ ParseInv /\ VisitInv

\* It holds at the start.
LEMMA Init_StorageInv == Init => StorageInv
<1> SUFFICES ASSUME Init PROVE StorageInv
  OBVIOUS
<1>1. VisitInv
  BY DEF Init, CodeGenInit, VisitInv, SameDeclaration, UsesHaveStorage
<1>2. ParseInv
  BY SemaInit_ParseInv DEF Init
<1>3. QED
  BY <1>1, <1>2, Init_IInv DEF StorageInv

\* CodeGen starts with empty tables.
LEMMA GenerateOnVisit ==
  ASSUME IInv, ParseInv, VisitInv, Generate
  PROVE  VisitInv'
<1>1. /\ outcome = "parsed" /\ gen = "idle" /\ gen' = "visiting" /\ nodes' = ast /\ pos' = 1
      /\ localVarMap' = <<>> /\ globalVarMap' = EmptyTable /\ loads' = {}
  BY DEF Generate, Start, VisitInv
<1>2. PICK gs, ls : Visitable(gs, ls, ast)
  BY <1>1, ParsedIsVisitable
<1>3. gs[1] = EmptyTable /\ ls[1] = <<>> /\ ast \in Seq(Node)
  BY <1>2 DEF Visitable, IsVisit
<1>4. 1 \in 1 .. Len(ast) + 1 /\ <<>> \in Seq(Table)
  BY <1>3
<1>5. OnVisit(gs, ls)'
  BY <1>1, <1>3, <1>4 DEF OnVisit
<1>6. \E gs1, ls1 : Visitable(gs1, ls1, nodes') /\ OnVisit(gs1, ls1)'
  BY <1>1, <1>2, <1>5
<1>7. QED
  BY <1>1, <1>6 DEF VisitInv, SameDeclaration, UsesHaveStorage

\* Every step keeps it.
LEMMA Next_StorageInv == StorageInv /\ [Next]_vars => StorageInv'
<1> SUFFICES ASSUME StorageInv, [Next]_vars PROVE StorageInv'
  OBVIOUS
<1>1. IInv /\ ParseInv /\ VisitInv /\ IInv'
  BY Next_IInv DEF StorageInv
<1>2. ASSUME UNCHANGED semaVars PROVE ParseInv'
  <2>1. Linked /\ ShortIncs(frames)
    BY <1>1 DEF ParseInv
  <2>2. UNCHANGED <<envs, frames, ast, declared, path>>
    BY <1>2 DEF semaVars
  <2>3. Linked' /\ ShortIncs(frames')
    BY <2>1, <2>2, ReportLinks
  <2>4. SemaInv'
    BY <1>1 DEF IInv, TypeOK, SemaInv
  <2>5. QED
    BY <2>3, <2>4 DEF ParseInv
<1>3. ASSUME UNCHANGED codeGenVars PROVE VisitInv'
  <2>1. ASSUME NEW gs, NEW ls, OnVisit(gs, ls) PROVE OnVisit(gs, ls)'
    BY <1>3, <2>1 DEF OnVisit, codeGenVars
  <2>2. QED
    BY <1>1, <1>3, <2>1 DEF VisitInv, codeGenVars, SameDeclaration, UsesHaveStorage
<1>4. CASE Parse
  BY <1>1, <1>3, <1>4, SemaNext_ParseInv DEF Parse, StorageInv
<1>5. CASE Generate
  BY <1>1, <1>2, <1>5, GenerateOnVisit DEF Generate, StorageInv
<1>6. CASE Visit
  BY <1>1, <1>2, <1>6, VisitNext_VisitInv DEF Visit, StorageInv
<1>7. CASE UNCHANGED vars
  BY <1>1, <1>2, <1>3, <1>7 DEF vars, StorageInv
<1>8. QED
  BY <1>4, <1>5, <1>6, <1>7 DEF Next, Terminated

\* It holds in every state.
LEMMA StorageInvHolds == Spec => []StorageInv
<1>1. Init => StorageInv
  BY Init_StorageInv
<1>2. StorageInv /\ [Next]_vars => StorageInv'
  BY Next_StorageInv
<1>3. QED
  BY <1>1, <1>2, PTL DEF Spec

\* In a program without the shapes on which Sema and CodeGen part ways, every
\* access loads from or stores to what the declaration it was resolved to
\* gave it: the tables of the two, filled and searched at different times,
\* agree at every access, whatever a jump left unvisited (codegen.cc:1161-1181
\* against scope.cc:40-53).
THEOREM StorageIsDeclared ==
  ASSUME Parting \cap Shapes = {}
  PROVE  Spec => []SameDeclaration
<1>1. StorageInv => SameDeclaration
  BY DEF StorageInv, VisitInv
<1>2. QED
  BY <1>1, StorageInvHolds, PTL

\* And there is such storage: the assertion of GetVarByName holds.
THEOREM StorageExists ==
  ASSUME Parting \cap Shapes = {}
  PROVE  Spec => []UsesHaveStorage
<1>1. StorageInv => UsesHaveStorage
  BY DEF StorageInv, VisitInv
<1>2. QED
  BY <1>1, StorageInvHolds, PTL

-----------------------------------------------------------------------------
(* The height of localVarMap. *)

\* The members of S before p.
Before(S, p) == {j \in S : j < p}

\* One place further there is at most one more.
LEMMA BeforeStep ==
  ASSUME NEW n \in Nat, NEW S \in SUBSET (1 .. n), NEW p \in 1 .. n
  PROVE  /\ Cardinality(Before(S, p)) \in Nat
         /\ Cardinality(Before(S, p + 1)) = Cardinality(Before(S, p)) + (IF p \in S THEN 1 ELSE 0)
<1>1. IsFiniteSet(1 .. n)
  BY FS_Interval
<1>2. Before(S, p) \subseteq 1 .. n
  BY DEF Before
<1>3. IsFiniteSet(Before(S, p))
  BY <1>1, <1>2, FS_Subset
<1>4. Cardinality(Before(S, p)) \in Nat
  BY <1>3, FS_CardinalityType
<1>5. CASE p \in S
  <2>1. Before(S, p + 1) = Before(S, p) \cup {p} /\ p \notin Before(S, p)
    <3>1. \A j \in S : j < p + 1 <=> (j < p \/ j = p)
      OBVIOUS
    <3>2. ~(p < p)
      OBVIOUS
    <3>3. QED
      BY <1>5, <3>1, <3>2, Zenon DEF Before
  <2>2. Cardinality(Before(S, p) \cup {p}) = Cardinality(Before(S, p)) + 1
    BY <1>3, <2>1, FS_AddElement
  <2>3. QED
    BY <1>4, <1>5, <2>1, <2>2
<1>6. CASE p \notin S
  <2>1. Before(S, p + 1) = Before(S, p)
    <3>1. \A j \in S : j < p + 1 <=> j < p
      BY <1>6
    <3>2. QED
      BY <3>1 DEF Before
  <2>2. QED
    BY <1>4, <1>6, <2>1
<1>7. QED
  BY <1>5, <1>6

\* The nodes of a that start a function's body, open a table or remove one.
BodiesOf(a) == {j \in DOMAIN a : a[j].kind = "func" /\ a[j].sym.body}

OpeningsOf(a) == {j \in DOMAIN a : a[j].kind \in {"block", "case"}}

EndsOf(a) == {j \in DOMAIN a : a[j].kind \in {"endfunc", "endblock", "endcase"}}

\* The height of localVarMap that counting them gives.
HeightOf(a, p) ==
    Cardinality(Before(BodiesOf(a), p)) + Cardinality(Before(OpeningsOf(a), p))
      - Cardinality(Before(EndsOf(a), p))

\* A visit has the height that counting gives.
LEMMA VisitHeight ==
  ASSUME NEW gs, NEW ls, NEW a \in Seq(Node), IsVisit(gs, ls, a), NEW q \in 1 .. Len(a) + 1
  PROVE  Len(ls[q]) = HeightOf(a, q)
<1>1. /\ Len(a) \in Nat /\ ls \in Seq(Seq(Table)) /\ Len(ls) = Len(a) + 1 /\ ls[1] = <<>>
      /\ \A p \in 1 .. Len(a) : Len(ls[p + 1]) = Len(ls[p]) + Pushes(a[p])
  <2>1. ls \in Seq(Seq(Table)) /\ Len(ls) = Len(a) + 1 /\ ls[1] = <<>>
    BY DEF IsVisit
  <2>2. \A p \in 1 .. Len(a) : Len(ls[p + 1]) = Len(ls[p]) + Pushes(a[p])
    BY DEF IsVisit
  <2>3. Len(a) \in Nat
    OBVIOUS
  <2>4. QED
    BY <2>1, <2>2, <2>3
<1>2. /\ BodiesOf(a) \in SUBSET (1 .. Len(a)) /\ OpeningsOf(a) \in SUBSET (1 .. Len(a))
      /\ EndsOf(a) \in SUBSET (1 .. Len(a))
  BY DEF BodiesOf, OpeningsOf, EndsOf
<1>3. Len(ls[1]) = HeightOf(a, 1)
  <2>1. \A S \in SUBSET (1 .. Len(a)) : Before(S, 1) = {}
    <3> SUFFICES ASSUME NEW S \in SUBSET (1 .. Len(a)), NEW j \in Before(S, 1) PROVE FALSE
      OBVIOUS
    <3>1. j \in S /\ j < 1
      BY DEF Before
    <3>2. QED
      BY <3>1
  <2>2. Cardinality({}) = 0
    BY FS_EmptySet
  <2>3. Len(<<>>) = 0
    OBVIOUS
  <2>4. QED
    <3>1. /\ Cardinality(Before(BodiesOf(a), 1)) = 0 /\ Cardinality(Before(OpeningsOf(a), 1)) = 0
          /\ Cardinality(Before(EndsOf(a), 1)) = 0
      BY <1>2, <2>1, <2>2
    <3>2. QED
      BY <1>1, <2>3, <3>1 DEF HeightOf
<1>4. ASSUME NEW p \in 1 .. Len(a), Len(ls[p]) = HeightOf(a, p)
      PROVE  Len(ls[p + 1]) = HeightOf(a, p + 1)
  <2> DEFINE B == Cardinality(Before(BodiesOf(a), p))
             O == Cardinality(Before(OpeningsOf(a), p))
             E == Cardinality(Before(EndsOf(a), p))
             b == IF p \in BodiesOf(a) THEN 1 ELSE 0
             o == IF p \in OpeningsOf(a) THEN 1 ELSE 0
             e == IF p \in EndsOf(a) THEN 1 ELSE 0
  <2>0. ASSUME NEW S \in SUBSET (1 .. Len(a))
        PROVE  /\ Cardinality(Before(S, p)) \in Nat
               /\ Cardinality(Before(S, p + 1)) =
                    Cardinality(Before(S, p)) + (IF p \in S THEN 1 ELSE 0)
    <3>1. PICK n : n = Len(a)
      OBVIOUS
    <3>2. n \in Nat /\ S \in SUBSET (1 .. n) /\ p \in 1 .. n
      BY <1>1, <3>1
    <3>3. QED
      BY <3>2, BeforeStep
  <2>1. B \in Nat /\ Cardinality(Before(BodiesOf(a), p + 1)) = B + b
    BY <1>2, <2>0
  <2>2. O \in Nat /\ Cardinality(Before(OpeningsOf(a), p + 1)) = O + o
    BY <1>2, <2>0
  <2>3. E \in Nat /\ Cardinality(Before(EndsOf(a), p + 1)) = E + e
    BY <1>2, <2>0
  <2>4. Pushes(a[p]) = b + o - e
    <3>1. p \in DOMAIN a
      BY <1>1
    <3>2. QED
      BY <3>1 DEF Pushes, BodiesOf, OpeningsOf, EndsOf
  <2>5. b \in Nat /\ o \in Nat /\ e \in Nat
    OBVIOUS
  <2>6. HeightOf(a, p) = B + O - E
    BY DEF HeightOf
  <2>7. HeightOf(a, p + 1) = (B + b) + (O + o) - (E + e)
    BY <2>1, <2>2, <2>3 DEF HeightOf
  <2>8. Len(ls[p + 1]) = Len(ls[p]) + (b + o - e)
    BY <1>1, <2>4
  <2> HIDE DEF B, O, E, b, o, e
  <2>9. QED
    BY <1>4, <2>1, <2>2, <2>3, <2>5, <2>6, <2>7, <2>8
<1> DEFINE Bad == {p \in 1 .. Len(a) + 1 : Len(ls[p]) # HeightOf(a, p)}
<1>5. SUFFICES ASSUME Bad # {} PROVE FALSE
  OBVIOUS
<1>6. PICK p \in Bad : \A x \in Bad : p <= x
  <2>1. Bad \in SUBSET Nat
    BY <1>1
  <2>2. QED
    BY <1>5, <2>1, NatMinimum
<1>7. p # 1
  BY <1>3
<1>8. p - 1 \in 1 .. Len(a) /\ p - 1 \in 1 .. Len(a) + 1 /\ p - 1 < p /\ (p - 1) + 1 = p
  BY <1>1, <1>7
<1>9. p - 1 \notin Bad
  BY <1>6, <1>8
<1>10. Len(ls[p - 1]) = HeightOf(a, p - 1)
  BY <1>8, <1>9
<1>11. Len(ls[p]) = HeightOf(a, p)
  BY <1>4, <1>8, <1>10
<1>12. QED
  BY <1>11

\* For every program, CodeGen's stack of tables has, at every node, the height
\* of the function and blocks it is in: a jump leaves no table behind and
\* PopScope never removes another block's.
THEOREM ScopesStayBalanced == Spec => []ScopesBalanced
<1>1. StorageInv => ScopesBalanced
  <2> SUFFICES ASSUME StorageInv, gen = "visiting"
               PROVE  Len(localVarMap) =
                        Cardinality({j \in DOMAIN nodes : j < pos /\ nodes[j].kind = "func"
                                                                   /\ nodes[j].sym.body})
                          + Opened(pos, {"block", "case"})
                          - Opened(pos, {"endfunc", "endblock", "endcase"})
    BY DEF ScopesBalanced
  <2>1. PICK gs, ls : Visitable(gs, ls, nodes) /\ OnVisit(gs, ls)
    BY DEF StorageInv, VisitInv
  <2>2. Len(localVarMap) = Len(ls[pos]) /\ pos \in 1 .. Len(nodes) + 1
    BY <2>1 DEF OnVisit
  <2>3. Len(ls[pos]) = HeightOf(nodes, pos)
    BY <2>1, <2>2, VisitHeight DEF Visitable
  <2>4. {j \in DOMAIN nodes : j < pos /\ nodes[j].kind = "func" /\ nodes[j].sym.body}
          = Before(BodiesOf(nodes), pos)
    BY DEF Before, BodiesOf
  <2>5. Opened(pos, {"block", "case"}) = Cardinality(Before(OpeningsOf(nodes), pos))
    <3>1. {j \in DOMAIN nodes : j < pos /\ nodes[j].kind \in {"block", "case"}}
            = Before(OpeningsOf(nodes), pos)
      BY DEF Before, OpeningsOf
    <3>2. QED
      BY <3>1 DEF Opened
  <2>6. Opened(pos, {"endfunc", "endblock", "endcase"}) = Cardinality(Before(EndsOf(nodes), pos))
    <3>1. {j \in DOMAIN nodes : j < pos /\ nodes[j].kind \in {"endfunc", "endblock", "endcase"}}
            = Before(EndsOf(nodes), pos)
      BY DEF Before, EndsOf
    <3>2. QED
      BY <3>1 DEF Opened
  <2>7. QED
    BY <2>2, <2>3, <2>4, <2>5, <2>6 DEF HeightOf
<1>2. QED
  BY <1>1, StorageInvHolds, PTL
=============================================================================
