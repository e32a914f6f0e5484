---------------------------- MODULE NameResolution ----------------------------
(***************************************************************************)
(* A compilation, as far as ordinary names go: main parses the whole       *)
(* program (SemaScopes), then hands the AST to CodeGen (CodeGenScopes).    *)
(***************************************************************************)
EXTENDS SemaScopes, CodeGenScopes

vars == <<semaVars, codeGenVars>>

Init == SemaInit /\ CodeGenInit

Parse == SemaNext /\ UNCHANGED codeGenVars

Generate ==
    /\ outcome = "parsed"
    /\ Start(ast)
    /\ UNCHANGED semaVars

Visit == VisitNext /\ UNCHANGED semaVars

\* The process has exited or aborted, or code generation is finished.
Terminated ==
    /\ outcome \in {"rejected", "crashed"} \/ gen \in {"done", "aborted"}
    /\ UNCHANGED vars

Next == Parse \/ Generate \/ Visit \/ Terminated

Spec == Init /\ [][Next]_vars

-----------------------------------------------------------------------------

SemaTypeOK ==
    /\ outcome \in {"parsing", "parsed", "rejected", "crashed"}
    /\ envs \in Seq(Table)
    /\ frames \in Seq(Frame)
    /\ ast \in Seq(Node)
    /\ declared \in Seq([name : Names, sym : Symbol, path : Seq(Nat)])
    /\ path \in Seq(Nat)

CodeGenTypeOK ==
    /\ nodes \in Seq(Node)
    /\ pos \in Nat
    /\ localVarMap \in Seq(Table)
    /\ globalVarMap \in Table
    /\ loads \subseteq Nat \X Symbol
    /\ gen \in {"idle", "visiting", "done", "aborted"}

\* Every variable has its type.
TypeOK == SemaTypeOK /\ CodeGenTypeOK

-----------------------------------------------------------------------------

SameEntity(s, t) == s.kind = t.kind /\ s.decl = t.decl

\* Sema's symbol table and CodeGen's two tables are kept apart and filled at
\* different times; still, every access loads from the storage of the very
\* declaration Sema resolved it to (and took its type from).
SameDeclaration ==
    \A l \in loads : SameEntity(l[2], nodes[l[1]].sym)

\* Every name CodeGen looks up has storage: the assert of GetVarByName
\* (codegen.cc:1179) holds.
UsesHaveStorage == gen # "aborted"

\* The scope that C says is searched: of the declarations of n so far, those
\* in a scope that is still open (its path is a prefix of the current one),
\* the innermost.
Enclosing(n) ==
    {i \in DOMAIN declared : declared[i].name = n /\ IsPrefix(declared[i].path, path)}

Visible(n) ==
    LET E == Enclosing(n)
        depth == Max({Len(declared[i].path) : i \in E})
    IN  IF E = {} THEN NoSymbol
        ELSE declared[CHOOSE i \in E : Len(declared[i].path) = depth].sym

\* Whatever was declared, opened and closed before, Sema's lookup finds the
\* innermost declaration in an enclosing scope, and nothing from a closed one.
LookupIsLexical ==
    outcome = "parsing" =>
      \A n \in Names : SameEntity(FindObjSymbol(envs, n), Visible(n))

\* A program that Sema accepts declares no name twice in a scope, functions
\* excepted, whichever constructs separate the two declarations.
NoRedeclaration ==
    \A i, j \in DOMAIN declared :
      i # j /\ declared[i].name = declared[j].name /\ declared[i].path = declared[j].path
        => declared[i].sym.kind = "func" /\ declared[j].sym.kind = "func"

\* A program that Sema accepts defines no function twice.
DefinedOnce ==
    outcome = "parsed" =>
      \A i, j \in DOMAIN ast :
        /\ ast[i].kind = "func" /\ ast[i].sym.body
        /\ ast[j].kind = "func" /\ ast[j].sym.body
        /\ ast[i].name = ast[j].name
        => i = j

\* CodeGen's table stack has the height of the blocks it is in, whatever part
\* of a block a jump left unvisited: PopScope never finds it empty, and no
\* table outlives its block.
Opened(i, kinds) == Cardinality({j \in DOMAIN nodes : j < i /\ nodes[j].kind \in kinds})

ScopesBalanced ==
    gen = "visiting" =>
      LET bodies == {j \in DOMAIN nodes : j < pos /\ nodes[j].kind = "func"
                                                  /\ nodes[j].sym.body}
      IN  Len(localVarMap) =
            Cardinality(bodies) + Opened(pos, {"block", "case"})
              - Opened(pos, {"endfunc", "endblock", "endcase"})

\* ExitScope never removes the file scope, and between two external
\* declarations it is the only one open.
FileScopeStays ==
    /\ envs # <<>>
    /\ frames = <<>> => Len(envs) = 1

-----------------------------------------------------------------------------
(* The inductive invariant behind TypeOK and FileScopeStays. *)

\* The open constructs are a function, its body, and in it any nesting of
\* blocks, loops and labels; all but the labels have a scope of their own, and
\* the innermost is h scopes deep.
WellNested(fs, h) ==
    /\ Len(fs) >= 2
    /\ fs[1].kind = "func" /\ fs[1].height = 2 /\ fs[1].name \in Names
    /\ fs[2].kind = "block"
    /\ fs[Len(fs)].height = h
    /\ \A i \in 2 .. Len(fs) :
         /\ fs[i].kind # "func" /\ fs[i].height > 2
         /\ fs[i].height = fs[i - 1].height + (IF fs[i].kind = "case" THEN 0 ELSE 1)
         /\ fs[i].kind = "case" => fs[i - 1].kind = "block"

\* There is a scope, and an identity, for every open construct that has one.
FrameInv ==
    /\ envs # <<>> /\ Len(path) = Len(envs)
    /\ outcome = "parsed" => frames = <<>>
    /\ IF frames = <<>> THEN Len(envs) = 1 ELSE WellNested(frames, Len(envs))

\* Every node lies in a construct that is still open or is followed by the
\* node that closes it; a jump lies in some construct.
ClosedInv ==
    \A i \in DOMAIN ast :
      /\ \/ ast[i].depth <= Len(frames)
         \/ \E j \in DOMAIN ast : j > i /\ ast[j].depth < ast[i].depth
      /\ ast[i].kind = "jump" => ast[i].depth >= 1

\* CodeGen starts when the parser is done and never changes the AST.
HandoffInv ==
    /\ gen # "idle" => outcome = "parsed" /\ nodes = ast
    /\ gen = "idle" => nodes = <<>>

IInv == TypeOK /\ FrameInv /\ ClosedInv /\ HandoffInv

=============================================================================
