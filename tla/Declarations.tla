---------------------------- MODULE Declarations ----------------------------
(***************************************************************************)
(* The parser of external declarations: ParseProgram, IsFuncDecl,          *)
(* ParseFuncDecl, ParseDeclStmt, ParseDeclSpec and the declarators, over   *)
(* the tokens of a text.                                                   *)
(*                                                                         *)
(* The functions call each other recursively and twice read ahead: to see  *)
(* whether a declaration is a function's, and to find the suffix behind a  *)
(* parenthesised declarator before the declarator itself.  Reading ahead   *)
(* is the same code in Sema's Skip mode; the lexer's position and the      *)
(* current token are put back behind it.  `control` is the parser's call   *)
(* stack: a frame is where a function continues and its locals.            *)
(*                                                                         *)
(* An array suffix with its size and a function's body are one token each, *)
(* and an initialiser is `= 0`; tags are the subject of module Records.    *)
(***************************************************************************)
EXTENDS DeclSpec, TypeLayers, SequencesExt

CONSTANTS
    Names,      \* the identifiers
    Texts       \* the texts that are parsed

ASSUME TextsAssumption ==
    \A t \in Texts : \A i \in DOMAIN t : t[i] = "struct" => i < Len(t) /\ t[i+1] = "{"

VARIABLES
    text,
    tok,        \* Parser::tok, as its place in the text
    lexed,      \* Lexer::BufPtr: the place of the token NextToken reads
    saved,      \* Lexer::stateStack
    modes,      \* Sema::modeStack
    envs,       \* Scope::envs: what each open scope declares
    control,    \* the frames of the calls, the innermost last
    ret,        \* what the last call returned
    usertypeIs, \* the type ParseDeclSpec's usertype points to
    program,    \* Program::externalDecls and the typedefs, in order
    ahead,      \* history: what reading ahead returned
    outcome     \* "parsing", "accepted", "rejected" or "crashed"

lexerVars == <<tok, lexed, saved>>
semaVars == <<modes, envs>>
rest == <<text, usertypeIs, program, ahead, outcome, specVars>>
vars == <<lexerVars, semaVars, control, ret, rest>>

-----------------------------------------------------------------------------
(* Tokens *)

Eof == "eof"

Tok == IF tok <= Len(text) THEN text[tok] ELSE Eof

After(place) == IF place > Len(text) THEN place ELSE place + 1

Advance == tok' = lexed /\ lexed' = After(lexed) /\ UNCHANGED saved

SaveState == saved' = Append(saved, lexed)

\* RestoreState, and the current token that the caller kept.
RestoreLexerOnly(begin) == lexed' = Last(saved) /\ saved' = Front(saved) /\ tok' = tok

RestoreState(begin) == lexed' = Last(saved) /\ saved' = Front(saved) /\ tok' = begin

-----------------------------------------------------------------------------
(* Calls *)

Frame == Last(control)

At(place) == outcome = "parsing" /\ Frame.at = place

\* The running function continues, or calls, with these frames.
Continue(frames) == control' = Front(control) \o frames

Return(value) == control' = Front(control) /\ ret' = value

\* The same without any other effect, after the current token is consumed or
\* without a look at it.
ConsumeAnd(frames) == Advance /\ Continue(frames) /\ UNCHANGED <<semaVars, ret, rest>>
ConsumeAndReturn(value) == Advance /\ Return(value) /\ UNCHANGED <<semaVars, rest>>
Just(frames) == Continue(frames) /\ UNCHANGED <<lexerVars, semaVars, ret, rest>>
JustReturn(value) == Return(value) /\ UNCHANGED <<lexerVars, semaVars, rest>>

\* Report prints a diagnostic and exits.
Stop(how) ==
    /\ outcome' = how
    /\ UNCHANGED <<text, lexerVars, semaVars, control, ret, usertypeIs, program, ahead, specVars>>

Report == Stop("rejected")

ExpectWaits(token, frames) ==
    \/ Tok = token /\ ConsumeAnd(frames)
    \/ Tok # token /\ Just(<<Frame>>)

Expect(token, frames) ==
    \/ Tok = token /\ ConsumeAnd(frames)
    \/ Tok # token /\ Report

\* What a call returns: a type, a variable or declarations.
NoName == "{"
Variable(name, type) == [name |-> name, type |-> type, nodes |-> <<>>]
Type(type) == Variable(NoName, type)
Nodes(nodes) == [name |-> NoName, type |-> <<>>, nodes |-> nodes]

ParseDeclSpecFrame == [at |-> "ParseDeclSpec"]
DeclaratorFrame(base) == [at |-> "Declarator", base |-> base]
SuffixFrame(base) == [at |-> "DirectDeclaratorSuffix", base |-> base, arrays |-> FALSE]

-----------------------------------------------------------------------------
(* Sema *)

Mode == Last(modes)

SetMode(mode) == modes' = Append(modes, mode)

UnSetMode == modes' = Front(modes)

EmptyEnv == [name \in {} |-> 0]

Symbol(as, type, body) == [as |-> as, type |-> type, body |-> body]

FindInCurEnv(name) == name \in DOMAIN Last(envs)

Declared(name) == \E i \in DOMAIN envs : name \in DOMAIN envs[i]

FindObjSymbol(name) == envs[Max({i \in DOMAIN envs : name \in DOMAIN envs[i]})][name]

SemaTypedefAccess(name) == Declared(name) /\ FindObjSymbol(name).as = "typedef"

\* StringMap::insert keeps an entry that is already there.
DeclareAlways(mode, stack, name, symbol) ==
    [stack EXCEPT ![Len(stack)] = @ @@ (name :> symbol)]

Declare(mode, stack, name, symbol) ==
    IF mode = "Normal" THEN [stack EXCEPT ![Len(stack)] = @ @@ (name :> symbol)] ELSE stack

\* SemaTypedefDecl, in this mode and these environments; ret is the declarator.
RedefinesTypedef(mode, stack) == mode = "Normal" /\ ret.name \in DOMAIN Last(stack)

-----------------------------------------------------------------------------
(* ParseProgram and IsFuncDecl *)

Init ==
    /\ text \in Texts
    /\ tok = 1 /\ lexed = After(1) /\ saved = <<>>
    /\ modes = <<"Normal">>
    /\ envs = <<EmptyEnv>>
    /\ control = <<[at |-> "ParseProgram"]>>
    /\ ret = Nodes(<<>>) /\ ahead = Nodes(<<>>)
    /\ usertypeIs = <<>>
    /\ program = <<>>
    /\ outcome = "parsing"
    /\ StartSpec

EndProgram ==
    /\ At("ParseProgram")
    /\ Tok = Eof
    /\ Stop("accepted")

ParseProgram ==
    /\ At("ParseProgram")
    /\ Tok # Eof
    /\ SetMode("Skip")
    /\ SaveState
    /\ Continue(<<Frame, [at |-> "ReadAhead", begin |-> tok], ParseDeclSpecFrame>>)
    /\ BeginSpec
    /\ UNCHANGED <<text, tok, lexed, envs, ret, usertypeIs, program, ahead, outcome>>

\* IsFuncDecl after the specifiers: a declarator, unless there is none.
ReadAhead ==
    /\ At("ReadAhead")
    /\ Just(<<[Frame EXCEPT !.at = "IsFuncDecl"]>>
            \o IF Tok = ";" THEN <<>> ELSE <<DeclaratorFrame(ret.type)>>)

\* A function, a pointer to one, a pointer to such a pointer and so on.
IsFuncTypeNode(type) ==
    \E i \in DOMAIN type :
        /\ type[i][1] = "function"
        /\ \A j \in 1..(i-1) : type[j][1] = "pointer"

\* The end of IsFuncDecl: everything is put back, and the declaration is parsed
\* as what it was found to be.
IsFuncDecl ==
    /\ At("IsFuncDecl")
    /\ RestoreState(Frame.begin)
    /\ UnSetMode
    /\ LET parse == IF IsFuncTypeNode(ret.type) /\ ret.name # NoName
                    THEN "ParseFuncDecl" ELSE "ParseDeclStmt"
       IN  Continue(<<[at |-> "AddExternal"], [at |-> parse], ParseDeclSpecFrame>>)
    /\ BeginSpec
    /\ ahead' = ret
    /\ UNCHANGED <<text, envs, ret, usertypeIs, program, outcome>>

AddExternal ==
    /\ At("AddExternal")
    /\ program' = program \o ret.nodes
    /\ Continue(<<>>)
    /\ UNCHANGED <<text, lexerVars, semaVars, ret, usertypeIs, ahead, outcome, specVars>>

-----------------------------------------------------------------------------
(* ParseFuncDecl *)

Node(as) == [name |-> ret.name, type |-> ret.type, as |-> as]

ParseFuncDecl ==
    /\ At("ParseFuncDecl")
    /\ envs' = Append(envs, EmptyEnv)
    /\ Continue(<<[at |-> "FuncDeclarator", typedef |-> sclass = "typedef"], DeclaratorFrame(ret.type)>>)
    /\ UNCHANGED <<lexerVars, modes, ret, rest>>

\* typedef, with a function's declarator: ends at the semicolon.
FuncTypedef ==
    /\ At("FuncDeclarator")
    /\ Frame.typedef
    /\ IF Tok # ";" \/ RedefinesTypedef(Mode, Front(envs)) THEN Report
       ELSE /\ Advance
            /\ envs' = Declare(Mode, Front(envs), ret.name, Symbol("typedef", ret.type, FALSE))
            /\ Return(Nodes(<<Node("typedef")>>))
            /\ UNCHANGED <<modes, rest>>

\* A prototype ends at the semicolon, a definition after its body; then
\* SemaFuncDecl, whose cast gives no function type for a pointer.
FuncDeclaration ==
    /\ At("FuncDeclarator")
    /\ ~Frame.typedef
    /\ LET file == Front(envs)
           body == Tok = "{}"
           symbol == Last(file)[ret.name]
           redefined == /\ ret.name \in DOMAIN Last(file)
                        /\ IsFuncType(symbol.type) => symbol.body /\ body
       IN  IF Tok \notin {";", "{}"} THEN Report
           ELSE IF ~IsFuncType(ret.type) THEN Stop("crashed")
           ELSE IF redefined THEN Report
           ELSE /\ Advance
                /\ envs' = Declare(Mode, file, ret.name, Symbol("object", ret.type, body))
                /\ Return(Nodes(<<Node("function")>>))
                /\ UNCHANGED <<modes, rest>>

-----------------------------------------------------------------------------
(* ParseDeclStmt *)

\* A declaration without a declarator returns no node, and neither does a
\* typedef, whose names are kept here for `program`.
ParseDeclStmt ==
    /\ At("ParseDeclStmt")
    /\ \/ Tok = ";" /\ ConsumeAndReturn(Nodes(<<>>))
       \/ Tok # ";" /\ Just(<<[at |-> "Declarators", base |-> ret.type, nodes |-> <<>>,
                               typedef |-> sclass = "typedef"]>>)

\* A typedef's declarator is parsed in Skip mode and its name declared after.
CallDeclarator ==
    /\ Continue(<<[Frame EXCEPT !.at = "AddDeclarator"], DeclaratorFrame(Frame.base)>>)
    /\ IF Frame.typedef THEN SetMode("Skip") ELSE UNCHANGED modes
    /\ UNCHANGED <<envs, ret, rest>>

\* The list ends at the semicolon or goes on behind a comma.
Declarators ==
    /\ At("Declarators")
    /\ \/ Frame.nodes = <<>> /\ CallDeclarator /\ UNCHANGED lexerVars
       \/ Frame.nodes # <<>> /\ Tok = "," /\ Advance /\ CallDeclarator
       \/ Frame.nodes # <<>> /\ Tok = ";" /\ ConsumeAndReturn(Nodes(Frame.nodes))
       \/ Frame.nodes # <<>> /\ Tok \notin {",", ";"} /\ Report

AddDeclarator ==
    /\ At("AddDeclarator")
    /\ LET mode == Last(Front(modes))
           As(as) == Continue(<<[Frame EXCEPT !.at = "Declarators", !.nodes = Append(@, Node(as))]>>)
       IN  IF ~Frame.typedef
           THEN As("object") /\ UNCHANGED <<lexerVars, semaVars, ret, rest>>
           ELSE IF RedefinesTypedef(mode, envs) THEN Report
           ELSE /\ UnSetMode
                /\ envs' = Declare(mode, envs, ret.name, Symbol("typedef", ret.type, FALSE))
                /\ As("typedef")
                /\ UNCHANGED <<lexerVars, ret, rest>>

-----------------------------------------------------------------------------
(* ParseDeclSpec *)

\* The specifier that the current token is.
Specifier ==
    CASE Tok \in Names /\ SemaTypedefAccess(Tok) -> "typename"
      [] Tok = "struct" -> "record"
      [] OTHER -> Tok

IsSpecifier ==
    /\ Specifier \in Keywords
    /\ Specifier = "typename" => kind = Unused /\ usertype = Unused

\* ParseDeclSpec goes on, or has reported an error.
Reading == outcome' = IF status' \in {"rejected", "undefined"} THEN "rejected" ELSE outcome

ReadSpecifier ==
    /\ At("ParseDeclSpec")
    /\ IsSpecifier
    /\ Specifier = "record" => usertype # Unused
    /\ ReadKeyword(Specifier)
    /\ usertypeIs' = IF Specifier = "typename" THEN FindObjSymbol(Tok).type ELSE usertypeIs
    /\ Advance
    /\ Reading
    /\ UNCHANGED <<text, semaVars, control, ret, program, ahead>>

\* The end of the text behind a specifier is an assertion.
EndOfInput ==
    /\ At("ParseDeclSpec")
    /\ Tok = Eof
    /\ Stop(IF NothingRead THEN "rejected" ELSE "crashed")

EndSpecifiers ==
    /\ At("ParseDeclSpec")
    /\ ~IsSpecifier /\ Tok # Eof
    /\ EndSpec(Mode = "Normal" /\ Tok \in Names /\ ~Declared(Tok))
    /\ Return(Type(IF usertype = Unused THEN Basic(DeclaredType) ELSE usertypeIs))
    /\ Reading
    /\ UNCHANGED <<text, lexerVars, semaVars, usertypeIs, program, ahead>>

-----------------------------------------------------------------------------
(* ParseStructOrUnionSpec, of a record without a tag *)

\* Its tag is the token behind `struct`.
NoTag == "{"

ParseStructOrUnionSpec ==
    /\ At("ParseDeclSpec")
    /\ Tok = "struct" /\ usertype = Unused
    /\ ConsumeAnd(<<Frame, [at |-> "Record", locals |-> <<kind, size, sig, sclass, counts>>]>>)

\* Unlike the other checks, the one of the tag is made in Skip mode too.
OpenRecord ==
    /\ At("Record")
    /\ IF FindInCurEnv(NoTag) THEN Report
       ELSE /\ Advance
            /\ envs' = Append(Declare(Mode, envs, NoTag, Symbol("tag", <<>>, FALSE)), EmptyEnv)
            /\ Continue(<<[at |-> "Members", locals |-> Frame.locals, members |-> <<>>]>>)
            /\ UNCHANGED <<modes, ret, rest>>

ParseMember ==
    /\ At("Members")
    /\ Tok # "}"
    /\ Continue(<<[Frame EXCEPT !.at = "AddMembers"], [at |-> "ParseDeclStmt"], ParseDeclSpecFrame>>)
    /\ BeginSpec
    /\ UNCHANGED <<text, lexerVars, semaVars, ret, usertypeIs, program, ahead, outcome>>

\* The loop dereferences the node of the declaration.
AddMembers ==
    /\ At("AddMembers")
    /\ IF \A n \in ToSet(ret.nodes) : n.as = "typedef" THEN Stop("crashed")
       ELSE Just(<<[Frame EXCEPT !.at = "Members",
                                 !.members = @ \o [i \in DOMAIN ret.nodes |-> ret.nodes[i].type]]>>)

\* Back in the ParseDeclSpec that read `struct`, with the record as usertype.
CloseRecord ==
    /\ At("Members")
    /\ Tok = "}"
    /\ Advance
    /\ envs' = Front(envs)
    /\ usertypeIs' = Record(Frame.members)
    /\ LET l == Frame.locals
       IN  /\ kind' = l[1] /\ size' = l[2] /\ sig' = l[3] /\ sclass' = l[4]
           /\ usertype' = "record"
           /\ counts' = [l[5] EXCEPT !["record"] = @ + 1]
           /\ status' = IF Clash(l[1], l[2], l[3], "record") THEN "rejected" ELSE "reading"
    /\ Continue(<<>>)
    /\ Reading
    /\ UNCHANGED <<text, modes, ret, program, ahead>>

-----------------------------------------------------------------------------
(* Declarator and DirectDeclarator *)

Star ==
    /\ At("Declarator")
    /\ Tok = "*"
    /\ ConsumeAnd(<<DeclaratorFrame(Pointer(Frame.base))>>)

OpenOnce ==
    /\ At("Declarator")
    /\ Tok = "("
    /\ IF Mode = "Skip" THEN ConsumeAnd(<<[at |-> "Close"], DeclaratorFrame(Frame.base)>>)
       ELSE /\ SaveState
            /\ SetMode("Skip")
            /\ tok' = lexed /\ lexed' = After(lexed)
            /\ Continue(<<[at |-> "Skipped", base |-> Frame.base, begin |-> tok], DeclaratorFrame(Basic("Int"))>>)
            /\ UNCHANGED <<envs, ret, rest>>

\* At a parenthesis what it encloses is skipped with int for its type ...
Open ==
    /\ At("Declarator")
    /\ Tok = "("
    /\ SaveState
    /\ SetMode("Skip")
    /\ tok' = lexed /\ lexed' = After(lexed)
    /\ Continue(<<[at |-> "Skipped", base |-> Frame.base, begin |-> tok], DeclaratorFrame(Basic("Int"))>>)
    /\ UNCHANGED <<envs, ret, rest>>

\* ... to read the suffix behind it, which makes the type it has to have ...
Skipped ==
    /\ At("Skipped")
    /\ Expect(")", <<[at |-> "Reopen", begin |-> Frame.begin], SuffixFrame(Frame.base)>>)

\* ... then it is parsed with that type ...
Reopen ==
    /\ At("Reopen")
    /\ RestoreState(Frame.begin)
    /\ UnSetMode
    /\ Continue(<<[at |-> "Parenthesis"]>>)
    /\ UNCHANGED <<envs, ret, rest>>

Parenthesis ==
    /\ At("Parenthesis")
    /\ Expect("(", <<[at |-> "Close"], DeclaratorFrame(ret.type)>>)

\* ... and the suffix is read once more, for nothing, in the mode of the caller.
Close ==
    /\ At("Close")
    /\ Expect(")", <<[at |-> "Initializer", node |-> ret], SuffixFrame(Basic("Int"))>>)

Identifier ==
    /\ At("Declarator")
    /\ Tok \in Names
    /\ ConsumeAnd(<<[at |-> "Variable", name |-> Tok], SuffixFrame(Frame.base)>>)

NoDeclarator ==
    /\ At("Declarator")
    /\ Tok \notin Names \cup {"*", "("}
    /\ Report

SemaVariableDeclNode ==
    /\ At("Variable")
    /\ IF Mode = "Normal" /\ FindInCurEnv(Frame.name) THEN Report
       ELSE /\ envs' = Declare(Mode, envs, Frame.name, Symbol("object", ret.type, FALSE))
            /\ Continue(<<[at |-> "Initializer", node |-> Variable(Frame.name, ret.type)]>>)
            /\ UNCHANGED <<lexerVars, modes, ret, rest>>

\* An initialiser may follow every direct declarator.
Initializer ==
    /\ At("Initializer")
    /\ \/ Tok # "=" /\ JustReturn(Frame.node)
       \/ Tok = "=" /\ ConsumeAnd(<<[Frame EXCEPT !.at = "InitValue"]>>)

InitValue ==
    /\ At("InitValue")
    /\ \/ Tok = "0" /\ ConsumeAndReturn(Frame.node)
       \/ Tok # "0" /\ Report

-----------------------------------------------------------------------------
(* DirectDeclaratorSuffix *)

\* DirectDeclaratorArraySuffix calls itself for the next dimension.
ArraySuffix ==
    /\ At("DirectDeclaratorSuffix")
    /\ Tok \in Sizes
    /\ ConsumeAnd(<<[at |-> "Array", dimension |-> Tok], [Frame EXCEPT !.arrays = TRUE]>>)

MakeArray ==
    /\ At("Array")
    /\ JustReturn(Type(ArrayOf(Frame.dimension, ret.type)))

FuncSuffix ==
    /\ At("DirectDeclaratorSuffix")
    /\ Tok = "(" /\ ~Frame.arrays
    /\ ConsumeAnd(<<[at |-> "Params", base |-> Frame.base, params |-> <<>>]>>)

NoSuffix ==
    /\ At("DirectDeclaratorSuffix")
    /\ Tok \notin Sizes /\ (Tok = "(" => Frame.arrays)
    /\ JustReturn(Type(Frame.base))

\* A comma may come before every parameter but the first.
Params ==
    /\ At("Params")
    /\ Tok # ")"
    /\ IF Tok = "," /\ Frame.params # <<>>
       THEN ConsumeAnd(<<[Frame EXCEPT !.at = "NextParam"]>>)
       ELSE Just(<<[Frame EXCEPT !.at = "NextParam"]>>)

\* void and ... end the list.
LastParam ==
    /\ At("NextParam")
    /\ Tok = "void" \/ (Tok = "..." /\ Frame.params # <<>>)
    /\ ConsumeAnd(<<[Frame EXCEPT !.at = "EndParams",
                                  !.params = IF Tok = "void" THEN @ ELSE Append(@, Basic("..."))]>>)

NextParam ==
    /\ At("NextParam")
    /\ Tok # "void" /\ (Tok = "..." => Frame.params = <<>>)
    /\ Continue(<<[Frame EXCEPT !.at = "AddParam"], [at |-> "ParamDeclarator"], ParseDeclSpecFrame>>)
    /\ BeginSpec
    /\ UNCHANGED <<text, lexerVars, semaVars, ret, usertypeIs, program, ahead, outcome>>

ParamDeclarator ==
    /\ At("ParamDeclarator")
    /\ Just(<<DeclaratorFrame(ret.type)>>)

\* An array becomes a pointer to the array.
ParamType(type) == IF Outermost(type) \in Sizes THEN Pointer(type) ELSE type

AddParam ==
    /\ At("AddParam")
    /\ Just(<<[Frame EXCEPT !.at = "Params", !.params = Append(@, ParamType(ret.type))]>>)

EndParams ==
    \/ /\ At("Params") \/ At("EndParams")
       /\ Tok = ")"
       /\ ConsumeAndReturn(Type(Function(Frame.params, Frame.base)))
    \/ /\ At("EndParams")
       /\ Tok # ")"
       /\ Report

-----------------------------------------------------------------------------

Step ==
    \/ ParseProgram \/ EndProgram \/ ReadAhead \/ IsFuncDecl \/ AddExternal
    \/ ParseFuncDecl \/ FuncTypedef \/ FuncDeclaration
    \/ ParseDeclStmt \/ Declarators \/ AddDeclarator
    \/ ReadSpecifier \/ EndOfInput \/ EndSpecifiers
    \/ ParseStructOrUnionSpec \/ OpenRecord \/ ParseMember \/ AddMembers \/ CloseRecord
    \/ Star \/ Open \/ Skipped \/ Reopen \/ Parenthesis \/ Close
    \/ Identifier \/ NoDeclarator \/ SemaVariableDeclNode \/ Initializer \/ InitValue
    \/ ArraySuffix \/ MakeArray \/ FuncSuffix \/ NoSuffix
    \/ Params \/ LastParam \/ NextParam \/ ParamDeclarator \/ AddParam \/ EndParams

\* The compiler goes on, or has exited.
Done == outcome # "parsing" /\ UNCHANGED vars

Next == Step \/ Done

\* One thread runs the compiler, and nothing it does here waits.
Spec == Init /\ [][Next]_vars /\ WF_vars(Step)

-----------------------------------------------------------------------------
(* Properties *)

\* The lexer is always one token ahead of the parser, also where a position is
\* restored: the next Advance reads the token behind the current one.
OneAhead == lexed = After(tok)

\* Between two external declarations nothing is left of the one before: no place
\* to go back to, Sema's mode is the first one, and only the scope of the file
\* is open.
NothingLeft ==
    At("ParseProgram") => saved = <<>> /\ modes = <<"Normal">> /\ Len(envs) = 1

\* The lexer and Sema are in step with the parser, whatever was read ahead.
InStep == OneAhead /\ NothingLeft

\* Reading ahead sees the declaration that is made afterwards: the first
\* declarator has the name and the type that IsFuncDecl found, although the
\* first reading looked names up in Skip mode and declared none.
SeenIsDeclared ==
    \/ At("FuncDeclarator")
    \/ At("AddDeclarator") /\ Frame.nodes = <<>> /\ Len(control) = 3
    => ret = ahead

\* Every text is read to an end.
Terminates == <>(outcome # "parsing")

=============================================================================
