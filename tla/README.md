# Verification of subc-llvm

subc-llvm is a compiler for a subset of C: it reads one file, builds an AST with
a hand-written parser and semantic analysis, walks the AST to build an LLVM
module, and has LLVM emit assembly.  This directory holds TLA+ models of it, the
TLC runs that check them, and TLAPS proofs.  The compiler is sequential, so what
is hard to test is not timing but state: several components keep tables, stacks
and maps of their own about the same program, fill them at different moments,
and must still agree after any sequence of declarations and statements.

## The system

| part | files | state | operations |
|---|---|---|---|
| Lexer | lexer.h, lexer.cc | BufPtr, LineHeadPtr, BufEnd, row, stateStack | NextToken, SaveState, RestoreState |
| Parser | parser.h, parser.cc | tok, breakNodes, continueNodes, switchNodes | ParseProgram and one function per construct |
| Sema | sema.h, sema.cc | modeStack (Normal, Skip), scope | Sema...Node, one per node; EnterScope, ExitScope, SetMode, UnSetMode |
| Scope | scope.h, scope.cc | envs: a stack of object and tag tables | Find..., Add..., EnterScope, ExitScope |
| Types | type.h, type.cc | shared, mutable CType objects, the index of anonymous records | SetMembers, SetElementCount, layout |
| Constant evaluation | eval_constant.h, .cc | none | Eval |
| CodeGen | codegen.h, codegen.cc | the builder's insert point, curFunc, breakBBs, continueBBs, switchStack, localVarMap, globalVarMap | Visit..., one per node |
| Diagnostics | diag_engine.h, .cc, diag.inc | none | Report: print and exit(0) |
| Driver | main.cc | none | parse everything, generate everything, verify, emit |
| Printer | print_visitor.h, .cc | none | prints the AST |

The parser calls Sema for every node, Sema calls Scope, all of them share CType
objects; CodeGen starts when the whole program is parsed and gets nothing but
the AST.  The AST has the type of an access but no link to its declaration, so
CodeGen resolves every name again.  Every error is fatal (`Report` exits), so
there are no error paths to recover from; lookahead is done by parsing in Skip
mode and rewinding the lexer.

What makes the parts correct, and what is hard about it:

* **Names.** Sema's lookup must be lexical, report redeclarations, and end every
  construct with the scopes it began with; CodeGen, with other tables, pushed
  and filled at other moments, must find the same declaration.
* **Control flow.** Jumps bind to the innermost loop or switch through three
  stacks of the parser and two maps of CodeGen; every basic block must end in
  exactly one branch although each statement only sees the block the builder
  happens to be in.
* **Records.** Layout is computed once from member types that may be completed
  later; tags have scopes, the LLVM types named after them have none.
* **Lookahead.** The parser reads the declarator of every external declaration
  twice, and the suffix behind a parenthesised declarator before what is inside:
  the lexer, the current token and the modes must be put back, and the second
  reading must find what the first found.
* **Declaration specifiers.** Keywords in any order are sorted into five
  enumerations, each checked against what came before.
* **Tokens.** Every turn of the lexer's loop must get further; a saved place must
  come back with its line; the type of a number depends on value, base and suffix.
* **Initialisers.** One list of offsets is shared by all levels of a recursion, and
  CodeGen reads its copies in two ways, one for constants and one for stores.
* **Types and constants.** Widths of mixed operations, the value of a
  comparison, sizeof and array bounds.

## Modules

| module | models | state | actions |
|---|---|---|---|
| `Scope` | scope.h, scope.cc (object symbols) | none: operators on a stack of tables | |
| `SemaScopes` | parser.cc and sema.cc, names and scopes | `outcome envs frames ast` and the histories `declared path` | one per external declaration, statement, opening or end of a construct |
| `CodeGenScopes` | codegen.cc, names and storage | `nodes pos localVarMap globalVarMap gen` and the history `loads` | one per node visited |
| `NameResolution` | main.cc: parse, then generate | both of the above | `Parse`, `Generate`, `Visit` |
| `MCNameResolution` | the symmetry set for TLC | | |
| `StackLemmas`, `NameResolutionProofs` | proofs | | |
| `Statements` | parser.cc, statements | `open next breakNodes continueNodes switchNodes defaultStmts ast` | one per simple statement, opening or end of a compound one |
| `ControlFlow` | codegen.cc, basic blocks | `ir locals breakBBs continueBBs switchStack` | one per segment of a Visit function between visits of sub-statements |
| `StructuredFlow` | what C says of the flow through a tree of statements | none: the reference | |
| `FlowTranslation` | parse, then generate, one function | both of the above | |
| `FlowProofs`, `WellFormedProofs` | proofs | | |
| `Records` | type.cc, and the struct and union specifiers of parser.cc and sema.cc | `outcome envs records frames spec layout ast` and the histories `mentions opened shapes` | one per specifier, brace, declarator, access or block, and one per round of the layout loop |
| `RecordTypes` | codegen.cc, VisitRecordType and member accesses | `gen pos structs stack` and the history `geps` | one per type or member visited |
| `RecordTranslation`, `MCRecordTranslation` | parse, then generate; the constants for TLC | both of the above | |
| `RecordProofs` | proofs | | |
| `IntegerTypes` | type.cc, the integer types; what the operators do to numbers | none | |
| `CExpressions` | what C says of the type and value of an expression | none: the reference | |
| `EvalConstant` | eval_constant.cc | none: one operator per visitor | |
| `ValueGenerator` | codegen.cc, casts and operators | none: one operator per visitor or cast | |
| `Expressions` | parser.cc, sema.cc, lexer.cc (types of numbers): expressions and the statements that use them | `operands nodes phase site` | one per kind of expression, one per kind of statement, one per visit of it |
| `ExpressionMeaning`, `MCExpressionMeaning` | properties; numbers and variables for TLC | | |
| `ExpressionProofs` | proofs | | |
| `Specifiers`, `DeclSpec` | parser.cc, ParseDeclSpec; what C says of a set of specifiers | `kind size sig sclass usertype status` and the history `counts` | one per group of keywords |
| `TypeLayers` | type.h: types as sequences of layers | none | |
| `Declarations` | parser.cc, sema.cc, scope.cc: external declarations, declarators, reading ahead | `tok lexed saved modes envs control ret program outcome` and the history `ahead` | one per piece of a function between two calls |
| `CDeclarations` | what C says of the declarations of a text | none: the reference | |
| `OnePass` | a parser that reads everything once | `program outcome`: the abstract specification | `DeclareExternal`, `Finish` |
| `MCDeclarations` | the texts, and `OnePass` with `Declarations`' variables | | |
| `DeclarationProofs` | proofs | | |
| `Characters`, `Lexer` | lexer.cc, character by character | `BufPtr LineHeadPtr row stateStack tok phase outcome` and the client's `begins` | the three calls of the client, a turn of the loop, one per kind of token |
| `CTokens` | what C says of the tokens of a text | none: the reference | |
| `TokenStream` | a mark that moves over a row of tokens | `tok saved outcome`: the abstract specification | `Read`, `Save`, `Restore` |
| `MCLexer` | the buffers, and the refinement mapping | | |
| `LexerProofs` | proofs | | |
| `ObjectTypes`, `Initializers` | parser.cc, ParseInitializer; codegen.cc, VisitVariableDecl | `stack offsetList initValues count pos objects` and what they belong to | one per piece of a call, one per object translated |
| `CInitializers` | what C says of an initialiser | none: the reference | |
| `InitializerMeaning`, `MCInitializers` | properties; the types and texts for TLC | | |

### Names: Scope, SemaScopes, CodeGenScopes, NameResolution

`frames` is the parser's call stack (ParseFuncDecl, ParseBlockStmt, ParseForStmt,
ParseCaseStmt), `envs` is `Scope::envs`.  An action of `SemaScopes` is what the
parser and Sema do for one declaration, statement, brace or label, including the
`Report` that ends the compilation.  `if`, `while` and `do` open no scope and
are visited in source order, so for names they are the sequence of their parts.
Types are left out: a symbol is its kind, the declaration that made it and, for
a function, `hasBody`.  `ast` lists the nodes in the order CodeGen visits them,
which differs from the order of parsing for the increment of a `for` (visited
after the body) and a global's initialiser (visited before the global is
entered).  `CodeGenScopes` visits the nodes one by one with its own tables:
`Insert` keeps an entry that is there, as `StringMap::insert` does.

A case or default wraps the statements up to the next label in a BlockStmt for
which CodeGen pushes a table and the parser opened no scope; a `for` is the other
way round.  These, and five more source shapes on which the two resolutions
part ways, are listed in `AllShapes`.  The constant `Shapes` says which of them
the programs of a run may contain; every other program of the bounds is in.

### Control flow: Statements, ControlFlow, StructuredFlow, FlowTranslation

`open` is the parser's call stack; `next` is what the parser has already learnt
of the current token, which is how a dangling else binds to the innermost if and
how a section ends only before a label or a closing brace.  Null statements
leave no node, as in the code.  `ir` is the function under construction: all
blocks created, the order in which they were inserted, and the insert point.
Each Visit function is split where it visits sub-statements; `locals` holds the
blocks its activation keeps in between.  Instructions carry the node they
evaluate, so that the finished blocks can be compared with `StructuredFlow`,
which defines by recursion over the tree, without basic blocks, what is
evaluated first and what may be evaluated after each node.

`AllShapes` of `FlowTranslation` again lists the programs that are known to be
translated wrongly; `ShapesAreExact` checks that it lists exactly those, among
the programs of up to four statements of every kind.

### Records: Records, RecordTypes, RecordTranslation

The programs are one function body: record specifiers with and without a tag,
bodies, members, variables by value and by pointer, nested blocks and member
accesses.  A declaration is read in pieces, because what the parser does with a
tag it does before it has seen what follows it: `TagSpec` looks the tag up in
all scopes, and a brace or a semicolon after it changes nothing of that.
`frames` holds the open blocks and bodies, for each of which Sema opens a scope.
CType objects are shared by pointer, so a type refers to a record by its index in
`records`: completing a record changes every type that refers to it, while the
layout of a record that contains it was computed before.  `layout` is the state of
the loop in UpdateStructOffset and UpdateUnionOffset, one action per round, so
that the loop's invariant is a formula about states.

`RecordTypes` is VisitRecordType with its recursion as a stack: the LLVM struct
is created under the record's tag, its members are visited, its body is set.
`LlvmLayout` is what LLVM's data layout makes of the bodies (external code).
`DeclarationOf` is what C says about which mention declares the tag of another;
a mention keeps the blocks it stands in, and whether it is a declaration.

Shapes: an object or a member of a record without members (`incomplete`), a
second body for a record (`redefined`), a tag of an outer block declared anew
(`innerTag`) or made inside a body (`bodyTag`), two records of one tag
(`sameTag`), a member of unknown size (`flexible`), a union whose largest member
is not the most aligned (`padded`) or that never gets members (`opaqueUnion`).
The properties on tags exclude `innerTag` and `bodyTag`; those on LLVM types are
checked of programs that have no others than these two.

### Expressions: IntegerTypes, CExpressions, EvalConstant, ValueGenerator, Expressions

A constant of a program is evaluated twice, by EvalConstant for the parser and by
CodeGen with LLVM's constant folding, and its type is decided twice, by Sema and
by the widths of LLVM values; every decision has its own code.  `operands` is
what the functions of the expression parser hold: each node has the type Sema
gave it (`ty`), the value by EvalConstant (`const`), the LLVM value of CodeGen
(`ir`: its width, its value, and whether it is folded) and C's type and value
(`ref`).  All four depend only on the node's parts, so they are computed when it
is made.  A finished expression becomes an array bound, a case label, a condition
or the right side of a store; in the first two the parser uses `const`, in the
last three CodeGen uses `ir`.

Words are small: char, short, int and long have `CharWidth` to `LongWidth` bits,
in the order of the real widths, while sizes in bytes are the real ones.
Undefined behaviour of C is a node with `defined` FALSE, LLVM's is `poison`, an
overflow in the compiler's own int64_t is `undefined`; an instruction whose
operands LLVM does not accept is `broken`, and a visitor that returns nullptr
yields `none`.

`shapes` of a node lists the ways of writing in it that the compiler treats
otherwise than C:

| shape | what is done |
|---|---|
| unsigned | every extension is a sign extension, every division and comparison signed |
| truth | a comparison is an i1, and extended as operand, stored value or label it is -1 |
| wideLeft, wideShift | a left operand wider than the right, or a shift by a wider count: the instruction has operands of two types |
| comma | CodeGen returns the value of neither operand |
| semaType | an operand whose Sema type is not C's: Sema takes the left operand's |
| narrowBranch | ?: of char or short keeps their width |
| sizeof | an int instead of a size_t; the evaluator divides bytes by 8 |
| unevaluated | the evaluator computes the operand that C does not |
| branch | &&, \|\| and ?: are phis, never a ConstantInt, also in a case label |
| narrowSwitch, narrowStore, wideStore, notInt | a switch on, an op-assign to, a step of a variable that is not an int is done at another width |

The properties compare `ir` and `const` with `ref` for the nodes without the
shapes that concern the reader in question; `NeverCrashes` adds that the
compiler never refuses its own output for such expressions even where their value
is undefined.

### Declarations: DeclSpec, Declarations, CDeclarations, OnePass

A text is a sequence of tokens: keywords, names, brackets; an array suffix with
its size, a function's body and the `0` of an initialiser are one token each (they
are the subjects of Expressions, Statements and Initializers), and records have no
tag (tags are in Records).  `control` is the parser's call stack: a frame says
where its function goes on and holds its locals.  IsFuncDecl pushes Skip, saves
the lexer, calls the same functions and puts back what it saved; so does
DirectDeclarator for the suffix behind a parenthesis, which it reads three times.
A failed `Expect` or a `Report` ends the parse (`rejected`); a null that is used
ends it as `crashed`.  Asserts are in the build, as in the build files' debug
configuration; in a release build `assert(Consume(...))` (parser.cc:568, 589) would
not consume the comma.

`OnePass` is what this amounts to: `program` grows by the nodes of one external
declaration after the other, as C reads them.  `Implements` is the refinement
under the identity on the three shared variables; it leaves open what happens to
a text with one of the shapes in `Oddities`.  Each of them is needed: without it
`Implements` fails.  `InStep` relates the parts while they run: the lexer is one token
ahead of the parser, also where a place is gone back to (`OneAhead`), and what has to
come in pairs does: between two external declarations no place is saved, Sema's mode
is the first and only the file's scope is open (`NothingLeft`).  `SeenIsDeclared`
compares what reading ahead returned with the declarator that is read after it.

The shapes, and what the code does:

| shape | what is done |
|---|---|
| noKind | `long a;`, `static x;` for an undeclared name: taken for a typedef name and reported as undefined (sema.cc:517) |
| functionPointer | `int (*f)(int a);` at file scope is taken for a function (parser.cc:1343) and cast to one: null (sema.cc:435) |
| functionInList | a function among the declarators of a list: its declaration ends there, or it becomes an object |
| functionTypedef, secondBody | a typedef'd function name may be declared as a function; two bodies after a prototype |
| paramsLeak | the third pass over a suffix (parser.cc:400) enters parameters in the current scope |
| arrayParam | an array parameter becomes a pointer to the array (parser.cc:355) |
| underived | functions that return functions or arrays, arrays of functions are accepted |
| missingComma, lateVoid, strayInit | commas between parameters are optional, `, void` ends them, an initialiser is read after any declarator |
| bareMember, typedefMember | a member without a declarator or with typedef: a null or a wrong node is used (parser.cc:281) |
| twoRecords | the second record without a tag in a scope is a redefinition: the brace is taken for the tag of both (parser.cc:267) |
| emptyRecord, sameNames | a record without members, two parameters or members of one name are accepted |
| cutSpecifiers | a text that ends in specifiers hits assert(0) (parser.cc:135) |
| implicitInt and the shapes of `Specifiers` | `static x`, `long long char`, `unsigned float` and the like are accepted, some in one order only |

### Lexer: Lexer, CTokens, TokenStream

The buffer is a sequence of characters.  A call of NextToken is `NextToken`, then
one `Skip` per turn of the loop over white space and comments, then the action of
the token's kind.  The client calls NextToken, SaveState and RestoreState in any
order, keeps a token with each saved place, as every caller in parser.cc does, and
reads no further than the end.  The loops inside a literal, a number or a word are
operators.  int has `IntBits`, long `LongBits` bits: a number that needs more is as
far from the limits as in the real widths.

`CTokens` reads the same characters by C's rule: after white space and comments the
longest piece that is a token.  `TokenStream` is a mark on a row of such tokens.
The refinement maps `tok` to the fields that a token's type has (`Seen`), so what
a token leaves from the one before is no difference unless it is read: the high
word of a character constant is read.

Shapes: the character after `*/` is taken with the comment; `/*/` is a comment;
an unterminated comment is the end; raw new lines in literals; a literal cut off by
the end or by a backslash at the end is read past the buffer (`overrun`); `'''`;
numeric and unknown escapes are their letter; the size of a string literal counts
characters before escapes are decoded; a character constant keeps the high word of
the number before it (lexer.cc:290); `08` and `1f` are floating; hexadecimal
floating numbers without an exponent; `0x0x1`; numbers beyond the types; LL has type
long; `_` ends a number; `goto`, `enum`, `restrict` are identifiers; `#` and digraphs
are unknown.  Each has a text in the run that fails `Implements` without it.

### Initialisers: ObjectTypes, Initializers, CInitializers

`stack` is the call stack of ParseInitializer, `offsetList` the list all calls share,
`initValues` the copies in the AST.  A global is read twice, because IsFuncDecl reads
the whole declarator with its initialiser; a typedef'd type keeps the element count
that the first reading set, a declarator of its own makes the type anew.  CodeGen
turns a global into one constant (`InitialValue`, which asks for the value of each
part by its offsets) and a local into one store per value (`StoreEach`).  An object
in memory is a set of values at byte offsets, which makes the two comparable with
C's meaning of the initialiser whatever the way there.

Shapes: a comma after a full list or a braced string is rejected; commas between
elements are optional; braces left out of a nested list; a scalar in braces; gaps in
a local object stay undefined, and a single value is stored at the object's start;
a missing char in a global gets an i32 and the constant has another type than the
object (crash); a double in a global loses its value; a union whose first member is
no scalar or is not the member LLVM's type is made of; a typedef'd flexible array
keeps its first length; a string is accepted for a scalar.

## Runs

| run | bounds | what it shows |
|---|---|---|
| names_blocks | 2 names, 8 nodes, one function | `SameDeclaration`, `UsesHaveStorage`: for nested blocks, loops, labels and jumps CodeGen loads from the storage of the declaration Sema found |
| names_externals | 2 names, 6 nodes, 3 external declarations, a typedef, a parameter | `UsesHaveStorage` across globals, prototypes and definitions; `DefinedOnce` |
| names_shapes | 2 names, 6 nodes, 2 externals, all shapes | `TypeOK`, `LookupIsLexical`, `NoRedeclaration`, `ScopesBalanced` hold of every program |
| flow_switch | 6 statements, no shapes | `WellFormed`, `FlowIsStructured` for switches, loops, conditionals and jumps |
| flow_shapes | 4 statements of every kind, all shapes | `TypeOK`, `JumpsBindInnermost`, `ShapesAreExact` |
| records_tags | 2 tags, 3 mentions, 3 records of 2 members, 2 blocks or bodies, all shapes but `flexible` | `TypeOK`, `TagsNameTypes`: specifiers name the types C says; `LayoutIsRight`: SetMembers lays out every record with complete members as C prescribes |
| records_llvm | the same with 2 records, 2 variables or accesses and two sizes of members; shapes `innerTag`, `bodyTag` | `LayoutStays`, `StructsMatch`, `LayoutsAgree`, `AccessesHit`, `NeverCrashes`: the layout computed early still holds at the end, and the LLVM structs have it |
| expr_values | 5 nodes over 9 numbers and 6 variables, widths 3, 4, 5 and 7, all shapes of expressions | `TypeOK`, `ValuesAreRight`, `ConstantsAreRight`, `BoundsAreRight`, `LabelsMatch`, `StatementsAreRight`, `NeverCrashes` |
| declarations | 4381 texts: declarators of up to three layers around a name, alone and in eleven surroundings, the same with any one token missing, lists of up to five keywords, records, two or three declarations of one name | `TypeIsRight`, `RejectionIsRight`: specifiers in any order; `InStep`, `SeenIsDeclared`: reading ahead; `Implements`: `OnePass`; `Terminates` |
| lexer | 3880 buffers: all of four characters of comments, all of two or three characters of operators and numbers, pieces of literals, integers around every limit with every suffix; two saved places; int of 4 and long of 8 bits | `TypeOK`; `Implements`: `TokenStream`; `LoopEnds` |
| initializers | 22 types, 38238 texts: all lists of four tokens, two nested parts, two objects, global and local, with a type of their own or a shared one | `PathsFit`, `RejectionIsRight`, `ObjectsAreRight` |
| loop_scope | the smallest that shows it | the disagreement below |

Two names are enough for one to shadow, redeclare or be confused with another,
and all properties speak of one name or of two declarations.  Eight nodes hold a
function with a loop that has a first clause, a block and accesses on both sides
of its end; six statements hold a switch with two sections, a conditional jump
in one and a statement after the other.  `TypeOK` also says that no branch is to
a null block.  Three records with two members each hold a record in a record
next to one that completes it later; every alignment and both ways of padding
occur with pointers, ints and char arrays.  Five nodes hold two operators on three
operands, or a conditional with an operator or a cast in it; the numbers are the
limits of the types, where a width that is off by one shows, and each type is
wider than the one before, which is all that the choice of widths tells apart.

Three layers put every kind of layer outside, inside and between others; a token
missing makes every way a text can stop being C one token early.  Five keywords
hold two longs, a sign and an int in every order.  Seven in ten of the lexer's
buffers have none of the shapes, half of those are rows of C tokens.  Two nested
lists with a trailing comma are the least in which a pop missed in the first
misplaces a value of the second.

Deadlock is checked in every run: a finished compilation repeats itself, and every
construct that is opened can be closed.

### Fairness

The program has one thread, waits for nothing and its functions are called one
after the other; it stops only at its end or in `Report`.  So where a run has a
liveness property its specification states weak fairness: of the step of the parser
in `Declarations` (`Terminates`: every text, whatever is missing in it, is read to
an end or reported; no loop of the parser waits for a token that does not come),
and of a turn of the lexer's loop in `Lexer` (`LoopEnds`).  Nothing is assumed of
the client of the lexer.  The other runs state none: their properties are safety
properties.

## Disagreements found

Checked by a run that must fail:

* **loop_scope**: `int i; for (int i = 0; ...) i;` uses the outer `i`'s storage.

In the models as shapes or outcomes, without a run of their own:

* names: a declaration directly in a section used in another (`caseDecl`), a
  second body of a function after a prototype (`secondBody`), a declaration as
  the body of a `for` (`loopBodyDecl`), a parameter of a local function pointer
  entered in the enclosing scope (`funcPointer`), a typedef name as an expression
  (`typedefExpr`), a global initialised with itself (`globalSelf`), an undefined
  name in the initialiser of a global dereferenced in Skip mode (outcome
  `crashed`);
* statements: `case 1: if (a) b; case 2:` leaves a block without terminator, and so
  does a last case without break in a switch without default (`caseFalls`; the
  comment of codegen.cc:576 promises the last block of the case); a statement after
  a block that ends in a jump (`nestedJump`),
  before the first label (`beforeLabel`), a null statement as the body of an if,
  do or switch (`nullBody`), a default without break before a case
  (`defaultFalls`), a default nested in another's statements and labels inside
  other statements (`nestedLabel`), a `continue` in a switch outside any loop,
  which takes `back()` of an empty vector (outcome `undefined`);
* expressions: `long + int` becomes an add of an i64 and an i32, which main.cc:72
  asserts against (`wideLeft`), and the other shapes of the table above;
* records: the shapes above, and a record as a member that declares nothing (outcome
  `crashed` of `NoDeclarator`);
* declarations, the lexer, initialisers: the shapes listed in their sections.

## Proofs

All hold for every value of the constants that the named assumptions allow, that is
for programs of any size, over any names, tags and sizes of members.  A theorem with
a hypothesis on `Shapes` speaks of the programs without source shapes that the runs
show to be translated wrongly; each hypothesis excludes only shapes listed above, and
the run of the same property has none of them either.

### Names (`NameResolutionProofs`)

* `InvariantHolds`: `Spec => []IInv`, the inductive invariant;
* `TypeCorrect`: `Spec => []TypeOK`;
* `FileScopeCorrect`: `Spec => []FileScopeStays`;
* `TablesFollowDeclarations`: `Spec => []ScopesAgree`;
* `RedeclarationsReported`: `Spec => []NoRedeclaration`;
* `LookupCorrect`: `Spec => []LookupIsLexical`;
* `FunctionsDefinedOnce`: `Spec => []DefinedOnce`, if `"secondBody" \notin Shapes`.

`TypeOK` is not inductive: ExitScope and PopScope take `Front` of a stack that
must not be empty, FuncEnd reads the frame of the function it ends, and a jump is
skipped to the end of its construct, which must exist.  `IInv` adds three parts.
`FrameInv`: the open constructs are a function, its body and any nesting inside,
each with the number of scopes it must have, so that every end finds its scope;
a label is directly in a block.  `ClosedInv`: every node lies in a construct that
is still open or is followed by a node of smaller depth, so that in a finished
AST every jump has an end to skip to.  `HandoffInv`: CodeGen visits exactly the
AST of a finished parse.

What Sema's lookups find is a question about tables, what they should find one about
the history `declared`.  `ScopesAgree` ties the two: the k-th environment holds a
symbol for exactly the names declared in the k-th open scope, the last declaration of
each.  With it a lookup from the top of the stack is the search for the innermost
declaration, and the check that SemaVariableDeclNode makes in the current environment
is the one C asks for.  Functions may be declared again; `OneBody` says of each
symbol of a function whether a body came before.

### Storage (`NameResolutionProofs`, third part)

* `StorageIsDeclared`: `Spec => []SameDeclaration`, if `Parting \cap Shapes = {}`;
* `StorageExists`: `Spec => []UsesHaveStorage`, if `Parting \cap Shapes = {}`;
* `ScopesStayBalanced`: `Spec => []ScopesBalanced`.

CodeGen runs when the parser's scopes are gone, so nothing in a state of the visit
says what the environments held when an access was resolved.  The proof follows two
ghosts, sequences gs and ls of tables: what globalVarMap and localVarMap would be after
each node if nothing were skipped.  While parsing, `Linked` says that such sequences
exist for the nodes so far and that the last tables match, scope by scope, the open
environments, and that every access so far finds in them the declaration it was resolved
to; each action of the parser extends them by a node (`ShortIncs` bounds what the end of
a for adds).  When the parse ends the AST has its sequences, and `VisitInv` says
that the real tables are those of the ghost at every node visited: a jump skips nodes,
but only up to the end of its block, where the ghost, having popped what the
skipped nodes pushed, is where it was.  `Parting` are the shapes on which the two passes
differ: a declaration in a section, in a for's header or as its body, the parameter of
a function pointer, a typedef name as an expression, a global in its own initialiser.
The balance needs none of this: the height is the number of blocks around a node.

### Statements and basic blocks (`FlowProofs`, `WellFormedProofs`)

* `JumpsAreBound`: `Spec => []JumpsBindInnermost`;
* `FlowTypeCorrect`: `Spec => []TypeOK`;
* `FlowWellFormed`: `Spec => []WellFormed`, if `OnlyNullBodies`;
* `SoundIsWellFormed`: `Spec => []((\A shape \in WrongShapes : ~Has(nodes, shape)) => WellFormed)`,
  with no hypothesis on `Shapes`: whatever other programs contain, a function without
  the shapes is well formed.

`NestInv`, the invariant of the parser: the open compound statements lie in one another;
exactly they have no end; every end closes the innermost; each of the three stacks of the
parser holds the nodes of the open statements of its kinds in order (`Tracks`), so that
its last is the innermost one.  `JumpsBindInnermost` speaks of `EndOf`, positions in the
finished tree; that what enclosed a node when it was parsed still does in the end needs
the ends not to cross.  `FollowInv` says which nodes may follow one another: a label has a
switch around it, a section is followed by a label or an end, `defaultStmts` are the
switches that have a default.

`VisitInv` ties what CodeGen keeps to this: `Linked` says that there are sequences gs and ss
of the statements with blocks of their own and of the switches around the node being
visited, that the activations' blocks (`LocalsFit`) are those of gs, the SwitchInsts on
`switchStack` those of ss, and that `breakBBs` and `continueBBs` have an entry for exactly
the loops and switches around it.  So a break, whose target is around it by
`JumpsAt`, finds a block; a label finds a SwitchInst; an end finds its activation.
Instructions are only added, and targets only appended to a SwitchInst (`Carries`), so
that what was tied stays tied.  A jump goes on at the end of what encloses it, where
the same statements are around (`EnclosesSkip`).  No branch goes to a null block, nor to
the entry, of which no statement keeps a record.

`WellFormed` is a statement about a finished function, and CodeGen is never in between
in a state that satisfies it: while a statement is visited, blocks are created that are
inserted later, and the block the builder is at has no terminator, or has one because
of a jump or of a switch that waits for its first label.  `WellInv` says which.
Its part `Right` says, of the visit at position p: the builder's block lacks its terminator
exactly if p is neither after a jump nor between a switch and its labels (`Closed`), which
is a fact about the tree alone; every block has at most one terminator, at its end, and all
inserted before the builder's have one (`Building`); the created blocks not yet
inserted are exactly those that a statement around p will insert, each for one
statement (`Owned`); the targets of a SwitchInst are its default block, which may wait,
and blocks of cases, which do not (`SwitchesRight`); in a section without control flow
the builder is still at the section's first block (`StraightRight`), which is what
VisitCaseStmt's fall-through takes for granted.  Each shape in `WrongShapes` breaks one of
these.  `FlowWellFormed` leaves only `nullBody` to the programs: there CodeGen
crashes before a function is finished.

### Records (`RecordProofs`)

* `RecordInvHolds`: `Spec => []RecordInv`;
* `RecordTypeCorrect`: `Spec => []TypeOK`;
* `LayoutCorrect`: `Spec => LayoutIsRight`, the action property that the step that
  ends SetMembers leaves a layout as C prescribes it if all members are complete;
* `LayoutStaysRight`: `Spec => []LayoutStays`, if `SizesKnown`;
* `StructTypesMatch`: `Spec => []StructsMatch`, and
* `AccessesAreRight`: `Spec => []AccessesHit`, if `SizesKnown` and `OneRecordPerTag`;
* `TypesNeverCrash`: `Spec => []NeverCrashes`, if moreover `"opaqueUnion" \notin Shapes`;
* `LayoutsAgreeWithLlvm`: `Spec => []LayoutsAgree`, if `SizesKnown`, `OneRecordPerTag` and
  `"padded" \notin Shapes`;
* `TagsAreRight`: `Spec => []TagsNameTypes`, with no hypothesis: the property itself speaks of
  the programs without `innerTag` and `bodyTag`.

`LayoutIsRight` speaks of the last step of a loop, so the invariant has to say
what every round leaves behind.  `LoopInv`: the members seen so far are placed,
each at the least multiple of its alignment that is not below the end of the one
before; the running offset is the end of the last; the running maxima are bounds
of the sizes and alignments and are attained (which makes the record's alignment
the greatest of a member, not any common multiple).  All that holds as long as
the members seen are complete (`SeenComplete`).  `RecordsTyped` and `StateTyped`
say that every reference is to a record that exists and that alignments are 1, 2,
4 or 8, so that the greatest is a multiple of every other; `FramesNest` that the
outermost frame is the function's block, so that closing a body finds the scope
and the frame to remove; `ScopesMatch` that there is a scope for every frame;
`CodeGenTyped` that CodeGen starts when all is parsed and enters no union without
members.  There is one lemma per action.  The assumption the layout rests on is
`PrimsAssumption`: members that are not records have alignment 1, 2, 4 or 8; sizes
may be any integers.  RoundUp is the division that `(x + a - 1) & ~(a - 1)` is for
such alignments.

A layout stays right if nothing it was computed from changes.  `SizesKnown` excludes
the three shapes that let a record get members of unknown or changing size;
then `LaidOutInv` holds: a body is opened once for a record, every type used by
value has a size that no later declaration can change, every record with members, but
the one being laid out, is laid out rightly.  `StructInv` says of CodeGen that a
struct type that is finished has its record's body and one that is being visited
is on the stack: VisitRecordType makes the type before its members, so a record that
points to itself finds an unfinished one.  It needs `OneRecordPerTag` (`"sameTag"
\notin Shapes`), as LLVM looks types up by tag, and `NamesAssumption`, that no tag is one
of the generated names, which begin with two underscores (type.cc:38-46).  `NoCrash`
says that the unions CodeGen may enter have members.

LLVM computes the layout of a struct type from those of the types it contains, so
`LayoutsAgreeWithLlvm` is about a recursion over the types.  `LlvmInv` holds what it needs:
the types that a finished struct type contains by value have been made (`MembersMade`);
records can be ranked so that each is above what it contains by value (`Acyclic`: the end
of a body ranks its record above all others, which are complete by then); there
are finitely many (`FinitelyMany`); a union's largest member is its most aligned
(`UnionsPlain`).  `StructLayoutIs` shows that offsets which satisfy C's conditions are those of LLVM's
loop over the members, `InvMakesLayoutsAgree` goes up the ranks.  Neither is an induction
theorem: a function that satisfies the recursive equation is written down, and a least
counterexample to another one leads to a contradiction.

`DeclarationOf`, C's resolution of tags, is recursive as well, but the invariant does not
mention it.  It speaks of the mentions that made a record (`Makes`).  `ScopesName` ties
them to the scopes: a tag is in at most one open scope (`OneEntry`); an entry was made by a
mention whose blocks are all open (`EntriesMade`); a mention that made a record still has
its entry as long as the frames that were around it are open (`MadeEntered`).  So
the parser's lookup finds a record exactly if one of the earlier mentions that C could see
made one, and there is only one (`RightlyGiven`).  Only the last step,
`GivenMeansNamed`, goes from there to `DeclarationOf`: the maker of a mention's record
satisfies its equation, and nothing else does.

### Expressions (`ExpressionProofs`)

For expressions of any size over any numbers and variables, and words of any four
widths that grow from char to long (`WidthsAssumption`), each property of the run
expr_values is a theorem of `Spec`:

* `ValuesTyped`: `TypeOK`, every number fits the type or word it is of;
* `ValuesRight`: `ValuesAreRight`, CodeGen's value is C's at the width of C's type;
* `ConstantsRight`: `ConstantsAreRight`, EvalConstant finds C's value or rejects;
* `BoundsRight`, `LabelsRight`, `StatementsRight`: `BoundsAreRight`, `LabelsMatch`,
  `StatementsAreRight`, what the statements make of these values;
* `NoCrash`: `NeverCrashes`.

The properties themselves leave out the shapes of the table above.  Both evaluators
follow the structure of the expression, so the invariant `ExprInv` is about each node on the
parser's stack, and a step needs only that the nodes it takes satisfy it: one
lemma for each kind of expression (`NumberRight` to `ThreeRight`), one for each
statement (`BoundStep` to `VisitIncrementStep`).  `NodeInv` says more than the two properties.
CodeGen's value has the width of C's type where C's value is undefined too
(`GenRight`): the operand that `&&` and `?:` skip may be undefined, and the instruction
around it needs its width.  What EvalConstant accepts is folded by IRBuilder
(`FoldRight`), or a case label would be no ConstantInt.  Without an unsigned number or a sizeof
the types of Sema and of C are signed (`Signed`).  The three readers meet in
`Exact`, an operator that applies and whose result fits the word: C defines a value only there
(`CValueOpIs`), CodeGen computes it there (`ArithmeticIs`), and so does
EvalConstant, as what is exact in a word is exact in a wider one (`ExactWider`).

The bitwise operators are sums of powers of two over the bits of a word: that such
a sum exists for every width is shown with a least counterexample (`TotalsUpTo`).  The provers have no definition of `^`, so the module
of the words, `IntegerTypes`, assumes what it is: `PowersAssumption`, 2^(n + 1) = 2 * 2^n for the
exponents in use.  It is arithmetic, not a condition on the compiler, and
TLC evaluates it in every run with words.

### Declarations (`DeclarationProofs`)

ParseDeclSpec alone, for sequences of keywords of any length in any order:

* `TypesAreRight`: `SpecifierSpec => []TypeIsRight`, what is accepted names the type C says;
* `RejectionsAreRight`: `SpecifierSpec => []RejectionIsRight`, what is rejected begins no
  declaration of C;
* `SpecTypeCorrect`: the enumerations keep their values.

The whole parser, for texts of any length and nesting:

* `ParsedTypesAreRight`: `Spec => []TypeIsRight`;
* `ParsedRejectionsAreRight`: `Spec => []RejectionIsRight`;
* `ParserInStep`: `Spec => []InStep`.

`counts` says how often each keyword was read.  `IInv` says what each of the
five enumerations is in terms of these counts (`size` is `llong` exactly if long was
read twice, `kind` is the only keyword for a kind that was read, and so on) and that
no combination was read that a check would have reported.  C's meaning is a table over
the same counts, so that the order of reading no longer matters; a step
keeps the invariant in one case per group of keywords (`KeywordKeeps`), and the end is
a case analysis over the enumerations (`DoneIsTyped`, `ClashIsNoType`).  In the parser
a record's members are read by the same function in the middle of the specifiers that
name the record: `Kept` says that the locals of the outer call, in its frame, still
satisfy the invariant when it goes on (`RecordIsRead`).

That what is pushed is popped is a fact about the stack of calls, of which
`NothingLeft` speaks only when it is as short as it gets.  `Balanced`, the heart of `DInv`,
speaks of every state: the frames that read ahead (`Begun`) are as many as the saved
places, in the same order, and each place is the one behind the token that its frame
keeps (`Remembers`); those frames, with the ones that parse a typedef's declarator, are as
many as the modes beyond the first (`Skipping`); and the frames of a function's
parameters or of a record's members are as many as the scopes beyond the file's
(`Opened`).  Numbers alone would not do: `OneAhead` after a RestoreState needs the last place
to be that of the innermost of these frames.  "As many" is an enumeration in order
(`Enumerates`), which grows and shrinks at its end because the new frames are the
innermost.  Each action replaces the innermost frame by up to three others; what that
does to the three sets of marks is shown once for each kind of step (`GoesOn`,
`ReadsAhead`, `GoesBack`, `StartsSkip`, `EndsSkip`, `OpensScope`, `ClosesScope`).

### Lexer (`LexerProofs`)

For buffers of any length over any characters (`TextsAssumption`), and places saved to any
depth (`SavedAssumption`):

* `LexerTypeCorrect`: `Spec => []TypeOK`, where BufPtr, LineHeadPtr, row and the token may be;
* `LexerAdvances`: every turn of the loop and every token read moves BufPtr forward.

`LexerInv` says of the saved places and tokens what `TypeOK` says of the current ones, or a
restore would end anywhere; and that the row is at most the place too, as a new line is
a character: with it a turn of the loop, which adds the new lines it skips
(`SkipKeeps`), stays below the lines of the text.  RestoreState that puts back
BufPtr alone, the mutant of the run, leaves LineHeadPtr behind BufPtr.

What a token ends with is found by `NumberEnd` and `Content`, functions defined by what they are
at a later place.  That they exist for a buffer of any length (`ReadingExists`) and
what holds at every place (`ReadingHolds`) is shown with a least counterexample
and no induction: `NumberEndLies`, `ContentLies`.  `Content` may end one place behind
the null character; that is the outcome `overrun`, where BufPtr stays.
`LexerAdvances` and the bound of BufPtr are the safety half of `LoopEnds`; that a turn is
taken at all is the fairness that TLC assumes.

### Only model-checked

* The liveness properties `Terminates` and `LoopEnds`: liveness is out of this
  prover's reach.
* `FlowIsStructured` and `ShapesAreExact`: what `StructuredFlow` says of a tree is computed by
  recursion over it, and so is the trace of the blocks it is compared with.  The
  relation between the two has to be shown for trees of every depth, by induction.
* `SeenIsDeclared`: it compares two parses of the same tokens, in two modes and with
  two types to begin with; that they agree is an induction over what is parsed.
* `PathsFit`, `RejectionIsRight` of `InitializerMeaning`, `ObjectsAreRight`, and the
  refinements `Implements` of `OnePass` and `TokenStream`: the references
  `CDeclarations`, `CInitializers` and `CTokens` are recursive over texts.

## Not modelled, and the plan

1. Pointers and floating numbers in expressions; subscripts, members and calls.
2. The parser that reads its tokens from the lexer: a composition of `Lexer` and
   `Declarations` (both are checked against what the other assumes: `Declarations`
   uses SaveState and RestoreState as `TokenStream` offers them).
3. Proofs: that `LayoutsAgree` fails for `padded` in no other way than at the end of the union.

Left out for good: the AST printer (pure output), the driver's target set-up and
emission (LLVM and I/O), formatting of diagnostics; unnamed parameters, which the
parser cannot read (DirectDeclarator wants a name), are rejected texts in
`declarations`.
