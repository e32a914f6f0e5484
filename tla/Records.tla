------------------------------- MODULE Records -------------------------------
(***************************************************************************)
(* Struct and union types in the parser and Sema: the scopes of tags, the  *)
(* record types they name, and the layout of their members.                *)
(*                                                                         *)
(* The programs are one function body of declarations, nested blocks and   *)
(* member accesses; inside a function nothing is parsed twice.  A program  *)
(* is read in these pieces: a specifier `struct A`, a brace that opens its *)
(* body, a declarator, a semicolon without one, the end of the body.  CType*)
(* objects are shared by pointer, so a type refers to a record by its      *)
(* index in `records`.  `layout` is the state of the loop of SetMembers.   *)
(***************************************************************************)
EXTENDS SequencesExt

CONSTANTS
    Tags,         \* the tag names of the program
    Brace,        \* the token that follows the keyword of an anonymous record
    Prims,        \* the sizes and alignments of members that are no records
    MaxMentions,  \* bound on its mentions of tags
    MaxRecords,   \* bound on its records
    MaxMembers,   \* bound on the members of a body
    MaxNodes,     \* bound on its variables and member accesses
    MaxOpened,    \* bound on its blocks and bodies
    Shapes        \* which of AllShapes the programs may have

Alignments == {1, 2, 4, 8}

\* Source shapes on which the compiler is known to go wrong.
AllShapes ==
    { "incomplete",   \* an object or a member of a record without members
      "redefined",    \* a second body for a record
      "innerTag",     \* a tag of an outer block declared anew in an inner one
      "bodyTag",      \* a tag that first occurs inside the body of a record
      "sameTag",      \* two records of one tag
      "flexible",     \* a member of unknown size
      "padded",       \* a union whose largest member is not the most aligned
      "opaqueUnion" } \* a union that never gets members

ASSUME TagsAssumption == Brace \notin Tags
ASSUME PrimsAssumption == Prims \subseteq [size : Int, align : Alignments]
ASSUME BoundsAssumption == {MaxMentions, MaxRecords, MaxMembers, MaxNodes, MaxOpened} \subseteq Nat
ASSUME ShapesAssumption == Shapes \subseteq AllShapes

VARIABLES
    outcome,     \* "parsing", "parsed", "crashed", or the error reported
    envs,        \* Scope::envs: per scope a table from tags to records, 0 for none
    records,     \* the CRecordTypes made so far
    frames,      \* the blocks and bodies being parsed, innermost last
    spec,        \* the record just specified, before its declarator
    layout,      \* UpdateStructOffset or UpdateUnionOffset being run
    ast,         \* variable declarations and member accesses
    mentions,    \* history: every specifier with a tag, and where it stands
    opened,      \* history: the number of blocks and bodies opened so far
    shapes       \* history: the shapes the program has so far

parserVars ==
    <<outcome, envs, records, frames, spec, layout, ast, opened, mentions, shapes>>

-----------------------------------------------------------------------------
(* Types *)

\* A record used by value has the size and alignment its CRecordType has.
Type == [kind : {"prim", "pointer", "record"}, ref : Nat, size : Int, align : Nat]

Prim(p) == [kind |-> "prim", ref |-> 0, size |-> p.size, align |-> p.align]

PointerTo(r) == [kind |-> "pointer", ref |-> r, size |-> 8, align |-> 8]

RecordOf(r) == [kind |-> "record", ref |-> r, size |-> 0, align |-> 0]

SizeOf(rs, t) == IF t.kind = "record" THEN rs[t.ref].size ELSE t.size

AlignOf(rs, t) == IF t.kind = "record" THEN rs[t.ref].align ELSE t.align

Record ==
    [tag : Tags \cup {Brace}, kind : {"struct", "union"}, members : Seq(Type),
     offsets : Seq(Int), size : Int, align : Alignments \cup {0}, maxElementIdx : Nat \ {0}]

\* CRecordType's constructor on an empty list of members.
NewRecord(tag, kind) ==
    [tag |-> tag, kind |-> kind, members |-> <<>>, offsets |-> <<>>,
     size |-> 0, align |-> 0, maxElementIdx |-> 1]

RoundDown(x, a) == IF a = 0 THEN 0 ELSE (x \div a) * a

\* (x + align - 1) & ~(align - 1), for an alignment that is a power of two or 0.
RoundUp(x, a) == IF a = 0 THEN 0 ELSE ((x + a - 1) \div a) * a

-----------------------------------------------------------------------------
(* Scopes of tags; the table of a scope also has the braces of anonymous   *)
(* records, which Sema takes for their names.                              *)

EmptyTable == [t \in Tags \cup {Brace} |-> 0]

EnterScope(es) == Append(es, EmptyTable)

ExitScopeForgets(es) == es

ExitScope(es) == Front(es)

FindTagSymbolInCurEnv(t) == Last(envs)[t]

FindTagSymbol(t) ==
    LET hits == {i \in DOMAIN envs : envs[i][t] # 0}
    IN  IF hits = {} THEN 0 ELSE envs[Max(hits)][t]

AddTagSymbol(t, r) == [envs EXCEPT ![Len(envs)][t] = IF @ = 0 THEN r ELSE @]

-----------------------------------------------------------------------------

NoLayout ==
    [rec |-> 0, next |-> 1, offset |-> 0, offsets |-> <<>>,
     maxAlign |-> 0, maxSize |-> 0, maxIdx |-> 1]

NoSpec == [rec |-> 0, closed |-> FALSE]

\* A frame is a block (body 0) or the body of a record; `vars` are the
\* declarations made in a block, `id` tells one frame from another.
NewFrame(id, body) == [id |-> id, body |-> body, members |-> <<>>, vars |-> {}]

Top == Last(frames)

\* Nothing of the parser runs while a layout is computed.
AtDeclarator == outcome = "parsing" /\ layout.rec = 0

\* The parser is at the start of a declaration or a statement.
AtDeclaration == AtDeclarator /\ spec = NoSpec

InBlock == Top.body = 0

\* There is room for another declarator.
Room == IF InBlock THEN Len(ast) < MaxNodes ELSE Len(Top.members) < MaxMembers

Ids(fs) == {fs[i].id : i \in DOMAIN fs}

BlockIds == {frames[i].id : i \in {j \in DOMAIN frames : frames[j].body = 0}}

Note(new) == new \subseteq Shapes /\ shapes' = shapes \cup new

\* DiagEngine::Report: print and exit(0).
Report(error) ==
    /\ outcome' = error
    /\ UNCHANGED <<envs, records, frames, spec, layout, ast, opened, mentions, shapes>>

ParserInit ==
    /\ outcome = "parsing"
    /\ envs = <<EmptyTable, EmptyTable, EmptyTable>>    \* file, parameters, body
    /\ records = <<>>
    /\ frames = <<NewFrame(0, 0)>>
    /\ spec = NoSpec /\ layout = NoLayout
    /\ ast = <<>>
    /\ opened = 0 /\ mentions = <<>> /\ shapes = {}

-----------------------------------------------------------------------------
(* Specifiers *)

\* A mention says which record it was given, whether it declares the tag in
\* its block (as a brace or a semicolon after it does), and where it stands.
Mention(t, r) ==
    [tag |-> t, rec |-> r, declares |-> FALSE, blocks |-> BlockIds, around |-> Ids(frames)]

Visible(m) == m.blocks \subseteq BlockIds

\* The tag t was made in a body that has ended, in a block that has not.
MadeInBody(t) ==
    \E i \in DOMAIN mentions :
      /\ mentions[i].tag = t /\ Visible(mentions[i])
      /\ ~mentions[i].around \subseteq Ids(frames)
      /\ \A k \in 1 .. i - 1 : mentions[k].rec # mentions[i].rec

TagSpecShapes(t, found) ==
    {s \in {"sameTag"} : found = 0 /\ \E r \in DOMAIN records : records[r].tag = t}
      \cup {s \in {"bodyTag"} : MadeInBody(t)}

\* "struct A": the record that the tag names in any scope, whatever its kind,
\* or else a new one in the current scope.
TagSpec(t, kind) ==
    /\ AtDeclaration /\ Room /\ Len(mentions) < MaxMentions
    /\ LET found == FindTagSymbol(t)
           r == IF found = 0 THEN Len(records) + 1 ELSE found
       IN /\ \/ found # 0 /\ UNCHANGED <<records, envs>>
             \/ /\ found = 0 /\ Len(records) < MaxRecords
                /\ records' = Append(records, NewRecord(t, kind))
                /\ envs' = AddTagSymbol(t, r)
          /\ spec' = [rec |-> r, closed |-> FALSE]
          /\ mentions' = Append(mentions, Mention(t, r))
          /\ Note(TagSpecShapes(t, found))
    /\ UNCHANGED <<outcome, frames, layout, ast, opened>>

\* The tag just mentioned is declared where it stands.
Declared == [mentions EXCEPT ![Len(mentions)].declares = TRUE]

DeclaredAnew ==
    \E i \in DOMAIN mentions :
      /\ mentions[i].tag = Last(mentions).tag /\ Visible(mentions[i])
      /\ mentions[i].blocks # BlockIds

OpenFrame(body) ==
    /\ opened' = opened + 1
    /\ frames' = Append(frames, NewFrame(opened + 1, body))

Redefines(r) == records[r].members # <<>> \/ \E i \in DOMAIN frames : frames[i].body = r

\* The brace after a tag; a second body is not reported.
OpenBody ==
    /\ AtDeclarator /\ spec.rec # 0 /\ ~spec.closed /\ opened < MaxOpened
    /\ OpenFrame(spec.rec)
    /\ envs' = EnterScope(envs)
    /\ spec' = NoSpec
    /\ mentions' = Declared
    /\ Note({s \in {"redefined"} : Redefines(spec.rec)}
              \cup {s \in {"innerTag"} : DeclaredAnew})
    /\ UNCHANGED <<outcome, records, layout, ast>>

\* "struct {": the brace is looked up and entered as if it were the tag.
AnonymousSpec(kind) ==
    /\ AtDeclaration /\ Room /\ Len(records) < MaxRecords /\ opened < MaxOpened
    /\ \/ FindTagSymbolInCurEnv(Brace) # 0 /\ Report("redefined")
       \/ /\ FindTagSymbolInCurEnv(Brace) = 0
          /\ records' = Append(records, NewRecord(Brace, kind))
          /\ envs' = EnterScope(AddTagSymbol(Brace, Len(records) + 1))
          /\ OpenFrame(Len(records) + 1)
          /\ UNCHANGED <<outcome, spec, layout, ast, mentions, shapes>>

\* The closing brace of a body: the scope ends, SetMembers is called.
CloseBody ==
    /\ AtDeclaration /\ ~InBlock
    /\ envs' = ExitScope(envs)
    /\ frames' = Front(frames)
    /\ records' = [records EXCEPT ![Top.body].members = Top.members]
    /\ layout' = [NoLayout EXCEPT !.rec = Top.body]
    /\ spec' = [rec |-> Top.body, closed |-> TRUE]
    /\ UNCHANGED <<outcome, ast, opened, mentions, shapes>>

-----------------------------------------------------------------------------
(* UpdateStructOffset and UpdateUnionOffset *)

LaidOutMembers == records[layout.rec].members

\* One round of the loop over the members.
LayoutMember ==
    /\ layout.rec # 0 /\ layout.next <= Len(LaidOutMembers)
    /\ LET m == LaidOutMembers[layout.next]
           size == SizeOf(records, m)
           align == AlignOf(records, m)
           isStruct == records[layout.rec].kind = "struct"
           offset == IF isStruct THEN RoundUp(layout.offset, align) ELSE 0
       IN layout' = [rec |-> layout.rec,
                     next |-> layout.next + 1,
                     offset |-> IF isStruct THEN offset + size ELSE 0,
                     offsets |-> Append(layout.offsets, offset),
                     maxAlign |-> IF layout.maxAlign < align THEN align ELSE layout.maxAlign,
                     maxSize |-> IF layout.maxSize < size THEN size ELSE layout.maxSize,
                     maxIdx |-> IF layout.maxSize < size THEN layout.next ELSE layout.maxIdx]
    /\ UNCHANGED <<outcome, envs, records, frames, spec, ast, opened, mentions, shapes>>

LayoutSizeUnpadded ==
    IF records[layout.rec].kind = "struct" THEN layout.offset ELSE layout.maxSize

LayoutSize ==
    RoundUp(IF records[layout.rec].kind = "struct" THEN layout.offset ELSE layout.maxSize,
            layout.maxAlign)

FinishLayoutKeepsAlign ==
    /\ layout.rec # 0 /\ layout.next > Len(LaidOutMembers)
    /\ records' = [records EXCEPT ![layout.rec] =
                     [@ EXCEPT !.offsets = layout.offsets, !.size = LayoutSize,
                               !.maxElementIdx = layout.maxIdx]]
    /\ layout' = NoLayout
    /\ UNCHANGED <<outcome, envs, frames, spec, ast, opened, mentions, shapes>>

FinishLayout ==
    /\ layout.rec # 0 /\ layout.next > Len(LaidOutMembers)
    /\ records' = [records EXCEPT ![layout.rec] =
                     [@ EXCEPT !.offsets = layout.offsets, !.size = LayoutSize,
                               !.align = layout.maxAlign, !.maxElementIdx = layout.maxIdx]]
    /\ layout' = NoLayout
    /\ UNCHANGED <<outcome, envs, frames, spec, ast, opened, mentions, shapes>>

-----------------------------------------------------------------------------
(* Declarators and statements *)

\* A declarator: in a body a member, in a block a variable.
Declare(t) ==
    /\ spec' = NoSpec
    /\ \/ /\ InBlock
          /\ ast' = Append(ast, [kind |-> "decl", type |-> t, rec |-> 0, idx |-> 0])
          /\ frames' = [frames EXCEPT ![Len(frames)].vars = @ \cup {Len(ast) + 1}]
       \/ /\ ~InBlock
          /\ frames' = [frames EXCEPT ![Len(frames)].members = Append(@, t)]
          /\ UNCHANGED ast
    /\ UNCHANGED <<outcome, envs, records, layout, opened, mentions>>

\* "int m;" in a body.
DeclarePrim(p) ==
    /\ AtDeclaration /\ ~InBlock /\ Room
    /\ Declare(Prim(p))
    /\ Note({s \in {"flexible"} : p.size < 0})

\* "struct A *x;"
DeclarePointer ==
    /\ AtDeclarator /\ spec.rec # 0
    /\ Declare(PointerTo(spec.rec))
    /\ UNCHANGED shapes

\* "struct A x;"
DeclareObject ==
    /\ AtDeclarator /\ spec.rec # 0
    /\ Declare(RecordOf(spec.rec))
    /\ Note({s \in {"incomplete"} : records[spec.rec].members = <<>>})

\* "struct A;" or "struct A { ... };": ParseDeclStmt returns no node, which
\* the parser of a body dereferences.
NoDeclarator ==
    /\ AtDeclarator /\ spec.rec # 0
    /\ \/ /\ InBlock
          /\ spec' = NoSpec
          /\ \/ spec.closed /\ UNCHANGED <<mentions, shapes>>
             \/ /\ ~spec.closed
                /\ mentions' = Declared
                /\ Note({s \in {"innerTag"} : DeclaredAnew})
          /\ UNCHANGED outcome
       \/ /\ ~InBlock
          /\ outcome' = "crashed"
          /\ UNCHANGED <<spec, mentions, shapes>>
    /\ UNCHANGED <<envs, records, frames, layout, ast, opened>>

MemberNodeFirst(r, k) ==
    [kind |-> "access", type |-> records[r].members[k], rec |-> r, idx |-> 1]

\* The type and the index that the Member found has now.
MemberNode(r, k) ==
    [kind |-> "access", type |-> records[r].members[k], rec |-> r, idx |-> k]

\* "x.m;" or "x->m;" of a variable in scope.
Access(v, k) ==
    /\ AtDeclaration /\ InBlock /\ Room
    /\ LET r == ast[v].type.ref IN
       \/ k \notin DOMAIN records[r].members /\ Report("miss")
       \/ /\ k \in DOMAIN records[r].members
          /\ ast' = Append(ast, MemberNode(r, k))
          /\ UNCHANGED <<outcome, envs, records, frames, spec, layout, opened, mentions, shapes>>

OpenBlock ==
    /\ AtDeclaration /\ InBlock /\ opened < MaxOpened
    /\ OpenFrame(0)
    /\ envs' = EnterScope(envs)
    /\ UNCHANGED <<outcome, records, spec, layout, ast, mentions, shapes>>

CloseBlock ==
    /\ AtDeclaration /\ InBlock /\ Len(frames) > 1
    /\ frames' = Front(frames)
    /\ envs' = ExitScope(envs)
    /\ UNCHANGED <<outcome, records, spec, layout, ast, opened, mentions, shapes>>

\* The end of the function's block and of its parameters' scope.
EndFunction ==
    /\ AtDeclaration /\ InBlock /\ Len(frames) = 1
    /\ outcome' = "parsed"
    /\ frames' = <<>>
    /\ envs' = ExitScope(ExitScope(envs))
    /\ UNCHANGED <<records, spec, layout, ast, opened, mentions, shapes>>

VisibleVars == UNION {frames[i].vars : i \in DOMAIN frames}

ParserNext ==
    \/ \E kind \in {"struct", "union"} :
         (\E t \in Tags : TagSpec(t, kind)) \/ AnonymousSpec(kind)
    \/ OpenBody \/ CloseBody \/ LayoutMember \/ FinishLayout
    \/ \E p \in Prims : DeclarePrim(p)
    \/ DeclarePointer \/ DeclareObject \/ NoDeclarator
    \/ \E v \in VisibleVars, k \in 1 .. MaxMembers : Access(v, k)
    \/ OpenBlock \/ CloseBlock \/ EndFunction

=============================================================================
