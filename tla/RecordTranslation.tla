-------------------------- MODULE RecordTranslation --------------------------
(***************************************************************************)
(* The compilation of a function's record types: Records parses the whole  *)
(* body, then CodeGen (RecordTypes) makes LLVM types of what is declared.  *)
(***************************************************************************)
EXTENDS RecordTypes

vars == <<parserVars, typeVars>>

Init == ParserInit /\ TypeInit

Parse == ParserNext /\ UNCHANGED typeVars

\* The shapes that show when all records are known.
UnionShapes(u) ==
    {s \in {"opaqueUnion"} : u.members = <<>>}
      \cup {s \in {"padded"} : u.members # <<>>
                               /\ AlignOf(records, u.members[u.maxElementIdx]) # u.align}

ToTranslate ==
    \A r \in DOMAIN records : records[r].kind = "union" => UnionShapes(records[r]) \subseteq Shapes

\* main hands the AST to CodeGen.
Translate ==
    /\ outcome = "parsed" /\ gen = "idle" /\ ToTranslate
    /\ gen' = "visiting"
    /\ UNCHANGED <<parserVars, pos, structs, stack, geps>>

Visit == TypeNext /\ UNCHANGED parserVars

Terminated ==
    /\ \/ outcome \in {"redefined", "miss", "crashed"}
       \/ gen \in {"done", "crashed"}
       \/ outcome = "parsed" /\ gen = "idle" /\ ~ToTranslate
    /\ UNCHANGED vars

Next == Parse \/ Translate \/ Visit \/ Terminated

Spec == Init /\ [][Next]_vars

-----------------------------------------------------------------------------

\* Every variable has its type, and there is a scope for every frame, besides
\* those of the file and of the parameters.
TypeOK ==
    /\ outcome \in {"parsing", "parsed", "redefined", "miss", "crashed"}
    /\ envs \in Seq([Tags \cup {Brace} -> 0 .. Len(records)])
    /\ Len(envs) = IF outcome = "parsed" THEN 1 ELSE Len(frames) + 2
    /\ records \in Seq(Record)
    /\ \A r \in DOMAIN records : \A k \in DOMAIN records[r].members :
         records[r].members[k].ref \in 0 .. Len(records)
    /\ spec.rec \in 0 .. Len(records)
    /\ layout.rec \in 0 .. Len(records)
    /\ gen \in {"idle", "visiting", "done", "crashed"}
    /\ pos \in 1 .. Len(ast) + 1
    /\ \A i \in DOMAIN stack : stack[i].rec \in DOMAIN records

-----------------------------------------------------------------------------
(* Layout *)

\* x is the least multiple of a that is not below `from`.
Placed(x, from, a) == x % a = 0 /\ from <= x /\ x < from + a

\* Where the member before k ends.
EndBefore(rs, r, offsets, k) ==
    IF k = 1 THEN 0 ELSE offsets[k - 1] + SizeOf(rs, rs[r].members[k - 1])

\* The members of a struct are aligned and follow one another without overlap
\* or needless padding; those of a union start at 0.
MembersPlaced(rs, r, offsets) ==
    \A k \in DOMAIN offsets :
      IF rs[r].kind = "struct"
        THEN Placed(offsets[k], EndBefore(rs, r, offsets, k), AlignOf(rs, rs[r].members[k]))
        ELSE offsets[k] = 0

\* The record has the greatest alignment of its members, and the least size
\* that holds them and is a multiple of it.
RecordPlaced(rs, r) ==
    LET ms == rs[r].members
        ends == {EndBefore(rs, r, rs[r].offsets, Len(ms) + 1)}
        sizes == {SizeOf(rs, ms[k]) : k \in DOMAIN ms}
    IN  /\ \A k \in DOMAIN ms : AlignOf(rs, ms[k]) <= rs[r].align
        /\ \E k \in DOMAIN ms : AlignOf(rs, ms[k]) = rs[r].align
        /\ Placed(rs[r].size, Max(IF rs[r].kind = "struct" THEN ends ELSE sizes), rs[r].align)

LaidOut(rs, r) ==
    /\ Len(rs[r].offsets) = Len(rs[r].members)
    /\ MembersPlaced(rs, r, rs[r].offsets)
    /\ RecordPlaced(rs, r)

\* The members of r have types that are complete and do not contain r.
Complete(rs, r) ==
    /\ rs[r].members # <<>>
    /\ \A k \in DOMAIN rs[r].members :
         LET m == rs[r].members[k]
         IN  SizeOf(rs, m) >= 0 /\ AlignOf(rs, m) # 0 /\ (m.kind = "record" => m.ref # r)

\* Whatever was declared before, SetMembers lays out a record with complete
\* members as C prescribes.
LayoutIsRight ==
    [][layout.rec # 0 /\ layout'.rec = 0 /\ Complete(records, layout.rec)
         => LaidOut(records', layout.rec)]_vars

\* When the program is parsed, the layout computed when a body was closed
\* still is the layout of the record: nothing it contains has changed since.
LayoutStays ==
    outcome = "parsed" =>
      \A r \in DOMAIN records : records[r].members # <<>> => LaidOut(records, r)

-----------------------------------------------------------------------------
(* Tags *)

\* The mention that declares, in C, the tag of mention j: one in the same
\* block, if j declares its tag, or else the innermost one visible.  In C the
\* body of a record is no scope.
DeclarationOf ==
    LET d[j \in DOMAIN mentions] ==
          LET m == mentions[j]
              visible == {i \in 1 .. j - 1 : /\ d[i] = i /\ mentions[i].tag = m.tag
                                             /\ mentions[i].blocks \subseteq m.blocks}
              own == {i \in visible : mentions[i].blocks = m.blocks}
              found == IF m.declares THEN own ELSE visible
          IN  IF found = {} THEN j ELSE Max(found)
    IN  d

\* Two specifiers with a tag are given the same record exactly if they name
\* the same type, unless a tag is declared anew in an inner block or is made
\* inside a body (in which cases the compiler departs from C).
TagsNameTypes ==
    shapes \cap {"innerTag", "bodyTag"} = {} =>
      \A i, j \in DOMAIN mentions :
        mentions[i].rec = mentions[j].rec <=> DeclarationOf[i] = DeclarationOf[j]

-----------------------------------------------------------------------------
(* LLVM types *)

\* The struct type found by a record's name has that record's members, or of
\* a union one that no other is larger than.
StructsMatch ==
    gen = "done" =>
      \A r \in DOMAIN records : Name(r) \in DOMAIN structs /\ records[r].members # <<>> =>
        LET ms == records[r].members
            body == structs[Name(r)]
        IN  IF records[r].kind = "struct" THEN body = [k \in DOMAIN ms |-> LlvmType(ms[k])]
            ELSE \E k \in DOMAIN ms :
                   /\ body = <<LlvmType(ms[k])>>
                   /\ \A i \in DOMAIN ms : SizeOf(records, ms[i]) <= SizeOf(records, ms[k])

\* What sizeof, the alignment of variables and member offsets take from the
\* CRecordType is what LLVM makes of the struct type.
LayoutsAgree ==
    gen = "done" =>
      \A r \in DOMAIN records : Name(r) \in DOMAIN structs /\ records[r].members # <<>> =>
        LET l == LlvmLayout[Name(r)]
        IN  /\ l.size = records[r].size /\ l.align = records[r].align
            /\ records[r].kind = "struct" => l.offsets = records[r].offsets

\* A member access reads the member that Sema found, inside of its record.
AccessesHit ==
    \A i \in geps :
      LET n == ast[i] IN
      /\ records[n.rec].kind = "struct" => structs[Name(n.rec)][n.idx] = LlvmType(n.type)
      /\ SizeOf(records, n.type) <= records[n.rec].size

\* CodeGen ends: it neither asserts nor reads past a vector.
NeverCrashes == gen # "crashed"

=============================================================================
