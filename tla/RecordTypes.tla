----------------------------- MODULE RecordTypes -----------------------------
(***************************************************************************)
(* CodeGen's translation of record types: the named struct types of the    *)
(* LLVMContext, made by visiting the types of variables and members.       *)
(*                                                                         *)
(* VisitRecordType calls itself through the types of members; `stack` is   *)
(* its call stack.  A named struct is made before its members are visited, *)
(* which is what ends the recursion of a record that points to itself.     *)
(***************************************************************************)
EXTENDS Records

VARIABLES
    gen,        \* "idle", "visiting", "done", "crashed"
    pos,        \* the node of the AST being visited
    structs,    \* LLVM's struct types: a function from names to bodies
    stack,      \* the records being visited: [rec, next]
    geps        \* history: the member accesses emitted

typeVars == <<gen, pos, structs, stack, geps>>

\* Generated names begin with two underscores (type.cc:38-46), which C keeps
\* for the compiler: no tag is one.
ASSUME NamesAssumption == Tags \cap Nat = {}

\* A tag, or the generated name of an anonymous record, which is unique.
Name(r) == IF records[r].tag = Brace THEN r ELSE records[r].tag

\* The LLVM type of a C type; pointers are opaque.
LlvmType(t) ==
    [kind |-> t.kind, size |-> t.size, align |-> t.align,
     name |-> IF t.kind = "record" THEN Name(t.ref) ELSE 0]

\* StructType::create; the body is set later.
CreateStruct(n) ==
    structs' = [m \in DOMAIN structs \cup {n} |-> IF m = n THEN <<>> ELSE structs[m]]

\* getTypeByName finds nothing for the record that t is or points to.
ToVisit(t) == t.kind # "prim" /\ Name(t.ref) \notin DOMAIN structs

VisitedMembersFirst(r) ==
    IF records[r].kind = "struct" THEN records[r].members ELSE <<records[r].members[1]>>

\* All members of a struct; of a union the largest, which is its body.
VisitedMembers(r) ==
    IF records[r].kind = "struct" THEN records[r].members
    ELSE <<records[r].members[records[r].maxElementIdx]>>

TypeInit == gen = "idle" /\ pos = 1 /\ structs = <<>> /\ stack = <<>> /\ geps = {}

Visiting == gen = "visiting"

Crash ==
    /\ gen' = "crashed"
    /\ UNCHANGED <<pos, structs, stack, geps>>

\* VisitRecordType of a name that LLVM does not know.  The largest member of
\* a union without members is read past the end of a vector.
EnterRecord(r, callers) ==
    \/ /\ records[r].kind = "union" /\ records[r].members = <<>>
       /\ Crash
    \/ /\ records[r].kind = "struct" \/ records[r].members # <<>>
       /\ CreateStruct(Name(r))
       /\ stack' = Append(callers, [rec |-> r, next |-> 1])
       /\ UNCHANGED <<gen, pos, geps>>

\* The next member's type, which may be a record that has to be visited.
VisitMember ==
    /\ Visiting /\ stack # <<>>
    /\ LET f == Last(stack)
           ms == VisitedMembers(f.rec)
           callers == [stack EXCEPT ![Len(stack)].next = @ + 1]
       IN /\ f.next <= Len(ms)
          /\ \/ ToVisit(ms[f.next]) /\ EnterRecord(ms[f.next].ref, callers)
             \/ /\ ~ToVisit(ms[f.next])
                /\ stack' = callers
                /\ UNCHANGED <<gen, pos, structs, geps>>

SetBody ==
    /\ Visiting /\ stack # <<>>
    /\ LET f == Last(stack)
           ms == VisitedMembers(f.rec)
       IN /\ f.next > Len(ms)
          /\ structs' = [structs EXCEPT ![Name(f.rec)] = [k \in DOMAIN ms |-> LlvmType(ms[k])]]
    /\ stack' = Front(stack)
    /\ UNCHANGED <<gen, pos, geps>>

AtNode(kind) == Visiting /\ stack = <<>> /\ pos <= Len(ast) /\ ast[pos].kind = kind

\* The type of the node is translated first.
VisitType ==
    /\ Visiting /\ stack = <<>> /\ pos <= Len(ast)
    /\ ToVisit(ast[pos].type)
    /\ EnterRecord(ast[pos].type.ref, <<>>)

\* VisitVariableDecl: llvm::Align asserts that the alignment is not 0.
VisitVariableDecl ==
    /\ AtNode("decl") /\ ~ToVisit(ast[pos].type)
    /\ \/ AlignOf(records, ast[pos].type) = 0 /\ Crash
       \/ /\ AlignOf(records, ast[pos].type) # 0
          /\ pos' = pos + 1
          /\ UNCHANGED <<gen, structs, stack, geps>>

\* VisitPostMemberDotExpr and VisitPostMemberArrowExpr: in a struct the member
\* is addressed by its index in the LLVM type found by the record's name; a
\* union is cast to the member's type.
VisitMemberAccess ==
    /\ AtNode("access") /\ ~ToVisit(ast[pos].type)
    /\ LET n == ast[pos]
           isStruct == records[n.rec].kind = "struct"
           body == structs[Name(n.rec)]
       IN \/ isStruct /\ n.idx \notin DOMAIN body /\ Crash
          \/ /\ isStruct => n.idx \in DOMAIN body
             /\ geps' = geps \cup {pos}
             /\ pos' = pos + 1
             /\ UNCHANGED <<gen, structs, stack>>

FinishTypes ==
    /\ Visiting /\ stack = <<>> /\ pos > Len(ast)
    /\ gen' = "done"
    /\ UNCHANGED <<pos, structs, stack, geps>>

TypeNext ==
    VisitMember \/ SetBody \/ VisitType \/ VisitVariableDecl \/ VisitMemberAccess \/ FinishTypes

-----------------------------------------------------------------------------
(* What LLVM's data layout makes of the struct types. *)

AlignTo(x, a) == ((x + a - 1) \div a) * a

\* Offsets, size and alignment of a body whose members have the sizes and
\* alignments given; a field starts at the next multiple of its alignment.
StructLayout(sizes) ==
    LET place[i \in 0 .. Len(sizes)] ==
          IF i = 0 THEN [offsets |-> <<>>, end |-> 0, align |-> 1]
          ELSE LET acc == place[i - 1]
                   at == AlignTo(acc.end, sizes[i].align)
               IN  [offsets |-> Append(acc.offsets, at), end |-> at + sizes[i].size,
                    align |-> Max({acc.align, sizes[i].align})]
        all == place[Len(sizes)]
    IN  [offsets |-> all.offsets, size |-> AlignTo(all.end, all.align), align |-> all.align]

\* The layout of the struct type of each name; a type that contains itself,
\* which has none, is cut off.
LlvmLayout ==
    LET names == DOMAIN structs
        at[k \in 0 .. Cardinality(names)] ==
          [n \in names |->
             IF k = 0 THEN StructLayout(<<>>)
             ELSE StructLayout([i \in DOMAIN structs[n] |->
                    IF structs[n][i].kind = "record" THEN at[k - 1][structs[n][i].name]
                    ELSE structs[n][i]])]
    IN  at[Cardinality(names)]

=============================================================================
