---------------------------- MODULE RecordProofs ----------------------------
(***************************************************************************)
(* Proofs about RecordTranslation, for any tags, any sizes of members and  *)
(* any bounds.  First its type invariant, and that SetMembers lays out     *)
(* every record with complete members as C prescribes: the rounds of its   *)
(* loop keep an invariant.  Then, for programs without the shapes that are *)
(* known to go wrong, that the layouts stay right, that the struct types   *)
(* of LLVM match them and are laid out alike, that an access reads the     *)
(* member it names, and that CodeGen does not crash.  Last, that two       *)
(* mentions of tags are given one record exactly if C says so.  Each has a *)
(* lemma per action.                                                       *)
(***************************************************************************)
EXTENDS RecordTranslation, StackLemmas, FiniteSetTheorems

-----------------------------------------------------------------------------
(* The inductive invariant *)

\* The types of members and nodes when there are n records.
MemberType(n) ==
    {t \in Type : /\ t.ref <= n
                  /\ t.kind # "prim" => t.ref # 0
                  /\ t.kind # "record" => t.align \in Alignments}

\* A declaration list being parsed,
Frame(n) == [id : Nat, body : 0 .. n, members : Seq(MemberType(n)), vars : SUBSET Nat]

\* a node of the AST,
Node(n) == [kind : {"decl", "access"}, type : MemberType(n), rec : 0 .. n, idx : Nat]

\* the state of SetMembers,
Layout(n) ==
    [rec : 0 .. n, next : Nat \ {0}, offset : Int, offsets : Seq(Int),
     maxAlign : Alignments \cup {0}, maxSize : Int, maxIdx : Nat \ {0}]

\* the members of a record,
Members(n) == Seq(MemberType(n))

\* and the tags of a scope.
TagTable(n) == [Tags \cup {Brace} -> 0 .. n]

\* Members are typed, and the largest is known except while it is sought.
RecordsTyped ==
    /\ records \in Seq(Record)
    /\ \A r \in DOMAIN records : records[r].members \in Members(Len(records))
    /\ \A r \in DOMAIN records \ {layout.rec} :
         records[r].members # <<>> => records[r].maxElementIdx \in DOMAIN records[r].members

\* The parser's variables are typed.
StateTyped ==
    /\ envs \in Seq(TagTable(Len(records)))
    /\ frames \in Seq(Frame(Len(records)))
    /\ spec \in [rec : 0 .. Len(records), closed : BOOLEAN]
    /\ layout \in Layout(Len(records))
    /\ ast \in Seq(Node(Len(records)))
    /\ opened \in Nat

\* The outermost frame is the function's block; the variables of a block are
\* declarations, of a record or of a pointer to one.
FramesNest ==
    /\ outcome = "parsing" => frames # <<>> /\ frames[1].body = 0
    /\ \A i \in DOMAIN frames : \A v \in frames[i].vars :
         v \in DOMAIN ast /\ ast[v].type.kind # "prim"

\* There is a scope for every frame.
ScopesMatch == Len(envs) = IF outcome = "parsed" THEN 1 ELSE Len(frames) + 2

\* The members that the loop has seen have a size and an alignment.
SeenComplete ==
    \A k \in 1 .. layout.next - 1 :
      SizeOf(records, LaidOutMembers[k]) >= 0 /\ AlignOf(records, LaidOutMembers[k]) # 0

\* The greatest size and alignment are bounds, and are attained.
MaximaSeen ==
    /\ \A k \in 1 .. layout.next - 1 :
         /\ AlignOf(records, LaidOutMembers[k]) <= layout.maxAlign
         /\ SizeOf(records, LaidOutMembers[k]) <= layout.maxSize
    /\ layout.next = 1 => layout.maxAlign = 0 /\ layout.maxSize = 0
    /\ layout.next > 1 =>
         /\ \E k \in 1 .. layout.next - 1 :
              AlignOf(records, LaidOutMembers[k]) = layout.maxAlign
         /\ \E k \in 1 .. layout.next - 1 :
              SizeOf(records, LaidOutMembers[k]) = layout.maxSize

\* The offset is where the members seen so far end.
OffsetReached ==
    records[layout.rec].kind = "struct" =>
      layout.offset = EndBefore(records, layout.rec, layout.offsets, layout.next)

\* After any number of rounds of the loop.
LoopInv ==
    layout.rec # 0 =>
      /\ layout.next <= Len(LaidOutMembers) + 1
      /\ Len(layout.offsets) = layout.next - 1
      /\ layout.maxIdx = 1 \/ layout.maxIdx < layout.next
      /\ SeenComplete =>
           /\ MembersPlaced(records, layout.rec, layout.offsets)
           /\ OffsetReached
           /\ MaximaSeen

\* An activation of VisitRecordType.
VisitFrame == [rec : 1 .. Len(records), next : Nat \ {0}]

\* CodeGen starts when all is parsed, and visits no union without members.
CodeGenTyped ==
    /\ gen \in {"idle", "visiting", "done", "crashed"}
    /\ pos \in 1 .. Len(ast) + 1
    /\ stack \in Seq(VisitFrame)
    /\ gen = "idle" => stack = <<>>
    /\ gen # "idle" => outcome = "parsed"
    /\ \A i \in DOMAIN stack :
         records[stack[i].rec].kind = "struct" \/ records[stack[i].rec].members # <<>>

\* The variables that name a stage.
OutcomeTyped ==
    /\ outcome \in {"parsing", "parsed", "redefined", "miss", "crashed"}
    /\ layout.rec # 0 => outcome = "parsing"

\* The invariant of the parser,
ParserInv ==
    OutcomeTyped /\ RecordsTyped /\ StateTyped /\ FramesNest /\ ScopesMatch /\ LoopInv

\* and that of the whole.
RecordInv == ParserInv /\ CodeGenTyped

\* What CodeGen's invariant needs of a step of the parser.
NothingRemoved == outcome = "parsing" /\ Len(ast) <= Len(ast')

-----------------------------------------------------------------------------
(* Types *)

\* The size and alignment of a type are numbers, the latter 0 or a power of two.
LEMMA SizeType ==
  ASSUME NEW rs \in Seq(Record), NEW t \in MemberType(Len(rs))
  PROVE  SizeOf(rs, t) \in Int /\ AlignOf(rs, t) \in Alignments \cup {0}
<1>1. CASE t.kind = "record"
  <2>1. t.ref \in 1 .. Len(rs)
    BY <1>1 DEF MemberType, Type
  <2>2. rs[t.ref] \in Record
    BY <2>1, ElementOfSeq, Zenon
  <2>3. rs[t.ref].size \in Int /\ rs[t.ref].align \in Alignments \cup {0}
    BY <2>2 DEF Record
  <2>4. QED
    BY <1>1, <2>3 DEF SizeOf, AlignOf
<1>2. CASE t.kind # "record"
  <2>1. t.size \in Int /\ t.align \in Alignments
    BY <1>2 DEF MemberType, Type
  <2>2. QED
    BY <1>2, <2>1 DEF SizeOf, AlignOf
<1>3. QED
  BY <1>1, <1>2

\* Making a record invalidates no type.
LEMMA TypesGrow ==
  ASSUME NEW m \in Nat, NEW n \in Nat, m <= n
  PROVE  /\ MemberType(m) \subseteq MemberType(n)
         /\ Members(m) \subseteq Members(n)
         /\ Frame(m) \subseteq Frame(n)
         /\ Node(m) \subseteq Node(n)
         /\ Layout(m) \subseteq Layout(n)
         /\ TagTable(m) \subseteq TagTable(n)
<1>1. MemberType(m) \subseteq MemberType(n)
  BY DEF MemberType, Type
<1>2. Members(m) \subseteq Members(n)
  BY <1>1, SeqMonotonic, Zenon DEF Members
<1>3. 0 .. m \subseteq 0 .. n
  OBVIOUS
<1>4. Frame(m) \subseteq Frame(n)
  BY <1>2, <1>3 DEF Frame, Members
<1>5. Node(m) \subseteq Node(n)
  BY <1>1, <1>3 DEF Node
<1>6. Layout(m) \subseteq Layout(n)
  BY <1>3 DEF Layout
<1>7. TagTable(m) \subseteq TagTable(n)
  BY <1>3 DEF TagTable
<1>8. QED
  BY <1>1, <1>2, <1>4, <1>5, <1>6, <1>7

\* The least multiple of an alignment.
LEMMA RoundUpPlaces ==
  ASSUME NEW x \in Int, NEW a \in Alignments
  PROVE  RoundUp(x, a) \in Int /\ Placed(RoundUp(x, a), x, a)
<1>1. CASE a = 1
  BY <1>1 DEF RoundUp, Placed
<1>2. CASE a = 2
  BY <1>2 DEF RoundUp, Placed
<1>3. CASE a = 4
  BY <1>3 DEF RoundUp, Placed
<1>4. CASE a = 8
  BY <1>4 DEF RoundUp, Placed
<1>5. QED
  BY <1>1, <1>2, <1>3, <1>4 DEF Alignments

\* Rounding up to the alignment of an incomplete type is defined, too.
LEMMA RoundUpType ==
  ASSUME NEW x \in Int, NEW a \in Alignments \cup {0}
  PROVE  RoundUp(x, a) \in Int
<1>1. CASE a = 0
  BY <1>1 DEF RoundUp
<1>2. CASE a \in Alignments
  BY <1>2, RoundUpPlaces
<1>3. QED
  BY <1>1, <1>2

\* A lookup returns a record or 0.
LEMMA FindTagSymbolType ==
  ASSUME NEW n \in Nat, envs \in Seq(TagTable(n)), NEW t \in Tags \cup {Brace}
  PROVE  FindTagSymbol(t) \in 0 .. n
<1> DEFINE hits == {i \in DOMAIN envs : envs[i][t] # 0}
<1>1. CASE hits = {}
  BY <1>1 DEF FindTagSymbol
<1>2. CASE hits # {}
  <2>1. hits \in SUBSET (1 .. Len(envs)) /\ Len(envs) \in Nat
    OBVIOUS
  <2>2. Max(hits) \in 1 .. Len(envs)
    BY <1>2, <2>1, MaxOfIndices
  <2>3. envs[Max(hits)] \in TagTable(n)
    BY <2>2, ElementOfSeq, Zenon
  <2>4. QED
    BY <1>2, <2>3 DEF FindTagSymbol, TagTable
<1>3. QED
  BY <1>1, <1>2

-----------------------------------------------------------------------------
(* The loop over the members *)

\* What a round of the loop and its end work on.
LEMMA LaidOutMembersType ==
  ASSUME RecordInv, layout.rec # 0
  PROVE  /\ layout \in Layout(Len(records)) /\ layout.rec \in DOMAIN records
         /\ records[layout.rec] \in Record
         /\ LaidOutMembers \in Members(Len(records))
         /\ Len(LaidOutMembers) \in Nat
         /\ \A k \in 1 .. Len(LaidOutMembers) :
              /\ LaidOutMembers[k] \in MemberType(Len(records))
              /\ SizeOf(records, LaidOutMembers[k]) \in Int
              /\ AlignOf(records, LaidOutMembers[k]) \in Alignments \cup {0}
<1>1. records \in Seq(Record) /\ layout \in Layout(Len(records))
  BY DEF RecordInv, ParserInv, RecordsTyped, StateTyped
<1>2. layout.rec \in DOMAIN records
  BY <1>1 DEF Layout
<1>3. records[layout.rec] \in Record
  BY <1>1, <1>2
<1>4. LaidOutMembers \in Members(Len(records))
  BY <1>2 DEF RecordInv, ParserInv, RecordsTyped, LaidOutMembers
<1>5. Len(LaidOutMembers) \in Nat
  BY <1>4 DEF Members
<1>6. \A k \in 1 .. Len(LaidOutMembers) : LaidOutMembers[k] \in MemberType(Len(records))
  BY <1>4, ElementOfSeq, Zenon DEF Members
<1>7. QED
  BY <1>1, <1>2, <1>3, <1>4, <1>5, <1>6, SizeType

\* A round of the loop, in the terms of the member it lays out.
LEMMA LayoutMemberType ==
  ASSUME RecordInv, LayoutMember
  PROVE  /\ layout' \in Layout(Len(records))
         /\ layout'.rec = layout.rec /\ layout'.next = layout.next + 1
         /\ Len(layout'.offsets) = Len(layout.offsets) + 1
         /\ \A k \in 1 .. Len(layout.offsets) : layout'.offsets[k] = layout.offsets[k]
<1> DEFINE m == LaidOutMembers[layout.next]
           size == SizeOf(records, m)
           align == AlignOf(records, m)
           isStruct == records[layout.rec].kind = "struct"
           offset == IF isStruct THEN RoundUp(layout.offset, align) ELSE 0
<1>1. layout.rec # 0 /\ layout.next <= Len(LaidOutMembers)
  BY DEF LayoutMember
<1>2. /\ layout \in Layout(Len(records)) /\ layout.next \in 1 .. Len(LaidOutMembers)
      /\ size \in Int /\ align \in Alignments \cup {0}
  BY <1>1, LaidOutMembersType DEF Layout
<1>3. offset \in Int
  BY <1>2, RoundUpType DEF Layout
<1>4. layout' =
        [rec |-> layout.rec,
         next |-> layout.next + 1,
         offset |-> IF isStruct THEN offset + size ELSE 0,
         offsets |-> Append(layout.offsets, offset),
         maxAlign |-> IF layout.maxAlign < align THEN align ELSE layout.maxAlign,
         maxSize |-> IF layout.maxSize < size THEN size ELSE layout.maxSize,
         maxIdx |-> IF layout.maxSize < size THEN layout.next ELSE layout.maxIdx]
  BY DEF LayoutMember
<1> HIDE DEF size, align, isStruct, offset
<1>5. layout.offsets \in Seq(Int)
  BY <1>2 DEF Layout
<1>6. /\ Append(layout.offsets, offset) \in Seq(Int)
      /\ Len(Append(layout.offsets, offset)) = Len(layout.offsets) + 1
      /\ \A k \in 1 .. Len(layout.offsets) :
           Append(layout.offsets, offset)[k] = layout.offsets[k]
  BY <1>3, <1>5
<1>7. QED
  BY SMTT(60), <1>2, <1>3, <1>4, <1>6 DEF Layout

\* Where a member starts does not depend on those after it.
LEMMA EndBeforeSame ==
  ASSUME NEW rs, NEW r, NEW s, NEW t, NEW n \in Nat, NEW k \in 1 .. n + 1,
         \A i \in 1 .. n : s[i] = t[i]
  PROVE  EndBefore(rs, r, s, k) = EndBefore(rs, r, t, k)
<1>1. CASE k = 1
  BY <1>1 DEF EndBefore
<1>2. CASE k # 1
  <2>1. k - 1 \in 1 .. n
    BY <1>2
  <2>2. s[k - 1] = t[k - 1]
    BY <2>1
  <2>3. QED
    BY <1>2, <2>2 DEF EndBefore
<1>3. QED
  BY <1>1, <1>2

\* A round of the loop keeps its invariant.
LEMMA LayoutMemberKeepsLoopInv ==
  ASSUME RecordInv, LayoutMember
  PROVE  LoopInv'
<1> DEFINE n == layout.next
           ms == LaidOutMembers
           sz(k) == SizeOf(records, ms[k])
           al(k) == AlignOf(records, ms[k])
           isStruct == records[layout.rec].kind = "struct"
           offset == IF isStruct THEN RoundUp(layout.offset, al(n)) ELSE 0
<1>1. layout.rec # 0 /\ n <= Len(ms) /\ records' = records
  BY DEF LayoutMember
<1>2. /\ layout \in Layout(Len(records)) /\ n \in 1 .. Len(ms) /\ Len(ms) \in Nat
      /\ \A k \in 1 .. Len(ms) : sz(k) \in Int /\ al(k) \in Alignments \cup {0}
  BY <1>1, LaidOutMembersType DEF Layout
<1>3. /\ layout'.rec = layout.rec /\ layout'.next = n + 1
      /\ Len(layout'.offsets) = Len(layout.offsets) + 1
      /\ \A k \in 1 .. Len(layout.offsets) : layout'.offsets[k] = layout.offsets[k]
  BY LayoutMemberType
<1>4. ms' = ms
  BY <1>1, <1>3 DEF LaidOutMembers
<1>5. Len(layout.offsets) = n - 1
  BY <1>1 DEF RecordInv, ParserInv, LoopInv
<1>6. /\ layout'.offset = IF isStruct THEN offset + sz(n) ELSE 0
      /\ layout'.offsets = Append(layout.offsets, offset)
      /\ layout'.maxAlign = IF layout.maxAlign < al(n) THEN al(n) ELSE layout.maxAlign
      /\ layout'.maxSize = IF layout.maxSize < sz(n) THEN sz(n) ELSE layout.maxSize
  BY DEF LayoutMember
<1>7. layout'.offsets[n] = offset
  BY SMTT(60), <1>2, <1>5, <1>6 DEF Layout
<1>8. DOMAIN layout'.offsets = 1 .. n
  <2>1. layout'.offsets \in Seq(Int)
    BY LayoutMemberType DEF Layout
  <2>2. QED
    BY <2>1, <1>3, <1>5, <1>2
<1>9. ASSUME SeenComplete'
      PROVE  MembersPlaced(records, layout.rec, layout.offsets)' /\ OffsetReached' /\ MaximaSeen'
  <2>1. \A k \in 1 .. n : sz(k) >= 0 /\ al(k) # 0
    <3>1. \A k \in 1 .. layout'.next - 1 :
            SizeOf(records', ms'[k]) >= 0 /\ AlignOf(records', ms'[k]) # 0
      BY <1>9 DEF SeenComplete
    <3>2. QED
      BY <3>1, <1>1, <1>2, <1>3, <1>4
  <2>2. SeenComplete
    BY <2>1, <1>2 DEF SeenComplete
  <2>3. MembersPlaced(records, layout.rec, layout.offsets) /\ OffsetReached /\ MaximaSeen
    BY <2>2, <1>1 DEF RecordInv, ParserInv, LoopInv
  <2>4. \A k \in 1 .. n : EndBefore(records, layout.rec, layout'.offsets, k)
                            = EndBefore(records, layout.rec, layout.offsets, k)
    <3> SUFFICES ASSUME NEW k \in 1 .. n
                 PROVE  EndBefore(records, layout.rec, layout'.offsets, k)
                          = EndBefore(records, layout.rec, layout.offsets, k)
      OBVIOUS
    <3>1. n - 1 \in Nat /\ k \in 1 .. (n - 1) + 1
      BY <1>2
    <3>2. \A i \in 1 .. n - 1 : layout'.offsets[i] = layout.offsets[i]
      BY <1>3, <1>5
    <3>3. QED
      BY <3>1, <3>2, EndBeforeSame
  <2>5. isStruct => Placed(offset, EndBefore(records, layout.rec, layout.offsets, n), al(n))
    <3>1. isStruct => layout.offset = EndBefore(records, layout.rec, layout.offsets, n)
      BY <2>3 DEF OffsetReached
    <3>2. al(n) \in Alignments /\ layout.offset \in Int
      BY <1>2, <2>1 DEF Layout
    <3> HIDE DEF al
    <3>3. Placed(RoundUp(layout.offset, al(n)), layout.offset, al(n))
      BY <3>2, RoundUpPlaces
    <3>4. QED
      BY <3>1, <3>3
  <2>6. MembersPlaced(records, layout.rec, layout'.offsets)
    <3> SUFFICES ASSUME NEW k \in 1 .. n
                 PROVE  IF isStruct
                          THEN Placed(layout'.offsets[k],
                                      EndBefore(records, layout.rec, layout'.offsets, k), al(k))
                          ELSE layout'.offsets[k] = 0
      BY <1>8 DEF MembersPlaced, LaidOutMembers
    <3>1. CASE k = n
      BY <3>1, <1>7, <2>4, <2>5
    <3>2. CASE k # n
      <4>1. k \in 1 .. n - 1
        BY <3>2, <1>2
      <4>2. k \in DOMAIN layout.offsets
        BY <4>1, <1>5, <1>2 DEF Layout
      <4>3. layout'.offsets[k] = layout.offsets[k]
        BY <4>1, <1>3, <1>5
      <4>4. IF isStruct
              THEN Placed(layout.offsets[k],
                          EndBefore(records, layout.rec, layout.offsets, k), al(k))
              ELSE layout.offsets[k] = 0
        BY <4>2, <2>3 DEF MembersPlaced, LaidOutMembers
      <4>5. QED
        BY <4>3, <4>4, <2>4
    <3>3. QED
      BY <3>1, <3>2
  <2>7. isStruct => layout'.offset = EndBefore(records, layout.rec, layout'.offsets, n + 1)
    <3>1. PICK j \in Nat : j = n + 1 /\ j # 1 /\ j - 1 = n
      BY <1>2
    <3>2. EndBefore(records, layout.rec, layout'.offsets, j)
            = layout'.offsets[j - 1] + SizeOf(records, ms[j - 1])
      BY <3>1, Zenon DEF EndBefore, LaidOutMembers
    <3>3. QED
      BY <3>1, <3>2, <1>6, <1>7
  <2>8. /\ \A k \in 1 .. n : al(k) <= layout'.maxAlign /\ sz(k) <= layout'.maxSize
        /\ \E k \in 1 .. n : al(k) = layout'.maxAlign
        /\ \E k \in 1 .. n : sz(k) = layout'.maxSize
    <3>1. /\ \A k \in 1 .. n - 1 : al(k) <= layout.maxAlign /\ sz(k) <= layout.maxSize
          /\ n = 1 => layout.maxAlign = 0 /\ layout.maxSize = 0
          /\ n > 1 => /\ \E k \in 1 .. n - 1 : al(k) = layout.maxAlign
                      /\ \E k \in 1 .. n - 1 : sz(k) = layout.maxSize
      BY <2>3 DEF MaximaSeen
    <3>2. layout.maxAlign \in Int /\ layout.maxSize \in Int
      BY <1>2 DEF Layout, Alignments
    <3>3. \A k \in 1 .. n : al(k) \in Int /\ al(k) > 0 /\ sz(k) \in Int /\ sz(k) >= 0
      BY <1>2, <2>1 DEF Alignments
    <3>4. n \in Nat /\ n >= 1
      BY <1>2
    <3>5. /\ layout'.maxAlign = IF layout.maxAlign < al(n) THEN al(n) ELSE layout.maxAlign
          /\ layout'.maxSize = IF layout.maxSize < sz(n) THEN sz(n) ELSE layout.maxSize
      BY <1>6
    <3> HIDE DEF n, al, sz
    <3>6. \A k \in 1 .. n : al(k) <= layout'.maxAlign /\ sz(k) <= layout'.maxSize
      BY <3>1, <3>2, <3>3, <3>4, <3>5
    <3>7. \E k \in 1 .. n : al(k) = layout'.maxAlign
      BY <3>1, <3>2, <3>3, <3>4, <3>5
    <3>8. \E k \in 1 .. n : sz(k) = layout'.maxSize
      BY <3>1, <3>2, <3>3, <3>4, <3>5
    <3>9. QED
      BY <3>6, <3>7, <3>8
  <2>9. OffsetReached'
    BY <2>7, <1>1, <1>3 DEF OffsetReached
  <2>10. MaximaSeen'
    <3>1. layout'.next # 1 /\ layout'.next - 1 = n
      BY SMTT(60), <1>2, <1>3
    <3>2. QED
      BY <2>8, <3>1, <1>1, <1>4 DEF MaximaSeen
  <2>11. QED
    BY <2>6, <2>9, <2>10, <1>1, <1>3
<1>10. layout'.next <= Len(ms') + 1 /\ Len(layout'.offsets) = layout'.next - 1
  BY SMTT(60), <1>2, <1>3, <1>4, <1>5
<1>11. layout'.maxIdx = 1 \/ layout'.maxIdx < layout'.next
  <2>1. layout'.maxIdx = IF layout.maxSize < sz(n) THEN n ELSE layout.maxIdx
    BY DEF LayoutMember
  <2>2. layout.maxIdx = 1 \/ layout.maxIdx < n
    BY <1>1 DEF RecordInv, ParserInv, LoopInv
  <2>3. n \in Nat /\ layout.maxIdx \in Nat
    BY <1>2 DEF Layout
  <2>4. QED
    BY <1>3, <2>1, <2>2, <2>3
<1>12. QED
  BY <1>9, <1>10, <1>11 DEF LoopInv

-----------------------------------------------------------------------------
(* The end of the loop *)

\* A greatest element is the maximum.
LEMMA MaxIs ==
  ASSUME NEW S, S \subseteq Int, NEW x \in S, \A y \in S : y <= x
  PROVE  Max(S) = x
<1>1. \A m \in S : (\A y \in S : m >= y) => m = x
  OBVIOUS
<1>2. \A y \in S : x >= y
  OBVIOUS
<1>3. QED
  BY <1>1, <1>2 DEF Max

\* FinishLayout changes the record laid out, and nothing of its members.
LEMMA FinishLayoutRecords ==
  ASSUME RecordInv, FinishLayout
  PROVE  /\ records' \in Seq(Record) /\ Len(records') = Len(records)
         /\ \A i \in DOMAIN records : i # layout.rec => records'[i] = records[i]
         /\ records'[layout.rec] =
              [records[layout.rec] EXCEPT !.offsets = layout.offsets, !.size = LayoutSize,
                 !.align = layout.maxAlign, !.maxElementIdx = layout.maxIdx]
         /\ \A i \in DOMAIN records : records'[i].members = records[i].members
<1> DEFINE r == layout.rec
           new == [records[r] EXCEPT !.offsets = layout.offsets, !.size = LayoutSize,
                     !.align = layout.maxAlign, !.maxElementIdx = layout.maxIdx]
<1>1. layout.rec # 0
  BY DEF FinishLayout
<1>2. layout \in Layout(Len(records)) /\ r \in DOMAIN records /\ records[r] \in Record
  BY <1>1, LaidOutMembersType
<1>3. LayoutSize \in Int
  <2>1. layout.offset \in Int /\ layout.maxSize \in Int /\ layout.maxAlign \in Alignments \cup {0}
    BY <1>2 DEF Layout
  <2>2. QED
    BY <2>1, RoundUpType DEF LayoutSize
<1>4. new \in Record /\ new.members = records[r].members
  BY <1>2, <1>3 DEF Record, Layout
<1>5. records \in Seq(Record) /\ r \in 1 .. Len(records)
  BY <1>2 DEF RecordInv, ParserInv, RecordsTyped
<1>6. records' = [records EXCEPT ![r] = new]
  BY DEF FinishLayout
<1> HIDE DEF new, r
<1>7. /\ records' \in Seq(Record) /\ Len(records') = Len(records)
      /\ \A i \in 1 .. Len(records) : records'[i] = IF i = r THEN new ELSE records[i]
  BY <1>4, <1>5, <1>6
<1>8. DOMAIN records = 1 .. Len(records)
  BY <1>5
<1>9. /\ \A i \in DOMAIN records : i # r => records'[i] = records[i]
      /\ records'[r] = new
      /\ \A i \in DOMAIN records : records'[i].members = records[i].members
  BY <1>4, <1>5, <1>7, <1>8
<1>10. QED
  BY <1>7, <1>9 DEF new, r

\* The layout that the loop ends with is the one of C.
LEMMA FinishLayoutIsRight ==
  ASSUME RecordInv, FinishLayout, Complete(records, layout.rec)
  PROVE  LaidOut(records', layout.rec)
<1> DEFINE r == layout.rec
           ms == LaidOutMembers
           sz(k) == SizeOf(records, ms[k])
           al(k) == AlignOf(records, ms[k])
           N == Len(ms)
           isStruct == records[r].kind = "struct"
<1>1. layout.rec # 0 /\ layout.next > N
  BY DEF FinishLayout
<1>2. /\ layout \in Layout(Len(records)) /\ r \in DOMAIN records /\ records[r] \in Record
      /\ ms \in Members(Len(records)) /\ N \in Nat
      /\ \A k \in 1 .. N : ms[k] \in MemberType(Len(records))
                           /\ sz(k) \in Int /\ al(k) \in Alignments \cup {0}
  BY <1>1, LaidOutMembersType
<1>3. DOMAIN ms = 1 .. N
  BY <1>2 DEF Members
<1>4. layout.next = N + 1 /\ Len(layout.offsets) = N
  BY <1>1, <1>2 DEF RecordInv, ParserInv, LoopInv, Layout
<1>5. \A k \in 1 .. N : sz(k) >= 0 /\ al(k) # 0 /\ (ms[k].kind = "record" => ms[k].ref # r)
  BY <1>3 DEF Complete, LaidOutMembers
<1>6. N # 0
  <2>1. ms # <<>>
    BY DEF Complete, LaidOutMembers
  <2>2. QED
    BY <1>2, <2>1 DEF Members
<1>7. SeenComplete
  BY <1>2, <1>4, <1>5 DEF SeenComplete
<1>8. MembersPlaced(records, r, layout.offsets) /\ OffsetReached /\ MaximaSeen
  BY <1>1, <1>7 DEF RecordInv, ParserInv, LoopInv
<1>9. /\ records'[r].members = ms /\ records'[r].offsets = layout.offsets
      /\ records'[r].size = LayoutSize /\ records'[r].align = layout.maxAlign
      /\ records'[r].kind = records[r].kind
  BY ZenonT(60), <1>2, FinishLayoutRecords DEF Record, LaidOutMembers
<1>10. \A k \in 1 .. N : SizeOf(records', ms[k]) = sz(k) /\ AlignOf(records', ms[k]) = al(k)
  <2> SUFFICES ASSUME NEW k \in 1 .. N
               PROVE  SizeOf(records', ms[k]) = sz(k) /\ AlignOf(records', ms[k]) = al(k)
    OBVIOUS
  <2>1. CASE ms[k].kind # "record"
    BY <2>1 DEF SizeOf, AlignOf
  <2>2. CASE ms[k].kind = "record"
    <3>1. ms[k].ref \in 1 .. Len(records) /\ ms[k].ref # r
      BY <1>2, <1>5, <2>2 DEF MemberType, Type
    <3>2. DOMAIN records = 1 .. Len(records)
      BY DEF RecordInv, ParserInv, RecordsTyped
    <3>3. records'[ms[k].ref] = records[ms[k].ref]
      BY <3>1, <3>2, FinishLayoutRecords
    <3>4. QED
      BY <3>3 DEF SizeOf, AlignOf
  <2>3. QED
    BY <2>1, <2>2
<1>11. \A k \in 1 .. N + 1 : EndBefore(records', r, layout.offsets, k)
                               = EndBefore(records, r, layout.offsets, k)
  <2> SUFFICES ASSUME NEW k \in 1 .. N + 1, k # 1
               PROVE  EndBefore(records', r, layout.offsets, k)
                        = EndBefore(records, r, layout.offsets, k)
    BY DEF EndBefore
  <2>1. k - 1 \in 1 .. N
    BY <1>2
  <2>2. SizeOf(records', ms[k - 1]) = SizeOf(records, ms[k - 1])
    BY <1>10, <2>1
  <2>3. QED
    BY <1>9, <2>2, Zenon DEF EndBefore, LaidOutMembers
<1>12. MembersPlaced(records', r, layout.offsets)
  <2>1. DOMAIN layout.offsets = 1 .. N
    BY <1>2, <1>4 DEF Layout
  <2> SUFFICES ASSUME NEW k \in 1 .. N
               PROVE  IF isStruct
                        THEN Placed(layout.offsets[k],
                                    EndBefore(records', r, layout.offsets, k),
                                    AlignOf(records', ms[k]))
                        ELSE layout.offsets[k] = 0
    BY <1>9, <2>1 DEF MembersPlaced
  <2>2. k \in 1 .. N + 1
    BY <1>2
  <2>3. IF isStruct
          THEN Placed(layout.offsets[k], EndBefore(records, r, layout.offsets, k), al(k))
          ELSE layout.offsets[k] = 0
    BY <1>8, <2>1 DEF MembersPlaced, LaidOutMembers
  <2>4. QED
    BY <2>2, <2>3, <1>10, <1>11
<1>13. /\ \A k \in 1 .. N : al(k) <= layout.maxAlign /\ sz(k) <= layout.maxSize
       /\ \E k \in 1 .. N : al(k) = layout.maxAlign
       /\ \E k \in 1 .. N : sz(k) = layout.maxSize
  <2>1. layout.next - 1 = N /\ layout.next > 1
    BY <1>2, <1>4, <1>6
  <2>2. QED
    BY <2>1, <1>8 DEF MaximaSeen
<1>14. layout.maxAlign \in Alignments
  BY <1>2, <1>5, <1>13
<1>15. RecordPlaced(records', r)
  <2> DEFINE ends == {EndBefore(records', r, records'[r].offsets, N + 1)}
             sizes == {SizeOf(records', ms[k]) : k \in 1 .. N}
             end == IF isStruct THEN layout.offset ELSE layout.maxSize
  <2>1. Max(IF isStruct THEN ends ELSE sizes) = end
    <3>1. CASE isStruct
      <4>1. N + 1 \in 1 .. N + 1
        BY <1>2
      <4>2. EndBefore(records', r, records'[r].offsets, N + 1) = layout.offset
        BY <3>1, <4>1, <1>4, <1>8, <1>9, <1>11 DEF OffsetReached
      <4>3. layout.offset \in Int
        BY <1>2 DEF Layout
      <4>4. Max({layout.offset}) = layout.offset
        BY <4>3, MaxIs
      <4>5. QED
        BY <3>1, <4>2, <4>4
    <3>2. CASE ~isStruct
      <4>1. sizes = {sz(k) : k \in 1 .. N}
        BY <1>10
      <4>2. sizes \subseteq Int /\ layout.maxSize \in sizes /\ \A x \in sizes : x <= layout.maxSize
        BY <4>1, <1>2, <1>13
      <4> HIDE DEF sizes
      <4>3. Max(sizes) = layout.maxSize
        BY <4>2, MaxIs
      <4>4. QED
        BY <3>2, <4>3
    <3>3. QED
      BY <3>1, <3>2
  <2>2. Placed(LayoutSize, end, layout.maxAlign)
    <3>1. end \in Int
      BY <1>2 DEF Layout
    <3>2. LayoutSize = RoundUp(end, layout.maxAlign)
      BY DEF LayoutSize
    <3>3. QED
      BY <3>1, <3>2, <1>14, RoundUpPlaces
  <2>3. /\ \A k \in 1 .. N : AlignOf(records', ms[k]) <= records'[r].align
        /\ \E k \in 1 .. N : AlignOf(records', ms[k]) = records'[r].align
    BY <1>9, <1>10, <1>13
  <2>4. Placed(records'[r].size, Max(IF isStruct THEN ends ELSE sizes), records'[r].align)
    BY <1>9, <2>1, <2>2
  <2>5. QED
    BY <1>3, <1>9, <2>3, <2>4 DEF RecordPlaced
<1>16. Len(records'[r].offsets) = Len(records'[r].members)
  BY <1>4, <1>9
<1>17. QED
  BY <1>9, <1>12, <1>15, <1>16 DEF LaidOut

-----------------------------------------------------------------------------
(* The other steps of the parser *)

\* The steps of the parser do not disturb CodeGen, which has not begun.
LEMMA CodeGenKept ==
  ASSUME CodeGenTyped, UNCHANGED typeVars, NothingRemoved,
         Len(ast) \in Nat, Len(ast') \in Nat
  PROVE  CodeGenTyped'
<1>1. gen' = gen /\ pos' = pos /\ stack' = stack
  BY DEF typeVars
<1>2. gen = "idle" /\ stack = <<>>
  BY DEF CodeGenTyped, NothingRemoved
<1>3. pos \in 1 .. Len(ast') + 1
  BY DEF CodeGenTyped, NothingRemoved
<1>4. <<>> \in Seq(VisitFrame') /\ DOMAIN <<>> = {}
  OBVIOUS
<1>5. QED
  BY <1>1, <1>2, <1>3, <1>4 DEF CodeGenTyped

\* The parser's variables, with every use of the invariant spelled out.
LEMMA ParserTypes ==
  ASSUME RecordInv
  PROVE  /\ Len(records) \in Nat /\ DOMAIN records = 1 .. Len(records)
         /\ Len(frames) \in Nat /\ DOMAIN frames = 1 .. Len(frames)
         /\ Len(ast) \in Nat /\ DOMAIN ast = 1 .. Len(ast)
         /\ Len(envs) \in Nat /\ DOMAIN envs = 1 .. Len(envs)
         /\ \A i \in DOMAIN frames : frames[i] \in Frame(Len(records))
         /\ frames # <<>> => Top = frames[Len(frames)] /\ Top \in Frame(Len(records))
<1>1. /\ records \in Seq(Record) /\ frames \in Seq(Frame(Len(records)))
      /\ ast \in Seq(Node(Len(records))) /\ envs \in Seq(TagTable(Len(records)))
  BY DEF RecordInv, ParserInv, RecordsTyped, StateTyped
<1>2. \A i \in DOMAIN frames : frames[i] \in Frame(Len(records))
  BY <1>1
<1>3. frames # <<>> => Top = frames[Len(frames)] /\ Top \in Frame(Len(records))
  BY <1>1, LastType, Zenon DEF Top
<1>4. QED
  BY <1>1, <1>2, <1>3

\* Making a record: what was typed before still is.
LEMMA NewRecordTypes ==
  ASSUME RecordInv, NEW tag \in Tags \cup {Brace}, NEW kind \in {"struct", "union"},
         records' = Append(records, NewRecord(tag, kind)), UNCHANGED layout
  PROVE  /\ Len(records') = Len(records) + 1
         /\ RecordsTyped'
         /\ envs \in Seq(TagTable(Len(records')))
         /\ frames \in Seq(Frame(Len(records')))
         /\ spec \in [rec : 0 .. Len(records'), closed : BOOLEAN]
         /\ layout \in Layout(Len(records'))
         /\ ast \in Seq(Node(Len(records')))
<1> DEFINE n == Len(records)
           new == NewRecord(tag, kind)
<1>1. /\ records \in Seq(Record) /\ n \in Nat
      /\ \A r \in 1 .. n : records[r].members \in Members(n)
  BY DEF RecordInv, ParserInv, RecordsTyped
<1>2. new \in Record /\ new.members = <<>>
  BY DEF NewRecord, Record
<1> HIDE DEF new
<1>3. records' \in Seq(Record) /\ Len(records') = n + 1
  BY <1>1, <1>2 DEF new
<1>4. \A r \in 1 .. n + 1 : records'[r] = IF r = n + 1 THEN new ELSE records[r]
  BY <1>1, <1>2 DEF new
<1>5. n + 1 \in Nat /\ n <= n + 1
  BY <1>1
<1>6. /\ Members(n) \subseteq Members(n + 1)
      /\ Frame(n) \subseteq Frame(n + 1)
      /\ Node(n) \subseteq Node(n + 1)
      /\ Layout(n) \subseteq Layout(n + 1)
      /\ TagTable(n) \subseteq TagTable(n + 1)
  BY <1>1, <1>5, TypesGrow
<1>7. RecordsTyped'
  <2>1. <<>> \in Members(n + 1)
    BY DEF Members
  <2>2. \A r \in 1 .. n + 1 : records'[r].members \in Members(n + 1)
    BY <1>1, <1>2, <1>4, <1>6, <2>1
  <2>3. DOMAIN records = 1 .. n /\ DOMAIN records' = 1 .. n + 1
    BY <1>1, <1>3
  <2>4. \A r \in (1 .. n + 1) \ {layout.rec} :
          records'[r].members # <<>> => records'[r].maxElementIdx \in DOMAIN records'[r].members
    BY <1>1, <1>2, <1>4, <2>3 DEF RecordInv, ParserInv, RecordsTyped
  <2>5. QED
    BY <1>3, <2>2, <2>3, <2>4 DEF RecordsTyped
<1>8. /\ envs \in Seq(TagTable(n)) /\ frames \in Seq(Frame(n))
      /\ spec \in [rec : 0 .. n, closed : BOOLEAN] /\ layout \in Layout(n)
      /\ ast \in Seq(Node(n))
  BY DEF RecordInv, ParserInv, StateTyped
<1>9. envs \in Seq(TagTable(n + 1)) /\ frames \in Seq(Frame(n + 1)) /\ ast \in Seq(Node(n + 1))
  BY <1>6, <1>8, SeqMonotonic, Zenon
<1>10. layout \in Layout(n + 1) /\ spec \in [rec : 0 .. n + 1, closed : BOOLEAN]
  BY <1>6, <1>8
<1>11. QED
  BY <1>3, <1>7, <1>9, <1>10

\* Entering a tag in the innermost scope.
LEMMA AddTagSymbolType ==
  ASSUME NEW n \in Nat, envs \in Seq(TagTable(n)), Len(envs) # 0,
         NEW t \in Tags \cup {Brace}, NEW r \in 0 .. n
  PROVE  AddTagSymbol(t, r) \in Seq(TagTable(n)) /\ Len(AddTagSymbol(t, r)) = Len(envs)
<1> DEFINE top == Len(envs)
           table == [envs[top] EXCEPT ![t] = IF @ = 0 THEN r ELSE @]
<1>1. AddTagSymbol(t, r) = [envs EXCEPT ![top] = table]
  BY DEF AddTagSymbol
<1>2. top \in 1 .. Len(envs)
  OBVIOUS
<1>3. envs[top] \in TagTable(n)
  BY <1>2, ElementOfSeq, Zenon
<1>4. table \in TagTable(n)
  BY <1>3 DEF TagTable
<1> HIDE DEF table, top
<1>5. [envs EXCEPT ![top] = table] \in Seq(TagTable(n))
  BY <1>2, <1>4
<1>6. Len([envs EXCEPT ![top] = table]) = Len(envs)
  BY <1>2, <1>4
<1>7. QED
  BY <1>1, <1>5, <1>6

\* A scope entered.
LEMMA EnterScopeType ==
  ASSUME NEW n \in Nat, NEW es \in Seq(TagTable(n))
  PROVE  EnterScope(es) \in Seq(TagTable(n)) /\ Len(EnterScope(es)) = Len(es) + 1
<1>1. EmptyTable \in TagTable(n)
  BY DEF EmptyTable, TagTable
<1>2. QED
  BY <1>1 DEF EnterScope

\* A frame opened.
LEMMA OpenFrameType ==
  ASSUME NEW n \in Nat, frames \in Seq(Frame(n)), opened \in Nat, NEW body \in 0 .. n,
         OpenFrame(body)
  PROVE  /\ frames' \in Seq(Frame(n)) /\ opened' \in Nat
         /\ Len(frames') = Len(frames) + 1
         /\ \A i \in 1 .. Len(frames) : frames'[i] = frames[i]
         /\ frames'[Len(frames) + 1].vars = {}
         /\ frames'[Len(frames) + 1].body = body
<1> DEFINE new == NewFrame(opened + 1, body)
<1>1. new \in Frame(n) /\ new.vars = {} /\ new.body = body
  <2>1. <<>> \in Seq(MemberType(n))
    OBVIOUS
  <2>2. QED
    BY <2>1 DEF NewFrame, Frame
<1>2. frames' = Append(frames, new) /\ opened' = opened + 1
  BY DEF OpenFrame
<1> HIDE DEF new
<1>3. QED
  BY <1>1, <1>2

\* What holds whenever the parser is at a declarator or a declaration.
LEMMA AtDeclaratorFacts ==
  ASSUME RecordInv, AtDeclarator
  PROVE  /\ outcome = "parsing" /\ layout.rec = 0
         /\ frames # <<>> /\ Len(frames) >= 1 /\ frames[1].body = 0
         /\ Len(envs) = Len(frames) + 2
         /\ Top = frames[Len(frames)] /\ Top \in Frame(Len(records))
<1>1. outcome = "parsing" /\ layout.rec = 0
  BY DEF AtDeclarator
<1>2. frames # <<>> /\ frames[1].body = 0
  BY <1>1 DEF RecordInv, ParserInv, FramesNest
<1>3. Len(envs) = Len(frames) + 2
  BY <1>1 DEF RecordInv, ParserInv, ScopesMatch
<1>4. Top = frames[Len(frames)] /\ Top \in Frame(Len(records))
  BY <1>2, ParserTypes
<1>5. Len(frames) >= 1
  <2>1. frames \in Seq(Frame(Len(records)))
    BY DEF RecordInv, ParserInv, StateTyped
  <2>2. QED
    BY <1>2, <2>1
<1>6. QED
  BY <1>1, <1>2, <1>3, <1>4, <1>5

\* An error report ends the parse and changes nothing else.
LEMMA ReportKeepsInv ==
  ASSUME RecordInv, AtDeclarator, NEW error \in {"redefined", "miss", "crashed"},
         outcome' = error, UNCHANGED <<envs, records, frames, layout, ast, opened>>,
         spec' \in [rec : 0 .. Len(records), closed : BOOLEAN]
  PROVE  ParserInv' /\ NothingRemoved
<1>1. outcome = "parsing" /\ layout.rec = 0
  BY DEF AtDeclarator
<1>2. OutcomeTyped'
  BY <1>1 DEF OutcomeTyped
<1>3. RecordsTyped'
  BY DEF RecordInv, ParserInv, RecordsTyped
<1>4. StateTyped'
  BY DEF RecordInv, ParserInv, StateTyped
<1>5. FramesNest'
  BY DEF RecordInv, ParserInv, FramesNest
<1>6. ScopesMatch'
  BY <1>1 DEF RecordInv, ParserInv, ScopesMatch
<1>7. LoopInv'
  BY <1>1 DEF LoopInv
<1>8. NothingRemoved
  BY ParserTypes DEF NothingRemoved, AtDeclarator
<1>9. QED
  BY <1>2, <1>3, <1>4, <1>5, <1>6, <1>7, <1>8 DEF ParserInv

\* A specifier with a tag refers to a record that exists.
LEMMA TagSpecKeepsInv ==
  ASSUME RecordInv, NEW t \in Tags, NEW kind \in {"struct", "union"}, TagSpec(t, kind)
  PROVE  ParserInv' /\ NothingRemoved
<1> DEFINE found == FindTagSymbol(t)
           r == IF found = 0 THEN Len(records) + 1 ELSE found
<1>1. AtDeclarator /\ outcome = "parsing" /\ layout.rec = 0 /\ Len(envs) # 0
  BY AtDeclaratorFacts, ParserTypes DEF TagSpec, AtDeclaration
<1>2. /\ Len(records) \in Nat /\ Len(ast) \in Nat
      /\ RecordsTyped /\ StateTyped
  BY ParserTypes DEF RecordInv, ParserInv
<1>3. found \in 0 .. Len(records)
  BY <1>2, FindTagSymbolType DEF StateTyped
<1>4. /\ spec' = [rec |-> r, closed |-> FALSE]
      /\ UNCHANGED <<outcome, frames, layout, ast, opened>>
  BY DEF TagSpec
<1>5. /\ RecordsTyped' /\ StateTyped' /\ Len(envs') = Len(envs)
      /\ Len(records) <= Len(records')
  <2>1. CASE found # 0 /\ UNCHANGED <<records, envs>>
    <3>1. spec' \in [rec : 0 .. Len(records), closed : BOOLEAN]
      BY <2>1, <1>3, <1>4
    <3>2. RecordsTyped'
      BY <1>2, <1>4, <2>1 DEF RecordsTyped
    <3>3. StateTyped'
      BY <1>2, <1>4, <2>1, <3>1 DEF StateTyped
    <3>4. QED
      BY <1>2, <2>1, <3>2, <3>3
  <2>2. CASE /\ found = 0
             /\ records' = Append(records, NewRecord(t, kind))
             /\ envs' = AddTagSymbol(t, r)
    <3>1. /\ Len(records') = Len(records) + 1
          /\ RecordsTyped'
          /\ envs \in Seq(TagTable(Len(records')))
          /\ frames \in Seq(Frame(Len(records')))
          /\ layout \in Layout(Len(records'))
          /\ ast \in Seq(Node(Len(records')))
      BY <1>4, <2>2, NewRecordTypes
    <3>2. r \in 0 .. Len(records') /\ Len(records') \in Nat
      BY <1>2, <2>2, <3>1
    <3>3. envs' \in Seq(TagTable(Len(records'))) /\ Len(envs') = Len(envs)
      BY <1>1, <2>2, <3>1, <3>2, AddTagSymbolType
    <3>4. spec' \in [rec : 0 .. Len(records'), closed : BOOLEAN]
      BY <1>4, <3>2
    <3>5. StateTyped'
      BY <1>2, <1>4, <3>1, <3>3, <3>4 DEF StateTyped
    <3>6. QED
      BY <1>2, <3>1, <3>3, <3>5
  <2>3. QED
    BY <2>1, <2>2 DEF TagSpec
<1>6. OutcomeTyped' /\ FramesNest' /\ ScopesMatch'
  BY <1>4, <1>5 DEF RecordInv, ParserInv, OutcomeTyped, FramesNest, ScopesMatch
<1>7. LoopInv'
  BY <1>1, <1>4 DEF LoopInv
<1>8. QED
  BY <1>1, <1>2, <1>4, <1>5, <1>6, <1>7 DEF ParserInv, NothingRemoved

\* A frame and a scope opened: a block, or a body of a record that exists.
LEMMA OpenFrameKeepsInv ==
  ASSUME RecordInv, AtDeclarator, RecordsTyped',
         Len(records) <= Len(records'), Len(records') \in Nat,
         frames \in Seq(Frame(Len(records'))), layout \in Layout(Len(records')),
         ast \in Seq(Node(Len(records'))),
         NEW body \in 0 .. Len(records'), OpenFrame(body),
         NEW es \in Seq(TagTable(Len(records'))), Len(es) = Len(envs), envs' = EnterScope(es),
         spec' \in [rec : 0 .. Len(records'), closed : BOOLEAN],
         UNCHANGED <<outcome, layout, ast>>
  PROVE  ParserInv' /\ NothingRemoved
<1>1. /\ outcome = "parsing" /\ layout.rec = 0 /\ Len(frames) >= 1
      /\ frames[1].body = 0 /\ Len(envs) = Len(frames) + 2
  BY AtDeclaratorFacts
<1>2. Len(frames) \in Nat /\ DOMAIN frames = 1 .. Len(frames) /\ Len(ast) \in Nat
  BY ParserTypes
<1>3. opened \in Nat
  BY DEF RecordInv, ParserInv, StateTyped
<1>4. /\ frames' \in Seq(Frame(Len(records'))) /\ opened' \in Nat
      /\ Len(frames') = Len(frames) + 1
      /\ \A i \in 1 .. Len(frames) : frames'[i] = frames[i]
      /\ frames'[Len(frames) + 1].vars = {}
  BY <1>3, OpenFrameType
<1>5. envs' \in Seq(TagTable(Len(records'))) /\ Len(envs') = Len(envs) + 1
  BY EnterScopeType
<1>6. StateTyped'
  BY <1>4, <1>5 DEF StateTyped
<1>7. OutcomeTyped'
  BY DEF RecordInv, ParserInv, OutcomeTyped
<1>8. FramesNest'
  <2>1. frames' # <<>>
    BY <1>2, <1>4
  <2>2. frames'[1].body = 0
    BY <1>1, <1>2, <1>4
  <2>3. DOMAIN frames' = 1 .. Len(frames) + 1
    BY <1>4
  <2>4. \A i \in DOMAIN frames' : \A v \in frames'[i].vars :
          v \in DOMAIN ast /\ ast[v].type.kind # "prim"
    BY SMTT(60), <1>2, <1>4, <2>3 DEF RecordInv, ParserInv, FramesNest
  <2>5. QED
    BY <2>1, <2>2, <2>4 DEF FramesNest
<1>9. ScopesMatch'
  BY <1>1, <1>2, <1>4, <1>5 DEF ScopesMatch
<1>10. LoopInv'
  BY <1>1 DEF LoopInv
<1>11. NothingRemoved
  BY <1>1, <1>2 DEF NothingRemoved
<1>12. QED
  BY <1>6, <1>7, <1>8, <1>9, <1>10, <1>11 DEF ParserInv

\* The body of the record just specified.
LEMMA OpenBodyKeepsInv ==
  ASSUME RecordInv, OpenBody
  PROVE  ParserInv' /\ NothingRemoved
<1>1. /\ AtDeclarator /\ OpenFrame(spec.rec) /\ envs' = EnterScope(envs) /\ spec' = NoSpec
      /\ UNCHANGED <<outcome, records, layout, ast>>
  BY DEF OpenBody
<1>2. RecordsTyped /\ StateTyped /\ Len(records) \in Nat
  BY ParserTypes DEF RecordInv, ParserInv
<1>3. RecordsTyped'
  BY <1>1, <1>2 DEF RecordsTyped
<1>4. spec.rec \in 0 .. Len(records')
  BY <1>1, <1>2 DEF StateTyped
<1>5. spec' \in [rec : 0 .. Len(records'), closed : BOOLEAN]
  BY <1>1, <1>2 DEF NoSpec
<1>6. /\ frames \in Seq(Frame(Len(records'))) /\ layout \in Layout(Len(records'))
      /\ ast \in Seq(Node(Len(records'))) /\ envs \in Seq(TagTable(Len(records')))
      /\ Len(records) <= Len(records') /\ Len(records') \in Nat
  BY <1>1, <1>2 DEF StateTyped
<1>7. QED
  BY <1>1, <1>3, <1>4, <1>5, <1>6, OpenFrameKeepsInv

\* A nested block.
LEMMA OpenBlockKeepsInv ==
  ASSUME RecordInv, OpenBlock
  PROVE  ParserInv' /\ NothingRemoved
<1>1. /\ AtDeclarator /\ OpenFrame(0) /\ envs' = EnterScope(envs)
      /\ UNCHANGED <<outcome, records, spec, layout, ast>>
  BY DEF OpenBlock, AtDeclaration
<1>2. RecordsTyped /\ StateTyped /\ Len(records) \in Nat
  BY ParserTypes DEF RecordInv, ParserInv
<1>3. RecordsTyped' /\ 0 \in 0 .. Len(records')
  BY <1>1, <1>2 DEF RecordsTyped
<1>4. /\ frames \in Seq(Frame(Len(records'))) /\ layout \in Layout(Len(records'))
      /\ ast \in Seq(Node(Len(records'))) /\ envs \in Seq(TagTable(Len(records')))
      /\ spec' \in [rec : 0 .. Len(records'), closed : BOOLEAN]
      /\ Len(records) <= Len(records') /\ Len(records') \in Nat
  BY <1>1, <1>2 DEF StateTyped
<1>5. QED
  BY <1>1, <1>3, <1>4, OpenFrameKeepsInv

\* A record without tag: made and opened at once, or reported.
LEMMA AnonymousSpecKeepsInv ==
  ASSUME RecordInv, NEW kind \in {"struct", "union"}, AnonymousSpec(kind)
  PROVE  ParserInv' /\ NothingRemoved
<1>1. AtDeclarator /\ RecordsTyped /\ StateTyped /\ Len(records) \in Nat /\ Len(envs) # 0
  BY AtDeclaratorFacts, ParserTypes
  DEF AnonymousSpec, AtDeclaration, RecordInv, ParserInv
<1>2. CASE Report("redefined")
  <2>1. spec' \in [rec : 0 .. Len(records), closed : BOOLEAN]
    BY <1>1, <1>2 DEF Report, StateTyped
  <2>2. QED
    BY <1>1, <1>2, <2>1, ReportKeepsInv DEF Report
<1>3. CASE /\ records' = Append(records, NewRecord(Brace, kind))
           /\ envs' = EnterScope(AddTagSymbol(Brace, Len(records) + 1))
           /\ OpenFrame(Len(records) + 1)
           /\ UNCHANGED <<outcome, spec, layout, ast>>
  <2>1. /\ Len(records') = Len(records) + 1
        /\ RecordsTyped'
        /\ envs \in Seq(TagTable(Len(records')))
        /\ frames \in Seq(Frame(Len(records')))
        /\ spec \in [rec : 0 .. Len(records'), closed : BOOLEAN]
        /\ layout \in Layout(Len(records'))
        /\ ast \in Seq(Node(Len(records')))
    BY <1>3, NewRecordTypes
  <2>2. /\ Len(records') \in Nat /\ Len(records) <= Len(records')
        /\ Len(records) + 1 \in 0 .. Len(records')
    BY <1>1, <2>1
  <2> DEFINE es == AddTagSymbol(Brace, Len(records) + 1)
  <2>3. es \in Seq(TagTable(Len(records'))) /\ Len(es) = Len(envs)
    BY <1>1, <2>1, <2>2, AddTagSymbolType
  <2>4. spec' \in [rec : 0 .. Len(records'), closed : BOOLEAN] /\ envs' = EnterScope(es)
    BY <1>3, <2>1
  <2> HIDE DEF es
  <2>5. QED
    BY <1>1, <1>3, <2>1, <2>2, <2>3, <2>4, OpenFrameKeepsInv
<1>4. QED
  BY <1>2, <1>3 DEF AnonymousSpec

\* A frame and its scope popped, by the end of a body or a block.
LEMMA CloseFrameFacts ==
  ASSUME RecordInv, AtDeclarator, Len(frames) > 1,
         frames' = Front(frames), envs' = ExitScope(envs), UNCHANGED <<outcome, ast>>
  PROVE  /\ frames' \in Seq(Frame(Len(records))) /\ envs' \in Seq(TagTable(Len(records)))
         /\ FramesNest' /\ ScopesMatch'
<1>1. /\ outcome = "parsing" /\ frames # <<>> /\ frames[1].body = 0
      /\ Len(envs) = Len(frames) + 2
  BY AtDeclaratorFacts
<1>2. /\ frames \in Seq(Frame(Len(records))) /\ envs \in Seq(TagTable(Len(records)))
      /\ Len(frames) \in Nat /\ DOMAIN frames = 1 .. Len(frames)
  BY ParserTypes DEF RecordInv, ParserInv, StateTyped
<1>3. envs # <<>>
  BY SMTT(60), <1>1, <1>2
<1>4. /\ frames' \in Seq(Frame(Len(records))) /\ Len(frames') = Len(frames) - 1
      /\ \A i \in 1 .. Len(frames) - 1 : frames'[i] = frames[i]
  BY <1>1, <1>2, FrontType
<1>5. envs' \in Seq(TagTable(Len(records))) /\ Len(envs') = Len(envs) - 1
  BY <1>2, <1>3, FrontType DEF ExitScope
<1>6. FramesNest'
  <2>1. frames' # <<>> /\ DOMAIN frames' = 1 .. Len(frames) - 1
    BY <1>2, <1>4
  <2>2. frames'[1].body = 0
    BY SMTT(60), <1>1, <1>2, <1>4
  <2>3. \A i \in DOMAIN frames' : \A v \in frames'[i].vars :
          v \in DOMAIN ast /\ ast[v].type.kind # "prim"
    BY SMTT(60), <1>2, <1>4, <2>1 DEF RecordInv, ParserInv, FramesNest
  <2>4. QED
    BY <2>1, <2>2, <2>3 DEF FramesNest
<1>7. ScopesMatch'
  BY <1>1, <1>2, <1>4, <1>5 DEF ScopesMatch
<1>8. QED
  BY <1>4, <1>5, <1>6, <1>7

\* The end of a nested block.
LEMMA CloseBlockKeepsInv ==
  ASSUME RecordInv, CloseBlock
  PROVE  ParserInv' /\ NothingRemoved
<1>1. /\ AtDeclarator /\ Len(frames) > 1
      /\ frames' = Front(frames) /\ envs' = ExitScope(envs)
      /\ UNCHANGED <<outcome, records, spec, layout, ast, opened>>
  BY DEF CloseBlock, AtDeclaration
<1>2. /\ frames' \in Seq(Frame(Len(records))) /\ envs' \in Seq(TagTable(Len(records)))
      /\ FramesNest' /\ ScopesMatch'
  BY <1>1, CloseFrameFacts
<1>3. OutcomeTyped' /\ RecordsTyped' /\ StateTyped'
  BY <1>1, <1>2 DEF RecordInv, ParserInv, OutcomeTyped, RecordsTyped, StateTyped
<1>4. LoopInv'
  BY <1>1 DEF LoopInv, AtDeclarator
<1>5. NothingRemoved
  BY <1>1, ParserTypes DEF NothingRemoved, AtDeclarator
<1>6. QED
  BY <1>2, <1>3, <1>4, <1>5 DEF ParserInv

\* The end of a body gives the record its members and starts the loop.
LEMMA CloseBodyKeepsInv ==
  ASSUME RecordInv, CloseBody
  PROVE  ParserInv' /\ NothingRemoved
<1> DEFINE n == Len(records)
           r == Top.body
           new == [records[r] EXCEPT !.members = Top.members]
<1>1. /\ AtDeclarator /\ r # 0
      /\ frames' = Front(frames) /\ envs' = ExitScope(envs)
      /\ layout' = [NoLayout EXCEPT !.rec = r]
      /\ spec' = [rec |-> r, closed |-> TRUE]
      /\ UNCHANGED <<outcome, ast, opened>>
  BY DEF CloseBody, AtDeclaration, InBlock
<1>2. records' = [records EXCEPT ![r] = new]
  BY DEF CloseBody
<1>3. /\ Len(frames) >= 1 /\ frames[1].body = 0
      /\ Top = frames[Len(frames)] /\ Top \in Frame(n)
  BY <1>1, AtDeclaratorFacts
<1>4. Len(frames) > 1
  BY <1>1, <1>3, ParserTypes
<1>5. records \in Seq(Record) /\ n \in Nat /\ DOMAIN records = 1 .. n
  BY ParserTypes DEF RecordInv, ParserInv, RecordsTyped
<1>6. r \in 1 .. n /\ Top.members \in Members(n)
  BY <1>1, <1>3, <1>5 DEF Frame, Members
<1>7. new \in Record /\ new.members = Top.members
  <2>1. records[r] \in Record
    BY <1>5, <1>6
  <2>2. Top.members \in Seq(Type)
    <3>1. MemberType(n) \subseteq Type
      BY DEF MemberType
    <3>2. QED
      BY <1>6, <3>1, SeqMonotonic, Zenon DEF Members
  <2>3. QED
    BY <2>1, <2>2 DEF Record
<1> HIDE DEF new, r
<1>8. /\ records' \in Seq(Record) /\ Len(records') = n
      /\ \A i \in 1 .. n : records'[i] = IF i = r THEN new ELSE records[i]
  BY <1>2, <1>5, <1>6, <1>7
<1>9. RecordsTyped'
  <2>1. \A i \in 1 .. n : records[i].members \in Members(n)
    BY <1>5 DEF RecordInv, ParserInv, RecordsTyped
  <2>2. \A i \in 1 .. n : records'[i].members \in Members(n)
    BY <1>6, <1>7, <1>8, <2>1
  <2>3. DOMAIN records' = 1 .. n
    BY <1>8
  <2>4. \A i \in (1 .. n) \ {r} :
          records'[i].members # <<>> => records'[i].maxElementIdx \in DOMAIN records'[i].members
    BY <1>1, <1>5, <1>8 DEF RecordInv, ParserInv, RecordsTyped, AtDeclarator
  <2>5. layout'.rec = r
    BY <1>1 DEF NoLayout
  <2>6. QED
    BY <1>8, <2>2, <2>3, <2>4, <2>5 DEF RecordsTyped
<1>10. /\ frames' \in Seq(Frame(n)) /\ envs' \in Seq(TagTable(n))
       /\ FramesNest' /\ ScopesMatch'
  BY <1>1, <1>4, CloseFrameFacts
<1>11. layout' \in Layout(n) /\ layout'.rec = r /\ layout'.next = 1 /\ layout'.offset = 0
       /\ layout'.offsets = <<>> /\ layout'.maxAlign = 0 /\ layout'.maxSize = 0
       /\ layout'.maxIdx = 1
  <2>1. NoLayout = [rec |-> 0, next |-> 1, offset |-> 0, offsets |-> <<>>,
                    maxAlign |-> 0, maxSize |-> 0, maxIdx |-> 1]
    BY DEF NoLayout
  <2>2. <<>> \in Seq(Int) /\ r \in 0 .. n
    BY <1>5, <1>6
  <2>3. layout' = [rec |-> r, next |-> 1, offset |-> 0, offsets |-> <<>>,
                   maxAlign |-> 0, maxSize |-> 0, maxIdx |-> 1]
    BY <1>1, <2>1
  <2>4. layout' \in Layout(n)
    BY <2>2, <2>3 DEF Layout
  <2>5. QED
    BY <2>3, <2>4
<1>12. StateTyped'
  <2>1. ast \in Seq(Node(n)) /\ opened \in Nat
    BY DEF RecordInv, ParserInv, StateTyped
  <2>2. spec' \in [rec : 0 .. n, closed : BOOLEAN]
    BY <1>1, <1>5, <1>6
  <2>3. QED
    BY <1>1, <1>8, <1>10, <1>11, <2>1, <2>2 DEF StateTyped
<1>13. LoopInv'
  <2>1. LaidOutMembers' = new.members
    BY <1>6, <1>8, <1>11 DEF LaidOutMembers
  <2>2. Len(new.members) \in Nat
    BY <1>6, <1>7 DEF Members
  <2>3. Len(<<>>) = 0 /\ DOMAIN <<>> = {}
    OBVIOUS
  <2>4. layout'.next <= Len(LaidOutMembers') + 1 /\ Len(layout'.offsets) = layout'.next - 1
    BY <1>11, <2>1, <2>2, <2>3
  <2>5. MembersPlaced(records', layout'.rec, layout'.offsets)
    BY <1>11, <2>3 DEF MembersPlaced
  <2>6. OffsetReached'
    BY <1>11 DEF OffsetReached, EndBefore
  <2>7. MaximaSeen'
    BY <1>11 DEF MaximaSeen
  <2>8. QED
    BY <1>11, <2>4, <2>5, <2>6, <2>7 DEF LoopInv
<1>14. OutcomeTyped'
  BY <1>1 DEF RecordInv, ParserInv, OutcomeTyped, AtDeclarator
<1>15. NothingRemoved
  BY <1>1, <1>5, <1>8, ParserTypes DEF NothingRemoved, AtDeclarator
<1>16. QED
  BY <1>9, <1>10, <1>12, <1>13, <1>14, <1>15 DEF ParserInv

\* A round of the loop changes nothing but the loop's variables.
LEMMA LayoutMemberKeepsInv ==
  ASSUME RecordInv, LayoutMember
  PROVE  ParserInv' /\ NothingRemoved
<1>1. UNCHANGED <<outcome, envs, records, frames, spec, ast, opened>>
  BY DEF LayoutMember
<1>2. StateTyped'
  BY <1>1, LayoutMemberType DEF RecordInv, ParserInv, StateTyped
<1>3. OutcomeTyped' /\ RecordsTyped' /\ FramesNest' /\ ScopesMatch'
  BY <1>1, LayoutMemberType
  DEF RecordInv, ParserInv, OutcomeTyped, RecordsTyped, FramesNest, ScopesMatch
<1>4. NothingRemoved
  BY <1>1, ParserTypes
  DEF NothingRemoved, LayoutMember, RecordInv, ParserInv, OutcomeTyped
<1>5. QED
  BY <1>2, <1>3, <1>4, LayoutMemberKeepsLoopInv DEF ParserInv

\* After the loop the largest member of the record is one of its members.
LEMMA FinishLayoutKeepsInv ==
  ASSUME RecordInv, FinishLayout
  PROVE  ParserInv' /\ NothingRemoved
<1>1. layout' = NoLayout /\ UNCHANGED <<outcome, envs, frames, spec, ast, opened>>
  BY DEF FinishLayout
<1>2. /\ records' \in Seq(Record) /\ Len(records') = Len(records)
      /\ \A i \in DOMAIN records : records'[i].members = records[i].members
  BY FinishLayoutRecords
<1>3. Len(records) \in Nat /\ DOMAIN records = 1 .. Len(records) /\ Len(ast) \in Nat
  BY ParserTypes
<1>4. DOMAIN records' = 1 .. Len(records)
  BY <1>2, <1>3
<1>5. RecordsTyped'
  <2>1. \A r \in DOMAIN records' :
          records'[r].members # <<>> => records'[r].maxElementIdx \in DOMAIN records'[r].members
    <3> SUFFICES ASSUME NEW r \in 1 .. Len(records), records[r].members # <<>>
                 PROVE  records'[r].maxElementIdx \in DOMAIN records[r].members
      BY <1>2, <1>3, <1>4
    <3>1. CASE r = layout.rec
      <4>1. records'[r].maxElementIdx = layout.maxIdx
        <5>1. records[r] \in Record
          BY <3>1, LaidOutMembersType DEF FinishLayout
        <5>2. QED
          BY <3>1, <5>1, FinishLayoutRecords DEF Record
      <4>2. layout.rec # 0 /\ layout.next > Len(LaidOutMembers)
        BY DEF FinishLayout
      <4>3. /\ layout.next <= Len(LaidOutMembers) + 1
            /\ layout.maxIdx = 1 \/ layout.maxIdx < layout.next
        BY <4>2 DEF RecordInv, ParserInv, LoopInv
      <4>4. /\ layout.maxIdx \in Nat \ {0} /\ layout.next \in Nat
            /\ LaidOutMembers \in Members(Len(records)) /\ LaidOutMembers # <<>>
        BY <3>1, <4>2, LaidOutMembersType DEF Layout, LaidOutMembers
      <4>5. /\ DOMAIN LaidOutMembers = 1 .. Len(LaidOutMembers)
            /\ Len(LaidOutMembers) \in Nat \ {0}
        BY <4>4 DEF Members
      <4>6. layout.maxIdx \in 1 .. Len(LaidOutMembers)
        BY <4>3, <4>4, <4>5
      <4>7. QED
        BY <3>1, <4>1, <4>5, <4>6 DEF LaidOutMembers
    <3>2. CASE r # layout.rec
      <4>1. records'[r] = records[r]
        BY <3>2, <1>3, FinishLayoutRecords
      <4>2. QED
        BY <3>2, <4>1, <1>3 DEF RecordInv, ParserInv, RecordsTyped
    <3>3. QED
      BY <3>1, <3>2
  <2>2. QED
    BY <1>2, <1>3, <1>4, <2>1 DEF RecordInv, ParserInv, RecordsTyped
<1>6. StateTyped'
  <2>1. NoLayout \in Layout(Len(records))
    <3>1. <<>> \in Seq(Int) /\ 0 \in 0 .. Len(records)
      BY <1>3
    <3>2. QED
      BY <3>1 DEF NoLayout, Layout
  <2>2. QED
    BY <1>1, <1>2, <2>1 DEF RecordInv, ParserInv, StateTyped
<1>7. OutcomeTyped' /\ FramesNest' /\ ScopesMatch'
  BY <1>1 DEF RecordInv, ParserInv, OutcomeTyped, FramesNest, ScopesMatch, NoLayout
<1>8. LoopInv'
  BY <1>1 DEF LoopInv, NoLayout
<1>9. NothingRemoved
  BY <1>1, <1>3 DEF NothingRemoved, FinishLayout, RecordInv, ParserInv, OutcomeTyped
<1>10. QED
  BY <1>5, <1>6, <1>7, <1>8, <1>9 DEF ParserInv

\* A semicolon after a specifier.
LEMMA NoDeclaratorKeepsInv ==
  ASSUME RecordInv, NoDeclarator
  PROVE  ParserInv' /\ NothingRemoved
<1>1. AtDeclarator /\ UNCHANGED <<envs, records, frames, layout, ast, opened>>
  BY DEF NoDeclarator
<1>2. /\ spec \in [rec : 0 .. Len(records), closed : BOOLEAN]
      /\ NoSpec \in [rec : 0 .. Len(records), closed : BOOLEAN]
  BY ParserTypes DEF RecordInv, ParserInv, StateTyped, NoSpec
<1>3. CASE spec' = NoSpec /\ UNCHANGED outcome
  <2>1. StateTyped'
    BY <1>1, <1>2, <1>3 DEF RecordInv, ParserInv, StateTyped
  <2>2. OutcomeTyped' /\ RecordsTyped' /\ FramesNest' /\ ScopesMatch'
    BY <1>1, <1>3 DEF RecordInv, ParserInv, OutcomeTyped, RecordsTyped, FramesNest, ScopesMatch
  <2>3. LoopInv'
    BY <1>1 DEF LoopInv, AtDeclarator
  <2>4. NothingRemoved
    BY <1>1, ParserTypes DEF NothingRemoved, AtDeclarator
  <2>5. QED
    BY <2>1, <2>2, <2>3, <2>4 DEF ParserInv
<1>4. CASE outcome' = "crashed" /\ UNCHANGED spec
  BY <1>1, <1>2, <1>4, ReportKeepsInv
<1>5. QED
  BY <1>3, <1>4 DEF NoDeclarator

\* A node appended to the AST, which may be a variable of the innermost block.
LEMMA AppendNodeTypes ==
  ASSUME RecordInv, NEW node \in Node(Len(records)), ast' = Append(ast, node)
  PROVE  /\ ast' \in Seq(Node(Len(records))) /\ Len(ast') = Len(ast) + 1
         /\ DOMAIN ast' = 1 .. Len(ast) + 1
         /\ \A v \in DOMAIN ast : ast'[v] = ast[v]
         /\ ast'[Len(ast) + 1] = node
<1>1. ast \in Seq(Node(Len(records)))
  BY DEF RecordInv, ParserInv, StateTyped
<1>2. QED
  BY <1>1

\* The innermost frame changed, but not what it is the frame of.
LEMMA ChangeTopTypes ==
  ASSUME RecordInv, AtDeclarator,
         NEW new \in Frame(Len(records)), new.body = Top.body,
         frames' = [frames EXCEPT ![Len(frames)] = new]
  PROVE  /\ frames' \in Seq(Frame(Len(records))) /\ Len(frames') = Len(frames)
         /\ frames' # <<>> /\ frames'[1].body = 0
         /\ DOMAIN frames' = 1 .. Len(frames)
         /\ \A i \in 1 .. Len(frames) : frames'[i] = IF i = Len(frames) THEN new ELSE frames[i]
<1> DEFINE top == Len(frames)
<1>1. /\ frames \in Seq(Frame(Len(records))) /\ top \in 1 .. Len(frames)
      /\ frames[1].body = 0 /\ Top = frames[top]
  BY AtDeclaratorFacts, ParserTypes DEF RecordInv, ParserInv, StateTyped
<1>2. frames' = [frames EXCEPT ![top] = new]
  OBVIOUS
<1>3. Len(frames) \in Nat /\ Len(frames) >= 1
  BY AtDeclaratorFacts, ParserTypes
<1> HIDE DEF top
<1>4. /\ frames' \in Seq(Frame(Len(records))) /\ Len(frames') = Len(frames)
      /\ \A i \in 1 .. Len(frames) : frames'[i] = IF i = top THEN new ELSE frames[i]
  BY <1>1, <1>2
<1>5. frames'[1].body = 0
  <2>1. 1 \in 1 .. Len(frames)
    BY SMTT(60), <1>3
  <2>2. CASE top = 1
    BY ZenonT(60), <1>1, <1>4, <2>1, <2>2
  <2>3. CASE top # 1
    BY <1>1, <1>4, <2>1, <2>3
  <2>4. QED
    BY <2>2, <2>3
<1>6. DOMAIN frames' = 1 .. Len(frames)
  <2>1. DOMAIN frames' = 1 .. Len(frames')
    BY <1>4, LenProperties, Zenon
  <2>2. QED
    BY <1>4, <2>1, Zenon
<1>7. frames' # <<>>
  <2>1. Len(<<>>) = 0 /\ Len(frames) # 0
    BY <1>3
  <2>2. QED
    BY <1>4, <2>1, Zenon
<1>8. QED
  BY <1>4, <1>5, <1>6, <1>7 DEF top

\* A declarator adds a member to a body or a variable to a block.
LEMMA DeclareKeepsInv ==
  ASSUME RecordInv, AtDeclarator, NEW t \in MemberType(Len(records)), Declare(t),
         InBlock => t.kind # "prim"
  PROVE  ParserInv' /\ NothingRemoved
<1> DEFINE n == Len(records)
<1>1. /\ spec' = NoSpec
      /\ UNCHANGED <<outcome, envs, records, layout, opened>>
  BY DEF Declare
<1>2. /\ n \in Nat /\ Len(ast) \in Nat /\ DOMAIN ast = 1 .. Len(ast) /\ Len(frames) \in Nat
      /\ DOMAIN frames = 1 .. Len(frames) /\ frames \in Seq(Frame(n))
      /\ Len(frames) \in 1 .. Len(frames) /\ Top = frames[Len(frames)] /\ Top \in Frame(n)
  BY ParserTypes, AtDeclaratorFacts DEF RecordInv, ParserInv, StateTyped
<1>3. /\ frames' \in Seq(Frame(n)) /\ Len(frames') = Len(frames)
      /\ ast' \in Seq(Node(n)) /\ Len(ast) <= Len(ast') /\ FramesNest'
  <2>1. CASE /\ InBlock
             /\ ast' = Append(ast, [kind |-> "decl", type |-> t, rec |-> 0, idx |-> 0])
             /\ frames' = [frames EXCEPT ![Len(frames)].vars = @ \cup {Len(ast) + 1}]
    <3> DEFINE node == [kind |-> "decl", type |-> t, rec |-> 0, idx |-> 0]
               new == [Top EXCEPT !.vars = @ \cup {Len(ast) + 1}]
    <3>1. node \in Node(n)
      BY <1>2 DEF Node
    <3>2. new \in Frame(n) /\ new.body = Top.body /\ new.vars = Top.vars \cup {Len(ast) + 1}
      <4> DEFINE vs == Top.vars \cup {Len(ast) + 1}
      <4>1. vs \in SUBSET Nat
        BY <1>2 DEF Frame
      <4> HIDE DEF vs
      <4>2. [Top EXCEPT !.vars = vs] \in Frame(n)
        BY <1>2, <4>1 DEF Frame
      <4>3. [Top EXCEPT !.vars = vs].body = Top.body /\ [Top EXCEPT !.vars = vs].vars = vs
        BY <1>2 DEF Frame
      <4>4. QED
        BY <4>2, <4>3 DEF vs
    <3>3. frames' = [frames EXCEPT ![Len(frames)] = new]
      BY <2>1, <1>2
    <3>4. ast' = Append(ast, node) /\ node.type.kind # "prim"
      BY <2>1
    <3> HIDE DEF node, new
    <3>5. /\ ast' \in Seq(Node(n)) /\ Len(ast') = Len(ast) + 1
          /\ DOMAIN ast' = 1 .. Len(ast) + 1
          /\ \A v \in DOMAIN ast : ast'[v] = ast[v]
          /\ ast'[Len(ast) + 1] = node
      BY <3>1, <3>4, AppendNodeTypes
    <3>6. /\ frames' \in Seq(Frame(n)) /\ Len(frames') = Len(frames)
          /\ frames' # <<>> /\ frames'[1].body = 0
          /\ DOMAIN frames' = 1 .. Len(frames)
          /\ \A i \in 1 .. Len(frames) :
               frames'[i] = IF i = Len(frames) THEN new ELSE frames[i]
      BY <3>2, <3>3, ChangeTopTypes
    <3>7. \A i \in DOMAIN frames' : \A v \in frames'[i].vars :
            v \in DOMAIN ast' /\ ast'[v].type.kind # "prim"
      <4> SUFFICES ASSUME NEW i \in 1 .. Len(frames), NEW v \in frames'[i].vars
                   PROVE  v \in DOMAIN ast' /\ ast'[v].type.kind # "prim"
        BY <3>6
      <4>1. CASE v = Len(ast) + 1
        BY <4>1, <3>4, <3>5, <1>2
      <4>2. CASE v # Len(ast) + 1
        <5>1. v \in frames[i].vars
          BY <4>2, <3>2, <3>6, <1>2
        <5>2. v \in DOMAIN ast /\ ast[v].type.kind # "prim"
          BY SMTT(60), <5>1, <1>2 DEF RecordInv, ParserInv, FramesNest
        <5>3. QED
          BY SMTT(60), <5>2, <3>5, <1>2
      <4>3. QED
        BY <4>1, <4>2
    <3>8. FramesNest'
      BY <3>6, <3>7 DEF FramesNest
    <3>9. Len(ast) <= Len(ast')
      BY <1>2, <3>5
    <3>10. QED
      BY <3>5, <3>6, <3>8, <3>9
  <2>2. CASE /\ ~InBlock
             /\ frames' = [frames EXCEPT ![Len(frames)].members = Append(@, t)]
             /\ UNCHANGED ast
    <3> DEFINE new == [Top EXCEPT !.members = Append(@, t)]
    <3>1. new \in Frame(n) /\ new.body = Top.body /\ new.vars = Top.vars
      <4>1. Append(Top.members, t) \in Seq(MemberType(n))
        BY <1>2 DEF Frame
      <4>2. QED
        BY <1>2, <4>1 DEF Frame
    <3>2. frames' = [frames EXCEPT ![Len(frames)] = new]
      BY <2>2, <1>2
    <3> HIDE DEF new
    <3>3. /\ frames' \in Seq(Frame(n)) /\ Len(frames') = Len(frames)
          /\ frames' # <<>> /\ frames'[1].body = 0
          /\ DOMAIN frames' = 1 .. Len(frames)
          /\ \A i \in 1 .. Len(frames) :
               frames'[i] = IF i = Len(frames) THEN new ELSE frames[i]
      BY <3>1, <3>2, ChangeTopTypes
    <3>4. \A i \in 1 .. Len(frames) : frames'[i].vars = frames[i].vars
      BY <3>1, <3>3, <1>2
    <3>5. FramesNest'
      BY <2>2, <3>3, <3>4, <1>2 DEF RecordInv, ParserInv, FramesNest
    <3>6. ast \in Seq(Node(n))
      BY DEF RecordInv, ParserInv, StateTyped
    <3>7. QED
      BY <2>2, <1>2, <3>3, <3>5, <3>6
  <2>3. QED
    BY SMTT(60), <2>1, <2>2 DEF Declare
<1>4. StateTyped'
  <2>1. NoSpec \in [rec : 0 .. n, closed : BOOLEAN]
    BY <1>2 DEF NoSpec
  <2>2. QED
    BY <1>1, <1>3, <2>1 DEF RecordInv, ParserInv, StateTyped
<1>5. OutcomeTyped' /\ RecordsTyped' /\ ScopesMatch'
  BY <1>1, <1>3 DEF RecordInv, ParserInv, OutcomeTyped, RecordsTyped, ScopesMatch
<1>6. LoopInv'
  BY <1>1 DEF LoopInv, AtDeclarator
<1>7. NothingRemoved
  BY <1>1, <1>2, <1>3 DEF NothingRemoved, AtDeclarator
<1>8. QED
  BY <1>3, <1>4, <1>5, <1>6, <1>7 DEF ParserInv

\* A member that refers to no record.
LEMMA DeclarePrimKeepsInv ==
  ASSUME RecordInv, NEW p \in Prims, DeclarePrim(p)
  PROVE  ParserInv' /\ NothingRemoved
<1>1. AtDeclarator /\ ~InBlock /\ Declare(Prim(p))
  BY DEF DeclarePrim, AtDeclaration
<1>2. Prim(p) \in MemberType(Len(records))
  <2>1. p \in [size : Int, align : Alignments] /\ Alignments \subseteq Nat
    BY PrimsAssumption DEF Alignments
  <2>2. p.size \in Int /\ p.align \in Alignments /\ p.align \in Nat
    BY <2>1
  <2>3. Prim(p) \in Type
    BY <2>2 DEF Prim, Type
  <2>4. 0 <= Len(records)
    BY ParserTypes
  <2>5. QED
    BY <2>2, <2>3, <2>4 DEF Prim, MemberType
<1>3. QED
  BY <1>1, <1>2, DeclareKeepsInv

\* A member or variable of a record, or of a pointer to one.
LEMMA DeclareRecordKeepsInv ==
  ASSUME RecordInv, DeclarePointer \/ DeclareObject
  PROVE  ParserInv' /\ NothingRemoved
<1>1. /\ AtDeclarator /\ spec.rec # 0
      /\ Declare(PointerTo(spec.rec)) \/ Declare(RecordOf(spec.rec))
  BY DEF DeclarePointer, DeclareObject
<1>2. spec.rec \in 0 .. Len(records) /\ Len(records) \in Nat
  BY ParserTypes DEF RecordInv, ParserInv, StateTyped
<1>3. /\ PointerTo(spec.rec) \in MemberType(Len(records))
      /\ RecordOf(spec.rec) \in MemberType(Len(records))
      /\ PointerTo(spec.rec).kind # "prim" /\ RecordOf(spec.rec).kind # "prim"
  BY <1>1, <1>2 DEF PointerTo, RecordOf, MemberType, Type, Alignments
<1>4. QED
  BY <1>1, <1>3, DeclareKeepsInv

\* A member access is to a variable whose type refers to a record.
LEMMA AccessKeepsInv ==
  ASSUME RecordInv, NEW v \in VisibleVars, NEW k \in 1 .. MaxMembers, Access(v, k)
  PROVE  ParserInv' /\ NothingRemoved
<1> DEFINE r == ast[v].type.ref
<1>1. AtDeclarator
  BY DEF Access, AtDeclaration
<1>2. CASE Report("miss")
  <2>1. spec' \in [rec : 0 .. Len(records), closed : BOOLEAN]
    BY <1>2 DEF Report, RecordInv, ParserInv, StateTyped
  <2>2. QED
    BY <1>1, <1>2, <2>1, ReportKeepsInv DEF Report
<1>3. CASE /\ k \in DOMAIN records[r].members
           /\ ast' = Append(ast, MemberNode(r, k))
           /\ UNCHANGED <<outcome, envs, records, frames, spec, layout, opened>>
  <2>1. Len(records) \in Nat /\ DOMAIN records = 1 .. Len(records) /\ DOMAIN ast = 1 .. Len(ast)
    BY ParserTypes
  <2>2. v \in DOMAIN ast /\ ast[v].type.kind # "prim"
    BY DEF VisibleVars, RecordInv, ParserInv, FramesNest
  <2>3. ast[v] \in Node(Len(records))
    BY <2>1, <2>2 DEF RecordInv, ParserInv, StateTyped
  <2>4. r \in 1 .. Len(records)
    BY <2>2, <2>3 DEF Node, MemberType, Type
  <2> HIDE DEF r
  <2>5. records[r].members \in Seq(MemberType(Len(records)))
    BY <2>1, <2>4 DEF RecordInv, ParserInv, RecordsTyped, Members
  <2>6. records[r].members[k] \in MemberType(Len(records)) /\ k \in Nat
    BY <1>3, <2>5
  <2>7. MemberNode(r, k) \in Node(Len(records))
    BY <2>4, <2>6 DEF MemberNode, Node
  <2>8. /\ ast' \in Seq(Node(Len(records))) /\ Len(ast') = Len(ast) + 1
        /\ DOMAIN ast' = 1 .. Len(ast) + 1
        /\ \A w \in DOMAIN ast : ast'[w] = ast[w]
    BY <1>3, <2>7, AppendNodeTypes
  <2>9. StateTyped'
    BY <1>3, <2>8 DEF RecordInv, ParserInv, StateTyped
  <2>10. FramesNest'
    <3>1. \A i \in DOMAIN frames : \A w \in frames[i].vars :
            w \in DOMAIN ast' /\ ast'[w].type.kind # "prim"
      BY <2>1, <2>8, ParserTypes DEF RecordInv, ParserInv, FramesNest
    <3>2. QED
      BY <1>3, <3>1 DEF RecordInv, ParserInv, FramesNest
  <2>11. OutcomeTyped' /\ RecordsTyped' /\ ScopesMatch'
    BY <1>3 DEF RecordInv, ParserInv, OutcomeTyped, RecordsTyped, ScopesMatch
  <2>12. LoopInv'
    BY <1>1, <1>3 DEF LoopInv, AtDeclarator
  <2>13. NothingRemoved
    BY <1>1, <1>3, <2>8, ParserTypes DEF NothingRemoved, AtDeclarator
  <2>14. QED
    BY <2>9, <2>10, <2>11, <2>12, <2>13 DEF ParserInv
<1>4. QED
  BY <1>2, <1>3 DEF Access

\* The end of the function leaves the scope of the file.
LEMMA EndFunctionKeepsInv ==
  ASSUME RecordInv, EndFunction
  PROVE  ParserInv' /\ NothingRemoved
<1>1. /\ AtDeclarator /\ Len(frames) = 1 /\ outcome' = "parsed" /\ frames' = <<>>
      /\ envs' = Front(Front(envs))
      /\ UNCHANGED <<records, spec, layout, ast, opened>>
  BY DEF EndFunction, AtDeclaration, ExitScope
<1>2. envs \in Seq(TagTable(Len(records))) /\ Len(envs) = 3
  BY <1>1, AtDeclaratorFacts DEF RecordInv, ParserInv, StateTyped
<1>3. Front(envs) \in Seq(TagTable(Len(records))) /\ Len(Front(envs)) = 2
  <2>1. envs # <<>>
    BY SMTT(60), <1>2
  <2>2. Front(envs) \in Seq(TagTable(Len(records))) /\ Len(Front(envs)) = Len(envs) - 1
    BY <1>2, <2>1, FrontType, Zenon
  <2>3. QED
    BY <1>2, <2>2
<1>4. envs' \in Seq(TagTable(Len(records))) /\ Len(envs') = 1
  <2>1. Front(envs) # <<>>
    BY <1>3
  <2>2. /\ Front(Front(envs)) \in Seq(TagTable(Len(records)))
        /\ Len(Front(Front(envs))) = Len(Front(envs)) - 1
    BY <1>3, <2>1, FrontType, Zenon
  <2>3. QED
    BY <1>1, <1>3, <2>2
<1>5. StateTyped'
  <2>1. <<>> \in Seq(Frame(Len(records)))
    OBVIOUS
  <2>2. QED
    BY <1>1, <1>4, <2>1 DEF RecordInv, ParserInv, StateTyped
<1>6. OutcomeTyped' /\ RecordsTyped' /\ FramesNest' /\ ScopesMatch'
  BY <1>1, <1>4
  DEF RecordInv, ParserInv, OutcomeTyped, RecordsTyped, FramesNest, ScopesMatch, AtDeclarator
<1>7. LoopInv'
  BY <1>1 DEF LoopInv, AtDeclarator
<1>8. NothingRemoved
  BY <1>1, ParserTypes DEF NothingRemoved, AtDeclarator
<1>9. QED
  BY <1>5, <1>6, <1>7, <1>8 DEF ParserInv

\* Every step of the parser keeps the invariant.
LEMMA ParseKeepsInv ==
  ASSUME RecordInv, Parse
  PROVE  RecordInv'
<1>1. ParserInv' /\ NothingRemoved
  <2>1. ASSUME NEW kind \in {"struct", "union"}, NEW t \in Tags, TagSpec(t, kind)
        PROVE  ParserInv' /\ NothingRemoved
    BY <2>1, TagSpecKeepsInv
  <2>2. ASSUME NEW kind \in {"struct", "union"}, AnonymousSpec(kind)
        PROVE  ParserInv' /\ NothingRemoved
    BY <2>2, AnonymousSpecKeepsInv
  <2>3. CASE OpenBody
    BY <2>3, OpenBodyKeepsInv
  <2>4. CASE CloseBody
    BY <2>4, CloseBodyKeepsInv
  <2>5. CASE LayoutMember
    BY <2>5, LayoutMemberKeepsInv
  <2>6. CASE FinishLayout
    BY <2>6, FinishLayoutKeepsInv
  <2>7. ASSUME NEW p \in Prims, DeclarePrim(p)
        PROVE  ParserInv' /\ NothingRemoved
    BY <2>7, DeclarePrimKeepsInv
  <2>8. CASE DeclarePointer \/ DeclareObject
    BY <2>8, DeclareRecordKeepsInv
  <2>9. CASE NoDeclarator
    BY <2>9, NoDeclaratorKeepsInv
  <2>10. ASSUME NEW v \in VisibleVars, NEW k \in 1 .. MaxMembers, Access(v, k)
         PROVE  ParserInv' /\ NothingRemoved
    BY <2>10, AccessKeepsInv
  <2>11. CASE OpenBlock
    BY <2>11, OpenBlockKeepsInv
  <2>12. CASE CloseBlock
    BY <2>12, CloseBlockKeepsInv
  <2>13. CASE EndFunction
    BY <2>13, EndFunctionKeepsInv
  <2>14. QED
    BY <2>1, <2>2, <2>3, <2>4, <2>5, <2>6, <2>7, <2>8, <2>9, <2>10, <2>11, <2>12, <2>13, Zenon
    DEF Parse, ParserNext
<1>2. Len(ast) \in Nat /\ Len(ast') \in Nat
  <2>1. Len(ast) \in Nat
    BY ParserTypes
  <2>2. ast' \in Seq(Node(Len(records)))'
    BY <1>1 DEF ParserInv, StateTyped
  <2>3. QED
    BY <2>1, <2>2
<1>3. CodeGenTyped'
  BY <1>1, <1>2, CodeGenKept DEF Parse, RecordInv
<1>4. QED
  BY <1>1, <1>3 DEF RecordInv

-----------------------------------------------------------------------------
(* CodeGen *)

\* The member types that VisitRecordType goes through.
LEMMA VisitedMembersType ==
  ASSUME RecordInv, outcome = "parsed", NEW r \in 1 .. Len(records),
         records[r].kind = "struct" \/ records[r].members # <<>>
  PROVE  VisitedMembers(r) \in Seq(MemberType(Len(records)))
<1>1. DOMAIN records = 1 .. Len(records) /\ layout.rec = 0
  BY ParserTypes DEF RecordInv, ParserInv, OutcomeTyped
<1>2. records[r].members \in Seq(MemberType(Len(records)))
  BY <1>1 DEF RecordInv, ParserInv, RecordsTyped, Members
<1>3. CASE records[r].kind = "struct"
  BY <1>2, <1>3 DEF VisitedMembers
<1>4. CASE records[r].kind # "struct"
  <2> DEFINE largest == records[r].members[records[r].maxElementIdx]
  <2>1. records[r].maxElementIdx \in DOMAIN records[r].members
    BY <1>1, <1>4 DEF RecordInv, ParserInv, RecordsTyped
  <2>2. largest \in MemberType(Len(records))
    BY <1>2, <2>1
  <2> HIDE DEF largest
  <2>3. <<largest>> \in Seq(MemberType(Len(records)))
    BY <2>2
  <2>4. QED
    BY <1>4, <2>3 DEF VisitedMembers, largest
<1>5. QED
  BY <1>3, <1>4

\* A type that has to be visited is of a record.
LEMMA ToVisitType ==
  ASSUME NEW n \in Nat, NEW t \in MemberType(n), ToVisit(t)
  PROVE  t.ref \in 1 .. n
BY DEF ToVisit, MemberType, Type

\* Visiting a record: a new frame on the stack, or the end.
LEMMA EnterRecordType ==
  ASSUME RecordInv, NEW r \in 1 .. Len(records), NEW callers \in Seq(VisitFrame),
         \A i \in DOMAIN callers :
           records[callers[i].rec].kind = "struct" \/ records[callers[i].rec].members # <<>>,
         gen = "visiting", outcome = "parsed", EnterRecord(r, callers), UNCHANGED parserVars
  PROVE  CodeGenTyped'
<1>1. UNCHANGED <<records, ast, outcome>> /\ pos' = pos
  BY DEF parserVars, EnterRecord, Crash
<1>2. CASE Crash
  BY <1>1, <1>2 DEF Crash, CodeGenTyped, RecordInv, VisitFrame
<1>3. CASE /\ records[r].kind = "struct" \/ records[r].members # <<>>
           /\ stack' = Append(callers, [rec |-> r, next |-> 1])
           /\ gen' = gen
  <2> DEFINE f == [rec |-> r, next |-> 1]
  <2>1. f \in VisitFrame /\ f.rec = r
    BY DEF VisitFrame
  <2>2. stack' = Append(callers, f)
    BY <1>3
  <2> HIDE DEF f
  <2>3. /\ stack' \in Seq(VisitFrame) /\ DOMAIN stack' = 1 .. Len(callers) + 1
        /\ \A i \in 1 .. Len(callers) : stack'[i] = callers[i]
        /\ stack'[Len(callers) + 1] = f
    BY <2>1, <2>2
  <2>4. DOMAIN callers = 1 .. Len(callers) /\ Len(callers) \in Nat
    OBVIOUS
  <2>5. \A i \in DOMAIN stack' :
          records[stack'[i].rec].kind = "struct" \/ records[stack'[i].rec].members # <<>>
    <3> SUFFICES ASSUME NEW i \in 1 .. Len(callers) + 1
                 PROVE  \/ records[stack'[i].rec].kind = "struct"
                        \/ records[stack'[i].rec].members # <<>>
      BY <2>3
    <3>1. CASE i = Len(callers) + 1
      BY <3>1, <1>3, <2>1, <2>3
    <3>2. CASE i # Len(callers) + 1
      BY <3>2, <2>3, <2>4
    <3>3. QED
      BY <3>1, <3>2
  <2>6. stack' \in Seq(VisitFrame')
    BY <1>1, <2>3 DEF VisitFrame
  <2>7. QED
    BY <1>1, <1>3, <2>5, <2>6 DEF CodeGenTyped, RecordInv
<1>4. QED
  BY <1>2, <1>3 DEF EnterRecord

\* The frame on top of the stack moved to its next member, or popped.
LEMMA VisitStackTypes ==
  ASSUME RecordInv, stack # <<>>
  PROVE  /\ Last(stack) \in VisitFrame
         /\ \/ records[Last(stack).rec].kind = "struct"
            \/ records[Last(stack).rec].members # <<>>
         /\ [stack EXCEPT ![Len(stack)].next = @ + 1] \in Seq(VisitFrame)
         /\ \A i \in DOMAIN [stack EXCEPT ![Len(stack)].next = @ + 1] :
              [stack EXCEPT ![Len(stack)].next = @ + 1][i].rec = stack[i].rec
         /\ DOMAIN [stack EXCEPT ![Len(stack)].next = @ + 1] = DOMAIN stack
         /\ Front(stack) \in Seq(VisitFrame)
         /\ \A i \in DOMAIN Front(stack) : i \in DOMAIN stack /\ Front(stack)[i] = stack[i]
<1> DEFINE top == Len(stack)
           f == [stack[top] EXCEPT !.next = @ + 1]
           moved == [stack EXCEPT ![top].next = @ + 1]
<1>1. stack \in Seq(VisitFrame)
  BY DEF RecordInv, CodeGenTyped
<1>2. top \in Nat /\ top >= 1 /\ DOMAIN stack = 1 .. top
  BY <1>1
<1>3. Last(stack) \in VisitFrame /\ Last(stack) = stack[top] /\ top \in DOMAIN stack
  BY <1>1, <1>2, LastType
<1>4. \/ records[Last(stack).rec].kind = "struct"
      \/ records[Last(stack).rec].members # <<>>
  BY <1>3 DEF RecordInv, CodeGenTyped
<1>5. f \in VisitFrame /\ f.rec = stack[top].rec
  BY <1>3 DEF VisitFrame
<1>6. moved = [stack EXCEPT ![top] = f]
  BY <1>1, <1>2
<1> HIDE DEF f, top, moved
<1>7. moved \in Seq(VisitFrame) /\ DOMAIN moved = DOMAIN stack
  BY <1>1, <1>3, <1>5, <1>6
<1>8. \A i \in DOMAIN moved : moved[i].rec = stack[i].rec
  BY <1>1, <1>3, <1>5, <1>6
<1>9. /\ Front(stack) \in Seq(VisitFrame) /\ Len(Front(stack)) = top - 1
      /\ \A i \in 1 .. top - 1 : Front(stack)[i] = stack[i]
  BY <1>1, FrontType DEF top
<1>10. \A i \in DOMAIN Front(stack) : i \in DOMAIN stack /\ Front(stack)[i] = stack[i]
  BY <1>2, <1>9
<1>11. QED
  BY <1>3, <1>4, <1>7, <1>8, <1>9, <1>10 DEF moved, top

\* Every step of CodeGen keeps the invariant.
LEMMA VisitKeepsInv ==
  ASSUME RecordInv, Visit
  PROVE  RecordInv'
<1>1. UNCHANGED <<outcome, envs, records, frames, spec, layout, ast, opened>>
  BY DEF Visit, parserVars
<1>2. ParserInv'
  <2>1. LaidOutMembers' = LaidOutMembers
    BY <1>1 DEF LaidOutMembers
  <2>2. SeenComplete' = SeenComplete /\ OffsetReached' = OffsetReached /\ MaximaSeen' = MaximaSeen
    BY <1>1, <2>1 DEF SeenComplete, OffsetReached, MaximaSeen
  <2>3. LoopInv'
    BY <1>1, <2>1, <2>2 DEF LoopInv, RecordInv, ParserInv
  <2>4. QED
    BY <1>1, <2>3
    DEF RecordInv, ParserInv, OutcomeTyped, RecordsTyped, StateTyped, FramesNest, ScopesMatch
<1>3. gen = "visiting" /\ outcome = "parsed" /\ CodeGenTyped /\ UNCHANGED parserVars
  BY DEF Visit, TypeNext, VisitMember, SetBody, VisitType, VisitVariableDecl, VisitMemberAccess,
         FinishTypes, AtNode, Visiting, RecordInv, CodeGenTyped
<1>4. /\ Len(records) \in Nat /\ DOMAIN ast = 1 .. Len(ast) /\ Len(ast) \in Nat
      /\ \A i \in DOMAIN ast : ast[i].type \in MemberType(Len(records))
  <2>1. ast \in Seq(Node(Len(records)))
    BY DEF RecordInv, ParserInv, StateTyped
  <2>2. \A i \in 1 .. Len(ast) : ast[i] \in Node(Len(records))
    BY <2>1, ElementOfSeq, Zenon
  <2>3. QED
    BY <2>2, ParserTypes DEF Node
<1>5. CodeGenTyped'
  <2>1. CASE VisitMember
    <3> DEFINE f == Last(stack)
               ms == VisitedMembers(f.rec)
               callers == [stack EXCEPT ![Len(stack)].next = @ + 1]
    <3>1. stack # <<>> /\ f.next <= Len(ms)
      BY <2>1 DEF VisitMember
    <3>2. /\ f \in VisitFrame
          /\ records[f.rec].kind = "struct" \/ records[f.rec].members # <<>>
          /\ callers \in Seq(VisitFrame)
          /\ \A i \in DOMAIN callers : callers[i].rec = stack[i].rec
          /\ DOMAIN callers = DOMAIN stack
      BY <3>1, VisitStackTypes
    <3>3. ms \in Seq(MemberType(Len(records)))
      <4>1. f.rec \in 1 .. Len(records)
        BY <3>2 DEF VisitFrame
      <4>2. QED
        BY <4>1, <3>2, <1>3, VisitedMembersType
    <3>4. f.next \in 1 .. Len(ms)
      BY <3>1, <3>2, <3>3 DEF VisitFrame
    <3>5. ms[f.next] \in MemberType(Len(records))
      BY <3>3, <3>4, ElementOfSeq, Zenon
    <3>6. \A i \in DOMAIN callers :
            records[callers[i].rec].kind = "struct" \/ records[callers[i].rec].members # <<>>
      BY <3>2, <1>3 DEF CodeGenTyped
    <3>7. \/ ToVisit(ms[f.next]) /\ EnterRecord(ms[f.next].ref, callers)
          \/ stack' = callers /\ UNCHANGED <<pos, gen>>
      BY <2>1 DEF VisitMember
    <3> HIDE DEF f, ms, callers
    <3>8. CASE ToVisit(ms[f.next]) /\ EnterRecord(ms[f.next].ref, callers)
      <4>1. ms[f.next].ref \in 1 .. Len(records)
        BY <3>5, <3>8, <1>4, ToVisitType
      <4>2. QED
        BY <4>1, <3>2, <3>6, <3>8, <1>3, EnterRecordType
    <3>9. CASE stack' = callers /\ UNCHANGED <<pos, gen>>
      BY <3>2, <3>6, <3>9, <1>1, <1>3 DEF CodeGenTyped, VisitFrame
    <3>10. QED
      BY <3>7, <3>8, <3>9
  <2>2. CASE SetBody
    <3>1. stack # <<>> /\ stack' = Front(stack) /\ UNCHANGED <<gen, pos>>
      BY <2>2 DEF SetBody
    <3>2. /\ Front(stack) \in Seq(VisitFrame)
          /\ \A i \in DOMAIN Front(stack) : i \in DOMAIN stack /\ Front(stack)[i] = stack[i]
      BY <3>1, VisitStackTypes
    <3>3. QED
      BY <3>1, <3>2, <1>1, <1>3 DEF CodeGenTyped, VisitFrame
  <2>3. CASE VisitType
    <3>1. ToVisit(ast[pos].type) /\ EnterRecord(ast[pos].type.ref, <<>>) /\ pos <= Len(ast)
      BY <2>3 DEF VisitType
    <3>2. pos \in DOMAIN ast
      BY <3>1, <1>3, <1>4 DEF CodeGenTyped
    <3>3. ast[pos].type.ref \in 1 .. Len(records)
      BY <3>1, <3>2, <1>4, ToVisitType
    <3>4. <<>> \in Seq(VisitFrame) /\ DOMAIN <<>> = {}
      OBVIOUS
    <3>5. QED
      BY <3>1, <3>3, <3>4, <1>3, EnterRecordType
  <2>4. CASE VisitVariableDecl \/ VisitMemberAccess
    <3>1. /\ pos <= Len(ast) /\ stack' = stack
          /\ \/ gen' = "crashed" /\ pos' = pos
             \/ gen' = gen /\ pos' = pos + 1
      BY <2>4 DEF VisitVariableDecl, VisitMemberAccess, AtNode, Crash
    <3>2. pos' \in 1 .. Len(ast') + 1 /\ gen' \in {"visiting", "crashed"}
      BY <3>1, <1>1, <1>3, <1>4 DEF CodeGenTyped
    <3>3. QED
      BY <3>1, <3>2, <1>1, <1>3 DEF CodeGenTyped, VisitFrame
  <2>5. CASE FinishTypes
    BY <2>5, <1>1, <1>3 DEF FinishTypes, CodeGenTyped, VisitFrame
  <2>6. QED
    BY <2>1, <2>2, <2>3, <2>4, <2>5 DEF Visit, TypeNext
<1>6. QED
  BY <1>2, <1>5 DEF RecordInv

-----------------------------------------------------------------------------
(* The theorems *)

\* The invariant holds before the first token.
LEMMA InitInv == Init => RecordInv
<1> SUFFICES ASSUME Init PROVE RecordInv
  OBVIOUS
<1>1. /\ outcome = "parsing" /\ envs = <<EmptyTable, EmptyTable, EmptyTable>>
      /\ records = <<>> /\ frames = <<NewFrame(0, 0)>> /\ spec = NoSpec
      /\ layout = NoLayout /\ ast = <<>> /\ opened = 0
      /\ gen = "idle" /\ pos = 1 /\ stack = <<>>
  BY DEF Init, ParserInit, TypeInit
<1>2. RecordsTyped /\ Len(records) = 0
  BY <1>1 DEF RecordsTyped
<1>3. frames \in Seq(Frame(0)) /\ frames # <<>> /\ frames[1].body = 0
      /\ \A i \in DOMAIN frames : frames[i].vars = {}
  <2>1. NewFrame(0, 0) \in Frame(0)
    <3>1. <<>> \in Seq(MemberType(0))
      OBVIOUS
    <3>2. QED
      BY <3>1 DEF NewFrame, Frame
  <2>2. NewFrame(0, 0).body = 0 /\ NewFrame(0, 0).vars = {}
    BY DEF NewFrame
  <2>3. QED
    BY <1>1, <2>1, <2>2
<1>4. envs \in Seq(TagTable(0)) /\ Len(envs) = 3
  <2>1. EmptyTable \in TagTable(0)
    BY DEF EmptyTable, TagTable
  <2>2. QED
    BY <1>1, <2>1
<1>5. StateTyped
  <2>1. NoLayout \in Layout(0)
    <3>1. <<>> \in Seq(Int)
      OBVIOUS
    <3>2. QED
      BY <3>1 DEF NoLayout, Layout
  <2>2. NoSpec \in [rec : 0 .. 0, closed : BOOLEAN]
    BY DEF NoSpec
  <2>3. ast \in Seq(Node(0))
    BY <1>1
  <2>4. QED
    BY <1>1, <1>2, <1>3, <1>4, <2>1, <2>2, <2>3 DEF StateTyped
<1>6. FramesNest
  BY <1>3 DEF FramesNest
<1>7. ScopesMatch
  BY <1>1, <1>4 DEF ScopesMatch
<1>8. OutcomeTyped /\ LoopInv
  BY <1>1 DEF OutcomeTyped, LoopInv, NoLayout
<1>9. CodeGenTyped
  <2>1. <<>> \in Seq(VisitFrame) /\ Len(ast) = 0
    BY <1>1
  <2>2. QED
    BY <1>1, <2>1 DEF CodeGenTyped
<1>10. QED
  BY <1>2, <1>5, <1>6, <1>7, <1>8, <1>9 DEF RecordInv, ParserInv

\* Handing over to CodeGen, or stuttering, keeps the invariant.
LEMMA UnchangedInv ==
  ASSUME RecordInv, UNCHANGED <<outcome, envs, records, frames, spec, layout, ast, opened>>,
         UNCHANGED <<pos, stack>>,
         gen' = gen \/ (gen' = "visiting" /\ outcome = "parsed")
  PROVE  RecordInv'
<1>1. LaidOutMembers' = LaidOutMembers
  BY DEF LaidOutMembers
<1>2. SeenComplete' = SeenComplete /\ OffsetReached' = OffsetReached /\ MaximaSeen' = MaximaSeen
  BY <1>1 DEF SeenComplete, OffsetReached, MaximaSeen
<1>3. LoopInv'
  BY <1>1, <1>2 DEF LoopInv, RecordInv, ParserInv
<1>4. ParserInv'
  BY <1>3
  DEF RecordInv, ParserInv, OutcomeTyped, RecordsTyped, StateTyped, FramesNest, ScopesMatch
<1>5. CodeGenTyped'
  BY DEF RecordInv, CodeGenTyped, VisitFrame
<1>6. QED
  BY <1>4, <1>5 DEF RecordInv

\* The invariant is inductive.
LEMMA NextInv == RecordInv /\ [Next]_vars => RecordInv'
<1> SUFFICES ASSUME RecordInv, [Next]_vars PROVE RecordInv'
  OBVIOUS
<1>1. CASE Parse
  BY <1>1, ParseKeepsInv
<1>2. CASE Translate
  BY <1>2, UnchangedInv DEF Translate, parserVars
<1>3. CASE Visit
  BY <1>3, VisitKeepsInv
<1>4. CASE Terminated \/ UNCHANGED vars
  BY <1>4, UnchangedInv DEF Terminated, vars, parserVars, typeVars
<1>5. QED
  BY <1>1, <1>2, <1>3, <1>4 DEF Next

\* The variables of the parser and of CodeGen are related as RecordInv says in
\* every state; above all, LoopInv says what the loops of UpdateStructOffset
\* and UpdateUnionOffset (type.cc:81-133) have achieved after any round.
THEOREM RecordInvHolds == Spec => []RecordInv
<1>1. Init => RecordInv
  BY InitInv
<1>2. RecordInv /\ [Next]_vars => RecordInv'
  BY NextInv
<1>3. QED
  BY <1>1, <1>2, PTL DEF Spec

\* Every variable has its type, every reference is to a record that exists,
\* and there is a tag scope for every frame (scope.cc:38-59, sema.cc:526-534).
THEOREM RecordTypeCorrect == Spec => []TypeOK
<1>1. RecordInv => TypeOK
  <2> SUFFICES ASSUME RecordInv PROVE TypeOK
    OBVIOUS
  <2>1. \A r \in DOMAIN records : \A k \in DOMAIN records[r].members :
          records[r].members[k].ref \in 0 .. Len(records)
    <3> SUFFICES ASSUME NEW r \in DOMAIN records, NEW k \in DOMAIN records[r].members
                 PROVE  records[r].members[k].ref \in 0 .. Len(records)
      OBVIOUS
    <3>1. records[r].members \in Seq(MemberType(Len(records)))
      BY DEF RecordInv, ParserInv, RecordsTyped, Members
    <3>2. records[r].members[k] \in MemberType(Len(records))
      BY <3>1
    <3>3. QED
      BY <3>2, ParserTypes DEF MemberType, Type
  <2>2. \A i \in DOMAIN stack : stack[i].rec \in DOMAIN records
    <3> SUFFICES ASSUME NEW i \in DOMAIN stack PROVE stack[i].rec \in 1 .. Len(records)
      BY ParserTypes
    <3>1. stack \in Seq(VisitFrame)
      BY DEF RecordInv, CodeGenTyped
    <3>2. stack[i] \in VisitFrame
      BY <3>1
    <3>3. QED
      BY <3>2 DEF VisitFrame
  <2>3. spec.rec \in 0 .. Len(records) /\ layout.rec \in 0 .. Len(records)
    BY DEF RecordInv, ParserInv, StateTyped, Layout
  <2>4. QED
    BY <2>1, <2>2, <2>3
    DEF TypeOK, RecordInv, ParserInv, OutcomeTyped, RecordsTyped, StateTyped, ScopesMatch,
        CodeGenTyped, TagTable
<1>2. QED
  BY <1>1, RecordInvHolds, PTL

\* SetMembers lays out every record with complete members as C prescribes,
\* however many members of whatever sizes it has, and whatever was declared
\* before (type.cc:69-133).
THEOREM LayoutCorrect == Spec => LayoutIsRight
<1>1. ASSUME RecordInv, [Next]_vars, layout.rec # 0, layout'.rec = 0, Complete(records, layout.rec)
      PROVE  LaidOut(records', layout.rec)
  <2>1. FinishLayout
    <3>1. ParserNext
      BY <1>1 DEF Next, Parse, Translate, Visit, Terminated, vars, parserVars
    <3>2. ~AtDeclarator
      BY <1>1 DEF AtDeclarator
    <3>3. LayoutMember \/ FinishLayout
      BY <3>1, <3>2
      DEF ParserNext, TagSpec, AnonymousSpec, OpenBody, CloseBody, DeclarePrim, DeclarePointer,
          DeclareObject, NoDeclarator, Access, OpenBlock, CloseBlock, EndFunction, AtDeclaration
    <3>4. ~LayoutMember
      BY <1>1, LayoutMemberType
    <3>5. QED
      BY <3>3, <3>4
  <2>2. QED
    BY <1>1, <2>1, FinishLayoutIsRight
<1>2. RecordInv /\ [Next]_vars =>
        [layout.rec # 0 /\ layout'.rec = 0 /\ Complete(records, layout.rec)
           => LaidOut(records', layout.rec)]_vars
  BY <1>1
<1>3. QED
  BY <1>2, RecordInvHolds, PTL DEF Spec, LayoutIsRight

-----------------------------------------------------------------------------
(* The layout of every record, in a program without certain shapes *)

\* No record is laid out that has a member of unknown size or is laid out twice.
SizesKnown == Shapes \cap {"incomplete", "redefined", "flexible"} = {}

\* The type has a size that no later declaration can change.
SizeKnown(t) ==
    IF t.kind = "record" THEN records[t.ref].members # <<>> /\ t.ref # layout.rec
    ELSE t.size >= 0

\* No record of rs has more than one body, and those being parsed are of
\* records that have no members yet.
BodiesOpenOnce ==
    \A i \in DOMAIN frames : frames[i].body # 0 =>
      /\ records[frames[i].body].members = <<>>
      /\ frames[i].body # layout.rec
      /\ \A j \in DOMAIN frames \ {i} : frames[j].body # frames[i].body

\* The types of members and nodes have known sizes.
AllKnown ==
    /\ \A r \in DOMAIN records : \A k \in DOMAIN records[r].members :
         SizeKnown(records[r].members[k])
    /\ \A i \in DOMAIN frames : \A k \in DOMAIN frames[i].members :
         SizeKnown(frames[i].members[k])
    /\ \A i \in DOMAIN ast : SizeKnown(ast[i].type)

\* The record r is laid out, and its members fit in it.
Solid(rs, r) ==
    LET ms == rs[r].members IN
    /\ LaidOut(rs, r)
    /\ rs[r].size >= 0 /\ rs[r].align # 0
    /\ \A k \in DOMAIN ms :
         /\ SizeOf(rs, ms[k]) <= rs[r].size
         /\ rs[r].kind = "union" => SizeOf(rs, ms[k]) <= SizeOf(rs, ms[rs[r].maxElementIdx])

\* So is every record that has members, but the one being laid out.
AllSolid ==
    \A r \in DOMAIN records \ {layout.rec} : records[r].members # <<>> => Solid(records, r)

\* The members that the loop has seen fit before its offset, and the largest
\* is the one it says.
LoopFits ==
    layout.rec # 0 =>
      /\ layout.offset >= 0 /\ layout.maxSize >= 0
      /\ records[layout.rec].kind = "struct" =>
           \A k \in 1 .. layout.next - 1 : SizeOf(records, LaidOutMembers[k]) <= layout.offset
      /\ layout.next > 1 => SizeOf(records, LaidOutMembers[layout.maxIdx]) = layout.maxSize

\* An access is to a member that its record still has, of a variable declared
\* before.
AccessesFound ==
    \A j \in DOMAIN ast : ast[j].kind = "access" =>
      /\ ast[j].rec \in DOMAIN records
      /\ ast[j].idx \in DOMAIN records[ast[j].rec].members
      /\ ast[j].type = records[ast[j].rec].members[ast[j].idx]
      /\ \E v \in 1 .. j - 1 : ast[v].type.kind # "prim" /\ ast[v].type.ref = ast[j].rec

\* The invariant of the layouts.
LaidOutInv == BodiesOpenOnce /\ AllKnown /\ AllSolid /\ LoopFits /\ AccessesFound

-----------------------------------------------------------------------------
(* The struct types, in a program whose tags name one record each *)

\* A tag is not declared again in an inner scope.
OneRecordPerTag == "sameTag" \notin Shapes

\* A tag names one record; a record without one has its own name.
TagsDiffer ==
    \A r, s \in DOMAIN records : records[r].tag = records[s].tag => r = s \/ records[r].tag = Brace

\* The body that the struct type of record r gets.
BodyOf(r) == [k \in DOMAIN VisitedMembers(r) |-> LlvmType(VisitedMembers(r)[k])]

\* The members of r are being visited.
OnStack(r) == \E i \in DOMAIN stack : stack[i].rec = r

\* The struct type of r has been made, and its members have been visited.
Finished(r) == Name(r) \in DOMAIN structs /\ ~OnStack(r)

\* A finished struct type has its record's body, one on the stack is made.
StructsRight ==
    /\ \A r \in DOMAIN records : Finished(r) => structs[Name(r)] = BodyOf(r)
    /\ \A i \in DOMAIN stack : Name(stack[i].rec) \in DOMAIN structs

\* The types of the nodes visited have been made.
NodesVisited ==
    /\ \A i \in 1 .. pos - 1 : ~ToVisit(ast[i].type)
    /\ \A i \in geps : i \in 1 .. pos - 1 /\ ast[i].kind = "access" /\ Finished(ast[i].rec)

\* The invariant of the struct types.
StructInv ==
    /\ TagsDiffer
    /\ gen = "idle" => pos = 1 /\ geps = {} /\ structs = <<>>
    /\ gen = "done" => stack = <<>>
    /\ StructsRight /\ NodesVisited

\* A program that is translated has no union without members.
UnionsFilled ==
    "opaqueUnion" \notin Shapes /\ gen # "idle" =>
      \A r \in DOMAIN records : records[r].kind = "union" => records[r].members # <<>>

-----------------------------------------------------------------------------
(* What a step of the parser keeps. *)

\* The members of a record do not change, and nothing of it does once it is
\* laid out.
Kept ==
    \A r \in DOMAIN records : records[r].members # <<>> =>
      /\ r \in DOMAIN records' /\ records'[r].members = records[r].members
      /\ r # layout.rec => records'[r] = records[r] /\ r # layout'.rec

\* The layout of a record depends on it and on the sizes and alignments of its
\* members.
LEMMA LaidOutSame ==
  ASSUME NEW rs \in Seq(Record), NEW ss, NEW r \in DOMAIN rs, ss[r] = rs[r],
         \A k \in DOMAIN rs[r].members :
           /\ SizeOf(ss, rs[r].members[k]) = SizeOf(rs, rs[r].members[k])
           /\ AlignOf(ss, rs[r].members[k]) = AlignOf(rs, rs[r].members[k]),
         LaidOut(rs, r)
  PROVE  LaidOut(ss, r)
<1> DEFINE ms == rs[r].members
           os == rs[r].offsets
<1>1. rs[r] \in Record
  BY ElementOfSeq
<1>2. /\ ms \in Seq(Type) /\ os \in Seq(Int) /\ Len(ms) \in Nat /\ Len(os) \in Nat
      /\ DOMAIN ms = 1 .. Len(ms) /\ DOMAIN os = 1 .. Len(os)
  BY SMTT(60), <1>1 DEF Record
<1>3. Len(os) = Len(ms)
  BY DEF LaidOut
<1>4. \A k \in 1 .. Len(ms) + 1 : EndBefore(ss, r, os, k) = EndBefore(rs, r, os, k)
  <2> SUFFICES ASSUME NEW k \in 1 .. Len(ms) + 1
               PROVE  EndBefore(ss, r, os, k) = EndBefore(rs, r, os, k)
    OBVIOUS
  <2>1. CASE k = 1
    BY <2>1 DEF EndBefore
  <2>2. CASE k # 1
    <3>1. k - 1 \in DOMAIN ms
      BY <1>2, <2>2
    <3>2. SizeOf(ss, ms[k - 1]) = SizeOf(rs, ms[k - 1])
      BY <3>1
    <3>3. QED
      BY <2>2, <3>2, Zenon DEF EndBefore
  <2>3. QED
    BY <2>1, <2>2
<1>5. MembersPlaced(ss, r, ss[r].offsets)
  <2>1. MembersPlaced(rs, r, os)
    BY DEF LaidOut
  <2> SUFFICES ASSUME NEW k \in DOMAIN os
               PROVE  IF ss[r].kind = "struct"
                        THEN Placed(os[k], EndBefore(ss, r, os, k), AlignOf(ss, ss[r].members[k]))
                        ELSE os[k] = 0
    BY DEF MembersPlaced
  <2>2. k \in DOMAIN ms /\ k \in 1 .. Len(ms) + 1
    BY <1>2, <1>3
  <2>3. EndBefore(ss, r, os, k) = EndBefore(rs, r, os, k)
    BY <1>4, <2>2
  <2>4. AlignOf(ss, ms[k]) = AlignOf(rs, ms[k])
    BY <2>2
  <2>5. IF rs[r].kind = "struct"
          THEN Placed(os[k], EndBefore(rs, r, os, k), AlignOf(rs, ms[k]))
          ELSE os[k] = 0
    BY <2>1 DEF MembersPlaced
  <2>6. QED
    BY <2>3, <2>4, <2>5
<1>6. RecordPlaced(ss, r)
  <2>1. RecordPlaced(rs, r)
    BY DEF LaidOut
  <2>2. EndBefore(ss, r, os, Len(ms) + 1) = EndBefore(rs, r, os, Len(ms) + 1)
    BY <1>2, <1>4
  <2>3. {SizeOf(ss, ms[k]) : k \in DOMAIN ms} = {SizeOf(rs, ms[k]) : k \in DOMAIN ms}
    OBVIOUS
  <2>4. \A k \in DOMAIN ms : AlignOf(ss, ms[k]) = AlignOf(rs, ms[k])
    OBVIOUS
  <2>5. /\ \A k \in DOMAIN ms : AlignOf(ss, ms[k]) <= rs[r].align
        /\ \E k \in DOMAIN ms : AlignOf(ss, ms[k]) = rs[r].align
    BY <2>1, <2>4 DEF RecordPlaced
  <2>6. Placed(rs[r].size,
               Max(IF rs[r].kind = "struct" THEN {EndBefore(rs, r, os, Len(ms) + 1)}
                   ELSE {SizeOf(rs, ms[k]) : k \in DOMAIN ms}), rs[r].align)
    BY <2>1 DEF RecordPlaced
  <2>7. Placed(rs[r].size,
               Max(IF rs[r].kind = "struct" THEN {EndBefore(ss, r, os, Len(ms) + 1)}
                   ELSE {SizeOf(ss, ms[k]) : k \in DOMAIN ms}), rs[r].align)
    BY <2>2, <2>3, <2>6
  <2>8. QED
    BY <2>5, <2>7 DEF RecordPlaced
<1>7. QED
  BY <1>3, <1>5, <1>6 DEF LaidOut

\* So does what else is said of it.
LEMMA SolidSame ==
  ASSUME NEW rs \in Seq(Record), NEW ss, NEW r \in DOMAIN rs, ss[r] = rs[r],
         rs[r].maxElementIdx \in DOMAIN rs[r].members,
         \A k \in DOMAIN rs[r].members :
           /\ SizeOf(ss, rs[r].members[k]) = SizeOf(rs, rs[r].members[k])
           /\ AlignOf(ss, rs[r].members[k]) = AlignOf(rs, rs[r].members[k]),
         Solid(rs, r)
  PROVE  Solid(ss, r)
<1>1. LaidOut(ss, r)
  <2>1. LaidOut(rs, r)
    BY DEF Solid
  <2>2. QED
    BY <2>1, LaidOutSame
<1>2. \A k \in DOMAIN rs[r].members :
        /\ SizeOf(ss, ss[r].members[k]) <= ss[r].size
        /\ ss[r].kind = "union" =>
             SizeOf(ss, ss[r].members[k]) <= SizeOf(ss, ss[r].members[ss[r].maxElementIdx])
  BY DEF Solid
<1>3. ss[r].size >= 0 /\ ss[r].align # 0
  BY DEF Solid
<1>4. QED
  BY <1>1, <1>2, <1>3 DEF Solid

\* A type whose size is known keeps it.
LEMMA KnownStays ==
  ASSUME RecordInv, Kept, NEW t \in MemberType(Len(records)), SizeKnown(t)
  PROVE  /\ SizeOf(records', t) = SizeOf(records, t)
         /\ AlignOf(records', t) = AlignOf(records, t)
         /\ t.kind = "record" => records'[t.ref].members # <<>> /\ t.ref # layout'.rec
<1>1. CASE t.kind # "record"
  BY <1>1 DEF SizeOf, AlignOf
<1>2. CASE t.kind = "record"
  <2>1. t.ref \in DOMAIN records
    BY <1>2, ParserTypes DEF MemberType, Type
  <2>2. records[t.ref].members # <<>> /\ t.ref # layout.rec
    BY <1>2 DEF SizeKnown
  <2>3. records'[t.ref] = records[t.ref] /\ t.ref # layout'.rec
    BY <2>1, <2>2 DEF Kept
  <2>4. QED
    BY <1>2, <2>2, <2>3 DEF SizeOf, AlignOf
<1>3. QED
  BY <1>1, <1>2

\* The records that are laid out stay so.
LEMMA SolidStays ==
  ASSUME RecordInv, LaidOutInv, Kept,
         NEW r \in DOMAIN records, r # layout.rec, records[r].members # <<>>
  PROVE  Solid(records', r)
<1>1. records \in Seq(Record) /\ records[r].maxElementIdx \in DOMAIN records[r].members
  BY DEF RecordInv, ParserInv, RecordsTyped
<1>2. records'[r] = records[r]
  BY DEF Kept
<1>3. \A k \in DOMAIN records[r].members :
        /\ SizeOf(records', records[r].members[k]) = SizeOf(records, records[r].members[k])
        /\ AlignOf(records', records[r].members[k]) = AlignOf(records, records[r].members[k])
  <2> SUFFICES ASSUME NEW k \in DOMAIN records[r].members
               PROVE  /\ SizeOf(records', records[r].members[k]) = SizeOf(records, records[r].members[k])
                      /\ AlignOf(records', records[r].members[k]) = AlignOf(records, records[r].members[k])
    OBVIOUS
  <2>1. records[r].members \in Seq(MemberType(Len(records)))
    BY DEF RecordInv, ParserInv, RecordsTyped, Members
  <2>2. records[r].members[k] \in MemberType(Len(records))
    BY <2>1, ElementOfSeq
  <2>3. SizeKnown(records[r].members[k])
    BY DEF LaidOutInv, AllKnown
  <2>4. QED
    BY <2>2, <2>3, KnownStays
<1>4. Solid(records, r)
  BY DEF LaidOutInv, AllSolid
<1>5. QED
  BY <1>1, <1>2, <1>3, <1>4, SolidSame

\* No record but the one being laid out gets members.
NoNewMembers ==
    \A r \in DOMAIN records' \ {layout'.rec} : records'[r].members # <<>> =>
      r \in DOMAIN records \ {layout.rec} /\ records[r].members # <<>>

\* The type has a known size before the step.
WasKnown(t) == t \in MemberType(Len(records)) /\ SizeKnown(t)

\* The types there are after the step are known before it.
RecordsWereKnown ==
    \A r \in DOMAIN records' : \A k \in DOMAIN records'[r].members : WasKnown(records'[r].members[k])

\* So are those of the members being parsed,
FramesWereKnown ==
    \A i \in DOMAIN frames' : \A k \in DOMAIN frames'[i].members : WasKnown(frames'[i].members[k])

\* and those of the nodes.
NodesWereKnown == \A i \in DOMAIN ast' : WasKnown(ast'[i].type)

\* The bodies being parsed were so before, and still have no members.
BodiesWereOpen ==
    \A i \in DOMAIN frames' :
      /\ i \in DOMAIN frames /\ frames'[i].body = frames[i].body
      /\ frames[i].body # 0 =>
           records'[frames[i].body].members = <<>> /\ frames[i].body # layout'.rec

\* The types of a state that satisfies the invariant.
LEMMA AllWereKnown ==
  ASSUME RecordInv, LaidOutInv
  PROVE  /\ \A r \in DOMAIN records : \A k \in DOMAIN records[r].members :
              WasKnown(records[r].members[k])
         /\ \A i \in DOMAIN frames : \A k \in DOMAIN frames[i].members :
              WasKnown(frames[i].members[k])
         /\ \A i \in DOMAIN ast : WasKnown(ast[i].type)
<1>1. ASSUME NEW r \in DOMAIN records, NEW k \in DOMAIN records[r].members
      PROVE  WasKnown(records[r].members[k])
  <2>1. records[r].members \in Seq(MemberType(Len(records)))
    BY DEF RecordInv, ParserInv, RecordsTyped, Members
  <2>2. records[r].members[k] \in MemberType(Len(records))
    BY <2>1, ElementOfSeq
  <2>3. SizeKnown(records[r].members[k])
    BY DEF LaidOutInv, AllKnown
  <2>4. QED
    BY <2>2, <2>3 DEF WasKnown
<1>2. ASSUME NEW i \in DOMAIN frames, NEW k \in DOMAIN frames[i].members
      PROVE  WasKnown(frames[i].members[k])
  <2>1. frames[i].members \in Seq(MemberType(Len(records)))
    BY ParserTypes DEF Frame
  <2>2. frames[i].members[k] \in MemberType(Len(records))
    BY <2>1, ElementOfSeq
  <2>3. SizeKnown(frames[i].members[k])
    BY DEF LaidOutInv, AllKnown
  <2>4. QED
    BY <2>2, <2>3 DEF WasKnown
<1>3. ASSUME NEW i \in DOMAIN ast
      PROVE  WasKnown(ast[i].type)
  <2>1. ast \in Seq(Node(Len(records)))
    BY DEF RecordInv, ParserInv, StateTyped
  <2>2. ast[i] \in Node(Len(records))
    BY <2>1, ElementOfSeq
  <2>3. ast[i].type \in MemberType(Len(records))
    BY <2>2 DEF Node
  <2>4. SizeKnown(ast[i].type)
    BY DEF LaidOutInv, AllKnown
  <2>5. QED
    BY <2>3, <2>4 DEF WasKnown
<1>4. QED
  BY <1>1, <1>2, <1>3

\* A type of known size keeps it.
LEMMA KnownStep ==
  ASSUME RecordInv, Kept, NEW t, WasKnown(t)
  PROVE  SizeKnown(t)'
<1>1. t \in MemberType(Len(records)) /\ SizeKnown(t)
  BY DEF WasKnown
<1>2. t.kind = "record" => records'[t.ref].members # <<>> /\ t.ref # layout'.rec
  BY <1>1, KnownStays
<1>3. t.kind # "record" => t.size >= 0
  BY <1>1 DEF SizeKnown
<1>4. QED
  BY <1>2, <1>3 DEF SizeKnown

\* AllKnown is kept by what keeps the records and brings only known types.
LEMMA AllKnownStep ==
  ASSUME RecordInv, Kept, RecordsWereKnown, FramesWereKnown, NodesWereKnown
  PROVE  AllKnown'
<1>1. ASSUME NEW r \in DOMAIN records', NEW k \in DOMAIN records'[r].members
      PROVE  SizeKnown(records[r].members[k])'
  <2>1. PICK t : t = records'[r].members[k]
    OBVIOUS
  <2>2. WasKnown(t)
    BY <2>1 DEF RecordsWereKnown
  <2>3. SizeKnown(t)'
    BY <2>2, KnownStep
  <2>4. QED
    BY <2>1, <2>3 DEF SizeKnown
<1>2. ASSUME NEW i \in DOMAIN frames', NEW k \in DOMAIN frames'[i].members
      PROVE  SizeKnown(frames[i].members[k])'
  <2>1. PICK t : t = frames'[i].members[k]
    OBVIOUS
  <2>2. WasKnown(t)
    BY <2>1 DEF FramesWereKnown
  <2>3. SizeKnown(t)'
    BY <2>2, KnownStep
  <2>4. QED
    BY <2>1, <2>3 DEF SizeKnown
<1>3. ASSUME NEW i \in DOMAIN ast'
      PROVE  SizeKnown(ast[i].type)'
  <2>1. PICK t : t = ast'[i].type
    OBVIOUS
  <2>2. WasKnown(t)
    BY <2>1 DEF NodesWereKnown
  <2>3. SizeKnown(t)'
    BY <2>2, KnownStep
  <2>4. QED
    BY <2>1, <2>3 DEF SizeKnown
<1>4. QED
  BY <1>1, <1>2, <1>3 DEF AllKnown

\* AllSolid is kept by what gives no record its members.
LEMMA AllSolidStep ==
  ASSUME RecordInv, LaidOutInv, Kept, NoNewMembers
  PROVE  AllSolid'
<1> SUFFICES ASSUME NEW r \in DOMAIN records' \ {layout'.rec}, records'[r].members # <<>>
             PROVE  Solid(records', r)
  BY DEF AllSolid
<1>1. r \in DOMAIN records /\ r # layout.rec /\ records[r].members # <<>>
  BY DEF NoNewMembers
<1>2. QED
  BY <1>1, SolidStays

\* BodiesOpenOnce is kept by what opens no body.
LEMMA BodiesStep ==
  ASSUME LaidOutInv, BodiesWereOpen
  PROVE  BodiesOpenOnce'
<1> SUFFICES ASSUME NEW i \in DOMAIN frames', frames'[i].body # 0
             PROVE  /\ records'[frames'[i].body].members = <<>>
                    /\ frames'[i].body # layout'.rec
                    /\ \A j \in DOMAIN frames' \ {i} : frames'[j].body # frames'[i].body
  BY DEF BodiesOpenOnce
<1>1. /\ i \in DOMAIN frames /\ frames'[i].body = frames[i].body
      /\ records'[frames[i].body].members = <<>> /\ frames[i].body # layout'.rec
  BY DEF BodiesWereOpen
<1>2. \A j \in DOMAIN frames \ {i} : frames[j].body # frames[i].body
  BY <1>1 DEF LaidOutInv, BodiesOpenOnce
<1>3. \A j \in DOMAIN frames' \ {i} : frames'[j].body # frames'[i].body
  BY <1>1, <1>2 DEF BodiesWereOpen
<1>4. QED
  BY <1>1, <1>3

\* The accesses made are to members that stay.
LEMMA AccessesStep ==
  ASSUME RecordInv, LaidOutInv, Kept, UNCHANGED ast
  PROVE  AccessesFound'
<1> SUFFICES ASSUME NEW j \in DOMAIN ast, ast[j].kind = "access"
             PROVE  /\ ast[j].rec \in DOMAIN records'
                    /\ ast[j].idx \in DOMAIN records'[ast[j].rec].members
                    /\ ast[j].type = records'[ast[j].rec].members[ast[j].idx]
                    /\ \E v \in 1 .. j - 1 : ast[v].type.kind # "prim" /\ ast[v].type.ref = ast[j].rec
  BY DEF AccessesFound
<1> DEFINE r == ast[j].rec
<1>1. /\ r \in DOMAIN records
      /\ ast[j].idx \in DOMAIN records[r].members
      /\ ast[j].type = records[r].members[ast[j].idx]
      /\ \E v \in 1 .. j - 1 : ast[v].type.kind # "prim" /\ ast[v].type.ref = r
  BY DEF LaidOutInv, AccessesFound
<1>2. records[r].members # <<>>
  BY <1>1
<1>3. r \in DOMAIN records' /\ records'[r].members = records[r].members
  BY <1>1, <1>2 DEF Kept
<1>4. QED
  BY <1>1, <1>3

-----------------------------------------------------------------------------
(* The layout of records: the steps. *)

\* A step that makes and changes no types.
FramesWereOpen ==
    \A i \in DOMAIN frames' :
      i \in DOMAIN frames /\ frames'[i].body = frames[i].body /\ frames'[i].members = frames[i].members

\* A step that leaves the records alone keeps what is known of them,
LEMMA RecordsSame ==
  ASSUME RecordInv, LaidOutInv, UNCHANGED <<records, layout>>
  PROVE  /\ Kept /\ NoNewMembers /\ RecordsWereKnown
         /\ AllSolid' /\ LoopFits'
<1>1. Kept /\ NoNewMembers
  BY DEF Kept, NoNewMembers
<1>2. RecordsWereKnown
  BY AllWereKnown DEF RecordsWereKnown
<1>3. AllSolid'
  BY <1>1, AllSolidStep
<1>4. LaidOutMembers' = LaidOutMembers
  BY DEF LaidOutMembers
<1>5. LoopFits'
  BY <1>4 DEF LaidOutInv, LoopFits
<1>6. QED
  BY <1>1, <1>2, <1>3, <1>5

\* and one that opens no frame what is known of the frames.
LEMMA FramesSame ==
  ASSUME LaidOutInv, RecordInv, FramesWereOpen
  PROVE  /\ FramesWereKnown
         /\ UNCHANGED <<records, layout>> => BodiesOpenOnce'
<1>1. FramesWereKnown
  <2> SUFFICES ASSUME NEW i \in DOMAIN frames', NEW k \in DOMAIN frames'[i].members
               PROVE  WasKnown(frames'[i].members[k])
    BY DEF FramesWereKnown
  <2>1. i \in DOMAIN frames /\ frames'[i].members = frames[i].members
    BY DEF FramesWereOpen
  <2>2. WasKnown(frames[i].members[k])
    BY <2>1, AllWereKnown
  <2>3. QED
    BY <2>1, <2>2
<1>2. ASSUME UNCHANGED <<records, layout>>
      PROVE  BodiesOpenOnce'
  <2>1. BodiesWereOpen
    BY <1>2 DEF FramesWereOpen, BodiesWereOpen, LaidOutInv, BodiesOpenOnce
  <2>2. QED
    BY <2>1, BodiesStep
<1>3. QED
  BY <1>1, <1>2

\* A step that only closes frames or adds to their variables.
LEMMA QuietLaidOut ==
  ASSUME RecordInv, LaidOutInv, UNCHANGED <<records, layout, ast>>, FramesWereOpen
  PROVE  LaidOutInv'
<1>1. Kept /\ RecordsWereKnown /\ AllSolid' /\ LoopFits'
  BY RecordsSame
<1>2. FramesWereKnown /\ BodiesOpenOnce'
  BY FramesSame
<1>3. NodesWereKnown
  BY AllWereKnown DEF NodesWereKnown
<1>4. AllKnown'
  BY <1>1, <1>2, <1>3, AllKnownStep
<1>5. AccessesFound'
  BY <1>1, AccessesStep
<1>6. QED
  BY <1>1, <1>2, <1>4, <1>5 DEF LaidOutInv

\* A record is made, without members.
LEMMA RecordMade ==
  ASSUME RecordInv, LaidOutInv, NEW tag \in Tags \cup {Brace}, NEW kind \in {"struct", "union"},
         records' = Append(records, NewRecord(tag, kind)), UNCHANGED layout, layout.rec = 0
  PROVE  /\ Kept /\ NoNewMembers /\ RecordsWereKnown
         /\ AllSolid' /\ LoopFits'
         /\ \A r \in DOMAIN records : records'[r] = records[r]
         /\ records'[Len(records) + 1].members = <<>>
         /\ DOMAIN records' = 1 .. Len(records) + 1
<1>1. records \in Seq(Record) /\ Len(records) \in Nat /\ DOMAIN records = 1 .. Len(records)
  BY DEF RecordInv, ParserInv, RecordsTyped
<1>2. /\ DOMAIN records' = 1 .. Len(records) + 1
      /\ \A r \in DOMAIN records : records'[r] = records[r]
      /\ records'[Len(records) + 1] = NewRecord(tag, kind)
  BY <1>1
<1>3. NewRecord(tag, kind).members = <<>>
  BY DEF NewRecord
<1>4. \A r \in DOMAIN records' : r \in DOMAIN records \/ records'[r].members = <<>>
  BY <1>1, <1>2, <1>3
<1>5. 0 \notin DOMAIN records
  BY <1>1
<1>6. Kept
  BY <1>1, <1>2, <1>5 DEF Kept
<1>7. NoNewMembers
  BY <1>2, <1>4, <1>5 DEF NoNewMembers
<1>8. RecordsWereKnown
  <2> SUFFICES ASSUME NEW r \in DOMAIN records', NEW k \in DOMAIN records'[r].members
               PROVE  WasKnown(records'[r].members[k])
    BY DEF RecordsWereKnown
  <2>1. r \in DOMAIN records
    BY <1>4
  <2>2. records'[r] = records[r]
    BY <1>2, <2>1
  <2>3. WasKnown(records[r].members[k])
    BY <2>1, <2>2, AllWereKnown
  <2>4. QED
    BY <2>2, <2>3
<1>9. AllSolid'
  BY <1>6, <1>7, AllSolidStep
<1>10. LoopFits'
  BY DEF LoopFits
<1>11. QED
  BY <1>2, <1>3, <1>6, <1>7, <1>8, <1>9, <1>10

\* A block or a body is opened, the body of a record that has no members.
LEMMA FrameOpened ==
  ASSUME RecordInv, LaidOutInv, AtDeclarator, NEW body \in Nat, OpenFrame(body), UNCHANGED layout,
         \A i \in DOMAIN frames : frames[i].body # 0 => records'[frames[i].body].members = <<>>,
         body # 0 => /\ records'[body].members = <<>>
                     /\ \A i \in DOMAIN frames : frames[i].body # body
  PROVE  FramesWereKnown /\ BodiesOpenOnce'
<1>1. frames \in Seq(Frame(Len(records))) /\ Len(frames) \in Nat /\ DOMAIN frames = 1 .. Len(frames)
  BY DEF RecordInv, ParserInv, StateTyped
<1>2. layout.rec = 0
  BY DEF AtDeclarator
<1>3. /\ DOMAIN frames' = 1 .. Len(frames) + 1
      /\ \A i \in DOMAIN frames : frames'[i] = frames[i]
      /\ frames'[Len(frames) + 1] = NewFrame(opened + 1, body)
  BY <1>1 DEF OpenFrame
<1>4. NewFrame(opened + 1, body).members = <<>> /\ NewFrame(opened + 1, body).body = body
  BY DEF NewFrame
<1>5. FramesWereKnown
  <2> SUFFICES ASSUME NEW i \in DOMAIN frames', NEW k \in DOMAIN frames'[i].members
               PROVE  WasKnown(frames'[i].members[k])
    BY DEF FramesWereKnown
  <2>1. i \in DOMAIN frames
    BY <1>1, <1>3, <1>4
  <2>2. frames'[i] = frames[i]
    BY <1>3, <2>1
  <2>3. WasKnown(frames[i].members[k])
    BY <2>1, <2>2, AllWereKnown
  <2>4. QED
    BY <2>2, <2>3
<1>6. ASSUME NEW i \in DOMAIN frames', frames'[i].body # 0
      PROVE  /\ records'[frames'[i].body].members = <<>>
             /\ frames'[i].body # layout'.rec
             /\ \A j \in DOMAIN frames' \ {i} : frames'[j].body # frames'[i].body
  <2>1. \A j \in DOMAIN frames' : j \in DOMAIN frames \/ j = Len(frames) + 1
    BY <1>1, <1>3
  <2>2. frames'[Len(frames) + 1].body = body /\ Len(frames) + 1 \notin DOMAIN frames
    BY <1>1, <1>3, <1>4
  <2>3. CASE i \in DOMAIN frames
    <3>1. frames'[i].body = frames[i].body /\ frames[i].body # 0
      BY <1>3, <1>6, <2>3
    <3>2. \A j \in DOMAIN frames \ {i} : frames[j].body # frames[i].body
      BY <2>3, <3>1 DEF LaidOutInv, BodiesOpenOnce
    <3>3. \A j \in DOMAIN frames' \ {i} : frames'[j].body # frames'[i].body
      BY <1>3, <2>1, <2>2, <2>3, <3>1, <3>2
    <3>4. QED
      BY <1>2, <2>3, <3>1, <3>3
  <2>4. CASE i = Len(frames) + 1
    <3>1. frames'[i].body = body /\ body # 0
      BY <1>6, <2>2, <2>4
    <3>2. \A j \in DOMAIN frames' \ {i} : frames'[j].body # body
      BY <1>3, <2>1, <2>4, <3>1
    <3>3. QED
      BY <1>2, <3>1, <3>2
  <2>5. QED
    BY <2>1, <2>3, <2>4
<1>7. BodiesOpenOnce'
  BY <1>6 DEF BodiesOpenOnce
<1>8. QED
  BY <1>5, <1>7

\* One lemma for each action of the parser.
LEMMA TagSpecLaidOut ==
  ASSUME RecordInv, LaidOutInv, NEW t \in Tags, NEW kind \in {"struct", "union"}, TagSpec(t, kind)
  PROVE  LaidOutInv'
<1>1. layout.rec = 0 /\ UNCHANGED <<frames, layout, ast>>
  BY DEF TagSpec, AtDeclaration, AtDeclarator
<1>2. FramesWereOpen
  BY <1>1 DEF FramesWereOpen
<1>3. UNCHANGED records \/ records' = Append(records, NewRecord(t, kind))
  BY DEF TagSpec
<1>4. CASE UNCHANGED records
  BY <1>1, <1>2, <1>4, QuietLaidOut
<1>5. CASE records' = Append(records, NewRecord(t, kind))
  <2>1. /\ Kept /\ RecordsWereKnown /\ AllSolid' /\ LoopFits'
        /\ \A r \in DOMAIN records : records'[r] = records[r]
    BY <1>1, <1>5, RecordMade
  <2>2. FramesWereKnown
    BY <1>2, FramesSame
  <2>3. NodesWereKnown
    BY <1>1, AllWereKnown DEF NodesWereKnown
  <2>4. AllKnown'
    BY <2>1, <2>2, <2>3, AllKnownStep
  <2>5. AccessesFound'
    BY <1>1, <2>1, AccessesStep
  <2>6. BodiesWereOpen
    <3> SUFFICES ASSUME NEW i \in DOMAIN frames, frames[i].body # 0
                 PROVE  records'[frames[i].body].members = <<>> /\ frames[i].body # layout.rec
      BY <1>1 DEF BodiesWereOpen
    <3>1. frames[i].body \in DOMAIN records
      BY ParserTypes DEF Frame
    <3>2. QED
      BY <2>1, <3>1 DEF LaidOutInv, BodiesOpenOnce
  <2>7. BodiesOpenOnce'
    BY <2>6, BodiesStep
  <2>8. QED
    BY <2>1, <2>4, <2>5, <2>7 DEF LaidOutInv
<1>6. QED
  BY <1>3, <1>4, <1>5

\* The same for Open.
LEMMA OpenLaidOut ==
  ASSUME RecordInv, LaidOutInv, AtDeclarator, NEW body \in Nat, OpenFrame(body),
         UNCHANGED <<records, layout, ast>>,
         body # 0 => /\ records[body].members = <<>>
                     /\ \A i \in DOMAIN frames : frames[i].body # body
  PROVE  LaidOutInv'
<1>1. Kept /\ RecordsWereKnown /\ AllSolid' /\ LoopFits'
  BY RecordsSame
<1>2. \A i \in DOMAIN frames : frames[i].body # 0 => records'[frames[i].body].members = <<>>
  BY DEF LaidOutInv, BodiesOpenOnce
<1>3. FramesWereKnown /\ BodiesOpenOnce'
  BY <1>2, FrameOpened
<1>4. NodesWereKnown
  BY AllWereKnown DEF NodesWereKnown
<1>5. AllKnown'
  BY <1>1, <1>3, <1>4, AllKnownStep
<1>6. AccessesFound'
  BY <1>1, AccessesStep
<1>7. QED
  BY <1>1, <1>3, <1>5, <1>6 DEF LaidOutInv

\* The same for OpenBody.
LEMMA OpenBodyLaidOut ==
  ASSUME RecordInv, LaidOutInv, SizesKnown, OpenBody
  PROVE  LaidOutInv'
<1>1. AtDeclarator /\ spec.rec # 0 /\ OpenFrame(spec.rec) /\ UNCHANGED <<records, layout, ast>>
  BY DEF OpenBody
<1>2. spec.rec \in Nat
  BY DEF RecordInv, ParserInv, StateTyped
<1>3. ~Redefines(spec.rec)
  <2>1. {s \in {"redefined"} : Redefines(spec.rec)} \subseteq Shapes
    BY DEF OpenBody, Note
  <2>2. "redefined" \notin Shapes
    BY DEF SizesKnown
  <2>3. QED
    BY <2>1, <2>2
<1>4. records[spec.rec].members = <<>> /\ \A i \in DOMAIN frames : frames[i].body # spec.rec
  BY <1>3 DEF Redefines
<1>5. PICK b \in Nat : b = spec.rec
  BY <1>2
<1>6. QED
  BY <1>1, <1>4, <1>5, OpenLaidOut

\* The same for OpenBlock.
LEMMA OpenBlockLaidOut ==
  ASSUME RecordInv, LaidOutInv, OpenBlock
  PROVE  LaidOutInv'
<1>1. AtDeclarator /\ OpenFrame(0) /\ UNCHANGED <<records, layout, ast>>
  BY DEF OpenBlock, AtDeclaration
<1>2. PICK b \in Nat : b = 0
  OBVIOUS
<1>3. QED
  BY <1>1, <1>2, OpenLaidOut

\* The same for AnonymousSpec.
LEMMA AnonymousSpecLaidOut ==
  ASSUME RecordInv, LaidOutInv, NEW kind \in {"struct", "union"}, AnonymousSpec(kind)
  PROVE  LaidOutInv'
<1>1. AtDeclarator /\ layout.rec = 0
  BY DEF AnonymousSpec, AtDeclaration, AtDeclarator
<1>2. CASE Report("redefined")
  <2>1. UNCHANGED <<records, layout, ast, frames>>
    BY <1>2 DEF Report
  <2>2. FramesWereOpen
    BY <2>1 DEF FramesWereOpen
  <2>3. QED
    BY <2>1, <2>2, QuietLaidOut
<1>3. CASE /\ records' = Append(records, NewRecord(Brace, kind))
           /\ OpenFrame(Len(records) + 1)
           /\ UNCHANGED <<layout, ast>>
  <2>1. Brace \in Tags \cup {Brace}
    OBVIOUS
  <2>2. /\ Kept /\ RecordsWereKnown /\ AllSolid' /\ LoopFits'
        /\ \A r \in DOMAIN records : records'[r] = records[r]
        /\ records'[Len(records) + 1].members = <<>>
    BY <1>1, <1>3, <2>1, RecordMade
  <2>3. \A i \in DOMAIN frames : frames[i].body \in 0 .. Len(records)
    BY ParserTypes DEF Frame
  <2>4. Len(records) \in Nat /\ DOMAIN records = 1 .. Len(records)
    BY ParserTypes
  <2>5. \A i \in DOMAIN frames : frames[i].body # 0 => records'[frames[i].body].members = <<>>
    BY <2>2, <2>3, <2>4 DEF LaidOutInv, BodiesOpenOnce
  <2>6. PICK b \in Nat : b = Len(records) + 1
    BY <2>4
  <2>7. \A i \in DOMAIN frames : frames[i].body # b
    BY <2>3, <2>4, <2>6
  <2>8. FramesWereKnown /\ BodiesOpenOnce'
    <3>1. OpenFrame(b) /\ records'[b].members = <<>>
      BY <1>3, <2>2, <2>6
    <3>2. UNCHANGED layout
      BY <1>3
    <3>3. QED
      BY <1>1, <2>5, <2>7, <3>1, <3>2, FrameOpened
  <2>9. NodesWereKnown
    BY <1>3, AllWereKnown DEF NodesWereKnown
  <2>10. AllKnown'
    BY <2>2, <2>8, <2>9, AllKnownStep
  <2>11. AccessesFound'
    BY <1>3, <2>2, AccessesStep
  <2>12. QED
    BY <2>2, <2>8, <2>10, <2>11 DEF LaidOutInv
<1>4. QED
  BY <1>2, <1>3 DEF AnonymousSpec

\* Front(frames) are frames.
LEMMA FramesFront ==
  ASSUME RecordInv, frames # <<>>, frames' = Front(frames)
  PROVE  \A i \in DOMAIN frames' : i \in DOMAIN frames /\ i # Len(frames) /\ frames'[i] = frames[i]
<1>1. frames \in Seq(Frame(Len(records)))
  BY DEF RecordInv, ParserInv, StateTyped
<1>2. /\ Front(frames) \in Seq(Frame(Len(records)))
      /\ Len(Front(frames)) = Len(frames) - 1
      /\ \A i \in 1 .. Len(frames) - 1 : Front(frames)[i] = frames[i]
  BY <1>1, FrontType
<1>3. Len(frames) \in Nat /\ DOMAIN frames = 1 .. Len(frames)
  BY <1>1
<1>4. DOMAIN Front(frames) = 1 .. Len(frames) - 1
  BY <1>2
<1>5. QED
  BY <1>2, <1>3, <1>4

\* The same for CloseBlock.
LEMMA CloseBlockLaidOut ==
  ASSUME RecordInv, LaidOutInv, CloseBlock
  PROVE  LaidOutInv'
<1>1. AtDeclarator /\ frames' = Front(frames) /\ UNCHANGED <<records, layout, ast>>
  BY DEF CloseBlock, AtDeclaration
<1>2. frames # <<>>
  BY <1>1, AtDeclaratorFacts
<1>3. FramesWereOpen
  BY <1>1, <1>2, FramesFront DEF FramesWereOpen
<1>4. QED
  BY <1>1, <1>3, QuietLaidOut

\* The end of a body: its members are those of a record that no type contains.
LEMMA CloseBodyLaidOut ==
  ASSUME RecordInv, LaidOutInv, CloseBody
  PROVE  LaidOutInv'
<1> DEFINE b == Top.body
           l == Len(frames)
<1>1. /\ AtDeclarator /\ b # 0 /\ frames' = Front(frames) /\ UNCHANGED ast
      /\ records' = [records EXCEPT ![b].members = Top.members]
      /\ layout' = [NoLayout EXCEPT !.rec = b]
  BY DEF CloseBody, AtDeclaration, InBlock
<1>2. layout.rec = 0 /\ frames # <<>> /\ Top = frames[l] /\ l \in DOMAIN frames
      /\ Top \in Frame(Len(records))
  BY <1>1, AtDeclaratorFacts, ParserTypes
<1>3. b \in DOMAIN records
  BY <1>1, <1>2, ParserTypes DEF Frame
<1>4. /\ records[b].members = <<>>
      /\ \A j \in DOMAIN frames \ {l} : frames[j].body # b
  BY <1>1, <1>2 DEF LaidOutInv, BodiesOpenOnce
<1>5. /\ DOMAIN records' = DOMAIN records
      /\ \A r \in DOMAIN records : r # b => records'[r] = records[r]
      /\ records'[b] = [records[b] EXCEPT !.members = Top.members]
  BY <1>1, <1>3
<1>6. records'[b].members = Top.members
  <2>1. records[b] \in Record
    BY <1>3, ElementOfSeq DEF RecordInv, ParserInv, RecordsTyped
  <2>2. QED
    BY <1>5, <2>1 DEF Record
<1>7. layout'.rec = b /\ layout'.next = 1 /\ layout'.offset = 0 /\ layout'.maxSize = 0
  BY <1>1 DEF NoLayout
<1> HIDE DEF b, l
<1>8. Kept
  BY <1>2, <1>4, <1>5, <1>7 DEF Kept
<1>9. NoNewMembers
  <2>1. 0 \notin DOMAIN records
    BY ParserTypes
  <2>2. QED
    BY <1>2, <1>5, <1>7, <2>1 DEF NoNewMembers
<1>10. RecordsWereKnown
  <2> SUFFICES ASSUME NEW r \in DOMAIN records, NEW k \in DOMAIN records'[r].members
               PROVE  WasKnown(records'[r].members[k])
    BY <1>5 DEF RecordsWereKnown
  <2>1. CASE r = b
    <3>1. records'[r].members = frames[l].members
      BY <1>2, <1>6, <2>1
    <3>2. WasKnown(frames[l].members[k])
      BY <1>2, <3>1, AllWereKnown
    <3>3. QED
      BY <3>1, <3>2
  <2>2. CASE r # b
    <3>1. records'[r] = records[r]
      BY <1>5, <2>2
    <3>2. WasKnown(records[r].members[k])
      BY <3>1, AllWereKnown
    <3>3. QED
      BY <3>1, <3>2
  <2>3. QED
    BY <2>1, <2>2
<1>11. \A i \in DOMAIN frames' : i \in DOMAIN frames /\ i # l /\ frames'[i] = frames[i]
  BY <1>1, <1>2, FramesFront DEF l
<1>12. FramesWereKnown
  <2>1. FramesWereOpen
    BY <1>11 DEF FramesWereOpen
  <2>2. QED
    BY <2>1, FramesSame
<1>13. NodesWereKnown
  BY <1>1, AllWereKnown DEF NodesWereKnown
<1>14. AllKnown'
  BY <1>8, <1>10, <1>12, <1>13, AllKnownStep
<1>15. AllSolid'
  BY <1>8, <1>9, AllSolidStep
<1>16. AccessesFound'
  BY <1>1, <1>8, AccessesStep
<1>17. BodiesOpenOnce'
  <2>1. BodiesWereOpen
    <3> SUFFICES ASSUME NEW i \in DOMAIN frames'
                 PROVE  /\ i \in DOMAIN frames /\ frames'[i].body = frames[i].body
                        /\ frames[i].body # 0 =>
                             records'[frames[i].body].members = <<>> /\ frames[i].body # layout'.rec
      BY DEF BodiesWereOpen
    <3>1. i \in DOMAIN frames /\ frames'[i].body = frames[i].body /\ frames[i].body # b
      BY <1>4, <1>11
    <3>2. frames[i].body # 0 => frames[i].body \in DOMAIN records
      BY <3>1, ParserTypes DEF Frame
    <3>3. frames[i].body # 0 => records[frames[i].body].members = <<>>
      BY <3>1 DEF LaidOutInv, BodiesOpenOnce
    <3>4. QED
      BY <1>5, <1>7, <3>1, <3>2, <3>3
  <2>2. QED
    BY <2>1, BodiesStep
<1>18. LoopFits'
  BY <1>7 DEF LoopFits
<1>19. QED
  BY <1>14, <1>15, <1>16, <1>17, <1>18 DEF LaidOutInv

\* A known type has a size and an alignment.
LEMMA KnownSize ==
  ASSUME RecordInv, LaidOutInv, NEW t, WasKnown(t)
  PROVE  SizeOf(records, t) \in Nat /\ AlignOf(records, t) \in Alignments
<1>1. t \in MemberType(Len(records)) /\ SizeKnown(t)
  BY DEF WasKnown
<1>2. records \in Seq(Record)
  BY DEF RecordInv, ParserInv, RecordsTyped
<1>3. SizeOf(records, t) \in Int /\ AlignOf(records, t) \in Alignments \cup {0}
  BY <1>1, <1>2, SizeType
<1>4. CASE t.kind # "record"
  <2>1. t.size >= 0 /\ t.align \in Alignments
    BY <1>1, <1>4 DEF SizeKnown, MemberType
  <2>2. QED
    BY <1>3, <1>4, <2>1 DEF SizeOf, AlignOf
<1>5. CASE t.kind = "record"
  <2>1. t.ref \in DOMAIN records
    BY <1>1, <1>5, ParserTypes DEF MemberType, Type
  <2>2. records[t.ref].members # <<>> /\ t.ref # layout.rec
    BY <1>1, <1>5 DEF SizeKnown
  <2>3. Solid(records, t.ref)
    BY <2>1, <2>2 DEF LaidOutInv, AllSolid
  <2>4. records[t.ref].size >= 0 /\ records[t.ref].align # 0
    BY <2>3 DEF Solid
  <2>5. QED
    BY <1>3, <1>5, <2>4 DEF SizeOf, AlignOf
<1>6. QED
  BY <1>4, <1>5

\* The members being laid out are complete, and so the loop's invariant holds.
LEMMA LaidOutComplete ==
  ASSUME RecordInv, LaidOutInv, layout.rec # 0
  PROVE  /\ \A k \in DOMAIN LaidOutMembers :
              /\ WasKnown(LaidOutMembers[k])
              /\ SizeOf(records, LaidOutMembers[k]) \in Nat
              /\ AlignOf(records, LaidOutMembers[k]) \in Alignments
         /\ MaximaSeen
         /\ LaidOutMembers # <<>> => Complete(records, layout.rec)
<1>1. layout.rec \in DOMAIN records /\ LaidOutMembers = records[layout.rec].members
  BY LaidOutMembersType DEF LaidOutMembers
<1>2. ASSUME NEW k \in DOMAIN LaidOutMembers
      PROVE  /\ WasKnown(LaidOutMembers[k])
             /\ SizeOf(records, LaidOutMembers[k]) \in Nat
             /\ AlignOf(records, LaidOutMembers[k]) \in Alignments
  <2>1. WasKnown(LaidOutMembers[k])
    BY <1>1, AllWereKnown
  <2>2. PICK t : t = LaidOutMembers[k]
    OBVIOUS
  <2>3. SizeOf(records, t) \in Nat /\ AlignOf(records, t) \in Alignments
    BY <2>1, <2>2, KnownSize
  <2>4. QED
    BY <2>1, <2>2, <2>3
<1>3. MaximaSeen
  <2>1. /\ layout.next <= Len(LaidOutMembers) + 1 /\ layout.next \in Nat \ {0}
        /\ Len(LaidOutMembers) \in Nat /\ DOMAIN LaidOutMembers = 1 .. Len(LaidOutMembers)
    BY LaidOutMembersType DEF RecordInv, ParserInv, LoopInv, Layout, Members
  <2>2. \A k \in 1 .. layout.next - 1 : k \in DOMAIN LaidOutMembers
    BY <2>1
  <2>3. 0 \notin Alignments
    BY DEF Alignments
  <2>4. SeenComplete
    BY <1>2, <2>2, <2>3 DEF SeenComplete
  <2>5. QED
    BY <2>4 DEF RecordInv, ParserInv, LoopInv
<1>4. ASSUME LaidOutMembers # <<>>
      PROVE  Complete(records, layout.rec)
  <2> SUFFICES ASSUME NEW k \in DOMAIN LaidOutMembers
               PROVE  /\ SizeOf(records, LaidOutMembers[k]) >= 0
                      /\ AlignOf(records, LaidOutMembers[k]) # 0
                      /\ LaidOutMembers[k].kind = "record" => LaidOutMembers[k].ref # layout.rec
    BY <1>1, <1>4 DEF Complete
  <2>1. SizeKnown(LaidOutMembers[k])
    BY <1>2 DEF WasKnown
  <2>2. LaidOutMembers[k].kind = "record" => LaidOutMembers[k].ref # layout.rec
    BY <2>1 DEF SizeKnown
  <2>3. AlignOf(records, LaidOutMembers[k]) # 0
    BY <1>2 DEF Alignments
  <2>4. QED
    BY <1>2, <2>2, <2>3
<1>5. QED
  BY <1>2, <1>3, <1>4

\* A round of SetMembers keeps LoopFits.
LEMMA LayoutMemberFits ==
  ASSUME RecordInv, LaidOutInv, LayoutMember
  PROVE  LoopFits'
<1> DEFINE n == layout.next
           ms == LaidOutMembers
           sz(k) == SizeOf(records, ms[k])
           isStruct == records[layout.rec].kind = "struct"
<1>1. layout.rec # 0 /\ n <= Len(ms) /\ records' = records
  BY DEF LayoutMember
<1>2. /\ n \in Nat /\ n >= 1 /\ Len(ms) \in Nat /\ DOMAIN ms = 1 .. Len(ms)
      /\ layout.offset \in Int /\ layout.maxSize \in Int /\ layout.maxIdx \in Nat \ {0}
  BY <1>1, LaidOutMembersType DEF Layout, Members
<1>3. \A k \in 1 .. Len(ms) : sz(k) \in Nat
  BY <1>1, <1>2, LaidOutComplete
<1>4. /\ layout'.rec = layout.rec /\ layout'.next = n + 1
      /\ layout'.offset = IF isStruct
                            THEN RoundUp(layout.offset, AlignOf(records, ms[n])) + sz(n) ELSE 0
      /\ layout'.maxSize = IF layout.maxSize < sz(n) THEN sz(n) ELSE layout.maxSize
      /\ layout'.maxIdx = IF layout.maxSize < sz(n) THEN n ELSE layout.maxIdx
  BY DEF LayoutMember
<1>5. ms' = ms
  BY <1>1, <1>4 DEF LaidOutMembers
<1>6. /\ layout.offset >= 0 /\ layout.maxSize >= 0
      /\ isStruct => \A k \in 1 .. n - 1 : sz(k) <= layout.offset
      /\ n > 1 => sz(layout.maxIdx) = layout.maxSize
  BY <1>1 DEF LaidOutInv, LoopFits
<1>7. n = 1 => layout.maxSize = 0 /\ layout.maxIdx = 1
  <2>1. n = 1 => layout.maxSize = 0
    BY <1>1, LaidOutComplete DEF MaximaSeen
  <2>2. layout.maxIdx = 1 \/ layout.maxIdx < n
    BY <1>1 DEF RecordInv, ParserInv, LoopInv
  <2>3. QED
    BY <1>2, <2>1, <2>2
<1>8. sz(n) \in Nat
  BY <1>1, <1>2, <1>3
<1>9. isStruct => layout'.offset \in Int /\ layout'.offset >= layout.offset + sz(n)
  <2>1. AlignOf(records, ms[n]) \in Alignments
    BY <1>1, <1>2, LaidOutComplete
  <2>2. PICK a \in Alignments : a = AlignOf(records, ms[n])
    BY <2>1
  <2>3. RoundUp(layout.offset, a) \in Int /\ Placed(RoundUp(layout.offset, a), layout.offset, a)
    BY <1>2, RoundUpPlaces
  <2>4. RoundUp(layout.offset, a) >= layout.offset
    BY <1>2, <2>3 DEF Placed
  <2>5. QED
    BY <1>2, <1>4, <1>8, <2>2, <2>3, <2>4
<1> HIDE DEF n, ms, sz, isStruct
<1>10. layout'.offset >= 0 /\ layout'.maxSize >= 0
  BY <1>2, <1>4, <1>6, <1>8, <1>9
<1>11. isStruct => \A k \in 1 .. n : sz(k) <= layout'.offset
  <2> SUFFICES ASSUME isStruct, NEW k \in 1 .. n
               PROVE  sz(k) <= layout'.offset
    OBVIOUS
  <2>1. sz(k) \in Nat
    BY <1>1, <1>2, <1>3
  <2>2. k = n \/ k \in 1 .. n - 1
    BY <1>2
  <2>3. k = n \/ sz(k) <= layout.offset
    BY <1>6, <2>2
  <2>4. QED
    BY <1>2, <1>6, <1>8, <1>9, <2>1, <2>3
<1>12. sz(layout'.maxIdx) = layout'.maxSize
  <2>1. CASE layout.maxSize < sz(n)
    BY <1>4, <2>1
  <2>2. CASE ~(layout.maxSize < sz(n)) /\ n > 1
    BY <1>4, <1>6, <2>2
  <2>3. CASE ~(layout.maxSize < sz(n)) /\ n = 1
    <3>1. sz(n) = 0
      BY <1>7, <1>8, <2>3
    <3>2. QED
      BY <1>4, <1>7, <2>3, <3>1
  <2>4. QED
    BY <1>2, <2>1, <2>2, <2>3
<1>13. layout'.next - 1 = n
  BY <1>2, <1>4
<1>14. records'[layout'.rec].kind = "struct" => \A k \in 1 .. layout'.next - 1 : SizeOf(records', ms'[k]) <= layout'.offset
  BY <1>1, <1>4, <1>5, <1>11, <1>13 DEF isStruct, sz
<1>15. SizeOf(records', ms'[layout'.maxIdx]) = layout'.maxSize
  BY <1>1, <1>5, <1>12 DEF sz
<1>16. QED
  BY <1>10, <1>14, <1>15 DEF LoopFits, ms

\* A round of SetMembers keeps the invariant,
LEMMA LayoutMemberLaidOut ==
  ASSUME RecordInv, LaidOutInv, LayoutMember
  PROVE  LaidOutInv'
<1>1. UNCHANGED <<records, frames, ast>> /\ layout'.rec = layout.rec
  BY DEF LayoutMember
<1>2. LoopFits'
  BY LayoutMemberFits
<1>3. AllSolid' /\ AccessesFound'
  BY <1>1 DEF LaidOutInv, AllSolid, AccessesFound
<1>4. BodiesOpenOnce'
  BY <1>1 DEF LaidOutInv, BodiesOpenOnce
<1>5. AllKnown'
  BY <1>1 DEF LaidOutInv, AllKnown, SizeKnown
<1>6. QED
  BY <1>2, <1>3, <1>4, <1>5 DEF LaidOutInv

\* The layout of a record is complete: its members fit.
LEMMA FinishLayoutSolid ==
  ASSUME RecordInv, LaidOutInv, FinishLayout, Kept, LaidOutMembers # <<>>
  PROVE  Solid(records', layout.rec)
<1> DEFINE r == layout.rec
           ms == LaidOutMembers
           sz(k) == SizeOf(records, ms[k])
           isStruct == records[r].kind = "struct"
<1>1. /\ r # 0 /\ layout.next > Len(ms)
      /\ layout.next <= Len(ms) + 1 /\ (layout.maxIdx = 1 \/ layout.maxIdx < layout.next)
  BY DEF FinishLayout, RecordInv, ParserInv, LoopInv
<1>2. /\ r \in DOMAIN records /\ ms = records[r].members /\ records[r] \in Record
      /\ Len(ms) \in Nat /\ DOMAIN ms = 1 .. Len(ms) /\ ms \in Members(Len(records))
      /\ layout.offset \in Int /\ layout.maxSize \in Int /\ layout.maxIdx \in Nat \ {0}
      /\ layout.maxAlign \in Alignments \cup {0} /\ layout.next \in Nat
  BY <1>1, LaidOutMembersType DEF Layout, Members, LaidOutMembers
<1>3. Len(ms) # 0
  BY <1>2 DEF Members
<1>4. /\ Complete(records, r) /\ MaximaSeen
      /\ \A k \in DOMAIN ms : WasKnown(ms[k]) /\ sz(k) \in Nat /\ AlignOf(records, ms[k]) \in Alignments
  BY <1>1, LaidOutComplete
<1>5. LaidOut(records', r)
  BY <1>4, FinishLayoutIsRight
<1>6. records'[r] = [records[r] EXCEPT !.offsets = layout.offsets, !.size = LayoutSize,
                       !.align = layout.maxAlign, !.maxElementIdx = layout.maxIdx]
  BY FinishLayoutRecords
<1>7. /\ records'[r].members = ms /\ records'[r].kind = records[r].kind
      /\ records'[r].size = LayoutSize /\ records'[r].align = layout.maxAlign
      /\ records'[r].maxElementIdx = layout.maxIdx
  BY <1>2, <1>6 DEF Record
<1>8. layout.next = Len(ms) + 1 /\ layout.maxIdx \in DOMAIN ms
  BY <1>1, <1>2, <1>3
<1>9. layout.maxAlign \in Alignments
  <2>1. \E k \in DOMAIN ms : AlignOf(records, ms[k]) = layout.maxAlign
    BY SMTT(60), <1>2, <1>3, <1>4, <1>8 DEF MaximaSeen
  <2>2. QED
    BY <1>4, <2>1
<1>10. /\ layout.offset >= 0 /\ layout.maxSize >= 0
       /\ isStruct => \A k \in DOMAIN ms : sz(k) <= layout.offset
       /\ sz(layout.maxIdx) = layout.maxSize
  <2>1. layout.next - 1 = Len(ms) /\ layout.next > 1
    BY <1>2, <1>3, <1>8
  <2>2. QED
    BY <1>1, <1>2, <2>1 DEF LaidOutInv, LoopFits
<1>11. \A k \in DOMAIN ms : sz(k) <= layout.maxSize
  BY <1>2, <1>4, <1>8 DEF MaximaSeen
<1>12. PICK x \in Int : x = LayoutSizeUnpadded
  BY <1>2 DEF LayoutSizeUnpadded
<1>13. x >= 0 /\ \A k \in DOMAIN ms : sz(k) <= x
  BY <1>10, <1>11, <1>12 DEF LayoutSizeUnpadded
<1>14. LayoutSize = RoundUp(x, layout.maxAlign)
  BY <1>12 DEF LayoutSizeUnpadded, LayoutSize
<1>15. LayoutSize \in Int /\ LayoutSize >= x
  <2>1. RoundUp(x, layout.maxAlign) \in Int /\ Placed(RoundUp(x, layout.maxAlign), x, layout.maxAlign)
    BY <1>9, RoundUpPlaces
  <2>2. QED
    BY <1>14, <2>1 DEF Placed
<1>16. \A k \in DOMAIN ms : SizeOf(records', ms[k]) = sz(k)
  <2> SUFFICES ASSUME NEW k \in DOMAIN ms
               PROVE  SizeOf(records', ms[k]) = SizeOf(records, ms[k])
    OBVIOUS
  <2>1. PICK t : t = ms[k]
    OBVIOUS
  <2>2. t \in MemberType(Len(records)) /\ SizeKnown(t)
    BY <1>4, <2>1 DEF WasKnown
  <2>3. SizeOf(records', t) = SizeOf(records, t)
    BY <2>2, KnownStays
  <2>4. QED
    BY <2>1, <2>3
<1> HIDE DEF r, ms, sz, isStruct
<1>17. \A k \in DOMAIN ms :
         /\ SizeOf(records', ms[k]) <= records'[r].size
         /\ SizeOf(records', ms[k]) <= SizeOf(records', ms[layout.maxIdx])
  <2> SUFFICES ASSUME NEW k \in DOMAIN ms
               PROVE  /\ SizeOf(records', ms[k]) <= records'[r].size
                      /\ SizeOf(records', ms[k]) <= SizeOf(records', ms[layout.maxIdx])
    OBVIOUS
  <2>1. sz(k) \in Nat /\ sz(k) <= x /\ sz(k) <= layout.maxSize
    BY <1>4, <1>11, <1>13 DEF sz
  <2>2. SizeOf(records', ms[layout.maxIdx]) = layout.maxSize
    BY <1>8, <1>10, <1>16
  <2>3. sz(k) <= LayoutSize
    BY <1>12, <1>15, <2>1
  <2>4. QED
    BY <1>7, <1>16, <2>1, <2>2, <2>3
<1>18. records'[r].size >= 0 /\ records'[r].align # 0
  <2>1. LayoutSize >= 0
    BY <1>12, <1>13, <1>15
  <2>2. QED
    BY <1>7, <1>9, <2>1 DEF Alignments
<1>19. QED
  BY <1>5, <1>7, <1>17, <1>18 DEF Solid, r

\* and so does its end, which lays out one more record.
LEMMA FinishLayoutLaidOut ==
  ASSUME RecordInv, LaidOutInv, FinishLayout
  PROVE  LaidOutInv'
<1>1. layout.rec # 0 /\ layout'.rec = 0 /\ UNCHANGED <<frames, ast>>
  BY DEF FinishLayout, NoLayout
<1>2. /\ layout.rec \in DOMAIN records
      /\ DOMAIN records = 1 .. Len(records) /\ DOMAIN records' = DOMAIN records
      /\ \A r \in DOMAIN records : r # layout.rec => records'[r] = records[r]
      /\ \A r \in DOMAIN records : records'[r].members = records[r].members
  <2>1. records' \in Seq(Record) /\ Len(records') = Len(records)
    BY FinishLayoutRecords
  <2>2. QED
    BY <1>1, <2>1, FinishLayoutRecords, LaidOutMembersType, ParserTypes
<1>3. Kept
  BY <1>1, <1>2 DEF Kept
<1>4. RecordsWereKnown
  <2> SUFFICES ASSUME NEW r \in DOMAIN records, NEW k \in DOMAIN records'[r].members
               PROVE  WasKnown(records'[r].members[k])
    BY <1>2 DEF RecordsWereKnown
  <2>1. records'[r].members = records[r].members
    BY <1>2
  <2>2. WasKnown(records[r].members[k])
    BY <2>1, AllWereKnown
  <2>3. QED
    BY <2>1, <2>2
<1>5. FramesWereKnown
  BY <1>1, AllWereKnown DEF FramesWereKnown
<1>6. NodesWereKnown
  BY <1>1, AllWereKnown DEF NodesWereKnown
<1>7. AllKnown'
  BY <1>3, <1>4, <1>5, <1>6, AllKnownStep
<1>8. AllSolid'
  <2> SUFFICES ASSUME NEW r \in DOMAIN records, records[r].members # <<>>
               PROVE  Solid(records', r)
    BY <1>2 DEF AllSolid
  <2>1. CASE r = layout.rec
    <3>1. LaidOutMembers # <<>>
      BY <2>1 DEF LaidOutMembers
    <3>2. QED
      BY <1>3, <2>1, <3>1, FinishLayoutSolid
  <2>2. CASE r # layout.rec
    BY <1>3, <2>2, SolidStays
  <2>3. QED
    BY <2>1, <2>2
<1>9. BodiesOpenOnce'
  <2>1. BodiesWereOpen
    <3> SUFFICES ASSUME NEW i \in DOMAIN frames, frames[i].body # 0
                 PROVE  records'[frames[i].body].members = <<>> /\ frames[i].body # layout'.rec
      BY <1>1 DEF BodiesWereOpen
    <3>1. frames[i].body \in DOMAIN records
      BY ParserTypes DEF Frame
    <3>2. QED
      BY <1>1, <1>2, <3>1 DEF LaidOutInv, BodiesOpenOnce
  <2>2. QED
    BY <2>1, BodiesStep
<1>10. LoopFits'
  BY <1>1 DEF LoopFits
<1>11. AccessesFound'
  BY <1>1, <1>3, AccessesStep
<1>12. QED
  BY <1>7, <1>8, <1>9, <1>10, <1>11 DEF LaidOutInv

\* A declarator of a type that is known.
LEMMA DeclareLaidOut ==
  ASSUME RecordInv, LaidOutInv, AtDeclarator, NEW t, WasKnown(t), Declare(t)
  PROVE  LaidOutInv'
<1>1. UNCHANGED <<records, layout>>
  BY DEF Declare
<1>2. Kept /\ RecordsWereKnown /\ AllSolid' /\ LoopFits'
  BY <1>1, RecordsSame
<1>3. /\ frames # <<>> /\ Len(frames) \in DOMAIN frames
      /\ frames \in Seq(Frame(Len(records)))
      /\ Top = frames[Len(frames)]
  BY AtDeclaratorFacts, ParserTypes DEF RecordInv, ParserInv, StateTyped
<1>4. CASE InBlock
  <2>1. /\ ast' = Append(ast, [kind |-> "decl", type |-> t, rec |-> 0, idx |-> 0])
        /\ frames' = [frames EXCEPT ![Len(frames)].vars = @ \cup {Len(ast) + 1}]
    BY <1>4 DEF Declare
  <2>2. frames[Len(frames)] \in Frame(Len(records))
    BY <1>3, ElementOfSeq
  <2>3. FramesWereOpen
    <3> SUFFICES ASSUME NEW i \in DOMAIN frames'
                 PROVE  i \in DOMAIN frames /\ frames'[i].body = frames[i].body
                          /\ frames'[i].members = frames[i].members
      BY DEF FramesWereOpen
    <3>1. i \in DOMAIN frames
      BY <2>1
    <3>2. frames'[i] = IF i = Len(frames)
                         THEN [frames[i] EXCEPT !.vars = @ \cup {Len(ast) + 1}] ELSE frames[i]
      BY <2>1, <3>1
    <3>3. QED
      BY <2>2, <3>1, <3>2 DEF Frame
  <2>4. FramesWereKnown /\ BodiesOpenOnce'
    BY <1>1, <2>3, FramesSame
  <2>5. ast \in Seq(Node(Len(records))) /\ Len(ast) \in Nat /\ DOMAIN ast = 1 .. Len(ast)
    BY DEF RecordInv, ParserInv, StateTyped
  <2>6. /\ DOMAIN ast' = 1 .. Len(ast) + 1
        /\ \A i \in DOMAIN ast : ast'[i] = ast[i]
        /\ ast'[Len(ast) + 1].type = t /\ ast'[Len(ast) + 1].kind = "decl"
    BY <2>1, <2>5
  <2>7. \A i \in DOMAIN ast' : i \in DOMAIN ast \/ i = Len(ast) + 1
    BY <2>5, <2>6
  <2>8. NodesWereKnown
    BY <2>6, <2>7, AllWereKnown DEF NodesWereKnown
  <2>9. AllKnown'
    BY <1>2, <2>4, <2>8, AllKnownStep
  <2>10. AccessesFound'
    <3> SUFFICES ASSUME NEW j \in DOMAIN ast', ast'[j].kind = "access"
                 PROVE  /\ ast'[j].rec \in DOMAIN records
                        /\ ast'[j].idx \in DOMAIN records[ast'[j].rec].members
                        /\ ast'[j].type = records[ast'[j].rec].members[ast'[j].idx]
                        /\ \E v \in 1 .. j - 1 :
                             ast'[v].type.kind # "prim" /\ ast'[v].type.ref = ast'[j].rec
      BY <1>1 DEF AccessesFound
    <3>1. j \in DOMAIN ast
      BY <2>6, <2>7
    <3>2. ast'[j] = ast[j] /\ \A v \in 1 .. j - 1 : ast'[v] = ast[v]
      BY <2>5, <2>6, <3>1
    <3>3. /\ ast[j].rec \in DOMAIN records
          /\ ast[j].idx \in DOMAIN records[ast[j].rec].members
          /\ ast[j].type = records[ast[j].rec].members[ast[j].idx]
          /\ \E v \in 1 .. j - 1 : ast[v].type.kind # "prim" /\ ast[v].type.ref = ast[j].rec
      BY <3>1, <3>2 DEF LaidOutInv, AccessesFound
    <3>4. QED
      BY <3>2, <3>3
  <2>11. QED
    BY <1>2, <2>4, <2>9, <2>10 DEF LaidOutInv
<1>5. CASE ~InBlock
  <2>1. UNCHANGED ast /\ frames' = [frames EXCEPT ![Len(frames)].members = Append(@, t)]
    BY <1>5 DEF Declare
  <2>2. frames[Len(frames)] \in Frame(Len(records))
    BY <1>3, ElementOfSeq
  <2>3. frames[Len(frames)].members \in Seq(MemberType(Len(records)))
    BY <2>2 DEF Frame
  <2>4. \A i \in DOMAIN frames' :
          /\ i \in DOMAIN frames /\ frames'[i].body = frames[i].body
          /\ frames'[i].members = IF i = Len(frames) THEN Append(frames[i].members, t)
                                                      ELSE frames[i].members
    BY <2>1, <2>2 DEF Frame
  <2>5. BodiesOpenOnce'
    <3>1. BodiesWereOpen
      BY <1>1, <2>4 DEF BodiesWereOpen, LaidOutInv, BodiesOpenOnce
    <3>2. QED
      BY <3>1, BodiesStep
  <2>6. FramesWereKnown
    <3> SUFFICES ASSUME NEW i \in DOMAIN frames', NEW k \in DOMAIN frames'[i].members
                 PROVE  WasKnown(frames'[i].members[k])
      BY DEF FramesWereKnown
    <3>1. CASE i # Len(frames)
      BY <2>4, <3>1, AllWereKnown
    <3>2. CASE i = Len(frames)
      <4>1. i \in DOMAIN frames /\ frames'[i].members = Append(frames[i].members, t)
        BY <2>4, <3>2
      <4>2. (k \in DOMAIN frames[i].members /\ frames'[i].members[k] = frames[i].members[k])
              \/ frames'[i].members[k] = t
        BY <2>3, <3>2, <4>1
      <4>3. QED
        BY <4>1, <4>2, AllWereKnown
    <3>3. QED
      BY <3>1, <3>2
  <2>7. NodesWereKnown
    BY <2>1, AllWereKnown DEF NodesWereKnown
  <2>8. AllKnown'
    BY <1>2, <2>6, <2>7, AllKnownStep
  <2>9. AccessesFound'
    BY <1>2, <2>1, AccessesStep
  <2>10. QED
    BY <1>2, <2>5, <2>8, <2>9 DEF LaidOutInv
<1>6. QED
  BY <1>4, <1>5

\* The same for DeclarePrim.
LEMMA DeclarePrimLaidOut ==
  ASSUME RecordInv, LaidOutInv, SizesKnown, NEW p \in Prims, DeclarePrim(p)
  PROVE  LaidOutInv'
<1>1. AtDeclarator /\ Declare(Prim(p)) /\ {s \in {"flexible"} : p.size < 0} \subseteq Shapes
  BY DEF DeclarePrim, AtDeclaration, Note
<1>2. ~(p.size < 0)
  BY <1>1 DEF SizesKnown
<1>3. p \in [size : Int, align : Alignments]
  BY PrimsAssumption
<1>4. Len(records) \in Nat
  BY ParserTypes
<1>5. Prim(p) \in MemberType(Len(records)) /\ Prim(p).kind # "record" /\ Prim(p).size = p.size
  BY <1>3, <1>4 DEF Prim, MemberType, Type, Alignments
<1>6. WasKnown(Prim(p))
  BY <1>2, <1>3, <1>5 DEF WasKnown, SizeKnown
<1>7. PICK t : t = Prim(p)
  OBVIOUS
<1>8. QED
  BY <1>1, <1>6, <1>7, DeclareLaidOut

\* The same for DeclareRecord.
LEMMA DeclareRecordLaidOut ==
  ASSUME RecordInv, LaidOutInv, SizesKnown, DeclarePointer \/ DeclareObject
  PROVE  LaidOutInv'
<1>1. AtDeclarator /\ spec.rec # 0 /\ layout.rec = 0
  BY DEF DeclarePointer, DeclareObject, AtDeclarator
<1>2. Len(records) \in Nat /\ DOMAIN records = 1 .. Len(records) /\ spec.rec \in 1 .. Len(records)
  BY <1>1, ParserTypes DEF RecordInv, ParserInv, StateTyped
<1>3. CASE DeclarePointer
  <2>1. Declare(PointerTo(spec.rec))
    BY <1>3 DEF DeclarePointer
  <2>2. /\ PointerTo(spec.rec) \in MemberType(Len(records))
        /\ PointerTo(spec.rec).kind # "record" /\ PointerTo(spec.rec).size = 8
    BY <1>2 DEF PointerTo, MemberType, Type, Alignments
  <2>3. WasKnown(PointerTo(spec.rec))
    BY <2>2 DEF WasKnown, SizeKnown
  <2>4. PICK t : t = PointerTo(spec.rec)
    OBVIOUS
  <2>5. QED
    BY <1>1, <2>1, <2>3, <2>4, DeclareLaidOut
<1>4. CASE DeclareObject
  <2>1. /\ Declare(RecordOf(spec.rec))
        /\ {s \in {"incomplete"} : records[spec.rec].members = <<>>} \subseteq Shapes
    BY <1>4 DEF DeclareObject, Note
  <2>2. records[spec.rec].members # <<>>
    BY <2>1 DEF SizesKnown
  <2>3. /\ RecordOf(spec.rec) \in MemberType(Len(records))
        /\ RecordOf(spec.rec).kind = "record" /\ RecordOf(spec.rec).ref = spec.rec
    BY <1>2 DEF RecordOf, MemberType, Type
  <2>4. WasKnown(RecordOf(spec.rec))
    BY <1>1, <2>2, <2>3 DEF WasKnown, SizeKnown
  <2>5. PICK t : t = RecordOf(spec.rec)
    OBVIOUS
  <2>6. QED
    BY <1>1, <2>1, <2>4, <2>5, DeclareLaidOut
<1>5. QED
  BY <1>3, <1>4

\* The same for NoDeclarator.
LEMMA NoDeclaratorLaidOut ==
  ASSUME RecordInv, LaidOutInv, NoDeclarator
  PROVE  LaidOutInv'
<1>1. UNCHANGED <<records, layout, ast, frames>>
  BY DEF NoDeclarator
<1>2. FramesWereOpen
  BY <1>1 DEF FramesWereOpen
<1>3. QED
  BY <1>1, <1>2, QuietLaidOut

\* The same for EndFunction.
LEMMA EndFunctionLaidOut ==
  ASSUME RecordInv, LaidOutInv, EndFunction
  PROVE  LaidOutInv'
<1>1. UNCHANGED <<records, layout, ast>> /\ frames' = <<>>
  BY DEF EndFunction
<1>2. FramesWereOpen
  BY <1>1 DEF FramesWereOpen
<1>3. QED
  BY <1>1, <1>2, QuietLaidOut

\* The same for Access.
LEMMA AccessLaidOut ==
  ASSUME RecordInv, LaidOutInv, NEW v \in VisibleVars, NEW k \in 1 .. MaxMembers, Access(v, k)
  PROVE  LaidOutInv'
<1> DEFINE r == ast[v].type.ref
           n == MemberNode(r, k)
<1>1. UNCHANGED <<records, layout, frames>>
  BY DEF Access, Report
<1>2. FramesWereOpen
  BY <1>1 DEF FramesWereOpen
<1>3. CASE UNCHANGED ast
  BY <1>1, <1>2, <1>3, QuietLaidOut
<1>4. CASE k \in DOMAIN records[r].members /\ ast' = Append(ast, n)
  <2>1. Kept /\ RecordsWereKnown /\ AllSolid' /\ LoopFits'
    BY <1>1, RecordsSame
  <2>2. FramesWereKnown /\ BodiesOpenOnce'
    BY <1>1, <1>2, FramesSame
  <2>3. ast \in Seq(Node(Len(records))) /\ Len(ast) \in Nat /\ DOMAIN ast = 1 .. Len(ast)
    BY DEF RecordInv, ParserInv, StateTyped
  <2>4. v \in DOMAIN ast /\ ast[v].type.kind # "prim"
    BY DEF VisibleVars, RecordInv, ParserInv, FramesNest
  <2>5. ast[v].type \in MemberType(Len(records))
    BY <2>4, AllWereKnown DEF WasKnown
  <2>6. r \in DOMAIN records
    BY <2>4, <2>5, ParserTypes DEF MemberType, Type
  <2>7. /\ n.kind = "access" /\ n.type = records[r].members[k] /\ n.rec = r /\ n.idx = k
    BY DEF MemberNode
  <2> HIDE DEF n, r
  <2>8. /\ DOMAIN ast' = 1 .. Len(ast) + 1
        /\ \A i \in DOMAIN ast : ast'[i] = ast[i]
        /\ ast'[Len(ast) + 1] = n
    BY <1>4, <2>3
  <2>9. \A i \in DOMAIN ast' : i \in DOMAIN ast \/ i = Len(ast) + 1
    BY <2>3, <2>8
  <2>10. WasKnown(n.type)
    BY <1>4, <2>6, <2>7, AllWereKnown
  <2>11. NodesWereKnown
    BY <2>8, <2>9, <2>10, AllWereKnown DEF NodesWereKnown
  <2>12. AllKnown'
    BY <2>1, <2>2, <2>11, AllKnownStep
  <2>13. AccessesFound'
    <3> SUFFICES ASSUME NEW j \in DOMAIN ast', ast'[j].kind = "access"
                 PROVE  /\ ast'[j].rec \in DOMAIN records
                        /\ ast'[j].idx \in DOMAIN records[ast'[j].rec].members
                        /\ ast'[j].type = records[ast'[j].rec].members[ast'[j].idx]
                        /\ \E u \in 1 .. j - 1 :
                             ast'[u].type.kind # "prim" /\ ast'[u].type.ref = ast'[j].rec
      BY <1>1 DEF AccessesFound
    <3>1. CASE j \in DOMAIN ast
      <4>1. ast'[j] = ast[j] /\ \A u \in 1 .. j - 1 : ast'[u] = ast[u]
        BY <2>3, <2>8, <3>1
      <4>2. /\ ast[j].rec \in DOMAIN records
            /\ ast[j].idx \in DOMAIN records[ast[j].rec].members
            /\ ast[j].type = records[ast[j].rec].members[ast[j].idx]
            /\ \E u \in 1 .. j - 1 : ast[u].type.kind # "prim" /\ ast[u].type.ref = ast[j].rec
        BY <3>1, <4>1 DEF LaidOutInv, AccessesFound
      <4>3. QED
        BY <4>1, <4>2
    <3>2. CASE j = Len(ast) + 1
      <4>1. ast'[j] = n
        BY <2>8, <3>2
      <4>2. ast'[v] = ast[v] /\ v \in 1 .. j - 1
        BY <2>3, <2>4, <2>8, <3>2
      <4>3. ast'[v].type.kind # "prim" /\ ast'[v].type.ref = r
        BY <2>4, <4>2 DEF r
      <4>4. QED
        BY <1>4, <2>6, <2>7, <4>1, <4>2, <4>3
    <3>3. QED
      BY <2>9, <3>1, <3>2
  <2>14. QED
    BY <2>1, <2>2, <2>12, <2>13 DEF LaidOutInv
<1>5. QED
  BY <1>3, <1>4 DEF Access, Report

\* Together: a step of the parser keeps the layouts.
LEMMA ParserLaidOut ==
  ASSUME RecordInv, LaidOutInv, SizesKnown, ParserNext
  PROVE  LaidOutInv'
<1>1. ASSUME NEW kind \in {"struct", "union"}, NEW t \in Tags, TagSpec(t, kind)
      PROVE  LaidOutInv'
  BY <1>1, TagSpecLaidOut
<1>2. ASSUME NEW kind \in {"struct", "union"}, AnonymousSpec(kind)
      PROVE  LaidOutInv'
  BY <1>2, AnonymousSpecLaidOut
<1>3. CASE OpenBody \/ OpenBlock
  BY <1>3, OpenBodyLaidOut, OpenBlockLaidOut
<1>4. CASE CloseBody \/ CloseBlock \/ EndFunction
  BY <1>4, CloseBodyLaidOut, CloseBlockLaidOut, EndFunctionLaidOut
<1>5. CASE LayoutMember \/ FinishLayout
  BY <1>5, LayoutMemberLaidOut, FinishLayoutLaidOut
<1>6. ASSUME NEW p \in Prims, DeclarePrim(p)
      PROVE  LaidOutInv'
  BY <1>6, DeclarePrimLaidOut
<1>7. CASE DeclarePointer \/ DeclareObject
  BY <1>7, DeclareRecordLaidOut
<1>8. CASE NoDeclarator
  BY <1>8, NoDeclaratorLaidOut
<1>9. ASSUME NEW v \in VisibleVars, NEW k \in 1 .. MaxMembers, Access(v, k)
      PROVE  LaidOutInv'
  BY <1>9, AccessLaidOut
<1>10. QED
  BY <1>1, <1>2, <1>3, <1>4, <1>5, <1>6, <1>7, <1>8, <1>9 DEF ParserNext

\* The invariant holds at first,
LEMMA InitLaidOut == Init => LaidOutInv
<1> SUFFICES ASSUME Init PROVE LaidOutInv
  OBVIOUS
<1>1. /\ records = <<>> /\ layout.rec = 0 /\ ast = <<>>
      /\ frames = <<NewFrame(0, 0)>>
  BY DEF Init, ParserInit, NoLayout
<1>2. DOMAIN frames = {1} /\ frames[1].body = 0 /\ frames[1].members = <<>>
  BY <1>1 DEF NewFrame
<1>3. QED
  BY <1>1, <1>2
    DEF LaidOutInv, BodiesOpenOnce, AllKnown, AllSolid, LoopFits, AccessesFound

\* every step keeps it,
LEMMA NextLaidOut ==
  ASSUME SizesKnown, RecordInv, LaidOutInv, [Next]_vars
  PROVE  LaidOutInv'
<1>1. CASE Parse
  BY <1>1, ParserLaidOut DEF Parse
<1>2. CASE UNCHANGED parserVars
  <2>1. UNCHANGED <<records, layout, ast, frames>>
    BY <1>2 DEF parserVars
  <2>2. FramesWereOpen
    BY <2>1 DEF FramesWereOpen
  <2>3. QED
    BY <2>1, <2>2, QuietLaidOut
<1>3. QED
  BY <1>1, <1>2 DEF Next, Translate, Visit, Terminated, vars

-----------------------------------------------------------------------------
(* Struct types: tags and names. *)

\* Records of different tags have struct types of different names.
LEMMA NameInjective ==
  ASSUME RecordInv, TagsDiffer, NEW r \in DOMAIN records, NEW s \in DOMAIN records,
         Name(r) = Name(s)
  PROVE  r = s
<1>1. records[r] \in Record /\ records[s] \in Record
  BY ElementOfSeq DEF RecordInv, ParserInv, RecordsTyped
<1>2. records[r].tag \in Tags \cup {Brace} /\ records[s].tag \in Tags \cup {Brace}
  BY <1>1 DEF Record
<1>3. r \in Nat /\ s \in Nat
  BY ParserTypes
<1>4. CASE records[r].tag = Brace /\ records[s].tag = Brace
  BY <1>4 DEF Name
<1>5. CASE records[r].tag # Brace /\ records[s].tag # Brace
  BY <1>5 DEF Name, TagsDiffer
<1>6. CASE records[r].tag # Brace /\ records[s].tag = Brace
  <2>1. records[r].tag = s /\ records[r].tag \in Tags
    BY <1>2, <1>6 DEF Name
  <2>2. QED
    BY <1>3, <2>1, NamesAssumption
<1>7. CASE records[r].tag = Brace /\ records[s].tag # Brace
  <2>1. records[s].tag = r /\ records[s].tag \in Tags
    BY <1>2, <1>7 DEF Name
  <2>2. QED
    BY <1>3, <2>1, NamesAssumption
<1>8. QED
  BY <1>4, <1>5, <1>6, <1>7

\* A step of the parser makes no second record of a tag.
LEMMA TagsStep ==
  ASSUME RecordInv, TagsDiffer, OneRecordPerTag, ParserNext
  PROVE  TagsDiffer'
<1>1. records \in Seq(Record) /\ Len(records) \in Nat /\ DOMAIN records = 1 .. Len(records)
  BY DEF RecordInv, ParserInv, RecordsTyped
<1>2. ASSUME NEW tag \in Tags \cup {Brace}, NEW kind \in {"struct", "union"},
             records' = Append(records, NewRecord(tag, kind)),
             tag = Brace \/ \A r \in DOMAIN records : records[r].tag # tag
      PROVE  TagsDiffer'
  <2>1. /\ DOMAIN records' = 1 .. Len(records) + 1
        /\ \A r \in DOMAIN records : records'[r] = records[r]
        /\ records'[Len(records) + 1].tag = tag
    BY <1>1, <1>2 DEF NewRecord
  <2>2. \A r \in DOMAIN records' : r \in DOMAIN records \/ r = Len(records) + 1
    BY <1>1, <2>1
  <2>3. QED
    BY <1>2, <2>1, <2>2 DEF TagsDiffer
<1>3. ASSUME DOMAIN records' = DOMAIN records,
             \A r \in DOMAIN records : records'[r].tag = records[r].tag
      PROVE  TagsDiffer'
  BY <1>3 DEF TagsDiffer
<1>4. ASSUME NEW kind \in {"struct", "union"}, NEW t \in Tags, TagSpec(t, kind)
      PROVE  TagsDiffer'
  <2>1. CASE UNCHANGED records
    BY <1>3, <2>1
  <2>2. CASE FindTagSymbol(t) = 0 /\ records' = Append(records, NewRecord(t, kind))
    <3>1. TagSpecShapes(t, 0) \subseteq Shapes
      BY <1>4, <2>2 DEF TagSpec, Note
    <3>2. {s \in {"sameTag"} : 0 = 0 /\ \E r \in DOMAIN records : records[r].tag = t} \subseteq Shapes
      BY <3>1 DEF TagSpecShapes
    <3>3. \A r \in DOMAIN records : records[r].tag # t
      BY <3>2 DEF OneRecordPerTag
    <3>4. t \in Tags \cup {Brace}
      OBVIOUS
    <3>5. QED
      BY <1>2, <2>2, <3>3, <3>4
  <2>3. QED
    BY <1>4, <2>1, <2>2 DEF TagSpec
<1>5. ASSUME NEW kind \in {"struct", "union"}, AnonymousSpec(kind)
      PROVE  TagsDiffer'
  <2>1. UNCHANGED records \/ records' = Append(records, NewRecord(Brace, kind))
    BY <1>5 DEF AnonymousSpec, Report
  <2>2. QED
    BY <1>2, <1>3, <2>1
<1>6. CASE CloseBody
  <2>1. records' = [records EXCEPT ![Top.body].members = Top.members]
    BY <1>6 DEF CloseBody
  <2>2. \A r \in DOMAIN records : records[r] \in Record
    BY <1>1, ElementOfSeq
  <2>3. \A r \in DOMAIN records : records'[r].tag = records[r].tag
    BY <2>1, <2>2 DEF Record
  <2>4. QED
    BY <1>3, <2>1, <2>3
<1>7. CASE FinishLayout
  <2>1. DOMAIN records' = DOMAIN records
    BY <1>7 DEF FinishLayout
  <2>2. \A r \in DOMAIN records : records[r] \in Record
    BY <1>1, ElementOfSeq
  <2>3. layout.rec \in DOMAIN records
    BY <1>7, LaidOutMembersType DEF FinishLayout
  <2>4. records'[layout.rec].tag = records[layout.rec].tag
    BY <1>7, <2>2, <2>3, FinishLayoutRecords DEF Record
  <2>5. \A r \in DOMAIN records : r # layout.rec => records'[r] = records[r]
    BY <1>7, FinishLayoutRecords
  <2>6. \A r \in DOMAIN records : records'[r].tag = records[r].tag
    BY <2>4, <2>5
  <2>7. QED
    BY <1>3, <2>1, <2>6
<1>8. CASE UNCHANGED records
  BY <1>3, <1>8
<1>9. CASE OpenBody \/ OpenBlock \/ CloseBlock \/ EndFunction \/ LayoutMember \/ NoDeclarator
  BY <1>8, <1>9 DEF OpenBody, OpenBlock, CloseBlock, EndFunction, LayoutMember, NoDeclarator
<1>10. CASE DeclarePointer \/ DeclareObject \/ \E p \in Prims : DeclarePrim(p)
  BY <1>8, <1>10 DEF DeclarePointer, DeclareObject, DeclarePrim, Declare
<1>11. ASSUME NEW v \in VisibleVars, NEW k \in 1 .. MaxMembers, Access(v, k)
       PROVE  TagsDiffer'
  BY <1>8, <1>11 DEF Access, Report
<1>12. QED
  BY <1>4, <1>5, <1>6, <1>7, <1>9, <1>10, <1>11 DEF ParserNext

\* The parser runs before CodeGen does.
LEMMA ParserBefore ==
  ASSUME RecordInv, ParserNext
  PROVE  outcome = "parsing" /\ gen = "idle" /\ stack = <<>>
<1>1. AtDeclarator \/ layout.rec # 0
  BY DEF ParserNext, TagSpec, AnonymousSpec, OpenBody, CloseBody, LayoutMember, FinishLayout,
         DeclarePrim, DeclarePointer, DeclareObject, NoDeclarator, Access, OpenBlock, CloseBlock,
         EndFunction, AtDeclaration
<1>2. outcome = "parsing"
  BY <1>1 DEF AtDeclarator, RecordInv, ParserInv, OutcomeTyped
<1>3. QED
  BY <1>2 DEF RecordInv, CodeGenTyped

-----------------------------------------------------------------------------
(* Struct types: the steps of CodeGen. *)

\* Nothing that CodeGen reads of the program changes.
LEMMA ProgramSame ==
  ASSUME UNCHANGED parserVars
  PROVE  /\ \A r : Name(r)' = Name(r) /\ BodyOf(r)' = BodyOf(r) /\ VisitedMembers(r)' = VisitedMembers(r)
         /\ TagsDiffer => TagsDiffer'
<1>1. records' = records
  BY DEF parserVars
<1>2. \A r : Name(r)' = Name(r) /\ VisitedMembers(r)' = VisitedMembers(r)
  BY <1>1 DEF Name, VisitedMembers
<1>3. \A t : LlvmType(t)' = LlvmType(t)
  BY <1>2 DEF LlvmType
<1>4. \A r : BodyOf(r)' = BodyOf(r)
  BY <1>2, <1>3 DEF BodyOf
<1>5. TagsDiffer => TagsDiffer'
  BY <1>1 DEF TagsDiffer
<1>6. QED
  BY <1>2, <1>4, <1>5

\* What was finished stays so, with its body.
StructsStay ==
    /\ DOMAIN structs \subseteq DOMAIN structs'
    /\ \A r \in DOMAIN records : Finished(r) =>
         Name(r) \in DOMAIN structs' /\ structs'[Name(r)] = structs[Name(r)]
           /\ \A i \in DOMAIN stack' : stack'[i].rec # r

\* A type that was not to be visited still is not.
LEMMA StayVisited ==
  ASSUME UNCHANGED parserVars, DOMAIN structs \subseteq DOMAIN structs', NEW t, ~ToVisit(t)
  PROVE  ~ToVisit(t)'
<1>1. Name(t.ref)' = Name(t.ref)
  BY ProgramSame
<1>2. t.kind = "prim" \/ Name(t.ref) \in DOMAIN structs
  BY DEF ToVisit
<1>3. QED
  BY <1>1, <1>2 DEF ToVisit

\* A step that visits no node.
LEMMA NodesStay ==
  ASSUME RecordInv, LaidOutInv, StructInv, UNCHANGED parserVars, StructsStay, UNCHANGED <<pos, geps>>
  PROVE  NodesVisited'
<1>1. ast' = ast /\ records' = records /\ DOMAIN structs \subseteq DOMAIN structs'
  BY DEF parserVars, StructsStay
<1>2. ASSUME NEW i \in 1 .. pos - 1
      PROVE  ~ToVisit(ast[i].type)'
  <2>1. ~ToVisit(ast[i].type)
    BY DEF StructInv, NodesVisited
  <2>2. PICK t : t = ast[i].type
    OBVIOUS
  <2>3. ~ToVisit(t)'
    BY <1>1, <2>1, <2>2, StayVisited
  <2>4. QED
    BY <1>1, <2>2, <2>3 DEF ToVisit
<1>3. ASSUME NEW i \in geps
      PROVE  i \in 1 .. pos - 1 /\ ast[i].kind = "access" /\ Finished(ast[i].rec)'
  <2>1. i \in 1 .. pos - 1 /\ ast[i].kind = "access" /\ Finished(ast[i].rec)
    BY DEF StructInv, NodesVisited
  <2>2. i \in DOMAIN ast
    <3>1. pos \in 1 .. Len(ast) + 1 /\ Len(ast) \in Nat /\ DOMAIN ast = 1 .. Len(ast)
      BY ParserTypes DEF RecordInv, CodeGenTyped
    <3>2. QED
      BY <2>1, <3>1
  <2>3. ast[i].rec \in DOMAIN records
    BY <2>1, <2>2 DEF LaidOutInv, AccessesFound
  <2>4. PICK r \in DOMAIN records : r = ast[i].rec
    BY <2>3
  <2>5. Name(r) \in DOMAIN structs' /\ \A k \in DOMAIN stack' : stack'[k].rec # r
    BY <2>1, <2>4 DEF StructsStay
  <2>6. Name(r)' = Name(r)
    BY ProgramSame
  <2>7. ast[i].rec' = r
    BY <1>1, <2>4
  <2>8. Finished(r)'
    BY <2>5, <2>6 DEF Finished, OnStack
  <2>9. Finished(ast[i].rec)'
    BY <2>7, <2>8 DEF Finished, OnStack, Name
  <2>10. QED
    BY <2>1, <2>9
<1>4. QED
  BY <1>1, <1>2, <1>3 DEF NodesVisited

\* A struct type is created, and its record put on the stack.
LEMMA EnterRecordStructs ==
  ASSUME RecordInv, LaidOutInv, StructInv, UNCHANGED parserVars, Visiting,
         NEW r \in DOMAIN records, Name(r) \notin DOMAIN structs,
         NEW callers \in Seq(VisitFrame), DOMAIN callers = DOMAIN stack,
         \A i \in DOMAIN stack : callers[i].rec = stack[i].rec,
         CreateStruct(Name(r)), stack' = Append(callers, [rec |-> r, next |-> 1]),
         UNCHANGED <<gen, pos, geps>>
  PROVE  StructInv'
<1>1. records' = records /\ TagsDiffer /\ TagsDiffer' /\ StructsRight
  BY ProgramSame DEF parserVars, StructInv
<1>2. gen' = "visiting"
  BY DEF Visiting
<1>3. /\ DOMAIN structs' = DOMAIN structs \cup {Name(r)}
      /\ \A n \in DOMAIN structs : structs'[n] = structs[n]
  BY DEF CreateStruct
<1>4. /\ \A i \in DOMAIN stack' : (i \in DOMAIN stack /\ stack'[i].rec = stack[i].rec) \/ stack'[i].rec = r
      /\ \A i \in DOMAIN stack : i \in DOMAIN stack' /\ stack'[i].rec = stack[i].rec
      /\ \E i \in DOMAIN stack' : stack'[i].rec = r
  <2> DEFINE f == [rec |-> r, next |-> 1]
  <2>1. f \in VisitFrame /\ f.rec = r
    BY ParserTypes DEF VisitFrame
  <2>2. stack' = Append(callers, f)
    OBVIOUS
  <2> HIDE DEF f
  <2>3. /\ DOMAIN stack' = 1 .. Len(callers) + 1 /\ Len(callers) \in Nat
        /\ \A i \in 1 .. Len(callers) : stack'[i] = callers[i]
        /\ stack'[Len(callers) + 1] = f
    BY <2>1, <2>2
  <2>4. DOMAIN stack = 1 .. Len(callers)
    OBVIOUS
  <2>5. \A i \in DOMAIN stack' : i \in DOMAIN stack \/ i = Len(callers) + 1
    BY <2>3, <2>4
  <2>6. Len(callers) + 1 \in DOMAIN stack'
    BY <2>3
  <2>7. \A i \in DOMAIN stack : i \in DOMAIN stack' /\ stack'[i].rec = stack[i].rec
    BY <2>3, <2>4
  <2>8. \A i \in DOMAIN stack' : (i \in DOMAIN stack /\ stack'[i].rec = stack[i].rec) \/ stack'[i].rec = r
    BY <2>1, <2>3, <2>5, <2>7
  <2>9. QED
    BY <2>1, <2>3, <2>6, <2>7, <2>8
<1>5. ASSUME NEW q \in DOMAIN records, q # r
      PROVE  Name(q) # Name(r)
  BY <1>1, <1>5, NameInjective
<1>6. \A q \in DOMAIN records : Finished(q) => q # r
  BY DEF Finished
<1>7. StructsStay
  BY <1>3, <1>4, <1>6 DEF StructsStay, Finished, OnStack
<1>8. NodesVisited'
  BY <1>7, NodesStay
<1>9. ASSUME NEW q \in DOMAIN records, Finished(q)'
      PROVE  structs'[Name(q)] = BodyOf(q)
  <2>1. Name(q) \in DOMAIN structs' /\ \A i \in DOMAIN stack' : stack'[i].rec # q
    BY <1>9, ProgramSame DEF Finished, OnStack
  <2>2. q # r
    BY <1>4, <2>1
  <2>3. Name(q) \in DOMAIN structs
    BY <1>3, <1>5, <2>1, <2>2
  <2>4. Finished(q)
    BY <1>4, <2>1, <2>3 DEF Finished, OnStack
  <2>5. QED
    BY <1>1, <1>3, <2>3, <2>4 DEF StructsRight
<1>10. \A i \in DOMAIN stack' : Name(stack'[i].rec) \in DOMAIN structs'
  BY <1>1, <1>3, <1>4 DEF StructsRight
<1>11. StructsRight'
  <2>1. \A q : Name(q)' = Name(q) /\ BodyOf(q)' = BodyOf(q)
    BY ProgramSame
  <2>2. \A q \in DOMAIN records' : Finished(q)' => structs'[Name(q)'] = BodyOf(q)'
    BY <1>1, <1>9, <2>1
  <2>3. \A i \in DOMAIN stack' : Name(stack[i].rec)' \in DOMAIN structs'
    <3>1. \A i \in DOMAIN stack' : Name(stack[i].rec)' = Name(stack'[i].rec)
      BY <1>1 DEF Name
    <3>2. QED
      BY <1>10, <3>1
  <2>4. QED
    BY <2>2, <2>3 DEF StructsRight
<1>12. QED
  BY <1>1, <1>2, <1>8, <1>11 DEF StructInv

\* The struct type of the record on top of the stack gets its body.
LEMMA SetBodyStructs ==
  ASSUME RecordInv, LaidOutInv, StructInv, UNCHANGED parserVars, SetBody
  PROVE  StructInv'
<1> DEFINE r == Last(stack).rec
<1>1. records' = records /\ TagsDiffer /\ TagsDiffer' /\ StructsRight
  BY ProgramSame DEF parserVars, StructInv
<1>2. /\ stack # <<>> /\ stack' = Front(stack) /\ gen' = "visiting"
      /\ structs' = [structs EXCEPT ![Name(r)] = BodyOf(r)]
      /\ UNCHANGED <<gen, pos, geps>>
  BY DEF SetBody, Visiting, BodyOf
<1>3. /\ stack \in Seq(VisitFrame) /\ Len(stack) \in Nat /\ DOMAIN stack = 1 .. Len(stack)
      /\ Last(stack) = stack[Len(stack)] /\ Len(stack) \in DOMAIN stack
      /\ Last(stack) \in VisitFrame
  <2>1. stack \in Seq(VisitFrame)
    BY DEF RecordInv, CodeGenTyped
  <2>2. Last(stack) = stack[Len(stack)] /\ Last(stack) \in VisitFrame
    BY <1>2, <2>1, LastType
  <2>3. QED
    BY <1>2, <2>1, <2>2
<1>4. /\ \A i \in DOMAIN stack' : i \in DOMAIN stack /\ stack'[i] = stack[i]
      /\ \A i \in DOMAIN stack : i \in DOMAIN stack' \/ i = Len(stack)
  <2>1. /\ Len(Front(stack)) = Len(stack) - 1 /\ Front(stack) \in Seq(VisitFrame)
        /\ \A i \in 1 .. Len(stack) - 1 : Front(stack)[i] = stack[i]
    BY <1>2, <1>3, FrontType
  <2>2. DOMAIN Front(stack) = 1 .. Len(stack) - 1
    BY <2>1
  <2>3. QED
    BY SMTT(60), <1>2, <1>3, <2>1, <2>2
<1>5. r \in DOMAIN records /\ stack[Len(stack)].rec = r
  BY <1>3, ParserTypes DEF VisitFrame
<1>6. Name(r) \in DOMAIN structs
  BY <1>1, <1>3, <1>5 DEF StructsRight
<1> HIDE DEF r
<1>7. /\ DOMAIN structs' = DOMAIN structs /\ structs'[Name(r)] = BodyOf(r)
      /\ \A n \in DOMAIN structs : n # Name(r) => structs'[n] = structs[n]
  BY <1>2, <1>6
<1>8. ASSUME NEW q \in DOMAIN records, q # r
      PROVE  Name(q) # Name(r)
  BY <1>1, <1>5, <1>8, NameInjective
<1>9. \A q \in DOMAIN records : Finished(q) => q # r
  BY <1>3, <1>5 DEF Finished, OnStack
<1>10. StructsStay
  <2> SUFFICES ASSUME NEW q \in DOMAIN records, Finished(q)
               PROVE  /\ Name(q) \in DOMAIN structs' /\ structs'[Name(q)] = structs[Name(q)]
                      /\ \A i \in DOMAIN stack' : stack'[i].rec # q
    BY <1>7 DEF StructsStay
  <2>1. Name(q) # Name(r) /\ Name(q) \in DOMAIN structs
    BY <1>8, <1>9 DEF Finished
  <2>2. \A i \in DOMAIN stack' : stack'[i].rec # q
    BY <1>4 DEF Finished, OnStack
  <2>3. QED
    BY <1>7, <2>1, <2>2
<1>11. NodesVisited'
  BY <1>2, <1>10, NodesStay
<1>12. ASSUME NEW q \in DOMAIN records, Finished(q)'
       PROVE  structs'[Name(q)] = BodyOf(q)
  <2>1. Name(q) \in DOMAIN structs /\ \A i \in DOMAIN stack' : stack'[i].rec # q
    BY <1>7, <1>12, ProgramSame DEF Finished, OnStack
  <2>2. CASE q = r
    BY <1>7, <2>2
  <2>3. CASE q # r
    <3>1. \A i \in DOMAIN stack : stack[i].rec # q
      BY <1>4, <1>5, <2>1, <2>3
    <3>2. Finished(q)
      BY <2>1, <3>1 DEF Finished, OnStack
    <3>3. QED
      BY <1>1, <1>7, <1>8, <2>1, <2>3, <3>2 DEF StructsRight
  <2>4. QED
    BY <2>2, <2>3
<1>13. \A i \in DOMAIN stack' : Name(stack'[i].rec) \in DOMAIN structs'
  BY <1>1, <1>4, <1>7 DEF StructsRight
<1>14. StructsRight'
  <2>1. \A q : Name(q)' = Name(q) /\ BodyOf(q)' = BodyOf(q)
    BY ProgramSame
  <2>2. \A q \in DOMAIN records' : Finished(q)' => structs'[Name(q)'] = BodyOf(q)'
    BY <1>1, <1>12, <2>1
  <2>3. \A i \in DOMAIN stack' : Name(stack[i].rec)' \in DOMAIN structs'
    <3>1. \A i \in DOMAIN stack' : Name(stack[i].rec)' = Name(stack'[i].rec)
      BY <1>1 DEF Name
    <3>2. QED
      BY <1>13, <3>1
  <2>4. QED
    BY <2>2, <2>3 DEF StructsRight
<1>15. QED
  BY <1>1, <1>2, <1>11, <1>14 DEF StructInv

\* The same records are on the stack, and no struct type changes.
LEMMA SameStructs ==
  ASSUME RecordInv, LaidOutInv, StructInv, UNCHANGED parserVars, UNCHANGED structs,
         DOMAIN stack' = DOMAIN stack, \A i \in DOMAIN stack : stack'[i].rec = stack[i].rec
  PROVE  StructsRight' /\ StructsStay /\ \A q : Finished(q)' <=> Finished(q)
<1>1. \A q : Finished(q)' <=> Finished(q)
  BY ProgramSame DEF Finished, OnStack
<1>2. records' = records /\ StructsRight
  BY DEF parserVars, StructInv
<1>3. \A q : Name(q)' = Name(q) /\ BodyOf(q)' = BodyOf(q)
  BY ProgramSame
<1>4. \A q \in DOMAIN records' : Finished(q)' => structs'[Name(q)'] = BodyOf(q)'
  BY <1>1, <1>2, <1>3 DEF StructsRight
<1>5. \A i \in DOMAIN stack' : Name(stack[i].rec)' \in DOMAIN structs'
  <2>1. \A i \in DOMAIN stack' : Name(stack[i].rec)' = Name(stack'[i].rec)
    BY <1>2 DEF Name
  <2>2. QED
    BY <1>2, <2>1 DEF StructsRight
<1>6. StructsRight'
  BY <1>4, <1>5 DEF StructsRight
<1>7. StructsStay
  BY DEF StructsStay, Finished, OnStack
<1>8. QED
  BY <1>1, <1>6, <1>7

\* The next node: its type has been made.
LEMMA NextNode ==
  ASSUME RecordInv, LaidOutInv, StructInv, UNCHANGED parserVars, UNCHANGED <<structs, stack, gen>>,
         Visiting, pos <= Len(ast), ~ToVisit(ast[pos].type), pos' = pos + 1,
         geps' = geps \/ (geps' = geps \cup {pos} /\ ast[pos].kind = "access" /\ Finished(ast[pos].rec))
  PROVE  StructInv'
<1>1. StructsRight' /\ StructsStay /\ \A q : Finished(q)' <=> Finished(q)
  BY SameStructs
<1>2. ast' = ast /\ pos \in Nat
  BY ParserTypes DEF parserVars, RecordInv, CodeGenTyped
<1>3. \A i \in 1 .. pos' - 1 : i \in 1 .. pos - 1 \/ i = pos
  BY <1>2
<1>4. NodesVisited
  BY DEF StructInv
<1>5. \A t : ToVisit(t)' <=> ToVisit(t)
  BY ProgramSame DEF ToVisit
<1>6. \A i \in 1 .. pos' - 1 : ~ToVisit(ast[i].type)
  BY <1>3, <1>4 DEF NodesVisited
<1>7. \A i \in 1 .. pos' - 1 : ~ToVisit(ast[i].type)'
  <2> SUFFICES ASSUME NEW i \in 1 .. pos' - 1 PROVE ~ToVisit(ast[i].type)'
    OBVIOUS
  <2>1. PICK t : t = ast[i].type
    OBVIOUS
  <2>2. ~ToVisit(t)'
    BY <1>5, <1>6, <2>1
  <2>3. QED
    BY <1>2, <2>1, <2>2 DEF ToVisit
<1>8. \A i \in geps' : i \in 1 .. pos' - 1 /\ ast[i].kind = "access" /\ Finished(ast[i].rec)
  <2>1. \A i \in geps : i \in 1 .. pos - 1 /\ ast[i].kind = "access" /\ Finished(ast[i].rec)
    BY <1>4 DEF NodesVisited
  <2>2. pos \in 1 .. pos' - 1 /\ 1 .. pos - 1 \subseteq 1 .. pos' - 1
    BY <1>2, ParserTypes DEF RecordInv, CodeGenTyped
  <2>3. QED
    BY <2>1, <2>2
<1>9. \A i \in geps' : Finished(ast[i].rec)'
  <2> SUFFICES ASSUME NEW i \in geps' PROVE Finished(ast[i].rec)'
    OBVIOUS
  <2>1. PICK q : q = ast[i].rec
    OBVIOUS
  <2>2. Finished(q)'
    BY <1>1, <1>8, <2>1
  <2>3. QED
    BY <1>2, <2>1, <2>2 DEF Finished, OnStack, Name
<1>10. NodesVisited'
  BY <1>2, <1>7, <1>8, <1>9 DEF NodesVisited
<1>11. TagsDiffer'
  BY ProgramSame DEF StructInv
<1>12. QED
  BY <1>1, <1>10, <1>11 DEF StructInv, Visiting

\* A visit that makes no struct type and goes to no other node.
LEMMA QuietStructs ==
  ASSUME RecordInv, LaidOutInv, StructInv, UNCHANGED parserVars, UNCHANGED <<structs, pos, geps>>,
         DOMAIN stack' = DOMAIN stack, \A i \in DOMAIN stack : stack'[i].rec = stack[i].rec,
         gen' = "idle" => gen = "idle", gen' = "done" => stack' = <<>>
  PROVE  StructInv'
<1>1. StructsRight' /\ StructsStay
  BY SameStructs
<1>2. NodesVisited'
  BY <1>1, NodesStay
<1>3. TagsDiffer'
  BY ProgramSame DEF StructInv
<1>4. gen' = "idle" => pos' = 1 /\ geps' = {} /\ structs' = <<>>
  BY DEF StructInv
<1>5. QED
  BY <1>1, <1>2, <1>3, <1>4 DEF StructInv

\* The member that is next, of the record on top of the stack.
LEMMA NextMember ==
  ASSUME RecordInv, outcome = "parsed", stack # <<>>,
         Last(stack).next <= Len(VisitedMembers(Last(stack).rec))
  PROVE  VisitedMembers(Last(stack).rec)[Last(stack).next] \in MemberType(Len(records))
<1> DEFINE f == Last(stack)
           ms == VisitedMembers(f.rec)
<1>1. f \in VisitFrame /\ (records[f.rec].kind = "struct" \/ records[f.rec].members # <<>>)
  BY VisitStackTypes
<1>2. f.rec \in 1 .. Len(records) /\ f.next \in Nat \ {0}
  BY <1>1 DEF VisitFrame
<1>3. ms \in Seq(MemberType(Len(records)))
  BY <1>1, <1>2, VisitedMembersType
<1>4. f.next \in 1 .. Len(ms)
  BY <1>2, <1>3
<1> HIDE DEF f, ms
<1>5. ms[f.next] \in MemberType(Len(records))
  BY <1>3, <1>4, ElementOfSeq, Zenon
<1>6. QED
  BY <1>5 DEF f, ms

\* EnterRecord, of a type that is to be visited.
LEMMA EnteredStructs ==
  ASSUME RecordInv, LaidOutInv, StructInv, UNCHANGED parserVars, Visiting,
         NEW t \in MemberType(Len(records)), ToVisit(t),
         NEW callers \in Seq(VisitFrame), DOMAIN callers = DOMAIN stack,
         \A i \in DOMAIN stack : callers[i].rec = stack[i].rec,
         EnterRecord(t.ref, callers)
  PROVE  StructInv'
<1>1. CASE Crash
  BY <1>1, QuietStructs DEF Crash
<1>2. CASE /\ CreateStruct(Name(t.ref))
           /\ stack' = Append(callers, [rec |-> t.ref, next |-> 1])
           /\ UNCHANGED <<gen, pos, geps>>
  <2>1. t.ref \in DOMAIN records
    BY ParserTypes, ToVisitType
  <2>2. Name(t.ref) \notin DOMAIN structs
    BY DEF ToVisit
  <2>3. PICK r \in DOMAIN records : r = t.ref
    BY <2>1
  <2>4. /\ Name(r) \notin DOMAIN structs /\ CreateStruct(Name(r))
        /\ stack' = Append(callers, [rec |-> r, next |-> 1])
    BY <1>2, <2>2, <2>3
  <2>5. QED
    BY <1>2, <2>4, EnterRecordStructs
<1>3. QED
  BY <1>1, <1>2 DEF EnterRecord

\* An access to a member whose type has been made is to a record that has too.
LEMMA AccessedFinished ==
  ASSUME RecordInv, LaidOutInv, StructInv, AtNode("access"), ~ToVisit(ast[pos].type)
  PROVE  /\ ast[pos].rec \in DOMAIN records /\ Finished(ast[pos].rec)
         /\ ast[pos].idx \in DOMAIN records[ast[pos].rec].members
<1>1. pos \in DOMAIN ast /\ stack = <<>> /\ ast[pos].kind = "access" /\ pos \in Nat
  BY ParserTypes DEF AtNode, RecordInv, CodeGenTyped
<1>2. /\ ast[pos].rec \in DOMAIN records
      /\ ast[pos].idx \in DOMAIN records[ast[pos].rec].members
      /\ \E v \in 1 .. pos - 1 : ast[v].type.kind # "prim" /\ ast[v].type.ref = ast[pos].rec
  BY <1>1 DEF LaidOutInv, AccessesFound
<1>3. PICK v \in 1 .. pos - 1 : ast[v].type.kind # "prim" /\ ast[v].type.ref = ast[pos].rec
  BY <1>2
<1>4. ~ToVisit(ast[v].type)
  BY DEF StructInv, NodesVisited
<1>5. Name(ast[pos].rec) \in DOMAIN structs
  BY <1>3, <1>4 DEF ToVisit
<1>6. QED
  BY <1>1, <1>2, <1>5 DEF Finished, OnStack

\* A step of VisitRecordType keeps the struct types right.
LEMMA VisitStructs ==
  ASSUME RecordInv, LaidOutInv, StructInv, Visit
  PROVE  StructInv'
<1>1. UNCHANGED parserVars /\ TypeNext
  BY DEF Visit
<1>2. Visiting /\ outcome = "parsed"
  BY <1>1 DEF TypeNext, VisitMember, SetBody, VisitType, VisitVariableDecl, VisitMemberAccess,
              FinishTypes, AtNode, Visiting, RecordInv, CodeGenTyped
<1>3. CASE VisitMember
  <2> DEFINE f == Last(stack)
             ms == VisitedMembers(f.rec)
             callers == [stack EXCEPT ![Len(stack)].next = @ + 1]
  <2>1. /\ stack # <<>> /\ f.next <= Len(ms)
        /\ \/ ToVisit(ms[f.next]) /\ EnterRecord(ms[f.next].ref, callers)
           \/ stack' = callers /\ UNCHANGED <<gen, pos, structs, geps>>
    BY <1>3 DEF VisitMember
  <2>2. /\ callers \in Seq(VisitFrame) /\ DOMAIN callers = DOMAIN stack
        /\ \A i \in DOMAIN stack : callers[i].rec = stack[i].rec
    BY <2>1, VisitStackTypes
  <2>3. ms[f.next] \in MemberType(Len(records))
    BY <1>2, <2>1, NextMember
  <2> HIDE DEF f, ms, callers
  <2>4. CASE ToVisit(ms[f.next]) /\ EnterRecord(ms[f.next].ref, callers)
    <3>1. PICK t \in MemberType(Len(records)) : t = ms[f.next]
      BY <2>3
    <3>2. ToVisit(t) /\ EnterRecord(t.ref, callers)
      BY <2>4, <3>1
    <3>3. QED
      BY <1>1, <1>2, <2>2, <3>2, EnteredStructs
  <2>5. CASE stack' = callers /\ UNCHANGED <<gen, pos, structs, geps>>
    BY <1>1, <1>2, <2>2, <2>5, QuietStructs DEF Visiting
  <2>6. QED
    BY <2>1, <2>4, <2>5
<1>4. CASE SetBody
  BY <1>1, <1>4, SetBodyStructs
<1>5. CASE VisitType
  <2>1. ToVisit(ast[pos].type) /\ EnterRecord(ast[pos].type.ref, <<>>) /\ stack = <<>> /\ pos <= Len(ast)
    BY <1>5 DEF VisitType
  <2>2. pos \in DOMAIN ast
    BY <2>1, ParserTypes DEF RecordInv, CodeGenTyped
  <2>3. ast[pos].type \in MemberType(Len(records))
    BY <2>2, AllWereKnown DEF WasKnown
  <2>4. PICK t \in MemberType(Len(records)) : t = ast[pos].type
    BY <2>3
  <2>5. PICK callers \in Seq(VisitFrame) : callers = <<>>
    <3>1. <<>> \in Seq(VisitFrame)
      OBVIOUS
    <3>2. QED
      BY <3>1, Zenon
  <2>6. DOMAIN callers = DOMAIN stack /\ \A i \in DOMAIN stack : callers[i].rec = stack[i].rec
    BY <2>1, <2>5
  <2>7. ToVisit(t) /\ EnterRecord(t.ref, callers)
    BY <2>1, <2>4, <2>5
  <2>8. QED
    BY <1>1, <1>2, <2>6, <2>7, EnteredStructs
<1>6. CASE Crash
  BY <1>1, <1>6, QuietStructs DEF Crash
<1>7. CASE VisitVariableDecl
  <2>1. CASE UNCHANGED <<gen, structs, stack, geps>> /\ pos' = pos + 1
    BY <1>1, <1>2, <1>7, <2>1, NextNode DEF VisitVariableDecl, AtNode
  <2>2. QED
    BY <1>6, <1>7, <2>1 DEF VisitVariableDecl
<1>8. CASE VisitMemberAccess
  <2>1. AtNode("access") /\ ~ToVisit(ast[pos].type) /\ pos <= Len(ast) /\ ast[pos].kind = "access"
    BY <1>8 DEF VisitMemberAccess, AtNode
  <2>2. Finished(ast[pos].rec)
    BY <2>1, AccessedFinished
  <2>3. CASE geps' = geps \cup {pos} /\ pos' = pos + 1 /\ UNCHANGED <<gen, structs, stack>>
    BY <1>1, <1>2, <2>1, <2>2, <2>3, NextNode
  <2>4. QED
    BY <1>6, <1>8, <2>3 DEF VisitMemberAccess
<1>9. CASE FinishTypes
  BY <1>1, <1>9, QuietStructs DEF FinishTypes
<1>10. QED
  BY <1>1, <1>3, <1>4, <1>5, <1>7, <1>8, <1>9 DEF TypeNext

\* So does every step,
LEMMA NextStructs ==
  ASSUME OneRecordPerTag, RecordInv, LaidOutInv, StructInv, [Next]_vars
  PROVE  StructInv'
<1>1. CASE Parse
  <2>1. ParserNext /\ UNCHANGED typeVars
    BY <1>1 DEF Parse
  <2>2. gen = "idle" /\ stack = <<>> /\ pos = 1 /\ geps = {} /\ structs = <<>>
    BY <2>1, ParserBefore DEF StructInv
  <2>3. gen' = "idle" /\ stack' = <<>> /\ pos' = 1 /\ geps' = {} /\ structs' = <<>>
    BY <2>1, <2>2 DEF typeVars
  <2>4. TagsDiffer'
    BY <2>1, TagsStep DEF StructInv
  <2>5. DOMAIN structs' = {} /\ DOMAIN stack' = {}
    BY <2>3
  <2>6. StructsRight'
    BY <2>5 DEF StructsRight, Finished
  <2>7. NodesVisited'
    BY <2>3 DEF NodesVisited
  <2>8. QED
    BY <2>3, <2>4, <2>6, <2>7 DEF StructInv
<1>2. CASE Translate
  <2>1. UNCHANGED parserVars /\ UNCHANGED <<structs, pos, geps, stack>> /\ gen' = "visiting"
    BY <1>2 DEF Translate
  <2>2. QED
    BY <2>1, QuietStructs
<1>3. CASE Visit
  BY <1>3, VisitStructs
<1>4. CASE UNCHANGED vars
  <2>1. UNCHANGED parserVars /\ UNCHANGED <<structs, pos, geps, stack, gen>>
    BY <1>4 DEF vars, typeVars
  <2>2. gen' = "done" => stack' = <<>>
    BY <2>1 DEF StructInv
  <2>3. QED
    BY <2>1, <2>2, QuietStructs
<1>5. QED
  BY <1>1, <1>2, <1>3, <1>4 DEF Next, Terminated

\* the first state has none,
LEMMA InitStructs == Init => StructInv
<1> SUFFICES ASSUME Init PROVE StructInv
  OBVIOUS
<1>1. records = <<>> /\ structs = <<>> /\ stack = <<>> /\ gen = "idle" /\ pos = 1 /\ geps = {}
  BY DEF Init, ParserInit, TypeInit
<1>2. QED
  BY <1>1 DEF StructInv, TagsDiffer, StructsRight, NodesVisited

-----------------------------------------------------------------------------
(* CodeGen does not crash. *)

\* CodeGen finds the largest member of every union.
NoCrash == UnionsFilled /\ gen # "crashed"

\* No step makes CodeGen crash.
LEMMA NextNoCrash ==
  ASSUME "opaqueUnion" \notin Shapes, RecordInv, LaidOutInv, StructInv, NoCrash, [Next]_vars
  PROVE  NoCrash'
<1>1. CASE UNCHANGED records /\ gen' # "crashed" /\ gen # "idle"
  BY <1>1 DEF NoCrash, UnionsFilled
<1>2. CASE gen' = "idle"
  BY <1>2 DEF NoCrash, UnionsFilled
<1>3. CASE Parse
  BY <1>2, <1>3, ParserBefore DEF Parse, typeVars
<1>4. CASE Translate
  <2>1. ToTranslate /\ gen' = "visiting" /\ UNCHANGED records
    BY <1>4 DEF Translate, parserVars
  <2>2. ASSUME NEW r \in DOMAIN records, records[r].kind = "union"
        PROVE  records[r].members # <<>>
    <3>1. UnionShapes(records[r]) \subseteq Shapes
      BY <2>1, <2>2 DEF ToTranslate
    <3>2. {s \in {"opaqueUnion"} : records[r].members = <<>>} \subseteq Shapes
      BY <3>1 DEF UnionShapes
    <3>3. QED
      BY <3>2
  <2>3. QED
    BY <2>1, <2>2 DEF NoCrash, UnionsFilled
<1>5. CASE Visit
  <2>1. UNCHANGED parserVars /\ UNCHANGED records /\ TypeNext
    BY <1>5 DEF Visit, parserVars
  <2>2. gen = "visiting" /\ outcome = "parsed"
    BY <2>1 DEF TypeNext, VisitMember, SetBody, VisitType, VisitVariableDecl, VisitMemberAccess,
                FinishTypes, AtNode, Visiting, RecordInv, CodeGenTyped
  <2>3. ASSUME NEW t \in MemberType(Len(records)), ToVisit(t), NEW callers, EnterRecord(t.ref, callers)
        PROVE  gen' = gen
    <3>1. t.ref \in DOMAIN records
      BY <2>3, ParserTypes, ToVisitType
    <3>2. ~(records[t.ref].kind = "union" /\ records[t.ref].members = <<>>)
      BY <2>2, <3>1 DEF NoCrash, UnionsFilled
    <3>3. QED
      BY <2>3, <3>2 DEF EnterRecord
  <2>4. CASE VisitMember
    <3> DEFINE f == Last(stack)
               ms == VisitedMembers(f.rec)
    <3>1. /\ stack # <<>> /\ f.next <= Len(ms)
          /\ \/ ToVisit(ms[f.next])
                  /\ EnterRecord(ms[f.next].ref, [stack EXCEPT ![Len(stack)].next = @ + 1])
             \/ gen' = gen
      BY <2>4 DEF VisitMember
    <3>2. ms[f.next] \in MemberType(Len(records))
      BY <2>2, <3>1, NextMember
    <3>3. gen' = gen
      BY <2>3, <3>1, <3>2
    <3>4. QED
      BY <1>1, <2>1, <2>2, <3>3
  <2>5. CASE VisitType
    <3>1. ToVisit(ast[pos].type) /\ EnterRecord(ast[pos].type.ref, <<>>) /\ pos <= Len(ast)
      BY <2>5 DEF VisitType
    <3>2. pos \in DOMAIN ast
      BY <3>1, ParserTypes DEF RecordInv, CodeGenTyped
    <3>3. ast[pos].type \in MemberType(Len(records))
      BY <3>2, AllWereKnown DEF WasKnown
    <3>4. gen' = gen
      BY <2>3, <3>1, <3>3
    <3>5. QED
      BY <1>1, <2>1, <2>2, <3>4
  <2>6. CASE VisitVariableDecl
    <3>1. pos \in DOMAIN ast
      BY <2>6, ParserTypes DEF VisitVariableDecl, AtNode, RecordInv, CodeGenTyped
    <3>2. WasKnown(ast[pos].type)
      BY <3>1, AllWereKnown
    <3>3. PICK t : t = ast[pos].type
      OBVIOUS
    <3>4. AlignOf(records, t) \in Alignments
      BY <3>2, <3>3, KnownSize
    <3>5. AlignOf(records, ast[pos].type) # 0
      BY <3>3, <3>4 DEF Alignments
    <3>6. gen' = gen
      BY <2>6, <3>5 DEF VisitVariableDecl
    <3>7. QED
      BY <1>1, <2>1, <2>2, <3>6
  <2>7. CASE VisitMemberAccess
    <3> DEFINE r == ast[pos].rec
    <3>1. AtNode("access") /\ ~ToVisit(ast[pos].type)
      BY <2>7 DEF VisitMemberAccess
    <3>2. r \in DOMAIN records /\ Finished(r) /\ ast[pos].idx \in DOMAIN records[r].members
      BY <3>1, AccessedFinished
    <3>3. structs[Name(r)] = BodyOf(r)
      BY <3>2 DEF StructInv, StructsRight
    <3>4. records[r].kind = "struct" => ast[pos].idx \in DOMAIN structs[Name(r)]
      BY <3>2, <3>3 DEF BodyOf, VisitedMembers
    <3>5. gen' = gen
      BY <2>7, <3>4 DEF VisitMemberAccess
    <3>6. QED
      BY <1>1, <2>1, <2>2, <3>5
  <2>8. CASE SetBody \/ FinishTypes
    <3>1. gen' # "crashed"
      BY <2>2, <2>8 DEF SetBody, FinishTypes
    <3>2. QED
      BY <1>1, <2>1, <2>2, <3>1
  <2>9. QED
    BY <2>1, <2>4, <2>5, <2>6, <2>7, <2>8 DEF TypeNext
<1>6. CASE UNCHANGED vars
  BY <1>6 DEF vars, parserVars, typeVars, NoCrash, UnionsFilled
<1>7. QED
  BY <1>3, <1>4, <1>5, <1>6 DEF Next, Terminated

-----------------------------------------------------------------------------
(* The theorems about programs without the shapes *)

\* and so it always holds.
LEMMA LaidOutInvHolds ==
  ASSUME SizesKnown
  PROVE  Spec => [](RecordInv /\ LaidOutInv)
<1>1. Init => RecordInv /\ LaidOutInv
  BY InitInv, InitLaidOut
<1>2. RecordInv /\ LaidOutInv /\ [Next]_vars => RecordInv' /\ LaidOutInv'
  BY NextInv, NextLaidOut
<1>3. QED
  BY <1>1, <1>2, PTL DEF Spec

\* and they are always right.
LEMMA StructInvHolds ==
  ASSUME SizesKnown, OneRecordPerTag
  PROVE  Spec => [](RecordInv /\ LaidOutInv /\ StructInv)
<1>1. Init => StructInv
  BY InitStructs
<1>2. RecordInv /\ LaidOutInv /\ StructInv /\ [Next]_vars => StructInv'
  BY NextStructs
<1>3. QED
  BY <1>1, <1>2, LaidOutInvHolds, PTL DEF Spec

\* What SetMembers computes when a body is closed stays the layout of the
\* record until the program is parsed: nothing that a laid-out record contains
\* is laid out again (parser.cc:274-294, type.cc:69-133).
THEOREM LayoutStaysRight ==
  ASSUME SizesKnown
  PROVE  Spec => []LayoutStays
<1>1. RecordInv /\ LaidOutInv => LayoutStays
  <2> SUFFICES ASSUME RecordInv, LaidOutInv, outcome = "parsed",
                      NEW r \in DOMAIN records, records[r].members # <<>>
               PROVE  LaidOut(records, r)
    BY DEF LayoutStays
  <2>1. layout.rec = 0
    BY DEF RecordInv, ParserInv, OutcomeTyped
  <2>2. r # layout.rec
    BY <2>1, ParserTypes
  <2>3. QED
    BY <2>2 DEF LaidOutInv, AllSolid, Solid
<1>2. QED
  BY <1>1, LaidOutInvHolds, PTL

\* The struct type that LLVM finds by a record's name has the record's members,
\* or the largest one of a union: every record that is mentioned is visited
\* once, whatever contains or points to it (codegen.cc:1118-1155).
THEOREM StructTypesMatch ==
  ASSUME SizesKnown, OneRecordPerTag
  PROVE  Spec => []StructsMatch
<1>1. RecordInv /\ LaidOutInv /\ StructInv => StructsMatch
  <2> SUFFICES ASSUME RecordInv, LaidOutInv, StructInv, gen = "done", NEW r \in DOMAIN records,
                      Name(r) \in DOMAIN structs, records[r].members # <<>>
               PROVE  IF records[r].kind = "struct"
                        THEN structs[Name(r)] = [k \in DOMAIN records[r].members |->
                                                   LlvmType(records[r].members[k])]
                        ELSE \E k \in DOMAIN records[r].members :
                               /\ structs[Name(r)] = <<LlvmType(records[r].members[k])>>
                               /\ \A i \in DOMAIN records[r].members :
                                    SizeOf(records, records[r].members[i])
                                      <= SizeOf(records, records[r].members[k])
    BY DEF StructsMatch
  <2>1. stack = <<>> /\ outcome = "parsed"
    BY DEF StructInv, RecordInv, CodeGenTyped
  <2>2. structs[Name(r)] = BodyOf(r)
    BY <2>1 DEF StructInv, StructsRight, Finished, OnStack
  <2>3. layout.rec = 0 /\ r # 0
    BY <2>1, ParserTypes DEF RecordInv, ParserInv, OutcomeTyped
  <2>4. CASE records[r].kind = "struct"
    BY <2>2, <2>4 DEF BodyOf, VisitedMembers
  <2>5. CASE records[r].kind # "struct"
    <3> DEFINE k == records[r].maxElementIdx
    <3>1. k \in DOMAIN records[r].members
      BY <2>3 DEF RecordInv, ParserInv, RecordsTyped
    <3>2. records[r].kind = "union"
      <4>1. records[r] \in Record
        BY ElementOfSeq DEF RecordInv, ParserInv, RecordsTyped
      <4>2. QED
        BY <2>5, <4>1 DEF Record
    <3>3. \A i \in DOMAIN records[r].members :
            SizeOf(records, records[r].members[i]) <= SizeOf(records, records[r].members[k])
      BY <2>3, <3>2 DEF LaidOutInv, AllSolid, Solid
    <3>4. VisitedMembers(r) = <<records[r].members[k]>>
      BY <2>5 DEF VisitedMembers
    <3>5. structs[Name(r)] = <<LlvmType(records[r].members[k])>>
      BY <2>2, <3>4 DEF BodyOf
    <3>6. QED
      BY <2>5, <3>1, <3>3, <3>5
  <2>6. QED
    BY <2>4, <2>5
<1>2. QED
  BY <1>1, StructInvHolds, PTL

\* A member access reads the member that Sema found, at its index in the struct
\* type that LLVM finds by the record's name, and inside of the record
\* (sema.cc:274-337, codegen.cc:985-1029).
THEOREM AccessesAreRight ==
  ASSUME SizesKnown, OneRecordPerTag
  PROVE  Spec => []AccessesHit
<1>1. RecordInv /\ LaidOutInv /\ StructInv => AccessesHit
  <2> SUFFICES ASSUME RecordInv, LaidOutInv, StructInv, NEW i \in geps
               PROVE  /\ records[ast[i].rec].kind = "struct" =>
                           structs[Name(ast[i].rec)][ast[i].idx] = LlvmType(ast[i].type)
                      /\ SizeOf(records, ast[i].type) <= records[ast[i].rec].size
    BY DEF AccessesHit
  <2> DEFINE n == ast[i]
  <2>1. i \in 1 .. pos - 1 /\ n.kind = "access" /\ Finished(n.rec)
    BY DEF StructInv, NodesVisited
  <2>2. i \in DOMAIN ast
    BY <2>1, ParserTypes DEF RecordInv, CodeGenTyped
  <2>3. /\ n.rec \in DOMAIN records /\ n.idx \in DOMAIN records[n.rec].members
        /\ n.type = records[n.rec].members[n.idx]
    BY <2>1, <2>2 DEF LaidOutInv, AccessesFound
  <2>4. structs[Name(n.rec)] = BodyOf(n.rec)
    BY <2>1, <2>3 DEF StructInv, StructsRight
  <2>5. records[n.rec].kind = "struct" => structs[Name(n.rec)][n.idx] = LlvmType(n.type)
    BY <2>3, <2>4 DEF BodyOf, VisitedMembers
  <2>6. gen # "idle"
    BY <2>1 DEF StructInv
  <2>7. layout.rec = 0
    BY <2>6 DEF RecordInv, CodeGenTyped, ParserInv, OutcomeTyped
  <2>8. records[n.rec].members # <<>> /\ n.rec # layout.rec
    BY <2>3, <2>7, ParserTypes
  <2>9. Solid(records, n.rec)
    BY <2>3, <2>8 DEF LaidOutInv, AllSolid
  <2>10. SizeOf(records, n.type) <= records[n.rec].size
    BY <2>3, <2>9 DEF Solid
  <2>11. QED
    BY <2>5, <2>10
<1>2. QED
  BY <1>1, StructInvHolds, PTL

\* CodeGen neither asserts nor reads past a vector while it makes the types of
\* variables and members: every alignment it uses is one, every index is that of
\* a member, and no union it enters lacks one (codegen.cc:1118-1155).
THEOREM TypesNeverCrash ==
  ASSUME SizesKnown, OneRecordPerTag, "opaqueUnion" \notin Shapes
  PROVE  Spec => []NeverCrashes
<1>1. Init => NoCrash
  BY DEF Init, TypeInit, NoCrash, UnionsFilled
<1>2. RecordInv /\ LaidOutInv /\ StructInv /\ NoCrash /\ [Next]_vars => NoCrash'
  BY NextNoCrash
<1>3. NoCrash => NeverCrashes
  BY DEF NoCrash, NeverCrashes
<1>4. QED
  BY <1>1, <1>2, <1>3, StructInvHolds, PTL DEF Spec

-----------------------------------------------------------------------------
(* LLVM's layout: what it rests on. *)

\* The types of the members of r that CodeGen visits before the n-th have been made.
MadeBefore(r, n) == \A k \in DOMAIN VisitedMembers(r) : k < n => ~ToVisit(VisitedMembers(r)[k])

\* All of them have.
AllMade(r) == \A k \in DOMAIN VisitedMembers(r) : ~ToVisit(VisitedMembers(r)[k])

\* The types that a finished struct type contains have been made, and so have
\* those of the members already visited of a record on the stack.
MembersMade ==
    /\ \A r \in DOMAIN records : Finished(r) => AllMade(r)
    /\ \A i \in DOMAIN stack : MadeBefore(stack[i].rec, stack[i].next)

\* There are finitely many struct types.
FinitelyMany == IsFiniteSet(DOMAIN structs)

\* A rank of records such that what contains another by value is above it.
Ranked(rank) ==
    \A r \in DOMAIN records : \A k \in DOMAIN records[r].members :
      records[r].members[k].kind = "record" => rank[records[r].members[k].ref] < rank[r]

\* There is one: no record contains itself, at any depth.
Acyclic == \E b \in Nat : \E rank \in [DOMAIN records -> 0 .. b] : Ranked(rank)

\* In a union that is translated the largest member has the greatest alignment.
UnionsPlain ==
    "padded" \notin Shapes /\ gen # "idle" =>
      \A r \in DOMAIN records : records[r].kind = "union" /\ records[r].members # <<>> =>
        AlignOf(records, records[r].members[records[r].maxElementIdx]) = records[r].align

\* The invariant of LLVM's layouts.
LlvmInv == MembersMade /\ FinitelyMany /\ Acyclic /\ UnionsPlain

-----------------------------------------------------------------------------
(* LLVM's layout of a struct type, given the sizes of its members. *)

\* There is one least multiple of an alignment, and AlignTo is it.
LEMMA PlacedOnce ==
  ASSUME NEW from \in Int, NEW a \in Alignments, NEW x \in Int, Placed(x, from, a)
  PROVE  AlignTo(from, a) = x
<1>1. AlignTo(from, a) = RoundUp(from, a)
  BY DEF AlignTo, RoundUp, Alignments
<1>2. PICK y \in Int : y = RoundUp(from, a) /\ Placed(y, from, a)
  BY RoundUpPlaces
<1>3. x % a = 0 /\ from <= x /\ x < from + a /\ y % a = 0 /\ from <= y /\ y < from + a
  BY <1>2 DEF Placed
<1>4. x = y
  <2>1. CASE a = 1
    BY <1>3, <2>1
  <2>2. CASE a = 2
    BY <1>3, <2>2
  <2>3. CASE a = 4
    BY <1>3, <2>3
  <2>4. CASE a = 8
    BY <1>3, <2>4
  <2>5. QED
    BY <2>1, <2>2, <2>3, <2>4 DEF Alignments
<1>5. QED
  BY <1>1, <1>2, <1>4

\* The greatest alignment of the members up to the i-th.
AlignUpTo(sizes, i) == Max({1} \cup {sizes[k].align : k \in 1 .. i})

\* It is an upper bound, and that of a member or 1.
LEMMA AlignUpToIs ==
  ASSUME NEW sizes, NEW i \in Nat, \A k \in 1 .. i : sizes[k].align \in Alignments
  PROVE  LET a == AlignUpTo(sizes, i)
         IN  /\ a = 1 \/ \E k \in 1 .. i : sizes[k].align = a
             /\ a \in Alignments /\ \A k \in 1 .. i : sizes[k].align <= a
<1> DEFINE T == {1} \cup {sizes[k].align : k \in 1 .. i}
<1>1. T \subseteq Alignments /\ T # {}
  BY DEF Alignments
<1>2. T \in SUBSET (1 .. 8)
  BY <1>1 DEF Alignments
<1>3. Max(T) \in T /\ \A y \in T : Max(T) >= y
  BY <1>1, <1>2, MaxOfIndices
<1>4. PICK a : a = Max(T)
  OBVIOUS
<1>5. a \in Alignments /\ a \in T
  BY <1>1, <1>3, <1>4
<1>6. \A y \in T : y <= a
  BY <1>2, <1>3, <1>4
<1>7. \A k \in 1 .. i : sizes[k].align <= a
  BY <1>6
<1>8. QED
  BY <1>4, <1>5, <1>7 DEF AlignUpTo

\* One more member.
LEMMA AlignUpToNext ==
  ASSUME NEW sizes, NEW i \in Nat \ {0}, \A k \in 1 .. i : sizes[k].align \in Alignments
  PROVE  Max({AlignUpTo(sizes, i - 1), sizes[i].align}) = AlignUpTo(sizes, i)
<1>1. i - 1 \in Nat /\ i \in 1 .. i /\ \A k \in 1 .. i - 1 : k \in 1 .. i
  OBVIOUS
<1>2. PICK a : a = AlignUpTo(sizes, i)
  OBVIOUS
<1>3. PICK b : b = AlignUpTo(sizes, i - 1)
  OBVIOUS
<1>4. /\ a = 1 \/ \E k \in 1 .. i : sizes[k].align = a
      /\ a \in Alignments /\ \A k \in 1 .. i : sizes[k].align <= a
  BY <1>1, <1>2, AlignUpToIs
<1>5. /\ b = 1 \/ \E k \in 1 .. i - 1 : sizes[k].align = b
      /\ b \in Alignments /\ \A k \in 1 .. i - 1 : sizes[k].align <= b
  <2>1. \A k \in 1 .. i - 1 : sizes[k].align \in Alignments
    BY <1>1
  <2>2. QED
    BY <1>1, <1>3, <2>1, AlignUpToIs
<1>6. sizes[i].align \in Int /\ a \in Int /\ b \in Int /\ \A x \in Alignments : x >= 1
  BY <1>1, <1>4, <1>5 DEF Alignments
<1>7. b <= a /\ sizes[i].align <= a
  BY <1>1, <1>4, <1>5, <1>6
<1>8. a \in {b, sizes[i].align}
  <2>1. CASE a = 1
    BY <1>5, <1>6, <1>7, <2>1
  <2>2. CASE \E k \in 1 .. i : sizes[k].align = a
    <3>1. PICK k \in 1 .. i : sizes[k].align = a
      BY <2>2
    <3>2. CASE k = i
      BY <3>1, <3>2
    <3>3. CASE k \in 1 .. i - 1
      BY <1>5, <1>6, <1>7, <3>1, <3>3
    <3>4. QED
      BY <3>2, <3>3
  <2>3. QED
    BY <1>4, <2>1, <2>2
<1>9. Max({b, sizes[i].align}) = a
  BY <1>6, <1>7, <1>8, MaxIs
<1>10. QED
  BY <1>2, <1>3, <1>9

\* The state of StructLayout before the first member,
NothingPlaced == [offsets |-> <<>>, end |-> 0, align |-> 1]

\* and after one more.
PlaceNext(acc, f) ==
    LET at == AlignTo(acc.end, f.align)
    IN  [offsets |-> Append(acc.offsets, at), end |-> at + f.size,
         align |-> Max({acc.align, f.align})]

\* The equation that defines StructLayout's `place`.
Places(sizes, p) ==
    p = [i \in 0 .. Len(sizes) |->
           IF i = 0 THEN NothingPlaced ELSE PlaceNext(p[i - 1], sizes[i])]

\* Where the member before k ends.
EndOf(sizes, os, k) == IF k = 0 THEN 0 ELSE os[k] + sizes[k].size

\* The members are placed at os.
PlacedAt(sizes, os) ==
    \A k \in 1 .. Len(sizes) :
      /\ sizes[k].size \in Nat /\ sizes[k].align \in Alignments /\ os[k] \in Int
      /\ Placed(os[k], EndOf(sizes, os, k - 1), sizes[k].align)

\* Then this is what `place` is after i members.
Reached(sizes, os, i) ==
    [offsets |-> [k \in 1 .. i |-> os[k]], end |-> EndOf(sizes, os, i),
     align |-> AlignUpTo(sizes, i)]

\* The offsets of one more member.
LEMMA PrefixAppend ==
  ASSUME NEW os, NEW i \in Nat, \A k \in 1 .. i + 1 : os[k] \in Int
  PROVE  Append([k \in 1 .. i |-> os[k]], os[i + 1]) = [k \in 1 .. i + 1 |-> os[k]]
<1> DEFINE s == [k \in 1 .. i |-> os[k]]
           t == [k \in 1 .. i + 1 |-> os[k]]
<1>1. s \in Seq(Int) /\ Len(s) = i /\ t \in Seq(Int) /\ Len(t) = i + 1
  OBVIOUS
<1>2. os[i + 1] \in Int /\ t[i + 1] = os[i + 1] /\ \A k \in 1 .. i : s[k] = t[k]
  OBVIOUS
<1> HIDE DEF s, t
<1>3. PICK u \in Seq(Int) : u = Append(s, os[i + 1])
  BY <1>1, <1>2
<1>4. Len(u) = i + 1 /\ u[i + 1] = os[i + 1] /\ \A k \in 1 .. i : u[k] = s[k]
  BY <1>1, <1>2, <1>3
<1>5. \A k \in 1 .. i + 1 : u[k] = t[k]
  BY <1>2, <1>4
<1>6. u = t
  BY <1>1, <1>4, <1>5
<1>7. QED
  BY <1>3, <1>6 DEF s, t

\* It starts there,
LEMMA ReachedFirst ==
  ASSUME NEW sizes, NEW os
  PROVE  Reached(sizes, os, 0) = NothingPlaced
<1>1. AlignUpTo(sizes, 0) = 1
  <2>1. PICK a : a = AlignUpTo(sizes, 0)
    OBVIOUS
  <2>2. a = 1 \/ \E k \in 1 .. 0 : sizes[k].align = a
    BY <2>1, AlignUpToIs
  <2>3. QED
    BY <2>1, <2>2
<1>2. [k \in 1 .. 0 |-> os[k]] = <<>>
  OBVIOUS
<1>3. QED
  BY <1>1, <1>2 DEF Reached, NothingPlaced, EndOf

\* and every member leads to the next.
LEMMA ReachedNext ==
  ASSUME NEW sizes, NEW os, Len(sizes) \in Nat, PlacedAt(sizes, os), NEW i \in 1 .. Len(sizes)
  PROVE  PlaceNext(Reached(sizes, os, i - 1), sizes[i]) = Reached(sizes, os, i)
<1>1. \A k \in 1 .. i : /\ k \in 1 .. Len(sizes) /\ sizes[k].size \in Nat
                        /\ sizes[k].align \in Alignments /\ os[k] \in Int
  BY DEF PlacedAt
<1>2. i \in 1 .. i /\ i - 1 \in Nat /\ i \in Nat \ {0} /\ (i - 1) + 1 = i
  OBVIOUS
<1>3. Placed(os[i], EndOf(sizes, os, i - 1), sizes[i].align)
  BY DEF PlacedAt
<1>4. EndOf(sizes, os, i - 1) \in Int
  <2>1. CASE i = 1
    BY <2>1 DEF EndOf
  <2>2. CASE i # 1
    <3>1. i - 1 \in 1 .. i
      BY <2>2
    <3>2. PICK j : j = i - 1
      OBVIOUS
    <3>3. os[j] \in Int /\ sizes[j].size \in Int
      BY <1>1, <3>1, <3>2
    <3>4. QED
      BY <2>2, <3>2, <3>3 DEF EndOf
  <2>3. QED
    BY <2>1, <2>2
<1>5. AlignTo(EndOf(sizes, os, i - 1), sizes[i].align) = os[i]
  BY <1>1, <1>2, <1>3, <1>4, PlacedOnce
<1>6. Append([k \in 1 .. i - 1 |-> os[k]], os[i]) = [k \in 1 .. i |-> os[k]]
  <2>1. PICK j \in Nat : j = i - 1 /\ j + 1 = i
    BY <1>2
  <2>2. Append([k \in 1 .. j |-> os[k]], os[j + 1]) = [k \in 1 .. j + 1 |-> os[k]]
    BY <1>1, <2>1, PrefixAppend
  <2>3. QED
    BY <2>1, <2>2
<1>7. Max({AlignUpTo(sizes, i - 1), sizes[i].align}) = AlignUpTo(sizes, i)
  BY <1>1, <1>2, AlignUpToNext
<1>8. EndOf(sizes, os, i) = os[i] + sizes[i].size
  BY <1>2 DEF EndOf
<1>9. PICK acc : acc = Reached(sizes, os, i - 1)
  OBVIOUS
<1>10. /\ acc.end = EndOf(sizes, os, i - 1) /\ acc.align = AlignUpTo(sizes, i - 1)
       /\ acc.offsets = [k \in 1 .. i - 1 |-> os[k]]
  BY <1>9 DEF Reached
<1>11. PlaceNext(acc, sizes[i])
         = [offsets |-> Append(acc.offsets, AlignTo(acc.end, sizes[i].align)),
            end |-> AlignTo(acc.end, sizes[i].align) + sizes[i].size,
            align |-> Max({acc.align, sizes[i].align})]
  BY DEF PlaceNext
<1>12. PlaceNext(acc, sizes[i])
         = [offsets |-> [k \in 1 .. i |-> os[k]], end |-> EndOf(sizes, os, i),
            align |-> AlignUpTo(sizes, i)]
  BY <1>5, <1>6, <1>7, <1>8, <1>10, <1>11, Zenon
<1>13. QED
  BY <1>9, <1>12 DEF Reached

\* The equation has one solution.
LEMMA PlacesIs ==
  ASSUME NEW sizes, NEW os, Len(sizes) \in Nat, PlacedAt(sizes, os)
  PROVE  /\ \E p : Places(sizes, p)
         /\ \A p : Places(sizes, p) => p[Len(sizes)] = Reached(sizes, os, Len(sizes))
<1> DEFINE N == Len(sizes)
<1>1. \A i \in 1 .. N : PlaceNext(Reached(sizes, os, i - 1), sizes[i]) = Reached(sizes, os, i)
  BY ReachedNext
<1>2. \A i \in 0 .. N : i # 0 => i \in 1 .. N /\ i - 1 \in 0 .. N
  OBVIOUS
<1>3. \E p : Places(sizes, p)
  <2> DEFINE w == [i \in 0 .. N |-> Reached(sizes, os, i)]
             v == [i \in 0 .. N |-> IF i = 0 THEN NothingPlaced ELSE PlaceNext(w[i - 1], sizes[i])]
  <2>1. ASSUME NEW i \in 0 .. N
        PROVE  w[i] = v[i]
    <3>1. w[i] = Reached(sizes, os, i)
      OBVIOUS
    <3>2. CASE i = 0
      <4>1. v[i] = NothingPlaced
        BY <3>2
      <4>2. QED
        BY <3>1, <3>2, <4>1, ReachedFirst
    <3>3. CASE i # 0
      <4>1. v[i] = PlaceNext(w[i - 1], sizes[i])
        BY <3>3
      <4>2. w[i - 1] = Reached(sizes, os, i - 1)
        BY <1>2, <3>3
      <4>3. PlaceNext(Reached(sizes, os, i - 1), sizes[i]) = Reached(sizes, os, i)
        BY <1>1, <1>2, <3>3
      <4> HIDE DEF w, v
      <4>4. QED
        BY <3>1, <4>1, <4>2, <4>3
    <3>4. QED
      BY <3>2, <3>3
  <2>2. w = v
    <3>1. w = [i \in 0 .. N |-> w[i]] /\ v = [i \in 0 .. N |-> v[i]]
      OBVIOUS
    <3> HIDE DEF w, v
    <3>2. QED
      BY <2>1, <3>1
  <2>3. Places(sizes, w)
    BY <2>2, Zenon DEF Places
  <2>4. QED
    BY <2>3
<1>4. ASSUME NEW p, Places(sizes, p)
      PROVE  p[N] = Reached(sizes, os, N)
  <2>1. \A i \in 0 .. N : p[i] = IF i = 0 THEN NothingPlaced ELSE PlaceNext(p[i - 1], sizes[i])
    BY <1>4 DEF Places
  <2> DEFINE Bad == {i \in 0 .. N : p[i] # Reached(sizes, os, i)}
  <2>2. Bad = {}
    <3> SUFFICES ASSUME Bad # {} PROVE FALSE
      OBVIOUS
    <3>1. Bad \in SUBSET Nat
      OBVIOUS
    <3>2. PICK i \in Bad : \A j \in Bad : i <= j
      BY <3>1, NatMinimum
    <3>3. i \in 0 .. N /\ p[i] # Reached(sizes, os, i)
      OBVIOUS
    <3>4. i # 0
      BY <2>1, <3>3, ReachedFirst
    <3>5. i \in 1 .. N /\ i - 1 \in 0 .. N /\ ~(i <= i - 1)
      BY <3>3, <3>4
    <3>6. p[i - 1] = Reached(sizes, os, i - 1)
      BY <3>2, <3>5
    <3>7. p[i] = PlaceNext(p[i - 1], sizes[i])
      BY <2>1, <3>3, <3>4
    <3>8. QED
      BY <1>1, <3>3, <3>5, <3>6, <3>7
  <2>3. QED
    BY <2>2
<1>5. QED
  BY <1>3, <1>4

\* What LLVM makes of a struct type whose members are placed at os.
LEMMA StructLayoutIs ==
  ASSUME NEW sizes, NEW os, Len(sizes) \in Nat \ {0}, PlacedAt(sizes, os),
         NEW a, \A k \in 1 .. Len(sizes) : sizes[k].align <= a,
         \E k \in 1 .. Len(sizes) : sizes[k].align = a,
         NEW size \in Int, Placed(size, EndOf(sizes, os, Len(sizes)), a)
  PROVE  LET l == StructLayout(sizes)
         IN  /\ l.size = size /\ l.align = a
             /\ l.offsets = [k \in 1 .. Len(sizes) |-> os[k]]
<1> DEFINE N == Len(sizes)
<1>1. N \in Nat /\ N \in 1 .. N
  OBVIOUS
<1>2. \A k \in 1 .. N : sizes[k].size \in Nat /\ sizes[k].align \in Alignments /\ os[k] \in Int
  BY DEF PlacedAt
<1>3. AlignUpTo(sizes, N) = a
  <2>1. PICK b : b = AlignUpTo(sizes, N)
    OBVIOUS
  <2>2. /\ b = 1 \/ \E k \in 1 .. N : sizes[k].align = b
        /\ b \in Alignments /\ \A k \in 1 .. N : sizes[k].align <= b
    BY <1>1, <1>2, <2>1, AlignUpToIs
  <2>3. a \in Alignments
    BY <1>2
  <2>4. a >= 1 /\ a \in Int /\ b \in Int
    BY <2>2, <2>3 DEF Alignments
  <2>5. b <= a /\ a <= b
    BY <2>2, <2>4
  <2>6. QED
    BY <2>1, <2>4, <2>5
<1>4. EndOf(sizes, os, N) \in Int /\ a \in Alignments
  BY <1>1, <1>2 DEF EndOf
<1>5. AlignTo(EndOf(sizes, os, N), a) = size
  BY <1>4, PlacedOnce
<1> DEFINE place == CHOOSE p : Places(sizes, p)
           all == place[N]
<1>6. StructLayout(sizes)
        = [offsets |-> all.offsets, size |-> AlignTo(all.end, all.align), align |-> all.align]
  BY DEF StructLayout, Places, PlaceNext, NothingPlaced
<1>7. all = Reached(sizes, os, N)
  <2>1. Places(sizes, place)
    BY <1>1, PlacesIs
  <2> HIDE DEF place
  <2>2. QED
    BY <1>1, <2>1, PlacesIs
<1> HIDE DEF all
<1>8. /\ all.offsets = [k \in 1 .. N |-> os[k]] /\ all.end = EndOf(sizes, os, N)
      /\ all.align = AlignUpTo(sizes, N)
  BY <1>7 DEF Reached
<1>9. QED
  BY <1>3, <1>5, <1>6, <1>8

-----------------------------------------------------------------------------
(* LLVM's layouts of all struct types, which are made in rounds. *)

\* The members of the struct type n, with the layouts that a row has for those
\* that are structs.
Sized(row, n) ==
    [i \in DOMAIN structs[n] |->
       IF structs[n][i].kind = "record" THEN row[structs[n][i].name] ELSE structs[n][i]]

\* The row of the k-th round.
NextRow(row, k) ==
    [n \in DOMAIN structs |->
       IF k = 0 THEN StructLayout(<<>>) ELSE StructLayout(Sized(row, n))]

\* The equation that defines LlvmLayout's `at`, up to round m.
Rows(at, m) == at = [k \in 0 .. m |-> NextRow(at[k - 1], k)]

\* It has a solution.
LEMMA RowsExist ==
  ASSUME NEW m \in Nat
  PROVE  \E at : Rows(at, m)
<1> DEFINE Bad == {i \in Nat : ~\E at : Rows(at, i)}
<1>1. Bad = {}
  <2> SUFFICES ASSUME Bad # {} PROVE FALSE
    OBVIOUS
  <2>1. PICK i \in Bad : \A j \in Bad : i <= j
    BY NatMinimum
  <2>2. i \in Nat /\ ~\E at : Rows(at, i)
    OBVIOUS
  <2>3. \A any : NextRow(any, 0) = [n \in DOMAIN structs |-> StructLayout(<<>>)]
    BY DEF NextRow
  <2>4. CASE i = 0
    <3> DEFINE w == [k \in 0 .. 0 |-> [n \in DOMAIN structs |-> StructLayout(<<>>)]]
               v == [k \in 0 .. 0 |-> NextRow(w[k - 1], k)]
    <3>1. \A k \in 0 .. 0 : k = 0
      OBVIOUS
    <3>2. \A k \in 0 .. 0 : w[k] = v[k]
      BY <2>3, <3>1
    <3>3. w = [k \in 0 .. 0 |-> w[k]] /\ v = [k \in 0 .. 0 |-> v[k]]
      OBVIOUS
    <3>4. w = v
      <4> HIDE DEF w, v
      <4>1. QED
        BY <3>2, <3>3
    <3>5. Rows(w, 0)
      BY <3>4, Zenon DEF Rows
    <3>6. QED
      BY <2>2, <2>4, <3>5
  <2>5. CASE i # 0
    <3>1. i - 1 \in Nat /\ ~(i <= i - 1)
      BY <2>2, <2>5
    <3>2. i - 1 \notin Bad
      BY <2>1, <3>1
    <3>3. PICK f : Rows(f, i - 1)
      BY <3>1, <3>2
    <3>4. \A k \in 0 .. i - 1 : f[k] = NextRow(f[k - 1], k)
      BY <3>3 DEF Rows
    <3> DEFINE w == [k \in 0 .. i |-> IF k = i THEN NextRow(f[i - 1], i) ELSE f[k]]
               v == [k \in 0 .. i |-> NextRow(w[k - 1], k)]
    <3>5. \A k \in 0 .. i - 1 : w[k] = f[k]
      BY <3>1
    <3>6. ASSUME NEW k \in 0 .. i
          PROVE  w[k] = v[k]
      <4>1. v[k] = NextRow(w[k - 1], k)
        OBVIOUS
      <4>2. CASE k = i
        <5>1. w[k] = NextRow(f[i - 1], i)
          BY <4>2
        <5>2. i - 1 \in 0 .. i - 1
          BY <3>1
        <5>3. w[k - 1] = f[i - 1]
          BY <3>5, <4>2, <5>2
        <5> HIDE DEF w, v
        <5>4. QED
          BY <4>1, <4>2, <5>1, <5>3
      <4>3. CASE k = 0
        <5>1. w[k] = f[0] /\ 0 \in 0 .. i - 1
          BY <2>5, <3>1, <3>5, <4>3
        <5>2. f[0] = NextRow(f[0 - 1], 0)
          BY <3>4, <5>1
        <5> HIDE DEF w, v
        <5>3. QED
          BY <2>3, <4>1, <4>3, <5>1, <5>2
      <4>4. CASE k # i /\ k # 0
        <5>1. k \in 0 .. i - 1 /\ k - 1 \in 0 .. i - 1
          BY <4>4
        <5>2. w[k] = f[k] /\ w[k - 1] = f[k - 1]
          BY <3>5, <5>1
        <5> HIDE DEF w, v
        <5>3. QED
          BY <3>4, <4>1, <5>1, <5>2
      <4>5. QED
        BY <4>2, <4>3, <4>4
    <3>7. w = [k \in 0 .. i |-> w[k]] /\ v = [k \in 0 .. i |-> v[k]]
      OBVIOUS
    <3>8. w = v
      <4> HIDE DEF w, v
      <4>1. QED
        BY <3>6, <3>7
    <3>9. Rows(w, i)
      BY <3>8, Zenon DEF Rows
    <3>10. QED
      BY <2>2, <3>9
  <2>6. QED
    BY <2>4, <2>5
<1>2. QED
  BY <1>1

\* Every row is made from the one before, and LlvmLayout is the last.
LEMMA LlvmLayoutIs ==
  ASSUME NEW m \in Nat, m = Cardinality(DOMAIN structs)
  PROVE  \E at : /\ LlvmLayout = at[m]
                 /\ \A k \in 1 .. m : \A n \in DOMAIN structs :
                      at[k][n] = StructLayout(Sized(at[k - 1], n))
<1> DEFINE at == CHOOSE f : Rows(f, m)
<1>1. Rows(at, m)
  BY RowsExist
<1>2. LlvmLayout = at[m]
  BY DEF LlvmLayout, Rows, NextRow, Sized
<1> HIDE DEF at
<1>3. \A k \in 1 .. m : at[k] = NextRow(at[k - 1], k)
  <2>1. \A k \in 1 .. m : k \in 0 .. m
    OBVIOUS
  <2>2. QED
    BY <1>1, <2>1 DEF Rows
<1>4. \A k \in 1 .. m : \A n \in DOMAIN structs : at[k][n] = StructLayout(Sized(at[k - 1], n))
  <2>1. \A row : \A k \in 1 .. m : \A n \in DOMAIN structs :
          NextRow(row, k)[n] = StructLayout(Sized(row, n))
    <3>1. \A k \in 1 .. m : k # 0
      OBVIOUS
    <3>2. QED
      BY <3>1 DEF NextRow
  <2>2. QED
    BY <1>3, <2>1
<1>5. QED
  BY <1>2, <1>4

\* A function on 1 .. n is a sequence of length n.
LEMMA LengthIs ==
  ASSUME NEW n \in Nat, NEW f, f = [i \in 1 .. n |-> f[i]]
  PROVE  Len(f) = n
<1> DEFINE S == {f[i] : i \in 1 .. n}
<1>1. f \in [1 .. n -> S]
  OBVIOUS
<1>2. f \in Seq(S) /\ DOMAIN f = 1 .. n
  BY <1>1
<1> HIDE DEF S
<1>3. DOMAIN f = 1 .. Len(f) /\ Len(f) \in Nat
  BY <1>2
<1>4. QED
  BY <1>2, <1>3

\* The layout l is that of the record r.
RightLayout(l, r) ==
    /\ l.size = records[r].size /\ l.align = records[r].align
    /\ records[r].kind = "struct" => l.offsets = records[r].offsets

\* The row has the layouts of the records that the struct type of r contains.
MembersRight(row, r) ==
    \A k \in DOMAIN VisitedMembers(r) : VisitedMembers(r)[k].kind = "record" =>
      RightLayout(row[Name(VisitedMembers(r)[k].ref)], VisitedMembers(r)[k].ref)

\* The members of a record that CodeGen visits are known.
LEMMA VisitedKnown ==
  ASSUME RecordInv, LaidOutInv, outcome = "parsed", NEW r \in DOMAIN records, records[r].members # <<>>
  PROVE  /\ Len(VisitedMembers(r)) \in Nat \ {0}
         /\ DOMAIN VisitedMembers(r) = 1 .. Len(VisitedMembers(r))
         /\ \A k \in DOMAIN VisitedMembers(r) :
              /\ WasKnown(VisitedMembers(r)[k])
              /\ SizeOf(records, VisitedMembers(r)[k]) \in Nat
              /\ AlignOf(records, VisitedMembers(r)[k]) \in Alignments
              /\ \E j \in DOMAIN records[r].members : VisitedMembers(r)[k] = records[r].members[j]
<1> DEFINE ms == VisitedMembers(r)
<1>1. ms \in Seq(MemberType(Len(records)))
  BY ParserTypes, VisitedMembersType
<1>2. layout.rec = 0
  BY DEF RecordInv, ParserInv, OutcomeTyped
<1>3. records[r].members \in Seq(MemberType(Len(records)))
  BY DEF RecordInv, ParserInv, RecordsTyped, Members
<1>4. records[r].maxElementIdx \in DOMAIN records[r].members
  BY <1>2, ParserTypes DEF RecordInv, ParserInv, RecordsTyped
<1>5. ms # <<>>
  <2>1. CASE records[r].kind = "struct"
    BY <2>1 DEF VisitedMembers
  <2>2. CASE records[r].kind # "struct"
    <3>1. ms = <<records[r].members[records[r].maxElementIdx]>>
      BY <2>2 DEF VisitedMembers
    <3>2. QED
      BY <3>1
  <2>3. QED
    BY <2>1, <2>2
<1>6. ASSUME NEW k \in DOMAIN ms
      PROVE  \E j \in DOMAIN records[r].members : ms[k] = records[r].members[j]
  <2>1. CASE records[r].kind = "struct"
    <3>1. ms = records[r].members
      BY <2>1 DEF VisitedMembers
    <3>2. QED
      BY <3>1
  <2>2. CASE records[r].kind # "struct"
    <3>1. ms = <<records[r].members[records[r].maxElementIdx]>>
      BY <2>2 DEF VisitedMembers
    <3>2. k = 1
      BY <3>1
    <3>3. ms[k] = records[r].members[records[r].maxElementIdx]
      BY <3>1, <3>2
    <3>4. QED
      BY <1>4, <3>3
  <2>3. QED
    BY <2>1, <2>2
<1>7. ASSUME NEW k \in DOMAIN ms
      PROVE  /\ WasKnown(ms[k])
             /\ SizeOf(records, ms[k]) \in Nat /\ AlignOf(records, ms[k]) \in Alignments
  <2>1. PICK j \in DOMAIN records[r].members : ms[k] = records[r].members[j]
    BY <1>6
  <2>2. WasKnown(records[r].members[j])
    BY AllWereKnown
  <2> HIDE DEF ms
  <2>3. PICK t : t = ms[k]
    OBVIOUS
  <2>4. WasKnown(t)
    BY <2>1, <2>2, <2>3
  <2>5. SizeOf(records, t) \in Nat /\ AlignOf(records, t) \in Alignments
    BY <2>4, KnownSize
  <2>6. QED
    BY <2>3, <2>4, <2>5
<1>8. Len(ms) \in Nat \ {0} /\ DOMAIN ms = 1 .. Len(ms)
  <2> HIDE DEF ms
  <2>1. QED
    BY <1>1, <1>5
<1>9. QED
  BY <1>6, <1>7, <1>8

\* What StructLayout is given, are the sizes and alignments of the members.
LEMMA SizedIs ==
  ASSUME RecordInv, LaidOutInv, outcome = "parsed",
         NEW r \in DOMAIN records, records[r].members # <<>>, structs[Name(r)] = BodyOf(r),
         NEW row, MembersRight(row, r)
  PROVE  LET ms == VisitedMembers(r)
             sizes == Sized(row, Name(r))
         IN  /\ Len(sizes) = Len(ms)
             /\ \A k \in DOMAIN ms : /\ sizes[k].size = SizeOf(records, ms[k])
                                     /\ sizes[k].align = AlignOf(records, ms[k])
<1>1. PICK ms : ms = VisitedMembers(r)
  OBVIOUS
<1>2. DOMAIN ms = 1 .. Len(ms) /\ Len(ms) \in Nat
  BY <1>1, VisitedKnown
<1>3. PICK body : body = structs[Name(r)]
  OBVIOUS
<1>4. body = [k \in DOMAIN ms |-> LlvmType(ms[k])]
  BY <1>1, <1>3 DEF BodyOf
<1>5. PICK sizes : sizes = Sized(row, Name(r))
  OBVIOUS
<1>6. sizes = [i \in DOMAIN body |-> IF body[i].kind = "record" THEN row[body[i].name] ELSE body[i]]
  BY <1>3, <1>5 DEF Sized
<1>7. Len(sizes) = Len(ms)
  <2>1. DOMAIN body = 1 .. Len(ms)
    BY <1>2, <1>4
  <2>2. sizes = [i \in 1 .. Len(ms) |-> sizes[i]]
    BY <1>6, <2>1
  <2>3. QED
    BY <1>2, <2>2, LengthIs
<1>8. ASSUME NEW k \in DOMAIN ms
      PROVE  sizes[k].size = SizeOf(records, ms[k]) /\ sizes[k].align = AlignOf(records, ms[k])
  <2>1. body[k] = LlvmType(ms[k]) /\ k \in DOMAIN body
    BY <1>4
  <2>2. sizes[k] = IF body[k].kind = "record" THEN row[body[k].name] ELSE body[k]
    BY <1>6, <2>1
  <2>3. body[k].kind = ms[k].kind /\ body[k].size = ms[k].size /\ body[k].align = ms[k].align
    BY <2>1 DEF LlvmType
  <2>4. CASE ms[k].kind = "record"
    <3>1. body[k].name = Name(ms[k].ref)
      BY <2>1, <2>4 DEF LlvmType
    <3>2. sizes[k] = row[Name(ms[k].ref)]
      BY <2>2, <2>3, <2>4, <3>1
    <3>3. RightLayout(row[Name(ms[k].ref)], ms[k].ref)
      BY <1>1, <2>4 DEF MembersRight
    <3>4. QED
      BY <2>4, <3>2, <3>3 DEF RightLayout, SizeOf, AlignOf
  <2>5. CASE ms[k].kind # "record"
    BY <2>2, <2>3, <2>5 DEF SizeOf, AlignOf
  <2>6. QED
    BY <2>4, <2>5
<1>9. QED
  BY <1>1, <1>5, <1>7, <1>8

\* If the members have their layouts, the record has its own: a struct,
LEMMA StructAgrees ==
  ASSUME RecordInv, LaidOutInv, outcome = "parsed",
         NEW r \in DOMAIN records, records[r].members # <<>>, structs[Name(r)] = BodyOf(r),
         records[r].kind = "struct", NEW row, MembersRight(row, r)
  PROVE  RightLayout(StructLayout(Sized(row, Name(r))), r)
<1>1. PICK ms : ms = VisitedMembers(r) /\ ms = records[r].members
  BY DEF VisitedMembers
<1>2. PICK N \in Nat \ {0} : N = Len(ms) /\ DOMAIN ms = 1 .. N
  BY <1>1, VisitedKnown
<1>3. PICK sizes : sizes = Sized(row, Name(r))
  OBVIOUS
<1>4. Len(sizes) = N /\ \A k \in 1 .. N : /\ sizes[k].size = SizeOf(records, ms[k])
                                          /\ sizes[k].align = AlignOf(records, ms[k])
  BY ZenonT(60), <1>1, <1>2, <1>3, SizedIs
<1>5. \A k \in 1 .. N : sizes[k].size \in Nat /\ sizes[k].align \in Alignments
  <2>1. \A k \in 1 .. N : SizeOf(records, ms[k]) \in Nat /\ AlignOf(records, ms[k]) \in Alignments
    BY <1>1, <1>2, VisitedKnown
  <2>2. QED
    BY <1>4, <2>1
<1>6. Solid(records, r)
  <2>1. layout.rec = 0 /\ r # 0
    BY ParserTypes DEF RecordInv, ParserInv, OutcomeTyped
  <2>2. QED
    BY <2>1 DEF LaidOutInv, AllSolid
<1>7. records[r] \in Record
  BY ElementOfSeq DEF RecordInv, ParserInv, RecordsTyped
<1>8. PICK os \in Seq(Int) : os = records[r].offsets
  BY <1>7 DEF Record
<1>9. /\ Len(os) = N /\ MembersPlaced(records, r, os) /\ RecordPlaced(records, r)
      /\ DOMAIN os = 1 .. N /\ \A k \in 1 .. N : os[k] \in Int
  <2>1. Len(os) = N /\ MembersPlaced(records, r, os) /\ RecordPlaced(records, r)
    BY <1>1, <1>2, <1>6, <1>8 DEF Solid, LaidOut
  <2>2. QED
    BY <1>8, <2>1
<1>10. \A k \in 1 .. N + 1 : EndBefore(records, r, os, k) = EndOf(sizes, os, k - 1)
  <2> SUFFICES ASSUME NEW k \in 1 .. N + 1
               PROVE  EndBefore(records, r, os, k) = EndOf(sizes, os, k - 1)
    OBVIOUS
  <2>1. CASE k = 1
    BY <2>1 DEF EndBefore, EndOf
  <2>2. CASE k # 1
    <3>1. PICK j \in 1 .. N : j = k - 1 /\ j # 0
      BY <2>2
    <3>2. sizes[j].size = SizeOf(records, ms[j])
      BY <1>4
    <3>3. EndBefore(records, r, os, k) = os[j] + SizeOf(records, ms[j])
      BY <1>1, <2>2, <3>1 DEF EndBefore
    <3>4. EndOf(sizes, os, j) = os[j] + sizes[j].size
      BY <3>1 DEF EndOf
    <3>5. QED
      BY <3>1, <3>2, <3>3, <3>4
  <2>3. QED
    BY <2>1, <2>2
<1>11. PlacedAt(sizes, os)
  <2> SUFFICES ASSUME NEW k \in 1 .. N
               PROVE  Placed(os[k], EndOf(sizes, os, k - 1), sizes[k].align)
    BY <1>4, <1>5, <1>9 DEF PlacedAt
  <2>1. Placed(os[k], EndBefore(records, r, os, k), AlignOf(records, ms[k]))
    BY <1>1, <1>9 DEF MembersPlaced
  <2>2. k \in 1 .. N + 1
    OBVIOUS
  <2>3. QED
    BY <1>4, <1>10, <2>1, <2>2
<1>12. PICK a : a = records[r].align
  OBVIOUS
<1>13. /\ \A k \in 1 .. N : sizes[k].align <= a
       /\ \E k \in 1 .. N : sizes[k].align = a
       /\ Placed(records[r].size, EndOf(sizes, os, N), a)
  <2>1. /\ \A k \in 1 .. N : AlignOf(records, ms[k]) <= a
        /\ \E k \in 1 .. N : AlignOf(records, ms[k]) = a
        /\ Placed(records[r].size, Max({EndBefore(records, r, os, N + 1)}), a)
    BY <1>1, <1>2, <1>8, <1>9, <1>12 DEF RecordPlaced
  <2>2. N + 1 \in 1 .. N + 1 /\ (N + 1) - 1 = N /\ N \in 1 .. N /\ N # 0
    OBVIOUS
  <2>3. EndBefore(records, r, os, N + 1) = EndOf(sizes, os, N)
    BY <1>10, <2>2
  <2>4. EndOf(sizes, os, N) \in Int
    BY <1>5, <1>9, <2>2 DEF EndOf
  <2>5. PICK e \in Int : e = EndOf(sizes, os, N)
    BY <2>4
  <2>6. Max({e}) = e
    <3>1. {e} \subseteq Int /\ e \in {e} /\ \A y \in {e} : y <= e
      OBVIOUS
    <3>2. QED
      BY <3>1, MaxIs
  <2>7. QED
    BY <1>4, <2>1, <2>3, <2>5, <2>6
<1>14. records[r].size \in Int
  BY <1>7 DEF Record
<1>15. PICK l : l = StructLayout(sizes)
  OBVIOUS
<1>16. l.size = records[r].size /\ l.align = a /\ l.offsets = [k \in 1 .. N |-> os[k]]
  BY <1>4, <1>11, <1>13, <1>14, <1>15, StructLayoutIs
<1>17. os = [k \in 1 .. N |-> os[k]]
  BY <1>8, <1>9
<1>18. QED
  BY <1>3, <1>8, <1>12, <1>15, <1>16, <1>17 DEF RightLayout

\* and a union whose largest member is the most aligned.
LEMMA UnionAgrees ==
  ASSUME RecordInv, LaidOutInv, outcome = "parsed",
         NEW r \in DOMAIN records, records[r].members # <<>>, structs[Name(r)] = BodyOf(r),
         records[r].kind # "struct", NEW row, MembersRight(row, r),
         AlignOf(records, records[r].members[records[r].maxElementIdx]) = records[r].align
  PROVE  RightLayout(StructLayout(Sized(row, Name(r))), r)
<1> DEFINE big == records[r].members[records[r].maxElementIdx]
<1>1. PICK ms : ms = VisitedMembers(r) /\ ms = <<big>>
  BY DEF VisitedMembers
<1>2. Len(ms) = 1 /\ ms[1] = big /\ 1 \in DOMAIN ms
  BY <1>1
<1>3. PICK sizes : sizes = Sized(row, Name(r))
  OBVIOUS
<1>4. Len(sizes) = 1 /\ sizes[1].size = SizeOf(records, big) /\ sizes[1].align = AlignOf(records, big)
  <2>1. /\ Len(sizes) = Len(ms)
        /\ \A k \in DOMAIN ms : /\ sizes[k].size = SizeOf(records, ms[k])
                                /\ sizes[k].align = AlignOf(records, ms[k])
    BY ZenonT(60), <1>1, <1>3, SizedIs
  <2> HIDE DEF big
  <2>2. QED
    BY <1>2, <2>1
<1>5. SizeOf(records, big) \in Nat /\ AlignOf(records, big) \in Alignments
  BY ZenonT(60), <1>1, <1>2, VisitedKnown
<1>6. layout.rec = 0 /\ r # 0
  BY ParserTypes DEF RecordInv, ParserInv, OutcomeTyped
<1>7. Solid(records, r)
  BY <1>6 DEF LaidOutInv, AllSolid
<1>8. records[r] \in Record
  BY ElementOfSeq DEF RecordInv, ParserInv, RecordsTyped
<1>9. records[r].kind = "union" /\ records[r].size \in Int
  BY <1>8 DEF Record
<1>10. records[r].maxElementIdx \in DOMAIN records[r].members
  BY <1>6 DEF RecordInv, ParserInv, RecordsTyped
<1>11. PICK s \in Nat : s = SizeOf(records, big)
  BY <1>5
<1>12. PICK all : all = {SizeOf(records, records[r].members[k]) : k \in DOMAIN records[r].members}
  OBVIOUS
<1>13. Placed(records[r].size, Max(all), records[r].align)
  BY <1>7, <1>9, <1>12 DEF Solid, LaidOut, RecordPlaced
<1>14. Max(all) = s
  <2>1. s \in all
    BY <1>10, <1>11, <1>12
  <2>2. \A k \in DOMAIN records[r].members : SizeOf(records, records[r].members[k]) <= s
    BY <1>7, <1>9, <1>11 DEF Solid
  <2>3. \A k \in DOMAIN records[r].members : SizeOf(records, records[r].members[k]) \in Int
    <3>1. \A k \in DOMAIN records[r].members : WasKnown(records[r].members[k])
      BY AllWereKnown
    <3>2. \A t : WasKnown(t) => SizeOf(records, t) \in Nat
      BY KnownSize
    <3>3. QED
      BY <3>1, <3>2
  <2>4. all \subseteq Int /\ \A y \in all : y <= s
    BY <1>12, <2>2, <2>3
  <2>5. QED
    BY <2>1, <2>4, MaxIs
<1>15. PICK a \in Alignments : a = records[r].align /\ sizes[1].align = a
  BY <1>4, <1>5
<1> HIDE DEF big
<1> DEFINE os == <<0>>
<1>16. Placed(0, 0, a)
  BY DEF Placed, Alignments
<1>17. PlacedAt(sizes, os)
  <2> SUFFICES ASSUME NEW k \in 1 .. Len(sizes)
               PROVE  /\ sizes[k].size \in Nat /\ sizes[k].align \in Alignments /\ os[k] \in Int
                      /\ Placed(os[k], EndOf(sizes, os, k - 1), sizes[k].align)
    BY DEF PlacedAt
  <2>1. k = 1
    BY <1>4
  <2>2. os[k] = 0 /\ EndOf(sizes, os, k - 1) = 0
    BY <2>1 DEF EndOf
  <2> HIDE DEF os
  <2>3. QED
    BY <1>4, <1>11, <1>15, <1>16, <2>1, <2>2
<1>18. EndOf(sizes, os, Len(sizes)) = s
  BY <1>4, <1>11 DEF EndOf
<1> HIDE DEF os
<1>19. /\ \A k \in 1 .. Len(sizes) : sizes[k].align <= a
       /\ \E k \in 1 .. Len(sizes) : sizes[k].align = a
  <2>1. a \in Int
    BY DEF Alignments
  <2>2. \A k \in 1 .. Len(sizes) : k = 1
    BY <1>4
  <2>3. QED
    BY <1>4, <1>15, <2>1, <2>2
<1>20. PICK l : l = StructLayout(sizes)
  OBVIOUS
<1>21. l.size = records[r].size /\ l.align = a
  <2>1. Len(sizes) \in Nat \ {0}
    BY <1>4
  <2>2. Placed(records[r].size, EndOf(sizes, os, Len(sizes)), a)
    BY <1>13, <1>14, <1>15, <1>18
  <2>3. PICK size \in Int : size = records[r].size
    BY <1>9
  <2>4. Placed(size, EndOf(sizes, os, Len(sizes)), a)
    BY <2>2, <2>3
  <2>5. StructLayout(sizes).size = size /\ StructLayout(sizes).align = a
    BY ZenonT(60), <1>17, <1>19, <2>1, <2>4, StructLayoutIs
  <2>6. QED
    BY <1>20, <2>3, <2>5
<1>22. QED
  BY <1>3, <1>9, <1>15, <1>20, <1>21 DEF RightLayout

\* The record has members, and a struct type.
HasStruct(r) == r \in DOMAIN records /\ records[r].members # <<>> /\ Name(r) \in DOMAIN structs

\* The struct types of the records below r.
Below(rank, r) == {n \in DOMAIN structs : \E q \in DOMAIN records : Name(q) = n /\ rank[q] < rank[r]}

\* A record that a struct type contains is a lower one, with a struct type.
LEMMA ContainedBelow ==
  ASSUME RecordInv, LaidOutInv, StructInv, MembersMade, gen = "done",
         NEW b \in Nat, NEW rank \in [DOMAIN records -> 0 .. b], Ranked(rank),
         NEW r, HasStruct(r), NEW k \in DOMAIN VisitedMembers(r),
         VisitedMembers(r)[k].kind = "record"
  PROVE  HasStruct(VisitedMembers(r)[k].ref) /\ rank[VisitedMembers(r)[k].ref] < rank[r]
<1>1. outcome = "parsed" /\ stack = <<>> /\ layout.rec = 0
  BY DEF RecordInv, ParserInv, OutcomeTyped, CodeGenTyped, StructInv
<1>2. r \in DOMAIN records /\ records[r].members # <<>> /\ Finished(r)
  BY <1>1 DEF HasStruct, Finished, OnStack
<1>3. PICK t : t = VisitedMembers(r)[k]
  OBVIOUS
<1>4. /\ WasKnown(t) /\ t.kind = "record"
      /\ \E j \in DOMAIN records[r].members : t = records[r].members[j]
  BY <1>1, <1>2, <1>3, VisitedKnown
<1>5. t.ref \in DOMAIN records /\ records[t.ref].members # <<>>
  BY SMTT(60), <1>4, ParserTypes DEF WasKnown, SizeKnown, MemberType, Type
<1>6. ~ToVisit(t)
  BY <1>2, <1>3 DEF MembersMade, AllMade
<1>7. Name(t.ref) \in DOMAIN structs
  BY <1>4, <1>6 DEF ToVisit
<1>8. rank[t.ref] < rank[r]
  BY <1>2, <1>4 DEF Ranked
<1>9. QED
  BY <1>3, <1>5, <1>7, <1>8 DEF HasStruct

\* Fewer records are below a lower one, and not all below any.
LEMMA BelowFewer ==
  ASSUME RecordInv, TagsDiffer, FinitelyMany,
         NEW b \in Nat, NEW rank \in [DOMAIN records -> 0 .. b],
         NEW r, HasStruct(r)
  PROVE  /\ Cardinality(Below(rank, r)) \in Nat
         /\ Cardinality(Below(rank, r)) < Cardinality(DOMAIN structs)
         /\ \A q : HasStruct(q) /\ rank[q] < rank[r] =>
              Cardinality(Below(rank, q)) < Cardinality(Below(rank, r))
<1>1. \A q \in DOMAIN records : rank[q] \in Int
  OBVIOUS
<1>2. \A q : HasStruct(q) =>
        /\ q \in DOMAIN records /\ Name(q) \in DOMAIN structs
        /\ Below(rank, q) \subseteq DOMAIN structs /\ Name(q) \notin Below(rank, q)
  <2> SUFFICES ASSUME NEW q, HasStruct(q)
               PROVE  Name(q) \notin Below(rank, q)
    BY DEF HasStruct, Below
  <2>1. q \in DOMAIN records
    BY DEF HasStruct
  <2>2. ASSUME NEW p \in DOMAIN records, Name(p) = Name(q) PROVE ~(rank[p] < rank[q])
    <3>1. p = q
      BY <2>1, <2>2, NameInjective
    <3>2. QED
      BY <1>1, <2>1, <3>1
  <2>3. QED
    BY <2>2 DEF Below
<1>3. ASSUME NEW S, IsFiniteSet(S), NEW T, T \subseteq S, NEW x \in S, x \notin T
      PROVE  Cardinality(T) \in Nat /\ Cardinality(T) < Cardinality(S)
  <2>1. IsFiniteSet(T) /\ Cardinality(T) <= Cardinality(S) /\ (Cardinality(S) = Cardinality(T) => S = T)
    BY <1>3, FS_Subset
  <2>2. Cardinality(S) \in Nat /\ Cardinality(T) \in Nat
    BY <1>3, <2>1, FS_CardinalityType
  <2>3. S # T
    BY <1>3
  <2>4. QED
    BY <2>1, <2>2, <2>3
<1>4. IsFiniteSet(DOMAIN structs)
  BY DEF FinitelyMany
<1>5. Cardinality(Below(rank, r)) \in Nat /\ Cardinality(Below(rank, r)) < Cardinality(DOMAIN structs)
  <2>1. Name(r) \in DOMAIN structs /\ Below(rank, r) \subseteq DOMAIN structs /\ Name(r) \notin Below(rank, r)
    BY <1>2
  <2>2. QED
    BY <1>3, <1>4, <2>1
<1>6. IsFiniteSet(Below(rank, r))
  BY <1>2, <1>4, FS_Subset
<1>7. ASSUME NEW q, HasStruct(q), rank[q] < rank[r]
      PROVE  Cardinality(Below(rank, q)) < Cardinality(Below(rank, r))
  <2>1. q \in DOMAIN records /\ r \in DOMAIN records /\ Name(q) \in DOMAIN structs
    BY <1>2, <1>7
  <2>2. Name(q) \in Below(rank, r)
    BY <1>7, <2>1 DEF Below
  <2>3. Below(rank, q) \subseteq Below(rank, r)
    <3> SUFFICES ASSUME NEW p \in DOMAIN records, rank[p] < rank[q]
                 PROVE  rank[p] < rank[r]
      BY DEF Below
    <3>1. rank[p] \in Int /\ rank[q] \in Int /\ rank[r] \in Int
      BY <1>1, <2>1
    <3>2. QED
      BY <1>7, <3>1
  <2>4. Name(q) \notin Below(rank, q)
    BY <1>2, <1>7
  <2>5. QED
    BY <1>3, <1>6, <2>2, <2>3, <2>4
<1>8. QED
  BY <1>5, <1>7

\* When all is made, every record has the layout that LLVM makes of its struct
\* type: after as many rounds as there are records below it, and one more.
LEMMA InvMakesLayoutsAgree ==
  ASSUME RecordInv, LaidOutInv, StructInv, LlvmInv, "padded" \notin Shapes
  PROVE  LayoutsAgree
<1> SUFFICES ASSUME gen = "done"
             PROVE  \A r : HasStruct(r) => RightLayout(LlvmLayout[Name(r)], r)
  BY DEF LayoutsAgree, HasStruct, RightLayout
<1>1. /\ outcome = "parsed" /\ stack = <<>> /\ TagsDiffer /\ FinitelyMany /\ MembersMade
      /\ UnionsPlain
  BY DEF RecordInv, CodeGenTyped, StructInv, LlvmInv
<1>2. PICK b \in Nat : \E rank \in [DOMAIN records -> 0 .. b] : Ranked(rank)
  BY DEF LlvmInv, Acyclic
<1>3. PICK rank \in [DOMAIN records -> 0 .. b] : Ranked(rank)
  BY <1>2
<1>4. PICK m \in Nat : m = Cardinality(DOMAIN structs)
  BY <1>1, FS_CardinalityType DEF FinitelyMany
<1>5. PICK at : /\ LlvmLayout = at[m]
                /\ \A k \in 1 .. m : \A n \in DOMAIN structs :
                     at[k][n] = StructLayout(Sized(at[k - 1], n))
  BY <1>4, LlvmLayoutIs
<1> DEFINE Late(r, k) == HasStruct(r) /\ Cardinality(Below(rank, r)) < k
           Bad == {k \in 0 .. m : \E r : Late(r, k) /\ ~RightLayout(at[k][Name(r)], r)}
<1>6. ASSUME NEW r, HasStruct(r)
      PROVE  /\ Cardinality(Below(rank, r)) \in Nat /\ Cardinality(Below(rank, r)) < m
             /\ \A q : HasStruct(q) /\ rank[q] < rank[r] =>
                  Cardinality(Below(rank, q)) < Cardinality(Below(rank, r))
  BY <1>1, <1>4, <1>6, BelowFewer
<1>7. Bad = {}
  <2> SUFFICES ASSUME Bad # {} PROVE FALSE
    OBVIOUS
  <2>1. Bad \in SUBSET Nat
    OBVIOUS
  <2>2. PICK k \in Bad : \A j \in Bad : k <= j
    BY <2>1, NatMinimum
  <2>3. k \in 0 .. m /\ \E r : Late(r, k) /\ ~RightLayout(at[k][Name(r)], r)
    OBVIOUS
  <2>4. PICK r : Late(r, k) /\ ~RightLayout(at[k][Name(r)], r)
    BY <2>3
  <2>5. HasStruct(r) /\ Cardinality(Below(rank, r)) \in Nat /\ Cardinality(Below(rank, r)) < k
    BY <1>6, <2>4
  <2>6. k \in 1 .. m /\ k - 1 \in 0 .. m /\ ~(k <= k - 1)
    BY <2>3, <2>5
  <2>7. k - 1 \notin Bad
    BY <2>2, <2>6
  <2>8. r \in DOMAIN records /\ records[r].members # <<>> /\ Name(r) \in DOMAIN structs
    BY <2>5 DEF HasStruct
  <2>9. PICK row : row = at[k - 1]
    OBVIOUS
  <2>10. MembersRight(row, r)
    <3> SUFFICES ASSUME NEW i \in DOMAIN VisitedMembers(r), VisitedMembers(r)[i].kind = "record"
                 PROVE  RightLayout(row[Name(VisitedMembers(r)[i].ref)], VisitedMembers(r)[i].ref)
      BY DEF MembersRight
    <3>1. PICK q : q = VisitedMembers(r)[i].ref
      OBVIOUS
    <3>2. HasStruct(q) /\ rank[q] < rank[r]
      BY <1>1, <1>3, <2>5, <3>1, ContainedBelow
    <3>3. /\ Cardinality(Below(rank, q)) \in Nat
          /\ Cardinality(Below(rank, q)) < Cardinality(Below(rank, r))
      BY <1>6, <2>5, <3>2
    <3>4. PICK c, d : c = Cardinality(Below(rank, q)) /\ d = Cardinality(Below(rank, r))
      OBVIOUS
    <3>5. c < k - 1
      BY <2>3, <2>5, <3>3, <3>4
    <3>6. Late(q, k - 1)
      BY <3>2, <3>4, <3>5
    <3>7. RightLayout(at[k - 1][Name(q)], q)
      BY <2>6, <2>7, <3>6
    <3>8. QED
      BY <2>9, <3>1, <3>7
  <2>11. structs[Name(r)] = BodyOf(r)
    BY <1>1, <2>8 DEF StructInv, StructsRight, Finished, OnStack
  <2>12. RightLayout(StructLayout(Sized(row, Name(r))), r)
    <3>1. CASE records[r].kind = "struct"
      BY <1>1, <2>8, <2>10, <2>11, <3>1, StructAgrees
    <3>2. CASE records[r].kind # "struct"
      <4>1. records[r].kind = "union"
        <5>1. records[r] \in Record
          BY <2>8, ElementOfSeq DEF RecordInv, ParserInv, RecordsTyped
        <5>2. QED
          BY <3>2, <5>1 DEF Record
      <4>2. AlignOf(records, records[r].members[records[r].maxElementIdx]) = records[r].align
        BY <1>1, <2>8, <4>1 DEF UnionsPlain
      <4>3. QED
        BY <1>1, <2>8, <2>10, <2>11, <3>2, <4>2, UnionAgrees
    <3>3. QED
      BY <3>1, <3>2
  <2>13. at[k][Name(r)] = StructLayout(Sized(row, Name(r)))
    BY <1>5, <2>6, <2>8, <2>9
  <2>14. QED
    BY <2>4, <2>12, <2>13
<1>8. ASSUME NEW r, HasStruct(r)
      PROVE  RightLayout(at[m][Name(r)], r)
  <2>1. m \in 0 .. m /\ Late(r, m)
    BY <1>6, <1>8
  <2>2. QED
    BY <1>7, <2>1
<1>9. QED
  BY <1>5, <1>8

-----------------------------------------------------------------------------
(* LLVM's layouts: the steps of CodeGen. *)

\* What was made stays made.
LEMMA MadeStays ==
  ASSUME UNCHANGED parserVars, DOMAIN structs \subseteq DOMAIN structs', NEW r
  PROVE  /\ AllMade(r) => AllMade(r)'
         /\ \A n : MadeBefore(r, n) => MadeBefore(r, n)'
<1>1. PICK ms : ms = VisitedMembers(r) /\ ms = VisitedMembers(r)'
  BY ProgramSame
<1>2. \A t : ~ToVisit(t) => ~ToVisit(t)'
  BY StayVisited
<1>3. ASSUME NEW k \in DOMAIN ms, ~ToVisit(VisitedMembers(r)[k])
      PROVE  ~ToVisit(VisitedMembers(r)[k])'
  <2>1. PICK t : t = ms[k]
    OBVIOUS
  <2>2. ~ToVisit(t)'
    BY <1>1, <1>2, <1>3, <2>1
  <2>3. VisitedMembers(r)'[k] = t
    BY <1>1, <2>1
  <2>4. QED
    BY <2>2, <2>3 DEF ToVisit, Name
<1>4. AllMade(r) => AllMade(r)'
  BY <1>1, <1>3 DEF AllMade
<1>5. ASSUME NEW n, MadeBefore(r, n)
      PROVE  MadeBefore(r, n)'
  BY <1>1, <1>3, <1>5 DEF MadeBefore
<1>6. QED
  BY <1>4, <1>5

\* So MembersMade is kept by a step that finishes only what is made.
LEMMA MembersStep ==
  ASSUME MembersMade, UNCHANGED parserVars, DOMAIN structs \subseteq DOMAIN structs',
         \A r \in DOMAIN records : Finished(r)' => Finished(r) \/ AllMade(r),
         \A i \in DOMAIN stack' : \E r, n :
           stack'[i].rec = r /\ stack'[i].next = n /\ (MadeBefore(r, n) \/ MadeBefore(r, n)')
  PROVE  MembersMade'
<1>1. \A r \in DOMAIN records : Finished(r)' => AllMade(r)'
  BY MadeStays DEF MembersMade
<1>2. records' = records
  BY DEF parserVars
<1>3. ASSUME NEW i \in DOMAIN stack'
      PROVE  MadeBefore(stack[i].rec, stack[i].next)'
  <2>1. PICK r, n : stack'[i].rec = r /\ stack'[i].next = n /\ (MadeBefore(r, n) \/ MadeBefore(r, n)')
    OBVIOUS
  <2>2. MadeBefore(r, n)'
    BY <2>1, MadeStays
  <2>3. QED
    BY <2>1, <2>2 DEF MadeBefore, VisitedMembers
<1>4. QED
  BY <1>1, <1>2, <1>3 DEF MembersMade

\* What CodeGen visits are members; none is before the first.
LEMMA VisitedIndices ==
  ASSUME RecordInv, NEW r \in DOMAIN records
  PROVE  DOMAIN VisitedMembers(r) \subseteq Nat \ {0} /\ MadeBefore(r, 1)
<1>1. records[r].members \in Seq(MemberType(Len(records)))
  BY DEF RecordInv, ParserInv, RecordsTyped, Members
<1>2. DOMAIN VisitedMembers(r) \subseteq Nat \ {0}
  <2>1. CASE records[r].kind = "struct"
    <3>1. VisitedMembers(r) = records[r].members
      BY <2>1 DEF VisitedMembers
    <3>2. QED
      BY <1>1, <3>1
  <2>2. CASE records[r].kind # "struct"
    <3>1. VisitedMembers(r) = <<records[r].members[records[r].maxElementIdx]>>
      BY <2>2 DEF VisitedMembers
    <3>2. QED
      BY <3>1
  <2>3. QED
    BY <2>1, <2>2
<1>3. QED
  BY <1>2 DEF MadeBefore

\* A struct type is created; whoever needs it goes on to the next member.
LEMMA EnterMembers ==
  ASSUME RecordInv, StructInv, MembersMade, FinitelyMany, UNCHANGED parserVars,
         NEW r \in DOMAIN records, Name(r) \notin DOMAIN structs,
         NEW callers \in Seq(VisitFrame), DOMAIN callers = DOMAIN stack,
         \A i \in DOMAIN stack : callers[i].rec = stack[i].rec,
         \A i \in DOMAIN stack : \E q, n :
           callers[i].rec = q /\ callers[i].next = n /\ (MadeBefore(q, n) \/ MadeBefore(q, n)'),
         CreateStruct(Name(r)), stack' = Append(callers, [rec |-> r, next |-> 1])
  PROVE  MembersMade' /\ FinitelyMany'
<1>1. DOMAIN structs' = DOMAIN structs \cup {Name(r)}
  BY DEF CreateStruct
<1> DEFINE f == [rec |-> r, next |-> 1]
<1>2. f \in VisitFrame /\ f.rec = r /\ f.next = 1
  BY ParserTypes DEF VisitFrame
<1>3. stack' = Append(callers, f)
  OBVIOUS
<1> HIDE DEF f
<1>4. /\ DOMAIN stack' = 1 .. Len(callers) + 1 /\ Len(callers) \in Nat
      /\ \A i \in 1 .. Len(callers) : stack'[i] = callers[i]
      /\ stack'[Len(callers) + 1] = f
  BY <1>2, <1>3
<1>5. DOMAIN stack = 1 .. Len(callers)
  OBVIOUS
<1>6. \A i \in DOMAIN stack' : i \in DOMAIN stack \/ i = Len(callers) + 1
  BY <1>4, <1>5
<1>7. \A i \in DOMAIN stack' : \E q, n :
        stack'[i].rec = q /\ stack'[i].next = n /\ (MadeBefore(q, n) \/ MadeBefore(q, n)')
  <2> SUFFICES ASSUME NEW i \in DOMAIN stack'
               PROVE  \E q, n : /\ stack'[i].rec = q /\ stack'[i].next = n
                                /\ (MadeBefore(q, n) \/ MadeBefore(q, n)')
    OBVIOUS
  <2>1. CASE i \in DOMAIN stack
    <3>1. stack'[i] = callers[i]
      BY <1>4, <1>5, <2>1
    <3>2. QED
      BY <2>1, <3>1
  <2>2. CASE i = Len(callers) + 1
    <3>1. stack'[i].rec = r /\ stack'[i].next = 1
      BY <1>2, <1>4, <2>2
    <3>2. MadeBefore(r, 1)
      BY VisitedIndices
    <3>3. QED
      BY <3>1, <3>2
  <2>3. QED
    BY <1>6, <2>1, <2>2
<1>8. ASSUME NEW q \in DOMAIN records, Finished(q)'
      PROVE  Finished(q)
  <2>1. Name(q) \in DOMAIN structs' /\ \A i \in DOMAIN stack' : stack'[i].rec # q
    BY <1>8, ProgramSame DEF Finished, OnStack
  <2>2. Len(callers) + 1 \in DOMAIN stack'
    BY <1>4
  <2>3. q # r
    BY <1>2, <1>4, <2>1, <2>2
  <2>4. Name(q) # Name(r)
    BY <2>3, NameInjective DEF StructInv
  <2>5. \A i \in DOMAIN stack : i \in DOMAIN stack' /\ stack'[i].rec = stack[i].rec
    BY <1>4, <1>5
  <2>6. QED
    BY <1>1, <2>1, <2>4, <2>5 DEF Finished, OnStack
<1>9. MembersMade'
  BY <1>1, <1>7, <1>8, MembersStep
<1>10. FinitelyMany'
  BY <1>1, FS_AddElement DEF FinitelyMany
<1>11. QED
  BY <1>9, <1>10

\* No struct type is created, and no record finished.
LEMMA QuietMembers ==
  ASSUME MembersMade, FinitelyMany, UNCHANGED parserVars, UNCHANGED <<structs, stack>>
  PROVE  MembersMade' /\ FinitelyMany'
<1>1. \A r \in DOMAIN records : Finished(r)' => Finished(r)
  BY ProgramSame DEF Finished, OnStack
<1>2. \A i \in DOMAIN stack' : \E r, n :
        stack'[i].rec = r /\ stack'[i].next = n /\ (MadeBefore(r, n) \/ MadeBefore(r, n)')
  BY DEF MembersMade
<1>3. MembersMade'
  BY <1>1, <1>2, MembersStep
<1>4. QED
  BY <1>3 DEF FinitelyMany

\* The next member: its type has been made, or is made now.
LEMMA VisitMemberMembers ==
  ASSUME RecordInv, StructInv, MembersMade, FinitelyMany, UNCHANGED parserVars, VisitMember
  PROVE  MembersMade' /\ FinitelyMany'
<1> DEFINE top == Len(stack)
           f == Last(stack)
           ms == VisitedMembers(f.rec)
           callers == [stack EXCEPT ![top].next = @ + 1]
<1>1. /\ stack # <<>> /\ f.next <= Len(ms) /\ Visiting
      /\ \/ ToVisit(ms[f.next]) /\ EnterRecord(ms[f.next].ref, callers)
         \/ ~ToVisit(ms[f.next]) /\ stack' = callers /\ UNCHANGED structs
  BY DEF VisitMember
<1>2. /\ callers \in Seq(VisitFrame) /\ DOMAIN callers = DOMAIN stack
      /\ \A i \in DOMAIN stack : callers[i].rec = stack[i].rec
      /\ f \in VisitFrame
  BY <1>1, VisitStackTypes
<1>3. stack \in Seq(VisitFrame) /\ f = stack[top] /\ top \in DOMAIN stack
  BY <1>1, LastType DEF RecordInv, CodeGenTyped
<1>4. f.rec \in DOMAIN records /\ f.next \in Nat
  BY <1>2, ParserTypes DEF VisitFrame
<1>5. callers[top].next = f.next + 1 /\ \A i \in DOMAIN stack : i # top => callers[i] = stack[i]
  <2> DEFINE g == [stack[top] EXCEPT !.next = @ + 1]
  <2>1. g \in VisitFrame /\ g.next = f.next + 1
    BY <1>2, <1>3 DEF VisitFrame
  <2>2. callers = [stack EXCEPT ![top] = g]
    BY <1>3
  <2> HIDE DEF g, callers, top, f
  <2>3. callers[top] = g /\ \A i \in DOMAIN stack : i # top => callers[i] = stack[i]
    BY <1>3, <2>1, <2>2
  <2>4. QED
    BY <2>1, <2>3
<1>6. PICK t \in MemberType(Len(records)) : t = ms[f.next]
  BY <1>1, NextMember DEF RecordInv, CodeGenTyped, Visiting
<1>7. DOMAIN ms \subseteq Nat
  BY <1>4, VisitedIndices
<1>8. MadeBefore(f.rec, f.next)
  BY <1>3 DEF MembersMade
<1> HIDE DEF f, ms, callers, top
<1>9. \A k \in DOMAIN ms : k < f.next + 1 => k < f.next \/ k = f.next
  BY <1>4, <1>7
<1>10. PICK n : n = f.next + 1
  OBVIOUS
<1>11. ASSUME UNCHANGED structs, ~ToVisit(t)
       PROVE  MadeBefore(f.rec, n)
  BY <1>6, <1>8, <1>9, <1>10, <1>11 DEF MadeBefore, ms
<1>12. ASSUME MadeBefore(f.rec, n) \/ (DOMAIN structs \subseteq DOMAIN structs' /\ ~ToVisit(t)'),
              NEW i \in DOMAIN stack
       PROVE  \E q, m : callers[i].rec = q /\ callers[i].next = m /\ (MadeBefore(q, m) \/ MadeBefore(q, m)')
  <2>1. CASE i # top
    BY <1>5, <2>1 DEF MembersMade
  <2>2. CASE i = top
    <3>1. callers[i].rec = f.rec /\ callers[i].next = n
      BY <1>2, <1>3, <1>5, <1>10, <2>2
    <3>2. ASSUME DOMAIN structs \subseteq DOMAIN structs', ~ToVisit(t)'
          PROVE  \E q, m : callers[i].rec = q /\ callers[i].next = m /\ MadeBefore(q, m)'
      <4>1. PICK q : q = f.rec
        OBVIOUS
      <4>2. PICK nx : nx = f.next
        OBVIOUS
      <4>3. MadeBefore(q, nx)'
        <5>1. MadeBefore(q, nx)
          BY <1>8, <4>1, <4>2
        <5>2. QED
          BY <3>2, <5>1, MadeStays
      <4>4. PICK vs : vs = VisitedMembers(q) /\ vs = VisitedMembers(q)'
        BY ProgramSame
      <4>5. ASSUME NEW k \in DOMAIN vs, k < n
            PROVE  ~ToVisit(VisitedMembers(q)[k])'
        <5>1. k < nx \/ k = nx
          BY <1>9, <1>10, <4>1, <4>2, <4>4, <4>5 DEF ms
        <5>2. CASE k < nx
          BY <4>3, <4>4, <5>2 DEF MadeBefore
        <5>3. CASE k = nx
          <6>1. VisitedMembers(q)'[k] = t
            BY <1>6, <4>1, <4>2, <4>4, <5>3 DEF ms
          <6>2. QED
            BY <3>2, <6>1 DEF ToVisit, Name
        <5>4. QED
          BY <5>1, <5>2, <5>3
      <4>6. MadeBefore(q, n)'
        BY <4>4, <4>5 DEF MadeBefore
      <4>7. QED
        BY <3>1, <4>1, <4>6
    <3>3. QED
      BY <1>12, <3>1, <3>2
  <2>3. QED
    BY <2>1, <2>2
<1>13. CASE Crash
  BY <1>13, QuietMembers DEF Crash
<1>14. CASE /\ ToVisit(t) /\ CreateStruct(Name(t.ref))
            /\ stack' = Append(callers, [rec |-> t.ref, next |-> 1])
  <2>1. PICK r \in DOMAIN records : r = t.ref
    BY <1>14, ParserTypes, ToVisitType
  <2>2. /\ Name(r) \notin DOMAIN structs /\ CreateStruct(Name(r))
        /\ stack' = Append(callers, [rec |-> r, next |-> 1])
    BY <1>14, <2>1 DEF ToVisit
  <2>3. DOMAIN structs' = DOMAIN structs \cup {Name(r)}
    BY <2>2 DEF CreateStruct
  <2>4. ~ToVisit(t)'
    <3>1. Name(r)' = Name(r)
      BY ProgramSame
    <3>2. Name(t.ref)' \in DOMAIN structs'
      BY <2>1, <2>3, <3>1
    <3>3. QED
      BY <3>2 DEF ToVisit
  <2>5. \A i \in DOMAIN stack : \E q, m :
          callers[i].rec = q /\ callers[i].next = m /\ (MadeBefore(q, m) \/ MadeBefore(q, m)')
    BY <1>12, <2>3, <2>4
  <2>6. QED
    BY <1>2, <2>2, <2>5, EnterMembers
<1>15. CASE ~ToVisit(t) /\ stack' = callers /\ UNCHANGED structs
  <2>1. \A r \in DOMAIN records : Finished(r)' => Finished(r)
    BY <1>2, <1>15, ProgramSame DEF Finished, OnStack
  <2>2. MadeBefore(f.rec, n)
    BY <1>11, <1>15
  <2>3. \A i \in DOMAIN stack' : \E q, m :
          stack'[i].rec = q /\ stack'[i].next = m /\ (MadeBefore(q, m) \/ MadeBefore(q, m)')
    BY <1>2, <1>12, <1>15, <2>2
  <2>4. MembersMade'
    BY <1>15, <2>1, <2>3, MembersStep
  <2>5. QED
    BY <1>15, <2>4 DEF FinitelyMany
<1>16. QED
  <2>1. \/ ToVisit(t) /\ EnterRecord(t.ref, callers)
        \/ ~ToVisit(t) /\ stack' = callers /\ UNCHANGED structs
    BY <1>1, <1>6 DEF f, ms, callers, top
  <2>2. QED
    BY <1>13, <1>14, <1>15, <2>1 DEF EnterRecord

\* The record on top of the stack is finished: all its members were visited.
LEMMA SetBodyMembers ==
  ASSUME RecordInv, StructInv, MembersMade, FinitelyMany, UNCHANGED parserVars, SetBody
  PROVE  MembersMade' /\ FinitelyMany'
<1> DEFINE f == Last(stack)
           ms == VisitedMembers(f.rec)
<1>1. /\ stack # <<>> /\ f.next > Len(ms) /\ stack' = Front(stack)
      /\ structs' = [structs EXCEPT ![Name(f.rec)] = [k \in DOMAIN ms |-> LlvmType(ms[k])]]
  BY DEF SetBody
<1>2. DOMAIN structs' = DOMAIN structs
  BY <1>1
<1>3. /\ \A i \in DOMAIN stack' : i \in DOMAIN stack /\ stack'[i] = stack[i]
      /\ \A i \in DOMAIN stack : i \in DOMAIN stack' \/ i = Len(stack)
      /\ Len(stack) \in DOMAIN stack /\ f = stack[Len(stack)] /\ f \in VisitFrame
  <2>1. stack \in Seq(VisitFrame)
    BY DEF RecordInv, CodeGenTyped
  <2>2. /\ Len(Front(stack)) = Len(stack) - 1 /\ Front(stack) \in Seq(VisitFrame)
        /\ \A i \in 1 .. Len(stack) - 1 : Front(stack)[i] = stack[i]
    BY <1>1, <2>1, FrontType
  <2>3. f = stack[Len(stack)] /\ f \in VisitFrame
    BY <1>1, <2>1, LastType
  <2>4. Len(stack) \in Nat /\ DOMAIN stack = 1 .. Len(stack) /\ Len(stack) # 0
    BY <1>1, <2>1
  <2> HIDE DEF f
  <2>5. DOMAIN Front(stack) = 1 .. Len(stack) - 1
    BY <2>2
  <2>6. QED
    BY <1>1, <2>2, <2>3, <2>4, <2>5
<1>4. f.rec \in DOMAIN records
  BY <1>3, ParserTypes DEF VisitFrame
<1>5. AllMade(f.rec)
  <2>1. MadeBefore(f.rec, f.next)
    BY <1>3 DEF MembersMade
  <2>2. ms \in Seq(MemberType(Len(records)))
    <3>1. outcome = "parsed"
      BY DEF SetBody, Visiting, RecordInv, CodeGenTyped
    <3>2. QED
      BY <1>1, <1>4, <3>1, ParserTypes, VisitStackTypes, VisitedMembersType
  <2>3. f.next \in Nat
    BY <1>3 DEF VisitFrame
  <2> HIDE DEF f
  <2>4. \A k \in DOMAIN ms : k < f.next
    <3> HIDE DEF ms
    <3>1. QED
      BY <1>1, <2>2, <2>3
  <2>5. QED
    BY <2>1, <2>4 DEF MadeBefore, AllMade
<1> HIDE DEF f
<1>6. ASSUME NEW q \in DOMAIN records, Finished(q)'
      PROVE  Finished(q) \/ AllMade(q)
  <2>1. Name(q) \in DOMAIN structs /\ \A i \in DOMAIN stack' : stack'[i].rec # q
    BY <1>2, <1>6, ProgramSame DEF Finished, OnStack
  <2>2. CASE q = f.rec
    BY <1>5, <2>2
  <2>3. CASE q # f.rec
    BY <1>3, <2>1, <2>3 DEF Finished, OnStack
  <2>4. QED
    BY <2>2, <2>3
<1>7. \A i \in DOMAIN stack' : \E r, n :
        stack'[i].rec = r /\ stack'[i].next = n /\ (MadeBefore(r, n) \/ MadeBefore(r, n)')
  BY <1>3 DEF MembersMade
<1>8. MembersMade'
  BY <1>2, <1>6, <1>7, MembersStep
<1>9. QED
  BY <1>2, <1>8 DEF FinitelyMany

\* Every step of CodeGen.
LEMMA VisitMembersMade ==
  ASSUME RecordInv, LaidOutInv, StructInv, MembersMade, FinitelyMany, Visit
  PROVE  MembersMade' /\ FinitelyMany'
<1>1. UNCHANGED parserVars /\ TypeNext
  BY DEF Visit
<1>2. CASE VisitMember
  BY <1>1, <1>2, VisitMemberMembers
<1>3. CASE SetBody
  BY <1>1, <1>3, SetBodyMembers
<1>4. CASE UNCHANGED <<structs, stack>>
  BY <1>1, <1>4, QuietMembers
<1>5. CASE VisitType
  <2>1. /\ ToVisit(ast[pos].type) /\ EnterRecord(ast[pos].type.ref, <<>>)
        /\ stack = <<>> /\ pos <= Len(ast)
    BY <1>5 DEF VisitType
  <2>2. pos \in DOMAIN ast
    BY <2>1, ParserTypes DEF RecordInv, CodeGenTyped
  <2>3. PICK t \in MemberType(Len(records)) : t = ast[pos].type
    BY <2>2, AllWereKnown DEF WasKnown
  <2>4. PICK r \in DOMAIN records : r = t.ref
    BY <2>1, <2>3, ParserTypes, ToVisitType
  <2>5. Name(r) \notin DOMAIN structs
    BY <2>1, <2>3, <2>4 DEF ToVisit
  <2>6. PICK callers \in Seq(VisitFrame) : callers = <<>>
    <3>1. <<>> \in Seq(VisitFrame)
      OBVIOUS
    <3>2. QED
      BY <3>1, Zenon
  <2>7. DOMAIN callers = DOMAIN stack /\ DOMAIN stack = {}
    BY <2>1, <2>6
  <2>8. CASE CreateStruct(Name(r)) /\ stack' = Append(callers, [rec |-> r, next |-> 1])
    BY <1>1, <2>5, <2>7, <2>8, EnterMembers
  <2>9. QED
    BY <1>4, <2>1, <2>3, <2>4, <2>6, <2>8 DEF EnterRecord, Crash
<1>6. CASE VisitVariableDecl \/ VisitMemberAccess \/ FinishTypes
  BY <1>4, <1>6 DEF VisitVariableDecl, VisitMemberAccess, FinishTypes, Crash
<1>7. QED
  BY <1>1, <1>2, <1>3, <1>5, <1>6 DEF TypeNext

-----------------------------------------------------------------------------
(* LLVM's layouts: every step. *)

\* A record contained by value is one that has its members.
LEMMA ContainedHasMembers ==
  ASSUME RecordInv, NEW t, WasKnown(t), t.kind = "record"
  PROVE  t.ref \in DOMAIN records /\ records[t.ref].members # <<>>
BY ParserTypes DEF WasKnown, SizeKnown, MemberType, Type

\* One record at most gets its members, of other records: it is ranked above all.
LEMMA AcyclicStep ==
  ASSUME RecordInv, LaidOutInv, Acyclic, NEW new, DOMAIN records \subseteq DOMAIN records',
         \A r \in DOMAIN records' : r # new =>
           r \in DOMAIN records /\ records'[r].members = records[r].members,
         new \in DOMAIN records => records[new].members = <<>>,
         \A k \in DOMAIN records'[new].members : records'[new].members[k].kind = "record" =>
           /\ records'[new].members[k].ref \in DOMAIN records
           /\ records'[new].members[k].ref # new
  PROVE  Acyclic'
<1>1. PICK b \in Nat : \E rank \in [DOMAIN records -> 0 .. b] : Ranked(rank)
  BY DEF Acyclic
<1>2. PICK rank \in [DOMAIN records -> 0 .. b] : Ranked(rank)
  BY <1>1
<1> DEFINE above == [r \in DOMAIN records' |-> IF r = new THEN b + 1 ELSE rank[r]]
<1>3. PICK c \in Nat : c = b + 1
  OBVIOUS
<1>4. \A r \in DOMAIN records : rank[r] \in 0 .. b
  OBVIOUS
<1>5. above \in [DOMAIN records' -> 0 .. c]
  BY <1>3, <1>4
<1>6. \A r \in DOMAIN records' : above[r] = IF r = new THEN c ELSE rank[r]
  BY <1>3
<1> HIDE DEF above
<1>7. ASSUME NEW r \in DOMAIN records', NEW k \in DOMAIN records'[r].members,
             records'[r].members[k].kind = "record"
      PROVE  above[records'[r].members[k].ref] < above[r]
  <2>1. PICK t : t = records'[r].members[k]
    OBVIOUS
  <2>2. CASE r = new
    <3>1. t.ref \in DOMAIN records /\ t.ref # new /\ t.ref \in DOMAIN records'
      BY <1>7, <2>1, <2>2
    <3>2. above[t.ref] = rank[t.ref] /\ above[r] = c
      BY <1>6, <2>2, <3>1
    <3>3. rank[t.ref] \in 0 .. b
      BY <1>4, <3>1
    <3>4. QED
      BY <1>3, <2>1, <3>2, <3>3
  <2>3. CASE r # new
    <3>1. r \in DOMAIN records /\ t = records[r].members[k] /\ k \in DOMAIN records[r].members
      BY <2>1, <2>3
    <3>2. WasKnown(t)
      BY <3>1, AllWereKnown
    <3>3. t.ref \in DOMAIN records /\ records[t.ref].members # <<>>
      BY <1>7, <2>1, <3>2, ContainedHasMembers
    <3>4. t.ref # new /\ t.ref \in DOMAIN records'
      BY <3>3
    <3>5. rank[t.ref] < rank[r]
      BY <1>2, <1>7, <2>1, <3>1 DEF Ranked
    <3>6. above[t.ref] = rank[t.ref] /\ above[r] = rank[r]
      BY <1>6, <2>3, <3>4
    <3>7. QED
      BY <2>1, <3>5, <3>6
  <2>4. QED
    BY <2>2, <2>3
<1>8. PICK f \in [DOMAIN records' -> 0 .. c] :
        \A r \in DOMAIN records' : \A k \in DOMAIN records'[r].members :
          records'[r].members[k].kind = "record" => f[records'[r].members[k].ref] < f[r]
  BY <1>5, <1>7
<1>9. QED
  BY <1>8 DEF Acyclic, Ranked

\* No record gets its members.
LEMMA AcyclicSame ==
  ASSUME Acyclic, DOMAIN records' = DOMAIN records,
         \A r \in DOMAIN records : records'[r].members = records[r].members
  PROVE  Acyclic'
<1>1. PICK b \in Nat : \E rank \in [DOMAIN records -> 0 .. b] : Ranked(rank)
  BY DEF Acyclic
<1>2. PICK rank \in [DOMAIN records -> 0 .. b] : Ranked(rank)
  BY <1>1
<1>3. \A r \in DOMAIN records' : \A k \in DOMAIN records'[r].members :
        records'[r].members[k].kind = "record" => rank[records'[r].members[k].ref] < rank[r]
  BY <1>2 DEF Ranked
<1>4. rank \in [DOMAIN records' -> 0 .. b]
  OBVIOUS
<1>5. QED
  BY <1>3, <1>4 DEF Acyclic, Ranked

\* A record is made, without members.
LEMMA AcyclicMade ==
  ASSUME RecordInv, LaidOutInv, Acyclic, AtDeclarator,
         NEW tag \in Tags \cup {Brace}, NEW kind \in {"struct", "union"},
         records' = Append(records, NewRecord(tag, kind)), UNCHANGED layout
  PROVE  Acyclic'
<1>1. PICK new : new = Len(records) + 1
  OBVIOUS
<1>2. /\ \A r \in DOMAIN records : records'[r] = records[r]
      /\ records'[new].members = <<>>
      /\ DOMAIN records' = 1 .. Len(records) + 1
  BY <1>1, RecordMade DEF AtDeclarator
<1>3. DOMAIN records = 1 .. Len(records) /\ Len(records) \in Nat
  BY ParserTypes
<1>4. new \notin DOMAIN records /\ DOMAIN records \subseteq DOMAIN records'
  BY <1>1, <1>2, <1>3
<1>5. \A r \in DOMAIN records' : r # new => r \in DOMAIN records /\ records'[r].members = records[r].members
  BY <1>1, <1>2, <1>3
<1>6. \A k \in DOMAIN records'[new].members : FALSE
  BY <1>2
<1>7. QED
  BY <1>4, <1>5, <1>6, AcyclicStep

\* The record whose body ends contains only records that are complete.
LEMMA AcyclicCloseBody ==
  ASSUME RecordInv, LaidOutInv, Acyclic, CloseBody
  PROVE  Acyclic'
<1>1. PICK b : b = Top.body
  OBVIOUS
<1>2. PICK l : l = Len(frames)
  OBVIOUS
<1>3. /\ AtDeclarator /\ b # 0
      /\ records' = [records EXCEPT ![b].members = Top.members]
  BY <1>1 DEF CloseBody, AtDeclaration, InBlock
<1>4. Top = frames[l] /\ l \in DOMAIN frames /\ Top \in Frame(Len(records))
  BY <1>2, <1>3, AtDeclaratorFacts, ParserTypes
<1>5. b \in DOMAIN records
  BY <1>1, <1>3, <1>4, ParserTypes DEF Frame
<1>6. records[b].members = <<>>
  BY <1>1, <1>3, <1>4 DEF LaidOutInv, BodiesOpenOnce
<1>7. /\ DOMAIN records' = DOMAIN records
      /\ \A r \in DOMAIN records : r # b => records'[r] = records[r]
      /\ records'[b] = [records[b] EXCEPT !.members = Top.members]
  BY <1>3, <1>5
<1>8. records'[b].members = frames[l].members
  <2>1. records[b] \in Record
    BY <1>5, ElementOfSeq DEF RecordInv, ParserInv, RecordsTyped
  <2>2. QED
    BY <1>4, <1>7, <2>1 DEF Record
<1>9. ASSUME NEW k \in DOMAIN records'[b].members, records'[b].members[k].kind = "record"
      PROVE  records'[b].members[k].ref \in DOMAIN records /\ records'[b].members[k].ref # b
  <2>1. PICK t : t = frames[l].members[k] /\ t = records'[b].members[k]
    BY <1>8
  <2>2. WasKnown(t)
    BY <1>4, <1>8, <2>1, AllWereKnown
  <2>3. t.ref \in DOMAIN records /\ records[t.ref].members # <<>>
    BY <1>9, <2>1, <2>2, ContainedHasMembers
  <2>4. QED
    BY <1>6, <2>1, <2>3
<1>10. QED
  BY ZenonT(60), <1>6, <1>7, <1>9, AcyclicStep

\* No step makes a record contain itself.
LEMMA NextAcyclic ==
  ASSUME RecordInv, LaidOutInv, Acyclic, [Next]_vars
  PROVE  Acyclic'
<1>1. CASE UNCHANGED records
  BY <1>1, AcyclicSame
<1>2. CASE ParserNext
  <2>1. ASSUME NEW kind \in {"struct", "union"}, NEW t \in Tags, TagSpec(t, kind)
        PROVE  Acyclic'
    <3>1. AtDeclarator /\ UNCHANGED layout
      BY <2>1 DEF TagSpec, AtDeclaration
    <3>2. CASE records' = Append(records, NewRecord(t, kind))
      BY <3>1, <3>2, AcyclicMade
    <3>3. QED
      BY <1>1, <2>1, <3>2 DEF TagSpec
  <2>2. ASSUME NEW kind \in {"struct", "union"}, AnonymousSpec(kind)
        PROVE  Acyclic'
    <3>1. AtDeclarator
      BY <2>2 DEF AnonymousSpec, AtDeclaration
    <3>2. CASE records' = Append(records, NewRecord(Brace, kind)) /\ UNCHANGED layout
      BY <3>1, <3>2, AcyclicMade
    <3>3. QED
      BY <1>1, <2>2, <3>2 DEF AnonymousSpec, Report
  <2>3. CASE CloseBody
    BY <2>3, AcyclicCloseBody
  <2>4. CASE FinishLayout
    <3>1. Len(records') = Len(records) /\ records' \in Seq(Record)
          /\ \A i \in DOMAIN records : records'[i].members = records[i].members
      BY <2>4, FinishLayoutRecords
    <3>2. DOMAIN records' = DOMAIN records
      BY <3>1, ParserTypes
    <3>3. QED
      BY <3>1, <3>2, AcyclicSame
  <2>5. CASE OpenBody \/ LayoutMember \/ DeclarePointer \/ DeclareObject \/ NoDeclarator
             \/ OpenBlock \/ CloseBlock \/ EndFunction
    BY <1>1, <2>5 DEF OpenBody, LayoutMember, DeclarePointer, DeclareObject, Declare, NoDeclarator,
                      OpenBlock, CloseBlock, EndFunction
  <2>6. ASSUME NEW p \in Prims, DeclarePrim(p)
        PROVE  Acyclic'
    BY <1>1, <2>6 DEF DeclarePrim, Declare
  <2>7. ASSUME NEW v \in VisibleVars, NEW k \in 1 .. MaxMembers, Access(v, k)
        PROVE  Acyclic'
    BY <1>1, <2>7 DEF Access, Report
  <2>8. QED
    BY <1>2, <2>1, <2>2, <2>3, <2>4, <2>5, <2>6, <2>7 DEF ParserNext
<1>3. QED
  BY <1>1, <1>2 DEF Next, Parse, Translate, Visit, Terminated, vars, parserVars

\* A program that is translated has no union of the shape left out.
LEMMA NextUnionsPlain ==
  ASSUME RecordInv, UnionsPlain, [Next]_vars
  PROVE  UnionsPlain'
<1>1. CASE UNCHANGED records /\ gen # "idle"
  BY <1>1 DEF UnionsPlain, AlignOf
<1>2. CASE gen' = "idle"
  BY <1>2 DEF UnionsPlain
<1>3. CASE Parse
  BY <1>2, <1>3, ParserBefore DEF Parse, typeVars
<1>4. CASE Translate
  <2>1. ToTranslate /\ gen' = "visiting" /\ UNCHANGED records
    BY <1>4 DEF Translate, parserVars
  <2>2. ASSUME "padded" \notin Shapes,
               NEW r \in DOMAIN records, records[r].kind = "union", records[r].members # <<>>
        PROVE  AlignOf(records, records[r].members[records[r].maxElementIdx]) = records[r].align
    <3>1. UnionShapes(records[r]) \subseteq Shapes
      BY <2>1, <2>2 DEF ToTranslate
    <3>2. PICK u : u = records[r]
      OBVIOUS
    <3>3. {s \in {"padded"} : u.members # <<>>
                              /\ AlignOf(records, u.members[u.maxElementIdx]) # u.align} \subseteq Shapes
      BY <3>1, <3>2 DEF UnionShapes
    <3>4. QED
      BY <2>2, <3>2, <3>3
  <2>3. QED
    BY <2>1, <2>2 DEF UnionsPlain, AlignOf
<1>5. CASE Visit
  <2>1. UNCHANGED records /\ TypeNext
    BY <1>5 DEF Visit, parserVars
  <2>2. gen = "visiting"
    BY <2>1 DEF TypeNext, VisitMember, SetBody, VisitType, VisitVariableDecl, VisitMemberAccess,
                FinishTypes, AtNode, Visiting
  <2>3. QED
    BY <1>1, <2>1, <2>2
<1>6. CASE UNCHANGED vars
  <2>1. UNCHANGED records /\ gen' = gen
    BY <1>6 DEF vars, parserVars, typeVars
  <2>2. QED
    BY <1>1, <1>2, <2>1
<1>7. QED
  BY <1>3, <1>4, <1>5, <1>6 DEF Next, Terminated

\* The invariant is kept,
LEMMA NextLlvm ==
  ASSUME RecordInv, LaidOutInv, StructInv, LlvmInv, [Next]_vars
  PROVE  LlvmInv'
<1>1. MembersMade' /\ FinitelyMany'
  <2>1. CASE Parse
    <3>1. stack = <<>> /\ gen = "idle" /\ structs = <<>>
      BY <2>1, ParserBefore DEF Parse, StructInv
    <3>2. stack' = <<>> /\ structs' = <<>>
      BY <2>1, <3>1 DEF Parse, typeVars
    <3>3. DOMAIN structs' = {} /\ DOMAIN stack' = {}
      BY <3>2
    <3>4. MembersMade'
      BY <3>3 DEF MembersMade, Finished
    <3>5. FinitelyMany'
      BY <3>3, FS_EmptySet DEF FinitelyMany
    <3>6. QED
      BY <3>4, <3>5
  <2>2. CASE UNCHANGED parserVars /\ UNCHANGED <<structs, stack>>
    BY <2>2, QuietMembers DEF LlvmInv
  <2>3. CASE Visit
    BY <2>3, VisitMembersMade DEF LlvmInv
  <2>4. QED
    BY <2>1, <2>2, <2>3 DEF Next, Translate, Terminated, vars, typeVars
<1>2. Acyclic' /\ UnionsPlain'
  BY NextAcyclic, NextUnionsPlain DEF LlvmInv
<1>3. QED
  BY <1>1, <1>2 DEF LlvmInv

\* and holds at first.
LEMMA InitLlvm == Init => LlvmInv
<1> SUFFICES ASSUME Init PROVE LlvmInv
  OBVIOUS
<1>1. records = <<>> /\ structs = <<>> /\ stack = <<>> /\ gen = "idle"
  BY DEF Init, ParserInit, TypeInit
<1>2. DOMAIN structs = {} /\ DOMAIN stack = {} /\ DOMAIN records = {}
  BY <1>1
<1>3. MembersMade /\ UnionsPlain
  BY <1>1, <1>2 DEF MembersMade, Finished, UnionsPlain
<1>4. FinitelyMany
  BY <1>2, FS_EmptySet DEF FinitelyMany
<1>5. Acyclic
  <2>1. PICK rank : rank = [r \in DOMAIN records |-> 0]
    OBVIOUS
  <2>2. rank \in [DOMAIN records -> 0 .. 0] /\ Ranked(rank)
    BY <1>2, <2>1 DEF Ranked
  <2>3. QED
    BY <2>2 DEF Acyclic
<1>6. QED
  BY <1>3, <1>4, <1>5 DEF LlvmInv

\* sizeof, the alignment of variables and the offsets of members, which CodeGen
\* takes from the CRecordType, are those of the struct type that it has made of
\* it, for all records however nested; but for unions whose largest member is
\* not the most aligned (type.cc:69-133, codegen.cc:1118-1155).
THEOREM LayoutsAgreeWithLlvm ==
  ASSUME SizesKnown, OneRecordPerTag, "padded" \notin Shapes
  PROVE  Spec => []LayoutsAgree
<1>1. Init => LlvmInv
  BY InitLlvm
<1>2. RecordInv /\ LaidOutInv /\ StructInv /\ LlvmInv /\ [Next]_vars => LlvmInv'
  BY NextLlvm
<1>3. RecordInv /\ LaidOutInv /\ StructInv /\ LlvmInv => LayoutsAgree
  BY InvMakesLayoutsAgree
<1>4. QED
  BY <1>1, <1>2, <1>3, StructInvHolds, PTL DEF Spec

-----------------------------------------------------------------------------
(* Tags: the records that mentions are given, and those that C gives them. *)

\* A mention of a tag that made its record.
Makes(k) == \A i \in 1 .. k - 1 : mentions[i].rec # mentions[k].rec

\* A specifier with a tag, when there are n records and m frames were opened.
MentionType(n, m) ==
    [tag : Tags, rec : 1 .. n, declares : BOOLEAN, blocks : SUBSET (0 .. m), around : SUBSET (0 .. m)]

\* The mentions so far are mentions of records that exist, in blocks that were opened.
MentionsTyped == mentions \in Seq(MentionType(Len(records), opened))

\* The blocks around the i-th frame, it included.
BlocksTo(i) == {frames[k].id : k \in {j \in 1 .. i : frames[j].body = 0}}

\* The record that the scope of the i-th frame has for a tag.
Entry(i, t) == envs[i + 2][t]

\* Frames have different numbers.
FramesDiffer ==
    /\ \A i \in DOMAIN frames : frames[i].id \in 0 .. opened
    /\ \A i, j \in DOMAIN frames : frames[i].id = frames[j].id => i = j

\* No tag is in the scopes of the file and the parameters,
NoOuterTags == \A t \in Tags : envs[1][t] = 0 /\ envs[2][t] = 0

\* one that is in a scope is in no other,
OneEntry ==
    \A t \in Tags : \A i, j \in DOMAIN frames : Entry(i, t) # 0 /\ Entry(j, t) # 0 => i = j

\* was entered by a mention whose blocks are still open,
EntriesMade ==
    \A t \in Tags : \A i \in DOMAIN frames : Entry(i, t) # 0 =>
      \E k \in DOMAIN mentions :
        /\ Makes(k) /\ mentions[k].tag = t /\ mentions[k].rec = Entry(i, t)
        /\ mentions[k].blocks \subseteq BlocksTo(i)

\* and is there as long as what was around that mention is.
MadeEntered ==
    \A k \in DOMAIN mentions : Makes(k) /\ mentions[k].around \subseteq Ids(frames) =>
      \E i \in DOMAIN frames :
        Entry(i, mentions[k].tag) = mentions[k].rec /\ frames[i].id \in mentions[k].around

\* The last mention, which may turn out to be a declaration.
LastPending ==
    spec.rec # 0 /\ ~spec.closed => mentions # <<>> /\ Last(mentions).blocks = BlockIds

\* What the scopes have to do with the mentions, while they exist.
ScopesName ==
    outcome = "parsing" =>
      FramesDiffer /\ NoOuterTags /\ OneEntry /\ EntriesMade /\ MadeEntered /\ LastPending

\* The mentions that made a record of the tag of mention j and are visible there.
Candidates(j) ==
    {i \in 1 .. j - 1 : /\ Makes(i) /\ mentions[i].tag = mentions[j].tag
                        /\ mentions[i].blocks \subseteq mentions[j].blocks}

\* A mention makes a record if none is visible, and else is given the only one.
RightlyGiven(j) ==
    /\ Makes(j) => Candidates(j) = {}
    /\ ~Makes(j) => \E k \in 1 .. j - 1 : Candidates(j) = {k} /\ mentions[k].rec = mentions[j].rec
    /\ mentions[j].declares => \A i \in Candidates(j) : mentions[i].blocks = mentions[j].blocks

\* The program has neither shape in which the compiler departs from C.
TagsPlain == shapes \cap {"innerTag", "bodyTag"} = {}

\* A program without these shapes gives every mention the record that C gives it.
TagsGiven == TagsPlain => \A j \in DOMAIN mentions : RightlyGiven(j)

\* The invariant of tags.
TagInv == MentionsTyped /\ ScopesName /\ TagsGiven

\* What the types say.
LEMMA MentionTypes ==
  ASSUME RecordInv, MentionsTyped
  PROVE  /\ Len(mentions) \in Nat /\ DOMAIN mentions = 1 .. Len(mentions) /\ opened \in Nat
         /\ Len(records) \in Nat /\ Len(frames) \in Nat /\ DOMAIN frames = 1 .. Len(frames)
         /\ \A k \in DOMAIN mentions :
              /\ mentions[k].tag \in Tags /\ mentions[k].rec \in 1 .. Len(records)
              /\ mentions[k].blocks \subseteq 0 .. opened /\ mentions[k].around \subseteq 0 .. opened
<1>1. mentions \in Seq(MentionType(Len(records), opened))
  BY DEF MentionsTyped
<1>2. \A k \in DOMAIN mentions : mentions[k] \in MentionType(Len(records), opened)
  BY <1>1
<1>3. opened \in Nat
  BY DEF RecordInv, ParserInv, StateTyped
<1>4. \A k \in DOMAIN mentions :
        /\ mentions[k].tag \in Tags /\ mentions[k].rec \in 1 .. Len(records)
        /\ mentions[k].blocks \subseteq 0 .. opened /\ mentions[k].around \subseteq 0 .. opened
  BY <1>2 DEF MentionType
<1>5. Len(mentions) \in Nat /\ DOMAIN mentions = 1 .. Len(mentions)
  BY <1>1
<1>6. QED
  BY <1>3, <1>4, <1>5, ParserTypes

\* Two mentions that made the same record are one.
LEMMA OneMaker ==
  ASSUME RecordInv, MentionsTyped, NEW i \in DOMAIN mentions, NEW j \in DOMAIN mentions,
         Makes(i), Makes(j), mentions[i].rec = mentions[j].rec
  PROVE  i = j
<1>1. i \in Nat /\ j \in Nat /\ i >= 1 /\ j >= 1
  BY MentionTypes
<1>2. ~(i < j)
  <2>1. i < j => i \in 1 .. j - 1
    BY <1>1
  <2>2. QED
    BY <2>1 DEF Makes
<1>3. ~(j < i)
  <2>1. j < i => j \in 1 .. i - 1
    BY <1>1
  <2>2. QED
    BY <2>1 DEF Makes
<1>4. QED
  BY <1>1, <1>2, <1>3

-----------------------------------------------------------------------------
(* Tags: what C says, by the rule of RightlyGiven. *)

\* The declaration of mention j, if d has those of the mentions before.
Answer(d, j) ==
    LET m == mentions[j]
        visible == {i \in 1 .. j - 1 : /\ d[i] = i /\ mentions[i].tag = m.tag
                                       /\ mentions[i].blocks \subseteq m.blocks}
        own == {i \in visible : mentions[i].blocks = m.blocks}
        found == IF m.declares THEN own ELSE visible
    IN  IF found = {} THEN j ELSE Max(found)

\* The mentions before j are answered by those that made their records.
AnsweredBefore(d, j) == \A i \in 1 .. j - 1 : d[i] = i <=> Makes(i)

\* Then the answer for j is the mention that made its record.
LEMMA AnswerIs ==
  ASSUME RecordInv, MentionsTyped, NEW j \in DOMAIN mentions, RightlyGiven(j),
         NEW d, AnsweredBefore(d, j)
  PROVE  /\ Makes(j) => Answer(d, j) = j
         /\ ~Makes(j) => /\ Answer(d, j) \in 1 .. j - 1 /\ Makes(Answer(d, j))
                         /\ mentions[Answer(d, j)].rec = mentions[j].rec
<1> DEFINE visible == {i \in 1 .. j - 1 : /\ d[i] = i /\ mentions[i].tag = mentions[j].tag
                                          /\ mentions[i].blocks \subseteq mentions[j].blocks}
           own == {i \in visible : mentions[i].blocks = mentions[j].blocks}
           found == IF mentions[j].declares THEN own ELSE visible
<1>1. visible = Candidates(j)
  BY DEF Candidates, AnsweredBefore
<1>2. found = Candidates(j)
  BY <1>1 DEF RightlyGiven
<1>3. Answer(d, j) = IF Candidates(j) = {} THEN j ELSE Max(Candidates(j))
  BY <1>2 DEF Answer
<1>4. CASE Makes(j)
  BY <1>3, <1>4 DEF RightlyGiven
<1>5. CASE ~Makes(j)
  <2>1. PICK k \in 1 .. j - 1 : Candidates(j) = {k} /\ mentions[k].rec = mentions[j].rec
    BY <1>5 DEF RightlyGiven
  <2>2. j \in Nat
    BY MentionTypes
  <2>3. Max({k}) = k
    <3>1. k \in {k} /\ {k} \subseteq Int /\ \A y \in {k} : y <= k
      BY <2>2
    <3>2. QED
      BY <3>1, MaxIs
  <2>4. Answer(d, j) = k
    BY <1>3, <2>1, <2>3
  <2>5. k \in Candidates(j)
    BY <2>1
  <2>6. Makes(k)
    BY <2>5 DEF Candidates
  <2>7. QED
    BY <1>5, <2>1, <2>4, <2>6
<1>6. QED
  BY <1>4, <1>5

\* The declarations, as a function, satisfy the equation that defines them.
LEMMA DeclarationsExist ==
  ASSUME RecordInv, MentionsTyped, \A j \in DOMAIN mentions : RightlyGiven(j)
  PROVE  DeclarationOf = [j \in DOMAIN mentions |-> Answer(DeclarationOf, j)]
<1> DEFINE maker(j) == IF Makes(j) THEN j
                       ELSE CHOOSE k \in 1 .. j - 1 : Candidates(j) = {k} /\ mentions[k].rec = mentions[j].rec
           d == [j \in DOMAIN mentions |-> maker(j)]
<1>1. ASSUME NEW j \in DOMAIN mentions
      PROVE  d[j] = Answer(d, j) /\ (d[j] = j <=> Makes(j))
  <2>1. \A i \in DOMAIN mentions : d[i] = i <=> Makes(i)
    <3> SUFFICES ASSUME NEW i \in DOMAIN mentions, ~Makes(i)
                 PROVE  d[i] # i
      OBVIOUS
    <3>1. \E k \in 1 .. i - 1 : Candidates(i) = {k} /\ mentions[k].rec = mentions[i].rec
      BY DEF RightlyGiven
    <3>2. d[i] \in 1 .. i - 1
      BY <3>1
    <3>3. i \in Nat
      BY MentionTypes
    <3> HIDE DEF d
    <3>4. QED
      BY <3>2, <3>3
  <2>2. AnsweredBefore(d, j)
    <3>1. \A i \in 1 .. j - 1 : i \in DOMAIN mentions
      BY MentionTypes
    <3>2. QED
      BY <2>1, <3>1 DEF AnsweredBefore
  <2>3. CASE Makes(j)
    <3>1. Answer(d, j) = j
      BY <2>2, <2>3, AnswerIs
    <3>2. QED
      BY <2>1, <2>3, <3>1
  <2>4. CASE ~Makes(j)
    <3>1. \E k \in 1 .. j - 1 : Candidates(j) = {k} /\ mentions[k].rec = mentions[j].rec
      BY <2>4 DEF RightlyGiven
    <3>2. Candidates(j) = {d[j]} /\ mentions[d[j]].rec = mentions[j].rec /\ d[j] \in 1 .. j - 1
      BY <2>4, <3>1
    <3>3. /\ Answer(d, j) \in 1 .. j - 1 /\ Makes(Answer(d, j))
          /\ mentions[Answer(d, j)].rec = mentions[j].rec
      BY <2>2, <2>4, AnswerIs
    <3>4. d[j] \in DOMAIN mentions /\ Answer(d, j) \in DOMAIN mentions
      BY <3>2, <3>3, MentionTypes
    <3>5. Makes(d[j])
      BY <3>2 DEF Candidates
    <3>6. mentions[d[j]].rec = mentions[Answer(d, j)].rec
      BY <3>2, <3>3
    <3> HIDE DEF d
    <3>7. d[j] = Answer(d, j)
      BY <3>3, <3>4, <3>5, <3>6, OneMaker
    <3>8. QED
      BY <2>1, <3>7
  <2>5. QED
    BY <2>3, <2>4
<1>2. d = [j \in DOMAIN mentions |-> Answer(d, j)]
  BY <1>1
<1>3. \E f : f = [j \in DOMAIN mentions |-> Answer(f, j)]
  BY <1>2
<1>4. DeclarationOf = CHOOSE f : f = [j \in DOMAIN mentions |-> Answer(f, j)]
  BY DEF DeclarationOf, Answer
<1>5. QED
  BY <1>3, <1>4

\* C's declaration of a mention is the mention that made its record.
LEMMA DeclarationIsMaker ==
  ASSUME RecordInv, MentionsTyped, \A j \in DOMAIN mentions : RightlyGiven(j)
  PROVE  \A j \in DOMAIN mentions :
           /\ DeclarationOf[j] \in DOMAIN mentions /\ Makes(DeclarationOf[j])
           /\ mentions[DeclarationOf[j]].rec = mentions[j].rec
<1> DEFINE d == DeclarationOf
           Good(j) == d[j] \in DOMAIN mentions /\ Makes(d[j]) /\ mentions[d[j]].rec = mentions[j].rec
                      /\ (d[j] = j <=> Makes(j))
           bad == {j \in DOMAIN mentions : ~Good(j)}
<1>0. \A j \in DOMAIN mentions : d[j] = Answer(d, j)
  BY DeclarationsExist
<1> HIDE DEF d
<1>1. SUFFICES ASSUME bad # {} PROVE FALSE
  BY DEF d
<1>2. bad \in SUBSET Nat
  BY MentionTypes
<1>3. PICK j \in bad : \A y \in bad : j <= y
  <2> HIDE DEF bad
  <2>1. QED
    BY <1>1, <1>2, NatMinimum
<1>4. j \in DOMAIN mentions /\ ~Good(j) /\ j \in Nat /\ j >= 1 /\ j <= Len(mentions) /\ Len(mentions) \in Nat
  BY <1>3, MentionTypes
<1>5. \A i \in 1 .. j - 1 : i \in DOMAIN mentions
  BY <1>4, MentionTypes
<1>6. \A i \in 1 .. j - 1 : i \notin bad
  <2> HIDE DEF bad
  <2>1. QED
    BY <1>3, <1>4
<1>7. AnsweredBefore(d, j)
  BY <1>5, <1>6 DEF AnsweredBefore
<1>8. d[j] = Answer(d, j)
  BY <1>0, <1>4
<1>9. /\ Makes(j) => d[j] = j
      /\ ~Makes(j) => d[j] \in 1 .. j - 1 /\ Makes(d[j]) /\ mentions[d[j]].rec = mentions[j].rec
  BY <1>4, <1>7, <1>8, AnswerIs
<1>10. Good(j)
  <2>1. CASE Makes(j)
    BY <1>4, <1>9, <2>1
  <2>2. CASE ~Makes(j)
    <3>1. d[j] \in DOMAIN mentions /\ d[j] # j
      BY <1>4, <1>5, <1>9, <2>2
    <3>2. QED
      BY <1>9, <2>2, <3>1
  <2>3. QED
    BY <2>1, <2>2
<1>11. QED
  BY <1>4, <1>10

\* Mentions that were given rightly are given the same record exactly if they
\* name the same type.
LEMMA GivenMeansNamed ==
  ASSUME RecordInv, TagInv
  PROVE  TagsNameTypes
<1> SUFFICES ASSUME TagsPlain, NEW i \in DOMAIN mentions, NEW j \in DOMAIN mentions
             PROVE  mentions[i].rec = mentions[j].rec <=> DeclarationOf[i] = DeclarationOf[j]
  BY DEF TagsNameTypes, TagsPlain
<1>1. MentionsTyped /\ \A k \in DOMAIN mentions : RightlyGiven(k)
  BY DEF TagInv, TagsGiven
<1>2. /\ DeclarationOf[i] \in DOMAIN mentions /\ Makes(DeclarationOf[i])
      /\ mentions[DeclarationOf[i]].rec = mentions[i].rec
      /\ DeclarationOf[j] \in DOMAIN mentions /\ Makes(DeclarationOf[j])
      /\ mentions[DeclarationOf[j]].rec = mentions[j].rec
  BY <1>1, DeclarationIsMaker
<1>3. ASSUME mentions[i].rec = mentions[j].rec
      PROVE  DeclarationOf[i] = DeclarationOf[j]
  <2> DEFINE p == DeclarationOf[i]
             q == DeclarationOf[j]
  <2>1. p \in DOMAIN mentions /\ q \in DOMAIN mentions /\ Makes(p) /\ Makes(q)
        /\ mentions[p].rec = mentions[q].rec
    BY <1>2, <1>3
  <2> HIDE DEF p, q
  <2>2. p = q
    BY <1>1, <2>1, OneMaker
  <2>3. QED
    BY <2>2 DEF p, q
<1>4. QED
  BY <1>2, <1>3

-----------------------------------------------------------------------------
(* Tags: steps that make no mention. *)

\* Only what a mention declares changes.
SameMentions ==
    /\ DOMAIN mentions' = DOMAIN mentions
    /\ \A k \in DOMAIN mentions :
         /\ mentions'[k].tag = mentions[k].tag /\ mentions'[k].rec = mentions[k].rec
         /\ mentions'[k].blocks = mentions[k].blocks /\ mentions'[k].around = mentions[k].around

\* Who made the records does not change then.
LEMMA SameMakers ==
  ASSUME RecordInv, MentionsTyped, SameMentions
  PROVE  \A k \in DOMAIN mentions : (Makes(k)' <=> Makes(k)) /\ Candidates(k)' = Candidates(k)
<1>1. \A k \in DOMAIN mentions : \A i \in 1 .. k - 1 : i \in DOMAIN mentions
  BY MentionTypes
<1>2. \A k \in DOMAIN mentions : Makes(k)' <=> Makes(k)
  BY <1>1 DEF Makes, SameMentions
<1>3. \A k \in DOMAIN mentions : Candidates(k)' = Candidates(k)
  BY <1>1, <1>2 DEF Candidates, SameMentions
<1>4. QED
  BY <1>2, <1>3

\* A mention that declares its tag must have found it in its own block.
LEMMA TagsGivenSame ==
  ASSUME RecordInv, MentionsTyped, SameMentions, TagsGiven, TagsPlain' => TagsPlain,
         TagsPlain' => \A j \in DOMAIN mentions : mentions'[j].declares /\ ~mentions[j].declares =>
                         \A i \in Candidates(j) : mentions[i].blocks = mentions[j].blocks
  PROVE  TagsGiven'
<1> SUFFICES ASSUME TagsPlain', NEW j \in DOMAIN mentions'
             PROVE  RightlyGiven(j)'
  BY DEF TagsGiven
<1>1. j \in DOMAIN mentions /\ RightlyGiven(j)
  BY DEF TagsGiven, SameMentions
<1>2. \A i \in 1 .. j - 1 : i \in DOMAIN mentions
  BY <1>1, MentionTypes
<1>3. (Makes(j)' <=> Makes(j)) /\ Candidates(j)' = Candidates(j)
  BY <1>1, SameMakers
<1>4. Candidates(j) \subseteq 1 .. j - 1
  BY DEF Candidates
<1>5. Makes(j)' => Candidates(j)' = {}
  BY <1>1, <1>3 DEF RightlyGiven
<1>6. ASSUME ~Makes(j)'
      PROVE  \E k \in 1 .. j - 1 : Candidates(j)' = {k} /\ mentions'[k].rec = mentions'[j].rec
  <2>1. PICK k \in 1 .. j - 1 : Candidates(j) = {k} /\ mentions[k].rec = mentions[j].rec
    BY <1>1, <1>3, <1>6 DEF RightlyGiven
  <2>2. QED
    BY <1>1, <1>2, <1>3, <2>1 DEF SameMentions
<1>7. ASSUME mentions'[j].declares, NEW i \in Candidates(j)'
      PROVE  mentions'[i].blocks = mentions'[j].blocks
  <2>1. mentions[i].blocks = mentions[j].blocks
    BY <1>1, <1>3, <1>7 DEF RightlyGiven
  <2>2. i \in DOMAIN mentions
    BY <1>2, <1>3, <1>4, <1>7
  <2>3. QED
    BY <1>1, <2>1, <2>2 DEF SameMentions
<1>8. QED
  BY <1>5, <1>6, <1>7 DEF RightlyGiven

\* The first m frames keep their numbers and their tags.
FramesKept(m) ==
    /\ m \in 0 .. Len(frames)
    /\ \A i \in 1 .. m :
         /\ frames'[i].id = frames[i].id /\ frames'[i].body = frames[i].body
         /\ \A t \in Tags : Entry(i, t)' = Entry(i, t)

\* There may be one more frame, without tags.
FrameAdded(m) ==
    \A i \in DOMAIN frames' : i \notin 1 .. m =>
      /\ i = m + 1 /\ frames'[i].id = opened + 1 /\ opened' = opened + 1
      /\ \A t \in Tags : Entry(i, t)' = 0

\* Frames are opened and closed, and the scopes with them.
LEMMA ScopesStep ==
  ASSUME RecordInv, TagInv, outcome = "parsing", SameMentions, NEW m, FramesKept(m), FrameAdded(m),
         1 .. m \subseteq DOMAIN frames', opened' \in Nat, opened <= opened', NoOuterTags',
         LastPending'
  PROVE  ScopesName'
<1>0. /\ FramesDiffer /\ OneEntry /\ EntriesMade /\ MadeEntered /\ MentionsTyped
      /\ \A k \in DOMAIN mentions : Makes(k)' <=> Makes(k)
      /\ m \in Nat /\ m <= Len(frames) /\ Len(frames) \in Nat /\ DOMAIN frames = 1 .. Len(frames)
      /\ opened \in Nat
  BY SameMakers, MentionTypes DEF TagInv, ScopesName, FramesKept
<1>1. \A i \in 1 .. m :
        /\ i \in DOMAIN frames /\ i \in DOMAIN frames'
        /\ frames'[i].id = frames[i].id /\ frames'[i].body = frames[i].body
        /\ frames[i].id \in 0 .. opened
        /\ \A t \in Tags : Entry(i, t)' = Entry(i, t)
  BY SMTT(60), <1>0 DEF FramesKept, FramesDiffer
<1>2. \A i \in DOMAIN frames' : i \notin 1 .. m =>
        i = m + 1 /\ frames'[i].id = opened + 1 /\ opened' = opened + 1 /\ \A t \in Tags : Entry(i, t)' = 0
  BY DEF FrameAdded
<1>3. FramesDiffer'
  <2>1. \A i \in DOMAIN frames' : frames'[i].id \in 0 .. opened'
    BY <1>0, <1>1, <1>2
  <2>2. \A i, j \in DOMAIN frames' : frames'[i].id = frames'[j].id => i = j
    <3> SUFFICES ASSUME NEW i \in DOMAIN frames', NEW j \in DOMAIN frames',
                        frames'[i].id = frames'[j].id
                 PROVE  i = j
      OBVIOUS
    <3>1. CASE i \in 1 .. m /\ j \in 1 .. m
      BY <1>0, <1>1, <3>1 DEF FramesDiffer
    <3>2. CASE i \notin 1 .. m /\ j \notin 1 .. m
      BY <1>2, <3>2
    <3>3. CASE i \in 1 .. m /\ j \notin 1 .. m
      BY <1>0, <1>1, <1>2, <3>3
    <3>4. CASE i \notin 1 .. m /\ j \in 1 .. m
      BY <1>0, <1>1, <1>2, <3>4
    <3>5. QED
      BY <3>1, <3>2, <3>3, <3>4
  <2>3. QED
    BY <2>1, <2>2 DEF FramesDiffer
<1>4. OneEntry'
  <2> SUFFICES ASSUME NEW t \in Tags, NEW i \in DOMAIN frames', NEW j \in DOMAIN frames',
                      Entry(i, t)' # 0, Entry(j, t)' # 0
               PROVE  i = j
    BY DEF OneEntry
  <2>1. i \in 1 .. m /\ j \in 1 .. m
    BY <1>2
  <2>2. QED
    BY <1>0, <1>1, <2>1 DEF OneEntry
<1>5. EntriesMade'
  <2> SUFFICES ASSUME NEW t \in Tags, NEW i \in DOMAIN frames', Entry(i, t)' # 0
               PROVE  \E k \in DOMAIN mentions' :
                        /\ Makes(k)' /\ mentions'[k].tag = t /\ mentions'[k].rec = Entry(i, t)'
                        /\ mentions'[k].blocks \subseteq BlocksTo(i)'
    BY DEF EntriesMade
  <2>1. i \in 1 .. m
    BY <1>2
  <2>2. PICK k \in DOMAIN mentions :
          /\ Makes(k) /\ mentions[k].tag = t /\ mentions[k].rec = Entry(i, t)
          /\ mentions[k].blocks \subseteq BlocksTo(i)
    BY <1>0, <1>1, <2>1 DEF EntriesMade
  <2>3. BlocksTo(i)' = BlocksTo(i)
    <3>1. \A j \in 1 .. i : j \in 1 .. m
      BY <1>0, <2>1
    <3>2. QED
      BY <1>1, <3>1 DEF BlocksTo
  <2>4. QED
    BY <1>0, <1>1, <2>1, <2>2, <2>3 DEF SameMentions
<1>6. MadeEntered'
  <2> SUFFICES ASSUME NEW k \in DOMAIN mentions', Makes(k)', mentions'[k].around \subseteq Ids(frames')
               PROVE  \E i \in DOMAIN frames' :
                        (Entry(i, mentions[k].tag) = mentions[k].rec /\ frames[i].id \in mentions[k].around)'
    BY DEF MadeEntered
  <2>1. /\ k \in DOMAIN mentions /\ Makes(k)
        /\ mentions'[k].tag = mentions[k].tag /\ mentions'[k].rec = mentions[k].rec
        /\ mentions'[k].around = mentions[k].around
        /\ mentions[k].tag \in Tags /\ mentions[k].around \subseteq 0 .. opened
    BY <1>0, MentionTypes DEF SameMentions
  <2>2. \A x \in mentions[k].around : \E i \in 1 .. m : x = frames[i].id
    <3> SUFFICES ASSUME NEW x \in mentions[k].around
                 PROVE  \E i \in 1 .. m : x = frames[i].id
      OBVIOUS
    <3>1. PICK i \in DOMAIN frames' : x = frames'[i].id
      BY <2>1 DEF Ids
    <3>2. x \in 0 .. opened
      BY <2>1
    <3>3. i \in 1 .. m
      BY <1>0, <1>2, <3>1, <3>2
    <3>4. QED
      BY <1>1, <3>1, <3>3
  <2>3. mentions[k].around \subseteq Ids(frames)
    BY <1>1, <2>2 DEF Ids
  <2>4. PICK i \in DOMAIN frames : Entry(i, mentions[k].tag) = mentions[k].rec
                                   /\ frames[i].id \in mentions[k].around
    BY <1>0, <2>1, <2>3 DEF MadeEntered
  <2>5. PICK j \in 1 .. m : frames[i].id = frames[j].id
    BY <2>2, <2>4
  <2>6. i = j
    BY <1>0, <1>1, <2>4, <2>5 DEF FramesDiffer
  <2>7. i \in 1 .. m
    BY <2>6
  <2>8. QED
    BY <1>1, <2>1, <2>4, <2>7
<1>7. QED
  BY <1>3, <1>4, <1>5, <1>6 DEF ScopesName

\* Mentions stay typed when records are made and frames opened.
LEMMA MentionTypeGrows ==
  ASSUME NEW m \in Nat, NEW n \in Nat, m <= n, NEW p \in Nat, NEW q \in Nat, p <= q
  PROVE  MentionType(m, p) \subseteq MentionType(n, q)
<1>1. 1 .. m \subseteq 1 .. n /\ 0 .. p \subseteq 0 .. q
  OBVIOUS
<1>2. SUBSET (0 .. p) \subseteq SUBSET (0 .. q)
  BY <1>1
<1>3. QED
  BY <1>1, <1>2 DEF MentionType

\* The tag just mentioned is declared.
LEMMA DeclaredMentions ==
  ASSUME RecordInv, TagInv, outcome = "parsing", spec.rec # 0, ~spec.closed, mentions' = Declared
  PROVE  /\ SameMentions /\ mentions' \in Seq(MentionType(Len(records), opened))
         /\ \A k \in DOMAIN mentions : k # Len(mentions) => mentions'[k] = mentions[k]
         /\ Len(mentions) \in DOMAIN mentions
         /\ Last(mentions) = mentions[Len(mentions)] /\ mentions[Len(mentions)].blocks = BlockIds
<1> DEFINE n == Len(mentions)
           new == [mentions[n] EXCEPT !.declares = TRUE]
<1>1. mentions \in Seq(MentionType(Len(records), opened)) /\ n \in Nat /\ DOMAIN mentions = 1 .. n
  BY MentionTypes DEF TagInv, MentionsTyped
<1>2. mentions # <<>> /\ Last(mentions).blocks = BlockIds
  BY DEF TagInv, ScopesName, LastPending
<1>3. n \in DOMAIN mentions
  BY <1>1, <1>2
<1>4. mentions' = [mentions EXCEPT ![n] = new]
  BY DEF Declared
<1>5. mentions[n] \in MentionType(Len(records), opened)
  BY <1>1, <1>3
<1>6. /\ new \in MentionType(Len(records), opened)
      /\ new.tag = mentions[n].tag /\ new.rec = mentions[n].rec
      /\ new.blocks = mentions[n].blocks /\ new.around = mentions[n].around
  BY <1>5 DEF MentionType
<1>7. Last(mentions) = mentions[n]
  BY DEF Last
<1> HIDE DEF new
<1>8. mentions' \in Seq(MentionType(Len(records), opened))
  BY <1>1, <1>3, <1>4, <1>6
<1>9. SameMentions
  BY <1>1, <1>3, <1>4, <1>6 DEF SameMentions
<1>10. \A k \in DOMAIN mentions : k # n => mentions'[k] = mentions[k]
  BY <1>1, <1>4
<1>11. QED
  BY <1>2, <1>3, <1>7, <1>8, <1>9, <1>10

\* A step keeps the invariant if it makes no mention, if it declares the last one only
\* where no other block has declared its tag, and if the frames that stay keep
\* their tags.
LEMMA StepTags ==
  ASSUME RecordInv, TagInv, outcome = "parsing",
         Len(records') \in Nat, Len(records) <= Len(records'), opened' \in Nat, opened <= opened',
         \/ mentions' = mentions
         \/ mentions' = Declared /\ spec.rec # 0 /\ ~spec.closed /\ (TagsPlain' => ~DeclaredAnew),
         shapes \subseteq shapes',
         outcome' = "parsing" =>
           /\ NoOuterTags' /\ LastPending'
           /\ \E m : FramesKept(m) /\ FrameAdded(m) /\ 1 .. m \subseteq DOMAIN frames'
  PROVE  TagInv'
<1>1. MentionsTyped /\ opened \in Nat /\ Len(records) \in Nat
  BY MentionTypes DEF TagInv
<1>2. mentions' \in Seq(MentionType(Len(records), opened)) /\ SameMentions
  <2>1. CASE mentions' = mentions
    BY <1>1, <2>1 DEF MentionsTyped, SameMentions
  <2>2. CASE mentions' = Declared /\ spec.rec # 0 /\ ~spec.closed
    BY <2>2, DeclaredMentions
  <2>3. QED
    BY <2>1, <2>2
<1>3. MentionsTyped'
  <2>1. MentionType(Len(records), opened) \subseteq MentionType(Len(records'), opened')
    BY <1>1, MentionTypeGrows
  <2>2. mentions' \in Seq(MentionType(Len(records'), opened'))
    BY <1>2, <2>1
  <2>3. QED
    BY <2>2 DEF MentionsTyped
<1>4. ScopesName'
  <2>1. CASE outcome' = "parsing"
    <3>1. PICK m : FramesKept(m) /\ FrameAdded(m) /\ 1 .. m \subseteq DOMAIN frames'
      BY <2>1
    <3>2. NoOuterTags' /\ LastPending'
      BY <2>1
    <3>3. QED
      BY <1>2, <3>1, <3>2, ScopesStep
  <2>2. CASE outcome' # "parsing"
    BY <2>2 DEF ScopesName
  <2>3. QED
    BY <2>1, <2>2
<1>5. TagsGiven'
  <2>1. TagsPlain' => TagsPlain
    BY DEF TagsPlain
  <2>2. TagsPlain' => \A j \in DOMAIN mentions : mentions'[j].declares /\ ~mentions[j].declares =>
                        \A i \in Candidates(j) : mentions[i].blocks = mentions[j].blocks
    <3> SUFFICES ASSUME TagsPlain', NEW j \in DOMAIN mentions, mentions'[j].declares,
                        ~mentions[j].declares, NEW i \in Candidates(j)
                 PROVE  mentions[i].blocks = mentions[j].blocks
      OBVIOUS
    <3>1. mentions' = Declared /\ spec.rec # 0 /\ ~spec.closed /\ ~DeclaredAnew
      OBVIOUS
    <3>2. /\ j = Len(mentions) /\ Last(mentions) = mentions[j] /\ mentions[j].blocks = BlockIds
      BY <3>1, DeclaredMentions
    <3>3. i \in DOMAIN mentions /\ mentions[i].tag = mentions[j].tag
          /\ mentions[i].blocks \subseteq BlockIds
      BY <1>1, <3>2, MentionTypes DEF Candidates
    <3>4. QED
      BY <3>1, <3>2, <3>3 DEF DeclaredAnew, Visible
  <2>3. TagsGiven
    BY DEF TagInv
  <2>4. QED
    BY <1>1, <1>2, <2>1, <2>2, <2>3, TagsGivenSame
<1>6. QED
  BY <1>3, <1>4, <1>5 DEF TagInv

-----------------------------------------------------------------------------
(* Tags: the frames and scopes of a step. *)

\* All frames stay, with their scopes.
LEMMA FramesAll ==
  ASSUME RecordInv, TagInv, outcome = "parsing", UNCHANGED envs,
         DOMAIN frames' = DOMAIN frames,
         \A i \in DOMAIN frames : frames'[i].id = frames[i].id /\ frames'[i].body = frames[i].body
  PROVE  /\ NoOuterTags'
         /\ \E m : FramesKept(m) /\ FrameAdded(m) /\ 1 .. m \subseteq DOMAIN frames'
<1>1. Len(frames) \in Nat /\ DOMAIN frames = 1 .. Len(frames)
  BY ParserTypes
<1>2. NoOuterTags'
  BY DEF TagInv, ScopesName, NoOuterTags
<1>3. FramesKept(Len(frames)) /\ FrameAdded(Len(frames))
  BY <1>1 DEF FramesKept, FrameAdded, Entry
<1>4. QED
  BY <1>1, <1>2, <1>3

\* A frame is opened with an empty scope; an anonymous record may be entered before.
LEMMA FrameOpens ==
  ASSUME RecordInv, TagInv, AtDeclarator, NEW body, OpenFrame(body),
         NEW es \in Seq(TagTable(Len(records'))), DOMAIN es = DOMAIN envs,
         \A i \in DOMAIN envs : \A t \in Tags : es[i][t] = envs[i][t],
         envs' = EnterScope(es)
  PROVE  /\ NoOuterTags' /\ opened' \in Nat /\ opened <= opened'
         /\ \E m : FramesKept(m) /\ FrameAdded(m) /\ 1 .. m \subseteq DOMAIN frames'
<1> DEFINE n == Len(frames)
<1>1. /\ n \in Nat /\ n >= 1 /\ DOMAIN frames = 1 .. n /\ opened \in Nat /\ outcome = "parsing"
      /\ DOMAIN envs = 1 .. n + 2 /\ Len(es) = n + 2
  <2>1. n >= 1 /\ Len(envs) = n + 2 /\ outcome = "parsing"
    BY AtDeclaratorFacts
  <2>2. n \in Nat /\ DOMAIN frames = 1 .. n /\ DOMAIN envs = 1 .. n + 2 /\ opened \in Nat
    BY <2>1, ParserTypes DEF RecordInv, ParserInv, StateTyped
  <2>3. Len(es) = n + 2
    <3>1. Len(es) \in Nat /\ DOMAIN es = 1 .. Len(es)
      OBVIOUS
    <3>2. QED
      BY <2>2, <3>1
  <2>4. QED
    BY <2>1, <2>2, <2>3
<1>2. /\ \A i \in 1 .. n : frames'[i] = frames[i]
      /\ frames'[n + 1].id = opened + 1 /\ DOMAIN frames' = 1 .. n + 1 /\ opened' = opened + 1
  <2>1. frames' = Append(frames, NewFrame(opened + 1, body)) /\ opened' = opened + 1
    BY DEF OpenFrame
  <2>2. NewFrame(opened + 1, body).id = opened + 1
    BY DEF NewFrame
  <2>3. frames \in Seq(Frame(Len(records)))
    BY DEF RecordInv, ParserInv, StateTyped
  <2>4. QED
    BY <2>1, <2>2, <2>3
<1>3. /\ \A i \in 1 .. n + 2 : \A t \in Tags : envs'[i][t] = envs[i][t]
      /\ \A t \in Tags : envs'[n + 3][t] = 0
  <2>1. /\ \A i \in 1 .. n + 2 : envs'[i] = es[i]
        /\ envs'[n + 3] = EmptyTable
    BY <1>1 DEF EnterScope
  <2>2. \A t \in Tags : EmptyTable[t] = 0
    BY DEF EmptyTable
  <2>3. QED
    BY <1>1, <2>1, <2>2
<1>4. NoOuterTags'
  <2>1. 1 \in 1 .. n + 2 /\ 2 \in 1 .. n + 2
    BY <1>1
  <2>2. QED
    BY <1>1, <1>3, <2>1 DEF TagInv, ScopesName, NoOuterTags
<1>5. FramesKept(n)
  <2>1. \A i \in 1 .. n : i + 2 \in 1 .. n + 2
    BY <1>1
  <2>2. QED
    BY <1>1, <1>2, <1>3, <2>1 DEF FramesKept, Entry
<1>6. FrameAdded(n)
  <2>1. \A i \in DOMAIN frames' : i \notin 1 .. n => i = n + 1 /\ i + 2 = n + 3
    BY <1>1, <1>2
  <2>2. QED
    BY <1>2, <1>3, <2>1 DEF FrameAdded, Entry
<1>7. QED
  BY <1>1, <1>2, <1>4, <1>5, <1>6

\* The innermost frame is closed, and its scope with it.
LEMMA FrameCloses ==
  ASSUME RecordInv, TagInv, AtDeclarator, Len(frames) > 1,
         frames' = Front(frames), envs' = ExitScope(envs)
  PROVE  /\ NoOuterTags'
         /\ \E m : FramesKept(m) /\ FrameAdded(m) /\ 1 .. m \subseteq DOMAIN frames'
<1> DEFINE n == Len(frames)
<1>1. /\ n \in Nat /\ n > 1 /\ frames \in Seq(Frame(Len(records))) /\ frames # <<>>
      /\ envs \in Seq(TagTable(Len(records))) /\ envs # <<>> /\ Len(envs) = n + 2
      /\ outcome = "parsing"
  <2>1. Len(envs) = n + 2 /\ frames # <<>> /\ outcome = "parsing"
    BY AtDeclaratorFacts
  <2>2. n \in Nat
    BY ParserTypes
  <2>3. envs # <<>>
    BY <2>1, <2>2
  <2>4. QED
    BY <2>1, <2>2, <2>3 DEF RecordInv, ParserInv, StateTyped
<1>2. /\ Len(frames') = n - 1 /\ \A i \in 1 .. n - 1 : frames'[i] = frames[i]
      /\ DOMAIN frames' = 1 .. n - 1
  <2>1. frames' \in Seq(Frame(Len(records))) /\ Len(frames') = n - 1
        /\ \A i \in 1 .. n - 1 : frames'[i] = frames[i]
    BY <1>1, FrontType
  <2>2. QED
    BY <2>1
<1>3. \A i \in 1 .. n + 1 : envs'[i] = envs[i]
  <2>1. \A i \in 1 .. Len(envs) - 1 : Front(envs)[i] = envs[i]
    BY <1>1, FrontType
  <2>2. Len(envs) - 1 = n + 1
    BY <1>1
  <2>3. QED
    BY <2>1, <2>2 DEF ExitScope
<1>4. NoOuterTags'
  <2>1. 1 \in 1 .. n + 1 /\ 2 \in 1 .. n + 1
    BY <1>1
  <2>2. QED
    BY <1>1, <1>3, <2>1 DEF TagInv, ScopesName, NoOuterTags
<1>5. FramesKept(n - 1)
  <2>1. \A i \in 1 .. n - 1 : i + 2 \in 1 .. n + 1
    BY <1>1
  <2>2. QED
    BY <1>1, <1>2, <1>3, <2>1 DEF FramesKept, Entry
<1>6. FrameAdded(n - 1)
  BY <1>2 DEF FrameAdded
<1>7. QED
  BY <1>2, <1>4, <1>5, <1>6

-----------------------------------------------------------------------------
(* Tags: a mention. *)

\* A lookup finds the entry of an open frame, or there is none.
LEMMA FindIsEntry ==
  ASSUME RecordInv, TagInv, AtDeclarator, NEW t \in Tags
  PROVE  /\ FindTagSymbol(t) \in 0 .. Len(records)
         /\ FindTagSymbol(t) # 0 => \E i \in DOMAIN frames : Entry(i, t) = FindTagSymbol(t)
         /\ FindTagSymbol(t) = 0 => \A i \in DOMAIN frames : Entry(i, t) = 0
<1> DEFINE hits == {i \in DOMAIN envs : envs[i][t] # 0}
<1>1. /\ Len(frames) \in Nat /\ DOMAIN frames = 1 .. Len(frames)
      /\ DOMAIN envs = 1 .. Len(frames) + 2 /\ Len(envs) = Len(frames) + 2
  BY ParserTypes, AtDeclaratorFacts
<1>2. envs[1][t] = 0 /\ envs[2][t] = 0
  BY DEF AtDeclarator, TagInv, ScopesName, NoOuterTags
<1>3. FindTagSymbol(t) \in 0 .. Len(records)
  BY ParserTypes, FindTagSymbolType DEF RecordInv, ParserInv, StateTyped
<1>4. CASE hits = {}
  <2>1. FindTagSymbol(t) = 0
    BY <1>4 DEF FindTagSymbol
  <2>2. \A i \in DOMAIN frames : i + 2 \in DOMAIN envs
    BY <1>1
  <2>3. QED
    BY <1>3, <1>4, <2>1, <2>2 DEF Entry
<1>5. CASE hits # {}
  <2>1. hits \in SUBSET (1 .. Len(envs)) /\ Len(envs) \in Nat
    BY <1>1
  <2>2. Max(hits) \in hits
    BY <1>5, <2>1, MaxOfIndices
  <2>3. FindTagSymbol(t) = envs[Max(hits)][t] /\ envs[Max(hits)][t] # 0 /\ Max(hits) \in DOMAIN envs
    BY <1>5, <2>2 DEF FindTagSymbol
  <2>4. PICK h : h = Max(hits)
    OBVIOUS
  <2> HIDE DEF hits
  <2>5. h # 1 /\ h # 2 /\ h \in 1 .. Len(frames) + 2
    BY <1>1, <1>2, <2>3, <2>4
  <2>6. h - 2 \in DOMAIN frames /\ (h - 2) + 2 = h
    BY <1>1, <2>5
  <2>7. Entry(h - 2, t) = FindTagSymbol(t)
    BY <2>3, <2>4, <2>6 DEF Entry
  <2>8. QED
    BY <1>3, <2>3, <2>6, <2>7
<1>6. QED
  BY SMTT(60), <1>4, <1>5

\* Entering a tag that is nowhere: it is in the innermost scope then, all else is as before.
LEMMA AddIsEntry ==
  ASSUME RecordInv, TagInv, AtDeclarator, NEW t \in Tags, NEW r \in Nat,
         \A i \in DOMAIN frames : Entry(i, t) = 0,
         envs' = AddTagSymbol(t, r), UNCHANGED frames
  PROVE  /\ Entry(Len(frames), t)' = r
         /\ \A i \in DOMAIN frames : \A s \in Tags :
              i # Len(frames) \/ s # t => Entry(i, s)' = Entry(i, s)
         /\ NoOuterTags'
<1> DEFINE top == Len(envs)
           table == [envs[top] EXCEPT ![t] = IF @ = 0 THEN r ELSE @]
<1>1. /\ Len(frames) \in Nat /\ DOMAIN frames = 1 .. Len(frames) /\ Len(frames) >= 1
      /\ DOMAIN envs = 1 .. Len(frames) + 2 /\ top = Len(frames) + 2
      /\ envs \in Seq(TagTable(Len(records)))
  BY ParserTypes, AtDeclaratorFacts DEF RecordInv, ParserInv, StateTyped
<1>2. envs' = [envs EXCEPT ![top] = table]
  BY DEF AddTagSymbol
<1>3. envs[top] \in TagTable(Len(records))
  BY <1>1
<1>4. envs[top][t] = 0
  <2>1. Len(frames) \in DOMAIN frames
    BY <1>1
  <2>2. Entry(Len(frames), t) = 0
    BY <2>1
  <2>3. QED
    BY <1>1, <2>2 DEF Entry
<1>5. table[t] = r /\ \A s \in Tags : s # t => table[s] = envs[top][s]
  BY <1>3, <1>4 DEF TagTable
<1> HIDE DEF table
<1>6. /\ envs'[top] = table /\ \A i \in DOMAIN envs : i # top => envs'[i] = envs[i]
  BY <1>1, <1>2
<1>7. Entry(Len(frames), t)' = r
  <2>1. Len(frames)' + 2 = top
    BY <1>1
  <2>2. QED
    BY <1>5, <1>6, <2>1 DEF Entry
<1>8. ASSUME NEW i \in DOMAIN frames, NEW s \in Tags, i # Len(frames) \/ s # t
      PROVE  Entry(i, s)' = Entry(i, s)
  <2>1. i + 2 \in DOMAIN envs /\ (i # Len(frames) => i + 2 # top) /\ (i = Len(frames) => i + 2 = top)
    BY <1>1
  <2>2. CASE i # Len(frames)
    BY <1>6, <2>1, <2>2 DEF Entry
  <2>3. CASE i = Len(frames)
    BY <1>5, <1>6, <1>8, <2>1, <2>3 DEF Entry
  <2>4. QED
    BY <2>2, <2>3
<1>9. NoOuterTags'
  <2>1. 1 \in DOMAIN envs /\ 2 \in DOMAIN envs /\ 1 # top /\ 2 # top
    BY <1>1
  <2>2. QED
    BY <1>6, <2>1 DEF AtDeclarator, TagInv, ScopesName, NoOuterTags
<1>10. QED
  BY SMTT(60), <1>7, <1>8, <1>9

\* One more mention, of tag t and record r, where the parser is.
Mentioned(t, r) ==
    /\ mentions' = Append(mentions, Mention(t, r))
    /\ UNCHANGED <<frames, opened>>

\* It is the last, and does not change who made the records before.
LEMMA MentionAdded ==
  ASSUME RecordInv, TagInv, AtDeclarator, NEW t \in Tags, NEW r \in 1 .. Len(records'),
         Mentioned(t, r), Len(records') \in Nat, Len(records) <= Len(records')
  PROVE  LET n == Len(mentions)
         IN  /\ MentionsTyped' /\ n \in Nat
             /\ DOMAIN mentions = 1 .. n /\ DOMAIN mentions' = 1 .. n + 1
             /\ \A k \in 1 .. n : /\ mentions'[k] = mentions[k] /\ (Makes(k)' <=> Makes(k))
                                  /\ Candidates(k)' = Candidates(k)
             /\ mentions'[n + 1] = Mention(t, r) /\ Last(mentions') = Mention(t, r)
             /\ mentions' # <<>>
<1> DEFINE n == Len(mentions)
           new == Mention(t, r)
<1>1. mentions \in Seq(MentionType(Len(records), opened)) /\ n \in Nat /\ DOMAIN mentions = 1 .. n
      /\ opened \in Nat /\ Len(records) \in Nat
  BY MentionTypes DEF TagInv, MentionsTyped
<1>2. new \in MentionType(Len(records'), opened)
  <2>1. \A i \in DOMAIN frames : frames[i].id \in 0 .. opened
    BY DEF AtDeclarator, TagInv, ScopesName, FramesDiffer
  <2>2. Ids(frames) \subseteq 0 .. opened /\ BlockIds \subseteq 0 .. opened
    BY <2>1 DEF Ids, BlockIds
  <2>3. QED
    BY <2>2 DEF Mention, MentionType
<1>3. mentions \in Seq(MentionType(Len(records'), opened))
  <2>1. MentionType(Len(records), opened) \subseteq MentionType(Len(records'), opened)
    BY <1>1, MentionTypeGrows
  <2>2. QED
    BY <1>1, <2>1
<1>4. mentions' = Append(mentions, new)
  BY DEF Mentioned
<1> HIDE DEF new
<1>5. /\ mentions' \in Seq(MentionType(Len(records'), opened)) /\ DOMAIN mentions' = 1 .. n + 1
      /\ mentions'[n + 1] = new /\ \A k \in 1 .. n : mentions'[k] = mentions[k]
  BY <1>2, <1>3, <1>4, AppendParts
<1>6. mentions' # <<>> /\ Last(mentions') = new
  BY <1>2, <1>3, <1>4, PushTop
<1>7. \A k \in 1 .. n : \A i \in 1 .. k - 1 : i \in 1 .. n
  BY <1>1
<1>8. \A k \in 1 .. n : Makes(k)' <=> Makes(k)
  BY <1>5, <1>7 DEF Makes
<1>9. \A k \in 1 .. n : Candidates(k)' = Candidates(k)
  BY <1>5, <1>7, <1>8 DEF Candidates
<1>10. MentionsTyped'
  BY <1>5 DEF MentionsTyped, Mentioned
<1>11. QED
  BY <1>1, <1>5, <1>6, <1>8, <1>9, <1>10 DEF new

\* A visible mention that made a record of the tag t, if none did in a body that has ended,
\* has its record in an open scope.
LEMMA VisibleMaker ==
  ASSUME RecordInv, TagInv, AtDeclarator, NEW t \in Tags, ~MadeInBody(t),
         NEW k \in DOMAIN mentions, Makes(k), mentions[k].tag = t, mentions[k].blocks \subseteq BlockIds
  PROVE  \E i \in DOMAIN frames : Entry(i, t) = mentions[k].rec
<1>1. mentions[k].around \subseteq Ids(frames)
  BY DEF MadeInBody, Visible, Makes
<1>2. QED
  BY <1>1 DEF AtDeclarator, TagInv, ScopesName, MadeEntered

\* The blocks up to an open frame are open.
LEMMA BlocksToOpen ==
  ASSUME RecordInv, NEW i \in DOMAIN frames
  PROVE  BlocksTo(i) \subseteq BlockIds /\ BlocksTo(Len(frames)) = BlockIds
<1>1. Len(frames) \in Nat /\ DOMAIN frames = 1 .. Len(frames)
  BY ParserTypes
<1>2. \A k \in 1 .. i : k \in DOMAIN frames
  BY <1>1
<1>3. QED
  BY <1>1, <1>2 DEF BlocksTo, BlockIds

\* A specifier whose tag is in a scope is given its record, which a visible mention
\* made; and no other visible one made a record of the tag.
LEMMA TagFound ==
  ASSUME RecordInv, TagInv, NEW t \in Tags, NEW kind \in {"struct", "union"}, TagSpec(t, kind),
         FindTagSymbol(t) # 0
  PROVE  TagInv'
<1> DEFINE r == FindTagSymbol(t)
<1>0. PICK n : n = Len(mentions)
  OBVIOUS
<1>1. /\ AtDeclarator /\ outcome = "parsing" /\ r \in 1 .. Len(records) /\ Len(records) \in Nat
      /\ UNCHANGED <<records, envs, frames, opened, outcome>> /\ Mentioned(t, r)
      /\ spec' = [rec |-> r, closed |-> FALSE] /\ Note(TagSpecShapes(t, r))
  <2>1. AtDeclarator /\ UNCHANGED <<outcome, frames, opened>>
    BY DEF TagSpec, AtDeclaration
  <2>2. /\ UNCHANGED <<records, envs>> /\ mentions' = Append(mentions, Mention(t, r))
        /\ spec' = [rec |-> r, closed |-> FALSE] /\ Note(TagSpecShapes(t, r))
    BY DEF TagSpec
  <2>3. r \in 0 .. Len(records) /\ Len(records) \in Nat
    BY <2>1, FindIsEntry, ParserTypes
  <2>4. QED
    BY <2>1, <2>2, <2>3 DEF AtDeclarator, Mentioned
<1> HIDE DEF r
<1>2. /\ MentionsTyped' /\ n \in Nat /\ DOMAIN mentions = 1 .. n /\ DOMAIN mentions' = 1 .. n + 1
      /\ \A k \in 1 .. n : /\ mentions'[k] = mentions[k] /\ (Makes(k)' <=> Makes(k))
                           /\ Candidates(k)' = Candidates(k)
      /\ mentions'[n + 1] = Mention(t, r) /\ Last(mentions') = Mention(t, r)
      /\ mentions' # <<>>
  BY <1>0, <1>1, MentionAdded
<1>3. PICK i \in DOMAIN frames : Entry(i, t) = r
  BY <1>1, FindIsEntry DEF r
<1>4. PICK k \in 1 .. n : /\ Makes(k) /\ mentions[k].tag = t /\ mentions[k].rec = r
                          /\ mentions[k].blocks \subseteq BlockIds
  BY <1>1, <1>2, <1>3, BlocksToOpen DEF TagInv, ScopesName, EntriesMade
<1>5. Mention(t, r).tag = t /\ Mention(t, r).rec = r /\ Mention(t, r).blocks = BlockIds
      /\ Mention(t, r).declares = FALSE
  BY DEF Mention
<1>6. ~Makes(n + 1)'
  <2>1. k \in 1 .. (n + 1) - 1
    BY <1>2
  <2>2. QED
    BY <1>2, <1>4, <1>5, <2>1 DEF Makes
<1>7. ScopesName'
  <2>1. FramesDiffer' /\ NoOuterTags' /\ OneEntry'
    BY <1>1 DEF TagInv, ScopesName, FramesDiffer, NoOuterTags, OneEntry, Entry
  <2>2. EntriesMade'
    <3>1. \A j : BlocksTo(j)' = BlocksTo(j)
      BY <1>1 DEF BlocksTo
    <3>2. EntriesMade
      BY <1>1 DEF TagInv, ScopesName
    <3>3. \A k1 \in DOMAIN mentions : k1 \in DOMAIN mentions'
      BY <1>2
    <3>4. QED
      BY SMTT(60), <1>1, <1>2, <3>1, <3>2, <3>3 DEF EntriesMade, Entry
  <2>3. MadeEntered'
    <3>1. \A k1 \in DOMAIN mentions' : Makes(k1)' => k1 \in 1 .. n
      BY <1>2, <1>6
    <3>2. MadeEntered
      BY <1>1 DEF TagInv, ScopesName
    <3>3. QED
      BY <1>1, <1>2, <3>1, <3>2 DEF MadeEntered, Entry
  <2>4. LastPending'
    <3>1. BlockIds' = BlockIds
      BY <1>1 DEF BlockIds
    <3>2. QED
      BY <1>2, <1>5, <3>1 DEF LastPending
  <2>5. QED
    BY <2>1, <2>2, <2>3, <2>4 DEF ScopesName
<1>8. TagsGiven'
  <2> SUFFICES ASSUME TagsPlain', NEW j \in DOMAIN mentions'
               PROVE  RightlyGiven(j)'
    BY DEF TagsGiven
  <2>1. ~MadeInBody(t) /\ TagsPlain
    BY <1>1 DEF Note, TagSpecShapes, TagsPlain
  <2>2. CASE j \in 1 .. n
    <3>1. RightlyGiven(j)
      BY <1>2, <2>1, <2>2 DEF TagInv, TagsGiven
    <3>2. \A i1 \in 1 .. j - 1 : i1 \in 1 .. n
      BY <1>2, <2>2
    <3>3. Candidates(j) \subseteq 1 .. j - 1
      BY DEF Candidates
    <3>4. QED
      BY <1>2, <2>2, <3>1, <3>2, <3>3 DEF RightlyGiven
  <2>3. CASE j = n + 1
    <3>1. Candidates(n + 1)' = {k}
      <4>1. k \in Candidates(n + 1)'
        <5>1. k \in 1 .. (n + 1) - 1
          BY <1>2
        <5>2. QED
          BY <1>2, <1>4, <1>5, <5>1 DEF Candidates
      <4>2. ASSUME NEW c \in Candidates(n + 1)' PROVE c = k
        <5>1. c \in 1 .. n
          BY <1>2 DEF Candidates
        <5>2. Makes(c) /\ mentions[c].tag = t /\ mentions[c].blocks \subseteq BlockIds
          BY <1>2, <1>5, <5>1 DEF Candidates
        <5>3. PICK i1 \in DOMAIN frames : Entry(i1, t) = mentions[c].rec
          BY <1>1, <1>2, <2>1, <5>1, <5>2, VisibleMaker
        <5>4. mentions[c].rec # 0
          BY <1>2, <5>1, MentionTypes DEF TagInv
        <5>5. i1 = i
          BY <1>1, <1>3, <5>3, <5>4 DEF TagInv, ScopesName, OneEntry
        <5>6. mentions[c].rec = mentions[k].rec
          BY <1>3, <1>4, <5>3, <5>5
        <5>7. QED
          BY <1>2, <1>4, <5>1, <5>2, <5>6, OneMaker DEF TagInv
      <4>3. QED
        BY <4>1, <4>2
    <3>2. k \in 1 .. (n + 1) - 1
      BY <1>2
    <3>3. mentions'[k].rec = mentions'[n + 1].rec /\ ~mentions'[n + 1].declares
      BY <1>2, <1>4, <1>5
    <3>4. QED
      BY <1>6, <2>3, <3>1, <3>2, <3>3 DEF RightlyGiven
  <2>4. QED
    BY <1>2, <2>2, <2>3
<1>9. QED
  BY <1>2, <1>7, <1>8 DEF TagInv

\* A specifier whose tag is in no scope makes a record, and no visible mention did.
LEMMA TagNotFound ==
  ASSUME RecordInv, TagInv, NEW t \in Tags, NEW kind \in {"struct", "union"}, TagSpec(t, kind),
         FindTagSymbol(t) = 0
  PROVE  TagInv'
<1> DEFINE r == Len(records) + 1
<1>0. PICK n, top : n = Len(mentions) /\ top = Len(frames)
  OBVIOUS
<1>1. /\ AtDeclarator /\ outcome = "parsing" /\ Len(records) \in Nat
      /\ UNCHANGED <<frames, opened, outcome>> /\ Mentioned(t, r)
      /\ envs' = AddTagSymbol(t, r) /\ Len(records') = Len(records) + 1
      /\ spec' = [rec |-> r, closed |-> FALSE] /\ Note(TagSpecShapes(t, 0))
  <2>1. AtDeclarator /\ UNCHANGED <<outcome, frames, opened>>
    BY DEF TagSpec, AtDeclaration
  <2>2. /\ records' = Append(records, NewRecord(t, kind)) /\ envs' = AddTagSymbol(t, r)
        /\ mentions' = Append(mentions, Mention(t, r))
        /\ spec' = [rec |-> r, closed |-> FALSE] /\ Note(TagSpecShapes(t, 0))
    BY DEF TagSpec
  <2>3. Len(records) \in Nat /\ records \in Seq(Record)
    BY ParserTypes DEF RecordInv, ParserInv, RecordsTyped
  <2>4. Len(records') = Len(records) + 1
    BY <2>2, <2>3
  <2>5. QED
    BY <2>1, <2>2, <2>3, <2>4 DEF AtDeclarator, Mentioned
<1>2. r \in 1 .. Len(records') /\ r \in Nat /\ Len(records') \in Nat /\ Len(records) <= Len(records')
      /\ r # 0
  BY <1>1
<1>3. \A i \in DOMAIN frames : Entry(i, t) = 0
  BY <1>1, FindIsEntry
<1>4. \A k \in DOMAIN mentions : mentions[k].rec # r /\ mentions[k].rec # 0
  <2>1. \A k \in DOMAIN mentions : mentions[k].rec \in 1 .. Len(records)
    BY MentionTypes DEF TagInv
  <2>2. QED
    BY <1>1, <2>1
<1> HIDE DEF r
<1>5. /\ MentionsTyped' /\ n \in Nat /\ DOMAIN mentions = 1 .. n /\ DOMAIN mentions' = 1 .. n + 1
      /\ \A k \in 1 .. n : /\ mentions'[k] = mentions[k] /\ (Makes(k)' <=> Makes(k))
                           /\ Candidates(k)' = Candidates(k)
      /\ mentions'[n + 1] = Mention(t, r) /\ Last(mentions') = Mention(t, r)
      /\ mentions' # <<>>
  BY <1>0, <1>1, <1>2, MentionAdded
<1>6. /\ Entry(top, t)' = r
      /\ \A i \in DOMAIN frames : \A s \in Tags : i # top \/ s # t => Entry(i, s)' = Entry(i, s)
      /\ NoOuterTags'
  BY <1>0, <1>1, <1>2, <1>3, AddIsEntry
<1>7. Mention(t, r).tag = t /\ Mention(t, r).rec = r /\ Mention(t, r).blocks = BlockIds
      /\ Mention(t, r).declares = FALSE /\ Mention(t, r).around = Ids(frames)
  BY DEF Mention
<1>8. Makes(n + 1)'
  <2>1. \A i \in 1 .. (n + 1) - 1 : i \in 1 .. n
    BY <1>5
  <2>2. QED
    BY <1>4, <1>5, <1>7, <2>1 DEF Makes
<1>9. top \in DOMAIN frames /\ DOMAIN frames' = DOMAIN frames
  <2>1. top >= 1
    BY <1>0, <1>1, AtDeclaratorFacts
  <2>2. QED
    BY <1>0, <1>1, <2>1, ParserTypes
<1>10. ScopesName'
  <2>1. FramesDiffer' /\ NoOuterTags'
    BY <1>1, <1>6 DEF TagInv, ScopesName, FramesDiffer
  <2>2. OneEntry'
    <3> SUFFICES ASSUME NEW s \in Tags, NEW i \in DOMAIN frames, NEW j \in DOMAIN frames,
                        Entry(i, s)' # 0, Entry(j, s)' # 0
                 PROVE  i = j
      BY <1>9 DEF OneEntry
    <3>1. CASE s = t
      BY <1>3, <1>6, <3>1
    <3>2. CASE s # t
      BY <1>1, <1>6, <3>2 DEF TagInv, ScopesName, OneEntry
    <3>3. QED
      BY <3>1, <3>2
  <2>3. EntriesMade'
    <3> SUFFICES ASSUME NEW s \in Tags, NEW i \in DOMAIN frames, Entry(i, s)' # 0
                 PROVE  \E k \in DOMAIN mentions' :
                          /\ Makes(k)' /\ mentions'[k].tag = s /\ mentions'[k].rec = Entry(i, s)'
                          /\ mentions'[k].blocks \subseteq BlocksTo(i)'
      BY <1>9 DEF EntriesMade
    <3>1. BlocksTo(i)' = BlocksTo(i)
      BY <1>1 DEF BlocksTo
    <3>2. CASE i = top /\ s = t
      <4>1. n + 1 \in DOMAIN mentions'
        BY <1>5
      <4>2. BlockIds = BlocksTo(i)
        BY <1>0, <3>2, BlocksToOpen
      <4>3. QED
        BY <1>5, <1>6, <1>7, <1>8, <3>1, <3>2, <4>1, <4>2
    <3>3. CASE i # top \/ s # t
      <4>1. Entry(i, s)' = Entry(i, s)
        BY <1>6, <3>3
      <4>2. PICK k \in DOMAIN mentions :
              /\ Makes(k) /\ mentions[k].tag = s /\ mentions[k].rec = Entry(i, s)
              /\ mentions[k].blocks \subseteq BlocksTo(i)
        BY <1>1, <4>1 DEF TagInv, ScopesName, EntriesMade
      <4>3. k \in DOMAIN mentions' /\ k \in 1 .. n
        BY <1>5
      <4>4. QED
        BY <1>5, <3>1, <4>1, <4>2, <4>3
    <3>4. QED
      BY <3>2, <3>3
  <2>4. MadeEntered'
    <3> SUFFICES ASSUME NEW k \in DOMAIN mentions', Makes(k)', mentions'[k].around \subseteq Ids(frames)
                 PROVE  \E i \in DOMAIN frames :
                          (Entry(i, mentions[k].tag) = mentions[k].rec /\ frames[i].id \in mentions[k].around)'
      BY <1>1, <1>9 DEF MadeEntered
    <3>1. CASE k = n + 1
      <4>1. frames[top].id \in Ids(frames)
        BY <1>9 DEF Ids
      <4>2. (Entry(top, mentions[k].tag) = mentions[k].rec)'
        BY <1>5, <1>6, <1>7, <3>1
      <4>3. frames'[top].id \in mentions'[k].around
        BY <1>1, <1>5, <1>7, <3>1, <4>1
      <4>4. QED
        BY <1>9, <4>2, <4>3
    <3>2. CASE k \in 1 .. n
      <4>1. /\ k \in DOMAIN mentions /\ Makes(k) /\ mentions[k].around \subseteq Ids(frames)
            /\ mentions'[k] = mentions[k] /\ mentions[k].tag \in Tags
        BY <1>5, <3>2, MentionTypes DEF TagInv
      <4>2. PICK i \in DOMAIN frames : Entry(i, mentions[k].tag) = mentions[k].rec
                                       /\ frames[i].id \in mentions[k].around
        BY <1>1, <4>1 DEF TagInv, ScopesName, MadeEntered
      <4>3. mentions[k].tag # t
        BY <1>3, <1>4, <4>1, <4>2
      <4>4. Entry(i, mentions[k].tag)' = mentions[k].rec
        BY <1>6, <4>1, <4>2, <4>3
      <4>5. QED
        BY <1>1, <4>1, <4>2, <4>4
    <3>3. QED
      BY <1>5, <3>1, <3>2
  <2>5. LastPending'
    <3>1. BlockIds' = BlockIds
      BY <1>1 DEF BlockIds
    <3>2. QED
      BY <1>5, <1>7, <3>1 DEF LastPending
  <2>6. QED
    BY <2>1, <2>2, <2>3, <2>4, <2>5 DEF ScopesName
<1>11. TagsGiven'
  <2> SUFFICES ASSUME TagsPlain', NEW j \in DOMAIN mentions'
               PROVE  RightlyGiven(j)'
    BY DEF TagsGiven
  <2>1. ~MadeInBody(t) /\ TagsPlain
    BY <1>1 DEF Note, TagSpecShapes, TagsPlain
  <2>2. CASE j \in 1 .. n
    <3>1. RightlyGiven(j)
      BY <1>5, <2>1, <2>2 DEF TagInv, TagsGiven
    <3>2. \A i1 \in 1 .. j - 1 : i1 \in 1 .. n
      BY <1>5, <2>2
    <3>3. Candidates(j) \subseteq 1 .. j - 1
      BY DEF Candidates
    <3>4. QED
      BY <1>5, <2>2, <3>1, <3>2, <3>3 DEF RightlyGiven
  <2>3. CASE j = n + 1
    <3>1. Candidates(n + 1)' = {}
      <4>1. SUFFICES ASSUME NEW c \in Candidates(n + 1)' PROVE FALSE
        OBVIOUS
      <4>2. c \in 1 .. n
        BY <1>5 DEF Candidates
      <4>3. Makes(c) /\ mentions[c].tag = t /\ mentions[c].blocks \subseteq BlockIds
        BY <1>5, <1>7, <4>2 DEF Candidates
      <4>4. PICK i1 \in DOMAIN frames : Entry(i1, t) = mentions[c].rec
        BY <1>1, <1>5, <2>1, <4>2, <4>3, VisibleMaker
      <4>5. QED
        BY <1>3, <1>4, <1>5, <4>2, <4>4
    <3>2. QED
      BY <1>8, <2>3, <3>1 DEF RightlyGiven
  <2>4. QED
    BY <1>5, <2>2, <2>3
<1>12. QED
  BY <1>5, <1>10, <1>11 DEF TagInv

-----------------------------------------------------------------------------
(* Tags: the steps. *)

\* A specifier with a tag.
LEMMA TagSpecTags ==
  ASSUME RecordInv, TagInv, NEW t \in Tags, NEW kind \in {"struct", "union"}, TagSpec(t, kind)
  PROVE  TagInv'
BY TagFound, TagNotFound

\* Where nothing is specified, nothing is pending.
LEMMA NothingPending ==
  ASSUME spec'.rec = 0 \/ spec'.closed
  PROVE  LastPending'
BY DEF LastPending

\* A block or the body of a record opens.
LEMMA OpenTags ==
  ASSUME RecordInv, TagInv, OpenBody \/ OpenBlock
  PROVE  TagInv'
<1> DEFINE body == IF OpenBody THEN spec.rec ELSE 0
<1>1. /\ AtDeclarator /\ outcome = "parsing" /\ OpenFrame(body) /\ envs' = EnterScope(envs)
      /\ UNCHANGED records /\ shapes \subseteq shapes' /\ spec'.rec = 0
      /\ \/ mentions' = mentions
         \/ mentions' = Declared /\ spec.rec # 0 /\ ~spec.closed /\ (TagsPlain' => ~DeclaredAnew)
  <2>1. CASE OpenBody
    <3>1. AtDeclarator /\ OpenFrame(spec.rec) /\ envs' = EnterScope(envs) /\ UNCHANGED records
          /\ spec'.rec = 0 /\ mentions' = Declared /\ spec.rec # 0 /\ ~spec.closed
      BY <2>1 DEF OpenBody, NoSpec
    <3>2. shapes \subseteq shapes' /\ (TagsPlain' => ~DeclaredAnew)
      BY <2>1 DEF OpenBody, Note, TagsPlain
    <3>3. QED
      BY <2>1, <3>1, <3>2 DEF AtDeclarator
  <2>2. CASE ~OpenBody
    BY <2>2 DEF OpenBlock, AtDeclaration, AtDeclarator, NoSpec
  <2>3. QED
    BY <2>1, <2>2
<1> HIDE DEF body
<1>2. /\ envs \in Seq(TagTable(Len(records'))) /\ Len(records') \in Nat /\ Len(records) <= Len(records')
  BY <1>1, ParserTypes DEF RecordInv, ParserInv, StateTyped
<1>3. /\ NoOuterTags' /\ opened' \in Nat /\ opened <= opened'
      /\ \E m : FramesKept(m) /\ FrameAdded(m) /\ 1 .. m \subseteq DOMAIN frames'
  BY <1>1, <1>2, FrameOpens
<1>4. LastPending'
  BY <1>1, NothingPending
<1>5. QED
  BY <1>1, <1>2, <1>3, <1>4, StepTags

\* A record without tag: its brace is no tag.
LEMMA AnonymousSpecTags ==
  ASSUME RecordInv, TagInv, NEW kind \in {"struct", "union"}, AnonymousSpec(kind)
  PROVE  TagInv'
<1>1. AtDeclaration /\ AtDeclarator /\ outcome = "parsing" /\ spec = NoSpec
      /\ Len(records) \in Nat /\ opened \in Nat
  BY ParserTypes DEF AnonymousSpec, AtDeclaration, AtDeclarator, RecordInv, ParserInv, StateTyped
<1>2. CASE Report("redefined")
  BY <1>1, <1>2, StepTags DEF Report
<1>3. CASE ~Report("redefined")
  <2> DEFINE es == AddTagSymbol(Brace, Len(records) + 1)
  <2>1. /\ records' = Append(records, NewRecord(Brace, kind)) /\ envs' = EnterScope(es)
        /\ OpenFrame(Len(records) + 1) /\ UNCHANGED <<spec, mentions, shapes, outcome>>
    BY <1>3 DEF AnonymousSpec
  <2>2. Len(records') = Len(records) + 1
    BY <2>1 DEF RecordInv, ParserInv, RecordsTyped
  <2>3. /\ envs \in Seq(TagTable(Len(records))) /\ Len(envs) # 0 /\ Len(envs) \in Nat
    BY <1>1, AtDeclaratorFacts, ParserTypes DEF RecordInv, ParserInv, StateTyped
  <2>4. envs \in Seq(TagTable(Len(records')))
    <3>1. TagTable(Len(records)) \subseteq TagTable(Len(records'))
      BY <1>1, <2>2, TypesGrow
    <3>2. QED
      BY <2>3, <3>1
  <2>5. es \in Seq(TagTable(Len(records'))) /\ Len(es) = Len(envs)
    <3>1. Len(records) + 1 \in 0 .. Len(records') /\ Len(records') \in Nat
      BY <1>1, <2>2
    <3>2. QED
      BY <2>3, <2>4, <3>1, AddTagSymbolType
  <2>6. \A i \in DOMAIN envs : \A t \in Tags : es[i][t] = envs[i][t]
    <3> DEFINE top == Len(envs)
               table == [envs[top] EXCEPT ![Brace] = IF @ = 0 THEN Len(records) + 1 ELSE @]
    <3>1. es = [envs EXCEPT ![top] = table]
      BY DEF AddTagSymbol
    <3>2. top \in DOMAIN envs /\ envs[top] \in TagTable(Len(records))
      BY <2>3
    <3>3. \A t \in Tags : table[t] = envs[top][t]
      BY <3>2, TagsAssumption DEF TagTable
    <3> HIDE DEF table, es
    <3>4. QED
      BY <3>1, <3>2, <3>3
  <2>7. DOMAIN es = DOMAIN envs
    BY <2>3, <2>5
  <2> HIDE DEF es
  <2>8. /\ NoOuterTags' /\ opened' \in Nat /\ opened <= opened'
        /\ \E m : FramesKept(m) /\ FrameAdded(m) /\ 1 .. m \subseteq DOMAIN frames'
    BY <1>1, <2>1, <2>5, <2>6, <2>7, FrameOpens
  <2>9. LastPending'
    BY <1>1, <2>1, NothingPending DEF NoSpec
  <2>10. QED
    BY <1>1, <2>1, <2>2, <2>8, <2>9, StepTags
<1>4. QED
  BY <1>2, <1>3

\* A block or a body closes.
LEMMA CloseTags ==
  ASSUME RecordInv, TagInv, CloseBody \/ CloseBlock
  PROVE  TagInv'
<1>1. AtDeclarator /\ outcome = "parsing" /\ spec = NoSpec
  BY DEF CloseBody, CloseBlock, AtDeclaration, AtDeclarator
<1>2. Len(frames) > 1
  <2>1. CASE ~InBlock
    <3>1. Top = frames[Len(frames)] /\ frames[1].body = 0 /\ Len(frames) >= 1 /\ Len(frames) \in Nat
      BY <1>1, AtDeclaratorFacts, ParserTypes
    <3>2. Len(frames) # 1
      BY <2>1, <3>1 DEF InBlock
    <3>3. \A n \in Nat : n >= 1 /\ n # 1 => n > 1
      OBVIOUS
    <3>4. QED
      BY <3>1, <3>2, <3>3
  <2>2. CASE InBlock
    BY <2>2 DEF CloseBody, CloseBlock
  <2>3. QED
    BY <2>1, <2>2
<1>3. /\ frames' = Front(frames) /\ envs' = ExitScope(envs) /\ Len(records') = Len(records)
      /\ UNCHANGED <<mentions, shapes, opened, outcome>> /\ (spec'.rec = 0 \/ spec'.closed)
      /\ Len(records) \in Nat /\ opened \in Nat
  <2>1. Len(records) \in Nat /\ opened \in Nat /\ records \in Seq(Record)
    BY ParserTypes DEF RecordInv, ParserInv, StateTyped, RecordsTyped
  <2>2. CASE CloseBody
    <3>1. Len(records') = Len(records)
      BY <2>1, <2>2 DEF CloseBody
    <3>2. QED
      BY <2>1, <2>2, <3>1 DEF CloseBody
  <2>3. CASE CloseBlock
    BY <1>1, <2>1, <2>3 DEF CloseBlock, NoSpec
  <2>4. QED
    BY <2>2, <2>3
<1>4. /\ NoOuterTags'
      /\ \E m : FramesKept(m) /\ FrameAdded(m) /\ 1 .. m \subseteq DOMAIN frames'
  BY <1>1, <1>2, <1>3, FrameCloses
<1>5. LastPending'
  BY <1>3, NothingPending
<1>6. QED
  BY <1>1, <1>3, <1>4, <1>5, StepTags

\* A step that opens and closes nothing.
LEMMA QuietTags ==
  ASSUME RecordInv, TagInv, outcome = "parsing", UNCHANGED <<envs, opened>>,
         Len(records') = Len(records), shapes \subseteq shapes',
         DOMAIN frames' = DOMAIN frames,
         \A i \in DOMAIN frames : frames'[i].id = frames[i].id /\ frames'[i].body = frames[i].body,
         \/ mentions' = mentions
         \/ mentions' = Declared /\ spec.rec # 0 /\ ~spec.closed /\ (TagsPlain' => ~DeclaredAnew),
         LastPending'
  PROVE  TagInv'
<1>1. Len(records) \in Nat /\ opened \in Nat
  BY ParserTypes DEF RecordInv, ParserInv, StateTyped
<1>2. /\ NoOuterTags'
      /\ \E m : FramesKept(m) /\ FrameAdded(m) /\ 1 .. m \subseteq DOMAIN frames'
  BY FramesAll
<1>3. QED
  BY <1>1, <1>2, StepTags

\* SetMembers.
LEMMA LayoutTags ==
  ASSUME RecordInv, TagInv, LayoutMember \/ FinishLayout
  PROVE  TagInv'
<1>1. UNCHANGED <<envs, opened, outcome, frames, spec, mentions, shapes>> /\ layout.rec # 0
  BY DEF LayoutMember, FinishLayout
<1>2. outcome = "parsing"
  BY <1>1 DEF RecordInv, ParserInv, OutcomeTyped
<1>3. Len(records') = Len(records)
  BY FinishLayoutRecords DEF LayoutMember
<1>4. LastPending'
  <2>1. BlockIds' = BlockIds
    BY <1>1 DEF BlockIds
  <2>2. QED
    BY <1>1, <1>2, <2>1 DEF TagInv, ScopesName, LastPending
<1>5. QED
  BY <1>1, <1>2, <1>3, <1>4, QuietTags

\* A declarator.
LEMMA DeclareTags ==
  ASSUME RecordInv, TagInv, AtDeclarator, NEW type, Declare(type), shapes \subseteq shapes'
  PROVE  TagInv'
<1>1. UNCHANGED <<envs, opened, records, mentions>> /\ spec' = NoSpec /\ outcome = "parsing"
  BY DEF Declare, AtDeclarator
<1>2. /\ DOMAIN frames' = DOMAIN frames
      /\ \A i \in DOMAIN frames : frames'[i].id = frames[i].id /\ frames'[i].body = frames[i].body
  <2> DEFINE n == Len(frames)
             block == [frames[n] EXCEPT !.vars = @ \cup {Len(ast) + 1}]
             body == [frames[n] EXCEPT !.members = Append(@, type)]
  <2>1. frames' = [frames EXCEPT ![n] = block] \/ frames' = [frames EXCEPT ![n] = body]
    BY DEF Declare
  <2>2. n \in DOMAIN frames /\ frames[n] \in Frame(Len(records))
    BY AtDeclaratorFacts, ParserTypes
  <2>3. /\ block.id = frames[n].id /\ block.body = frames[n].body
        /\ body.id = frames[n].id /\ body.body = frames[n].body
    BY <2>2 DEF Frame
  <2> HIDE DEF block, body
  <2>4. QED
    BY <2>1, <2>2, <2>3
<1>3. LastPending'
  BY <1>1, NothingPending DEF NoSpec
<1>4. QED
  BY <1>1, <1>2, <1>3, QuietTags

\* A semicolon after a specifier.
LEMMA NoDeclaratorTags ==
  ASSUME RecordInv, TagInv, NoDeclarator
  PROVE  TagInv'
<1>1. UNCHANGED <<envs, opened, records, frames>> /\ outcome = "parsing" /\ spec.rec # 0
      /\ Len(records) \in Nat /\ opened \in Nat
  BY ParserTypes DEF NoDeclarator, AtDeclarator, RecordInv, ParserInv, StateTyped
<1>2. CASE InBlock
  <2>1. spec' = NoSpec /\ shapes \subseteq shapes'
        /\ \/ mentions' = mentions
           \/ mentions' = Declared /\ spec.rec # 0 /\ ~spec.closed /\ (TagsPlain' => ~DeclaredAnew)
    BY <1>2 DEF NoDeclarator, Note, TagsPlain
  <2>2. LastPending'
    BY <2>1, NothingPending DEF NoSpec
  <2>3. QED
    BY <1>1, <2>1, <2>2, QuietTags
<1>3. CASE ~InBlock
  <2>1. outcome' = "crashed" /\ UNCHANGED <<mentions, shapes>>
    BY <1>3 DEF NoDeclarator
  <2>2. QED
    BY <1>1, <2>1, StepTags
<1>4. QED
  BY <1>2, <1>3

\* An access to a member.
LEMMA AccessTags ==
  ASSUME RecordInv, TagInv, NEW v, NEW k, Access(v, k)
  PROVE  TagInv'
<1>1. UNCHANGED <<envs, opened, records, frames, mentions, shapes, spec>> /\ outcome = "parsing"
      /\ spec = NoSpec
  BY DEF Access, Report, AtDeclaration, AtDeclarator
<1>2. LastPending'
  BY <1>1, NothingPending DEF NoSpec
<1>3. QED
  BY <1>1, <1>2, QuietTags

\* The end of the function.
LEMMA EndFunctionTags ==
  ASSUME RecordInv, TagInv, EndFunction
  PROVE  TagInv'
<1>1. UNCHANGED <<opened, records, mentions, shapes>> /\ outcome = "parsing" /\ outcome' = "parsed"
      /\ Len(records) \in Nat /\ opened \in Nat
  BY ParserTypes DEF EndFunction, AtDeclaration, AtDeclarator, RecordInv, ParserInv, StateTyped
<1>2. QED
  BY <1>1, StepTags

\* Together: a step of the parser keeps the invariant of tags.
LEMMA ParserTags ==
  ASSUME RecordInv, TagInv, ParserNext
  PROVE  TagInv'
<1>1. ASSUME NEW kind \in {"struct", "union"}, NEW t \in Tags, TagSpec(t, kind)
      PROVE  TagInv'
  BY <1>1, TagSpecTags
<1>2. ASSUME NEW kind \in {"struct", "union"}, AnonymousSpec(kind)
      PROVE  TagInv'
  BY <1>2, AnonymousSpecTags
<1>3. CASE OpenBody \/ OpenBlock
  BY <1>3, OpenTags
<1>4. CASE CloseBody \/ CloseBlock
  BY <1>4, CloseTags
<1>5. CASE LayoutMember \/ FinishLayout
  BY <1>5, LayoutTags
<1>6. ASSUME NEW p \in Prims, DeclarePrim(p)
      PROVE  TagInv'
  BY <1>6, DeclareTags DEF DeclarePrim, AtDeclaration, Note
<1>7. CASE DeclarePointer \/ DeclareObject
  <2>1. AtDeclarator /\ shapes \subseteq shapes'
        /\ (Declare(PointerTo(spec.rec)) \/ Declare(RecordOf(spec.rec)))
    BY <1>7 DEF DeclarePointer, DeclareObject, Note
  <2>2. QED
    BY <2>1, DeclareTags
<1>8. CASE NoDeclarator
  BY <1>8, NoDeclaratorTags
<1>9. ASSUME NEW v \in VisibleVars, NEW k \in 1 .. MaxMembers, Access(v, k)
      PROVE  TagInv'
  BY <1>9, AccessTags
<1>10. CASE EndFunction
  BY <1>10, EndFunctionTags
<1>11. QED
  BY <1>1, <1>2, <1>3, <1>4, <1>5, <1>6, <1>7, <1>8, <1>9, <1>10 DEF ParserNext

\* It holds at first,
LEMMA InitTags == Init => TagInv
<1> SUFFICES ASSUME Init PROVE TagInv
  OBVIOUS
<1>1. /\ mentions = <<>> /\ spec.rec = 0 /\ opened = 0 /\ records = <<>>
      /\ frames = <<NewFrame(0, 0)>> /\ envs = <<EmptyTable, EmptyTable, EmptyTable>>
  BY DEF Init, ParserInit, NoSpec
<1>2. DOMAIN frames = {1} /\ frames[1].id = 0
  BY <1>1 DEF NewFrame
<1>3. \A i \in {1, 2, 3} : \A t \in Tags : envs[i][t] = 0
  BY <1>1 DEF EmptyTable
<1>4. \A t \in Tags : Entry(1, t) = 0
  BY <1>3 DEF Entry
<1>5. MentionsTyped
  BY <1>1 DEF MentionsTyped
<1>6. FramesDiffer /\ NoOuterTags /\ OneEntry /\ EntriesMade /\ MadeEntered /\ LastPending
  <2>1. FramesDiffer /\ NoOuterTags
    BY <1>1, <1>2, <1>3 DEF FramesDiffer, NoOuterTags
  <2>2. OneEntry /\ EntriesMade
    BY <1>2, <1>4 DEF OneEntry, EntriesMade
  <2>3. MadeEntered /\ LastPending
    BY <1>1 DEF MadeEntered, LastPending
  <2>4. QED
    BY <2>1, <2>2, <2>3
<1>7. TagsGiven
  BY <1>1 DEF TagsGiven
<1>8. QED
  BY <1>5, <1>6, <1>7 DEF TagInv, ScopesName

\* and every step keeps it.
LEMMA NextTags ==
  ASSUME RecordInv, TagInv, [Next]_vars
  PROVE  TagInv'
<1>1. CASE Parse
  BY <1>1, ParserTags DEF Parse
<1>2. CASE UNCHANGED parserVars
  <2>1. UNCHANGED <<outcome, envs, records, frames, spec, mentions, opened, shapes>>
    BY <1>2 DEF parserVars
  <2>2. MentionsTyped' /\ TagsGiven'
    <3>1. MentionsTyped' /\ SameMentions /\ (TagsPlain' => TagsPlain)
      BY <2>1 DEF TagInv, MentionsTyped, SameMentions, TagsPlain
    <3>2. MentionsTyped /\ TagsGiven
      BY DEF TagInv
    <3>3. QED
      BY <2>1, <3>1, <3>2, TagsGivenSame
  <2>3. ScopesName'
    <3>1. FramesDiffer' = FramesDiffer /\ NoOuterTags' = NoOuterTags /\ OneEntry' = OneEntry
      BY <2>1 DEF FramesDiffer, NoOuterTags, OneEntry, Entry
    <3>2. EntriesMade' = EntriesMade /\ MadeEntered' = MadeEntered
      BY <2>1 DEF EntriesMade, MadeEntered, Entry, Makes, BlocksTo, Ids
    <3>3. LastPending' = LastPending
      BY <2>1 DEF LastPending, BlockIds
    <3>4. QED
      BY <2>1, <3>1, <3>2, <3>3 DEF TagInv, ScopesName
  <2>4. QED
    BY <2>2, <2>3 DEF TagInv
<1>3. QED
  BY <1>1, <1>2 DEF Next, Translate, Visit, Terminated, vars

\* Two specifiers with a tag are given the same record exactly if C says that they name
\* the same type, however the blocks and bodies around them nest, unless a tag is
\* declared anew in an inner block or was made inside a body (sema.cc:386-432, scope.cc:38-62).
THEOREM TagsAreRight == Spec => []TagsNameTypes
<1>1. Init => RecordInv /\ TagInv
  BY InitInv, InitTags
<1>2. RecordInv /\ TagInv /\ [Next]_vars => RecordInv' /\ TagInv'
  BY NextInv, NextTags
<1>3. RecordInv /\ TagInv => TagsNameTypes
  BY GivenMeansNamed
<1>4. QED
  BY <1>1, <1>2, <1>3, PTL DEF Spec

=============================================================================
