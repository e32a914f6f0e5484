----------------------------- MODULE FlowProofs -----------------------------
(***************************************************************************)
(* Proofs about FlowTranslation, for all programs.  The first invariant of *)
(* the parser, NestInv, says how the compound statements being parsed lie  *)
(* in the nodes built so far, and which of them the stacks breakNodes,     *)
(* continueNodes and switchNodes hold; the second, FollowInv, which nodes  *)
(* may follow one another.  VisitInv ties the stacks and maps of CodeGen's *)
(* visit to the statements around the node that it is at, and to the blocks*)
(* created so far.                                                         *)
(***************************************************************************)
EXTENDS FlowTranslation, StackLemmas

-----------------------------------------------------------------------------
(* The constructs around a node. *)

\* An else is a part of its if.
Construct(kind) == IF kind = "else" THEN "if" ELSE kind

\* The end of each construct.
CloserOf ==
    [block |-> "endblock", if |-> "endif", for |-> "endfor", do |-> "enddo",
     switch |-> "endswitch", case |-> "endcase", default |-> "enddefault"]

\* The construct at i has an end before position j.
EndedBefore(a, i, j) == \E c \in 1 .. j - 1 : a[c].kind \in Closers /\ a[c].opener = i

\* The construct at i, one of kinds, is open at position j.
Encloses(a, i, j, kinds) ==
    i \in 1 .. j - 1 /\ a[i].kind \in kinds /\ ~EndedBefore(a, i, j)

\* It is the innermost one.
Binds(a, i, j, kinds) ==
    Encloses(a, i, j, kinds) /\ \A h \in 1 .. j - 1 : Encloses(a, h, j, kinds) => h <= i

\* The node d at position j of a may be an end or an else: what it belongs to
\* is open there, and everything in it is not.
EndsAt(a, d, j) ==
    IF d.kind \in Closers \cup {"else"}
      THEN /\ d.opener \in 1 .. j - 1
           /\ a[d.opener].kind \in Openers
           /\ IF d.kind = "else" THEN a[d.opener].kind = "if" ELSE d.kind = CloserOf[a[d.opener].kind]
           /\ ~EndedBefore(a, d.opener, j)
           /\ \A i \in d.opener + 1 .. j - 1 : a[i].kind \in Openers => EndedBefore(a, i, j)
      ELSE d.opener = 0

\* A jump at position j of a goes to the innermost statement that C says.
JumpsAt(a, d, j) ==
    /\ d.kind = "break" => Binds(a, d.target, j, Breakable)
    /\ d.kind = "continue" => Binds(a, d.target, j, Loops)

-----------------------------------------------------------------------------
(* The parser's invariant. *)

\* The nodes fs, innermost last, of the compound statements being parsed.
OpenOK(fs, a) ==
    /\ fs \in Seq(Frame) /\ a \in Seq(Node)
    /\ \A k \in 1 .. Len(fs) :
         /\ fs[k].node \in 1 .. Len(a)
         /\ a[fs[k].node].kind = Construct(fs[k].kind)
         /\ \A l \in 1 .. k - 1 : fs[l].node < fs[k].node
         /\ fs[k].kind \in Sections => \E l \in 1 .. k - 1 : fs[l].kind = "switch"
    /\ fs # <<>> => fs[1].node = 1 /\ fs[1].kind = "block"

\* Exactly these have no end.
Unended(fs, a) ==
    \A i \in 1 .. Len(a) : a[i].kind \in Openers =>
      (EndedBefore(a, i, Len(a) + 1) <=> ~\E k \in 1 .. Len(fs) : fs[k].node = i)

\* Ends and jumps are right.
NodesOK(a) == \A j \in 1 .. Len(a) : EndsAt(a, a[j], j) /\ JumpsAt(a, a[j], j)

\* How the compound statements fs and the nodes a lie in one another.
Nested(fs, a) == OpenOK(fs, a) /\ Unended(fs, a) /\ NodesOK(a)

\* A stack of the parser holds the nodes of the open statements of kinds.
Tracks(s, fs, kinds) ==
    /\ s \in Seq(Nat)
    /\ \A k \in 1 .. Len(s) : \A l \in 1 .. k - 1 : s[l] < s[k]
    /\ \A k \in 1 .. Len(s) : \E l \in 1 .. Len(fs) : fs[l].kind \in kinds /\ s[k] = fs[l].node
    /\ \A l \in 1 .. Len(fs) : fs[l].kind \in kinds => \E k \in 1 .. Len(s) : s[k] = fs[l].node

\* While an else has no statement yet, it is the last node.
ElsePending(fs, a) ==
    fs # <<>> /\ Last(fs).kind = "else" /\ ~Last(fs).done => a # <<>> /\ Last(a).kind = "else"

\* The first invariant of the parser.
NestInv ==
    /\ outcome \in {"parsing", "parsed", "rejected", "undefined"}
    /\ outcome = "parsing" => open # <<>>
    /\ outcome = "parsed" => open = <<>>
    /\ next \in {"any", "notElse", "endSection"}
    /\ defaultStmts \subseteq Nat
    /\ Nested(open, ast)
    /\ ElsePending(open, ast)
    /\ Tracks(breakNodes, open, Breakable)
    /\ Tracks(continueNodes, open, Loops)
    /\ Tracks(switchNodes, open, {"switch"})

-----------------------------------------------------------------------------
(* What later nodes do not change. *)

\* The nodes before position j.
SameBefore(a, b, j) == \A c \in 1 .. j - 1 : b[c] = a[c]

\* What is open at a position depends on what is before it.
LEMMA EnclosesSame ==
  ASSUME NEW a, NEW b, NEW j \in Nat, SameBefore(a, b, j)
  PROVE  /\ \A i : EndedBefore(b, i, j) <=> EndedBefore(a, i, j)
         /\ \A i, kinds : Encloses(b, i, j, kinds) <=> Encloses(a, i, j, kinds)
<1>1. \A i : EndedBefore(b, i, j) <=> EndedBefore(a, i, j)
  BY DEF EndedBefore, SameBefore
<1>2. \A i, kinds : Encloses(b, i, j, kinds) <=> Encloses(a, i, j, kinds)
  BY <1>1 DEF Encloses, SameBefore
<1>3. QED
  BY <1>1, <1>2

\* So does what a node there may be.
LEMMA NodeSame ==
  ASSUME NEW a, NEW b, NEW j \in Nat, SameBefore(a, b, j), NEW d \in Node
  PROVE  /\ EndsAt(a, d, j) => EndsAt(b, d, j)
         /\ JumpsAt(a, d, j) => JumpsAt(b, d, j)
<1>1. /\ \A i : EndedBefore(b, i, j) <=> EndedBefore(a, i, j)
      /\ \A i, kinds : Encloses(b, i, j, kinds) <=> Encloses(a, i, j, kinds)
  BY EnclosesSame
<1>2. \A c \in 1 .. j - 1 : b[c] = a[c]
  BY DEF SameBefore
<1>3. EndsAt(a, d, j) => EndsAt(b, d, j)
  <2>1. CASE d.kind \in Closers \cup {"else"} /\ d.opener \in 1 .. j - 1
    <3>1. b[d.opener] = a[d.opener]
      BY <1>2, <2>1
    <3>2. \A i \in d.opener + 1 .. j - 1 : b[i] = a[i]
      <4>1. \A i \in d.opener + 1 .. j - 1 : i \in 1 .. j - 1
        BY <2>1
      <4>2. QED
        BY <1>2, <4>1
    <3>3. QED
      BY <1>1, <2>1, <3>1, <3>2 DEF EndsAt
  <2>2. CASE ~(d.kind \in Closers \cup {"else"} /\ d.opener \in 1 .. j - 1)
    BY <2>2 DEF EndsAt
  <2>3. QED
    BY <2>1, <2>2
<1>4. JumpsAt(a, d, j) => JumpsAt(b, d, j)
  BY <1>1 DEF JumpsAt, Binds
<1>5. QED
  BY <1>3, <1>4

\* One more node: it is an end that ends a construct, or it is none.
LEMMA EndedAppend ==
  ASSUME NEW a \in Seq(Node), NEW d \in Node
  PROVE  \A i : EndedBefore(Append(a, d), i, Len(a) + 2) <=>
                  EndedBefore(a, i, Len(a) + 1) \/ (d.kind \in Closers /\ d.opener = i)
<1> DEFINE b == Append(a, d)
           N == Len(a) + 1
<1>1. /\ Len(a) \in Nat /\ b[N] = d /\ \A i \in 1 .. Len(a) : b[i] = a[i]
  BY AppendParts
<1>2. /\ \A c \in 1 .. Len(a) + 2 - 1 : c \in 1 .. Len(a) \/ c = N
      /\ \A c \in 1 .. N - 1 : c \in 1 .. Len(a) /\ c \in 1 .. Len(a) + 2 - 1
      /\ N \in 1 .. Len(a) + 2 - 1
      /\ \A c \in 1 .. Len(a) : c \in 1 .. N - 1
  BY <1>1
<1> HIDE DEF b, N
<1>3. \A i : EndedBefore(b, i, Len(a) + 2) <=>
               EndedBefore(a, i, N) \/ (d.kind \in Closers /\ d.opener = i)
  <2> SUFFICES ASSUME NEW i
               PROVE  EndedBefore(b, i, Len(a) + 2) <=>
                        EndedBefore(a, i, N) \/ (d.kind \in Closers /\ d.opener = i)
    OBVIOUS
  <2> DEFINE E(f) == f.kind \in Closers /\ f.opener = i
  <2>1. /\ \A c \in 1 .. Len(a) : E(b[c]) <=> E(a[c])
        /\ E(b[N]) <=> E(d)
    BY <1>1
  <2>2. EndedBefore(b, i, Len(a) + 2) <=> \E c \in 1 .. Len(a) + 2 - 1 : E(b[c])
    BY DEF EndedBefore
  <2>3. EndedBefore(a, i, N) <=> \E c \in 1 .. N - 1 : E(a[c])
    BY DEF EndedBefore
  <2> HIDE DEF E
  <2>4. (\E c \in 1 .. Len(a) + 2 - 1 : E(b[c])) <=> (\E c \in 1 .. N - 1 : E(a[c])) \/ E(d)
    BY <1>2, <2>1, Zenon
  <2>5. QED
    BY <2>2, <2>3, <2>4 DEF E
<1>4. QED
  BY <1>3 DEF b, N

\* The nodes stay right when a right one is added.
LEMMA NodesAppend ==
  ASSUME NEW a \in Seq(Node), NodesOK(a), NEW d \in Node,
         EndsAt(a, d, Len(a) + 1), JumpsAt(a, d, Len(a) + 1)
  PROVE  NodesOK(Append(a, d))
<1> DEFINE b == Append(a, d)
           N == Len(a) + 1
<1>1. /\ b \in Seq(Node) /\ Len(b) = N /\ Len(a) \in Nat /\ b[N] = d
      /\ \A i \in 1 .. Len(a) : b[i] = a[i]
      /\ \A i \in 1 .. N : i \in 1 .. Len(a) \/ i = N
  BY AppendParts
<1> HIDE DEF b
<1>2. ASSUME NEW j \in 1 .. N PROVE EndsAt(b, b[j], j) /\ JumpsAt(b, b[j], j)
  <2>1. SameBefore(a, b, j) /\ j \in Nat
    BY <1>1 DEF SameBefore
  <2>2. CASE j \in 1 .. Len(a)
    <3>1. b[j] = a[j] /\ a[j] \in Node /\ EndsAt(a, a[j], j) /\ JumpsAt(a, a[j], j)
      BY <1>1, <2>2 DEF NodesOK
    <3>2. QED
      BY <2>1, <3>1, NodeSame
  <2>3. CASE j = N
    BY <1>1, <2>1, <2>3, NodeSame
  <2>4. QED
    BY <1>1, <2>2, <2>3
<1>3. NodesOK(b)
  BY <1>1, <1>2 DEF NodesOK
<1>4. QED
  BY <1>3 DEF b

-----------------------------------------------------------------------------
(* The open constructs after one more node. *)

\* Frames of the same constructs; an if may have come to its else.
SameFrames(fs, gs) ==
    /\ gs \in Seq(Frame) /\ Len(gs) = Len(fs)
    /\ \A k \in 1 .. Len(fs) : gs[k].node = fs[k].node /\ Construct(gs[k].kind) = Construct(fs[k].kind)

\* Frames of the same constructs have the same place in the nodes.
LEMMA SameNested ==
  ASSUME NEW fs, NEW a, Nested(fs, a), NEW gs, SameFrames(fs, gs)
  PROVE  Nested(gs, a)
<1>1. /\ fs \in Seq(Frame) /\ a \in Seq(Node) /\ gs \in Seq(Frame) /\ Len(gs) = Len(fs)
      /\ \A k \in 1 .. Len(fs) : gs[k].node = fs[k].node /\ Construct(gs[k].kind) = Construct(fs[k].kind)
  BY DEF Nested, OpenOK, SameFrames
<1>2. \A k \in 1 .. Len(fs) : /\ gs[k].kind \in Sections <=> fs[k].kind \in Sections
                              /\ gs[k].kind = "switch" <=> fs[k].kind = "switch"
  BY <1>1 DEF Construct, Sections
<1>3. \A k \in 1 .. Len(gs) :
         /\ gs[k].node \in 1 .. Len(a)
         /\ a[gs[k].node].kind = Construct(gs[k].kind)
         /\ \A l \in 1 .. k - 1 : gs[l].node < gs[k].node
         /\ gs[k].kind \in Sections => \E l \in 1 .. k - 1 : gs[l].kind = "switch"
  <2> SUFFICES ASSUME NEW k \in 1 .. Len(fs)
               PROVE  /\ gs[k].node \in 1 .. Len(a)
                      /\ a[gs[k].node].kind = Construct(gs[k].kind)
                      /\ \A l \in 1 .. k - 1 : gs[l].node < gs[k].node
                      /\ gs[k].kind \in Sections => \E l \in 1 .. k - 1 : gs[l].kind = "switch"
    BY <1>1
  <2>1. \A l \in 1 .. k - 1 : l \in 1 .. Len(fs)
    BY <1>1
  <2>2. /\ fs[k].node \in 1 .. Len(a)
        /\ a[fs[k].node].kind = Construct(fs[k].kind)
        /\ \A l \in 1 .. k - 1 : fs[l].node < fs[k].node
        /\ fs[k].kind \in Sections => \E l \in 1 .. k - 1 : fs[l].kind = "switch"
    BY DEF Nested, OpenOK
  <2>3. QED
    BY <1>1, <1>2, <2>1, <2>2
<1>4. gs # <<>> => gs[1].node = 1 /\ gs[1].kind = "block"
  <2>1. gs # <<>> => 1 \in 1 .. Len(fs) /\ fs # <<>>
    BY <1>1
  <2>2. fs # <<>> => fs[1].node = 1 /\ fs[1].kind = "block"
    BY DEF Nested, OpenOK
  <2>3. QED
    BY <1>1, <2>1, <2>2 DEF Construct
<1>5. OpenOK(gs, a)
  BY <1>1, <1>3, <1>4 DEF OpenOK
<1>6. Unended(gs, a)
  BY <1>1 DEF Nested, Unended
<1>7. QED
  BY <1>5, <1>6 DEF Nested

\* And the same place in the stacks.
LEMMA SameTracks ==
  ASSUME NEW s, NEW fs, NEW kinds, Tracks(s, fs, kinds), NEW gs, SameFrames(fs, gs),
         "if" \notin kinds, "else" \notin kinds
  PROVE  Tracks(s, gs, kinds)
<1>1. /\ Len(gs) = Len(fs)
      /\ \A k \in 1 .. Len(fs) : gs[k].node = fs[k].node /\ Construct(gs[k].kind) = Construct(fs[k].kind)
  BY DEF SameFrames
<1>2. \A k \in 1 .. Len(fs) : gs[k].kind \in kinds <=> fs[k].kind \in kinds
  BY <1>1 DEF Construct
<1> DEFINE L == Len(fs)
<1> HIDE DEF L
<1>3. \A k \in 1 .. Len(s) : \E l \in 1 .. L : gs[l].kind \in kinds /\ s[k] = gs[l].node
  <2> SUFFICES ASSUME NEW k \in 1 .. Len(s)
               PROVE  \E l \in 1 .. L : gs[l].kind \in kinds /\ s[k] = gs[l].node
    OBVIOUS
  <2>1. PICK l \in 1 .. L : fs[l].kind \in kinds /\ s[k] = fs[l].node
    BY DEF Tracks, L
  <2>2. QED
    BY <1>1, <1>2, <2>1 DEF L
<1>4. \A l \in 1 .. L : gs[l].kind \in kinds => \E k \in 1 .. Len(s) : s[k] = gs[l].node
  BY <1>1, <1>2 DEF Tracks, L
<1>5. Len(gs) = L
  BY <1>1 DEF L
<1>6. QED
  BY <1>3, <1>4, <1>5 DEF Tracks

\* A statement parsed changes only what its construct waits for.
LEMMA AfterStmtSame ==
  ASSUME NEW fs \in Seq(Frame)
  PROVE  SameFrames(fs, AfterStmt(fs))
<1>1. CASE fs = <<>> \/ Last(fs).kind \in {"block"} \cup Sections
  BY <1>1 DEF AfterStmt, SameFrames
<1>2. CASE fs # <<>> /\ Last(fs).kind \notin {"block"} \cup Sections
  <2> DEFINE L == Len(fs)
  <2>1. L \in Nat /\ L \in 1 .. L /\ fs[L] \in Frame
    BY <1>2
  <2> DEFINE f == [fs[L] EXCEPT !.done = TRUE]
  <2>2. f \in Frame /\ f.kind = fs[L].kind /\ f.node = fs[L].node
    BY <2>1 DEF Frame
  <2>3. AfterStmt(fs) = [fs EXCEPT ![L] = f]
    BY <1>2 DEF AfterStmt
  <2> HIDE DEF f
  <2> DEFINE gs == [fs EXCEPT ![L] = f]
  <2>4. gs \in Seq(Frame) /\ Len(gs) = L /\ gs[L] = f /\ \A k \in 1 .. L : k # L => gs[k] = fs[k]
    BY <2>1, <2>2
  <2> HIDE DEF gs
  <2>5. SameFrames(fs, gs)
    BY <2>2, <2>4 DEF SameFrames
  <2>6. QED
    BY <2>3, <2>5 DEF gs
<1>3. QED
  BY <1>1, <1>2

\* The innermost construct's else or end may be at the next position.
LEMMA TopEnds ==
  ASSUME NEW fs, NEW a, Nested(fs, a), fs # <<>>,
         NEW d \in Node, d.opener = Last(fs).node,
         \/ d.kind = "else" /\ Last(fs).kind = "if"
         \/ d.kind \in Closers /\ d.kind = CloserOf[Construct(Last(fs).kind)]
  PROVE  EndsAt(a, d, Len(a) + 1)
<1> DEFINE L == Len(fs)
           N == Len(a) + 1
           f == fs[L]
<1>1. fs \in Seq(Frame) /\ a \in Seq(Node) /\ L \in Nat /\ L \in 1 .. L /\ Len(a) \in Nat /\ Last(fs) = f
  BY DEF Nested, OpenOK, Last
<1>2. /\ f.node \in 1 .. Len(a)
      /\ a[f.node].kind = Construct(f.kind)
      /\ \A l \in 1 .. L - 1 : fs[l].node < f.node
      /\ f \in Frame
  BY <1>1 DEF Nested, OpenOK
<1>3. a[f.node].kind \in Openers
  BY <1>2 DEF Frame, Construct, Openers
<1>4. ~EndedBefore(a, f.node, N)
  BY <1>1, <1>2, <1>3 DEF Nested, Unended
<1>5. ASSUME NEW i \in f.node + 1 .. N - 1, a[i].kind \in Openers
      PROVE  EndedBefore(a, i, N)
  <2>1. i \in 1 .. Len(a) /\ i > f.node
    BY <1>1, <1>2
  <2>2. ASSUME NEW k \in 1 .. L, fs[k].node = i PROVE FALSE
    <3>1. k = L \/ k \in 1 .. L - 1
      BY <1>1
    <3>2. QED
      BY <1>2, <2>1, <2>2, <3>1
  <2>3. QED
    BY <1>5, <2>1, <2>2 DEF Nested, Unended
<1>6. d.opener = f.node /\ d.opener \in 1 .. N - 1
  BY <1>1, <1>2
<1>7. d.kind \in Closers \cup {"else"}
  OBVIOUS
<1>8. IF d.kind = "else" THEN a[f.node].kind = "if" ELSE d.kind = CloserOf[a[f.node].kind]
  BY <1>1, <1>2 DEF Construct, Closers
<1>9. QED
  BY <1>3, <1>4, <1>5, <1>6, <1>7, <1>8 DEF EndsAt

\* A node that neither opens nor ends a construct.
LEMMA NestedPlain ==
  ASSUME NEW fs, NEW a, Nested(fs, a), NEW d \in Node, d.kind \notin Openers \cup Closers,
         EndsAt(a, d, Len(a) + 1), JumpsAt(a, d, Len(a) + 1)
  PROVE  Nested(fs, Append(a, d))
<1> DEFINE b == Append(a, d)
           N == Len(a) + 1
<1>1. /\ b \in Seq(Node) /\ Len(b) = N /\ Len(a) \in Nat /\ b[N] = d
      /\ \A i \in 1 .. Len(a) : b[i] = a[i]
      /\ \A i \in 1 .. N : i \in 1 .. Len(a) \/ i = N
      /\ a \in Seq(Node) /\ fs \in Seq(Frame)
  BY AppendParts DEF Nested, OpenOK
<1>2. NodesOK(b)
  BY <1>1, NodesAppend DEF Nested
<1>3. \A i : EndedBefore(b, i, Len(a) + 2) <=> EndedBefore(a, i, N)
  BY <1>1, EndedAppend
<1> HIDE DEF b
<1>4. OpenOK(fs, b)
  BY SMTT(60), <1>1 DEF Nested, OpenOK
<1>5. Unended(fs, b)
  <2>1. \A i \in 1 .. N : b[i].kind \in Openers => i \in 1 .. Len(a) /\ a[i].kind \in Openers
    BY <1>1
  <2>2. Len(b) + 1 = Len(a) + 2
    BY <1>1
  <2>3. QED
    BY <1>1, <1>3, <2>1, <2>2 DEF Nested, Unended
<1>6. Nested(fs, b)
  BY <1>2, <1>4, <1>5 DEF Nested
<1>7. QED
  BY <1>6 DEF b

\* A node that opens a construct.
LEMMA NestedOpen ==
  ASSUME NEW fs, NEW a, Nested(fs, a), fs # <<>>,
         NEW d \in Node, d.kind \in Openers, d.opener = 0,
         NEW f \in Frame, f.kind = d.kind, f.node = Len(a) + 1,
         f.kind \in Sections => \E l \in 1 .. Len(fs) : fs[l].kind = "switch"
  PROVE  Nested(Append(fs, f), Append(a, d))
<1> DEFINE b == Append(a, d)
           gs == Append(fs, f)
           N == Len(a) + 1
           L == Len(fs)
<1>1. /\ b \in Seq(Node) /\ Len(b) = N /\ Len(a) \in Nat /\ b[N] = d
      /\ \A i \in 1 .. Len(a) : b[i] = a[i]
      /\ \A i \in 1 .. N : i \in 1 .. Len(a) \/ i = N
      /\ a \in Seq(Node) /\ fs \in Seq(Frame)
  BY AppendParts DEF Nested, OpenOK
<1>2. /\ gs \in Seq(Frame) /\ Len(gs) = L + 1 /\ L \in Nat /\ gs[L + 1] = f
      /\ \A k \in 1 .. L : gs[k] = fs[k]
      /\ \A k \in 1 .. L + 1 : k \in 1 .. L \/ k = L + 1
  BY <1>1, AppendParts
<1>3. d.kind \notin Closers \cup {"else", "break", "continue"}
  BY DEF Openers, Closers
<1>4. NodesOK(b)
  <2>1. EndsAt(a, d, N) /\ JumpsAt(a, d, N)
    BY <1>3 DEF EndsAt, JumpsAt
  <2>2. QED
    BY <1>1, <2>1, NodesAppend DEF Nested
<1>5. \A i : EndedBefore(b, i, Len(a) + 2) <=> EndedBefore(a, i, N)
  BY <1>1, <1>3, EndedAppend
<1> HIDE DEF b, gs, L
<1>6. \A k \in 1 .. L :
        /\ fs[k].node \in 1 .. Len(a)
        /\ a[fs[k].node].kind = Construct(fs[k].kind)
        /\ \A l \in 1 .. k - 1 : fs[l].node < fs[k].node
        /\ fs[k].kind \in Sections => \E l \in 1 .. k - 1 : fs[l].kind = "switch"
  BY DEF Nested, OpenOK, L
<1>7. ASSUME NEW k \in 1 .. L + 1
      PROVE  /\ gs[k].node \in 1 .. N
             /\ b[gs[k].node].kind = Construct(gs[k].kind)
             /\ \A l \in 1 .. k - 1 : gs[l].node < gs[k].node
             /\ gs[k].kind \in Sections => \E l \in 1 .. k - 1 : gs[l].kind = "switch"
  <2>1. CASE k \in 1 .. L
    <3>1. \A l \in 1 .. k - 1 : l \in 1 .. L
      BY <1>2, <2>1
    <3>2. gs[k] = fs[k] /\ \A l \in 1 .. k - 1 : gs[l] = fs[l]
      BY <1>2, <2>1, <3>1
    <3>3. gs[k].node \in 1 .. Len(a) /\ b[gs[k].node].kind = Construct(gs[k].kind)
      BY <1>1, <1>6, <2>1, <3>2
    <3>4. /\ \A l \in 1 .. k - 1 : gs[l].node < gs[k].node
          /\ gs[k].kind \in Sections => \E l \in 1 .. k - 1 : gs[l].kind = "switch"
      BY <1>6, <2>1, <3>2
    <3>5. QED
      BY <1>1, <3>3, <3>4
  <2>2. CASE k = L + 1
    <3>1. gs[k] = f /\ Construct(f.kind) = d.kind
      BY <1>2, <2>2 DEF Construct, Openers
    <3>2. \A l \in 1 .. k - 1 : l \in 1 .. L /\ gs[l] = fs[l]
      BY <1>2, <2>2
    <3>3. \A l \in 1 .. L : l \in 1 .. k - 1
      BY <1>2, <2>2
    <3>4. \A l \in 1 .. k - 1 : gs[l].node < f.node
      BY <1>1, <1>6, <3>2
    <3>5. f.kind \in Sections => \E l \in 1 .. k - 1 : gs[l].kind = "switch"
      BY <3>2, <3>3 DEF L
    <3>6. QED
      BY <1>1, <3>1, <3>4, <3>5
  <2>3. QED
    BY <1>2, <2>1, <2>2
<1>8. gs[1].node = 1 /\ gs[1].kind = "block"
  <2>1. fs[1].node = 1 /\ fs[1].kind = "block" /\ 1 \in 1 .. L
    BY <1>1 DEF Nested, OpenOK, L
  <2>2. QED
    BY <1>2, <2>1
<1>9. OpenOK(gs, b)
  BY <1>1, <1>2, <1>7, <1>8 DEF OpenOK
<1>10. ASSUME NEW i \in 1 .. N, b[i].kind \in Openers
       PROVE  EndedBefore(b, i, Len(a) + 2) <=> ~\E k \in 1 .. L + 1 : gs[k].node = i
  <2>1. CASE i \in 1 .. Len(a)
    <3>1. f.node # i /\ a[i].kind \in Openers
      BY <1>1, <1>10, <2>1
    <3>2. EndedBefore(a, i, N) <=> ~\E k \in 1 .. L : fs[k].node = i
      BY <2>1, <3>1 DEF Nested, Unended, L
    <3>3. (\E k \in 1 .. L + 1 : gs[k].node = i) <=> \E k \in 1 .. L : fs[k].node = i
      <4>1. \A k \in 1 .. L : k \in 1 .. L + 1 /\ gs[k] = fs[k]
        BY <1>2
      <4>2. QED
        BY <1>2, <3>1, <4>1, Zenon
    <3>4. QED
      BY <1>5, <3>2, <3>3
  <2>2. CASE i = N
    <3>1. ~EndedBefore(a, N, N)
      <4> SUFFICES ASSUME NEW c \in 1 .. N - 1, a[c].kind \in Closers, a[c].opener = N PROVE FALSE
        BY DEF EndedBefore
      <4>1. c \in 1 .. Len(a)
        BY <1>1
      <4>2. EndsAt(a, a[c], c)
        BY <4>1 DEF Nested, NodesOK
      <4>3. N \in 1 .. c - 1
        BY <4>2 DEF EndsAt
      <4>4. QED
        BY <1>1, <4>1, <4>3
    <3>2. gs[L + 1].node = N /\ L + 1 \in 1 .. L + 1
      BY <1>2
    <3>3. QED
      BY <1>5, <2>2, <3>1, <3>2
  <2>3. QED
    BY <1>1, <2>1, <2>2
<1>11. Unended(gs, b)
  <2>1. Len(b) + 1 = Len(a) + 2
    BY <1>1
  <2>2. QED
    BY <1>1, <1>2, <1>10, <2>1 DEF Unended
<1>12. Nested(gs, b)
  BY <1>4, <1>9, <1>11 DEF Nested
<1>13. QED
  BY <1>12 DEF gs, b

\* The end of the innermost construct.
LEMMA NestedClose ==
  ASSUME NEW fs, NEW a, Nested(fs, a), fs # <<>>,
         NEW d \in Node, d.kind = CloserOf[Construct(Last(fs).kind)], d.opener = Last(fs).node
  PROVE  Nested(Front(fs), Append(a, d))
<1> DEFINE b == Append(a, d)
           gs == Front(fs)
           N == Len(a) + 1
           L == Len(fs)
           f == fs[L]
<1>1. /\ b \in Seq(Node) /\ Len(b) = N /\ Len(a) \in Nat /\ b[N] = d
      /\ \A i \in 1 .. Len(a) : b[i] = a[i]
      /\ \A i \in 1 .. N : i \in 1 .. Len(a) \/ i = N
      /\ a \in Seq(Node) /\ fs \in Seq(Frame)
  BY AppendParts DEF Nested, OpenOK
<1>2. /\ gs \in Seq(Frame) /\ Len(gs) = L - 1 /\ L \in Nat /\ L >= 1
      /\ \A k \in 1 .. L - 1 : gs[k] = fs[k] /\ k \in 1 .. L
      /\ \A k \in 1 .. L : k \in 1 .. L - 1 \/ k = L
  <2>1. L \in Nat /\ L >= 1
    BY <1>1
  <2>2. gs \in Seq(Frame) /\ Len(gs) = L - 1 /\ \A k \in 1 .. L - 1 : gs[k] = fs[k]
    BY <1>1, FrontType
  <2>3. QED
    BY <2>1, <2>2
<1>3. Last(fs) = f /\ f \in Frame
  BY <1>1, LastType
<1>4. d.kind \in Closers /\ d.kind \notin Openers \cup {"break", "continue", "else"}
  <2>1. Construct(f.kind) \in Openers
    BY <1>3 DEF Frame, Construct, Openers
  <2>2. QED
    BY <1>3, <2>1 DEF CloserOf, Openers, Closers
<1>5. NodesOK(b)
  <2>1. EndsAt(a, d, N)
    BY <1>4, TopEnds
  <2>2. JumpsAt(a, d, N)
    BY <1>4 DEF JumpsAt
  <2>3. QED
    BY <1>1, <2>1, <2>2, NodesAppend DEF Nested
<1>6. \A i : EndedBefore(b, i, Len(a) + 2) <=> EndedBefore(a, i, N) \/ f.node = i
  BY <1>1, <1>3, <1>4, EndedAppend
<1> HIDE DEF b, gs, L
<1>7. \A k \in 1 .. L :
        /\ fs[k].node \in 1 .. Len(a)
        /\ a[fs[k].node].kind = Construct(fs[k].kind)
        /\ \A l \in 1 .. k - 1 : fs[l].node < fs[k].node
        /\ fs[k].kind \in Sections => \E l \in 1 .. k - 1 : fs[l].kind = "switch"
  BY DEF Nested, OpenOK, L
<1>8. ASSUME NEW k \in 1 .. L - 1
      PROVE  /\ gs[k].node \in 1 .. N
             /\ b[gs[k].node].kind = Construct(gs[k].kind)
             /\ \A l \in 1 .. k - 1 : gs[l].node < gs[k].node
             /\ gs[k].kind \in Sections => \E l \in 1 .. k - 1 : gs[l].kind = "switch"
  <2>1. gs[k] = fs[k] /\ k \in 1 .. L /\ \A l \in 1 .. k - 1 : gs[l] = fs[l]
    BY <1>2
  <2>2. gs[k].node \in 1 .. Len(a) /\ b[gs[k].node].kind = Construct(gs[k].kind)
    BY <1>1, <1>7, <2>1
  <2>3. /\ \A l \in 1 .. k - 1 : gs[l].node < gs[k].node
        /\ gs[k].kind \in Sections => \E l \in 1 .. k - 1 : gs[l].kind = "switch"
    BY <1>7, <2>1
  <2>4. QED
    BY <1>1, <2>2, <2>3
<1>9. gs # <<>> => gs[1].node = 1 /\ gs[1].kind = "block"
  <2>1. gs # <<>> => 1 \in 1 .. L - 1
    BY <1>2
  <2>2. fs[1].node = 1 /\ fs[1].kind = "block"
    BY DEF Nested, OpenOK
  <2>3. QED
    BY <1>2, <2>1, <2>2
<1>10. OpenOK(gs, b)
  BY <1>1, <1>2, <1>8, <1>9 DEF OpenOK
<1>11. ASSUME NEW i \in 1 .. N, b[i].kind \in Openers
       PROVE  EndedBefore(b, i, Len(a) + 2) <=> ~\E k \in 1 .. L - 1 : gs[k].node = i
  <2>1. i \in 1 .. Len(a) /\ a[i].kind \in Openers
    BY <1>1, <1>4, <1>11
  <2>2. EndedBefore(a, i, N) <=> ~\E k \in 1 .. L : fs[k].node = i
    BY <2>1 DEF Nested, Unended, L
  <2>3. (\E k \in 1 .. L : fs[k].node = i) <=> (\E k \in 1 .. L - 1 : gs[k].node = i) \/ f.node = i
    <3>1. f = fs[L] /\ L \in 1 .. L
      BY <1>2 DEF L
    <3>2. QED
      BY <1>2, <3>1, Zenon
  <2>4. f.node = i => ~\E k \in 1 .. L - 1 : gs[k].node = i
    <3> SUFFICES ASSUME NEW k \in 1 .. L - 1, gs[k].node = f.node PROVE FALSE
      OBVIOUS
    <3>1. L \in 1 .. L /\ f = fs[L] /\ fs[k].node < f.node /\ gs[k] = fs[k]
      BY SMTT(60), <1>2, <1>7 DEF L
    <3>2. f.node \in Nat
      BY <1>1, <1>7, <3>1
    <3>3. QED
      BY <3>1, <3>2
  <2>5. QED
    BY <1>6, <2>2, <2>3, <2>4
<1>12. Unended(gs, b)
  <2>1. Len(b) + 1 = Len(a) + 2
    BY <1>1
  <2>2. QED
    BY <1>1, <1>2, <1>11, <2>1 DEF Unended
<1>13. Nested(gs, b)
  BY <1>5, <1>10, <1>12 DEF Nested
<1>14. QED
  BY <1>13 DEF gs, b

\* An else without a statement is taken back.
LEMMA NestedFront ==
  ASSUME NEW fs, NEW a, Nested(fs, a), a # <<>>, Last(a).kind = "else"
  PROVE  Nested(fs, Front(a))
<1> DEFINE b == Front(a)
           N == Len(a)
<1>1. /\ b \in Seq(Node) /\ Len(b) = N - 1 /\ N \in Nat /\ N >= 1
      /\ \A i \in 1 .. N - 1 : b[i] = a[i] /\ i \in 1 .. N
      /\ \A i \in 1 .. N : i \in 1 .. N - 1 \/ i = N
      /\ a \in Seq(Node) /\ fs \in Seq(Frame)
  <2>1. a \in Seq(Node) /\ fs \in Seq(Frame) /\ N \in Nat /\ N >= 1
    BY DEF Nested, OpenOK
  <2>2. b \in Seq(Node) /\ Len(b) = N - 1 /\ \A i \in 1 .. N - 1 : b[i] = a[i]
    BY <2>1, FrontType
  <2>3. QED
    BY <2>1, <2>2
<1>2. a[N].kind = "else"
  BY DEF Last
<1> HIDE DEF b
<1>3. NodesOK(b)
  <2> SUFFICES ASSUME NEW j \in 1 .. N - 1 PROVE EndsAt(b, b[j], j) /\ JumpsAt(b, b[j], j)
    BY <1>1 DEF NodesOK
  <2>1. j \in 1 .. N /\ j \in Nat /\ b[j] = a[j] /\ a[j] \in Node /\ SameBefore(a, b, j)
    BY <1>1 DEF SameBefore
  <2>2. EndsAt(a, a[j], j) /\ JumpsAt(a, a[j], j)
    BY <2>1 DEF Nested, NodesOK
  <2>3. QED
    BY <2>1, <2>2, NodeSame
<1>4. \A k \in 1 .. Len(fs) : fs[k].node \in 1 .. N - 1 /\ b[fs[k].node] = a[fs[k].node]
  <2> SUFFICES ASSUME NEW k \in 1 .. Len(fs)
               PROVE  fs[k].node \in 1 .. N - 1 /\ b[fs[k].node] = a[fs[k].node]
    OBVIOUS
  <2>1. fs[k].node \in 1 .. N /\ a[fs[k].node].kind = Construct(fs[k].kind)
    BY DEF Nested, OpenOK
  <2>2. fs[k].node # N
    BY <1>2, <2>1 DEF Construct
  <2>3. QED
    BY <1>1, <2>1, <2>2
<1>5. OpenOK(fs, b)
  <2>1. \A k \in 1 .. Len(fs) :
          /\ a[fs[k].node].kind = Construct(fs[k].kind)
          /\ \A l \in 1 .. k - 1 : fs[l].node < fs[k].node
          /\ fs[k].kind \in Sections => \E l \in 1 .. k - 1 : fs[l].kind = "switch"
    BY DEF Nested, OpenOK
  <2>2. fs # <<>> => fs[1].node = 1 /\ fs[1].kind = "block"
    BY DEF Nested, OpenOK
  <2>3. QED
    BY <1>1, <1>4, <2>1, <2>2 DEF OpenOK
<1>6. \A i : EndedBefore(b, i, N) <=> EndedBefore(a, i, N + 1)
  <2>1. \A i : EndedBefore(b, i, N) <=> EndedBefore(a, i, N)
    <3>1. SameBefore(a, b, N)
      BY <1>1 DEF SameBefore
    <3>2. QED
      BY <1>1, <3>1, EnclosesSame
  <2>2. \A i : EndedBefore(a, i, N + 1) <=> EndedBefore(a, i, N)
    <3>1. \A c \in 1 .. N + 1 - 1 : a[c].kind \in Closers => c \in 1 .. N - 1
      BY <1>1, <1>2 DEF Closers
    <3>2. \A c \in 1 .. N - 1 : c \in 1 .. N + 1 - 1
      BY <1>1
    <3>3. \A i : EndedBefore(a, i, N + 1) => EndedBefore(a, i, N)
      BY <3>1 DEF EndedBefore
    <3>4. \A i : EndedBefore(a, i, N) => EndedBefore(a, i, N + 1)
      BY <3>2 DEF EndedBefore
    <3>5. QED
      BY <3>3, <3>4
  <2>3. QED
    BY <2>1, <2>2
<1>7. Unended(fs, b)
  <2>1. Len(b) + 1 = N
    BY <1>1
  <2>2. \A i \in 1 .. N - 1 : a[i].kind \in Openers =>
          (EndedBefore(a, i, N + 1) <=> ~\E k \in 1 .. Len(fs) : fs[k].node = i)
    BY <1>1 DEF Nested, Unended
  <2>3. QED
    BY <1>1, <1>6, <2>1, <2>2 DEF Unended
<1>8. Nested(fs, b)
  BY <1>3, <1>5, <1>7 DEF Nested
<1>9. QED
  BY <1>8 DEF b

-----------------------------------------------------------------------------
(* The stacks of the parser. *)

\* A construct of another kind is opened.
LEMMA TracksOther ==
  ASSUME NEW s, NEW fs \in Seq(Frame), NEW kinds, Tracks(s, fs, kinds),
         NEW f \in Frame, f.kind \notin kinds
  PROVE  Tracks(s, Append(fs, f), kinds)
<1> DEFINE gs == Append(fs, f)
           L == Len(fs)
<1>1. /\ Len(gs) = L + 1 /\ L \in Nat /\ gs[L + 1] = f
      /\ \A k \in 1 .. L : gs[k] = fs[k] /\ k \in 1 .. L + 1
      /\ \A k \in 1 .. L + 1 : k \in 1 .. L \/ k = L + 1
  BY AppendParts
<1> HIDE DEF gs, L
<1>2. /\ s \in Seq(Nat)
      /\ \A k \in 1 .. Len(s) : \A l \in 1 .. k - 1 : s[l] < s[k]
      /\ \A k \in 1 .. Len(s) : \E l \in 1 .. L : fs[l].kind \in kinds /\ s[k] = fs[l].node
      /\ \A l \in 1 .. L : fs[l].kind \in kinds => \E k \in 1 .. Len(s) : s[k] = fs[l].node
  BY DEF Tracks, L
<1>3. \A k \in 1 .. Len(s) : \E l \in 1 .. L + 1 : gs[l].kind \in kinds /\ s[k] = gs[l].node
  <2> SUFFICES ASSUME NEW k \in 1 .. Len(s)
               PROVE  \E l \in 1 .. L + 1 : gs[l].kind \in kinds /\ s[k] = gs[l].node
    OBVIOUS
  <2>1. PICK l \in 1 .. L : fs[l].kind \in kinds /\ s[k] = fs[l].node
    BY <1>2
  <2>2. QED
    BY <1>1, <2>1
<1>4. \A l \in 1 .. L + 1 : gs[l].kind \in kinds => \E k \in 1 .. Len(s) : s[k] = gs[l].node
  BY <1>1, <1>2
<1>5. Tracks(s, gs, kinds)
  BY <1>1, <1>2, <1>3, <1>4 DEF Tracks
<1>6. QED
  BY <1>5 DEF gs

\* One of the kinds is opened and pushed.
LEMMA TracksPush ==
  ASSUME NEW s, NEW fs, NEW a, NEW kinds, Nested(fs, a), Tracks(s, fs, kinds),
         NEW f \in Frame, f.kind \in kinds, f.node = Len(a) + 1
  PROVE  Tracks(Append(s, Len(a) + 1), Append(fs, f), kinds)
<1> DEFINE gs == Append(fs, f)
           L == Len(fs)
           N == Len(a) + 1
           t == Append(s, N)
           S == Len(s)
<1>1. fs \in Seq(Frame) /\ s \in Seq(Nat) /\ N \in Nat
  BY DEF Nested, OpenOK, Tracks
<1>2. /\ Len(gs) = L + 1 /\ L \in Nat /\ gs[L + 1] = f
      /\ \A k \in 1 .. L : gs[k] = fs[k] /\ k \in 1 .. L + 1
      /\ \A k \in 1 .. L + 1 : k \in 1 .. L \/ k = L + 1
      /\ L + 1 \in 1 .. L + 1
  BY <1>1, AppendParts
<1>3. /\ t \in Seq(Nat) /\ Len(t) = S + 1 /\ S \in Nat /\ t[S + 1] = N
      /\ \A k \in 1 .. S : t[k] = s[k] /\ k \in 1 .. S + 1
      /\ \A k \in 1 .. S + 1 : k \in 1 .. S \/ k = S + 1
      /\ S + 1 \in 1 .. S + 1
  BY <1>1, AppendParts
<1>4. \A l \in 1 .. L : fs[l].node \in 1 .. Len(a)
  BY DEF Nested, OpenOK
<1> HIDE DEF gs, L, t, S
<1>5. /\ \A k \in 1 .. S : \A l \in 1 .. k - 1 : s[l] < s[k]
      /\ \A k \in 1 .. S : \E l \in 1 .. L : fs[l].kind \in kinds /\ s[k] = fs[l].node
      /\ \A l \in 1 .. L : fs[l].kind \in kinds => \E k \in 1 .. S : s[k] = fs[l].node
  BY DEF Tracks, L, S
<1>6. \A k \in 1 .. S : s[k] < N
  BY SMTT(60), <1>1, <1>4, <1>5
<1>7. \A k \in 1 .. S + 1 : \A l \in 1 .. k - 1 : t[l] < t[k]
  <2> SUFFICES ASSUME NEW k \in 1 .. S + 1, NEW l \in 1 .. k - 1 PROVE t[l] < t[k]
    OBVIOUS
  <2>1. l \in 1 .. S /\ t[l] = s[l]
    BY <1>3
  <2>2. QED
    BY <1>3, <1>5, <1>6, <2>1
<1>8. \A k \in 1 .. S + 1 : \E l \in 1 .. L + 1 : gs[l].kind \in kinds /\ t[k] = gs[l].node
  <2> SUFFICES ASSUME NEW k \in 1 .. S + 1
               PROVE  \E l \in 1 .. L + 1 : gs[l].kind \in kinds /\ t[k] = gs[l].node
    OBVIOUS
  <2>1. CASE k \in 1 .. S
    <3>1. PICK l \in 1 .. L : fs[l].kind \in kinds /\ s[k] = fs[l].node
      BY <1>5, <2>1
    <3>2. QED
      BY <1>2, <1>3, <2>1, <3>1
  <2>2. CASE k = S + 1
    BY <1>2, <1>3, <2>2
  <2>3. QED
    BY <1>3, <2>1, <2>2
<1>9. \A l \in 1 .. L + 1 : gs[l].kind \in kinds => \E k \in 1 .. S + 1 : t[k] = gs[l].node
  <2> SUFFICES ASSUME NEW l \in 1 .. L + 1, gs[l].kind \in kinds
               PROVE  \E k \in 1 .. S + 1 : t[k] = gs[l].node
    OBVIOUS
  <2>1. CASE l \in 1 .. L
    BY ZenonT(60), <1>2, <1>3, <1>5, <2>1
  <2>2. CASE l = L + 1
    BY <1>2, <1>3, <2>2
  <2>3. QED
    BY <1>2, <2>1, <2>2
<1>10. Tracks(t, gs, kinds)
  BY <1>2, <1>3, <1>7, <1>8, <1>9 DEF Tracks
<1>11. QED
  BY <1>10 DEF t, gs

\* The innermost construct, of another kind, is closed.
LEMMA TracksLeave ==
  ASSUME NEW s, NEW fs \in Seq(Frame), fs # <<>>, NEW kinds, Tracks(s, fs, kinds),
         Last(fs).kind \notin kinds
  PROVE  Tracks(s, Front(fs), kinds)
<1> DEFINE gs == Front(fs)
           L == Len(fs)
<1>1. /\ Len(gs) = L - 1 /\ L \in Nat
      /\ \A k \in 1 .. L - 1 : gs[k] = fs[k] /\ k \in 1 .. L
      /\ \A k \in 1 .. L : k \in 1 .. L - 1 \/ k = L
      /\ fs[L].kind \notin kinds
  <2>1. L \in Nat /\ L >= 1 /\ Len(gs) = L - 1 /\ \A k \in 1 .. L - 1 : gs[k] = fs[k]
    BY FrontType
  <2>2. QED
    BY <2>1, LastType
<1> HIDE DEF gs, L
<1>2. /\ s \in Seq(Nat)
      /\ \A k \in 1 .. Len(s) : \A l \in 1 .. k - 1 : s[l] < s[k]
      /\ \A k \in 1 .. Len(s) : \E l \in 1 .. L : fs[l].kind \in kinds /\ s[k] = fs[l].node
      /\ \A l \in 1 .. L : fs[l].kind \in kinds => \E k \in 1 .. Len(s) : s[k] = fs[l].node
  BY DEF Tracks, L
<1>3. \A k \in 1 .. Len(s) : \E l \in 1 .. L - 1 : gs[l].kind \in kinds /\ s[k] = gs[l].node
  BY ZenonT(60), <1>1, <1>2
<1>4. \A l \in 1 .. L - 1 : gs[l].kind \in kinds => \E k \in 1 .. Len(s) : s[k] = gs[l].node
  BY ZenonT(60), <1>1, <1>2
<1>5. Tracks(s, gs, kinds)
  BY <1>1, <1>2, <1>3, <1>4 DEF Tracks
<1>6. QED
  BY <1>5 DEF gs

\* The top of the stack is the innermost open construct of the kinds.
LEMMA TracksTop ==
  ASSUME NEW s, NEW fs, NEW a, NEW kinds, Nested(fs, a), Tracks(s, fs, kinds), s # <<>>
  PROVE  /\ \E l \in 1 .. Len(fs) : fs[l].kind \in kinds /\ Last(s) = fs[l].node
         /\ \A l \in 1 .. Len(fs) : fs[l].kind \in kinds => fs[l].node <= Last(s)
<1> DEFINE S == Len(s)
<1>1. s \in Seq(Nat) /\ S \in Nat /\ S \in 1 .. S /\ Last(s) = s[S]
  BY DEF Tracks, Last
<1>2. /\ \A k \in 1 .. S : \A l \in 1 .. k - 1 : s[l] < s[k]
      /\ \A k \in 1 .. S : \E l \in 1 .. Len(fs) : fs[l].kind \in kinds /\ s[k] = fs[l].node
      /\ \A l \in 1 .. Len(fs) : fs[l].kind \in kinds => \E k \in 1 .. S : s[k] = fs[l].node
  BY DEF Tracks
<1>3. \A k \in 1 .. S : s[k] <= s[S]
  <2> SUFFICES ASSUME NEW k \in 1 .. S PROVE s[k] <= s[S]
    OBVIOUS
  <2>1. k = S \/ k \in 1 .. S - 1
    BY <1>1
  <2>2. s[k] \in Nat /\ s[S] \in Nat
    BY <1>1
  <2>3. \A l \in 1 .. S - 1 : s[l] < s[S]
    BY <1>1, <1>2
  <2>4. QED
    BY <2>1, <2>2, <2>3
<1>4. QED
  BY ZenonT(60), <1>1, <1>2, <1>3

\* One of the kinds is closed and popped.
LEMMA TracksPop ==
  ASSUME NEW s, NEW fs, NEW a, NEW kinds, Nested(fs, a), fs # <<>>, Tracks(s, fs, kinds),
         Last(fs).kind \in kinds
  PROVE  s # <<>> /\ Tracks(Front(s), Front(fs), kinds)
<1> DEFINE gs == Front(fs)
           L == Len(fs)
           t == Front(s)
           S == Len(s)
<1>1. fs \in Seq(Frame) /\ s \in Seq(Nat)
  BY DEF Nested, OpenOK, Tracks
<1>2. /\ Len(gs) = L - 1 /\ L \in Nat
      /\ \A k \in 1 .. L - 1 : gs[k] = fs[k] /\ k \in 1 .. L
      /\ \A k \in 1 .. L : k \in 1 .. L - 1 \/ k = L
      /\ Last(fs) = fs[L] /\ L \in 1 .. L
  <2>1. L \in Nat /\ L >= 1 /\ Len(gs) = L - 1 /\ \A k \in 1 .. L - 1 : gs[k] = fs[k]
    BY <1>1, FrontType
  <2>2. QED
    BY <1>1, <2>1, LastType
<1>3. /\ \A k \in 1 .. L : fs[k].node \in Nat
      /\ \A l \in 1 .. L - 1 : fs[l].node < fs[L].node
  <2>1. \A k \in 1 .. L : fs[k] \in Frame
    BY <1>1
  <2>2. QED
    BY <1>2, <2>1 DEF Nested, OpenOK, Frame
<1> HIDE DEF L, S
<1>4. /\ \A k \in 1 .. S : \A l \in 1 .. k - 1 : s[l] < s[k]
      /\ \A k \in 1 .. S : \E l \in 1 .. L : fs[l].kind \in kinds /\ s[k] = fs[l].node
      /\ \A l \in 1 .. L : fs[l].kind \in kinds => \E k \in 1 .. S : s[k] = fs[l].node
  BY DEF Tracks, L, S
<1>5. s # <<>>
  <2>1. S # 0
    BY <1>2, <1>4
  <2>2. QED
    BY <1>1, <2>1 DEF S
<1>6. /\ t \in Seq(Nat) /\ Len(t) = S - 1 /\ S \in Nat
      /\ \A k \in 1 .. S - 1 : t[k] = s[k] /\ k \in 1 .. S
      /\ \A k \in 1 .. S : k \in 1 .. S - 1 \/ k = S
      /\ S \in 1 .. S /\ \A k \in 1 .. S : s[k] \in Nat
  <2>1. S \in Nat /\ S >= 1 /\ t \in Seq(Nat) /\ Len(t) = S - 1 /\ \A k \in 1 .. S - 1 : t[k] = s[k]
    BY <1>1, <1>5, FrontType DEF S
  <2>2. QED
    BY SMTT(60), <1>1, <2>1 DEF S
<1> HIDE DEF gs, t
<1>7. s[S] = fs[L].node
  <2>1. PICK l \in 1 .. L : fs[l].kind \in kinds /\ s[S] = fs[l].node
    BY <1>4, <1>6
  <2>2. PICK k \in 1 .. S : s[k] = fs[L].node
    BY <1>2, <1>4
  <2>3. l = L \/ fs[l].node < fs[L].node
    BY <1>2, <1>3
  <2>4. k = S \/ s[k] < s[S]
    BY <1>4, <1>6
  <2>5. fs[L].node \in Nat /\ s[S] \in Nat
    BY <1>2, <1>3, <1>6
  <2>6. QED
    BY <2>1, <2>2, <2>3, <2>4, <2>5
<1>8. \A k \in 1 .. S - 1 : \E l \in 1 .. L - 1 : gs[l].kind \in kinds /\ t[k] = gs[l].node
  <2> SUFFICES ASSUME NEW k \in 1 .. S - 1
               PROVE  \E l \in 1 .. L - 1 : gs[l].kind \in kinds /\ t[k] = gs[l].node
    OBVIOUS
  <2>1. k \in 1 .. S /\ t[k] = s[k] /\ s[k] < s[S] /\ s[k] \in Nat
    BY <1>4, <1>6
  <2>2. PICK l \in 1 .. L : fs[l].kind \in kinds /\ s[k] = fs[l].node
    BY <1>4, <2>1
  <2>3. l # L
    BY <1>6, <1>7, <2>1, <2>2
  <2>4. QED
    BY <1>2, <2>1, <2>2, <2>3
<1>9. \A l \in 1 .. L - 1 : gs[l].kind \in kinds => \E k \in 1 .. S - 1 : t[k] = gs[l].node
  <2> SUFFICES ASSUME NEW l \in 1 .. L - 1, gs[l].kind \in kinds
               PROVE  \E k \in 1 .. S - 1 : t[k] = gs[l].node
    OBVIOUS
  <2>1. l \in 1 .. L /\ gs[l] = fs[l] /\ fs[l].node < fs[L].node /\ fs[l].node \in Nat
    BY <1>2, <1>3
  <2>2. PICK k \in 1 .. S : s[k] = fs[l].node
    BY <1>4, <2>1
  <2>3. k # S
    BY <1>7, <2>1, <2>2
  <2>4. QED
    BY <1>6, <2>1, <2>2, <2>3
<1>10. \A k \in 1 .. S - 1 : \A l \in 1 .. k - 1 : t[l] < t[k]
  <2> SUFFICES ASSUME NEW k \in 1 .. S - 1, NEW l \in 1 .. k - 1 PROVE t[l] < t[k]
    OBVIOUS
  <2>1. k \in 1 .. S /\ t[k] = s[k] /\ t[l] = s[l]
    BY <1>6
  <2>2. QED
    BY <1>4, <2>1
<1>11. Tracks(t, gs, kinds)
  BY <1>2, <1>6, <1>8, <1>9, <1>10 DEF Tracks
<1>12. QED
  BY <1>5, <1>11 DEF t, gs

\* So a jump that is given the top goes where C says.
LEMMA TopBinds ==
  ASSUME NEW s, NEW fs, NEW a, NEW kinds, Nested(fs, a), Tracks(s, fs, kinds), s # <<>>,
         kinds \subseteq Openers, "if" \notin kinds, "else" \notin kinds
  PROVE  Binds(a, Last(s), Len(a) + 1, kinds)
<1> DEFINE N == Len(a) + 1
           i == Last(s)
<1>1. /\ \E l \in 1 .. Len(fs) : fs[l].kind \in kinds /\ i = fs[l].node
      /\ \A l \in 1 .. Len(fs) : fs[l].kind \in kinds => fs[l].node <= i
  BY TracksTop
<1> HIDE DEF i
<1>2. \A l \in 1 .. Len(fs) : /\ fs[l].node \in 1 .. Len(a)
                              /\ a[fs[l].node].kind \in kinds <=> fs[l].kind \in kinds
  BY DEF Nested, OpenOK, Construct
<1>3. Len(a) \in Nat /\ \A h : h \in 1 .. N - 1 <=> h \in 1 .. Len(a)
  BY DEF Nested, OpenOK
<1>4. Encloses(a, i, N, kinds)
  <2>1. PICK l \in 1 .. Len(fs) : fs[l].kind \in kinds /\ i = fs[l].node
    BY <1>1
  <2>2. i \in 1 .. Len(a) /\ a[i].kind \in kinds
    BY <1>2, <2>1
  <2>3. ~EndedBefore(a, i, N)
    BY <2>1, <2>2 DEF Nested, Unended
  <2>4. QED
    BY <1>3, <2>2, <2>3 DEF Encloses
<1>5. ASSUME NEW h \in 1 .. N - 1, Encloses(a, h, N, kinds) PROVE h <= i
  <2>1. h \in 1 .. Len(a) /\ a[h].kind \in kinds /\ ~EndedBefore(a, h, N)
    BY <1>3, <1>5 DEF Encloses
  <2>2. PICK k \in 1 .. Len(fs) : fs[k].node = h
    BY <2>1 DEF Nested, Unended
  <2>3. fs[k].kind \in kinds
    BY <1>2, <2>1, <2>2
  <2>4. QED
    BY <1>1, <2>2, <2>3
<1>6. Binds(a, i, N, kinds)
  BY <1>4, <1>5 DEF Binds
<1>7. QED
  BY <1>6 DEF i

-----------------------------------------------------------------------------
(* The parser's steps. *)

\* The statement of an else has been parsed.
LEMMA AfterStmtNoElse ==
  ASSUME NEW fs \in Seq(Frame), NEW a
  PROVE  ElsePending(AfterStmt(fs), a)
<1>1. CASE fs = <<>> \/ Last(fs).kind \in {"block"} \cup Sections
  BY <1>1 DEF AfterStmt, ElsePending, Sections
<1>2. CASE fs # <<>> /\ Last(fs).kind \notin {"block"} \cup Sections
  <2> DEFINE L == Len(fs)
  <2>1. L \in Nat /\ L \in 1 .. L /\ fs[L] \in Frame
    BY <1>2
  <2> DEFINE f == [fs[L] EXCEPT !.done = TRUE]
  <2>2. f \in Frame /\ f.done
    BY <2>1 DEF Frame
  <2>3. AfterStmt(fs) = [fs EXCEPT ![L] = f]
    BY <1>2 DEF AfterStmt
  <2> HIDE DEF f
  <2> DEFINE gs == [fs EXCEPT ![L] = f]
  <2>4. gs \in Seq(Frame) /\ Len(gs) = L /\ gs[L] = f
    BY <2>1, <2>2
  <2> HIDE DEF gs
  <2>5. Last(gs) = f
    BY <2>4 DEF Last
  <2>6. ElsePending(gs, a)
    BY <2>2, <2>5 DEF ElsePending
  <2>7. QED
    BY <2>3, <2>6 DEF gs
<1>3. QED
  BY <1>1, <1>2

\* The stacks and what they hold of the open constructs.
Stacks(bs, cs, ss, fs) ==
    /\ Tracks(bs, fs, Breakable)
    /\ Tracks(cs, fs, Loops)
    /\ Tracks(ss, fs, {"switch"})

\* Frames of the same constructs go with the same stacks.
LEMMA SameStacks ==
  ASSUME NEW bs, NEW cs, NEW ss, NEW fs, Stacks(bs, cs, ss, fs), NEW gs, SameFrames(fs, gs)
  PROVE  Stacks(bs, cs, ss, gs)
<1>1. /\ "if" \notin Breakable /\ "else" \notin Breakable
      /\ "if" \notin Loops /\ "else" \notin Loops
      /\ "if" \notin {"switch"} /\ "else" \notin {"switch"}
  BY DEF Breakable, Loops
<1>2. QED
  BY <1>1, SameTracks DEF Stacks

\* A simple statement.
LEMMA SimpleNested ==
  ASSUME NestInv, NEW d \in Node, d.kind \in {"expr", "return", "break", "continue"}, d.opener = 0,
         JumpsAt(ast, d, Len(ast) + 1), Simple(d)
  PROVE  NestInv'
<1>1. /\ outcome = "parsing" /\ outcome' = outcome /\ open # <<>>
      /\ ast' = Append(ast, d) /\ open' = AfterStmt(open) /\ next' = "any"
      /\ breakNodes' = breakNodes /\ continueNodes' = continueNodes
      /\ switchNodes' = switchNodes /\ defaultStmts' = defaultStmts
  BY DEF Simple, AtStmt, InFrame
<1>2. /\ Nested(open, ast) /\ open \in Seq(Frame)
      /\ Stacks(breakNodes, continueNodes, switchNodes, open)
      /\ defaultStmts \subseteq Nat
  BY DEF NestInv, Nested, OpenOK, Stacks
<1>3. d.kind \notin Openers \cup Closers \cup {"else"}
  BY DEF Openers, Closers
<1>4. Nested(open, Append(ast, d))
  <2>1. EndsAt(ast, d, Len(ast) + 1)
    BY <1>3 DEF EndsAt
  <2>2. QED
    BY <1>2, <1>3, <2>1, NestedPlain
<1>5. SameFrames(open, open')
  BY <1>1, <1>2, AfterStmtSame
<1>6. Nested(open', ast') /\ Stacks(breakNodes, continueNodes, switchNodes, open')
  BY <1>1, <1>2, <1>4, <1>5, SameNested, SameStacks
<1>7. ElsePending(open', ast')
  BY <1>1, <1>2, AfterStmtNoElse
<1>8. open' # <<>>
  BY <1>1, <1>2, <1>5 DEF SameFrames
<1>9. QED
  BY <1>1, <1>2, <1>6, <1>7, <1>8 DEF NestInv, Stacks

\* A construct is opened; the caller says what becomes of the stacks.
LEMMA EnterNested ==
  ASSUME NestInv, AtStmt, NEW kind \in Openers, NEW d \in Node, d.kind = kind, d.opener = 0,
         kind \in Sections => switchNodes # <<>>,
         Enter(kind, d)
  PROVE  /\ outcome' = "parsing" /\ open' # <<>> /\ next' = "any"
         /\ Nested(open', ast') /\ ElsePending(open', ast')
         /\ \E f \in Frame : f.kind = kind /\ f.node = Len(ast) + 1 /\ open' = Append(open, f)
<1> DEFINE f == [kind |-> kind, node |-> Len(ast) + 1, done |-> FALSE]
<1>1. /\ outcome' = "parsing" /\ open # <<>> /\ next' = "any"
      /\ ast' = Append(ast, d) /\ open' = Append(open, f)
  BY DEF Enter, AtStmt, InFrame
<1>2. /\ Nested(open, ast) /\ open \in Seq(Frame) /\ ast \in Seq(Node)
      /\ Tracks(switchNodes, open, {"switch"})
  BY DEF NestInv, Nested, OpenOK
<1>3. f \in Frame /\ f.kind = kind /\ f.node = Len(ast) + 1 /\ f.done = FALSE
  BY <1>2 DEF Frame
<1> HIDE DEF f
<1>4. kind \in Sections => \E l \in 1 .. Len(open) : open[l].kind = "switch"
  BY <1>2, TracksTop
<1>5. Nested(open', ast')
  BY <1>1, <1>2, <1>3, <1>4, NestedOpen
<1>6. open' # <<>> /\ Last(open') = f
  BY <1>1, <1>2, <1>3, PushTop
<1>7. ElsePending(open', ast')
  BY <1>3, <1>6 DEF ElsePending, Openers
<1>8. QED
  BY <1>1, <1>3, <1>5, <1>6, <1>7

\* A construct is closed; the caller says what becomes of the stacks.
LEMMA LeaveNested ==
  ASSUME NestInv, outcome = "parsing", Last(open).kind = "block" => Len(open) > 1,
         NEW d \in Node, d.kind = CloserOf[Construct(Last(open).kind)], d.opener = Last(open).node,
         ast' = Append(ast, d), open' = AfterStmt(Front(open)), outcome' = outcome
  PROVE  /\ outcome' = "parsing" /\ open' # <<>>
         /\ Nested(open', ast') /\ ElsePending(open', ast')
         /\ SameFrames(Front(open), open')
<1>1. /\ Nested(open, ast) /\ open \in Seq(Frame) /\ open # <<>> /\ ast \in Seq(Node)
  BY DEF NestInv, Nested, OpenOK
<1>2. Nested(Front(open), ast')
  BY <1>1, NestedClose
<1>3. Front(open) \in Seq(Frame) /\ Len(Front(open)) = Len(open) - 1 /\ Len(open) \in Nat
  BY <1>1, FrontType
<1>4. SameFrames(Front(open), open')
  BY <1>3, AfterStmtSame
<1>5. Nested(open', ast') /\ ElsePending(open', ast')
  BY <1>2, <1>3, <1>4, SameNested, AfterStmtNoElse
<1>6. Len(open) > 1
  <2>1. open[1].kind = "block"
    BY <1>1 DEF Nested, OpenOK
  <2>2. Len(open) >= 1 /\ Last(open) = open[Len(open)]
    BY <1>1, LastType
  <2>3. QED
    BY <1>3, <2>1, <2>2
<1>7. open' # <<>>
  BY <1>3, <1>4, <1>6 DEF SameFrames
<1>8. QED
  BY <1>4, <1>5, <1>7

\* Frames without their last one.
LEMMA StacksLeave ==
  ASSUME NEW bs, NEW cs, NEW ss, NEW fs, NEW a, Nested(fs, a), fs # <<>>, Stacks(bs, cs, ss, fs)
  PROVE  /\ Last(fs).kind \notin Breakable => Stacks(bs, cs, ss, Front(fs))
         /\ Last(fs).kind \in Loops => Stacks(Front(bs), Front(cs), ss, Front(fs))
         /\ Last(fs).kind = "switch" => Stacks(Front(bs), cs, Front(ss), Front(fs)) /\ ss # <<>>
<1>1. fs \in Seq(Frame)
  BY DEF Nested, OpenOK
<1>2. Last(fs).kind \notin Breakable => Stacks(bs, cs, ss, Front(fs))
  BY <1>1, TracksLeave DEF Stacks, Breakable, Loops
<1>3. Last(fs).kind \in Loops => Stacks(Front(bs), Front(cs), ss, Front(fs))
  BY <1>1, TracksLeave, TracksPop DEF Stacks, Breakable, Loops
<1>4. Last(fs).kind = "switch" => Stacks(Front(bs), cs, Front(ss), Front(fs)) /\ ss # <<>>
  BY <1>1, TracksLeave, TracksPop DEF Stacks, Breakable, Loops
<1>5. QED
  BY <1>2, <1>3, <1>4

\* Frames with one more.
LEMMA StacksEnter ==
  ASSUME NEW bs, NEW cs, NEW ss, NEW fs, NEW a, Nested(fs, a), Stacks(bs, cs, ss, fs),
         NEW f \in Frame, f.node = Len(a) + 1
  PROVE  /\ f.kind \notin Breakable => Stacks(bs, cs, ss, Append(fs, f))
         /\ f.kind \in Loops =>
              Stacks(Append(bs, Len(a) + 1), Append(cs, Len(a) + 1), ss, Append(fs, f))
         /\ f.kind = "switch" =>
              Stacks(Append(bs, Len(a) + 1), cs, Append(ss, Len(a) + 1), Append(fs, f))
<1>1. fs \in Seq(Frame)
  BY DEF Nested, OpenOK
<1>2. f.kind \notin Breakable => Stacks(bs, cs, ss, Append(fs, f))
  BY <1>1, TracksOther DEF Stacks, Breakable, Loops
<1>3. f.kind \in Loops =>
        Stacks(Append(bs, Len(a) + 1), Append(cs, Len(a) + 1), ss, Append(fs, f))
  BY <1>1, TracksOther, TracksPush DEF Stacks, Breakable, Loops
<1>4. f.kind = "switch" =>
        Stacks(Append(bs, Len(a) + 1), cs, Append(ss, Len(a) + 1), Append(fs, f))
  BY <1>1, TracksOther, TracksPush DEF Stacks, Breakable, Loops
<1>5. QED
  BY <1>2, <1>3, <1>4

\* An error is reported, or the parser is undefined from here on.
LEMMA StoppedNested ==
  ASSUME NestInv, outcome' \in {"rejected", "undefined"},
         UNCHANGED <<open, next, breakNodes, continueNodes, switchNodes, defaultStmts, ast>>
  PROVE  NestInv'
BY DEF NestInv

\* A node with no more than a kind.
LEMMA MkType ==
  ASSUME NEW kind \in {"expr", "return", "break", "continue", "endfunc"} \cup Openers, NEW b \in BOOLEAN
  PROVE  /\ Mk(kind) \in Node /\ Mk(kind).kind = kind /\ Mk(kind).opener = 0
         /\ Expression(kind, b) \in Node /\ Expression(kind, b).kind = kind
         /\ Expression(kind, b).opener = 0
         /\ \A t \in Nat : LET d == [Mk(kind) EXCEPT !.target = t]
                           IN  d \in Node /\ d.kind = kind /\ d.opener = 0 /\ d.target = t
BY DEF Mk, Expression, Node

\* The node of an end.
LEMMA EndType ==
  ASSUME NEW kind \in Closers \cup {"else"}, NEW i \in Nat, NEW b \in BOOLEAN
  PROVE  /\ End(kind, i) \in Node /\ End(kind, i).kind = kind /\ End(kind, i).opener = i
         /\ LET d == [End(kind, i) EXCEPT !.branching = b]
            IN  d \in Node /\ d.kind = kind /\ d.opener = i
BY DEF Mk, End, Node

\* Statements without a statement in them.
LEMMA ExprNested ==
  ASSUME NestInv, NEW b \in BOOLEAN, ExprStmt(b) \/ ReturnStmt
  PROVE  NestInv'
<1>1. CASE ExprStmt(b)
  <2> DEFINE d == Expression("expr", b)
  <2>1. d \in Node /\ d.kind = "expr" /\ d.opener = 0
    BY MkType
  <2>2. Simple(d)
    BY <1>1 DEF ExprStmt
  <2> HIDE DEF d
  <2>3. QED
    BY <2>1, <2>2, SimpleNested DEF JumpsAt
<1>2. CASE ReturnStmt
  <2> DEFINE d == Mk("return")
  <2>1. d \in Node /\ d.kind = "return" /\ d.opener = 0
    BY MkType
  <2>2. Simple(d)
    BY <1>2 DEF ReturnStmt
  <2> HIDE DEF d
  <2>3. QED
    BY <2>1, <2>2, SimpleNested DEF JumpsAt
<1>3. QED
  BY <1>1, <1>2

\* break and continue go to the top of their stack.
LEMMA JumpNested ==
  ASSUME NestInv, BreakStmt \/ ContinueStmt
  PROVE  NestInv'
<1>0. /\ Nested(open, ast) /\ Tracks(breakNodes, open, Breakable) /\ Tracks(continueNodes, open, Loops)
      /\ breakNodes \in Seq(Nat) /\ continueNodes \in Seq(Nat)
  BY DEF NestInv, Tracks
<1>1. CASE BreakStmt /\ breakNodes = <<>>
  BY <1>1, StoppedNested DEF BreakStmt, Report
<1>2. CASE BreakStmt /\ breakNodes # <<>>
  <2> DEFINE t == Last(breakNodes)
             d == [Mk("break") EXCEPT !.target = t]
  <2>1. t \in Nat
    BY <1>0, <1>2, LastType
  <2>2. d \in Node /\ d.kind = "break" /\ d.opener = 0 /\ d.target = t
    BY <2>1, MkType
  <2>3. Simple(d)
    BY <1>2 DEF BreakStmt
  <2>4. Binds(ast, t, Len(ast) + 1, Breakable)
    BY <1>0, <1>2, TopBinds DEF Breakable, Openers
  <2> HIDE DEF d
  <2>5. JumpsAt(ast, d, Len(ast) + 1)
    BY <2>2, <2>4 DEF JumpsAt
  <2>6. QED
    BY <2>2, <2>3, <2>5, SimpleNested
<1>3. CASE ContinueStmt /\ continueNodes = <<>>
  BY <1>3, StoppedNested DEF ContinueStmt, Report
<1>4. CASE ContinueStmt /\ continueNodes # <<>>
  <2> DEFINE t == Last(continueNodes)
             d == [Mk("continue") EXCEPT !.target = t]
  <2>1. t \in Nat
    BY <1>0, <1>4, LastType
  <2>2. d \in Node /\ d.kind = "continue" /\ d.opener = 0 /\ d.target = t
    BY <2>1, MkType
  <2>3. Simple(d) \/ (breakNodes = <<>> /\ Report)
    BY <1>4 DEF ContinueStmt
  <2>4. Binds(ast, t, Len(ast) + 1, Loops)
    BY <1>0, <1>4, TopBinds DEF Loops, Openers
  <2> HIDE DEF d
  <2>5. JumpsAt(ast, d, Len(ast) + 1)
    BY <2>2, <2>4 DEF JumpsAt
  <2>6. CASE Simple(d)
    BY <2>2, <2>5, <2>6, SimpleNested
  <2>7. CASE Report
    BY <2>7, StoppedNested DEF Report
  <2>8. QED
    BY <2>3, <2>6, <2>7
<1>5. QED
  BY <1>1, <1>2, <1>3, <1>4

\* A null statement where a construct needs one.
LEMMA NullNested ==
  ASSUME NestInv, NullStmt
  PROVE  NestInv'
<1>1. /\ outcome = "parsing" /\ outcome' = outcome /\ open # <<>> /\ ~Last(open).done
      /\ ast' = (IF Last(open).kind = "else" THEN Front(ast) ELSE ast)
      /\ open' = AfterStmt(open) /\ next' = "any"
      /\ breakNodes' = breakNodes /\ continueNodes' = continueNodes
      /\ switchNodes' = switchNodes /\ defaultStmts' = defaultStmts
  BY DEF NullStmt, AtStmt, InFrame, Top
<1>2. /\ Nested(open, ast) /\ open \in Seq(Frame) /\ ElsePending(open, ast)
      /\ Stacks(breakNodes, continueNodes, switchNodes, open)
      /\ defaultStmts \subseteq Nat
  BY DEF NestInv, Nested, OpenOK, Stacks
<1>3. Nested(open, ast')
  <2>1. CASE Last(open).kind = "else"
    <3>1. ast # <<>> /\ Last(ast).kind = "else"
      BY <1>1, <1>2, <2>1 DEF ElsePending
    <3>2. QED
      BY <1>1, <1>2, <2>1, <3>1, NestedFront
  <2>2. CASE Last(open).kind # "else"
    BY <1>1, <1>2, <2>2
  <2>3. QED
    BY <2>1, <2>2
<1>4. SameFrames(open, open')
  BY <1>1, <1>2, AfterStmtSame
<1>5. Nested(open', ast') /\ Stacks(breakNodes, continueNodes, switchNodes, open')
  BY <1>2, <1>3, <1>4, SameNested, SameStacks
<1>6. ElsePending(open', ast')
  BY <1>1, <1>2, AfterStmtNoElse
<1>7. open' # <<>>
  BY <1>1, <1>2, <1>4 DEF SameFrames
<1>8. QED
  BY <1>1, <1>2, <1>5, <1>6, <1>7 DEF NestInv, Stacks

\* A construct that is no target of a jump is opened.
LEMMA PlainOpened ==
  ASSUME NestInv, AtStmt, NEW kind \in Openers, kind \notin Breakable, NEW d \in Node, d.kind = kind,
         d.opener = 0, kind \in Sections => switchNodes # <<>>, Enter(kind, d),
         UNCHANGED <<breakNodes, continueNodes, switchNodes, defaultStmts>>
  PROVE  NestInv'
<1>1. /\ outcome' = "parsing" /\ open' # <<>> /\ next' = "any"
      /\ Nested(open', ast') /\ ElsePending(open', ast')
      /\ \E f \in Frame : f.kind = kind /\ f.node = Len(ast) + 1 /\ open' = Append(open, f)
  BY EnterNested
<1>2. Nested(open, ast) /\ Stacks(breakNodes, continueNodes, switchNodes, open) /\ defaultStmts \subseteq Nat
  BY DEF NestInv, Stacks
<1>3. Stacks(breakNodes, continueNodes, switchNodes, open')
  BY <1>1, <1>2, StacksEnter
<1>4. QED
  BY <1>1, <1>2, <1>3 DEF NestInv, Stacks

\* A loop.
LEMMA LoopOpened ==
  ASSUME NestInv, NEW kind \in Loops, NEW d \in Node, d.kind = kind, d.opener = 0, EnterLoop(kind, d)
  PROVE  NestInv'
<1>0. kind \in Openers /\ kind \notin Sections /\ AtStmt /\ Enter(kind, d)
  BY DEF Loops, Openers, Sections, EnterLoop
<1>1. /\ outcome' = "parsing" /\ open' # <<>> /\ next' = "any"
      /\ Nested(open', ast') /\ ElsePending(open', ast')
      /\ \E f \in Frame : f.kind = kind /\ f.node = Len(ast) + 1 /\ open' = Append(open, f)
  BY <1>0, EnterNested
<1>2. Nested(open, ast) /\ Stacks(breakNodes, continueNodes, switchNodes, open) /\ defaultStmts \subseteq Nat
  BY DEF NestInv, Stacks
<1>3. /\ breakNodes' = Append(breakNodes, Len(ast) + 1)
      /\ continueNodes' = Append(continueNodes, Len(ast) + 1)
      /\ switchNodes' = switchNodes /\ defaultStmts' = defaultStmts
  BY DEF EnterLoop
<1>4. Stacks(breakNodes', continueNodes', switchNodes, open')
  BY <1>1, <1>2, <1>3, StacksEnter
<1>5. QED
  BY <1>1, <1>2, <1>3, <1>4 DEF NestInv, Stacks

\* A switch.
LEMMA SwitchOpened ==
  ASSUME NestInv, SwitchStmt
  PROVE  NestInv'
<1> DEFINE d == Mk("switch")
<1>0. /\ d \in Node /\ d.kind = "switch" /\ d.opener = 0 /\ AtStmt /\ Enter("switch", d)
      /\ "switch" \in Openers /\ "switch" \notin Sections
  BY MkType DEF Openers, Sections, SwitchStmt
<1>1. /\ outcome' = "parsing" /\ open' # <<>> /\ next' = "any"
      /\ Nested(open', ast') /\ ElsePending(open', ast')
      /\ \E f \in Frame : f.kind = "switch" /\ f.node = Len(ast) + 1 /\ open' = Append(open, f)
  BY <1>0, EnterNested
<1>2. Nested(open, ast) /\ Stacks(breakNodes, continueNodes, switchNodes, open) /\ defaultStmts \subseteq Nat
  BY DEF NestInv, Stacks
<1>3. /\ breakNodes' = Append(breakNodes, Len(ast) + 1)
      /\ switchNodes' = Append(switchNodes, Len(ast) + 1)
      /\ continueNodes' = continueNodes /\ defaultStmts' = defaultStmts
  BY DEF SwitchStmt
<1>4. Stacks(breakNodes', continueNodes, switchNodes', open')
  BY <1>1, <1>2, <1>3, StacksEnter
<1>5. QED
  BY <1>1, <1>2, <1>3, <1>4 DEF NestInv, Stacks

\* Blocks, conditionals, loops and sections are opened.
LEMMA OpeningNested ==
  ASSUME NestInv, NEW b \in BOOLEAN, NEW c \in BOOLEAN,
         \/ OpenBlock \/ IfStmt(b) \/ ForStmt(c, b) \/ WhileStmt(c, b) \/ DoWhileStmt
         \/ CaseStmt \/ DefaultStmt
  PROVE  NestInv'
<1>0. /\ {"block", "if", "case", "default"} \subseteq Openers
      /\ {"block", "if", "case", "default"} \cap Breakable = {}
      /\ {"block", "if"} \cap Sections = {}
      /\ {"for", "do"} \subseteq Loops /\ Loops \subseteq Openers
  BY DEF Openers, Breakable, Loops, Sections
<1>1. CASE OpenBlock
  BY <1>0, <1>1, MkType, PlainOpened DEF OpenBlock
<1>2. CASE IfStmt(b)
  BY <1>0, <1>2, MkType, PlainOpened DEF IfStmt
<1>3. CASE ForStmt(c, b) \/ WhileStmt(c, b)
  <2> DEFINE e == Expression("for", b)
  <2>1. e \in Node /\ e.kind = "for" /\ e.opener = 0
    BY <1>0, MkType
  <2> DEFINE d == [e EXCEPT !.cond = c, !.inc = TRUE]
             w == [e EXCEPT !.cond = c]
  <2>2. EnterLoop("for", d) \/ EnterLoop("for", w)
    BY <1>3 DEF ForStmt, WhileStmt
  <2> HIDE DEF e
  <2>3. d \in Node /\ d.kind = "for" /\ d.opener = 0
    BY <2>1 DEF Node
  <2>4. w \in Node /\ w.kind = "for" /\ w.opener = 0
    BY <2>1 DEF Node
  <2> HIDE DEF d, w
  <2>5. QED
    BY <1>0, <2>2, <2>3, <2>4, LoopOpened
<1>4. CASE DoWhileStmt
  BY <1>0, <1>4, MkType, LoopOpened DEF DoWhileStmt
<1>5. CASE CaseStmt
  <2>1. CASE Report
    BY <2>1, StoppedNested DEF Report
  <2>2. CASE ~Report
    BY <1>0, <1>5, <2>2, MkType, PlainOpened DEF CaseStmt, AtLabel
  <2>3. QED
    BY <2>1, <2>2
<1>6. CASE DefaultStmt
  <2>1. CASE Report
    BY <2>1, StoppedNested DEF Report
  <2>2. CASE ~Report
    BY <1>0, <1>6, <2>2, MkType, PlainOpened DEF DefaultStmt, AtLabel
  <2>3. QED
    BY <2>1, <2>2
<1>7. QED
  BY <1>1, <1>2, <1>3, <1>4, <1>5, <1>6

\* The node of the innermost open construct.
LEMMA TopNode ==
  ASSUME NestInv, open # <<>>
  PROVE  /\ open \in Seq(Frame) /\ Nested(open, ast) /\ Last(open) \in Frame /\ Top = Last(open)
         /\ Last(open).node \in Nat
         /\ Stacks(breakNodes, continueNodes, switchNodes, open) /\ defaultStmts \subseteq Nat
         /\ next \in {"any", "notElse", "endSection"}
<1>1. open \in Seq(Frame) /\ Nested(open, ast) /\ defaultStmts \subseteq Nat
      /\ next \in {"any", "notElse", "endSection"}
      /\ Stacks(breakNodes, continueNodes, switchNodes, open)
  BY DEF NestInv, Nested, OpenOK, Stacks
<1>2. Last(open) \in Frame
  BY <1>1, LastType
<1>3. QED
  BY <1>1, <1>2 DEF Frame, Top

\* A construct that is no target of a jump is closed.
LEMMA PlainClosed ==
  ASSUME NestInv, outcome = "parsing", open # <<>>, Last(open).kind = "block" => Len(open) > 1,
         NEW kind, kind = CloserOf[Construct(Last(open).kind)], Last(open).kind \notin Breakable,
         NEW token \in {"any", "notElse", "endSection"}, Leave(kind, token),
         UNCHANGED <<breakNodes, continueNodes, switchNodes>>, defaultStmts' \subseteq Nat
  PROVE  NestInv'
<1> DEFINE d == End(kind, Top.node)
<1>1. /\ open \in Seq(Frame) /\ Nested(open, ast) /\ Last(open) \in Frame /\ Top = Last(open)
      /\ Last(open).node \in Nat /\ Stacks(breakNodes, continueNodes, switchNodes, open)
  BY TopNode
<1>2. kind \in Closers
  BY <1>1 DEF Frame, Construct, CloserOf, Closers, Openers
<1>3. d \in Node /\ d.kind = kind /\ d.opener = Last(open).node
  BY ZenonT(60), <1>1, <1>2, EndType
<1>4. /\ ast' = Append(ast, d) /\ open' = AfterStmt(Front(open)) /\ outcome' = outcome /\ next' = token
  BY DEF Leave
<1> HIDE DEF d
<1>5. /\ outcome' = "parsing" /\ open' # <<>>
      /\ Nested(open', ast') /\ ElsePending(open', ast')
      /\ SameFrames(Front(open), open')
  BY <1>3, <1>4, LeaveNested
<1>6. Stacks(breakNodes, continueNodes, switchNodes, open')
  BY <1>1, <1>5, StacksLeave, SameStacks
<1>7. QED
  BY <1>4, <1>5, <1>6 DEF NestInv, Stacks

\* A loop is closed.
LEMMA LoopClosed ==
  ASSUME NestInv, outcome = "parsing", open # <<>>, Last(open).kind \in Loops,
         NEW d \in Node, d.kind = CloserOf[Last(open).kind], d.opener = Last(open).node,
         ast' = Append(ast, d), open' = AfterStmt(Front(open)), outcome' = outcome,
         next' \in {"any", "notElse", "endSection"},
         breakNodes' = Front(breakNodes), continueNodes' = Front(continueNodes),
         UNCHANGED <<switchNodes, defaultStmts>>
  PROVE  NestInv'
<1>1. /\ Nested(open, ast) /\ Stacks(breakNodes, continueNodes, switchNodes, open)
      /\ defaultStmts \subseteq Nat
  BY TopNode
<1>2. Construct(Last(open).kind) = Last(open).kind /\ Last(open).kind # "block"
  BY DEF Construct, Loops
<1>3. /\ outcome' = "parsing" /\ open' # <<>>
      /\ Nested(open', ast') /\ ElsePending(open', ast')
      /\ SameFrames(Front(open), open')
  BY <1>2, LeaveNested
<1>4. Stacks(Front(breakNodes), Front(continueNodes), switchNodes, open')
  BY <1>1, <1>3, StacksLeave, SameStacks
<1>5. QED
  BY <1>1, <1>3, <1>4 DEF NestInv, Stacks

\* A switch is closed.
LEMMA SwitchClosed ==
  ASSUME NestInv, EndSwitch
  PROVE  NestInv'
<1>0. /\ outcome = "parsing" /\ open # <<>> /\ Last(open).kind = "switch" /\ Leave("endswitch", next)
      /\ breakNodes' = Front(breakNodes) /\ switchNodes' = Front(switchNodes)
      /\ continueNodes' = continueNodes /\ defaultStmts' = defaultStmts
  BY DEF EndSwitch, InFrame, Top
<1> DEFINE d == End("endswitch", Top.node)
<1>1. /\ open \in Seq(Frame) /\ Nested(open, ast) /\ Top = Last(open)
      /\ Last(open).node \in Nat /\ Stacks(breakNodes, continueNodes, switchNodes, open)
      /\ defaultStmts \subseteq Nat /\ next \in {"any", "notElse", "endSection"}
  BY <1>0, TopNode
<1>2. /\ ast' = Append(ast, d) /\ open' = AfterStmt(Front(open)) /\ outcome' = outcome /\ next' = next
  BY <1>0 DEF Leave
<1>3. d \in Node /\ d.kind = "endswitch" /\ d.opener = Last(open).node
  BY ZenonT(60), <1>1, EndType DEF Closers
<1> HIDE DEF d
<1>4. d.kind = CloserOf[Construct(Last(open).kind)]
  BY <1>0, <1>3 DEF CloserOf, Construct
<1>5. /\ outcome' = "parsing" /\ open' # <<>>
      /\ Nested(open', ast') /\ ElsePending(open', ast')
      /\ SameFrames(Front(open), open')
  BY <1>0, <1>2, <1>3, <1>4, LeaveNested
<1>6. Stacks(Front(breakNodes), continueNodes, Front(switchNodes), open')
  BY <1>0, <1>1, <1>5, StacksLeave, SameStacks
<1>7. QED
  BY <1>0, <1>1, <1>2, <1>5, <1>6 DEF NestInv, Stacks

\* Blocks, conditionals, loops and sections are closed.
LEMMA ClosingNested ==
  ASSUME NestInv, NEW b \in BOOLEAN,
         CloseBlock \/ EndIf \/ EndFor \/ EndDoWhile(b) \/ EndCase \/ EndDefault
  PROVE  NestInv'
<1>1. /\ outcome = "parsing" /\ open # <<>> /\ Top = Last(open)
      /\ next \in {"any", "notElse", "endSection"} /\ defaultStmts \subseteq Nat
      /\ Last(open).node \in Nat /\ Stacks(breakNodes, continueNodes, switchNodes, open)
  <2>1. outcome = "parsing" /\ open # <<>>
    BY DEF CloseBlock, EndIf, EndFor, EndDoWhile, EndCase, EndDefault, InFrame
  <2>2. QED
    BY <2>1, TopNode
<1>2. CASE CloseBlock
  <2>1. /\ Last(open).kind = "block" /\ Leave("endblock", "any")
        /\ UNCHANGED <<breakNodes, continueNodes, switchNodes>> /\ defaultStmts' = defaultStmts
    BY <1>1, <1>2 DEF CloseBlock, InFrame
  <2>2. Last(open).kind = "block" => Len(open) > 1
    BY <2>1, <1>2 DEF CloseBlock
  <2>3. "endblock" = CloserOf[Construct(Last(open).kind)] /\ Last(open).kind \notin Breakable
    BY <2>1 DEF CloserOf, Construct, Breakable
  <2>4. QED
    BY <1>1, <2>1, <2>2, <2>3, PlainClosed
<1>3. CASE EndIf
  <2>1. Last(open).kind \in {"if", "else"}
    BY <1>1, <1>3 DEF EndIf, InFrame
  <2>2. \E token \in {"any", "notElse", "endSection"} : Leave("endif", token)
    <3> DEFINE token == IF Top.kind = "if" /\ next = "any" THEN "notElse" ELSE next
    <3>1. token \in {"any", "notElse", "endSection"} /\ Leave("endif", token)
      BY <1>1, <1>3 DEF EndIf
    <3>2. QED
      BY <3>1
  <2>3. UNCHANGED <<breakNodes, continueNodes, switchNodes>> /\ defaultStmts' \subseteq Nat
    BY <1>1, <1>3 DEF EndIf
  <2>4. "endif" = CloserOf[Construct(Last(open).kind)] /\ Last(open).kind \notin Breakable \cup {"block"}
    BY <2>1 DEF CloserOf, Construct, Breakable
  <2>5. QED
    BY <1>1, <2>2, <2>3, <2>4, PlainClosed
<1>4. CASE EndFor
  <2>1. Last(open).kind = "for" /\ LeaveLoop("endfor", next)
    BY <1>1, <1>4 DEF EndFor, InFrame
  <2> DEFINE d == End("endfor", Top.node)
  <2>2. d \in Node /\ d.kind = "endfor" /\ d.opener = Last(open).node
    BY ZenonT(60), <1>1, EndType DEF Closers
  <2>3. /\ ast' = Append(ast, d) /\ open' = AfterStmt(Front(open)) /\ outcome' = outcome /\ next' = next
        /\ breakNodes' = Front(breakNodes) /\ continueNodes' = Front(continueNodes)
        /\ UNCHANGED <<switchNodes, defaultStmts>>
    BY <2>1 DEF LeaveLoop, Leave
  <2> HIDE DEF d
  <2>4. d.kind = CloserOf[Last(open).kind] /\ Last(open).kind \in Loops
    BY <2>1, <2>2 DEF CloserOf, Loops
  <2>5. QED
    BY <1>1, <2>2, <2>3, <2>4, LoopClosed
<1>5. CASE EndDoWhile(b) /\ Report
  BY <1>5, StoppedNested DEF Report
<1>6. CASE EndDoWhile(b) /\ ~Report
  <2> DEFINE d == [End("enddo", Top.node) EXCEPT !.branching = b]
  <2>1. Last(open).kind = "do"
    BY <1>1, <1>6 DEF EndDoWhile, InFrame
  <2>2. d \in Node /\ d.kind = "enddo" /\ d.opener = Last(open).node
    BY <1>1, EndType DEF Closers
  <2>3. /\ ast' = Append(ast, d) /\ open' = AfterStmt(Front(open)) /\ outcome' = outcome /\ next' = "any"
        /\ breakNodes' = Front(breakNodes) /\ continueNodes' = Front(continueNodes)
        /\ UNCHANGED <<switchNodes, defaultStmts>>
    BY <1>6 DEF EndDoWhile
  <2> HIDE DEF d
  <2>4. d.kind = CloserOf[Last(open).kind] /\ Last(open).kind \in Loops
    BY <2>1, <2>2 DEF CloserOf, Loops
  <2>5. QED
    BY <1>1, <2>2, <2>3, <2>4, LoopClosed
<1>7. CASE EndCase
  <2>1. /\ Last(open).kind = "case" /\ Leave("endcase", "endSection")
        /\ UNCHANGED <<breakNodes, continueNodes, switchNodes>> /\ defaultStmts' = defaultStmts
    BY <1>1, <1>7 DEF EndCase, InFrame
  <2>2. Last(open).kind = "block" => Len(open) > 1
    BY <2>1, <1>7 DEF EndCase
  <2>3. "endcase" = CloserOf[Construct(Last(open).kind)] /\ Last(open).kind \notin Breakable
    BY <2>1 DEF CloserOf, Construct, Breakable
  <2>4. QED
    BY <1>1, <2>1, <2>2, <2>3, PlainClosed
<1>8. CASE EndDefault
  <2>1. Last(open).kind = "default" /\ Leave("enddefault", "endSection")
        /\ defaultStmts' = defaultStmts \cup {Last(switchNodes)}
        /\ UNCHANGED <<breakNodes, continueNodes, switchNodes>>
    BY <1>1, <1>8 DEF EndDefault, InFrame
  <2>2. switchNodes # <<>> /\ switchNodes \in Seq(Nat)
    <3>1. open \in Seq(Frame) /\ OpenOK(open, ast) /\ Tracks(switchNodes, open, {"switch"})
      BY DEF NestInv, Nested, OpenOK
    <3>2. Len(open) \in 1 .. Len(open) /\ Last(open) = open[Len(open)]
      BY <1>1, <3>1, LastType
    <3>3. \E l \in 1 .. Len(open) - 1 : open[l].kind = "switch"
      BY <2>1, <3>1, <3>2 DEF OpenOK, Sections
    <3>4. PICK l \in 1 .. Len(open) : open[l].kind = "switch"
      BY <3>1, <3>3
    <3>5. \E k \in 1 .. Len(switchNodes) : switchNodes[k] = open[l].node
      BY <3>1, <3>4 DEF Tracks
    <3>6. QED
      BY <3>1, <3>5 DEF Tracks
  <2>3. defaultStmts' \subseteq Nat
    BY <1>1, <2>1, <2>2, LastType
  <2>4. "enddefault" = CloserOf[Construct(Last(open).kind)] /\ Last(open).kind \notin Breakable \cup {"block"}
    BY <2>1 DEF CloserOf, Construct, Breakable
  <2>5. QED
    BY <1>1, <2>1, <2>3, <2>4, PlainClosed
<1>9. QED
  BY <1>2, <1>3, <1>4, <1>5, <1>6, <1>7, <1>8

\* An else takes the place of its if.
LEMMA ElseNested ==
  ASSUME NestInv, Else
  PROVE  NestInv'
<1> DEFINE d == End("else", Top.node)
           f == [Top EXCEPT !.kind = "else", !.done = FALSE]
           gs == Append(Front(open), f)
<1>1. /\ outcome = "parsing" /\ open # <<>> /\ Last(open).kind = "if"
      /\ ast' = Append(ast, d) /\ open' = gs
      /\ UNCHANGED <<outcome, next, breakNodes, continueNodes, switchNodes, defaultStmts>>
  BY DEF Else, InFrame, Top
<1>2. /\ open \in Seq(Frame) /\ Nested(open, ast) /\ Last(open) \in Frame /\ Top = Last(open)
      /\ Last(open).node \in Nat /\ Stacks(breakNodes, continueNodes, switchNodes, open)
      /\ defaultStmts \subseteq Nat /\ next \in {"any", "notElse", "endSection"}
      /\ ast \in Seq(Node)
  BY <1>1, TopNode DEF Nested, OpenOK
<1>3. d \in Node /\ d.kind = "else" /\ d.opener = Last(open).node
  BY ZenonT(60), <1>2, EndType
<1>4. f \in Frame /\ f.kind = "else" /\ f.node = Last(open).node
  BY <1>2 DEF Frame
<1> HIDE DEF d, f
<1>5. Nested(open, ast')
  <2>1. EndsAt(ast, d, Len(ast) + 1)
    BY <1>1, <1>2, <1>3, TopEnds
  <2>2. JumpsAt(ast, d, Len(ast) + 1) /\ d.kind \notin Openers \cup Closers
    BY <1>3 DEF JumpsAt, Openers, Closers
  <2>3. QED
    BY <1>1, <1>2, <1>3, <2>1, <2>2, NestedPlain
<1>6. SameFrames(open, gs)
  <2>1. /\ Front(open) \in Seq(Frame) /\ Len(Front(open)) = Len(open) - 1
        /\ \A i \in 1 .. Len(open) - 1 : Front(open)[i] = open[i]
    BY <1>1, <1>2, FrontType
  <2>2. /\ gs \in Seq(Frame) /\ Len(gs) = Len(Front(open)) + 1 /\ gs[Len(Front(open)) + 1] = f
        /\ \A i \in 1 .. Len(Front(open)) : gs[i] = Front(open)[i]
    BY <1>4, <2>1, AppendParts
  <2>3. Last(open) = open[Len(open)] /\ Len(open) \in Nat /\ Len(open) >= 1
    BY <1>1, <1>2, LastType
  <2> HIDE DEF gs
  <2>4. /\ Len(gs) = Len(open) /\ gs[Len(open)] = f
        /\ \A i \in 1 .. Len(open) - 1 : gs[i] = open[i]
    BY <2>1, <2>2, <2>3
  <2>5. \A k \in 1 .. Len(open) : k = Len(open) \/ k \in 1 .. Len(open) - 1
    BY <2>3
  <2>6. Construct(f.kind) = Construct(Last(open).kind)
    BY <1>1, <1>4 DEF Construct
  <2>7. QED
    BY <1>4, <2>2, <2>3, <2>4, <2>5, <2>6 DEF SameFrames
<1>7. Nested(open', ast') /\ Stacks(breakNodes, continueNodes, switchNodes, open')
  BY <1>1, <1>2, <1>5, <1>6, SameNested, SameStacks
<1>8. open' # <<>> /\ ast' # <<>> /\ Last(ast') = d
  <2>1. Append(ast, d) # <<>> /\ Last(Append(ast, d)) = d
    BY <1>2, <1>3, PushTop
  <2>2. Front(open) \in Seq(Frame)
    BY <1>1, <1>2, FrontType
  <2>3. Append(Front(open), f) # <<>>
    BY <1>4, <2>2, PushTop
  <2>4. QED
    BY <1>1, <2>1, <2>3
<1>9. ElsePending(open', ast')
  BY <1>3, <1>8 DEF ElsePending
<1>10. QED
  BY <1>1, <1>2, <1>7, <1>8, <1>9 DEF NestInv, Stacks

\* The end of the function.
LEMMA FunctionNested ==
  ASSUME NestInv, EndFunction
  PROVE  NestInv'
<1> DEFINE d == End("endblock", 1)
           e == Mk("endfunc")
           a == Append(ast, d)
<1>1. /\ outcome = "parsing" /\ open # <<>> /\ Last(open).kind = "block" /\ Len(open) = 1
      /\ outcome' = "parsed" /\ open' = <<>> /\ ast' = ast \o <<d, e>>
      /\ UNCHANGED <<next, breakNodes, continueNodes, switchNodes, defaultStmts>>
  BY DEF EndFunction, InFrame, Top
<1>2. /\ open \in Seq(Frame) /\ Nested(open, ast) /\ ast \in Seq(Node)
      /\ Stacks(breakNodes, continueNodes, switchNodes, open)
      /\ defaultStmts \subseteq Nat /\ next \in {"any", "notElse", "endSection"}
  BY <1>1, TopNode DEF Nested, OpenOK
<1>3. d \in Node /\ d.kind = "endblock" /\ d.opener = 1
  BY ZenonT(60), EndType DEF Closers
<1>4. e \in Node /\ e.kind = "endfunc" /\ e.opener = 0
  BY MkType
<1> HIDE DEF d, e
<1>5. Front(open) = <<>>
  <2>1. Front(open) \in Seq(Frame) /\ Len(Front(open)) = Len(open) - 1
    BY <1>1, <1>2, FrontType
  <2>2. Len(Front(open)) = 0
    BY <1>1, <2>1
  <2>3. QED
    BY <2>1, <2>2, EmptySeq
<1>6. Nested(<<>>, a)
  <2>1. Last(open).node = 1
    BY <1>1, <1>2, LastType DEF Nested, OpenOK
  <2>2. d.kind = CloserOf[Construct(Last(open).kind)]
    BY <1>1, <1>3 DEF CloserOf, Construct
  <2>3. Nested(Front(open), a)
    BY <1>1, <1>2, <1>3, <2>1, <2>2, NestedClose
  <2>4. QED
    BY <1>5, <2>3
<1>7. Nested(<<>>, Append(a, e))
  <2>1. e.kind \notin Openers \cup Closers \cup {"else", "break", "continue"}
    BY <1>4 DEF Openers, Closers
  <2>2. EndsAt(a, e, Len(a) + 1) /\ JumpsAt(a, e, Len(a) + 1)
    BY <1>4, <2>1 DEF EndsAt, JumpsAt
  <2>3. QED
    BY <1>4, <1>6, <2>1, <2>2, NestedPlain
<1>8. ast' = Append(a, e)
  BY <1>1, <1>2, <1>3, <1>4, AppendTwo
<1>9. Stacks(breakNodes, continueNodes, switchNodes, <<>>)
  <2>1. Last(open).kind \notin Breakable
    BY <1>1 DEF Breakable
  <2>2. QED
    BY <1>1, <1>2, <1>5, <2>1, StacksLeave
<1>10. ElsePending(open', ast')
  BY <1>1 DEF ElsePending
<1>11. QED
  BY <1>1, <1>2, <1>7, <1>8, <1>9, <1>10 DEF NestInv, Stacks

\* Before the first statement.
LEMMA Init_NestInv ==
  ASSUME ParserInit
  PROVE  NestInv
<1> DEFINE f == [kind |-> "block", node |-> 1, done |-> FALSE]
           d == Mk("block")
<1>1. f \in Frame /\ f.kind = "block" /\ f.node = 1
  BY DEF Frame, Openers
<1>2. d \in Node /\ d.kind = "block" /\ d.opener = 0
  BY MkType DEF Openers
<1> HIDE DEF f, d
<1>3. /\ outcome = "parsing" /\ open = <<f>> /\ ast = <<d>> /\ next = "any" /\ defaultStmts = {}
      /\ breakNodes = <<>> /\ continueNodes = <<>> /\ switchNodes = <<>>
  BY DEF ParserInit, f, d
<1>4. /\ open \in Seq(Frame) /\ open # <<>> /\ Len(open) = 1 /\ open[1] = f /\ Last(open) = f
      /\ ast \in Seq(Node) /\ Len(ast) = 1 /\ ast[1] = d
  <2>1. open \in Seq(Frame) /\ open # <<>> /\ Len(open) = 1 /\ open[1] = f
    BY <1>1, <1>3, OneElement
  <2>2. ast \in Seq(Node) /\ Len(ast) = 1 /\ ast[1] = d
    BY <1>2, <1>3, OneElement
  <2>3. QED
    BY <2>1, <2>2 DEF Last
<1>5. \A k \in 1 .. 1 : k = 1
  OBVIOUS
<1>6. OpenOK(open, ast)
  BY <1>1, <1>2, <1>4, <1>5 DEF OpenOK, Construct, Sections
<1>7. ~EndedBefore(ast, 1, 2)
  <2>1. \A c \in 1 .. 2 - 1 : c = 1
    OBVIOUS
  <2>2. d.kind \notin Closers
    BY <1>2 DEF Closers
  <2>3. QED
    BY <1>4, <2>1, <2>2 DEF EndedBefore
<1>8. Unended(open, ast)
  BY <1>1, <1>4, <1>5, <1>7 DEF Unended
<1>9. NodesOK(ast)
  BY <1>2, <1>4, <1>5 DEF NodesOK, EndsAt, JumpsAt, Closers
<1>10. Stacks(breakNodes, continueNodes, switchNodes, open)
  <2>1. <<>> \in Seq(Nat) /\ \A k \in 1 .. Len(<<>>) : FALSE
    OBVIOUS
  <2>2. Tracks(<<>>, open, Breakable)
    BY <1>1, <1>4, <1>5, <2>1 DEF Tracks, Breakable
  <2>3. Tracks(<<>>, open, Loops)
    BY <1>1, <1>4, <1>5, <2>1 DEF Tracks, Loops
  <2>4. Tracks(<<>>, open, {"switch"})
    BY <1>1, <1>4, <1>5, <2>1 DEF Tracks
  <2>5. QED
    BY <1>3, <2>2, <2>3, <2>4 DEF Stacks
<1>11. ElsePending(open, ast)
  BY <1>1, <1>4 DEF ElsePending
<1>12. QED
  BY <1>3, <1>4, <1>6, <1>8, <1>9, <1>10, <1>11 DEF NestInv, Nested, Stacks

\* Each of the parser's steps.
LEMMA Parser_NestInv ==
  ASSUME NestInv, ParserNext
  PROVE  NestInv'
<1>1. \A b \in Branching : b \in BOOLEAN
  BY DEF Branching
<1>2. CASE \E b \in Branching : ExprStmt(b) \/ IfStmt(b) \/ EndDoWhile(b)
  BY <1>1, <1>2, ExprNested, OpeningNested, ClosingNested
<1>3. CASE \E b \in Branching, cond \in BOOLEAN : ForStmt(cond, b) \/ WhileStmt(cond, b)
  BY <1>1, <1>3, OpeningNested
<1>4. CASE ReturnStmt
  BY <1>4, ExprNested
<1>5. CASE BreakStmt \/ ContinueStmt
  BY <1>5, JumpNested
<1>6. CASE NullStmt
  BY <1>6, NullNested
<1>7. CASE OpenBlock \/ DoWhileStmt \/ CaseStmt \/ DefaultStmt
  BY <1>7, OpeningNested
<1>8. CASE CloseBlock \/ EndIf \/ EndFor \/ EndCase \/ EndDefault
  BY <1>8, ClosingNested
<1>9. CASE Else
  BY <1>9, ElseNested
<1>10. CASE SwitchStmt
  BY <1>10, SwitchOpened
<1>11. CASE EndSwitch
  BY <1>11, SwitchClosed
<1>12. CASE EndFunction
  BY <1>12, FunctionNested
<1>13. QED
  BY <1>2, <1>3, <1>4, <1>5, <1>6, <1>7, <1>8, <1>9, <1>10, <1>11, <1>12 DEF ParserNext

\* CodeGen does not touch what the parser has.
LEMMA Next_NestInv ==
  ASSUME NestInv, [Next]_vars
  PROVE  NestInv'
<1>1. CASE ParserNext
  BY <1>1, Parser_NestInv
<1>2. CASE UNCHANGED parserVars
  BY <1>2 DEF NestInv, parserVars
<1>3. QED
  BY <1>1, <1>2 DEF Next, Parse, Translate, Visit, Terminated, vars

\* It holds in every state.
LEMMA NestInvHolds == Spec => []NestInv
<1>1. Init => NestInv
  BY Init_NestInv DEF Init
<1>2. NestInv /\ [Next]_vars => NestInv'
  BY Next_NestInv
<1>3. QED
  BY <1>1, <1>2, PTL DEF Spec

-----------------------------------------------------------------------------
(* A function that has been parsed. *)

\* Its constructs all have an end, each only one.
LEMMA EndOfOpener ==
  ASSUME NEW a, Nested(<<>>, a), NEW i \in 1 .. Len(a), a[i].kind \in Openers
  PROVE  /\ EndOf(a, i) \in i + 1 .. Len(a) /\ a[EndOf(a, i)].opener = i
         /\ a[EndOf(a, i)].kind = CloserOf[a[i].kind]
         /\ \A c \in 1 .. Len(a) : a[c].kind \in Closers /\ a[c].opener = i => c = EndOf(a, i)
<1>1. a \in Seq(Node) /\ Len(a) \in Nat /\ DOMAIN a = 1 .. Len(a)
  BY DEF Nested, OpenOK
<1>2. EndedBefore(a, i, Len(a) + 1)
  <2>1. ~\E k \in 1 .. Len(<<>>) : <<>>[k].node = i
    OBVIOUS
  <2>2. QED
    BY <2>1 DEF Nested, Unended
<1>3. PICK c \in 1 .. Len(a) : a[c].kind \in Closers /\ a[c].opener = i
  <2>1. \A c \in 1 .. Len(a) + 1 - 1 : c \in 1 .. Len(a)
    BY <1>1
  <2>2. QED
    BY <1>2, <2>1 DEF EndedBefore
<1>4. \A e \in 1 .. Len(a) : a[e].kind \in Closers =>
        /\ a[e].opener \in 1 .. e - 1 /\ a[e].kind = CloserOf[a[a[e].opener].kind]
        /\ ~EndedBefore(a, a[e].opener, e)
  <2>1. \A e \in 1 .. Len(a) : EndsAt(a, a[e], e)
    BY DEF Nested, NodesOK
  <2>2. "else" \notin Closers
    BY DEF Closers
  <2>3. QED
    BY <2>1, <2>2 DEF EndsAt
<1>5. ASSUME NEW e \in 1 .. Len(a), a[e].kind \in Closers, a[e].opener = i PROVE e = c
  <2>1. ~EndedBefore(a, i, e) /\ ~EndedBefore(a, i, c)
    BY <1>3, <1>4, <1>5
  <2>2. ~(c \in 1 .. e - 1) /\ ~(e \in 1 .. c - 1)
    BY <1>3, <1>5, <2>1 DEF EndedBefore
  <2>3. QED
    BY <1>1, <2>2
<1>6. EndOf(a, i) = c
  <2>1. \E e \in DOMAIN a : a[e].opener = i /\ a[e].kind \in Closers
    BY <1>1, <1>3
  <2>2. EndOf(a, i) \in DOMAIN a /\ a[EndOf(a, i)].opener = i /\ a[EndOf(a, i)].kind \in Closers
    BY <2>1 DEF EndOf
  <2>3. QED
    BY <1>1, <1>5, <2>2
<1>7. c \in i + 1 .. Len(a)
  BY <1>1, <1>3, <1>4
<1>8. QED
  BY <1>3, <1>4, <1>5, <1>6, <1>7

\* What is around a node that is no end is what was open there.
LEMMA AroundIsOpen ==
  ASSUME NEW a, Nested(<<>>, a), NEW j \in 1 .. Len(a), a[j].kind \notin Closers,
         NEW kinds, kinds \subseteq Openers, NEW i
  PROVE  i \in Around(a, j, kinds) <=> Encloses(a, i, j, kinds)
<1>1. Len(a) \in Nat
  BY DEF Nested, OpenOK
<1>2. CASE ~(i \in 1 .. j - 1 /\ a[i].kind \in kinds)
  BY <1>2 DEF Around, Encloses
<1>3. CASE i \in 1 .. j - 1 /\ a[i].kind \in kinds
  <2>1. i \in 1 .. Len(a) /\ a[i].kind \in Openers
    BY <1>1, <1>3
  <2> DEFINE e == EndOf(a, i)
  <2>2. /\ e \in i + 1 .. Len(a) /\ a[e].opener = i /\ a[e].kind = CloserOf[a[i].kind]
        /\ \A c \in 1 .. Len(a) : a[c].kind \in Closers /\ a[c].opener = i => c = e
    BY <2>1, EndOfOpener
  <2>3. a[e].kind \in Closers
    BY <2>1, <2>2 DEF CloserOf, Openers, Closers
  <2> HIDE DEF e
  <2>4. e \in Nat /\ e # j /\ e \in 1 .. Len(a)
    BY <1>1, <1>3, <2>2, <2>3
  <2>5. EndedBefore(a, i, j) <=> e \in 1 .. j - 1
    <3>1. \A c \in 1 .. j - 1 : c \in 1 .. Len(a)
      BY <1>1
    <3>2. QED
      BY <2>2, <2>3, <3>1 DEF EndedBefore
  <2>6. e \in 1 .. j - 1 <=> ~(e > j)
    BY <1>1, <2>4
  <2>7. QED
    BY <1>3, <2>5, <2>6 DEF Around, Encloses, e
<1>4. QED
  BY <1>2, <1>3

\* Every break and continue of a parsed function leaves or repeats the
\* innermost statement that C says, whatever statements were opened and closed
\* in between: breakNodes and continueNodes always end in the node of the
\* innermost open one (parser.cc:629-630, 663-664, 676-677, 697-698, 707-708,
\* 718-719, 757, 769), where a jump looks (parser.cc:722-740).
THEOREM JumpsAreBound == Spec => []JumpsBindInnermost
<1>1. NestInv => JumpsBindInnermost
  <2> SUFFICES ASSUME NestInv, outcome = "parsed", NEW j \in DOMAIN ast
               PROVE  /\ ast[j].kind = "break" => BindsInnermost(j, Breakable)
                      /\ ast[j].kind = "continue" => BindsInnermost(j, Loops)
    BY DEF JumpsBindInnermost
  <2>1. Nested(<<>>, ast) /\ j \in 1 .. Len(ast) /\ Len(ast) \in Nat
    BY DEF NestInv, Nested, OpenOK
  <2>2. JumpsAt(ast, ast[j], j)
    BY <2>1 DEF Nested, NodesOK
  <2>3. ASSUME NEW kinds, kinds \subseteq Openers, ast[j].kind \notin Closers,
               Binds(ast, ast[j].target, j, kinds)
        PROVE  BindsInnermost(j, kinds)
    <3>1. \A i : i \in Around(ast, j, kinds) <=> Encloses(ast, i, j, kinds)
      BY <2>1, <2>3, AroundIsOpen
    <3>2. \A i \in Around(ast, j, kinds) : i \in 1 .. j - 1
      BY DEF Around
    <3>3. QED
      BY <2>3, <3>1, <3>2 DEF BindsInnermost, Binds
  <2>4. Breakable \subseteq Openers /\ Loops \subseteq Openers
        /\ "break" \notin Closers /\ "continue" \notin Closers
    BY DEF Breakable, Loops, Openers, Closers
  <2>5. QED
    BY <2>2, <2>3, <2>4 DEF JumpsAt
<1>2. QED
  BY <1>1, NestInvHolds, PTL

-----------------------------------------------------------------------------
(* How the nodes of a function follow one another. *)

\* The node d may come at position j of a: a label is in a switch, an if has
\* one else, after a section there is a label or an end, a switch has one
\* statement, and the function's block is around all but its end.
FollowsAt(a, d, j) ==
    /\ d.kind \in Sections => \E i \in 1 .. j - 1 : Encloses(a, i, j, {"switch"})
    /\ d.kind = "else" => \A c \in 1 .. j - 1 : a[c].kind = "else" => a[c].opener # d.opener
    /\ j > 1 /\ a[j - 1].kind \in {"endcase", "enddefault"} => d.kind \in Sections \cup Closers
    /\ \A s \in 1 .. j - 1 :
         a[s].kind = "switch" /\ Binds(a, s, j, Openers) => j = s + 1 \/ d.kind = "endswitch"
    /\ IF d.kind = "endfunc" THEN \A i \in 1 .. j - 1 : ~Encloses(a, i, j, Openers)
       ELSE j = 1 \/ Encloses(a, 1, j, Openers)

\* The default at d is one of the switch at s.
DefaultOf(a, d, s) == a[d].kind = "default" /\ Binds(a, s, d, {"switch"})

\* All nodes follow one another rightly.
Follows(a) == \A j \in 1 .. Len(a) : FollowsAt(a, a[j], j)

\* What is known of the token t with the frames fs open: it ends a section after
\* a section; a switch that waits for its statement is the last node; the
\* ifs have no else yet.
TokenFits(fs, a, t) ==
    /\ Last(a).kind \in {"endcase", "enddefault"} => t = "endSection"
    /\ Last(fs).kind = "switch" /\ ~Last(fs).done => Last(fs).node = Len(a)
    /\ \A k \in 1 .. Len(fs) : fs[k].kind = "if" =>
         \A c \in 1 .. Len(a) : a[c].kind = "else" => a[c].opener # fs[k].node

\* The switch at s has a default that has been parsed.
HasDefault(a, s) ==
    \E d \in 1 .. Len(a) : DefaultOf(a, d, s) /\ EndedBefore(a, d, Len(a) + 1)

\* The nodes follow one another rightly, and ds are the switches that have a default.
FollowsOK(a, ds) ==
    /\ Follows(a) /\ a # <<>> /\ a[1].kind = "block"
    /\ \A s : s \in ds <=> HasDefault(a, s)

\* The second invariant of the parser.
FollowInv ==
    /\ FollowsOK(ast, defaultStmts)
    /\ outcome = "parsed" => Last(ast).kind = "endfunc"
    /\ outcome = "parsing" => TokenFits(open, ast, next)

\* The ends before position p are right.
EndsOK(a, p) == \A c \in 1 .. p - 1 : EndsAt(a, a[c], c)

\* The statement at o is the innermost one around position p.
InnermostAt(a, o, p) ==
    /\ o \in 1 .. p - 1 /\ a[o].kind \in Openers /\ ~EndedBefore(a, o, p)
    /\ \A i \in o + 1 .. p - 1 : a[i].kind \in Openers => EndedBefore(a, i, p)

\* What is around a position is around all between: what is around an outer
\* statement's inner position is so or has been ended.
LEMMA StaysOpen ==
  ASSUME NEW a, NEW p \in Nat, EndsOK(a, p), NEW o \in 1 .. p - 1, a[o].kind \in Openers,
         ~EndedBefore(a, o, p), NEW h \in 1 .. o - 1, a[h].kind \in Openers
  PROVE  EndedBefore(a, h, p) <=> EndedBefore(a, h, o)
<1>1. EndedBefore(a, h, o) => EndedBefore(a, h, p)
  <2>1. \A c \in 1 .. o - 1 : c \in 1 .. p - 1
    OBVIOUS
  <2>2. QED
    BY <2>1 DEF EndedBefore
<1>2. ASSUME EndedBefore(a, h, p) PROVE EndedBefore(a, h, o)
  <2>1. PICK c \in 1 .. p - 1 : a[c].kind \in Closers /\ a[c].opener = h
    BY <1>2 DEF EndedBefore
  <2>2. CASE c \in 1 .. o - 1
    BY <2>1, <2>2 DEF EndedBefore
  <2>3. CASE c = o
    BY <2>1, <2>3 DEF Openers, Closers
  <2>4. CASE c \in o + 1 .. p - 1
    <3>1. \A i \in h + 1 .. c - 1 : a[i].kind \in Openers => EndedBefore(a, i, c)
      BY <2>1 DEF EndsOK, EndsAt
    <3>2. EndedBefore(a, o, c)
      BY <2>4, <3>1
    <3>3. EndedBefore(a, o, p)
      BY <2>4, <3>2 DEF EndedBefore
    <3>4. QED
      BY <3>3
  <2>5. QED
    BY <2>1, <2>2, <2>3, <2>4
<1>3. QED
  BY <1>1, <1>2

\* What is around a position is what is around the innermost statement there,
\* and that one.
LEMMA EnclosesInner ==
  ASSUME NEW a, NEW p \in Nat, EndsOK(a, p), NEW o, InnermostAt(a, o, p),
         NEW kinds, kinds \subseteq Openers, NEW h
  PROVE  Encloses(a, h, p, kinds) <=> Encloses(a, h, o, kinds) \/ (h = o /\ a[o].kind \in kinds)
<1>1. o \in 1 .. p - 1 /\ a[o].kind \in Openers /\ ~EndedBefore(a, o, p)
  BY DEF InnermostAt
<1>2. CASE h \in 1 .. o - 1
  <2>1. a[h].kind \in kinds => (EndedBefore(a, h, p) <=> EndedBefore(a, h, o))
    BY <1>1, <1>2, StaysOpen
  <2>2. QED
    BY <1>1, <1>2, <2>1 DEF Encloses
<1>3. CASE h = o
  BY <1>1, <1>3 DEF Encloses
<1>4. CASE h \in o + 1 .. p - 1
  BY <1>4 DEF InnermostAt, Encloses
<1>5. CASE ~(h \in 1 .. p - 1)
  BY <1>1, <1>5 DEF Encloses
<1>6. QED
  BY <1>1, <1>2, <1>3, <1>4, <1>5

\* An end or an else belongs to the innermost statement.
LEMMA EndIsInnermost ==
  ASSUME NEW a, NEW d, NEW p, EndsAt(a, d, p), d.kind \in Closers \cup {"else"}
  PROVE  InnermostAt(a, d.opener, p)
BY DEF EndsAt, InnermostAt

\* So does what the parser parses.
LEMMA FrameIsInnermost ==
  ASSUME NEW fs, NEW a, Nested(fs, a), fs # <<>>
  PROVE  /\ InnermostAt(a, Last(fs).node, Len(a) + 1)
         /\ a[Last(fs).node].kind = Construct(Last(fs).kind)
         /\ Last(fs).node \in 1 .. Len(a) /\ Last(fs) \in Frame
         /\ EndsOK(a, Len(a) + 1)
<1> DEFINE L == Len(fs)
           N == Len(a) + 1
           f == fs[L]
<1>1. fs \in Seq(Frame) /\ a \in Seq(Node) /\ L \in Nat /\ L \in 1 .. L /\ Len(a) \in Nat /\ Last(fs) = f
  BY DEF Nested, OpenOK, Last
<1>2. /\ f.node \in 1 .. Len(a)
      /\ a[f.node].kind = Construct(f.kind)
      /\ \A l \in 1 .. L - 1 : fs[l].node < f.node
      /\ f \in Frame
  BY <1>1 DEF Nested, OpenOK
<1>3. a[f.node].kind \in Openers
  BY <1>2 DEF Frame, Construct, Openers
<1>4. ~EndedBefore(a, f.node, N)
  BY <1>1, <1>2, <1>3 DEF Nested, Unended
<1>5. ASSUME NEW i \in f.node + 1 .. N - 1, a[i].kind \in Openers
      PROVE  EndedBefore(a, i, N)
  <2>1. i \in 1 .. Len(a) /\ i > f.node
    BY <1>1, <1>2
  <2>2. ASSUME NEW k \in 1 .. L, fs[k].node = i PROVE FALSE
    <3>1. k = L \/ k \in 1 .. L - 1
      BY <1>1
    <3>2. QED
      BY <1>2, <2>1, <2>2, <3>1
  <2>3. QED
    BY <1>5, <2>1, <2>2 DEF Nested, Unended
<1>6. EndsOK(a, N)
  <2>1. \A c \in 1 .. N - 1 : c \in 1 .. Len(a)
    BY <1>1
  <2>2. QED
    BY <2>1 DEF Nested, NodesOK, EndsOK
<1>7. f.node \in 1 .. N - 1
  BY <1>1, <1>2
<1>8. QED
  BY <1>1, <1>2, <1>3, <1>4, <1>5, <1>6, <1>7 DEF InnermostAt

-----------------------------------------------------------------------------
(* The nodes a parsed function has. *)

\* Where a node may come depends on the nodes before.
LEMMA FollowsSame ==
  ASSUME NEW a, NEW b, NEW j \in Nat, SameBefore(a, b, j), NEW d \in Node, FollowsAt(a, d, j)
  PROVE  FollowsAt(b, d, j)
<1>1. /\ \A i : EndedBefore(b, i, j) <=> EndedBefore(a, i, j)
      /\ \A i, kinds : Encloses(b, i, j, kinds) <=> Encloses(a, i, j, kinds)
  BY EnclosesSame
<1>2. \A c \in 1 .. j - 1 : b[c] = a[c]
  BY DEF SameBefore
<1>3. \A s : Binds(b, s, j, Openers) <=> Binds(a, s, j, Openers)
  BY <1>1 DEF Binds
<1>4. j > 1 => b[j - 1] = a[j - 1]
  BY <1>2
<1>5. d.kind \in Sections => \E i \in 1 .. j - 1 : Encloses(b, i, j, {"switch"})
  BY <1>1 DEF FollowsAt
<1>6. d.kind = "else" => \A c \in 1 .. j - 1 : b[c].kind = "else" => b[c].opener # d.opener
  BY <1>2 DEF FollowsAt
<1>7. j > 1 /\ b[j - 1].kind \in {"endcase", "enddefault"} => d.kind \in Sections \cup Closers
  BY <1>4 DEF FollowsAt
<1>8. \A s \in 1 .. j - 1 :
         b[s].kind = "switch" /\ Binds(b, s, j, Openers) => j = s + 1 \/ d.kind = "endswitch"
  BY <1>2, <1>3 DEF FollowsAt
<1>9. IF d.kind = "endfunc" THEN \A i \in 1 .. j - 1 : ~Encloses(b, i, j, Openers)
      ELSE j = 1 \/ Encloses(b, 1, j, Openers)
  BY <1>1 DEF FollowsAt
<1>10. QED
  BY <1>5, <1>6, <1>7, <1>8, <1>9 DEF FollowsAt

\* One more node.
LEMMA FollowsAppend ==
  ASSUME NEW a \in Seq(Node), Follows(a), NEW d \in Node, FollowsAt(a, d, Len(a) + 1)
  PROVE  Follows(Append(a, d))
<1> DEFINE b == Append(a, d)
           N == Len(a) + 1
<1>1. /\ b \in Seq(Node) /\ Len(b) = N /\ Len(a) \in Nat /\ b[N] = d
      /\ \A i \in 1 .. Len(a) : b[i] = a[i]
      /\ \A i \in 1 .. N : i \in 1 .. Len(a) \/ i = N
  BY AppendParts
<1> HIDE DEF b
<1>2. ASSUME NEW j \in 1 .. N PROVE FollowsAt(b, b[j], j)
  <2>1. SameBefore(a, b, j) /\ j \in Nat
    BY <1>1 DEF SameBefore
  <2>2. CASE j \in 1 .. Len(a)
    <3>1. b[j] = a[j] /\ a[j] \in Node /\ FollowsAt(a, a[j], j)
      BY <1>1, <2>2 DEF Follows
    <3>2. QED
      BY <2>1, <3>1, FollowsSame
  <2>3. CASE j = N
    BY <1>1, <2>1, <2>3, FollowsSame
  <2>4. QED
    BY <1>1, <2>2, <2>3
<1>3. Follows(b)
  BY <1>1, <1>2 DEF Follows
<1>4. QED
  BY <1>3 DEF b

\* A switch has one more with the end of a default in it.
LEMMA HasDefaultAppend ==
  ASSUME NEW a \in Seq(Node), NodesOK(a), NEW d \in Node, EndsAt(a, d, Len(a) + 1), NEW s
  PROVE  HasDefault(Append(a, d), s) <=>
           HasDefault(a, s) \/ (d.kind = "enddefault" /\ Binds(a, s, d.opener, {"switch"}))
<1> DEFINE b == Append(a, d)
           N == Len(a) + 1
<1>1. /\ b \in Seq(Node) /\ Len(b) = N /\ Len(a) \in Nat /\ b[N] = d
      /\ \A i \in 1 .. Len(a) : b[i] = a[i]
      /\ \A i \in 1 .. N : i \in 1 .. Len(a) \/ i = N
      /\ \A i \in 1 .. Len(a) : i \in 1 .. N
  BY AppendParts
<1>2. \A i : EndedBefore(b, i, N + 1) <=>
               EndedBefore(a, i, N) \/ (d.kind \in Closers /\ d.opener = i)
  <2>1. N + 1 = Len(a) + 2
    BY <1>1
  <2>2. QED
    BY <2>1, EndedAppend
<1> HIDE DEF b
<1>3. ASSUME NEW e \in 1 .. Len(a)
      PROVE  DefaultOf(b, e, s) <=> DefaultOf(a, e, s)
  <2>1. SameBefore(a, b, e) /\ e \in Nat /\ b[e] = a[e]
    BY <1>1 DEF SameBefore
  <2>2. \A i, kinds : Encloses(b, i, e, kinds) <=> Encloses(a, i, e, kinds)
    BY <2>1, EnclosesSame
  <2>3. QED
    BY <2>1, <2>2 DEF DefaultOf, Binds
<1>4. ~EndedBefore(b, N, N + 1)
  <2>1. ~EndedBefore(a, N, N)
    <3>1. \A c \in 1 .. N - 1 : a[c].kind \in Closers => a[c].opener \in 1 .. c - 1
      BY <1>1 DEF NodesOK, EndsAt
    <3>2. QED
      BY <1>1, <3>1 DEF EndedBefore
  <2>2. d.kind \in Closers => d.opener \in 1 .. N - 1
    BY DEF EndsAt
  <2>3. QED
    BY <1>1, <1>2, <2>1, <2>2
<1>5. ASSUME NEW e \in 1 .. Len(a), a[e].kind = "default", d.kind \in Closers, d.opener = e
      PROVE  d.kind = "enddefault"
  BY <1>5 DEF EndsAt, CloserOf, Closers
<1>6. ASSUME HasDefault(b, s)
      PROVE  HasDefault(a, s) \/ (d.kind = "enddefault" /\ Binds(a, s, d.opener, {"switch"}))
  <2>1. PICK e \in 1 .. N : DefaultOf(b, e, s) /\ EndedBefore(b, e, N + 1)
    BY <1>1, <1>6 DEF HasDefault
  <2>2. e \in 1 .. Len(a) /\ DefaultOf(a, e, s)
    BY <1>1, <1>3, <1>4, <2>1
  <2>3. QED
    BY <1>2, <1>5, <2>1, <2>2 DEF HasDefault, DefaultOf
<1>7. ASSUME HasDefault(a, s) PROVE HasDefault(b, s)
  <2>1. PICK e \in 1 .. Len(a) : DefaultOf(a, e, s) /\ EndedBefore(a, e, N)
    BY <1>7 DEF HasDefault
  <2>2. e \in 1 .. N /\ DefaultOf(b, e, s) /\ EndedBefore(b, e, N + 1)
    BY <1>1, <1>2, <1>3, <2>1
  <2>3. QED
    BY <1>1, <2>2 DEF HasDefault
<1>8. ASSUME d.kind = "enddefault", Binds(a, s, d.opener, {"switch"}) PROVE HasDefault(b, s)
  <2>1. d.opener \in 1 .. Len(a) /\ d.kind \in Closers /\ d.kind = CloserOf[a[d.opener].kind]
        /\ a[d.opener].kind \in Openers
    BY <1>1, <1>8 DEF EndsAt, Closers
  <2>2. a[d.opener].kind = "default"
    BY <1>8, <2>1 DEF CloserOf, Openers
  <2>3. DefaultOf(b, d.opener, s)
    BY <1>3, <1>8, <2>1, <2>2 DEF DefaultOf
  <2>4. d.opener \in 1 .. N /\ EndedBefore(b, d.opener, N + 1)
    BY <1>1, <1>2, <2>1
  <2>5. QED
    BY <1>1, <2>3, <2>4 DEF HasDefault
<1>9. HasDefault(b, s) <=>
        HasDefault(a, s) \/ (d.kind = "enddefault" /\ Binds(a, s, d.opener, {"switch"}))
  BY <1>6, <1>7, <1>8
<1>10. QED
  BY <1>9 DEF b

\* What a statement in the construct at the top may be.
LEMMA FollowsTop ==
  ASSUME NEW fs, NEW a, Nested(fs, a), fs # <<>>, NEW d \in Node,
         d.kind \in Sections => \E l \in 1 .. Len(fs) : fs[l].kind = "switch",
         d.kind = "else" => \A c \in 1 .. Len(a) : a[c].kind = "else" => a[c].opener # d.opener,
         Last(a).kind \in {"endcase", "enddefault"} => d.kind \in Sections \cup Closers,
         Last(fs).kind = "switch" => Last(fs).node = Len(a) \/ d.kind = "endswitch",
         d.kind # "endfunc"
  PROVE  FollowsAt(a, d, Len(a) + 1)
<1> DEFINE N == Len(a) + 1
           o == Last(fs).node
<1>1. /\ InnermostAt(a, o, N) /\ a[o].kind = Construct(Last(fs).kind)
      /\ o \in 1 .. Len(a) /\ EndsOK(a, N) /\ a[o].kind \in Openers
  <2>1. /\ InnermostAt(a, o, N) /\ a[o].kind = Construct(Last(fs).kind)
        /\ o \in 1 .. Len(a) /\ EndsOK(a, N)
    BY FrameIsInnermost
  <2>2. QED
    BY <2>1 DEF InnermostAt
<1>2. Len(a) \in Nat /\ a \in Seq(Node) /\ fs \in Seq(Frame)
  BY DEF Nested, OpenOK
<1>3. d.kind \in Sections => \E i \in 1 .. N - 1 : Encloses(a, i, N, {"switch"})
  <2> SUFFICES ASSUME d.kind \in Sections PROVE \E i \in 1 .. N - 1 : Encloses(a, i, N, {"switch"})
    OBVIOUS
  <2>1. PICK l \in 1 .. Len(fs) : fs[l].kind = "switch"
    OBVIOUS
  <2>2. fs[l].node \in 1 .. Len(a) /\ a[fs[l].node].kind = "switch"
    BY <2>1 DEF Nested, OpenOK, Construct
  <2>3. ~EndedBefore(a, fs[l].node, N)
    BY <2>2 DEF Nested, Unended, Openers
  <2>4. fs[l].node \in 1 .. N - 1
    BY <1>2, <2>2
  <2>5. QED
    BY <2>2, <2>3, <2>4 DEF Encloses
<1>4. d.kind = "else" => \A c \in 1 .. N - 1 : a[c].kind = "else" => a[c].opener # d.opener
  <2>1. \A c \in 1 .. N - 1 : c \in 1 .. Len(a)
    BY <1>2
  <2>2. QED
    BY <2>1
<1>5. N > 1 /\ a[N - 1].kind \in {"endcase", "enddefault"} => d.kind \in Sections \cup Closers
  <2>1. N - 1 = Len(a)
    BY <1>2
  <2>2. QED
    BY <2>1 DEF Last
<1>6. \A s \in 1 .. N - 1 :
        a[s].kind = "switch" /\ Binds(a, s, N, Openers) => N = s + 1 \/ d.kind = "endswitch"
  <2> SUFFICES ASSUME NEW s \in 1 .. N - 1, a[s].kind = "switch", Binds(a, s, N, Openers)
               PROVE  N = s + 1 \/ d.kind = "endswitch"
    OBVIOUS
  <2>1. Encloses(a, o, N, Openers)
    BY <1>1, <1>2 DEF InnermostAt, Encloses
  <2>2. o \in 1 .. N - 1
    BY <1>1, <1>2
  <2>3. o <= s
    BY <2>1, <2>2 DEF Binds
  <2>4. s <= o
    <3>1. ~(s \in o + 1 .. N - 1)
      BY <1>1 DEF Binds, Encloses, InnermostAt
    <3>2. QED
      BY <1>2, <2>2, <3>1
  <2>5. s = o
    BY <1>2, <2>2, <2>3, <2>4
  <2>6. Last(fs).kind = "switch"
    BY <1>1, <2>5 DEF Construct
  <2>7. QED
    BY <1>2, <2>5, <2>6
<1>7. Encloses(a, 1, N, Openers)
  <2>1. 1 \in 1 .. Len(fs) /\ fs[1].node = 1 /\ fs[1].kind = "block" /\ fs[1].node \in 1 .. Len(a)
        /\ a[1].kind = "block"
    BY <1>2 DEF Nested, OpenOK, Construct
  <2>2. ~EndedBefore(a, 1, N)
    BY <2>1 DEF Nested, Unended, Openers
  <2>3. 1 \in 1 .. N - 1
    BY <1>2, <2>1
  <2>4. QED
    BY <2>1, <2>2, <2>3 DEF Encloses, Openers
<1>8. QED
  BY <1>3, <1>4, <1>5, <1>6, <1>7 DEF FollowsAt

-----------------------------------------------------------------------------
(* The steps of the parser, by what they do to the nodes. *)

\* A simple statement.
Adds(d) ==
    /\ outcome = "parsing" /\ outcome' = "parsing" /\ open # <<>> /\ ~Last(open).done
    /\ d \in Node /\ d.kind \in {"expr", "return", "break", "continue"} /\ next # "endSection"
    /\ ast' = Append(ast, d) /\ open' = AfterStmt(open) /\ next' = "any"
    /\ defaultStmts' = defaultStmts

\* The beginning of a construct.
Opens(d) ==
    /\ outcome = "parsing" /\ outcome' = "parsing" /\ open # <<>> /\ ~Last(open).done
    /\ d \in Node /\ d.kind \in Openers /\ d.opener = 0
    /\ IF d.kind \in Sections THEN switchNodes # <<>> ELSE next # "endSection"
    /\ ast' = Append(ast, d) /\ next' = "any"
    /\ open' = Append(open, [kind |-> d.kind, node |-> Len(ast) + 1, done |-> FALSE])
    /\ defaultStmts' = defaultStmts

\* The end of one.
Closes(d) ==
    /\ outcome = "parsing" /\ outcome' = "parsing" /\ open # <<>>
    /\ d \in Node /\ d.kind = CloserOf[Construct(Last(open).kind)] /\ d.opener = Last(open).node
    /\ ast' = Append(ast, d) /\ open' = AfterStmt(Front(open))
    /\ d.kind \in {"endcase", "enddefault"} => next' = "endSection"
    /\ defaultStmts' =
         IF d.kind = "enddefault" THEN defaultStmts \cup {Last(switchNodes)} ELSE defaultStmts

\* The end of the parser's work.
Stops ==
    /\ outcome' \in {"rejected", "undefined"}
    /\ UNCHANGED <<ast, defaultStmts>>

\* The statement that a construct waits for.
LEMMA AddsSteps ==
  ASSUME NestInv, NEW b \in BOOLEAN, ExprStmt(b) \/ ReturnStmt \/ BreakStmt \/ ContinueStmt
  PROVE  Stops \/ \E d \in Node : Adds(d)
<1>1. breakNodes \in Seq(Nat) /\ continueNodes \in Seq(Nat)
  BY DEF NestInv, Tracks
<1>2. ASSUME NEW d \in Node, d.kind \in {"expr", "return", "break", "continue"}, Simple(d)
      PROVE  Adds(d)
  BY <1>2 DEF Simple, Adds, AtStmt, InFrame, Top
<1>3. CASE ExprStmt(b)
  <2>1. Expression("expr", b) \in Node /\ Expression("expr", b).kind = "expr"
    BY MkType
  <2>2. QED
    BY <1>2, <1>3, <2>1 DEF ExprStmt
<1>4. CASE ReturnStmt
  <2>1. Mk("return") \in Node /\ Mk("return").kind = "return"
    BY MkType
  <2>2. QED
    BY <1>2, <1>4, <2>1 DEF ReturnStmt
<1>5. CASE BreakStmt /\ breakNodes # <<>>
  <2> DEFINE d == [Mk("break") EXCEPT !.target = Last(breakNodes)]
  <2>1. Last(breakNodes) \in Nat
    BY <1>1, <1>5, LastType
  <2>2. d \in Node /\ d.kind = "break"
    BY <2>1, MkType
  <2>3. Simple(d)
    BY <1>5 DEF BreakStmt
  <2> HIDE DEF d
  <2>4. QED
    BY <1>2, <2>2, <2>3
<1>6. CASE ContinueStmt /\ continueNodes # <<>>
  <2> DEFINE d == [Mk("continue") EXCEPT !.target = Last(continueNodes)]
  <2>1. Last(continueNodes) \in Nat
    BY <1>1, <1>6, LastType
  <2>2. d \in Node /\ d.kind = "continue"
    BY <2>1, MkType
  <2>3. Simple(d) \/ Stops
    BY <1>6 DEF ContinueStmt, Report, Stops
  <2> HIDE DEF d
  <2>4. QED
    BY <1>2, <2>2, <2>3
<1>7. CASE (BreakStmt /\ breakNodes = <<>>) \/ (ContinueStmt /\ continueNodes = <<>>)
  BY <1>7 DEF BreakStmt, ContinueStmt, Report, Stops
<1>8. QED
  BY <1>3, <1>4, <1>5, <1>6, <1>7

\* Every beginning.
LEMMA OpensSteps ==
  ASSUME NestInv, NEW b \in BOOLEAN, NEW c \in BOOLEAN,
         \/ OpenBlock \/ IfStmt(b) \/ ForStmt(c, b) \/ WhileStmt(c, b) \/ DoWhileStmt
         \/ SwitchStmt \/ CaseStmt \/ DefaultStmt
  PROVE  Stops \/ \E d \in Node : Opens(d)
<1>0. /\ {"block", "if", "for", "do", "switch", "case", "default"} \subseteq Openers
      /\ {"block", "if", "for", "do", "switch"} \cap Sections = {}
      /\ {"case", "default"} \subseteq Sections
  BY DEF Openers, Sections
<1>1. ASSUME NEW kind \in Openers, NEW d \in Node, d.kind = kind, d.opener = 0, AtStmt,
             Enter(kind, d), kind \in Sections => switchNodes # <<>>,
             kind \notin Sections => next # "endSection", defaultStmts' = defaultStmts
      PROVE  Opens(d)
  BY <1>1 DEF Enter, Opens, AtStmt, InFrame, Top
<1>2. ASSUME NEW kind \in {"block", "if", "do", "switch", "case", "default"}, NEW x \in BOOLEAN
      PROVE  /\ Mk(kind) \in Node /\ Mk(kind).kind = kind /\ Mk(kind).opener = 0
             /\ Expression(kind, x) \in Node /\ Expression(kind, x).kind = kind
             /\ Expression(kind, x).opener = 0
  <2>1. kind \in {"expr", "return", "break", "continue", "endfunc"} \cup Openers
    BY <1>0, <1>2
  <2>2. QED
    BY <2>1, MkType
<1>3. CASE OpenBlock
  BY <1>0, <1>1, <1>2, <1>3 DEF OpenBlock
<1>4. CASE IfStmt(b)
  BY <1>0, <1>1, <1>2, <1>4 DEF IfStmt
<1>5. CASE ForStmt(c, b) \/ WhileStmt(c, b)
  <2> DEFINE e == Expression("for", b)
  <2>1. e \in Node /\ e.kind = "for" /\ e.opener = 0
    BY <1>0, MkType
  <2> DEFINE d == [e EXCEPT !.cond = c, !.inc = TRUE]
             w == [e EXCEPT !.cond = c]
  <2>2. EnterLoop("for", d) \/ EnterLoop("for", w)
    BY <1>5 DEF ForStmt, WhileStmt
  <2> HIDE DEF e
  <2>3. d \in Node /\ d.kind = "for" /\ d.opener = 0
    BY <2>1 DEF Node
  <2>4. w \in Node /\ w.kind = "for" /\ w.opener = 0
    BY <2>1 DEF Node
  <2> HIDE DEF d, w
  <2>5. QED
    BY <1>0, <1>1, <2>2, <2>3, <2>4 DEF EnterLoop
<1>6. CASE DoWhileStmt
  BY <1>0, <1>1, <1>2, <1>6 DEF DoWhileStmt, EnterLoop
<1>7. CASE SwitchStmt
  BY <1>0, <1>1, <1>2, <1>7 DEF SwitchStmt
<1>8. CASE CaseStmt
  <2>1. AtStmt /\ (Stops \/ (switchNodes # <<>> /\ Enter("case", Mk("case")) /\ defaultStmts' = defaultStmts))
    BY <1>8 DEF CaseStmt, AtLabel, Report, Stops
  <2>2. QED
    BY <1>0, <1>1, <1>2, <2>1
<1>9. CASE DefaultStmt
  <2>1. AtStmt /\ (Stops \/ (switchNodes # <<>> /\ Enter("default", Mk("default")) /\ defaultStmts' = defaultStmts))
    BY <1>9 DEF DefaultStmt, AtLabel, Report, Stops
  <2>2. QED
    BY <1>0, <1>1, <1>2, <2>1
<1>10. QED
  BY <1>3, <1>4, <1>5, <1>6, <1>7, <1>8, <1>9

\* Every end.
LEMMA ClosesSteps ==
  ASSUME NestInv, NEW b \in BOOLEAN,
         \/ CloseBlock \/ EndIf \/ EndFor \/ EndDoWhile(b) \/ EndSwitch \/ EndCase \/ EndDefault
  PROVE  Stops \/ \E d \in Node : Closes(d)
<1>0. /\ outcome = "parsing" /\ open # <<>> /\ Top = Last(open) /\ Last(open).node \in Nat
  <2>1. outcome = "parsing" /\ open # <<>>
    BY DEF CloseBlock, EndIf, EndFor, EndDoWhile, EndSwitch, EndCase, EndDefault, InFrame
  <2>2. QED
    BY <2>1, TopNode
<1>1. ASSUME NEW kind \in Closers, kind = CloserOf[Construct(Last(open).kind)], NEW token,
             Leave(kind, token), kind \in {"endcase", "enddefault"} => token = "endSection",
             defaultStmts' = IF kind = "enddefault" THEN defaultStmts \cup {Last(switchNodes)}
                             ELSE defaultStmts
      PROVE  \E d \in Node : Closes(d)
  <2> DEFINE d == End(kind, Top.node)
  <2>1. d \in Node /\ d.kind = kind /\ d.opener = Last(open).node
    BY ZenonT(60), <1>0, <1>1, EndType
  <2>2. /\ outcome' = outcome /\ ast' = Append(ast, d)
        /\ open' = AfterStmt(Front(open)) /\ next' = token
    BY <1>1 DEF Leave
  <2> HIDE DEF d
  <2>3. Closes(d)
    BY <1>0, <1>1, <2>1, <2>2 DEF Closes
  <2>4. QED
    BY <2>1, <2>3
<1>2. CASE CloseBlock
  BY <1>0, <1>1, <1>2 DEF CloseBlock, InFrame, CloserOf, Construct, Closers
<1>3. CASE EndIf
  BY <1>0, <1>1, <1>3 DEF EndIf, InFrame, CloserOf, Construct, Closers
<1>4. CASE EndFor
  BY <1>0, <1>1, <1>4 DEF EndFor, LeaveLoop, InFrame, CloserOf, Construct, Closers
<1>5. CASE EndDoWhile(b)
  <2> DEFINE d == [End("enddo", Top.node) EXCEPT !.branching = b]
  <2>1. Last(open).kind = "do"
    BY <1>0, <1>5 DEF EndDoWhile, InFrame
  <2>2. d \in Node /\ d.kind = "enddo" /\ d.opener = Last(open).node
    BY <1>0, EndType DEF Closers
  <2>3. \/ Stops
        \/ /\ ast' = Append(ast, d) /\ open' = AfterStmt(Front(open)) /\ outcome' = outcome
           /\ defaultStmts' = defaultStmts
    BY <1>5 DEF EndDoWhile, Report, Stops
  <2> HIDE DEF d
  <2>4. Stops \/ Closes(d)
    BY <1>0, <2>1, <2>2, <2>3 DEF Closes, CloserOf, Construct
  <2>5. QED
    BY <2>2, <2>4
<1>6. CASE EndSwitch
  BY <1>0, <1>1, <1>6 DEF EndSwitch, InFrame, CloserOf, Construct, Closers
<1>7. CASE EndCase
  BY <1>0, <1>1, <1>7 DEF EndCase, InFrame, CloserOf, Construct, Closers
<1>8. CASE EndDefault
  BY <1>0, <1>1, <1>8 DEF EndDefault, InFrame, CloserOf, Construct, Closers
<1>9. QED
  BY <1>2, <1>3, <1>4, <1>5, <1>6, <1>7, <1>8

-----------------------------------------------------------------------------
(* Every step of the parser keeps the nodes in order. *)

\* What is appended has a right place.
LEMMA AppendedEnds ==
  ASSUME NEW a \in Seq(Node), NEW d \in Node, NodesOK(Append(a, d))
  PROVE  EndsAt(a, d, Len(a) + 1)
<1> DEFINE b == Append(a, d)
           N == Len(a) + 1
<1>1. /\ Len(b) = N /\ Len(a) \in Nat /\ b[N] = d /\ \A i \in 1 .. Len(a) : b[i] = a[i]
  BY AppendParts
<1>2. N \in 1 .. Len(b) /\ N \in Nat
  BY <1>1
<1>3. EndsAt(b, d, N)
  BY <1>1, <1>2 DEF NodesOK
<1>4. SameBefore(b, a, N)
  BY <1>1 DEF SameBefore
<1>5. QED
  BY <1>2, <1>3, <1>4, NodeSame

\* One more node that is not the end of a default.
LEMMA FollowsMore ==
  ASSUME NEW a \in Seq(Node), NodesOK(a), NEW d \in Node, NodesOK(Append(a, d)), NEW ds,
         FollowsOK(a, ds), FollowsAt(a, d, Len(a) + 1), d.kind # "enddefault"
  PROVE  FollowsOK(Append(a, d), ds)
<1> DEFINE b == Append(a, d)
<1>1. EndsAt(a, d, Len(a) + 1)
  BY AppendedEnds
<1>2. Follows(b)
  BY FollowsAppend DEF FollowsOK
<1>3. b # <<>> /\ b[1] = a[1]
  <2>1. /\ Len(b) = Len(a) + 1 /\ Len(a) \in Nat /\ \A i \in 1 .. Len(a) : b[i] = a[i]
    BY AppendParts
  <2>2. 1 \in 1 .. Len(a) /\ Len(b) # 0
    BY <2>1 DEF FollowsOK
  <2>3. QED
    BY <2>1, <2>2
<1>4. \A s : HasDefault(b, s) <=> HasDefault(a, s)
  BY <1>1, HasDefaultAppend
<1> HIDE DEF b
<1>5. FollowsOK(b, ds)
  BY <1>2, <1>3, <1>4 DEF FollowsOK
<1>6. QED
  BY <1>5 DEF b

\* One fewer.
LEMMA FollowsLess ==
  ASSUME NEW a \in Seq(Node), NodesOK(a), NodesOK(Front(a)), NEW ds, FollowsOK(a, ds),
         Last(a).kind = "else"
  PROVE  /\ FollowsOK(Front(a), ds)
         /\ Last(Front(a)).kind \notin {"endcase", "enddefault"}
<1> DEFINE b == Front(a)
           N == Len(a)
<1>1. /\ b \in Seq(Node) /\ N \in Nat /\ N > 0 /\ Len(b) = N - 1 /\ \A i \in 1 .. N - 1 : b[i] = a[i]
      /\ Last(a) = a[N] /\ a[N] \in Node /\ a = Append(b, a[N])
  BY SMTT(60), FrontType, LastType, FrontOfAppend DEF FollowsOK, Last
<1> HIDE DEF b
<1>2. FollowsAt(a, a[N], N) /\ EndsAt(a, a[N], N)
  BY <1>1 DEF FollowsOK, Follows, NodesOK
<1>3. N > 1
  BY <1>1, <1>2 DEF EndsAt
<1>4. Last(b).kind \notin {"endcase", "enddefault"}
  <2>1. Last(b) = a[N - 1]
    BY <1>1, <1>3 DEF Last
  <2>2. QED
    BY <1>1, <1>2, <1>3, <2>1 DEF FollowsAt, Sections, Closers
<1>5. Follows(b)
  <2> SUFFICES ASSUME NEW j \in 1 .. Len(b) PROVE FollowsAt(b, b[j], j)
    BY DEF Follows
  <2>1. j \in 1 .. N /\ j \in Nat /\ b[j] = a[j] /\ a[j] \in Node
    BY <1>1
  <2>2. SameBefore(a, b, j)
    BY <1>1, <2>1 DEF SameBefore
  <2>3. FollowsAt(a, a[j], j)
    BY <2>1 DEF FollowsOK, Follows
  <2>4. QED
    BY <2>1, <2>2, <2>3, FollowsSame
<1>6. b # <<>> /\ b[1] = a[1]
  BY <1>1, <1>3
<1>7. \A s : HasDefault(a, s) <=> HasDefault(b, s)
  <2>1. PICK d \in Node : d = a[N]
    BY <1>1
  <2>2. a = Append(b, d) /\ d.kind = "else"
    BY <1>1, <2>1
  <2>3. NodesOK(b)
    BY DEF b
  <2>4. EndsAt(b, d, Len(b) + 1)
    BY <1>1, <2>2, AppendedEnds
  <2>5. QED
    BY <1>1, <2>2, <2>3, <2>4, HasDefaultAppend
<1>8. FollowsOK(b, ds)
  BY <1>5, <1>6, <1>7 DEF FollowsOK
<1>9. QED
  BY <1>4, <1>8 DEF b

\* A switch whose statement has been parsed waits no more.
LEMMA AfterStmtKinds ==
  ASSUME NEW fs \in Seq(Frame)
  PROVE  /\ AfterStmt(fs) \in Seq(Frame) /\ Len(AfterStmt(fs)) = Len(fs)
         /\ \A k \in 1 .. Len(fs) : AfterStmt(fs)[k].kind = fs[k].kind /\ AfterStmt(fs)[k].node = fs[k].node
         /\ fs # <<>> /\ Last(AfterStmt(fs)).kind = "switch" => Last(AfterStmt(fs)).done
<1> DEFINE gs == AfterStmt(fs)
           L == Len(fs)
<1>1. L \in Nat /\ \A k \in 1 .. L : fs[k] \in Frame
  OBVIOUS
<1>2. CASE fs # <<>> /\ Last(fs).kind \notin {"block"} \cup Sections
  <2> DEFINE f == [fs[L] EXCEPT !.done = TRUE]
  <2>1. L \in 1 .. L
    BY <1>1, <1>2
  <2>2. f \in Frame /\ f.kind = fs[L].kind /\ f.node = fs[L].node /\ f.done
    BY <1>1, <2>1 DEF Frame
  <2>3. gs = [fs EXCEPT ![L] = f]
    BY <1>2 DEF AfterStmt
  <2> HIDE DEF gs, f
  <2>4. gs \in Seq(Frame) /\ Len(gs) = L /\ gs[L] = f /\ \A k \in 1 .. L : k # L => gs[k] = fs[k]
    BY <1>1, <2>1, <2>2, <2>3
  <2>5. QED
    BY <1>1, <2>1, <2>2, <2>4 DEF gs, Last
<1>3. CASE ~(fs # <<>> /\ Last(fs).kind \notin {"block"} \cup Sections)
  BY <1>3 DEF AfterStmt, Sections
<1>4. QED
  BY <1>2, <1>3

\* The frames gs are those of fs, or some first ones of them, none a switch in waiting.
FewerFrames(fs, gs) ==
    /\ Len(gs) <= Len(fs) /\ gs \in Seq(Frame)
    /\ \A k \in 1 .. Len(gs) : gs[k].kind = fs[k].kind /\ gs[k].node = fs[k].node
    /\ gs # <<>> /\ Last(gs).kind = "switch" => Last(gs).done

\* One more node after which no frame has begun.
LEMMA TokenMore ==
  ASSUME NEW fs \in Seq(Frame), NEW a \in Seq(Node), NEW t, TokenFits(fs, a, t), NEW d \in Node,
         d.kind # "else", NEW gs, FewerFrames(fs, gs), gs # <<>>,
         NEW u, d.kind \in {"endcase", "enddefault"} => u = "endSection"
  PROVE  TokenFits(gs, Append(a, d), u)
<1> DEFINE b == Append(a, d)
<1>1. /\ Len(b) = Len(a) + 1 /\ Len(a) \in Nat /\ b[Len(a) + 1] = d /\ \A i \in 1 .. Len(a) : b[i] = a[i]
      /\ \A i \in 1 .. Len(a) + 1 : i \in 1 .. Len(a) \/ i = Len(a) + 1
      /\ Len(gs) \in Nat /\ Len(fs) \in Nat
  BY AppendParts DEF FewerFrames
<1> HIDE DEF b
<1>2. Last(b) = d
  BY <1>1 DEF Last
<1>3. ASSUME NEW k \in 1 .. Len(gs), gs[k].kind = "if", NEW c \in 1 .. Len(b), b[c].kind = "else"
      PROVE  b[c].opener # gs[k].node
  <2>1. c \in 1 .. Len(a) /\ b[c] = a[c]
    BY <1>1, <1>3
  <2>2. k \in 1 .. Len(fs) /\ fs[k].kind = "if" /\ fs[k].node = gs[k].node
    BY <1>1, <1>3 DEF FewerFrames
  <2>3. QED
    BY <1>3, <2>1, <2>2 DEF TokenFits
<1>4. TokenFits(gs, b, u)
  BY <1>2, <1>3 DEF TokenFits, FewerFrames
<1>5. QED
  BY <1>4 DEF b

\* A simple statement, or an end.
LEMMA AddsFollow ==
  ASSUME NestInv, NestInv', FollowInv, NEW d \in Node, Adds(d) \/ Closes(d)
  PROVE  FollowInv'
<1>1. /\ Nested(open, ast) /\ NodesOK(ast) /\ NodesOK(ast') /\ open \in Seq(Frame) /\ ast \in Seq(Node)
      /\ outcome = "parsing" /\ outcome' = "parsing" /\ ast' = Append(ast, d) /\ open # <<>>
      /\ open' # <<>> /\ d.kind # "else" /\ d.kind # "endfunc" /\ d.kind \notin Sections
  <2>1. Nested(open, ast) /\ Nested(open, ast)'
    BY DEF NestInv
  <2>2. outcome = "parsing" /\ outcome' = "parsing" /\ ast' = Append(ast, d) /\ open # <<>>
    BY DEF Adds, Closes
  <2>3. d.kind # "else" /\ d.kind # "endfunc" /\ d.kind \notin Sections
    <3>1. CASE Adds(d)
      BY <3>1 DEF Adds, Sections
    <3>2. CASE Closes(d)
      <4>1. Last(open) \in Frame
        BY <2>2, TopNode
      <4>2. QED
        BY <3>2, <4>1 DEF Closes, CloserOf, Construct, Frame, Openers, Sections
    <3>3. QED
      BY <3>1, <3>2
  <2>4. open' # <<>>
    BY <2>2 DEF NestInv
  <2>5. QED
    BY <2>1, <2>2, <2>3, <2>4 DEF Nested, OpenOK
<1>2. TokenFits(open, ast, next) /\ FollowsOK(ast, defaultStmts)
  BY <1>1 DEF FollowInv
<1>3. FollowsAt(ast, d, Len(ast) + 1)
  <2>1. Last(ast).kind \in {"endcase", "enddefault"} => d.kind \in Sections \cup Closers
    <3>1. CASE Adds(d)
      BY <1>2, <3>1 DEF Adds, TokenFits
    <3>2. CASE Closes(d)
      <4>1. Last(open) \in Frame
        BY <1>1, TopNode
      <4>2. QED
        BY <3>2, <4>1 DEF Closes, CloserOf, Construct, Frame, Openers, Closers
    <3>3. QED
      BY <3>1, <3>2
  <2>2. Last(open).kind = "switch" => Last(open).node = Len(ast) \/ d.kind = "endswitch"
    BY <1>2 DEF Adds, Closes, TokenFits, CloserOf, Construct
  <2>3. QED
    BY <1>1, <2>1, <2>2, FollowsTop
<1>4. TokenFits(open', ast', next')
  <2>1. FewerFrames(open, open')
    <3>1. CASE Adds(d)
      <4>1. open' = AfterStmt(open)
        BY <3>1 DEF Adds
      <4>2. QED
        BY <1>1, <4>1, AfterStmtKinds DEF FewerFrames
    <3>2. CASE Closes(d)
      <4>1. open' = AfterStmt(Front(open))
        BY <3>2 DEF Closes
      <4>2. PICK gs : gs = Front(open)
        OBVIOUS
      <4>3. /\ gs \in Seq(Frame) /\ Len(gs) = Len(open) - 1 /\ Len(open) \in Nat
            /\ \A i \in 1 .. Len(open) - 1 : gs[i] = open[i]
        BY <1>1, <4>2, FrontType
      <4>4. gs # <<>>
        BY <1>1, <4>1, <4>2, AfterStmtKinds DEF AfterStmt
      <4>5. /\ AfterStmt(gs) \in Seq(Frame) /\ Len(AfterStmt(gs)) = Len(gs)
            /\ \A k \in 1 .. Len(gs) :
                 AfterStmt(gs)[k].kind = gs[k].kind /\ AfterStmt(gs)[k].node = gs[k].node
            /\ Last(AfterStmt(gs)).kind = "switch" => Last(AfterStmt(gs)).done
        BY <4>3, <4>4, AfterStmtKinds
      <4>6. QED
        BY <4>1, <4>2, <4>3, <4>5 DEF FewerFrames
    <3>3. QED
      BY <3>1, <3>2
  <2>2. d.kind \in {"endcase", "enddefault"} => next' = "endSection"
    BY DEF Adds, Closes
  <2>3. QED
    BY <1>1, <1>2, <2>1, <2>2, TokenMore
<1>5. FollowsOK(ast', defaultStmts')
  <2>1. CASE d.kind # "enddefault"
    <3>1. defaultStmts' = defaultStmts
      BY <2>1 DEF Adds, Closes
    <3>2. NodesOK(Append(ast, d))
      BY <1>1
    <3>3. FollowsOK(Append(ast, d), defaultStmts)
      BY <1>1, <1>2, <1>3, <2>1, <3>2, FollowsMore
    <3>4. QED
      BY <1>1, <3>1, <3>3
  <2>2. CASE d.kind = "enddefault"
    <3> DEFINE N == Len(ast) + 1
               o == d.opener
               w == Last(switchNodes)
    <3>1. /\ Closes(d) /\ o = Last(open).node /\ Last(open).kind = "default"
          /\ defaultStmts' = defaultStmts \cup {w}
      <4>1. Closes(d)
        BY <2>2 DEF Adds
      <4>2. Last(open) \in Frame
        BY <1>1, TopNode
      <4>3. QED
        BY <2>2, <4>1, <4>2 DEF Closes, CloserOf, Construct, Frame, Openers
    <3>2. Tracks(switchNodes, open, {"switch"}) /\ switchNodes # <<>>
      <4>1. Tracks(switchNodes, open, {"switch"})
        BY DEF NestInv, Stacks
      <4>2. \E l \in 1 .. Len(open) : open[l].kind = "switch"
        <5>1. Len(open) \in Nat /\ Len(open) \in 1 .. Len(open) /\ Last(open) = open[Len(open)]
          BY <1>1 DEF Last
        <5>2. \E l \in 1 .. Len(open) - 1 : open[l].kind = "switch"
          BY <1>1, <3>1, <5>1 DEF Nested, OpenOK, Sections
        <5>3. QED
          BY <5>1, <5>2
      <4>3. QED
        BY <4>1, <4>2 DEF Tracks
    <3>3. Binds(ast, w, N, {"switch"})
      <4>1. {"switch"} \subseteq Openers /\ "if" \notin {"switch"} /\ "else" \notin {"switch"}
        BY DEF Openers
      <4>2. QED
        BY <1>1, <3>2, <4>1, TopBinds
    <3>4. /\ InnermostAt(ast, o, N) /\ ast[o].kind = "default" /\ EndsOK(ast, N)
          /\ o \in 1 .. Len(ast) /\ N \in Nat
      BY <1>1, <3>1, FrameIsInnermost DEF Construct
    <3>5. \A h : Encloses(ast, h, N, {"switch"}) <=> Encloses(ast, h, o, {"switch"})
      <4>1. {"switch"} \subseteq Openers
        BY DEF Openers
      <4>2. QED
        BY <3>4, <4>1, EnclosesInner
    <3>6. \A s : Binds(ast, s, o, {"switch"}) <=> s = w
      <4>1. /\ \A h : Encloses(ast, h, N, {"switch"}) => h \in 1 .. N - 1 /\ h \in 1 .. o - 1
        BY <3>5 DEF Encloses
      <4>2. Binds(ast, w, o, {"switch"})
        BY <3>3, <3>5, <4>1 DEF Binds
      <4>3. ASSUME NEW s, Binds(ast, s, o, {"switch"}) PROVE s = w
        <5>1. s \in 1 .. o - 1 /\ w \in 1 .. o - 1 /\ s <= w /\ w <= s
          BY <4>1, <4>2, <4>3, <3>5 DEF Binds
        <5>2. QED
          BY <3>4, <5>1
      <4>4. QED
        BY <4>2, <4>3
    <3>7. EndsAt(ast, d, N) /\ Follows(ast')
      <4>1. NodesOK(Append(ast, d)) /\ Follows(ast)
        BY <1>1, <1>2 DEF FollowsOK
      <4>2. QED
        BY <1>1, <1>3, <4>1, AppendedEnds, FollowsAppend
    <3>8. \A s : HasDefault(ast', s) <=> HasDefault(ast, s) \/ s = w
      BY <1>1, <2>2, <3>6, <3>7, HasDefaultAppend
    <3>9. ast' # <<>> /\ ast'[1] = ast[1]
      <4>1. /\ Len(ast') = Len(ast) + 1 /\ Len(ast) \in Nat /\ \A i \in 1 .. Len(ast) : ast'[i] = ast[i]
        BY <1>1, AppendParts
      <4>2. 1 \in 1 .. Len(ast) /\ Len(ast') # 0
        BY <1>1, <1>2, <4>1 DEF FollowsOK
      <4>3. QED
        BY <4>1, <4>2
    <3>10. QED
      BY <1>2, <3>1, <3>7, <3>8, <3>9 DEF FollowsOK
  <2>3. QED
    BY <2>1, <2>2
<1>6. QED
  BY <1>1, <1>4, <1>5 DEF FollowInv

\* A beginning.
LEMMA OpensFollow ==
  ASSUME NestInv, NestInv', FollowInv, NEW d \in Node, Opens(d)
  PROVE  FollowInv'
<1> DEFINE N == Len(ast) + 1
           f == [kind |-> d.kind, node |-> N, done |-> FALSE]
<1>1. /\ Nested(open, ast) /\ NodesOK(ast) /\ NodesOK(ast') /\ open \in Seq(Frame) /\ ast \in Seq(Node)
      /\ Len(ast) \in Nat
  <2>1. Nested(open, ast) /\ Nested(open, ast)'
    BY DEF NestInv
  <2>2. QED
    BY <2>1 DEF Nested, OpenOK
<1>2. /\ outcome = "parsing" /\ outcome' = "parsing" /\ ast' = Append(ast, d) /\ open # <<>>
      /\ open' = Append(open, f) /\ ~Last(open).done /\ defaultStmts' = defaultStmts
      /\ d.kind \in Openers /\ next' = "any"
      /\ IF d.kind \in Sections THEN switchNodes # <<>> ELSE next # "endSection"
  BY DEF Opens
<1>3. d.kind # "else" /\ d.kind # "endfunc" /\ d.kind # "enddefault" /\ d.kind # "endcase"
  BY <1>2 DEF Openers
<1>4. TokenFits(open, ast, next) /\ FollowsOK(ast, defaultStmts)
  BY <1>2 DEF FollowInv
<1>5. FollowsAt(ast, d, N)
  <2>1. d.kind \in Sections => \E l \in 1 .. Len(open) : open[l].kind = "switch"
    <3>1. Tracks(switchNodes, open, {"switch"})
      BY DEF NestInv
    <3>2. QED
      BY SMTT(60), <1>1, <1>2, <3>1, TracksTop
  <2>2. Last(ast).kind \in {"endcase", "enddefault"} => d.kind \in Sections \cup Closers
    BY <1>2, <1>4 DEF TokenFits
  <2>3. Last(open).kind = "switch" => Last(open).node = Len(ast) \/ d.kind = "endswitch"
    BY <1>2, <1>4 DEF TokenFits
  <2>4. QED
    BY <1>1, <1>2, <1>3, <2>1, <2>2, <2>3, FollowsTop
<1>6. FollowsOK(ast', defaultStmts')
  <2>1. NodesOK(Append(ast, d))
    BY <1>1, <1>2
  <2>2. FollowsOK(Append(ast, d), defaultStmts)
    BY <1>1, <1>3, <1>4, <1>5, <2>1, FollowsMore
  <2>3. QED
    BY <1>2, <2>2
<1>7. TokenFits(open', ast', next')
  <2> DEFINE b == Append(ast, d)
             gs == Append(open, f)
             L == Len(open)
  <2>1. f \in Frame /\ f.kind = d.kind /\ f.node = N
    BY <1>1, <1>2 DEF Frame
  <2> HIDE DEF f
  <2>2. /\ Len(b) = N /\ b[N] = d /\ \A i \in 1 .. Len(ast) : b[i] = ast[i]
        /\ \A i \in 1 .. N : i \in 1 .. Len(ast) \/ i = N
    BY <1>1, AppendParts
  <2>3. /\ Len(gs) = L + 1 /\ L \in Nat /\ gs[L + 1] = f /\ \A k \in 1 .. L : gs[k] = open[k]
        /\ \A k \in 1 .. L + 1 : k \in 1 .. L \/ k = L + 1
    BY <1>1, <2>1, AppendParts
  <2> HIDE DEF b, gs
  <2>4. Last(b) = d /\ Last(gs) = f
    BY <1>1, <2>2, <2>3 DEF Last
  <2>5. ASSUME NEW k \in 1 .. Len(gs), gs[k].kind = "if", NEW c \in 1 .. Len(b), b[c].kind = "else"
        PROVE  b[c].opener # gs[k].node
    <3>1. c \in 1 .. Len(ast) /\ b[c] = ast[c]
      BY <1>3, <2>2, <2>5
    <3>2. CASE k \in 1 .. L
      BY <1>4, <2>3, <2>5, <3>1, <3>2 DEF TokenFits
    <3>3. CASE k = L + 1
      <4>1. EndsAt(ast, ast[c], c) /\ ast[c].opener \in 1 .. c - 1
        BY <1>1, <2>5, <3>1 DEF NodesOK, EndsAt
      <4>2. QED
        BY <1>1, <2>1, <2>3, <3>1, <3>3, <4>1
    <3>4. QED
      BY <2>3, <3>2, <3>3
  <2>6. TokenFits(gs, b, "any")
    BY <1>3, <2>1, <2>2, <2>4, <2>5 DEF TokenFits
  <2>7. open' = gs /\ ast' = b /\ next' = "any"
    BY <1>2 DEF b, gs, f
  <2>8. QED
    BY <2>6, <2>7
<1>8. QED
  BY <1>2, <1>6, <1>7 DEF FollowInv

\* An else.
LEMMA ElseFollows ==
  ASSUME NestInv, NestInv', FollowInv, Else
  PROVE  FollowInv'
<1> DEFINE N == Len(ast) + 1
           L == Len(open)
           d == End("else", Top.node)
           f == [Top EXCEPT !.kind = "else", !.done = FALSE]
           fs == Front(open)
           gs == Append(fs, f)
           b == Append(ast, d)
<1>1. /\ Nested(open, ast) /\ NodesOK(ast) /\ NodesOK(ast') /\ open \in Seq(Frame) /\ ast \in Seq(Node)
      /\ Len(ast) \in Nat
  <2>1. Nested(open, ast) /\ Nested(open, ast)'
    BY DEF NestInv
  <2>2. QED
    BY <2>1 DEF Nested, OpenOK
<1>2. /\ outcome = "parsing" /\ outcome' = "parsing" /\ open # <<>> /\ next = "any" /\ next' = "any"
      /\ ast' = b /\ open' = gs /\ defaultStmts' = defaultStmts
      /\ Last(open).kind = "if" /\ Top = Last(open)
  BY DEF Else, InFrame, Top
<1>3. /\ Last(open) \in Frame /\ Last(open).node \in Nat /\ Last(open) = open[L] /\ L \in Nat /\ L > 0
      /\ d \in Node /\ d.kind = "else" /\ d.opener = Last(open).node
      /\ f \in Frame /\ f.kind = "else"
  <2>1. Last(open) \in Frame /\ Last(open).node \in Nat
    BY <1>2, TopNode
  <2>2. d \in Node /\ d.kind = "else" /\ d.opener = Last(open).node
    BY ZenonT(60), <1>2, <2>1, EndType
  <2>3. f \in Frame /\ f.kind = "else"
    BY <1>2, <2>1 DEF Frame
  <2>4. QED
    BY <1>1, <1>2, <2>1, <2>2, <2>3 DEF Last
<1> HIDE DEF f, d
<1>4. TokenFits(open, ast, next) /\ FollowsOK(ast, defaultStmts)
  BY <1>2 DEF FollowInv
<1>5. \A c \in 1 .. Len(ast) : ast[c].kind = "else" => ast[c].opener # d.opener
  <2>1. L \in 1 .. L
    BY <1>3
  <2>2. QED
    BY <1>2, <1>3, <1>4, <2>1 DEF TokenFits
<1>6. FollowsAt(ast, d, N)
  <2>1. Last(ast).kind \notin {"endcase", "enddefault"}
    BY <1>2, <1>4 DEF TokenFits
  <2>2. d.kind \notin Sections /\ d.kind # "endfunc" /\ Last(open).kind # "switch"
    BY <1>2, <1>3 DEF Sections
  <2>3. QED
    BY <1>1, <1>2, <1>3, <1>5, <2>1, <2>2, FollowsTop
<1>7. FollowsOK(ast', defaultStmts')
  <2>1. NodesOK(Append(ast, d))
    BY <1>1, <1>2
  <2>2. FollowsOK(Append(ast, d), defaultStmts)
    BY <1>1, <1>3, <1>4, <1>6, <2>1, FollowsMore
  <2>3. QED
    BY <1>2, <2>2
<1>8. TokenFits(gs, b, "any")
  <2>1. /\ Len(b) = N /\ b[N] = d /\ \A i \in 1 .. Len(ast) : b[i] = ast[i]
        /\ \A i \in 1 .. N : i \in 1 .. Len(ast) \/ i = N
    BY <1>1, <1>3, AppendParts
  <2>2. fs \in Seq(Frame) /\ Len(fs) = L - 1 /\ \A k \in 1 .. L - 1 : fs[k] = open[k]
    BY <1>1, <1>2, FrontType
  <2>3. /\ Len(gs) = L /\ gs[L] = f /\ \A k \in 1 .. L - 1 : gs[k] = open[k]
        /\ \A k \in 1 .. L : k \in 1 .. L - 1 \/ k = L
    <3> HIDE DEF fs
    <3>1. /\ Len(gs) = Len(fs) + 1 /\ gs[Len(fs) + 1] = f /\ \A k \in 1 .. Len(fs) : gs[k] = fs[k]
      BY <1>3, <2>2, AppendParts
    <3>2. QED
      BY <1>3, <2>2, <3>1
  <2> HIDE DEF b, gs
  <2>4. Last(b) = d /\ Last(gs) = f
    BY <1>1, <2>1, <2>3 DEF Last
  <2>5. ASSUME NEW k \in 1 .. Len(gs), gs[k].kind = "if", NEW c \in 1 .. Len(b), b[c].kind = "else"
        PROVE  b[c].opener # gs[k].node
    <3>1. k \in 1 .. L - 1 /\ gs[k] = open[k] /\ k \in 1 .. L
      BY <1>3, <2>3, <2>5
    <3>2. CASE c \in 1 .. Len(ast)
      BY <1>4, <2>1, <2>5, <3>1, <3>2 DEF TokenFits
    <3>3. CASE c = N
      <4>1. L \in 1 .. L /\ open[k].node < open[L].node
        BY <1>1, <1>3, <3>1 DEF Nested, OpenOK
      <4>2. open[k] \in Frame
        BY <1>1, <3>1
      <4>3. open[k].node \in Nat
        BY <4>2 DEF Frame
      <4>4. QED
        BY <1>3, <2>1, <3>1, <3>3, <4>1, <4>3
    <3>4. QED
      BY <2>1, <2>5, <3>2, <3>3
  <2>6. QED
    BY <1>3, <2>4, <2>5 DEF TokenFits
<1>9. QED
  BY <1>2, <1>7, <1>8 DEF FollowInv

\* A null statement.
LEMMA NullFollows ==
  ASSUME NestInv, NestInv', FollowInv, NullStmt
  PROVE  FollowInv'
<1>1. /\ open \in Seq(Frame) /\ ast \in Seq(Node) /\ NodesOK(ast) /\ NodesOK(ast')
  <2>1. Nested(open, ast) /\ Nested(open, ast)'
    BY DEF NestInv
  <2>2. QED
    BY <2>1 DEF Nested, OpenOK
<1>2. /\ outcome = "parsing" /\ outcome' = "parsing" /\ open # <<>> /\ next # "endSection" /\ next' = "any"
      /\ ~Last(open).done /\ open' = AfterStmt(open) /\ defaultStmts' = defaultStmts
      /\ ast' = IF Last(open).kind = "else" THEN Front(ast) ELSE ast
  BY DEF NullStmt, AtStmt, InFrame, Top
<1>3. TokenFits(open, ast, next) /\ FollowsOK(ast, defaultStmts)
  BY <1>2 DEF FollowInv
<1>4. /\ FollowsOK(ast', defaultStmts') /\ Last(ast').kind \notin {"endcase", "enddefault"}
      /\ \A c \in 1 .. Len(ast') : c \in 1 .. Len(ast) /\ ast'[c] = ast[c]
  <2>1. CASE Last(open).kind = "else"
    <3>1. Last(ast).kind = "else" /\ ast # <<>>
      BY <1>2, <2>1 DEF NestInv, ElsePending
    <3>2. NodesOK(Front(ast))
      BY <1>1, <1>2, <2>1
    <3>3. FollowsOK(Front(ast), defaultStmts) /\ Last(Front(ast)).kind \notin {"endcase", "enddefault"}
      BY <1>1, <1>3, <3>1, <3>2, FollowsLess
    <3>4. \A c \in 1 .. Len(Front(ast)) : c \in 1 .. Len(ast) /\ Front(ast)[c] = ast[c]
      <4>1. Len(Front(ast)) = Len(ast) - 1 /\ Len(ast) \in Nat /\ \A i \in 1 .. Len(ast) - 1 : Front(ast)[i] = ast[i]
        BY <1>1, <3>1, FrontType
      <4>2. QED
        BY <4>1
    <3>5. QED
      BY <1>2, <2>1, <3>3, <3>4
  <2>2. CASE Last(open).kind # "else"
    BY <1>2, <1>3, <2>2 DEF TokenFits
  <2>3. QED
    BY <2>1, <2>2
<1>5. TokenFits(open', ast', next')
  <2>1. /\ open' \in Seq(Frame) /\ Len(open') = Len(open)
        /\ \A k \in 1 .. Len(open) : open'[k].kind = open[k].kind /\ open'[k].node = open[k].node
        /\ Last(open').kind = "switch" => Last(open').done
    BY <1>1, <1>2, AfterStmtKinds
  <2>2. QED
    BY <1>3, <1>4, <2>1 DEF TokenFits
<1>6. QED
  BY <1>2, <1>4, <1>5 DEF FollowInv

\* The end of the function.
LEMMA FunctionFollows ==
  ASSUME NestInv, NestInv', FollowInv, EndFunction
  PROVE  FollowInv'
<1> DEFINE N == Len(ast) + 1
           d == End("endblock", 1)
           e == Mk("endfunc")
           b == Append(ast, d)
<1>1. /\ Nested(open, ast) /\ NodesOK(ast) /\ NodesOK(ast') /\ open \in Seq(Frame) /\ ast \in Seq(Node)
      /\ Len(ast) \in Nat
  <2>1. Nested(open, ast) /\ Nested(open, ast)'
    BY DEF NestInv
  <2>2. QED
    BY <2>1 DEF Nested, OpenOK
<1>2. /\ outcome = "parsing" /\ outcome' = "parsed" /\ open # <<>> /\ Len(open) = 1 /\ open' = <<>>
      /\ Last(open).kind = "block" /\ ast' = ast \o <<d, e>> /\ defaultStmts' = defaultStmts
  BY DEF EndFunction, InFrame, Top
<1>3. Last(open).node = 1
  BY <1>1, <1>2 DEF Nested, OpenOK, Last
<1>4. /\ d \in Node /\ d.kind = "endblock" /\ d.opener = 1
      /\ e \in Node /\ e.kind = "endfunc"
  <2>1. "endblock" \in Closers \cup {"else"} /\ 1 \in Nat
    BY DEF Closers
  <2>2. d \in Node /\ d.kind = "endblock" /\ d.opener = 1
    BY <2>1, EndType
  <2>3. e \in Node /\ e.kind = "endfunc"
    BY MkType
  <2>4. QED
    BY <2>2, <2>3
<1>5. ast' = Append(b, e)
  BY <1>1, <1>2, <1>4, AppendTwo
<1>6. /\ Nested(Front(open), b) /\ b \in Seq(Node) /\ Len(b) = N
      /\ Nested(<<>>, b)
  <2> DEFINE gs == Front(open)
  <2>1. d.kind = CloserOf[Construct(Last(open).kind)]
    BY <1>2, <1>4 DEF CloserOf, Construct
  <2>2. Nested(gs, b)
    BY <1>1, <1>2, <1>3, <1>4, <2>1, NestedClose
  <2>3. gs \in Seq(Frame) /\ Len(gs) = 0
    BY <1>1, <1>2, FrontType
  <2>4. b \in Seq(Node) /\ Len(b) = N
    BY <1>1, <1>4
  <2> HIDE DEF gs, b
  <2>5. gs = <<>>
    BY <2>3
  <2>6. QED
    BY <2>2, <2>4, <2>5 DEF gs
<1> HIDE DEF d, e
<1>7. TokenFits(open, ast, next) /\ FollowsOK(ast, defaultStmts)
  BY <1>2 DEF FollowInv
<1>8. FollowsOK(b, defaultStmts)
  <2>1. FollowsAt(ast, d, N)
    <3>1. d.kind \notin Sections /\ d.kind # "endfunc" /\ d.kind \in Closers /\ d.kind # "else"
      BY <1>4 DEF Sections, Closers
    <3>2. QED
      BY <1>1, <1>2, <1>4, <3>1, FollowsTop
  <2>2. NodesOK(Append(ast, d)) /\ d.kind # "enddefault"
    BY <1>4, <1>6 DEF Nested
  <2>3. QED
    BY <1>1, <1>4, <1>7, <2>1, <2>2, FollowsMore
<1> HIDE DEF b
<1>9. FollowsAt(b, e, N + 1)
  <2>1. ASSUME NEW i \in 1 .. N, b[i].kind \in Openers PROVE EndedBefore(b, i, N + 1)
    <3>1. ~\E k \in 1 .. Len(<<>>) : <<>>[k].node = i
      OBVIOUS
    <3>2. QED
      BY <1>6, <2>1, <3>1 DEF Nested, Unended
  <2>2. \A i : ~Encloses(b, i, N + 1, Openers)
    BY <1>1, <2>1 DEF Encloses
  <2>3. \A s : ~Binds(b, s, N + 1, Openers)
    BY <2>2 DEF Binds
  <2>4. b[N].kind = "endblock"
    <3>1. b[N] = d
      BY <1>1, <1>4 DEF b
    <3>2. QED
      BY <1>4, <3>1
  <2>5. (N + 1) - 1 = N
    BY <1>1
  <2>6. QED
    BY <1>4, <2>2, <2>3, <2>4, <2>5 DEF FollowsAt, Sections
<1>10. FollowsOK(ast', defaultStmts')
  <2>1. NodesOK(b) /\ NodesOK(Append(b, e)) /\ e.kind # "enddefault" /\ FollowsAt(b, e, Len(b) + 1)
    BY <1>1, <1>4, <1>5, <1>6, <1>9 DEF Nested
  <2>2. FollowsOK(Append(b, e), defaultStmts)
    BY <1>4, <1>6, <1>8, <2>1, FollowsMore
  <2>3. QED
    BY <1>2, <1>5, <2>2
<1>11. Last(ast').kind = "endfunc"
  <2>1. Len(Append(b, e)) = Len(b) + 1 /\ Append(b, e)[Len(b) + 1] = e
    BY <1>4, <1>6, AppendParts
  <2>2. QED
    BY <1>4, <1>5, <2>1 DEF Last
<1>12. QED
  BY <1>2, <1>10, <1>11 DEF FollowInv

\* The function's block.
LEMMA Init_FollowInv ==
  ASSUME ParserInit
  PROVE  FollowInv
<1> DEFINE f == [kind |-> "block", node |-> 1, done |-> FALSE]
           d == Mk("block")
<1>1. d \in Node /\ d.kind = "block"
  BY MkType DEF Openers
<1>2. /\ outcome = "parsing" /\ open = <<f>> /\ ast = <<d>> /\ defaultStmts = {}
      /\ f.kind = "block"
  BY DEF ParserInit
<1> HIDE DEF d, f
<1>3. Len(ast) = 1 /\ ast[1] = d /\ Len(open) = 1 /\ open[1] = f /\ ast # <<>>
  BY <1>2
<1>4. FollowsAt(ast, ast[1], 1)
  BY <1>1, <1>3 DEF FollowsAt, Sections
<1>5. \A s : ~HasDefault(ast, s)
  BY <1>1, <1>3 DEF HasDefault, DefaultOf
<1>6. FollowsOK(ast, defaultStmts)
  BY <1>1, <1>2, <1>3, <1>4, <1>5 DEF FollowsOK, Follows
<1>7. TokenFits(open, ast, next)
  BY <1>1, <1>2, <1>3 DEF TokenFits, Last
<1>8. QED
  BY <1>2, <1>6, <1>7 DEF FollowInv

\* Every step.
LEMMA Next_FollowInv ==
  ASSUME NestInv, NestInv', FollowInv, [Next]_vars
  PROVE  FollowInv'
<1>1. CASE UNCHANGED parserVars
  BY <1>1 DEF FollowInv, parserVars
<1>2. CASE ParserNext
  <2>1. ASSUME Stops PROVE FollowInv'
    BY <2>1 DEF Stops, FollowInv
  <2>2. ASSUME NEW b \in BOOLEAN, NEW c \in BOOLEAN,
               \/ ExprStmt(b) \/ IfStmt(b) \/ EndDoWhile(b) \/ ForStmt(c, b) \/ WhileStmt(c, b)
        PROVE  FollowInv'
    BY <2>1, <2>2, AddsSteps, OpensSteps, ClosesSteps, AddsFollow, OpensFollow
  <2>3. ASSUME ReturnStmt \/ BreakStmt \/ ContinueStmt PROVE FollowInv'
    BY <2>1, <2>3, AddsSteps, AddsFollow
  <2>4. ASSUME OpenBlock \/ DoWhileStmt \/ SwitchStmt \/ CaseStmt \/ DefaultStmt PROVE FollowInv'
    BY <2>1, <2>4, OpensSteps, OpensFollow
  <2>5. ASSUME CloseBlock \/ EndIf \/ EndFor \/ EndSwitch \/ EndCase \/ EndDefault PROVE FollowInv'
    BY <2>1, <2>5, ClosesSteps, AddsFollow
  <2>6. QED
    BY <1>2, <2>2, <2>3, <2>4, <2>5, ElseFollows, NullFollows, FunctionFollows DEF ParserNext, Branching
<1>3. QED
  BY <1>1, <1>2 DEF Next, vars, Parse, Translate, Visit, Terminated

-----------------------------------------------------------------------------
(* The positions of a program. *)

\* The nodes of a function that has been parsed.
Program(a) ==
    /\ Nested(<<>>, a) /\ Follows(a) /\ a # <<>>
    /\ a[1].kind = "block" /\ Last(a).kind = "endfunc"

\* What the parser hands over is one.
LEMMA ParsedProgram ==
  ASSUME NestInv, FollowInv, outcome = "parsed"
  PROVE  Program(ast)
BY DEF NestInv, FollowInv, FollowsOK, Program

\* Every node but the last is in the function's block and has a successor.
LEMMA ProgramNode ==
  ASSUME NEW a, Program(a), NEW p \in 1 .. Len(a)
  PROVE  /\ a \in Seq(Node) /\ Len(a) \in Nat /\ a[p] \in Node
         /\ EndsAt(a, a[p], p) /\ JumpsAt(a, a[p], p) /\ FollowsAt(a, a[p], p)
         /\ a[p].kind # "endfunc" => p + 1 \in 1 .. Len(a) /\ (p = 1 \/ Encloses(a, 1, p, Openers))
<1>1. a \in Seq(Node) /\ Len(a) \in Nat /\ NodesOK(a) /\ Follows(a) /\ Last(a) = a[Len(a)]
  BY DEF Program, Nested, OpenOK, Last
<1>2. a[p] \in Node /\ EndsAt(a, a[p], p) /\ JumpsAt(a, a[p], p) /\ FollowsAt(a, a[p], p)
  BY <1>1 DEF NodesOK, Follows
<1>3. ASSUME a[p].kind # "endfunc"
      PROVE  p + 1 \in 1 .. Len(a) /\ (p = 1 \/ Encloses(a, 1, p, Openers))
  <2>1. p # Len(a)
    BY <1>1, <1>3 DEF Program
  <2>2. p = 1 \/ Encloses(a, 1, p, Openers)
    BY <1>2, <1>3 DEF FollowsAt
  <2>3. QED
    BY <1>1, <2>1, <2>2
<1>4. QED
  BY <1>1, <1>2, <1>3

\* What is around the next node.
LEMMA EnclosesNext ==
  ASSUME NEW a, NEW p \in Nat \ {0}, EndsAt(a, a[p], p), NEW kinds, kinds \subseteq Openers, NEW i
  PROVE  Encloses(a, i, p + 1, kinds) <=>
           \/ Encloses(a, i, p, kinds) /\ ~(a[p].kind \in Closers /\ a[p].opener = i)
           \/ i = p /\ a[p].kind \in kinds /\ ~EndedBefore(a, p, p)
<1>1. \A c \in 1 .. (p + 1) - 1 : c \in 1 .. p - 1 \/ c = p
  OBVIOUS
<1>2. \A c \in 1 .. p - 1 : c \in 1 .. (p + 1) - 1
  OBVIOUS
<1>3. p \in 1 .. (p + 1) - 1
  OBVIOUS
<1>4. EndedBefore(a, i, p + 1) <=> EndedBefore(a, i, p) \/ (a[p].kind \in Closers /\ a[p].opener = i)
  BY <1>1, <1>2, <1>3 DEF EndedBefore
<1>5. ~(a[p].kind \in Closers /\ a[p].opener = p)
  BY DEF EndsAt
<1>6. CASE i \in 1 .. p - 1
  <2>1. i # p /\ i \in 1 .. (p + 1) - 1
    BY <1>6
  <2>2. QED
    BY <1>4, <1>6, <2>1 DEF Encloses
<1>7. CASE i = p
  <2>1. ~(i \in 1 .. p - 1)
    BY <1>7
  <2>2. QED
    BY <1>3, <1>4, <1>5, <1>7, <2>1 DEF Encloses
<1>8. CASE ~(i \in 1 .. p)
  <2>1. ~(i \in 1 .. p - 1) /\ i # p /\ ~(i \in 1 .. (p + 1) - 1)
    BY <1>8
  <2>2. QED
    BY <2>1 DEF Encloses
<1>9. QED
  BY <1>6, <1>7, <1>8

\* A statement that has not begun has not ended.
LEMMA NotYetEnded ==
  ASSUME NEW a, NEW p \in Nat, EndsOK(a, p)
  PROVE  ~EndedBefore(a, p, p)
<1>1. ASSUME NEW c \in 1 .. p - 1, a[c].kind \in Closers, a[c].opener = p PROVE FALSE
  <2>1. a[c].opener \in 1 .. c - 1
    BY <1>1 DEF EndsOK, EndsAt
  <2>2. QED
    BY <1>1, <2>1
<1>2. QED
  BY <1>1 DEF EndedBefore

\* The ends before a position of a program are right.
LEMMA ProgramEnds ==
  ASSUME NEW a, Program(a), NEW p, p <= Len(a) + 1, p \in Nat
  PROVE  EndsOK(a, p)
<1>1. a \in Seq(Node) /\ Len(a) \in Nat /\ NodesOK(a)
  BY DEF Program, Nested, OpenOK
<1>2. \A c \in 1 .. p - 1 : c \in 1 .. Len(a)
  BY <1>1
<1>3. QED
  BY <1>1, <1>2 DEF EndsOK, NodesOK

\* A jump's next position: the first end or else of something around it.
SkipSet(a, j) == {k \in DOMAIN a : k > j /\ a[k].opener \in 1 .. j - 1}

\* Where the visit goes on after the jump at j.
LEMMA SkipIs ==
  ASSUME NEW a, Program(a), NEW j \in 1 .. Len(a), a[j].kind \in Jumps, NEW q, q = Min(SkipSet(a, j))
  PROVE  /\ q \in j + 1 .. Len(a) /\ a[q].opener \in 1 .. j - 1
         /\ a[q].kind \in Closers \cup {"else"}
         /\ \A k \in j + 1 .. q - 1 : a[k].opener \notin 1 .. j - 1
<1> DEFINE S == SkipSet(a, j)
           E == EndOf(a, 1)
<1>1. /\ a \in Seq(Node) /\ Len(a) \in Nat /\ DOMAIN a = 1 .. Len(a) /\ Nested(<<>>, a)
      /\ j # 1 /\ Encloses(a, 1, j, Openers)
  <2>1. a[j].kind # "endfunc" /\ a[j].kind # "block"
    BY DEF Jumps
  <2>2. j # 1
    BY <2>1 DEF Program
  <2>3. QED
    BY <2>1, <2>2, ProgramNode DEF Program
<1>2. /\ E \in 2 .. Len(a) /\ a[E].opener = 1 /\ a[E].kind \in Closers
  <2>1. 1 \in 1 .. Len(a) /\ a[1].kind = "block" /\ a[1].kind \in Openers
    BY <1>1 DEF Program, Openers
  <2>2. E \in 1 + 1 .. Len(a) /\ a[E].opener = 1 /\ a[E].kind = CloserOf[a[1].kind]
    BY <1>1, <2>1, EndOfOpener
  <2>3. QED
    BY <2>1, <2>2 DEF CloserOf, Closers
<1>3. E \in S
  <2>1. E # j
    BY <1>2 DEF Jumps, Closers
  <2>2. ~(E \in 1 .. j - 1)
    BY <1>1, <1>2 DEF Encloses, EndedBefore
  <2>3. E > j /\ 1 \in 1 .. j - 1
    BY <1>1, <1>2, <2>1, <2>2
  <2>4. QED
    BY <1>1, <1>2, <2>3 DEF SkipSet
<1>4. S \subseteq Nat
  BY <1>1 DEF SkipSet
<1>5. q \in S /\ \A k \in S : q <= k
  <2>1. \E x \in S : \A k \in S : x <= k
    BY <1>3, <1>4, NatMinimum
  <2>2. QED
    BY <2>1 DEF Min
<1>6. q \in j + 1 .. Len(a) /\ a[q].opener \in 1 .. j - 1
  BY <1>1, <1>5 DEF SkipSet
<1>7. a[q].kind \in Closers \cup {"else"}
  <2>1. q \in 1 .. Len(a)
    BY <1>6
  <2>2. EndsAt(a, a[q], q)
    BY <2>1, ProgramNode
  <2>3. QED
    BY <1>6, <2>2 DEF EndsAt
<1>8. ASSUME NEW k \in j + 1 .. q - 1 PROVE a[k].opener \notin 1 .. j - 1
  <2>1. k \in 1 .. Len(a) /\ k > j /\ ~(q <= k)
    BY <1>6, <1>8
  <2>2. QED
    BY <1>1, <1>5, <2>1 DEF SkipSet
<1>9. QED
  BY <1>6, <1>7, <1>8

\* The same statements are around it.
LEMMA EnclosesSkip ==
  ASSUME NEW a, Program(a), NEW j \in 1 .. Len(a), a[j].kind \in Jumps, NEW q, q = Min(SkipSet(a, j)),
         NEW kinds, kinds \subseteq Openers, NEW i
  PROVE  Encloses(a, i, q, kinds) <=> Encloses(a, i, j, kinds)
<1>1. /\ q \in j + 1 .. Len(a) /\ a[q].opener \in 1 .. j - 1
      /\ a[q].kind \in Closers \cup {"else"}
      /\ \A k \in j + 1 .. q - 1 : a[k].opener \notin 1 .. j - 1
  BY SkipIs
<1>2. q \in 1 .. Len(a)
  BY <1>1
<1>3. \A h \in a[q].opener + 1 .. q - 1 : a[h].kind \in Openers => EndedBefore(a, h, q)
  <2>1. EndsAt(a, a[q], q)
    BY <1>2, ProgramNode
  <2>2. QED
    BY <1>1, <2>1 DEF EndsAt
<1>4. ASSUME Encloses(a, i, q, kinds) PROVE Encloses(a, i, j, kinds)
  <2>1. i \in 1 .. q - 1 /\ a[i].kind \in kinds /\ a[i].kind \in Openers /\ ~EndedBefore(a, i, q)
    BY <1>4 DEF Encloses
  <2>2. ~(i \in a[q].opener + 1 .. q - 1)
    BY <1>3, <2>1
  <2>3. i \in 1 .. j - 1
    BY <1>1, <2>1, <2>2
  <2>4. \A c \in 1 .. j - 1 : c \in 1 .. q - 1
    BY <1>1
  <2>5. ~EndedBefore(a, i, j)
    BY <2>1, <2>4 DEF EndedBefore
  <2>6. QED
    BY <2>1, <2>3, <2>5 DEF Encloses
<1>5. ASSUME Encloses(a, i, j, kinds) PROVE Encloses(a, i, q, kinds)
  <2>1. i \in 1 .. j - 1 /\ a[i].kind \in kinds /\ ~EndedBefore(a, i, j) /\ i \in 1 .. q - 1
    BY <1>1, <1>5 DEF Encloses
  <2>2. ASSUME NEW c \in 1 .. q - 1, a[c].kind \in Closers, a[c].opener = i PROVE FALSE
    <3>1. c \in 1 .. j - 1 \/ c = j \/ c \in j + 1 .. q - 1
      BY <1>1, <2>2
    <3>2. c \notin 1 .. j - 1
      BY <2>1, <2>2 DEF EndedBefore
    <3>3. c # j
      BY <2>2 DEF Jumps, Closers
    <3>4. QED
      BY <1>1, <2>1, <2>2, <3>1, <3>2, <3>3
  <2>3. QED
    BY <2>1, <2>2 DEF Encloses, EndedBefore
<1>6. QED
  BY <1>4, <1>5

-----------------------------------------------------------------------------
(* Stacks that go with the position. *)

\* s holds the statements of kinds that are around position p of a.
Fits(s, a, p, kinds) ==
    /\ s \in Seq(Nat)
    /\ \A k \in 1 .. Len(s) : \A l \in 1 .. k - 1 : s[l] < s[k]
    /\ \A i : Encloses(a, i, p, kinds) <=> \E k \in 1 .. Len(s) : s[k] = i

\* The same are around the next position.
LEMMA FitsSame ==
  ASSUME NEW s, NEW a, NEW p, NEW q, NEW kinds, Fits(s, a, p, kinds),
         \A i : Encloses(a, i, q, kinds) <=> Encloses(a, i, p, kinds)
  PROVE  Fits(s, a, q, kinds)
BY DEF Fits

\* A statement that begins is the innermost one.
LEMMA FitsOpen ==
  ASSUME NEW s, NEW a, NEW p \in Nat \ {0}, NEW kinds, kinds \subseteq Openers, EndsOK(a, p + 1),
         a[p].kind \in kinds, Fits(s, a, p, kinds)
  PROVE  Fits(Append(s, p), a, p + 1, kinds)
<1> DEFINE t == Append(s, p)
           L == Len(s)
<1>1. /\ t \in Seq(Nat) /\ Len(t) = L + 1 /\ L \in Nat /\ t[L + 1] = p
      /\ \A k \in 1 .. L : t[k] = s[k] /\ k \in 1 .. L + 1
      /\ \A k \in 1 .. L + 1 : k \in 1 .. L \/ k = L + 1
  BY AppendParts DEF Fits
<1> HIDE DEF t
<1>2. EndsAt(a, a[p], p) /\ ~EndedBefore(a, p, p) /\ a[p].kind \notin Closers
  <2>1. p \in 1 .. (p + 1) - 1 /\ \A c \in 1 .. p - 1 : c \in 1 .. (p + 1) - 1
    OBVIOUS
  <2>2. EndsOK(a, p)
    BY <2>1 DEF EndsOK
  <2>3. a[p].kind \notin Closers
    BY DEF Openers, Closers
  <2>4. QED
    BY <2>1, <2>2, <2>3, NotYetEnded DEF EndsOK
<1>3. \A i : Encloses(a, i, p + 1, kinds) <=> Encloses(a, i, p, kinds) \/ i = p
  BY <1>2, EnclosesNext
<1>4. \A k \in 1 .. L : s[k] < p /\ s[k] \in Nat
  <2>1. \A k \in 1 .. L : Encloses(a, s[k], p, kinds)
    BY DEF Fits
  <2>2. QED
    BY <2>1 DEF Encloses, Fits
<1>5. ASSUME NEW k \in 1 .. Len(t), NEW l \in 1 .. k - 1 PROVE t[l] < t[k]
  <2>1. l \in 1 .. L /\ t[l] = s[l]
    BY <1>1, <1>5
  <2>2. CASE k \in 1 .. L
    BY <1>1, <2>1, <2>2 DEF Fits
  <2>3. CASE k = L + 1
    BY <1>1, <1>4, <2>1, <2>3
  <2>4. QED
    BY <1>1, <2>2, <2>3
<1>6. \A i : (\E k \in 1 .. Len(t) : t[k] = i) <=> (\E k \in 1 .. L : s[k] = i) \/ i = p
  <2>1. L + 1 \in 1 .. Len(t)
    BY <1>1
  <2>2. QED
    BY <1>1, <2>1
<1>7. Fits(t, a, p + 1, kinds)
  BY <1>1, <1>3, <1>5, <1>6 DEF Fits
<1>8. QED
  BY <1>7 DEF t

\* The innermost one ends.
LEMMA FitsClose ==
  ASSUME NEW s, NEW a, NEW p \in Nat \ {0}, NEW kinds, kinds \subseteq Openers, EndsAt(a, a[p], p),
         a[p].kind \in Closers, a[a[p].opener].kind \in kinds, Fits(s, a, p, kinds)
  PROVE  /\ s # <<>> /\ Last(s) = a[p].opener
         /\ Fits(Front(s), a, p + 1, kinds)
<1> DEFINE t == Front(s)
           L == Len(s)
           o == a[p].opener
<1>1. /\ o \in 1 .. p - 1 /\ a[o].kind \in kinds /\ ~EndedBefore(a, o, p)
      /\ \A i \in o + 1 .. p - 1 : a[i].kind \in Openers => EndedBefore(a, i, p)
  BY DEF EndsAt
<1>2. Encloses(a, o, p, kinds) /\ \A i : Encloses(a, i, p, kinds) => i \in Nat /\ i <= o
  BY <1>1 DEF Encloses
<1>3. PICK k \in 1 .. L : s[k] = o
  BY <1>2 DEF Fits
<1>4. s \in Seq(Nat) /\ L \in Nat /\ L > 0 /\ s # <<>> /\ Last(s) = s[L] /\ L \in 1 .. L
  BY <1>3 DEF Fits, Last
<1>5. s[L] = o
  <2>1. Encloses(a, s[L], p, kinds) /\ s[L] \in Nat
    BY <1>4 DEF Fits
  <2>2. s[L] <= o
    BY <1>2, <2>1
  <2>3. k = L \/ k \in 1 .. L - 1
    BY <1>4
  <2>4. k \in 1 .. L - 1 => s[k] < s[L]
    BY <1>4 DEF Fits
  <2>5. QED
    BY <1>1, <1>3, <2>1, <2>2, <2>3, <2>4
<1>6. t \in Seq(Nat) /\ Len(t) = L - 1 /\ \A i \in 1 .. L - 1 : t[i] = s[i]
  BY <1>4, FrontType
<1> HIDE DEF t
<1>7. \A k1 \in 1 .. Len(t) : \A l \in 1 .. k1 - 1 : t[l] < t[k1]
  <2> SUFFICES ASSUME NEW k1 \in 1 .. Len(t), NEW l \in 1 .. k1 - 1 PROVE t[l] < t[k1]
    OBVIOUS
  <2>1. k1 \in 1 .. L /\ l \in 1 .. L - 1 /\ k1 \in 1 .. L - 1
    BY SMTT(60), <1>4, <1>6
  <2>2. s[l] < s[k1]
    BY <2>1 DEF Fits
  <2>3. QED
    BY <1>6, <2>1, <2>2
<1>8. ASSUME NEW i
      PROVE  (\E m \in 1 .. Len(t) : t[m] = i) <=> (\E m \in 1 .. L : s[m] = i) /\ i # o
  <2>1. ASSUME NEW m \in 1 .. Len(t), t[m] = i PROVE (\E n \in 1 .. L : s[n] = i) /\ i # o
    <3>1. m \in 1 .. L - 1 /\ m \in 1 .. L /\ s[m] = i
      BY SMTT(60), <1>4, <1>6, <2>1
    <3>2. s[m] < s[L]
      BY <1>4, <3>1 DEF Fits
    <3>3. s[m] \in Nat /\ s[L] \in Nat
      BY SMTT(60), <1>4, <3>1
    <3>4. QED
      BY <1>5, <3>1, <3>2, <3>3
  <2>2. ASSUME NEW m \in 1 .. L, s[m] = i, i # o PROVE \E n \in 1 .. Len(t) : t[n] = i
    <3>1. m # L
      BY <1>5, <2>2
    <3>2. m \in 1 .. Len(t) /\ t[m] = i
      BY SMTT(60), <1>4, <1>6, <2>2, <3>1
    <3>3. QED
      BY <3>2
  <2>3. QED
    BY <2>1, <2>2
<1>9. \A i : Encloses(a, i, p + 1, kinds) <=> Encloses(a, i, p, kinds) /\ i # o
  <2>1. a[p].kind \notin kinds
    BY DEF Openers, Closers
  <2>2. QED
    BY <2>1, EnclosesNext
<1>10. Fits(t, a, p + 1, kinds)
  BY <1>6, <1>7, <1>8, <1>9 DEF Fits
<1>11. QED
  BY <1>4, <1>5, <1>10 DEF t

\* Other nodes change nothing.
LEMMA FitsOther ==
  ASSUME NEW s, NEW a, NEW p \in Nat \ {0}, NEW kinds, kinds \subseteq Openers, EndsAt(a, a[p], p),
         a[p].kind \notin kinds, a[p].kind \in Closers => a[a[p].opener].kind \notin kinds,
         Fits(s, a, p, kinds)
  PROVE  Fits(s, a, p + 1, kinds)
<1>1. \A i : Encloses(a, i, p + 1, kinds) <=> Encloses(a, i, p, kinds)
  <2>1. \A i : Encloses(a, i, p, kinds) => a[i].kind \in kinds
    BY DEF Encloses
  <2>2. QED
    BY <2>1, EnclosesNext
<1>2. QED
  BY <1>1, FitsSame

-----------------------------------------------------------------------------
(* The builder's operations. *)

\* The blocks that branches may go to: all but the entry.
Goals(f) == 2 .. Len(f.blocks)

\* The function's blocks: their instructions, and where their branches go.
IrTyped(f) ==
    /\ f \in [blocks : Seq(Seq(Instr)), order : Seq(Nat), point : Nat]
    /\ f.order \in Seq(1 .. Len(f.blocks)) /\ f.point \in 0 .. Len(f.blocks)
    /\ \A b \in 1 .. Len(f.blocks) : \A k \in 1 .. Len(f.blocks[b]) :
         f.blocks[b][k].to \in Seq(Goals(f))

\* The builder has a block.
Ready(f) == IrTyped(f) /\ f.point # 0

\* g has all the instructions of f where they are in f, and maybe more.
Keeps(f, g) ==
    /\ Len(f.blocks) <= Len(g.blocks)
    /\ \A b \in 1 .. Len(f.blocks) :
         /\ Len(f.blocks[b]) <= Len(g.blocks[b])
         /\ \A k \in 1 .. Len(f.blocks[b]) : g.blocks[b][k] = f.blocks[b][k]

\* Two additions are one.
LEMMA KeepsTwice ==
  ASSUME NEW f, NEW g, NEW h, IrTyped(f), IrTyped(g), IrTyped(h), Keeps(f, g), Keeps(g, h)
  PROVE  Keeps(f, h)
<1>1. /\ Len(f.blocks) \in Nat /\ Len(g.blocks) \in Nat /\ Len(h.blocks) \in Nat
      /\ \A b \in 1 .. Len(f.blocks) : Len(f.blocks[b]) \in Nat
      /\ \A b \in 1 .. Len(g.blocks) : Len(g.blocks[b]) \in Nat
      /\ \A b \in 1 .. Len(h.blocks) : Len(h.blocks[b]) \in Nat
  <2>1. ASSUME NEW x, IrTyped(x)
        PROVE  Len(x.blocks) \in Nat /\ \A b \in 1 .. Len(x.blocks) : Len(x.blocks[b]) \in Nat
    <3>1. x.blocks \in Seq(Seq(Instr))
      BY <2>1 DEF IrTyped
    <3>2. QED
      BY <3>1
  <2>2. QED
    BY <2>1
<1>2. ASSUME NEW b \in 1 .. Len(f.blocks)
      PROVE  /\ Len(f.blocks[b]) <= Len(h.blocks[b])
             /\ \A k \in 1 .. Len(f.blocks[b]) : h.blocks[b][k] = f.blocks[b][k]
  <2>1. b \in 1 .. Len(g.blocks) /\ b \in 1 .. Len(h.blocks)
    BY <1>1 DEF Keeps
  <2>2. Len(f.blocks[b]) <= Len(g.blocks[b]) /\ Len(g.blocks[b]) <= Len(h.blocks[b])
    BY <2>1 DEF Keeps
  <2>3. ASSUME NEW k \in 1 .. Len(f.blocks[b]) PROVE h.blocks[b][k] = f.blocks[b][k]
    <3>1. k \in 1 .. Len(g.blocks[b])
      BY SMTT(60), <1>1, <2>1, <2>2
    <3>2. QED
      BY <2>1, <3>1 DEF Keeps
  <2>4. QED
    BY SMTT(60), <1>1, <2>1, <2>2, <2>3
<1>3. Len(f.blocks) <= Len(h.blocks)
  BY <1>1 DEF Keeps
<1>4. QED
  BY <1>2, <1>3 DEF Keeps

\* New blocks are empty.
LEMMA CreateIs ==
  ASSUME NEW f, Ready(f), NEW n \in Nat
  PROVE  LET g == Create(f, n) IN
         /\ Ready(g) /\ Keeps(f, g) /\ g.order = f.order /\ g.point = f.point
         /\ Len(g.blocks) = Len(f.blocks) + n
         /\ \A b \in 1 .. Len(f.blocks) : g.blocks[b] = f.blocks[b]
         /\ \A b \in Len(f.blocks) + 1 .. Len(f.blocks) + n : g.blocks[b] = <<>>
<1> DEFINE new == [i \in 1 .. n |-> <<>>]
           bs == f.blocks \o new
           g == Create(f, n)
           L == Len(f.blocks)
<1>1. f \in [blocks : Seq(Seq(Instr)), order : Seq(Nat), point : Nat] /\ L \in Nat
  BY DEF Ready, IrTyped
<1>2. new \in Seq(Seq(Instr)) /\ Len(new) = n /\ \A i \in 1 .. n : new[i] = <<>>
  <2>1. <<>> \in Seq(Instr)
    OBVIOUS
  <2> DEFINE e == <<>>
  <2>2. \A i \in 1 .. n : new[i] = e
    OBVIOUS
  <2>3. e \in Seq(Instr) /\ new = [i \in 1 .. n |-> e]
    BY <2>1
  <2> HIDE DEF e, new
  <2>4. new \in Seq(Seq(Instr)) /\ Len(new) = n
    BY <2>3
  <2>5. QED
    BY <2>2, <2>4 DEF e
<1> HIDE DEF new
<1>3. /\ bs \in Seq(Seq(Instr)) /\ Len(bs) = L + n
      /\ \A b \in 1 .. L : bs[b] = f.blocks[b]
      /\ \A b \in L + 1 .. L + n : bs[b] = <<>>
  <2>1. f.blocks \in Seq(Seq(Instr))
    BY <1>1
  <2>2. bs \in Seq(Seq(Instr)) /\ Len(bs) = Len(f.blocks) + Len(new)
    BY <1>2, <2>1, ConcatProperties, Zenon
  <2>3. \A b \in 1 .. L + n : bs[b] = IF b <= L THEN f.blocks[b] ELSE new[b - L]
    <3>1. \A b \in 1 .. Len(f.blocks) + Len(new) :
            bs[b] = IF b <= Len(f.blocks) THEN f.blocks[b] ELSE new[b - Len(f.blocks)]
      BY <1>2, <2>1, ConcatProperties, ZenonT(60)
    <3>2. QED
      BY <1>2, <3>1
  <2>4. ASSUME NEW b \in 1 .. L PROVE bs[b] = f.blocks[b]
    BY <1>1, <2>3
  <2>5. ASSUME NEW b \in L + 1 .. L + n PROVE bs[b] = <<>>
    <3>1. b \in 1 .. L + n /\ ~(b <= L) /\ b - L \in 1 .. n
      BY <1>1
    <3>2. bs[b] = new[b - L]
      BY <2>3, <3>1
    <3>3. QED
      BY <1>2, <3>1, <3>2
  <2>6. QED
    BY <1>2, <2>2, <2>4, <2>5
<1>4. g = [f EXCEPT !.blocks = bs]
  BY DEF Create, new
<1> HIDE DEF bs, g
<1>5. /\ g \in [blocks : Seq(Seq(Instr)), order : Seq(Nat), point : Nat]
      /\ g.blocks = bs /\ g.order = f.order /\ g.point = f.point
  BY <1>1, <1>3, <1>4
<1>6. 1 .. L \subseteq 1 .. L + n /\ Goals(f) \subseteq Goals(g) /\ g.point \in 0 .. L + n
  BY <1>1, <1>3, <1>5 DEF Goals, Ready, IrTyped
<1>7. g.order \in Seq(1 .. L + n)
  BY <1>5, <1>6 DEF Ready, IrTyped
<1>8. ASSUME NEW b \in 1 .. L + n, NEW k \in 1 .. Len(bs[b]) PROVE bs[b][k].to \in Seq(Goals(g))
  <2>1. b \in 1 .. L \/ b \in L + 1 .. L + n
    BY <1>1
  <2>2. CASE b \in 1 .. L
    <3>1. k \in 1 .. Len(f.blocks[b]) /\ bs[b][k] = f.blocks[b][k]
      BY <1>3, <1>8, <2>2
    <3>2. f.blocks[b][k].to \in Seq(Goals(f))
      BY <2>2, <3>1 DEF Ready, IrTyped
    <3>3. QED
      BY <1>6, <3>1, <3>2
  <2>3. CASE b \in L + 1 .. L + n
    BY <1>3, <1>8, <2>3
  <2>4. QED
    BY <2>1, <2>2, <2>3
<1>9. IrTyped(g)
  BY <1>3, <1>5, <1>6, <1>7, <1>8 DEF IrTyped
<1>10. Keeps(f, g)
  BY SMTT(60), <1>1, <1>3, <1>5 DEF Keeps, Ready, IrTyped
<1>11. QED
  BY <1>3, <1>5, <1>9, <1>10 DEF Ready, g

\* A block is inserted, and entered.
LEMMA PlaceIs ==
  ASSUME NEW f, Ready(f), NEW b \in 1 .. Len(f.blocks)
  PROVE  LET g == Place(f, b) IN
         /\ Ready(g) /\ Keeps(f, g) /\ g.order = Append(f.order, b) /\ g.point = b
         /\ g.blocks = f.blocks
<1> DEFINE o == Append(f.order, b)
           g == Place(f, b)
<1>1. f \in [blocks : Seq(Seq(Instr)), order : Seq(Nat), point : Nat] /\ Len(f.blocks) \in Nat
  BY DEF Ready, IrTyped
<1>2. o \in Seq(1 .. Len(f.blocks)) /\ o \in Seq(Nat) /\ b \in Nat
  BY <1>1 DEF Ready, IrTyped
<1>3. g = [f EXCEPT !.order = o, !.point = b]
  BY DEF Place
<1> HIDE DEF g, o
<1>4. /\ g \in [blocks : Seq(Seq(Instr)), order : Seq(Nat), point : Nat]
      /\ g.blocks = f.blocks /\ g.order = o /\ g.point = b
  BY <1>1, <1>2, <1>3
<1>5. IrTyped(g) /\ g.point # 0
  BY SMTT(60), <1>1, <1>2, <1>4 DEF Ready, IrTyped, Goals
<1>6. Keeps(f, g)
  BY <1>1, <1>4 DEF Keeps
<1>7. QED
  BY <1>4, <1>5, <1>6 DEF Ready, g, o

\* The builder goes to a block.
LEMMA PointIs ==
  ASSUME NEW f, Ready(f), NEW b \in 1 .. Len(f.blocks)
  PROVE  LET g == SetInsertPoint(f, b) IN
         /\ Ready(g) /\ Keeps(f, g) /\ g.order = f.order /\ g.point = b
         /\ g.blocks = f.blocks
<1> DEFINE g == SetInsertPoint(f, b)
<1>1. f \in [blocks : Seq(Seq(Instr)), order : Seq(Nat), point : Nat] /\ Len(f.blocks) \in Nat
      /\ b \in Nat
  BY DEF Ready, IrTyped
<1>3. g = [f EXCEPT !.point = b]
  BY DEF SetInsertPoint
<1> HIDE DEF g
<1>4. /\ g \in [blocks : Seq(Seq(Instr)), order : Seq(Nat), point : Nat]
      /\ g.blocks = f.blocks /\ g.order = f.order /\ g.point = b
  BY <1>1, <1>3
<1>5. IrTyped(g) /\ g.point # 0
  BY SMTT(60), <1>1, <1>4 DEF Ready, IrTyped, Goals
<1>6. Keeps(f, g)
  BY <1>1, <1>4 DEF Keeps
<1>7. QED
  BY <1>4, <1>5, <1>6 DEF Ready, g

\* An instruction whose branches are to blocks of the function.
Fit(f, x) == x \in Instr /\ x.to \in Seq(Goals(f))

\* An instruction is added to the builder's block.
LEMMA EmitIs ==
  ASSUME NEW f, Ready(f), NEW x, Fit(f, x)
  PROVE  LET g == Emit(f, x) IN
         /\ Ready(g) /\ Keeps(f, g) /\ g.order = f.order /\ g.point = f.point
         /\ Len(g.blocks) = Len(f.blocks)
         /\ g.blocks[f.point] = Append(f.blocks[f.point], x)
         /\ \A b \in 1 .. Len(f.blocks) : b # f.point => g.blocks[b] = f.blocks[b]
<1> DEFINE p == f.point
           B == Append(f.blocks[p], x)
           bs == [f.blocks EXCEPT ![p] = B]
           g == Emit(f, x)
           L == Len(f.blocks)
<1>1. f \in [blocks : Seq(Seq(Instr)), order : Seq(Nat), point : Nat] /\ L \in Nat
  BY DEF Ready, IrTyped
<1>2. p \in 1 .. L /\ f.blocks \in Seq(Seq(Instr)) /\ f.blocks[p] \in Seq(Instr) /\ x \in Instr
  BY <1>1 DEF Ready, IrTyped, Fit
<1>3. /\ B \in Seq(Instr) /\ Len(B) = Len(f.blocks[p]) + 1 /\ Len(f.blocks[p]) \in Nat
      /\ B[Len(f.blocks[p]) + 1] = x
      /\ \A k \in 1 .. Len(f.blocks[p]) : B[k] = f.blocks[p][k]
      /\ \A k \in 1 .. Len(f.blocks[p]) + 1 : k \in 1 .. Len(f.blocks[p]) \/ k = Len(f.blocks[p]) + 1
  BY <1>2, AppendParts
<1> HIDE DEF B
<1>4. bs \in Seq(Seq(Instr)) /\ Len(bs) = L /\ bs[p] = B /\ \A b \in 1 .. L : b # p => bs[b] = f.blocks[b]
  BY <1>2, <1>3
<1>5. g = [f EXCEPT !.blocks = bs]
  BY <1>1, <1>2 DEF Emit, B
<1> HIDE DEF bs, g
<1>6. /\ g \in [blocks : Seq(Seq(Instr)), order : Seq(Nat), point : Nat]
      /\ g.blocks = bs /\ g.order = f.order /\ g.point = f.point
  BY <1>1, <1>4, <1>5
<1>7. Goals(g) = Goals(f)
  BY <1>4, <1>6 DEF Goals
<1>8. ASSUME NEW b \in 1 .. L, NEW k \in 1 .. Len(bs[b]) PROVE bs[b][k].to \in Seq(Goals(f))
  <2>1. CASE b = p
    <3>1. k \in 1 .. Len(f.blocks[p]) \/ k = Len(f.blocks[p]) + 1
      BY <1>3, <1>4, <1>8, <2>1
    <3>2. CASE k \in 1 .. Len(f.blocks[p])
      <4>1. f.blocks[p][k].to \in Seq(Goals(f))
        BY <1>2, <3>2 DEF Ready, IrTyped
      <4>2. QED
        BY <1>3, <1>4, <2>1, <3>2, <4>1
    <3>3. CASE k = Len(f.blocks[p]) + 1
      BY <1>3, <1>4, <2>1, <3>3 DEF Fit
    <3>4. QED
      BY <3>1, <3>2, <3>3
  <2>2. CASE b # p
    <3>1. bs[b] = f.blocks[b] /\ k \in 1 .. Len(f.blocks[b])
      BY <1>4, <1>8, <2>2
    <3>2. QED
      BY <3>1 DEF Ready, IrTyped
  <2>3. QED
    BY <2>1, <2>2
<1>9. IrTyped(g) /\ g.point # 0
  BY <1>1, <1>4, <1>6, <1>7, <1>8 DEF IrTyped, Ready
<1>10. Keeps(f, g)
  <2>1. ASSUME NEW b \in 1 .. L
        PROVE  /\ Len(f.blocks[b]) <= Len(bs[b])
               /\ \A k \in 1 .. Len(f.blocks[b]) : bs[b][k] = f.blocks[b][k]
    <3>1. CASE b = p
      BY <1>3, <1>4, <3>1
    <3>2. CASE b # p
      <4>1. bs[b] = f.blocks[b] /\ Len(f.blocks[b]) \in Nat
        BY SMTT(60), <1>2, <1>4, <3>2
      <4>2. QED
        BY <4>1
    <3>3. QED
      BY <3>1, <3>2
  <2>2. QED
    BY <1>1, <1>4, <1>6, <2>1 DEF Keeps
<1>11. QED
  BY <1>4, <1>6, <1>9, <1>10 DEF Ready, g, B

\* What the operations are given.
LEMMA InstrType ==
  ASSUME NEW f, Ready(f), NEW at \in Nat
  PROVE  /\ Fit(f, Eval(at)) /\ Fit(f, Term(at, <<>>))
         /\ ~Eval(at).term /\ Term(at, <<>>).term
         /\ \A b \in Goals(f) : Fit(f, Term(at, <<b>>)) /\ Term(at, <<b>>).term
         /\ \A b, c \in Goals(f) : Fit(f, Term(at, <<b, c>>)) /\ Term(at, <<b, c>>).term
<1>1. Goals(f) \subseteq Nat \ {0}
  BY DEF Goals, Ready, IrTyped
<1>2. <<>> \in Seq(Goals(f)) /\ <<>> \in Seq(Nat \ {0})
  OBVIOUS
<1>3. ASSUME NEW b \in Goals(f) PROVE <<b>> \in Seq(Goals(f)) /\ <<b>> \in Seq(Nat \ {0})
  BY <1>1
<1>4. ASSUME NEW b \in Goals(f), NEW c \in Goals(f)
      PROVE  <<b, c>> \in Seq(Goals(f)) /\ <<b, c>> \in Seq(Nat \ {0})
  BY <1>1
<1>5. ASSUME NEW to, to \in Seq(Goals(f)), to \in Seq(Nat \ {0})
      PROVE  Fit(f, Term(at, to)) /\ Term(at, to).term
  BY <1>5 DEF Fit, Term, Instr
<1>6. Fit(f, Eval(at)) /\ ~Eval(at).term
  BY <1>2 DEF Fit, Eval, Instr
<1>7. QED
  BY <1>2, <1>3, <1>4, <1>5, <1>6

\* A branch, and one that only an open block gets.
LEMMA BranchIs ==
  ASSUME NEW f, Ready(f), NEW b \in Goals(f), NEW g, g = CreateBr(f, b) \/ g = CreateBrIfOpen(f, b)
  PROVE  Ready(g) /\ Keeps(f, g) /\ Len(g.blocks) = Len(f.blocks) /\ g.point = f.point /\ g.order = f.order
<1>1. Fit(f, Term(0, <<b>>))
  BY InstrType
<1>2. CASE g = CreateBr(f, b)
  BY <1>1, <1>2, EmitIs DEF CreateBr
<1>3. CASE g = f
  <2>1. Keeps(f, f)
    BY DEF Keeps, Ready, IrTyped
  <2>2. QED
    BY <1>3, <2>1
<1>4. QED
  BY <1>2, <1>3 DEF CreateBrIfOpen

\* An expression leaves the builder in a block.
LEMMA EvaluateIs ==
  ASSUME NEW f, Ready(f), NEW at \in Nat, NEW branching \in BOOLEAN, NEW g, g = Evaluate(f, at, branching)
  PROVE  Ready(g) /\ Keeps(f, g)
<1>1. /\ f.blocks \in Seq(Seq(Instr)) /\ Len(f.blocks) \in Nat /\ f.point \in 1 .. Len(f.blocks)
  BY DEF Ready, IrTyped
<1>2. CASE branching
  <2> DEFINE n == Len(f.blocks)
  <2>1. PICK c : c = Create(f, 3)
    OBVIOUS
  <2>2. Ready(c) /\ Keeps(f, c) /\ Len(c.blocks) = n + 3
    BY <2>1, CreateIs
  <2>3. \A m \in {n + 1, n + 2, n + 3} : m \in 1 .. n + 3 /\ m \in 2 .. n + 3
    BY <1>1
  <2>4. Fit(c, Term(at, <<n + 1, n + 2>>))
    BY <2>2, <2>3, InstrType DEF Goals
  <2>5. PICK d : d = Emit(c, Term(at, <<n + 1, n + 2>>))
    OBVIOUS
  <2>6. Ready(d) /\ Keeps(c, d) /\ Len(d.blocks) = n + 3
    BY <2>2, <2>4, <2>5, EmitIs
  <2>7. PICK e : e = Place(d, n + 1)
    OBVIOUS
  <2>8. Ready(e) /\ Keeps(d, e) /\ Len(e.blocks) = n + 3
    BY <2>3, <2>6, <2>7, PlaceIs
  <2>9. PICK h : h = CreateBr(e, n + 3)
    OBVIOUS
  <2>10. Ready(h) /\ Keeps(e, h) /\ Len(h.blocks) = n + 3
    BY <2>3, <2>8, <2>9, BranchIs DEF Goals
  <2>11. PICK i : i = Place(h, n + 2)
    OBVIOUS
  <2>12. Ready(i) /\ Keeps(h, i) /\ Len(i.blocks) = n + 3
    BY <2>3, <2>10, <2>11, PlaceIs
  <2>13. PICK j : j = CreateBr(i, n + 3)
    OBVIOUS
  <2>14. Ready(j) /\ Keeps(i, j) /\ Len(j.blocks) = n + 3
    BY <2>3, <2>12, <2>13, BranchIs DEF Goals
  <2>15. g = Place(j, n + 3)
    BY <1>2, <2>1, <2>5, <2>7, <2>9, <2>11, <2>13 DEF Evaluate, LastBlock
  <2>16. Ready(g) /\ Keeps(j, g)
    BY <2>3, <2>14, <2>15, PlaceIs
  <2>17. Keeps(f, d) /\ Keeps(d, h) /\ Keeps(h, j)
    BY <2>2, <2>6, <2>8, <2>10, <2>12, <2>14, KeepsTwice DEF Ready
  <2>18. Keeps(f, h) /\ Keeps(h, g)
    BY <2>6, <2>10, <2>14, <2>16, <2>17, KeepsTwice DEF Ready
  <2>19. QED
    BY <2>10, <2>16, <2>18, KeepsTwice DEF Ready
<1>3. CASE ~branching /\ at = 0
  <2>1. g = f
    BY <1>3 DEF Evaluate
  <2>2. Keeps(f, f)
    BY DEF Keeps, Ready, IrTyped
  <2>3. QED
    BY <2>1, <2>2
<1>4. CASE ~branching /\ at # 0
  <2>1. g = Emit(f, Eval(at))
    BY <1>4 DEF Evaluate
  <2>2. Fit(f, Eval(at))
    BY InstrType
  <2>3. QED
    BY <2>1, <2>2, EmitIs
<1>5. QED
  BY <1>2, <1>3, <1>4

-----------------------------------------------------------------------------
(* What CodeGen keeps while it visits. *)

\* The statements that have blocks of their own.
Branched == {"if", "for", "do", "switch"}

\* The blocks an activation keeps.
Local == [else : Nat, last : Nat] \cup [cond : Nat, inc : Nat, last : Nat]
           \cup [body : Nat, cond : Nat, last : Nat] \cup [default : Nat, last : Nat]

\* The blocks of a statement of the kind.
LocalOK(l, kind, B) ==
    /\ kind = "if" => {l.else, l.last} \subseteq B
    /\ kind = "for" => {l.cond, l.inc, l.last} \subseteq B
    /\ kind = "do" => {l.body, l.cond, l.last} \subseteq B
    /\ kind = "switch" => {l.default, l.last} \subseteq B

\* The activations are those of the statements gs.
LocalsFit(gs, a, f, ls) ==
    /\ ls \in Seq(Local) /\ Len(ls) = Len(gs)
    /\ \A k \in 1 .. Len(gs) : LocalOK(ls[k], a[gs[k]].kind, Goals(f))

\* The instruction at x.
Inst(f, x) == f.blocks[x[1]][x[2]]

\* x is where a SwitchInst is: it has a default block.
IsSwitchInst(f, x) ==
    /\ x \in Nat \X Nat
    /\ x[1] \in 1 .. Len(f.blocks) /\ x[2] \in 1 .. Len(f.blocks[x[1]])
    /\ Inst(f, x).to # <<>>

\* The stack of switches has a SwitchInst for each of ss.
SwitchesFit(ss, f, st) ==
    /\ st \in Seq(Nat \X Nat) /\ Len(st) = Len(ss)
    /\ \A k \in 1 .. Len(ss) : IsSwitchInst(f, st[k])

\* A map gives the statements of kinds around p their blocks.
JumpsTo(map, a, p, kinds, f) ==
    /\ \A i : i \in DOMAIN map <=> Encloses(a, i, p, kinds)
    /\ \A i \in DOMAIN map : map[i] \in Goals(f)

\* CodeGen's stacks and maps are those of the statements around position p:
\* gs with blocks of their own, ss the switches.
Linked(gs, ss, a, p, f, ls, st, bs, cs) ==
    /\ Fits(gs, a, p, Branched) /\ LocalsFit(gs, a, f, ls)
    /\ Fits(ss, a, p, {"switch"}) /\ SwitchesFit(ss, f, st)
    /\ JumpsTo(bs, a, p, Breakable, f) /\ JumpsTo(cs, a, p, Loops, f)

\* g has the blocks and the SwitchInsts of f.
Carries(f, g) ==
    /\ Goals(f) \subseteq Goals(g)
    /\ \A x : IsSwitchInst(f, x) => IsSwitchInst(g, x)

\* What only adds instructions carries the blocks over.
LEMMA KeepsCarries ==
  ASSUME NEW f, NEW g, Ready(f), Ready(g), Keeps(f, g)
  PROVE  Carries(f, g) /\ \A x : IsSwitchInst(f, x) => Inst(g, x) = Inst(f, x)
<1>1. /\ f.blocks \in Seq(Seq(Instr)) /\ g.blocks \in Seq(Seq(Instr))
      /\ Len(f.blocks) \in Nat /\ Len(g.blocks) \in Nat /\ Len(f.blocks) <= Len(g.blocks)
  BY DEF Ready, IrTyped, Keeps
<1>2. ASSUME NEW x, IsSwitchInst(f, x) PROVE IsSwitchInst(g, x) /\ Inst(g, x) = Inst(f, x)
  <2> DEFINE b == x[1]
             k == x[2]
  <2>1. b \in 1 .. Len(f.blocks) /\ k \in 1 .. Len(f.blocks[b]) /\ x \in Nat \X Nat
        /\ f.blocks[b][k].to # <<>>
    BY <1>2 DEF IsSwitchInst, Inst
  <2>2. b \in 1 .. Len(g.blocks) /\ f.blocks[b] \in Seq(Instr) /\ g.blocks[b] \in Seq(Instr)
    BY SMTT(60), <1>1, <2>1
  <2>3. Len(f.blocks[b]) <= Len(g.blocks[b]) /\ g.blocks[b][k] = f.blocks[b][k]
    BY <2>1 DEF Keeps
  <2>4. k \in 1 .. Len(g.blocks[b])
    BY <2>1, <2>2, <2>3
  <2>5. QED
    BY <2>1, <2>2, <2>3, <2>4 DEF IsSwitchInst, Inst
<1>3. Goals(f) \subseteq Goals(g)
  BY <1>1 DEF Goals
<1>4. QED
  BY <1>2, <1>3 DEF Carries

\* The activations,
LEMMA LocalsKeep ==
  ASSUME NEW gs, NEW a, NEW f, NEW ls, LocalsFit(gs, a, f, ls), NEW g, Carries(f, g)
  PROVE  LocalsFit(gs, a, g, ls)
BY DEF LocalsFit, LocalOK, Carries

\* the stack of switches
LEMMA SwitchesKeep ==
  ASSUME NEW ss, NEW f, NEW st, SwitchesFit(ss, f, st), NEW g, Carries(f, g)
  PROVE  SwitchesFit(ss, g, st)
BY DEF SwitchesFit, Carries

\* and the maps hold in a function that carries the blocks over.
LEMMA MapKeeps ==
  ASSUME NEW map, NEW a, NEW p, NEW kinds, NEW f, JumpsTo(map, a, p, kinds, f), NEW g, Carries(f, g),
         NEW q, \A i : Encloses(a, i, q, kinds) <=> Encloses(a, i, p, kinds)
  PROVE  JumpsTo(map, a, q, kinds, g)
BY DEF JumpsTo, Carries

\* A statement begins and gets its blocks.
LEMMA LocalsPush ==
  ASSUME NEW gs \in Seq(Nat), NEW a, NEW f, NEW ls, LocalsFit(gs, a, f, ls), NEW p \in Nat,
         NEW l \in Local, LocalOK(l, a[p].kind, Goals(f))
  PROVE  LocalsFit(Append(gs, p), a, f, Append(ls, l))
<1> DEFINE hs == Append(gs, p)
           ms == Append(ls, l)
           L == Len(gs)
<1>1. ls \in Seq(Local) /\ Len(ls) = L /\ L \in Nat
  BY DEF LocalsFit
<1>2. /\ Len(hs) = L + 1 /\ hs[L + 1] = p /\ \A k \in 1 .. L : hs[k] = gs[k]
      /\ \A k \in 1 .. L + 1 : k \in 1 .. L \/ k = L + 1
  BY AppendParts
<1>3. ms \in Seq(Local) /\ Len(ms) = L + 1 /\ ms[L + 1] = l /\ \A k \in 1 .. L : ms[k] = ls[k]
  BY <1>1, AppendParts
<1> HIDE DEF hs, ms
<1>4. LocalsFit(hs, a, f, ms)
  BY <1>2, <1>3 DEF LocalsFit
<1>5. QED
  BY <1>4 DEF hs, ms

\* It ends and loses them.
LEMMA LocalsPop ==
  ASSUME NEW gs \in Seq(Nat), gs # <<>>, NEW a, NEW f, NEW ls, LocalsFit(gs, a, f, ls)
  PROVE  /\ LocalsFit(Front(gs), a, f, Front(ls))
         /\ ls # <<>> /\ Last(ls) \in Local /\ LocalOK(Last(ls), a[Last(gs)].kind, Goals(f))
<1> DEFINE hs == Front(gs)
           ms == Front(ls)
           L == Len(gs)
<1>1. ls \in Seq(Local) /\ Len(ls) = L /\ L \in Nat /\ L > 0 /\ ls # <<>> /\ L \in 1 .. L
      /\ Last(gs) = gs[L] /\ Last(ls) = ls[L]
  BY DEF LocalsFit, Last
<1>2. Len(hs) = L - 1 /\ \A k \in 1 .. L - 1 : hs[k] = gs[k]
  BY FrontType
<1>3. ms \in Seq(Local) /\ Len(ms) = L - 1 /\ \A k \in 1 .. L - 1 : ms[k] = ls[k] /\ k \in 1 .. L
  BY <1>1, FrontType
<1> HIDE DEF hs, ms
<1>4. LocalsFit(hs, a, f, ms)
  BY <1>2, <1>3 DEF LocalsFit
<1>5. Last(ls) \in Local /\ LocalOK(Last(ls), a[Last(gs)].kind, Goals(f))
  BY <1>1 DEF LocalsFit
<1>6. QED
  BY <1>1, <1>4, <1>5 DEF hs, ms

\* A switch begins and has its instruction.
LEMMA SwitchesPush ==
  ASSUME NEW ss \in Seq(Nat), NEW f, NEW st, SwitchesFit(ss, f, st), NEW p \in Nat,
         NEW x, IsSwitchInst(f, x)
  PROVE  SwitchesFit(Append(ss, p), f, Append(st, x))
<1> DEFINE hs == Append(ss, p)
           ms == Append(st, x)
           L == Len(ss)
<1>1. st \in Seq(Nat \X Nat) /\ Len(st) = L /\ L \in Nat /\ x \in Nat \X Nat
  BY DEF SwitchesFit, IsSwitchInst
<1>2. /\ Len(hs) = L + 1 /\ \A k \in 1 .. L + 1 : k \in 1 .. L \/ k = L + 1
  BY AppendParts
<1>3. ms \in Seq(Nat \X Nat) /\ Len(ms) = L + 1 /\ ms[L + 1] = x /\ \A k \in 1 .. L : ms[k] = st[k]
  BY <1>1, AppendParts
<1> HIDE DEF hs, ms
<1>4. SwitchesFit(hs, f, ms)
  BY <1>2, <1>3 DEF SwitchesFit
<1>5. QED
  BY <1>4 DEF hs, ms

\* It ends and loses it.
LEMMA SwitchesPop ==
  ASSUME NEW ss \in Seq(Nat), ss # <<>>, NEW f, NEW st, SwitchesFit(ss, f, st)
  PROVE  SwitchesFit(Front(ss), f, Front(st)) /\ st # <<>> /\ IsSwitchInst(f, Last(st))
<1> DEFINE hs == Front(ss)
           ms == Front(st)
           L == Len(ss)
<1>1. st \in Seq(Nat \X Nat) /\ Len(st) = L /\ L \in Nat /\ L > 0 /\ st # <<>> /\ L \in 1 .. L
      /\ Last(st) = st[L]
  BY DEF SwitchesFit, Last
<1>2. Len(hs) = L - 1
  BY FrontType
<1>3. ms \in Seq(Nat \X Nat) /\ Len(ms) = L - 1 /\ \A k \in 1 .. L - 1 : ms[k] = st[k] /\ k \in 1 .. L
  BY SMTT(60), <1>1, FrontType
<1> HIDE DEF hs, ms
<1>4. SwitchesFit(hs, f, ms)
  BY <1>2, <1>3 DEF SwitchesFit
<1>5. IsSwitchInst(f, Last(st))
  BY <1>1 DEF SwitchesFit
<1>6. QED
  BY <1>1, <1>4, <1>5 DEF hs, ms

\* A map of jump targets while a statement of its kinds begins and ends.
LEMMA MapPut ==
  ASSUME NEW map, NEW a, NEW p \in Nat \ {0}, NEW kinds, kinds \subseteq Openers, EndsOK(a, p + 1),
         a[p].kind \in kinds, NEW f, JumpsTo(map, a, p, kinds, f), NEW g, Carries(f, g),
         NEW b \in Goals(g)
  PROVE  JumpsTo(Put(map, p, b), a, p + 1, kinds, g)
<1> DEFINE new == Put(map, p, b)
<1>1. /\ \A i : i \in DOMAIN new <=> i \in DOMAIN map \/ i = p
      /\ \A i \in DOMAIN new : new[i] = IF i = p THEN b ELSE map[i]
  BY DEF Put
<1>2. EndsAt(a, a[p], p) /\ ~EndedBefore(a, p, p) /\ a[p].kind \notin Closers
  <2>1. p \in 1 .. (p + 1) - 1 /\ \A c \in 1 .. p - 1 : c \in 1 .. (p + 1) - 1
    OBVIOUS
  <2>2. EndsOK(a, p)
    BY <2>1 DEF EndsOK
  <2>3. a[p].kind \notin Closers
    BY DEF Openers, Closers
  <2>4. QED
    BY <2>1, <2>2, <2>3, NotYetEnded DEF EndsOK
<1>3. \A i : Encloses(a, i, p + 1, kinds) <=> Encloses(a, i, p, kinds) \/ i = p
  BY <1>2, EnclosesNext
<1> HIDE DEF new
<1>4. \A i \in DOMAIN new : new[i] \in Goals(g)
  BY <1>1 DEF JumpsTo, Carries
<1>5. JumpsTo(new, a, p + 1, kinds, g)
  BY <1>1, <1>3, <1>4 DEF JumpsTo
<1>6. QED
  BY <1>5 DEF new

\* It ends: its entry goes.
LEMMA MapErase ==
  ASSUME NEW map, NEW a, NEW p \in Nat \ {0}, NEW kinds, kinds \subseteq Openers, EndsAt(a, a[p], p),
         a[p].kind \in Closers, NEW f, JumpsTo(map, a, p, kinds, f), NEW g, Carries(f, g)
  PROVE  JumpsTo(Erase(map, a[p].opener), a, p + 1, kinds, g)
<1> DEFINE new == Erase(map, a[p].opener)
<1>1. /\ \A i : i \in DOMAIN new <=> i \in DOMAIN map /\ i # a[p].opener
      /\ \A i \in DOMAIN new : new[i] = map[i]
  BY DEF Erase
<1>2. \A i : Encloses(a, i, p + 1, kinds) <=> Encloses(a, i, p, kinds) /\ i # a[p].opener
  <2>1. a[p].kind \notin kinds
    BY DEF Openers, Closers
  <2>2. QED
    BY <2>1, EnclosesNext
<1> HIDE DEF new
<1>3. JumpsTo(new, a, p + 1, kinds, g)
  BY <1>1, <1>2 DEF JumpsTo, Carries
<1>4. QED
  BY <1>3 DEF new

\* Another node leaves the map alone.
LEMMA MapOther ==
  ASSUME NEW map, NEW a, NEW p \in Nat \ {0}, NEW kinds, kinds \subseteq Openers, EndsAt(a, a[p], p),
         a[p].kind \notin kinds, a[p].kind \in Closers => a[a[p].opener].kind \notin kinds,
         NEW f, JumpsTo(map, a, p, kinds, f), NEW g, Carries(f, g)
  PROVE  JumpsTo(map, a, p + 1, kinds, g)
<1>1. \A i : Encloses(a, i, p + 1, kinds) <=> Encloses(a, i, p, kinds)
  <2>1. \A i : Encloses(a, i, p, kinds) => a[i].kind \in kinds
    BY DEF Encloses
  <2>2. QED
    BY <2>1, EnclosesNext
<1>2. QED
  BY <1>1, MapKeeps

-----------------------------------------------------------------------------
(* CodeGen's visit. *)

\* The invariant of CodeGen's visit.
VisitInv ==
    /\ gen \in {"idle", "visiting", "done", "crashed"}
    /\ nodes \in Seq(Node) /\ defaults \subseteq Nat /\ pos \in Nat /\ IrTyped(ir)
    /\ DOMAIN breakBBs \subseteq Nat /\ DOMAIN continueBBs \subseteq Nat
    /\ gen = "idle" => FlowInit
    /\ gen # "idle" => outcome = "parsed" /\ nodes = ast /\ defaults = defaultStmts
    /\ gen = "visiting" =>
         /\ pos \in 1 .. Len(nodes) /\ Ready(ir)
         /\ \E gs, ss : Linked(gs, ss, nodes, pos, ir, locals, switchStack, breakBBs, continueBBs)

\* What is known at a node.
LEMMA AtNode ==
  ASSUME VisitInv, Program(nodes), gen = "visiting"
  PROVE  /\ pos \in 1 .. Len(nodes) /\ pos \in Nat \ {0} /\ nodes[pos] \in Node /\ Ready(ir)
         /\ EndsAt(nodes, nodes[pos], pos) /\ JumpsAt(nodes, nodes[pos], pos)
         /\ FollowsAt(nodes, nodes[pos], pos)
         /\ EndsOK(nodes, pos) /\ EndsOK(nodes, pos + 1)
         /\ nodes[pos].kind # "endfunc" => pos + 1 \in 1 .. Len(nodes)
         /\ LastBlock(ir) = Len(ir.blocks) /\ LastBlock(ir) \in Nat \ {0} /\ Carries(ir, ir)
<1>1. pos \in 1 .. Len(nodes) /\ Ready(ir) /\ Len(nodes) \in Nat
  BY DEF VisitInv
<1>2. pos \in Nat \ {0} /\ pos <= Len(nodes) + 1 /\ pos + 1 <= Len(nodes) + 1 /\ pos + 1 \in Nat
  BY <1>1
<1>3. EndsOK(nodes, pos) /\ EndsOK(nodes, pos + 1)
  BY <1>1, <1>2, ProgramEnds
<1>4. LastBlock(ir) = Len(ir.blocks) /\ LastBlock(ir) \in Nat \ {0} /\ Carries(ir, ir)
  BY <1>1 DEF Ready, IrTyped, LastBlock, Carries
<1>5. QED
  BY <1>1, <1>2, <1>3, <1>4, ProgramNode

\* The visit goes on.
Moved ==
    /\ gen' = "visiting" /\ nodes' = nodes /\ defaults' = defaults
    /\ pos' \in 1 .. Len(nodes) /\ Ready(ir')
    /\ \E gs, ss : Linked(gs, ss, nodes, pos', ir', locals', switchStack', breakBBs', continueBBs')

\* It keeps the invariant.
LEMMA MovedVisit ==
  ASSUME VisitInv, gen = "visiting", Moved, UNCHANGED parserVars
  PROVE  VisitInv'
<1>1. PICK gs, ss : Linked(gs, ss, nodes, pos', ir', locals', switchStack', breakBBs', continueBBs')
  BY DEF Moved
<1>2. DOMAIN breakBBs' \subseteq Nat /\ DOMAIN continueBBs' \subseteq Nat
  BY <1>1 DEF Linked, JumpsTo, Encloses
<1>3. pos' \in Nat /\ IrTyped(ir') /\ nodes' \in Seq(Node) /\ defaults' \subseteq Nat
  BY DEF Moved, Ready, VisitInv
<1>4. /\ gen' = "visiting" /\ nodes' = nodes /\ defaults' = defaults
      /\ pos' \in 1 .. Len(nodes) /\ Ready(ir')
  BY DEF Moved
<1>5. outcome' = "parsed" /\ nodes' = ast' /\ defaults' = defaultStmts'
  BY <1>4 DEF VisitInv, parserVars
<1>6. \E hs, ts : Linked(hs, ts, nodes', pos', ir', locals', switchStack', breakBBs', continueBBs')
  BY <1>1, <1>4
<1>7. QED
  BY <1>2, <1>3, <1>4, <1>5, <1>6 DEF VisitInv

\* The kinds of statements that the stacks and maps are for.
Kinds == {Branched, {"switch"}, Breakable, Loops}

\* They are statements with blocks.
LEMMA KindsAre ==
  ASSUME NEW kinds \in Kinds
  PROVE  kinds \subseteq Openers /\ kinds \subseteq Branched
BY DEF Kinds, Branched, Breakable, Loops, Openers

\* The same statements are around p and q.
SameAround(a, p, q) ==
    \A kinds \in Kinds : \A i : Encloses(a, i, q, kinds) <=> Encloses(a, i, p, kinds)

\* A node that is no statement with blocks, nor its end.
LEMMA PlainAround ==
  ASSUME NEW a, NEW p \in Nat \ {0}, EndsAt(a, a[p], p),
         a[p].kind \notin Branched \cup {"endif", "endfor", "enddo", "endswitch"}
  PROVE  SameAround(a, p, p + 1)
<1> SUFFICES ASSUME NEW kinds \in Kinds, NEW i
             PROVE  Encloses(a, i, p + 1, kinds) <=> Encloses(a, i, p, kinds)
  BY DEF SameAround
<1>1. kinds \subseteq Openers /\ kinds \subseteq Branched
  BY KindsAre
<1>2. a[p].kind \notin kinds
  BY <1>1
<1>3. ASSUME Encloses(a, i, p, kinds), a[p].kind \in Closers, a[p].opener = i PROVE FALSE
  <2>1. a[i].kind \in Branched /\ a[p].kind = CloserOf[a[i].kind]
    BY <1>1, <1>3 DEF Encloses, EndsAt, Closers
  <2>2. QED
    BY <2>1 DEF Branched, CloserOf
<1>4. QED
  BY <1>1, <1>2, <1>3, EnclosesNext

\* The statements around stay, and so do the blocks.
LEMMA StaysLinked ==
  ASSUME VisitInv, gen = "visiting", NEW q, SameAround(nodes, pos, q), NEW f, Carries(ir, f)
  PROVE  \E gs, ss : Linked(gs, ss, nodes, q, f, locals, switchStack, breakBBs, continueBBs)
<1>1. PICK gs, ss : Linked(gs, ss, nodes, pos, ir, locals, switchStack, breakBBs, continueBBs)
  BY DEF VisitInv
<1>2. Branched \in Kinds /\ {"switch"} \in Kinds /\ Breakable \in Kinds /\ Loops \in Kinds
  BY DEF Kinds
<1>3. /\ \A i : Encloses(nodes, i, q, Branched) <=> Encloses(nodes, i, pos, Branched)
      /\ \A i : Encloses(nodes, i, q, {"switch"}) <=> Encloses(nodes, i, pos, {"switch"})
      /\ \A i : Encloses(nodes, i, q, Breakable) <=> Encloses(nodes, i, pos, Breakable)
      /\ \A i : Encloses(nodes, i, q, Loops) <=> Encloses(nodes, i, pos, Loops)
  BY <1>2 DEF SameAround
<1>4. Fits(gs, nodes, q, Branched) /\ Fits(ss, nodes, q, {"switch"})
  BY <1>1, <1>3, FitsSame DEF Linked
<1>5. LocalsFit(gs, nodes, f, locals) /\ SwitchesFit(ss, f, switchStack)
  BY <1>1, LocalsKeep, SwitchesKeep DEF Linked
<1>6. JumpsTo(breakBBs, nodes, q, Breakable, f) /\ JumpsTo(continueBBs, nodes, q, Loops, f)
  BY <1>1, <1>3, MapKeeps DEF Linked
<1>7. QED
  BY <1>4, <1>5, <1>6 DEF Linked

\* An expression, or a block's beginning or end.
LEMMA PlainVisited ==
  ASSUME VisitInv, Program(nodes), VisitExpr \/ VisitBlock
  PROVE  Moved
<1>1. /\ gen = "visiting" /\ gen' = gen /\ nodes' = nodes /\ defaults' = defaults /\ pos' = pos + 1
      /\ UNCHANGED <<locals, breakBBs, continueBBs, switchStack>>
      /\ nodes[pos].kind \in {"expr", "block", "endblock", "endcase", "enddefault"}
      /\ ir' = ir \/ ir' = Evaluate(ir, pos, nodes[pos].branching)
  BY DEF VisitExpr, VisitBlock, Visiting, Advance, Node1
<1>2. /\ pos \in Nat \ {0} /\ nodes[pos] \in Node /\ Ready(ir) /\ EndsAt(nodes, nodes[pos], pos)
      /\ pos + 1 \in 1 .. Len(nodes) /\ Carries(ir, ir)
  BY <1>1, AtNode
<1>3. Ready(ir') /\ Carries(ir, ir')
  <2>1. nodes[pos].branching \in BOOLEAN
    BY <1>2 DEF Node
  <2>2. ASSUME NEW f, f = Evaluate(ir, pos, nodes[pos].branching) PROVE Ready(f) /\ Carries(ir, f)
    <3>1. Ready(f) /\ Keeps(ir, f)
      BY <1>2, <2>1, <2>2, EvaluateIs
    <3>2. QED
      BY <1>2, <3>1, KeepsCarries
  <2>3. QED
    BY <1>1, <1>2, <2>2
<1>4. SameAround(nodes, pos, pos + 1)
  BY <1>1, <1>2, PlainAround DEF Branched
<1>5. \E gs, ss : Linked(gs, ss, nodes, pos + 1, ir', locals, switchStack, breakBBs, continueBBs)
  BY <1>1, <1>3, <1>4, StaysLinked
<1>6. QED
  BY <1>1, <1>2, <1>3, <1>5 DEF Moved

\* A jump.
LEMMA JumpVisited ==
  ASSUME VisitInv, Program(nodes), VisitReturnStmt \/ VisitBreakStmt \/ VisitContinueStmt
  PROVE  Moved
<1>1. /\ gen = "visiting" /\ gen' = gen /\ nodes' = nodes /\ defaults' = defaults
      /\ pos' = EndOfEnclosing(pos)
      /\ UNCHANGED <<locals, breakBBs, continueBBs, switchStack>>
      /\ nodes[pos].kind \in Jumps
  BY DEF VisitReturnStmt, VisitBreakStmt, VisitContinueStmt, Visiting, SkipRest, Jumps
<1>2. /\ pos \in 1 .. Len(nodes) /\ pos \in Nat \ {0} /\ nodes[pos] \in Node /\ Ready(ir)
      /\ JumpsAt(nodes, nodes[pos], pos)
  BY <1>1, AtNode
<1>3. pos' = Min(SkipSet(nodes, pos))
  BY <1>1 DEF EndOfEnclosing, SkipSet
<1>4. pos' \in 1 .. Len(nodes)
  <2>1. pos' \in pos + 1 .. Len(nodes)
    BY <1>1, <1>2, <1>3, SkipIs
  <2>2. QED
    BY <1>2, <2>1
<1>5. SameAround(nodes, pos, pos')
  <2> SUFFICES ASSUME NEW kinds \in Kinds, NEW i
               PROVE  Encloses(nodes, i, pos', kinds) <=> Encloses(nodes, i, pos, kinds)
    BY DEF SameAround
  <2>1. kinds \subseteq Openers
    BY KindsAre
  <2>2. PICK q : q = pos'
    OBVIOUS
  <2>3. Encloses(nodes, i, q, kinds) <=> Encloses(nodes, i, pos, kinds)
    BY <1>1, <1>2, <1>3, <2>1, <2>2, EnclosesSkip
  <2>4. QED
    BY <2>2, <2>3
<1>6. PICK gs, ss : Linked(gs, ss, nodes, pos, ir, locals, switchStack, breakBBs, continueBBs)
  BY <1>1 DEF VisitInv
<1>7. \E x : Fit(ir, x) /\ ir' = Emit(ir, x)
  <2>1. CASE VisitReturnStmt
    <3>1. Fit(ir, Term(pos, <<>>))
      BY <1>2, InstrType
    <3>2. QED
      BY <2>1, <3>1 DEF VisitReturnStmt
  <2>2. CASE VisitBreakStmt
    <3> DEFINE b == BlockOf(breakBBs, nodes[pos].target)
    <3>1. Encloses(nodes, nodes[pos].target, pos, Breakable)
      BY <1>2, <2>2 DEF VisitBreakStmt, Visiting, JumpsAt, Binds
    <3>2. b \in Goals(ir)
      BY <1>6, <3>1 DEF Linked, JumpsTo, BlockOf
    <3>3. ir' = CreateBr(ir, b)
      BY <2>2 DEF VisitBreakStmt, Node1
    <3> HIDE DEF b
    <3>4. Fit(ir, Term(0, <<b>>))
      BY <1>2, <3>2, InstrType
    <3>5. QED
      BY <3>3, <3>4 DEF CreateBr
  <2>3. CASE VisitContinueStmt
    <3> DEFINE b == BlockOf(continueBBs, nodes[pos].target)
    <3>1. Encloses(nodes, nodes[pos].target, pos, Loops)
      BY <1>2, <2>3 DEF VisitContinueStmt, Visiting, JumpsAt, Binds
    <3>2. b \in Goals(ir)
      BY <1>6, <3>1 DEF Linked, JumpsTo, BlockOf
    <3>3. ir' = CreateBr(ir, b)
      BY <2>3 DEF VisitContinueStmt, Node1
    <3> HIDE DEF b
    <3>4. Fit(ir, Term(0, <<b>>))
      BY <1>2, <3>2, InstrType
    <3>5. QED
      BY <3>3, <3>4 DEF CreateBr
  <2>4. QED
    BY <2>1, <2>2, <2>3
<1>8. Ready(ir') /\ Carries(ir, ir')
  <2>1. PICK x : Fit(ir, x) /\ ir' = Emit(ir, x)
    BY <1>7
  <2>2. PICK f : f = Emit(ir, x)
    OBVIOUS
  <2>3. Ready(f) /\ Keeps(ir, f)
    BY <1>2, <2>1, <2>2, EmitIs
  <2>4. QED
    BY <1>2, <2>1, <2>2, <2>3, KeepsCarries
<1>9. PICK q : q = pos'
  OBVIOUS
<1>10. PICK f : f = ir'
  OBVIOUS
<1>11. \E hs, ts : Linked(hs, ts, nodes, q, f, locals, switchStack, breakBBs, continueBBs)
  BY <1>1, <1>5, <1>8, <1>9, <1>10, StaysLinked
<1>12. QED
  BY <1>1, <1>4, <1>8, <1>9, <1>10, <1>11 DEF Moved

\* A statement with blocks begins.
LEMMA OpensLinked ==
  ASSUME VisitInv, Program(nodes), gen = "visiting", nodes[pos].kind \in Branched,
         NEW g, Carries(ir, g), NEW l \in Local, LocalOK(l, nodes[pos].kind, Goals(g)),
         NEW bs, IF nodes[pos].kind \in Breakable THEN \E b \in Goals(g) : bs = Put(breakBBs, pos, b)
                 ELSE bs = breakBBs,
         NEW cs, IF nodes[pos].kind \in Loops THEN \E b \in Goals(g) : cs = Put(continueBBs, pos, b)
                 ELSE cs = continueBBs,
         NEW st, IF nodes[pos].kind = "switch"
                   THEN \E x : IsSwitchInst(g, x) /\ st = Append(switchStack, x)
                 ELSE st = switchStack
  PROVE  \E gs, ss : Linked(gs, ss, nodes, pos + 1, g, Append(locals, l), st, bs, cs)
<1>1. PICK gs, ss : Linked(gs, ss, nodes, pos, ir, locals, switchStack, breakBBs, continueBBs)
  BY DEF VisitInv
<1>2. /\ pos \in Nat \ {0} /\ pos \in Nat /\ EndsAt(nodes, nodes[pos], pos) /\ EndsOK(nodes, pos + 1)
      /\ nodes[pos].kind \notin Closers
  <2>1. nodes[pos].kind \notin Closers
    BY DEF Branched, Closers
  <2>2. QED
    BY <2>1, AtNode
<1>3. /\ Branched \subseteq Openers /\ {"switch"} \subseteq Openers /\ Breakable \subseteq Openers
      /\ Loops \subseteq Openers
  BY DEF Branched, Breakable, Loops, Openers
<1>4. gs \in Seq(Nat) /\ ss \in Seq(Nat)
  BY <1>1 DEF Linked, Fits
<1>5. Fits(Append(gs, pos), nodes, pos + 1, Branched)
  BY <1>1, <1>2, <1>3, FitsOpen DEF Linked
<1>6. LocalsFit(Append(gs, pos), nodes, g, Append(locals, l))
  <2>1. LocalsFit(gs, nodes, g, locals)
    BY <1>1, LocalsKeep DEF Linked
  <2>2. QED
    BY <1>2, <1>4, <2>1, LocalsPush
<1>7. SwitchesFit(ss, g, switchStack)
  BY <1>1, SwitchesKeep DEF Linked
<1>8. \E ts : Fits(ts, nodes, pos + 1, {"switch"}) /\ SwitchesFit(ts, g, st)
  <2>1. CASE nodes[pos].kind = "switch"
    <3>1. PICK x : IsSwitchInst(g, x) /\ st = Append(switchStack, x)
      BY <2>1
    <3>2. SwitchesFit(Append(ss, pos), g, st)
      BY <1>2, <1>4, <1>7, <3>1, SwitchesPush
    <3>3. nodes[pos].kind \in {"switch"}
      BY <2>1
    <3>4. Fits(Append(ss, pos), nodes, pos + 1, {"switch"})
      BY <1>1, <1>2, <1>3, <3>3, FitsOpen DEF Linked
    <3>5. QED
      BY <3>2, <3>4
  <2>2. CASE nodes[pos].kind # "switch"
    <3>1. nodes[pos].kind \notin {"switch"} /\ st = switchStack
      BY <2>2
    <3>2. Fits(ss, nodes, pos + 1, {"switch"})
      BY <1>1, <1>2, <1>3, <3>1, FitsOther DEF Linked
    <3>3. QED
      BY <1>7, <3>1, <3>2
  <2>3. QED
    BY <2>1, <2>2
<1>9. JumpsTo(bs, nodes, pos + 1, Breakable, g)
  <2>1. JumpsTo(breakBBs, nodes, pos, Breakable, ir)
    BY <1>1 DEF Linked
  <2>2. CASE nodes[pos].kind \in Breakable
    <3>1. PICK b \in Goals(g) : bs = Put(breakBBs, pos, b)
      BY <2>2
    <3>2. QED
      BY <1>2, <1>3, <2>1, <2>2, <3>1, MapPut
  <2>3. CASE nodes[pos].kind \notin Breakable
    BY <1>2, <1>3, <2>1, <2>3, MapOther
  <2>4. QED
    BY <2>2, <2>3
<1>10. JumpsTo(cs, nodes, pos + 1, Loops, g)
  <2>1. JumpsTo(continueBBs, nodes, pos, Loops, ir)
    BY <1>1 DEF Linked
  <2>2. CASE nodes[pos].kind \in Loops
    <3>1. PICK b \in Goals(g) : cs = Put(continueBBs, pos, b)
      BY <2>2
    <3>2. QED
      BY <1>2, <1>3, <2>1, <2>2, <3>1, MapPut
  <2>3. CASE nodes[pos].kind \notin Loops
    BY <1>2, <1>3, <2>1, <2>3, MapOther
  <2>4. QED
    BY <2>2, <2>3
<1>11. PICK ts : Fits(ts, nodes, pos + 1, {"switch"}) /\ SwitchesFit(ts, g, st)
  BY <1>8
<1>12. Linked(Append(gs, pos), ts, nodes, pos + 1, g, Append(locals, l), st, bs, cs)
  BY <1>5, <1>6, <1>9, <1>10, <1>11 DEF Linked
<1>13. QED
  BY <1>12

\* What an end or an else finds.
LEMMA EndLocals ==
  ASSUME VisitInv, Program(nodes), gen = "visiting",
         nodes[pos].kind \in {"else", "endif", "endfor", "enddo", "endswitch"}
  PROVE  /\ locals # <<>> /\ Last(locals) \in Local /\ nodes[pos].opener \in 1 .. pos - 1
         /\ LocalOK(Last(locals), nodes[nodes[pos].opener].kind, Goals(ir))
         /\ nodes[nodes[pos].opener].kind =
              IF nodes[pos].kind \in {"else", "endif"} THEN "if"
              ELSE IF nodes[pos].kind = "endfor" THEN "for"
              ELSE IF nodes[pos].kind = "enddo" THEN "do" ELSE "switch"
<1> DEFINE o == nodes[pos].opener
<1>1. PICK gs, ss : Linked(gs, ss, nodes, pos, ir, locals, switchStack, breakBBs, continueBBs)
  BY DEF VisitInv
<1>2. pos \in Nat \ {0} /\ EndsAt(nodes, nodes[pos], pos)
  BY AtNode
<1>3. /\ o \in 1 .. pos - 1 /\ nodes[o].kind \in Openers /\ ~EndedBefore(nodes, o, pos)
      /\ \A i \in o + 1 .. pos - 1 : nodes[i].kind \in Openers => EndedBefore(nodes, i, pos)
      /\ IF nodes[pos].kind = "else" THEN nodes[o].kind = "if"
         ELSE nodes[pos].kind = CloserOf[nodes[o].kind]
  BY <1>2 DEF EndsAt, Closers
<1>4. nodes[o].kind =
              IF nodes[pos].kind \in {"else", "endif"} THEN "if"
              ELSE IF nodes[pos].kind = "endfor" THEN "for"
              ELSE IF nodes[pos].kind = "enddo" THEN "do" ELSE "switch"
  BY <1>3 DEF Openers, CloserOf
<1>5. nodes[o].kind \in Branched /\ Branched \subseteq Openers
  BY <1>4 DEF Branched, Openers
<1>6. Encloses(nodes, o, pos, Branched) /\ \A i : Encloses(nodes, i, pos, Branched) => i <= o
  BY <1>2, <1>3, <1>5 DEF Encloses
<1>7. /\ gs \in Seq(Nat) /\ \A k \in 1 .. Len(gs) : \A l \in 1 .. k - 1 : gs[l] < gs[k]
      /\ \A i : Encloses(nodes, i, pos, Branched) <=> \E k \in 1 .. Len(gs) : gs[k] = i
  BY <1>1 DEF Linked, Fits
<1>8. PICK k \in 1 .. Len(gs) : gs[k] = o
  BY <1>6, <1>7
<1>9. Len(gs) \in 1 .. Len(gs) /\ gs # <<>> /\ Last(gs) = gs[Len(gs)] /\ Len(gs) \in Nat
  BY <1>7, <1>8 DEF Last
<1>10. Last(gs) = o
  <2>1. Last(gs) <= o /\ Last(gs) \in Nat
    BY <1>6, <1>7, <1>9
  <2>2. k = Len(gs) \/ k \in 1 .. Len(gs) - 1
    BY <1>9
  <2>3. k \in 1 .. Len(gs) - 1 => o < Last(gs)
    BY <1>7, <1>8, <1>9
  <2>4. QED
    BY <1>3, <1>8, <1>9, <2>1, <2>2, <2>3
<1>11. locals # <<>> /\ Last(locals) \in Local /\ LocalOK(Last(locals), nodes[Last(gs)].kind, Goals(ir))
  BY <1>1, <1>7, <1>9, LocalsPop DEF Linked
<1>12. QED
  BY <1>3, <1>4, <1>10, <1>11

\* A statement with blocks ends.
LEMMA ClosesLinked ==
  ASSUME VisitInv, Program(nodes), gen = "visiting",
         nodes[pos].kind \in {"endif", "endfor", "enddo", "endswitch"},
         NEW g, Carries(ir, g),
         NEW bs, bs = IF nodes[pos].kind # "endif" THEN Erase(breakBBs, nodes[pos].opener) ELSE breakBBs,
         NEW cs, cs = IF nodes[pos].kind \in {"endfor", "enddo"}
                        THEN Erase(continueBBs, nodes[pos].opener) ELSE continueBBs,
         NEW st, st = IF nodes[pos].kind = "endswitch" THEN Front(switchStack) ELSE switchStack
  PROVE  \E gs, ss : Linked(gs, ss, nodes, pos + 1, g, Front(locals), st, bs, cs)
<1> DEFINE o == nodes[pos].opener
<1>1. PICK gs, ss : Linked(gs, ss, nodes, pos, ir, locals, switchStack, breakBBs, continueBBs)
  BY DEF VisitInv
<1>2. pos \in Nat \ {0} /\ EndsAt(nodes, nodes[pos], pos) /\ nodes[pos].kind \in Closers
  <2>1. nodes[pos].kind \in Closers
    BY DEF Closers
  <2>2. QED
    BY <2>1, AtNode
<1>3. /\ Branched \subseteq Openers /\ {"switch"} \subseteq Openers /\ Breakable \subseteq Openers
      /\ Loops \subseteq Openers
      /\ nodes[pos].kind \notin Branched /\ nodes[pos].kind \notin {"switch"}
      /\ nodes[pos].kind \notin Breakable /\ nodes[pos].kind \notin Loops
  BY DEF Branched, Breakable, Loops, Openers
<1>4. nodes[o].kind =
              IF nodes[pos].kind \in {"else", "endif"} THEN "if"
              ELSE IF nodes[pos].kind = "endfor" THEN "for"
              ELSE IF nodes[pos].kind = "enddo" THEN "do" ELSE "switch"
  BY EndLocals
<1>5. /\ nodes[o].kind \in Branched
      /\ nodes[o].kind \in {"switch"} <=> nodes[pos].kind = "endswitch"
      /\ nodes[o].kind \in Breakable <=> nodes[pos].kind # "endif"
      /\ nodes[o].kind \in Loops <=> nodes[pos].kind \in {"endfor", "enddo"}
  BY <1>4 DEF Branched, Breakable, Loops
<1>6. gs # <<>> /\ Fits(Front(gs), nodes, pos + 1, Branched) /\ gs \in Seq(Nat) /\ ss \in Seq(Nat)
  <2>1. Fits(gs, nodes, pos, Branched) /\ gs \in Seq(Nat) /\ ss \in Seq(Nat)
    BY <1>1 DEF Linked, Fits
  <2>2. QED
    BY <1>2, <1>3, <1>5, <2>1, FitsClose
<1>7. LocalsFit(Front(gs), nodes, g, Front(locals))
  <2>1. LocalsFit(gs, nodes, g, locals)
    BY <1>1, LocalsKeep DEF Linked
  <2>2. QED
    BY <1>6, <2>1, LocalsPop
<1>8. \E ts : Fits(ts, nodes, pos + 1, {"switch"}) /\ SwitchesFit(ts, g, st)
  <2>1. SwitchesFit(ss, g, switchStack) /\ Fits(ss, nodes, pos, {"switch"})
    BY <1>1, SwitchesKeep DEF Linked
  <2>2. CASE nodes[pos].kind = "endswitch"
    <3>1. ss # <<>> /\ Fits(Front(ss), nodes, pos + 1, {"switch"})
      BY <1>2, <1>3, <1>5, <2>1, <2>2, FitsClose
    <3>2. SwitchesFit(Front(ss), g, st)
      BY <1>6, <2>1, <2>2, <3>1, SwitchesPop
    <3>3. QED
      BY <3>1, <3>2
  <2>3. CASE nodes[pos].kind # "endswitch"
    <3>1. Fits(ss, nodes, pos + 1, {"switch"})
      BY <1>2, <1>3, <1>5, <2>1, <2>3, FitsOther
    <3>2. QED
      BY <2>1, <2>3, <3>1
  <2>4. QED
    BY <2>2, <2>3
<1>9. JumpsTo(bs, nodes, pos + 1, Breakable, g)
  <2>1. JumpsTo(breakBBs, nodes, pos, Breakable, ir)
    BY <1>1 DEF Linked
  <2>2. CASE nodes[pos].kind # "endif"
    BY <1>2, <1>3, <2>1, <2>2, MapErase
  <2>3. CASE nodes[pos].kind = "endif"
    BY <1>2, <1>3, <1>5, <2>1, <2>3, MapOther
  <2>4. QED
    BY <2>2, <2>3
<1>10. JumpsTo(cs, nodes, pos + 1, Loops, g)
  <2>1. JumpsTo(continueBBs, nodes, pos, Loops, ir)
    BY <1>1 DEF Linked
  <2>2. CASE nodes[pos].kind \in {"endfor", "enddo"}
    BY <1>2, <1>3, <2>1, <2>2, MapErase
  <2>3. CASE nodes[pos].kind \notin {"endfor", "enddo"}
    BY <1>2, <1>3, <1>5, <2>1, <2>3, MapOther
  <2>4. QED
    BY <2>2, <2>3
<1>11. PICK ts : Fits(ts, nodes, pos + 1, {"switch"}) /\ SwitchesFit(ts, g, st)
  BY <1>8
<1>12. Linked(Front(gs), ts, nodes, pos + 1, g, Front(locals), st, bs, cs)
  BY <1>6, <1>7, <1>9, <1>10, <1>11 DEF Linked
<1>13. QED
  BY <1>12

\* Blocks that a statement creates may be branched to and placed.
LEMMA CreatedGoals ==
  ASSUME NEW f, Ready(f), NEW k \in Nat, NEW g, Ready(g), Keeps(Create(f, k), g)
  PROVE  /\ \A m \in 1 .. k : Len(f.blocks) + m \in Goals(g) /\ Len(f.blocks) + m \in 1 .. Len(g.blocks)
         /\ Keeps(f, g) /\ Carries(f, g)
<1>1. PICK c : c = Create(f, k)
  OBVIOUS
<1>2. Ready(c) /\ Keeps(f, c) /\ Len(c.blocks) = Len(f.blocks) + k
  BY <1>1, CreateIs
<1>3. Len(f.blocks) \in Nat \ {0} /\ Len(g.blocks) \in Nat /\ Len(c.blocks) <= Len(g.blocks)
  BY <1>1 DEF Ready, IrTyped, Keeps
<1>4. Keeps(f, g)
  BY <1>1, <1>2, KeepsTwice DEF Ready
<1>5. QED
  BY <1>2, <1>3, <1>4, KeepsCarries DEF Goals

\* Steps of the builder one after the other.
LEMMA GoalsKept ==
  ASSUME NEW f, Ready(f), NEW g, Ready(g), Keeps(f, g)
  PROVE  Goals(f) \subseteq Goals(g) /\ 1 .. Len(f.blocks) \subseteq 1 .. Len(g.blocks)
         /\ Goals(f) \subseteq 1 .. Len(f.blocks) /\ Goals(f) \subseteq Nat
BY DEF Goals, Keeps, Ready, IrTyped

\* An if's condition.
LEMMA IfBuilds ==
  ASSUME NEW f, Ready(f), NEW k \in {2, 3}, NEW branching \in BOOLEAN, NEW at \in Nat, NEW g,
         LET n == LastBlock(f)
             cond == Evaluate(Create(f, k), 0, branching)
         IN  g = Place(Emit(cond, Term(at, <<n + 1, n + 2>>)), n + 1)
  PROVE  Ready(g) /\ Keeps(Create(f, k), g)
<1> DEFINE n == LastBlock(f)
<1>1. n = Len(f.blocks) /\ n \in Nat /\ 1 \in 1 .. k /\ 2 \in 1 .. k /\ k \in Nat /\ 0 \in Nat
  BY DEF LastBlock, Ready, IrTyped
<1>2. PICK c : c = Create(f, k)
  OBVIOUS
<1>3. Ready(c)
  BY <1>1, <1>2, CreateIs
<1>4. PICK e : e = Evaluate(c, 0, branching)
  OBVIOUS
<1>5. Ready(e) /\ Keeps(c, e)
  BY <1>1, <1>3, <1>4, EvaluateIs
<1>6. n + 1 \in Goals(e) /\ n + 2 \in Goals(e)
  BY <1>1, <1>2, <1>5, CreatedGoals
<1>7. PICK m : m = Emit(e, Term(at, <<n + 1, n + 2>>))
  OBVIOUS
<1>8. Ready(m) /\ Keeps(e, m)
  BY <1>5, <1>6, <1>7, InstrType, EmitIs
<1>9. n + 1 \in 1 .. Len(m.blocks)
  BY <1>5, <1>6, <1>8, GoalsKept
<1>10. g = Place(m, n + 1)
  BY <1>2, <1>4, <1>7
<1>11. Ready(g) /\ Keeps(m, g)
  BY <1>8, <1>9, <1>10, PlaceIs
<1>12. Keeps(c, m)
  BY <1>3, <1>5, <1>8, KeepsTwice DEF Ready
<1>13. Keeps(c, g)
  BY <1>3, <1>8, <1>11, <1>12, KeepsTwice DEF Ready
<1>14. QED
  BY <1>2, <1>11, <1>13

\* The visit of an if up to its statement,
LEMMA IfVisited ==
  ASSUME VisitInv, Program(nodes), VisitIfStmt
  PROVE  Moved \/ Crash
<1> SUFFICES ASSUME ~Crash PROVE Moved
  OBVIOUS
<1> DEFINE n == LastBlock(ir)
           k == IF HasElse(pos) THEN 3 ELSE 2
           l == [else |-> n + 2, last |-> n + k]
<1>1. /\ gen = "visiting" /\ gen' = gen /\ nodes' = nodes /\ defaults' = defaults /\ pos' = pos + 1
      /\ UNCHANGED <<breakBBs, continueBBs, switchStack>> /\ nodes[pos].kind = "if"
      /\ locals' = Append(locals, l)
      /\ ir' = Place(Emit(Evaluate(Create(ir, k), 0, nodes[pos].branching),
                          Term(pos, <<n + 1, n + 2>>)), n + 1)
  BY DEF VisitIfStmt, Visiting, Advance, Node1
<1>2. /\ pos \in Nat /\ nodes[pos].branching \in BOOLEAN /\ Ready(ir)
      /\ pos + 1 \in 1 .. Len(nodes) /\ n = Len(ir.blocks) /\ n \in Nat
  BY <1>1, AtNode DEF Node
<1>3. k \in {2, 3} /\ k \in Nat /\ k \in 1 .. k /\ 2 \in 1 .. k
  OBVIOUS
<1>4. PICK f : f = ir'
  OBVIOUS
<1> HIDE DEF k
<1>5. Ready(f) /\ Keeps(Create(ir, k), f)
  BY <1>1, <1>2, <1>3, <1>4, IfBuilds
<1>6. n + 2 \in Goals(f) /\ n + k \in Goals(f) /\ Carries(ir, f)
  BY <1>2, <1>3, <1>5, CreatedGoals
<1>7. l \in Local /\ LocalOK(l, "if", Goals(f))
  BY <1>2, <1>3, <1>6 DEF Local, LocalOK
<1> HIDE DEF l
<1>8. \E gs, ss : Linked(gs, ss, nodes, pos + 1, f, Append(locals, l), switchStack, breakBBs, continueBBs)
  <2>1. "if" \in Branched /\ "if" \notin Breakable /\ "if" \notin Loops
    BY DEF Branched, Breakable, Loops
  <2>2. QED
    BY <1>1, <1>6, <1>7, <2>1, OpensLinked
<1>9. QED
  BY <1>1, <1>2, <1>4, <1>5, <1>8 DEF Moved

\* The end of a branch of an if, and the next block.
LEMMA JoinBuilds ==
  ASSUME NEW f, Ready(f), NEW b \in Goals(f), NEW c \in Goals(f), NEW g, g = Place(CreateBrIfOpen(f, b), c)
  PROVE  Ready(g) /\ Keeps(f, g) /\ Carries(f, g)
<1>1. PICK e : e = CreateBrIfOpen(f, b)
  OBVIOUS
<1>2. Ready(e) /\ Keeps(f, e) /\ Len(e.blocks) = Len(f.blocks)
  BY <1>1, BranchIs
<1>3. c \in 1 .. Len(e.blocks)
  BY <1>2 DEF Goals
<1>4. Ready(g) /\ Keeps(e, g)
  BY <1>1, <1>2, <1>3, PlaceIs
<1>5. Keeps(f, g)
  BY <1>2, <1>4, KeepsTwice DEF Ready
<1>6. QED
  BY <1>4, <1>5, KeepsCarries

\* from there to the else's statement,
LEMMA ElseVisited ==
  ASSUME VisitInv, Program(nodes), VisitElse
  PROVE  Moved
<1> DEFINE l == Last(locals)
<1>1. /\ gen = "visiting" /\ gen' = gen /\ nodes' = nodes /\ defaults' = defaults /\ pos' = pos + 1
      /\ UNCHANGED <<locals, breakBBs, continueBBs, switchStack>> /\ nodes[pos].kind = "else"
      /\ ir' = Place(CreateBrIfOpen(ir, l.last), l.else)
  BY DEF VisitElse, Visiting, Advance
<1>2. /\ pos \in Nat \ {0} /\ Ready(ir) /\ EndsAt(nodes, nodes[pos], pos) /\ pos + 1 \in 1 .. Len(nodes)
  BY <1>1, AtNode
<1>3. l.last \in Goals(ir) /\ l.else \in Goals(ir)
  BY <1>1, EndLocals DEF LocalOK
<1>4. PICK f : f = ir'
  OBVIOUS
<1>5. Ready(f) /\ Carries(ir, f)
  BY <1>1, <1>2, <1>3, <1>4, JoinBuilds
<1>6. SameAround(nodes, pos, pos + 1)
  BY <1>1, <1>2, PlainAround DEF Branched
<1>7. \E gs, ss : Linked(gs, ss, nodes, pos + 1, f, locals, switchStack, breakBBs, continueBBs)
  BY <1>1, <1>5, <1>6, StaysLinked
<1>8. QED
  BY <1>1, <1>2, <1>4, <1>5, <1>7 DEF Moved

\* and to its end.
LEMMA IfEndVisited ==
  ASSUME VisitInv, Program(nodes), VisitIfEnd
  PROVE  Moved
<1> DEFINE l == Last(locals)
<1>1. /\ gen = "visiting" /\ gen' = gen /\ nodes' = nodes /\ defaults' = defaults /\ pos' = pos + 1
      /\ UNCHANGED <<breakBBs, continueBBs, switchStack>> /\ nodes[pos].kind = "endif"
      /\ locals' = Front(locals)
      /\ ir' = Place(CreateBrIfOpen(ir, l.last), l.last)
  BY DEF VisitIfEnd, Visiting, Advance
<1>2. Ready(ir) /\ pos + 1 \in 1 .. Len(nodes)
  BY <1>1, AtNode
<1>3. l.last \in Goals(ir)
  BY <1>1, EndLocals DEF LocalOK
<1>4. PICK f : f = ir'
  OBVIOUS
<1>5. Ready(f) /\ Carries(ir, f)
  BY <1>1, <1>2, <1>3, <1>4, JoinBuilds
<1>6. \E gs, ss : Linked(gs, ss, nodes, pos + 1, f, Front(locals), switchStack, breakBBs, continueBBs)
  BY <1>1, <1>5, ClosesLinked
<1>7. QED
  BY <1>1, <1>2, <1>4, <1>5, <1>6 DEF Moved

\* A loop's first blocks.
LEMMA ForBuilds ==
  ASSUME NEW f, Ready(f), NEW cond \in BOOLEAN, NEW branching \in BOOLEAN, NEW at \in Nat, NEW g,
         LET n == LastBlock(f)
             head == Place(CreateBr(Create(f, 4), n + 1), n + 1)
             test == IF cond
                     THEN Emit(Evaluate(head, 0, branching), Term(at, <<n + 3, n + 4>>))
                     ELSE Emit(head, Term(at, <<n + 3>>))
         IN  g = Place(test, n + 3)
  PROVE  Ready(g) /\ Keeps(Create(f, 4), g)
<1> DEFINE n == LastBlock(f)
<1>1. n = Len(f.blocks) /\ n \in Nat /\ 1 \in 1 .. 4 /\ 3 \in 1 .. 4 /\ 4 \in 1 .. 4 /\ 4 \in Nat /\ 0 \in Nat
  BY DEF LastBlock, Ready, IrTyped
<1>2. PICK c : c = Create(f, 4)
  OBVIOUS
<1>3. Ready(c) /\ Keeps(c, c)
  <2>1. Ready(c)
    BY <1>1, <1>2, CreateIs
  <2>2. QED
    BY <2>1 DEF Keeps, Ready, IrTyped
<1>4. n + 1 \in Goals(c) /\ n + 3 \in Goals(c) /\ n + 4 \in Goals(c)
  BY <1>1, <1>2, <1>3, CreatedGoals
<1>5. PICK e : e = CreateBr(c, n + 1)
  OBVIOUS
<1>6. Ready(e) /\ Keeps(c, e)
  BY <1>3, <1>4, <1>5, BranchIs
<1>7. PICK h : h = Place(e, n + 1)
  OBVIOUS
<1>8. n + 1 \in 1 .. Len(e.blocks)
  BY <1>3, <1>4, <1>6, GoalsKept
<1>9. Ready(h) /\ Keeps(e, h)
  BY <1>6, <1>7, <1>8, PlaceIs
<1>10. Keeps(c, h)
  BY <1>3, <1>6, <1>9, KeepsTwice DEF Ready
<1>11. PICK t : t = IF cond THEN Emit(Evaluate(h, 0, branching), Term(at, <<n + 3, n + 4>>))
                    ELSE Emit(h, Term(at, <<n + 3>>))
  OBVIOUS
<1>12. Ready(t) /\ Keeps(c, t)
  <2>1. CASE cond
    <3>1. PICK v : v = Evaluate(h, 0, branching)
      OBVIOUS
    <3>2. Ready(v) /\ Keeps(h, v)
      BY <1>1, <1>9, <3>1, EvaluateIs
    <3>3. Keeps(c, v)
      BY <1>3, <1>9, <1>10, <3>2, KeepsTwice DEF Ready
    <3>4. n + 3 \in Goals(v) /\ n + 4 \in Goals(v)
      BY <1>3, <1>4, <3>2, <3>3, GoalsKept
    <3>5. t = Emit(v, Term(at, <<n + 3, n + 4>>))
      BY <1>11, <2>1, <3>1
    <3>6. Ready(t) /\ Keeps(v, t)
      BY <3>2, <3>4, <3>5, InstrType, EmitIs
    <3>7. QED
      BY <1>3, <3>2, <3>3, <3>6, KeepsTwice DEF Ready
  <2>2. CASE ~cond
    <3>1. t = Emit(h, Term(at, <<n + 3>>))
      BY <1>11, <2>2
    <3>2. n + 3 \in Goals(h)
      BY <1>3, <1>4, <1>9, <1>10, GoalsKept
    <3>3. Ready(t) /\ Keeps(h, t)
      BY <1>9, <3>1, <3>2, InstrType, EmitIs
    <3>4. QED
      BY <1>3, <1>9, <1>10, <3>3, KeepsTwice DEF Ready
  <2>3. QED
    BY <2>1, <2>2
<1>13. n + 3 \in 1 .. Len(t.blocks)
  BY <1>3, <1>4, <1>12, GoalsKept
<1>14. g = Place(t, n + 3)
  BY <1>2, <1>5, <1>7, <1>11
<1>15. Ready(g) /\ Keeps(t, g)
  BY <1>12, <1>13, <1>14, PlaceIs
<1>16. Keeps(c, g)
  BY <1>3, <1>12, <1>15, KeepsTwice DEF Ready
<1>17. QED
  BY <1>2, <1>15, <1>16

\* The visit of a for or a while up to its statement.
LEMMA ForVisited ==
  ASSUME VisitInv, Program(nodes), VisitForStmt
  PROVE  Moved
<1> DEFINE n == LastBlock(ir)
           l == [cond |-> n + 1, inc |-> n + 2, last |-> n + 4]
<1>1. /\ gen = "visiting" /\ gen' = gen /\ nodes' = nodes /\ defaults' = defaults /\ pos' = pos + 1
      /\ UNCHANGED switchStack /\ nodes[pos].kind = "for"
      /\ locals' = Append(locals, l)
      /\ breakBBs' = Put(breakBBs, pos, n + 4) /\ continueBBs' = Put(continueBBs, pos, n + 2)
  BY DEF VisitForStmt, Visiting, Advance
<1>2. /\ pos \in Nat /\ nodes[pos].branching \in BOOLEAN /\ nodes[pos].cond \in BOOLEAN /\ Ready(ir)
      /\ pos + 1 \in 1 .. Len(nodes) /\ n = Len(ir.blocks) /\ n \in Nat
  BY <1>1, AtNode DEF Node
<1>3. PICK f : f = ir'
  OBVIOUS
<1>4. Ready(f) /\ Keeps(Create(ir, 4), f)
  BY <1>2, <1>3, ForBuilds DEF VisitForStmt, Node1
<1>5. n + 1 \in Goals(f) /\ n + 2 \in Goals(f) /\ n + 4 \in Goals(f) /\ Carries(ir, f)
  <2>1. 4 \in Nat /\ 1 \in 1 .. 4 /\ 2 \in 1 .. 4 /\ 4 \in 1 .. 4
    OBVIOUS
  <2>2. QED
    BY <1>2, <1>4, <2>1, CreatedGoals
<1>6. l \in Local /\ LocalOK(l, "for", Goals(f))
  BY <1>2, <1>5 DEF Local, LocalOK
<1> HIDE DEF l
<1>7. PICK bs : bs = Put(breakBBs, pos, n + 4)
  OBVIOUS
<1>8. PICK cs : cs = Put(continueBBs, pos, n + 2)
  OBVIOUS
<1>9. \E gs, ss : Linked(gs, ss, nodes, pos + 1, f, Append(locals, l), switchStack, bs, cs)
  <2>1. "for" \in Branched /\ "for" \in Breakable /\ "for" \in Loops
    BY DEF Branched, Breakable, Loops
  <2>2. \E b \in Goals(f) : bs = Put(breakBBs, pos, b)
    BY <1>5, <1>7
  <2>3. \E b \in Goals(f) : cs = Put(continueBBs, pos, b)
    BY <1>5, <1>8
  <2>4. QED
    BY <1>1, <1>5, <1>6, <2>1, <2>2, <2>3, OpensLinked
<1>10. QED
  BY <1>1, <1>2, <1>3, <1>4, <1>7, <1>8, <1>9 DEF Moved

\* The visit of a do up to its statement,
LEMMA DoVisited ==
  ASSUME VisitInv, Program(nodes), VisitDoWhileStmt
  PROVE  Moved \/ Crash
<1> SUFFICES ASSUME ~Crash PROVE Moved
  OBVIOUS
<1> DEFINE n == LastBlock(ir)
           l == [body |-> n + 1, cond |-> n + 2, last |-> n + 3]
<1>1. /\ gen = "visiting" /\ gen' = gen /\ nodes' = nodes /\ defaults' = defaults /\ pos' = pos + 1
      /\ UNCHANGED switchStack /\ nodes[pos].kind = "do"
      /\ locals' = Append(locals, l)
      /\ breakBBs' = Put(breakBBs, pos, n + 3) /\ continueBBs' = Put(continueBBs, pos, n + 2)
      /\ ir' = Place(CreateBr(Create(ir, 3), n + 1), n + 1)
  BY DEF VisitDoWhileStmt, Visiting, Advance
<1>2. /\ pos \in Nat /\ Ready(ir) /\ pos + 1 \in 1 .. Len(nodes) /\ n = Len(ir.blocks) /\ n \in Nat
  BY <1>1, AtNode
<1>3. PICK f : f = ir'
  OBVIOUS
<1>4. 3 \in Nat /\ 1 \in 1 .. 3 /\ 2 \in 1 .. 3 /\ 3 \in 1 .. 3
  OBVIOUS
<1>5. Ready(f) /\ Keeps(Create(ir, 3), f)
  <2>1. PICK c : c = Create(ir, 3)
    OBVIOUS
  <2>2. Ready(c) /\ Keeps(c, c)
    <3>1. Ready(c)
      BY <1>2, <1>4, <2>1, CreateIs
    <3>2. QED
      BY <3>1 DEF Keeps, Ready, IrTyped
  <2>3. n + 1 \in Goals(c)
    BY <1>2, <1>4, <2>1, <2>2, CreatedGoals
  <2>4. PICK e : e = CreateBr(c, n + 1)
    OBVIOUS
  <2>5. Ready(e) /\ Keeps(c, e)
    BY <2>2, <2>3, <2>4, BranchIs
  <2>6. n + 1 \in 1 .. Len(e.blocks)
    BY <2>2, <2>3, <2>5, GoalsKept
  <2>7. f = Place(e, n + 1)
    BY <1>1, <1>3, <2>1, <2>4
  <2>8. Ready(f) /\ Keeps(e, f)
    BY <2>5, <2>6, <2>7, PlaceIs
  <2>9. Keeps(c, f)
    BY <2>2, <2>5, <2>8, KeepsTwice DEF Ready
  <2>10. QED
    BY <2>1, <2>8, <2>9
<1>6. n + 1 \in Goals(f) /\ n + 2 \in Goals(f) /\ n + 3 \in Goals(f) /\ Carries(ir, f)
  BY <1>2, <1>4, <1>5, CreatedGoals
<1>7. l \in Local /\ LocalOK(l, "do", Goals(f))
  BY <1>2, <1>6 DEF Local, LocalOK
<1> HIDE DEF l
<1>8. PICK bs : bs = Put(breakBBs, pos, n + 3)
  OBVIOUS
<1>9. PICK cs : cs = Put(continueBBs, pos, n + 2)
  OBVIOUS
<1>10. \E gs, ss : Linked(gs, ss, nodes, pos + 1, f, Append(locals, l), switchStack, bs, cs)
  <2>1. "do" \in Branched /\ "do" \in Breakable /\ "do" \in Loops
    BY DEF Branched, Breakable, Loops
  <2>2. \E b \in Goals(f) : bs = Put(breakBBs, pos, b)
    BY <1>6, <1>8
  <2>3. \E b \in Goals(f) : cs = Put(continueBBs, pos, b)
    BY <1>6, <1>9
  <2>4. QED
    BY <1>1, <1>6, <1>7, <2>1, <2>2, <2>3, OpensLinked
<1>11. QED
  BY <1>1, <1>2, <1>3, <1>5, <1>8, <1>9, <1>10 DEF Moved

\* The end of a loop.
LEMMA ForEndVisited ==
  ASSUME VisitInv, Program(nodes), VisitForEnd
  PROVE  Moved
<1> DEFINE l == Last(locals)
           o == nodes[pos].opener
<1>1. /\ gen = "visiting" /\ gen' = gen /\ nodes' = nodes /\ defaults' = defaults /\ pos' = pos + 1
      /\ UNCHANGED switchStack /\ nodes[pos].kind = "endfor"
      /\ locals' = Front(locals)
      /\ breakBBs' = Erase(breakBBs, o) /\ continueBBs' = Erase(continueBBs, o)
  BY DEF VisitForEnd, Visiting, Advance, Node1
<1>2. Ready(ir) /\ pos + 1 \in 1 .. Len(nodes) /\ pos \in Nat
  BY <1>1, AtNode
<1>3. l.last \in Goals(ir) /\ l.inc \in Goals(ir) /\ l.cond \in Goals(ir)
  BY <1>1, EndLocals DEF LocalOK
<1>4. PICK f : f = ir'
  OBVIOUS
<1>5. Ready(f) /\ Carries(ir, f)
  <2>1. PICK i : i = Place(CreateBrIfOpen(ir, l.inc), l.inc)
    OBVIOUS
  <2>2. Ready(i) /\ Keeps(ir, i)
    BY <1>2, <1>3, <2>1, JoinBuilds
  <2>3. PICK s : s = IF nodes[o].inc THEN Emit(i, Eval(pos)) ELSE i
    OBVIOUS
  <2>4. Ready(s) /\ Keeps(i, s)
    <3>1. CASE s = i
      BY <2>2, <3>1 DEF Keeps, Ready, IrTyped
    <3>2. CASE s = Emit(i, Eval(pos))
      BY <1>2, <2>2, <3>2, InstrType, EmitIs
    <3>3. QED
      BY <2>3, <3>1, <3>2
  <2>5. Keeps(ir, s)
    BY <1>2, <2>2, <2>4, KeepsTwice DEF Ready
  <2>6. l.cond \in Goals(s) /\ l.last \in Goals(s)
    BY <1>2, <1>3, <2>4, <2>5, GoalsKept
  <2>7. PICK c : c = CreateBr(s, l.cond)
    OBVIOUS
  <2>8. Ready(c) /\ Keeps(s, c)
    BY <2>4, <2>6, <2>7, BranchIs
  <2>9. Keeps(ir, c) /\ l.last \in 1 .. Len(c.blocks)
    BY <1>2, <2>4, <2>5, <2>6, <2>8, KeepsTwice, GoalsKept DEF Ready
  <2>10. f = Place(c, l.last)
    BY <1>1, <1>4, <2>1, <2>3, <2>7 DEF VisitForEnd, Node1
  <2>11. Ready(f) /\ Keeps(c, f)
    BY <2>8, <2>9, <2>10, PlaceIs
  <2>12. Keeps(ir, f)
    BY <1>2, <2>8, <2>9, <2>11, KeepsTwice DEF Ready
  <2>13. QED
    BY <1>2, <2>11, <2>12, KeepsCarries
<1>6. PICK bs : bs = Erase(breakBBs, o)
  OBVIOUS
<1>7. PICK cs : cs = Erase(continueBBs, o)
  OBVIOUS
<1>8. \E gs, ss : Linked(gs, ss, nodes, pos + 1, f, Front(locals), switchStack, bs, cs)
  BY <1>1, <1>5, <1>6, <1>7, ClosesLinked
<1>9. QED
  BY <1>1, <1>2, <1>4, <1>5, <1>6, <1>7, <1>8 DEF Moved

\* and from there to its end.
LEMMA DoEndVisited ==
  ASSUME VisitInv, Program(nodes), VisitDoWhileEnd
  PROVE  Moved
<1> DEFINE l == Last(locals)
           o == nodes[pos].opener
<1>1. /\ gen = "visiting" /\ gen' = gen /\ nodes' = nodes /\ defaults' = defaults /\ pos' = pos + 1
      /\ UNCHANGED switchStack /\ nodes[pos].kind = "enddo"
      /\ locals' = Front(locals)
      /\ breakBBs' = Erase(breakBBs, o) /\ continueBBs' = Erase(continueBBs, o)
  BY DEF VisitDoWhileEnd, Visiting, Advance, Node1
<1>2. Ready(ir) /\ pos + 1 \in 1 .. Len(nodes) /\ pos \in Nat /\ nodes[pos].branching \in BOOLEAN
  BY <1>1, AtNode DEF Node
<1>3. l.last \in Goals(ir) /\ l.body \in Goals(ir) /\ l.cond \in Goals(ir)
  BY <1>1, EndLocals DEF LocalOK
<1>4. PICK f : f = ir'
  OBVIOUS
<1>5. Ready(f) /\ Carries(ir, f)
  <2>1. PICK i : i = Place(CreateBrIfOpen(ir, l.cond), l.cond)
    OBVIOUS
  <2>2. Ready(i) /\ Keeps(ir, i)
    BY <1>2, <1>3, <2>1, JoinBuilds
  <2>3. PICK s : s = Evaluate(i, 0, nodes[pos].branching)
    OBVIOUS
  <2>4. Ready(s) /\ Keeps(i, s)
    BY <1>2, <2>2, <2>3, EvaluateIs
  <2>5. Keeps(ir, s)
    BY <1>2, <2>2, <2>4, KeepsTwice DEF Ready
  <2>6. l.body \in Goals(s) /\ l.last \in Goals(s)
    BY <1>2, <1>3, <2>4, <2>5, GoalsKept
  <2>7. PICK c : c = Emit(s, Term(pos, <<l.body, l.last>>))
    OBVIOUS
  <2>8. Ready(c) /\ Keeps(s, c)
    BY <1>2, <2>4, <2>6, <2>7, InstrType, EmitIs
  <2>9. Keeps(ir, c) /\ l.last \in 1 .. Len(c.blocks)
    BY <1>2, <2>4, <2>5, <2>6, <2>8, KeepsTwice, GoalsKept DEF Ready
  <2>10. f = Place(c, l.last)
    BY <1>1, <1>4, <2>1, <2>3, <2>7 DEF VisitDoWhileEnd, Node1
  <2>11. Ready(f) /\ Keeps(c, f)
    BY <2>8, <2>9, <2>10, PlaceIs
  <2>12. Keeps(ir, f)
    BY <1>2, <2>8, <2>9, <2>11, KeepsTwice DEF Ready
  <2>13. QED
    BY <1>2, <2>11, <2>12, KeepsCarries
<1>6. PICK bs : bs = Erase(breakBBs, o)
  OBVIOUS
<1>7. PICK cs : cs = Erase(continueBBs, o)
  OBVIOUS
<1>8. \E gs, ss : Linked(gs, ss, nodes, pos + 1, f, Front(locals), switchStack, bs, cs)
  BY <1>1, <1>5, <1>6, <1>7, ClosesLinked
<1>9. QED
  BY <1>1, <1>2, <1>4, <1>5, <1>6, <1>7, <1>8 DEF Moved

\* A switch: its instruction is the last of the builder's block.
LEMMA SwitchBuilds ==
  ASSUME NEW f, Ready(f), NEW at \in Nat, NEW g,
         g = Emit(Create(f, 2), Term(at, <<LastBlock(f) + 1>>))
  PROVE  /\ Ready(g) /\ Keeps(Create(f, 2), g)
         /\ IsSwitchInst(g, <<f.point, Len(f.blocks[f.point]) + 1>>)
         /\ Inst(g, <<f.point, Len(f.blocks[f.point]) + 1>>) = Term(at, <<LastBlock(f) + 1>>)
<1> DEFINE n == LastBlock(f)
           p == f.point
           B == f.blocks[p]
           k == Len(B) + 1
<1>1. /\ n = Len(f.blocks) /\ n \in Nat /\ 2 \in Nat /\ 1 \in 1 .. 2
      /\ p \in 1 .. n /\ B \in Seq(Instr)
  <2>1. f.blocks \in Seq(Seq(Instr)) /\ p \in 1 .. Len(f.blocks) /\ Len(f.blocks) \in Nat
    BY DEF Ready, IrTyped
  <2>2. QED
    BY <2>1 DEF LastBlock
<1>2. PICK c : c = Create(f, 2)
  OBVIOUS
<1>3. Ready(c) /\ c.point = p /\ c.blocks[p] = B /\ Len(c.blocks) = n + 2
  BY SMTT(60), <1>1, <1>2, CreateIs
<1>4. Keeps(c, c)
  BY <1>3 DEF Keeps, Ready, IrTyped
<1>5. n + 1 \in Goals(c)
  BY <1>1, <1>2, <1>3, <1>4, CreatedGoals
<1>6. PICK t : t = Term(at, <<n + 1>>)
  OBVIOUS
<1>7. Fit(c, t)
  BY <1>3, <1>5, <1>6, InstrType
<1>8. g = Emit(c, t)
  BY <1>2, <1>6
<1>9. Ready(g) /\ Keeps(c, g) /\ Len(g.blocks) = n + 2 /\ g.blocks[p] = Append(B, t)
  <2>1. /\ Ready(g) /\ Keeps(c, g) /\ Len(g.blocks) = Len(c.blocks)
        /\ g.blocks[c.point] = Append(c.blocks[c.point], t)
    <3>1. Ready(c)
      BY <1>3
    <3>2. /\ Ready(Emit(c, t)) /\ Keeps(c, Emit(c, t)) /\ Len(Emit(c, t).blocks) = Len(c.blocks)
          /\ Emit(c, t).blocks[c.point] = Append(c.blocks[c.point], t)
      BY <1>7, <3>1, EmitIs
    <3>3. QED
      BY <1>8, <3>2
  <2>2. c.point = p /\ c.blocks[p] = B /\ Len(c.blocks) = n + 2
    BY <1>3
  <2> HIDE DEF B, p, n
  <2>3. QED
    BY <2>1, <2>2
<1>10. Len(g.blocks[p]) = k /\ g.blocks[p][k] = t /\ k \in Nat \ {0}
  <2>1. t \in Instr /\ B \in Seq(Instr) /\ g.blocks[p] = Append(B, t)
    BY <1>1, <1>7, <1>9 DEF Fit
  <2> HIDE DEF B, p, n
  <2>2. Len(Append(B, t)) = Len(B) + 1 /\ Len(B) \in Nat /\ Append(B, t)[Len(B) + 1] = t
    BY <2>1, AppendParts
  <2>3. QED
    BY <2>1, <2>2
<1>11. t.to # <<>>
  BY <1>6 DEF Term
<1> HIDE DEF k, p
<1> DEFINE x == <<p, k>>
<1>12. IsSwitchInst(g, x) /\ Inst(g, x) = t
  <2>1. x[1] = p /\ x[2] = k /\ x \in Nat \X Nat
    BY <1>1, <1>10
  <2>2. Inst(g, x) = t
    BY <1>10, <2>1 DEF Inst
  <2>3. p \in 1 .. n + 2 /\ k \in 1 .. k
    BY <1>1, <1>10
  <2>4. QED
    BY <1>9, <1>10, <1>11, <2>1, <2>2, <2>3 DEF IsSwitchInst
<1>13. QED
  BY <1>2, <1>6, <1>9, <1>12 DEF k, p

\* The visit of a switch up to its statement.
LEMMA SwitchVisited ==
  ASSUME VisitInv, Program(nodes), VisitSwitchStmt
  PROVE  Moved \/ Crash
<1> SUFFICES ASSUME ~Crash PROVE Moved
  OBVIOUS
<1> DEFINE n == LastBlock(ir)
           l == [default |-> n + 1, last |-> n + 2]
           x == <<ir.point, Len(ir.blocks[ir.point]) + 1>>
<1>1. /\ gen = "visiting" /\ gen' = gen /\ nodes' = nodes /\ defaults' = defaults /\ pos' = pos + 1
      /\ UNCHANGED continueBBs /\ nodes[pos].kind = "switch"
      /\ locals' = Append(locals, l)
      /\ breakBBs' = Put(breakBBs, pos, n + 2)
      /\ ir' = Emit(Create(ir, 2), Term(pos, <<n + 1>>))
      /\ switchStack' = Append(switchStack, x)
  BY DEF VisitSwitchStmt, Visiting, Advance
<1>2. /\ pos \in Nat /\ Ready(ir) /\ pos + 1 \in 1 .. Len(nodes) /\ n = Len(ir.blocks) /\ n \in Nat
  BY <1>1, AtNode
<1>3. PICK f : f = ir'
  OBVIOUS
<1>4. 2 \in Nat /\ 1 \in 1 .. 2 /\ 2 \in 1 .. 2
  OBVIOUS
<1>5. Ready(f) /\ Keeps(Create(ir, 2), f) /\ IsSwitchInst(f, x)
  BY <1>1, <1>2, <1>3, SwitchBuilds
<1>6. n + 1 \in Goals(f) /\ n + 2 \in Goals(f) /\ Carries(ir, f)
  BY <1>2, <1>4, <1>5, CreatedGoals
<1>7. l \in Local /\ LocalOK(l, "switch", Goals(f))
  BY <1>2, <1>6 DEF Local, LocalOK
<1> HIDE DEF l, x
<1>8. PICK bs : bs = Put(breakBBs, pos, n + 2)
  OBVIOUS
<1>9. PICK st : st = Append(switchStack, x)
  OBVIOUS
<1>10. \E gs, ss : Linked(gs, ss, nodes, pos + 1, f, Append(locals, l), st, bs, continueBBs)
  <2>1. "switch" \in Branched /\ "switch" \in Breakable /\ "switch" \notin Loops
    BY DEF Branched, Breakable, Loops
  <2>2. \E b \in Goals(f) : bs = Put(breakBBs, pos, b)
    BY <1>6, <1>8
  <2>3. \E y : IsSwitchInst(f, y) /\ st = Append(switchStack, y)
    BY <1>5, <1>9
  <2>4. QED
    BY <1>1, <1>6, <1>7, <2>1, <2>2, <2>3, OpensLinked
<1>11. QED
  BY <1>1, <1>2, <1>3, <1>5, <1>8, <1>9, <1>10 DEF Moved

\* A switch's end.
LEMMA SwitchEndVisited ==
  ASSUME VisitInv, Program(nodes), VisitSwitchEnd
  PROVE  Moved
<1> DEFINE l == Last(locals)
           o == nodes[pos].opener
<1>1. /\ gen = "visiting" /\ gen' = gen /\ nodes' = nodes /\ defaults' = defaults /\ pos' = pos + 1
      /\ UNCHANGED continueBBs /\ nodes[pos].kind = "endswitch"
      /\ locals' = Front(locals)
      /\ breakBBs' = Erase(breakBBs, o) /\ switchStack' = Front(switchStack)
  BY DEF VisitSwitchEnd, Visiting, Advance, Node1
<1>2. Ready(ir) /\ pos + 1 \in 1 .. Len(nodes) /\ pos \in Nat /\ Keeps(ir, ir)
  <2>1. Ready(ir) /\ pos + 1 \in 1 .. Len(nodes) /\ pos \in Nat
    BY <1>1, AtNode
  <2>2. QED
    BY <2>1 DEF Keeps, Ready, IrTyped
<1>3. l.last \in Goals(ir) /\ l.default \in Goals(ir)
  BY <1>1, EndLocals DEF LocalOK
<1>4. PICK f : f = ir'
  OBVIOUS
<1>5. Ready(f) /\ Carries(ir, f)
  <2>1. PICK i : i = IF o \in defaults THEN ir ELSE CreateBr(Place(ir, l.default), l.last)
    OBVIOUS
  <2>2. Ready(i) /\ Keeps(ir, i)
    <3>1. CASE i = ir
      BY <1>2, <3>1
    <3>2. CASE i = CreateBr(Place(ir, l.default), l.last)
      <4>1. PICK q : q = Place(ir, l.default)
        OBVIOUS
      <4>2. Ready(q) /\ Keeps(ir, q)
        BY <1>2, <1>3, <4>1, GoalsKept, PlaceIs
      <4>3. l.last \in Goals(q)
        BY <1>2, <1>3, <4>2, GoalsKept
      <4>4. Ready(i) /\ Keeps(q, i)
        BY <3>2, <4>1, <4>2, <4>3, BranchIs
      <4>5. QED
        BY <1>2, <4>2, <4>4, KeepsTwice DEF Ready
    <3>3. QED
      BY <2>1, <3>1, <3>2
  <2>3. l.last \in Goals(i) /\ l.default \in Goals(i)
    BY <1>2, <1>3, <2>2, GoalsKept
  <2>4. PICK e : e = IF Unterminated(i.blocks[l.default])
                       THEN CreateBr(SetInsertPoint(i, l.default), l.last) ELSE i
    OBVIOUS
  <2>5. Ready(e) /\ Keeps(i, e)
    <3>1. CASE e = i
      BY <2>2, <3>1 DEF Keeps, Ready, IrTyped
    <3>2. CASE e = CreateBr(SetInsertPoint(i, l.default), l.last)
      <4>1. PICK q : q = SetInsertPoint(i, l.default)
        OBVIOUS
      <4>2. Ready(q) /\ Keeps(i, q)
        <5>1. l.default \in 1 .. Len(i.blocks)
          BY <2>2, <2>3 DEF Goals, Ready, IrTyped
        <5>2. QED
          BY <2>2, <4>1, <5>1, PointIs
      <4>3. l.last \in Goals(q)
        BY <2>2, <2>3, <4>2, GoalsKept
      <4>4. Ready(e) /\ Keeps(q, e)
        BY <3>2, <4>1, <4>2, <4>3, BranchIs
      <4>5. QED
        BY <2>2, <4>2, <4>4, KeepsTwice DEF Ready
    <3>3. QED
      BY <2>4, <3>1, <3>2
  <2>6. Keeps(ir, e) /\ l.last \in 1 .. Len(e.blocks)
    BY <1>2, <2>2, <2>3, <2>5, KeepsTwice, GoalsKept DEF Ready
  <2>7. f = Place(e, l.last)
    BY <1>1, <1>4, <2>1, <2>4 DEF VisitSwitchEnd, Node1
  <2>8. Ready(f) /\ Keeps(e, f)
    BY <2>5, <2>6, <2>7, PlaceIs
  <2>9. Keeps(ir, f)
    BY <1>2, <2>5, <2>6, <2>8, KeepsTwice DEF Ready
  <2>10. QED
    BY <1>2, <2>8, <2>9, KeepsCarries
<1>6. PICK bs : bs = Erase(breakBBs, o)
  OBVIOUS
<1>7. PICK st : st = Front(switchStack)
  OBVIOUS
<1>8. \E gs, ss : Linked(gs, ss, nodes, pos + 1, f, Front(locals), st, bs, continueBBs)
  BY <1>1, <1>5, <1>6, <1>7, ClosesLinked
<1>9. QED
  BY <1>1, <1>2, <1>4, <1>5, <1>6, <1>7, <1>8 DEF Moved

\* The instruction at x has b as one more target in g, which is f otherwise.
OneTargetMore(f, x, b, g) ==
    \A c \in 1 .. Len(f.blocks) :
      /\ Len(g.blocks[c]) = Len(f.blocks[c])
      /\ \A k \in 1 .. Len(f.blocks[c]) :
           /\ g.blocks[c][k].term = f.blocks[c][k].term /\ g.blocks[c][k].at = f.blocks[c][k].at
           /\ g.blocks[c][k].to =
                IF c = x[1] /\ k = x[2] THEN Append(f.blocks[c][k].to, b) ELSE f.blocks[c][k].to

\* A case is added to a SwitchInst.
LEMMA AddCaseIs ==
  ASSUME NEW f, Ready(f), NEW x, IsSwitchInst(f, x), NEW b \in Goals(f), NEW g, g = AddCase(f, x, b)
  PROVE  /\ Ready(g) /\ Carries(f, g) /\ Len(g.blocks) = Len(f.blocks)
         /\ g.order = f.order /\ g.point = f.point
         /\ OneTargetMore(f, x, b, g)
<1> DEFINE p == x[1]
           k == x[2]
           L == Len(f.blocks)
           B == f.blocks[p]
           i == B[k]
           t == Append(i.to, b)
           j == [i EXCEPT !.to = t]
           C == [B EXCEPT ![k] = j]
           bs == [f.blocks EXCEPT ![p] = C]
<1>1. f \in [blocks : Seq(Seq(Instr)), order : Seq(Nat), point : Nat] /\ L \in Nat
  BY DEF Ready, IrTyped
<1>2. /\ p \in 1 .. L /\ k \in 1 .. Len(B) /\ i.to # <<>> /\ f.blocks \in Seq(Seq(Instr))
      /\ B \in Seq(Instr)
  BY <1>1 DEF IsSwitchInst, Inst
<1>3. i \in Instr /\ i.to \in Seq(Goals(f)) /\ b \in Nat \ {0} /\ i.to \in Seq(Nat \ {0})
  <2>1. i \in Instr
    BY <1>2
  <2>2. i.to \in Seq(Goals(f))
    BY SMTT(60), <1>2 DEF Ready, IrTyped
  <2>3. b \in Nat \ {0}
    BY <1>1 DEF Goals
  <2>4. QED
    BY <2>1, <2>2, <2>3 DEF Instr
<1>4. t \in Seq(Goals(f)) /\ t \in Seq(Nat \ {0}) /\ t # <<>>
  <2>1. PICK u : u = i.to
    OBVIOUS
  <2>2. PICK G : G = Goals(f)
    OBVIOUS
  <2>3. u \in Seq(G) /\ b \in G /\ u \in Seq(Nat \ {0}) /\ b \in Nat \ {0}
    BY <1>3, <2>1, <2>2
  <2>4. Append(u, b) \in Seq(G) /\ Append(u, b) # <<>>
    BY <2>3
  <2>5. Append(u, b) \in Seq(Nat \ {0})
    BY <2>3
  <2>6. QED
    BY <2>1, <2>2, <2>4, <2>5
<1> HIDE DEF t
<1>5. j \in Instr /\ j.to = t /\ j.term = i.term /\ j.at = i.at
  BY <1>3, <1>4 DEF Instr
<1> HIDE DEF j
<1>6. C \in Seq(Instr) /\ Len(C) = Len(B) /\ C[k] = j /\ \A m \in 1 .. Len(B) : m # k => C[m] = B[m]
  BY <1>2, <1>5
<1> HIDE DEF C
<1>7. bs \in Seq(Seq(Instr)) /\ Len(bs) = L /\ bs[p] = C /\ \A c \in 1 .. L : c # p => bs[c] = f.blocks[c]
  BY <1>2, <1>6
<1>8. g = [f EXCEPT !.blocks = bs]
  BY DEF AddCase, C, j, t
<1> HIDE DEF bs
<1>9. /\ g \in [blocks : Seq(Seq(Instr)), order : Seq(Nat), point : Nat]
      /\ g.blocks = bs /\ g.order = f.order /\ g.point = f.point
  BY <1>1, <1>7, <1>8
<1>10. Goals(g) = Goals(f)
  BY <1>7, <1>9 DEF Goals
<1>11. ASSUME NEW c \in 1 .. L
       PROVE  /\ Len(bs[c]) = Len(f.blocks[c])
              /\ \A m \in 1 .. Len(f.blocks[c]) :
                   /\ bs[c][m].term = f.blocks[c][m].term /\ bs[c][m].at = f.blocks[c][m].at
                   /\ bs[c][m].to = IF c = p /\ m = k THEN Append(f.blocks[c][m].to, b) ELSE f.blocks[c][m].to
  <2>1. CASE c # p
    BY <1>7, <2>1
  <2>2. CASE c = p
    <3>1. bs[c] = C /\ f.blocks[c] = B
      BY SMTT(60), <1>7, <2>2
    <3>2. ASSUME NEW m \in 1 .. Len(B)
          PROVE  /\ C[m].term = B[m].term /\ C[m].at = B[m].at
                 /\ C[m].to = IF m = k THEN Append(B[m].to, b) ELSE B[m].to
      BY <1>5, <1>6 DEF t
    <3>3. QED
      BY <1>6, <2>2, <3>1, <3>2
  <2>3. QED
    BY <2>1, <2>2
<1>12. ASSUME NEW c \in 1 .. L, NEW m \in 1 .. Len(bs[c]) PROVE bs[c][m].to \in Seq(Goals(g))
  <2>1. m \in 1 .. Len(f.blocks[c])
    BY <1>11
  <2>2. f.blocks[c][m].to \in Seq(Goals(f))
    BY <2>1 DEF Ready, IrTyped
  <2>3. bs[c][m].to = IF c = p /\ m = k THEN Append(f.blocks[c][m].to, b) ELSE f.blocks[c][m].to
    BY <1>11, <2>1
  <2>4. QED
    BY <1>10, <2>2, <2>3
<1>13. Ready(g)
  BY <1>1, <1>7, <1>9, <1>12 DEF Ready, IrTyped
<1>14. ASSUME NEW y, IsSwitchInst(f, y) PROVE IsSwitchInst(g, y)
  <2>1. /\ y \in Nat \X Nat /\ y[1] \in 1 .. L /\ y[2] \in 1 .. Len(f.blocks[y[1]])
        /\ f.blocks[y[1]][y[2]].to # <<>>
    BY <1>14 DEF IsSwitchInst, Inst
  <2>2. f.blocks[y[1]][y[2]].to \in Seq(Goals(f))
    BY <2>1 DEF Ready, IrTyped
  <2>3. /\ Len(bs[y[1]]) = Len(f.blocks[y[1]])
        /\ bs[y[1]][y[2]].to = IF y[1] = p /\ y[2] = k THEN Append(f.blocks[y[1]][y[2]].to, b)
                               ELSE f.blocks[y[1]][y[2]].to
    BY SMTT(60), <1>11, <2>1
  <2>4. bs[y[1]][y[2]].to # <<>>
    BY SMTT(60), <2>1, <2>2, <2>3
  <2>5. QED
    BY <1>7, <1>9, <2>1, <2>3, <2>4 DEF IsSwitchInst, Inst
<1>15. Carries(f, g)
  BY <1>10, <1>14 DEF Carries
<1>16. QED
  BY <1>7, <1>9, <1>11, <1>13, <1>15 DEF OneTargetMore

\* A label has a switch.
LEMMA LabelSwitch ==
  ASSUME VisitInv, Program(nodes), gen = "visiting", nodes[pos].kind \in Sections
  PROVE  switchStack # <<>> /\ IsSwitchInst(ir, Last(switchStack)) /\ SwitchInst = Inst(ir, Last(switchStack))
<1>1. PICK gs, ss : Linked(gs, ss, nodes, pos, ir, locals, switchStack, breakBBs, continueBBs)
  BY DEF VisitInv
<1>2. PICK i \in 1 .. pos - 1 : Encloses(nodes, i, pos, {"switch"})
  BY AtNode DEF FollowsAt
<1>3. ss \in Seq(Nat) /\ \E k \in 1 .. Len(ss) : ss[k] = i
  BY <1>1, <1>2 DEF Linked, Fits
<1>4. ss # <<>>
  BY <1>3
<1>5. switchStack # <<>> /\ IsSwitchInst(ir, Last(switchStack))
  BY <1>1, <1>3, <1>4, SwitchesPop DEF Linked
<1>6. QED
  BY <1>5 DEF SwitchInst, Inst

\* The visit of a case: its block is new and added to the innermost switch.
LEMMA CaseVisited ==
  ASSUME VisitInv, Program(nodes), VisitCaseStmt
  PROVE  Moved
<1> DEFINE b == LastBlock(ir) + 1
           x == Last(switchStack)
<1>1. /\ gen = "visiting" /\ gen' = gen /\ nodes' = nodes /\ defaults' = defaults /\ pos' = pos + 1
      /\ UNCHANGED <<locals, breakBBs, continueBBs, switchStack>> /\ nodes[pos].kind = "case"
      /\ ir' = Place(AddCase(NextSection(Create(ir, 1), b), x, b), b)
  BY DEF VisitCaseStmt, Visiting, Advance
<1>2. /\ pos \in Nat \ {0} /\ Ready(ir) /\ EndsAt(nodes, nodes[pos], pos) /\ pos + 1 \in 1 .. Len(nodes)
      /\ b = Len(ir.blocks) + 1
  BY <1>1, AtNode
<1>3. IsSwitchInst(ir, x)
  BY <1>1, LabelSwitch DEF Sections
<1>4. PICK c : c = Create(ir, 1)
  OBVIOUS
<1>5. 1 \in Nat /\ 1 \in 1 .. 1
  OBVIOUS
<1>6. Ready(c) /\ Keeps(c, c)
  <2>1. Ready(c)
    BY <1>2, <1>4, <1>5, CreateIs
  <2>2. QED
    BY <2>1 DEF Keeps, Ready, IrTyped
<1>7. b \in Goals(c) /\ Keeps(ir, c)
  BY <1>2, <1>4, <1>5, <1>6, CreatedGoals
<1>8. PICK e : e = NextSection(c, b)
  OBVIOUS
<1>9. Ready(e) /\ Keeps(c, e)
  <2>1. e = c \/ e = CreateBr(c, b)
    BY <1>8 DEF NextSection
  <2>2. CASE e = c
    BY <1>6, <2>2
  <2>3. CASE e = CreateBr(c, b)
    BY <1>6, <1>7, <2>3, BranchIs
  <2>4. QED
    BY <2>1, <2>2, <2>3
<1>10. Carries(ir, e) /\ b \in Goals(e)
  <2>1. Keeps(ir, e)
    BY <1>2, <1>6, <1>7, <1>9, KeepsTwice DEF Ready
  <2>2. QED
    BY <1>2, <1>6, <1>7, <1>9, <2>1, KeepsCarries, GoalsKept
<1>11. IsSwitchInst(e, x)
  BY <1>3, <1>10 DEF Carries
<1>12. PICK h : h = AddCase(e, x, b)
  OBVIOUS
<1>13. Ready(h) /\ Carries(e, h) /\ b \in 1 .. Len(h.blocks)
  <2>1. Ready(h) /\ Carries(e, h) /\ Len(h.blocks) = Len(e.blocks)
    BY <1>9, <1>10, <1>11, <1>12, AddCaseIs
  <2>2. QED
    BY <1>10, <2>1 DEF Goals
<1>14. PICK f : f = ir'
  OBVIOUS
<1>15. f = Place(h, b)
  BY <1>1, <1>4, <1>8, <1>12, <1>14
<1>16. Ready(f) /\ Carries(h, f)
  <2>1. Ready(f) /\ Keeps(h, f)
    BY <1>13, <1>15, PlaceIs
  <2>2. QED
    BY <1>13, <2>1, KeepsCarries
<1>17. Carries(ir, f)
  BY <1>10, <1>13, <1>16 DEF Carries
<1>18. SameAround(nodes, pos, pos + 1)
  BY <1>1, <1>2, PlainAround DEF Branched
<1>19. \E gs, ss : Linked(gs, ss, nodes, pos + 1, f, locals, switchStack, breakBBs, continueBBs)
  BY <1>1, <1>17, <1>18, StaysLinked
<1>20. QED
  BY <1>1, <1>2, <1>14, <1>16, <1>19 DEF Moved

\* The visit of a default: its block is the first target of the innermost switch.
LEMMA DefaultVisited ==
  ASSUME VisitInv, Program(nodes), VisitDefaultStmt
  PROVE  Moved \/ Crash
<1> SUFFICES ASSUME ~Crash PROVE Moved
  OBVIOUS
<1> DEFINE b == SwitchInst.to[1]
<1>1. /\ gen = "visiting" /\ gen' = gen /\ nodes' = nodes /\ defaults' = defaults /\ pos' = pos + 1
      /\ UNCHANGED <<locals, breakBBs, continueBBs, switchStack>> /\ nodes[pos].kind = "default"
      /\ ir' = Place(NextSection(ir, b), b)
  BY DEF VisitDefaultStmt, Visiting, Advance
<1>2. /\ pos \in Nat \ {0} /\ Ready(ir) /\ EndsAt(nodes, nodes[pos], pos) /\ pos + 1 \in 1 .. Len(nodes)
  BY <1>1, AtNode
<1>3. b \in Goals(ir)
  <2>1. PICK x : x = Last(switchStack)
    OBVIOUS
  <2>2. IsSwitchInst(ir, x) /\ SwitchInst = Inst(ir, x)
    BY <1>1, <2>1, LabelSwitch DEF Sections
  <2>3. Inst(ir, x).to \in Seq(Goals(ir)) /\ Inst(ir, x).to # <<>>
    BY <1>2, <2>2 DEF IsSwitchInst, Inst, Ready, IrTyped
  <2>4. PICK t : t = Inst(ir, x).to
    OBVIOUS
  <2>5. t[1] \in Goals(ir)
    BY <2>3, <2>4
  <2>6. QED
    BY <2>2, <2>4, <2>5
<1>4. PICK e : e = NextSection(ir, b)
  OBVIOUS
<1>5. Ready(e) /\ Keeps(ir, e)
  <2>1. e = ir \/ e = CreateBr(ir, b)
    BY <1>4 DEF NextSection
  <2>2. CASE e = ir
    BY <1>2, <2>2 DEF Keeps, Ready, IrTyped
  <2>3. CASE e = CreateBr(ir, b)
    BY <1>2, <1>3, <2>3, BranchIs
  <2>4. QED
    BY <2>1, <2>2, <2>3
<1>6. PICK f : f = ir'
  OBVIOUS
<1>7. f = Place(e, b)
  BY <1>1, <1>4, <1>6
<1>8. Ready(f) /\ Carries(ir, f)
  <2>1. b \in 1 .. Len(e.blocks)
    BY <1>2, <1>3, <1>5, GoalsKept
  <2>2. Ready(f) /\ Keeps(e, f)
    BY <1>5, <1>7, <2>1, PlaceIs
  <2>3. Keeps(ir, f)
    BY <1>2, <1>5, <2>2, KeepsTwice DEF Ready
  <2>4. QED
    BY <1>2, <2>2, <2>3, KeepsCarries
<1>9. SameAround(nodes, pos, pos + 1)
  BY <1>1, <1>2, PlainAround DEF Branched
<1>10. \E gs, ss : Linked(gs, ss, nodes, pos + 1, f, locals, switchStack, breakBBs, continueBBs)
  BY <1>1, <1>8, <1>9, StaysLinked
<1>11. QED
  BY <1>1, <1>2, <1>6, <1>8, <1>10 DEF Moved

\* The function's end: its last instruction.
LEMMA FuncEndVisited ==
  ASSUME VisitInv, Program(nodes), VisitFuncEnd, UNCHANGED parserVars
  PROVE  VisitInv'
<1>1. /\ gen = "visiting" /\ gen' = "done" /\ UNCHANGED <<nodes, defaults, pos, breakBBs, continueBBs>>
      /\ ir' = ir \/ ir' = Emit(ir, Term(pos, <<>>))
  BY DEF VisitFuncEnd, Visiting
<1>2. Ready(ir) /\ pos \in Nat
  BY <1>1, AtNode
<1>3. IrTyped(ir')
  <2>1. ASSUME NEW f, f = Emit(ir, Term(pos, <<>>)) PROVE IrTyped(f)
    <3>1. PICK t : t = Term(pos, <<>>)
      OBVIOUS
    <3>2. Fit(ir, t)
      BY <1>2, <3>1, InstrType
    <3>3. Ready(Emit(ir, t))
      BY <1>2, <3>2, EmitIs
    <3>4. QED
      BY <2>1, <3>1, <3>3 DEF Ready
  <2>2. QED
    BY <1>1, <1>2, <2>1 DEF Ready
<1>4. outcome' = "parsed" /\ nodes' = ast' /\ defaults' = defaultStmts'
  BY <1>1 DEF VisitInv, parserVars
<1>5. /\ gen' = "done" /\ nodes' \in Seq(Node) /\ defaults' \subseteq Nat /\ pos' \in Nat
      /\ DOMAIN breakBBs' \subseteq Nat /\ DOMAIN continueBBs' \subseteq Nat
  BY <1>1 DEF VisitInv
<1>6. QED
  BY <1>3, <1>4, <1>5 DEF VisitInv

\* A crash.
LEMMA CrashVisited ==
  ASSUME VisitInv, gen = "visiting", Crash, UNCHANGED parserVars
  PROVE  VisitInv'
<1>1. gen' = "crashed" /\ UNCHANGED <<nodes, defaults, pos, ir, breakBBs, continueBBs, ast, defaultStmts, outcome>>
  BY DEF Crash, parserVars
<1>2. outcome = "parsed" /\ nodes = ast /\ defaults = defaultStmts
  BY DEF VisitInv
<1>3. IrTyped(ir)' /\ outcome' = "parsed" /\ nodes' = ast' /\ defaults' = defaultStmts'
  BY <1>1, <1>2 DEF VisitInv, IrTyped, Goals
<1>4. /\ gen' = "crashed" /\ nodes' \in Seq(Node) /\ defaults' \subseteq Nat /\ pos' \in Nat
      /\ DOMAIN breakBBs' \subseteq Nat /\ DOMAIN continueBBs' \subseteq Nat
  BY <1>1 DEF VisitInv
<1>5. QED
  BY <1>3, <1>4 DEF VisitInv

\* CodeGen begins at the entry block.
LEMMA EntryIs ==
  ASSUME NEW f, f = Place(Create([blocks |-> <<>>, order |-> <<>>, point |-> 0], 1), 1)
  PROVE  Ready(f) /\ f.blocks = << <<>> >> /\ f.order = <<1>> /\ f.point = 1
<1>1. PICK e : e = <<>>
  OBVIOUS
<1>2. [i \in 1 .. 1 |-> e] = <<e>>
  OBVIOUS
<1>3. <<>> \o <<e>> = <<e>>
  OBVIOUS
<1>4. Create([blocks |-> <<>>, order |-> <<>>, point |-> 0], 1) = [blocks |-> <<e>>, order |-> <<>>, point |-> 0]
  BY <1>1, <1>2, <1>3 DEF Create
<1>5. f = [blocks |-> <<e>>, order |-> <<1>>, point |-> 1]
  <2>1. PICK B : B = <<e>>
    OBVIOUS
  <2>2. PICK r : r = [blocks |-> B, order |-> <<>>, point |-> 0]
    OBVIOUS
  <2>3. f = Place(r, 1) /\ Append(r.order, 1) = <<1>>
    BY <1>4, <2>1, <2>2
  <2>4. f = [r EXCEPT !.order = <<1>>, !.point = 1]
    BY <2>3 DEF Place
  <2>5. QED
    BY <2>1, <2>2, <2>4
<1>6. f.blocks = <<e>> /\ f.order = <<1>> /\ f.point = 1
  BY <1>5
<1>7. <<e>> \in Seq(Seq(Instr)) /\ Len(<<e>>) = 1 /\ \A b \in 1 .. 1 : <<e>>[b] = e
  BY <1>1
<1>8. \A b \in 1 .. 1 : \A k \in 1 .. Len(<<e>>[b]) : k \in 1 .. 0
  BY <1>1, <1>7
<1>9. <<1>> \in Seq(1 .. 1) /\ <<1>> \in Seq(Nat)
  OBVIOUS
<1>10. IrTyped(f)
  <2>1. PICK B : B = <<e>>
    OBVIOUS
  <2>2. B \in Seq(Seq(Instr)) /\ Len(B) = 1 /\ \A b \in 1 .. Len(B) : \A k \in 1 .. Len(B[b]) : k \in 1 .. 0
    BY <1>7, <1>8, <2>1
  <2>3. PICK o : o = <<1>>
    OBVIOUS
  <2>4. o \in Seq(1 .. 1) /\ o \in Seq(Nat)
    BY <1>9, <2>3
  <2>5. f = [blocks |-> B, order |-> o, point |-> 1] /\ f.blocks = B /\ f.order = o /\ f.point = 1
    BY <1>5, <2>1, <2>3
  <2>6. f \in [blocks : Seq(Seq(Instr)), order : Seq(Nat), point : Nat]
    BY <2>2, <2>4, <2>5
  <2>7. f.order \in Seq(1 .. Len(f.blocks)) /\ f.point \in 0 .. Len(f.blocks)
    <3>0. Len(f.blocks) = 1 /\ f.point = 1
      BY <2>2, <2>5, Zenon
    <3>1. 1 .. Len(f.blocks) = 1 .. 1 /\ 1 \in 0 .. 1 /\ 0 .. Len(f.blocks) = 0 .. 1
      <4>1. 1 \in 0 .. 1
        OBVIOUS
      <4>2. QED
        BY <3>0, <4>1, Zenon
    <3>2. o \in Seq(1 .. Len(f.blocks))
      BY <2>4, <3>1, Zenon
    <3>3. f.order \in Seq(1 .. Len(f.blocks))
      BY <2>5, <3>2, Zenon
    <3>4. QED
      BY <3>0, <3>1, <3>3, Zenon
  <2>8. \A b \in 1 .. Len(f.blocks) : \A k \in 1 .. Len(f.blocks[b]) : f.blocks[b][k].to \in Seq(Goals(f))
    BY <2>2, <2>5
  <2>9. QED
    BY <2>6, <2>7, <2>8 DEF IrTyped
<1>11. QED
  BY <1>1, <1>6, <1>10 DEF Ready

\* CodeGen begins.
LEMMA StartVisited ==
  ASSUME VisitInv, Program(ast), outcome = "parsed", StartFunction(ast, defaultStmts), defaultStmts \subseteq Nat,
         UNCHANGED parserVars
  PROVE  VisitInv'
<1>1. FlowInit /\ gen = "idle"
  BY DEF VisitInv, StartFunction
<1>2. /\ gen' = "visiting" /\ nodes' = ast /\ defaults' = defaultStmts /\ pos' = 1
      /\ ir' = Place(Create(ir, 1), 1)
      /\ locals' = <<>> /\ breakBBs' = <<>> /\ continueBBs' = <<>> /\ switchStack' = <<>>
  BY <1>1 DEF StartFunction, FlowInit
<1>3. PICK f : f = ir'
  OBVIOUS
<1>4. Ready(f)
  BY <1>1, <1>2, <1>3, EntryIs DEF FlowInit
<1>5. \A kinds, i : ~Encloses(ast, i, 1, kinds)
  BY DEF Encloses
<1>6. PICK e : e = <<>>
  OBVIOUS
<1>7. e \in Seq(Nat) /\ Len(e) = 0 /\ e \in Seq(Local) /\ e \in Seq(Nat \X Nat) /\ DOMAIN e = {}
      /\ \A k : k \notin 1 .. 0
  BY <1>6
<1>8. \A kinds : Fits(e, ast, 1, kinds) /\ JumpsTo(e, ast, 1, kinds, f)
  BY <1>5, <1>7 DEF Fits, JumpsTo
<1>9. LocalsFit(e, ast, f, e) /\ SwitchesFit(e, f, e)
  BY <1>7 DEF LocalsFit, SwitchesFit
<1>10. Linked(e, e, ast, 1, f, e, e, e, e)
  BY <1>8, <1>9 DEF Linked
<1>11. Ready(ir') /\ \E gs, ss : Linked(gs, ss, nodes', pos', ir', locals', switchStack', breakBBs', continueBBs')
  BY <1>2, <1>3, <1>4, <1>6, <1>10
<1>12. ast \in Seq(Node) /\ 1 \in 1 .. Len(ast)
  <2>1. ast \in Seq(Node) /\ Len(ast) \in Nat /\ ast # <<>>
    BY DEF Program, Nested, OpenOK
  <2>2. QED
    BY <2>1
<1>13. outcome' = "parsed" /\ nodes' = ast' /\ defaults' = defaultStmts'
  BY <1>2 DEF parserVars
<1>14. DOMAIN breakBBs' \subseteq Nat /\ DOMAIN continueBBs' \subseteq Nat
  BY <1>2, <1>6, <1>7
<1>15. nodes' \in Seq(Node) /\ defaults' \subseteq Nat /\ pos' \in 1 .. Len(nodes') /\ pos' \in Nat /\ IrTyped(ir')
  BY <1>2, <1>11, <1>12 DEF Ready
<1>16. QED
  BY <1>2, <1>11, <1>13, <1>14, <1>15 DEF VisitInv

\* It has not begun at first.
LEMMA Init_VisitInv ==
  ASSUME Init
  PROVE  VisitInv
<1>1. FlowInit
  BY DEF Init
<1>2. IrTyped(ir)
  <2>1. PICK e : e = <<>>
    OBVIOUS
  <2>2. ir = [blocks |-> e, order |-> e, point |-> 0] /\ Len(e) = 0 /\ e \in Seq(Nat) /\ e \in Seq(1 .. 0)
        /\ e \in Seq(Seq(Instr))
    BY <1>1, <2>1 DEF FlowInit
  <2>3. ir.blocks = e /\ ir.order = e /\ ir.point = 0 /\ \A b : b \notin 1 .. 0
    BY <2>2
  <2>4. QED
    BY <2>2, <2>3 DEF IrTyped
<1>3. nodes \in Seq(Node) /\ defaults \subseteq Nat /\ pos \in Nat
      /\ DOMAIN breakBBs \subseteq Nat /\ DOMAIN continueBBs \subseteq Nat /\ gen = "idle"
  BY <1>1 DEF FlowInit
<1>4. QED
  BY <1>1, <1>2, <1>3 DEF VisitInv

\* CodeGen does not begin before the parser has ended, which then stands still.
LEMMA Next_VisitInv ==
  ASSUME VisitInv, NestInv, FollowInv, [Next]_vars
  PROVE  VisitInv'
<1>1. ASSUME UNCHANGED flowVars, UNCHANGED parserVars PROVE VisitInv'
  <2>1. FlowInit => FlowInit'
    BY <1>1 DEF FlowInit, flowVars
  <2>2. QED
    BY <1>1, <2>1 DEF VisitInv, flowVars, parserVars, IrTyped, Goals, Ready
<1>2. CASE Parse
  <2>1. outcome = "parsing" /\ gen = "idle"
    <3>1. ParserNext
      BY <1>2 DEF Parse
    <3>2. ASSUME NEW b \in Branching, NEW cond \in BOOLEAN,
                 \/ ExprStmt(b) \/ IfStmt(b) \/ EndDoWhile(b) \/ ForStmt(cond, b) \/ WhileStmt(cond, b)
          PROVE  outcome = "parsing"
      BY <3>2 DEF ExprStmt, IfStmt, EndDoWhile, ForStmt, WhileStmt, Simple, EnterLoop, AtStmt, InFrame
    <3>3. ASSUME \/ ReturnStmt \/ BreakStmt \/ ContinueStmt \/ NullStmt \/ OpenBlock \/ CloseBlock \/ Else
                 \/ EndIf \/ EndFor \/ DoWhileStmt \/ SwitchStmt \/ EndSwitch \/ CaseStmt \/ DefaultStmt
                 \/ EndCase \/ EndDefault \/ EndFunction
          PROVE  outcome = "parsing"
      BY <3>3 DEF ReturnStmt, BreakStmt, ContinueStmt, NullStmt, OpenBlock, CloseBlock, Else, EndIf, EndFor,
                  DoWhileStmt, SwitchStmt, EndSwitch, CaseStmt, DefaultStmt, EndCase, EndDefault, EndFunction,
                  Simple, EnterLoop, AtLabel, AtStmt, InFrame
    <3>4. outcome = "parsing"
      BY <3>1, <3>2, <3>3 DEF ParserNext, Branching
    <3>5. QED
      BY <3>4 DEF VisitInv
  <2>2. FlowInit' /\ gen' = "idle"
    BY <1>2, <2>1 DEF Parse, flowVars, VisitInv, FlowInit
  <2>3. IrTyped(ir') /\ UNCHANGED flowVars
    BY <1>2 DEF Parse, flowVars, VisitInv
  <2>4. QED
    BY <2>2, <2>3 DEF VisitInv, flowVars
<1>3. CASE Translate
  <2>1. outcome = "parsed" /\ StartFunction(ast, defaultStmts) /\ UNCHANGED parserVars
    BY <1>3 DEF Translate
  <2>2. Program(ast) /\ defaultStmts \subseteq Nat
    BY <2>1, ParsedProgram DEF NestInv
  <2>3. QED
    BY <2>1, <2>2, StartVisited
<1>4. CASE Visit
  <2>1. UNCHANGED parserVars /\ gen = "visiting" /\ VisitNext
    BY <1>4 DEF Visit, VisitNext, VisitExpr, VisitBlock, VisitReturnStmt, VisitBreakStmt,
                VisitContinueStmt, VisitIfStmt, VisitElse, VisitIfEnd, VisitForStmt, VisitForEnd,
                VisitDoWhileStmt, VisitDoWhileEnd, VisitSwitchStmt, VisitSwitchEnd, VisitCaseStmt,
                VisitDefaultStmt, VisitFuncEnd, Visiting
  <2>2. Program(nodes)
    BY <2>1, ParsedProgram DEF VisitInv
  <2>3. ASSUME Moved \/ Crash PROVE VisitInv'
    BY <2>1, <2>3, MovedVisit, CrashVisited
  <2>4. CASE VisitFuncEnd
    BY <2>1, <2>2, <2>4, FuncEndVisited
  <2>5. CASE VisitExpr \/ VisitBlock \/ VisitReturnStmt \/ VisitBreakStmt \/ VisitContinueStmt
    BY <2>2, <2>3, <2>5, PlainVisited, JumpVisited
  <2>6. CASE VisitIfStmt \/ VisitElse \/ VisitIfEnd
    BY <2>2, <2>3, <2>6, IfVisited, ElseVisited, IfEndVisited
  <2>7. CASE VisitForStmt \/ VisitForEnd \/ VisitDoWhileStmt \/ VisitDoWhileEnd
    BY <2>2, <2>3, <2>7, ForVisited, ForEndVisited, DoVisited, DoEndVisited
  <2>8. CASE VisitSwitchStmt \/ VisitSwitchEnd \/ VisitCaseStmt \/ VisitDefaultStmt
    BY <2>2, <2>3, <2>8, SwitchVisited, SwitchEndVisited, CaseVisited, DefaultVisited
  <2>9. QED
    BY SMTT(60), <2>1, <2>4, <2>5, <2>6, <2>7, <2>8 DEF VisitNext
<1>5. CASE UNCHANGED vars
  BY <1>1, <1>5 DEF vars
<1>6. QED
  BY <1>2, <1>3, <1>4, <1>5 DEF Next, Terminated

\* The invariants hold in every state.
LEMMA VisitInvHolds == Spec => [](NestInv /\ FollowInv /\ VisitInv)
<1>1. Init => NestInv /\ FollowInv /\ VisitInv
  BY Init_NestInv, Init_FollowInv, Init_VisitInv DEF Init
<1>2. NestInv /\ FollowInv /\ VisitInv /\ [Next]_vars => (NestInv /\ FollowInv /\ VisitInv)'
  BY Next_NestInv, Next_FollowInv, Next_VisitInv
<1>3. QED
  BY <1>1, <1>2, PTL DEF Spec

\* Every variable of the parser and of CodeGen has its type.  In particular the
\* map that a break or a continue looks its block up in has the block
\* (codegen.cc's breakBBs and continueBBs), a switch has its instruction on the
\* stack when a label or its end asks for it, and no branch is to a null block
\* or to the function's entry.
THEOREM FlowTypeCorrect == Spec => []TypeOK
<1>1. NestInv /\ FollowInv /\ VisitInv /\ translated \in BOOLEAN => TypeOK
  <2> SUFFICES ASSUME NestInv, VisitInv, translated \in BOOLEAN PROVE TypeOK
    OBVIOUS
  <2>1. /\ open \in Seq(Frame) /\ ast \in Seq(Node)
        /\ breakNodes \in Seq(Nat) /\ continueNodes \in Seq(Nat) /\ switchNodes \in Seq(Nat)
    BY DEF NestInv, Nested, OpenOK, Tracks
  <2>2. DOMAIN ir.blocks = 1 .. Len(ir.blocks) /\ ir.blocks \in Seq(Seq(Instr))
        /\ ir.order \in Seq(1 .. Len(ir.blocks)) /\ ir.point \in 0 .. Len(ir.blocks)
    BY DEF VisitInv, IrTyped
  <2>3. QED
    BY <2>1, <2>2 DEF TypeOK, NestInv, VisitInv
<1>2. Init => translated \in BOOLEAN
  BY DEF Init
<1>3. translated \in BOOLEAN /\ [Next]_vars => (translated \in BOOLEAN)'
  BY DEF Next, Parse, Translate, Visit, Terminated, vars
<1>4. Spec => [](translated \in BOOLEAN)
  BY <1>2, <1>3, PTL DEF Spec
<1>5. QED
  BY <1>1, <1>4, VisitInvHolds, PTL

=============================================================================
