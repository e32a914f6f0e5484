-------------------------- MODULE WellFormedProofs --------------------------
(***************************************************************************)
(* Proof that CodeGen's basic blocks are well-formed, for every program    *)
(* that has none of the shapes whose translation is known to be wrong.     *)
(* The invariant, WellInv, says when the builder's block has its           *)
(* terminator, which of the created blocks wait to be inserted and for     *)
(* which statement, and where the sections of a switch fall through to.    *)
(***************************************************************************)
EXTENDS FlowProofs

-----------------------------------------------------------------------------
(* Programs without the shapes. *)

\* The shapes that CodeGen compiles to something else than C says.
WrongShapes == {"nestedJump", "beforeLabel", "nestedLabel", "caseFalls", "defaultFalls"}

\* The nodes of a function that has none of them.
Sound(a) == Program(a) /\ \A shape \in WrongShapes : ~Has(a, shape)

\* What that says of a node that is visited.
LEMMA SoundNode ==
  ASSUME NEW a, Sound(a), NEW i \in Live(a)
  PROVE  /\ a[i].kind \in Jumps =>
              a[Follower(a, i)].kind \in Closers \cup Sections \cup {"else", "endfunc"}
         /\ a[i].kind = "switch" =>
              \/ a[i + 1].kind \in Sections
              \/ a[i + 1].kind = "block" /\ a[i + 2].kind \in Sections \cup {"endblock"}
         /\ a[i].kind = "switch" => \A j \in Labels(a, i, Sections) : DirectlyInSwitch(a, j)
         /\ a[i].kind = "case" => LeftByJump(a, i) \/ (BeforeLabel(a, i) /\ Straight(a, i))
         /\ a[i].kind = "default" => LeftByJump(a, i) \/ (~BeforeLabel(a, i) /\ Straight(a, i))
<1>1. \A shape \in WrongShapes : ~Makes(a, i, shape)
  BY DEF Sound, Has
<1>2. ~Makes(a, i, "nestedJump") /\ ~Makes(a, i, "beforeLabel") /\ ~Makes(a, i, "nestedLabel")
      /\ ~Makes(a, i, "caseFalls") /\ ~Makes(a, i, "defaultFalls")
  BY <1>1 DEF WrongShapes
<1>3. a[i].kind \in Jumps =>
        a[Follower(a, i)].kind \in Closers \cup Sections \cup {"else", "endfunc"}
  BY <1>2 DEF Makes
<1>4. a[i].kind = "switch" =>
        \/ a[i + 1].kind \in Sections
        \/ a[i + 1].kind = "block" /\ a[i + 2].kind \in Sections \cup {"endblock"}
  BY <1>2 DEF Makes
<1>5. a[i].kind = "switch" => \A j \in Labels(a, i, Sections) : DirectlyInSwitch(a, j)
  BY <1>2 DEF Makes
<1>6. a[i].kind = "case" => LeftByJump(a, i) \/ (BeforeLabel(a, i) /\ Straight(a, i))
  BY <1>2 DEF Makes
<1>7. a[i].kind = "default" => LeftByJump(a, i) \/ (~BeforeLabel(a, i) /\ Straight(a, i))
  BY <1>2 DEF Makes
<1>8. QED
  BY <1>3, <1>4, <1>5, <1>6, <1>7

\* What is known of a position of a program.
LEMMA Position ==
  ASSUME NEW a, Program(a), NEW p \in 1 .. Len(a)
  PROVE  /\ a \in Seq(Node) /\ Len(a) \in Nat /\ DOMAIN a = 1 .. Len(a) /\ p \in Nat \ {0}
         /\ a[p] \in Node /\ EndsAt(a, a[p], p) /\ FollowsAt(a, a[p], p)
         /\ EndsOK(a, p) /\ EndsOK(a, p + 1) /\ ~EndedBefore(a, p, p)
         /\ a[p].kind # "endfunc" => p + 1 \in 1 .. Len(a)
<1>1. /\ a \in Seq(Node) /\ Len(a) \in Nat /\ DOMAIN a = 1 .. Len(a) /\ p \in Nat \ {0}
      /\ a[p] \in Node /\ EndsAt(a, a[p], p) /\ FollowsAt(a, a[p], p)
      /\ a[p].kind # "endfunc" => p + 1 \in 1 .. Len(a)
  BY ProgramNode
<1>2. EndsOK(a, p)
  BY <1>1, ProgramEnds
<1>3. EndsOK(a, p + 1)
  BY <1>1, ProgramEnds
<1>4. ~EndedBefore(a, p, p)
  BY <1>1, <1>2, NotYetEnded
<1>5. QED
  BY <1>1, <1>2, <1>3, <1>4

-----------------------------------------------------------------------------
(* The nodes that are visited. *)

\* Where the visit goes on after a jump, and what comes between that and the
\* next node that CodeGen emits something for.
LEMMA FollowerIs ==
  ASSUME NEW a, Program(a), NEW j \in 1 .. Len(a), a[j].kind \in Jumps
  PROVE  /\ Skip(a, j) = Min(SkipSet(a, j))
         /\ Skip(a, j) \in j + 1 .. Len(a) /\ a[Skip(a, j)].opener \in 1 .. j - 1
         /\ a[Skip(a, j)].kind \in Closers \cup {"else"}
         /\ \A k \in j + 1 .. Skip(a, j) - 1 : a[k].opener \notin 1 .. j - 1
         /\ Follower(a, j) \in Skip(a, j) .. Len(a)
         /\ a[Follower(a, j)].kind \notin {"endblock", "endcase", "enddefault"}
         /\ \A k \in Skip(a, j) .. Follower(a, j) - 1 :
              a[k].kind \in {"endblock", "endcase", "enddefault"}
<1> DEFINE t == Skip(a, j)
           S == {k \in DOMAIN a : k >= Skip(a, j)
                                  /\ a[k].kind \notin {"endblock", "endcase", "enddefault"}}
<1>1. /\ a \in Seq(Node) /\ Len(a) \in Nat /\ DOMAIN a = 1 .. Len(a)
      /\ Len(a) \in 1 .. Len(a) /\ a[Len(a)].kind = "endfunc"
  <2>1. /\ a \in Seq(Node) /\ Len(a) \in Nat /\ DOMAIN a = 1 .. Len(a)
    BY Position
  <2>2. Last(a).kind = "endfunc"
    BY DEF Program
  <2>3. QED
    BY <2>1, <2>2 DEF Last
<1>2. t = Min(SkipSet(a, j))
  BY DEF Skip, SkipSet
<1>3. /\ t \in j + 1 .. Len(a) /\ a[t].opener \in 1 .. j - 1
      /\ a[t].kind \in Closers \cup {"else"}
      /\ \A k \in j + 1 .. t - 1 : a[k].opener \notin 1 .. j - 1
  BY <1>2, SkipIs
<1> HIDE DEF t
<1>4. Len(a) \in S /\ S \subseteq Nat
  BY <1>1, <1>3 DEF t
<1>5. Follower(a, j) \in S /\ \A k \in S : Follower(a, j) <= k
  <2>1. \E x \in S : \A k \in S : x <= k
    BY <1>4, NatMinimum
  <2>2. Follower(a, j) = Min(S)
    BY DEF Follower
  <2>3. QED
    BY <2>1, <2>2 DEF Min
<1>6. /\ Follower(a, j) \in t .. Len(a)
      /\ a[Follower(a, j)].kind \notin {"endblock", "endcase", "enddefault"}
  BY <1>1, <1>3, <1>5 DEF t
<1>7. ASSUME NEW k \in t .. Follower(a, j) - 1
      PROVE  a[k].kind \in {"endblock", "endcase", "enddefault"}
  <2>1. k \in 1 .. Len(a) /\ k >= t /\ ~(Follower(a, j) <= k)
    BY <1>1, <1>3, <1>6, <1>7
  <2>2. QED
    BY <1>1, <1>5, <2>1 DEF t
<1>8. QED
  BY <1>2, <1>3, <1>6, <1>7 DEF t

\* A node is visited unless a jump before it skips it.
LEMMA LiveIs ==
  ASSUME NEW a, Program(a), NEW i
  PROVE  i \in Live(a) <=> /\ i \in 1 .. Len(a)
                           /\ \A j \in 1 .. i - 1 : a[j].kind \in Jumps => Skip(a, j) <= i
<1>1. a \in Seq(Node) /\ Len(a) \in Nat /\ DOMAIN a = 1 .. Len(a)
  BY DEF Program, Nested, OpenOK
<1>2. ASSUME NEW j \in 1 .. i - 1, i \in 1 .. Len(a), a[j].kind \in Jumps
      PROVE  Skip(a, j) \in Nat
  <2>1. j \in 1 .. Len(a)
    BY <1>1, <1>2
  <2>2. Skip(a, j) \in j + 1 .. Len(a)
    BY <1>2, <2>1, FollowerIs
  <2>3. QED
    BY <1>1, <2>2
<1>3. QED
  BY <1>1, <1>2 DEF Live

\* The node after one that is no jump.
LEMMA LiveNext ==
  ASSUME NEW a, Program(a), NEW p \in Live(a), a[p].kind \notin Jumps, p + 1 \in 1 .. Len(a)
  PROVE  p + 1 \in Live(a)
<1>1. /\ p \in 1 .. Len(a) /\ Len(a) \in Nat
      /\ \A j \in 1 .. p - 1 : a[j].kind \in Jumps => Skip(a, j) <= p
  BY LiveIs DEF Program, Nested, OpenOK
<1>2. ASSUME NEW j \in 1 .. (p + 1) - 1, a[j].kind \in Jumps PROVE Skip(a, j) <= p + 1
  <2>1. j \in 1 .. p - 1
    BY <1>1, <1>2
  <2>2. Skip(a, j) \in j + 1 .. Len(a)
    BY <1>1, <1>2, FollowerIs
  <2>3. QED
    BY <1>1, <1>2, <2>1, <2>2
<1>3. QED
  BY <1>2, LiveIs

\* The node at which the visit goes on after a jump.
LEMMA LiveSkip ==
  ASSUME NEW a, Program(a), NEW p \in Live(a), a[p].kind \in Jumps
  PROVE  Skip(a, p) \in Live(a) /\ \A k \in p + 1 .. Skip(a, p) - 1 : k \notin Live(a)
<1> DEFINE t == Skip(a, p)
<1>1. /\ p \in 1 .. Len(a) /\ Len(a) \in Nat
      /\ \A j \in 1 .. p - 1 : a[j].kind \in Jumps => Skip(a, j) <= p
  BY LiveIs DEF Program, Nested, OpenOK
<1>2. t \in p + 1 .. Len(a) /\ a[t].opener \in 1 .. p - 1
  BY <1>1, FollowerIs
<1>3. ASSUME NEW j \in 1 .. t - 1, a[j].kind \in Jumps PROVE Skip(a, j) <= t
  <2>1. j \in 1 .. Len(a)
    BY <1>1, <1>2
  <2>2. /\ Skip(a, j) \in j + 1 .. Len(a)
        /\ \A k \in j + 1 .. Skip(a, j) - 1 : a[k].opener \notin 1 .. j - 1
    BY <1>3, <2>1, FollowerIs
  <2>3. CASE j < p
    BY <1>1, <1>2, <1>3, <2>2, <2>3
  <2>4. CASE j = p
    BY <1>1, <1>2, <2>4
  <2>5. CASE j > p
    <3>1. t \in j + 1 .. Len(a) /\ a[t].opener \in 1 .. j - 1
      BY <1>1, <1>2, <1>3, <2>5
    <3>2. ~(t \in j + 1 .. Skip(a, j) - 1)
      BY <2>2, <3>1
    <3>3. QED
      BY <1>2, <2>2, <3>1, <3>2
  <2>6. QED
    BY <1>1, <2>1, <2>3, <2>4, <2>5
<1>4. t \in Live(a)
  BY <1>1, <1>2, <1>3, LiveIs
<1>5. ASSUME NEW k \in p + 1 .. t - 1 PROVE k \notin Live(a)
  <2>1. p \in 1 .. k - 1 /\ ~(t <= k)
    BY <1>1, <1>2, <1>5
  <2>2. QED
    BY <2>1, LiveIs
<1>6. QED
  BY <1>4, <1>5

\* What is around a node that is visited is visited too.
LEMMA LiveAround ==
  ASSUME NEW a, Program(a), NEW p \in Live(a), NEW i, Encloses(a, i, p, Openers)
  PROVE  i \in Live(a)
<1>1. /\ p \in 1 .. Len(a) /\ Len(a) \in Nat
      /\ \A j \in 1 .. p - 1 : a[j].kind \in Jumps => Skip(a, j) <= p
  BY LiveIs DEF Program, Nested, OpenOK
<1>2. i \in 1 .. p - 1 /\ a[i].kind \in Openers /\ ~EndedBefore(a, i, p)
  BY DEF Encloses
<1>3. ASSUME NEW j \in 1 .. i - 1, a[j].kind \in Jumps, ~(Skip(a, j) <= i) PROVE FALSE
  <2> DEFINE t == Skip(a, j)
  <2>1. j \in 1 .. Len(a) /\ j \in 1 .. p - 1
    BY <1>1, <1>2, <1>3
  <2>2. t \in j + 1 .. Len(a) /\ a[t].opener \in 1 .. j - 1 /\ a[t].kind \in Closers \cup {"else"}
    BY <1>3, <2>1, FollowerIs
  <2>3. t <= p
    BY <1>1, <1>3, <2>1
  <2> HIDE DEF t
  <2>4. t \in 1 .. Len(a) /\ i < t
    BY <1>1, <1>2, <1>3, <2>2 DEF t
  <2>5. \A h \in a[t].opener + 1 .. t - 1 : a[h].kind \in Openers => EndedBefore(a, h, t)
    <3>1. EndsAt(a, a[t], t)
      BY <2>4, ProgramNode
    <3>2. QED
      BY <2>2, <3>1 DEF EndsAt
  <2>6. i \in a[t].opener + 1 .. t - 1
    BY <1>2, <1>3, <2>1, <2>2, <2>4
  <2>7. EndedBefore(a, i, t)
    BY <1>2, <2>5, <2>6
  <2>8. \A c \in 1 .. t - 1 : c \in 1 .. p - 1
    BY <1>1, <2>3, <2>4
  <2>9. QED
    BY <1>2, <2>7, <2>8 DEF EndedBefore
<1>4. i \in 1 .. Len(a)
  BY <1>1, <1>2
<1>5. \A j \in 1 .. i - 1 : a[j].kind \in Jumps => Skip(a, j) <= i
  BY <1>3
<1>6. QED
  BY <1>4, <1>5, LiveIs

-----------------------------------------------------------------------------
(* Where the builder's block has its terminator. *)

\* Position p comes after a jump, with nothing but ends of blocks between.
AfterJump(a, p) ==
    \E j \in 1 .. p - 1 : j \in Live(a) /\ a[j].kind \in Jumps /\ p <= Follower(a, j)

\* Position p is in a switch, before its first label; or after the block of
\* a switch that has no label.
AfterSwitch(a, p) ==
    \E s \in 1 .. p - 1 : /\ s \in Live(a) /\ a[s].kind = "switch"
                          /\ \A k \in s + 1 .. p - 1 : a[k].kind \in {"block", "endblock"}

\* The builder's block has its terminator when the visit is at position p.
Closed(a, p) == AfterJump(a, p) \/ AfterSwitch(a, p)

\* The ends that CodeGen emits nothing for.
SilentEnds == {"endblock", "endcase", "enddefault"}

\* How far a jump that is visited reaches.
LEMMA JumpReach ==
  ASSUME NEW a, Sound(a), NEW p \in Live(a), NEW j \in 1 .. p - 1, j \in Live(a), a[j].kind \in Jumps
  PROVE  /\ Skip(a, j) <= p /\ Skip(a, j) \in Nat /\ Follower(a, j) \in Nat
         /\ p < Follower(a, j) => a[p].kind \in SilentEnds
         /\ p = Follower(a, j) =>
              a[p].kind \in (Closers \cup Sections \cup {"else", "endfunc"}) \ SilentEnds
<1>1. Program(a)
  BY DEF Sound
<1>2. /\ p \in 1 .. Len(a) /\ Len(a) \in Nat /\ Skip(a, j) <= p /\ j \in 1 .. Len(a)
  BY <1>1, LiveIs DEF Program, Nested, OpenOK
<1>3. /\ Skip(a, j) \in j + 1 .. Len(a)
      /\ Follower(a, j) \in Skip(a, j) .. Len(a)
      /\ a[Follower(a, j)].kind \notin SilentEnds
      /\ \A k \in Skip(a, j) .. Follower(a, j) - 1 : a[k].kind \in SilentEnds
  BY <1>1, <1>2, FollowerIs DEF SilentEnds
<1>4. a[Follower(a, j)].kind \in Closers \cup Sections \cup {"else", "endfunc"}
  BY SoundNode
<1>5. p < Follower(a, j) => p \in Skip(a, j) .. Follower(a, j) - 1
  BY <1>2, <1>3
<1>6. QED
  BY <1>2, <1>3, <1>4, <1>5

\* What may come after a switch and nothing but blocks: its first label, or its
\* end after an empty block.
LEMMA SwitchReach ==
  ASSUME NEW a, Sound(a), NEW p \in 1 .. Len(a), NEW s \in 1 .. p - 1, s \in Live(a), a[s].kind = "switch",
         \A k \in s + 1 .. p - 1 : a[k].kind \in {"block", "endblock"}
  PROVE  a[p].kind \in Sections \cup {"block", "endblock", "endswitch"}
<1>1. Program(a) /\ Len(a) \in Nat /\ p \in Nat /\ s \in Nat /\ s \in 1 .. Len(a)
  BY DEF Sound, Program, Nested, OpenOK
<1>2. \/ a[s + 1].kind \in Sections
      \/ a[s + 1].kind = "block" /\ a[s + 2].kind \in Sections \cup {"endblock"}
  BY SoundNode
<1>3. CASE p = s + 1
  BY <1>2, <1>3
<1>4. CASE p = s + 2
  <2>1. a[s + 1].kind \in {"block", "endblock"}
    BY <1>1, <1>4
  <2>2. QED
    BY <1>2, <1>4, <2>1 DEF Sections
<1>5. CASE p > s + 2
  <2>1. a[s + 1].kind \in {"block", "endblock"} /\ a[s + 2].kind \in {"block", "endblock"}
    BY <1>1, <1>5
  <2>2. a[s + 1].kind = "block" /\ a[s + 2].kind = "endblock"
    BY <1>2, <2>1 DEF Sections
  <2>3. s + 1 \in 1 .. Len(a) /\ s + 2 \in 1 .. Len(a) /\ s + 3 \in 1 .. Len(a)
    BY <1>1, <1>5
  <2>4. /\ ~EndedBefore(a, s, s) /\ ~EndedBefore(a, s + 1, s + 1)
        /\ EndsAt(a, a[s], s) /\ EndsAt(a, a[s + 1], s + 1) /\ EndsAt(a, a[s + 2], s + 2)
        /\ FollowsAt(a, a[s + 3], s + 3)
    BY <1>1, <2>3, Position
  <2>5. Openers \subseteq Openers /\ a[s].kind \in Openers /\ a[s + 1].kind \in Openers
        /\ a[s].kind \notin Closers /\ a[s + 1].kind \notin Closers /\ a[s + 2].kind \notin Openers
    BY <2>2 DEF Openers, Closers
  <2>6. \A i : Encloses(a, i, s + 2, Openers) <=>
                 \/ Encloses(a, i, s + 1, Openers) /\ ~(a[s + 1].kind \in Closers /\ a[s + 1].opener = i)
                 \/ i = s + 1 /\ a[s + 1].kind \in Openers /\ ~EndedBefore(a, s + 1, s + 1)
    <3>1. s + 1 \in Nat \ {0} /\ (s + 1) + 1 = s + 2
      BY <1>1
    <3>2. QED
      BY <2>4, <3>1, EnclosesNext
  <2>7. \A i : Encloses(a, i, s + 3, Openers) <=>
                 \/ Encloses(a, i, s + 2, Openers) /\ ~(a[s + 2].kind \in Closers /\ a[s + 2].opener = i)
                 \/ i = s + 2 /\ a[s + 2].kind \in Openers /\ ~EndedBefore(a, s + 2, s + 2)
    <3>1. s + 2 \in Nat \ {0} /\ (s + 2) + 1 = s + 3
      BY <1>1
    <3>2. QED
      BY <2>4, <3>1, EnclosesNext
  <2>8. \A i : Encloses(a, i, s + 1, Openers) <=>
                 \/ Encloses(a, i, s, Openers) /\ ~(a[s].kind \in Closers /\ a[s].opener = i)
                 \/ i = s /\ a[s].kind \in Openers /\ ~EndedBefore(a, s, s)
    <3>1. s \in Nat \ {0}
      BY <1>1
    <3>2. QED
      BY <2>4, <3>1, EnclosesNext
  <2>9. a[s + 2].kind \in Closers /\ a[s + 2].opener = s + 1
    <3>1. a[s + 2].kind \in Closers
      BY <2>2 DEF Closers
    <3>2. InnermostAt(a, a[s + 2].opener, s + 2)
      BY <2>4, <3>1, EndIsInnermost
    <3>3. Encloses(a, s + 1, s + 2, Openers)
      BY <2>4, <2>5, <2>6
    <3>4. ~EndedBefore(a, s + 1, s + 2)
      BY <3>3 DEF Encloses
    <3>5. QED
      BY <1>1, <2>5, <3>1, <3>2, <3>4 DEF InnermostAt
  <2>10. Encloses(a, s, s + 3, Openers)
    BY <1>1, <2>4, <2>5, <2>6, <2>7, <2>8, <2>9
  <2>11. ASSUME NEW h \in 1 .. (s + 3) - 1, Encloses(a, h, s + 3, Openers) PROVE h <= s
    <3>1. h # s + 1 /\ h # s + 2
      BY <2>5, <2>7, <2>9, <2>11 DEF Encloses
    <3>2. QED
      BY <1>1, <3>1
  <2>12. Binds(a, s, s + 3, Openers)
    BY <2>10, <2>11 DEF Binds
  <2>13. a[s + 3].kind = "endswitch"
    <3>1. s \in 1 .. (s + 3) - 1 /\ s + 3 # s + 1
      BY <1>1
    <3>2. QED
      BY <2>4, <2>12, <3>1 DEF FollowsAt
  <2>14. ~(s + 3 \in s + 1 .. p - 1)
    BY <2>13
  <2>15. p = s + 3
    BY <1>1, <1>5, <2>14
  <2>16. QED
    BY <2>13, <2>15
<1>6. QED
  BY <1>1, <1>3, <1>4, <1>5

\* Statements come where the builder's block is open.
LEMMA StillOpen ==
  ASSUME NEW a, Sound(a), NEW p \in Live(a), a[p].kind \in {"expr", "if", "for", "do", "switch"} \cup Jumps
  PROVE  ~Closed(a, p)
<1>1. p \in 1 .. Len(a) /\ Len(a) \in Nat
  BY LiveIs DEF Sound, Program, Nested, OpenOK
<1>2. ASSUME AfterJump(a, p) PROVE FALSE
  <2>1. PICK j \in 1 .. p - 1 : j \in Live(a) /\ a[j].kind \in Jumps /\ p <= Follower(a, j)
    BY <1>2 DEF AfterJump
  <2>2. /\ Follower(a, j) \in Nat
        /\ p < Follower(a, j) => a[p].kind \in SilentEnds
        /\ p = Follower(a, j) =>
             a[p].kind \in (Closers \cup Sections \cup {"else", "endfunc"}) \ SilentEnds
    BY <2>1, JumpReach
  <2>3. a[p].kind \notin SilentEnds \cup Closers \cup Sections \cup {"else", "endfunc"}
    BY DEF SilentEnds, Closers, Sections, Jumps
  <2>4. QED
    BY <1>1, <2>1, <2>2, <2>3
<1>3. ASSUME AfterSwitch(a, p) PROVE FALSE
  <2>1. PICK s \in 1 .. p - 1 : /\ s \in Live(a) /\ a[s].kind = "switch"
                                /\ \A k \in s + 1 .. p - 1 : a[k].kind \in {"block", "endblock"}
    BY <1>3 DEF AfterSwitch
  <2>2. a[p].kind \in Sections \cup {"block", "endblock", "endswitch"}
    BY <1>1, <2>1, SwitchReach
  <2>3. QED
    BY <2>2 DEF Sections, Jumps
<1>4. QED
  BY <1>2, <1>3 DEF Closed

\* Between a switch and its first label there is no end of a section.
LEMMA NoSectionYet ==
  ASSUME NEW a, Program(a), NEW p \in 1 .. Len(a), a[p].kind \in {"endcase", "enddefault"},
         NEW s \in 1 .. p - 1, a[s].kind = "switch"
  PROVE  \E k \in s + 1 .. p - 1 : a[k].kind \notin {"block", "endblock"}
<1>1. /\ Len(a) \in Nat /\ EndsAt(a, a[p], p)
  BY Position
<1>2. /\ a[p].opener \in 1 .. p - 1 /\ a[a[p].opener].kind \in Sections
      /\ \A i \in a[p].opener + 1 .. p - 1 : a[i].kind \in Openers => EndedBefore(a, i, p)
  <2>1. a[p].kind \in Closers \cup {"else"}
    BY DEF Closers
  <2>2. /\ a[p].opener \in 1 .. p - 1 /\ a[a[p].opener].kind \in Openers
        /\ IF a[p].kind = "else" THEN a[a[p].opener].kind = "if"
           ELSE a[p].kind = CloserOf[a[a[p].opener].kind]
        /\ \A i \in a[p].opener + 1 .. p - 1 : a[i].kind \in Openers => EndedBefore(a, i, p)
    BY <1>1, <2>1 DEF EndsAt
  <2>3. QED
    BY <2>2 DEF CloserOf, Openers, Sections
<1>3. CASE a[p].opener > s
  BY <1>1, <1>2, <1>3 DEF Sections
<1>4. CASE a[p].opener <= s
  <2>1. a[p].opener # s
    BY <1>2 DEF Sections
  <2>2. s \in a[p].opener + 1 .. p - 1 /\ a[s].kind \in Openers
    BY <1>1, <1>2, <1>4, <2>1 DEF Openers
  <2>3. EndedBefore(a, s, p)
    BY <1>2, <2>2
  <2>4. PICK c \in 1 .. p - 1 : a[c].kind \in Closers /\ a[c].opener = s
    BY <2>3 DEF EndedBefore
  <2>5. c \in 1 .. Len(a)
    BY <1>1, <2>4
  <2>6. EndsAt(a, a[c], c)
    BY <2>5, Position
  <2>7. s \in 1 .. c - 1 /\ a[c].kind = CloserOf["switch"]
    BY <2>4, <2>6 DEF EndsAt, Closers
  <2>8. QED
    BY <1>1, <2>4, <2>7 DEF CloserOf
<1>5. QED
  BY <1>1, <1>2, <1>3, <1>4

\* What a node does to that.
LEMMA ClosedNext ==
  ASSUME NEW a, Sound(a), NEW p \in Live(a), a[p].kind \notin Jumps
  PROVE  /\ a[p].kind = "switch" => Closed(a, p + 1)
         /\ a[p].kind \in {"block"} \cup SilentEnds => (Closed(a, p + 1) <=> Closed(a, p))
         /\ a[p].kind \notin {"switch", "block"} \cup SilentEnds => ~Closed(a, p + 1)
<1>1. Program(a) /\ p \in 1 .. Len(a) /\ Len(a) \in Nat /\ p \in Nat /\ (p + 1) - 1 = p
  BY LiveIs DEF Sound, Program, Nested, OpenOK
<1>2. AfterJump(a, p + 1) <=> AfterJump(a, p) /\ a[p].kind \in SilentEnds
  <2>1. ASSUME AfterJump(a, p + 1) PROVE AfterJump(a, p) /\ a[p].kind \in SilentEnds
    <3>1. PICK j \in 1 .. p : j \in Live(a) /\ a[j].kind \in Jumps /\ p + 1 <= Follower(a, j)
      BY <1>1, <2>1 DEF AfterJump
    <3>2. j # p
      BY <3>1
    <3>3. j \in 1 .. p - 1
      BY <1>1, <3>2
    <3>4. Follower(a, j) \in Nat /\ (p < Follower(a, j) => a[p].kind \in SilentEnds)
      BY <3>1, <3>3, JumpReach
    <3>5. p < Follower(a, j) /\ p <= Follower(a, j)
      BY <1>1, <3>1, <3>4
    <3>6. QED
      BY <3>1, <3>3, <3>4, <3>5 DEF AfterJump
  <2>2. ASSUME AfterJump(a, p), a[p].kind \in SilentEnds PROVE AfterJump(a, p + 1)
    <3>1. PICK j \in 1 .. p - 1 : j \in Live(a) /\ a[j].kind \in Jumps /\ p <= Follower(a, j)
      BY <2>2 DEF AfterJump
    <3>2. /\ Follower(a, j) \in Nat
          /\ p = Follower(a, j) =>
               a[p].kind \in (Closers \cup Sections \cup {"else", "endfunc"}) \ SilentEnds
      BY <3>1, JumpReach
    <3>3. p # Follower(a, j)
      BY <2>2, <3>2
    <3>4. j \in 1 .. (p + 1) - 1 /\ p + 1 <= Follower(a, j)
      BY <1>1, <3>1, <3>2, <3>3
    <3>5. QED
      BY <3>1, <3>4 DEF AfterJump
  <2>3. QED
    BY <2>1, <2>2
<1>3. ASSUME a[p].kind = "block" PROVE ~AfterJump(a, p)
  <2>1. SUFFICES ASSUME AfterJump(a, p) PROVE FALSE
    OBVIOUS
  <2>2. PICK j \in 1 .. p - 1 : j \in Live(a) /\ a[j].kind \in Jumps /\ p <= Follower(a, j)
    BY <2>1 DEF AfterJump
  <2>3. /\ Follower(a, j) \in Nat
        /\ p < Follower(a, j) => a[p].kind \in SilentEnds
        /\ p = Follower(a, j) =>
             a[p].kind \in (Closers \cup Sections \cup {"else", "endfunc"}) \ SilentEnds
    BY <2>2, JumpReach
  <2>4. a[p].kind \notin SilentEnds \cup Closers \cup Sections \cup {"else", "endfunc"}
    BY <1>3 DEF SilentEnds, Closers, Sections
  <2>5. QED
    BY <1>1, <2>2, <2>3, <2>4
<1>4. a[p].kind = "switch" => AfterSwitch(a, p + 1)
  <2>1. p \in 1 .. (p + 1) - 1 /\ \A k \in p + 1 .. (p + 1) - 1 : FALSE
    BY <1>1
  <2>2. QED
    BY <2>1 DEF AfterSwitch
<1>5. ASSUME a[p].kind # "switch"
      PROVE  AfterSwitch(a, p + 1) <=> AfterSwitch(a, p) /\ a[p].kind \in {"block", "endblock"}
  <2>1. ASSUME AfterSwitch(a, p + 1) PROVE AfterSwitch(a, p) /\ a[p].kind \in {"block", "endblock"}
    <3>1. PICK s \in 1 .. p : /\ s \in Live(a) /\ a[s].kind = "switch"
                              /\ \A k \in s + 1 .. p : a[k].kind \in {"block", "endblock"}
      BY <1>1, <2>1 DEF AfterSwitch
    <3>2. s # p
      BY <1>5, <3>1
    <3>3. s \in 1 .. p - 1 /\ p \in s + 1 .. p /\ \A k \in s + 1 .. p - 1 : k \in s + 1 .. p
      BY <1>1, <3>2
    <3>4. QED
      BY <3>1, <3>3 DEF AfterSwitch
  <2>2. ASSUME AfterSwitch(a, p), a[p].kind \in {"block", "endblock"} PROVE AfterSwitch(a, p + 1)
    <3>1. PICK s \in 1 .. p - 1 : /\ s \in Live(a) /\ a[s].kind = "switch"
                                  /\ \A k \in s + 1 .. p - 1 : a[k].kind \in {"block", "endblock"}
      BY <2>2 DEF AfterSwitch
    <3>2. s \in 1 .. (p + 1) - 1 /\ \A k \in s + 1 .. (p + 1) - 1 : k \in s + 1 .. p - 1 \/ k = p
      BY <1>1
    <3>3. QED
      BY <2>2, <3>1, <3>2 DEF AfterSwitch
  <2>3. QED
    BY <2>1, <2>2
<1>6. a[p].kind \in {"endcase", "enddefault"} => ~AfterSwitch(a, p)
  BY <1>1, NoSectionYet DEF AfterSwitch
<1>7. CASE a[p].kind = "switch"
  BY <1>4, <1>7 DEF Closed, SilentEnds
<1>8. CASE a[p].kind = "block"
  BY <1>2, <1>3, <1>5, <1>8 DEF Closed, SilentEnds
<1>9. CASE a[p].kind = "endblock"
  BY <1>2, <1>5, <1>9 DEF Closed, SilentEnds
<1>10. CASE a[p].kind \in {"endcase", "enddefault"}
  BY <1>2, <1>5, <1>6, <1>10 DEF Closed, SilentEnds
<1>11. CASE a[p].kind \notin {"switch", "block"} \cup SilentEnds
  BY <1>2, <1>5, <1>11 DEF Closed, SilentEnds
<1>12. QED
  BY <1>7, <1>8, <1>9, <1>10, <1>11 DEF SilentEnds

\* A jump closes the builder's block.
LEMMA ClosedSkip ==
  ASSUME NEW a, Sound(a), NEW p \in Live(a), a[p].kind \in Jumps
  PROVE  Closed(a, Skip(a, p))
<1>1. Program(a) /\ p \in 1 .. Len(a) /\ Len(a) \in Nat
  BY LiveIs DEF Sound, Program, Nested, OpenOK
<1>2. Skip(a, p) \in p + 1 .. Len(a) /\ Follower(a, p) \in Skip(a, p) .. Len(a)
  BY <1>1, FollowerIs
<1>3. p \in 1 .. Skip(a, p) - 1 /\ Skip(a, p) <= Follower(a, p)
  BY <1>1, <1>2
<1>4. QED
  BY <1>3 DEF Closed, AfterJump

-----------------------------------------------------------------------------
(* The labels of a switch. *)

\* Something around a position has an innermost one.
LEMMA BindsSome ==
  ASSUME NEW a, NEW j \in Nat, NEW kinds, NEW i, Encloses(a, i, j, kinds)
  PROVE  \E b \in 1 .. j - 1 : Binds(a, b, j, kinds) /\ i <= b
<1> DEFINE S == {h \in 1 .. j - 1 : Encloses(a, h, j, kinds)}
<1>1. i \in S /\ j - 1 \in Nat
  BY DEF Encloses
<1>2. Max(S) \in S /\ \A y \in S : Max(S) >= y
  BY <1>1, MaxOfIndices
<1>3. PICK b \in S : \A y \in S : b >= y
  BY <1>2
<1>4. Binds(a, b, j, kinds) /\ i <= b /\ b \in 1 .. j - 1
  BY <1>1, <1>3 DEF Binds
<1>5. QED
  BY <1>4

\* There is only one.
LEMMA BindsOne ==
  ASSUME NEW a, NEW j \in Nat, NEW kinds, NEW i, NEW h, Binds(a, i, j, kinds), Binds(a, h, j, kinds)
  PROVE  i = h
BY DEF Binds, Encloses

\* It is what StructuredFlow calls the innermost one.
LEMMA InnermostIs ==
  ASSUME NEW a, Program(a), NEW j \in 1 .. Len(a), a[j].kind \notin Closers,
         NEW kinds, kinds \subseteq Openers, NEW i, Encloses(a, i, j, kinds)
  PROVE  Binds(a, Innermost(a, j, kinds), j, kinds)
<1> DEFINE S == Around(a, j, kinds)
<1>1. j \in Nat /\ Nested(<<>>, a)
  BY Position DEF Program
<1>2. \A h : h \in S <=> Encloses(a, h, j, kinds)
  BY <1>1, AroundIsOpen
<1>3. S \in SUBSET (1 .. j - 1) /\ i \in S /\ j - 1 \in Nat
  BY <1>1, <1>2 DEF Encloses
<1> HIDE DEF S
<1>4. Max(S) \in S /\ \A y \in S : Max(S) >= y
  BY <1>3, MaxOfIndices
<1>5. PICK b \in S : b = Max(S) /\ \A y \in S : b >= y
  BY <1>4
<1>6. Binds(a, b, j, kinds)
  BY <1>1, <1>2, <1>3, <1>5 DEF Binds
<1>7. Innermost(a, j, kinds) = b
  BY <1>5 DEF Innermost, S
<1>8. QED
  BY <1>6, <1>7

\* And what the parser was in.
LEMMA InnermostBinds ==
  ASSUME NEW a, NEW p \in Nat, NEW o, InnermostAt(a, o, p)
  PROVE  Binds(a, o, p, Openers)
BY DEF InnermostAt, Binds, Encloses

\* What is around the next node.
LEMMA NextAround ==
  ASSUME NEW a, Program(a), NEW p \in 1 .. Len(a), NEW i
  PROVE  Encloses(a, i, p + 1, Openers) <=>
           \/ Encloses(a, i, p, Openers) /\ ~(a[p].kind \in Closers /\ a[p].opener = i)
           \/ i = p /\ a[p].kind \in Openers
<1>1. p \in Nat \ {0} /\ EndsAt(a, a[p], p) /\ ~EndedBefore(a, p, p)
  BY Position
<1>2. Encloses(a, i, p + 1, Openers) <=>
        \/ Encloses(a, i, p, Openers) /\ ~(a[p].kind \in Closers /\ a[p].opener = i)
        \/ i = p /\ a[p].kind \in Openers /\ ~EndedBefore(a, p, p)
  BY <1>1, EnclosesNext
<1>3. QED
  BY <1>1, <1>2

\* What is around the innermost statement at p is around p.
LEMMA OuterAround ==
  ASSUME NEW a, Program(a), NEW p \in 1 .. Len(a), NEW o, InnermostAt(a, o, p),
         NEW h, Encloses(a, h, o, Openers)
  PROVE  Encloses(a, h, p, Openers) /\ h # o
<1>1. p \in Nat /\ EndsOK(a, p)
  BY Position
<1>2. Encloses(a, h, p, Openers)
  BY <1>1, EnclosesInner
<1>3. h # o
  BY DEF Encloses, InnermostAt
<1>4. QED
  BY <1>2, <1>3

\* The node before one that is directly in the statement at x, which is no if,
\* is x, the end of another statement directly in it, or one without an end.
LEMMA Sibling ==
  ASSUME NEW a, Program(a), NEW r \in 1 .. Len(a), NEW x, Binds(a, x, r + 1, Openers), r # x,
         a[x].kind # "if"
  PROVE  /\ a[r].kind \notin Openers \cup {"else"}
         /\ a[r].kind \in Closers =>
              /\ a[r].opener \in 1 .. r - 1 /\ a[a[r].opener].kind \in Openers
              /\ a[r].kind = CloserOf[a[a[r].opener].kind]
              /\ Binds(a, x, a[r].opener, Openers)
         /\ a[r].kind \notin Closers => Binds(a, x, r, Openers)
<1> DEFINE y == a[r].opener
<1>1. /\ r \in Nat \ {0} /\ EndsAt(a, a[r], r) /\ EndsOK(a, r)
  BY Position
<1>2. \A i : Encloses(a, i, r + 1, Openers) <=>
           \/ Encloses(a, i, r, Openers) /\ ~(a[r].kind \in Closers /\ a[r].opener = i)
           \/ i = r /\ a[r].kind \in Openers
  BY NextAround
<1>3. /\ x \in 1 .. (r + 1) - 1 /\ Encloses(a, x, r + 1, Openers)
      /\ \A h : Encloses(a, h, r + 1, Openers) => h <= x
  BY DEF Binds, Encloses
<1>4. x \in 1 .. r - 1 /\ x \in Nat
  BY <1>1, <1>3
<1>5. a[r].kind \notin Openers
  <2>1. a[r].kind \in Openers => Encloses(a, r, r + 1, Openers)
    BY <1>2
  <2>2. ~(r <= x)
    BY <1>1, <1>4
  <2>3. QED
    BY <1>3, <2>1, <2>2
<1>6. Encloses(a, x, r, Openers) /\ ~(a[r].kind \in Closers /\ y = x)
  BY <1>2, <1>3, <1>5
<1>7. ASSUME a[r].kind \in Closers \cup {"else"}
      PROVE  /\ InnermostAt(a, y, r) /\ Encloses(a, y, r, Openers) /\ y \in 1 .. r - 1 /\ y >= x
             /\ a[y].kind \in Openers
             /\ IF a[r].kind = "else" THEN a[y].kind = "if" ELSE a[r].kind = CloserOf[a[y].kind]
  <2>1. InnermostAt(a, y, r)
    BY <1>1, <1>7, EndIsInnermost
  <2>2. /\ y \in 1 .. r - 1 /\ a[y].kind \in Openers
        /\ IF a[r].kind = "else" THEN a[y].kind = "if" ELSE a[r].kind = CloserOf[a[y].kind]
    BY <1>1, <1>7 DEF EndsAt
  <2>3. Binds(a, y, r, Openers)
    BY <1>1, <2>1, InnermostBinds
  <2>4. x <= y
    BY <1>4, <1>6, <2>3 DEF Binds
  <2>5. QED
    BY <1>4, <2>1, <2>2, <2>3, <2>4 DEF Binds
<1> HIDE DEF y
<1>8. a[r].kind # "else"
  <2>1. SUFFICES ASSUME a[r].kind = "else" PROVE FALSE
    OBVIOUS
  <2>2. a[r].kind \notin Closers /\ a[r].kind \in Closers \cup {"else"}
    BY <2>1 DEF Closers
  <2>3. Encloses(a, y, r, Openers) /\ y >= x /\ y # x /\ y \in 1 .. r - 1
    BY <1>7, <2>1, <2>2
  <2>4. y <= x
    BY <1>2, <1>3, <2>2, <2>3
  <2>5. QED
    BY <1>4, <2>3, <2>4
<1>9. ASSUME a[r].kind \in Closers PROVE Binds(a, x, y, Openers)
  <2>1. InnermostAt(a, y, r) /\ y \in 1 .. r - 1 /\ x \in 1 .. y - 1
    BY <1>4, <1>6, <1>7, <1>9
  <2>2. Encloses(a, x, y, Openers)
    <3>1. \A c \in 1 .. y - 1 : c \in 1 .. r - 1
      BY <1>1, <2>1
    <3>2. QED
      BY <1>6, <2>1, <3>1 DEF Encloses, EndedBefore
  <2>3. ASSUME NEW h \in 1 .. y - 1, Encloses(a, h, y, Openers) PROVE h <= x
    <3>1. Encloses(a, h, r, Openers) /\ h # y
      BY <2>1, <2>3, OuterAround
    <3>2. Encloses(a, h, r + 1, Openers)
      BY <1>2, <3>1 DEF y
    <3>3. QED
      BY <1>3, <3>2
  <2>4. QED
    BY <2>2, <2>3 DEF Binds
<1>10. ASSUME a[r].kind \notin Closers PROVE Binds(a, x, r, Openers)
  <2>1. \A h : Encloses(a, h, r, Openers) => h <= x
    BY <1>2, <1>3, <1>10
  <2>2. QED
    BY <1>6, <2>1 DEF Binds
<1>11. ASSUME a[r].kind \in Closers
       PROVE  y \in 1 .. r - 1 /\ a[y].kind \in Openers /\ a[r].kind = CloserOf[a[y].kind]
  BY <1>7, <1>8, <1>11
<1>12. QED
  BY <1>5, <1>8, <1>9, <1>10, <1>11 DEF y

\* The statements of a switch's block begin at its labels.
LEMMA BlockKids ==
  ASSUME NEW a, Sound(a), NEW s \in Live(a), a[s].kind = "switch", a[s + 1].kind = "block",
         NEW n \in 1 .. Len(a), Binds(a, s + 1, n, Openers)
  PROVE  a[n].kind \in Sections \cup {"endblock"}
<1>1. Program(a) /\ s \in 1 .. Len(a) /\ Len(a) \in Nat /\ s \in Nat
  BY LiveIs DEF Sound, Program, Nested, OpenOK
<1> DEFINE T == {q \in 1 .. Len(a) : /\ Binds(a, s + 1, q, Openers)
                                     /\ a[q].kind \notin Sections \cup {"endblock"}}
<1>2. SUFFICES ASSUME n \in T PROVE FALSE
  OBVIOUS
<1>3. T \in SUBSET Nat /\ T # {}
  BY <1>2
<1>4. PICK p \in T : \A y \in T : p <= y
  BY <1>3, NatMinimum
<1> HIDE DEF T
<1>5. /\ p \in 1 .. Len(a) /\ Binds(a, s + 1, p, Openers)
      /\ a[p].kind \notin Sections \cup {"endblock"}
  BY <1>4 DEF T
<1>6. \A y \in 1 .. p - 1 : Binds(a, s + 1, y, Openers) => a[y].kind \in Sections \cup {"endblock"}
  BY <1>1, <1>3, <1>4, <1>5 DEF T
<1>7. s + 1 \in 1 .. p - 1
  BY <1>5 DEF Binds, Encloses
<1>8. p # s + 2
  <2>1. a[s + 2].kind \in Sections \cup {"endblock"}
    BY SoundNode DEF Sections
  <2>2. QED
    BY <1>5, <2>1
<1>9. PICK r \in 1 .. Len(a) : r = p - 1 /\ r # s + 1 /\ p = r + 1 /\ r \in 1 .. p - 1
  BY SMTT(60), <1>1, <1>5, <1>7, <1>8
<1>10. EndsAt(a, a[p], p) /\ FollowsAt(a, a[p], p) /\ p \in Nat /\ p > 1 /\ r \in Nat
  BY <1>1, <1>5, <1>7, Position
<1>11. /\ a[r].kind \notin Openers \cup {"else"}
       /\ a[r].kind \in Closers =>
            /\ a[r].opener \in 1 .. r - 1 /\ a[a[r].opener].kind \in Openers
            /\ a[r].kind = CloserOf[a[a[r].opener].kind]
            /\ Binds(a, s + 1, a[r].opener, Openers)
       /\ a[r].kind \notin Closers => Binds(a, s + 1, r, Openers)
  <2>1. Binds(a, s + 1, r + 1, Openers) /\ a[s + 1].kind # "if" /\ r # s + 1
    BY <1>5, <1>9
  <2>2. QED
    BY <1>1, <2>1, Sibling
<1>12. CASE a[r].kind \in Closers
  <2>1. a[r].opener \in 1 .. p - 1
    BY <1>9, <1>10, <1>11, <1>12
  <2>2. a[a[r].opener].kind \in Sections
    BY <1>6, <1>11, <1>12, <2>1 DEF Openers
  <2>3. a[p - 1].kind \in {"endcase", "enddefault"}
    BY <1>9, <1>11, <1>12, <2>2 DEF CloserOf, Sections
  <2>4. a[p].kind \in Closers
    BY <1>5, <1>10, <2>3 DEF FollowsAt
  <2>5. InnermostAt(a, a[p].opener, p)
    BY <1>10, <2>4, EndIsInnermost
  <2>6. Binds(a, a[p].opener, p, Openers)
    BY <1>10, <2>5, InnermostBinds
  <2>7. a[p].opener = s + 1
    BY <1>5, <1>10, <2>6, BindsOne
  <2>8. a[p].kind = CloserOf["block"]
    BY <1>10, <2>4, <2>7 DEF EndsAt, Closers
  <2>9. QED
    BY <1>5, <2>8 DEF CloserOf
<1>13. CASE a[r].kind \notin Closers
  <2>1. a[r].kind \in Sections \cup {"endblock"}
    BY <1>6, <1>9, <1>11, <1>13
  <2>2. QED
    BY <1>11, <1>13, <2>1 DEF Openers, Sections, Closers
<1>14. QED
  BY <1>12, <1>13

\* A label is directly in its switch, or in the switch's block.
LEMMA DirectLabel ==
  ASSUME NEW a, Sound(a), NEW s \in Live(a), a[s].kind = "switch",
         NEW p \in 1 .. Len(a), a[p].kind \in Sections, Binds(a, s, p, {"switch"})
  PROVE  \/ p = s + 1
         \/ a[s + 1].kind = "block" /\ Binds(a, s + 1, p, Openers)
<1>1. Program(a) /\ p \in Nat /\ DOMAIN a = 1 .. Len(a) /\ FollowsAt(a, a[p], p)
      /\ a[p].kind \notin Closers /\ {"switch"} \subseteq Openers
  BY Position DEF Sound, Sections, Closers, Openers
<1>2. Encloses(a, s, p, {"switch"}) /\ Encloses(a, s, p, Openers)
  BY <1>1 DEF Binds, Encloses
<1>3. Innermost(a, p, {"switch"}) = s
  <2>1. Binds(a, Innermost(a, p, {"switch"}), p, {"switch"})
    BY <1>1, <1>2, InnermostIs
  <2>2. QED
    BY <1>1, <2>1, BindsOne
<1>4. p \in Labels(a, s, Sections)
  BY <1>1, <1>3 DEF Labels
<1>5. DirectlyInSwitch(a, p)
  BY <1>4, SoundNode
<1>6. Binds(a, Innermost(a, p, Openers), p, Openers)
  BY <1>1, <1>2, InnermostIs
<1>7. CASE Innermost(a, p, Openers) = s
  <2>1. Binds(a, s, p, Openers)
    BY <1>6, <1>7
  <2>2. s \in 1 .. p - 1 /\ a[p].kind # "endswitch"
    BY <1>2 DEF Encloses, Sections
  <2>3. QED
    BY <1>1, <2>1, <2>2 DEF FollowsAt
<1>8. CASE a[s + 1].kind = "block" /\ Innermost(a, p, Openers) = s + 1
  BY <1>6, <1>8
<1>9. QED
  BY <1>3, <1>5, <1>7, <1>8 DEF DirectlyInSwitch

\* The labels of a switch that is visited are visited.
LEMMA LabelLive ==
  ASSUME NEW a, Sound(a), NEW s \in Live(a), a[s].kind = "switch",
         NEW q \in 1 .. Len(a), a[q].kind \in Sections, Binds(a, s, q, {"switch"})
  PROVE  q \in Live(a)
<1>1. Program(a) /\ s \in 1 .. Len(a) /\ Len(a) \in Nat
      /\ \A j \in 1 .. s - 1 : a[j].kind \in Jumps => Skip(a, j) <= s
  BY LiveIs DEF Sound, Program, Nested, OpenOK
<1>2. s \in 1 .. q - 1
  BY DEF Binds, Encloses
<1>3. \/ q = s + 1
      \/ a[s + 1].kind = "block" /\ Binds(a, s + 1, q, Openers)
  BY DirectLabel
<1>4. ASSUME NEW j \in 1 .. q - 1, a[j].kind \in Jumps, ~(Skip(a, j) <= q) PROVE FALSE
  <2>1. j \in 1 .. Len(a)
    BY <1>1, <1>4
  <2>2. /\ Skip(a, j) \in j + 1 .. Len(a)
        /\ \A k \in j + 1 .. Skip(a, j) - 1 : a[k].opener \notin 1 .. j - 1
    BY <1>1, <1>4, <2>1, FollowerIs
  <2>3. j # s
    BY <1>4 DEF Jumps
  <2>4. ~(j < s)
    BY <1>1, <1>2, <1>4, <2>1, <2>2
  <2>5. /\ q # s + 1 /\ a[s + 1].kind = "block" /\ Binds(a, s + 1, q, Openers)
    BY <1>1, <1>2, <1>3, <1>4, <2>3, <2>4
  <2>6. s + 1 \in 1 .. j - 1
    <3>1. j # s + 1
      BY <1>4, <2>5 DEF Jumps
    <3>2. QED
      BY <1>1, <1>4, <2>1, <2>3, <2>4, <3>1
  <2>7. Encloses(a, s + 1, j, Openers)
    <3>1. \A c \in 1 .. j - 1 : c \in 1 .. q - 1
      BY <1>4
    <3>2. QED
      BY <2>5, <2>6, <3>1 DEF Binds, Encloses, EndedBefore
  <2>8. PICK y \in 1 .. j - 1 : Binds(a, y, j, Openers) /\ s + 1 <= y
    <3>1. j \in Nat
      OBVIOUS
    <3>2. QED
      BY <2>7, <3>1, BindsSome
  <2>9. y # s + 1
    <3>1. y = s + 1 => a[j].kind \in Sections \cup {"endblock"}
      BY <2>1, <2>5, <2>8, BlockKids
    <3>2. QED
      BY <1>4, <3>1 DEF Jumps, Sections
  <2>10. y \in 1 .. q - 1 /\ y > s + 1 /\ a[y].kind \in Openers /\ ~EndedBefore(a, y, j)
    BY <1>1, <1>4, <2>8, <2>9 DEF Binds, Encloses
  <2>11. EndedBefore(a, y, q)
    <3>1. ~Encloses(a, y, q, Openers)
      BY <1>1, <2>5, <2>10 DEF Binds
    <3>2. QED
      BY <2>10, <3>1 DEF Encloses
  <2>12. PICK c \in 1 .. q - 1 : a[c].kind \in Closers /\ a[c].opener = y
    BY <2>11 DEF EndedBefore
  <2>13. c \notin 1 .. j - 1 /\ c # j
    BY <1>4, <2>10, <2>12 DEF EndedBefore, Jumps, Closers
  <2>14. c \in j + 1 .. Skip(a, j) - 1
    BY <1>1, <1>4, <2>1, <2>2, <2>12, <2>13
  <2>15. QED
    BY <2>2, <2>8, <2>12, <2>14
<1>5. QED
  BY <1>1, <1>4, LiveIs

\* What is around a position in the block of a switch.
LEMMA SwitchOfBlock ==
  ASSUME NEW a, Program(a), NEW s \in 1 .. Len(a), a[s].kind = "switch", a[s + 1].kind = "block",
         NEW q \in 1 .. Len(a), Binds(a, s + 1, q, Openers)
  PROVE  Binds(a, s, q, {"switch"})
<1>1. Len(a) \in Nat /\ s \in Nat /\ q \in Nat
  BY Position
<1>2. s + 1 \in 1 .. q - 1 /\ ~EndedBefore(a, s + 1, q) /\ s \in 1 .. q - 1
  BY <1>1 DEF Binds, Encloses
<1>3. ASSUME NEW c \in 1 .. q - 1, a[c].kind \in Closers, a[c].opener = s PROVE FALSE
  <2>1. c \in 1 .. Len(a)
    BY <1>1, <1>3
  <2>2. EndsAt(a, a[c], c)
    BY <2>1, Position
  <2>3. s \in 1 .. c - 1 /\ \A i \in s + 1 .. c - 1 : a[i].kind \in Openers => EndedBefore(a, i, c)
    BY <1>3, <2>2 DEF EndsAt
  <2>4. c # s + 1
    BY <1>3 DEF Closers
  <2>5. s + 1 \in s + 1 .. c - 1 /\ a[s + 1].kind \in Openers
    BY <1>1, <2>3, <2>4 DEF Openers
  <2>6. EndedBefore(a, s + 1, c)
    BY <2>3, <2>5
  <2>7. \A d \in 1 .. c - 1 : d \in 1 .. q - 1
    BY <1>1, <1>3
  <2>8. QED
    BY <1>2, <2>6, <2>7 DEF EndedBefore
<1>4. Encloses(a, s, q, {"switch"})
  BY <1>2, <1>3 DEF Encloses, EndedBefore
<1>5. ASSUME NEW h \in 1 .. q - 1, Encloses(a, h, q, {"switch"}) PROVE h <= s
  <2>1. Encloses(a, h, q, Openers) /\ a[h].kind = "switch"
    BY <1>5 DEF Encloses, Openers
  <2>2. h <= s + 1 /\ h # s + 1
    BY <2>1 DEF Binds
  <2>3. QED
    BY <1>1, <2>2
<1>6. QED
  BY <1>4, <1>5 DEF Binds

\* Simple statements and the ends of blocks and sections.
Plain(d) ==
    d.kind \in {"expr", "block"} \cup SilentEnds \cup Jumps /\ (d.kind = "expr" => ~d.branching)

\* What is visited in a section without basic blocks of its own is plain.
LEMMA StraightPlain ==
  ASSUME NEW a, Sound(a), NEW q \in Live(a), a[q].kind \in Sections, Straight(a, q),
         NEW k \in q + 1 .. EndOf(a, q), k \in Live(a)
  PROVE  Plain(a[k])
<1> DEFINE E == EndOf(a, q)
<1>1. Program(a) /\ Nested(<<>>, a) /\ q \in 1 .. Len(a) /\ Len(a) \in Nat /\ a[q].kind \in Openers
  BY LiveIs DEF Sound, Program, Nested, OpenOK, Sections, Openers
<1>2. /\ E \in q + 1 .. Len(a) /\ a[E].opener = q /\ a[E].kind = CloserOf[a[q].kind]
      /\ \A c \in 1 .. Len(a) : a[c].kind \in Closers /\ a[c].opener = q => c = E
  BY <1>1, EndOfOpener
<1>3. \A j \in q .. E : j \in Live(a) => a[j].kind \notin {"if", "for", "do", "switch"} /\ ~a[j].branching
  BY DEF Straight, Section
<1> HIDE DEF E
<1>4. k \in q .. E /\ k \in 1 .. Len(a) /\ k \in q + 1 .. E
  BY <1>1, <1>2 DEF E
<1>5. a[k].kind \notin {"if", "for", "do", "switch"} /\ ~a[k].branching
  BY <1>3, <1>4
<1>6. a[k] \in Node /\ EndsAt(a, a[k], k) /\ FollowsAt(a, a[k], k) /\ k \in Nat
  BY <1>1, <1>4, Position
<1>7. CASE k = E
  BY <1>2, <1>7 DEF CloserOf, Sections, Plain, SilentEnds
<1>8. CASE k # E
  <2>1. Encloses(a, q, k, Openers)
    <3>1. q \in 1 .. k - 1
      BY <1>1, <1>4
    <3>2. \A c \in 1 .. k - 1 : c \in 1 .. Len(a) /\ c # E
      BY <1>1, <1>2, <1>4, <1>8
    <3>3. QED
      BY <1>1, <1>2, <3>1, <3>2 DEF Encloses, EndedBefore
  <2>2. CASE a[k].kind \in Closers \cup {"else"}
    <3> DEFINE o == a[k].opener
    <3>1. InnermostAt(a, o, k)
      BY <1>6, <2>2, EndIsInnermost
    <3>2. Binds(a, o, k, Openers)
      BY <1>6, <3>1, InnermostBinds
    <3>3. Encloses(a, o, k, Openers) /\ q <= o /\ o \in 1 .. k - 1
      BY <1>1, <2>1, <3>2 DEF Binds, Encloses
    <3>4. o \in Live(a)
      BY <1>1, <3>3, LiveAround
    <3>5. o \in q .. E
      BY <1>1, <1>2, <1>4, <3>3
    <3>6. a[o].kind \in {"block", "case", "default"}
      BY <1>3, <3>3, <3>4, <3>5 DEF Encloses, Openers
    <3>7. a[k].kind = CloserOf[a[o].kind]
      BY <1>6, <2>2, <3>6 DEF EndsAt
    <3>8. QED
      BY <3>6, <3>7 DEF CloserOf, Plain, SilentEnds
  <2>3. a[k].kind \notin Sections
    <3>1. SUFFICES ASSUME a[k].kind \in Sections PROVE FALSE
      OBVIOUS
    <3>2. PICK i \in 1 .. k - 1 : Encloses(a, i, k, {"switch"})
      BY <1>6, <3>1 DEF FollowsAt
    <3>3. PICK s \in 1 .. k - 1 : Binds(a, s, k, {"switch"})
      BY <1>6, <3>2, BindsSome
    <3>4. a[s].kind = "switch" /\ Encloses(a, s, k, Openers)
      BY <3>3 DEF Binds, Encloses, Openers
    <3>5. s \in Live(a)
      BY <1>1, <3>4, LiveAround
    <3>6. ~(s \in q .. E)
      BY <1>3, <3>4, <3>5
    <3>7. s < q /\ s \in Nat
      BY <1>1, <1>2, <1>4, <3>6
    <3>8. CASE k = s + 1
      BY <1>1, <1>4, <3>7, <3>8
    <3>9. CASE a[s + 1].kind = "block" /\ Binds(a, s + 1, k, Openers)
      <4>1. q <= s + 1
        BY <2>1, <3>9 DEF Binds, Encloses
      <4>2. q = s + 1
        BY <1>1, <3>7, <4>1
      <4>3. QED
        BY <3>9, <4>2 DEF Sections
    <3>10. QED
      BY <1>4, <3>1, <3>3, <3>4, <3>5, <3>8, <3>9, DirectLabel
  <2>4. a[k].kind # "endfunc"
    BY <1>6, <2>1 DEF FollowsAt, Encloses
  <2>5. CASE a[k].kind \notin Closers \cup {"else"}
    BY <1>5, <1>6, <2>3, <2>4, <2>5 DEF Node, Openers, Sections, Plain, Jumps
  <2>6. QED
    BY <2>2, <2>5
<1>9. QED
  BY <1>7, <1>8

\* Since the section at q began, the visit of nodes before p has met only plain ones.
InStraight(a, q, p) ==
    /\ q \in 1 .. p - 1 /\ q \in Live(a) /\ a[q].kind \in Sections
    /\ \A k \in q + 1 .. p - 1 : k \in Live(a) => Plain(a[k])

\* A section that the builder's block is open after is plain; it is a case
\* before a label, and a default before the end of the switch.
LEMMA SectionLeft ==
  ASSUME NEW a, Sound(a), NEW p \in Live(a), ~Closed(a, p),
         NEW q \in Live(a), a[q].kind \in Sections, NEW e \in 1 .. Len(a), e = EndOf(a, q),
         p = e + 1 \/ (p = e + 2 /\ a[e + 1].kind = "endblock")
  PROVE  InStraight(a, q, p) /\ (a[q].kind = "case" <=> a[e + 1].kind \in Sections)
<1>1. Program(a) /\ Nested(<<>>, a) /\ q \in 1 .. Len(a) /\ p \in 1 .. Len(a) /\ Len(a) \in Nat
      /\ a[q].kind \in Openers
  BY LiveIs DEF Sound, Program, Nested, OpenOK, Sections, Openers
<1>2. e \in q + 1 .. Len(a)
  BY <1>1, EndOfOpener
<1>3. ~LeftByJump(a, q)
  <2>1. SUFFICES ASSUME LeftByJump(a, q) PROVE FALSE
    OBVIOUS
  <2>2. PICK j \in Live(a) : j \in q .. e /\ a[j].kind \in Jumps /\ Follower(a, j) > e
    BY <2>1 DEF LeftByJump, Section
  <2>3. j \in 1 .. p - 1
    BY <1>1, <1>2, <2>2
  <2>4. Follower(a, j) \in Nat
    BY <2>2, <2>3, JumpReach
  <2>5. Follower(a, j) # e + 1 \/ p = e + 1
    <3>1. j \in 1 .. Len(a)
      BY <1>1, <2>3
    <3>2. a[Follower(a, j)].kind # "endblock"
      BY <1>1, <2>2, <3>1, FollowerIs
    <3>3. QED
      BY <3>2
  <2>6. p <= Follower(a, j)
    BY <1>1, <2>2, <2>4, <2>5
  <2>7. QED
    BY <2>2, <2>3, <2>6 DEF Closed, AfterJump
<1>4. /\ Straight(a, q)
      /\ a[q].kind = "case" => BeforeLabel(a, q)
      /\ a[q].kind = "default" => ~BeforeLabel(a, q)
  <2>1. a[q].kind \in {"case", "default"}
    BY DEF Sections
  <2>2. QED
    BY <1>3, <2>1, SoundNode
<1>5. ASSUME NEW k \in q + 1 .. p - 1, k \in Live(a) PROVE Plain(a[k])
  <2>1. k \in q + 1 .. e \/ (k = e + 1 /\ a[e + 1].kind = "endblock")
    BY <1>1, <1>2, <1>5
  <2>2. CASE k \in q + 1 .. e
    BY <1>4, <1>5, <2>2, StraightPlain
  <2>3. CASE k = e + 1 /\ a[e + 1].kind = "endblock"
    BY <2>3 DEF Plain, SilentEnds
  <2>4. QED
    BY <2>1, <2>2, <2>3
<1>6. q \in 1 .. p - 1
  BY <1>1, <1>2
<1>7. a[q].kind = "case" <=> a[e + 1].kind \in Sections
  BY <1>4 DEF BeforeLabel, Sections
<1>8. QED
  BY <1>5, <1>6, <1>7 DEF InStraight

\* Before position n of a switch's block a section ends.
LEMMA SectionBefore ==
  ASSUME NEW a, Sound(a), NEW s \in Live(a), a[s].kind = "switch", a[s + 1].kind = "block",
         NEW n \in 1 .. Len(a), Binds(a, s + 1, n, Openers), n # s + 2
  PROVE  \E q \in Live(a) : /\ a[q].kind \in Sections /\ Binds(a, s, q, {"switch"})
                            /\ n - 1 \in 1 .. Len(a) /\ EndOf(a, q) = n - 1
<1>1. Program(a) /\ Nested(<<>>, a) /\ s \in 1 .. Len(a) /\ Len(a) \in Nat /\ n \in Nat
  BY LiveIs DEF Sound, Program, Nested, OpenOK
<1>2. s + 1 \in 1 .. n - 1
  BY DEF Binds, Encloses
<1>3. PICK r \in 1 .. Len(a) : r = n - 1 /\ n = r + 1 /\ r # s + 1
  BY <1>1, <1>2
<1>4. /\ a[r].kind \notin Openers
      /\ a[r].kind \in Closers =>
           /\ a[r].opener \in 1 .. r - 1 /\ a[a[r].opener].kind \in Openers
           /\ Binds(a, s + 1, a[r].opener, Openers)
      /\ a[r].kind \notin Closers => Binds(a, s + 1, r, Openers)
  <2>1. Binds(a, s + 1, r + 1, Openers) /\ a[s + 1].kind # "if"
    BY <1>3
  <2>2. QED
    BY <1>1, <1>3, <2>1, Sibling
<1>5. a[r].kind \in Closers
  <2>1. a[r].kind \notin Closers => a[r].kind \in Sections \cup {"endblock"}
    BY <1>4, BlockKids
  <2>2. QED
    BY <1>4, <2>1 DEF Sections, Openers, Closers
<1>6. PICK q \in 1 .. Len(a) : q = a[r].opener /\ a[q].kind \in Openers /\ Binds(a, s + 1, q, Openers)
  <2>1. a[r].opener \in 1 .. Len(a)
    BY <1>1, <1>4, <1>5
  <2>2. QED
    BY <1>4, <1>5, <2>1
<1>7. a[q].kind \in Sections
  <2>1. a[q].kind \in Sections \cup {"endblock"}
    BY <1>6, BlockKids
  <2>2. QED
    BY <1>6, <2>1 DEF Openers
<1>8. Binds(a, s, q, {"switch"})
  BY <1>1, <1>6, SwitchOfBlock
<1>9. q \in Live(a)
  BY <1>7, <1>8, LabelLive
<1>10. r = EndOf(a, q)
  <2>1. \A c \in 1 .. Len(a) : a[c].kind \in Closers /\ a[c].opener = q => c = EndOf(a, q)
    BY SMTT(60), <1>1, <1>6, EndOfOpener
  <2>2. QED
    BY <1>5, <1>6, <2>1
<1>11. QED
  BY <1>3, <1>7, <1>8, <1>9, <1>10

\* Where control falls into a label or the end of a switch, it comes from a
\* plain section, whose first block is still the builder's.
LEMMA SectionEnds ==
  ASSUME NEW a, Sound(a), NEW p \in Live(a), ~Closed(a, p), NEW s \in Live(a), a[s].kind = "switch",
         \/ a[p].kind \in Sections /\ Binds(a, s, p, {"switch"})
         \/ a[p].kind = "endswitch" /\ a[p].opener = s
  PROVE  \E q \in 1 .. p - 1 :
           /\ InStraight(a, q, p) /\ Binds(a, s, q, {"switch"})
           /\ a[q].kind = IF a[p].kind = "endswitch" THEN "default" ELSE "case"
<1>1. Program(a) /\ Nested(<<>>, a) /\ s \in 1 .. Len(a) /\ p \in 1 .. Len(a) /\ Len(a) \in Nat
      /\ s \in Nat /\ p \in Nat /\ EndsAt(a, a[p], p)
  BY LiveIs, Position DEF Sound, Program, Nested, OpenOK
<1>2. s \in 1 .. p - 1
  <2>1. CASE a[p].kind \in Sections /\ Binds(a, s, p, {"switch"})
    BY <2>1 DEF Binds, Encloses
  <2>2. CASE a[p].kind = "endswitch" /\ a[p].opener = s
    BY <1>1, <2>2 DEF EndsAt, Closers
  <2>3. QED
    BY <2>1, <2>2
<1>3. ~ \A k \in s + 1 .. p - 1 : a[k].kind \in {"block", "endblock"}
  BY <1>2 DEF Closed, AfterSwitch
<1>4. p # s + 1
  <2>1. p = s + 1 => \A k \in s + 1 .. p - 1 : FALSE
    BY <1>1
  <2>2. QED
    BY <1>3, <2>1
<1>5. \A n : n = s + 2 => \A k \in s + 1 .. n - 1 : k = s + 1
  BY <1>1
<1>6. SUFFICES \E q \in Live(a), e \in 1 .. Len(a) :
                 /\ a[q].kind \in Sections /\ Binds(a, s, q, {"switch"}) /\ EndOf(a, q) = e
                 /\ \/ p = e + 1
                    \/ p = e + 2 /\ a[e + 1].kind = "endblock" /\ a[p].kind = "endswitch"
  <2>1. PICK q \in Live(a), e \in 1 .. Len(a) :
                 /\ a[q].kind \in Sections /\ Binds(a, s, q, {"switch"}) /\ EndOf(a, q) = e
                 /\ \/ p = e + 1
                    \/ p = e + 2 /\ a[e + 1].kind = "endblock" /\ a[p].kind = "endswitch"
    BY <1>6
  <2>2. p = e + 1 \/ (p = e + 2 /\ a[e + 1].kind = "endblock")
    BY <2>1
  <2>3. InStraight(a, q, p) /\ (a[q].kind = "case" <=> a[e + 1].kind \in Sections)
    BY <2>1, <2>2, SectionLeft
  <2>4. a[e + 1].kind \in Sections <=> a[p].kind # "endswitch"
    BY <2>1 DEF Sections
  <2>5. q \in 1 .. p - 1
    BY <2>3 DEF InStraight
  <2>6. a[q].kind = IF a[p].kind = "endswitch" THEN "default" ELSE "case"
    BY <2>1, <2>3, <2>4 DEF Sections
  <2>7. QED
    BY <2>1, <2>3, <2>5, <2>6
<1>7. CASE a[p].kind \in Sections /\ Binds(a, s, p, {"switch"})
  <2>1. a[s + 1].kind = "block" /\ Binds(a, s + 1, p, Openers)
    BY <1>1, <1>4, <1>7, DirectLabel
  <2>2. p # s + 2
    BY <1>3, <1>5, <2>1
  <2>3. \E q \in Live(a) : /\ a[q].kind \in Sections /\ Binds(a, s, q, {"switch"})
                           /\ p - 1 \in 1 .. Len(a) /\ EndOf(a, q) = p - 1
    BY <1>1, <2>1, <2>2, SectionBefore
  <2>4. p = (p - 1) + 1
    BY <1>1
  <2>5. QED
    BY <2>3, <2>4
<1>8. CASE a[p].kind = "endswitch" /\ a[p].opener = s
  <2>1. Binds(a, s, p, Openers)
    <3>1. InnermostAt(a, s, p)
      BY <1>1, <1>8, EndIsInnermost DEF Closers
    <3>2. QED
      BY <1>1, <3>1, InnermostBinds
  <2>2. PICK r \in 1 .. Len(a) : r = p - 1 /\ p = r + 1 /\ r # s
    BY <1>1, <1>2, <1>4
  <2>3. /\ a[r].kind \notin Openers
        /\ a[r].kind \in Closers =>
             /\ a[r].opener \in 1 .. r - 1 /\ a[a[r].opener].kind \in Openers
             /\ a[r].kind = CloserOf[a[a[r].opener].kind]
             /\ Binds(a, s, a[r].opener, Openers)
        /\ a[r].kind \notin Closers => Binds(a, s, r, Openers)
    <3>1. Binds(a, s, r + 1, Openers) /\ a[s].kind # "if"
      BY <2>1, <2>2
    <3>2. QED
      BY <1>1, <2>2, <3>1, Sibling
  <2>4. a[s + 1].kind \in Sections \cup {"block"} /\ s + 1 \in 1 .. Len(a)
    <3>1. a[s + 1].kind \in Sections \cup {"block"}
      BY SoundNode
    <3>2. QED
      BY <1>1, <1>2, <3>1
  <2>5. ASSUME NEW y \in 1 .. Len(a), Binds(a, s, y, Openers), a[y].kind \notin Closers
        PROVE  y = s + 1
    <3>1. FollowsAt(a, a[y], y)
      BY <1>1, Position
    <3>2. s \in 1 .. y - 1
      BY <2>5 DEF Binds, Encloses
    <3>3. QED
      BY <2>5, <3>1, <3>2 DEF FollowsAt, Closers
  <2>6. a[r].kind \in Closers
    <3>1. SUFFICES ASSUME a[r].kind \notin Closers PROVE FALSE
      OBVIOUS
    <3>2. r = s + 1
      BY <2>3, <2>5, <3>1
    <3>3. QED
      BY <2>3, <2>4, <3>2 DEF Sections, Openers
  <2>7. a[r].opener = s + 1 /\ a[r].kind = CloserOf[a[s + 1].kind] /\ Binds(a, s, s + 1, Openers)
        /\ a[s + 1].kind \in Openers
    <3>1. a[r].opener \in 1 .. Len(a) /\ a[a[r].opener].kind \notin Closers
      BY SMTT(60), <1>1, <2>3, <2>6 DEF Openers, Closers
    <3>2. a[r].opener = s + 1
      BY <2>3, <2>5, <2>6, <3>1
    <3>3. QED
      BY <2>3, <2>6, <3>2
  <2>8. CASE a[s + 1].kind \in Sections
    <3>1. Binds(a, s, s + 1, {"switch"})
      <4>1. \A h : Encloses(a, h, s + 1, {"switch"}) => Encloses(a, h, s + 1, Openers)
        BY DEF Encloses, Openers
      <4>2. QED
        BY <2>7, <4>1 DEF Binds, Encloses
    <3>2. s + 1 \in Live(a)
      BY <2>4, <2>8, <3>1, LabelLive
    <3>3. EndOf(a, s + 1) = r
      <4>1. \A c \in 1 .. Len(a) : a[c].kind \in Closers /\ a[c].opener = s + 1 => c = EndOf(a, s + 1)
        BY <1>1, <2>4, <2>7, EndOfOpener
      <4>2. QED
        BY <2>6, <2>7, <4>1
    <3>4. QED
      BY <2>2, <2>8, <3>1, <3>2, <3>3
  <2>9. CASE a[s + 1].kind = "block"
    <3>1. a[r].kind = "endblock"
      BY <2>7, <2>9 DEF CloserOf
    <3>2. Binds(a, s + 1, r, Openers)
      <4>1. r \in Nat /\ EndsAt(a, a[r], r)
        BY <1>1, Position
      <4>2. InnermostAt(a, s + 1, r)
        BY <2>6, <2>7, <4>1, EndIsInnermost
      <4>3. QED
        BY <4>1, <4>2, InnermostBinds
    <3>3. r # s + 2
      <4>1. SUFFICES ASSUME r = s + 2 PROVE FALSE
        OBVIOUS
      <4>2. \A k \in s + 1 .. p - 1 : k = s + 1 \/ k = s + 2
        BY <1>1, <2>2, <4>1
      <4>3. QED
        BY <1>3, <2>9, <3>1, <4>1, <4>2
    <3>4. PICK q \in Live(a) : /\ a[q].kind \in Sections /\ Binds(a, s, q, {"switch"})
                               /\ r - 1 \in 1 .. Len(a) /\ EndOf(a, q) = r - 1
      BY <2>9, <3>2, <3>3, SectionBefore
    <3>5. p = (r - 1) + 2 /\ (r - 1) + 1 = r
      BY <1>1, <2>2
    <3>6. QED
      BY <1>8, <3>1, <3>4, <3>5
  <2>10. QED
    BY <2>4, <2>8, <2>9
<1>9. QED
  BY <1>7, <1>8

\* A jump skips no default of a switch around it.
LEMMA DefaultsKept ==
  ASSUME NEW a, Sound(a), NEW p \in Live(a), a[p].kind \in Jumps, NEW i, Encloses(a, i, p, {"switch"}),
         NEW d \in p .. Skip(a, p) - 1
  PROVE  ~DefaultOf(a, d, i)
<1>1. Program(a) /\ p \in 1 .. Len(a) /\ Len(a) \in Nat /\ p \in Nat /\ FollowsAt(a, a[p], p)
  BY LiveIs, Position DEF Sound, Program, Nested, OpenOK
<1>2. SUFFICES ASSUME a[d].kind = "default", Binds(a, i, d, {"switch"}) PROVE FALSE
  BY DEF DefaultOf
<1>3. i \in 1 .. p - 1 /\ a[i].kind = "switch" /\ Encloses(a, i, p, Openers)
  BY DEF Encloses, Openers
<1>4. i \in Live(a)
  BY <1>1, <1>3, LiveAround
<1>5. /\ Skip(a, p) \in p + 1 .. Len(a)
      /\ \A k \in p + 1 .. Skip(a, p) - 1 : a[k].opener \notin 1 .. p - 1
  BY <1>1, FollowerIs
<1>6. d # p
  BY <1>2 DEF Jumps
<1>7. d \in 1 .. Len(a) /\ d \in Nat /\ p < d
  BY <1>1, <1>5, <1>6
<1>8. PICK y \in 1 .. p - 1 : Binds(a, y, p, Openers) /\ i <= y
  BY <1>1, <1>3, BindsSome
<1>9. Encloses(a, y, d, Openers)
  <2>1. a[y].kind \in Openers /\ ~EndedBefore(a, y, p) /\ y \in 1 .. d - 1
    BY <1>1, <1>7, <1>8 DEF Binds, Encloses
  <2>2. ASSUME NEW c \in 1 .. d - 1, a[c].kind \in Closers, a[c].opener = y PROVE FALSE
    <3>1. c \notin 1 .. p - 1 /\ c # p
      BY <2>1, <2>2 DEF EndedBefore, Jumps, Closers
    <3>2. c \in p + 1 .. Skip(a, p) - 1
      BY <1>1, <1>5, <1>7, <2>2, <3>1
    <3>3. QED
      BY <1>5, <1>8, <2>2, <3>2
  <2>3. QED
    BY <2>1, <2>2 DEF Encloses, EndedBefore
<1>10. a[d].kind \in Sections
  BY <1>2 DEF Sections
<1>11. CASE d = i + 1
  BY <1>1, <1>3, <1>7, <1>11
<1>12. CASE a[i + 1].kind = "block" /\ Binds(a, i + 1, d, Openers)
  <2>1. y <= i + 1
    BY <1>9, <1>12 DEF Binds, Encloses
  <2>2. CASE y = i + 1
    <3>1. a[p].kind \in Sections \cup {"endblock"}
      BY <1>1, <1>3, <1>4, <1>8, <1>12, <2>2, BlockKids
    <3>2. QED
      BY <3>1 DEF Sections, Jumps
  <2>3. CASE y = i
    <3>1. p = i + 1
      BY <1>1, <1>3, <1>8, <2>3 DEF FollowsAt, Jumps
    <3>2. QED
      BY <1>12, <3>1 DEF Jumps
  <2>4. QED
    BY <1>1, <1>3, <1>8, <2>1, <2>2, <2>3
<1>13. QED
  BY <1>2, <1>3, <1>4, <1>7, <1>10, <1>11, <1>12, DirectLabel

-----------------------------------------------------------------------------
(* The function under construction. *)

\* A terminator comes only last.
OnlyLast(block) == \A k \in 1 .. Len(block) : block[k].term => k = Len(block)

\* The blocks that have been created and wait to be inserted.
Unplaced(f) == (1 .. Len(f.blocks)) \ Range(f.order)

\* The builder's block has no terminator yet.
IsOpen(f) == Unterminated(f.blocks[f.point])

\* The blocks of a function: the first is the entry, the builder is at the last;
\* the others are empty until they are inserted, and have their terminator
\* when the next is.
BlocksOK(f) ==
    /\ f.order # <<>> /\ f.order[1] = 1 /\ Last(f.order) = f.point /\ IsInjective(f.order)
    /\ \A b \in 1 .. Len(f.blocks) :
         /\ OnlyLast(f.blocks[b])
         /\ b \in Unplaced(f) => f.blocks[b] = <<>>
         /\ b \notin Unplaced(f) /\ b # f.point => ~Unterminated(f.blocks[b])

\* What every step of the builder keeps.
Building(f) == Ready(f) /\ BlocksOK(f)

\* The order of the blocks and where the builder is.
LEMMA OrderIs ==
  ASSUME NEW f, Building(f)
  PROVE  /\ f.order \in Seq(1 .. Len(f.blocks)) /\ Len(f.blocks) \in Nat
         /\ f.blocks \in Seq(Seq(Instr))
         /\ f.point \in 1 .. Len(f.blocks) /\ f.point \notin Unplaced(f)
         /\ 1 \in 1 .. Len(f.blocks) /\ 1 \notin Unplaced(f)
         /\ Len(f.order) \in Nat \ {0} /\ DOMAIN f.order = 1 .. Len(f.order)
         /\ \A k \in 1 .. Len(f.order) : f.order[k] \in 1 .. Len(f.blocks)
         /\ \A b : b \in Range(f.order) <=> \E k \in 1 .. Len(f.order) : f.order[k] = b
         /\ \A b : b \in Unplaced(f) <=>
                     b \in 1 .. Len(f.blocks) /\ ~\E k \in 1 .. Len(f.order) : f.order[k] = b
<1>1. /\ f.order \in Seq(1 .. Len(f.blocks)) /\ f.blocks \in Seq(Seq(Instr))
      /\ f.point \in 0 .. Len(f.blocks) /\ f.point # 0
      /\ f.order # <<>> /\ f.order[1] = 1 /\ Last(f.order) = f.point
  BY DEF Building, BlocksOK, Ready, IrTyped
<1>2. /\ Len(f.blocks) \in Nat /\ f.point \in 1 .. Len(f.blocks)
      /\ Len(f.order) \in Nat \ {0} /\ DOMAIN f.order = 1 .. Len(f.order)
  BY SMTT(60), <1>1
<1>3. \A b : b \in Range(f.order) <=> \E k \in 1 .. Len(f.order) : f.order[k] = b
  BY <1>2 DEF Range
<1>4. f.order[Len(f.order)] = f.point
  BY <1>1 DEF Last
<1>5. f.point \in Range(f.order) /\ 1 \in Range(f.order) /\ 1 \in 1 .. Len(f.blocks)
  BY SMTT(60), <1>1, <1>2, <1>3, <1>4
<1>6. f.point \notin Unplaced(f) /\ 1 \notin Unplaced(f)
  BY <1>5 DEF Unplaced
<1>7. \A b : b \in Unplaced(f) <=>
               b \in 1 .. Len(f.blocks) /\ ~\E k \in 1 .. Len(f.order) : f.order[k] = b
  BY <1>3 DEF Unplaced
<1>8. \A k \in 1 .. Len(f.order) : f.order[k] \in 1 .. Len(f.blocks)
  BY SMTT(60), <1>1, <1>2
<1>9. QED
  BY <1>1, <1>2, <1>3, <1>5, <1>6, <1>7, <1>8

\* New blocks wait.
LEMMA CreateBuilds ==
  ASSUME NEW f, Building(f), NEW n \in Nat, NEW g, g = Create(f, n)
  PROVE  /\ Building(g) /\ Keeps(f, g) /\ g.point = f.point /\ Len(g.blocks) = Len(f.blocks) + n
         /\ IsOpen(g) <=> IsOpen(f)
         /\ \A b : b \in Unplaced(g) <=>
                     b \in Unplaced(f) \/ b \in Len(f.blocks) + 1 .. Len(f.blocks) + n
<1>1. /\ Ready(g) /\ Keeps(f, g) /\ g.order = f.order /\ g.point = f.point
      /\ Len(g.blocks) = Len(f.blocks) + n
      /\ \A b \in 1 .. Len(f.blocks) : g.blocks[b] = f.blocks[b]
      /\ \A b \in Len(f.blocks) + 1 .. Len(f.blocks) + n : g.blocks[b] = <<>>
  <2>1. Ready(f)
    BY DEF Building
  <2>2. LET h == Create(f, n) IN
         /\ Ready(h) /\ Keeps(f, h) /\ h.order = f.order /\ h.point = f.point
         /\ Len(h.blocks) = Len(f.blocks) + n
         /\ \A b \in 1 .. Len(f.blocks) : h.blocks[b] = f.blocks[b]
         /\ \A b \in Len(f.blocks) + 1 .. Len(f.blocks) + n : h.blocks[b] = <<>>
    BY <2>1, CreateIs
  <2>3. QED
    BY <2>2, Zenon
<1>2. /\ Len(f.blocks) \in Nat /\ f.point \in 1 .. Len(f.blocks)
      /\ \A k \in 1 .. Len(f.order) : f.order[k] \in 1 .. Len(f.blocks)
      /\ \A b : b \in Unplaced(f) <=>
                  b \in 1 .. Len(f.blocks) /\ ~\E k \in 1 .. Len(f.order) : f.order[k] = b
      /\ DOMAIN f.order = 1 .. Len(f.order)
  BY OrderIs
<1>3. \A b : b \in Unplaced(g) <=>
               b \in 1 .. Len(f.blocks) + n /\ ~\E k \in 1 .. Len(f.order) : f.order[k] = b
  BY <1>1, <1>2 DEF Unplaced, Range
<1>4. \A b : b \in 1 .. Len(f.blocks) + n <=>
               b \in 1 .. Len(f.blocks) \/ b \in Len(f.blocks) + 1 .. Len(f.blocks) + n
  BY <1>2
<1>5. \A b : ~(b \in 1 .. Len(f.blocks) /\ b \in Len(f.blocks) + 1 .. Len(f.blocks) + n)
  BY <1>2
<1>6. \A b : b \in Unplaced(g) <=>
               b \in Unplaced(f) \/ b \in Len(f.blocks) + 1 .. Len(f.blocks) + n
  BY SMTT(60), <1>2, <1>3, <1>4, <1>5
<1>7. IsOpen(g) <=> IsOpen(f)
  BY <1>1, <1>2 DEF IsOpen
<1>8. ASSUME NEW b \in 1 .. Len(g.blocks)
      PROVE  /\ OnlyLast(g.blocks[b])
             /\ b \in Unplaced(g) => g.blocks[b] = <<>>
             /\ b \notin Unplaced(g) /\ b # g.point => ~Unterminated(g.blocks[b])
  <2>1. CASE b \in 1 .. Len(f.blocks)
    <3>1. g.blocks[b] = f.blocks[b] /\ (b \in Unplaced(g) <=> b \in Unplaced(f))
      BY <1>1, <1>5, <1>6, <2>1
    <3>2. /\ OnlyLast(f.blocks[b])
          /\ b \in Unplaced(f) => f.blocks[b] = <<>>
          /\ b \notin Unplaced(f) /\ b # f.point => ~Unterminated(f.blocks[b])
      BY <2>1 DEF Building, BlocksOK
    <3>3. QED
      BY <1>1, <3>1, <3>2
  <2>2. CASE b \in Len(f.blocks) + 1 .. Len(f.blocks) + n
    <3>1. g.blocks[b] = <<>> /\ b \in Unplaced(g)
      BY <1>1, <1>6, <2>2
    <3>2. OnlyLast(g.blocks[b])
      BY <3>1 DEF OnlyLast
    <3>3. QED
      BY <3>1, <3>2
  <2>3. QED
    BY <1>1, <1>4, <2>1, <2>2
<1>9. /\ g.order # <<>> /\ g.order[1] = 1 /\ Last(g.order) = g.point /\ IsInjective(g.order)
  BY <1>1 DEF Building, BlocksOK
<1>10. QED
  BY <1>1, <1>6, <1>7, <1>8, <1>9 DEF Building, BlocksOK

\* An instruction goes to an open block, which a terminator closes.
LEMMA EmitBuilds ==
  ASSUME NEW f, Building(f), IsOpen(f), NEW x, Fit(f, x), NEW g, g = Emit(f, x)
  PROVE  /\ Building(g) /\ Keeps(f, g) /\ g.point = f.point /\ Len(g.blocks) = Len(f.blocks)
         /\ IsOpen(g) <=> ~x.term
         /\ Unplaced(g) = Unplaced(f)
<1>1. /\ Ready(g) /\ Keeps(f, g) /\ g.order = f.order /\ g.point = f.point
      /\ Len(g.blocks) = Len(f.blocks)
      /\ g.blocks[f.point] = Append(f.blocks[f.point], x)
      /\ \A b \in 1 .. Len(f.blocks) : b # f.point => g.blocks[b] = f.blocks[b]
  <2>1. Ready(f)
    BY DEF Building
  <2>2. LET h == Emit(f, x) IN
         /\ Ready(h) /\ Keeps(f, h) /\ h.order = f.order /\ h.point = f.point
         /\ Len(h.blocks) = Len(f.blocks)
         /\ h.blocks[f.point] = Append(f.blocks[f.point], x)
         /\ \A b \in 1 .. Len(f.blocks) : b # f.point => h.blocks[b] = f.blocks[b]
    BY <2>1, EmitIs
  <2>3. QED
    BY <2>2, Zenon
<1>2. f.point \in 1 .. Len(f.blocks) /\ f.point \notin Unplaced(f) /\ f.blocks \in Seq(Seq(Instr))
  BY OrderIs
<1>3. Unplaced(g) = Unplaced(f)
  BY <1>1 DEF Unplaced
<1> DEFINE s == f.blocks[f.point]
<1>4. s \in Seq(Instr) /\ x \in Instr /\ (s = <<>> \/ ~Last(s).term)
      /\ \A k \in 1 .. Len(s) : s[k].term => k = Len(s)
  BY <1>2 DEF Building, BlocksOK, OnlyLast, IsOpen, Unterminated, Fit
<1> HIDE DEF s
<1>5. /\ Append(s, x) \in Seq(Instr) /\ Len(Append(s, x)) = Len(s) + 1 /\ Len(s) \in Nat
      /\ Append(s, x)[Len(s) + 1] = x
      /\ \A i \in 1 .. Len(s) : Append(s, x)[i] = s[i]
      /\ \A i \in 1 .. Len(s) + 1 : i \in 1 .. Len(s) \/ i = Len(s) + 1
  BY <1>4, AppendParts
<1>6. Append(s, x) # <<>> /\ Last(Append(s, x)) = x
  BY <1>4, PushTop
<1>7. \A k \in 1 .. Len(s) : ~s[k].term
  <2>1. ASSUME NEW k \in 1 .. Len(s), s[k].term PROVE FALSE
    <3>1. k = Len(s)
      BY <1>4, <2>1
    <3>2. s # <<>> /\ Last(s) = s[k]
      BY <1>4, <3>1, <2>1 DEF Last
    <3>3. QED
      BY <1>4, <2>1, <3>2
  <2>2. QED
    BY <2>1
<1>8. OnlyLast(Append(s, x))
  <2>1. ASSUME NEW k \in 1 .. Len(s) + 1, Append(s, x)[k].term PROVE k = Len(s) + 1
    BY <1>5, <1>7, <2>1
  <2>2. QED
    BY <1>5, <2>1 DEF OnlyLast
<1>9. g.blocks[g.point] = Append(s, x)
  BY <1>1 DEF s
<1>10. IsOpen(g) <=> ~x.term
  BY <1>6, <1>9 DEF IsOpen, Unterminated
<1>11. ASSUME NEW b \in 1 .. Len(g.blocks)
       PROVE  /\ OnlyLast(g.blocks[b])
              /\ b \in Unplaced(g) => g.blocks[b] = <<>>
              /\ b \notin Unplaced(g) /\ b # g.point => ~Unterminated(g.blocks[b])
  <2>1. CASE b = f.point
    BY <1>1, <1>2, <1>3, <1>8, <1>9, <2>1
  <2>2. CASE b # f.point
    <3>1. g.blocks[b] = f.blocks[b]
      BY <1>1, <2>2
    <3>2. /\ OnlyLast(f.blocks[b])
          /\ b \in Unplaced(f) => f.blocks[b] = <<>>
          /\ b \notin Unplaced(f) /\ b # f.point => ~Unterminated(f.blocks[b])
      BY <1>1 DEF Building, BlocksOK
    <3>3. QED
      BY <1>1, <1>3, <3>1, <3>2
  <2>3. QED
    BY <2>1, <2>2
<1>12. g.order # <<>> /\ g.order[1] = 1 /\ Last(g.order) = g.point /\ IsInjective(g.order)
  BY <1>1 DEF Building, BlocksOK
<1>13. QED
  BY <1>1, <1>3, <1>10, <1>11, <1>12 DEF Building, BlocksOK

\* A block that waits is inserted after one that has its terminator.
LEMMA PlaceBuilds ==
  ASSUME NEW f, Building(f), ~IsOpen(f), NEW b \in Unplaced(f), NEW g, g = Place(f, b)
  PROVE  /\ Building(g) /\ Keeps(f, g) /\ g.point = b /\ Len(g.blocks) = Len(f.blocks)
         /\ IsOpen(g)
         /\ \A c : c \in Unplaced(g) <=> c \in Unplaced(f) /\ c # b
<1>1. /\ f.order \in Seq(1 .. Len(f.blocks)) /\ Len(f.blocks) \in Nat
      /\ Len(f.order) \in Nat \ {0} /\ DOMAIN f.order = 1 .. Len(f.order)
      /\ \A c : c \in Unplaced(f) <=>
                  c \in 1 .. Len(f.blocks) /\ ~\E k \in 1 .. Len(f.order) : f.order[k] = c
      /\ f.point \in 1 .. Len(f.blocks)
  BY OrderIs
<1>2. b \in 1 .. Len(f.blocks) /\ \A k \in 1 .. Len(f.order) : f.order[k] # b
  BY <1>1
<1>3. /\ Ready(g) /\ Keeps(f, g) /\ g.order = Append(f.order, b) /\ g.point = b
      /\ g.blocks = f.blocks
  <2>1. Ready(f)
    BY DEF Building
  <2>2. LET h == Place(f, b) IN
         /\ Ready(h) /\ Keeps(f, h) /\ h.order = Append(f.order, b) /\ h.point = b
         /\ h.blocks = f.blocks
    BY <1>2, <2>1, PlaceIs
  <2>3. QED
    BY <2>2, Zenon
<1> DEFINE s == f.order
           t == Append(f.order, b)
<1>4. /\ t \in Seq(1 .. Len(f.blocks)) /\ Len(t) = Len(s) + 1 /\ Len(s) \in Nat
      /\ t[Len(s) + 1] = b
      /\ \A i \in 1 .. Len(s) : t[i] = s[i]
      /\ \A i \in 1 .. Len(s) + 1 : i \in 1 .. Len(s) \/ i = Len(s) + 1
      /\ DOMAIN s = 1 .. Len(s) /\ DOMAIN t = 1 .. Len(s) + 1
  BY <1>1, <1>2, AppendParts
<1>5. t # <<>> /\ Last(t) = b
  BY <1>1, <1>2, PushTop
<1> HIDE DEF t
<1>6. \A c : c \in Range(t) <=> c = b \/ \E k \in 1 .. Len(s) : s[k] = c
  <2>1. \A c : c \in Range(t) <=> \E k \in 1 .. Len(s) + 1 : t[k] = c
    BY <1>4 DEF Range
  <2>2. Len(s) + 1 \in 1 .. Len(s) + 1 /\ \A k \in 1 .. Len(s) : k \in 1 .. Len(s) + 1
    BY <1>4
  <2>3. QED
    BY <1>4, <2>1, <2>2
<1>7. \A c : c \in Unplaced(g) <=> c \in Unplaced(f) /\ c # b
  <2>1. \A c : c \in Unplaced(g) <=> c \in 1 .. Len(f.blocks) /\ c \notin Range(t)
    BY <1>3 DEF Unplaced, t
  <2>2. QED
    BY <1>1, <1>6, <2>1
<1>8. IsInjective(t)
  <2>1. \A k, m \in 1 .. Len(s) : s[k] = s[m] => k = m
    BY <1>1 DEF Building, BlocksOK, IsInjective
  <2>2. \A k, m \in 1 .. Len(s) + 1 : t[k] = t[m] => k = m
    BY <1>2, <1>4, <2>1
  <2>3. QED
    BY <1>4, <2>2 DEF IsInjective
<1>9. t[1] = 1
  BY <1>1, <1>4 DEF Building, BlocksOK
<1>10. f.blocks[b] = <<>> /\ ~Unterminated(f.blocks[f.point])
  BY <1>2 DEF Building, BlocksOK, IsOpen
<1>11. IsOpen(g)
  BY <1>3, <1>10 DEF IsOpen, Unterminated
<1>12. ASSUME NEW c \in 1 .. Len(g.blocks)
       PROVE  /\ OnlyLast(g.blocks[c])
              /\ c \in Unplaced(g) => g.blocks[c] = <<>>
              /\ c \notin Unplaced(g) /\ c # g.point => ~Unterminated(g.blocks[c])
  <2>1. /\ OnlyLast(f.blocks[c])
        /\ c \in Unplaced(f) => f.blocks[c] = <<>>
        /\ c \notin Unplaced(f) /\ c # f.point => ~Unterminated(f.blocks[c])
    BY <1>3 DEF Building, BlocksOK
  <2>2. QED
    BY <1>3, <1>7, <1>10, <2>1
<1>13. g.order # <<>> /\ g.order[1] = 1 /\ Last(g.order) = g.point /\ IsInjective(g.order)
  BY <1>3, <1>5, <1>8, <1>9 DEF t
<1>14. QED
  BY <1>3, <1>7, <1>11, <1>12, <1>13 DEF Building, BlocksOK

\* A block's fall through to the next.
LEMMA BranchBuilds ==
  ASSUME NEW f, Building(f), NEW b \in Goals(f), NEW g, g = CreateBrIfOpen(f, b)
  PROVE  /\ Building(g) /\ Keeps(f, g) /\ g.point = f.point /\ Len(g.blocks) = Len(f.blocks)
         /\ ~IsOpen(g) /\ Unplaced(g) = Unplaced(f)
<1>1. Ready(f) /\ Fit(f, Term(0, <<b>>)) /\ Term(0, <<b>>).term
  BY InstrType DEF Building
<1>2. Keeps(f, g)
  BY <1>1, BranchIs
<1>3. CASE IsOpen(f)
  <2>1. g = Emit(f, Term(0, <<b>>))
    BY <1>3 DEF CreateBrIfOpen, CreateBr, IsOpen
  <2>2. QED
    BY <1>1, <1>3, <2>1, EmitBuilds
<1>4. CASE ~IsOpen(f)
  <2>1. g = f
    BY <1>4 DEF CreateBrIfOpen, IsOpen
  <2>2. QED
    BY <1>2, <1>4, <2>1
<1>5. QED
  BY <1>3, <1>4

\* Two steps of the builder are one.
LEMMA BuildsTwice ==
  ASSUME NEW f, NEW g, NEW h, Building(f), Building(g), Building(h), Keeps(f, g), Keeps(g, h)
  PROVE  Keeps(f, h)
BY KeepsTwice DEF Building, Ready

\* A branch from an open block.
LEMMA BrBuilds ==
  ASSUME NEW f, Building(f), IsOpen(f), NEW b \in Goals(f), NEW g, g = CreateBr(f, b)
  PROVE  /\ Building(g) /\ Keeps(f, g) /\ g.point = f.point /\ Len(g.blocks) = Len(f.blocks)
         /\ ~IsOpen(g) /\ Unplaced(g) = Unplaced(f)
<1>1. Fit(f, Term(0, <<b>>)) /\ Term(0, <<b>>).term
  BY InstrType DEF Building
<1>2. g = Emit(f, Term(0, <<b>>))
  BY DEF CreateBr
<1>3. QED
  BY <1>1, <1>2, EmitBuilds

\* A branch and the block that follows it.
LEMMA BrPlaceBuilds ==
  ASSUME NEW f, Building(f), IsOpen(f), NEW b \in Goals(f), NEW c \in Unplaced(f), NEW g,
         g = Place(CreateBr(f, b), c)
  PROVE  /\ Building(g) /\ Keeps(f, g) /\ g.point = c /\ Len(g.blocks) = Len(f.blocks) /\ IsOpen(g)
         /\ \A d : d \in Unplaced(g) <=> d \in Unplaced(f) /\ d # c
<1>1. PICK h : h = CreateBr(f, b)
  OBVIOUS
<1>2. /\ Building(h) /\ Keeps(f, h) /\ Len(h.blocks) = Len(f.blocks)
      /\ ~IsOpen(h) /\ Unplaced(h) = Unplaced(f)
  BY <1>1, BrBuilds
<1>3. g = Place(h, c)
  BY <1>1
<1>4. c \in Unplaced(h)
  BY <1>2
<1>5. /\ Building(g) /\ Keeps(h, g) /\ g.point = c /\ Len(g.blocks) = Len(h.blocks) /\ IsOpen(g)
      /\ \A d : d \in Unplaced(g) <=> d \in Unplaced(h) /\ d # c
  BY <1>2, <1>3, <1>4, PlaceBuilds
<1>6. QED
  BY <1>2, <1>5, BuildsTwice

\* The end of a block that may be open, and the next block.
LEMMA JoinPlaceBuilds ==
  ASSUME NEW f, Building(f), NEW b \in Goals(f), NEW c \in Unplaced(f), NEW g,
         g = Place(CreateBrIfOpen(f, b), c)
  PROVE  /\ Building(g) /\ Keeps(f, g) /\ g.point = c /\ Len(g.blocks) = Len(f.blocks) /\ IsOpen(g)
         /\ \A d : d \in Unplaced(g) <=> d \in Unplaced(f) /\ d # c
<1>1. PICK h : h = CreateBrIfOpen(f, b)
  OBVIOUS
<1>2. /\ Building(h) /\ Keeps(f, h) /\ Len(h.blocks) = Len(f.blocks)
      /\ ~IsOpen(h) /\ Unplaced(h) = Unplaced(f)
  BY <1>1, BranchBuilds
<1>3. g = Place(h, c)
  BY <1>1
<1>4. c \in Unplaced(h)
  BY <1>2
<1>5. /\ Building(g) /\ Keeps(h, g) /\ g.point = c /\ Len(g.blocks) = Len(h.blocks) /\ IsOpen(g)
      /\ \A d : d \in Unplaced(g) <=> d \in Unplaced(h) /\ d # c
  BY <1>2, <1>3, <1>4, PlaceBuilds
<1>6. QED
  BY <1>2, <1>5, BuildsTwice

\* A terminator and the block that follows it.
LEMMA TermPlaceBuilds ==
  ASSUME NEW f, Building(f), IsOpen(f), NEW x, Fit(f, x), x.term, NEW c \in Unplaced(f), NEW g,
         g = Place(Emit(f, x), c)
  PROVE  /\ Building(g) /\ Keeps(f, g) /\ g.point = c /\ Len(g.blocks) = Len(f.blocks) /\ IsOpen(g)
         /\ \A d : d \in Unplaced(g) <=> d \in Unplaced(f) /\ d # c
<1>1. PICK h : h = Emit(f, x)
  OBVIOUS
<1>2. /\ Building(h) /\ Keeps(f, h) /\ Len(h.blocks) = Len(f.blocks)
      /\ ~IsOpen(h) /\ Unplaced(h) = Unplaced(f)
  BY <1>1, EmitBuilds
<1>3. g = Place(h, c)
  BY <1>1
<1>4. c \in Unplaced(h)
  BY <1>2
<1>5. /\ Building(g) /\ Keeps(h, g) /\ g.point = c /\ Len(g.blocks) = Len(h.blocks) /\ IsOpen(g)
      /\ \A d : d \in Unplaced(g) <=> d \in Unplaced(h) /\ d # c
  BY <1>2, <1>3, <1>4, PlaceBuilds
<1>6. QED
  BY <1>2, <1>5, BuildsTwice

\* New blocks may be branched to.
LEMMA NewGoals ==
  ASSUME NEW f, Building(f), NEW n \in Nat, NEW g, g = Create(f, n)
  PROVE  /\ Building(g) /\ Keeps(f, g) /\ g.point = f.point /\ Len(g.blocks) = Len(f.blocks) + n
         /\ IsOpen(g) <=> IsOpen(f)
         /\ \A m \in 1 .. n : Len(f.blocks) + m \in Goals(g) /\ Len(f.blocks) + m \in Unplaced(g)
         /\ \A b : b \in Unplaced(g) <=>
                     b \in Unplaced(f) \/ b \in Len(f.blocks) + 1 .. Len(f.blocks) + n
         /\ \A b \in Unplaced(f) : b \in 2 .. Len(f.blocks)
         /\ Len(f.blocks) \in Nat \ {0}
<1>1. /\ Building(g) /\ Keeps(f, g) /\ g.point = f.point /\ Len(g.blocks) = Len(f.blocks) + n
      /\ IsOpen(g) <=> IsOpen(f)
      /\ \A b : b \in Unplaced(g) <=>
                  b \in Unplaced(f) \/ b \in Len(f.blocks) + 1 .. Len(f.blocks) + n
  BY CreateBuilds
<1>2. Len(f.blocks) \in Nat /\ 1 \in 1 .. Len(f.blocks) /\ 1 \notin Unplaced(f)
  BY OrderIs
<1>3. \A b \in Unplaced(f) : b \in 1 .. Len(f.blocks) /\ b # 1
  BY <1>2 DEF Unplaced
<1>4. \A b \in Unplaced(f) : b \in 2 .. Len(f.blocks)
  BY <1>2, <1>3
<1>5. ASSUME NEW m \in 1 .. n
      PROVE  /\ Len(f.blocks) + m \in 2 .. Len(f.blocks) + n
             /\ Len(f.blocks) + m \in Len(f.blocks) + 1 .. Len(f.blocks) + n
  BY <1>2
<1>6. \A m \in 1 .. n : Len(f.blocks) + m \in Goals(g) /\ Len(f.blocks) + m \in Unplaced(g)
  BY <1>1, <1>5 DEF Goals
<1>7. QED
  BY <1>1, <1>2, <1>4, <1>6

\* An expression leaves the builder in an open block, the same one unless the
\* expression has branches.
LEMMA EvaluateBuilds ==
  ASSUME NEW f, Building(f), IsOpen(f), NEW at \in Nat, NEW branching \in BOOLEAN, NEW g,
         g = Evaluate(f, at, branching)
  PROVE  /\ Building(g) /\ Keeps(f, g) /\ IsOpen(g) /\ Len(f.blocks) <= Len(g.blocks)
         /\ \A b : b \in Unplaced(g) <=> b \in Unplaced(f)
         /\ ~branching => g.point = f.point
<1>1. CASE branching
  <2> DEFINE n == Len(f.blocks)
  <2>1. PICK c : c = Create(f, 3)
    OBVIOUS
  <2>2. /\ Building(c) /\ Keeps(f, c) /\ Len(c.blocks) = n + 3 /\ IsOpen(c)
        /\ \A m \in 1 .. 3 : n + m \in Goals(c) /\ n + m \in Unplaced(c)
        /\ \A b : b \in Unplaced(c) <=> b \in Unplaced(f) \/ b \in n + 1 .. n + 3
        /\ \A b \in Unplaced(f) : b \in 2 .. n
        /\ n \in Nat \ {0}
    BY <2>1, NewGoals
  <2>3. /\ n + 1 \in Unplaced(c) /\ n + 2 \in Unplaced(c) /\ n + 3 \in Unplaced(c)
        /\ n + 1 \in Goals(c) /\ n + 2 \in Goals(c) /\ n + 3 \in Goals(c)
    BY <2>2
  <2>4. Fit(c, Term(at, <<n + 1, n + 2>>)) /\ Term(at, <<n + 1, n + 2>>).term
    BY <2>2, <2>3, InstrType DEF Building
  <2>5. PICK d : d = Place(Emit(c, Term(at, <<n + 1, n + 2>>)), n + 1)
    OBVIOUS
  <2>6. /\ Building(d) /\ Keeps(c, d) /\ IsOpen(d) /\ Len(d.blocks) = n + 3
        /\ \A b : b \in Unplaced(d) <=> b \in Unplaced(c) /\ b # n + 1
    BY SMTT(60), <2>2, <2>3, <2>4, <2>5, TermPlaceBuilds
  <2>7. n + 3 \in Goals(d) /\ n + 2 \in Unplaced(d) /\ n + 3 \in Unplaced(d)
    BY <2>2, <2>3, <2>6 DEF Goals
  <2>8. PICK e : e = Place(CreateBr(d, n + 3), n + 2)
    OBVIOUS
  <2>9. /\ Building(e) /\ Keeps(d, e) /\ IsOpen(e) /\ Len(e.blocks) = n + 3
        /\ \A b : b \in Unplaced(e) <=> b \in Unplaced(d) /\ b # n + 2
    BY <2>6, <2>7, <2>8, BrPlaceBuilds
  <2>10. n + 3 \in Goals(e) /\ n + 3 \in Unplaced(e)
    BY <2>2, <2>7, <2>9 DEF Goals
  <2>11. g = Place(CreateBr(e, n + 3), n + 3)
    BY <1>1, <2>1, <2>5, <2>8 DEF Evaluate, LastBlock
  <2>12. /\ Building(g) /\ Keeps(e, g) /\ IsOpen(g) /\ Len(g.blocks) = n + 3
         /\ \A b : b \in Unplaced(g) <=> b \in Unplaced(e) /\ b # n + 3
    BY <2>9, <2>10, <2>11, BrPlaceBuilds
  <2>13. Keeps(f, d) /\ Keeps(d, g)
    BY <2>2, <2>6, <2>9, <2>12, BuildsTwice
  <2>14. Keeps(f, g)
    BY <2>6, <2>12, <2>13, BuildsTwice
  <2>15. \A b : b \in n + 1 .. n + 3 <=> b = n + 1 \/ b = n + 2 \/ b = n + 3
    BY SMTT(60), <2>2
  <2>16. \A b \in Unplaced(f) : b # n + 1 /\ b # n + 2 /\ b # n + 3
    BY <2>2
  <2>17. \A b : b \in Unplaced(g) <=> b \in Unplaced(f)
    BY <2>2, <2>6, <2>9, <2>12, <2>15, <2>16
  <2>18. Len(f.blocks) <= Len(g.blocks)
    BY <2>2, <2>12
  <2>19. QED
    BY <1>1, <2>12, <2>14, <2>17, <2>18
<1>2. CASE ~branching /\ at = 0
  <2>1. g = f
    BY <1>2 DEF Evaluate
  <2>2. Len(f.blocks) <= Len(f.blocks) /\ Keeps(f, f)
    BY DEF Building, Ready, IrTyped, Keeps
  <2>3. QED
    BY <2>1, <2>2
<1>3. CASE ~branching /\ at # 0
  <2>1. g = Emit(f, Eval(at))
    BY <1>3 DEF Evaluate
  <2>2. Fit(f, Eval(at)) /\ ~Eval(at).term
    BY InstrType DEF Building
  <2>3. /\ Building(g) /\ Keeps(f, g) /\ g.point = f.point /\ Len(g.blocks) = Len(f.blocks)
        /\ IsOpen(g) /\ Unplaced(g) = Unplaced(f)
    BY <2>1, <2>2, EmitBuilds
  <2>4. Len(f.blocks) <= Len(g.blocks)
    BY <2>3, OrderIs
  <2>5. QED
    BY <2>3, <2>4
<1>4. QED
  BY <1>1, <1>2, <1>3

-----------------------------------------------------------------------------
(* What each statement does to the function. *)

\* An if up to its statement: the else and the last block wait, or the last one.
LEMMA IfGrows ==
  ASSUME NEW f, Building(f), IsOpen(f), NEW k \in {2, 3}, NEW branching \in BOOLEAN, NEW at \in Nat, NEW g,
         LET n == LastBlock(f)
             cond == Evaluate(Create(f, k), 0, branching)
         IN  g = Place(Emit(cond, Term(at, <<n + 1, n + 2>>)), n + 1)
  PROVE  /\ Building(g) /\ Keeps(f, g) /\ IsOpen(g)
         /\ \A b : b \in Unplaced(g) <=>
                     b \in Unplaced(f) \/ b \in Len(f.blocks) + 2 .. Len(f.blocks) + k
<1> DEFINE n == Len(f.blocks)
<1>1. PICK c : c = Create(f, k)
  OBVIOUS
<1>2. k \in Nat /\ 1 \in 1 .. k /\ 2 \in 1 .. k
  OBVIOUS
<1>3. /\ Building(c) /\ Keeps(f, c) /\ Len(c.blocks) = n + k /\ IsOpen(c)
      /\ \A m \in 1 .. k : n + m \in Goals(c) /\ n + m \in Unplaced(c)
      /\ \A b : b \in Unplaced(c) <=> b \in Unplaced(f) \/ b \in n + 1 .. n + k
      /\ \A b \in Unplaced(f) : b \in 2 .. n
      /\ n \in Nat \ {0}
  BY <1>1, <1>2, NewGoals
<1>4. PICK e : e = Evaluate(c, 0, branching)
  OBVIOUS
<1>5. /\ Building(e) /\ Keeps(c, e) /\ IsOpen(e) /\ Len(c.blocks) <= Len(e.blocks)
      /\ \A b : b \in Unplaced(e) <=> b \in Unplaced(c)
  BY <1>3, <1>4, EvaluateBuilds
<1>6. n + 1 \in Goals(c) /\ n + 2 \in Goals(c) /\ n + 1 \in Unplaced(c)
  BY <1>2, <1>3
<1>7. n + 1 \in Goals(e) /\ n + 2 \in Goals(e) /\ n + 1 \in Unplaced(e)
  <2>1. Len(e.blocks) \in Nat /\ Len(c.blocks) \in Nat
    BY <1>3, <1>5, OrderIs
  <2>2. QED
    BY <1>5, <1>6, <2>1 DEF Goals
<1>8. Fit(e, Term(at, <<n + 1, n + 2>>)) /\ Term(at, <<n + 1, n + 2>>).term
  BY <1>5, <1>7, InstrType DEF Building
<1>9. g = Place(Emit(e, Term(at, <<n + 1, n + 2>>)), n + 1)
  BY <1>1, <1>4 DEF LastBlock
<1>10. /\ Building(g) /\ Keeps(e, g) /\ IsOpen(g)
       /\ \A d : d \in Unplaced(g) <=> d \in Unplaced(e) /\ d # n + 1
  BY <1>5, <1>7, <1>8, <1>9, TermPlaceBuilds
<1>11. Keeps(f, e)
  BY <1>3, <1>5, BuildsTwice
<1>12. Keeps(f, g)
  BY <1>5, <1>10, <1>11, BuildsTwice
<1>13. \A b : b \in n + 2 .. n + k <=> b \in n + 1 .. n + k /\ b # n + 1
  BY <1>2, <1>3
<1>14. n + 1 \notin Unplaced(f)
  BY <1>3
<1>15. \A b : b \in Unplaced(g) <=> b \in Unplaced(f) \/ b \in n + 2 .. n + k
  BY <1>3, <1>5, <1>10, <1>13, <1>14
<1>16. QED
  BY <1>10, <1>12, <1>15

\* A for or a while up to its statement: the increment and the last block wait.
LEMMA ForGrows ==
  ASSUME NEW f, Building(f), IsOpen(f), NEW cond \in BOOLEAN, NEW branching \in BOOLEAN, NEW at \in Nat,
         NEW g,
         LET n == LastBlock(f)
             head == Place(CreateBr(Create(f, 4), n + 1), n + 1)
             test == IF cond
                     THEN Emit(Evaluate(head, 0, branching), Term(at, <<n + 3, n + 4>>))
                     ELSE Emit(head, Term(at, <<n + 3>>))
         IN  g = Place(test, n + 3)
  PROVE  /\ Building(g) /\ Keeps(f, g) /\ IsOpen(g)
         /\ \A b : b \in Unplaced(g) <=>
                     b \in Unplaced(f) \/ b = Len(f.blocks) + 2 \/ b = Len(f.blocks) + 4
<1> DEFINE n == Len(f.blocks)
<1>1. PICK c : c = Create(f, 4)
  OBVIOUS
<1>2. /\ Building(c) /\ Keeps(f, c) /\ Len(c.blocks) = n + 4 /\ IsOpen(c)
      /\ \A m \in 1 .. 4 : n + m \in Goals(c) /\ n + m \in Unplaced(c)
      /\ \A b : b \in Unplaced(c) <=> b \in Unplaced(f) \/ b \in n + 1 .. n + 4
      /\ \A b \in Unplaced(f) : b \in 2 .. n
      /\ n \in Nat \ {0}
  BY <1>1, NewGoals
<1>3. n + 1 \in Goals(c) /\ n + 1 \in Unplaced(c) /\ n + 3 \in Unplaced(c)
  BY <1>2
<1>4. PICK h : h = Place(CreateBr(c, n + 1), n + 1)
  OBVIOUS
<1>5. /\ Building(h) /\ Keeps(c, h) /\ IsOpen(h) /\ Len(h.blocks) = n + 4
      /\ \A b : b \in Unplaced(h) <=> b \in Unplaced(c) /\ b # n + 1
  BY <1>2, <1>3, <1>4, BrPlaceBuilds
<1>6. PICK e : e = IF cond THEN Evaluate(h, 0, branching) ELSE h
  OBVIOUS
<1>7. /\ Building(e) /\ Keeps(h, e) /\ IsOpen(e) /\ Len(h.blocks) <= Len(e.blocks)
      /\ \A b : b \in Unplaced(e) <=> b \in Unplaced(h)
  <2>1. CASE cond
    BY <1>5, <1>6, <2>1, EvaluateBuilds
  <2>2. CASE ~cond
    <3>1. e = h
      BY <1>6, <2>2
    <3>2. Len(h.blocks) <= Len(h.blocks) /\ Keeps(h, h)
      BY <1>5 DEF Building, Ready, IrTyped, Keeps
    <3>3. QED
      BY <1>5, <3>1, <3>2
  <2>3. QED
    BY <2>1, <2>2
<1>8. n + 3 \in Goals(e) /\ n + 4 \in Goals(e) /\ n + 3 \in Unplaced(e)
  <2> HIDE DEF n
  <2>1. n + 3 \in 2 .. n + 4 /\ n + 4 \in 2 .. n + 4 /\ n + 3 # n + 1
    BY <1>2
  <2>2. Len(e.blocks) \in Nat
    BY <1>7, OrderIs
  <2>3. n + 3 \in Goals(e) /\ n + 4 \in Goals(e)
    BY <1>2, <1>5, <1>7, <2>1, <2>2 DEF Goals
  <2>4. QED
    BY <1>3, <1>5, <1>7, <2>1, <2>3
<1>9. PICK x : x = IF cond THEN Term(at, <<n + 3, n + 4>>) ELSE Term(at, <<n + 3>>)
  OBVIOUS
<1>10. Fit(e, x) /\ x.term
  BY <1>7, <1>8, <1>9, InstrType DEF Building
<1>11. g = Place(Emit(e, x), n + 3)
  BY <1>1, <1>4, <1>6, <1>9 DEF LastBlock
<1>12. /\ Building(g) /\ Keeps(e, g) /\ IsOpen(g)
       /\ \A b : b \in Unplaced(g) <=> b \in Unplaced(e) /\ b # n + 3
  BY <1>7, <1>8, <1>10, <1>11, TermPlaceBuilds
<1>13. Keeps(f, h) /\ Keeps(h, g)
  BY <1>2, <1>5, <1>7, <1>12, BuildsTwice
<1>14. Keeps(f, g)
  BY <1>5, <1>12, <1>13, BuildsTwice
<1>15. \A b : b \in n + 1 .. n + 4 <=> b = n + 1 \/ b = n + 2 \/ b = n + 3 \/ b = n + 4
  BY SMTT(60), <1>2
<1>16. \A b \in Unplaced(f) : b # n + 1 /\ b # n + 3
  BY <1>2
<1>17. n + 2 # n + 1 /\ n + 2 # n + 3 /\ n + 4 # n + 1 /\ n + 4 # n + 3
  BY SMTT(60), <1>2
<1>18. \A b : b \in Unplaced(g) <=> b \in Unplaced(f) \/ b = n + 2 \/ b = n + 4
  BY <1>2, <1>5, <1>7, <1>12, <1>15, <1>16, <1>17
<1>19. QED
  BY <1>12, <1>14, <1>18

\* A do up to its statement: the condition and the last block wait.
LEMMA DoGrows ==
  ASSUME NEW f, Building(f), IsOpen(f), NEW g,
         LET n == LastBlock(f) IN g = Place(CreateBr(Create(f, 3), n + 1), n + 1)
  PROVE  /\ Building(g) /\ Keeps(f, g) /\ IsOpen(g)
         /\ \A b : b \in Unplaced(g) <=>
                     b \in Unplaced(f) \/ b = Len(f.blocks) + 2 \/ b = Len(f.blocks) + 3
<1> DEFINE n == Len(f.blocks)
<1>1. PICK c : c = Create(f, 3)
  OBVIOUS
<1>2. /\ Building(c) /\ Keeps(f, c) /\ Len(c.blocks) = n + 3 /\ IsOpen(c)
      /\ \A m \in 1 .. 3 : n + m \in Goals(c) /\ n + m \in Unplaced(c)
      /\ \A b : b \in Unplaced(c) <=> b \in Unplaced(f) \/ b \in n + 1 .. n + 3
      /\ \A b \in Unplaced(f) : b \in 2 .. n
      /\ n \in Nat \ {0}
  BY <1>1, NewGoals
<1>3. n + 1 \in Goals(c) /\ n + 1 \in Unplaced(c)
  BY <1>2
<1>4. g = Place(CreateBr(c, n + 1), n + 1)
  BY <1>1 DEF LastBlock
<1>5. /\ Building(g) /\ Keeps(c, g) /\ IsOpen(g)
      /\ \A b : b \in Unplaced(g) <=> b \in Unplaced(c) /\ b # n + 1
  BY <1>2, <1>3, <1>4, BrPlaceBuilds
<1>6. Keeps(f, g)
  BY <1>2, <1>5, BuildsTwice
<1>7. \A b : b \in n + 1 .. n + 3 <=> b = n + 1 \/ b = n + 2 \/ b = n + 3
  BY SMTT(60), <1>2
<1>8. n + 1 \notin Unplaced(f) /\ n + 2 # n + 1 /\ n + 3 # n + 1
  BY <1>2
<1>9. \A b : b \in Unplaced(g) <=> b \in Unplaced(f) \/ b = n + 2 \/ b = n + 3
  BY <1>2, <1>5, <1>7, <1>8
<1>10. QED
  BY <1>5, <1>6, <1>9

\* A switch up to its statement: the default and the last block wait; the
\* builder's block has its terminator.
LEMMA SwitchGrows ==
  ASSUME NEW f, Building(f), IsOpen(f), NEW at \in Nat, NEW g,
         g = Emit(Create(f, 2), Term(at, <<LastBlock(f) + 1>>))
  PROVE  /\ Building(g) /\ Keeps(f, g) /\ ~IsOpen(g)
         /\ \A b : b \in Unplaced(g) <=>
                     b \in Unplaced(f) \/ b = Len(f.blocks) + 1 \/ b = Len(f.blocks) + 2
<1> DEFINE n == Len(f.blocks)
<1>1. PICK c : c = Create(f, 2)
  OBVIOUS
<1>2. /\ Building(c) /\ Keeps(f, c) /\ Len(c.blocks) = n + 2 /\ IsOpen(c)
      /\ \A m \in 1 .. 2 : n + m \in Goals(c) /\ n + m \in Unplaced(c)
      /\ \A b : b \in Unplaced(c) <=> b \in Unplaced(f) \/ b \in n + 1 .. n + 2
      /\ n \in Nat \ {0}
  BY <1>1, NewGoals
<1>3. n + 1 \in Goals(c)
  BY <1>2
<1>4. g = Emit(c, Term(at, <<n + 1>>))
  BY <1>1 DEF LastBlock
<1>5. Fit(c, Term(at, <<n + 1>>)) /\ Term(at, <<n + 1>>).term
  BY <1>2, <1>3, InstrType DEF Building
<1>6. Building(g) /\ Keeps(c, g) /\ ~IsOpen(g) /\ Unplaced(g) = Unplaced(c)
  BY <1>2, <1>4, <1>5, EmitBuilds
<1>7. Keeps(f, g)
  BY <1>2, <1>6, BuildsTwice
<1>8. \A b : b \in n + 1 .. n + 2 <=> b = n + 1 \/ b = n + 2
  BY <1>2
<1>9. \A b : b \in Unplaced(g) <=> b \in Unplaced(f) \/ b = n + 1 \/ b = n + 2
  BY <1>2, <1>6, <1>8
<1>10. QED
  BY <1>6, <1>7, <1>9

\* A loop's end: the increment's block and the last one are inserted.
LEMMA ForEndGrows ==
  ASSUME NEW f, Building(f), NEW l, l.inc \in Unplaced(f), l.last \in Unplaced(f), l.inc # l.last,
         l.cond \in Goals(f), l.inc \in Goals(f), NEW step \in BOOLEAN, NEW at \in Nat, NEW g,
         LET inc == Place(CreateBrIfOpen(f, l.inc), l.inc)
             stepped == IF step THEN Emit(inc, Eval(at)) ELSE inc
         IN  g = Place(CreateBr(stepped, l.cond), l.last)
  PROVE  /\ Building(g) /\ Keeps(f, g) /\ IsOpen(g) /\ Len(g.blocks) = Len(f.blocks)
         /\ \A b : b \in Unplaced(g) <=> b \in Unplaced(f) /\ b # l.inc /\ b # l.last
<1>1. PICK h : h = Place(CreateBrIfOpen(f, l.inc), l.inc)
  OBVIOUS
<1>2. /\ Building(h) /\ Keeps(f, h) /\ Len(h.blocks) = Len(f.blocks) /\ IsOpen(h)
      /\ \A d : d \in Unplaced(h) <=> d \in Unplaced(f) /\ d # l.inc
  BY <1>1, JoinPlaceBuilds
<1>3. PICK e : e = IF step THEN Emit(h, Eval(at)) ELSE h
  OBVIOUS
<1>4. /\ Building(e) /\ Keeps(h, e) /\ IsOpen(e) /\ Len(e.blocks) = Len(h.blocks)
      /\ Unplaced(e) = Unplaced(h)
  <2>1. CASE step
    <3>1. Fit(h, Eval(at)) /\ ~Eval(at).term
      BY <1>2, InstrType DEF Building
    <3>2. e = Emit(h, Eval(at))
      BY <1>3, <2>1
    <3>3. QED
      BY <1>2, <3>1, <3>2, EmitBuilds
  <2>2. CASE ~step
    <3>1. e = h
      BY <1>3, <2>2
    <3>2. Keeps(h, h)
      BY <1>2 DEF Building, Ready, IrTyped, Keeps
    <3>3. QED
      BY <1>2, <3>1, <3>2
  <2>3. QED
    BY <2>1, <2>2
<1>5. l.cond \in Goals(e) /\ l.last \in Unplaced(e)
  BY <1>2, <1>4 DEF Goals
<1>6. g = Place(CreateBr(e, l.cond), l.last)
  BY <1>1, <1>3
<1>7. /\ Building(g) /\ Keeps(e, g) /\ Len(g.blocks) = Len(e.blocks) /\ IsOpen(g)
      /\ \A d : d \in Unplaced(g) <=> d \in Unplaced(e) /\ d # l.last
  BY <1>4, <1>5, <1>6, BrPlaceBuilds
<1>8. Keeps(f, e)
  BY <1>2, <1>4, BuildsTwice
<1>9. Keeps(f, g)
  BY <1>4, <1>7, <1>8, BuildsTwice
<1>10. QED
  BY <1>2, <1>4, <1>7, <1>9

\* The end of a do: the condition's block and the last one are inserted.
LEMMA DoEndGrows ==
  ASSUME NEW f, Building(f), NEW l, l.cond \in Unplaced(f), l.last \in Unplaced(f), l.cond # l.last,
         l.body \in Goals(f), l.cond \in Goals(f), l.last \in Goals(f),
         NEW branching \in BOOLEAN, NEW at \in Nat, NEW g,
         LET cond == Evaluate(Place(CreateBrIfOpen(f, l.cond), l.cond), 0, branching)
         IN  g = Place(Emit(cond, Term(at, <<l.body, l.last>>)), l.last)
  PROVE  /\ Building(g) /\ Keeps(f, g) /\ IsOpen(g)
         /\ \A b : b \in Unplaced(g) <=> b \in Unplaced(f) /\ b # l.cond /\ b # l.last
<1>1. PICK h : h = Place(CreateBrIfOpen(f, l.cond), l.cond)
  OBVIOUS
<1>2. /\ Building(h) /\ Keeps(f, h) /\ Len(h.blocks) = Len(f.blocks) /\ IsOpen(h)
      /\ \A d : d \in Unplaced(h) <=> d \in Unplaced(f) /\ d # l.cond
  BY <1>1, JoinPlaceBuilds
<1>3. PICK e : e = Evaluate(h, 0, branching)
  OBVIOUS
<1>4. /\ Building(e) /\ Keeps(h, e) /\ IsOpen(e) /\ Len(h.blocks) <= Len(e.blocks)
      /\ \A b : b \in Unplaced(e) <=> b \in Unplaced(h)
  BY <1>2, <1>3, EvaluateBuilds
<1>5. l.body \in Goals(e) /\ l.last \in Goals(e) /\ l.last \in Unplaced(e)
  <2>1. Len(e.blocks) \in Nat /\ Len(f.blocks) \in Nat
    BY <1>4, OrderIs
  <2>2. QED
    BY <1>2, <1>4, <2>1 DEF Goals
<1>6. Fit(e, Term(at, <<l.body, l.last>>)) /\ Term(at, <<l.body, l.last>>).term
  BY <1>4, <1>5, InstrType DEF Building
<1>7. g = Place(Emit(e, Term(at, <<l.body, l.last>>)), l.last)
  BY <1>1, <1>3
<1>8. /\ Building(g) /\ Keeps(e, g) /\ IsOpen(g)
      /\ \A d : d \in Unplaced(g) <=> d \in Unplaced(e) /\ d # l.last
  BY <1>4, <1>5, <1>6, <1>7, TermPlaceBuilds
<1>9. Keeps(f, e)
  BY <1>2, <1>4, BuildsTwice
<1>10. Keeps(f, g)
  BY <1>4, <1>8, <1>9, BuildsTwice
<1>11. QED
  BY <1>2, <1>4, <1>8, <1>10

\* The end of a switch without a default: the default block, which holds no
\* more than a branch, and the last one are inserted.
LEMMA NoDefaultGrows ==
  ASSUME NEW f, Building(f), ~IsOpen(f), NEW d \in Unplaced(f), NEW b \in Unplaced(f), d # b, b \in Goals(f),
         NEW g,
         LET none == CreateBr(Place(f, d), b)
             end == IF Unterminated(none.blocks[d]) THEN CreateBr(SetInsertPoint(none, d), b) ELSE none
         IN  g = Place(end, b)
  PROVE  /\ Building(g) /\ Keeps(f, g) /\ IsOpen(g) /\ Len(g.blocks) = Len(f.blocks)
         /\ \A c : c \in Unplaced(g) <=> c \in Unplaced(f) /\ c # d /\ c # b
<1>1. PICK h : h = Place(f, d)
  OBVIOUS
<1>2. /\ Building(h) /\ Keeps(f, h) /\ h.point = d /\ Len(h.blocks) = Len(f.blocks) /\ IsOpen(h)
      /\ \A c : c \in Unplaced(h) <=> c \in Unplaced(f) /\ c # d
  BY <1>1, PlaceBuilds
<1>3. b \in Goals(h) /\ b \in Unplaced(h)
  BY <1>2 DEF Goals
<1>4. PICK e : e = CreateBr(h, b)
  OBVIOUS
<1>5. e.point = d /\ ~IsOpen(e)
  BY <1>2, <1>3, <1>4, BrBuilds
<1>6. ~Unterminated(e.blocks[d])
  BY <1>5 DEF IsOpen
<1>7. g = Place(CreateBr(h, b), b)
  BY <1>1, <1>4, <1>6
<1>8. /\ Building(g) /\ Keeps(h, g) /\ Len(g.blocks) = Len(h.blocks) /\ IsOpen(g)
      /\ \A c : c \in Unplaced(g) <=> c \in Unplaced(h) /\ c # b
  BY <1>2, <1>3, <1>7, BrPlaceBuilds
<1>9. Keeps(f, g)
  BY <1>2, <1>8, BuildsTwice
<1>10. QED
  BY <1>2, <1>8, <1>9

\* The end of a switch with one, whose block is the builder's if that is open.
LEMMA DefaultEndGrows ==
  ASSUME NEW f, Building(f), NEW d \in Goals(f), d \notin Unplaced(f), IsOpen(f) => f.point = d,
         NEW b \in Unplaced(f), b \in Goals(f), NEW g,
         LET end == IF Unterminated(f.blocks[d]) THEN CreateBr(SetInsertPoint(f, d), b) ELSE f
         IN  g = Place(end, b)
  PROVE  /\ Building(g) /\ Keeps(f, g) /\ IsOpen(g) /\ Len(g.blocks) = Len(f.blocks)
         /\ \A c : c \in Unplaced(g) <=> c \in Unplaced(f) /\ c # b
<1>1. CASE Unterminated(f.blocks[d])
  <2>1. d \in 1 .. Len(f.blocks)
    BY OrderIs DEF Goals
  <2>2. f.point = d
    BY <1>1, <2>1 DEF Building, BlocksOK
  <2>3. SetInsertPoint(f, d) = f
    <3>1. f \in [blocks : Seq(Seq(Instr)), order : Seq(Nat), point : Nat]
      BY DEF Building, Ready, IrTyped
    <3>2. QED
      BY <2>2, <3>1 DEF SetInsertPoint
  <2>4. g = Place(CreateBr(f, b), b) /\ IsOpen(f)
    BY <1>1, <2>2, <2>3 DEF IsOpen
  <2>5. QED
    BY <2>4, BrPlaceBuilds
<1>2. CASE ~Unterminated(f.blocks[d])
  <2>1. ~IsOpen(f)
    BY <1>2 DEF IsOpen
  <2>2. g = Place(f, b)
    BY <1>2
  <2>3. QED
    BY <2>1, <2>2, PlaceBuilds
<1>3. QED
  BY <1>1, <1>2

\* What a switch's instruction is after a case has been added to one.
LEMMA AddCaseBuilds ==
  ASSUME NEW f, Building(f), NEW x, IsSwitchInst(f, x), NEW b \in Goals(f), NEW g, g = AddCase(f, x, b)
  PROVE  /\ Building(g) /\ g.point = f.point /\ Len(g.blocks) = Len(f.blocks)
         /\ IsOpen(g) <=> IsOpen(f)
         /\ Unplaced(g) = Unplaced(f)
         /\ \A y : IsSwitchInst(f, y) =>
              Inst(g, y).to = IF y = x THEN Append(Inst(f, y).to, b) ELSE Inst(f, y).to
<1>1. /\ Ready(g) /\ Len(g.blocks) = Len(f.blocks)
      /\ g.order = f.order /\ g.point = f.point
      /\ \A c \in 1 .. Len(f.blocks) :
           /\ Len(g.blocks[c]) = Len(f.blocks[c])
           /\ \A k \in 1 .. Len(f.blocks[c]) :
                /\ g.blocks[c][k].term = f.blocks[c][k].term /\ g.blocks[c][k].at = f.blocks[c][k].at
                /\ g.blocks[c][k].to =
                     IF c = x[1] /\ k = x[2] THEN Append(f.blocks[c][k].to, b) ELSE f.blocks[c][k].to
  <2>1. Ready(f)
    BY DEF Building
  <2>2. /\ Ready(g) /\ Carries(f, g) /\ Len(g.blocks) = Len(f.blocks)
        /\ g.order = f.order /\ g.point = f.point
        /\ OneTargetMore(f, x, b, g)
    BY <2>1, AddCaseIs
  <2>3. QED
    BY <2>2, Zenon DEF OneTargetMore
<1>2. /\ f.point \in 1 .. Len(f.blocks) /\ f.blocks \in Seq(Seq(Instr)) /\ Len(f.blocks) \in Nat
  BY OrderIs
<1>3. g.blocks \in Seq(Seq(Instr))
  BY <1>1 DEF Ready, IrTyped
<1>4. Unplaced(g) = Unplaced(f)
  BY <1>1 DEF Unplaced
<1>5. ASSUME NEW c \in 1 .. Len(f.blocks)
      PROVE  /\ g.blocks[c] = <<>> <=> f.blocks[c] = <<>>
             /\ OnlyLast(f.blocks[c]) => OnlyLast(g.blocks[c])
             /\ Unterminated(g.blocks[c]) <=> Unterminated(f.blocks[c])
  <2> DEFINE s == f.blocks[c]
  <2> DEFINE t == g.blocks[c]
  <2>1. s \in Seq(Instr) /\ t \in Seq(Instr) /\ Len(s) = Len(t) /\ Len(s) \in Nat
    BY SMTT(60), <1>1, <1>2, <1>3
  <2>2. \A k \in 1 .. Len(s) : t[k].term = s[k].term
    BY <1>1
  <2> HIDE DEF s, t
  <2>3. t = <<>> <=> s = <<>>
    BY <2>1
  <2>4. OnlyLast(s) => OnlyLast(t)
    BY <2>1, <2>2 DEF OnlyLast
  <2>5. Unterminated(t) <=> Unterminated(s)
    <3>1. CASE s = <<>>
      BY <2>3, <3>1 DEF Unterminated
    <3>2. CASE s # <<>>
      <4>1. Len(s) \in 1 .. Len(s)
        BY <2>1, <3>2
      <4>2. Last(t).term = Last(s).term
        BY <2>1, <2>2, <4>1 DEF Last
      <4>3. QED
        BY <2>3, <3>2, <4>2 DEF Unterminated
    <3>3. QED
      BY <3>1, <3>2
  <2>6. QED
    BY <2>3, <2>4, <2>5 DEF s, t
<1>6. IsOpen(g) <=> IsOpen(f)
  BY <1>1, <1>2, <1>5 DEF IsOpen
<1>7. ASSUME NEW c \in 1 .. Len(g.blocks)
      PROVE  /\ OnlyLast(g.blocks[c])
             /\ c \in Unplaced(g) => g.blocks[c] = <<>>
             /\ c \notin Unplaced(g) /\ c # g.point => ~Unterminated(g.blocks[c])
  <2>1. /\ OnlyLast(f.blocks[c])
        /\ c \in Unplaced(f) => f.blocks[c] = <<>>
        /\ c \notin Unplaced(f) /\ c # f.point => ~Unterminated(f.blocks[c])
    BY <1>1 DEF Building, BlocksOK
  <2>2. QED
    BY <1>1, <1>4, <1>5, <2>1
<1>8. g.order # <<>> /\ g.order[1] = 1 /\ Last(g.order) = g.point /\ IsInjective(g.order)
  BY <1>1 DEF Building, BlocksOK
<1>9. Building(g)
  BY <1>1, <1>7, <1>8 DEF Building, BlocksOK
<1>10. ASSUME NEW y, IsSwitchInst(f, y)
       PROVE  Inst(g, y).to = IF y = x THEN Append(Inst(f, y).to, b) ELSE Inst(f, y).to
  <2>1. /\ y[1] \in 1 .. Len(f.blocks) /\ y[2] \in 1 .. Len(f.blocks[y[1]])
        /\ y = x <=> y[1] = x[1] /\ y[2] = x[2]
    BY <1>10 DEF IsSwitchInst
  <2>2. g.blocks[y[1]][y[2]].to =
          IF y[1] = x[1] /\ y[2] = x[2] THEN Append(f.blocks[y[1]][y[2]].to, b) ELSE f.blocks[y[1]][y[2]].to
    BY <1>1, <2>1
  <2>3. QED
    BY <2>1, <2>2 DEF Inst
<1>11. QED
  BY <1>1, <1>4, <1>6, <1>9, <1>10

\* A case: the section before it falls through to its block if it is open.
LEMMA CaseGrows ==
  ASSUME NEW f, Building(f), NEW x, IsSwitchInst(f, x), NEW falls \in BOOLEAN, falls <=> IsOpen(f), NEW g,
         LET b == LastBlock(f) + 1
             h == IF falls THEN CreateBr(Create(f, 1), b) ELSE Create(f, 1)
         IN  g = Place(AddCase(h, x, b), b)
  PROVE  /\ Building(g) /\ IsOpen(g) /\ g.point = Len(f.blocks) + 1
         /\ \A b : b \in Unplaced(g) <=> b \in Unplaced(f)
         /\ \A y : IsSwitchInst(f, y) =>
              Inst(g, y).to = IF y = x THEN Append(Inst(f, y).to, Len(f.blocks) + 1) ELSE Inst(f, y).to
         /\ Len(f.blocks) + 1 \notin Unplaced(f)
<1> DEFINE n == Len(f.blocks)
<1>1. PICK c : c = Create(f, 1)
  OBVIOUS
<1>2. /\ Building(c) /\ Keeps(f, c) /\ Len(c.blocks) = n + 1
      /\ IsOpen(c) <=> IsOpen(f)
      /\ \A m \in 1 .. 1 : n + m \in Goals(c) /\ n + m \in Unplaced(c)
      /\ \A b : b \in Unplaced(c) <=> b \in Unplaced(f) \/ b \in n + 1 .. n + 1
      /\ \A b \in Unplaced(f) : b \in 2 .. n
      /\ n \in Nat \ {0}
  BY <1>1, NewGoals
<1>3. n + 1 \in Goals(c) /\ n + 1 \in Unplaced(c)
  BY <1>2
<1>4. PICK h : h = IF falls THEN CreateBr(c, n + 1) ELSE c
  OBVIOUS
<1>5. /\ Building(h) /\ Keeps(c, h) /\ Len(h.blocks) = n + 1 /\ ~IsOpen(h) /\ Unplaced(h) = Unplaced(c)
  <2>1. CASE falls
    <3>1. h = CreateBr(c, n + 1) /\ IsOpen(c)
      BY <1>2, <1>4, <2>1
    <3>2. QED
      BY <1>2, <1>3, <3>1, BrBuilds
  <2>2. CASE ~falls
    <3>1. h = c /\ ~IsOpen(c)
      BY <1>2, <1>4, <2>2
    <3>2. Keeps(c, c)
      BY <1>2 DEF Building, Ready, IrTyped, Keeps
    <3>3. QED
      BY <1>2, <3>1, <3>2
  <2>3. QED
    BY <2>1, <2>2
<1>6. Keeps(f, h) /\ Ready(f) /\ Ready(h)
  BY <1>2, <1>5, BuildsTwice DEF Building
<1>7. \A y : IsSwitchInst(f, y) => IsSwitchInst(h, y) /\ Inst(h, y) = Inst(f, y)
  BY <1>6, KeepsCarries DEF Carries
<1>8. PICK e : e = AddCase(h, x, n + 1)
  OBVIOUS
<1>9. n + 1 \in Goals(h)
  BY <1>2, <1>3, <1>5 DEF Goals
<1>10. /\ Building(e) /\ Len(e.blocks) = Len(h.blocks) /\ ~IsOpen(e) /\ Unplaced(e) = Unplaced(h)
       /\ \A y : IsSwitchInst(h, y) =>
            Inst(e, y).to = IF y = x THEN Append(Inst(h, y).to, n + 1) ELSE Inst(h, y).to
       /\ Carries(h, e)
  BY <1>5, <1>6, <1>7, <1>8, <1>9, AddCaseBuilds, AddCaseIs
<1>11. g = Place(e, n + 1)
  BY <1>1, <1>4, <1>8 DEF LastBlock
<1>12. n + 1 \in Unplaced(e)
  BY <1>3, <1>5, <1>10
<1>13. /\ Building(g) /\ Keeps(e, g) /\ g.point = n + 1 /\ IsOpen(g)
       /\ \A d : d \in Unplaced(g) <=> d \in Unplaced(e) /\ d # n + 1
  BY <1>10, <1>11, <1>12, PlaceBuilds
<1>14. \A y : IsSwitchInst(e, y) => Inst(g, y) = Inst(e, y)
  BY <1>10, <1>13, KeepsCarries DEF Building
<1>15. ASSUME NEW y, IsSwitchInst(f, y)
       PROVE  Inst(g, y).to = IF y = x THEN Append(Inst(f, y).to, n + 1) ELSE Inst(f, y).to
  <2>1. IsSwitchInst(h, y) /\ Inst(h, y) = Inst(f, y)
    BY <1>7, <1>15
  <2>2. Inst(e, y).to = IF y = x THEN Append(Inst(h, y).to, n + 1) ELSE Inst(h, y).to
    BY <1>10, <2>1
  <2>3. IsSwitchInst(e, y)
    BY <1>10, <2>1 DEF Carries
  <2>4. Inst(g, y) = Inst(e, y)
    BY <1>14, <2>3
  <2>5. QED
    BY <2>1, <2>2, <2>4
<1>16. n + 1 \notin Unplaced(f)
  BY <1>2
<1>17. \A b : b \in n + 1 .. n + 1 <=> b = n + 1
  BY <1>2
<1>18. \A b : b \in Unplaced(g) <=> b \in Unplaced(f)
  BY <1>2, <1>5, <1>10, <1>13, <1>16, <1>17
<1>19. QED
  BY <1>13, <1>15, <1>16, <1>18

\* A default.
LEMMA DefaultGrows ==
  ASSUME NEW f, Building(f), NEW b \in Unplaced(f), b \in Goals(f), NEW falls \in BOOLEAN,
         falls <=> IsOpen(f), NEW g,
         g = Place(IF falls THEN CreateBr(f, b) ELSE f, b)
  PROVE  /\ Building(g) /\ Keeps(f, g) /\ IsOpen(g) /\ g.point = b /\ Len(g.blocks) = Len(f.blocks)
         /\ \A c : c \in Unplaced(g) <=> c \in Unplaced(f) /\ c # b
<1>1. CASE falls
  <2>1. g = Place(CreateBr(f, b), b) /\ IsOpen(f)
    BY <1>1
  <2>2. QED
    BY <2>1, BrPlaceBuilds
<1>2. CASE ~falls
  <2>1. g = Place(f, b) /\ ~IsOpen(f)
    BY <1>2
  <2>2. QED
    BY <2>1, PlaceBuilds
<1>3. QED
  BY <1>1, <1>2

-----------------------------------------------------------------------------
(* The blocks that wait. *)

\* The if at i has an else that is not before p.
ElseAhead(a, i, p) == \E c \in p .. Len(a) : a[c].kind = "else" /\ a[c].opener = i

\* The switch at i has no default before p.
NoDefaultYet(a, i, p) == ~\E d \in 1 .. p - 1 : DefaultOf(a, d, i)

\* When the visit is at p, the block b of the statement at i, whose activation
\* keeps l, waits to be inserted.
Awaited(a, p, i, l, b) ==
    \/ b = l.last
    \/ a[i].kind = "if" /\ ElseAhead(a, i, p) /\ b = l.else
    \/ a[i].kind = "for" /\ b = l.inc
    \/ a[i].kind = "do" /\ b = l.cond
    \/ a[i].kind = "switch" /\ NoDefaultYet(a, i, p) /\ b = l.default

\* The statement's blocks are different, and U, the blocks that wait, has no
\* other of them.
Settled(a, p, i, l, U) ==
    /\ a[i].kind = "if" /\ ElseAhead(a, i, p) => l.else # l.last
    /\ a[i].kind = "for" => l.inc # l.last
    /\ a[i].kind = "do" => l.cond # l.last
    /\ a[i].kind = "switch" => l.default # l.last /\ (~NoDefaultYet(a, i, p) => l.default \notin U)

\* Every block that waits does so for one of the statements gs around p.
Owned(U, gs, ls, a, p) ==
    /\ \A b : b \in U <=> \E k \in 1 .. Len(gs) : Awaited(a, p, gs[k], ls[k], b)
    /\ \A k, m \in 1 .. Len(gs) : \A b :
         Awaited(a, p, gs[k], ls[k], b) /\ Awaited(a, p, gs[m], ls[m], b) => k = m
    /\ \A k \in 1 .. Len(gs) : Settled(a, p, gs[k], ls[k], U)

\* The same is ahead of p and of q for the statement at i.
SameAhead(a, i, p, q) ==
    /\ ElseAhead(a, i, q) <=> ElseAhead(a, i, p)
    /\ NoDefaultYet(a, i, q) <=> NoDefaultYet(a, i, p)

\* Then the same blocks wait for it.
LEMMA AwaitedSame ==
  ASSUME NEW a, NEW p, NEW q, NEW i, SameAhead(a, i, p, q), NEW l
  PROVE  \A b : Awaited(a, q, i, l, b) <=> Awaited(a, p, i, l, b)
BY DEF SameAhead, Awaited

\* And it stays settled when none of its blocks is added to those that wait.
LEMMA SettledSame ==
  ASSUME NEW a, NEW p, NEW q, NEW i, SameAhead(a, i, p, q), NEW l, NEW U, Settled(a, p, i, l, U), NEW V,
         a[i].kind = "switch" /\ l.default \in V => l.default \in U
  PROVE  Settled(a, q, i, l, V)
BY DEF SameAhead, Settled

\* Nothing begins, ends or is inserted.
LEMMA OwnedSame ==
  ASSUME NEW U, NEW gs, NEW ls, NEW a, NEW p, Owned(U, gs, ls, a, p), NEW q,
         \A k \in 1 .. Len(gs) : SameAhead(a, gs[k], p, q),
         NEW V, \A b : b \in V <=> b \in U
  PROVE  Owned(V, gs, ls, a, q)
<1>1. \A k \in 1 .. Len(gs) : \A b :
        Awaited(a, q, gs[k], ls[k], b) <=> Awaited(a, p, gs[k], ls[k], b)
  BY AwaitedSame
<1>2. ASSUME NEW k \in 1 .. Len(gs) PROVE Settled(a, q, gs[k], ls[k], V)
  <2>1. Settled(a, p, gs[k], ls[k], U) /\ SameAhead(a, gs[k], p, q)
    BY DEF Owned
  <2>2. QED
    BY <2>1, SettledSame
<1>3. \A b : b \in V <=> \E k \in 1 .. Len(gs) : Awaited(a, q, gs[k], ls[k], b)
  BY <1>1 DEF Owned
<1>4. \A k, m \in 1 .. Len(gs) : \A b :
        Awaited(a, q, gs[k], ls[k], b) /\ Awaited(a, q, gs[m], ls[m], b) => k = m
  BY <1>1 DEF Owned
<1>5. QED
  BY <1>2, <1>3, <1>4 DEF Owned

\* One block of the K-th statement is inserted.
LEMMA OwnedLess ==
  ASSUME NEW U, NEW gs, NEW ls, NEW a, NEW p, Owned(U, gs, ls, a, p), NEW q, NEW K \in 1 .. Len(gs),
         \A k \in 1 .. Len(gs) : k # K => SameAhead(a, gs[k], p, q),
         NEW c, Awaited(a, p, gs[K], ls[K], c),
         \A b : Awaited(a, q, gs[K], ls[K], b) <=> Awaited(a, p, gs[K], ls[K], b) /\ b # c,
         NEW V, \A b : b \in V <=> b \in U /\ b # c,
         Settled(a, q, gs[K], ls[K], V)
  PROVE  Owned(V, gs, ls, a, q)
<1>1. \A k \in 1 .. Len(gs) : k # K =>
        \A b : Awaited(a, q, gs[k], ls[k], b) <=> Awaited(a, p, gs[k], ls[k], b)
  BY AwaitedSame
<1>2. \A k \in 1 .. Len(gs) : Awaited(a, p, gs[k], ls[k], c) => k = K
  BY DEF Owned
<1>3. \A k \in 1 .. Len(gs) : \A b :
        Awaited(a, q, gs[k], ls[k], b) <=> Awaited(a, p, gs[k], ls[k], b) /\ b # c
  BY <1>1, <1>2
<1>4. ASSUME NEW k \in 1 .. Len(gs) PROVE Settled(a, q, gs[k], ls[k], V)
  <2>1. CASE k = K
    BY <2>1
  <2>2. CASE k # K
    <3>1. Settled(a, p, gs[k], ls[k], U) /\ SameAhead(a, gs[k], p, q)
      BY <2>2 DEF Owned
    <3>2. QED
      BY <3>1, SettledSame
  <2>3. QED
    BY <2>1, <2>2
<1>5. \A b : b \in V <=> \E k \in 1 .. Len(gs) : Awaited(a, q, gs[k], ls[k], b)
  BY <1>3 DEF Owned
<1>6. \A k, m \in 1 .. Len(gs) : \A b :
        Awaited(a, q, gs[k], ls[k], b) /\ Awaited(a, q, gs[m], ls[m], b) => k = m
  BY <1>3 DEF Owned
<1>7. QED
  BY <1>4, <1>5, <1>6 DEF Owned

\* The statement at i begins, with new blocks that wait.
LEMMA OwnedPush ==
  ASSUME NEW U, NEW gs \in Seq(Nat), NEW ls \in Seq(Local), Len(ls) = Len(gs), NEW a, NEW p,
         Owned(U, gs, ls, a, p), NEW q, \A k \in 1 .. Len(gs) : SameAhead(a, gs[k], p, q),
         NEW i \in Nat, NEW l \in Local,
         NEW V, \A b : b \in V <=> b \in U \/ Awaited(a, q, i, l, b),
         \A b : Awaited(a, q, i, l, b) => b \notin U,
         \A k \in 1 .. Len(gs) : a[gs[k]].kind = "switch" => ~Awaited(a, q, i, l, ls[k].default),
         Settled(a, q, i, l, V)
  PROVE  Owned(V, Append(gs, i), Append(ls, l), a, q)
<1> DEFINE hs == Append(gs, i)
<1> DEFINE ms == Append(ls, l)
<1>1. /\ Len(hs) = Len(gs) + 1 /\ Len(gs) \in Nat /\ hs[Len(gs) + 1] = i /\ ms[Len(gs) + 1] = l
      /\ \A k \in 1 .. Len(gs) : hs[k] = gs[k] /\ ms[k] = ls[k]
      /\ \A k \in 1 .. Len(gs) + 1 : k \in 1 .. Len(gs) \/ k = Len(gs) + 1
      /\ \A k \in 1 .. Len(gs) : k \in 1 .. Len(gs) + 1
      /\ Len(gs) + 1 \in 1 .. Len(gs) + 1
  BY AppendParts
<1> HIDE DEF hs, ms
<1>2. \A k \in 1 .. Len(gs) : \A b :
        Awaited(a, q, hs[k], ms[k], b) <=> Awaited(a, p, gs[k], ls[k], b)
  BY <1>1, AwaitedSame
<1>3. \A b : Awaited(a, q, hs[Len(gs) + 1], ms[Len(gs) + 1], b) <=> Awaited(a, q, i, l, b)
  BY <1>1
<1>4. \A b : b \in U <=> \E k \in 1 .. Len(gs) : Awaited(a, p, gs[k], ls[k], b)
  BY DEF Owned
<1>5. \A b : b \in V <=> \E k \in 1 .. Len(gs) + 1 : Awaited(a, q, hs[k], ms[k], b)
  BY <1>1, <1>2, <1>3, <1>4
<1>6. ASSUME NEW k \in 1 .. Len(gs) + 1, NEW m \in 1 .. Len(gs) + 1, NEW b,
             Awaited(a, q, hs[k], ms[k], b), Awaited(a, q, hs[m], ms[m], b)
      PROVE  k = m
  <2>1. CASE k \in 1 .. Len(gs) /\ m \in 1 .. Len(gs)
    BY <1>2, <1>6, <2>1 DEF Owned
  <2>2. CASE k \in 1 .. Len(gs) /\ m = Len(gs) + 1
    BY <1>2, <1>3, <1>4, <1>6, <2>2
  <2>3. CASE k = Len(gs) + 1 /\ m \in 1 .. Len(gs)
    BY <1>2, <1>3, <1>4, <1>6, <2>3
  <2>4. CASE k = Len(gs) + 1 /\ m = Len(gs) + 1
    BY <2>4
  <2>5. QED
    BY <1>1, <2>1, <2>2, <2>3, <2>4
<1>7. ASSUME NEW k \in 1 .. Len(gs) + 1 PROVE Settled(a, q, hs[k], ms[k], V)
  <2>1. CASE k \in 1 .. Len(gs)
    <3>1. Settled(a, p, gs[k], ls[k], U) /\ SameAhead(a, gs[k], p, q)
      BY <2>1 DEF Owned
    <3>2. a[gs[k]].kind = "switch" /\ ls[k].default \in V => ls[k].default \in U
      BY <2>1
    <3>3. Settled(a, q, gs[k], ls[k], V)
      BY <3>1, <3>2, SettledSame
    <3>4. QED
      BY <1>1, <2>1, <3>3
  <2>2. CASE k = Len(gs) + 1
    BY <1>1, <2>2
  <2>3. QED
    BY <1>1, <2>1, <2>2
<1>8. Owned(V, hs, ms, a, q)
  BY <1>1, <1>5, <1>6, <1>7 DEF Owned
<1>9. QED
  BY <1>8 DEF hs, ms

\* The innermost statement ends, and all its blocks that waited are inserted.
LEMMA OwnedPop ==
  ASSUME NEW U, NEW gs \in Seq(Nat), gs # <<>>, NEW ls \in Seq(Local), Len(ls) = Len(gs), NEW a, NEW p,
         Owned(U, gs, ls, a, p), NEW q,
         \A k \in 1 .. Len(gs) - 1 : SameAhead(a, gs[k], p, q),
         NEW V, \A b : b \in V <=> b \in U /\ ~Awaited(a, p, Last(gs), Last(ls), b)
  PROVE  Owned(V, Front(gs), Front(ls), a, q)
<1> DEFINE hs == Front(gs)
<1> DEFINE ms == Front(ls)
<1> DEFINE n == Len(gs)
<1>1. ls # <<>>
  OBVIOUS
<1>2. /\ n \in Nat \ {0} /\ Len(hs) = n - 1 /\ Len(ms) = n - 1
      /\ Last(gs) = gs[n] /\ Last(ls) = ls[n]
      /\ \A k \in 1 .. n - 1 : hs[k] = gs[k] /\ ms[k] = ls[k]
  BY <1>1, FrontType, LastType DEF Last
<1>3. /\ \A k \in 1 .. n - 1 : k \in 1 .. n /\ k # n
      /\ \A k \in 1 .. n : k \in 1 .. n - 1 \/ k = n
      /\ n \in 1 .. n
  BY <1>2
<1> HIDE DEF hs, ms
<1>4. \A k \in 1 .. n - 1 : \A b :
        Awaited(a, q, hs[k], ms[k], b) <=> Awaited(a, p, gs[k], ls[k], b)
  BY <1>2, AwaitedSame
<1>5. \A b : Awaited(a, p, Last(gs), Last(ls), b) <=> Awaited(a, p, gs[n], ls[n], b)
  BY <1>2
<1>6. \A b : b \in V <=> \E k \in 1 .. n - 1 : Awaited(a, q, hs[k], ms[k], b)
  <2>1. \A b : b \in U <=> \E k \in 1 .. n : Awaited(a, p, gs[k], ls[k], b)
    BY DEF Owned
  <2>2. \A k \in 1 .. n : \A b :
          Awaited(a, p, gs[k], ls[k], b) /\ Awaited(a, p, gs[n], ls[n], b) => k = n
    BY <1>3 DEF Owned
  <2>3. QED
    BY <1>3, <1>4, <1>5, <2>1, <2>2
<1>7. \A k, m \in 1 .. n - 1 : \A b :
        Awaited(a, q, hs[k], ms[k], b) /\ Awaited(a, q, hs[m], ms[m], b) => k = m
  BY <1>3, <1>4 DEF Owned
<1>8. ASSUME NEW k \in 1 .. n - 1 PROVE Settled(a, q, hs[k], ms[k], V)
  <2>1. Settled(a, p, gs[k], ls[k], U) /\ SameAhead(a, gs[k], p, q)
    BY <1>3 DEF Owned
  <2>2. Settled(a, q, gs[k], ls[k], V)
    BY <2>1, SettledSame
  <2>3. QED
    BY <1>2, <2>2
<1>9. Owned(V, hs, ms, a, q)
  BY <1>2, <1>6, <1>7, <1>8 DEF Owned
<1>10. QED
  BY <1>9 DEF hs, ms

-----------------------------------------------------------------------------
(* What is ahead. *)

\* From one node to the next.
LEMMA AheadNext ==
  ASSUME NEW a, Program(a), NEW p \in 1 .. Len(a), NEW i,
         ~(a[p].kind = "else" /\ a[p].opener = i), ~DefaultOf(a, p, i)
  PROVE  SameAhead(a, i, p, p + 1)
<1>1. Len(a) \in Nat /\ p \in Nat \ {0}
  BY Position
<1>2. /\ \A c : c \in p .. Len(a) <=> c = p \/ c \in p + 1 .. Len(a)
      /\ \A d : d \in 1 .. (p + 1) - 1 <=> d = p \/ d \in 1 .. p - 1
  BY <1>1
<1>3. ElseAhead(a, i, p + 1) <=> ElseAhead(a, i, p)
  BY <1>2 DEF ElseAhead
<1>4. NoDefaultYet(a, i, p + 1) <=> NoDefaultYet(a, i, p)
  BY <1>2 DEF NoDefaultYet
<1>5. QED
  BY <1>3, <1>4 DEF SameAhead

\* From a jump to where the visit goes on.
LEMMA AheadSkip ==
  ASSUME NEW a, Sound(a), NEW p \in Live(a), a[p].kind \in Jumps, NEW i, Encloses(a, i, p, Branched)
  PROVE  SameAhead(a, i, p, Skip(a, p))
<1>1. Program(a)
  BY DEF Sound
<1>2. p \in 1 .. Len(a)
  BY <1>1, LiveIs
<1>3. Len(a) \in Nat /\ p \in Nat \ {0}
  BY <1>1, <1>2, Position
<1> DEFINE q == Skip(a, p)
<1>4. q \in p + 1 .. Len(a) /\ \A k \in p + 1 .. q - 1 : a[k].opener \notin 1 .. p - 1
  BY <1>1, <1>2, FollowerIs
<1>5. i \in 1 .. p - 1
  BY DEF Encloses
<1> HIDE DEF q
<1>6. /\ \A c : c \in p .. Len(a) <=> c = p \/ c \in p + 1 .. q - 1 \/ c \in q .. Len(a)
      /\ \A d : d \in 1 .. q - 1 <=> d \in 1 .. p - 1 \/ d \in p .. q - 1
  BY <1>3, <1>4
<1>7. a[p].kind # "else"
  BY DEF Jumps
<1>8. \A c \in p + 1 .. q - 1 : a[c].opener # i
  BY <1>4, <1>5
<1>9. ElseAhead(a, i, q) <=> ElseAhead(a, i, p)
  BY <1>6, <1>7, <1>8 DEF ElseAhead
<1>10. ASSUME NEW d \in p .. q - 1 PROVE ~DefaultOf(a, d, i)
  <2>1. CASE a[i].kind = "switch"
    <3>1. Encloses(a, i, p, {"switch"})
      BY <2>1 DEF Encloses
    <3>2. QED
      BY <3>1, DefaultsKept DEF q
  <2>2. CASE a[i].kind # "switch"
    BY <2>2 DEF DefaultOf, Binds, Encloses
  <2>3. QED
    BY <2>1, <2>2
<1>11. NoDefaultYet(a, i, q) <=> NoDefaultYet(a, i, p)
  BY <1>6, <1>10 DEF NoDefaultYet
<1>12. QED
  BY <1>9, <1>11 DEF SameAhead, q

\* An if has no second else.
LEMMA ElseOnce ==
  ASSUME NEW a, Program(a), NEW p \in 1 .. Len(a), a[p].kind = "else"
  PROVE  ElseAhead(a, a[p].opener, p) /\ ~ElseAhead(a, a[p].opener, p + 1)
<1>1. Len(a) \in Nat /\ p \in Nat \ {0}
  BY Position
<1>2. ElseAhead(a, a[p].opener, p)
  BY <1>1 DEF ElseAhead
<1>3. ASSUME NEW c \in p + 1 .. Len(a), a[c].kind = "else", a[c].opener = a[p].opener PROVE FALSE
  <2>1. c \in 1 .. Len(a) /\ p \in 1 .. c - 1
    BY <1>1
  <2>2. FollowsAt(a, a[c], c)
    BY <2>1, Position
  <2>3. a[p].opener # a[c].opener
    BY <1>3, <2>1, <2>2 DEF FollowsAt
  <2>4. QED
    BY <1>3, <2>3
<1>4. QED
  BY <1>2, <1>3 DEF ElseAhead

\* And none after its end.
LEMMA ElseEnded ==
  ASSUME NEW a, Program(a), NEW p \in 1 .. Len(a), a[p].kind \in Closers
  PROVE  ~ElseAhead(a, a[p].opener, p)
<1>1. Len(a) \in Nat /\ p \in Nat \ {0}
  BY Position
<1>2. ASSUME NEW c \in p .. Len(a), a[c].kind = "else", a[c].opener = a[p].opener PROVE FALSE
  <2>1. c # p
    BY <1>2 DEF Closers
  <2>2. c \in 1 .. Len(a) /\ p \in 1 .. c - 1
    BY <1>1, <2>1
  <2>3. EndsAt(a, a[c], c)
    BY <2>2, Position
  <2>4. ~EndedBefore(a, a[c].opener, c)
    BY <1>2, <2>3 DEF EndsAt
  <2>5. EndedBefore(a, a[p].opener, c)
    BY <2>2 DEF EndedBefore
  <2>6. QED
    BY <1>2, <2>4, <2>5
<1>3. QED
  BY <1>2 DEF ElseAhead

\* At first a statement's else, and its defaults, are ahead.
LEMMA AheadAtFirst ==
  ASSUME NEW a, Program(a), NEW p \in 1 .. Len(a)
  PROVE  /\ ElseAhead(a, p, p + 1) <=> \E j \in DOMAIN a : a[j].kind = "else" /\ a[j].opener = p
         /\ NoDefaultYet(a, p, p + 1)
<1>1. Len(a) \in Nat /\ p \in Nat \ {0} /\ DOMAIN a = 1 .. Len(a)
  BY Position
<1>2. ASSUME NEW j \in 1 .. Len(a), a[j].kind = "else", a[j].opener = p PROVE j \in p + 1 .. Len(a)
  <2>1. EndsAt(a, a[j], j) /\ j \in Nat
    BY Position
  <2>2. p \in 1 .. j - 1
    BY <1>2, <2>1 DEF EndsAt
  <2>3. QED
    BY <1>1, <2>1, <2>2
<1>3. \A c \in p + 1 .. Len(a) : c \in 1 .. Len(a)
  BY <1>1
<1>4. ElseAhead(a, p, p + 1) <=> \E j \in DOMAIN a : a[j].kind = "else" /\ a[j].opener = p
  BY <1>1, <1>2, <1>3 DEF ElseAhead
<1>5. ASSUME NEW d \in 1 .. (p + 1) - 1, DefaultOf(a, d, p) PROVE FALSE
  <2>1. p \in 1 .. d - 1
    BY <1>5 DEF DefaultOf, Binds, Encloses
  <2>2. QED
    BY <1>1, <2>1
<1>6. QED
  BY <1>4, <1>5 DEF NoDefaultYet

-----------------------------------------------------------------------------
(* The instructions of the switches. *)

\* The first target of a switch's instruction is its default block; the
\* others, of its cases, have been inserted.
SwitchesRight(gs, ss, ls, st, f, U) ==
    \A k \in 1 .. Len(ss) :
      /\ \A l \in 1 .. Len(gs) : gs[l] = ss[k] => Inst(f, st[k]).to[1] = ls[l].default
      /\ \A m \in 2 .. Len(Inst(f, st[k]).to) : Inst(f, st[k]).to[m] \notin U

\* What they branch to.
LEMMA TargetsAre ==
  ASSUME NEW f, Ready(f), NEW x, IsSwitchInst(f, x)
  PROVE  /\ Inst(f, x).to \in Seq(Goals(f)) /\ Len(Inst(f, x).to) \in Nat \ {0}
         /\ \A m \in 1 .. Len(Inst(f, x).to) : Inst(f, x).to[m] \in Goals(f)
<1>1. Inst(f, x).to \in Seq(Goals(f)) /\ Inst(f, x).to # <<>>
  BY DEF IsSwitchInst, Inst, Ready, IrTyped
<1> DEFINE to == Inst(f, x).to
<1> DEFINE G == Goals(f)
<1>2. to \in Seq(G) /\ to # <<>>
  BY <1>1
<1> HIDE DEF to, G
<1>3. Len(to) \in Nat \ {0} /\ \A m \in 1 .. Len(to) : to[m] \in G
  BY <1>2
<1>4. QED
  BY <1>2, <1>3 DEF to, G

\* Instructions are added, and blocks inserted or created.
LEMMA SwitchesSame ==
  ASSUME NEW gs, NEW ss, NEW ls, NEW st, NEW f, Ready(f), SwitchesFit(ss, f, st), NEW U,
         SwitchesRight(gs, ss, ls, st, f, U), NEW g,
         \A x : IsSwitchInst(f, x) => Inst(g, x).to = Inst(f, x).to,
         NEW V, \A b \in V : b \in U \/ b \notin Goals(f)
  PROVE  SwitchesRight(gs, ss, ls, st, g, V)
<1>1. ASSUME NEW k \in 1 .. Len(ss)
      PROVE  /\ \A l \in 1 .. Len(gs) : gs[l] = ss[k] => Inst(g, st[k]).to[1] = ls[l].default
             /\ \A m \in 2 .. Len(Inst(g, st[k]).to) : Inst(g, st[k]).to[m] \notin V
  <2>1. IsSwitchInst(f, st[k])
    BY DEF SwitchesFit
  <2>2. Inst(g, st[k]).to = Inst(f, st[k]).to
    BY <2>1
  <2>3. /\ \A l \in 1 .. Len(gs) : gs[l] = ss[k] => Inst(f, st[k]).to[1] = ls[l].default
        /\ \A m \in 2 .. Len(Inst(f, st[k]).to) : Inst(f, st[k]).to[m] \notin U
    BY DEF SwitchesRight
  <2>4. /\ Len(Inst(f, st[k]).to) \in Nat \ {0}
        /\ \A m \in 1 .. Len(Inst(f, st[k]).to) : Inst(f, st[k]).to[m] \in Goals(f)
    BY <2>1, TargetsAre
  <2>5. \A m \in 2 .. Len(Inst(f, st[k]).to) : m \in 1 .. Len(Inst(f, st[k]).to)
    BY <2>4
  <2>6. QED
    BY <2>2, <2>3, <2>4, <2>5
<1>2. QED
  BY <1>1 DEF SwitchesRight

\* A statement begins.
LEMMA SwitchesOuter ==
  ASSUME NEW gs \in Seq(Nat), NEW ss, NEW ls \in Seq(Local), Len(ls) = Len(gs), NEW st, NEW f, NEW U,
         SwitchesRight(gs, ss, ls, st, f, U),
         NEW p \in Nat, \A k \in 1 .. Len(ss) : ss[k] # p, NEW l \in Local
  PROVE  SwitchesRight(Append(gs, p), ss, Append(ls, l), st, f, U)
<1> DEFINE hs == Append(gs, p)
<1> DEFINE ms == Append(ls, l)
<1>1. /\ Len(hs) = Len(gs) + 1 /\ Len(gs) \in Nat /\ hs[Len(gs) + 1] = p
      /\ \A k \in 1 .. Len(gs) : hs[k] = gs[k] /\ ms[k] = ls[k]
      /\ \A k \in 1 .. Len(gs) + 1 : k \in 1 .. Len(gs) \/ k = Len(gs) + 1
  BY AppendParts
<1> HIDE DEF hs, ms
<1>2. ASSUME NEW k \in 1 .. Len(ss)
      PROVE  /\ \A m \in 1 .. Len(hs) : hs[m] = ss[k] => Inst(f, st[k]).to[1] = ms[m].default
             /\ \A m \in 2 .. Len(Inst(f, st[k]).to) : Inst(f, st[k]).to[m] \notin U
  <2>1. /\ \A m \in 1 .. Len(gs) : gs[m] = ss[k] => Inst(f, st[k]).to[1] = ls[m].default
        /\ \A m \in 2 .. Len(Inst(f, st[k]).to) : Inst(f, st[k]).to[m] \notin U
    BY DEF SwitchesRight
  <2>2. ss[k] # p
    OBVIOUS
  <2>3. QED
    BY <1>1, <2>1, <2>2
<1>3. SwitchesRight(hs, ss, ms, st, f, U)
  BY <1>2 DEF SwitchesRight
<1>4. QED
  BY <1>3 DEF hs, ms

\* It is a switch.
LEMMA SwitchesNew ==
  ASSUME NEW gs \in Seq(Nat), NEW ss \in Seq(Nat), NEW ls \in Seq(Local), Len(ls) = Len(gs),
         NEW st \in Seq(Nat \X Nat), Len(st) = Len(ss), NEW f, NEW U,
         NEW p \in Nat, \A k \in 1 .. Len(gs) : gs[k] # p, NEW l \in Local, NEW x \in Nat \X Nat,
         SwitchesRight(Append(gs, p), ss, Append(ls, l), st, f, U),
         Inst(f, x).to = <<l.default>>
  PROVE  SwitchesRight(Append(gs, p), Append(ss, p), Append(ls, l), Append(st, x), f, U)
<1> DEFINE hs == Append(gs, p)
<1> DEFINE ms == Append(ls, l)
<1>1. /\ Len(Append(ss, p)) = Len(ss) + 1 /\ Append(ss, p)[Len(ss) + 1] = p
      /\ Append(st, x)[Len(ss) + 1] = x
      /\ \A k \in 1 .. Len(ss) : Append(ss, p)[k] = ss[k] /\ Append(st, x)[k] = st[k]
      /\ \A k \in 1 .. Len(ss) + 1 : k \in 1 .. Len(ss) \/ k = Len(ss) + 1
  BY SMTT(60), AppendParts
<1>2. /\ Len(hs) = Len(gs) + 1 /\ ms[Len(gs) + 1] = l
      /\ \A k \in 1 .. Len(gs) : hs[k] = gs[k]
      /\ \A k \in 1 .. Len(gs) + 1 : k \in 1 .. Len(gs) \/ k = Len(gs) + 1
  BY AppendParts
<1> HIDE DEF hs, ms
<1>3. \A k \in 1 .. Len(hs) : hs[k] = p => ms[k] = l
  BY <1>2
<1>4. /\ Inst(f, x).to[1] = l.default
      /\ \A m : m \notin 2 .. Len(Inst(f, x).to)
  BY OneElement
<1>5. ASSUME NEW k \in 1 .. Len(ss) + 1
      PROVE  /\ \A i \in 1 .. Len(hs) : hs[i] = Append(ss, p)[k] =>
                  Inst(f, Append(st, x)[k]).to[1] = ms[i].default
             /\ \A m \in 2 .. Len(Inst(f, Append(st, x)[k]).to) : Inst(f, Append(st, x)[k]).to[m] \notin U
  <2>1. CASE k \in 1 .. Len(ss)
    BY ZenonT(60), <1>1, <2>1 DEF SwitchesRight, hs, ms
  <2>2. CASE k = Len(ss) + 1
    BY <1>1, <1>3, <1>4, <2>2
  <2>3. QED
    BY <1>1, <2>1, <2>2
<1>6. SwitchesRight(hs, Append(ss, p), ms, Append(st, x), f, U)
  BY <1>1, <1>5 DEF SwitchesRight
<1>7. QED
  BY <1>6 DEF hs, ms

\* A statement ends.
LEMMA SwitchesInner ==
  ASSUME NEW gs \in Seq(Nat), gs # <<>>, NEW ss, NEW ls \in Seq(Local), Len(ls) = Len(gs), NEW st,
         NEW f, NEW U, SwitchesRight(gs, ss, ls, st, f, U)
  PROVE  SwitchesRight(Front(gs), ss, Front(ls), st, f, U)
<1> DEFINE hs == Front(gs)
<1> DEFINE ms == Front(ls)
<1>1. ls # <<>>
  OBVIOUS
<1>2. /\ Len(gs) \in Nat \ {0} /\ Len(hs) = Len(gs) - 1
      /\ \A k \in 1 .. Len(gs) - 1 : hs[k] = gs[k] /\ ms[k] = ls[k]
  BY <1>1, FrontType
<1> HIDE DEF hs, ms
<1>3. \A k \in 1 .. Len(gs) - 1 : k \in 1 .. Len(gs)
  BY <1>2
<1>4. ASSUME NEW k \in 1 .. Len(ss)
      PROVE  /\ \A m \in 1 .. Len(hs) : hs[m] = ss[k] => Inst(f, st[k]).to[1] = ms[m].default
             /\ \A m \in 2 .. Len(Inst(f, st[k]).to) : Inst(f, st[k]).to[m] \notin U
  <2>1. /\ \A m \in 1 .. Len(gs) : gs[m] = ss[k] => Inst(f, st[k]).to[1] = ls[m].default
        /\ \A m \in 2 .. Len(Inst(f, st[k]).to) : Inst(f, st[k]).to[m] \notin U
    BY DEF SwitchesRight
  <2>2. QED
    BY <1>2, <1>3, <2>1
<1>5. SwitchesRight(hs, ss, ms, st, f, U)
  BY <1>4 DEF SwitchesRight
<1>6. QED
  BY <1>5 DEF hs, ms

\* It is a switch.
LEMMA SwitchesGone ==
  ASSUME NEW gs, NEW ss \in Seq(Nat), ss # <<>>, NEW ls, NEW st \in Seq(Nat \X Nat), Len(st) = Len(ss),
         NEW f, NEW U, SwitchesRight(gs, ss, ls, st, f, U)
  PROVE  SwitchesRight(gs, Front(ss), ls, Front(st), f, U)
<1> DEFINE ts == Front(ss)
<1> DEFINE rs == Front(st)
<1>1. st # <<>>
  OBVIOUS
<1>2. /\ Len(ss) \in Nat \ {0} /\ Len(ts) = Len(ss) - 1
      /\ \A k \in 1 .. Len(ss) - 1 : ts[k] = ss[k]
  BY SMTT(60), FrontType
<1>3. \A k \in 1 .. Len(ss) - 1 : rs[k] = st[k]
  BY <1>1, FrontType
<1> HIDE DEF ts, rs
<1>4. \A k \in 1 .. Len(ss) - 1 : k \in 1 .. Len(ss)
  BY <1>2
<1>5. ASSUME NEW k \in 1 .. Len(ts)
      PROVE  /\ \A m \in 1 .. Len(gs) : gs[m] = ts[k] => Inst(f, rs[k]).to[1] = ls[m].default
             /\ \A m \in 2 .. Len(Inst(f, rs[k]).to) : Inst(f, rs[k]).to[m] \notin U
  <2>1. k \in 1 .. Len(ss) /\ ts[k] = ss[k] /\ rs[k] = st[k]
    BY <1>2, <1>3, <1>4
  <2>2. QED
    BY <2>1 DEF SwitchesRight
<1>6. SwitchesRight(gs, ts, ls, rs, f, U)
  BY <1>5 DEF SwitchesRight
<1>7. QED
  BY <1>6 DEF ts, rs

\* The instruction at x has the target c more in g than in f, the others have the same.
CaseAdded(f, x, c, g) ==
    \A y : IsSwitchInst(f, y) =>
      Inst(g, y).to = IF y = x THEN Append(Inst(f, y).to, c) ELSE Inst(f, y).to

\* A case is added to one of them.
LEMMA SwitchesCase ==
  ASSUME NEW gs, NEW ss, NEW ls, NEW st, NEW f, Ready(f), SwitchesFit(ss, f, st), NEW U,
         SwitchesRight(gs, ss, ls, st, f, U), NEW x, NEW c \in Nat, c \notin U, NEW g,
         CaseAdded(f, x, c, g),
         NEW V, \A b : b \in V <=> b \in U
  PROVE  SwitchesRight(gs, ss, ls, st, g, V)
<1>1. ASSUME NEW k \in 1 .. Len(ss)
      PROVE  /\ \A l \in 1 .. Len(gs) : gs[l] = ss[k] => Inst(g, st[k]).to[1] = ls[l].default
             /\ \A m \in 2 .. Len(Inst(g, st[k]).to) : Inst(g, st[k]).to[m] \notin V
  <2> DEFINE to == Inst(f, st[k]).to
  <2> DEFINE new == Inst(g, st[k]).to
  <2>1. IsSwitchInst(f, st[k])
    BY DEF SwitchesFit
  <2>2. new = IF st[k] = x THEN Append(to, c) ELSE to
    BY <2>1 DEF CaseAdded
  <2>3. /\ \A l \in 1 .. Len(gs) : gs[l] = ss[k] => to[1] = ls[l].default
        /\ \A m \in 2 .. Len(to) : to[m] \notin U
    BY DEF SwitchesRight
  <2>4. to \in Seq(Nat) /\ Len(to) \in Nat \ {0}
    <3>1. to \in Seq(Goals(f)) /\ Len(to) \in Nat \ {0}
      BY <2>1, TargetsAre
    <3>2. Goals(f) \subseteq Nat
      BY DEF Goals, Ready, IrTyped
    <3>3. QED
      BY <3>1, <3>2
  <2> HIDE DEF to, new
  <2>5. CASE st[k] = x
    <3>1. /\ Len(new) = Len(to) + 1 /\ new[Len(to) + 1] = c
          /\ \A m \in 1 .. Len(to) : new[m] = to[m]
      BY <2>2, <2>4, <2>5, AppendParts
    <3>2. new[1] = to[1] /\ \A m \in 2 .. Len(to) + 1 : m \in 2 .. Len(to) \/ m = Len(to) + 1
      BY <2>4, <3>1
    <3>3. \A m \in 2 .. Len(to) : new[m] = to[m]
      BY <2>4, <3>1
    <3>4. \A m \in 2 .. Len(new) : new[m] \notin V
      BY <2>3, <3>1, <3>2, <3>3
    <3>5. QED
      BY <2>3, <3>2, <3>4 DEF new
  <2>6. CASE st[k] # x
    <3>1. new = to
      BY <2>2, <2>6
    <3>2. QED
      BY <2>3, <3>1 DEF new
  <2>7. QED
    BY <2>5, <2>6
<1>2. QED
  BY <1>1 DEF SwitchesRight

-----------------------------------------------------------------------------
(* Sections that the builder stays in. *)

\* In a plain section the builder is still in the section's first block: that
\* of the last case, or of the default, of the innermost switch.
StraightRight(a, p, f, st) ==
    \A q \in 1 .. p - 1 : InStraight(a, q, p) =>
      LET to == Inst(f, Last(st)).to IN
      /\ st # <<>>
      /\ a[q].kind = "case" => Len(to) > 1 /\ f.point = Last(to)
      /\ a[q].kind = "default" => f.point = to[1]

\* A node that is not plain leaves the section.
LEMMA StraightNone ==
  ASSUME NEW a, Program(a), NEW p \in Live(a), a[p].kind \notin Sections, ~Plain(a[p]), NEW f, NEW st
  PROVE  StraightRight(a, p + 1, f, st)
<1>1. p \in 1 .. Len(a)
  BY LiveIs
<1>2. p \in Nat \ {0}
  BY <1>1, Position
<1>3. ASSUME NEW q \in 1 .. (p + 1) - 1, InStraight(a, q, p + 1) PROVE FALSE
  <2>1. q # p
    BY <1>3 DEF InStraight
  <2>2. p \in q + 1 .. (p + 1) - 1
    BY <1>2, <2>1
  <2>3. QED
    BY <1>3, <2>2 DEF InStraight
<1>4. QED
  BY <1>3 DEF StraightRight

\* A plain node does not, nor do nodes that are not visited.
LEMMA StraightNext ==
  ASSUME NEW a, Program(a), NEW p \in Live(a), Plain(a[p]), NEW r \in Nat, p < r,
         \A k \in p + 1 .. r - 1 : k \notin Live(a),
         NEW f, NEW st, StraightRight(a, p, f, st), NEW g, g.point = f.point,
         st # <<>> => Inst(g, Last(st)).to = Inst(f, Last(st)).to
  PROVE  StraightRight(a, r, g, st)
<1>1. p \in 1 .. Len(a)
  BY LiveIs
<1>2. p \in Nat \ {0}
  BY <1>1, Position
<1>3. a[p].kind \notin Sections
  BY DEF Plain, Sections, SilentEnds, Jumps
<1>4. ASSUME NEW q \in 1 .. r - 1, InStraight(a, q, r)
      PROVE  LET to == Inst(g, Last(st)).to IN
             /\ st # <<>>
             /\ a[q].kind = "case" => Len(to) > 1 /\ g.point = Last(to)
             /\ a[q].kind = "default" => g.point = to[1]
  <2>1. q \in Live(a) /\ a[q].kind \in Sections /\ q # p
    BY <1>3, <1>4 DEF InStraight
  <2>2. q \notin p + 1 .. r - 1
    BY <2>1
  <2>3. q \in 1 .. p - 1
    BY <1>2, <2>1, <2>2
  <2>4. \A k \in q + 1 .. p - 1 : k \in q + 1 .. r - 1
    BY <1>2, <2>3
  <2>5. InStraight(a, q, p)
    BY <1>4, <2>3, <2>4 DEF InStraight
  <2>6. LET to == Inst(f, Last(st)).to IN
        /\ st # <<>>
        /\ a[q].kind = "case" => Len(to) > 1 /\ f.point = Last(to)
        /\ a[q].kind = "default" => f.point = to[1]
    BY <2>3, <2>5 DEF StraightRight
  <2>7. QED
    BY <2>6
<1>5. QED
  BY <1>4 DEF StraightRight

\* A section begins.
LEMMA StraightSection ==
  ASSUME NEW a, Program(a), NEW p \in Live(a), a[p].kind \in Sections, NEW g, NEW st, st # <<>>,
         a[p].kind = "case" => Len(Inst(g, Last(st)).to) > 1 /\ g.point = Last(Inst(g, Last(st)).to),
         a[p].kind = "default" => g.point = Inst(g, Last(st)).to[1]
  PROVE  StraightRight(a, p + 1, g, st)
<1>1. p \in 1 .. Len(a)
  BY LiveIs
<1>2. p \in Nat \ {0}
  BY <1>1, Position
<1>3. ~Plain(a[p])
  BY DEF Plain, Sections, SilentEnds, Jumps
<1>4. ASSUME NEW q \in 1 .. (p + 1) - 1, InStraight(a, q, p + 1) PROVE q = p
  <2>1. ASSUME q # p PROVE FALSE
    <3>1. p \in q + 1 .. (p + 1) - 1
      BY <1>2, <2>1
    <3>2. QED
      BY <1>3, <1>4, <3>1 DEF InStraight
  <2>2. QED
    BY <2>1
<1>5. QED
  BY <1>4 DEF StraightRight

-----------------------------------------------------------------------------
(* The statements around a position. *)

\* The first place where two stacks that fit differ is not there.
LEMMA FitsAgree ==
  ASSUME NEW s, NEW t, NEW a, NEW p, NEW kinds, Fits(s, a, p, kinds), Fits(t, a, p, kinds),
         NEW k \in 1 .. Len(s), k \in 1 .. Len(t), \A m \in 1 .. k - 1 : s[m] = t[m]
  PROVE  ~(s[k] < t[k])
<1>1. /\ s \in Seq(Nat) /\ t \in Seq(Nat) /\ Len(s) \in Nat /\ Len(t) \in Nat
      /\ \A n \in 1 .. Len(s) : \A l \in 1 .. n - 1 : s[l] < s[n]
      /\ \A n \in 1 .. Len(t) : \A l \in 1 .. n - 1 : t[l] < t[n]
      /\ \A i : Encloses(a, i, p, kinds) <=> \E n \in 1 .. Len(s) : s[n] = i
      /\ \A i : Encloses(a, i, p, kinds) <=> \E n \in 1 .. Len(t) : t[n] = i
  BY DEF Fits
<1>2. SUFFICES ASSUME s[k] < t[k] PROVE FALSE
  OBVIOUS
<1>3. PICK m \in 1 .. Len(t) : t[m] = s[k]
  BY <1>1
<1>4. s[k] \in Nat /\ t[k] \in Nat /\ t[m] \in Nat
  BY SMTT(60), <1>1
<1>5. CASE m < k
  <2>1. m \in 1 .. k - 1
    BY <1>5
  <2>2. s[m] < s[k] /\ s[m] = t[m]
    BY <1>1, <2>1
  <2>3. QED
    BY <1>3, <1>4, <2>2
<1>6. CASE m = k
  BY <1>2, <1>3, <1>4, <1>6
<1>7. CASE m > k
  <2>1. k \in 1 .. m - 1
    BY <1>7
  <2>2. t[k] < t[m]
    BY <1>1, <2>1
  <2>3. QED
    BY <1>2, <1>3, <1>4, <2>2
<1>8. QED
  BY <1>5, <1>6, <1>7

\* So they are the same where both are.
LEMMA FitsPrefix ==
  ASSUME NEW s, NEW t, NEW a, NEW p, NEW kinds, Fits(s, a, p, kinds), Fits(t, a, p, kinds)
  PROVE  \A k \in 1 .. Len(s) : k \in 1 .. Len(t) => s[k] = t[k]
<1>1. s \in Seq(Nat) /\ t \in Seq(Nat) /\ Len(s) \in Nat /\ Len(t) \in Nat
  BY DEF Fits
<1> DEFINE T == {k \in 1 .. Len(s) : k \in 1 .. Len(t) /\ s[k] # t[k]}
<1>2. SUFFICES ASSUME T # {} PROVE FALSE
  OBVIOUS
<1>3. T \in SUBSET Nat
  BY <1>1
<1>4. PICK k \in T : \A y \in T : k <= y
  BY <1>2, <1>3, NatMinimum
<1>5. k \in 1 .. Len(s) /\ k \in 1 .. Len(t) /\ s[k] # t[k]
  BY <1>4
<1>6. \A m \in 1 .. k - 1 : s[m] = t[m] /\ t[m] = s[m]
  <2>1. ASSUME NEW m \in 1 .. k - 1, s[m] # t[m] PROVE FALSE
    <3>1. m \in T
      BY SMTT(60), <1>1, <1>5, <2>1
    <3>2. k <= m
      BY <1>4, <3>1
    <3>3. QED
      BY <1>1, <1>5, <3>2
  <2>2. QED
    BY <2>1
<1>7. ~(s[k] < t[k])
  BY <1>5, <1>6, FitsAgree
<1>8. ~(t[k] < s[k])
  BY <1>5, <1>6, FitsAgree
<1>9. s[k] \in Nat /\ t[k] \in Nat
  BY <1>1, <1>5
<1>10. QED
  BY <1>5, <1>7, <1>8, <1>9

\* And one is not longer than the other.
LEMMA FitsLength ==
  ASSUME NEW s, NEW t, NEW a, NEW p, NEW kinds, Fits(s, a, p, kinds), Fits(t, a, p, kinds)
  PROVE  Len(t) <= Len(s)
<1>1. /\ s \in Seq(Nat) /\ t \in Seq(Nat) /\ Len(s) \in Nat /\ Len(t) \in Nat
      /\ \A n \in 1 .. Len(t) : \A l \in 1 .. n - 1 : t[l] < t[n]
      /\ \A i : Encloses(a, i, p, kinds) <=> \E n \in 1 .. Len(s) : s[n] = i
      /\ \A i : Encloses(a, i, p, kinds) <=> \E n \in 1 .. Len(t) : t[n] = i
  BY DEF Fits
<1>2. SUFFICES ASSUME Len(s) < Len(t) PROVE FALSE
  BY <1>1
<1>3. Len(s) + 1 \in 1 .. Len(t)
  BY <1>1, <1>2
<1>4. PICK m \in 1 .. Len(s) : s[m] = t[Len(s) + 1]
  BY <1>1, <1>3
<1>5. m \in 1 .. Len(t) /\ m \in 1 .. (Len(s) + 1) - 1
  BY <1>1, <1>2
<1>6. s[m] = t[m]
  BY <1>5, FitsPrefix
<1>7. t[m] < t[Len(s) + 1] /\ t[m] \in Nat
  BY SMTT(60), <1>1, <1>3, <1>5
<1>8. QED
  BY <1>4, <1>6, <1>7

\* Only one stack fits.
LEMMA FitsUnique ==
  ASSUME NEW s, NEW t, NEW a, NEW p, NEW kinds, Fits(s, a, p, kinds), Fits(t, a, p, kinds)
  PROVE  s = t
<1>1. s \in Seq(Nat) /\ t \in Seq(Nat) /\ Len(s) \in Nat /\ Len(t) \in Nat
  BY DEF Fits
<1>2. Len(t) <= Len(s)
  BY FitsLength
<1>3. Len(s) <= Len(t)
  BY FitsLength
<1>4. Len(s) = Len(t)
  BY <1>1, <1>2, <1>3
<1>5. \A k \in 1 .. Len(s) : s[k] = t[k]
  BY <1>4, FitsPrefix
<1>6. QED
  BY SMTT(60), <1>1, <1>4, <1>5

-----------------------------------------------------------------------------
(* The invariant. *)

\* When the visit is at p, f being the function so far: its blocks are right,
\* and so is what waits for the statements around p.
Right(a, p, f, ls, st) ==
    /\ p \in Live(a) /\ (IsOpen(f) <=> ~Closed(a, p)) /\ Building(f) /\ StraightRight(a, p, f, st)
    /\ \A gs, ss : Fits(gs, a, p, Branched) /\ Fits(ss, a, p, {"switch"}) =>
         /\ Owned(Unplaced(f), gs, ls, a, p)
         /\ SwitchesRight(gs, ss, ls, st, f, Unplaced(f))

\* The invariant of the visit.
WellInv ==
    /\ gen # "idle" => Sound(nodes)
    /\ gen = "visiting" => Right(nodes, pos, ir, locals, switchStack)
    /\ WellFormed

\* It is enough to know the statements around p.
LEMMA RightAt ==
  ASSUME NEW a, NEW p \in Live(a), NEW f, IsOpen(f) <=> ~Closed(a, p), Building(f),
         NEW ls, NEW st, StraightRight(a, p, f, st),
         NEW gs, NEW ss, Fits(gs, a, p, Branched), Fits(ss, a, p, {"switch"}),
         Owned(Unplaced(f), gs, ls, a, p), SwitchesRight(gs, ss, ls, st, f, Unplaced(f))
  PROVE  Right(a, p, f, ls, st)
<1>1. ASSUME NEW hs, NEW ts, Fits(hs, a, p, Branched), Fits(ts, a, p, {"switch"})
      PROVE  /\ Owned(Unplaced(f), hs, ls, a, p)
             /\ SwitchesRight(hs, ts, ls, st, f, Unplaced(f))
  <2>1. hs = gs
    BY <1>1, FitsUnique
  <2>2. ts = ss
    BY <1>1, FitsUnique
  <2>3. QED
    BY <2>1, <2>2
<1>2. QED
  BY <1>1 DEF Right

\* The statements around the position of the visit, and what is known there.
AtPos(gs, ss) ==
    /\ Linked(gs, ss, nodes, pos, ir, locals, switchStack, breakBBs, continueBBs)
    /\ Owned(Unplaced(ir), gs, locals, nodes, pos)
    /\ SwitchesRight(gs, ss, locals, switchStack, ir, Unplaced(ir))

\* There are some.
LEMMA SomeAround ==
  ASSUME VisitInv, WellInv, gen = "visiting"
  PROVE  \E gs, ss : AtPos(gs, ss)
<1>1. PICK gs, ss : Linked(gs, ss, nodes, pos, ir, locals, switchStack, breakBBs, continueBBs)
  BY DEF VisitInv
<1>2. AtPos(gs, ss)
  BY <1>1 DEF AtPos, WellInv, Right, Linked
<1>3. QED
  BY <1>2

-----------------------------------------------------------------------------
(* Steps that leave the statements around the position as they are. *)

\* The innermost switch's instruction.
LEMMA LastSwitch ==
  ASSUME NEW ss, NEW f, NEW st, SwitchesFit(ss, f, st), st # <<>>
  PROVE  IsSwitchInst(f, Last(st))
<1>1. st \in Seq(Nat \X Nat) /\ Len(st) = Len(ss) /\ \A k \in 1 .. Len(ss) : IsSwitchInst(f, st[k])
  BY DEF SwitchesFit
<1>2. Len(st) \in 1 .. Len(ss)
  BY <1>1
<1>3. QED
  BY <1>1, <1>2 DEF Last

\* What is known at a node.
LEMMA Here ==
  ASSUME VisitInv, WellInv, gen = "visiting", NEW gs, NEW ss, AtPos(gs, ss)
  PROVE  /\ Sound(nodes) /\ Program(nodes) /\ pos \in Live(nodes)
         /\ pos \in 1 .. Len(nodes) /\ pos \in Nat \ {0} /\ Len(nodes) \in Nat
         /\ nodes[pos] \in Node /\ EndsAt(nodes, nodes[pos], pos)
         /\ EndsOK(nodes, pos) /\ EndsOK(nodes, pos + 1)
         /\ nodes[pos].kind # "endfunc" => pos + 1 \in 1 .. Len(nodes)
         /\ Building(ir) /\ Ready(ir) /\ (IsOpen(ir) <=> ~Closed(nodes, pos))
         /\ StraightRight(nodes, pos, ir, switchStack)
         /\ Fits(gs, nodes, pos, Branched) /\ Fits(ss, nodes, pos, {"switch"})
         /\ gs \in Seq(Nat) /\ ss \in Seq(Nat)
         /\ LocalsFit(gs, nodes, ir, locals) /\ locals \in Seq(Local) /\ Len(locals) = Len(gs)
         /\ SwitchesFit(ss, ir, switchStack)
         /\ switchStack \in Seq(Nat \X Nat) /\ Len(switchStack) = Len(ss)
         /\ Owned(Unplaced(ir), gs, locals, nodes, pos)
         /\ SwitchesRight(gs, ss, locals, switchStack, ir, Unplaced(ir))
<1>1. Sound(nodes) /\ Program(nodes)
  BY DEF WellInv, Sound
<1>2. /\ pos \in Live(nodes) /\ (IsOpen(ir) <=> ~Closed(nodes, pos)) /\ Building(ir)
      /\ StraightRight(nodes, pos, ir, switchStack)
  BY DEF WellInv, Right
<1>3. pos \in 1 .. Len(nodes)
  BY <1>1, <1>2, LiveIs
<1>4. /\ Len(nodes) \in Nat /\ pos \in Nat \ {0}
      /\ nodes[pos] \in Node /\ EndsAt(nodes, nodes[pos], pos)
      /\ EndsOK(nodes, pos) /\ EndsOK(nodes, pos + 1)
      /\ nodes[pos].kind # "endfunc" => pos + 1 \in 1 .. Len(nodes)
  BY <1>1, <1>3, Position
<1>5. /\ Fits(gs, nodes, pos, Branched) /\ Fits(ss, nodes, pos, {"switch"})
      /\ LocalsFit(gs, nodes, ir, locals) /\ SwitchesFit(ss, ir, switchStack)
      /\ Owned(Unplaced(ir), gs, locals, nodes, pos)
      /\ SwitchesRight(gs, ss, locals, switchStack, ir, Unplaced(ir))
  BY DEF AtPos, Linked
<1>6. gs \in Seq(Nat) /\ ss \in Seq(Nat)
  BY <1>5 DEF Fits
<1>7. /\ locals \in Seq(Local) /\ Len(locals) = Len(gs)
      /\ switchStack \in Seq(Nat \X Nat) /\ Len(switchStack) = Len(ss)
  BY <1>5 DEF LocalsFit, SwitchesFit
<1>8. Ready(ir)
  BY <1>2 DEF Building
<1>9. QED
  BY <1>1, <1>2, <1>3, <1>4, <1>5, <1>6, <1>7, <1>8

\* Nothing begins or ends, and no block is inserted.
LEMMA StaysRight ==
  ASSUME VisitInv, WellInv, gen = "visiting", NEW gs, NEW ss, AtPos(gs, ss),
         NEW q \in Live(nodes), SameAround(nodes, pos, q),
         \A k \in 1 .. Len(gs) : SameAhead(nodes, gs[k], pos, q),
         NEW g, Building(g), Keeps(ir, g), \A b : b \in Unplaced(g) <=> b \in Unplaced(ir),
         IsOpen(g) <=> ~Closed(nodes, q), StraightRight(nodes, q, g, switchStack)
  PROVE  Right(nodes, q, g, locals, switchStack)
<1>1. /\ Fits(gs, nodes, pos, Branched) /\ Fits(ss, nodes, pos, {"switch"})
      /\ Ready(ir) /\ SwitchesFit(ss, ir, switchStack)
      /\ Owned(Unplaced(ir), gs, locals, nodes, pos)
      /\ SwitchesRight(gs, ss, locals, switchStack, ir, Unplaced(ir))
  BY Here
<1>2. \A i : Encloses(nodes, i, q, Branched) <=> Encloses(nodes, i, pos, Branched)
  BY DEF SameAround, Kinds
<1>3. \A i : Encloses(nodes, i, q, {"switch"}) <=> Encloses(nodes, i, pos, {"switch"})
  BY DEF SameAround, Kinds
<1>4. Fits(gs, nodes, q, Branched)
  BY <1>1, <1>2, FitsSame
<1>5. Fits(ss, nodes, q, {"switch"})
  BY <1>1, <1>3, FitsSame
<1>6. Owned(Unplaced(g), gs, locals, nodes, q)
  BY <1>1, OwnedSame
<1>7. Ready(g)
  BY DEF Building
<1>8. \A x : IsSwitchInst(ir, x) => Inst(g, x).to = Inst(ir, x).to
  BY <1>1, <1>7, KeepsCarries
<1>9. \A b \in Unplaced(g) : b \in Unplaced(ir) \/ b \notin Goals(ir)
  OBVIOUS
<1>10. SwitchesRight(gs, ss, locals, switchStack, g, Unplaced(g))
  BY <1>1, <1>8, <1>9, SwitchesSame
<1>11. QED
  BY <1>4, <1>5, <1>6, <1>10, RightAt

\* What is ahead of the next node for the statements around.
LEMMA AheadSame ==
  ASSUME VisitInv, WellInv, gen = "visiting", NEW gs, NEW ss, AtPos(gs, ss),
         nodes[pos].kind \notin {"else", "default"}
  PROVE  \A k \in 1 .. Len(gs) : SameAhead(nodes, gs[k], pos, pos + 1)
<1>1. Program(nodes) /\ pos \in 1 .. Len(nodes)
  BY Here
<1>2. ASSUME NEW i PROVE SameAhead(nodes, i, pos, pos + 1)
  <2>1. ~(nodes[pos].kind = "else" /\ nodes[pos].opener = i) /\ ~DefaultOf(nodes, pos, i)
    BY DEF DefaultOf
  <2>2. QED
    BY <1>1, <2>1, AheadNext
<1>3. QED
  BY <1>2

\* The instruction of the innermost switch stays what it is.
LEMMA SwitchStays ==
  ASSUME VisitInv, WellInv, gen = "visiting", NEW gs, NEW ss, AtPos(gs, ss),
         NEW g, Building(g), Keeps(ir, g)
  PROVE  switchStack # <<>> => Inst(g, Last(switchStack)).to = Inst(ir, Last(switchStack)).to
<1>1. Ready(ir) /\ Ready(g) /\ SwitchesFit(ss, ir, switchStack)
  BY Here DEF Building
<1>2. ASSUME switchStack # <<>>
      PROVE  Inst(g, Last(switchStack)).to = Inst(ir, Last(switchStack)).to
  <2>1. IsSwitchInst(ir, Last(switchStack))
    BY <1>1, <1>2, LastSwitch
  <2>2. QED
    BY <1>1, <2>1, KeepsCarries
<1>3. QED
  BY <1>2

\* An expression, or the beginning or end of a block or a section.
LEMMA PlainRight ==
  ASSUME VisitInv, WellInv, NEW gs, NEW ss, AtPos(gs, ss), VisitExpr \/ VisitBlock
  PROVE  Right(nodes, pos', ir', locals', switchStack')
<1>1. gen = "visiting" /\ nodes[pos].kind \in {"expr", "block"} \cup SilentEnds
  BY DEF VisitExpr, VisitBlock, Visiting, SilentEnds
<1>2. /\ Sound(nodes) /\ Program(nodes) /\ pos \in Live(nodes)
      /\ pos \in 1 .. Len(nodes) /\ pos \in Nat \ {0} /\ Len(nodes) \in Nat
      /\ nodes[pos] \in Node /\ EndsAt(nodes, nodes[pos], pos)
      /\ Building(ir) /\ Ready(ir) /\ (IsOpen(ir) <=> ~Closed(nodes, pos))
      /\ StraightRight(nodes, pos, ir, switchStack)
  BY <1>1, Here
<1>3. nodes[pos].kind \notin Jumps /\ nodes[pos].kind # "endfunc"
  BY <1>1 DEF Jumps, SilentEnds
<1>4. pos + 1 \in 1 .. Len(nodes)
  BY <1>2, <1>3, Position
<1>5. pos + 1 \in Live(nodes)
  BY <1>2, <1>3, <1>4, LiveNext
<1>6. pos' = pos + 1 /\ locals' = locals /\ switchStack' = switchStack
  BY DEF VisitExpr, VisitBlock, Advance
<1>7. SameAround(nodes, pos, pos + 1)
  <2>1. nodes[pos].kind \notin Branched \cup {"endif", "endfor", "enddo", "endswitch"}
    BY <1>1 DEF Branched, SilentEnds
  <2>2. QED
    BY <1>2, <2>1, PlainAround
<1>8. \A k \in 1 .. Len(gs) : SameAhead(nodes, gs[k], pos, pos + 1)
  BY <1>1, AheadSame DEF SilentEnds
<1>9. PICK g : g = ir'
  OBVIOUS
<1>10. /\ Building(g) /\ Keeps(ir, g) /\ \A b : b \in Unplaced(g) <=> b \in Unplaced(ir)
       /\ IsOpen(g) <=> ~Closed(nodes, pos + 1)
       /\ Plain(nodes[pos]) => g.point = ir.point
  <2>1. CASE VisitExpr
    <3>1. nodes[pos].kind = "expr" /\ g = Evaluate(ir, pos, nodes[pos].branching)
      BY <1>9, <2>1 DEF VisitExpr, Visiting, Node1
    <3>2. ~Closed(nodes, pos)
      BY <1>2, <3>1, StillOpen
    <3>3. nodes[pos].branching \in BOOLEAN /\ pos \in Nat
      BY <1>2 DEF Node
    <3>4. /\ Building(g) /\ Keeps(ir, g) /\ IsOpen(g)
          /\ \A b : b \in Unplaced(g) <=> b \in Unplaced(ir)
          /\ ~nodes[pos].branching => g.point = ir.point
      BY SMTT(60), <1>2, <3>1, <3>2, <3>3, EvaluateBuilds
    <3>5. ~Closed(nodes, pos + 1)
      BY <1>2, <1>3, <3>1, ClosedNext DEF SilentEnds
    <3>6. Plain(nodes[pos]) => ~nodes[pos].branching
      BY <3>1 DEF Plain
    <3>7. QED
      BY <3>4, <3>5, <3>6
  <2>2. CASE VisitBlock
    <3>1. g = ir /\ nodes[pos].kind \in {"block"} \cup SilentEnds
      BY <1>9, <2>2 DEF VisitBlock, Visiting, SilentEnds
    <3>2. Closed(nodes, pos + 1) <=> Closed(nodes, pos)
      BY <1>2, <1>3, <3>1, ClosedNext
    <3>3. Keeps(ir, ir)
      BY <1>2 DEF Building, Ready, IrTyped, Keeps
    <3>4. QED
      BY <1>2, <3>1, <3>2, <3>3
  <2>3. QED
    BY <2>1, <2>2
<1>11. StraightRight(nodes, pos + 1, g, switchStack)
  <2>1. CASE Plain(nodes[pos])
    <3>1. switchStack # <<>> => Inst(g, Last(switchStack)).to = Inst(ir, Last(switchStack)).to
      BY <1>1, <1>10, SwitchStays
    <3>2. pos + 1 \in Nat /\ pos < pos + 1 /\ \A k \in pos + 1 .. (pos + 1) - 1 : k \notin Live(nodes)
      BY <1>2
    <3>3. QED
      BY <1>2, <1>10, <2>1, <3>1, <3>2, StraightNext
  <2>2. CASE ~Plain(nodes[pos])
    <3>1. nodes[pos].kind \notin Sections
      BY <1>1 DEF Sections, SilentEnds
    <3>2. QED
      BY <1>2, <2>2, <3>1, StraightNone
  <2>3. QED
    BY <2>1, <2>2
<1>12. Right(nodes, pos + 1, g, locals, switchStack)
  BY <1>1, <1>5, <1>7, <1>8, <1>10, <1>11, StaysRight
<1>13. QED
  BY <1>6, <1>9, <1>12

\* A jump.
LEMMA JumpRight ==
  ASSUME VisitInv, WellInv, NEW gs, NEW ss, AtPos(gs, ss),
         VisitReturnStmt \/ VisitBreakStmt \/ VisitContinueStmt
  PROVE  Right(nodes, pos', ir', locals', switchStack')
<1>1. gen = "visiting" /\ nodes[pos].kind \in Jumps
  BY DEF VisitReturnStmt, VisitBreakStmt, VisitContinueStmt, Visiting, Jumps
<1>2. /\ Sound(nodes) /\ Program(nodes) /\ pos \in Live(nodes)
      /\ pos \in 1 .. Len(nodes) /\ pos \in Nat \ {0} /\ Len(nodes) \in Nat
      /\ nodes[pos] \in Node
      /\ Building(ir) /\ Ready(ir) /\ (IsOpen(ir) <=> ~Closed(nodes, pos))
      /\ StraightRight(nodes, pos, ir, switchStack)
      /\ Fits(gs, nodes, pos, Branched)
  BY <1>1, Here
<1> DEFINE q == Skip(nodes, pos)
<1>3. IsOpen(ir)
  BY <1>1, <1>2, StillOpen
<1>4. /\ q \in Live(nodes) /\ \A k \in pos + 1 .. q - 1 : k \notin Live(nodes)
      /\ q \in pos + 1 .. Len(nodes) /\ q = Min(SkipSet(nodes, pos))
  BY <1>1, <1>2, LiveSkip, FollowerIs
<1>5. Closed(nodes, q)
  BY <1>1, <1>2, ClosedSkip
<1>6. pos' = q /\ locals' = locals /\ switchStack' = switchStack
  BY DEF VisitReturnStmt, VisitBreakStmt, VisitContinueStmt, SkipRest, EndOfEnclosing, Skip
<1>7. SameAround(nodes, pos, q)
  <2>1. ASSUME NEW kinds \in Kinds, NEW i
        PROVE  Encloses(nodes, i, q, kinds) <=> Encloses(nodes, i, pos, kinds)
    <3>1. kinds \subseteq Openers
      BY KindsAre
    <3>2. QED
      BY <1>1, <1>2, <1>4, <3>1, EnclosesSkip
  <2>2. QED
    BY <2>1 DEF SameAround
<1>8. ASSUME NEW k \in 1 .. Len(gs) PROVE SameAhead(nodes, gs[k], pos, q)
  <2>1. Encloses(nodes, gs[k], pos, Branched)
    BY <1>2 DEF Fits
  <2>2. QED
    BY <1>1, <1>2, <2>1, AheadSkip
<1>9. PICK g : g = ir'
  OBVIOUS
<1>10. PICK bs, cs : /\ bs = breakBBs /\ cs = continueBBs
                     /\ JumpsTo(bs, nodes, pos, Breakable, ir) /\ JumpsTo(cs, nodes, pos, Loops, ir)
  BY DEF AtPos, Linked
<1>11. JumpsAt(nodes, nodes[pos], pos)
  BY <1>2, ProgramNode
<1>12. /\ Building(g) /\ Keeps(ir, g) /\ Unplaced(g) = Unplaced(ir)
       /\ ~IsOpen(g) /\ g.point = ir.point
  <2>1. CASE VisitReturnStmt
    <3>1. g = Emit(ir, Term(pos, <<>>))
      BY <1>9, <2>1 DEF VisitReturnStmt
    <3>2. Fit(ir, Term(pos, <<>>)) /\ Term(pos, <<>>).term
      BY <1>2, InstrType
    <3>3. QED
      BY <1>2, <1>3, <3>1, <3>2, EmitBuilds
  <2>2. CASE VisitBreakStmt
    <3>1. g = CreateBr(ir, BlockOf(bs, nodes[pos].target)) /\ nodes[pos].kind = "break"
      BY <1>9, <1>10, <2>2 DEF VisitBreakStmt, Visiting, Node1
    <3>2. Encloses(nodes, nodes[pos].target, pos, Breakable)
      BY <1>11, <3>1 DEF JumpsAt, Binds
    <3>3. BlockOf(bs, nodes[pos].target) \in Goals(ir)
      BY <1>10, <3>2 DEF JumpsTo, BlockOf
    <3>4. QED
      BY <1>2, <1>3, <3>1, <3>3, BrBuilds
  <2>3. CASE VisitContinueStmt
    <3>1. g = CreateBr(ir, BlockOf(cs, nodes[pos].target)) /\ nodes[pos].kind = "continue"
      BY <1>9, <1>10, <2>3 DEF VisitContinueStmt, Visiting, Node1
    <3>2. Encloses(nodes, nodes[pos].target, pos, Loops)
      BY <1>11, <3>1 DEF JumpsAt, Binds
    <3>3. BlockOf(cs, nodes[pos].target) \in Goals(ir)
      BY <1>10, <3>2 DEF JumpsTo, BlockOf
    <3>4. QED
      BY <1>2, <1>3, <3>1, <3>3, BrBuilds
  <2>4. QED
    BY <2>1, <2>2, <2>3
<1>13. StraightRight(nodes, q, g, switchStack)
  <2>1. switchStack # <<>> => Inst(g, Last(switchStack)).to = Inst(ir, Last(switchStack)).to
    BY <1>1, <1>12, SwitchStays
  <2>2. Plain(nodes[pos])
    BY <1>1 DEF Plain, Jumps
  <2>3. q \in Nat /\ pos < q
    BY <1>2, <1>4
  <2>4. QED
    BY <1>2, <1>4, <1>12, <2>1, <2>2, <2>3, StraightNext
<1> HIDE DEF q
<1>14. /\ \A b : b \in Unplaced(g) <=> b \in Unplaced(ir)
       /\ IsOpen(g) <=> ~Closed(nodes, q)
  BY <1>5, <1>12
<1>15. Right(nodes, q, g, locals, switchStack)
  BY <1>1, <1>4, <1>7, <1>8, <1>12, <1>13, <1>14, StaysRight
<1>16. QED
  BY <1>6, <1>9, <1>15

-----------------------------------------------------------------------------
(* A statement with blocks begins. *)

\* What is common to the four.
LEMMA OpensRight ==
  ASSUME VisitInv, WellInv, gen = "visiting", NEW gs, NEW ss, AtPos(gs, ss), nodes[pos].kind \in Branched,
         NEW g, Building(g), Keeps(ir, g), NEW l \in Local,
         \A b : b \in Unplaced(g) <=> b \in Unplaced(ir) \/ Awaited(nodes, pos + 1, pos, l, b),
         \A b : Awaited(nodes, pos + 1, pos, l, b) => b \notin 1 .. Len(ir.blocks),
         Settled(nodes, pos + 1, pos, l, Unplaced(g)),
         IsOpen(g) <=> nodes[pos].kind # "switch",
         NEW st, IF nodes[pos].kind = "switch"
                   THEN \E x : IsSwitchInst(g, x) /\ Inst(g, x).to = <<l.default>> /\ st = Append(switchStack, x)
                 ELSE st = switchStack
  PROVE  Right(nodes, pos + 1, g, Append(locals, l), st)
<1>1. /\ Sound(nodes) /\ Program(nodes) /\ pos \in Live(nodes)
      /\ pos \in 1 .. Len(nodes) /\ pos \in Nat \ {0} /\ Len(nodes) \in Nat
      /\ EndsAt(nodes, nodes[pos], pos) /\ EndsOK(nodes, pos + 1)
      /\ nodes[pos].kind # "endfunc" => pos + 1 \in 1 .. Len(nodes)
      /\ Building(ir) /\ Ready(ir)
      /\ Fits(gs, nodes, pos, Branched) /\ Fits(ss, nodes, pos, {"switch"})
      /\ gs \in Seq(Nat) /\ ss \in Seq(Nat)
      /\ LocalsFit(gs, nodes, ir, locals) /\ locals \in Seq(Local) /\ Len(locals) = Len(gs)
      /\ SwitchesFit(ss, ir, switchStack)
      /\ switchStack \in Seq(Nat \X Nat) /\ Len(switchStack) = Len(ss)
      /\ Owned(Unplaced(ir), gs, locals, nodes, pos)
      /\ SwitchesRight(gs, ss, locals, switchStack, ir, Unplaced(ir))
  BY Here
<1>2. nodes[pos].kind \notin Jumps \cup {"endfunc", "block", "else", "default"} \cup SilentEnds \cup Sections \cup Closers
  BY DEF Branched, Jumps, SilentEnds, Sections, Closers
<1>3. pos + 1 \in Live(nodes)
  BY <1>1, <1>2, LiveNext
<1>4. IsOpen(g) <=> ~Closed(nodes, pos + 1)
  <2>1. CASE nodes[pos].kind = "switch"
    BY <1>1, <1>2, <2>1, ClosedNext
  <2>2. CASE nodes[pos].kind # "switch"
    <3>1. nodes[pos].kind \notin {"switch", "block"} \cup SilentEnds
      BY <1>2, <2>2
    <3>2. ~Closed(nodes, pos + 1)
      BY <1>1, <1>2, <3>1, ClosedNext
    <3>3. QED
      BY <2>2, <3>2
  <2>3. QED
    BY <2>1, <2>2
<1>5. ~Plain(nodes[pos])
  BY <1>2 DEF Plain, Branched
<1>6. StraightRight(nodes, pos + 1, g, st)
  BY <1>1, <1>2, <1>5, StraightNone
<1>7. Branched \subseteq Openers /\ {"switch"} \subseteq Openers
  BY DEF Branched, Openers
<1>8. Fits(Append(gs, pos), nodes, pos + 1, Branched)
  BY <1>1, <1>7, FitsOpen
<1>9. \A k \in 1 .. Len(gs) : SameAhead(nodes, gs[k], pos, pos + 1)
  BY <1>2, AheadSame
<1>10. \A b \in Unplaced(ir) : b \in 1 .. Len(ir.blocks)
  BY DEF Unplaced
<1>11. ASSUME NEW k \in 1 .. Len(gs), nodes[gs[k]].kind = "switch"
       PROVE  ~Awaited(nodes, pos + 1, pos, l, locals[k].default)
  <2>1. LocalOK(locals[k], nodes[gs[k]].kind, Goals(ir))
    BY <1>1 DEF LocalsFit
  <2>2. locals[k].default \in Goals(ir)
    BY <1>11, <2>1 DEF LocalOK
  <2>3. locals[k].default \in 1 .. Len(ir.blocks)
    BY <1>1, <2>2 DEF Goals
  <2>4. QED
    BY <2>3
<1>12. Owned(Unplaced(g), Append(gs, pos), Append(locals, l), nodes, pos + 1)
  <2>1. \A b : Awaited(nodes, pos + 1, pos, l, b) => b \notin Unplaced(ir)
    BY <1>10
  <2>2. pos \in Nat
    BY <1>1
  <2>3. QED
    BY <1>1, <1>9, <1>11, <2>1, <2>2, OwnedPush
<1>13. \A k \in 1 .. Len(ss) : ss[k] # pos
  <2>1. ASSUME NEW k \in 1 .. Len(ss) PROVE ss[k] # pos
    <3>1. Encloses(nodes, ss[k], pos, {"switch"})
      BY <1>1 DEF Fits
    <3>2. ss[k] \in 1 .. pos - 1
      BY <3>1 DEF Encloses
    <3>3. QED
      BY <1>1, <3>2
  <2>2. QED
    BY <2>1
<1>14. \A k \in 1 .. Len(gs) : gs[k] # pos
  <2>1. ASSUME NEW k \in 1 .. Len(gs) PROVE gs[k] # pos
    <3>1. Encloses(nodes, gs[k], pos, Branched)
      BY <1>1 DEF Fits
    <3>2. gs[k] \in 1 .. pos - 1
      BY <3>1 DEF Encloses
    <3>3. QED
      BY <1>1, <3>2
  <2>2. QED
    BY <2>1
<1>15. SwitchesRight(gs, ss, locals, switchStack, g, Unplaced(g))
  <2>1. Ready(g)
    BY DEF Building
  <2>2. \A x : IsSwitchInst(ir, x) => Inst(g, x).to = Inst(ir, x).to
    BY <1>1, <2>1, KeepsCarries
  <2>3. \A b \in Unplaced(g) : b \in Unplaced(ir) \/ b \notin Goals(ir)
    <3>1. \A b \in Goals(ir) : b \in 1 .. Len(ir.blocks)
      BY <1>1 DEF Goals
    <3>2. QED
      BY <3>1
  <2>4. QED
    BY <1>1, <2>2, <2>3, SwitchesSame
<1>16. SwitchesRight(Append(gs, pos), ss, Append(locals, l), switchStack, g, Unplaced(g))
  BY <1>1, <1>13, <1>15, SwitchesOuter
<1>17. CASE nodes[pos].kind = "switch"
  <2>1. Fits(Append(ss, pos), nodes, pos + 1, {"switch"})
    <3>1. nodes[pos].kind \in {"switch"}
      BY <1>17
    <3>2. QED
      BY <1>1, <1>7, <3>1, FitsOpen
  <2>2. PICK x : IsSwitchInst(g, x) /\ Inst(g, x).to = <<l.default>> /\ st = Append(switchStack, x)
    BY <1>17
  <2>3. x \in Nat \X Nat
    BY <2>2 DEF IsSwitchInst
  <2>4. SwitchesRight(Append(gs, pos), Append(ss, pos), Append(locals, l), Append(switchStack, x), g, Unplaced(g))
    BY <1>1, <1>14, <1>16, <2>2, <2>3, SwitchesNew
  <2>5. SwitchesRight(Append(gs, pos), Append(ss, pos), Append(locals, l), st, g, Unplaced(g))
    BY <2>2, <2>4
  <2>6. QED
    BY <1>3, <1>4, <1>6, <1>8, <1>12, <2>1, <2>5, RightAt
<1>18. CASE nodes[pos].kind # "switch"
  <2>1. nodes[pos].kind \notin {"switch"} /\ nodes[pos].kind \notin Closers
    BY <1>2, <1>18
  <2>2. Fits(ss, nodes, pos + 1, {"switch"})
    BY <1>1, <1>7, <2>1, FitsOther
  <2>3. st = switchStack
    BY <1>18
  <2>4. SwitchesRight(Append(gs, pos), ss, Append(locals, l), st, g, Unplaced(g))
    BY <1>16, <2>3
  <2>5. QED
    BY <1>3, <1>4, <1>6, <1>8, <1>12, <2>2, <2>4, RightAt
<1>19. QED
  BY <1>17, <1>18

\* An if.
LEMMA IfRight ==
  ASSUME VisitInv, WellInv, NEW gs, NEW ss, AtPos(gs, ss), VisitIfStmt
  PROVE  Crash \/ Right(nodes, pos', ir', locals', switchStack')
<1>1. SUFFICES ASSUME ~Crash PROVE Right(nodes, pos', ir', locals', switchStack')
  OBVIOUS
<1>2. gen = "visiting" /\ nodes[pos].kind = "if"
  BY DEF VisitIfStmt, Visiting
<1>3. /\ Sound(nodes) /\ Program(nodes) /\ pos \in Live(nodes) /\ pos \in 1 .. Len(nodes) /\ pos \in Nat \ {0}
      /\ nodes[pos] \in Node /\ Building(ir) /\ (IsOpen(ir) <=> ~Closed(nodes, pos))
  BY <1>2, Here
<1>4. IsOpen(ir)
  BY <1>2, <1>3, StillOpen
<1>5. PICK k : k = IF HasElse(pos) THEN 3 ELSE 2
  OBVIOUS
<1>6. PICK n : n = Len(ir.blocks)
  OBVIOUS
<1>7. PICK l : l = [else |-> n + 2, last |-> n + k]
  OBVIOUS
<1>8. PICK g : g = ir'
  OBVIOUS
<1>9. /\ LET m == LastBlock(ir)
             cond == Evaluate(Create(ir, k), 0, nodes[pos].branching)
         IN  g = Place(Emit(cond, Term(pos, <<m + 1, m + 2>>)), m + 1)
      /\ locals' = Append(locals, l) /\ pos' = pos + 1 /\ switchStack' = switchStack
  BY <1>1, <1>5, <1>6, <1>7, <1>8 DEF VisitIfStmt, Advance, LastBlock, Node1
<1>10. k \in {2, 3} /\ nodes[pos].branching \in BOOLEAN /\ pos \in Nat
  BY <1>3, <1>5 DEF Node
<1>11. /\ Building(g) /\ Keeps(ir, g) /\ IsOpen(g)
       /\ \A b : b \in Unplaced(g) <=> b \in Unplaced(ir) \/ b \in n + 2 .. n + k
  BY <1>3, <1>4, <1>6, <1>9, <1>10, IfGrows
<1>12. n \in Nat
  BY <1>3, <1>6, OrderIs
<1>13. l \in Local /\ l.else = n + 2 /\ l.last = n + k
  BY <1>7, <1>10, <1>12 DEF Local
<1>14. HasElse(pos) <=> ElseAhead(nodes, pos, pos + 1)
  BY <1>3, AheadAtFirst DEF HasElse
<1>15. \A b : Awaited(nodes, pos + 1, pos, l, b) <=> b = n + k \/ (HasElse(pos) /\ b = n + 2)
  BY <1>2, <1>13, <1>14 DEF Awaited
<1>16. \A b : b \in n + 2 .. n + k <=> b = n + k \/ (HasElse(pos) /\ b = n + 2)
  <2>1. CASE HasElse(pos)
    <3>1. k = 3
      BY <1>5, <2>1
    <3>2. \A b : b \in n + 2 .. n + 3 <=> b = n + 3 \/ b = n + 2
      BY <1>12
    <3>3. QED
      BY <2>1, <3>1, <3>2
  <2>2. CASE ~HasElse(pos)
    <3>1. k = 2
      BY <1>5, <2>2
    <3>2. \A b : b \in n + 2 .. n + 2 <=> b = n + 2
      BY <1>12
    <3>3. QED
      BY <2>2, <3>1, <3>2
  <2>3. QED
    BY <2>1, <2>2
<1>17. \A b : b \in Unplaced(g) <=> b \in Unplaced(ir) \/ Awaited(nodes, pos + 1, pos, l, b)
  BY <1>11, <1>15, <1>16
<1>18. \A b : Awaited(nodes, pos + 1, pos, l, b) => b \notin 1 .. Len(ir.blocks)
  BY <1>6, <1>10, <1>12, <1>15
<1>19. Settled(nodes, pos + 1, pos, l, Unplaced(g))
  <2>1. ElseAhead(nodes, pos, pos + 1) => l.else # l.last
    BY <1>5, <1>12, <1>13, <1>14
  <2>2. QED
    BY <1>2, <2>1 DEF Settled
<1>20. nodes[pos].kind \in Branched /\ nodes[pos].kind # "switch"
  BY <1>2 DEF Branched
<1>21. Right(nodes, pos + 1, g, Append(locals, l), switchStack)
  BY <1>2, <1>11, <1>13, <1>17, <1>18, <1>19, <1>20, OpensRight
<1>22. QED
  BY <1>8, <1>9, <1>21

\* A for or a while.
LEMMA ForRight ==
  ASSUME VisitInv, WellInv, NEW gs, NEW ss, AtPos(gs, ss), VisitForStmt
  PROVE  Right(nodes, pos', ir', locals', switchStack')
<1>1. gen = "visiting" /\ nodes[pos].kind = "for"
  BY DEF VisitForStmt, Visiting
<1>2. /\ Sound(nodes) /\ Program(nodes) /\ pos \in Live(nodes) /\ pos \in 1 .. Len(nodes) /\ pos \in Nat \ {0}
      /\ nodes[pos] \in Node /\ Building(ir) /\ (IsOpen(ir) <=> ~Closed(nodes, pos))
  BY <1>1, Here
<1>3. IsOpen(ir)
  BY <1>1, <1>2, StillOpen
<1>4. PICK n : n = Len(ir.blocks)
  OBVIOUS
<1>5. PICK l : l = [cond |-> n + 1, inc |-> n + 2, last |-> n + 4]
  OBVIOUS
<1>6. PICK g : g = ir'
  OBVIOUS
<1>7. /\ LET m == LastBlock(ir)
             head == Place(CreateBr(Create(ir, 4), m + 1), m + 1)
             test == IF nodes[pos].cond
                     THEN Emit(Evaluate(head, 0, nodes[pos].branching), Term(pos, <<m + 3, m + 4>>))
                     ELSE Emit(head, Term(pos, <<m + 3>>))
         IN  g = Place(test, m + 3)
      /\ locals' = Append(locals, l) /\ pos' = pos + 1 /\ switchStack' = switchStack
  BY <1>4, <1>5, <1>6 DEF VisitForStmt, Advance, LastBlock, Node1
<1>8. nodes[pos].cond \in BOOLEAN /\ nodes[pos].branching \in BOOLEAN /\ pos \in Nat
  BY <1>2 DEF Node
<1>9. /\ Building(g) /\ Keeps(ir, g) /\ IsOpen(g)
      /\ \A b : b \in Unplaced(g) <=> b \in Unplaced(ir) \/ b = n + 2 \/ b = n + 4
  BY SMTT(60), <1>2, <1>3, <1>4, <1>7, <1>8, ForGrows
<1>10. n \in Nat
  BY <1>2, <1>4, OrderIs
<1>11. l \in Local /\ l.inc = n + 2 /\ l.last = n + 4
  BY <1>5, <1>10 DEF Local
<1>12. \A b : Awaited(nodes, pos + 1, pos, l, b) <=> b = n + 4 \/ b = n + 2
  BY <1>1, <1>11 DEF Awaited
<1>13. \A b : b \in Unplaced(g) <=> b \in Unplaced(ir) \/ Awaited(nodes, pos + 1, pos, l, b)
  BY <1>9, <1>12
<1>14. \A b : Awaited(nodes, pos + 1, pos, l, b) => b \notin 1 .. Len(ir.blocks)
  BY <1>4, <1>10, <1>12
<1>15. Settled(nodes, pos + 1, pos, l, Unplaced(g))
  <2>1. l.inc # l.last
    BY <1>10, <1>11
  <2>2. QED
    BY <1>1, <2>1 DEF Settled
<1>16. nodes[pos].kind \in Branched /\ nodes[pos].kind # "switch"
  BY <1>1 DEF Branched
<1>17. Right(nodes, pos + 1, g, Append(locals, l), switchStack)
  BY <1>1, <1>9, <1>11, <1>13, <1>14, <1>15, <1>16, OpensRight
<1>18. QED
  BY <1>6, <1>7, <1>17

\* A do.
LEMMA DoRight ==
  ASSUME VisitInv, WellInv, NEW gs, NEW ss, AtPos(gs, ss), VisitDoWhileStmt
  PROVE  Crash \/ Right(nodes, pos', ir', locals', switchStack')
<1>1. SUFFICES ASSUME ~Crash PROVE Right(nodes, pos', ir', locals', switchStack')
  OBVIOUS
<1>2. gen = "visiting" /\ nodes[pos].kind = "do"
  BY DEF VisitDoWhileStmt, Visiting
<1>3. /\ Sound(nodes) /\ Program(nodes) /\ pos \in Live(nodes) /\ pos \in 1 .. Len(nodes) /\ pos \in Nat \ {0}
      /\ nodes[pos] \in Node /\ Building(ir) /\ (IsOpen(ir) <=> ~Closed(nodes, pos))
  BY <1>2, Here
<1>4. IsOpen(ir)
  BY <1>2, <1>3, StillOpen
<1>5. PICK n : n = Len(ir.blocks)
  OBVIOUS
<1>6. PICK l : l = [body |-> n + 1, cond |-> n + 2, last |-> n + 3]
  OBVIOUS
<1>7. PICK g : g = ir'
  OBVIOUS
<1>8. /\ LET m == LastBlock(ir) IN g = Place(CreateBr(Create(ir, 3), m + 1), m + 1)
      /\ locals' = Append(locals, l) /\ pos' = pos + 1 /\ switchStack' = switchStack
  BY <1>1, <1>5, <1>6, <1>7 DEF VisitDoWhileStmt, Advance, LastBlock
<1>9. /\ Building(g) /\ Keeps(ir, g) /\ IsOpen(g)
      /\ \A b : b \in Unplaced(g) <=> b \in Unplaced(ir) \/ b = n + 2 \/ b = n + 3
  BY <1>3, <1>4, <1>5, <1>8, DoGrows
<1>10. n \in Nat
  BY <1>3, <1>5, OrderIs
<1>11. l \in Local /\ l.cond = n + 2 /\ l.last = n + 3
  BY <1>6, <1>10 DEF Local
<1>12. \A b : Awaited(nodes, pos + 1, pos, l, b) <=> b = n + 3 \/ b = n + 2
  BY <1>2, <1>11 DEF Awaited
<1>13. \A b : b \in Unplaced(g) <=> b \in Unplaced(ir) \/ Awaited(nodes, pos + 1, pos, l, b)
  BY <1>9, <1>12
<1>14. \A b : Awaited(nodes, pos + 1, pos, l, b) => b \notin 1 .. Len(ir.blocks)
  BY <1>5, <1>10, <1>12
<1>15. Settled(nodes, pos + 1, pos, l, Unplaced(g))
  <2>1. l.cond # l.last
    BY <1>10, <1>11
  <2>2. QED
    BY <1>2, <2>1 DEF Settled
<1>16. nodes[pos].kind \in Branched /\ nodes[pos].kind # "switch"
  BY <1>2 DEF Branched
<1>17. Right(nodes, pos + 1, g, Append(locals, l), switchStack)
  BY <1>2, <1>9, <1>11, <1>13, <1>14, <1>15, <1>16, OpensRight
<1>18. QED
  BY <1>7, <1>8, <1>17

\* A switch.
LEMMA SwitchRight ==
  ASSUME VisitInv, WellInv, NEW gs, NEW ss, AtPos(gs, ss), VisitSwitchStmt
  PROVE  Crash \/ Right(nodes, pos', ir', locals', switchStack')
<1>1. SUFFICES ASSUME ~Crash PROVE Right(nodes, pos', ir', locals', switchStack')
  OBVIOUS
<1>2. gen = "visiting" /\ nodes[pos].kind = "switch"
  BY DEF VisitSwitchStmt, Visiting
<1>3. /\ Sound(nodes) /\ Program(nodes) /\ pos \in Live(nodes) /\ pos \in 1 .. Len(nodes) /\ pos \in Nat \ {0}
      /\ nodes[pos] \in Node /\ Building(ir) /\ Ready(ir) /\ (IsOpen(ir) <=> ~Closed(nodes, pos))
  BY <1>2, Here
<1>4. IsOpen(ir)
  BY <1>2, <1>3, StillOpen
<1>5. PICK n : n = Len(ir.blocks)
  OBVIOUS
<1>6. PICK l : l = [default |-> n + 1, last |-> n + 2]
  OBVIOUS
<1>7. PICK g : g = ir'
  OBVIOUS
<1>8. PICK x : x = <<ir.point, Len(ir.blocks[ir.point]) + 1>>
  OBVIOUS
<1>9. PICK st : st = Append(switchStack, x)
  OBVIOUS
<1>10. /\ g = Emit(Create(ir, 2), Term(pos, <<LastBlock(ir) + 1>>))
       /\ locals' = Append(locals, l) /\ pos' = pos + 1 /\ switchStack' = st
  BY <1>1, <1>5, <1>6, <1>7, <1>8, <1>9 DEF VisitSwitchStmt, Advance, LastBlock
<1>11. pos \in Nat
  BY <1>3
<1>12. /\ Building(g) /\ Keeps(ir, g) /\ ~IsOpen(g)
       /\ \A b : b \in Unplaced(g) <=> b \in Unplaced(ir) \/ b = n + 1 \/ b = n + 2
  BY <1>3, <1>4, <1>5, <1>10, <1>11, SwitchGrows
<1>13. n \in Nat /\ LastBlock(ir) = n
  BY <1>3, <1>5, OrderIs DEF LastBlock
<1>14. l \in Local /\ l.default = n + 1 /\ l.last = n + 2
  BY <1>6, <1>13 DEF Local
<1>15. IsSwitchInst(g, x) /\ Inst(g, x) = Term(pos, <<n + 1>>)
  <2>1. /\ IsSwitchInst(g, <<ir.point, Len(ir.blocks[ir.point]) + 1>>)
        /\ Inst(g, <<ir.point, Len(ir.blocks[ir.point]) + 1>>) = Term(pos, <<LastBlock(ir) + 1>>)
    BY <1>3, <1>10, <1>11, SwitchBuilds
  <2>2. QED
    BY <1>8, <1>13, <2>1
<1>16. Inst(g, x).to = <<l.default>>
  BY <1>14, <1>15 DEF Term
<1>17. NoDefaultYet(nodes, pos, pos + 1)
  BY <1>3, AheadAtFirst
<1>18. \A b : Awaited(nodes, pos + 1, pos, l, b) <=> b = n + 2 \/ b = n + 1
  BY <1>2, <1>14, <1>17 DEF Awaited
<1>19. \A b : b \in Unplaced(g) <=> b \in Unplaced(ir) \/ Awaited(nodes, pos + 1, pos, l, b)
  BY <1>12, <1>18
<1>20. \A b : Awaited(nodes, pos + 1, pos, l, b) => b \notin 1 .. Len(ir.blocks)
  BY <1>5, <1>13, <1>18
<1>21. Settled(nodes, pos + 1, pos, l, Unplaced(g))
  <2>1. l.default # l.last
    BY <1>13, <1>14
  <2>2. QED
    BY <1>2, <1>17, <2>1 DEF Settled
<1>22. nodes[pos].kind \in Branched
  BY <1>2 DEF Branched
<1>23. IF nodes[pos].kind = "switch"
         THEN \E y : IsSwitchInst(g, y) /\ Inst(g, y).to = <<l.default>> /\ st = Append(switchStack, y)
       ELSE st = switchStack
  BY <1>2, <1>9, <1>15, <1>16
<1>24. IsOpen(g) <=> nodes[pos].kind # "switch"
  BY <1>2, <1>12
<1>25. Right(nodes, pos + 1, g, Append(locals, l), st)
  BY <1>2, <1>12, <1>14, <1>19, <1>20, <1>21, <1>22, <1>23, <1>24, OpensRight
<1>26. QED
  BY <1>7, <1>10, <1>25

-----------------------------------------------------------------------------
(* A statement with blocks ends. *)

\* What an end or an else finds: the innermost statement is the one it belongs to.
LEMMA EndHere ==
  ASSUME VisitInv, WellInv, gen = "visiting", NEW gs, NEW ss, AtPos(gs, ss),
         nodes[pos].kind \in {"else", "endif", "endfor", "enddo", "endswitch"}
  PROVE  /\ gs # <<>> /\ locals # <<>> /\ Len(gs) \in 1 .. Len(gs) /\ Len(gs) \in Nat
         /\ Last(gs) = nodes[pos].opener /\ gs[Len(gs)] = Last(gs) /\ locals[Len(gs)] = Last(locals)
         /\ LocalOK(Last(locals), nodes[Last(gs)].kind, Goals(ir))
         /\ nodes[Last(gs)].kind =
              IF nodes[pos].kind \in {"else", "endif"} THEN "if"
              ELSE IF nodes[pos].kind = "endfor" THEN "for"
              ELSE IF nodes[pos].kind = "enddo" THEN "do" ELSE "switch"
         /\ Settled(nodes, pos, Last(gs), Last(locals), Unplaced(ir))
         /\ \A b : Awaited(nodes, pos, Last(gs), Last(locals), b) => b \in Unplaced(ir)
<1> DEFINE o == nodes[pos].opener
<1>1. /\ Program(nodes) /\ pos \in 1 .. Len(nodes) /\ pos \in Nat \ {0}
      /\ EndsAt(nodes, nodes[pos], pos)
      /\ Fits(gs, nodes, pos, Branched) /\ gs \in Seq(Nat)
      /\ locals \in Seq(Local) /\ Len(locals) = Len(gs)
      /\ Owned(Unplaced(ir), gs, locals, nodes, pos)
  BY Here
<1>2. /\ locals # <<>> /\ LocalOK(Last(locals), nodes[o].kind, Goals(ir))
      /\ nodes[o].kind =
           IF nodes[pos].kind \in {"else", "endif"} THEN "if"
           ELSE IF nodes[pos].kind = "endfor" THEN "for"
           ELSE IF nodes[pos].kind = "enddo" THEN "do" ELSE "switch"
  BY <1>1, EndLocals
<1>3. InnermostAt(nodes, o, pos)
  <2>1. nodes[pos].kind \in Closers \cup {"else"}
    BY DEF Closers
  <2>2. QED
    BY <1>1, <2>1, EndIsInnermost
<1>4. nodes[o].kind \in Branched /\ Branched \subseteq Openers
  BY <1>2 DEF Branched, Openers
<1>5. Encloses(nodes, o, pos, Branched) /\ \A i : Encloses(nodes, i, pos, Branched) => i <= o
  BY <1>1, <1>3, <1>4 DEF Encloses, InnermostAt
<1>6. /\ \A k \in 1 .. Len(gs) : \A l \in 1 .. k - 1 : gs[l] < gs[k]
      /\ \A i : Encloses(nodes, i, pos, Branched) <=> \E k \in 1 .. Len(gs) : gs[k] = i
  BY <1>1 DEF Fits
<1>7. Len(gs) \in Nat /\ gs # <<>> /\ Len(gs) \in 1 .. Len(gs)
  <2>1. Len(gs) \in Nat /\ Len(gs) # 0
    BY <1>1, <1>5, <1>6
  <2>2. QED
    BY <1>1, <2>1
<1>8. gs[Len(gs)] = Last(gs) /\ locals[Len(gs)] = Last(locals)
  BY <1>1 DEF Last
<1>9. Last(gs) = o
  <2>1. PICK k \in 1 .. Len(gs) : gs[k] = o
    BY <1>5, <1>6
  <2>2. gs[Len(gs)] <= o /\ gs[Len(gs)] \in Nat
    BY <1>1, <1>5, <1>6, <1>7
  <2>3. k = Len(gs) \/ k \in 1 .. Len(gs) - 1
    BY <1>7
  <2>4. k \in 1 .. Len(gs) - 1 => o < gs[Len(gs)]
    BY <1>6, <1>7, <2>1
  <2>5. o \in Nat
    BY <1>1, <1>3 DEF InnermostAt
  <2>6. QED
    BY <1>8, <2>1, <2>2, <2>3, <2>4, <2>5
<1>10. /\ Settled(nodes, pos, gs[Len(gs)], locals[Len(gs)], Unplaced(ir))
       /\ \A b : Awaited(nodes, pos, gs[Len(gs)], locals[Len(gs)], b) => b \in Unplaced(ir)
  BY <1>1, <1>7 DEF Owned
<1>11. QED
  BY <1>2, <1>7, <1>8, <1>9, <1>10

\* What is common to the four.
LEMMA ClosesRight ==
  ASSUME VisitInv, WellInv, gen = "visiting", NEW gs, NEW ss, AtPos(gs, ss),
         nodes[pos].kind \in {"endif", "endfor", "enddo", "endswitch"},
         NEW g, Building(g), Keeps(ir, g), IsOpen(g),
         \A b : b \in Unplaced(g) <=>
                  b \in Unplaced(ir) /\ ~Awaited(nodes, pos, Last(gs), Last(locals), b),
         NEW st, st = IF nodes[pos].kind = "endswitch" THEN Front(switchStack) ELSE switchStack
  PROVE  Right(nodes, pos + 1, g, Front(locals), st)
<1>1. /\ Sound(nodes) /\ Program(nodes) /\ pos \in Live(nodes)
      /\ pos \in 1 .. Len(nodes) /\ pos \in Nat \ {0} /\ Len(nodes) \in Nat
      /\ EndsAt(nodes, nodes[pos], pos)
      /\ nodes[pos].kind # "endfunc" => pos + 1 \in 1 .. Len(nodes)
      /\ Building(ir) /\ Ready(ir)
      /\ Fits(gs, nodes, pos, Branched) /\ Fits(ss, nodes, pos, {"switch"})
      /\ gs \in Seq(Nat) /\ ss \in Seq(Nat)
      /\ locals \in Seq(Local) /\ Len(locals) = Len(gs)
      /\ SwitchesFit(ss, ir, switchStack)
      /\ switchStack \in Seq(Nat \X Nat) /\ Len(switchStack) = Len(ss)
      /\ Owned(Unplaced(ir), gs, locals, nodes, pos)
      /\ SwitchesRight(gs, ss, locals, switchStack, ir, Unplaced(ir))
  BY Here
<1>2. /\ gs # <<>> /\ Last(gs) = nodes[pos].opener
      /\ nodes[Last(gs)].kind =
              IF nodes[pos].kind \in {"else", "endif"} THEN "if"
              ELSE IF nodes[pos].kind = "endfor" THEN "for"
              ELSE IF nodes[pos].kind = "enddo" THEN "do" ELSE "switch"
  BY EndHere
<1>3. /\ nodes[pos].kind \notin Jumps \cup {"endfunc", "switch", "block", "else", "default"} \cup SilentEnds \cup Sections
      /\ nodes[pos].kind \in Closers /\ nodes[pos].kind \notin Branched
  BY DEF Jumps, SilentEnds, Sections, Closers, Branched
<1>4. pos + 1 \in Live(nodes)
  BY <1>1, <1>3, LiveNext
<1>5. IsOpen(g) <=> ~Closed(nodes, pos + 1)
  <2>1. ~Closed(nodes, pos + 1)
    BY <1>1, <1>3, ClosedNext
  <2>2. QED
    BY <2>1
<1>6. StraightRight(nodes, pos + 1, g, st)
  <2>1. ~Plain(nodes[pos])
    BY <1>3 DEF Plain
  <2>2. QED
    BY <1>1, <1>3, <2>1, StraightNone
<1>7. /\ nodes[nodes[pos].opener].kind \in Branched
      /\ nodes[nodes[pos].opener].kind \in {"switch"} <=> nodes[pos].kind = "endswitch"
      /\ Branched \subseteq Openers /\ {"switch"} \subseteq Openers
  BY <1>2 DEF Branched, Openers
<1>8. Fits(Front(gs), nodes, pos + 1, Branched)
  BY <1>1, <1>3, <1>7, FitsClose
<1>9. \A k \in 1 .. Len(gs) - 1 : SameAhead(nodes, gs[k], pos, pos + 1)
  <2>1. nodes[pos].kind \notin {"else", "default"}
    BY <1>3
  <2>2. \A k \in 1 .. Len(gs) : SameAhead(nodes, gs[k], pos, pos + 1)
    BY <2>1, AheadSame
  <2>3. \A k \in 1 .. Len(gs) - 1 : k \in 1 .. Len(gs)
    BY <1>1
  <2>4. QED
    BY <2>2, <2>3
<1>10. Owned(Unplaced(g), Front(gs), Front(locals), nodes, pos + 1)
  BY <1>1, <1>2, <1>9, OwnedPop
<1>11. SwitchesRight(gs, ss, locals, switchStack, g, Unplaced(g))
  <2>1. Ready(g)
    BY DEF Building
  <2>2. \A x : IsSwitchInst(ir, x) => Inst(g, x).to = Inst(ir, x).to
    BY <1>1, <2>1, KeepsCarries
  <2>3. \A b \in Unplaced(g) : b \in Unplaced(ir) \/ b \notin Goals(ir)
    OBVIOUS
  <2>4. QED
    BY <1>1, <2>2, <2>3, SwitchesSame
<1>12. SwitchesRight(Front(gs), ss, Front(locals), switchStack, g, Unplaced(g))
  BY <1>1, <1>2, <1>11, SwitchesInner
<1>13. CASE nodes[pos].kind = "endswitch"
  <2>1. ss # <<>> /\ Fits(Front(ss), nodes, pos + 1, {"switch"})
    <3>1. nodes[nodes[pos].opener].kind \in {"switch"}
      BY <1>7, <1>13
    <3>2. {"switch"} \subseteq Openers
      BY <1>7
    <3>3. Fits(ss, nodes, pos, {"switch"}) /\ pos \in Nat \ {0} /\ EndsAt(nodes, nodes[pos], pos)
          /\ nodes[pos].kind \in Closers
      BY <1>1, <1>3
    <3>4. QED
      BY <3>1, <3>2, <3>3, FitsClose
  <2>2. st = Front(switchStack)
    BY <1>13
  <2>3. SwitchesRight(Front(gs), Front(ss), Front(locals), Front(switchStack), g, Unplaced(g))
    BY <1>1, <1>12, <2>1, SwitchesGone
  <2>4. SwitchesRight(Front(gs), Front(ss), Front(locals), st, g, Unplaced(g))
    BY <2>2, <2>3
  <2>5. QED
    BY <1>4, <1>5, <1>6, <1>8, <1>10, <2>1, <2>4, RightAt
<1>14. CASE nodes[pos].kind # "endswitch"
  <2>1. nodes[pos].kind \notin {"switch"}
    BY <1>3
  <2>2. Fits(ss, nodes, pos + 1, {"switch"})
    BY <1>1, <1>7, <1>14, <2>1, FitsOther
  <2>3. st = switchStack
    BY <1>14
  <2>4. SwitchesRight(Front(gs), ss, Front(locals), st, g, Unplaced(g))
    BY <1>12, <2>3
  <2>5. QED
    BY <1>4, <1>5, <1>6, <1>8, <1>10, <2>2, <2>4, RightAt
<1>15. QED
  BY <1>13, <1>14

\* The end of an if.
LEMMA IfEndRight ==
  ASSUME VisitInv, WellInv, NEW gs, NEW ss, AtPos(gs, ss), VisitIfEnd
  PROVE  Right(nodes, pos', ir', locals', switchStack')
<1>1. gen = "visiting" /\ nodes[pos].kind = "endif"
  BY DEF VisitIfEnd, Visiting
<1>2. Program(nodes) /\ pos \in 1 .. Len(nodes) /\ Building(ir)
  BY <1>1, Here
<1>3. PICK l : l = Last(locals)
  OBVIOUS
<1>4. PICK g : g = ir'
  OBVIOUS
<1>5. /\ g = Place(CreateBrIfOpen(ir, l.last), l.last)
      /\ locals' = Front(locals) /\ pos' = pos + 1 /\ switchStack' = switchStack
  BY <1>3, <1>4 DEF VisitIfEnd, Advance
<1>6. /\ Last(gs) = nodes[pos].opener /\ nodes[Last(gs)].kind = "if"
      /\ LocalOK(l, nodes[Last(gs)].kind, Goals(ir))
      /\ \A b : Awaited(nodes, pos, Last(gs), l, b) => b \in Unplaced(ir)
  BY <1>1, <1>3, EndHere
<1>7. ~ElseAhead(nodes, Last(gs), pos)
  <2>1. nodes[pos].kind \in Closers
    BY <1>1 DEF Closers
  <2>2. QED
    BY <1>2, <1>6, <2>1, ElseEnded
<1>8. \A b : Awaited(nodes, pos, Last(gs), l, b) <=> b = l.last
  BY <1>6, <1>7 DEF Awaited
<1>9. l.last \in Unplaced(ir) /\ l.last \in Goals(ir)
  BY <1>6, <1>8 DEF LocalOK
<1>10. /\ Building(g) /\ Keeps(ir, g) /\ IsOpen(g)
       /\ \A b : b \in Unplaced(g) <=> b \in Unplaced(ir) /\ b # l.last
  BY <1>2, <1>5, <1>9, JoinPlaceBuilds
<1>11. \A b : b \in Unplaced(g) <=>
                b \in Unplaced(ir) /\ ~Awaited(nodes, pos, Last(gs), Last(locals), b)
  BY <1>3, <1>8, <1>10
<1>12. Right(nodes, pos + 1, g, Front(locals), switchStack)
  BY <1>1, <1>10, <1>11, ClosesRight
<1>13. QED
  BY <1>4, <1>5, <1>12

\* The end of a loop.
LEMMA ForEndRight ==
  ASSUME VisitInv, WellInv, NEW gs, NEW ss, AtPos(gs, ss), VisitForEnd
  PROVE  Right(nodes, pos', ir', locals', switchStack')
<1>1. gen = "visiting" /\ nodes[pos].kind = "endfor"
  BY DEF VisitForEnd, Visiting
<1>2. Program(nodes) /\ pos \in 1 .. Len(nodes) /\ Building(ir) /\ pos \in Nat
      /\ nodes \in Seq(Node) /\ EndsAt(nodes, nodes[pos], pos)
  <2>1. nodes \in Seq(Node)
    BY DEF VisitInv
  <2>2. QED
    BY <1>1, <2>1, Here
<1>3. PICK l : l = Last(locals)
  OBVIOUS
<1>4. PICK g : g = ir'
  OBVIOUS
<1>5. PICK step : step = nodes[nodes[pos].opener].inc
  OBVIOUS
<1>6. /\ LET inc == Place(CreateBrIfOpen(ir, l.inc), l.inc)
             stepped == IF step THEN Emit(inc, Eval(pos)) ELSE inc
         IN  g = Place(CreateBr(stepped, l.cond), l.last)
      /\ locals' = Front(locals) /\ pos' = pos + 1 /\ switchStack' = switchStack
  BY <1>3, <1>4, <1>5 DEF VisitForEnd, Advance, Node1
<1>7. /\ Last(gs) = nodes[pos].opener /\ nodes[Last(gs)].kind = "for"
      /\ LocalOK(l, nodes[Last(gs)].kind, Goals(ir))
      /\ Settled(nodes, pos, Last(gs), l, Unplaced(ir))
      /\ \A b : Awaited(nodes, pos, Last(gs), l, b) => b \in Unplaced(ir)
  BY <1>1, <1>3, EndHere
<1>8. step \in BOOLEAN
  <2>1. nodes[pos].kind \in Closers
    BY <1>1 DEF Closers
  <2>2. nodes[pos].opener \in 1 .. pos - 1
    BY <1>2, <2>1 DEF EndsAt
  <2>3. nodes[pos].opener \in 1 .. Len(nodes)
    BY <1>2, <2>2
  <2>4. nodes[nodes[pos].opener] \in Node
    BY <1>2, <2>3
  <2>5. QED
    BY <1>5, <2>4 DEF Node
<1>9. \A b : Awaited(nodes, pos, Last(gs), l, b) <=> b = l.last \/ b = l.inc
  BY <1>7 DEF Awaited
<1>10. /\ l.last \in Unplaced(ir) /\ l.inc \in Unplaced(ir) /\ l.inc # l.last
       /\ l.cond \in Goals(ir) /\ l.inc \in Goals(ir)
  BY <1>7, <1>9 DEF LocalOK, Settled
<1>11. /\ Building(g) /\ Keeps(ir, g) /\ IsOpen(g)
       /\ \A b : b \in Unplaced(g) <=> b \in Unplaced(ir) /\ b # l.inc /\ b # l.last
  BY <1>2, <1>6, <1>8, <1>10, ForEndGrows
<1>12. \A b : b \in Unplaced(g) <=>
                b \in Unplaced(ir) /\ ~Awaited(nodes, pos, Last(gs), Last(locals), b)
  BY <1>3, <1>9, <1>11
<1>13. Right(nodes, pos + 1, g, Front(locals), switchStack)
  BY <1>1, <1>11, <1>12, ClosesRight
<1>14. QED
  BY <1>4, <1>6, <1>13

\* The end of a do.
LEMMA DoEndRight ==
  ASSUME VisitInv, WellInv, NEW gs, NEW ss, AtPos(gs, ss), VisitDoWhileEnd
  PROVE  Right(nodes, pos', ir', locals', switchStack')
<1>1. gen = "visiting" /\ nodes[pos].kind = "enddo"
  BY DEF VisitDoWhileEnd, Visiting
<1>2. pos \in 1 .. Len(nodes) /\ Building(ir) /\ pos \in Nat /\ nodes[pos] \in Node
  BY <1>1, Here
<1>3. PICK l : l = Last(locals)
  OBVIOUS
<1>4. PICK g : g = ir'
  OBVIOUS
<1>5. /\ LET cond == Evaluate(Place(CreateBrIfOpen(ir, l.cond), l.cond), 0, nodes[pos].branching)
         IN  g = Place(Emit(cond, Term(pos, <<l.body, l.last>>)), l.last)
      /\ locals' = Front(locals) /\ pos' = pos + 1 /\ switchStack' = switchStack
  BY <1>3, <1>4 DEF VisitDoWhileEnd, Advance, Node1
<1>6. /\ nodes[Last(gs)].kind = "do"
      /\ LocalOK(l, nodes[Last(gs)].kind, Goals(ir))
      /\ Settled(nodes, pos, Last(gs), l, Unplaced(ir))
      /\ \A b : Awaited(nodes, pos, Last(gs), l, b) => b \in Unplaced(ir)
  BY <1>1, <1>3, EndHere
<1>7. nodes[pos].branching \in BOOLEAN
  BY <1>2 DEF Node
<1>8. \A b : Awaited(nodes, pos, Last(gs), l, b) <=> b = l.last \/ b = l.cond
  BY <1>6 DEF Awaited
<1>9. /\ l.last \in Unplaced(ir) /\ l.cond \in Unplaced(ir) /\ l.cond # l.last
      /\ l.body \in Goals(ir) /\ l.cond \in Goals(ir) /\ l.last \in Goals(ir)
  BY <1>6, <1>8 DEF LocalOK, Settled
<1>10. /\ Building(g) /\ Keeps(ir, g) /\ IsOpen(g)
       /\ \A b : b \in Unplaced(g) <=> b \in Unplaced(ir) /\ b # l.cond /\ b # l.last
  BY <1>2, <1>5, <1>7, <1>9, DoEndGrows
<1>11. \A b : b \in Unplaced(g) <=>
                b \in Unplaced(ir) /\ ~Awaited(nodes, pos, Last(gs), Last(locals), b)
  BY <1>3, <1>8, <1>10
<1>12. Right(nodes, pos + 1, g, Front(locals), switchStack)
  BY <1>1, <1>10, <1>11, ClosesRight
<1>13. QED
  BY <1>4, <1>5, <1>12

\* The end of a switch.
LEMMA SwitchEndRight ==
  ASSUME VisitInv, FollowInv, WellInv, NEW gs, NEW ss, AtPos(gs, ss), VisitSwitchEnd
  PROVE  Right(nodes, pos', ir', locals', switchStack')
<1>1. gen = "visiting" /\ nodes[pos].kind = "endswitch"
  BY DEF VisitSwitchEnd, Visiting
<1>2. /\ Sound(nodes) /\ Program(nodes) /\ pos \in Live(nodes) /\ pos \in 1 .. Len(nodes)
      /\ pos \in Nat \ {0} /\ Len(nodes) \in Nat
      /\ EndsAt(nodes, nodes[pos], pos) /\ EndsOK(nodes, pos)
      /\ Building(ir) /\ (IsOpen(ir) <=> ~Closed(nodes, pos))
      /\ StraightRight(nodes, pos, ir, switchStack)
      /\ Fits(ss, nodes, pos, {"switch"}) /\ gs \in Seq(Nat) /\ ss \in Seq(Nat)
      /\ switchStack \in Seq(Nat \X Nat) /\ Len(switchStack) = Len(ss)
      /\ SwitchesRight(gs, ss, locals, switchStack, ir, Unplaced(ir))
  BY <1>1, Here
<1>3. PICK l : l = Last(locals)
  OBVIOUS
<1>4. PICK g : g = ir'
  OBVIOUS
<1>5. PICK s : s = nodes[pos].opener
  OBVIOUS
<1>6. PICK none : none = IF s \in defaults THEN ir ELSE CreateBr(Place(ir, l.default), l.last)
  OBVIOUS
<1>7. /\ LET end == IF Unterminated(none.blocks[l.default])
                      THEN CreateBr(SetInsertPoint(none, l.default), l.last) ELSE none
         IN  g = Place(end, l.last)
      /\ locals' = Front(locals) /\ pos' = pos + 1 /\ switchStack' = Front(switchStack)
  BY <1>3, <1>4, <1>5, <1>6 DEF VisitSwitchEnd, Advance, Node1
<1>8. /\ Last(gs) = s /\ nodes[s].kind = "switch" /\ gs # <<>>
      /\ Len(gs) \in 1 .. Len(gs) /\ gs[Len(gs)] = s /\ locals[Len(gs)] = l
      /\ LocalOK(l, nodes[s].kind, Goals(ir))
      /\ Settled(nodes, pos, s, l, Unplaced(ir))
      /\ \A b : Awaited(nodes, pos, s, l, b) => b \in Unplaced(ir)
  BY <1>1, <1>3, <1>5, EndHere
<1>9. l.default \in Goals(ir) /\ l.last \in Goals(ir) /\ l.default # l.last
  BY <1>8 DEF LocalOK, Settled
<1>10. l.last \in Unplaced(ir)
  BY <1>8 DEF Awaited
<1>11. InnermostAt(nodes, s, pos) /\ s \in 1 .. pos - 1
  <2>1. nodes[pos].kind \in Closers \cup {"else"}
    BY <1>1 DEF Closers
  <2>2. InnermostAt(nodes, s, pos)
    BY <1>2, <1>5, <2>1, EndIsInnermost
  <2>3. QED
    BY <2>2 DEF InnermostAt
<1>12. s \in Live(nodes)
  <2>1. Encloses(nodes, s, pos, Openers)
    BY <1>11 DEF Encloses, InnermostAt
  <2>2. QED
    BY <1>2, <2>1, LiveAround
<1>13. ss # <<>> /\ Last(ss) = s /\ Len(ss) \in 1 .. Len(ss) /\ ss[Len(ss)] = s
       /\ switchStack[Len(ss)] = Last(switchStack)
  <2>1. nodes[pos].kind \in Closers /\ {"switch"} \subseteq Openers /\ nodes[nodes[pos].opener].kind \in {"switch"}
    BY <1>1, <1>5, <1>8 DEF Closers, Openers
  <2>2. ss # <<>> /\ Last(ss) = s
    <3>1. nodes[nodes[pos].opener].kind \in {"switch"}
      BY <2>1
    <3>2. {"switch"} \subseteq Openers
      BY <2>1
    <3>3. Fits(ss, nodes, pos, {"switch"}) /\ pos \in Nat \ {0} /\ EndsAt(nodes, nodes[pos], pos)
          /\ nodes[pos].kind \in Closers
      BY <1>2, <2>1
    <3>4. ss # <<>> /\ Last(ss) = nodes[pos].opener /\ Fits(Front(ss), nodes, pos + 1, {"switch"})
      BY <3>1, <3>2, <3>3, FitsClose
    <3>5. QED
      BY <1>5, <3>4
  <2>3. Len(ss) \in 1 .. Len(ss) /\ ss[Len(ss)] = Last(ss)
    BY <1>2, <2>2, LastType DEF Last
  <2>4. switchStack[Len(ss)] = Last(switchStack)
    BY <1>2 DEF Last
  <2>5. QED
    BY <2>2, <2>3, <2>4
<1>14. Inst(ir, Last(switchStack)).to[1] = l.default
  <2>1. \A m \in 1 .. Len(gs) : gs[m] = ss[Len(ss)] => Inst(ir, switchStack[Len(ss)]).to[1] = locals[m].default
    BY <1>2, <1>13 DEF SwitchesRight
  <2>2. Inst(ir, switchStack[Len(ss)]).to[1] = locals[Len(gs)].default
    BY <1>8, <1>13, <2>1
  <2>3. QED
    BY <1>8, <1>13, <2>2
<1>15. \A q \in 1 .. pos - 1 : DefaultOf(nodes, q, s) => HasDefault(nodes, s)
  <2>1. ASSUME NEW q \in 1 .. pos - 1, DefaultOf(nodes, q, s) PROVE HasDefault(nodes, s)
    <3>1. nodes[q].kind = "default" /\ q \in 1 .. Len(nodes) /\ q \in Nat
      BY <1>2, <2>1 DEF DefaultOf
    <3>2. EndedBefore(nodes, q, Len(nodes) + 1)
      <4>1. nodes[q].kind \in Openers
        BY <3>1 DEF Openers
      <4>2. Unended(<<>>, nodes)
        BY <1>2 DEF Program, Nested
      <4>3. QED
        BY <1>2, <3>1, <4>1, <4>2 DEF Unended
    <3>3. QED
      BY <2>1, <3>1, <3>2 DEF HasDefault
  <2>2. QED
    BY <2>1
<1>16. s \in defaults <=> HasDefault(nodes, s)
  <2>1. nodes = ast /\ defaults = defaultStmts
    BY <1>1 DEF VisitInv
  <2>2. QED
    BY <2>1 DEF FollowInv, FollowsOK
<1>17. s \in defaults <=> ~NoDefaultYet(nodes, s, pos)
  <2>1. CASE s \in defaults
    <3>1. PICK d \in 1 .. Len(nodes) : DefaultOf(nodes, d, s)
      BY <1>16, <2>1 DEF HasDefault
    <3>2. d < pos
      <4>1. SUFFICES ASSUME pos <= d PROVE FALSE
        BY <1>2, <3>1
      <4>2. d # pos
        BY <1>1, <3>1 DEF DefaultOf
      <4>3. ~EndedBefore(nodes, s, d)
        BY <3>1 DEF DefaultOf, Binds, Encloses
      <4>4. pos \in 1 .. d - 1 /\ nodes[pos].kind \in Closers
        BY <1>1, <1>2, <3>1, <4>1, <4>2 DEF Closers
      <4>5. QED
        BY <1>5, <4>3, <4>4 DEF EndedBefore
    <3>3. d \in 1 .. pos - 1
      BY <1>2, <3>1, <3>2
    <3>4. QED
      BY <2>1, <3>1, <3>3 DEF NoDefaultYet
  <2>2. CASE s \notin defaults
    BY <1>15, <1>16, <2>2 DEF NoDefaultYet
  <2>3. QED
    BY <2>1, <2>2
<1>18. IsOpen(ir) => s \in defaults /\ ir.point = l.default
  <2>1. SUFFICES ASSUME IsOpen(ir) PROVE s \in defaults /\ ir.point = l.default
    OBVIOUS
  <2>2. PICK q \in 1 .. pos - 1 :
           /\ InStraight(nodes, q, pos) /\ Binds(nodes, s, q, {"switch"})
           /\ nodes[q].kind = IF nodes[pos].kind = "endswitch" THEN "default" ELSE "case"
    BY <1>1, <1>2, <1>5, <1>8, <1>12, <2>1, SectionEnds
  <2>3. nodes[q].kind = "default" /\ DefaultOf(nodes, q, s)
    BY <1>1, <2>2 DEF DefaultOf
  <2>4. s \in defaults
    BY <1>17, <2>3 DEF NoDefaultYet
  <2>5. ir.point = Inst(ir, Last(switchStack)).to[1]
    BY <1>2, <2>2, <2>3 DEF StraightRight
  <2>6. QED
    BY <1>14, <2>4, <2>5
<1>19. /\ Building(g) /\ Keeps(ir, g) /\ IsOpen(g)
       /\ \A b : b \in Unplaced(g) <=>
                b \in Unplaced(ir) /\ ~Awaited(nodes, pos, s, l, b)
  <2>1. CASE s \in defaults
    <3>1. l.default \notin Unplaced(ir)
      BY <1>8, <1>17, <2>1 DEF Settled
    <3>2. none = ir
      BY <1>6, <2>1
    <3>3. LET end == IF Unterminated(ir.blocks[l.default])
                      THEN CreateBr(SetInsertPoint(ir, l.default), l.last) ELSE ir
          IN  g = Place(end, l.last)
      BY <1>7, <3>2
    <3>4. /\ Building(g) /\ Keeps(ir, g) /\ IsOpen(g)
          /\ \A b : b \in Unplaced(g) <=> b \in Unplaced(ir) /\ b # l.last
      BY <1>2, <1>9, <1>10, <1>18, <3>1, <3>3, DefaultEndGrows
    <3>5. \A b : Awaited(nodes, pos, s, l, b) <=> b = l.last
      BY <1>8, <1>17, <2>1 DEF Awaited
    <3>6. QED
      BY <3>4, <3>5
  <2>2. CASE s \notin defaults
    <3>1. ~IsOpen(ir)
      BY <1>18, <2>2
    <3>2. \A b : Awaited(nodes, pos, s, l, b) <=> b = l.last \/ b = l.default
      BY <1>8, <1>17, <2>2 DEF Awaited
    <3>3. l.default \in Unplaced(ir)
      BY <1>8, <3>2
    <3>4. none = CreateBr(Place(ir, l.default), l.last)
      BY <1>6, <2>2
    <3>5. LET no == CreateBr(Place(ir, l.default), l.last)
              end == IF Unterminated(no.blocks[l.default])
                      THEN CreateBr(SetInsertPoint(no, l.default), l.last) ELSE no
          IN  g = Place(end, l.last)
      BY <1>7, <3>4
    <3>6. /\ Building(g) /\ Keeps(ir, g) /\ IsOpen(g)
          /\ \A c : c \in Unplaced(g) <=> c \in Unplaced(ir) /\ c # l.default /\ c # l.last
      BY <1>2, <1>9, <1>10, <3>1, <3>3, <3>5, NoDefaultGrows
    <3>7. QED
      BY <3>2, <3>6
  <2>3. QED
    BY <2>1, <2>2
<1>20. \A b : b \in Unplaced(g) <=>
                b \in Unplaced(ir) /\ ~Awaited(nodes, pos, Last(gs), Last(locals), b)
  BY <1>3, <1>8, <1>19
<1>21. PICK st : st = Front(switchStack)
  OBVIOUS
<1>22. st = IF nodes[pos].kind = "endswitch" THEN Front(switchStack) ELSE switchStack
  BY <1>1, <1>21
<1>23. nodes[pos].kind \in {"endif", "endfor", "enddo", "endswitch"}
  BY <1>1
<1>24. Right(nodes, pos + 1, g, Front(locals), st)
  BY <1>1, <1>19, <1>20, <1>22, <1>23, ClosesRight
<1>25. QED
  BY <1>4, <1>7, <1>21, <1>24

\* From an if's statement to the else's.
LEMMA ElseRight ==
  ASSUME VisitInv, WellInv, NEW gs, NEW ss, AtPos(gs, ss), VisitElse
  PROVE  Right(nodes, pos', ir', locals', switchStack')
<1>1. gen = "visiting" /\ nodes[pos].kind = "else"
  BY DEF VisitElse, Visiting
<1>2. /\ Sound(nodes) /\ Program(nodes) /\ pos \in Live(nodes)
      /\ pos \in 1 .. Len(nodes) /\ pos \in Nat \ {0} /\ Len(nodes) \in Nat
      /\ EndsAt(nodes, nodes[pos], pos)
      /\ nodes[pos].kind # "endfunc" => pos + 1 \in 1 .. Len(nodes)
      /\ Building(ir) /\ Ready(ir)
      /\ Fits(gs, nodes, pos, Branched) /\ Fits(ss, nodes, pos, {"switch"})
      /\ gs \in Seq(Nat) /\ ss \in Seq(Nat)
      /\ SwitchesFit(ss, ir, switchStack)
      /\ Owned(Unplaced(ir), gs, locals, nodes, pos)
      /\ SwitchesRight(gs, ss, locals, switchStack, ir, Unplaced(ir))
  BY <1>1, Here
<1>3. PICK l : l = Last(locals)
  OBVIOUS
<1>4. PICK g : g = ir'
  OBVIOUS
<1>5. PICK K : K = Len(gs)
  OBVIOUS
<1>6. /\ g = Place(CreateBrIfOpen(ir, l.last), l.else)
      /\ locals' = locals /\ pos' = pos + 1 /\ switchStack' = switchStack
  BY <1>3, <1>4 DEF VisitElse, Advance
<1>7. /\ K \in 1 .. Len(gs) /\ gs[K] = nodes[pos].opener /\ locals[K] = l
      /\ nodes[gs[K]].kind = "if" /\ LocalOK(l, nodes[gs[K]].kind, Goals(ir))
      /\ Settled(nodes, pos, gs[K], l, Unplaced(ir))
      /\ \A b : Awaited(nodes, pos, gs[K], l, b) => b \in Unplaced(ir)
  BY <1>1, <1>3, <1>5, EndHere
<1>8. ElseAhead(nodes, gs[K], pos) /\ ~ElseAhead(nodes, gs[K], pos + 1)
  BY <1>1, <1>2, <1>7, ElseOnce
<1>9. /\ \A b : Awaited(nodes, pos, gs[K], l, b) <=> b = l.last \/ b = l.else
      /\ \A b : Awaited(nodes, pos + 1, gs[K], l, b) <=> b = l.last
  BY <1>7, <1>8 DEF Awaited
<1>10. l.else # l.last /\ l.else \in Unplaced(ir) /\ l.last \in Goals(ir)
  BY <1>7, <1>8, <1>9 DEF Settled, LocalOK
<1>11. /\ Building(g) /\ Keeps(ir, g) /\ IsOpen(g)
       /\ \A b : b \in Unplaced(g) <=> b \in Unplaced(ir) /\ b # l.else
  BY <1>2, <1>6, <1>10, JoinPlaceBuilds
<1>12. nodes[pos].kind \notin Jumps \cup {"endfunc", "switch", "block", "default"} \cup SilentEnds \cup Sections \cup Closers \cup Branched
  BY <1>1 DEF Jumps, SilentEnds, Sections, Closers, Branched
<1>13. pos + 1 \in Live(nodes)
  BY <1>2, <1>12, LiveNext
<1>14. IsOpen(g) <=> ~Closed(nodes, pos + 1)
  <2>1. ~Closed(nodes, pos + 1)
    BY <1>2, <1>12, ClosedNext
  <2>2. QED
    BY <1>11, <2>1
<1>15. StraightRight(nodes, pos + 1, g, switchStack)
  <2>1. ~Plain(nodes[pos])
    BY <1>1 DEF Plain, Jumps, SilentEnds
  <2>2. QED
    BY <1>2, <1>12, <2>1, StraightNone
<1>16. /\ Branched \subseteq Openers /\ {"switch"} \subseteq Openers
       /\ nodes[pos].kind \notin {"switch"} /\ nodes[pos].kind \notin Branched /\ nodes[pos].kind \notin Closers
  BY <1>12 DEF Branched, Openers
<1>17. Fits(gs, nodes, pos + 1, Branched) /\ Fits(ss, nodes, pos + 1, {"switch"})
  BY <1>2, <1>16, FitsOther
<1>18. ASSUME NEW k \in 1 .. Len(gs), k # K PROVE SameAhead(nodes, gs[k], pos, pos + 1)
  <2>1. gs[k] # gs[K]
    <3>1. \A m \in 1 .. Len(gs) : \A n \in 1 .. m - 1 : gs[n] < gs[m]
      BY <1>2 DEF Fits
    <3>2. k \in 1 .. K - 1 /\ K \in 1 .. Len(gs)
      BY <1>2, <1>5, <1>7, <1>18
    <3>3. gs[k] < gs[K] /\ gs[k] \in Nat /\ gs[K] \in Nat
      BY SMTT(60), <1>2, <1>18, <3>1, <3>2
    <3>4. QED
      BY <3>3
  <2>2. ~DefaultOf(nodes, pos, gs[k])
    BY <1>1 DEF DefaultOf
  <2>3. nodes[pos].opener # gs[k]
    BY <1>7, <2>1
  <2>4. QED
    BY <1>2, <2>2, <2>3, AheadNext
<1>19. Owned(Unplaced(g), gs, locals, nodes, pos + 1)
  <2>1. Settled(nodes, pos + 1, gs[K], locals[K], Unplaced(g))
    BY <1>7, <1>8 DEF Settled
  <2>2. Awaited(nodes, pos, gs[K], locals[K], l.else)
    BY <1>7, <1>9
  <2>3. \A b : Awaited(nodes, pos + 1, gs[K], locals[K], b) <=>
               Awaited(nodes, pos, gs[K], locals[K], b) /\ b # l.else
    BY <1>7, <1>9, <1>10
  <2>4. QED
    BY ZenonT(60), <1>2, <1>7, <1>11, <1>18, <2>1, <2>2, <2>3, OwnedLess
<1>20. SwitchesRight(gs, ss, locals, switchStack, g, Unplaced(g))
  <2>1. Ready(g)
    BY <1>11 DEF Building
  <2>2. \A x : IsSwitchInst(ir, x) => Inst(g, x).to = Inst(ir, x).to
    BY <1>2, <1>11, <2>1, KeepsCarries
  <2>3. \A b \in Unplaced(g) : b \in Unplaced(ir) \/ b \notin Goals(ir)
    BY <1>11
  <2>4. QED
    BY <1>2, <2>2, <2>3, SwitchesSame
<1>21. Right(nodes, pos + 1, g, locals, switchStack)
  BY <1>11, <1>13, <1>14, <1>15, <1>17, <1>19, <1>20, RightAt
<1>22. QED
  BY <1>4, <1>6, <1>21

-----------------------------------------------------------------------------
(* The labels of a switch. *)

\* What a label finds: its switch's instruction is the last on the stack.
LEMMA LabelHere ==
  ASSUME VisitInv, WellInv, gen = "visiting", NEW gs, NEW ss, AtPos(gs, ss), nodes[pos].kind \in Sections
  PROVE  /\ switchStack # <<>> /\ IsSwitchInst(ir, Last(switchStack))
         /\ SwitchInst = Inst(ir, Last(switchStack))
         /\ \A m \in 2 .. Len(SwitchInst.to) : SwitchInst.to[m] \notin Unplaced(ir)
         /\ \E K \in 1 .. Len(gs) :
              /\ Binds(nodes, gs[K], pos, {"switch"}) /\ gs[K] \in Live(nodes)
              /\ nodes[gs[K]].kind = "switch" /\ SwitchInst.to[1] = locals[K].default
<1>1. /\ Program(nodes) /\ pos \in Live(nodes) /\ pos \in 1 .. Len(nodes) /\ pos \in Nat \ {0}
      /\ Fits(gs, nodes, pos, Branched) /\ Fits(ss, nodes, pos, {"switch"}) /\ ss \in Seq(Nat)
      /\ Len(switchStack) = Len(ss)
      /\ SwitchesRight(gs, ss, locals, switchStack, ir, Unplaced(ir))
  BY Here
<1>2. /\ switchStack # <<>> /\ IsSwitchInst(ir, Last(switchStack))
      /\ SwitchInst = Inst(ir, Last(switchStack))
  BY <1>1, LabelSwitch
<1>3. /\ \A k \in 1 .. Len(ss) : \A l \in 1 .. k - 1 : ss[l] < ss[k]
      /\ \A i : Encloses(nodes, i, pos, {"switch"}) <=> \E k \in 1 .. Len(ss) : ss[k] = i
  BY <1>1 DEF Fits
<1>4. PICK i : Encloses(nodes, i, pos, {"switch"})
  <2>1. FollowsAt(nodes, nodes[pos], pos)
    BY <1>1, Position
  <2>2. QED
    BY <2>1 DEF FollowsAt
<1>5. Len(ss) \in 1 .. Len(ss) /\ Len(ss) \in Nat
  <2>1. PICK k \in 1 .. Len(ss) : ss[k] = i
    BY <1>3, <1>4
  <2>2. Len(ss) \in Nat
    BY <1>1
  <2>3. QED
    BY <2>1, <2>2
<1>6. PICK s : s = ss[Len(ss)]
  OBVIOUS
<1>7. Encloses(nodes, s, pos, {"switch"})
  BY <1>3, <1>5, <1>6
<1>8. Binds(nodes, s, pos, {"switch"})
  <2>1. ASSUME NEW h \in 1 .. pos - 1, Encloses(nodes, h, pos, {"switch"}) PROVE h <= s
    <3>1. PICK k \in 1 .. Len(ss) : ss[k] = h
      BY <1>3, <2>1
    <3>2. k = Len(ss) \/ k \in 1 .. Len(ss) - 1
      BY <1>5
    <3>3. h \in Nat /\ s \in Nat
      BY <1>1, <1>5, <1>6, <3>1
    <3>4. CASE k = Len(ss)
      BY <1>6, <3>1, <3>3, <3>4
    <3>5. CASE k \in 1 .. Len(ss) - 1
      <4>1. ss[k] < ss[Len(ss)]
        BY <1>3, <1>5, <3>5
      <4>2. QED
        BY <1>6, <3>1, <3>3, <4>1
    <3>6. QED
      BY <3>2, <3>4, <3>5
  <2>2. QED
    BY <1>7, <2>1 DEF Binds
<1>9. nodes[s].kind = "switch" /\ Encloses(nodes, s, pos, Branched) /\ Encloses(nodes, s, pos, Openers)
  BY <1>7 DEF Encloses, Branched, Openers
<1>10. s \in Live(nodes)
  BY <1>1, <1>9, LiveAround
<1>11. PICK K \in 1 .. Len(gs) : gs[K] = s
  BY <1>1, <1>9 DEF Fits
<1>12. switchStack[Len(ss)] = Last(switchStack)
  BY <1>1 DEF Last
<1>13. /\ Inst(ir, Last(switchStack)).to[1] = locals[K].default
       /\ \A m \in 2 .. Len(Inst(ir, Last(switchStack)).to) :
            Inst(ir, Last(switchStack)).to[m] \notin Unplaced(ir)
  <2>1. /\ \A l \in 1 .. Len(gs) : gs[l] = ss[Len(ss)] => Inst(ir, switchStack[Len(ss)]).to[1] = locals[l].default
        /\ \A m \in 2 .. Len(Inst(ir, switchStack[Len(ss)]).to) :
             Inst(ir, switchStack[Len(ss)]).to[m] \notin Unplaced(ir)
    BY <1>1, <1>5 DEF SwitchesRight
  <2>2. QED
    BY <1>6, <1>11, <1>12, <2>1
<1>14. Binds(nodes, gs[K], pos, {"switch"}) /\ gs[K] \in Live(nodes) /\ nodes[gs[K]].kind = "switch"
  BY <1>8, <1>9, <1>10, <1>11
<1>15. QED
  BY <1>2, <1>13, <1>14

\* The section before a label falls through.
Falls == Len(SwitchInst.to) > 1 /\ Unterminated(ir.blocks[Last(SwitchInst.to)])

\* It does so when the builder's block is open: what NextSection tests, the
\* block of the last case, is that block then, and has its terminator otherwise.
LEMMA FallsWhenOpen ==
  ASSUME VisitInv, WellInv, gen = "visiting", NEW gs, NEW ss, AtPos(gs, ss), nodes[pos].kind \in Sections
  PROVE  Falls <=> IsOpen(ir)
<1>1. /\ Sound(nodes) /\ Program(nodes) /\ pos \in Live(nodes) /\ pos \in 1 .. Len(nodes)
      /\ Building(ir) /\ Ready(ir) /\ (IsOpen(ir) <=> ~Closed(nodes, pos))
      /\ StraightRight(nodes, pos, ir, switchStack)
  BY Here
<1>2. /\ switchStack # <<>> /\ IsSwitchInst(ir, Last(switchStack))
      /\ SwitchInst = Inst(ir, Last(switchStack))
      /\ \A m \in 2 .. Len(SwitchInst.to) : SwitchInst.to[m] \notin Unplaced(ir)
  BY LabelHere
<1>3. PICK to : to = SwitchInst.to
  OBVIOUS
<1>4. to \in Seq(Goals(ir)) /\ Len(to) \in Nat \ {0} /\ \A m \in 1 .. Len(to) : to[m] \in Goals(ir)
  BY <1>1, <1>2, <1>3, TargetsAre
<1>5. ASSUME IsOpen(ir) PROVE Falls
  <2>1. PICK K \in 1 .. Len(gs) :
          Binds(nodes, gs[K], pos, {"switch"}) /\ gs[K] \in Live(nodes) /\ nodes[gs[K]].kind = "switch"
    BY LabelHere
  <2>2. PICK s : s = gs[K]
    OBVIOUS
  <2>3. \E q \in 1 .. pos - 1 :
           /\ InStraight(nodes, q, pos) /\ Binds(nodes, s, q, {"switch"})
           /\ nodes[q].kind = IF nodes[pos].kind = "endswitch" THEN "default" ELSE "case"
    BY <1>1, <1>5, <2>1, <2>2, SectionEnds
  <2>4. PICK q \in 1 .. pos - 1 : InStraight(nodes, q, pos) /\ nodes[q].kind = "case"
    BY <2>3 DEF Sections
  <2>5. Len(to) > 1 /\ ir.point = Last(to)
    BY <1>1, <1>2, <1>3, <2>4 DEF StraightRight
  <2>6. QED
    BY <1>3, <1>5, <2>5 DEF Falls, IsOpen
<1>6. ASSUME Falls PROVE IsOpen(ir)
  <2>1. Len(to) > 1 /\ Unterminated(ir.blocks[Last(to)])
    BY <1>3, <1>6 DEF Falls
  <2>2. Last(to) = to[Len(to)]
    BY DEF Last
  <2>3. Len(to) \in 2 .. Len(to) /\ Len(to) \in 1 .. Len(to)
    BY <1>4, <2>1
  <2>4. Last(to) \notin Unplaced(ir) /\ Last(to) \in Goals(ir)
    BY <1>2, <1>3, <1>4, <2>2, <2>3
  <2>5. Last(to) \in 1 .. Len(ir.blocks)
    <3>1. Len(ir.blocks) \in Nat
      BY <1>1, OrderIs
    <3>2. QED
      BY <2>4, <3>1 DEF Goals
  <2>6. Last(to) = ir.point
    BY <1>1, <2>1, <2>4, <2>5 DEF Building, BlocksOK
  <2>7. QED
    BY <2>1, <2>6 DEF IsOpen
<1>7. QED
  BY <1>5, <1>6

\* A label comes next to its switch's other sections.
LEMMA LabelNext ==
  ASSUME VisitInv, WellInv, gen = "visiting", NEW gs, NEW ss, AtPos(gs, ss), nodes[pos].kind \in Sections
  PROVE  /\ pos + 1 \in Live(nodes) /\ ~Closed(nodes, pos + 1)
         /\ Fits(gs, nodes, pos + 1, Branched) /\ Fits(ss, nodes, pos + 1, {"switch"})
<1>1. /\ Sound(nodes) /\ Program(nodes) /\ pos \in Live(nodes) /\ pos \in Nat \ {0}
      /\ EndsAt(nodes, nodes[pos], pos)
      /\ nodes[pos].kind # "endfunc" => pos + 1 \in 1 .. Len(nodes)
      /\ Fits(gs, nodes, pos, Branched) /\ Fits(ss, nodes, pos, {"switch"})
  BY Here
<1>2. nodes[pos].kind \notin Jumps \cup {"endfunc", "switch", "block"} \cup SilentEnds \cup Closers \cup Branched
  BY DEF Jumps, SilentEnds, Sections, Closers, Branched
<1>3. pos + 1 \in Live(nodes)
  BY <1>1, <1>2, LiveNext
<1>4. ~Closed(nodes, pos + 1)
  BY <1>1, <1>2, ClosedNext
<1>5. /\ Branched \subseteq Openers /\ {"switch"} \subseteq Openers
      /\ nodes[pos].kind \notin {"switch"} /\ nodes[pos].kind \notin Branched /\ nodes[pos].kind \notin Closers
  BY <1>2 DEF Branched, Openers
<1>6. Fits(gs, nodes, pos + 1, Branched) /\ Fits(ss, nodes, pos + 1, {"switch"})
  BY <1>1, <1>5, FitsOther
<1>7. QED
  BY <1>3, <1>4, <1>6

\* A case.
LEMMA CaseRight ==
  ASSUME VisitInv, WellInv, NEW gs, NEW ss, AtPos(gs, ss), VisitCaseStmt
  PROVE  Right(nodes, pos', ir', locals', switchStack')
<1>1. gen = "visiting" /\ nodes[pos].kind = "case" /\ nodes[pos].kind \in Sections
  BY DEF VisitCaseStmt, Visiting, Sections
<1>2. /\ Program(nodes) /\ pos \in Live(nodes) /\ Building(ir) /\ Ready(ir)
      /\ SwitchesFit(ss, ir, switchStack) /\ Owned(Unplaced(ir), gs, locals, nodes, pos)
      /\ SwitchesRight(gs, ss, locals, switchStack, ir, Unplaced(ir))
  BY <1>1, Here
<1>3. switchStack # <<>> /\ IsSwitchInst(ir, Last(switchStack))
  BY <1>1, LabelHere
<1>4. PICK x : x = Last(switchStack)
  OBVIOUS
<1>5. PICK falls : falls = Falls
  OBVIOUS
<1>6. falls \in BOOLEAN /\ (falls <=> IsOpen(ir))
  <2>1. Falls <=> IsOpen(ir)
    BY <1>1, FallsWhenOpen
  <2>2. QED
    BY <1>5, <2>1 DEF Falls
<1>7. PICK g : g = ir'
  OBVIOUS
<1>8. /\ LET b == LastBlock(ir) + 1
             h == IF falls THEN CreateBr(Create(ir, 1), b) ELSE Create(ir, 1)
         IN  g = Place(AddCase(h, x, b), b)
      /\ locals' = locals /\ pos' = pos + 1 /\ switchStack' = switchStack
  BY <1>4, <1>5, <1>7 DEF VisitCaseStmt, Advance, NextSection, Falls
<1>9. PICK n : n = Len(ir.blocks) + 1
  OBVIOUS
<1>10. /\ Building(g) /\ IsOpen(g) /\ g.point = n
       /\ \A b : b \in Unplaced(g) <=> b \in Unplaced(ir)
       /\ \A y : IsSwitchInst(ir, y) =>
            Inst(g, y).to = IF y = x THEN Append(Inst(ir, y).to, n) ELSE Inst(ir, y).to
       /\ n \notin Unplaced(ir)
  BY <1>2, <1>3, <1>4, <1>6, <1>8, <1>9, CaseGrows
<1>11. n \in Nat
  BY <1>2, <1>9, OrderIs
<1>12. /\ pos + 1 \in Live(nodes) /\ ~Closed(nodes, pos + 1)
       /\ Fits(gs, nodes, pos + 1, Branched) /\ Fits(ss, nodes, pos + 1, {"switch"})
  BY <1>1, LabelNext
<1>13. IsOpen(g) <=> ~Closed(nodes, pos + 1)
  BY <1>10, <1>12
<1>14. StraightRight(nodes, pos + 1, g, switchStack)
  <2>1. PICK to : to = Inst(ir, x).to
    OBVIOUS
  <2>2. to \in Seq(Goals(ir)) /\ Len(to) \in Nat \ {0}
    BY <1>2, <1>3, <1>4, <2>1, TargetsAre
  <2>3. PICK longer : longer = Inst(g, x).to
    OBVIOUS
  <2>4. longer = Append(to, n)
    BY <1>3, <1>4, <1>10, <2>1, <2>3
  <2>5. Goals(ir) \subseteq Nat
    BY <1>2 DEF Goals
  <2>6. to \in Seq(Nat)
    BY <2>2, <2>5
  <2>7. Len(longer) = Len(to) + 1 /\ longer[Len(to) + 1] = n
    BY <1>11, <2>4, <2>6
  <2>8. Len(longer) > 1 /\ Last(longer) = n
    BY <2>2, <2>7 DEF Last
  <2>9. Len(Inst(g, Last(switchStack)).to) > 1 /\ g.point = Last(Inst(g, Last(switchStack)).to)
    BY <1>4, <1>10, <2>3, <2>8
  <2>10. QED
    BY <1>1, <1>2, <1>3, <2>9, StraightSection
<1>15. Owned(Unplaced(g), gs, locals, nodes, pos + 1)
  <2>1. \A k \in 1 .. Len(gs) : SameAhead(nodes, gs[k], pos, pos + 1)
    BY <1>1, AheadSame
  <2>2. QED
    BY <1>2, <1>10, <2>1, OwnedSame
<1>16. SwitchesRight(gs, ss, locals, switchStack, g, Unplaced(g))
  <2>1. CaseAdded(ir, x, n, g)
    BY <1>10 DEF CaseAdded
  <2>2. n \notin Unplaced(ir) /\ \A b : b \in Unplaced(g) <=> b \in Unplaced(ir)
    BY <1>10
  <2>3. QED
    BY <1>2, <1>11, <2>1, <2>2, SwitchesCase
<1>17. Right(nodes, pos + 1, g, locals, switchStack)
  BY <1>10, <1>12, <1>13, <1>14, <1>15, <1>16, RightAt
<1>18. QED
  BY <1>7, <1>8, <1>17

\* A default.
LEMMA DefaultRight ==
  ASSUME VisitInv, WellInv, NEW gs, NEW ss, AtPos(gs, ss), VisitDefaultStmt
  PROVE  Crash \/ Right(nodes, pos', ir', locals', switchStack')
<1>1. SUFFICES ASSUME ~Crash PROVE Right(nodes, pos', ir', locals', switchStack')
  OBVIOUS
<1>2. gen = "visiting" /\ nodes[pos].kind = "default" /\ nodes[pos].kind \in Sections
  BY DEF VisitDefaultStmt, Visiting, Sections
<1>3. /\ Program(nodes) /\ pos \in Live(nodes) /\ pos \in 1 .. Len(nodes) /\ pos \in Nat \ {0}
      /\ Building(ir) /\ Ready(ir) /\ Fits(gs, nodes, pos, Branched) /\ gs \in Seq(Nat)
      /\ SwitchesFit(ss, ir, switchStack) /\ Owned(Unplaced(ir), gs, locals, nodes, pos)
      /\ SwitchesRight(gs, ss, locals, switchStack, ir, Unplaced(ir))
  BY <1>2, Here
<1>4. /\ switchStack # <<>> /\ IsSwitchInst(ir, Last(switchStack))
      /\ SwitchInst = Inst(ir, Last(switchStack))
  BY <1>2, LabelHere
<1>5. PICK K \in 1 .. Len(gs) : Binds(nodes, gs[K], pos, {"switch"}) /\ nodes[gs[K]].kind = "switch"
                                /\ SwitchInst.to[1] = locals[K].default
  BY <1>2, LabelHere
<1>6. PICK l : l = locals[K]
  OBVIOUS
<1>7. PICK b : b = SwitchInst.to[1]
  OBVIOUS
<1>8. b = l.default /\ b = Inst(ir, Last(switchStack)).to[1]
  BY <1>4, <1>5, <1>6, <1>7
<1>9. PICK falls : falls = Falls
  OBVIOUS
<1>10. falls \in BOOLEAN /\ (falls <=> IsOpen(ir))
  <2>1. Falls <=> IsOpen(ir)
    BY <1>2, FallsWhenOpen
  <2>2. QED
    BY <1>9, <2>1 DEF Falls
<1>11. PICK g : g = ir'
  OBVIOUS
<1>12. /\ ~Contains(ir.order, b)
       /\ g = Place(IF falls THEN CreateBr(ir, b) ELSE ir, b)
       /\ locals' = locals /\ pos' = pos + 1 /\ switchStack' = switchStack
  BY <1>1, <1>7, <1>9, <1>11 DEF VisitDefaultStmt, Advance, NextSection, Falls
<1>13. b \in Goals(ir)
  <2>1. /\ Len(Inst(ir, Last(switchStack)).to) \in Nat \ {0}
        /\ \A m \in 1 .. Len(Inst(ir, Last(switchStack)).to) : Inst(ir, Last(switchStack)).to[m] \in Goals(ir)
    BY <1>3, <1>4, TargetsAre
  <2>2. 1 \in 1 .. Len(Inst(ir, Last(switchStack)).to)
    BY <2>1
  <2>3. QED
    BY <1>8, <2>1, <2>2
<1>14. b \in Unplaced(ir)
  <2>1. /\ Len(ir.blocks) \in Nat
        /\ \A c : c \in Unplaced(ir) <=>
                     c \in 1 .. Len(ir.blocks) /\ ~\E k \in 1 .. Len(ir.order) : ir.order[k] = c
    BY <1>3, OrderIs
  <2>2. b \in 1 .. Len(ir.blocks)
    BY <1>13, <2>1 DEF Goals
  <2>3. ~\E k \in 1 .. Len(ir.order) : ir.order[k] = b
    BY <1>12 DEF Contains
  <2>4. QED
    BY <2>1, <2>2, <2>3
<1>15. /\ Building(g) /\ Keeps(ir, g) /\ IsOpen(g) /\ g.point = b
       /\ \A c : c \in Unplaced(g) <=> c \in Unplaced(ir) /\ c # b
  BY <1>3, <1>10, <1>12, <1>13, <1>14, DefaultGrows
<1>16. /\ pos + 1 \in Live(nodes) /\ ~Closed(nodes, pos + 1)
       /\ Fits(gs, nodes, pos + 1, Branched) /\ Fits(ss, nodes, pos + 1, {"switch"})
  BY <1>2, LabelNext
<1>17. IsOpen(g) <=> ~Closed(nodes, pos + 1)
  BY <1>15, <1>16
<1>18. Ready(g) /\ \A x : IsSwitchInst(ir, x) => Inst(g, x).to = Inst(ir, x).to
  <2>1. Ready(g)
    BY <1>15 DEF Building
  <2>2. QED
    BY <1>3, <1>15, <2>1, KeepsCarries
<1>19. StraightRight(nodes, pos + 1, g, switchStack)
  <2>1. g.point = Inst(g, Last(switchStack)).to[1]
    BY <1>4, <1>8, <1>15, <1>18
  <2>2. QED
    BY <1>2, <1>3, <1>4, <2>1, StraightSection
<1>20. Settled(nodes, pos, gs[K], l, Unplaced(ir))
  BY <1>3, <1>6 DEF Owned
<1>21. NoDefaultYet(nodes, gs[K], pos) /\ ~NoDefaultYet(nodes, gs[K], pos + 1)
  <2>1. NoDefaultYet(nodes, gs[K], pos)
    BY <1>5, <1>8, <1>14, <1>20 DEF Settled
  <2>2. DefaultOf(nodes, pos, gs[K])
    BY <1>2, <1>5 DEF DefaultOf
  <2>3. pos \in 1 .. (pos + 1) - 1
    BY <1>3
  <2>4. QED
    BY <2>1, <2>2, <2>3 DEF NoDefaultYet
<1>22. l.default # l.last
  BY <1>5, <1>20 DEF Settled
<1>23. ASSUME NEW k \in 1 .. Len(gs), k # K PROVE SameAhead(nodes, gs[k], pos, pos + 1)
  <2>1. gs[k] # gs[K]
    <3>1. \A m \in 1 .. Len(gs) : \A n \in 1 .. m - 1 : gs[n] < gs[m]
      BY <1>3 DEF Fits
    <3>2. Len(gs) \in Nat /\ gs[k] \in Nat /\ gs[K] \in Nat
      BY <1>3
    <3>3. k \in 1 .. K - 1 \/ K \in 1 .. k - 1
      BY <1>23, <3>2
    <3>4. gs[k] < gs[K] \/ gs[K] < gs[k]
      BY <3>1, <3>3
    <3>5. QED
      BY <3>2, <3>4
  <2>2. ~DefaultOf(nodes, pos, gs[k])
    <3>1. Binds(nodes, gs[k], pos, {"switch"}) => gs[k] = gs[K]
      <4>1. pos \in Nat
        BY <1>3
      <4>2. QED
        BY <1>5, <4>1, BindsOne
    <3>2. QED
      BY <2>1, <3>1 DEF DefaultOf
  <2>3. nodes[pos].kind # "else"
    BY <1>2
  <2>4. QED
    BY <1>3, <2>2, <2>3, AheadNext
<1>24. Owned(Unplaced(g), gs, locals, nodes, pos + 1)
  <2>1. Settled(nodes, pos + 1, gs[K], locals[K], Unplaced(g))
    <3>1. l.default \notin Unplaced(g)
      BY <1>8, <1>15
    <3>2. QED
      BY <1>5, <1>6, <1>22, <3>1 DEF Settled
  <2>2. Awaited(nodes, pos, gs[K], locals[K], b)
    BY <1>5, <1>6, <1>8, <1>21 DEF Awaited
  <2>3. \A c : Awaited(nodes, pos + 1, gs[K], locals[K], c) <=>
               Awaited(nodes, pos, gs[K], locals[K], c) /\ c # b
    BY <1>5, <1>6, <1>8, <1>21, <1>22 DEF Awaited
  <2>4. \A k \in 1 .. Len(gs) : k # K => SameAhead(nodes, gs[k], pos, pos + 1)
    BY <1>23
  <2>5. Owned(Unplaced(ir), gs, locals, nodes, pos) /\ \A c : c \in Unplaced(g) <=> c \in Unplaced(ir) /\ c # b
    BY <1>3, <1>15
  <2>6. QED
    BY <2>1, <2>2, <2>3, <2>4, <2>5, OwnedLess
<1>25. SwitchesRight(gs, ss, locals, switchStack, g, Unplaced(g))
  <2>1. \A c \in Unplaced(g) : c \in Unplaced(ir) \/ c \notin Goals(ir)
    BY <1>15
  <2>2. QED
    BY <1>3, <1>18, <2>1, SwitchesSame
<1>26. Right(nodes, pos + 1, g, locals, switchStack)
  BY <1>15, <1>16, <1>17, <1>19, <1>24, <1>25, RightAt
<1>27. QED
  BY <1>11, <1>12, <1>26

-----------------------------------------------------------------------------
(* The function's end and its beginning. *)

\* When no block waits and the builder's has its terminator, the function is right.
LEMMA AllPlaced ==
  ASSUME NEW f, Building(f), ~IsOpen(f), \A b : b \notin Unplaced(f)
  PROVE  /\ \A b \in Range(f.order) : WellFormedBlock(f.blocks[b])
         /\ \A b \in Range(f.order) : Range(Last(f.blocks[b]).to) \subseteq Range(f.order) \ {f.order[1]}
         /\ IsInjective(f.order)
<1>1. /\ Len(f.blocks) \in Nat /\ f.blocks \in Seq(Seq(Instr))
      /\ \A b : b \in Range(f.order) <=> \E k \in 1 .. Len(f.order) : f.order[k] = b
      /\ \A b : b \in Unplaced(f) <=>
                  b \in 1 .. Len(f.blocks) /\ ~\E k \in 1 .. Len(f.order) : f.order[k] = b
      /\ \A k \in 1 .. Len(f.order) : f.order[k] \in 1 .. Len(f.blocks)
  BY OrderIs
<1>2. /\ IrTyped(f) /\ f.order[1] = 1 /\ IsInjective(f.order)
      /\ \A b \in 1 .. Len(f.blocks) :
           /\ OnlyLast(f.blocks[b])
           /\ b \notin Unplaced(f) /\ b # f.point => ~Unterminated(f.blocks[b])
  BY DEF Building, Ready, BlocksOK
<1>3. \A b : b \in Range(f.order) <=> b \in 1 .. Len(f.blocks)
  BY <1>1
<1>4. ASSUME NEW b \in 1 .. Len(f.blocks)
      PROVE  /\ WellFormedBlock(f.blocks[b])
             /\ \A c \in Range(Last(f.blocks[b]).to) : c \in 2 .. Len(f.blocks)
  <2>1. PICK block : block = f.blocks[b]
    OBVIOUS
  <2>2. ~Unterminated(block)
    <3>1. CASE b = f.point
      BY <2>1, <3>1 DEF IsOpen
    <3>2. CASE b # f.point
      BY <1>2, <2>1, <3>2
    <3>3. QED
      BY <3>1, <3>2
  <2>3. block \in Seq(Instr) /\ block # <<>> /\ OnlyLast(block) /\ block[Len(block)].term
        /\ Last(block) = block[Len(block)]
    BY <1>1, <1>2, <2>1, <2>2 DEF Unterminated, Last
  <2>4. Len(block) \in 1 .. Len(block) /\ DOMAIN block = 1 .. Len(block)
    BY <2>3
  <2>5. \A k \in 1 .. Len(block) : block[k] \in Instr
    BY <2>3
  <2>6. \A k \in DOMAIN block : block[k].term <=> k = Len(block)
    <3>1. ASSUME NEW k \in DOMAIN block PROVE block[k].term <=> k = Len(block)
      <4>1. block[k].term \in BOOLEAN
        BY SMTT(60), <2>4, <2>5 DEF Instr
      <4>2. block[k].term => k = Len(block)
        BY <2>3, <2>4 DEF OnlyLast
      <4>3. k = Len(block) => block[k].term
        BY <2>3
      <4>4. QED
        BY <4>1, <4>2, <4>3
    <3>2. QED
      BY <3>1
  <2>7. WellFormedBlock(block)
    BY <2>3, <2>6 DEF WellFormedBlock
  <2>8. Last(block).to \in Seq(Goals(f))
    BY <1>2, <2>1, <2>3, <2>4 DEF IrTyped
  <2>9. \A c \in Range(Last(block).to) : c \in Goals(f)
    <3>1. PICK to : to = Last(block).to
      OBVIOUS
    <3>2. \A k \in DOMAIN to : to[k] \in Goals(f)
      BY <2>8, <3>1
    <3>3. QED
      BY <3>1, <3>2 DEF Range
  <2>10. QED
    BY <2>1, <2>7, <2>9 DEF Goals
<1>5. ASSUME NEW b \in Range(f.order)
      PROVE  Range(Last(f.blocks[b]).to) \subseteq Range(f.order) \ {f.order[1]}
  <2>1. \A c \in Range(Last(f.blocks[b]).to) : c \in 2 .. Len(f.blocks)
    BY <1>3, <1>4
  <2>2. \A c \in 2 .. Len(f.blocks) : c \in 1 .. Len(f.blocks) /\ c # 1
    BY <1>1
  <2>3. QED
    BY <1>2, <1>3, <2>1, <2>2
<1>6. QED
  BY <1>2, <1>3, <1>4, <1>5

\* The function's end: all statements have ended, and no block waits.
LEMMA FuncEndRight ==
  ASSUME VisitInv, WellInv, NEW gs, NEW ss, AtPos(gs, ss), VisitFuncEnd
  PROVE  WellFormed'
<1>1. gen = "visiting" /\ nodes[pos].kind = "endfunc"
  BY DEF VisitFuncEnd, Visiting
<1>2. /\ Program(nodes) /\ pos \in 1 .. Len(nodes) /\ pos \in Nat \ {0} /\ Building(ir) /\ Ready(ir)
      /\ Fits(gs, nodes, pos, Branched) /\ gs \in Seq(Nat)
      /\ Owned(Unplaced(ir), gs, locals, nodes, pos)
  BY <1>1, Here
<1>3. \A i \in 1 .. pos - 1 : ~Encloses(nodes, i, pos, Openers)
  <2>1. FollowsAt(nodes, nodes[pos], pos)
    BY <1>2, Position
  <2>2. QED
    BY <1>1, <2>1 DEF FollowsAt
<1>4. \A k : k \notin 1 .. Len(gs)
  <2>1. ASSUME NEW k \in 1 .. Len(gs) PROVE FALSE
    <3>1. Encloses(nodes, gs[k], pos, Branched)
      BY <1>2 DEF Fits
    <3>2. gs[k] \in 1 .. pos - 1 /\ Encloses(nodes, gs[k], pos, Openers)
      BY <3>1 DEF Encloses, Branched, Openers
    <3>3. QED
      BY <1>3, <3>2
  <2>2. QED
    BY <2>1
<1>5. \A b : b \notin Unplaced(ir)
  BY <1>2, <1>4 DEF Owned
<1>6. PICK g : g = ir'
  OBVIOUS
<1>7. g = IF Unterminated(ir.blocks[Last(ir.order)]) THEN Emit(ir, Term(pos, <<>>)) ELSE ir
  BY <1>6 DEF VisitFuncEnd
<1>8. Last(ir.order) = ir.point
  BY <1>2 DEF Building, BlocksOK
<1>9. Building(g) /\ ~IsOpen(g) /\ \A b : b \notin Unplaced(g)
  <2>1. CASE IsOpen(ir)
    <3>1. g = Emit(ir, Term(pos, <<>>))
      BY <1>7, <1>8, <2>1 DEF IsOpen
    <3>2. Fit(ir, Term(pos, <<>>)) /\ Term(pos, <<>>).term
      BY <1>2, InstrType
    <3>3. Building(g) /\ ~IsOpen(g) /\ Unplaced(g) = Unplaced(ir)
      BY <1>2, <2>1, <3>1, <3>2, EmitBuilds
    <3>4. QED
      BY <1>5, <3>3
  <2>2. CASE ~IsOpen(ir)
    <3>1. g = ir
      BY <1>7, <1>8, <2>2 DEF IsOpen
    <3>2. QED
      BY <1>2, <1>5, <2>2, <3>1
  <2>3. QED
    BY <2>1, <2>2
<1>10. /\ \A b \in Range(g.order) : WellFormedBlock(g.blocks[b])
       /\ \A b \in Range(g.order) : Range(Last(g.blocks[b]).to) \subseteq Range(g.order) \ {g.order[1]}
       /\ IsInjective(g.order)
  BY <1>9, AllPlaced
<1>11. QED
  BY <1>6, <1>10 DEF WellFormed, Inserted

\* At the function's entry.
LEMMA EntryRight ==
  ASSUME NEW a, Sound(a), NEW f, f = Place(Create([blocks |-> <<>>, order |-> <<>>, point |-> 0], 1), 1)
  PROVE  Right(a, 1, f, <<>>, <<>>)
<1>1. Ready(f) /\ f.blocks = << <<>> >> /\ f.order = <<1>> /\ f.point = 1
  BY EntryIs
<1>2. PICK e : e = <<>>
  OBVIOUS
<1>3. PICK one : one = <<1>>
  OBVIOUS
<1>4. /\ f.blocks = <<e>> /\ Len(f.blocks) = 1 /\ f.blocks[1] = e /\ Len(e) = 0
      /\ \A k : k \notin 1 .. 0
  <2>1. f.blocks = <<e>>
    BY <1>1, <1>2, Zenon
  <2>2. Len(<<e>>) = 1 /\ <<e>>[1] = e
    OBVIOUS
  <2>3. Len(e) = 0 /\ \A k : k \notin 1 .. 0
    BY <1>2
  <2>4. QED
    BY <2>1, <2>2, <2>3, Zenon
<1>5. /\ f.order = one /\ one # <<>> /\ one[1] = 1 /\ Last(one) = 1 /\ IsInjective(one) /\ DOMAIN one = 1 .. 1
  BY <1>1, <1>3 DEF Last, IsInjective
<1>6. Range(one) = {1}
  BY <1>5 DEF Range
<1>7. \A b : b \notin Unplaced(f)
  <2>1. Unplaced(f) = (1 .. 1) \ {1}
    BY <1>4, <1>5, <1>6, Zenon DEF Unplaced
  <2>2. \A b : b \notin (1 .. 1) \ {1}
    OBVIOUS
  <2>3. QED
    BY <2>1, <2>2, Zenon
<1>8. IsOpen(f)
  BY <1>1, <1>2, <1>4 DEF IsOpen, Unterminated
<1>9. Building(f)
  <2>1. OnlyLast(e)
    BY <1>4 DEF OnlyLast
  <2>2. \A b \in 1 .. 1 : b = 1
    OBVIOUS
  <2>3. QED
    BY <1>1, <1>4, <1>5, <1>7, <2>1, <2>2 DEF Building, BlocksOK
<1>10. Program(a) /\ 1 \in 1 .. Len(a)
  <2>1. a \in Seq(Node) /\ a # <<>> /\ Program(a)
    BY DEF Sound, Program, Nested, OpenOK
  <2>2. QED
    BY <2>1
<1>11. \A j : j \notin 1 .. 1 - 1
  OBVIOUS
<1>12. 1 \in Live(a)
  BY <1>10, <1>11, LiveIs
<1>13. ~Closed(a, 1)
  BY <1>11 DEF Closed, AfterJump, AfterSwitch
<1>14. StraightRight(a, 1, f, e)
  BY <1>11 DEF StraightRight
<1>15. \A kinds, i : ~Encloses(a, i, 1, kinds)
  BY <1>11 DEF Encloses
<1>16. e \in Seq(Nat)
  BY <1>2
<1>17. Fits(e, a, 1, Branched) /\ Fits(e, a, 1, {"switch"})
  BY <1>4, <1>15, <1>16 DEF Fits
<1>18. Owned(Unplaced(f), e, e, a, 1) /\ SwitchesRight(e, e, e, e, f, Unplaced(f))
  BY <1>4, <1>7 DEF Owned, SwitchesRight
<1>19. IsOpen(f) <=> ~Closed(a, 1)
  BY <1>8, <1>13
<1>20. Right(a, 1, f, e, e)
  BY <1>9, <1>12, <1>14, <1>17, <1>18, <1>19, RightAt
<1>21. QED
  BY <1>2, <1>20

-----------------------------------------------------------------------------
(* The theorems. *)

\* One visit.
LEMMA VisitRight ==
  ASSUME VisitInv, FollowInv, WellInv, VisitNext
  PROVE  WellInv'
<1>1. gen = "visiting"
  BY DEF VisitNext, VisitExpr, VisitBlock, VisitReturnStmt, VisitBreakStmt,
         VisitContinueStmt, VisitIfStmt, VisitElse, VisitIfEnd, VisitForStmt, VisitForEnd,
         VisitDoWhileStmt, VisitDoWhileEnd, VisitSwitchStmt, VisitSwitchEnd, VisitCaseStmt,
         VisitDefaultStmt, VisitFuncEnd, Visiting
<1>2. PICK gs, ss : AtPos(gs, ss)
  BY <1>1, SomeAround
<1>3. Sound(nodes)
  BY <1>1 DEF WellInv
<1>4. ASSUME nodes' = nodes, gen' = gen, Right(nodes, pos', ir', locals', switchStack') PROVE WellInv'
  BY <1>1, <1>3, <1>4 DEF WellInv, WellFormed
<1>5. ASSUME Crash PROVE WellInv'
  BY <1>3, <1>5 DEF Crash, WellInv, WellFormed
<1>6. CASE VisitExpr \/ VisitBlock
  <2>1. nodes' = nodes /\ gen' = gen
    BY <1>6 DEF VisitExpr, VisitBlock, Advance
  <2>2. QED
    BY <1>2, <1>4, <1>6, <2>1, PlainRight
<1>7. CASE VisitReturnStmt \/ VisitBreakStmt \/ VisitContinueStmt
  <2>1. nodes' = nodes /\ gen' = gen
    BY <1>7 DEF VisitReturnStmt, VisitBreakStmt, VisitContinueStmt
  <2>2. QED
    BY <1>2, <1>4, <1>7, <2>1, JumpRight
<1>8. CASE VisitIfStmt
  <2>1. Crash \/ (nodes' = nodes /\ gen' = gen)
    BY <1>8 DEF VisitIfStmt, Advance
  <2>2. QED
    BY <1>2, <1>4, <1>5, <1>8, <2>1, IfRight
<1>9. CASE VisitElse \/ VisitIfEnd
  <2>1. nodes' = nodes /\ gen' = gen
    BY <1>9 DEF VisitElse, VisitIfEnd, Advance
  <2>2. QED
    BY <1>2, <1>4, <1>9, <2>1, ElseRight, IfEndRight
<1>10. CASE VisitForStmt \/ VisitForEnd
  <2>1. nodes' = nodes /\ gen' = gen
    BY <1>10 DEF VisitForStmt, VisitForEnd, Advance
  <2>2. QED
    BY <1>2, <1>4, <1>10, <2>1, ForRight, ForEndRight
<1>11. CASE VisitDoWhileStmt
  <2>1. Crash \/ (nodes' = nodes /\ gen' = gen)
    BY <1>11 DEF VisitDoWhileStmt, Advance
  <2>2. QED
    BY <1>2, <1>4, <1>5, <1>11, <2>1, DoRight
<1>12. CASE VisitDoWhileEnd
  <2>1. nodes' = nodes /\ gen' = gen
    BY <1>12 DEF VisitDoWhileEnd, Advance
  <2>2. QED
    BY <1>2, <1>4, <1>12, <2>1, DoEndRight
<1>13. CASE VisitSwitchStmt
  <2>1. Crash \/ (nodes' = nodes /\ gen' = gen)
    BY <1>13 DEF VisitSwitchStmt, Advance
  <2>2. QED
    BY <1>2, <1>4, <1>5, <1>13, <2>1, SwitchRight
<1>14. CASE VisitSwitchEnd
  <2>1. nodes' = nodes /\ gen' = gen
    BY <1>14 DEF VisitSwitchEnd, Advance
  <2>2. QED
    BY <1>2, <1>4, <1>14, <2>1, SwitchEndRight
<1>15. CASE VisitCaseStmt
  <2>1. nodes' = nodes /\ gen' = gen
    BY <1>15 DEF VisitCaseStmt, Advance
  <2>2. QED
    BY <1>2, <1>4, <1>15, <2>1, CaseRight
<1>16. CASE VisitDefaultStmt
  <2>1. Crash \/ (nodes' = nodes /\ gen' = gen)
    BY <1>16 DEF VisitDefaultStmt, Advance
  <2>2. QED
    BY <1>2, <1>4, <1>5, <1>16, <2>1, DefaultRight
<1>17. CASE VisitFuncEnd
  <2>1. nodes' = nodes /\ gen' = "done"
    BY <1>17 DEF VisitFuncEnd
  <2>2. WellFormed'
    BY <1>2, <1>17, FuncEndRight
  <2>3. QED
    BY <1>3, <2>1, <2>2 DEF WellInv
<1>18. QED
  BY <1>6, <1>7, <1>8, <1>9, <1>10, <1>11, <1>12, <1>13, <1>14, <1>15, <1>16, <1>17 DEF VisitNext

\* The invariant, for the programs without the wrong shapes, whatever Shapes is.
SoundlyWell == gen = "idle" \/ Sound(nodes) => WellInv

\* At first.
LEMMA Init_SoundlyWell ==
  ASSUME Init
  PROVE  SoundlyWell
BY DEF Init, FlowInit, SoundlyWell, WellInv, WellFormed

\* Every step keeps it.
LEMMA Next_SoundlyWell ==
  ASSUME VisitInv, NestInv, FollowInv, SoundlyWell, [Next]_vars
  PROVE  SoundlyWell'
<1>1. ASSUME UNCHANGED flowVars PROVE SoundlyWell'
  BY <1>1 DEF flowVars, SoundlyWell, WellInv, WellFormed, Inserted
<1>2. CASE Parse
  BY <1>1, <1>2 DEF Parse
<1>3. CASE Translate
  <2>1. StartFunction(ast, defaultStmts)
    BY <1>3 DEF Translate
  <2>2. FlowInit
    BY <2>1 DEF StartFunction, VisitInv
  <2>3. /\ gen' = "visiting" /\ nodes' = ast /\ pos' = 1 /\ ir' = Place(Create(ir, 1), 1)
        /\ locals' = <<>> /\ switchStack' = <<>>
    BY <2>1, <2>2 DEF StartFunction, FlowInit
  <2>4. PICK f : f = ir'
    OBVIOUS
  <2>5. f = Place(Create([blocks |-> <<>>, order |-> <<>>, point |-> 0], 1), 1)
    BY <2>2, <2>3, <2>4 DEF FlowInit
  <2>6. Sound(ast) => Right(ast, 1, f, <<>>, <<>>)
    BY <2>5, EntryRight
  <2>7. QED
    BY <2>3, <2>4, <2>6 DEF SoundlyWell, WellInv, WellFormed
<1>4. CASE Visit
  <2>1. VisitNext
    BY <1>4 DEF Visit
  <2>2. gen = "visiting" /\ nodes' = nodes
    BY <2>1 DEF VisitNext, VisitExpr, VisitBlock, VisitReturnStmt, VisitBreakStmt,
         VisitContinueStmt, VisitIfStmt, VisitElse, VisitIfEnd, VisitForStmt, VisitForEnd,
         VisitDoWhileStmt, VisitDoWhileEnd, VisitSwitchStmt, VisitSwitchEnd, VisitCaseStmt,
         VisitDefaultStmt, VisitFuncEnd, Visiting, Advance, Crash
  <2>3. gen' # "idle"
    BY <2>1, <2>2 DEF VisitNext, VisitExpr, VisitBlock, VisitReturnStmt, VisitBreakStmt,
         VisitContinueStmt, VisitIfStmt, VisitElse, VisitIfEnd, VisitForStmt, VisitForEnd,
         VisitDoWhileStmt, VisitDoWhileEnd, VisitSwitchStmt, VisitSwitchEnd, VisitCaseStmt,
         VisitDefaultStmt, VisitFuncEnd, Visiting, Advance, Crash
  <2>4. WellInv => WellInv'
    BY <2>1, VisitRight
  <2>5. QED
    BY <2>2, <2>3, <2>4 DEF SoundlyWell
<1>5. CASE UNCHANGED vars
  BY <1>1, <1>5 DEF vars
<1>6. QED
  BY <1>2, <1>3, <1>4, <1>5 DEF Next, Terminated

\* CodeGen runs on programs that Parse has finished with, and, besides the
\* shapes allowed, on those without any.
LEMMA ProgramsOnly ==
  Spec => [](gen # "idle" => Program(nodes) /\ \A shape \in AllShapes \ Shapes : ~Has(nodes, shape))
<1> DEFINE Given == gen # "idle" => \A shape \in AllShapes \ Shapes : ~Has(nodes, shape)
<1>1. Init => Given
  BY DEF Init, FlowInit
<1>2. Given /\ [Next]_vars => Given'
  <2>1. SUFFICES ASSUME Given, [Next]_vars PROVE Given'
    OBVIOUS
  <2>2. ASSUME nodes' = nodes, gen' # "idle" => gen # "idle" PROVE Given'
    BY <2>1, <2>2
  <2>3. CASE Parse
    BY <2>2, <2>3 DEF Parse, flowVars
  <2>4. CASE Translate
    BY <2>4 DEF Translate, StartFunction
  <2>5. CASE Visit
    <3>1. nodes' = nodes /\ gen = "visiting"
      BY <2>5 DEF Visit, VisitNext, VisitExpr, VisitBlock, VisitReturnStmt, VisitBreakStmt,
         VisitContinueStmt, VisitIfStmt, VisitElse, VisitIfEnd, VisitForStmt, VisitForEnd,
         VisitDoWhileStmt, VisitDoWhileEnd, VisitSwitchStmt, VisitSwitchEnd, VisitCaseStmt,
         VisitDefaultStmt, VisitFuncEnd, Visiting, Advance, Crash
    <3>2. QED
      BY <2>2, <3>1
  <2>6. CASE UNCHANGED vars
    BY <2>2, <2>6 DEF vars, flowVars
  <2>7. QED
    BY <2>1, <2>3, <2>4, <2>5, <2>6 DEF Next, Terminated
<1>3. Spec => []Given
  BY <1>1, <1>2, PTL DEF Spec
<1>4. NestInv /\ FollowInv /\ VisitInv => (gen # "idle" => Program(nodes))
  BY ParsedProgram DEF VisitInv
<1>5. QED
  BY <1>3, <1>4, VisitInvHolds, PTL

\* A function without the shapes that CodeGen compiles to something else than C
\* says has the basic blocks verifyModule accepts, whatever other functions are
\* compiled: every block that was created is inserted once, has its terminator
\* and no other (codegen.cc's tests of GetTerminator before a fall through), and
\* branches go to blocks of the function, not to its entry.
THEOREM SoundIsWellFormed ==
  Spec => []((\A shape \in WrongShapes : ~Has(nodes, shape)) => WellFormed)
<1>1. Init => SoundlyWell
  BY Init_SoundlyWell
<1>2. NestInv /\ FollowInv /\ VisitInv /\ SoundlyWell /\ [Next]_vars => SoundlyWell'
  BY Next_SoundlyWell
<1>3. Spec => []SoundlyWell
  BY <1>1, <1>2, VisitInvHolds, PTL DEF Spec
<1>4. /\ SoundlyWell
      /\ gen # "idle" => Program(nodes) /\ \A shape \in AllShapes \ Shapes : ~Has(nodes, shape)
      => ((\A shape \in WrongShapes : ~Has(nodes, shape)) => WellFormed)
  BY DEF SoundlyWell, WellInv, WellFormed, Sound
<1>5. QED
  BY <1>3, <1>4, ProgramsOnly, PTL

\* The programs that CodeGen is given have none of these shapes, at most null
\* statements as bodies, on which it crashes before it has emitted anything wrong.
OnlyNullBodies == Shapes \subseteq {"nullBody"}

\* So all functions have well-formed blocks when none has one of the shapes.
THEOREM FlowWellFormed ==
  ASSUME OnlyNullBodies
  PROVE  Spec => []WellFormed
<1>1. WrongShapes \subseteq AllShapes \ Shapes
  BY DEF OnlyNullBodies, WrongShapes, AllShapes
<1>2. /\ gen # "idle" => Program(nodes) /\ \A shape \in AllShapes \ Shapes : ~Has(nodes, shape)
      /\ (\A shape \in WrongShapes : ~Has(nodes, shape)) => WellFormed
      => WellFormed
  BY <1>1 DEF WellFormed
<1>3. QED
  BY <1>2, ProgramsOnly, SoundIsWellFormed, PTL

=============================================================================
