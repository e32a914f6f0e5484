----------------------------- MODULE LexerProofs -----------------------------
(***************************************************************************)
(* Where the lexer is, for all buffers of any length: LexerInv speaks of   *)
(* the place it reads, the token it gave last and what is saved, and every *)
(* step keeps it.  The ends of numbers, words and strings, which the       *)
(* functions NumberEnd and Content look for from place to place, lie in    *)
(* the buffer and behind where they start: the first part shows that such  *)
(* functions exist, and what holds of them at every place.                 *)
(***************************************************************************)
EXTENDS Lexer, StackLemmas, FiniteSetTheorems

-----------------------------------------------------------------------------

(* Sets of places, and functions that look at the places behind. *)

\* A nonempty set of places has a first one.
LEMMA MinOfPlaces ==
  ASSUME NEW S \in SUBSET Nat, S # {}
  PROVE  Min(S) \in S /\ \A y \in S : Min(S) <= y
BY NatMinimum DEF Min

\* From each of n places a reader steps to a later one, or stops at the place.
Steps(n) == {step \in [1..n -> Nat] : \A p \in 1..n : step[p] \in p..n}

\* What is read from a place on, where a stop gives base and a step adds to the rest.
Reads(f, step, base, comb) ==
    f = [p \in DOMAIN step |-> IF step[p] = p THEN base[p] ELSE comb[p][f[step[p]]]]

\* Such a function exists.
LEMMA ReadingExists ==
  ASSUME NEW n \in Nat, NEW V, NEW step \in Steps(n),
         NEW base \in [1..n -> V], NEW comb \in [1..n -> [V -> V]]
  PROVE  \E f \in [1..n -> V] : Reads(f, step, base, comb)
<1> USE DEF Steps
<1> DEFINE From(k) == (n + 1 - k)..n
           ReadsFrom(k, f) == f = [p \in From(k) |-> IF step[p] = p THEN base[p] ELSE comb[p][f[step[p]]]]
           Bad == {k \in 0..n : ~\E f \in [From(k) -> V] : ReadsFrom(k, f)}
<1>1. ASSUME Bad # {} PROVE FALSE
  <2>1. PICK k \in Bad : \A y \in Bad : k <= y
    <3>1. Bad \in SUBSET Nat
      OBVIOUS
    <3>2. QED
      BY <1>1, <3>1, NatMinimum
  <2>2. k # 0
    <3>1. From(0) = {}
      OBVIOUS
    <3> DEFINE e == [p \in From(0) |-> base[p]]
    <3>2. e \in [From(0) -> V]
      BY <3>1
    <3>3. e = [p \in From(0) |-> IF step[p] = p THEN base[p] ELSE comb[p][e[step[p]]]]
      BY <3>1
    <3>4. ReadsFrom(0, e)
      BY <3>3
    <3>5. \E f \in [From(0) -> V] : ReadsFrom(0, f)
      <4> HIDE DEF e, ReadsFrom
      <4> QED
        BY <3>2, <3>4
    <3>6. QED
      BY <3>5, <2>1
  <2>3. k - 1 \in 0..n /\ k \in 1..n
    BY <2>2
  <2>4. k - 1 \notin Bad
    <3> HIDE DEF Bad
    <3> QED
      BY <2>1, <2>3
  <2>5. PICK g \in [From(k - 1) -> V] : ReadsFrom(k - 1, g)
    BY <2>3, <2>4
  <2> DEFINE new == n + 1 - k
             h == [p \in From(k) |-> IF p = new
                                     THEN IF step[p] = p THEN base[p] ELSE comb[p][g[step[p]]]
                                     ELSE g[p]]
  <2>6. /\ new \in 1..n
        /\ \A p \in From(k) : p \in 1..n /\ (p = new \/ p \in From(k - 1))
        /\ \A p \in From(k) : p # new => p \in From(k - 1)
        /\ \A p \in From(k - 1) : p \in From(k) /\ p # new
    BY <2>3
  <2>7. \A p \in From(k) : step[p] # p => step[p] \in From(k - 1)
    BY <2>3, <2>6
  <2>8. h \in [From(k) -> V]
    <3> SUFFICES ASSUME NEW p \in From(k) PROVE h[p] \in V
      OBVIOUS
    <3>1. CASE p # new
      BY <3>1, <2>6
    <3>2. CASE p = new /\ step[p] = p
      BY <3>2, <2>6
    <3>3. CASE p = new /\ step[p] # p
      BY <3>3, <2>6, <2>7
    <3>4. QED
      BY <3>1, <3>2, <3>3
  <2>9. \A p \in From(k) : h[p] = IF step[p] = p THEN base[p] ELSE comb[p][h[step[p]]]
    <3> SUFFICES ASSUME NEW p \in From(k)
                 PROVE  h[p] = IF step[p] = p THEN base[p] ELSE comb[p][h[step[p]]]
      OBVIOUS
    <3>1. step[p] # p => h[step[p]] = g[step[p]]
      BY <2>6, <2>7
    <3>2. CASE p = new
      BY <3>1, <3>2
    <3>3. CASE p # new
      <4>1. p \in From(k - 1) /\ h[p] = g[p]
        BY <3>3, <2>6
      <4>2. g[p] = IF step[p] = p THEN base[p] ELSE comb[p][g[step[p]]]
        BY <4>1, <2>5
      <4>3. QED
        BY <4>1, <4>2, <3>1
    <3>4. QED
      BY <3>2, <3>3
  <2>10. ReadsFrom(k, h)
    BY <2>8, <2>9
  <2>11. QED
    BY <2>1, <2>8, <2>10
<1>2. n \in 0..n /\ From(n) = 1..n
  OBVIOUS
<1>3. \E f \in [From(n) -> V] : ReadsFrom(n, f)
  BY <1>1, <1>2
<1>4. QED
  BY <1>2, <1>3 DEF Reads

\* What holds at a place if it holds at the later one it looks at holds everywhere.
LEMMA ReadingHolds ==
  ASSUME NEW n \in Nat, NEW step \in Steps(n), NEW good,
         \A p \in 1..n : step[p] = p \/ step[p] \in good => p \in good
  PROVE  \A p \in 1..n : p \in good
<1> USE DEF Steps
<1> DEFINE Left == {n - p : p \in {q \in 1..n : q \notin good}}
<1> SUFFICES ASSUME NEW p \in 1..n, p \notin good PROVE FALSE
  OBVIOUS
<1>1. Left \in SUBSET Nat /\ Left # {}
  <2>1. n - p \in Left
    OBVIOUS
  <2>2. Left \subseteq Nat
    OBVIOUS
  <2>3. QED
    BY <2>1, <2>2
<1>2. PICK x \in Left : \A y \in Left : x <= y
  BY <1>1, NatMinimum
<1>3. PICK q \in 1..n : q \notin good /\ x = n - q
  OBVIOUS
<1>4. step[q] # q /\ step[q] \notin good
  BY <1>3
<1>5. step[q] \in 1..n /\ step[q] > q
  BY <1>4
<1>6. n - step[q] \in Left
  BY <1>4, <1>5
<1>7. n - step[q] < n - q
  BY <1>3, <1>5
<1>8. QED
  <2> HIDE DEF Left
  <2> QED
    BY <1>2, <1>3, <1>5, <1>6, <1>7

-----------------------------------------------------------------------------

(* The buffer. *)

\* A character that is not the null character stands before the end.
LEMMA CharPlaces ==
  ASSUME text \in Seq(STRING)
  PROVE  /\ BufEnd \in Nat /\ BufEnd >= 1 /\ Len(text) \in Nat
         /\ \A i \in Int : Char(i) # Null => i \in 1..(BufEnd - 1)
BY DEF BufEnd, Char

\* The end of a run lies in the buffer, behind the place where the run starts if it has
\* a character.
LEMMA RunLies ==
  ASSUME text \in Seq(STRING), NEW S, Null \notin S, NEW i \in 1..BufEnd
  PROVE  Run(S, i) \in i..BufEnd /\ (Char(i) \in S => Run(S, i) > i)
<1>1. BufEnd \in Nat /\ Char(BufEnd) = Null
  BY DEF BufEnd, Char
<1> DEFINE stops == {j \in i..BufEnd : Char(j) \notin S}
<1>2. stops \in SUBSET Nat /\ BufEnd \in stops
  BY <1>1
<1>3. Min(stops) \in stops
  BY <1>2, MinOfPlaces
<1>4. QED
  BY <1>3 DEF Run

\* So does the end of a number.
LEMMA NumberEndLies ==
  ASSUME text \in Seq(STRING), BufPtr \in 1..BufEnd
  PROVE  NumberEnd \in BufPtr..BufEnd /\ (IsNumber => NumberEnd > BufPtr)
<1> DEFINE signed(p) == Char(p) \in {"e", "E", "p", "P"} /\ Char(p+1) \in {"+", "-"}
           inside(p) == Char(p) \in Alnum \cup {"."}
           Body(f) == [p \in 1..BufEnd |-> IF signed(p) THEN f[p + 2] ELSE IF inside(p) THEN f[p + 1] ELSE p]
           step == [p \in 1..BufEnd |-> IF signed(p) THEN p + 2 ELSE IF inside(p) THEN p + 1 ELSE p]
           base == [p \in 1..BufEnd |-> p]
           comb == [p \in 1..BufEnd |-> [v \in Nat |-> v]]
<1>1. \A p \in 1..BufEnd : (signed(p) => p + 2 \in 1..BufEnd) /\ (inside(p) => p + 1 \in 1..BufEnd)
  <2> SUFFICES ASSUME NEW p \in 1..BufEnd
               PROVE  (signed(p) => p + 2 \in 1..BufEnd) /\ (inside(p) => p + 1 \in 1..BufEnd)
    OBVIOUS
  <2>1. signed(p) => Char(p + 1) # Null
    BY DEF Null
  <2>2. inside(p) => Char(p) # Null
    BY DEF Null, Alnum, Digits, Letters, HexLetters
  <2>3. QED
    BY <2>1, <2>2, CharPlaces
<1>2. /\ BufEnd \in Nat /\ step \in Steps(BufEnd)
      /\ base \in [1..BufEnd -> Nat] /\ comb \in [1..BufEnd -> [Nat -> Nat]]
  <2> HIDE DEF signed, inside
  <2>1. BufEnd \in Nat
    BY CharPlaces
  <2>2. \A p \in 1..BufEnd : step[p] \in p..BufEnd /\ step[p] \in Nat
    BY <1>1, <2>1
  <2>3. QED
    BY <2>1, <2>2 DEF Steps
<1>3. PICK f \in [1..BufEnd -> Nat] : Reads(f, step, base, comb)
  <2> HIDE DEF step, base, comb
  <2>1. QED
    BY <1>2, ReadingExists
<1>4. f = Body(f)
  <2> HIDE DEF signed, inside
  <2> SUFFICES ASSUME NEW p \in 1..BufEnd
               PROVE  f[p] = IF signed(p) THEN f[p + 2] ELSE IF inside(p) THEN f[p + 1] ELSE p
    BY <1>3
  <2>1. f[p] = IF step[p] = p THEN p ELSE comb[p][f[step[p]]]
    BY <1>3 DEF Reads
  <2>2. comb[p][f[step[p]]] = f[step[p]]
    <3>1. step[p] \in p..BufEnd
      <4> HIDE DEF step
      <4> QED
        BY <1>2 DEF Steps
    <3>2. f[step[p]] \in Nat
      <4> HIDE DEF step
      <4> QED
        BY <1>2, <3>1
    <3>3. QED
      BY <3>2
  <2>3. QED
    BY <2>1, <2>2
<1> DEFINE end == CHOOSE e : e = Body(e)
<1>5. end = Body(end)
  <2> HIDE DEF Body
  <2>1. QED
    BY <1>4
<1>6. \A p \in 1..BufEnd : end[p] \in p..BufEnd
  <2> DEFINE good == {p \in 1..BufEnd : end[p] \in p..BufEnd}
  <2>1. \A p \in 1..BufEnd : step[p] = p \/ step[p] \in good => p \in good
    <3> SUFFICES ASSUME NEW p \in 1..BufEnd, step[p] = p \/ step[p] \in good
                 PROVE  end[p] \in p..BufEnd
      OBVIOUS
    <3>1. end[p] = IF step[p] = p THEN p ELSE end[step[p]]
      <4> HIDE DEF end, signed, inside
      <4>1. end[p] = IF signed(p) THEN end[p + 2] ELSE IF inside(p) THEN end[p + 1] ELSE p
        BY <1>5
      <4>2. QED
        BY <4>1
    <3> HIDE DEF end, step
    <3>2. QED
      BY <3>1, <1>2 DEF Steps
  <2>2. \A p \in 1..BufEnd : p \in good
    <3> HIDE DEF good, step, base, comb
    <3>1. QED
      BY <1>2, <2>1, ReadingHolds
  <2>3. QED
    BY <2>2
<1>7. NumberEnd = end[BufPtr]
  BY DEF NumberEnd
<1>8. IsNumber => end[BufPtr] > BufPtr
  <2>1. IsNumber => inside(BufPtr)
    BY DEF IsNumber, Alnum
  <2>2. end[BufPtr] = IF signed(BufPtr) THEN end[BufPtr + 2]
                      ELSE IF inside(BufPtr) THEN end[BufPtr + 1] ELSE BufPtr
    <3> HIDE DEF end, signed, inside
    <3> QED
      BY <1>5
  <2> HIDE DEF end, signed, inside
  <2>3. QED
    BY <1>1, <1>2, <1>6, <2>1, <2>2
<1>9. QED
  BY <1>6, <1>7, <1>8

\* The content of a string literal ends where it starts or behind, one place behind
\* the null character at most.
LEMMA ContentLies ==
  ASSUME text \in Seq(STRING), NEW i \in 1..(BufEnd + 1)
  PROVE  Content(i).end \in i..(BufEnd + 1)
<1> DEFINE n == BufEnd + 1
           stops(j) == j > BufEnd \/ Char(j) \in {DoubleQuote, Null}
           first(j) == CChar(j).char
           next(j) == CChar(j).next
           V == [value : Seq({first(j) : j \in 1..n}), end : Nat]
           none(j) == [value |-> <<>>, end |-> j]
           more(j, v) == [v EXCEPT !.value = <<first(j)>> \o @]
           Body(r) == [j \in 1..n |-> IF stops(j) THEN none(j) ELSE more(j, r[next(j)])]
           step == [j \in 1..n |-> IF stops(j) THEN j ELSE next(j)]
           base == [j \in 1..n |-> none(j)]
           comb == [j \in 1..n |-> [v \in V |-> more(j, v)]]
<1>1. n \in Nat /\ BufEnd \in Nat
  BY CharPlaces
<1>2. \A j \in 1..n : ~stops(j) => next(j) \in 1..n /\ next(j) > j
  <2> SUFFICES ASSUME NEW j \in 1..n, ~stops(j)
               PROVE  next(j) \in 1..n /\ next(j) > j
    OBVIOUS
  <2>1. j \in 1..(BufEnd - 1)
    BY CharPlaces
  <2>2. next(j) = j + 1 \/ next(j) = j + 2
    BY DEF CChar
  <2>3. QED
    BY <1>1, <2>1, <2>2
<1>3. \A j \in 1..n : none(j) \in V /\ \A v \in V : more(j, v) \in V /\ more(j, v).end = v.end
  <2> SUFFICES ASSUME NEW j \in 1..n
               PROVE  none(j) \in V /\ \A v \in V : more(j, v) \in V /\ more(j, v).end = v.end
    OBVIOUS
  <2> DEFINE Chars == {first(k) : k \in 1..n}
  <2>1. first(j) \in Chars
    OBVIOUS
  <2> HIDE DEF Chars, first
  <2>2. \A s \in Seq(Chars) : <<first(j)>> \o s \in Seq(Chars)
    BY <2>1, OneElement, ConcatType
  <2>3. <<>> \in Seq(Chars) /\ j \in Nat
    BY <1>1
  <2>4. V = [value : Seq(Chars), end : Nat]
    BY DEF Chars
  <2> HIDE DEF V
  <2>5. QED
    BY <2>2, <2>3, <2>4
<1> HIDE DEF stops, first, next, V, none, more
<1>4. /\ step \in Steps(n)
      /\ base \in [1..n -> V] /\ comb \in [1..n -> [V -> V]]
  <2>1. \A j \in 1..n : step[j] \in j..n /\ step[j] \in Nat
    BY <1>1, <1>2
  <2>2. step \in Steps(n)
    <3>1. step \in [1..n -> Nat]
      BY <2>1
    <3> HIDE DEF step
    <3>2. QED
      BY <2>1, <3>1 DEF Steps
  <2>3. QED
    BY <1>3, <2>2
<1>5. PICK f \in [1..n -> V] : Reads(f, step, base, comb)
  <2> HIDE DEF n, step, base, comb
  <2>1. QED
    BY <1>1, <1>4, ReadingExists
<1>6. f = Body(f)
  <2> SUFFICES ASSUME NEW j \in 1..n
               PROVE  f[j] = IF stops(j) THEN none(j) ELSE more(j, f[next(j)])
    BY <1>5
  <2>1. f[j] = IF step[j] = j THEN none(j) ELSE comb[j][f[step[j]]]
    BY <1>5 DEF Reads
  <2>2. comb[j][f[step[j]]] = more(j, f[step[j]])
    <3>1. step[j] \in j..n
      <4> HIDE DEF step
      <4> QED
        BY <1>4 DEF Steps
    <3>2. f[step[j]] \in V
      <4> HIDE DEF step
      <4> QED
        BY <1>1, <3>1
    <3>3. QED
      BY <3>2
  <2>3. step[j] = j <=> stops(j)
    BY <1>1, <1>2
  <2>4. QED
    BY <2>1, <2>2, <2>3
<1> DEFINE read == CHOOSE r : r = Body(r)
<1>7. read = Body(read)
  <2> HIDE DEF Body
  <2>1. QED
    BY <1>6
<1>8. \A j \in 1..n : read[j] \in V /\ read[j].end \in j..n
  <2> DEFINE good == {j \in 1..n : read[j] \in V /\ read[j].end \in j..n}
  <2>1. \A j \in 1..n : step[j] = j \/ step[j] \in good => j \in good
    <3> SUFFICES ASSUME NEW j \in 1..n, step[j] = j \/ step[j] \in good
                 PROVE  read[j] \in V /\ read[j].end \in j..n
      OBVIOUS
    <3>1. read[j] = IF stops(j) THEN none(j) ELSE more(j, read[next(j)])
      <4> HIDE DEF read
      <4> QED
        BY <1>7
    <3> HIDE DEF read
    <3>2. CASE stops(j)
      BY <1>1, <1>3, <3>1, <3>2 DEF none
    <3>3. CASE ~stops(j)
      <4>1. next(j) > j /\ read[next(j)] \in V /\ read[next(j)].end \in next(j)..n /\ next(j) \in 1..n
        BY <1>1, <1>2, <3>3
      <4>2. read[j] \in V /\ read[j].end = read[next(j)].end
        BY <1>3, <3>1, <3>3, <4>1
      <4>3. QED
        BY <1>1, <4>1, <4>2
    <3>4. QED
      BY <3>2, <3>3
  <2>2. \A j \in 1..n : j \in good
    <3> HIDE DEF n, good, step
    <3>1. QED
      BY <1>1, <1>4, <2>1, ReadingHolds
  <2>3. QED
    BY <2>2
<1>9. Content(i) = read[i]
  BY DEF Content, stops, first, next, none, more
<1>10. QED
  BY <1>8, <1>9

-----------------------------------------------------------------------------

(* The inductive invariant. *)

\* A position: a line has at least one character, its end, so that there are no more
\* of them than places before.
PositionLies(ptr, head, line) ==
    ptr \in 1..(BufEnd + 2) /\ head \in 1..ptr /\ line \in 1..BufEnd /\ line <= ptr

\* A token that was read before this place, in this line or one before.
TokenLies(t, ptr, line) ==
    /\ DOMAIN t = DOMAIN NoToken
    /\ t.row \in 0..line
    /\ t.ptr \in Int /\ t.len \in Int /\ t.ptr + t.len <= ptr

\* What was saved is a position and a token of it.
SavedLie ==
    /\ stateStack \in Seq(Int \X Int \X Int) /\ begins \in Seq(Range(begins))
    /\ Len(stateStack) <= MaxSaved /\ Len(begins) = Len(stateStack)
    /\ \A k \in 1..Len(stateStack) :
         /\ PositionLies(stateStack[k][1], stateStack[k][2], stateStack[k][3])
         /\ TokenLies(begins[k], stateStack[k][1], stateStack[k][3])

LexerInv ==
    /\ text \in Seq(STRING)
    /\ PositionLies(BufPtr, LineHeadPtr, row) /\ TokenLies(tok, BufPtr, row)
    /\ SavedLie
    /\ phase \in {"idle", "skipping"} /\ outcome \in {"running", "reported", "overrun"}

\* Where a call has read something, it has moved forward.
Further == BufPtr' > BufPtr \/ tok'.type = "eof" \/ outcome' # "running"

\* The saved positions and tokens stay right while the text is not changed.
LEMMA SavedStay ==
  ASSUME SavedLie, text' = text, UNCHANGED clientVars
  PROVE  SavedLie'
BY DEF SavedLie, PositionLies, TokenLies, BufEnd, clientVars, NoToken, Range

\* A call that ends behind where it began, with a token that ends before that place,
\* keeps the invariant.
LEMMA IdleKeeps ==
  ASSUME LexerInv, NEW t, NEW next \in BufPtr..(BufEnd + 1), Idle(t, next),
         TokenLies(t, next, row)
  PROVE  LexerInv'
<1>1. SavedLie'
  BY SavedStay DEF LexerInv, Idle
<1>2. BufEnd' = BufEnd /\ BufEnd \in Nat
  BY CharPlaces DEF LexerInv, Idle, BufEnd
<1>3. PositionLies(BufPtr, LineHeadPtr, row)'
  BY <1>2 DEF LexerInv, Idle, PositionLies
<1>4. TokenLies(tok, BufPtr, row)'
  BY DEF Idle, TokenLies, NoToken
<1>5. QED
  BY <1>1, <1>3, <1>4 DEF LexerInv, Idle

\* A call that stops the program changes nothing that is marked.
LEMMA StopKeeps ==
  ASSUME LexerInv, NEW how \in {"reported", "overrun"}, Stop(how)
  PROVE  LexerInv' /\ Further
<1>1. SavedLie'
  BY SavedStay DEF LexerInv, Stop
<1>2. QED
  BY <1>1 DEF LexerInv, Stop, PositionLies, TokenLies, position, BufEnd, NoToken, Further

\* The token that is filled in has the fields of the one before, and where it stands.
LEMMA HereLies ==
  ASSUME LexerInv, NEW type, NEW next \in Int
  PROVE  /\ DOMAIN Here = DOMAIN NoToken /\ Here.row = row
         /\ DOMAIN Token(type, next) = DOMAIN NoToken /\ Token(type, next).row = row
         /\ Token(type, next).ptr = BufPtr /\ Token(type, next).len = next - BufPtr
         /\ row \in 0..row /\ BufPtr \in Int /\ BufEnd \in Nat
<1>1. DOMAIN tok = DOMAIN NoToken
  BY DEF LexerInv, TokenLies
<1>2. DOMAIN Here = DOMAIN NoToken /\ Here.row = row
  BY <1>1 DEF Here, NoToken
<1>3. DOMAIN Token(type, next) = DOMAIN NoToken /\ Token(type, next).row = row
  BY <1>2 DEF Token, NoToken
<1>4. Token(type, next).ptr = BufPtr /\ Token(type, next).len = next - BufPtr
  BY <1>2 DEF Token, NoToken
<1>5. row \in 0..row /\ BufPtr \in Int /\ BufEnd \in Nat
  BY CharPlaces DEF LexerInv, PositionLies
<1>6. QED
  BY <1>2, <1>3, <1>4, <1>5

\* So it lies before the next place, whatever its type, its value and its size.
LEMMA TokenKeeps ==
  ASSUME LexerInv, NEW type, NEW next \in (BufPtr + 1)..(BufEnd + 1), NEW t, Idle(t, next),
         DOMAIN t = DOMAIN NoToken, t.row = row,
         t.ptr = Token(type, next).ptr, t.len = Token(type, next).len
  PROVE  LexerInv' /\ Further
<1>1. next \in Int /\ next \in BufPtr..(BufEnd + 1) /\ next > BufPtr
  BY CharPlaces DEF LexerInv, PositionLies
<1>2. TokenLies(t, next, row)
  BY <1>1, HereLies DEF TokenLies
<1>3. LexerInv'
  BY <1>1, <1>2, IdleKeeps
<1>4. QED
  BY <1>1, <1>3 DEF Idle, Further

-----------------------------------------------------------------------------

(* Every step keeps it. *)

LEMMA InitKeeps == Init => LexerInv
<1> SUFFICES ASSUME Init PROVE LexerInv
  OBVIOUS
<1>1. text \in Seq(STRING)
  BY TextsAssumption DEF Init
<1>2. BufEnd \in Nat /\ BufEnd >= 1
  BY <1>1, CharPlaces
<1>3. PositionLies(BufPtr, LineHeadPtr, row)
  BY <1>2 DEF Init, PositionLies
<1>4. TokenLies(tok, BufPtr, row)
  BY DEF Init, TokenLies, NoToken
<1>5. SavedLie
  BY SavedAssumption DEF Init, SavedLie
<1>6. QED
  BY <1>1, <1>3, <1>4, <1>5 DEF LexerInv, Init

\* A step that only begins a call.
LEMMA NextTokenKeeps ==
  ASSUME LexerInv, NextToken PROVE LexerInv'
<1>1. SavedLie'
  BY SavedStay DEF LexerInv, NextToken
<1>2. QED
  BY <1>1 DEF LexerInv, NextToken, PositionLies, TokenLies, position, BufEnd, NoToken

LEMMA StutterKeeps ==
  ASSUME LexerInv, UNCHANGED vars PROVE LexerInv'
<1>1. SavedLie'
  BY SavedStay DEF LexerInv, vars
<1>2. QED
  BY <1>1 DEF LexerInv, vars, PositionLies, TokenLies, position, BufEnd, NoToken

\* Saving pushes the position and the token, which lies there.
LEMMA SaveStateKeeps ==
  ASSUME LexerInv, SaveState PROVE LexerInv'
<1> DEFINE Positions == Int \X Int \X Int
           S == Range(begins) \cup {tok}
<1>1. /\ text' = text /\ BufEnd' = BufEnd /\ BufEnd \in Nat
      /\ BufPtr' = BufPtr /\ LineHeadPtr' = LineHeadPtr /\ row' = row /\ tok' = tok
  BY CharPlaces DEF LexerInv, SaveState, position, BufEnd
<1>2. position \in Positions /\ position[1] = BufPtr /\ position[2] = LineHeadPtr /\ position[3] = row
  BY <1>1 DEF LexerInv, PositionLies, position
<1>3. stateStack \in Seq(Positions) /\ begins \in Seq(S) /\ tok \in S
  BY DEF LexerInv, SavedLie
<1>4. stateStack' = Append(stateStack, position) /\ begins' = Append(begins, tok)
  BY DEF SaveState
<1> HIDE DEF Positions, S
<1>5. /\ stateStack' \in Seq(Positions) /\ Len(stateStack') = Len(stateStack) + 1
      /\ Len(stateStack) \in Nat
      /\ stateStack'[Len(stateStack) + 1] = position
      /\ \A k \in 1..Len(stateStack) : stateStack'[k] = stateStack[k]
      /\ \A k \in 1..(Len(stateStack) + 1) : k \in 1..Len(stateStack) \/ k = Len(stateStack) + 1
  BY <1>2, <1>3, <1>4, AppendParts
<1>6. /\ begins' \in Seq(S) /\ Len(begins') = Len(begins) + 1
      /\ begins'[Len(begins) + 1] = tok
      /\ \A k \in 1..Len(begins) : begins'[k] = begins[k]
  BY <1>3, <1>4, AppendParts
<1>7. begins' \in Seq(Range(begins'))
  BY <1>6, SeqOfRange
<1>8. Len(begins) = Len(stateStack) /\ Len(stateStack) < MaxSaved
  BY DEF LexerInv, SavedLie, SaveState
<1>9. \A k \in 1..Len(stateStack') :
        /\ PositionLies(stateStack'[k][1], stateStack'[k][2], stateStack'[k][3])
        /\ TokenLies(begins'[k], stateStack'[k][1], stateStack'[k][3])
  <2> SUFFICES ASSUME NEW k \in 1..Len(stateStack')
               PROVE  /\ PositionLies(stateStack'[k][1], stateStack'[k][2], stateStack'[k][3])
                      /\ TokenLies(begins'[k], stateStack'[k][1], stateStack'[k][3])
    OBVIOUS
  <2>1. CASE k \in 1..Len(stateStack)
    <3>1. stateStack'[k] = stateStack[k] /\ begins'[k] = begins[k]
      BY <1>5, <1>6, <1>8, <2>1
    <3>2. QED
      BY <2>1, <3>1 DEF LexerInv, SavedLie
  <2>2. CASE k = Len(stateStack) + 1
    <3>1. stateStack'[k] = position /\ begins'[k] = tok
      BY <1>5, <1>6, <1>8, <2>2
    <3>2. QED
      BY <1>2, <3>1 DEF LexerInv
  <2>3. QED
    BY <1>5, <2>1, <2>2
<1>10. SavedLie'
  <2>1. \A k \in 1..Len(stateStack') :
        /\ PositionLies(stateStack[k][1], stateStack[k][2], stateStack[k][3])'
        /\ TokenLies(begins[k], stateStack[k][1], stateStack[k][3])'
    BY <1>1, <1>9 DEF PositionLies, TokenLies, NoToken
  <2>2. Len(stateStack') <= MaxSaved /\ Len(begins') = Len(stateStack')
    BY <1>5, <1>6, <1>8, SavedAssumption
  <2>3. QED
    BY <1>5, <1>7, <2>1, <2>2 DEF SavedLie, Positions
<1>11. QED
  BY <1>1, <1>10 DEF LexerInv, SaveState, PositionLies, TokenLies, NoToken

\* Restoring takes back the last position and the token that was saved with it.
LEMMA RestoreStateKeeps ==
  ASSUME LexerInv, RestoreState PROVE LexerInv'
<1> DEFINE Positions == Int \X Int \X Int
           n == Len(stateStack)
<1>1. /\ text' = text /\ BufEnd' = BufEnd /\ BufEnd \in Nat
      /\ phase' = phase /\ outcome' = outcome /\ text \in Seq(STRING)
      /\ phase \in {"idle", "skipping"} /\ outcome \in {"running", "reported", "overrun"}
  BY CharPlaces DEF LexerInv, RestoreState, BufEnd
<1>2. /\ stateStack \in Seq(Positions) /\ begins \in Seq(Range(begins)) /\ stateStack # <<>>
      /\ n \in Nat /\ n >= 1 /\ Len(begins) = n /\ begins # <<>> /\ n <= MaxSaved
  BY DEF LexerInv, SavedLie, RestoreState
<1>3. /\ stateStack' = Front(stateStack) /\ begins' = Front(begins)
      /\ BufPtr' = stateStack[n][1] /\ LineHeadPtr' = stateStack[n][2] /\ row' = stateStack[n][3]
      /\ tok' = begins[n]
  BY <1>2 DEF RestoreState, Last
<1>4. /\ stateStack' \in Seq(Positions) /\ Len(stateStack') = n - 1
      /\ \A k \in 1..(n - 1) : stateStack'[k] = stateStack[k]
  BY <1>2, <1>3, FrontType
<1>5. /\ begins' \in Seq(Range(begins)) /\ Len(begins') = n - 1
      /\ \A k \in 1..(n - 1) : begins'[k] = begins[k]
  BY <1>2, <1>3, FrontType
<1>6. begins' \in Seq(Range(begins'))
  BY <1>5, SeqOfRange
<1>7. \A k \in 1..n : /\ PositionLies(stateStack[k][1], stateStack[k][2], stateStack[k][3])
                      /\ TokenLies(begins[k], stateStack[k][1], stateStack[k][3])
  BY DEF LexerInv, SavedLie
<1>8. SavedLie'
  <2>1. \A k \in 1..Len(stateStack') :
          /\ PositionLies(stateStack'[k][1], stateStack'[k][2], stateStack'[k][3])
          /\ TokenLies(begins'[k], stateStack'[k][1], stateStack'[k][3])
    <3> SUFFICES ASSUME NEW k \in 1..(n - 1)
                 PROVE  /\ PositionLies(stateStack'[k][1], stateStack'[k][2], stateStack'[k][3])
                        /\ TokenLies(begins'[k], stateStack'[k][1], stateStack'[k][3])
      BY <1>4
    <3>1. stateStack'[k] = stateStack[k]
      BY <1>4
    <3>2. begins'[k] = begins[k]
      BY <1>5
    <3>3. k \in 1..n
      BY <1>2
    <3>4. QED
      BY <1>7, <3>1, <3>2, <3>3
  <2>2. \A k \in 1..Len(stateStack') :
          /\ PositionLies(stateStack[k][1], stateStack[k][2], stateStack[k][3])'
          /\ TokenLies(begins[k], stateStack[k][1], stateStack[k][3])'
    BY <1>1, <2>1 DEF PositionLies, TokenLies, NoToken
  <2>3. Len(stateStack') <= MaxSaved /\ Len(begins') = Len(stateStack')
    BY <1>2, <1>4, <1>5, SavedAssumption
  <2>4. QED
    BY <1>4, <1>6, <2>2, <2>3 DEF SavedLie, Positions
<1>9. PositionLies(BufPtr, LineHeadPtr, row)'
  BY <1>1, <1>2, <1>3, <1>7 DEF PositionLies
<1>10. TokenLies(tok, BufPtr, row)'
  BY <1>1, <1>2, <1>3, <1>7 DEF TokenLies, NoToken
<1>11. QED
  BY <1>1, <1>8, <1>9, <1>10 DEF LexerInv

\* A turn of the loop moves forward, by as many lines as characters at most, and the
\* line begins behind the last character that ends one.
LEMMA SkipKeeps ==
  ASSUME LexerInv, Skip PROVE LexerInv' /\ BufPtr' > BufPtr
<1> DEFINE after == CASE LineComment  -> Min({j \in BufPtr..BufEnd : Char(j) = NewLine \/ j = BufEnd})
                      [] BlockComment -> EndOfBlock + 2
                      [] OTHER        -> BufPtr
           to == IF after >= BufEnd THEN after ELSE after + 1
           lines == Lines(BufPtr, to)
<1>1. /\ text \in Seq(STRING) /\ BufEnd \in Nat /\ BufPtr \in Nat /\ BufPtr >= 1
      /\ row \in Nat /\ row >= 1 /\ row <= BufPtr
      /\ LineHeadPtr \in Nat /\ LineHeadPtr >= 1 /\ LineHeadPtr <= BufPtr
  BY CharPlaces DEF LexerInv, PositionLies
<1>2. BufPtr < BufEnd
  <2>1. CASE Char(BufPtr) \in WhiteSpace
    <3>1. Char(BufPtr) # Null
      BY <2>1 DEF WhiteSpace, NewLine, Null
    <3> HIDE DEF to, lines, after
    <3>2. QED
      BY <1>1, <3>1, CharPlaces
  <2>2. CASE LineComment \/ BlockComment
    BY <1>1, <2>2 DEF LineComment, BlockComment, StartWith
  <2>3. QED
    BY <2>1, <2>2 DEF Skip, ToSkip
<1>3. after \in BufPtr..(BufEnd + 2)
  <2> DEFINE ends == {j \in BufPtr..BufEnd : Char(j) = NewLine \/ j = BufEnd}
  <2>1. Min(ends) \in BufPtr..BufEnd
    <3>1. ends \in SUBSET Nat /\ BufEnd \in ends
      BY <1>1, <1>2
    <3>2. Min(ends) \in ends
      BY <3>1, MinOfPlaces
    <3>3. QED
      BY <3>2
  <2>2. EndOfBlock \in BufPtr..BufEnd
    <3> DEFINE closed == {j \in BufPtr..BufEnd : StartWith(j, "*/") \/ j = BufEnd}
    <3>1. closed \in SUBSET Nat /\ BufEnd \in closed
      BY <1>1, <1>2
    <3>2. Min(closed) \in closed
      BY <3>1, MinOfPlaces
    <3>3. QED
      BY <3>2 DEF EndOfBlock
  <2>3. after = Min(ends) \/ after = EndOfBlock + 2 \/ after = BufPtr
    <3> HIDE DEF ends
    <3>1. CASE LineComment
      BY <3>1 DEF ends
    <3>2. CASE ~LineComment
      BY <3>2
    <3>3. QED
      BY <3>1, <3>2
  <2> HIDE DEF after, ends
  <2>4. QED
    BY <1>1, <1>2, <2>1, <2>2, <2>3
<1>4. /\ row' = row + Cardinality(lines)
      /\ LineHeadPtr' = IF lines = {} THEN LineHeadPtr ELSE Max(lines) + 1
      /\ BufPtr' = to
      /\ tok' = [tok EXCEPT !.type = "eof"] \/ tok' = tok
      /\ phase' \in {"idle", "skipping"}
      /\ text' = text /\ UNCHANGED clientVars /\ outcome' = outcome
  BY DEF Skip, OneFurther, LexerInv
<1> HIDE DEF after
<1>5. to \in Nat /\ to >= BufPtr /\ to <= BufEnd + 2
  BY <1>1, <1>3
<1>6. \A j \in lines : j \in BufPtr..(to - 1) /\ j \in BufPtr..(BufEnd - 1)
  <2> HIDE DEF to
  <2>1. \A j \in lines : j \in BufPtr..(to - 1) /\ Char(j) = NewLine
    BY DEF Lines
  <2>2. NewLine # Null
    BY DEF NewLine, Null
  <2>3. QED
    BY <1>1, <1>5, <2>1, <2>2, CharPlaces
<1> HIDE DEF to, lines
<1>7. /\ Cardinality(lines) \in Nat
      /\ Cardinality(lines) <= to - BufPtr /\ Cardinality(lines) <= BufEnd - BufPtr
  <2> DEFINE A == BufPtr..(to - 1)
             B == BufPtr..(BufEnd - 1)
  <2>1. IsFiniteSet(A) /\ Cardinality(A) = to - BufPtr
    <3>1. to - 1 \in Int /\ BufPtr \in Int /\ to - 1 >= BufPtr - 1
      BY <1>1, <1>5
    <3>2. IsFiniteSet(A) /\ Cardinality(A) = IF BufPtr > to - 1 THEN 0 ELSE (to - 1) - BufPtr + 1
      BY <3>1, FS_Interval
    <3>3. QED
      BY <1>1, <1>5, <3>2
  <2>2. IsFiniteSet(B) /\ Cardinality(B) = BufEnd - BufPtr
    <3>1. BufEnd - 1 \in Int /\ BufPtr \in Int
      BY <1>1
    <3>2. IsFiniteSet(B) /\ Cardinality(B) = IF BufPtr > BufEnd - 1 THEN 0 ELSE (BufEnd - 1) - BufPtr + 1
      BY <3>1, FS_Interval
    <3>3. QED
      BY <1>1, <1>2, <3>2
  <2>3. lines \in SUBSET A /\ lines \in SUBSET B
    BY <1>6
  <2> HIDE DEF A, B
  <2>4. IsFiniteSet(lines) /\ Cardinality(lines) <= Cardinality(A)
    BY <2>1, <2>3, FS_Subset
  <2>5. Cardinality(lines) <= Cardinality(B)
    BY <2>2, <2>3, FS_Subset
  <2>6. Cardinality(lines) \in Nat
    BY <2>4, FS_CardinalityType
  <2>7. QED
    BY <2>1, <2>2, <2>4, <2>5, <2>6
<1>8. LineHeadPtr' \in 1..to
  <2>1. CASE lines = {}
    BY <1>1, <1>4, <1>5, <2>1
  <2>2. CASE lines # {}
    <3>1. lines \in SUBSET (1..BufEnd)
      BY <1>1, <1>6
    <3>2. Max(lines) \in lines
      BY <1>1, <2>2, <3>1, MaxOfIndices
    <3>3. QED
      BY <1>1, <1>4, <1>5, <1>6, <2>2, <3>2
  <2>3. QED
    BY <2>1, <2>2
<1>9. BufEnd' = BufEnd
  BY <1>4 DEF BufEnd
<1>10. PositionLies(BufPtr, LineHeadPtr, row)'
  <2>1. BufPtr' \in 1..(BufEnd + 2)
    BY <1>1, <1>4, <1>5
  <2>2. row' \in Nat /\ row' >= row /\ row' <= BufPtr' /\ row' <= BufEnd
    BY <1>1, <1>4, <1>5, <1>7
  <2>3. QED
    BY <1>1, <1>4, <1>8, <1>9, <2>1, <2>2 DEF PositionLies
<1>11. TokenLies(tok, BufPtr, row)'
  <2>1. TokenLies(tok, BufPtr, row)
    BY DEF LexerInv
  <2>2. /\ DOMAIN tok' = DOMAIN NoToken
        /\ tok'.row = tok.row /\ tok'.ptr = tok.ptr /\ tok'.len = tok.len
    BY <1>4, <2>1 DEF TokenLies, NoToken
  <2>3. BufPtr' >= BufPtr /\ row' >= row /\ BufPtr' \in Int /\ row' \in Int
    BY <1>1, <1>4, <1>5, <1>7
  <2>4. DOMAIN NoToken = (DOMAIN NoToken)'
    BY DEF NoToken
  <2>5. tok.row \in 0..row /\ tok.ptr \in Int /\ tok.len \in Int /\ tok.ptr + tok.len <= BufPtr
    BY <2>1 DEF TokenLies
  <2>6. tok'.row \in 0..row' /\ tok'.ptr + tok'.len <= BufPtr'
    BY <1>1, <2>2, <2>3, <2>5
  <2>7. QED
    BY <2>2, <2>4, <2>5, <2>6 DEF TokenLies
<1>12. SavedLie'
  BY <1>4, SavedStay DEF LexerInv
<1>13. BufPtr' > BufPtr
  BY <1>1, <1>2, <1>3, <1>4 DEF to
<1>14. QED
  BY <1>1, <1>4, <1>10, <1>11, <1>12, <1>13 DEF LexerInv

LEMMA AtEndKeeps ==
  ASSUME LexerInv, AtEnd PROVE LexerInv' /\ Further
<1> DEFINE t == [tok EXCEPT !.type = "eof"]
<1>1. ASSUME BufPtr <= BufEnd + 1 PROVE LexerInv'
  <2>1. BufPtr \in BufPtr..(BufEnd + 1)
    BY <1>1, CharPlaces DEF LexerInv, PositionLies
  <2>2. TokenLies(t, BufPtr, row)
    BY DEF LexerInv, TokenLies, NoToken
  <2>3. Idle(t, BufPtr)
    BY DEF AtEnd, Eof
  <2> HIDE DEF t
  <2>4. QED
    BY <2>1, <2>2, <2>3, IdleKeeps
<1>2. ASSUME BufPtr > BufEnd + 1 PROVE LexerInv'
  <2>1. /\ SavedLie' /\ BufEnd' = BufEnd
    BY SavedStay DEF LexerInv, AtEnd, Eof, Idle, BufEnd
  <2>2. TokenLies(tok, BufPtr, row)'
    BY DEF LexerInv, AtEnd, Eof, Idle, TokenLies, NoToken
  <2>3. QED
    BY <2>1, <2>2 DEF LexerInv, AtEnd, Eof, Idle, PositionLies
<1>3. Further
  BY DEF LexerInv, AtEnd, Eof, Idle, TokenLies, NoToken, Further
<1>4. QED
  BY <1>1, <1>2, <1>3, CharPlaces DEF LexerInv, PositionLies

\* A character has one place, or two behind a backslash, and a quote behind it.
LEMMA CharLiteralKeeps ==
  ASSUME LexerInv, CharLiteral PROVE LexerInv' /\ Further
<1> DEFINE c == CChar(BufPtr + 1)
           t == [Token("number", c.next + 1) EXCEPT !.ty = "Int", !.value.low = <<"char", c.char>>]
<1>1. BufPtr \in Nat /\ BufEnd \in Nat /\ BufPtr >= 1
  BY CharPlaces DEF LexerInv, PositionLies
<1>2. c.next = BufPtr + 2 \/ c.next = BufPtr + 3
  BY <1>1 DEF CChar
<1>3. \/ c.next > BufEnd /\ Stop("overrun")
      \/ Stop("reported")
      \/ ~(c.next > BufEnd) /\ Idle(t, c.next + 1)
  BY DEF CharLiteral, Report
<1> HIDE DEF c
<1>4. CASE ~(c.next > BufEnd) /\ Idle(t, c.next + 1)
  <2>1. c.next + 1 \in (BufPtr + 1)..(BufEnd + 1) /\ c.next + 1 \in Int
    BY <1>1, <1>2, <1>4
  <2>2. DOMAIN Token("number", c.next + 1) = DOMAIN NoToken /\ Token("number", c.next + 1).row = row
    BY <2>1, HereLies
  <2>3. /\ DOMAIN t = DOMAIN NoToken /\ t.row = row
        /\ t.ptr = Token("number", c.next + 1).ptr /\ t.len = Token("number", c.next + 1).len
    BY <2>2 DEF NoToken
  <2> HIDE DEF t
  <2>4. QED
    BY <1>4, <2>1, <2>3, TokenKeeps
<1>5. QED
  BY <1>3, <1>4, StopKeeps

\* A string has its characters between two quotes, and a length without the last.
LEMMA StringLiteralKeeps ==
  ASSUME LexerInv, StringLiteral PROVE LexerInv' /\ Further
<1> DEFINE c == Content(BufPtr + 1)
           len == c.end - BufPtr
           t == [Here EXCEPT !.type = "str", !.ptr = BufPtr + 1, !.len = len,
                             !.ty = "string", !.strVal = c.value, !.size = len]
<1>1. /\ BufPtr \in Nat /\ BufEnd \in Nat /\ BufPtr >= 1 /\ BufPtr <= BufEnd - 1 /\ row \in 0..row
      /\ text \in Seq(STRING)
  <2>1. Char(BufPtr) # Null
    BY DEF StringLiteral, Scanning, DoubleQuote, Null
  <2>2. QED
    BY <2>1, CharPlaces DEF LexerInv, PositionLies
<1>2. c.end \in (BufPtr + 1)..(BufEnd + 1)
  BY <1>1, ContentLies
<1>3. \/ Stop("overrun") \/ Stop("reported")
      \/ ~(c.end > BufEnd) /\ Idle(t, c.end + 1)
  BY DEF StringLiteral, Report
<1> HIDE DEF c
<1>4. CASE ~(c.end > BufEnd) /\ Idle(t, c.end + 1)
  <2>1. c.end + 1 \in BufPtr..(BufEnd + 1)
    BY <1>1, <1>2, <1>4
  <2>2. DOMAIN Here = DOMAIN NoToken /\ Here.row = row
    BY <1>1, HereLies
  <2>3. DOMAIN t = DOMAIN NoToken /\ t.row = row /\ t.ptr = BufPtr + 1 /\ t.len = c.end - BufPtr
    BY <2>2 DEF NoToken
  <2> HIDE DEF t
  <2>4. TokenLies(t, c.end + 1, row)
    BY <1>1, <1>2, <2>3 DEF TokenLies
  <2>5. LexerInv'
    BY <1>4, <2>1, <2>4, IdleKeeps
  <2>6. Further
    BY <1>1, <1>2, <1>4 DEF Idle, Further
  <2>7. QED
    BY <2>5, <2>6
<1>5. QED
  BY <1>3, <1>4, StopKeeps

\* A number ends where NumberEnd says.
LEMMA NumberKeeps ==
  ASSUME LexerInv, Number PROVE LexerInv' /\ Further
<1> DEFINE end == NumberEnd
           int == ConvertIntNumber(end)
           number == IF int.res THEN int ELSE ConvertFloatNumber(end)
           t == [Token("number", end) EXCEPT !.ty = number.ty, !.value = number.value]
<1>1. /\ text \in Seq(STRING) /\ BufPtr \in 1..BufEnd /\ BufEnd \in Nat
  <2>1. Char(BufPtr) # Null
    BY DEF Number, Scanning, IsNumber, Digits, Null
  <2>2. QED
    BY <2>1, CharPlaces DEF LexerInv, PositionLies
<1>2. end \in BufPtr..BufEnd /\ end > BufPtr
  BY <1>1, NumberEndLies DEF Number, Scanning
<1>3. Stop("reported") \/ Idle(t, end)
  BY DEF Number, Report
<1> HIDE DEF end, int, number
<1>4. CASE Idle(t, end)
  <2>1. end \in (BufPtr + 1)..(BufEnd + 1) /\ end \in Int
    BY <1>1, <1>2
  <2>2. DOMAIN Token("number", end) = DOMAIN NoToken /\ Token("number", end).row = row
    BY <2>1, HereLies
  <2>3. /\ DOMAIN t = DOMAIN NoToken /\ t.row = row
        /\ t.ptr = Token("number", end).ptr /\ t.len = Token("number", end).len
    BY <2>2 DEF NoToken
  <2> HIDE DEF t
  <2>4. QED
    BY <1>4, <2>1, <2>3, TokenKeeps
<1>5. QED
  BY <1>3, <1>4, StopKeeps

\* A word ends where its letters and digits end.
LEMMA WordKeeps ==
  ASSUME LexerInv, Word PROVE LexerInv' /\ Further
<1> DEFINE end == Run(Alnum \cup {"_"}, BufPtr)
           word == Spelling(BufPtr, end)
           type == IF word \in KeywordSpellings THEN word ELSE "identifier"
<1>1. /\ text \in Seq(STRING) /\ BufPtr \in 1..BufEnd /\ BufEnd \in Nat
  <2>1. Char(BufPtr) # Null
    BY DEF Word, Scanning, Letters, HexLetters, Null
  <2>2. QED
    BY <2>1, CharPlaces DEF LexerInv, PositionLies
<1>2. Null \notin Alnum \cup {"_"}
  BY DEF Null, Alnum, Digits, Letters, HexLetters
<1>3. end \in BufPtr..BufEnd /\ end > BufPtr
  <2>1. Char(BufPtr) \in Alnum \cup {"_"}
    BY DEF Word, Scanning, Alnum
  <2>2. QED
    BY <1>1, <1>2, <2>1, RunLies
<1>4. Idle(Token(type, end), end)
  BY DEF Word
<1> HIDE DEF end, type
<1>5. end \in (BufPtr + 1)..(BufEnd + 1) /\ end \in Int
  BY <1>1, <1>3
<1>6. DOMAIN Token(type, end) = DOMAIN NoToken /\ Token(type, end).row = row
  BY <1>5, HereLies
<1>7. QED
  BY <1>4, <1>5, <1>6, TokenKeeps

\* An operator that starts here ends in the buffer.
LEMMA OperatorKeeps ==
  ASSUME LexerInv, Operator PROVE LexerInv' /\ Further
<1> DEFINE found == {k \in DOMAIN Operators : StartWith(BufPtr, Operators[k])}
           op == Operators[Min(found)]
           end == CHOOSE to \in (BufPtr+1)..(BufPtr+3) : to <= BufEnd /\ Spelling(BufPtr, to) = op
<1>1. BufPtr \in Nat /\ BufEnd \in Nat /\ BufPtr >= 1
  BY CharPlaces DEF LexerInv, PositionLies
<1>2. Stop("reported") \/ (found # {} /\ Idle(Token(op, end), end))
  BY DEF Operator, Report
<1>3. CASE found # {} /\ Idle(Token(op, end), end)
  <2>1. found \in SUBSET Nat
    <3>1. DOMAIN Operators \subseteq Nat
      BY DEF Operators
    <3>2. QED
      BY <3>1
  <2>2. Min(found) \in found
    BY <1>3, <2>1, MinOfPlaces
  <2>3. StartWith(BufPtr, op)
    BY <2>2
  <2> HIDE DEF op
  <2>4. \E to \in (BufPtr+1)..(BufPtr+3) : to <= BufEnd /\ Spelling(BufPtr, to) = op
    BY <2>3 DEF StartWith
  <2>5. end \in (BufPtr+1)..(BufPtr+3) /\ end <= BufEnd
    BY <2>4
  <2> HIDE DEF end
  <2>6. end \in (BufPtr + 1)..(BufEnd + 1) /\ end \in Int
    BY <1>1, <2>5
  <2>7. DOMAIN Token(op, end) = DOMAIN NoToken /\ Token(op, end).row = row
    BY <2>6, HereLies
  <2>8. QED
    BY <1>3, <2>6, <2>7, TokenKeeps
<1>4. QED
  BY <1>2, <1>3, StopKeeps

LEMMA StepKeeps == LexerInv /\ [Next]_vars => LexerInv'
<1> SUFFICES ASSUME LexerInv, [Next]_vars PROVE LexerInv'
  OBVIOUS
<1>1. CASE NextToken
  BY <1>1, NextTokenKeeps
<1>2. CASE SaveState
  BY <1>2, SaveStateKeeps
<1>3. CASE RestoreState
  BY <1>3, RestoreStateKeeps
<1>4. CASE Skip
  BY <1>4, SkipKeeps
<1>5. CASE AtEnd
  BY <1>5, AtEndKeeps
<1>6. CASE CharLiteral
  BY <1>6, CharLiteralKeeps
<1>7. CASE StringLiteral
  BY <1>7, StringLiteralKeeps
<1>8. CASE Number
  BY <1>8, NumberKeeps
<1>9. CASE Word
  BY <1>9, WordKeeps
<1>10. CASE Operator
  BY <1>10, OperatorKeeps
<1>11. CASE UNCHANGED vars
  BY <1>11, StutterKeeps
<1>12. QED
  BY <1>1, <1>2, <1>3, <1>4, <1>5, <1>6, <1>7, <1>8, <1>9, <1>10, <1>11
     DEF Next, Client, Scan, Done, Rest

-----------------------------------------------------------------------------

(* The theorem. *)

\* In every text, with the parser's three calls in any order and nested to any depth,
\* NextToken stays in the buffer or two places behind its end, the line that columns are
\* counted from begins before the place that is read, the rows are at most the lines of
\* the text, and the token that the parser holds ends before that place and was read in
\* that row or before: also when a position has been restored.
THEOREM LexerTypeCorrect == Spec => []TypeOK
<1>1. LexerInv => TypeOK
  <2> SUFFICES ASSUME LexerInv PROVE TypeOK
    OBVIOUS
  <2>1. row \in 1..(Len(text) + 1)
    BY DEF LexerInv, PositionLies, BufEnd
  <2>2. tok.row <= row
    BY DEF LexerInv, PositionLies, TokenLies
  <2>3. QED
    BY <2>1, <2>2 DEF TypeOK, LexerInv, PositionLies, TokenLies, SavedLie
<1>2. QED
  BY InitKeeps, StepKeeps, <1>1, PTL DEF Spec

\* The safety half of a loop that ends: every turn of NextToken's loop moves BufPtr forward,
\* and so does every call that reads a token and is neither at the end nor reports.  With
\* the bound of TypeOK, a text has at most two more turns and tokens than characters.
THEOREM LexerAdvances ==
  Spec => [][/\ Skip => BufPtr' > BufPtr
             /\ Scan => BufPtr' > BufPtr \/ tok'.type = "eof" \/ outcome' # "running"]_vars
<1> DEFINE Forward == /\ Skip => BufPtr' > BufPtr
                      /\ Scan => BufPtr' > BufPtr \/ tok'.type = "eof" \/ outcome' # "running"
<1>1. LexerInv /\ [Next]_vars => [Forward]_vars
  <2> SUFFICES ASSUME LexerInv PROVE Forward
    OBVIOUS
  <2>1. Skip => BufPtr' > BufPtr
    BY SkipKeeps
  <2>2. Scan => Further
    BY AtEndKeeps, CharLiteralKeeps, StringLiteralKeeps, NumberKeeps, WordKeeps, OperatorKeeps
       DEF Scan
  <2>3. QED
    BY <2>1, <2>2 DEF Further
<1>2. QED
  BY InitKeeps, StepKeeps, <1>1, PTL DEF Spec

=============================================================================
