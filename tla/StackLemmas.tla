---------------------------- MODULE StackLemmas ----------------------------
(***************************************************************************)
(* Stacks, which are sequences with their top at the end: popping one, and *)
(* searching one from the top, which ends at the greatest index found.     *)
(***************************************************************************)
EXTENDS SequencesExt, SequenceTheorems, WellFoundedInduction, TLAPS

\* Every nonempty set of naturals has a least element.
LEMMA NatMinimum ==
  ASSUME NEW T \in SUBSET Nat, T # {}
  PROVE  \E x \in T : \A y \in T : x <= y
<1>1. IsWellFoundedOn(OpToRel(<, Nat), Nat)
  BY NatLessThanWellFounded
<1>2. PICK x \in T : \A y \in T : <<y, x>> \notin OpToRel(<, Nat)
  BY <1>1, WFMin
<1>3. \A y \in T : ~(y < x)
  BY <1>2 DEF OpToRel
<1>4. QED
  BY <1>3

\* The stack indices among which a search takes the innermost have a maximum.
LEMMA MaxOfIndices ==
  ASSUME NEW N \in Nat, NEW S \in SUBSET (1 .. N), S # {}
  PROVE  Max(S) \in S /\ \A y \in S : Max(S) >= y
<1> DEFINE T == {N - i : i \in S}
<1>1. T \in SUBSET Nat /\ T # {}
  <2>1. T \subseteq Nat
    OBVIOUS
  <2>2. PICK i \in S : TRUE
    OBVIOUS
  <2>3. N - i \in T
    OBVIOUS
  <2>4. QED
    BY <2>1, <2>3
<1>2. PICK x \in T : \A y \in T : x <= y
  BY <1>1, NatMinimum
<1>3. PICK i \in S : x = N - i
  OBVIOUS
<1>4. \A y \in S : i >= y
  <2> SUFFICES ASSUME NEW y \in S PROVE i >= y
    OBVIOUS
  <2>1. N - y \in T
    OBVIOUS
  <2>2. x <= N - y
    BY <1>2, <2>1
  <2>3. QED
    BY <1>3, <2>2
<1>5. QED
  BY <1>4 DEF Max

\* A sequence without its last element.
LEMMA FrontType ==
  ASSUME NEW S, NEW s \in Seq(S), s # <<>>
  PROVE  /\ Front(s) \in Seq(S)
         /\ Len(Front(s)) = Len(s) - 1
         /\ \A i \in 1 .. Len(s) - 1 : Front(s)[i] = s[i]
<1>1. Len(s) \in Nat /\ Len(s) >= 1
  OBVIOUS
<1>2. Len(Front(s)) = Len(s) - 1
  BY SMTT(60), <1>1 DEF Front
<1>3. \A i \in 1 .. Len(s) - 1 : Front(s)[i] = s[i]
  BY <1>1 DEF Front
<1>4. Front(s) \in Seq(S)
  BY <1>1 DEF Front
<1>5. QED
  BY <1>2, <1>3, <1>4

\* The last element of a sequence.
LEMMA LastType ==
  ASSUME NEW S, NEW s \in Seq(S), s # <<>>
  PROVE  Last(s) \in S /\ Last(s) = s[Len(s)]
BY DEF Last

\* A sequence of one element.
LEMMA OneElement ==
  ASSUME NEW S, NEW x \in S
  PROVE  <<x>> \in Seq(S) /\ <<x>> # <<>> /\ Len(<<x>>) = 1 /\ <<x>>[1] = x
OBVIOUS

\* A sequence of two elements.
LEMMA TwoElements ==
  ASSUME NEW S, NEW x \in S, NEW y \in S
  PROVE  /\ <<x, y>> \in Seq(S) /\ <<x, y>> # <<>>
         /\ Len(<<x, y>>) = 2 /\ <<x, y>>[1] = x /\ <<x, y>>[2] = y
OBVIOUS

\* The concatenation of two sequences.
LEMMA ConcatType ==
  ASSUME NEW S, NEW s \in Seq(S), NEW t \in Seq(S)
  PROVE  s \o t \in Seq(S)
BY ConcatProperties

\* The last element of an extended sequence is new, the others are not.
LEMMA AppendParts ==
  ASSUME NEW S, NEW s \in Seq(S), NEW x \in S
  PROVE  /\ Append(s, x) \in Seq(S) /\ Len(Append(s, x)) = Len(s) + 1 /\ Len(s) \in Nat
         /\ Append(s, x)[Len(s) + 1] = x
         /\ \A i \in 1 .. Len(s) : Append(s, x)[i] = s[i]
         /\ \A i \in 1 .. Len(s) + 1 : i \in 1 .. Len(s) \/ i = Len(s) + 1
         /\ DOMAIN s = 1 .. Len(s) /\ DOMAIN Append(s, x) = 1 .. Len(s) + 1
<1>1. Append(s, x) \in Seq(S) /\ Len(Append(s, x)) = Len(s) + 1 /\ Len(s) \in Nat
  OBVIOUS
<1>2. Append(s, x)[Len(s) + 1] = x
  OBVIOUS
<1>3. \A i \in 1 .. Len(s) : Append(s, x)[i] = s[i]
  OBVIOUS
<1>4. \A i \in 1 .. Len(s) + 1 : i \in 1 .. Len(s) \/ i = Len(s) + 1
  BY <1>1
<1>5. DOMAIN s = 1 .. Len(s) /\ DOMAIN Append(s, x) = 1 .. Len(s) + 1
  OBVIOUS
<1>6. QED
  BY <1>1, <1>2, <1>3, <1>4, <1>5

\* A pushed stack is not empty, and what was pushed is on top.
LEMMA PushTop ==
  ASSUME NEW S, NEW s \in Seq(S), NEW x \in S
  PROVE  Append(s, x) # <<>> /\ Last(Append(s, x)) = x
<1>1. Append(s, x) # <<>>
  BY AppendProperties, ZenonT(60)
<1>2. Append(s, x)[Len(Append(s, x))] = x
  <2> DEFINE t == Append(s, x)
  <2>1. Len(t) = Len(s) + 1 /\ t[Len(s) + 1] = x
    BY AppendParts
  <2> HIDE DEF t
  <2>2. t[Len(t)] = x
    BY <2>1
  <2>3. QED
    BY <2>2 DEF t
<1>3. QED
  BY <1>1, <1>2, Zenon DEF Last

\* Appending a pair is appending twice.
LEMMA AppendTwo ==
  ASSUME NEW S, NEW s \in Seq(S), NEW x \in S, NEW y \in S
  PROVE  s \o <<x, y>> = Append(Append(s, x), y)
<1> DEFINE p == <<x, y>>
           t == s \o p
           u == Append(s, x)
           v == Append(u, y)
           n == Len(s)
<1>1. p \in Seq(S) /\ Len(p) = 2 /\ p[1] = x /\ p[2] = y
  BY TwoElements
<1> HIDE DEF p
<1>2. /\ t \in Seq(S) /\ Len(t) = n + 2 /\ n \in Nat
      /\ \A i \in 1 .. n : t[i] = s[i]
      /\ t[n + 1] = x /\ t[n + 2] = y
  <2>1. /\ t \in Seq(S) /\ Len(t) = n + Len(p)
        /\ \A i \in 1 .. n + Len(p) : t[i] = IF i <= n THEN s[i] ELSE p[i - n]
    BY <1>1, ConcatProperties, Zenon
  <2> HIDE DEF t
  <2>2. n \in Nat
    OBVIOUS
  <2>3. \A i \in 1 .. n : t[i] = s[i]
    BY <1>1, <2>1, <2>2
  <2>4. t[n + 1] = x /\ t[n + 2] = y
    <3>1. t[n + 1] = p[n + 1 - n] /\ t[n + 2] = p[n + 2 - n]
      BY SMTT(60), <1>1, <2>1, <2>2
    <3>2. n + 1 - n = 1 /\ n + 2 - n = 2
      BY <2>2
    <3>3. QED
      BY <1>1, <3>1, <3>2
  <2>5. QED
    BY <1>1, <2>1, <2>2, <2>3, <2>4
<1>3. /\ u \in Seq(S) /\ Len(u) = n + 1 /\ u[n + 1] = x
      /\ \A i \in 1 .. n : u[i] = s[i]
  BY AppendParts
<1> HIDE DEF u
<1>4. /\ v \in Seq(S) /\ Len(v) = n + 2 /\ v[n + 2] = y
      /\ \A i \in 1 .. n + 1 : v[i] = u[i]
  BY <1>2, <1>3
<1> HIDE DEF t, v, n
<1>5. \A i \in 1 .. n + 2 : i \in 1 .. n \/ i = n + 1 \/ i = n + 2
  BY <1>2
<1>6. \A i \in 1 .. n : i \in 1 .. n + 1
  BY <1>2
<1>7. n + 1 \in 1 .. n + 1
  BY <1>2
<1>8. \A i \in 1 .. n + 2 : t[i] = v[i]
  BY <1>2, <1>3, <1>4, <1>5, <1>6, <1>7
<1>9. t = v
  <2>1. Len(t) = Len(v) /\ \A i \in 1 .. Len(t) : t[i] = v[i]
    BY <1>2, <1>4, <1>8
  <2>2. QED
    BY <1>2, <1>4, <2>1, SeqEqual, Zenon
<1>10. QED
  BY <1>9 DEF t, v, u, p

\* A second element.
LEMMA AppendToOne ==
  ASSUME NEW S, NEW s \in Seq(S), NEW x \in S
  PROVE  Len(s) = 1 => /\ Append(s, x) \in Seq(S) /\ Len(Append(s, x)) = 2
                       /\ Append(s, x)[1] = s[1] /\ Append(s, x)[2] = x
<1>1. /\ Append(s, x) \in Seq(S) /\ Len(Append(s, x)) = Len(s) + 1
      /\ Append(s, x)[Len(s) + 1] = x
      /\ \A i \in 1 .. Len(s) : Append(s, x)[i] = s[i]
  BY AppendParts
<1> DEFINE t == Append(s, x)
<1> HIDE DEF t
<1>2. ASSUME Len(s) = 1 PROVE t \in Seq(S) /\ Len(t) = 2 /\ t[1] = s[1] /\ t[2] = x
  <2>1. t \in Seq(S) /\ Len(t) = 2 /\ t[2] = x /\ \A i \in 1 .. 1 : t[i] = s[i]
    BY <1>1, <1>2 DEF t
  <2>2. QED
    BY <2>1
<1>3. QED
  BY <1>2 DEF t

\* Popping leaves a sequence, also of nothing.
LEMMA PopType ==
  ASSUME NEW S, NEW s \in Seq(S)
  PROVE  Front(s) \in Seq(S)
<1>1. CASE s = <<>>
  <2>1. Len(s) = 0
    BY <1>1
  <2>2. Front(s) = <<>>
    BY <2>1, SubSeqEmpty DEF Front
  <2>3. QED
    BY <2>2
<1>2. CASE s # <<>>
  BY <1>2, FrontType, Zenon
<1>3. QED
  BY <1>1, <1>2

\* Popping what was pushed leads back.
LEMMA FrontOfAppend ==
  ASSUME NEW S, NEW s \in Seq(S), NEW x \in S
  PROVE  Front(Append(s, x)) = s
<1> DEFINE t == Append(s, x)
<1>1. t \in Seq(S) /\ Len(t) = Len(s) + 1 /\ t # <<>> /\ \A i \in 1 .. Len(s) : t[i] = s[i]
  <2>1. t # <<>>
    BY AppendProperties, ZenonT(60)
  <2>2. QED
    BY <2>1
<1> HIDE DEF t
<1> DEFINE u == Front(t)
<1>2. u \in Seq(S) /\ Len(u) = Len(t) - 1 /\ \A i \in 1 .. Len(t) - 1 : u[i] = t[i]
  BY <1>1, FrontType, Zenon
<1> HIDE DEF u
<1>3. Len(u) = Len(s) /\ \A i \in 1 .. Len(u) : u[i] = s[i]
  <2>1. Len(s) \in Nat
    OBVIOUS
  <2>2. QED
    BY <1>1, <1>2, <2>1
<1>4. u = s
  BY <1>2, <1>3, SeqEqual, Zenon
<1>5. QED
  BY <1>4 DEF u, t

\* The length of a concatenation.
LEMMA ConcatLength ==
  ASSUME NEW S, NEW s \in Seq(S), NEW T, NEW t \in Seq(T)
  PROVE  Len(s \o t) = Len(s) + Len(t) /\ Len(s) \in Nat /\ Len(t) \in Nat
OBVIOUS

=============================================================================
